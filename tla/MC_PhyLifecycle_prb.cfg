CONSTANTS
  MaxSfn <- MCMaxSfn
  Cells <- MCCells
  Sib13s <- MCSib13sWide
  McchMsgs <- MCMcchMsgs
  PrbOverrides <- MCPrbOverrides
  ResetOnSearch = TRUE
  SfnOffsets = {0, 1}
  MaxAcquisitions = 2

SPECIFICATION Spec

INVARIANT MbsfnPrbWithinCell
