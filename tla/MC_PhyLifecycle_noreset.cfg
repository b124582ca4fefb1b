CONSTANTS
  MaxSfn <- MCMaxSfn
  Cells <- MCCells
  Sib13s <- MCSib13s
  McchMsgs <- MCMcchMsgs
  PrbOverrides <- MCPrbOverrides
  ResetOnSearch = FALSE
  SfnOffsets = {0, 1}
  MaxAcquisitions = 2

SPECIFICATION Spec

INVARIANT ScheduleFromCurrentCell
