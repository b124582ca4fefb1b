CONSTANTS
  MaxSfn <- MCMaxSfn
  Cells <- MCCells
  Sib13s <- MCSib13s
  McchMsgs <- MCMcchMsgs
  PrbOverrides <- MCPrbOverrides

SPECIFICATION Spec

INVARIANT MchOnlyOnMbsfnSubframes
