CONSTANTS
  MaxSfn <- MCMaxSfn
  Cells <- MCCells
  Sib13s <- MCSib13s
  McchMsgs <- MCMcchMsgs
  PrbOverrides <- MCPrbOverrides

SPECIFICATION FairSpec

INVARIANT TypeOK
INVARIANT SfIdxCountsMbsfnSubframes
INVARIANT WindowsPartitionPeriod
PROPERTY EveryChannelServed
