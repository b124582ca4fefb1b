CONSTANTS
  McchMsgs <- MCMcchMsgs
  DestNames <- MCDestNames
  NoDest = NoDest
  MaxMchIdx = 0

SPECIFICATION Spec

INVARIANT TypeOK
INVARIANT TmgiDecodesToSession
