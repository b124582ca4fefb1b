CONSTANTS
  Workers = {w1, w2, w3}
  NumSubframes = 10
  Cells = {c1, c2}
  NoCell = NoCell
  NoJob = NoJob

SPECIFICATION Spec

INVARIANT TypeOK
INVARIANT ProcessesDispatchedSubframe
INVARIANT DecodedWithReceivingCell
INVARIANT LockHeldByOwner
