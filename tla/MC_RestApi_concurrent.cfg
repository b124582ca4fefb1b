CONSTANTS
  Clients = {c1, c2}
  Requests <- MCRequests
  RequireBearerToken = TRUE
  CinrRavgCnt = 3
  NoReply = NoReply

SPECIFICATION Spec

PROPERTY SdrRefinesAtomicPut
