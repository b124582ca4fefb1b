CONSTANTS
  Clients = {c1}
  Requests <- MCRequests
  RequireBearerToken = TRUE
  CinrRavgCnt = 3
  NoReply = NoReply

SPECIFICATION Spec

INVARIANT CinrWindowWithinCount
