SPECIFICATION FairSpec
CONSTANTS
  Fds = {f1, f2}
  Ids = {i1, i2}
  Proxy = Proxy
  NoId = NoId
  NoFd = NoFd
  MaxTries = 1
  MaxReq = 4
  MaxModem = 2
INVARIANTS TypeOK AnswerIsForHead IdHasOneOwner
PROPERTIES QueueMoves
