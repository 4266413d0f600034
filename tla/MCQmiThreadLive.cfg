\* The threads may really stop: main in a join, the reader in a write to a full socket.
CHECK_DEADLOCK FALSE
SPECIFICATION FairSpec
CONSTANTS
  Ctl = Ctl
  Services = {wds}
  MaxTid <- MCMaxTid
  Lag = 1
  MaxSend <- MCMaxSendOne
  IndTids = {0}
  MaxInd = 2
  MaxAlarm = 0
  EventCap = 1
  NULL = NULL
PROPERTIES StopReleasesCaller ShutdownCompletes CallReturns
