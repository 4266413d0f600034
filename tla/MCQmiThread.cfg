SPECIFICATION Spec
CONSTANTS
  Ctl = Ctl
  Services = {wds}
  MaxTid <- MCMaxTid
  Lag = 1
  MaxSend <- MCMaxSend
  IndTids = {0}
  MaxInd = 1
  MaxAlarm = 1
  EventCap = 2
  NULL = NULL
INVARIANTS TypeOK AnswerBelongsToCall RegisteredIsLive NoOrphanWaiter
PROPERTIES ImplementsQmiCall
