SPECIFICATION TimedSpec
CONSTANTS
  Ctl = Ctl
  Services = {wds}
  MaxTid <- MCMaxTid
  Lag = 1
  MaxSend <- MCMaxSendOne
  IndTids = {0}
  MaxInd = 1
  MaxAlarm = 0
  EventCap = 3
  NULL = NULL
PROPERTIES SignalQuits
