SPECIFICATION FairSpec
CONSTANTS
  Addrs = {a1, a2}
  Lans = {l1, l2}
  Spare = Spare
  NoAddr = NoAddr
  Retry = 1
  MaxChanges = 2
INVARIANTS TypeOK OneManager
PROPERTIES NoteRemoved ConnectionComesBack
\* The system may stop: procd gives the monitor up, or the interface stays
\* unavailable and the monitor waits for the note to go.
CHECK_DEADLOCK FALSE
