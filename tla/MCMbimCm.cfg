SPECIFICATION FairSpec
CONSTANTS
  MaxTid = 3
  ConnectAnswers = {"up", "down", "going"}
  MaxChanges = 1
  NULL = NULL
INVARIANTS TypeOK LinkFollowsCall
PROPERTIES ImplementsQmiCall HangupEnds Redials
\* The process ends, or hangs in its signal handler or in pthread_join.
CHECK_DEADLOCK FALSE
