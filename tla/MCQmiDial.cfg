SPECIFICATION FairSpec
CONSTANTS
  LongWords = 2
  AllowTime <- MCAllowTime
  LastDelay = 60
  RebootAfter = 3
  Garbage = {0, 7}
  MaxAddr = 2
  QueueCap = 1
INVARIANTS TypeOK LinkIsCurrent
PROPERTIES DropNoticed DialsAgain
