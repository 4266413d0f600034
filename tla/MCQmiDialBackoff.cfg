SPECIFICATION Spec
CONSTANTS
  LongWords = 2
  AllowTime <- SourceAllowTime
  LastDelay = 60
  RebootAfter = 5
  Garbage = {0, 7}
  MaxAddr = 1
  QueueCap = 1
INVARIANTS BackoffFromTable
