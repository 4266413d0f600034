SPECIFICATION FairSpec
CONSTANTS
  Kinds = {"simple", "reboot", "factory", "config", "software"}
  NActions = 2
  MaxRestarts = 1
  MaxWakes = 0
  MaxSeq = 4
  NONE = NONE
PROPERTIES EverythingReported
