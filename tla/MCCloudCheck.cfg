SPECIFICATION Spec
CONSTANTS
  Kinds = {"simple", "reboot", "factory", "config", "software"}
  NActions = 2
  MaxRestarts = 2
  MaxWakes = 1
  MaxSeq = 4
  NONE = NONE
INVARIANTS TypeOK ReportedWasDone
