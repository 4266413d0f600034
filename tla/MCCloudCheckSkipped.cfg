SPECIFICATION Spec
CONSTANTS
  Kinds = {"simple", "software"}
  NActions = 2
  MaxRestarts = 0
  MaxWakes = 0
  MaxSeq = 4
  NONE = NONE
PROPERTIES NoActionSkipped
