SPECIFICATION Spec
CONSTANTS
  r1 = r1
  r2 = r2
  Requests = {r1, r2}
  MaxTurns = 3
  ProbeCounts = {2}
PROPERTIES
  VerdictIsFinal
CHECK_DEADLOCK FALSE
