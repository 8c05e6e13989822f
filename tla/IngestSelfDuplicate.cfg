SPECIFICATION Spec
CONSTANTS
  j1 = j1
  j2 = j2
  p1 = p1
  Jobs = {j1}
  Papers = {p1}
  Kind <- MixedKind
  Content <- OnePdf
  VecLoaded = TRUE
  Faults = {}
  MaxRuns = 1
PROPERTIES
  ResumeKeepsPaper
CHECK_DEADLOCK FALSE
