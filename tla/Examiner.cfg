SPECIFICATION FairSpec
CONSTANTS
  r1 = r1
  r2 = r2
  Requests = {r1, r2}
  MaxTurns = 6
  ProbeCounts = {2, 3}
INVARIANTS
  TypeOK
  RowMatchesTranscript
  PushedOnce
  CapIsKept
PROPERTIES
  OnlyOvertakenOverwrite
  ExamEnds
CHECK_DEADLOCK FALSE
