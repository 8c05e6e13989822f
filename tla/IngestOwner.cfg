SPECIFICATION FairSpec
CONSTANTS
  j1 = j1
  j2 = j2
  p1 = p1
  Jobs = {j1, j2}
  Papers = {p1}
  Kind <- MixedKind
  Content <- OnePdf
  VecLoaded = TRUE
  Faults = {"worker_crash", "job_timeout", "broker_restart", "api_crash", "db_error"}
  MaxRuns = 1
INVARIANTS
  TypeOK
  OneOwner
  RetryAccepted
  SoleIngester
PROPERTIES
  NeverRetagged
  LifecycleSpec
  HeldUntilRest
  JobsSettle
CHECK_DEADLOCK FALSE
