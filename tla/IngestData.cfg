SPECIFICATION Spec
CONSTANTS
  j1 = j1
  j2 = j2
  p1 = p1
  Jobs = {j1}
  Papers = {p1}
  Kind <- UrlKind
  Content <- OnePdf
  VecLoaded = TRUE
  Faults = {"worker_crash", "job_timeout", "broker_restart", "api_crash", "lost_ack",
            "db_error", "unrecorded"}
  MaxRuns = 1
INVARIANTS
  ProgressIsBacked
  DoneIsIngested
CHECK_DEADLOCK FALSE
