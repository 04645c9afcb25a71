SPECIFICATION DispatchSpec
CONSTANTS
  None = None
  Jobs = {s1}
  LocalJobs = {}
  ExternalIds = {x1, x2, x3}
  DispatchTimeout = 1
  CancelTimeout = 1
  LastTime = 0
  ScheduledJobs = {s1}
  Reported = {"RUNNABLE", "RUNNING", "SUCCEEDED", "FAILED"}
  InFlight = 3
  Workers = {w1, w2}
  BatchSize = 1
  SdkAttempts = 2
SYMMETRY Symmetry
INVARIANTS
  AtMostOneBatchJob
