SPECIFICATION DispatchSpec
CONSTANTS
  None = None
  Jobs = {s1, p1, p2}
  LocalJobs = {}
  ExternalIds = {x1, x2, x3}
  DispatchTimeout = 1
  CancelTimeout = 1
  LastTime = 0
  ScheduledJobs = {s1}
  Reported = {"RUNNABLE", "RUNNING", "SUCCEEDED", "FAILED"}
  InFlight = 3
  Workers = {w1, w2}
  BatchSize = 2
  SdkAttempts = 2
CONSTRAINT Within
SYMMETRY Symmetry
INVARIANTS
  LinkIsOwn
  JobsOfOneCall
  AtMostOneSubmitCall
  CancelledNeverExecutes
  RejectedMadeNone
PROPERTIES
  RunsOnce
