SPECIFICATION WatchedSpec
CONSTANTS
  None = None
  Jobs = {j1, j2}
  LocalJobs = {}
  ExternalIds = {x1, x2}
  DispatchTimeout = 1
  CancelTimeout = 1
  LastTime = 0
  ScheduledJobs = {}
  Reported = {}
  InFlight = 0
  Workers = {w1}
  BatchSize = 2
  SdkAttempts = 2
PROPERTIES
  NoRunWaitsForever
  MessagesDrain
