SPECIFICATION StatusSpec
CONSTANTS
  None = None
  Jobs = {j1}
  LocalJobs = {}
  ExternalIds = {j1}
  DispatchTimeout = 1
  CancelTimeout = 1
  LastTime = 2
  Viewers = {v1}
  Second = 2
  RefreshInterval = 1
  Attempts = 2
  EventsLost = FALSE
INVARIANTS
  TruthfulOutcome
  OutcomeRecorded
