CONSTANTS
  None = None
  PlainQueries = {"list"}
  PageQueries = {"job"}
  Codes = {"500", "403"}
  MaxEvents = 3
  Queued = {"a", "b"}
  StateFilters = {"all", "Running"}
  MaxRunMoves = 2
  MaxPresses = 4
  MaxQueueErrors = 1
  Districts = {"SWT", "LRL"}
  Users = {"hec", "usr"}
  Tabs = {1, 2}
  AdminOf <- AdministersIn
  SubmitOf <- SubmitsIn
  Known = {"SWT"}
  MaxOfficeMoves = 7
  MaxRevisions = 2
  MaxFinished = 1
  MaxGlances = 3
  MaxTimingErrors = 1
SPECIFICATION Spec
INVARIANTS
  FailuresTold
  PanelsTrue
  OfficesAllowed
PROPERTIES PanelsSettle
CHECK_DEADLOCK FALSE
