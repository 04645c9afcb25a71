CONSTANTS
  None = None
  MaxFailures = 1
  MaxMoves = 3
  MaxChanges = 2
  MaxLines = 3
  PageLines = 2
  MaxVisible = 2
  FinalChecks = 2
  MaxTrouble = 2
  MaxActs = 3
  Tasks = {"schedules", "queue_delivery"}
  MaxStatusChanges = 4
  MaxStatusErrors = 1
  MaxOpenings = 2
  Offices = {"a", "b"}
  Default = "10"
  Drafts = {"20", ""}
  Refused = {""}
  MaxWrites = 3
  MaxForeign = 1
  MaxPanelErrors = 1
  MaxVisits = 2
SPECIFICATION Spec
INVARIANTS
  ScreensAgree
  OutputFaithful
  LimitsCurrent
PROPERTIES ScreensSettle
CHECK_DEADLOCK FALSE
