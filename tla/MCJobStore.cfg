SPECIFICATION PartSpec
CONSTANTS
  None = None
  Jobs = {b, l}
  LocalJobs = {l}
  ExternalIds = {x1, x2}
  DispatchTimeout = 2
  CancelTimeout = 2
  LastTime = 1
  Never = Never
  Registered = {"s", "t"}
  FirstScripts <- FirstRows
  Replicas = {1, 2}
  Schedules <- SchedulesMC
  Malformed = Malformed
  CatchUp = 2
  LastInstant = 4
  MaxSaves = 1
  MaxAborts = 1
  NoPass = NoPass
  Runs = {1, 2, 3}
  Undeliverable = {1, 2}
  BatchSize = 2
  MaxDelay = 2
  MaxFailures = 1
  MaxDeaths = 1
  NoRun = NoRun
  Hour = 4
  Day = 12
  Week = 2
  MonthDays <- MonthsMC
  Zones <- ZonesMC
  CalendarSchedules <- CalendarMC
  MaxStops = 2
  MaxStoreFails = 1
  Workers = {1, 2}
  Readers <- ReadersMC
  Writers <- WritersMC
  Limits = {5}
  Default = Default
  Idle = Idle
  Unread = Unread
  RefreshWindow = 1
  MaxLimitWrites = 2
  MaxForced = 1
  MaxReadFailures = 1
  Watched = {1, 2, 3}
  WatchedLocal = {3}
  Processes = {p1, p2}
  ScanLimit = 1
  SomeId = x1
  NoScan = NoScan
  Hung = Hung
  MaxHangs = 1
  Nothing = Nothing
  WindowLimits = {1, 2}
  SecondLength = 2
  WindowSeconds = 2
  LastMoment = 6
INVARIANTS
  LinkedNeverUnknown
  UnresolvedExplained
  CancellingIsTimed
  BackgroundKept
  ToldIsTrue
PROPERTIES
  StatusMoves
  LinkStable
  ClaimedOnce
  CancelledIsFinal
  FinishedIsFinal
  BackgroundGoesOn
CHECK_DEADLOCK FALSE
