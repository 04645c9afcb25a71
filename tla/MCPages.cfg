CONSTANTS
  None = None
  scriptA = scriptA
  scriptB = scriptB
  Scripts = {scriptA, scriptB}
  FirstConfigs <- Configured
  NextConfigs <- Reconfigured
  TypedTexts <- NoTyped
  MaxClicks = 2
  MaxForms = 2
  MaxOthers = 1
  MaxTyped = 1
  Filters <- RunsIn
  Invalid = {"wrong"}
  Sizes = {1, 2}
  FirstTotal = 3
  MaxTotal = 5
  MaxTurns = 4
  MaxReadingErrors = 1
  EventLevel <- LevelOf
  Levels = {"ALL", "ERROR"}
  Ranges = {2, 4}
  FirstNow = 4
  MaxEntries = 3
  PageEvents = 1
  MaxLogActs = 6
  MaxRenewals = 2
  Selections <- Searched
  Output <- Logged
  FirstRuns = 2
  Budget = 2
  MaxSearches = 5
  MaxSearchErrors = 2
  MaxReleases = 3
  MaxFetches = 4
  Orgs = {1, 2}
  Periods = {1, 2}
  TopShares = 1
  Minutes = {3}
  EarlierRuns <- Earlier
  FirstTime = 4
  MaxTime = 5
  MaxRecorded = 3
  MaxFilters = 2
  MaxUsageErrors = 1
  Trees <- Pushes
  Texts <- PathTexts
  Begins <- NamesWith
  Holds <- NamesWith
  RuntimeBy <- NamedBy
  Releases <- AllReleases
  Drafts = {3}
  AssetsOf <- AssetsIn
  PerPage = 2
  JarsPerPage = 1
  FirstReleases = 2
  MaxPicks = 4
  MaxPickErrors = 1
SPECIFICATION Spec
INVARIANTS
  RunsAsAsked
  HistoryComplete
  LogsHonest
  OfflineSafe
  ChoicesShown
CHECK_DEADLOCK FALSE
