CONSTANTS
  None = None
  NoCron = NoCron
  Broken = Broken
  DayHours = 3
  HourMinutes = 3
  MinInterval = 2
  Days <- FirstDays
  Scripts <- ScriptsSaved
  Paths = {"main.py", "tool.jar"}
  RuntimeOf <- RuntimesNamed
  TakenNames <- Taken
  EnvNames = {"", "A", "TOKEN"}
  ReservedNames = {"TOKEN"}
  EnvLimit = 1
  Roles = {"admin"}
  Crons <- CronsTyped
  Times <- TimesChosen
  MaxEdits = 2
  a = a
  b = b
  Ids = {a, b}
  Saved = {a}
  Free = Free
  Deleted = Deleted
  Files = {a, b}
  MaxTexts = 0
  MaxOutside = 0
  MaxCalls = 1
SPECIFICATION Spec
PROPERTIES ToggleChangesOnlySwitch
CHECK_DEADLOCK FALSE
