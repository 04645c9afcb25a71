CONSTANTS
  None = None
  NoCron = NoCron
  Broken = Broken
  DayHours = 3
  HourMinutes = 3
  MinInterval = 2
  Days <- FirstDays
  Scripts <- ScriptsSaved
  Paths = {"main.py", "tool.jar"}
  RuntimeOf <- RuntimesNamed
  TakenNames <- Taken
  EnvNames = {"", "A", "TOKEN"}
  ReservedNames = {"TOKEN"}
  EnvLimit = 1
  Roles = {"admin"}
  Crons <- CronsTyped
  Times <- TimesChosen
  MaxEdits = 4
  a = a
  b = b
  Ids = {a, b}
  Saved = {a}
  Free = Free
  Deleted = Deleted
  Files = {a}
  MaxTexts = 1
  MaxOutside = 1
  MaxCalls = 2
SPECIFICATION Spec
INVARIANTS
  EditorFits
  EditorsOwnText
PROPERTIES
  EditorKeepsInput
  WritesTakeNothingElse
CHECK_DEADLOCK FALSE
