CONSTANTS
  None = None
  MaxLines = 3
  PageLines = 2
  MaxVisible = 2
  FinalChecks = 6
  MaxTrouble = 1
  MaxActs = 1
SPECIFICATION JobOutputSpec
INVARIANTS FollowUpsDocumented
CHECK_DEADLOCK FALSE
