SPECIFICATION Spec
CONSTANTS
  Targets = {a, b}
  None = none
  MaxTrackers = 1
  MaxRecent = 0
  CounterMax = 1
  SizeMax = 1
  MaxProcesses = 2
  MaxLines = 6
  MaxRefreshes = 1
SYMMETRY TargetSymmetry
INVARIANTS
  TypeOK
  DetoursHaveTrampolines
PROPERTIES
  FollowsReport
CHECK_DEADLOCK FALSE
