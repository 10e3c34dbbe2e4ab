SPECIFICATION FairSpec
CONSTANTS
  App = app
  OldCopies = {old1, old2}
  Others = {other}
  MaxFaults = 3
  MaxEdits = 1
  MaxSetups = 2
INVARIANTS
  TypeOK
  RollbackIsHonest
  SuccessIsComplete
  NoDanglingPath
PROPERTIES
  RestoreIsExact
  UninstallEnds
CHECK_DEADLOCK FALSE
