SPECIFICATION Spec
CONSTANTS
  MaxTrackers = 1
  MaxRecent = 2
  CounterMax = 1
  SizeMax = 2
  Interval = 2
  Serials = {"s1", "s2"}
  Reached = {"tracking", "hold"}
  MaxTime = 3
  MaxChanges = 5
  MaxMessages = 5
  MaxDepth = 2
  MaxEdits = 2
  Originals <- Documents
  Inserted <- EditTokens
  Unusable = unusable
  Nothing = nothing
  Tolerance = 1
  Bodies <- DriverBodies
  Spaces <- WorldSpaces
  Heads <- HeadTransforms
INVARIANTS
  TypesOK
  CountsAreMinimums
  SummaryIsReference
  RegistrationIsReference
  HostSeesFilterOutput
CHECK_DEADLOCK FALSE
