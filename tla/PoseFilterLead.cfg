SPECIFICATION Spec
CONSTANTS
  WarmupGood = 3
  ConfirmSamples = 3
  MinDt = 1
  MaxKin = 2
  ResetGap = 6
  SilenceFloor = 1
  TickGap = 1
  HoldTime = 4
  DampTime = 2
  CandSpan = 1
  LostReacquire = 3
  RecMin = 3
  RecMax = 5
  RecSpeed = 2
  BaseGate = 1
  AccelGate = 1
  VelSlack = 0
  VelBase = 0
  HardSpeed = 2
  MaxHoldShift = 3
  DirectReturn = 0
  QuickReturn = 2
  Envelope = 5
  Positions <- NearPlaces
  Velocities <- AtRest
  Offsets <- LeadOffset
  TopSpeed = 4
  MinPeriod = 1
  AgeCap = 7
INVARIANT LostOutputsInvalid
