SPECIFICATION Spec
CONSTANTS
  WarmupGood = 2
  ConfirmSamples = 3
  MinDt = 1
  MaxKin = 2
  ResetGap = 5
  SilenceFloor = 1
  TickGap = 1
  HoldTime = 3
  DampTime = 1
  CandSpan = 1
  LostReacquire = 3
  RecMin = 3
  RecMax = 4
  RecSpeed = 2
  BaseGate = 1
  AccelGate = 1
  VelSlack = 0
  VelBase = 0
  HardSpeed = 1
  MaxHoldShift = 1
  DirectReturn = 0
  QuickReturn = 2
  Envelope = 3
  Positions <- NearPlaces
  Velocities <- Moving
  Offsets <- JitterOffsets
  TopSpeed = 2
  MinPeriod = 1
  AgeCap = 6
PROPERTIES
  ContinuousHandOver
  RawSpeedBounded
  HoldWindow
