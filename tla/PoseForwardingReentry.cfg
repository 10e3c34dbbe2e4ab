SPECIFICATION Spec
CONSTANTS
  Callers = {c1}
  Frame = frame
  Life = life
  Devices = {d1}
  NoDevice = nodevice
  NoThread = nothread
  MaxDepth = 2
  Overlap = TRUE
  Faults <- LockAndHostFaults
INVARIANTS
  NothingUsedAfterRemoval
  InitAlone
  NoHookLeftBehind
  ForwardedOnce
