SPECIFICATION Spec
CONSTANTS
  Devices = {d1, d2}
  NoDevice = nodevice
  Callers = {c1}
  Identities <- JustTracker
  Late <- LateType
  ScanCap = 0
  MaxSessions = 0
SYMMETRY DeviceSymmetry
INVARIANTS
  RequestKept
