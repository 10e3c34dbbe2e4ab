SPECIFICATION Spec
CONSTANTS
  Callers = {c1, c2}
  Frame = frame
  Life = life
  Devices = {d1}
  NoDevice = nodevice
  NoThread = nothread
  MaxDepth = 1
  Overlap = FALSE
  Faults <- FilterFault
SYMMETRY CallerSymmetry
INVARIANTS
  TypeOK
  ArmedStaysArmed
PROPERTIES
  FollowsRelay
