SPECIFICATION Spec
CONSTANTS
  Callers = {c1}
  Frame = frame
  Life = life
  Devices = {d1}
  NoDevice = nodevice
  NoThread = nothread
  MaxDepth = 1
  Overlap = TRUE
  Faults <- NoFaults
PROPERTIES
  NoStalePrediction
