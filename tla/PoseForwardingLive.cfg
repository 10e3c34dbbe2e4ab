SPECIFICATION FairSpec
CONSTANTS
  Callers = {c1}
  Frame = frame
  Life = life
  Devices = {d1}
  NoDevice = nodevice
  NoThread = nothread
  MaxDepth = 2
  Overlap = FALSE
  Faults <- NoFaults
PROPERTIES
  CleanupEnds
