SPECIFICATION FairSpec
CONSTANTS
  Devices = {d1}
  NoDevice = nodevice
  Callers = {c1, c2}
  Identities <- AllIdentities
  Late <- LateIdentity
  ScanCap = 1
  MaxSessions = 1
INVARIANTS
  TypeOK
  MetadataNotTorn
  DecisionsAreRight
PROPERTIES
  RetriesBackOff
  RequestAnswered
