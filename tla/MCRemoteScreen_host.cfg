SPECIFICATION FairSSpec
CONSTANTS
  v1 = v1
  Viewers <- OneViewer
  Trusted <- OneViewer
  MaxSaves = 2
CHECK_DEADLOCK FALSE
INVARIANTS
  RemoteTypeOK
  NeverSilent
PROPERTIES
  StopReturns
  AllowedIsServed
