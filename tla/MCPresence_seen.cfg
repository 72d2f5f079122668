SPECIFICATION PSpec
CONSTANTS
  near = near
  far = far
  Peers <- Both
  Local <- Near
  ProbeAfter = 2
  Timeout = 5
  Drop = 6
  SweepEvery = 2
  Workers = 1
  PerUnit = 2
  MaxTurns = 3
INVARIANTS
  PresenceTypeOK
  StatusIsTimely
PROPERTIES
  DeletedIsLetGo
