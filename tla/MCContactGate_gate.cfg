SPECIFICATION FairGSpec
CONSTANTS
  p1 = p1
  m1 = m1
  m2 = m2
  Peers <- OnePeer
  Msgs <- TwoMsgs
  From <- FromP1
  RateLimit = 1
  MaxStarts = 1
INVARIANTS
  GateTypeOK
  BlockedStaysOut
  CardTellsTheTruth
PROPERTIES
  AcceptedGetsThrough
