SPECIFICATION FairSpec
CONSTANTS
  p1 = p1
  t1 = t1
  g1 = g1
  Peers <- OnePeer
  Texts <- OneText
  Groups <- OneGroup
  To <- ToP1
  MaxEdits = 2
  MaxKicks = 1
INVARIANTS
  TypeOK
  OneEntryPerKey
  RetainedUntilTaken
  TakenAtMostOnce
PROPERTIES
  OldestFirst
  KeepsContract
  DeliveredOnReturn
