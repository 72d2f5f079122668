SPECIFICATION FairCSpec
CONSTANTS
  p1 = p1
  t1 = t1
  Peers <- OnePeer
  Texts <- OneText
  Private <- OneText
  Groups <- NoGroups
  To <- ToP1
  MaxEdits = 1
  MaxKicks = 0
INVARIANTS
  ConversationTypeOK
  DeliveredTickIsTrue
PROPERTIES
  NothingComesBack
  QueuedTickWhileWaiting
