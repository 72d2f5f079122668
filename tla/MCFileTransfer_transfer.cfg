SPECIFICATION FairFSpec
CONSTANTS
  r1 = r1
  r2 = r2
  Receivers <- TwoReceivers
  Recipients <- OneOrTwo
  Flaky <- Private
  Pieces = 2
CHECK_DEADLOCK FALSE
INVARIANTS
  FileTypeOK
  WholeOrGone
PROPERTIES
  TransferEnds
