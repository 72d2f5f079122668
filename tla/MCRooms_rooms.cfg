SPECIFICATION RSpec
CONSTANTS
  n1 = n1
  n2 = n2
  n3 = n3
  Nodes <- Three
  Kinds <- AnyKind
  Leavers <- Three
  Quitters <- Three
  MaxActs = 3
SYMMETRY Alike
CHECK_DEADLOCK FALSE
INVARIANTS
  RoomsTypeOK
  AuthorityIsHandedDown
