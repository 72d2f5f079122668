SPECIFICATION RSpec
CONSTANTS
  n1 = n1
  n2 = n2
  n3 = n3
  Nodes <- Three
  Kinds <- GroupOnly
  Leavers <- NoOne
  Quitters <- NoOne
  MaxActs = 2
CHECK_DEADLOCK FALSE
INVARIANTS
  NeverAdminless
