SPECIFICATION UpdaterSpec
CONSTANTS
  Workers = {w1, w2}
  MaxVersion = 4
  MaxCrashes = 2
INVARIANT UpdaterTypeOK
PROPERTIES
  NeverOlder
