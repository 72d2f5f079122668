CONSTANTS
  Internets = {n1, n2, n3}
  Jobs = {j1, j2}
  MaxMishaps = 2
  NoIp = NoIp
SPECIFICATION DSpec
SYMMETRY Symmetry
INVARIANTS DualTypeOK  CaptureIsTheUsers OneAddressPerMishap

