SPECIFICATION Spec
CONSTANTS
  NumLines  = 2
  NumPages  = 3
  LineBytes = 2
  MaxRead   = 3
  Values    = {v1, v2}
  Torn      = Torn
  NoRead    = NoRead
SYMMETRY ValueSymmetry
PROPERTIES
  ReadsAreConsecutive

