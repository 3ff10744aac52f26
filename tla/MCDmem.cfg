SPECIFICATION Spec
CONSTANTS
  b1 = b1
  b2 = b2
  b3 = b3
  b4 = b4
  b5 = b5
  s1 = s1
  s2 = s2
  u1 = u1
  u2 = u2
  NoBlock = NoBlock
  Blocks = {b1, b2, b3, b4, b5}
  Units = {u1, u2}
  Slots = {s1, s2}
  Sets <- TwoSets
  Index <- TwoIndices
  LSQSZ = 3
  LAT = 2
  TAGS = 3
  Refill = 1
  MaxWrites = 1
  MaxReads = 2
  MaxSquashes = 1
  MaxFetches = 0
  Starts <- FullCaches
SYMMETRY Symmetry
INVARIANTS
  TypeOK
  OnePlace
  CleanIsWritten
PROPERTIES
  ImplementsFlatMemory
