SPECIFICATION Spec
CONSTANTS
  b1 = b1
  b2 = b2
  b3 = b3
  b4 = b4
  b5 = b5
  s1 = s1
  s2 = s2
  u1 = u1
  NoBlock = NoBlock
  Blocks = {b1, b2, b3, b4}
  Units = {u1}
  Slots = {s1, s2}
  Sets <- OneSet
  Index <- OneIndex
  LSQSZ = 3
  LAT = 2
  TAGS = 2
  Refill = 1
  MaxWrites = 2
  MaxReads = 1
  MaxSquashes = 0
  MaxFetches = 0
  Starts <- FullCaches
SYMMETRY Symmetry
PROPERTIES
  ImplementsFlatMemory
