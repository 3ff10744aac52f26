SPECIFICATION MemorySpec
CONSTANTS
  b1 = b1
  u1 = u1
  s1 = s1
  s2 = s2
  NoTag = NoTag
  Parts = {"lsq", "dmem", "icache"}
  WAYS = 2
  BLOCKS = 6
  LINES = 3
  PREFETCH = 1
  TAGS = 2
  LAT = 2
  Zeros = {4}
  Targets = {3, 7}
  Commands = {"none", "load"}
INVARIANTS
  Q2NeverFull
  DeliversMemory
PROPERTIES
  ImplementsFlatMemory
  QueuesDrain
  BundlesArrive
