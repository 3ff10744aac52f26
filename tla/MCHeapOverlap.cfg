SPECIFICATION HostSpec
CONSTANTS
  Parts = {"heap"}
  Words <- SomeWords
  Operands <- SomeOperands
  Junk <- ZerosOrOnes
  NUM_HISTORY = 4
  MaxCycle = 9
  MaxBack = 6
  HEADER = 8
  HEAP_SIZE = 160
  WRAP = 65536
  Anchors <- BelowArray
  Programs <- FreesNodes
  MAX = 4
  MaxEdges = 3
  Values = {0, 1, 3}
  Entries <- SomeEntries
  Size = 5
  Priorities <- UpToFour
  Boards = {1, 2, 3, 5}
  Factors = {0, 1, 3, 4, 16, 17, 23, 128, 255}
  WIDTH = 4
INVARIANT HeapPartition
CHECK_DEADLOCK FALSE
