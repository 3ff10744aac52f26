SPECIFICATION HostSpec
CONSTANTS
  Parts = {"codec", "debugger", "heap", "traversals", "programs"}
  Words <- SomeWords
  Operands <- SomeOperands
  Junk <- ZerosOrOnes
  NUM_HISTORY = 4
  MaxCycle = 9
  MaxBack = 6
  HEADER = 8
  HEAP_SIZE = 120
  WRAP = 65536
  Anchors <- SomeAnchors
  Programs <- RealPrograms
  MAX = 4
  MaxEdges = 4
  Values = {0, 1, 3}
  Entries <- SomeEntries
  Size = 5
  Priorities <- UpToFour
  Boards = {1, 2, 3, 5}
  Factors = {0, 1, 3, 4, 7, 14, 16, 17, 23, 128, 255}
  WIDTH = 4
INVARIANTS
  HostTypeOK
  OneTurn
  ShowsItsCycle
  HeapPartition
  DecodersAgree
  TraversalsReach
  AnswersRight
PROPERTIES
  RoundTrip
  UserServed
CHECK_DEADLOCK FALSE
