SPECIFICATION Spec
CONSTANTS
  LSQSZ = 4
  WAYS = 2
  b1 = b1
  Blocks = {b1}
  Program <- OverlapProgram
  MaxOps = 4
  Starts = {3}
INVARIANTS
  TypeOK
  QueuesMatchWindow
  AgeIsProgramOrder
  LoadsSeeProgramOrder
PROPERTIES
  NoWriteUnderRead
  CommitWritesOldest
