SPECIFICATION Spec
CONSTANTS
  LSQSZ = 4
  WAYS = 2
  b1 = b1
  Blocks = {b1}
  Program <- UnsignedProgram
  MaxOps = 4
  Starts = {3}
INVARIANT
  LoadsSeeProgramOrder
