\* A program that contains words the decoder rejects.
SPECIFICATION Spec
CONSTANTS
  ROBSZ = 5
  WAYS = 2
  Words = {"alu", "illegal"}
INVARIANT ValidPrefix
