SPECIFICATION FairSpec
CONSTANTS
  WAYS = 2
  ROBSZ = 6
  RSSZ = 3
  STAGES = 2
  Kinds = {"alu", "mult", "load"}
  MaxOperands = 1
  MaxMults = 1
  None = None
INVARIANTS
  TypeOK
  OnePlace
  BundleFits
  WaitsExact
PROPERTIES
  Finishes
