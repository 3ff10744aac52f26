SPECIFICATION Spec
CONSTANTS
  ROBSZ = 5
  WAYS = 2
  Words = {"alu", "store", "branch", "halt"}
INVARIANTS
  TypeOK
  WindowAccounting
  BusMeetsWindow
PROPERTY InOrderSpec
