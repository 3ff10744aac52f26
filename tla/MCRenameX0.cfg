SPECIFICATION Spec
CONSTANTS
  a1 = a1
  p1 = p1
  p2 = p2
  p3 = p3
  p4 = p4
  p5 = p5
  ARN = {a1}
  PRN = {a1, p1, p2, p3, p4, p5}
  P0 = P0
  NoReg = NoReg
  X0 = X0
  Dest = {a1, X0}
  Observed = {a1}
  Val = {0}
  Zero = 0
  WAYS = 2
  ROBSZ = 5
INVARIANT FreshIsInvalid
