------------------------------ MODULE MCRename ------------------------------
(* Renaming for TLC: symmetry, and the register file in program order that *)
(* renaming implements.                                                    *)
EXTENDS Rename, TLC

\* Reset maps every architectural register to itself; the other physical
\* registers, and the architectural ones among themselves, are alike.
Symmetry == Permutations(ARN) \cup Permutations(PRN \ ARN)

\* Bound: at most one physical register holds a value other than Zero, and
\* operands are recorded while all of them hold Zero.  No operation of the
\* model looks at a value, so a value that goes astray shows when it is the
\* only one of its kind, and an operand's name and readiness do not depend on
\* what the registers hold.
OneMark ==
  LET marked == {p \in PRN : prf[p] # Zero}
  IN  /\ Cardinality(marked) <= 1
      /\ operand # NoOperand => marked = {}

\* The committed values are the contents of the retired registers; an entry
\* of the window has the contents of its register once it has finished.
AbsWindow ==
  [i \in DOMAIN inflight |->
     [arn  |-> IF inflight[i].arn \in ARN THEN inflight[i].arn ELSE NoReg,
      done |-> inflight[i].done,
      val  |-> IF inflight[i].arn \in ARN /\ inflight[i].done
               THEN prf[inflight[i].prn] ELSE Zero]]

AbsOperand ==
  [way   |-> operand.way,
   arn   |-> operand.arn,
   ready |-> operand.ready,
   val   |-> operand.val,
   from  |-> IF operand.tag = P0 THEN 0
             ELSE CHOOSE i \in DOMAIN inflight : inflight[i].prn = operand.tag]

InOrder == INSTANCE InOrderRegs WITH
  arf <- [a \in ARN |-> prf[RRAT[a]]],
  window <- AbsWindow,
  operand <- AbsOperand

\* Renaming implements the register file updated in program order: every
\* operand handed to the reservation stations is the result of the youngest
\* older writer of the register, or the name under which it will appear.
InOrderSpec == InOrder!Spec
=============================================================================
