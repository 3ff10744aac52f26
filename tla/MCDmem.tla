------------------------------- MODULE MCDmem -------------------------------
(* The data cache and memory for TLC: cache indices and starting caches.     *)
EXTENDS Dmem, TLC

CONSTANTS b1, b2, b3, b4, b5

\* All blocks compete for one line.
OneSet == {0}
OneIndex == [b \in Blocks |-> 0]

\* Two lines that share the victims.
TwoSets == {0, 1}
TwoIndices == [b \in Blocks |-> IF b \in {b3, b5} THEN 1 ELSE 0]

\* Caches in which everything is in use and a fill displaces; which blocks are
\* where is a matter of names.
FullCaches ==
  {c \in DrainedCaches : /\ c.line[0].block = b1
                         /\ c.victim[0].block = b2
                         /\ Sets = OneSet => c.victim[1].block = b3
                         /\ Sets = TwoSets => c.line[1].block = b3 /\ c.victim[1].block = b4}

\* Units and load queue slots can be renamed.
Symmetry == Permutations(Units) \cup Permutations(Slots)
=============================================================================
