---------------------------- MODULE CommitQueue ----------------------------
(***************************************************************************)
(* What the reorder buffer promises: a queue of instructions that finish   *)
(* in any order and leave in the order in which they came.                 *)
(***************************************************************************)
EXTENDS Integers, Sequences

CONSTANTS WAYS, ROBSZ, Kinds

VARIABLES queue    \* instructions not committed, oldest first

Fresh == [kind : Kinds, done : {FALSE}, mispredicted : {FALSE}]

Stops(e) == e.kind = "halt" \/ (e.kind = "branch" /\ e.mispredicted)

\* The n oldest instructions may leave together: all have finished, at most
\* one is a store, and only the last may be a halt or a mispredicted branch.
Leave(n) ==
  /\ \A i \in 1..n : queue[i].done
  /\ \A i, j \in 1..n : queue[i].kind = "store" /\ queue[j].kind = "store" => i = j
  /\ \A i \in 1..(n - 1) : ~Stops(queue[i])

\* An instruction that stays keeps its outcome once it has one.
Progresses(old, new) ==
  \/ new = old
  \/ /\ ~old.done
     /\ new = [old EXCEPT !.done = TRUE, !.mispredicted = new.mispredicted]
     /\ new.mispredicted => old.kind = "branch"

Init == queue = <<>>

\* A finished instruction at the head never waits, and if the last to leave
\* is a mispredicted branch everything behind it is dropped.
Step(n) ==
  /\ Leave(n)
  /\ queue # <<>> /\ queue[1].done => n > 0
  /\ IF \E i \in 1..n : queue[i].kind = "branch" /\ queue[i].mispredicted
     THEN queue' = <<>>
     ELSE LET rest == Len(queue) - n
          IN  /\ Len(queue') \in rest..(rest + WAYS)
              /\ Len(queue') <= ROBSZ - WAYS
              /\ \A i \in 1..rest : Progresses(queue[n + i], queue'[i])
              /\ \A i \in (rest + 1)..Len(queue') : queue'[i] \in Fresh

Next == \E n \in 0..(IF Len(queue) < WAYS THEN Len(queue) ELSE WAYS) : Step(n)

Spec == Init /\ [][Next]_queue
=============================================================================
