---------------------------- MODULE InOrderRegs ----------------------------
(***************************************************************************)
(* What renaming promises: a register file updated in program order.       *)
(*                                                                         *)
(* The machine keeps one value per architectural register and the window   *)
(* of instructions not yet committed, each with the result it has produced *)
(* so far.  An instruction entering the window reads a source register as  *)
(* the result of the youngest older writer in the window, or waits for     *)
(* that writer, or takes the committed value when there is no such writer. *)
(* There are no physical registers, maps or free lists here.               *)
(***************************************************************************)
EXTENDS Integers, Sequences

CONSTANTS ARN, NoReg, Val, Zero, WAYS, ROBSZ

VARIABLES
  arf,       \* committed values
  window,    \* instructions not committed, oldest first
  operand    \* one source operand read by the youngest bundle

vars == <<arf, window, operand>>

NoOperand == [way |-> 0, arn |-> NoReg, ready |-> FALSE, val |-> Zero, from |-> 0]

WritersOf(s, a) == {i \in DOMAIN s : s[i].arn = a}
LastWriter(s, a) == CHOOSE i \in WritersOf(s, a) : \A j \in WritersOf(s, a) : j <= i

Completed(k) == \A i \in 1..k : window[i].done

\* Register values once the k oldest instructions have committed.
Commit(k) ==
  LET old == SubSeq(window, 1, k)
  IN  [a \in ARN |-> IF WritersOf(old, a) = {} THEN arf[a] ELSE old[LastWriter(old, a)].val]

\* An instruction that stays in the window keeps its result once it has one.
Progresses(old, new) ==
  \/ new = old
  \/ /\ ~old.done
     /\ new \in {[old EXCEPT !.done = TRUE, !.val = v] :
                   v \in IF old.arn = NoReg THEN {Zero} ELSE Val}

\* Register a as way i of the bundle behind the n oldest instructions of the
\* window w reads it.
Read(w, regs, n, i, a) ==
  LET older == SubSeq(w, 1, n + i - 1)
      result(ready, val, from) ==
        [way |-> i, arn |-> a, ready |-> ready, val |-> val, from |-> from]
  IN  IF WritersOf(older, a) = {} THEN result(TRUE, regs[a], 0)
      ELSE LET j == LastWriter(older, a)
           IN  IF w[j].done THEN result(TRUE, w[j].val, 0) ELSE result(FALSE, Zero, j)

Fresh == [arn : ARN \cup {NoReg}, val : {Zero}, done : {FALSE}]

-----------------------------------------------------------------------------
Init ==
  /\ arf = [a \in ARN |-> Zero]
  /\ window = <<>>
  /\ operand = NoOperand

\* k instructions commit, others may finish, and at most WAYS enter.
Advance(k) ==
  LET rest == Len(window) - k
  IN  /\ Completed(k)
      /\ arf' = Commit(k)
      /\ Len(window') \in rest..(rest + WAYS)
      /\ Len(window') <= ROBSZ - WAYS
      /\ \A i \in 1..rest : Progresses(window[k + i], window'[i])
      /\ \A i \in (rest + 1)..Len(window') : window'[i] \in Fresh
      /\ operand' \in {NoOperand} \cup
           {Read(window', arf', rest, i, a) : i \in 1..(Len(window') - rest), a \in ARN}

\* The k-th instruction turns out to be a mispredicted branch.
Squash(k) ==
  /\ k > 0
  /\ Completed(k)
  /\ arf' = Commit(k)
  /\ window' = <<>>
  /\ operand' = NoOperand

Next ==
  \E k \in 0..(IF Len(window) < WAYS THEN Len(window) ELSE WAYS) :
    Advance(k) \/ Squash(k)

Spec == Init /\ [][Next]_vars
=============================================================================
