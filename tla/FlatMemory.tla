----------------------------- MODULE FlatMemory -----------------------------
(***************************************************************************)
(* What the load and store queues may expect of everything below them, the *)
(* data cache, its controller and the memory: a memory that performs the   *)
(* store of a cycle in that cycle, that store and nothing else, and        *)
(* answers a read, in the cycle it is asked or in a later one, with what   *)
(* it holds when it answers.  A misprediction drops the reads.             *)
(*                                                                         *)
(* request is the interface: what the queues asked for in the last cycle.  *)
(***************************************************************************)
CONSTANTS Blocks, Units, Slots, Value

VARIABLES
  memory,    \* [Blocks -> [Units -> Value]]
  request,   \* [write, read: sets of at most one; except: BOOLEAN]
  live,      \* reads not answered: [slot, block, unit]
  answer     \* what was answered in the last cycle: <<slot, value>>

vars == <<memory, request, live, answer>>

Read == [slot : Slots, block : Blocks, unit : Units]

\* The queues ask for at most one store and one read.  A store names a block
\* and has a value for each of the units it writes.
Request(q) ==
  /\ \A x \in q.write : /\ x.block \in Blocks
                        /\ DOMAIN x.data \subseteq Units /\ x.data \in [DOMAIN x.data -> Value]
  /\ \A x, y \in q.write : x = y
  /\ q.read \subseteq Read /\ \A x, y \in q.read : x = y
  /\ q.except \in BOOLEAN

Init ==
  /\ memory \in [Blocks -> [Units -> Value]]
  /\ request = [write |-> {}, read |-> {}, except |-> FALSE]
  /\ live = {}
  /\ answer = {}

\* Memory changes in the units that the requested store writes and in no other.
Perform(write) ==
  /\ write = {} => memory' = memory
  /\ \A x \in write :
       memory' = [memory EXCEPT ![x.block] =
                    [u \in Units |-> IF u \in DOMAIN x.data THEN x.data[u] ELSE @[u]]]

\* Of the reads that wait and the one that is asked for, those in the slots of
\* done are answered with the memory after that store.
Answer(done) ==
  LET asked == live \cup request'.read
      answered == {q \in asked : q.slot \in done}
  IN  /\ live' = IF request'.except THEN {} ELSE asked \ answered
      /\ answer' = {<<q.slot, memory'[q.block][q.unit]>> : q \in answered}

\* One cycle.
Next ==
  /\ Request(request')
  /\ Perform(request'.write)
  /\ \E done \in SUBSET Slots : Answer(done)

Spec == Init /\ [][Next]_vars
=============================================================================
