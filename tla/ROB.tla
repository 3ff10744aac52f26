-------------------------------- MODULE ROB --------------------------------
(***************************************************************************)
(* The reorder buffer (rob.sv) with the ID/EX register in front of it, the *)
(* part of the decoder that decides which ways of a bundle are valid       *)
(* (if_stage.sv, id_stage.sv) and the stall that processor.sv derives from *)
(* next_num_free.                                                          *)
(*                                                                         *)
(* One clock edge is one action.  In a cycle the buffer commits from its   *)
(* head, marks entries done as the common data bus names them, stores the  *)
(* bundle of the ID/EX register at its tail, and the next bundle is        *)
(* latched, its entries already numbered from next_tail.                   *)
(*                                                                         *)
(* executing stands for the reservation stations, functional units and     *)
(* load/store queues: the numbers of the dispatched instructions that have *)
(* not broadcast.  A number is broadcast once, any time after dispatch.    *)
(***************************************************************************)
EXTENDS Integers, Sequences, FiniteSets

CONSTANTS
  ROBSZ,      \* entries
  WAYS,       \* superscalar width
  Words       \* the kinds of word the program memory holds

\* Kinds of word.  "alu" stands for everything that is not listed.
Kinds == {"alu", "store", "branch", "halt"}
NotInstructions == {"illegal", "zero"}

ASSUME SizesAssumption ==
  /\ WAYS \in Nat \ {0}
  /\ ROBSZ \in Nat
  /\ 2 * WAYS <= ROBSZ
  /\ Words \subseteq Kinds \cup NotInstructions

VARIABLES
  entries,    \* [0..ROBSZ-1 -> record]
  head, tail, \* next entry to commit, next entry to fill
  num_free,   \* free entries
  id_ex,      \* the bundle in the ID/EX register: kind or "bubble" per way
  rob_idx,    \* entry number of the first way of that bundle
  executing,  \* numbers handed to the execution units and not broadcast
  halted      \* a halt has committed; the test bench ends the simulation

vars == <<entries, head, tail, num_free, id_ex, rob_idx, executing, halted>>

Idx == 0..(ROBSZ - 1)
Ways == 0..(WAYS - 1)

\* Contents after reset; the bus never marks such an entry done.
Blank == [kind |-> "none", done |-> FALSE, mispredicted |-> FALSE]
NoBundle == [i \in Ways |-> "bubble"]

-----------------------------------------------------------------------------
(* Fetch and decode. *)

\* words[i] is the word in way i and taken the set of ways the predictor
\* predicts taken, all of them branches.  A zero word, an illegal one and
\* everything after a branch predicted taken is not valid.
Decode(words, taken) ==
  [i \in Ways |->
     IF words[i] \in NotInstructions \/ \E j \in taken : j < i THEN "bubble" ELSE words[i]]

Bundles ==
  UNION {{Decode(words, taken) : taken \in SUBSET {i \in Ways : words[i] = "branch"}} :
           words \in [Ways -> Words]}

-----------------------------------------------------------------------------
(* Dispatch. *)

Valid(i) == id_ex[i] # "bubble"

\* The last valid way plus one.
num_dispatched ==
  IF \E i \in Ways : Valid(i)
  THEN 1 + CHOOSE i \in Ways : Valid(i) /\ \A j \in Ways : Valid(j) => j <= i
  ELSE 0

Slot(base, i) == (base + i) % ROBSZ

Dispatched == {i \in Ways : Valid(i)}
NewEntry(i) == [kind |-> id_ex[i], done |-> FALSE, mispredicted |-> FALSE]

-----------------------------------------------------------------------------
(* Commit. *)

AtHead(i) == entries[Slot(head, i)]

Stops(e) == e.kind = "halt" \/ (e.kind = "branch" /\ e.mispredicted)

\* Mutant: commit goes on behind a mispredicted branch.
MayCommit_PastBranch(i) ==
  /\ AtHead(i).done
  /\ AtHead(i).kind = "store" => \A j \in 0..(i - 1) : AtHead(j).kind # "store"

\* A store leaves only if no older way of the cycle is a store, and nothing
\* leaves behind a halt or a mispredicted branch.
MayCommit(i) ==
  /\ AtHead(i).done
  /\ AtHead(i).kind = "store" => \A j \in 0..(i - 1) : AtHead(j).kind # "store"
  /\ \A j \in 0..(i - 1) : ~Stops(AtHead(j))

num_committed == Cardinality({i \in Ways : \A j \in 0..i : MayCommit(j)})

proc_nuke == \E i \in 0..(num_committed - 1) : AtHead(i).kind = "branch" /\ AtHead(i).mispredicted
halt_out == \E i \in 0..(num_committed - 1) : AtHead(i).kind = "halt"

next_head == (head + num_committed) % ROBSZ

\* Mutant: the tail does not wrap.
next_tail_NoWrap == IF proc_nuke THEN 0 ELSE tail + num_dispatched

next_tail == IF proc_nuke THEN 0 ELSE (tail + num_dispatched) % ROBSZ

next_num_free == IF proc_nuke THEN ROBSZ ELSE num_free - num_dispatched + num_committed

\* Mutant: the stall looks one bundle ahead only, forgetting the ID/EX register.
rob_is_full_OneBundle == next_num_free < WAYS

rob_is_full == next_num_free < 2 * WAYS

-----------------------------------------------------------------------------
(* The number the first way of the latched bundle will have in the buffer, *)
(* computed a cycle before the bundle is stored.                             *)

\* Mutant: numbered from the tail before this cycle's dispatch.
latched_idx_Stale == IF rob_is_full THEN 0 ELSE tail

latched_idx == IF rob_is_full THEN 0 ELSE next_tail

-----------------------------------------------------------------------------
(* The common data bus.  cdb are the broadcast numbers, wrong those whose   *)
(* target differs from the predicted one.                                  *)

\* In the clock edge the bundle is written first, then the bus marks entries
\* done, then the committed entries lose their done bit.
NextEntry(s, cdb, wrong) ==
  LET way == {i \in Dispatched : Slot(tail, i) = s}
      old == entries[s]
      new == IF way = {} THEN old ELSE NewEntry(CHOOSE i \in way : TRUE)
  IN  IF s \in cdb /\ old # Blank
      THEN [new EXCEPT !.done = TRUE,
                       !.mispredicted = old.kind = "branch" /\ s \in wrong]
      ELSE IF \E i \in 0..(num_committed - 1) : Slot(head, i) = s
      THEN [new EXCEPT !.done = FALSE]
      ELSE new

-----------------------------------------------------------------------------
Init ==
  /\ entries = [s \in Idx |-> Blank]
  /\ head = 0
  /\ tail = 0
  /\ num_free = ROBSZ
  /\ id_ex = NoBundle
  /\ rob_idx = 0
  /\ executing = {}
  /\ halted = FALSE

\* Clock edge in a cycle that commits a mispredicted branch.
Nuke ==
  /\ ~halted
  /\ proc_nuke
  /\ entries' = [s \in Idx |-> Blank]
  /\ head' = 0
  /\ tail' = 0
  /\ num_free' = ROBSZ
  /\ id_ex' = NoBundle
  /\ rob_idx' = 0
  /\ executing' = {}
  /\ UNCHANGED halted

\* Any other clock edge.  fetched is the bundle the front end decodes; it is
\* latched unless the stall holds it back.
Clock(cdb, wrong, fetched) ==
  /\ ~halted
  /\ ~proc_nuke
  /\ rob_is_full => fetched = NoBundle
  /\ entries' = [s \in Idx |-> NextEntry(s, cdb, wrong)]
  /\ head' = next_head
  /\ tail' = next_tail
  /\ num_free' = next_num_free
  /\ id_ex' = fetched
  /\ rob_idx' = latched_idx
  /\ executing' = (executing \ cdb) \cup {Slot(rob_idx, i) : i \in Dispatched}
  /\ halted' = halt_out

\* Nothing happens once the simulation has ended.
Halted == halted /\ UNCHANGED vars

\* At most one broadcast per way; only branches can have a wrong target.
Bus == {cdb \in SUBSET executing : Cardinality(cdb) <= WAYS}
Branches == {s \in executing : entries[s].kind = "branch"}

Next ==
  \/ Nuke
  \/ \E cdb \in Bus, fetched \in Bundles \cup {NoBundle} :
       \E wrong \in SUBSET (cdb \cap Branches) : Clock(cdb, wrong, fetched)
  \/ Halted

Spec == Init /\ [][Next]_vars

-----------------------------------------------------------------------------
(* Properties. *)

Entry == [kind : Kinds \cup {"none"}, done : BOOLEAN, mispredicted : BOOLEAN]

\* Types of the registers of rob.sv and of the ID/EX register.
TypeOK ==
  /\ entries \in [Idx -> Entry]
  /\ head \in Idx
  /\ tail \in Idx
  /\ num_free \in 0..ROBSZ
  /\ id_ex \in [Ways -> Kinds \cup {"bubble"}]
  /\ rob_idx \in Idx
  /\ executing \in SUBSET Idx
  /\ halted \in BOOLEAN

Occupied == ROBSZ - num_free
Window == {Slot(head, i) : i \in 0..(Occupied - 1)}

\* Three registers count the same thing: the distance from head to tail is
\* the number of entries num_free does not count, and since a bundle's worth
\* of entries stays free the two never meet when the buffer is in use.
WindowAccounting ==
  /\ tail = Slot(head, Occupied)
  /\ num_free - num_dispatched >= WAYS

\* Commit looks at the WAYS entries from head whether or not they are in
\* use; nothing outside the window is marked done, so it never commits an
\* entry that has left or has not come.
OnlyWindowDone == \A s \in Idx \ Window : ~entries[s].done

\* The number an instruction carries, assigned a cycle before it is stored,
\* is the entry it is stored in: the broadcasts still to come name exactly
\* the entries of the window that wait for one.
BusNamesWindow ==
  /\ executing = {s \in Window : ~entries[s].done}
  /\ Dispatched # {} => rob_idx = tail

\* A broadcast marks the instruction it comes from: done bits exist only in
\* the window, and the numbers still to be broadcast are its unfinished
\* entries, so a late result can neither wake a stranger nor be lost.
BusMeetsWindow == OnlyWindowDone /\ BusNamesWindow

\* "Valid inputs should never come after invalid inputs" (rob.sv).
ValidPrefix == \A i, j \in Ways : i < j /\ Valid(j) => Valid(i)
=============================================================================
