------------------------------- MODULE Rename -------------------------------
(***************************************************************************)
(* Register renaming: the map tables (RAT_RRAT.sv), the free lists         *)
(* (FreeList.sv), the valid lists (Validlist.sv) and the physical register *)
(* file (PRF.sv), as id_stage.sv wires them together and as the reorder    *)
(* buffer and the common data bus drive them.                              *)
(*                                                                         *)
(* Every register of these modules is clocked together, so one clock edge  *)
(* is one action: Clock when no mispredicted branch commits in the cycle,  *)
(* Except when one does.  Between them the two actions perform everything  *)
(* the hardware does in the cycle: commit of up to WAYS instructions,      *)
(* broadcast of up to WAYS results, renaming of up to WAYS instructions    *)
(* and the choice of the registers offered to the next cycle.              *)
(*                                                                         *)
(* ARN are the architectural registers x1..x31; x0 is never renamed.  PRN  *)
(* are the physical registers other than number 0, which stays with x0.    *)
(***************************************************************************)
EXTENDS Integers, Sequences, FiniteSets

CONSTANTS
  ARN,        \* renamable architectural registers; reset maps each to itself
  PRN,        \* physical registers, ARN among them
  P0,         \* physical register 0: what an invalid free-list port shows
  NoReg,      \* destination of an instruction that writes no register
  X0,         \* destination of a load into x0
  Dest,       \* the destinations of the program's instructions
  Observed,   \* the source registers whose reads the model records
  Val,        \* data values
  Zero,       \* the value registers hold after reset
  WAYS,       \* superscalar width
  ROBSZ       \* entries of the reorder buffer

ASSUME SizesAssumption ==
  /\ WAYS \in Nat \ {0}
  /\ ROBSZ \in Nat
  /\ 2 * WAYS <= ROBSZ

ASSUME RegistersAssumption ==
  /\ IsFiniteSet(PRN)
  /\ ARN \subseteq PRN
  /\ Cardinality(PRN) >= Cardinality(ARN) + ROBSZ
  /\ P0 \notin PRN
  /\ NoReg \notin ARN
  /\ X0 \notin ARN
  /\ X0 # NoReg
  /\ Dest \subseteq ARN \cup {NoReg, X0}
  /\ Observed \subseteq ARN
  /\ Zero \in Val

VARIABLES
  RAT,          \* speculative map, ARN -> PRN
  RRAT,         \* retirement map, ARN -> PRN
  free_RAT,     \* registers free for the speculative state
  free_RRAT,    \* registers free for the retired state
  reg_idx_out,  \* register latched for each way to take; P0 = not valid
  valid_RAT,    \* registers whose value is available, speculative
  valid_RRAT,   \* registers whose value is available, retired
  prf,          \* register contents
  inflight,     \* instructions renamed and not committed (ID/EX and ROB), oldest first
  operand,      \* one source operand latched into the ID/EX register
  started       \* FALSE only in the cycle after reset, when no fetch can hit

vars == <<RAT, RRAT, free_RAT, free_RRAT, reg_idx_out, valid_RAT, valid_RRAT,
          prf, inflight, operand, started>>

Ways == 1..WAYS
Instr == [arn : ARN \cup {NoReg, X0}, prn : PRN \cup {P0}, done : BOOLEAN]
NoOperand == [way |-> 0, arn |-> NoReg, ready |-> FALSE, val |-> Zero, tag |-> P0]

\* What a source operand of a way, naming register a, can look like.
Operand == [way : 0..WAYS, arn : ARN \cup {NoReg}, ready : BOOLEAN, val : Val, tag : PRN \cup {P0}]
Image(f) == {f[x] : x \in DOMAIN f}

-----------------------------------------------------------------------------
(* Map tables. *)

\* The instructions of the sequence s that name a as their destination.
Writers(s, a) == {i \in DOMAIN s : s[i].arn = a}

\* The last of them: the one whose register the chain of RAT_tmp ends with.
Youngest(s, a) == CHOOSE i \in Writers(s, a) : \A j \in Writers(s, a) : j <= i

\* A map after the instructions of s have written it in order.
Overwrite(map, s) ==
  [a \in ARN |-> IF Writers(s, a) = {} THEN map[a] ELSE s[Youngest(s, a)].prn]

Oldest(k) == SubSeq(inflight, 1, k)

RRAT_next(k) == Overwrite(RRAT, Oldest(k))

\* The committing instructions that write the retirement map.
Retiring(k) == {i \in 1..k : inflight[i].arn \in ARN}

\* Mutant: no forwarding between ways that commit the same destination.
RRAT_PRF_old_NoForward(i) == RRAT[inflight[i].arn]

\* The register way i pushes out of the retirement map, taking into account
\* the older ways that commit in the same cycle.
RRAT_PRF_old(i) == Overwrite(RRAT, Oldest(i - 1))[inflight[i].arn]

Entering(k) == {inflight[i].prn : i \in Retiring(k)}
Leaving(k) == {RRAT_PRF_old(i) : i \in Retiring(k)}

-----------------------------------------------------------------------------
(* Free lists. *)

free_RRAT_next(k) == (free_RRAT \ Entering(k)) \cup Leaving(k)

\* dests[i] is what the instruction in way i writes.  A way that writes an
\* architectural register takes the register latched for it.
Taken(dests) == {reg_idx_out[i] : i \in {j \in DOMAIN dests : dests[j] \in ARN}} \ {P0}

\* Mutant: a taken register is not removed from the free list.
free_RAT_next_KeepsTaken(k, dests) == free_RAT \cup Leaving(k)

free_RAT_next(k, dests) == (free_RAT \ Taken(dests)) \cup Leaving(k)

\* What the priority selectors may latch out of the set S: distinct registers
\* for as many ways as S can serve, the lowest ways first.
Grants(S) ==
  LET n == IF Cardinality(S) < WAYS THEN Cardinality(S) ELSE WAYS
  IN  {g \in [Ways -> S \cup {P0}] :
         /\ \A i \in Ways : g[i] = P0 <=> i > n
         /\ \A i, j \in 1..n : g[i] = g[j] => i = j}

-----------------------------------------------------------------------------
(* Renaming one bundle. *)

\* The bundle as the reorder buffer will hold it.  The register number of a
\* way reaches it whether or not the free list declared it valid, and a load
\* into x0 carries the number offered to its way although it takes none.
Bundle(dests) ==
  [i \in DOMAIN dests |->
     [arn  |-> dests[i],
      prn  |-> IF dests[i] = NoReg THEN P0 ELSE reg_idx_out[i],
      done |-> FALSE]]

\* The bundle as the map table sees it: ways without a valid register are
\* not renamed.
IsRenamed(dests) ==
  [i \in DOMAIN dests |->
     [arn |-> IF reg_idx_out[i] = P0 THEN NoReg ELSE dests[i], prn |-> reg_idx_out[i]]]

\* Mutant: a way does not see the renamings of the older ways of its bundle.
RAT_tmp_NoChain(dests, i) == RAT

\* Mutant: the map is latched one link early in the chain.
RAT_next_OneShort(dests) ==
  Overwrite(RAT, SubSeq(IsRenamed(dests), 1, IF Len(dests) < WAYS THEN Len(dests) ELSE WAYS - 1))

RAT_tmp(dests, i) == Overwrite(RAT, SubSeq(IsRenamed(dests), 1, i - 1))
RAT_next(dests) == Overwrite(RAT, IsRenamed(dests))

-----------------------------------------------------------------------------
(* Results.  res maps the instructions broadcast in this cycle to values. *)

\* The broadcasts that write a register: those of instructions that write an
\* architectural register, and every broadcast of the load queue.
RegWrites(res) == {i \in DOMAIN res : inflight[i].prn # P0}
CDB_PRF_idx(res) == {inflight[i].prn : i \in RegWrites(res)}
CDB_Data(res, p) == res[CHOOSE i \in RegWrites(res) : inflight[i].prn = p]

prf_next(res) ==
  [p \in PRN |-> IF p \in CDB_PRF_idx(res) THEN CDB_Data(res, p) ELSE prf[p]]

Finish(res) ==
  [i \in DOMAIN inflight |->
     [inflight[i] EXCEPT !.done = @ \/ i \in DOMAIN res]]

Unfinished == {i \in DOMAIN inflight : ~inflight[i].done}

\* Result buses: at most one broadcast per way.
Broadcasts ==
  UNION {[S -> Val] : S \in {T \in SUBSET Unfinished : Cardinality(T) <= WAYS}}

-----------------------------------------------------------------------------
(* Valid lists. *)

valid_RRAT_next(k) == (valid_RRAT \ Leaving(k)) \cup Entering(k)

\* Mutant: renaming does not clear the valid bit.
valid_RAT_next_NotCleared(res, dests) == valid_RAT \cup CDB_PRF_idx(res)

valid_RAT_tmp(res, dests, i) ==
  (valid_RAT \cup CDB_PRF_idx(res)) \ Taken(SubSeq(dests, 1, i - 1))
valid_RAT_next(res, dests) == (valid_RAT \cup CDB_PRF_idx(res)) \ Taken(dests)

\* What way i gets when it reads register a: the value, from the register file
\* or straight from the bus, or the number of the register to wait for.
SourceOperand(res, dests, i, a) ==
  LET p == RAT_tmp(dests, i)[a]
  IN  IF p \in valid_RAT_tmp(res, dests, i)
      THEN [way |-> i, arn |-> a, ready |-> TRUE, val |-> prf_next(res)[p], tag |-> P0]
      ELSE [way |-> i, arn |-> a, ready |-> FALSE, val |-> Zero, tag |-> p]

-----------------------------------------------------------------------------
(* The clock edges. *)

Committable(k) == \A i \in 1..k : inflight[i].done

\* Mutant: the first cycle after reset renames too.
MayRename_AtReset(k) == ROBSZ - (Len(inflight) - k) >= 2 * WAYS

\* Mutant: rob_is_full compares with WAYS instead of 2 * WAYS.
MayRename_OneBundle(k) == started /\ ROBSZ - (Len(inflight) - k) >= WAYS

\* rob_is_full holds while fewer than 2 * WAYS entries are left after this
\* cycle's commits; a stalled fetch renames nothing.
MayRename(k) == started /\ ROBSZ - (Len(inflight) - k) >= 2 * WAYS

Init ==
  /\ RAT = [a \in ARN |-> a]
  /\ RRAT = [a \in ARN |-> a]
  /\ free_RAT = PRN \ ARN
  /\ free_RRAT = PRN \ ARN
  /\ reg_idx_out = [i \in Ways |-> P0]
  /\ valid_RAT = ARN
  /\ valid_RRAT = ARN
  /\ prf = [p \in PRN |-> Zero]
  /\ inflight = <<>>
  /\ operand = NoOperand
  /\ started = FALSE

Clock(k, res, dests) ==
  /\ Committable(k)
  /\ dests # <<>> => MayRename(k)
  /\ RAT' = RAT_next(dests)
  /\ RRAT' = RRAT_next(k)
  /\ free_RAT' = free_RAT_next(k, dests)
  /\ free_RRAT' = free_RRAT_next(k)
  /\ reg_idx_out' \in Grants(free_RAT_next(k, dests))
  /\ valid_RAT' = valid_RAT_next(res, dests)
  /\ valid_RRAT' = valid_RRAT_next(k)
  /\ prf' = prf_next(res)
  /\ inflight' = SubSeq(Finish(res), k + 1, Len(inflight)) \o Bundle(dests)
  /\ operand' \in IF dests = <<>> \/ Observed = {} THEN {NoOperand}
                  ELSE {SourceOperand(res, dests, i, a) : i \in DOMAIN dests, a \in Observed}
  /\ started' = TRUE

\* The k-th committing instruction is a mispredicted branch: everything
\* younger is dropped and the speculative state restarts from the retired one.
Except(k, res) ==
  /\ k > 0
  /\ Committable(k)
  /\ RAT' = RRAT_next(k)
  /\ RRAT' = RRAT_next(k)
  /\ free_RAT' = free_RRAT_next(k)
  /\ free_RRAT' = free_RRAT_next(k)
  /\ reg_idx_out' \in Grants(free_RRAT_next(k))
  /\ valid_RAT' = valid_RRAT_next(k)
  /\ valid_RRAT' = valid_RRAT_next(k)
  /\ prf' = prf_next(res)
  /\ inflight' = <<>>
  /\ operand' = NoOperand
  /\ started' = TRUE

MaxCommit == IF Len(inflight) < WAYS THEN Len(inflight) ELSE WAYS

Next ==
  \E k \in 0..MaxCommit, res \in Broadcasts :
    \/ \E n \in 0..WAYS : \E dests \in [1..n -> Dest] : Clock(k, res, dests)
    \/ Except(k, res)

Spec == Init /\ [][Next]_vars
-----------------------------------------------------------------------------
(* Properties. *)

\* Physical registers named by instructions in flight.
Held == {inflight[i].prn : i \in {j \in DOMAIN inflight : inflight[j].arn \in ARN}}

\* Registers that hold a result: the retired ones and those whose
\* instruction in flight has broadcast.
Produced == Image(RRAT) \cup {inflight[i].prn : i \in {j \in DOMAIN inflight :
                                 inflight[j].arn \in ARN /\ inflight[j].done}}

\* Types of the registers of RAT_RRAT.sv, FreeList.sv, Validlist.sv and PRF.sv.
TypeOK ==
  /\ RAT \in [ARN -> PRN]
  /\ RRAT \in [ARN -> PRN]
  /\ free_RAT \in SUBSET PRN
  /\ free_RRAT \in SUBSET PRN
  /\ reg_idx_out \in [Ways -> PRN \cup {P0}]
  /\ valid_RAT \in SUBSET PRN
  /\ valid_RRAT \in SUBSET PRN
  /\ prf \in [PRN -> Val]
  /\ inflight \in Seq(Instr)
  /\ operand \in Operand
  /\ started \in BOOLEAN

\* The stall of processor.sv keeps a bundle's worth of reorder-buffer entries
\* unused, which is what makes the free list never run short.
RoomKept == Len(inflight) <= ROBSZ - WAYS

\* No two owners of a register: the retired mappings and the destinations of
\* the instructions in flight are pairwise different.
NoSharedRegister ==
  /\ \A a, b \in ARN : RRAT[a] = RRAT[b] => a = b
  /\ \A i, j \in DOMAIN inflight :
       inflight[i].arn \in ARN /\ inflight[j].arn \in ARN
         /\ inflight[i].prn = inflight[j].prn => i = j
  /\ Held \cap Image(RRAT) = {}

\* No register leaks and none is freed early: each free list holds exactly
\* the registers its map (and, for the speculative one, the instructions in
\* flight) does not use (free_RAT_next and free_RRAT_next of FreeList.sv).
FreeListsExact ==
  /\ free_RRAT = PRN \ Image(RRAT)
  /\ free_RAT = PRN \ (Image(RRAT) \cup Held)

\* The registers latched for the next bundle are distinct and free, so two
\* ways of a bundle never take the same register.
OffersFree ==
  \A i, j \in Ways :
    reg_idx_out[i] # P0 =>
      /\ reg_idx_out[i] \in free_RAT
      /\ reg_idx_out[i] = reg_idx_out[j] => i = j

\* Every physical register has one owner: a retired mapping, an instruction
\* in flight, or a free list, with the next bundle's registers chosen among
\* the free ones.  No edge of FreeList.sv leaks a register, frees one that is
\* still mapped or hands one out twice, whatever commits and renames together.
OneOwner == NoSharedRegister /\ FreeListsExact /\ OffersFree

\* Every way always has a register to take: id_stage.sv never looks at
\* dest_PRF_valid ("SHOULD BE ALL 1s"), so a way without one would enter the
\* window with physical register 0 as its destination.
NeverOutOfRegisters ==
  /\ started => \A i \in Ways : reg_idx_out[i] # P0
  /\ \A i \in DOMAIN inflight : inflight[i].arn \in ARN => inflight[i].prn # P0

\* The speculative map is the retired map after every instruction in flight
\* has written it, in program order.
RATIsProgramOrder == RAT = Overwrite(RRAT, inflight)

\* A register stays invalid until its own instruction has broadcast: "From
\* RAT, freshly renamed entries are invalid" (Validlist.sv).
FreshIsInvalid ==
  \A i \in DOMAIN inflight :
    inflight[i].arn \in ARN /\ ~inflight[i].done => inflight[i].prn \notin valid_RAT

\* A register in flight is marked valid exactly when its instruction has
\* broadcast, and every retired register is valid in both lists.  The retired
\* list may also hold free registers: when two ways commit the same
\* destination together, the first one's register enters and leaves at once,
\* and entering wins (valid_RRAT_next of Validlist.sv).
ValidMeansProduced ==
  /\ FreshIsInvalid
  /\ Produced \subseteq valid_RAT
  /\ Image(RRAT) \subseteq valid_RRAT

\* A result, once produced, is not overwritten while its register is the home
\* of a committed value or of one waiting to commit: no register is handed out
\* again too early and no late broadcast lands in it (PRF.sv writes whatever
\* register the bus names).
ProducedValuesStable ==
  [][\A p \in Produced : prf'[p] = prf[p]]_vars
=============================================================================
