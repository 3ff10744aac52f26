------------------------------- MODULE Issue --------------------------------
(***************************************************************************)
(* Out-of-order issue: the ID/EX register, the reservation stations        *)
(* (rs.sv), the execution units with their multipliers (ex_stage.sv,       *)
(* mult.sv) and the common data bus, which the load queue may take from    *)
(* the last way in any cycle (processor.sv).                               *)
(*                                                                         *)
(* One clock edge is one action.  An instruction is known by its entry in  *)
(* the reorder buffer, of which only the window of entries in use is kept  *)
(* here; an operand that has no value yet is known by the instruction that *)
(* makes it.                                                               *)
(*                                                                         *)
(* The environment is what the other modules model: decode may send any    *)
(* bundle, the load queue keeps a load whose address it has for as long as *)
(* it likes, and a misprediction may empty everything when an instruction  *)
(* that was executed is committed.                                         *)
(***************************************************************************)
EXTENDS Integers, Sequences, FiniteSets

CONSTANTS
  WAYS,     \* instructions per cycle
  ROBSZ,    \* entries of the reorder buffer
  RSSZ,     \* reservation stations
  STAGES,   \* stages of a multiplier
  Kinds,    \* bound: kinds of instructions
  MaxOperands, \* bound: operands of an instruction that have no value yet
  MaxMults, \* bound: multiplications in flight
  None      \* no instruction

ASSUME IssueAssumption ==
  /\ WAYS \in Nat \ {0} /\ ROBSZ \in Nat /\ RSSZ \in Nat /\ STAGES \in Nat \ {0}
  /\ 2 * WAYS <= ROBSZ
  /\ WAYS <= RSSZ
  /\ Kinds \subseteq {"alu", "mult", "load"}
  /\ {MaxOperands, MaxMults} \subseteq Nat
  /\ None \notin 0..(ROBSZ - 1)
  /\ None \notin [idx : 0..(ROBSZ - 1), kind : Kinds, waits : SUBSET (0..(ROBSZ - 1))]

VARIABLES
  head, num,   \* the window: its oldest entry and how many are dispatched
  done,        \* entries of the window whose result has been broadcast
  id_ex,       \* the bundle in the ID/EX register, oldest first
  rs,          \* [Lines -> Packet or None]
  num_is_free, \* what the stations count as free lines
  alu,         \* [Ways -> [state, inst]], inst is the packet in ex_packet_in_tmp
  dones,       \* [Ways -> stages of the multiplier that hold a start bit]
  lq,          \* loads that have their address and not their data
  operands,    \* history: the results each instruction still needs
  edge         \* parity of the clock edges: one at which nothing moves is a step too

vars == <<head, num, done, id_ex, rs, num_is_free, alu, dones, lq, operands, edge>>

Idx == 0..(ROBSZ - 1)
Ways == 0..(WAYS - 1)
Lines == 0..(RSSZ - 1)
Packet == [idx : Idx, kind : Kinds, waits : SUBSET Idx]

Slot(i) == (head + i) % ROBSZ
Window == {Slot(i) : i \in 0..(num + Len(id_ex) - 1)}
InFlight == Window \ done

-----------------------------------------------------------------------------
(* Selecting and matching. *)

Above(S, x) == Cardinality({y \in S : y > x})
Below(S, x) == Cardinality({y \in S : y < x})

\* The priority selector grants from both ends of the requests in turn.
gnt_bus(req) == {l \in req : Above(req, l) < (WAYS + 1) \div 2 \/ Below(req, l) < WAYS \div 2}

ready_hub == {l \in Lines : rs[l] # None /\ rs[l].waits = {}}
reset_hub_tmp == gnt_bus(ready_hub)

\* The load queue, when it has a load to broadcast, has the last way.
lq_CDB_valid(load, j) == load # None /\ j = WAYS - 1
ALU_occupied(j) == alu[j].state # "INITIAL"

\* The instruction a unit works on.
Held(j) == IF ALU_occupied(j) THEN alu[j].inst ELSE None

FreeWays(load) == {j \in Ways : ~ALU_occupied(j) /\ ~lq_CDB_valid(load, j)}

\* Selected lines, in order, get the free ways, in order; the lines left over
\* stay where they are.  A matching is a set of pairs <<line, way>>.
Matching(load) ==
  LET free == FreeWays(load)
  IN  {p \in reset_hub_tmp \X free : Below(reset_hub_tmp, p[1]) = Below(free, p[2])}

reset_hub(m) == {p[1] : p \in m}

-----------------------------------------------------------------------------
(* Execution units; m is the matching of the cycle. *)

\* What the stations send to way j.
rs_packet_out(m, j) == IF \E p \in m : p[2] = j THEN rs[(CHOOSE p \in m : p[2] = j)[1]] ELSE None

\* A unit that cannot take a packet sees the one it took last, executed or not;
\* a squash does not clear it.
ex_packet_in(load, m, j) ==
  IF ALU_occupied(j) \/ lq_CDB_valid(load, j) THEN alu[j].inst ELSE rs_packet_out(m, j)

\* Mutant: an idle unit starts the packet it sees whoever has the bus.
Starts_BusIgnored(load, m, j, kinds) ==
  /\ ~ALU_occupied(j)
  /\ ex_packet_in(load, m, j) # None /\ ex_packet_in(load, m, j).kind \in kinds

Starts(load, m, j, kinds) ==
  /\ ~ALU_occupied(j) /\ ~lq_CDB_valid(load, j)
  /\ ex_packet_in(load, m, j) # None /\ ex_packet_in(load, m, j).kind \in kinds

start(load, m, j) == Starts(load, m, j, {"mult"})
mult_done(j) == STAGES \in dones[j]

\* Mutant: a multiplication that is done does not look at the bus.
valid_out_BusIgnored(load, m, j) ==
  \/ Starts(load, m, j, Kinds \ {"mult"})
  \/ alu[j].state = "MULT_NOT_DONE" /\ mult_done(j)
  \/ alu[j].state = "MULT_DONE_WAIT_FOR_CDB"

valid_out(load, m, j) ==
  \/ Starts(load, m, j, Kinds \ {"mult"})
  \/ alu[j].state = "MULT_NOT_DONE" /\ mult_done(j) /\ ~lq_CDB_valid(load, j)
  \/ alu[j].state = "MULT_DONE_WAIT_FOR_CDB" /\ ~lq_CDB_valid(load, j)

next_state(load, m, j) ==
  IF valid_out(load, m, j) THEN "INITIAL"
  ELSE IF start(load, m, j) THEN "MULT_NOT_DONE"
  ELSE IF alu[j].state = "MULT_NOT_DONE" /\ mult_done(j) THEN "MULT_DONE_WAIT_FOR_CDB"
  ELSE alu[j].state

NextDones(load, m, j) == {s + 1 : s \in dones[j] \ {STAGES}} \cup (IF start(load, m, j) THEN {1} ELSE {})

-----------------------------------------------------------------------------
(* The common data bus. *)

\* What the execution units put on the bus; the load queue's result goes first.
ex_packet_out(load, m) ==
  {ex_packet_in(load, m, j) : j \in {i \in Ways : valid_out(load, m, i) /\ ~lq_CDB_valid(load, i)}}

\* Results, of which an address is none, and the addresses of loads.
CDB_reg_write(load, m) ==
  ({load} \ {None}) \cup {p.idx : p \in {q \in ex_packet_out(load, m) : q.kind # "load"}}
Addresses(load, m) == {p.idx : p \in {q \in ex_packet_out(load, m) : q.kind = "load"}}

Woken(p, bus) == [p EXCEPT !.waits = @ \ bus]

\* Mutant: a result broadcast while its user enters a line is missed.
opa_in_processed_Deaf(p, bus) == p

opa_in_processed(p, bus) == Woken(p, bus)

-----------------------------------------------------------------------------
(* The reservation stations; freed are the lines given up in the cycle. *)

\* Entries in use, without the bundle in the ID/EX register.
num_free == ROBSZ - num
load_in == num_free >= WAYS /\ num_is_free >= WAYS

load_in_hub(freed) == IF load_in THEN gnt_bus({l \in Lines : rs[l] = None} \cup freed) ELSE {}

\* The lines that take the packets of the bundle, in order.
Entered(loaded) == {l \in loaded : Below(loaded, l) < Len(id_ex)}

NextLine(loaded, freed, bus, l) ==
  IF l \in Entered(loaded) THEN opa_in_processed(id_ex[Below(loaded, l) + 1], bus)
  ELSE IF l \in loaded \cup freed \/ rs[l] = None THEN None
  ELSE Woken(rs[l], bus)

\* Mutant: every line that was selected is counted as freed.
free_increase_Selected(m) == Cardinality(reset_hub_tmp)

free_increase(m) == Cardinality(reset_hub(m))
free_decrease(m) == Cardinality(Entered(load_in_hub(reset_hub(m))))

num_is_free_next(m) == num_is_free - free_decrease(m) + free_increase(m)

-----------------------------------------------------------------------------
(* Decode, stall and commit. *)

\* Mutant: the stall looks at the count of the last edge.
rs_is_full_Registered(m) == num_is_free < WAYS

rs_is_full(m) == num_is_free_next(m) < WAYS

rob_is_full(committed) == num_free - Len(id_ex) + committed < 2 * WAYS

\* Operands an instruction in way i may wait for: results that are not there
\* yet, and those of older instructions in its own bundle.
NewIdx(i) == Slot(num + Len(id_ex) + i - 1)
Operands(i) ==
  {S \in SUBSET (InFlight \cup {NewIdx(j) : j \in 1..(i - 1)}) : Cardinality(S) <= MaxOperands}

Mults ==
  {p \in {id_ex[k] : k \in 1..Len(id_ex)} \cup {rs[l] : l \in Lines} \cup {Held(j) : j \in Ways} :
     p # None /\ p.kind = "mult"}

Mix(n) ==
  {f \in [1..n -> Kinds] : Cardinality({i \in 1..n : f[i] = "mult"}) + Cardinality(Mults) <= MaxMults}

Bundles ==
  UNION {{[i \in 1..n |-> [kind |-> kinds[i], needs |-> needs[i]]] :
            kinds \in Mix(n),
            needs \in {f \in [1..n -> Operands(n)] : \A i \in 1..n : f[i] \in Operands(i)}} :
         n \in 0..WAYS}

\* Mutant: decode does not look at the bus.
id_packet_NoBus(b, i, bus) == [idx |-> NewIdx(i), kind |-> b[i].kind, waits |-> b[i].needs]

\* What decode finds: results on the bus are values already.
id_packet(b, i, bus) == [idx |-> NewIdx(i), kind |-> b[i].kind, waits |-> b[i].needs \ bus]

\* Commit takes what is done at the head, one instruction at least.
Commits ==
  LET prefix == {n \in 0..WAYS : n <= num /\ \A i \in 0..(n - 1) : Slot(i) \in done}
  IN  {n \in prefix : 1 \in prefix => n >= 1}

-----------------------------------------------------------------------------
Init ==
  /\ head = 0 /\ num = 0 /\ done = {}
  /\ id_ex = <<>>
  /\ rs = [l \in Lines |-> None]
  /\ num_is_free = RSSZ
  /\ alu = [j \in Ways |-> [state |-> "INITIAL", inst |-> None]]
  /\ dones = [j \in Ways |-> {}]
  /\ lq = {}
  /\ operands = [i \in Idx |-> {}]
  /\ edge = 0

\* Issue, execution and the entry of the bundle: load is the load that the load
\* queue broadcasts, m the matching.
Execute(load, m) ==
  LET bus == CDB_reg_write(load, m)
      loaded == load_in_hub(reset_hub(m))
  IN  /\ rs' = [l \in Lines |-> NextLine(loaded, reset_hub(m), bus, l)]
      /\ num_is_free' = num_is_free_next(m)
      /\ alu' = [j \in Ways |-> [state |-> next_state(load, m, j), inst |-> ex_packet_in(load, m, j)]]
      /\ dones' = [j \in Ways |-> NextDones(load, m, j)]
      /\ lq' = (lq \ {load}) \cup Addresses(load, m)

\* Commit and decode: committed instructions leave the window and bundle b, the
\* empty one at a stall, goes to the ID/EX register.
Advance(bus, b, committed) ==
  /\ head' = Slot(committed)
  /\ num' = num + Len(id_ex) - committed
  /\ done' = (done \ {Slot(i) : i \in 0..(committed - 1)}) \cup bus
  /\ id_ex' = [i \in 1..Len(b) |-> id_packet(b, i, bus)]
  /\ operands' = [x \in Idx |-> (IF \E i \in 1..Len(b) : NewIdx(i) = x
                                 THEN b[CHOOSE i \in 1..Len(b) : NewIdx(i) = x].needs
                                 ELSE operands[x]) \ bus]
  /\ edge' = 1 - edge

Cycle(load) ==
  LET m == Matching(load)
      bus == CDB_reg_write(load, m)
  IN  /\ Execute(load, m)
      /\ \E committed \in Commits :
           \E b \in IF rob_is_full(committed) \/ rs_is_full(m) THEN {<<>>} ELSE Bundles :
             Advance(bus, b, committed)

\* A mispredicted branch commits and everything starts again; the packets in
\* front of the units are not reset.
Except(load) ==
  /\ num > 0 /\ Slot(0) \in done
  /\ head' = 0 /\ num' = 0 /\ done' = {}
  /\ id_ex' = <<>>
  /\ rs' = [l \in Lines |-> None]
  /\ num_is_free' = RSSZ
  /\ alu' = [j \in Ways |-> [state |-> "INITIAL", inst |-> ex_packet_in(load, Matching(load), j)]]
  /\ dones' = [j \in Ways |-> {}]
  /\ lq' = {}
  /\ operands' = [i \in Idx |-> {}]
  /\ edge' = 1 - edge

Next == \E load \in lq \cup {None} : Cycle(load) \/ Except(load)

Spec == Init /\ [][Next]_vars

\* The clock runs, and no load stays in the load queue for ever.
FairSpec ==
  /\ Spec
  /\ []<>(edge = 0) /\ []<>(edge = 1)
  /\ \A i \in Idx : []<>(i \notin lq)

-----------------------------------------------------------------------------
\* Types.  A line or a unit never holds more than one instruction, and the
\* count of free lines stays within the stations.
TypeOK ==
  /\ head \in Idx /\ num \in 0..ROBSZ /\ done \subseteq Idx /\ lq \subseteq Idx
  /\ id_ex \in Seq(Packet) /\ Len(id_ex) <= WAYS
  /\ rs \in [Lines -> Packet \cup {None}]
  /\ num_is_free \in 0..RSSZ
  /\ \A j \in Ways :
       /\ alu[j].state \in {"INITIAL", "MULT_NOT_DONE", "MULT_DONE_WAIT_FOR_CDB"}
       /\ alu[j].inst \in Packet \cup {None}
       /\ dones[j] \subseteq 1..STAGES
  /\ operands \in [Idx -> SUBSET Idx]
  /\ edge \in 0..1

\* The places where instruction i is.
Places(i) ==
  {<<"id_ex", k>> : k \in {n \in 1..Len(id_ex) : id_ex[n].idx = i}}
  \cup {<<"rs", l>> : l \in {m \in Lines : rs[m] # None /\ rs[m].idx = i}}
  \cup {<<"alu", j>> : j \in {w \in Ways : Held(w) # None /\ Held(w).idx = i}}
  \cup (IF i \in lq THEN {<<"lq", 0>>} ELSE {})
  \cup (IF i \in done THEN {<<"done", 0>>} ELSE {})

\* An instruction in the window is in one place at a time and no instruction
\* outside it is anywhere: none is dropped at a stall, for want of a unit or of
\* the bus, and none runs twice or on after a squash.
OnePlace == \A i \in Idx : Cardinality(Places(i)) = IF i \in Window THEN 1 ELSE 0

\* A bundle that has reached the ID/EX register finds the lines and entries it
\* needs in the same cycle: the register is never held, so it would be lost.
BundleFits == id_ex # <<>> => load_in /\ num_is_free = Cardinality({l \in Lines : rs[l] = None})

\* A waiting instruction waits for exactly the operands that have not been
\* broadcast: it misses no broadcast, wherever it is when it comes, and starts
\* with every operand it needs.
WaitsExact ==
  /\ \A k \in 1..Len(id_ex) : id_ex[k].waits = operands[id_ex[k].idx]
  /\ \A l \in Lines : rs[l] # None => rs[l].waits = operands[rs[l].idx]

\* As long as there are instructions the oldest is executed and commits, or all
\* are squashed; so every instruction is executed or squashed.  No line starves
\* although the selector prefers the ends and the load queue the last way.
Finishes == []<><<Window = {} \/ head' # head>>_vars
=============================================================================
