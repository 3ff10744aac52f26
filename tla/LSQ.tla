--------------------------------- MODULE LSQ ---------------------------------
(***************************************************************************)
(* The load and store queues: sq.sv, lq.sv and the wiring of lsq.sv.       *)
(*                                                                         *)
(* One clock edge is one action.  In a cycle the bundle of the ID/EX       *)
(* register enters the queues, the address adders broadcast addresses, the *)
(* common data bus delivers store data, the reorder buffer may commit the  *)
(* oldest store, which writes the cache at once, one load reads the cache, *)
(* memory may answer a load that missed, and one finished load is          *)
(* broadcast.                                                              *)
(*                                                                         *)
(* What surrounds the queues: window is the program order the reorder      *)
(* buffer keeps, restricted to the memory instructions whose order still   *)
(* matters, and mem is the memory as seen through the data cache, which    *)
(* answers a read with its current contents, at once or later.             *)
(*                                                                         *)
(* A block (8 bytes in the code) has two units, a register too; an access  *)
(* is to one unit ("byte") or to both ("word").  A unit is named after     *)
(* where it was first written, so no two values are equal by accident.     *)
(***************************************************************************)
EXTENDS Integers, FiniteSets

CONSTANTS
  LSQSZ,      \* slots of each queue
  WAYS,       \* superscalar width
  Blocks,     \* memory blocks
  Program,    \* the memory instructions: [kind, size, addr, signed]
  MaxOps,     \* bound: instructions dispatched in a behaviour
  Starts      \* bound: the slots the store queue may start from

ASSUME QueueAssumption ==
  /\ WAYS \in Nat \ {0}
  /\ LSQSZ \in Nat
  /\ LSQSZ > WAYS
  /\ MaxOps \in Nat
  /\ Starts \subseteq 0..(LSQSZ - 1)

ASSUME ProgramAssumption ==
  /\ Blocks # {}
  /\ Program \subseteq [kind : {"store", "load"}, size : {"byte", "word"},
                        addr : [block : Blocks, off : 0..1], signed : BOOLEAN]

VARIABLES
  sq,             \* store queue entries, by slot
  sq_head,        \* slot of the oldest store
  sq_tail,        \* slot of the next store
  sq_num_free,    \* free slots
  lq,             \* load queue entries, by slot
  lq_num_free,    \* free slots
  window,         \* stores not committed and loads not broadcast, by their number
  sent,           \* those whose address has been broadcast
  mem,            \* [Blocks -> [0..1 -> unit]]
  dispatched      \* instructions dispatched so far

vars == <<sq, sq_head, sq_tail, sq_num_free, lq, lq_num_free, window, sent, mem, dispatched>>

Slots == 0..(LSQSZ - 1)
Ways == 1..WAYS
Ids == 1..MaxOps

-----------------------------------------------------------------------------
(* Data. *)

Unit == [src : Blocks \cup 0..MaxOps, part : 0..1, sign : BOOLEAN]
ZeroUnit == [src |-> 0, part |-> 0, sign |-> FALSE]
SignOf(u) == [u EXCEPT !.sign = TRUE]
NoData == <<ZeroUnit, ZeroUnit>>
MixedData == <<SignOf(ZeroUnit), SignOf(ZeroUnit)>>    \* different values wired together

\* The source register of store id.
Register(id) == <<[src |-> id, part |-> 0, sign |-> FALSE], [src |-> id, part |-> 1, sign |-> FALSE]>>

Written(m, op, data) ==
  IF op.size = "word"
  THEN [m EXCEPT ![op.addr.block] = [o \in 0..1 |-> data[o + 1]]]
  ELSE [m EXCEPT ![op.addr.block][op.addr.off] = data[1]]

\* The memory returns a byte with zeros above it.
ReadFrom(m, size, addr) ==
  IF size = "word" THEN <<m[addr.block][0], m[addr.block][1]>>
  ELSE <<m[addr.block][addr.off], ZeroUnit>>

\* What the load queue puts on the bus for the data d it holds.
CDB_Data(size, signed, d) ==
  IF signed /\ size = "byte" THEN <<d[1], SignOf(d[1])>> ELSE d

-----------------------------------------------------------------------------
(* The queues as registers. *)

NoAddr == [block |-> CHOOSE b \in Blocks : TRUE, off |-> 0]

FreeStore == [valid |-> FALSE, id |-> 0, size |-> "word", addr |-> NoAddr,
              addr_valid |-> FALSE, data |-> NoData, data_valid |-> FALSE]
FreeLoad == [free |-> TRUE, id |-> 0, size |-> "word", signed |-> FALSE, addr |-> NoAddr,
             addr_ready |-> FALSE, sq_tail_old |-> 0, data |-> NoData, state |-> 0]

\* The instructions are numbered as they come: program order is that of numbers.
InWindow == DOMAIN window
StoresIn == {id \in InWindow : window[id].kind = "store"}
LoadsIn == {id \in InWindow : window[id].kind = "load"}
Oldest == CHOOSE id \in InWindow : \A other \in InWindow : id <= other

-----------------------------------------------------------------------------
(* Age and conflicts of a load, from the registers. *)

\* Mutant: the wrap-around is ignored.
age_mask_NoWrap(s) == {j \in Slots : sq_head <= j /\ j < lq[s].sq_tail_old}

wrap_around(s) == sq_head > lq[s].sq_tail_old

\* The slots that can hold stores older than the load in slot s.
age_mask(s) ==
  IF wrap_around(s)
  THEN {j \in Slots : j < lq[s].sq_tail_old \/ j >= sq_head}
  ELSE {j \in Slots : j < lq[s].sq_tail_old /\ j >= sq_head}

\* Mutant: a store whose address is unknown does not hold a load back.
ls_addr_block_hit_KnownOnly(s, j) ==
  /\ ~lq[s].free
  /\ sq[j].valid
  /\ lq[s].addr_ready
  /\ sq[j].addr_valid
  /\ lq[s].addr.block = sq[j].addr.block

\* Same block, or one of the addresses is unknown.
ls_addr_block_hit(s, j) ==
  /\ ~lq[s].free
  /\ sq[j].valid
  /\ lq[s].addr_ready /\ sq[j].addr_valid => lq[s].addr.block = sq[j].addr.block

\* Mutant: the sizes are not compared.
ls_addr_all_hit_AnySize(s, j) ==
  /\ ls_addr_block_hit(s, j)
  /\ lq[s].addr_ready
  /\ sq[j].addr_valid
  /\ sq[j].data_valid
  /\ lq[s].addr.off = sq[j].addr.off

\* The store's data is exactly what the load reads.
ls_addr_all_hit(s, j) ==
  /\ ls_addr_block_hit(s, j)
  /\ lq[s].addr_ready
  /\ sq[j].addr_valid
  /\ sq[j].data_valid
  /\ lq[s].addr.off = sq[j].addr.off
  /\ lq[s].size = sq[j].size

MaxOf(S) == CHOOSE x \in S : \A y \in S : y <= x

\* Mutant: stores of any age hold a load back.
ls_addr_block_hit_selected_AnyAge(s) ==
  LET hits == {j \in Slots : ls_addr_block_hit(s, j)}
  IN  IF hits = {} THEN {} ELSE {MaxOf(hits)}

\* The youngest of the conflicting older stores: when the queue wraps, the
\* slots below the load's tail are younger than those from the head up.
ls_addr_block_hit_selected(s) ==
  LET hits == {j \in age_mask(s) : ls_addr_block_hit(s, j)}
      below == {j \in hits : j < lq[s].sq_tail_old}
  IN  IF hits = {} THEN {}
      ELSE IF wrap_around(s) /\ below # {} THEN {MaxOf(below)}
      ELSE {MaxOf(hits)}

ls_addr_forward(s) == {j \in ls_addr_block_hit_selected(s) : ls_addr_all_hit(s, j)}

Reading == {s \in Slots : lq[s].state = 1}    \* may go to the cache
Waiting == {s \in Slots : lq[s].state = 2}    \* missed, wait for memory
Done == {s \in Slots : lq[s].state = 3}       \* wait for the bus

\* An arbiter grants one of the requests.
Grants(requests) == IF requests = {} THEN {{}} ELSE {{s} : s \in requests}

-----------------------------------------------------------------------------
(* Dispatch.  A bundle maps each way to an instruction or to Nothing.  The   *)
(* instructions are numbered as they come, as the reorder buffer does.       *)

Nothing == [kind |-> "none", size |-> "word", addr |-> NoAddr, signed |-> FALSE]
Bundles == [Ways -> Program \cup {Nothing}]
NoBundle == [i \in Ways |-> Nothing]

Enabled(bundle, kind) == {i \in Ways : bundle[i].kind = kind}
Incoming(bundle) == Enabled(bundle, "store") \cup Enabled(bundle, "load")
IdOf(bundle, i) == dispatched + 1 + Cardinality({j \in Incoming(bundle) : j < i})

\* Mutant: the tail does not wrap.
sq_tail_internal_tmp_NoWrap(bundle, i) ==
  sq_tail + Cardinality({j \in Enabled(bundle, "store") : j < i})

\* The slot way i's store goes to, and for i = WAYS + 1 the next tail.
sq_tail_internal_tmp(bundle, i) ==
  (sq_tail + Cardinality({j \in Enabled(bundle, "store") : j < i})) % LSQSZ

\* Mutant: a load does not count the stores of its own bundle.
ld_sq_tail_NoChain(bundle, i) == sq_tail

\* The tail as way i's load sees it: past the older stores of its bundle.
ld_sq_tail(bundle, i) ==
  (sq_tail + Cardinality({j \in Enabled(bundle, "store") : j < i})) % LSQSZ

\* Free slots are taken from the top by ways 1, 3, ... and from the bottom by
\* ways 2, 4, ...
LoadSlot(i) ==
  LET free == {s \in Slots : lq[s].free}
      rank == (i - 1) \div 2
  IN  {s \in free : Cardinality({t \in free : IF i % 2 = 1 THEN t > s ELSE t < s}) = rank}

NewLoad(bundle, i) ==
  [FreeLoad EXCEPT !.free = FALSE, !.id = IdOf(bundle, i), !.size = bundle[i].size,
                   !.signed = bundle[i].signed, !.sq_tail_old = ld_sq_tail(bundle, i)]

\* data are the stores whose source register is on the bus, or was ready.
NewStore(bundle, i, data) ==
  LET id == IdOf(bundle, i)
  IN  [FreeStore EXCEPT !.valid = TRUE, !.id = id, !.size = bundle[i].size,
                        !.data = IF id \in data THEN Register(id) ELSE NoData,
                        !.data_valid = id \in data]

NewOps(bundle) == {IdOf(bundle, i) : i \in Incoming(bundle)}

-----------------------------------------------------------------------------
(* What one cycle does to a queue entry.  alu are the instructions whose     *)
(* addresses are broadcast.                                                  *)

NextStore(j, bundle, alu, data, commit) ==
  LET way == {i \in Enabled(bundle, "store") : sq_tail_internal_tmp(bundle, i) = j}
      addr_hit == sq[j].valid /\ ~sq[j].addr_valid /\ sq[j].id \in alu
      data_hit == sq[j].valid /\ ~sq[j].data_valid /\ sq[j].id \in data
  IN  IF way # {} THEN NewStore(bundle, CHOOSE i \in way : TRUE, data)
      ELSE IF commit /\ j = sq_head THEN FreeStore
      ELSE [sq[j] EXCEPT !.addr = IF addr_hit THEN window[sq[j].id].addr ELSE @,
                         !.addr_valid = @ \/ addr_hit,
                         !.data = IF data_hit THEN Register(sq[j].id) ELSE @,
                         !.data_valid = @ \/ data_hit]

\* The state machine of slot s; cache, hit and fb are this cycle's cache grant,
\* its outcome and the answer of memory.
ls_state_next(s, cache, hit, fb) ==
  IF lq[s].state = 0
  THEN IF ls_addr_block_hit_selected(s) = {} /\ lq[s].addr_ready THEN 1
       ELSE IF ls_addr_forward(s) # {} THEN 3 ELSE 0
  ELSE IF lq[s].state = 1
  THEN IF s \in cache THEN IF hit THEN 3 ELSE 2 ELSE 1
  ELSE IF lq[s].state = 2
  THEN IF s \in fb THEN 3 ELSE 2
  ELSE 3

\* The data register takes the wired or of its sources; a store is a source as
\* long as it can be forwarded, whatever the load's state.
ld_data_next(s, m, cache, hit, fb) ==
  LET sources == {sq[j].data : j \in ls_addr_forward(s)}
        \cup (IF s \in cache /\ hit THEN {ReadFrom(m, lq[s].size, lq[s].addr)} ELSE {})
        \cup (IF s \in fb THEN {ReadFrom(mem, lq[s].size, lq[s].addr)} ELSE {})
  IN  IF sources = {} THEN lq[s].data
      ELSE IF \E d \in sources : sources = {d} THEN CHOOSE d \in sources : TRUE
      ELSE MixedData

\* A broadcast load leaves its slot; slots are taken from those free before.
NextLoad(s, m, bundle, alu, cache, hit, fb, gnt) ==
  LET way == {i \in Enabled(bundle, "load") : s \in LoadSlot(i)}
      addr_hit == ~lq[s].addr_ready /\ lq[s].id \in alu
  IN  IF way # {} THEN NewLoad(bundle, CHOOSE i \in way : TRUE)
      ELSE IF s \in gnt \/ lq[s].free THEN FreeLoad
      ELSE [lq[s] EXCEPT !.addr = IF addr_hit THEN window[lq[s].id].addr ELSE @,
                         !.addr_ready = @ \/ addr_hit,
                         !.data = ld_data_next(s, m, cache, hit, fb),
                         !.state = ls_state_next(s, cache, hit, fb)]

-----------------------------------------------------------------------------
(* The clock edges. *)

\* Mutant: the stall lets a bundle in as soon as it fits.
RoomForBundle_Fits == sq_num_free >= WAYS /\ lq_num_free >= WAYS

\* Neither sq_is_full nor lq_is_full held when the bundle was latched.
RoomForBundle == sq_num_free >= WAYS + 1 /\ lq_num_free >= WAYS + 1

\* The oldest instruction may commit if it is a store and the bus has named it,
\* which its address broadcast does.
MayCommit == InWindow # {} /\ Oldest \in StoresIn \cap sent

\* What sq_head's slot writes to the cache.
WriteBack(commit) ==
  IF commit /\ sq[sq_head].valid THEN Written(mem, sq[sq_head], sq[sq_head].data) ELSE mem

\* Mutant: a store is issued before its data is ready.
Addressable_AnyTime == InWindow \ sent

\* Instructions whose address may be broadcast: dispatched, not broadcast
\* before and, for a store, with its data ready (the reservation station
\* issues a store when both operands are).
Addressable ==
  {id \in InWindow \ sent :
     id \in StoresIn => \E j \in Slots : sq[j].valid /\ sq[j].id = id /\ sq[j].data_valid}

\* Stores that may get their data in this cycle.
Dataless(bundle) ==
  {sq[j].id : j \in {k \in Slots : sq[k].valid /\ ~sq[k].data_valid}}
    \cup {IdOf(bundle, i) : i \in Enabled(bundle, "store")}

\* What may be dispatched in this cycle.
Offered ==
  IF RoomForBundle THEN {b \in Bundles : dispatched + Cardinality(Incoming(b)) <= MaxOps}
  ELSE {NoBundle}

\* The instructions that stay: the oldest may commit, loads may be broadcast.
Staying(commit, gnt) ==
  InWindow \ ((IF commit THEN {Oldest} ELSE {}) \cup {lq[s].id : s \in gnt})

WindowNext(bundle, commit, gnt) ==
  [id \in Staying(commit, gnt) \cup NewOps(bundle) |->
     IF id \in NewOps(bundle)
     THEN bundle[CHOOSE i \in Incoming(bundle) : IdOf(bundle, i) = id]
     ELSE window[id]]

Init ==
  /\ sq = [j \in Slots |-> FreeStore]
  /\ sq_head \in Starts
  /\ sq_tail = sq_head
  /\ sq_num_free = LSQSZ
  /\ lq = [s \in Slots |-> FreeLoad]
  /\ lq_num_free = LSQSZ
  /\ window = <<>>
  /\ sent = {}
  /\ mem = [b \in Blocks |-> [o \in 0..1 |-> [src |-> b, part |-> o, sign |-> FALSE]]]
  /\ dispatched = 0

Clock(bundle, alu, data, commit, cache, hit, fb, gnt) ==
  /\ commit => MayCommit
  /\ sq' = [j \in Slots |-> NextStore(j, bundle, alu, data, commit)]
  /\ sq_head' = IF commit THEN (sq_head + 1) % LSQSZ ELSE sq_head
  /\ sq_tail' = sq_tail_internal_tmp(bundle, WAYS + 1)
  /\ sq_num_free' = sq_num_free - Cardinality(Enabled(bundle, "store")) + (IF commit THEN 1 ELSE 0)
  /\ lq' = [s \in Slots |-> NextLoad(s, WriteBack(commit), bundle, alu, cache, hit, fb, gnt)]
  /\ lq_num_free' = lq_num_free - Cardinality(Enabled(bundle, "load")) + Cardinality(gnt)
  /\ window' = WindowNext(bundle, commit, gnt)
  /\ sent' = (sent \cup alu) \cap Staying(commit, gnt)
  /\ mem' = WriteBack(commit)
  /\ dispatched' = dispatched + Cardinality(Incoming(bundle))

\* Mutant: the edge that empties the queue drops the committing store too.
Except_Drops(commit) ==
  /\ commit => MayCommit
  /\ sq' = [j \in Slots |-> FreeStore]
  /\ sq_head' = 0
  /\ sq_tail' = 0
  /\ sq_num_free' = LSQSZ
  /\ lq' = [s \in Slots |-> FreeLoad]
  /\ lq_num_free' = LSQSZ
  /\ window' = <<>>
  /\ sent' = {}
  /\ UNCHANGED <<mem, dispatched>>

\* A mispredicted branch commits: both queues are emptied, but a store that
\* commits in front of it still writes.
Except(commit) ==
  /\ commit => MayCommit
  /\ mem' = WriteBack(commit)
  /\ sq' = [j \in Slots |-> FreeStore]
  /\ sq_head' = 0
  /\ sq_tail' = 0
  /\ sq_num_free' = LSQSZ
  /\ lq' = [s \in Slots |-> FreeLoad]
  /\ lq_num_free' = LSQSZ
  /\ window' = <<>>
  /\ sent' = {}
  /\ UNCHANGED dispatched

UpTo(n, S) == {T \in SUBSET S : Cardinality(T) <= n}

\* A broadcast load takes one of the WAYS slots of the bus.
Cycle(bundle, alu, data, commit, fb) ==
  \E cache \in Grants(Reading), gnt \in Grants(Done), hit \in BOOLEAN :
    /\ cache = {} => hit
    /\ Cardinality(alu) + Cardinality(gnt) <= WAYS
    /\ Clock(bundle, alu, data, commit, cache, hit, fb, gnt)

Next ==
  \/ \E bundle \in Offered :
       \E alu \in UpTo(WAYS, Addressable), data \in UpTo(WAYS, Dataless(bundle)),
          commit \in BOOLEAN, fb \in UpTo(1, Waiting) : Cycle(bundle, alu, data, commit, fb)
  \/ \E commit \in BOOLEAN : Except(commit)

Spec == Init /\ [][Next]_vars

\* What the core owes the queues: an address that can be broadcast, a datum
\* that is missing, an answer to a miss and the commit of the oldest store come
\* in the end.
Served ==
  /\ \A s \in Slots : []<>(s \notin Waiting)
  /\ \A id \in Ids : []<>(id \notin Addressable) /\ []<>(id \notin Dataless(NoBundle))
  /\ []<>~MayCommit

-----------------------------------------------------------------------------
(* Properties. *)

\* Types of the registers of sq.sv and lq.sv.
TypeOK ==
  LET Addr == [block : Blocks, off : 0..1]
      Sizes == {"byte", "word"}
      Data == Unit \X Unit
  IN  /\ sq \in [Slots -> [valid : BOOLEAN, id : 0..MaxOps, size : Sizes, addr : Addr,
                           addr_valid : BOOLEAN, data : Data, data_valid : BOOLEAN]]
      /\ sq_head \in Slots
      /\ sq_tail \in Slots
      /\ sq_num_free \in 0..LSQSZ
      /\ lq \in [Slots -> [free : BOOLEAN, id : 0..MaxOps, size : Sizes, signed : BOOLEAN,
                           addr : Addr, addr_ready : BOOLEAN, sq_tail_old : Slots,
                           data : Data, state : 0..3]]
      /\ lq_num_free \in 0..LSQSZ
      /\ InWindow \subseteq 1..dispatched
      /\ window \in [InWindow -> Program]
      /\ sent \subseteq InWindow
      /\ mem \in [Blocks -> [0..1 -> Unit]]
      /\ dispatched \in 0..MaxOps

\* The slots from sq_head to sq_tail hold the stores of the window in program
\* order, the others are empty, the load queue holds exactly its loads, once
\* each, and both counters are exact: no bundle is squeezed in past the stall,
\* and head and tail never meet in a queue that is not empty.
StoresQueued ==
  LET stores == LSQSZ - sq_num_free
      slot(i) == (sq_head + i) % LSQSZ
  IN  /\ stores \in 0..(LSQSZ - 1)
      /\ sq_tail = slot(stores)
      /\ \A i \in 0..(LSQSZ - 1) : sq[slot(i)].valid <=> i < stores
      /\ {sq[slot(i)].id : i \in 0..(stores - 1)} = StoresIn
      /\ \A i, k \in 0..(stores - 1) : i < k => sq[slot(i)].id < sq[slot(k)].id

LoadsQueued ==
  LET held == {s \in Slots : ~lq[s].free}
  IN  /\ lq_num_free = Cardinality(Slots \ held)
      /\ {lq[s].id : s \in held} = LoadsIn
      /\ \A s, t \in held : lq[s].id = lq[t].id => s = t

QueuesMatchWindow == StoresQueued /\ LoadsQueued

\* The head, the tail recorded with a load and the wrap-around tell exactly
\* which stores are older than the load, however far the head has moved on
\* since the load came.
AgeIsProgramOrder ==
  \A s \in Slots : ~lq[s].free =>
    {sq[j].id : j \in {k \in age_mask(s) : sq[k].valid}} = {id \in StoresIn : id < lq[s].id}

\* The stores before instruction id that write unit o of block b.
Writers(id, b, o) ==
  {k \in StoresIn : /\ k < id
                    /\ window[k].addr.block = b
                    /\ window[k].size = "word" \/ window[k].addr.off = o}

\* What store k puts into unit o.
Stored(k, o) == IF window[k].size = "word" THEN Register(k)[o + 1] ELSE Register(k)[1]

\* Memory as instruction id finds it when the stores before it are performed
\* in program order: the last one to write a unit decides.
InOrder(id) ==
  [b \in Blocks |-> [o \in 0..1 |->
     IF Writers(id, b, o) = {} THEN mem[b][o] ELSE Stored(MaxOf(Writers(id, b, o)), o)]]

\* What load id returns when memory is accessed in program order.
Expected(id) ==
  CDB_Data(window[id].size, window[id].signed,
           ReadFrom(InOrder(id), window[id].size, window[id].addr))

\* A load that waits for the bus will put on it what it would have read had
\* every older store been performed and no younger one, wherever the value
\* came from and however long it waits.
LoadsSeeProgramOrder ==
  \A s \in Done : CDB_Data(lq[s].size, lq[s].signed, lq[s].data) = Expected(lq[s].id)

\* No store writes the block of a load that is reading the cache or waiting
\* for memory: what a fill brings in is not stale when it arrives.  The data
\* cache and its controller check nothing of the kind themselves.
NoWriteUnderRead ==
  [][\A s \in Reading \cup Waiting :
       mem'[lq[s].addr.block] = mem[lq[s].addr.block]]_vars

\* Memory with the oldest instruction's store performed.
AfterOldest == Written(mem, window[Oldest], Register(Oldest))

\* Memory only ever takes the oldest store of the window, whole: when a store
\* commits, its address and its data are both in its slot, and a store that
\* leaves has written, also one that commits beside the mispredicted branch
\* behind it, whose edge empties the queue.
CommitWritesOldest ==
  [][/\ mem' # mem => MayCommit /\ mem' = AfterOldest
     /\ InWindow # {} /\ Oldest \in StoresIn \ InWindow' /\ InWindow' # {} => mem' = AfterOldest
     /\ InWindow' = {} /\ Except(TRUE) => mem' = AfterOldest]_vars

\* No load and no store stays for ever: a load that waits for a store to leave
\* is never waited for by that store.
OpsLeave == \A id \in Ids : id \in InWindow ~> id \notin InWindow
=============================================================================
