-------------------------------- MODULE Dmem --------------------------------
(***************************************************************************)
(* Below the load and store queues: the write-back, no-write-allocate data *)
(* cache with its two victim lines (dcache.sv), its controller with the    *)
(* queue of requests to memory (q1) and of reads that memory has taken     *)
(* (q2) (dcache_ctrl.sv), the arbiter that gives memory to the data cache  *)
(* first (mem_arbiter.sv) and the memory with its tags (mem.sv).           *)
(*                                                                         *)
(* One clock edge is one action.  The store queue writes and the load      *)
(* queue reads at most once in a cycle; a fill goes through the cache      *)
(* behind both.  A block has units, the parts one access reads or writes;  *)
(* a value names the block and the write it came from.                     *)
(*                                                                         *)
(* The environment is the load and store queues as LSQ models them: a slot *)
(* has at most one read, no store writes the block of a live read, and     *)
(* after a misprediction nothing is asked for Refill cycles.               *)
(***************************************************************************)
EXTENDS Integers, Sequences, FiniteSets

CONSTANTS
  Blocks,       \* memory blocks
  Units,        \* parts of a block
  Sets,         \* cache indices
  Index,        \* the cache index of a block
  Slots,        \* load queue slots that can be in use together
  NoBlock,      \* tag of an invalid line
  LSQSZ,        \* slots of q2, half of those of q1
  LAT,          \* memory latency in cycles
  TAGS,         \* memory tags
  Refill,       \* cycles from a misprediction to the first new request
  MaxWrites,    \* bound: stores
  MaxReads,     \* bound: loads
  MaxSquashes,  \* bound: mispredictions
  MaxFetches,   \* bound: instruction fetches that reach memory
  Starts        \* bound: the caches a behaviour may start from

ASSUME DmemAssumption ==
  /\ Blocks # {} /\ Units # {}
  /\ Index \in [Blocks -> Sets]
  /\ NoBlock \notin Blocks
  /\ LAT \in Nat \ {0}
  /\ TAGS \in Nat \ {0}
  /\ Refill \in Nat
  /\ {LSQSZ, MaxWrites, MaxReads, MaxSquashes, MaxFetches} \subseteq Nat

VARIABLES
  cache,     \* [line: [Sets -> Line], victim: [0..1 -> Line], victim_lru: 0..1]
  new,       \* requests made in the last cycle
  q1,        \* requests memory has not seen
  q2,        \* reads memory has taken
  tags,      \* [1..TAGS -> [cycles_left, waiting_for_bus, loaded_data]]
  memory,    \* [Blocks -> [Units -> Value]]
  mem_feedback, \* the answer the controller holds for the load queue, as a set
  live,      \* reads the load queue waits for
  answer,    \* what the load queue was told in the last cycle
  request,   \* what both queues asked for in the last cycle
  refill,    \* cycles until something is asked again
  used       \* stores, loads, squashes and fetches so far

vars == <<cache, new, q1, q2, tags, memory, mem_feedback, live, answer, request, refill, used>>

Value == Blocks \X (0..(MaxWrites + 1))
Contents(b, n) == [u \in Units |-> <<b, n>>]
Garbage == [u \in Units |-> <<NoBlock, 0>>]    \* a data bus nobody drives

Line == [block : Blocks \cup {NoBlock}, dirty : BOOLEAN, data : [Units -> Value \cup {<<NoBlock, 0>>}]]
NoLine == [block |-> NoBlock, dirty |-> FALSE, data |-> Garbage]
Valid(l) == l.block # NoBlock

Read == [slot : Slots, block : Blocks, unit : Units]

\* Requests to memory.  A store carries the units it writes.
NoOp == [cmd |-> "none"]
Load(r) == [cmd |-> "load", read |-> r]
Store(b, data) == [cmd |-> "store", block |-> b, data |-> data]

Overlay(data, old) == [u \in Units |-> IF u \in DOMAIN data THEN data[u] ELSE old[u]]

-----------------------------------------------------------------------------
(* The cache, stage by stage; c is the cache after the stage before. *)

Hit(c, b) == c.line[Index[b]].block = b
VictimMatch(c, b) == {i \in 0..1 : c.victim[i].block = b}

\* Mutant: the line that comes back from the victims is taken for clean.
Swap_Clean(c, b) ==
  LET i == CHOOSE j \in VictimMatch(c, b) : TRUE
  IN  [line |-> [c.line EXCEPT ![Index[b]] = [c.victim[i] EXCEPT !.dirty = FALSE]],
       victim |-> [c.victim EXCEPT ![i] = c.line[Index[b]]],
       victim_lru |-> IF 0 \in VictimMatch(c, b) THEN 0 ELSE 1]

\* A victim and the line of its index change places.
Swap(c, b) ==
  LET i == CHOOSE j \in VictimMatch(c, b) : TRUE
  IN  [line |-> [c.line EXCEPT ![Index[b]] = c.victim[i]],
       victim |-> [c.victim EXCEPT ![i] = c.line[Index[b]]],
       victim_lru |-> IF 0 \in VictimMatch(c, b) THEN 0 ELSE 1]

\* The cache with block b in its line, when the cache has b at all.
Fetched(c, b) == IF ~Hit(c, b) /\ VictimMatch(c, b) # {} THEN Swap(c, b) ELSE c

\* Mutant: a store that hits leaves the line clean.
AfterWrite_Clean(c, w) ==
  IF Hit(Fetched(c, w.block), w.block)
  THEN [Fetched(c, w.block) EXCEPT !.line[Index[w.block]].data = Overlay(w.data, @)]
  ELSE c

\* Mutant: a store whose block is a victim is lost.
AfterWrite_LineOnly(c, w) ==
  IF Hit(c, w.block)
  THEN [c EXCEPT !.line[Index[w.block]] =
          [@ EXCEPT !.data = Overlay(w.data, c.line[Index[w.block]].data), !.dirty = TRUE]]
  ELSE Fetched(c, w.block)

AfterWrite(c, w) ==
  LET f == Fetched(c, w.block)
      old == f.line[Index[w.block]]
  IN  IF Hit(f, w.block)
      THEN [f EXCEPT !.line[Index[w.block]] =
                       [old EXCEPT !.data = Overlay(w.data, old.data), !.dirty = TRUE]]
      ELSE c

\* The victim a fill overwrites: the least recently used one, unless only the
\* other is free.
Evicted(c) ==
  IF Valid(c.victim[c.victim_lru]) /\ ~Valid(c.victim[1 - c.victim_lru])
  THEN 1 - c.victim_lru ELSE c.victim_lru

\* Mutant: only the victims are compared with the block that comes in.
mem_cache_conflict_VictimsOnly(c, b) == VictimMatch(c, b) # {}

\* The block that comes in is already there.
mem_cache_conflict(c, b) == Hit(c, b) \/ VictimMatch(c, b) # {}

AfterFill(c, b, data) ==
  LET filled == [c EXCEPT !.line[Index[b]] = [block |-> b, dirty |-> FALSE, data |-> data]]
  IN  IF mem_cache_conflict(c, b) THEN c
      ELSE IF ~Valid(c.line[Index[b]]) THEN filled
      ELSE [filled EXCEPT !.victim[Evicted(c)] = c.line[Index[b]],
                          !.victim_lru = IF Evicted(c) = @ THEN 1 - @ ELSE @]

\* Mutant: the victim is looked at after the fill has turned victim_lru.
WriteBack_Turned(c, b) ==
  LET v == c.victim[1 - c.victim_lru]
  IN  IF /\ ~mem_cache_conflict(c, b)
         /\ Valid(c.line[Index[b]])
         /\ \A i \in 0..1 : Valid(c.victim[i])
         /\ v.dirty
      THEN <<Store(v.block, v.data)>>
      ELSE <<>>

\* The dirty victim that a fill overwrites.
WriteBack(c, b) ==
  LET v == c.victim[Evicted(c)]
  IN  IF ~mem_cache_conflict(c, b) /\ Valid(c.line[Index[b]]) /\ Valid(v) /\ v.dirty
      THEN <<Store(v.block, v.data)>>
      ELSE <<>>

-----------------------------------------------------------------------------
(* The memory. *)

LowestOf(S) == IF S = {} THEN 0 ELSE CHOOSE i \in S : \A j \in S : i <= j

\* The tag given to the command of this cycle; 0 refuses it.
mem2proc_response(command) ==
  IF command = "none" THEN 0
  ELSE LowestOf({i \in 1..TAGS : tags[i].cycles_left = 0 /\ ~tags[i].waiting_for_bus})

\* Mutant: a tag that is not used counts on.
CyclesLeft_Below(i, response) == IF i = response THEN LAT ELSE tags[i].cycles_left - 1

CyclesLeft(i, response) ==
  IF i = response THEN LAT
  ELSE IF tags[i].cycles_left > 0 THEN tags[i].cycles_left - 1 ELSE 0

\* The tag whose data is on the bus in this cycle; 0 for none.
mem2proc_tag(response) ==
  LowestOf({i \in 1..TAGS : CyclesLeft(i, response) = 0 /\ tags[i].waiting_for_bus})

mem2proc_data(tag) == IF tag = 0 THEN Garbage ELSE tags[tag].loaded_data

\* loaded is what a load reads; a load waits for the bus, a store does not.
NextTags(response, isLoad, loaded) ==
  [i \in 1..TAGS |->
    [cycles_left |-> CyclesLeft(i, response),
     waiting_for_bus |-> IF i = response THEN isLoad
                         ELSE tags[i].waiting_for_bus /\ i # mem2proc_tag(response),
     loaded_data |-> IF i = response /\ isLoad THEN loaded
                     ELSE IF i = response \/ i = mem2proc_tag(response) THEN Garbage
                     ELSE tags[i].loaded_data]]

Performed(m, e) == IF e.cmd = "store" THEN [m EXCEPT ![e.block] = Overlay(e.data, @)] ELSE m

-----------------------------------------------------------------------------
(* The controller. *)

q1_head == IF q1 = <<>> THEN NoOp ELSE Head(q1)

\* Mutant: a misprediction cancels the stores on their way to memory too.
Cancelled_Stores(except, e) == IF except THEN NoOp ELSE e

\* A misprediction turns the reads that memory has not taken into nothing.
Cancelled(except, e) == IF except /\ e.cmd = "load" THEN NoOp ELSE e

\* Mutant: a cancelled read stays at the head of q2.
q2_head_clr_Live(tag) == q2 # <<>> /\ tag # 0 /\ q2[1].mem_tag = tag /\ q2[1].is_rd

\* The oldest read memory has taken is over.
q2_head_clr(tag) == q2 # <<>> /\ tag # 0 /\ q2[1].mem_tag = tag

\* It is still wanted.  Unlike q2_head_clr this does not test for tag 0.
q2_head_mem_response(tag) == q2 # <<>> /\ q2[1].mem_tag = tag /\ q2[1].is_rd

\* Mutant: reads that memory has taken are not cancelled and fill the cache.
q2_next_Kept(tag, response, except) ==
  (IF q2_head_clr(tag) THEN Tail(q2) ELSE q2) \o
  (IF q1_head.cmd = "load"
   THEN <<[read |-> q1_head.read, mem_tag |-> response, is_rd |-> TRUE]>> ELSE <<>>)

q2_next(tag, response, except) ==
  LET kept == IF q2_head_clr(tag) THEN Tail(q2) ELSE q2
      taken == IF q1_head.cmd = "load"
               THEN <<[read |-> q1_head.read, mem_tag |-> response, is_rd |-> TRUE]>> ELSE <<>>
      all == kept \o taken
  IN  [i \in DOMAIN all |-> [all[i] EXCEPT !.is_rd = @ /\ ~except]]

-----------------------------------------------------------------------------

Requested(w) == IF w = {} THEN <<>> ELSE <<CHOOSE x \in w : TRUE>>

\* The caches between which nothing is on its way: every line is full or none
\* of its blocks was ever read, and a dirty line differs from memory.
DrainedCaches ==
  LET Holding(b, d) == [block |-> b, dirty |-> d, data |-> Contents(b, IF d THEN 1 ELSE 0)]
      Lines == {NoLine} \cup {Holding(b, d) : b \in Blocks, d \in BOOLEAN}
  IN  {c \in [line : [Sets -> Lines], victim : [0..1 -> Lines], victim_lru : 0..1] :
        /\ \A s \in Sets : Valid(c.line[s]) => Index[c.line[s].block] = s
        /\ \A i \in 0..1 : Valid(c.victim[i]) =>
             Valid(c.line[Index[c.victim[i].block]]) /\ ~Hit(c, c.victim[i].block)
        /\ Valid(c.victim[1]) => Valid(c.victim[0]) /\ c.victim[0].block # c.victim[1].block
        /\ ~Valid(c.victim[0]) => c.victim_lru = 0}

ASSUME StartsAssumption == Starts \subseteq DrainedCaches

Init ==
  /\ cache \in Starts
  /\ new = <<>> /\ q1 = <<>> /\ q2 = <<>>
  /\ tags = [i \in 1..TAGS |-> [cycles_left |-> 0, waiting_for_bus |-> FALSE, loaded_data |-> Garbage]]
  /\ memory = [b \in Blocks |-> Contents(b, 0)]
  /\ mem_feedback = {} /\ live = {} /\ answer = {}
  /\ request = [write |-> {}, read |-> {}, except |-> FALSE]
  /\ refill = 0
  /\ used = [writes |-> 0, reads |-> 0, squashes |-> 0, fetches |-> 0]

\* The edge that ends a cycle in which the store queue writes w, the load queue
\* reads r (sets of at most one), fetch says whether the instruction cache asks
\* memory for a block, and except whether a misprediction commits.
Clock(w, r, fetch, except) ==
  LET c1 == IF w = {} THEN cache ELSE AfterWrite(cache, Requested(w)[1])
      wr == IF w # {} /\ ~Hit(c1, Requested(w)[1].block) THEN Requested(w) ELSE <<>>
      c2 == IF r = {} THEN c1 ELSE Fetched(c1, Requested(r)[1].block)
      hits == {q \in r : Hit(c2, q.block)}
      rd == [i \in 1..Cardinality(r \ hits) |-> Load(Requested(r)[i])]
      command == IF q1_head.cmd # "none" THEN q1_head.cmd ELSE IF fetch THEN "load" ELSE "none"
      response == mem2proc_response(command)
      tag == mem2proc_tag(response)
      filling == q2_head_mem_response(tag)
      data == mem2proc_data(tag)
      b == q2[1].read.block
      told == {<<q.slot, c2.line[Index[q.block]].data[q.unit]>> : q \in hits}
                \cup {a \in mem_feedback : \E q \in live : q.slot = a[1]}
  IN  /\ cache' = IF filling THEN AfterFill(c2, b, data) ELSE c2
      /\ new' = LET all == (IF filling THEN WriteBack(c2, b) ELSE <<>>) \o wr \o rd
                IN  [i \in DOMAIN all |-> Cancelled(except, all[i])]
      /\ q1' = LET all == (IF q1 = <<>> THEN q1 ELSE Tail(q1)) \o new
               IN  [i \in DOMAIN all |-> Cancelled(except, all[i])]
      /\ q2' = q2_next(tag, response, except)
      /\ tags' = NextTags(response, command = "load",
                          IF q1_head.cmd = "load" THEN memory[q1_head.read.block] ELSE Garbage)
      /\ memory' = IF response = 0 THEN memory ELSE Performed(memory, q1_head)
      /\ mem_feedback' = IF filling THEN {<<q2[1].read.slot, data[q2[1].read.unit]>>} ELSE {}
      /\ answer' = told
      /\ request' = [write |-> {[block |-> x.block, data |-> x.data] : x \in w}, read |-> r,
                     except |-> except]
      /\ live' = IF except THEN {}
                 ELSE {q \in live \cup r : \A a \in told : a[1] # q.slot}
      /\ refill' = IF except THEN Refill ELSE IF refill > 0 THEN refill - 1 ELSE 0
      /\ used' = [used EXCEPT !.writes = @ + Cardinality(w), !.reads = @ + Cardinality(r),
                              !.squashes = @ + (IF except THEN 1 ELSE 0),
                              !.fetches = @ + (IF fetch THEN 1 ELSE 0)]

\* The stores the store queue may perform in this cycle, at most one.
Writes ==
  {{}} \cup
  {{Store(b, [u \in {v} |-> <<b, used.writes + 2>>])} : v \in Units,
     b \in {x \in Blocks : /\ refill = 0 /\ used.writes < MaxWrites
                           /\ \A q \in live : q.block # x}}

\* The reads the load queue may ask for.
Reads ==
  {{}} \cup
  {{r} : r \in {q \in Read : /\ refill = 0 /\ used.reads < MaxReads
                             /\ \A p \in live : p.slot # q.slot}}

Next ==
  \E w \in Writes, r \in Reads,
     fetch \in {f \in BOOLEAN : f => q1_head.cmd = "none" /\ used.fetches < MaxFetches},
     except \in {e \in BOOLEAN : e => used.squashes < MaxSquashes} :
       /\ \A x \in w, q \in r : x.block # q.block
       /\ Clock(w, r, fetch, except)

Spec == Init /\ [][Next]_vars

-----------------------------------------------------------------------------
(* Properties. *)

TypeOK ==
  /\ cache \in [line : [Sets -> Line], victim : [0..1 -> Line], victim_lru : 0..1]
  /\ Len(new) <= 3
  /\ \A q \in live : q \in Read
  /\ memory \in [Blocks -> [Units -> Value]]
  /\ \A i \in 1..TAGS : tags[i].cycles_left \in 0..LAT
  /\ refill \in 0..Refill

\* A block is in its own line or in one victim, never in two places: a second
\* copy would keep an old value that a swap could bring back.
OnePlace ==
  /\ \A s \in Sets : Valid(cache.line[s]) => Index[cache.line[s].block] = s
  /\ \A b \in Blocks : Cardinality(VictimMatch(cache, b)) + (IF Hit(cache, b) THEN 1 ELSE 0) <= 1

\* Memory m when the requests of a queue have been performed: each unit has the
\* last value queued for it.
StoresTo(queue, b, u) ==
  {i \in 1..Len(queue) : queue[i].cmd = "store" /\ queue[i].block = b /\ u \in DOMAIN queue[i].data}
LastOf(S) == CHOOSE i \in S : \A j \in S : j <= i
Drained(queue, m) ==
  [b \in Blocks |-> [u \in Units |->
    IF StoresTo(queue, b, u) = {} THEN m[b][u] ELSE queue[LastOf(StoresTo(queue, b, u))].data[u]]]

\* The memory when everything queued for it has been performed.
Written == Drained(q1 \o new, memory)

Copies == {cache.line[s] : s \in Sets} \cup {cache.victim[i] : i \in 0..1}

\* A clean line holds what memory will hold, so that it can be dropped.
CleanIsWritten == \A l \in Copies : Valid(l) /\ ~l.dirty => l.data = Written[l.block]

\* The ring of reads that memory has taken, written here as a sequence: when it
\* is full its head meets its tail, it is taken for empty and never moves again.
Q2NeverFull == Len(q2) < LSQSZ

\* The memory the queues above see.
Flat ==
  [b \in Blocks |->
    IF \E l \in Copies : l.block = b THEN (CHOOSE l \in Copies : l.block = b).data ELSE Written[b]]

Memory == INSTANCE FlatMemory WITH memory <- Flat

\* Cache, victims, queues and memory are one flat memory for the load and
\* store queues, whatever is on its way between them and whenever it arrives:
\* what they show together changes by exactly the store of the cycle, which is
\* neither lost, misplaced nor undone later, and a read is answered with it.
ImplementsFlatMemory == Memory!Spec

\* No read is forgotten.
ReadsAnswered == \A s \in Slots : (\E q \in live : q.slot = s) ~> (\A q \in live : q.slot # s)
=============================================================================
