----------------------------- MODULE DmemProofs ------------------------------
(***************************************************************************)
(* Proofs about Dmem, for all blocks, indices, latencies and numbers of    *)
(* tags with which memory never refuses a command: the cache, its victims, *)
(* the controller's queues and the memory are one flat memory for the load *)
(* and store queues above them.                                            *)
(***************************************************************************)
EXTENDS Dmem, NumberLemmas, SequenceTheorems

-----------------------------------------------------------------------------
(* What holds of every state. *)

\* The copies of blocks in cache c, and what a reader of the cache in front of
\* contents m of memory sees.
CopiesOf(c) == {c.line[s] : s \in Sets} \cup {c.victim[i] : i \in 0..1}
View(c, m) ==
  [b \in Blocks |->
    IF \E l \in CopiesOf(c) : l.block = b THEN (CHOOSE l \in CopiesOf(c) : l.block = b).data ELSE m[b]]

Memories == [Blocks -> [Units -> Value]]
CacheType == [line : [Sets -> Line], victim : [0..1 -> Line], victim_lru : 0..1]

\* No block is in two places.
Apart(c) ==
  /\ \A s \in Sets : Valid(c.line[s]) => Index[c.line[s].block] = s
  /\ \A i \in 0..1 : Valid(c.victim[i]) => c.line[Index[c.victim[i].block]].block # c.victim[i].block
  /\ Valid(c.victim[0]) => c.victim[0].block # c.victim[1].block

\* Copies have contents, clean ones those of m.
Backed(c, m) ==
  \A l \in CopiesOf(c) : Valid(l) => /\ l.data \in [Units -> Value]
                                     /\ l.dirty \/ l.data = m[l.block]

\* A cache in front of memory m.
CacheOK(c, m) == c \in CacheType /\ Apart(c) /\ Backed(c, m)

\* The tags: those in use run out one after the other.
TagsOK ==
  /\ tags \in [1..TAGS -> [cycles_left : 0..LAT, waiting_for_bus : BOOLEAN,
                            loaded_data : [Units -> Value \cup {<<NoBlock, 0>>}]]]
  /\ \A i \in 1..TAGS : tags[i].waiting_for_bus => tags[i].cycles_left > 0
  /\ \A i, j \in 1..TAGS : tags[i].cycles_left = tags[j].cycles_left /\ tags[i].cycles_left > 0 => i = j

\* Reads that memory has taken wait for their tags, and in their order.
Q2Entry == [read : Read, mem_tag : 1..TAGS, is_rd : BOOLEAN]
Q2OK ==
  /\ q2 \in Seq(Q2Entry)
  /\ \A k \in 1..Len(q2) : tags[q2[k].mem_tag].waiting_for_bus
  /\ \A j, k \in 1..Len(q2) : j < k => tags[q2[j].mem_tag].cycles_left < tags[q2[k].mem_tag].cycles_left

\* Requests to memory, oldest first.
Stores == {Store(b, d) : b \in Blocks, d \in UNION {[U -> Value] : U \in SUBSET Units}}
Request == {NoOp} \cup {Load(r) : r \in Read} \cup Stores
Pending == q1 \o new
RequestsOK == q1 \in Seq(Request) /\ new \in Seq(Request) /\ Len(new) <= 3

IsLoad(e) == e.cmd = "load"
StoreOf(e, b) == e.cmd = "store" /\ e.block = b

\* Every read on its way is one that the load queue waits for, once.
ReadsOK ==
  /\ live \subseteq Read
  /\ \A p, q \in live : p.slot = q.slot => p = q
  /\ \A i \in 1..Len(Pending) : IsLoad(Pending[i]) =>
       /\ Pending[i].read \in live
       /\ \A j \in 1..Len(Pending) :
            IsLoad(Pending[j]) /\ Pending[j].read.slot = Pending[i].read.slot => j = i
  /\ \A k \in 1..Len(q2) : q2[k].is_rd =>
       /\ q2[k].read \in live
       /\ \A j \in 1..Len(q2) : q2[j].is_rd /\ q2[j].read.slot = q2[k].read.slot => j = k
       /\ \A i \in 1..Len(Pending) : IsLoad(Pending[i]) => Pending[i].read.slot # q2[k].read.slot

\* No store overtakes a read of its block, which is clean wherever it is.
OrderOK ==
  /\ \A q \in live, l \in Copies : l.block = q.block => ~l.dirty
  /\ \A i, j \in 1..Len(Pending) : IsLoad(Pending[i]) /\ i < j => ~StoreOf(Pending[j], Pending[i].read.block)
  /\ \A k \in 1..Len(q2) : q2[k].is_rd =>
       /\ \A j \in 1..Len(Pending) : ~StoreOf(Pending[j], q2[k].read.block)
       /\ tags[q2[k].mem_tag].loaded_data = Written[q2[k].read.block]

\* The answer the controller holds is the right one, and the last of its slot.
FeedbackOK ==
  /\ mem_feedback \subseteq Slots \X Value
  /\ \A a \in mem_feedback :
       /\ \A q \in live : q.slot = a[1] => a[2] = Flat[q.block][q.unit]
       /\ \A i \in 1..Len(Pending) : IsLoad(Pending[i]) => Pending[i].read.slot # a[1]
       /\ \A k \in 1..Len(q2) : q2[k].is_rd => q2[k].read.slot # a[1]

MemoryOK ==
  /\ memory \in Memories
  /\ CacheOK(cache, Written)
  /\ used \in [writes : 0..MaxWrites, reads : Nat, squashes : Nat, fetches : Nat]
  /\ refill \in 0..Refill

\* All of it.
IInv == MemoryOK /\ TagsOK /\ Q2OK /\ RequestsOK /\ ReadsOK /\ OrderOK /\ FeedbackOK

-----------------------------------------------------------------------------
(* Constants and requests. *)

\* The assumption on the constants, in the form the proofs use.
LEMMA Sizes ==
  /\ Index \in [Blocks -> Sets] /\ NoBlock \notin Blocks
  /\ LAT \in Nat \ {0} /\ TAGS \in Nat \ {0} /\ Refill \in Nat /\ MaxWrites \in Nat
  /\ Blocks # {} /\ Units # {}
BY DmemAssumption DEF DmemAssumption

\* What a request is.
LEMMA RequestIs ==
  ASSUME NEW e \in Request
  PROVE  \/ e = NoOp /\ e.cmd = "none"
         \/ /\ e.cmd = "load" /\ e.read \in Read /\ e = Load(e.read)
         \/ /\ e.cmd = "store" /\ e.block \in Blocks /\ e = Store(e.block, e.data)
            /\ DOMAIN e.data \in SUBSET Units /\ e.data \in [DOMAIN e.data -> Value]
<1>1. CASE e = NoOp
  BY <1>1 DEF NoOp
<1>2. CASE e \in {Load(r) : r \in Read}
  BY <1>2 DEF Load
<1>3. CASE e \in Stores
  <2>1. PICK b \in Blocks, d \in UNION {[U -> Value] : U \in SUBSET Units} : e = Store(b, d)
    BY <1>3 DEF Stores
  <2>2. PICK U \in SUBSET Units : d \in [U -> Value]
    BY <2>1
  <2>3. e.cmd = "store" /\ e.block = b /\ e.data = d
    BY <2>1 DEF Store
  <2>4. DOMAIN d = U
    BY <2>2
  <2> QED BY <2>1, <2>2, <2>3, <2>4
<1> QED BY <1>1, <1>2, <1>3 DEF Request

\* Every request is one of these.
LEMMA RequestsAre ==
  /\ NoOp \in Request
  /\ \A r \in Read : Load(r) \in Request /\ Load(r).cmd = "load" /\ Load(r).read = r
  /\ \A b \in Blocks, U \in SUBSET Units : \A d \in [U -> Value] :
       /\ Store(b, d) \in Request /\ Store(b, d).cmd = "store"
       /\ Store(b, d).block = b /\ Store(b, d).data = d
<1>1. NoOp \in Request
  BY DEF Request
<1>2. \A r \in Read : Load(r) \in Request /\ Load(r).cmd = "load" /\ Load(r).read = r
  BY DEF Request, Load
<1>3. ASSUME NEW b \in Blocks, NEW U \in SUBSET Units, NEW d \in [U -> Value]
      PROVE  /\ Store(b, d) \in Request /\ Store(b, d).cmd = "store"
             /\ Store(b, d).block = b /\ Store(b, d).data = d
  <2>1. d \in UNION {[V -> Value] : V \in SUBSET Units}
    OBVIOUS
  <2> QED BY <2>1 DEF Request, Stores, Store
<1> QED BY <1>1, <1>2, <1>3

Covers(e, b, u) == e.cmd = "store" /\ e.block = b /\ u \in DOMAIN e.data

\* What a request does to memory.
LEMMA PerformedIs ==
  ASSUME NEW m \in Memories, NEW e \in Request
  PROVE  /\ Performed(m, e) \in Memories
         /\ \A b \in Blocks, u \in Units :
              Performed(m, e)[b][u] = IF Covers(e, b, u) THEN e.data[u] ELSE m[b][u]
         /\ e.cmd # "store" => Performed(m, e) = m
<1>1. CASE e.cmd = "store"
  <2>1. /\ e.block \in Blocks /\ DOMAIN e.data \in SUBSET Units /\ e.data \in [DOMAIN e.data -> Value]
    BY <1>1, RequestIs
  <2>2. Performed(m, e) = [m EXCEPT ![e.block] = Overlay(e.data, m[e.block])]
    BY <1>1 DEF Performed
  <2>3. m[e.block] \in [Units -> Value]
    BY <2>1 DEF Memories
  <2>4. /\ Overlay(e.data, m[e.block]) \in [Units -> Value]
        /\ \A u \in Units : Overlay(e.data, m[e.block])[u] =
             IF u \in DOMAIN e.data THEN e.data[u] ELSE m[e.block][u]
    BY <2>1, <2>3 DEF Overlay
  <2>5. Performed(m, e) \in Memories
    BY <2>1, <2>2, <2>4 DEF Memories
  <2>6. ASSUME NEW b \in Blocks, NEW u \in Units
        PROVE  Performed(m, e)[b][u] = IF Covers(e, b, u) THEN e.data[u] ELSE m[b][u]
    <3>1. CASE b = e.block
      <4>1. Performed(m, e)[b] = Overlay(e.data, m[e.block])
        BY <2>2, <3>1 DEF Memories
      <4> QED BY <1>1, <2>4, <3>1, <4>1 DEF Covers
    <3>2. CASE b # e.block
      <4>1. Performed(m, e)[b] = m[b]
        BY <2>2, <3>2 DEF Memories
      <4> QED BY <3>2, <4>1 DEF Covers
    <3> QED BY <3>1, <3>2
  <2> QED BY <1>1, <2>5, <2>6
<1>2. CASE e.cmd # "store"
  BY <1>2 DEF Performed, Covers
<1> QED BY <1>1, <1>2

-----------------------------------------------------------------------------
(* A queue of requests, and memory when it has been performed. *)

\* Each unit has the last value queued for it.
LEMMA DrainedIs ==
  ASSUME NEW m \in Memories, NEW queue \in Seq(Request), NEW b \in Blocks, NEW u \in Units
  PROVE  \/ /\ \A i \in 1..Len(queue) : ~Covers(queue[i], b, u)
            /\ Drained(queue, m)[b][u] = m[b][u]
         \/ \E i \in 1..Len(queue) :
              /\ Covers(queue[i], b, u) /\ \A j \in 1..Len(queue) : Covers(queue[j], b, u) => j <= i
              /\ Drained(queue, m)[b][u] = queue[i].data[u]
<1> DEFINE S == StoresTo(queue, b, u)
<1>1. S = {i \in 1..Len(queue) : Covers(queue[i], b, u)}
  BY DEF StoresTo, Covers
<1>2. Drained(queue, m)[b][u] = IF S = {} THEN m[b][u] ELSE queue[LastOf(S)].data[u]
  BY DEF Drained
<1> HIDE DEF S
<1>3. CASE S = {}
  BY <1>1, <1>2, <1>3
<1>4. CASE S # {}
  <2>1. Len(queue) \in Nat /\ S \in SUBSET Nat /\ \A i \in S : i <= Len(queue)
    BY <1>1, LenProperties
  <2>2. \E i \in S : \A j \in S : j <= i
    BY <2>1, <1>4, GreatestNat
  <2>3. LastOf(S) \in S /\ \A j \in S : j <= LastOf(S)
    BY <2>2 DEF LastOf
  <2> QED BY <1>1, <1>2, <1>4, <2>3
<1> QED BY <1>3, <1>4

\* It is a memory.
LEMMA DrainedType ==
  ASSUME NEW m \in Memories, NEW queue \in Seq(Request)
  PROVE  Drained(queue, m) \in Memories
<1>1. ASSUME NEW b \in Blocks, NEW u \in Units PROVE Drained(queue, m)[b][u] \in Value
  <2>1. m[b][u] \in Value
    BY DEF Memories
  <2>2. \A i \in 1..Len(queue) : Covers(queue[i], b, u) => queue[i].data[u] \in Value
    <3> SUFFICES ASSUME NEW i \in 1..Len(queue), Covers(queue[i], b, u) PROVE queue[i].data[u] \in Value
      OBVIOUS
    <3>1. queue[i] \in Request
      BY ElementOfSeq
    <3> QED BY <3>1, RequestIs DEF Covers
  <2> QED BY <2>1, <2>2, DrainedIs
<1> DEFINE g(b, u) == IF StoresTo(queue, b, u) = {} THEN m[b][u] ELSE queue[LastOf(StoresTo(queue, b, u))].data[u]
<1>2. Drained(queue, m) = [b \in Blocks |-> [u \in Units |-> g(b, u)]]
  BY DEF Drained
<1> HIDE DEF g
<1>3. \A b \in Blocks, u \in Units : g(b, u) \in Value
  BY <1>1, <1>2
<1> QED BY <1>2, <1>3 DEF Memories

\* Two memories with the same units are the same.
LEMMA SameMemory ==
  ASSUME NEW m \in Memories, NEW n \in Memories,
         \A b \in Blocks, u \in Units : m[b][u] = n[b][u]
  PROVE  m = n
<1>1. \A b \in Blocks : m[b] \in [Units -> Value] /\ n[b] \in [Units -> Value]
  BY DEF Memories
<1>2. \A b \in Blocks : m[b] = n[b]
  BY <1>1
<1> QED BY <1>2 DEF Memories

\* A request that joins the queue is performed last.
LEMMA DrainedAppend ==
  ASSUME NEW m \in Memories, NEW queue \in Seq(Request), NEW e \in Request
  PROVE  Drained(queue \o <<e>>, m) = Performed(Drained(queue, m), e)
<1> DEFINE all == queue \o <<e>>
           n == Len(queue)
<1>1. <<e>> \in Seq(Request) /\ Len(<<e>>) = 1 /\ <<e>>[1] = e
  OBVIOUS
<1>2. n \in Nat
  BY LenProperties
<1>3. /\ all \in Seq(Request) /\ Len(all) = n + 1
      /\ \A i \in 1..(n + 1) : all[i] = IF i <= n THEN queue[i] ELSE <<e>>[i - n]
  BY <1>1, ConcatProperties
<1>4. /\ \A i \in 1..n : i \in 1..(n + 1) /\ all[i] = queue[i]
      /\ all[n + 1] = e /\ n + 1 \in 1..(n + 1)
  BY <1>1, <1>2, <1>3
<1> HIDE DEF all
<1>5. Drained(all, m) \in Memories /\ Drained(queue, m) \in Memories
      /\ Performed(Drained(queue, m), e) \in Memories
  BY <1>3, DrainedType, PerformedIs
<1>6. ASSUME NEW b \in Blocks, NEW u \in Units
      PROVE  Drained(all, m)[b][u] = Performed(Drained(queue, m), e)[b][u]
  <2>1. Performed(Drained(queue, m), e)[b][u] = IF Covers(e, b, u) THEN e.data[u] ELSE Drained(queue, m)[b][u]
    BY <1>5, PerformedIs
  <2>2. \/ /\ \A i \in 1..(n + 1) : ~Covers(all[i], b, u)
           /\ Drained(all, m)[b][u] = m[b][u]
        \/ \E i \in 1..(n + 1) :
             /\ Covers(all[i], b, u) /\ \A j \in 1..(n + 1) : Covers(all[j], b, u) => j <= i
             /\ Drained(all, m)[b][u] = all[i].data[u]
    BY <1>3, DrainedIs
  <2>3. \/ /\ \A i \in 1..n : ~Covers(queue[i], b, u)
           /\ Drained(queue, m)[b][u] = m[b][u]
        \/ \E i \in 1..n :
             /\ Covers(queue[i], b, u) /\ \A j \in 1..n : Covers(queue[j], b, u) => j <= i
             /\ Drained(queue, m)[b][u] = queue[i].data[u]
    BY DrainedIs
  <2> HIDE DEF n
  <2>4. CASE Covers(e, b, u)
    <3>1. PICK i \in 1..(n + 1) :
             /\ Covers(all[i], b, u) /\ \A j \in 1..(n + 1) : Covers(all[j], b, u) => j <= i
             /\ Drained(all, m)[b][u] = all[i].data[u]
      BY <1>4, <2>2, <2>4
    <3>2. n + 1 <= i
      BY <1>4, <2>4, <3>1
    <3>3. i = n + 1
      BY <1>2, <3>2
    <3> QED BY <1>4, <2>1, <2>4, <3>1, <3>3
  <2>5. CASE ~Covers(e, b, u)
    <3>1. CASE \A i \in 1..n : ~Covers(queue[i], b, u)
      <4>1. \A i \in 1..(n + 1) : ~Covers(all[i], b, u)
        <5> SUFFICES ASSUME NEW i \in 1..(n + 1) PROVE ~Covers(all[i], b, u)
          OBVIOUS
        <5>1. i \in 1..n \/ i = n + 1
          BY <1>2
        <5> QED BY <1>4, <2>5, <3>1, <5>1
      <4> QED BY <2>1, <2>2, <2>3, <2>5, <3>1, <4>1
    <3>2. CASE \E i \in 1..n : Covers(queue[i], b, u)
      <4>1. PICK i \in 1..n :
             /\ Covers(queue[i], b, u) /\ \A j \in 1..n : Covers(queue[j], b, u) => j <= i
             /\ Drained(queue, m)[b][u] = queue[i].data[u]
        BY <2>3, <3>2
      <4>2. PICK k \in 1..(n + 1) :
             /\ Covers(all[k], b, u) /\ \A j \in 1..(n + 1) : Covers(all[j], b, u) => j <= k
             /\ Drained(all, m)[b][u] = all[k].data[u]
        BY <1>4, <2>2, <4>1
      <4>3. k \in 1..n
        <5>1. k # n + 1
          BY <1>4, <2>5, <4>2
        <5> QED BY <1>2, <5>1
      <4>4. i <= k /\ k <= i
        BY <1>4, <4>1, <4>2, <4>3
      <4>5. i = k
        BY <1>2, <4>4
      <4> QED BY <1>4, <2>1, <2>5, <4>1, <4>2, <4>5
    <3> QED BY <3>1, <3>2
  <2> QED BY <2>4, <2>5
<1> QED BY <1>5, <1>6, SameMemory DEF all

\* Nothing is lost when memory performs the request at the head.
LEMMA DrainedTail ==
  ASSUME NEW m \in Memories, NEW queue \in Seq(Request), queue # <<>>
  PROVE  Drained(Tail(queue), Performed(m, Head(queue))) = Drained(queue, m)
<1> DEFINE e == Head(queue)
           rest == Tail(queue)
           n == Len(rest)
           pm == Performed(m, e)
<1>1. /\ rest \in Seq(Request) /\ n = Len(queue) - 1 /\ e \in Request
      /\ \A i \in 1..n : rest[i] = queue[i + 1]
  BY HeadTailProperties
<1>2. n \in Nat /\ Len(queue) = n + 1
  BY <1>1, LenProperties
<1>3. queue[1] = e
  OBVIOUS
<1> HIDE DEF e, rest
<1>4. pm \in Memories /\ Drained(rest, pm) \in Memories /\ Drained(queue, m) \in Memories
  BY <1>1, DrainedType, PerformedIs
<1>5. ASSUME NEW b \in Blocks, NEW u \in Units
      PROVE  Drained(rest, pm)[b][u] = Drained(queue, m)[b][u]
  <2>1. pm[b][u] = IF Covers(e, b, u) THEN e.data[u] ELSE m[b][u]
    BY <1>1, PerformedIs
  <2>2. \/ /\ \A i \in 1..(n + 1) : ~Covers(queue[i], b, u)
           /\ Drained(queue, m)[b][u] = m[b][u]
        \/ \E i \in 1..(n + 1) :
             /\ Covers(queue[i], b, u) /\ \A j \in 1..(n + 1) : Covers(queue[j], b, u) => j <= i
             /\ Drained(queue, m)[b][u] = queue[i].data[u]
    BY <1>2, DrainedIs
  <2> HIDE DEF pm
  <2>3. \/ /\ \A i \in 1..n : ~Covers(rest[i], b, u)
           /\ Drained(rest, pm)[b][u] = pm[b][u]
        \/ \E i \in 1..n :
             /\ Covers(rest[i], b, u) /\ \A j \in 1..n : Covers(rest[j], b, u) => j <= i
             /\ Drained(rest, pm)[b][u] = rest[i].data[u]
    BY <1>1, <1>4, DrainedIs
  <2> HIDE DEF n
  <2>4. \A i \in 1..n : i + 1 \in 1..(n + 1) /\ rest[i] = queue[i + 1]
    BY <1>1, <1>2
  <2>5. \A j \in 1..(n + 1) : j = 1 \/ (j - 1 \in 1..n /\ (j - 1) + 1 = j)
    BY <1>2
  <2>6. CASE \A i \in 1..n : ~Covers(rest[i], b, u)
    <3>0. \A j \in 1..(n + 1) : Covers(queue[j], b, u) => j = 1
      <4> SUFFICES ASSUME NEW j \in 1..(n + 1), Covers(queue[j], b, u), j # 1 PROVE FALSE
        OBVIOUS
      <4>1. j - 1 \in 1..n /\ rest[j - 1] = queue[j]
        BY <2>4, <2>5
      <4> QED BY <2>6, <4>1
    <3>1. CASE Covers(e, b, u)
      <4>1. 1 \in 1..(n + 1)
        BY <1>2
      <4>2. PICK j \in 1..(n + 1) : Covers(queue[j], b, u) /\ Drained(queue, m)[b][u] = queue[j].data[u]
        BY <1>3, <2>2, <3>1, <4>1
      <4> QED BY <1>3, <2>1, <2>3, <2>6, <3>0, <3>1, <4>2
    <3>2. CASE ~Covers(e, b, u)
      <4>1. \A j \in 1..(n + 1) : ~Covers(queue[j], b, u)
        BY <1>3, <3>0, <3>2
      <4> QED BY <2>1, <2>2, <2>3, <2>6, <3>2, <4>1
    <3> QED BY <3>1, <3>2
  <2>7. CASE \E i \in 1..n : Covers(rest[i], b, u)
    <3>1. PICK i \in 1..n :
             /\ Covers(rest[i], b, u) /\ \A j \in 1..n : Covers(rest[j], b, u) => j <= i
             /\ Drained(rest, pm)[b][u] = rest[i].data[u]
      BY <2>3, <2>7
    <3>2. PICK k \in 1..(n + 1) :
             /\ Covers(queue[k], b, u) /\ \A j \in 1..(n + 1) : Covers(queue[j], b, u) => j <= k
             /\ Drained(queue, m)[b][u] = queue[k].data[u]
      BY <2>2, <2>4, <3>1
    <3>3. i + 1 <= k
      BY <2>4, <3>1, <3>2
    <3>4. k # 1
      BY <1>2, <3>3
    <3>5. k - 1 \in 1..n /\ rest[k - 1] = queue[k]
      BY <2>4, <2>5, <3>4
    <3>6. k - 1 <= i
      BY <3>1, <3>2, <3>5
    <3>7. k - 1 = i
      BY <1>2, <3>3, <3>6
    <3> QED BY <3>1, <3>2, <3>5, <3>7
  <2> QED BY <2>6, <2>7
<1> QED BY <1>4, <1>5, SameMemory DEF e, rest

\* Cancelling reads does not change what will be in memory.
LEMMA DrainedCancelled ==
  ASSUME NEW m \in Memories, NEW queue \in Seq(Request), NEW x \in BOOLEAN,
         NEW left \in Seq(Request), Len(left) = Len(queue),
         \A i \in 1..Len(queue) : left[i] = Cancelled(x, queue[i])
  PROVE  Drained(left, m) = Drained(queue, m)
<1> DEFINE n == Len(queue)
<1>1. \A i \in 1..n : \A b, u :
       /\ (Covers(left[i], b, u) <=> Covers(queue[i], b, u))
       /\ Covers(left[i], b, u) => left[i] = queue[i]
  BY DEF Cancelled, Covers, NoOp
<1>2. n \in Nat
  BY LenProperties
<1>3. Drained(left, m) \in Memories /\ Drained(queue, m) \in Memories
  BY DrainedType
<1>4. ASSUME NEW b \in Blocks, NEW u \in Units PROVE Drained(left, m)[b][u] = Drained(queue, m)[b][u]
  <2>1. \/ /\ \A i \in 1..n : ~Covers(queue[i], b, u)
           /\ Drained(queue, m)[b][u] = m[b][u]
        \/ \E i \in 1..n :
             /\ Covers(queue[i], b, u) /\ \A j \in 1..n : Covers(queue[j], b, u) => j <= i
             /\ Drained(queue, m)[b][u] = queue[i].data[u]
    BY DrainedIs
  <2>2. \/ /\ \A i \in 1..n : ~Covers(left[i], b, u)
           /\ Drained(left, m)[b][u] = m[b][u]
        \/ \E i \in 1..n :
             /\ Covers(left[i], b, u) /\ \A j \in 1..n : Covers(left[j], b, u) => j <= i
             /\ Drained(left, m)[b][u] = left[i].data[u]
    BY DrainedIs
  <2> HIDE DEF n
  <2>3. CASE \A i \in 1..n : ~Covers(queue[i], b, u)
    BY <1>1, <2>1, <2>2, <2>3
  <2>4. CASE \E i \in 1..n : Covers(queue[i], b, u)
    <3>1. PICK i \in 1..n :
             /\ Covers(queue[i], b, u) /\ \A j \in 1..n : Covers(queue[j], b, u) => j <= i
             /\ Drained(queue, m)[b][u] = queue[i].data[u]
      BY <2>1, <2>4
    <3>2. PICK k \in 1..n :
             /\ Covers(left[k], b, u) /\ \A j \in 1..n : Covers(left[j], b, u) => j <= k
             /\ Drained(left, m)[b][u] = left[k].data[u]
      BY <1>1, <2>2, <3>1
    <3>3. i <= k /\ k <= i
      BY <1>1, <3>1, <3>2
    <3>4. i = k
      BY <1>2, <3>3
    <3> QED BY <1>1, <3>1, <3>2, <3>4
  <2> QED BY <2>3, <2>4
<1> QED BY <1>3, <1>4, SameMemory

-----------------------------------------------------------------------------
(* A cache in front of a memory. *)

\* Copies are where the lookup looks for them, one for each block.
LEMMA CopiesAre ==
  ASSUME NEW c \in CacheType, Apart(c), NEW b \in Blocks
  PROVE  /\ \A l \in CopiesOf(c) : l \in Line
         /\ \A l \in CopiesOf(c) : l.block = b =>
              \/ l = c.line[Index[b]] /\ Hit(c, b)
              \/ \E i \in VictimMatch(c, b) : l = c.victim[i]
         /\ c.line[Index[b]] \in CopiesOf(c) /\ \A i \in 0..1 : c.victim[i] \in CopiesOf(c)
         /\ VictimMatch(c, b) \subseteq 0..1 /\ \A i, j \in VictimMatch(c, b) : i = j
         /\ Hit(c, b) => VictimMatch(c, b) = {}
         /\ \A l, k \in CopiesOf(c) : l.block = b /\ k.block = b => l = k
<1>1. /\ Index[b] \in Sets /\ b # NoBlock
      /\ c.line \in [Sets -> Line] /\ c.victim \in [0..1 -> Line]
  BY Sizes DEF CacheType
<1>2. \A l \in CopiesOf(c) : l \in Line
  BY <1>1 DEF CopiesOf
<1>3. ASSUME NEW l \in CopiesOf(c), l.block = b
      PROVE  \/ l = c.line[Index[b]] /\ Hit(c, b)
             \/ \E i \in VictimMatch(c, b) : l = c.victim[i]
  <2>1. CASE \E s \in Sets : l = c.line[s]
    BY <1>1, <1>3, <2>1 DEF Apart, Valid, Hit
  <2>2. CASE \E i \in 0..1 : l = c.victim[i]
    BY <1>3, <2>2 DEF VictimMatch
  <2> QED BY <1>3, <2>1, <2>2 DEF CopiesOf
<1>4. c.line[Index[b]] \in CopiesOf(c) /\ \A i \in 0..1 : c.victim[i] \in CopiesOf(c)
  BY <1>1 DEF CopiesOf
<1>5. VictimMatch(c, b) \subseteq 0..1 /\ \A i, j \in VictimMatch(c, b) : i = j
  <2>1. \A i \in VictimMatch(c, b) : (i = 0 \/ i = 1) /\ c.victim[i].block = b
    BY DEF VictimMatch
  <2>2. c.victim[0].block = b => c.victim[1].block # b
    BY <1>1 DEF Apart, Valid
  <2> QED BY <2>1, <2>2
<1>6. Hit(c, b) => VictimMatch(c, b) = {}
  BY <1>1 DEF Hit, VictimMatch, Apart, Valid
<1>7. ASSUME NEW l \in CopiesOf(c), NEW k \in CopiesOf(c), l.block = b, k.block = b PROVE l = k
  BY <1>3, <1>5, <1>6, <1>7
<1> QED BY <1>2, <1>3, <1>4, <1>5, <1>6, <1>7

\* What a reader sees: the copy if there is one.
LEMMA ViewIs ==
  ASSUME NEW c \in CacheType, Apart(c), NEW m, NEW b \in Blocks
  PROVE  /\ \A l \in CopiesOf(c) : l.block = b => View(c, m)[b] = l.data
         /\ (\A l \in CopiesOf(c) : l.block # b) => View(c, m)[b] = m[b]
<1>1. \A l, k \in CopiesOf(c) : l.block = b /\ k.block = b => l = k
  BY CopiesAre
<1> DEFINE C == CopiesOf(c)
<1>2. View(c, m)[b] = IF \E l \in C : l.block = b THEN (CHOOSE l \in C : l.block = b).data ELSE m[b]
  BY DEF View
<1> HIDE DEF C
<1>3. ASSUME NEW l \in C, l.block = b PROVE View(c, m)[b] = l.data
  <2>1. (CHOOSE k \in C : k.block = b) = l
    BY <1>1, <1>3 DEF C
  <2> QED BY <1>2, <1>3, <2>1
<1>4. ASSUME \A l \in C : l.block # b PROVE View(c, m)[b] = m[b]
  BY <1>2, <1>4
<1> QED BY <1>3, <1>4 DEF C

\* It is a memory.
LEMMA ViewType ==
  ASSUME NEW m \in Memories, NEW c, CacheOK(c, m)
  PROVE  View(c, m) \in Memories
<1>1. ASSUME NEW b \in Blocks PROVE View(c, m)[b] \in [Units -> Value]
  <2>1. m[b] \in [Units -> Value] /\ b # NoBlock
    BY Sizes DEF Memories
  <2>2. \A l \in CopiesOf(c) : l.block = b => l.data \in [Units -> Value]
    BY <2>1 DEF CacheOK, Backed, Valid
  <2> QED BY <2>1, <2>2, ViewIs DEF CacheOK
<1> DEFINE g(b) == IF \E l \in CopiesOf(c) : l.block = b THEN (CHOOSE l \in CopiesOf(c) : l.block = b).data ELSE m[b]
<1>2. View(c, m) = [b \in Blocks |-> g(b)]
  BY DEF View
<1> HIDE DEF g
<1>3. \A b \in Blocks : g(b) \in [Units -> Value]
  BY <1>1, <1>2
<1> QED BY <1>2, <1>3 DEF Memories

\* A victim and a line that change places stay where the lookup finds them.
LEMMA FetchedIs ==
  ASSUME NEW c \in CacheType, Apart(c), NEW b \in Blocks
  PROVE  LET f == Fetched(c, b)
         IN  /\ f \in CacheType /\ Apart(f) /\ CopiesOf(f) = CopiesOf(c)
             /\ Hit(f, b) <=> \E l \in CopiesOf(c) : l.block = b
<1> DEFINE x == Index[b]
<1>1. /\ x \in Sets /\ b # NoBlock /\ Index \in [Blocks -> Sets]
      /\ c.line \in [Sets -> Line] /\ c.victim \in [0..1 -> Line] /\ c.victim_lru \in 0..1
      /\ c = [line |-> c.line, victim |-> c.victim, victim_lru |-> c.victim_lru]
  BY Sizes DEF CacheType
<1>2. CASE Hit(c, b) \/ VictimMatch(c, b) = {}
  <2>1. Fetched(c, b) = c
    BY <1>2 DEF Fetched
  <2>2. Hit(c, b) <=> \E l \in CopiesOf(c) : l.block = b
    BY <1>2, CopiesAre DEF Hit
  <2> QED BY <2>1, <2>2
<1>3. CASE ~Hit(c, b) /\ VictimMatch(c, b) # {}
  <2>1. PICK i \in VictimMatch(c, b) : i = CHOOSE j \in VictimMatch(c, b) : TRUE
    BY <1>3
  <2>2. i \in 0..1 /\ c.victim[i].block = b
    BY <2>1 DEF VictimMatch
  <2> DEFINE f == [line |-> [c.line EXCEPT ![x] = c.victim[i]],
                   victim |-> [c.victim EXCEPT ![i] = c.line[x]],
                   victim_lru |-> IF 0 \in VictimMatch(c, b) THEN 0 ELSE 1]
  <2>3. Fetched(c, b) = f
    BY <1>3, <2>1 DEF Fetched, Swap
  <2>4. /\ f.line \in [Sets -> Line] /\ f.victim \in [0..1 -> Line] /\ f.victim_lru \in 0..1
        /\ \A s \in Sets : f.line[s] = IF s = x THEN c.victim[i] ELSE c.line[s]
        /\ \A j \in 0..1 : f.victim[j] = IF j = i THEN c.line[x] ELSE c.victim[j]
    BY <1>1, <2>2
  <2>5. f \in CacheType
    BY <1>1, <2>2, <2>4 DEF CacheType
  <2> HIDE DEF f
  <2>6. CopiesOf(f) = CopiesOf(c)
    <3>1. \A l : l \in CopiesOf(f) <=> (\E s \in Sets : l = f.line[s]) \/ (\E j \in 0..1 : l = f.victim[j])
      BY DEF CopiesOf
    <3>2. \A l : l \in CopiesOf(c) <=> (\E s \in Sets : l = c.line[s]) \/ (\E j \in 0..1 : l = c.victim[j])
      BY DEF CopiesOf
    <3>3. ASSUME NEW l \in CopiesOf(f) PROVE l \in CopiesOf(c)
      BY <1>1, <2>2, <2>4, <3>1, <3>2, <3>3
    <3>4. ASSUME NEW l \in CopiesOf(c) PROVE l \in CopiesOf(f)
      BY <1>1, <2>2, <2>4, <3>1, <3>2, <3>4
    <3> QED BY <3>3, <3>4
  <2>7. Apart(f)
    <3>1. \A s \in Sets : Valid(f.line[s]) => Index[f.line[s].block] = s
      BY <2>2, <2>4 DEF Apart
    <3>2. \A j \in VictimMatch(c, b) : j = i
      BY <2>1, CopiesAre
    <3>3. ASSUME NEW j \in 0..1, Valid(f.victim[j])
          PROVE  f.line[Index[f.victim[j].block]].block # f.victim[j].block
      <4>0. f.victim[j] \in Line /\ f.victim[j].block \in Blocks
        BY <2>4, <3>3 DEF Line, Valid
      <4>1. CASE j = i
        <5>1. f.victim[j] = c.line[x] /\ Index[c.line[x].block] = x
          BY <1>1, <2>4, <3>3, <4>1 DEF Apart
        <5>2. f.line[x].block = b /\ c.line[x].block # b
          BY <1>1, <1>3, <2>2, <2>4 DEF Hit
        <5> QED BY <5>1, <5>2
      <4>2. CASE j # i
        <5>1. f.victim[j] = c.victim[j] /\ Valid(c.victim[j]) /\ c.victim[j].block # b
          BY <2>4, <3>2, <3>3, <4>2 DEF VictimMatch
        <5>2. c.line[Index[c.victim[j].block]].block # c.victim[j].block
          BY <5>1 DEF Apart
        <5>3. Index[c.victim[j].block] \in Sets
          BY <1>1, <4>0, <5>1
        <5> QED BY <2>2, <2>4, <5>1, <5>2, <5>3
      <4> QED BY <4>1, <4>2
    <3>4. Valid(f.victim[0]) => f.victim[0].block # f.victim[1].block
      <4>1. \A j \in 0..1 : Valid(c.line[x]) => c.line[x].block # c.victim[j].block
        <5> SUFFICES ASSUME NEW j \in 0..1, Valid(c.line[x]), c.line[x].block = c.victim[j].block PROVE FALSE
          OBVIOUS
        <5>1. Valid(c.victim[j])
          BY DEF Valid
        <5>2. Index[c.victim[j].block] = x
          BY <1>1 DEF Apart
        <5> QED BY <5>1, <5>2 DEF Apart
      <4>2. CASE i = 0
        <5>1. f.victim[0] = c.line[x] /\ f.victim[1] = c.victim[1]
          BY <2>4, <4>2
        <5> QED BY <4>1, <5>1
      <4>3. CASE i = 1
        <5>1. f.victim[1] = c.line[x] /\ f.victim[0] = c.victim[0]
          BY <2>4, <4>3
        <5> QED BY <4>1, <5>1 DEF Valid
      <4> QED BY <2>2, <4>2, <4>3
    <3> QED BY <3>1, <3>3, <3>4 DEF Apart
  <2>8. Hit(f, b) /\ \E l \in CopiesOf(c) : l.block = b
    BY <1>1, <2>2, <2>4, CopiesAre DEF Hit
  <2> QED BY <2>3, <2>5, <2>6, <2>7, <2>8
<1> QED BY <1>2, <1>3

\* Moving lines changes nothing that a reader sees.
LEMMA FetchedView ==
  ASSUME NEW m, NEW c, CacheOK(c, m), NEW b \in Blocks
  PROVE  CacheOK(Fetched(c, b), m) /\ View(Fetched(c, b), m) = View(c, m)
<1>1. c \in CacheType /\ Apart(c) /\ Backed(c, m)
  BY DEF CacheOK
<1>2. Fetched(c, b) \in CacheType /\ Apart(Fetched(c, b)) /\ CopiesOf(Fetched(c, b)) = CopiesOf(c)
  BY <1>1, FetchedIs
<1> QED BY <1>1, <1>2 DEF CacheOK, Backed, View

-----------------------------------------------------------------------------
(* A store. *)

\* A store that finds its block changes the copy and makes it dirty, one that
\* does not leaves the cache alone.
LEMMA AfterWriteIs ==
  ASSUME NEW c \in CacheType, Apart(c), NEW b \in Blocks,
         NEW U \in SUBSET Units, NEW d \in [U -> Value],
         \A l \in CopiesOf(c) : l.block = b => l.data \in [Units -> Value]
  PROVE  LET c1 == AfterWrite(c, Store(b, d))
         IN  IF \A l \in CopiesOf(c) : l.block # b
             THEN c1 = c /\ ~Hit(c1, b)
             ELSE /\ c1 \in CacheType /\ Apart(c1) /\ Hit(c1, b)
                  /\ \A l : l.block # b => (l \in CopiesOf(c1) <=> l \in CopiesOf(c))
                  /\ \A l \in CopiesOf(c1), k \in CopiesOf(c) : l.block = b /\ k.block = b =>
                       l.dirty /\ l.data = Overlay(d, k.data)
<1> DEFINE x == Index[b]
           f == Fetched(c, b)
           w == Store(b, d)
           c1 == AfterWrite(c, w)
<1>1. /\ x \in Sets /\ b # NoBlock /\ Index \in [Blocks -> Sets]
      /\ w.block = b /\ w.data = d
  BY Sizes, RequestsAre
<1>2. /\ f \in CacheType /\ Apart(f) /\ CopiesOf(f) = CopiesOf(c)
      /\ Hit(f, b) <=> \E l \in CopiesOf(c) : l.block = b
  BY FetchedIs
<1> HIDE DEF w
<1>3. CASE \A l \in CopiesOf(c) : l.block # b
  <2>1. ~Hit(f, b)
    BY <1>2, <1>3
  <2>2. c1 = c
    BY <1>1, <2>1 DEF AfterWrite
  <2>3. ~Hit(c, b)
    BY <1>3, CopiesAre DEF Hit
  <2> QED BY <1>3, <2>2, <2>3 DEF w
<1>4. CASE ~\A l \in CopiesOf(c) : l.block # b
  <2>1. Hit(f, b)
    BY <1>2, <1>4
  <2> HIDE DEF f
  <2>2. c1 = [f EXCEPT !.line[x] = [f.line[x] EXCEPT !.data = Overlay(d, f.line[x].data), !.dirty = TRUE]]
    BY <1>1, <2>1 DEF AfterWrite, f
  <2> DEFINE o == f.line[x]
             l1 == [o EXCEPT !.data = Overlay(d, @), !.dirty = TRUE]
  <2>3. /\ f.line \in [Sets -> Line] /\ f.victim \in [0..1 -> Line] /\ f.victim_lru \in 0..1
        /\ f = [line |-> f.line, victim |-> f.victim, victim_lru |-> f.victim_lru]
    BY <1>2 DEF CacheType
  <2>4. o \in Line /\ o.block = b /\ o \in CopiesOf(c)
    <3>1. o \in CopiesOf(f)
      BY <1>1 DEF CopiesOf
    <3> QED BY <1>1, <1>2, <2>1, <2>3, <3>1 DEF Hit
  <2>5. Overlay(d, o.data) \in [Units -> Value]
    <3>1. o.data \in [Units -> Value] /\ DOMAIN d = U
      BY <2>4
    <3> QED BY <3>1 DEF Overlay
  <2>6. l1.block = b /\ l1.dirty /\ l1.data = Overlay(d, o.data)
    <3> HIDE DEF o
    <3> QED BY <2>4 DEF Line
  <2>7. l1 \in Line
    <3>1. Overlay(d, o.data) \in [Units -> Value \cup {<<NoBlock, 0>>}]
      BY <2>5
    <3> HIDE DEF o
    <3> QED BY <2>4, <3>1 DEF Line
  <2>8. c1 = [f EXCEPT !.line = [f.line EXCEPT ![x] = l1]]
    <3>1. c1 = [f EXCEPT !.line[x] = l1]
      BY <2>2
    <3> HIDE DEF l1, o, x, c1
    <3> QED BY <2>3, <3>1
  <2> HIDE DEF l1, o
  <2>9. /\ c1.line \in [Sets -> Line] /\ c1.victim = f.victim /\ c1.victim_lru = f.victim_lru
        /\ \A s \in Sets : c1.line[s] = IF s = x THEN l1 ELSE f.line[s]
    BY <1>1, <2>3, <2>7, <2>8
  <2>10. c1 \in CacheType
    BY <1>2, <2>8, <2>9 DEF CacheType
  <2> HIDE DEF c1
  <2>11. \A s \in Sets : c1.line[s].block = f.line[s].block
    BY <2>4, <2>6, <2>9 DEF o
  <2>12. Apart(c1)
    <3>1. \A s \in Sets : Valid(c1.line[s]) => Index[c1.line[s].block] = s
      BY <1>2, <2>11 DEF Apart, Valid
    <3>2. \A i \in 0..1 : Valid(c1.victim[i]) => c1.line[Index[c1.victim[i].block]].block # c1.victim[i].block
      <4> SUFFICES ASSUME NEW i \in 0..1, Valid(f.victim[i])
                   PROVE  c1.line[Index[f.victim[i].block]].block # f.victim[i].block
        BY <2>9
      <4>1. f.victim[i].block \in Blocks
        BY <2>3 DEF Valid, Line
      <4>2. Index[f.victim[i].block] \in Sets
        BY <1>1, <4>1
      <4> QED BY <1>2, <2>11, <4>2 DEF Apart
    <3>3. Valid(c1.victim[0]) => c1.victim[0].block # c1.victim[1].block
      BY <1>2, <2>9 DEF Apart
    <3> QED BY <3>1, <3>2, <3>3 DEF Apart
  <2>14. \A l : l.block # b => (l \in CopiesOf(c1) <=> l \in CopiesOf(f))
    <3>1. \A l : l \in CopiesOf(f) <=> (\E s \in Sets : l = f.line[s]) \/ (\E j \in 0..1 : l = f.victim[j])
      BY DEF CopiesOf
    <3>2. \A l : l \in CopiesOf(c1) <=> (\E s \in Sets : l = c1.line[s]) \/ (\E j \in 0..1 : l = f.victim[j])
      BY <2>9 DEF CopiesOf
    <3>3. ASSUME NEW l, l.block # b PROVE (\E s \in Sets : l = c1.line[s]) <=> (\E s \in Sets : l = f.line[s])
      BY <2>4, <2>6, <2>9, <3>3 DEF o
    <3> QED BY <3>1, <3>2, <3>3
  <2>15. Hit(c1, b)
    BY <1>1, <2>6, <2>9 DEF Hit
  <2>16. ASSUME NEW l \in CopiesOf(c1), NEW k \in CopiesOf(c), l.block = b, k.block = b
         PROVE  l.dirty /\ l.data = Overlay(d, k.data)
    <3>1. l1 \in CopiesOf(c1)
      BY <1>1, <2>9 DEF CopiesOf
    <3>2. l = l1
      BY <2>6, <2>10, <2>12, <2>16, <3>1, CopiesAre
    <3>3. k = o
      BY <2>4, <2>16, CopiesAre
    <3> QED BY <2>6, <3>2, <3>3
  <2> QED BY <1>2, <1>4, <2>10, <2>12, <2>14, <2>15, <2>16 DEF w, c1
<1> QED BY <1>3, <1>4

\* A store is seen at once: in the cache, or in memory when it has drained.
LEMMA AfterWriteView ==
  ASSUME NEW m \in Memories, NEW c, CacheOK(c, m),
         NEW b \in Blocks, NEW U \in SUBSET Units, NEW d \in [U -> Value]
  PROVE  LET w == Store(b, d)
             c1 == AfterWrite(c, w)
             m1 == IF Hit(c1, b) THEN m ELSE Performed(m, w)
         IN  /\ m1 \in Memories /\ CacheOK(c1, m1)
             /\ View(c1, m1) = Performed(View(c, m), w)
             /\ \A l \in CopiesOf(c1) : l.block # b => l \in CopiesOf(c)
             /\ ~Hit(c1, b) => \A l \in CopiesOf(c1) : l.block # b
<1> DEFINE w == Store(b, d)
           c1 == AfterWrite(c, w)
           m1 == IF Hit(c1, b) THEN m ELSE Performed(m, w)
<1>1. c \in CacheType /\ Apart(c) /\ Backed(c, m) /\ b # NoBlock
  BY Sizes DEF CacheOK
<1>2. \A l \in CopiesOf(c) : l.block = b => l.data \in [Units -> Value]
  BY <1>1 DEF Backed, Valid
<1>3. /\ w \in Request /\ w.cmd = "store" /\ w.block = b /\ w.data = d /\ DOMAIN d = U
  BY RequestsAre
<1>4. IF \A l \in CopiesOf(c) : l.block # b
      THEN c1 = c /\ ~Hit(c1, b)
      ELSE /\ c1 \in CacheType /\ Apart(c1) /\ Hit(c1, b)
           /\ \A l : l.block # b => (l \in CopiesOf(c1) <=> l \in CopiesOf(c))
           /\ \A l \in CopiesOf(c1), k \in CopiesOf(c) : l.block = b /\ k.block = b =>
                l.dirty /\ l.data = Overlay(d, k.data)
  BY <1>1, <1>2, AfterWriteIs
<1> HIDE DEF w, c1
<1>5. Performed(m, w) \in Memories
  BY <1>3, PerformedIs
<1>6. m1 \in Memories
  BY <1>5
<1>7. View(c, m) \in Memories
  BY ViewType
<1>8. \A k \in Blocks : Performed(View(c, m), w)[k] = IF k = b THEN Overlay(d, View(c, m)[b]) ELSE View(c, m)[k]
  <2>1. Performed(View(c, m), w) = [View(c, m) EXCEPT ![b] = Overlay(d, View(c, m)[b])]
    BY <1>3 DEF Performed
  <2> QED BY <1>7, <2>1 DEF Memories
<1>9. CASE \A l \in CopiesOf(c) : l.block # b
  <2>1. c1 = c /\ m1 = Performed(m, w) /\ ~Hit(c1, b)
    BY <1>4, <1>9
  <2>2. \A k \in Blocks : m1[k] = IF k = b THEN Overlay(d, m[b]) ELSE m[k]
    <3>1. m1 = [m EXCEPT ![b] = Overlay(d, m[b])]
      BY <1>3, <2>1 DEF Performed
    <3> QED BY <3>1 DEF Memories
  <2>3. Backed(c1, m1)
    <3> SUFFICES ASSUME NEW l \in CopiesOf(c), Valid(l), ~l.dirty PROVE l.data = m1[l.block]
      BY <1>1, <2>1 DEF Backed
    <3>1. l.data = m[l.block] /\ l.block \in Blocks /\ l.block # b
      <4>1. l \in Line
        BY <1>1, CopiesAre
      <4> QED BY <1>1, <1>9, <4>1 DEF Backed, Line, Valid
    <3> QED BY <2>2, <3>1
  <2>4. CacheOK(c1, m1)
    BY <1>1, <2>1, <2>3 DEF CacheOK
  <2>5. ASSUME NEW k \in Blocks PROVE View(c1, m1)[k] = Performed(View(c, m), w)[k]
    <3>1. CASE k = b
      <4>1. View(c1, m1)[k] = m1[b] /\ View(c, m)[b] = m[b]
        BY <1>1, <1>9, <2>1, <3>1, ViewIs
      <4> QED BY <1>8, <2>2, <3>1, <4>1
    <3>2. CASE k # b
      <4>1. CASE \E l \in CopiesOf(c) : l.block = k
        <5>1. PICK l \in CopiesOf(c) : l.block = k
          BY <4>1
        <5>2. View(c1, m1)[k] = l.data /\ View(c, m)[k] = l.data
          BY <1>1, <2>1, <5>1, ViewIs
        <5> QED BY <1>8, <3>2, <5>2
      <4>2. CASE ~\E l \in CopiesOf(c) : l.block = k
        <5>2. View(c1, m1)[k] = m1[k] /\ View(c, m)[k] = m[k]
          BY <1>1, <2>1, <4>2, ViewIs
        <5> QED BY <1>8, <2>2, <3>2, <5>2
      <4> QED BY <4>1, <4>2
    <3> QED BY <3>1, <3>2
  <2>6. View(c1, m1) = Performed(View(c, m), w)
    <3>1. View(c1, m1) \in Memories /\ Performed(View(c, m), w) \in Memories
      BY <1>3, <1>6, <1>7, <2>4, ViewType, PerformedIs
    <3> HIDE DEF m1
    <3> QED BY <2>5, <3>1 DEF Memories
  <2> QED BY <1>6, <1>9, <2>1, <2>4, <2>6 DEF w, c1
<1>10. CASE ~\A l \in CopiesOf(c) : l.block # b
  <2>1. m1 = m /\ Hit(c1, b) /\ c1 \in CacheType /\ Apart(c1)
    BY <1>4, <1>10
  <2>2. PICK o \in CopiesOf(c) : o.block = b
    BY <1>10
  <2>3. \A l \in CopiesOf(c1) : l.block = b => l.dirty /\ l.data = Overlay(d, o.data)
    BY <1>4, <1>10, <2>2
  <2>4. Overlay(d, o.data) \in [Units -> Value]
    <3>1. o.data \in [Units -> Value]
      BY <1>2, <2>2
    <3> QED BY <1>3, <3>1 DEF Overlay
  <2>5. Backed(c1, m1)
    <3> SUFFICES ASSUME NEW l \in CopiesOf(c1), Valid(l)
                 PROVE  l.data \in [Units -> Value] /\ (l.dirty \/ l.data = m1[l.block])
      BY DEF Backed
    <3>1. CASE l.block = b
      BY <2>3, <2>4, <3>1
    <3>2. CASE l.block # b
      <4>1. l \in CopiesOf(c)
        BY <1>4, <1>10, <3>2
      <4> QED BY <1>1, <2>1, <4>1 DEF Backed
    <3> QED BY <3>1, <3>2
  <2>6. CacheOK(c1, m1)
    BY <2>1, <2>5 DEF CacheOK
  <2>7. ASSUME NEW k \in Blocks PROVE View(c1, m1)[k] = Performed(View(c, m), w)[k]
    <3>1. CASE k = b
      <4>1. c1.line[Index[b]] \in CopiesOf(c1) /\ c1.line[Index[b]].block = b
        BY <2>1, CopiesAre DEF Hit
      <4>2. View(c1, m1)[b] = Overlay(d, o.data)
        BY <2>1, <2>3, <4>1, ViewIs
      <4>3. View(c, m)[b] = o.data
        BY <1>1, <2>2, ViewIs
      <4> QED BY <1>8, <3>1, <4>2, <4>3
    <3>2. CASE k # b
      <4>1. CASE \E l \in CopiesOf(c) : l.block = k
        <5>1. PICK l \in CopiesOf(c) : l.block = k
          BY <4>1
        <5>2. l \in CopiesOf(c1)
          BY <1>4, <1>10, <3>2, <5>1
        <5>3. View(c1, m1)[k] = l.data /\ View(c, m)[k] = l.data
          BY <1>1, <2>1, <5>1, <5>2, ViewIs
        <5> QED BY <1>8, <3>2, <5>3
      <4>2. CASE ~\E l \in CopiesOf(c) : l.block = k
        <5>1. \A l \in CopiesOf(c1) : l.block # k
          BY <1>4, <1>10, <3>2, <4>2
        <5>2. View(c1, m1)[k] = m1[k] /\ View(c, m)[k] = m[k]
          BY <1>1, <2>1, <4>2, <5>1, ViewIs
        <5> QED BY <1>8, <2>1, <3>2, <5>2
      <4> QED BY <4>1, <4>2
    <3> QED BY <3>1, <3>2
  <2>8. View(c1, m1) = Performed(View(c, m), w)
    <3>1. View(c1, m1) \in Memories /\ Performed(View(c, m), w) \in Memories
      BY <1>3, <1>6, <1>7, <2>6, ViewType, PerformedIs
    <3> HIDE DEF m1
    <3> QED BY <2>7, <3>1 DEF Memories
  <2>9. \A l \in CopiesOf(c1) : l.block # b => l \in CopiesOf(c)
    BY <1>4, <1>10
  <2> QED BY <1>6, <2>1, <2>6, <2>8, <2>9 DEF w, c1
<1> QED BY <1>9, <1>10

-----------------------------------------------------------------------------
(* A fill. *)

\* When block b takes the place of the copy gone, which is in memory then, a
\* reader sees no change.
LEMMA ReplacedView ==
  ASSUME NEW m \in Memories, NEW c, CacheOK(c, m), NEW m3 \in Memories, NEW c3 \in CacheType, Apart(c3),
         NEW b \in Blocks, NEW entered \in Line, entered.block = b, ~entered.dirty, entered.data = m[b],
         \A l \in CopiesOf(c) : l.block # b,
         NEW gone, gone \subseteq {l \in CopiesOf(c) : Valid(l)},
         \A l : Valid(l) => (l \in CopiesOf(c3) <=> l = entered \/ (l \in CopiesOf(c) /\ l \notin gone)),
         \A l \in gone : m3[l.block] = l.data,
         \A k \in Blocks : (\A l \in gone : l.block # k) => m3[k] = m[k]
  PROVE  CacheOK(c3, m3) /\ View(c3, m3) = View(c, m)
<1>1. /\ c \in CacheType /\ Apart(c) /\ Backed(c, m)
      /\ \A k \in Blocks : k # NoBlock /\ m[k] \in [Units -> Value] /\ m3[k] \in [Units -> Value]
  BY Sizes DEF CacheOK, Memories
<1>2. \A l \in Line : Valid(l) => l.block \in Blocks
  BY DEF Line, Valid
<1>3. Valid(entered) /\ \A l \in gone : l \in CopiesOf(c) /\ Valid(l) /\ l.block \in Blocks /\ l.block # b
  BY <1>1, <1>2, CopiesAre DEF Valid
<1>4. m3[b] = m[b]
  BY <1>3
<1>5. ASSUME NEW l \in CopiesOf(c3), Valid(l)
      PROVE  l.data \in [Units -> Value] /\ (l.dirty \/ l.data = m3[l.block])
  <2>1. CASE l = entered
    BY <1>1, <1>4, <2>1
  <2>2. CASE l \in CopiesOf(c) /\ l \notin gone
    <3>1. l.data \in [Units -> Value] /\ (l.dirty \/ l.data = m[l.block])
      BY <1>1, <1>5, <2>2 DEF Backed
    <3>2. l.block \in Blocks
      BY <1>1, <1>2, <1>5, <2>2, CopiesAre
    <3>3. \A k \in gone : k.block # l.block
      BY <1>1, <1>3, <2>2, <3>2, CopiesAre
    <3> QED BY <3>1, <3>2, <3>3
  <2> QED BY <1>5, <2>1, <2>2
<1>6. CacheOK(c3, m3)
  BY <1>5 DEF CacheOK, Backed
<1>7. ASSUME NEW k \in Blocks PROVE View(c3, m3)[k] = View(c, m)[k]
  <2>1. CASE k = b
    <3>1. View(c3, m3)[k] = m[b]
      BY <1>3, <2>1, ViewIs
    <3>2. View(c, m)[k] = m[b]
      BY <1>1, <2>1, ViewIs
    <3> QED BY <3>1, <3>2
  <2>2. CASE k # b /\ \E l \in CopiesOf(c) : l.block = k /\ l \notin gone
    <3>1. PICK l \in CopiesOf(c) : l.block = k /\ l \notin gone
      BY <2>2
    <3>2. l \in CopiesOf(c3)
      BY <1>1, <3>1 DEF Valid
    <3>3. View(c, m)[k] = l.data
      BY <1>1, <3>1, ViewIs
    <3>4. View(c3, m3)[k] = l.data
      BY <3>1, <3>2, ViewIs
    <3> QED BY <3>3, <3>4
  <2>3. CASE k # b /\ \E l \in gone : l.block = k
    <3>1. PICK l \in gone : l.block = k
      BY <2>3
    <3>2. View(c, m)[k] = l.data
      BY <1>1, <1>3, <3>1, ViewIs
    <3>3. \A j \in CopiesOf(c3) : j.block # k
      <4> SUFFICES ASSUME NEW j \in CopiesOf(c3), j.block = k PROVE FALSE
        OBVIOUS
      <4>1. j \in CopiesOf(c) /\ j \notin gone
        BY <1>1, <2>3 DEF Valid
      <4> QED BY <1>1, <1>3, <3>1, <4>1, CopiesAre
    <3>4. View(c3, m3)[k] = m3[k]
      BY <3>3, ViewIs
    <3> QED BY <3>1, <3>2, <3>4
  <2>4. CASE k # b /\ \A l \in CopiesOf(c) : l.block # k
    <3>1. \A j \in CopiesOf(c3) : j.block # k
      BY <1>1, <2>4 DEF Valid
    <3>2. \A l \in gone : l.block # k
      BY <1>3, <2>4
    <3>3. View(c, m)[k] = m[k] /\ View(c3, m3)[k] = m3[k]
      BY <1>1, <2>4, <3>1, ViewIs
    <3> QED BY <3>2, <3>3
  <2> QED BY <2>1, <2>2, <2>3, <2>4
<1>8. View(c3, m3) = View(c, m)
  <2>1. View(c3, m3) \in Memories /\ View(c, m) \in Memories
    BY <1>6, ViewType
  <2> QED BY <1>7, <2>1 DEF Memories
<1> QED BY <1>6, <1>8

\* A fill puts its block into the line, the line into a victim and the victim,
\* if it is dirty, on its way to memory.
LEMMA AfterFillIs ==
  ASSUME NEW c \in CacheType, Apart(c), NEW b \in Blocks, NEW data \in [Units -> Value],
         ~mem_cache_conflict(c, b)
  PROVE  LET c3 == AfterFill(c, b, data)
             entered == [block |-> b, dirty |-> FALSE, data |-> data]
         IN  /\ c3 \in CacheType /\ Apart(c3) /\ entered \in Line
             /\ \E gone : /\ gone \subseteq {l \in CopiesOf(c) : Valid(l)}
                          /\ \A l : Valid(l) => (l \in CopiesOf(c3) <=>
                               l = entered \/ (l \in CopiesOf(c) /\ l \notin gone))
                          /\ \/ gone = {} /\ WriteBack(c, b) = <<>>
                             \/ \E v \in CopiesOf(c) :
                                  /\ gone = {v} /\ Valid(v)
                                  /\ WriteBack(c, b) = IF v.dirty THEN <<Store(v.block, v.data)>> ELSE <<>>
<1> DEFINE x == Index[b]
           c3 == AfterFill(c, b, data)
           entered == [block |-> b, dirty |-> FALSE, data |-> data]
           old == c.line[x]
           e == Evicted(c)
           v == c.victim[e]
<1>1. /\ x \in Sets /\ b # NoBlock /\ Index \in [Blocks -> Sets]
      /\ c.line \in [Sets -> Line] /\ c.victim \in [0..1 -> Line] /\ c.victim_lru \in 0..1
  BY Sizes DEF CacheType
<1>2. entered \in Line /\ entered.block = b /\ Valid(entered)
  <2>1. data \in [Units -> Value \cup {<<NoBlock, 0>>}]
    OBVIOUS
  <2> QED BY <1>1, <2>1 DEF Line, Valid
<1> HIDE DEF entered
<1>3. \A l \in CopiesOf(c) : l.block # b
  BY CopiesAre DEF mem_cache_conflict, Hit
<1>4. old \in Line /\ old.block # b /\ (Valid(old) => Index[old.block] = x /\ old.block \in Blocks)
  <2>1. old \in CopiesOf(c) /\ old \in Line
    BY <1>1 DEF CopiesOf
  <2>2. Valid(old) => Index[old.block] = x
    BY <1>1 DEF Apart
  <2> HIDE DEF old
  <2> QED BY <1>3, <2>1, <2>2 DEF Line, Valid
<1>5. \A i \in 0..1 : c.victim[i] \in Line /\ c.victim[i].block # b
                      /\ (Valid(c.victim[i]) => c.victim[i].block \in Blocks /\ Index[c.victim[i].block] \in Sets)
  BY <1>1, <1>3, CopiesAre DEF Line, Valid
<1>6. e \in 0..1
  BY <1>1 DEF Evicted
<1>7. \A l : l \in CopiesOf(c) <=> (\E s \in Sets : l = c.line[s]) \/ (\E j \in 0..1 : l = c.victim[j])
  BY DEF CopiesOf
<1>8. \A l : l \in CopiesOf(c3) <=> (\E s \in Sets : l = c3.line[s]) \/ (\E j \in 0..1 : l = c3.victim[j])
  BY DEF CopiesOf
<1>9. CASE ~Valid(old)
  <2>1. c3 = [c EXCEPT !.line[x] = entered] /\ WriteBack(c, b) = <<>>
    BY <1>9 DEF AfterFill, WriteBack, entered
  <2> HIDE DEF c3, x
  <2>2. /\ c3 \in CacheType /\ c3.victim = c.victim
        /\ \A s \in Sets : c3.line[s] = IF s = x THEN entered ELSE c.line[s]
    BY <1>1, <1>2, <2>1 DEF CacheType
  <2>3. Apart(c3)
    <3>1. \A s \in Sets : Valid(c3.line[s]) => Index[c3.line[s].block] = s
      BY <1>2, <2>2 DEF Apart, x
    <3>2. \A i \in 0..1 : Valid(c.victim[i]) => c3.line[Index[c.victim[i].block]].block # c.victim[i].block
      BY <1>2, <1>5, <2>2 DEF Apart
    <3> QED BY <2>2, <3>1, <3>2 DEF Apart
  <2>4. \A l : Valid(l) => (l \in CopiesOf(c3) <=> l = entered \/ (l \in CopiesOf(c) /\ l \notin {}))
    BY <1>1, <1>2, <1>7, <1>8, <1>9, <2>2
  <2> QED BY <1>2, <2>1, <2>2, <2>3, <2>4 DEF c3, entered
<1>10. CASE Valid(old)
  <2>1. c3 = [c EXCEPT !.line[x] = entered, !.victim[e] = old,
                       !.victim_lru = IF e = c.victim_lru THEN 1 - c.victim_lru ELSE c.victim_lru]
    BY <1>10 DEF AfterFill, entered
  <2>2. WriteBack(c, b) = IF Valid(v) /\ v.dirty THEN <<Store(v.block, v.data)>> ELSE <<>>
    BY <1>10 DEF WriteBack
  <2> HIDE DEF c3, x, old, e, v
  <2>3. /\ c3 \in CacheType
        /\ \A s \in Sets : c3.line[s] = IF s = x THEN entered ELSE c.line[s]
        /\ \A i \in 0..1 : c3.victim[i] = IF i = e THEN old ELSE c.victim[i]
    <3>1. (IF e = c.victim_lru THEN 1 - c.victim_lru ELSE c.victim_lru) \in 0..1
      BY <1>1
    <3> QED BY <1>1, <1>2, <1>4, <1>6, <2>1, <3>1 DEF CacheType
  <2>4. Apart(c3)
    <3>1. \A s \in Sets : Valid(c3.line[s]) => Index[c3.line[s].block] = s
      BY <1>2, <2>3 DEF Apart, x
    <3>2. ASSUME NEW i \in 0..1, Valid(c3.victim[i])
          PROVE  c3.line[Index[c3.victim[i].block]].block # c3.victim[i].block
      <4>1. CASE i = e
        BY <1>1, <1>2, <1>4, <1>10, <2>3, <4>1
      <4>2. CASE i # e
        <5>1. c3.victim[i] = c.victim[i]
          BY <2>3, <4>2
        <5>2. c.line[Index[c.victim[i].block]].block # c.victim[i].block
          BY <3>2, <5>1 DEF Apart
        <5> QED BY <1>2, <1>5, <2>3, <3>2, <5>1, <5>2
      <4> QED BY <4>1, <4>2
    <3>3. \A j \in 0..1 : old.block # c.victim[j].block
      <4> SUFFICES ASSUME NEW j \in 0..1, old.block = c.victim[j].block PROVE FALSE
        OBVIOUS
      <4>1. Valid(c.victim[j])
        BY <1>10 DEF Valid
      <4>2. c.line[x].block = c.victim[j].block
        BY DEF old
      <4> QED BY <1>4, <1>10, <4>1, <4>2 DEF Apart
    <3>4. Valid(c3.victim[0]) => c3.victim[0].block # c3.victim[1].block
      <4>1. CASE e = 0
        BY <2>3, <3>3, <4>1
      <4>2. CASE e = 1
        BY <2>3, <3>3, <4>2
      <4> QED BY <1>6, <4>1, <4>2
    <3> QED BY <3>1, <3>2, <3>4 DEF Apart
  <2>5. v \in CopiesOf(c) /\ v = c.victim[e]
    BY <1>6, <1>7 DEF v
  <2>6. CASE Valid(v)
    <3>1. ASSUME NEW l, Valid(l), l \in CopiesOf(c3) PROVE l = entered \/ (l \in CopiesOf(c) /\ l # v)
      <4>1. CASE \E s \in Sets : l = c3.line[s]
        <5>1. PICK s \in Sets : l = c3.line[s]
          BY <4>1
        <5>2. CASE s = x
          BY <2>3, <5>1, <5>2
        <5>3. CASE s # x
          <6>1. l = c.line[s] /\ Index[l.block] = s
            BY <2>3, <3>1, <5>1, <5>3 DEF Apart
          <6>2. c.line[Index[v.block]].block # v.block
            BY <1>6, <2>5, <2>6 DEF Apart
          <6> QED BY <1>7, <6>1, <6>2
        <5> QED BY <5>2, <5>3
      <4>2. CASE \E j \in 0..1 : l = c3.victim[j]
        <5>1. PICK j \in 0..1 : l = c3.victim[j]
          BY <4>2
        <5>2. CASE j = e
          <6>1. l = old
            BY <2>3, <5>1, <5>2
          <6>2. c.line[Index[v.block]].block # v.block
            BY <1>6, <2>5, <2>6 DEF Apart
          <6>3. c.line[Index[old.block]] = old
            BY <1>4, <1>10 DEF old
          <6>4. l # v
            BY <6>1, <6>2, <6>3
          <6> QED BY <1>1, <1>7, <6>1, <6>4 DEF old
        <5>3. CASE j # e
          <6>1. l = c.victim[j]
            BY <2>3, <5>1, <5>3
          <6>2. c.victim[0].block # c.victim[1].block
            BY <1>6, <2>5, <2>6, <3>1, <5>1, <5>3, <6>1 DEF Apart, Valid
          <6>3. l # v
            BY <1>6, <2>5, <5>1, <5>3, <6>1, <6>2
          <6> QED BY <1>7, <6>1, <6>3
        <5> QED BY <5>2, <5>3
      <4> QED BY <1>8, <3>1, <4>1, <4>2
    <3>2. ASSUME NEW l, Valid(l), l \in CopiesOf(c), l # v PROVE l \in CopiesOf(c3)
      <4>1. CASE \E s \in Sets : l = c.line[s]
        BY <1>6, <1>8, <2>3, <4>1 DEF old
      <4>2. CASE \E j \in 0..1 : l = c.victim[j]
        BY <1>8, <2>3, <2>5, <3>2, <4>2
      <4> QED BY <1>7, <3>2, <4>1, <4>2
    <3>3. entered \in CopiesOf(c3)
      BY <1>1, <1>8, <2>3 DEF x
    <3>4. \A l : Valid(l) => (l \in CopiesOf(c3) <=> l = entered \/ (l \in CopiesOf(c) /\ l \notin {v}))
      BY <3>1, <3>2, <3>3
    <3>5. WriteBack(c, b) = IF v.dirty THEN <<Store(v.block, v.data)>> ELSE <<>>
      BY <2>2, <2>6
    <3> QED BY <1>2, <2>3, <2>4, <2>5, <2>6, <3>4, <3>5 DEF c3, entered
  <2>7. CASE ~Valid(v)
    <3>1. ASSUME NEW l, Valid(l), l \in CopiesOf(c3) PROVE l = entered \/ l \in CopiesOf(c)
      <4>1. CASE \E s \in Sets : l = c3.line[s]
        BY <1>7, <2>3, <4>1
      <4>2. CASE \E j \in 0..1 : l = c3.victim[j]
        BY <1>1, <1>7, <2>3, <4>2 DEF old, x
      <4> QED BY <1>8, <3>1, <4>1, <4>2
    <3>2. ASSUME NEW l, Valid(l), l \in CopiesOf(c) PROVE l \in CopiesOf(c3)
      <4>1. CASE \E s \in Sets : l = c.line[s]
        BY <1>6, <1>8, <2>3, <4>1 DEF old
      <4>2. CASE \E j \in 0..1 : l = c.victim[j]
        BY <1>8, <2>3, <2>5, <2>7, <3>2, <4>2
      <4> QED BY <1>7, <3>2, <4>1, <4>2
    <3>3. entered \in CopiesOf(c3)
      BY <1>1, <1>8, <2>3 DEF x
    <3>4. \A l : Valid(l) => (l \in CopiesOf(c3) <=> l = entered \/ (l \in CopiesOf(c) /\ l \notin {}))
      BY <3>1, <3>2, <3>3
    <3>5. WriteBack(c, b) = <<>>
      BY <2>2, <2>7
    <3> QED BY <1>2, <2>3, <2>4, <3>4, <3>5 DEF c3, entered
  <2> QED BY <2>6, <2>7
<1> QED BY <1>9, <1>10

\* A fill with what memory holds changes nothing that a reader sees.
LEMMA AfterFillView ==
  ASSUME NEW m \in Memories, NEW c, CacheOK(c, m), NEW b \in Blocks, NEW data, data = m[b] \/ mem_cache_conflict(c, b)
  PROVE  LET c3 == AfterFill(c, b, data)
             wb == WriteBack(c, b)
             m3 == IF wb = <<>> THEN m ELSE Performed(m, wb[1])
         IN  /\ \/ wb = <<>>
                \/ \E v \in CopiesOf(c) : /\ v.block \in Blocks /\ v.dirty /\ v.data \in [Units -> Value]
                                          /\ wb = <<Store(v.block, v.data)>>
             /\ m3 \in Memories /\ CacheOK(c3, m3) /\ View(c3, m3) = View(c, m)
             /\ \A l \in CopiesOf(c3) : l.dirty /\ Valid(l) => l \in CopiesOf(c)
<1> DEFINE c3 == AfterFill(c, b, data)
           wb == WriteBack(c, b)
           m3 == IF wb = <<>> THEN m ELSE Performed(m, wb[1])
           entered == [block |-> b, dirty |-> FALSE, data |-> data]
<1>1. CASE mem_cache_conflict(c, b)
  BY <1>1 DEF AfterFill, WriteBack
<1>2. CASE ~mem_cache_conflict(c, b)
  <2>1. c \in CacheType /\ Apart(c) /\ Backed(c, m) /\ data \in [Units -> Value] /\ data = m[b]
    BY <1>2 DEF CacheOK, Memories
  <2>2. /\ c3 \in CacheType /\ Apart(c3) /\ entered \in Line
        /\ \E gone : /\ gone \subseteq {l \in CopiesOf(c) : Valid(l)}
                     /\ \A l : Valid(l) => (l \in CopiesOf(c3) <=>
                          l = entered \/ (l \in CopiesOf(c) /\ l \notin gone))
                     /\ \/ gone = {} /\ wb = <<>>
                        \/ \E v \in CopiesOf(c) :
                             /\ gone = {v} /\ Valid(v)
                             /\ wb = IF v.dirty THEN <<Store(v.block, v.data)>> ELSE <<>>
    BY <1>2, <2>1, AfterFillIs
  <2>3. entered.block = b /\ ~entered.dirty /\ entered.data = m[b]
    BY <2>1
  <2>4. \A l \in CopiesOf(c) : l.block # b
    BY <1>2, <2>1, CopiesAre DEF mem_cache_conflict, Hit
  <2> HIDE DEF c3, wb, entered
  <2>5. PICK gone :
          /\ gone \subseteq {l \in CopiesOf(c) : Valid(l)}
          /\ \A l : Valid(l) => (l \in CopiesOf(c3) <=> l = entered \/ (l \in CopiesOf(c) /\ l \notin gone))
          /\ \/ gone = {} /\ wb = <<>>
             \/ \E v \in CopiesOf(c) : /\ gone = {v} /\ Valid(v)
                                       /\ wb = IF v.dirty THEN <<Store(v.block, v.data)>> ELSE <<>>
    BY <2>2
  <2>6. \A l \in CopiesOf(c3) : l.dirty /\ Valid(l) => l \in CopiesOf(c)
    BY <2>3, <2>5
  <2>7. \A v \in CopiesOf(c) : Valid(v) => v.block \in Blocks /\ v.data \in [Units -> Value]
                                           /\ (v.dirty \/ v.data = m[v.block])
    BY <2>1, CopiesAre DEF Backed, Line, Valid
  <2>8. /\ \/ wb = <<>>
           \/ \E v \in CopiesOf(c) : /\ v.block \in Blocks /\ v.dirty /\ v.data \in [Units -> Value]
                                     /\ wb = <<Store(v.block, v.data)>>
        /\ m3 \in Memories
        /\ \A l \in gone : m3[l.block] = l.data
        /\ \A k \in Blocks : (\A l \in gone : l.block # k) => m3[k] = m[k]
    <3>1. CASE gone = {} /\ wb = <<>>
      BY <3>1
    <3>2. CASE \E v \in CopiesOf(c) : /\ gone = {v} /\ Valid(v)
                                      /\ wb = IF v.dirty THEN <<Store(v.block, v.data)>> ELSE <<>>
      <4>1. PICK v \in CopiesOf(c) : /\ gone = {v} /\ Valid(v)
                                     /\ wb = IF v.dirty THEN <<Store(v.block, v.data)>> ELSE <<>>
        BY <3>2
      <4>2. v.block \in Blocks /\ v.data \in [Units -> Value] /\ (v.dirty \/ v.data = m[v.block])
        BY <2>7, <4>1
      <4>3. CASE ~v.dirty
        <5>1. wb = <<>> /\ m3 = m
          BY <4>1, <4>3
        <5> QED BY <4>1, <4>2, <4>3, <5>1
      <4>4. CASE v.dirty
        <5> DEFINE s == Store(v.block, v.data)
        <5>1. wb = <<s>> /\ m3 = Performed(m, s)
          BY <4>1, <4>4
        <5>2. Units \in SUBSET Units /\ s \in Request /\ s.cmd = "store" /\ s.block = v.block /\ s.data = v.data
          BY <4>2, RequestsAre
        <5> HIDE DEF s
        <5>3. m3 \in Memories
          BY <5>1, <5>2, PerformedIs
        <5>4. m3 = [m EXCEPT ![v.block] = Overlay(v.data, m[v.block])]
          BY <5>1, <5>2 DEF Performed
        <5>5. Overlay(v.data, m[v.block]) = v.data
          <6>1. DOMAIN v.data = Units
            BY <4>2
          <6> QED BY <4>2, <6>1 DEF Overlay
        <5>6. m3[v.block] = v.data /\ \A k \in Blocks : k # v.block => m3[k] = m[k]
          BY <4>2, <5>4, <5>5 DEF Memories
        <5> HIDE DEF m3
        <5> QED BY <4>1, <4>2, <4>4, <5>1, <5>3, <5>6 DEF s
      <4> QED BY <4>3, <4>4
    <3> QED BY <2>5, <3>1, <3>2
  <2> HIDE DEF m3
  <2>9. CacheOK(c3, m3) /\ View(c3, m3) = View(c, m)
    BY <2>2, <2>3, <2>4, <2>5, <2>8, ReplacedView
  <2> QED BY <2>6, <2>8, <2>9 DEF c3, wb, m3
<1> QED BY <1>1, <1>2

-----------------------------------------------------------------------------
(* The tags of memory. *)

\* The priority encoder.
LEMMA LowestIs ==
  ASSUME NEW S \in SUBSET (1..TAGS)
  PROVE  /\ S = {} => LowestOf(S) = 0
         /\ S # {} => LowestOf(S) \in S
<1>1. CASE S = {}
  BY <1>1 DEF LowestOf
<1>2. CASE S # {}
  <2>1. S \in SUBSET Nat
    BY Sizes
  <2>2. \E m \in S : \A n \in S : m <= n
    BY <1>2, <2>1, LeastNat
  <2> QED BY <1>2, <2>2 DEF LowestOf
<1> QED BY <1>1, <1>2

\* With more tags than cycles of latency one is always free.
LEMMA TagIsFree ==
  ASSUME LAT < TAGS, TagsOK
  PROVE  \E i \in 1..TAGS : tags[i].cycles_left = 0 /\ ~tags[i].waiting_for_bus
<1> SUFFICES ASSUME \A i \in 1..TAGS : tags[i].cycles_left # 0 \/ tags[i].waiting_for_bus PROVE FALSE
  OBVIOUS
<1> DEFINE f == [i \in 1..TAGS |-> tags[i].cycles_left]
<1>1. /\ LAT \in Nat /\ TAGS \in Nat
      /\ \A i \in 1..TAGS : tags[i].cycles_left \in 0..LAT
      /\ \A i \in 1..TAGS : tags[i].waiting_for_bus => tags[i].cycles_left > 0
  BY Sizes DEF TagsOK
<1>2. \A i \in 1..TAGS : f[i] \in 1..LAT
  BY <1>1
<1>3. \A i, j \in 1..TAGS : f[i] = f[j] => i = j
  BY <1>1, <1>2 DEF TagsOK
<1>4. f \in [1..TAGS -> 1..LAT] /\ DOMAIN f = 1..TAGS
  BY <1>2
<1> HIDE DEF f
<1>5. f \in Injection(1..TAGS, 1..LAT)
  BY <1>3, <1>4 DEF Injection, IsInjective
<1>6. IsFiniteSet(1..LAT) /\ Cardinality(1..LAT) = LAT /\ Cardinality(1..TAGS) = TAGS
  BY <1>1, FS_Interval, Sizes
<1>7. Cardinality(1..TAGS) <= Cardinality(1..LAT)
  BY <1>5, <1>6, FS_Injection
<1> QED BY <1>1, <1>6, <1>7

\* Memory takes every command, and returns a tag when its time is over.
LEMMA TagsAre ==
  ASSUME LAT < TAGS, TagsOK, NEW command
  PROVE  LET response == mem2proc_response(command)
             tag == mem2proc_tag(response)
         IN  /\ command = "none" => response = 0
             /\ command # "none" => /\ response \in 1..TAGS
                                    /\ tags[response].cycles_left = 0 /\ ~tags[response].waiting_for_bus
             /\ tag \in 0..TAGS
             /\ \A i \in 1..TAGS : tag = i <=> tags[i].waiting_for_bus /\ tags[i].cycles_left = 1
<1> DEFINE response == mem2proc_response(command)
           tag == mem2proc_tag(response)
           F == {i \in 1..TAGS : tags[i].cycles_left = 0 /\ ~tags[i].waiting_for_bus}
           D == {i \in 1..TAGS : CyclesLeft(i, response) = 0 /\ tags[i].waiting_for_bus}
<1>1. command = "none" => response = 0
  BY DEF mem2proc_response
<1>2. command # "none" => response \in F
  <2>1. F # {} /\ F \in SUBSET (1..TAGS)
    BY TagIsFree
  <2>2. command # "none" => response = LowestOf(F)
    BY DEF mem2proc_response
  <2> HIDE DEF F, response
  <2> QED BY <2>1, <2>2, LowestIs
<1>3. /\ LAT \in Nat \ {0} /\ TAGS \in Nat
      /\ \A i \in 1..TAGS : tags[i].cycles_left \in 0..LAT
      /\ \A i \in 1..TAGS : tags[i].waiting_for_bus => tags[i].cycles_left > 0
      /\ \A i, j \in 1..TAGS : tags[i].cycles_left = tags[j].cycles_left /\ tags[i].cycles_left > 0 => i = j
  BY Sizes DEF TagsOK
<1>4. \A i \in 1..TAGS : i \in D <=> tags[i].waiting_for_bus /\ tags[i].cycles_left = 1
  <2> SUFFICES ASSUME NEW i \in 1..TAGS, tags[i].waiting_for_bus
               PROVE  CyclesLeft(i, response) = 0 <=> tags[i].cycles_left = 1
    OBVIOUS
  <2>1. tags[i].cycles_left > 0 /\ tags[i].cycles_left \in Nat
    BY <1>3
  <2>2. i # response
    BY <1>1, <1>2
  <2>3. CyclesLeft(i, response) = tags[i].cycles_left - 1
    BY <2>1, <2>2 DEF CyclesLeft
  <2> QED BY <2>1, <2>3
<1>5. tag = LowestOf(D) /\ D \in SUBSET (1..TAGS)
  BY DEF mem2proc_tag
<1>6. \A i, j \in D : i = j
  <2> HIDE DEF D
  <2>1. \A i, j \in D : i \in 1..TAGS /\ j \in 1..TAGS /\ tags[i].cycles_left = 1 /\ tags[j].cycles_left = 1
    BY <1>4, <1>5
  <2> QED BY <1>3, <2>1
<1> HIDE DEF D, response, tag
<1>7. tag \in 0..TAGS /\ \A i \in 1..TAGS : tag = i <=> i \in D
  <2>1. CASE D = {}
    BY <1>3, <1>5, <2>1, LowestIs
  <2>2. CASE D # {}
    <3>1. tag \in D
      BY <1>5, <2>2, LowestIs
    <3> QED BY <1>3, <1>5, <1>6, <3>1
  <2> QED BY <2>1, <2>2
<1> QED BY <1>1, <1>2, <1>4, <1>7 DEF response, tag

\* The next edge of the tags.
LEMMA TagsNext ==
  ASSUME LAT < TAGS, TagsOK, NEW command, NEW isLoad \in BOOLEAN,
         NEW loaded \in [Units -> Value \cup {<<NoBlock, 0>>}], isLoad => command # "none",
         tags' = NextTags(mem2proc_response(command), isLoad, loaded)
  PROVE  LET response == mem2proc_response(command)
             tag == mem2proc_tag(response)
         IN  /\ TagsOK'
             /\ \A i \in 1..TAGS : tags[i].waiting_for_bus /\ i # tag =>
                  /\ tags'[i].waiting_for_bus
                  /\ tags'[i].cycles_left = tags[i].cycles_left - 1
                  /\ tags'[i].loaded_data = tags[i].loaded_data
             /\ isLoad => /\ tags'[response].waiting_for_bus
                          /\ tags'[response].cycles_left = LAT
                          /\ tags'[response].loaded_data = loaded
<1> DEFINE response == mem2proc_response(command)
           tag == mem2proc_tag(response)
           W(i) == IF i = response THEN isLoad ELSE tags[i].waiting_for_bus /\ i # tag
           D(i) == IF i = response /\ isLoad THEN loaded
                   ELSE IF i = response \/ i = tag THEN Garbage ELSE tags[i].loaded_data
<1>1. /\ command = "none" => response = 0
      /\ command # "none" => /\ response \in 1..TAGS
                             /\ tags[response].cycles_left = 0 /\ ~tags[response].waiting_for_bus
      /\ \A i \in 1..TAGS : tag = i <=> tags[i].waiting_for_bus /\ tags[i].cycles_left = 1
  BY TagsAre
<1>2. tags' = [i \in 1..TAGS |-> [cycles_left |-> CyclesLeft(i, response), waiting_for_bus |-> W(i),
                                  loaded_data |-> D(i)]]
  BY DEF NextTags
<1> HIDE DEF W, D
<1>3. \A i \in 1..TAGS : /\ tags'[i].cycles_left = CyclesLeft(i, response)
                         /\ tags'[i].waiting_for_bus = W(i)
                         /\ tags'[i].loaded_data = D(i)
  BY <1>2
<1> HIDE DEF response, tag
<1>4. /\ LAT \in Nat \ {0} /\ TAGS \in Nat
      /\ \A i \in 1..TAGS : tags[i].cycles_left \in 0..LAT
      /\ \A i \in 1..TAGS : tags[i].waiting_for_bus \in BOOLEAN
      /\ \A i \in 1..TAGS : tags[i].loaded_data \in [Units -> Value \cup {<<NoBlock, 0>>}]
      /\ \A i \in 1..TAGS : tags[i].waiting_for_bus => tags[i].cycles_left > 0
      /\ \A i, j \in 1..TAGS : tags[i].cycles_left = tags[j].cycles_left /\ tags[i].cycles_left > 0 => i = j
  BY Sizes DEF TagsOK
<1>5. Garbage \in [Units -> Value \cup {<<NoBlock, 0>>}]
  BY DEF Garbage
<1>6. \A i \in 1..TAGS : CyclesLeft(i, response) = IF i = response THEN LAT
                           ELSE IF tags[i].cycles_left > 0 THEN tags[i].cycles_left - 1 ELSE 0
  BY DEF CyclesLeft
<1>7. \A i \in 1..TAGS : CyclesLeft(i, response) \in 0..LAT
  BY <1>4, <1>6
<1>8. \A i \in 1..TAGS : tags'[i].cycles_left = CyclesLeft(i, response)
  BY <1>3
<1>9. \A i \in 1..TAGS : tags'[i].waiting_for_bus = IF i = response THEN isLoad
                                                    ELSE tags[i].waiting_for_bus /\ i # tag
  BY <1>3 DEF W
<1>10. \A i \in 1..TAGS : tags'[i].loaded_data = IF i = response /\ isLoad THEN loaded
                                                 ELSE IF i = response \/ i = tag THEN Garbage
                                                 ELSE tags[i].loaded_data
  BY <1>3 DEF D
<1>11. tags' \in [1..TAGS -> [cycles_left : 0..LAT, waiting_for_bus : BOOLEAN,
                              loaded_data : [Units -> Value \cup {<<NoBlock, 0>>}]]]
  <2>1. \A i \in 1..TAGS : W(i) \in BOOLEAN
    BY <1>4 DEF W
  <2>2. \A i \in 1..TAGS : D(i) \in [Units -> Value \cup {<<NoBlock, 0>>}]
    BY <1>4, <1>5 DEF D
  <2> QED BY <1>2, <1>7, <2>1, <2>2
<1>12. \A i \in 1..TAGS : tags'[i].waiting_for_bus => tags'[i].cycles_left > 0
  <2> SUFFICES ASSUME NEW i \in 1..TAGS, tags'[i].waiting_for_bus PROVE CyclesLeft(i, response) > 0
    BY <1>8
  <2>1. CASE i = response
    BY <1>4, <1>6, <2>1
  <2>2. CASE i # response
    <3>1. tags[i].waiting_for_bus /\ i # tag
      BY <1>9, <2>2
    <3>2. tags[i].cycles_left > 0 /\ tags[i].cycles_left # 1
      BY <1>1, <1>4, <3>1
    <3> QED BY <1>4, <1>6, <2>2, <3>2
  <2> QED BY <2>1, <2>2
<1>13. \A i, j \in 1..TAGS : tags'[i].cycles_left = tags'[j].cycles_left /\ tags'[i].cycles_left > 0 => i = j
  <2> SUFFICES ASSUME NEW i \in 1..TAGS, NEW j \in 1..TAGS,
                      CyclesLeft(i, response) = CyclesLeft(j, response), CyclesLeft(i, response) > 0
               PROVE  i = j
    BY <1>8
  <2>1. tags[i].cycles_left \in 0..LAT /\ tags[j].cycles_left \in 0..LAT
    BY <1>4
  <2>2. CASE i = response \/ j = response
    BY <1>4, <1>6, <2>1, <2>2
  <2>3. CASE i # response /\ j # response
    <3>1. tags[i].cycles_left = tags[j].cycles_left /\ tags[i].cycles_left > 0
      BY <1>4, <1>6, <2>1, <2>3
    <3> QED BY <1>4, <3>1
  <2> QED BY <2>2, <2>3
<1>14. TagsOK'
  BY <1>11, <1>12, <1>13 DEF TagsOK
<1>15. ASSUME NEW i \in 1..TAGS, tags[i].waiting_for_bus, i # tag
       PROVE  /\ tags'[i].waiting_for_bus
              /\ tags'[i].cycles_left = tags[i].cycles_left - 1
              /\ tags'[i].loaded_data = tags[i].loaded_data
  <2>1. i # response
    BY <1>1, <1>4, <1>15
  <2>2. tags'[i].waiting_for_bus
    BY <1>9, <1>15, <2>1
  <2>3. tags'[i].cycles_left = tags[i].cycles_left - 1
    BY <1>4, <1>6, <1>8, <1>15, <2>1
  <2>4. tags'[i].loaded_data = tags[i].loaded_data
    BY <1>10, <1>15, <2>1
  <2> QED BY <2>2, <2>3, <2>4
<1>16. ASSUME isLoad
       PROVE  /\ tags'[response].waiting_for_bus
              /\ tags'[response].cycles_left = LAT
              /\ tags'[response].loaded_data = loaded
  <2>1. response \in 1..TAGS
    BY <1>1, <1>16
  <2> QED BY <1>6, <1>8, <1>9, <1>10, <1>16, <2>1
<1> QED BY <1>14, <1>15, <1>16 DEF response, tag

-----------------------------------------------------------------------------
(* One clock edge, part by part. *)

WriteStage(w) == IF w = {} THEN cache ELSE AfterWrite(cache, Requested(w)[1])
WriteMiss(w) == IF w # {} /\ ~Hit(WriteStage(w), Requested(w)[1].block) THEN Requested(w) ELSE <<>>
ReadStage(w, r) == IF r = {} THEN WriteStage(w) ELSE Fetched(WriteStage(w), Requested(r)[1].block)
Hits(w, r) == {q \in r : Hit(ReadStage(w, r), q.block)}
ReadMiss(w, r) == [i \in 1..Cardinality(r \ Hits(w, r)) |-> Load(Requested(r)[i])]

Command(fetch) == IF q1_head.cmd # "none" THEN q1_head.cmd ELSE IF fetch THEN "load" ELSE "none"
Response(fetch) == mem2proc_response(Command(fetch))
Tag(fetch) == mem2proc_tag(Response(fetch))
Filling(fetch) == q2_head_mem_response(Tag(fetch))
Filled(fetch) == mem2proc_data(Tag(fetch))
Displaced(w, r, fetch) ==
  IF Filling(fetch) THEN WriteBack(ReadStage(w, r), q2[1].read.block) ELSE <<>>

Asked(w, r, fetch) == Displaced(w, r, fetch) \o WriteMiss(w) \o ReadMiss(w, r)
CancelAll(x, s) == [i \in DOMAIN s |-> Cancelled(x, s[i])]
Left == (IF q1 = <<>> THEN q1 ELSE Tail(q1)) \o new

Told(w, r) ==
  {<<q.slot, ReadStage(w, r).line[Index[q.block]].data[q.unit]>> : q \in Hits(w, r)}
    \cup {a \in mem_feedback : \E q \in live : q.slot = a[1]}

\* A clock edge with inputs that the environment may give.
Step(w, r, fetch, except) ==
  /\ w \in Writes /\ r \in Reads /\ fetch \in BOOLEAN /\ except \in BOOLEAN
  /\ fetch => q1_head.cmd = "none"
  /\ \A x \in w, q \in r : x.block # q.block
  /\ Clock(w, r, fetch, except)

\* Its effect on the queues and memory.
LEMMA ClockQueues ==
  ASSUME NEW w, NEW r, NEW fetch, NEW except, Clock(w, r, fetch, except)
  PROVE  /\ new' = CancelAll(except, Asked(w, r, fetch))
         /\ q1' = CancelAll(except, Left)
         /\ memory' = IF Response(fetch) = 0 THEN memory ELSE Performed(memory, q1_head)
BY DEF Clock, WriteStage, WriteMiss, ReadStage, Hits, ReadMiss, Command, Response, Tag, Filling, Filled,
       Displaced, Asked, Left, CancelAll

\* Its effect on the tags and the reads that wait for them.
LEMMA ClockTags ==
  ASSUME NEW w, NEW r, NEW fetch, NEW except, Clock(w, r, fetch, except)
  PROVE  /\ q2' = q2_next(Tag(fetch), Response(fetch), except)
         /\ tags' = NextTags(Response(fetch), Command(fetch) = "load",
                             IF q1_head.cmd = "load" THEN memory[q1_head.read.block] ELSE Garbage)
BY DEF Clock, Command, Response, Tag

\* Its effect on the cache and on what the load queue waits for and is told.
LEMMA ClockCache ==
  ASSUME NEW w, NEW r, NEW fetch, NEW except, Clock(w, r, fetch, except)
  PROVE  /\ cache' = IF Filling(fetch)
                     THEN AfterFill(ReadStage(w, r), q2[1].read.block, Filled(fetch))
                     ELSE ReadStage(w, r)
         /\ mem_feedback' = IF Filling(fetch)
                            THEN {<<q2[1].read.slot, Filled(fetch)[q2[1].read.unit]>>} ELSE {}
         /\ answer' = Told(w, r)
         /\ live' = IF except THEN {} ELSE {q \in live \cup r : \A a \in Told(w, r) : a[1] # q.slot}
BY DEF Clock, WriteStage, ReadStage, Hits, Command, Response, Tag, Filling, Filled, Told

\* What the store queue writes.
LEMMA WritesAre ==
  ASSUME MemoryOK, NEW w \in Writes, w # {}
  PROVE  \E b \in Blocks, u \in Units : \E d \in [{u} -> Value] :
           /\ w = {Store(b, d)} /\ Requested(w) = <<Store(b, d)>>
           /\ d = [x \in {u} |-> <<b, used.writes + 2>>]
           /\ used.writes < MaxWrites /\ \A q \in live : q.block # b
<1> DEFINE Free == {x \in Blocks : /\ refill = 0 /\ used.writes < MaxWrites /\ \A q \in live : q.block # x}
<1> DEFINE put(v, x) == Store(x, [u \in {v} |-> <<x, used.writes + 2>>])
<1>0. Writes = {{}} \cup {{put(v, x)} : v \in Units, x \in Free}
  BY DEF Writes
<1> HIDE DEF put, Free
<1>9. PICK v \in Units, b \in Free : w = {put(v, b)}
  BY <1>0
<1>1. w = {Store(b, [u \in {v} |-> <<b, used.writes + 2>>])} /\ b \in Free
  BY <1>9 DEF put
<1> USE DEF Free
<1>2. used.writes \in 0..MaxWrites /\ MaxWrites \in Nat
  BY Sizes DEF MemoryOK
<1>3. <<b, used.writes + 2>> \in Value
  BY <1>1, <1>2 DEF Value
<1> DEFINE d == [u \in {v} |-> <<b, used.writes + 2>>]
<1>4. d \in [{v} -> Value]
  BY <1>3
<1> HIDE DEF d
<1>5. w = {Store(b, d)}
  BY <1>1 DEF d
<1>6. Requested(w) = <<Store(b, d)>>
  BY <1>5 DEF Requested
<1> QED BY <1>1, <1>4, <1>5, <1>6 DEF d

\* What the load queue reads.
LEMMA ReadsAre ==
  ASSUME NEW r \in Reads, r # {}
  PROVE  \E q \in Read : /\ r = {q} /\ Requested(r) = <<q>> /\ refill = 0
                         /\ \A p \in live : p.slot # q.slot
<1>1. PICK q \in Read : r = {q} /\ refill = 0 /\ \A p \in live : p.slot # q.slot
  BY DEF Reads
<1>2. Requested(r) = <<q>>
  BY <1>1 DEF Requested
<1> QED BY <1>1, <1>2

\* The parts of a clock edge that make requests make at most one.
Few(s) == s = <<>> \/ \E e \in Request : s = <<e>>
All(m, s) == IF s = <<>> THEN m ELSE Performed(m, s[1])

\* Memory when a queue and one more request have been performed.
LEMMA DrainedFew ==
  ASSUME NEW m \in Memories, NEW queue \in Seq(Request), NEW s, Few(s)
  PROVE  /\ s \in Seq(Request) /\ queue \o s \in Seq(Request) /\ Len(s) \in 0..1
         /\ Drained(queue \o s, m) = All(Drained(queue, m), s)
<1>1. CASE s = <<>>
  <2>1. queue \o s = queue
    BY <1>1, ConcatEmptySeq
  <2> QED BY <1>1, <2>1 DEF All
<1>2. CASE \E e \in Request : s = <<e>>
  <2>1. PICK e \in Request : s = <<e>>
    BY <1>2
  <2>2. s \in Seq(Request) /\ Len(s) = 1 /\ s[1] = e /\ s # <<>>
    BY <2>1
  <2>3. queue \o s \in Seq(Request)
    BY <2>2, ConcatProperties
  <2>4. Drained(queue \o s, m) = Performed(Drained(queue, m), e)
    BY <2>1, DrainedAppend
  <2> QED BY <2>2, <2>3, <2>4 DEF All
<1> QED BY <1>1, <1>2 DEF Few

\* What the loads and stores of the cycle find in the cache.
LEMMA StagesAre ==
  ASSUME MemoryOK, RequestsOK, NEW w \in Writes, NEW r \in Reads, \A x \in w, q \in r : x.block # q.block
  PROVE  LET c2 == ReadStage(w, r)
             m1 == All(Written, WriteMiss(w))
         IN  /\ Written \in Memories /\ Few(WriteMiss(w)) /\ m1 \in Memories /\ CacheOK(c2, m1)
             /\ w = {} => WriteMiss(w) = <<>> /\ View(c2, m1) = View(cache, Written)
             /\ \A x \in w : x \in Request /\ View(c2, m1) = Performed(View(cache, Written), x)
             /\ WriteMiss(w) # <<>> =>
                  \E x \in w : WriteMiss(w) = <<x>> /\ \A l \in CopiesOf(c2) : l.block # x.block
             /\ \A l \in CopiesOf(c2) : (\A x \in w : l.block # x.block) => l \in CopiesOf(cache)
             /\ Few(ReadMiss(w, r))
             /\ Hits(w, r) = {} => ReadMiss(w, r) = IF r = {} THEN <<>> ELSE <<Load(Requested(r)[1])>>
             /\ Hits(w, r) # {} => ReadMiss(w, r) = <<>> /\ Hits(w, r) = r
             /\ \A q \in r : q \notin Hits(w, r) => \A l \in CopiesOf(c2) : l.block # q.block
<1> DEFINE c1 == WriteStage(w)
           c2 == ReadStage(w, r)
           m1 == All(Written, WriteMiss(w))
<1>1. Written \in Memories /\ CacheOK(cache, Written)
  <2>1. q1 \o new \in Seq(Request) /\ memory \in Memories
    BY ConcatProperties DEF RequestsOK, MemoryOK
  <2> QED BY <2>1, DrainedType DEF Written, MemoryOK
<1>2. /\ Few(WriteMiss(w)) /\ m1 \in Memories /\ CacheOK(c1, m1)
      /\ w = {} => WriteMiss(w) = <<>> /\ View(c1, m1) = View(cache, Written)
      /\ \A x \in w : x \in Request /\ View(c1, m1) = Performed(View(cache, Written), x)
      /\ WriteMiss(w) # <<>> =>
           \E x \in w : WriteMiss(w) = <<x>> /\ \A l \in CopiesOf(c1) : l.block # x.block
      /\ \A l \in CopiesOf(c1) : (\A x \in w : l.block # x.block) => l \in CopiesOf(cache)
  <2>1. CASE w = {}
    <3>1. WriteMiss(w) = <<>> /\ c1 = cache /\ m1 = Written
      BY <2>1 DEF WriteMiss, WriteStage, All
    <3> QED BY <1>1, <2>1, <3>1 DEF Few
  <2>2. CASE w # {}
    <3>1. PICK b \in Blocks, u \in Units : \E d \in [{u} -> Value] :
            /\ w = {Store(b, d)} /\ Requested(w) = <<Store(b, d)>>
            /\ d = [x \in {u} |-> <<b, used.writes + 2>>]
            /\ used.writes < MaxWrites /\ \A q \in live : q.block # b
      BY <2>2, WritesAre
    <3>2. PICK d \in [{u} -> Value] : w = {Store(b, d)} /\ Requested(w) = <<Store(b, d)>>
      BY <3>1
    <3>3. {u} \in SUBSET Units
      OBVIOUS
    <3> DEFINE x == Store(b, d)
    <3>4. x \in Request /\ x.block = b /\ Requested(w)[1] = x
      BY <3>2, <3>3, RequestsAre
    <3>5. c1 = AfterWrite(cache, x)
      BY <2>2, <3>4 DEF WriteStage
    <3>6. WriteMiss(w) = IF Hit(c1, b) THEN <<>> ELSE <<x>>
      BY <2>2, <3>2, <3>4 DEF WriteMiss
    <3> HIDE DEF x
    <3>7. m1 = IF Hit(c1, b) THEN Written ELSE Performed(Written, x)
      BY <3>6 DEF All
    <3>8. /\ m1 \in Memories /\ CacheOK(c1, m1)
          /\ View(c1, m1) = Performed(View(cache, Written), x)
          /\ \A l \in CopiesOf(c1) : l.block # b => l \in CopiesOf(cache)
          /\ ~Hit(c1, b) => \A l \in CopiesOf(c1) : l.block # b
      <4> HIDE DEF c1, m1
      <4> QED BY <1>1, <3>3, <3>5, <3>7, AfterWriteView DEF x
    <3>9. w = {x}
      BY <3>2 DEF x
    <3> HIDE DEF m1, c1
    <3> QED BY <2>2, <3>4, <3>6, <3>8, <3>9 DEF Few
  <2> QED BY <2>1, <2>2
<1> HIDE DEF c1, m1
<1>3. CASE r = {}
  <2>1. c2 = c1
    BY <1>3 DEF ReadStage, c1
  <2>2. Hits(w, r) = {}
    BY <1>3 DEF Hits
  <2>3. Cardinality(r \ Hits(w, r)) = 0
    BY <1>3, FS_EmptySet
  <2>4. ReadMiss(w, r) = <<>>
    <3>1. ReadMiss(w, r) = [i \in 1..0 |-> Load(Requested(r)[i])]
      BY <2>3 DEF ReadMiss
    <3>2. [i \in 1..0 |-> Load(Requested(r)[i])] = <<>>
      OBVIOUS
    <3> QED BY <3>1, <3>2
  <2> HIDE DEF c2
  <2> QED BY <1>1, <1>2, <1>3, <2>1, <2>2, <2>4 DEF Few, c2, m1
<1>4. CASE r # {}
  <2>1. PICK q \in Read : r = {q} /\ Requested(r) = <<q>>
    BY <1>4, ReadsAre
  <2>2. q.block \in Blocks /\ Requested(r)[1] = q
    BY <2>1 DEF Read
  <2>3. c2 = Fetched(c1, q.block)
    BY <1>4, <2>2 DEF ReadStage, c1
  <2>4. CacheOK(c2, m1) /\ View(c2, m1) = View(c1, m1)
    BY <1>2, <2>2, <2>3, FetchedView
  <2>5. CopiesOf(c2) = CopiesOf(c1) /\ (Hit(c2, q.block) <=> \E l \in CopiesOf(c1) : l.block = q.block)
    BY <1>2, <2>2, <2>3, FetchedIs DEF CacheOK
  <2>6. Hits(w, r) = IF Hit(c2, q.block) THEN r ELSE {}
    BY <2>1 DEF Hits
  <2>7. ReadMiss(w, r) = IF Hit(c2, q.block) THEN <<>> ELSE <<Load(q)>>
    <3>1. CASE Hit(c2, q.block)
      <4>1. r \ Hits(w, r) = {}
        BY <2>6, <3>1
      <4>2. Cardinality(r \ Hits(w, r)) = 0
        BY <4>1, FS_EmptySet
      <4>3. ReadMiss(w, r) = [i \in 1..0 |-> Load(Requested(r)[i])]
        BY <4>2 DEF ReadMiss
      <4>4. [i \in 1..0 |-> Load(Requested(r)[i])] = <<>>
        OBVIOUS
      <4> QED BY <3>1, <4>3, <4>4
    <3>2. CASE ~Hit(c2, q.block)
      <4>1. r \ Hits(w, r) = {q}
        BY <2>1, <2>6, <3>2
      <4>2. Cardinality(r \ Hits(w, r)) = 1
        BY <4>1, FS_Singleton
      <4>3. ReadMiss(w, r) = [i \in 1..1 |-> Load(Requested(r)[i])]
        BY <4>2 DEF ReadMiss
      <4>4. [i \in 1..1 |-> Load(Requested(r)[i])] = <<Load(Requested(r)[1])>>
        OBVIOUS
      <4> QED BY <2>2, <3>2, <4>3, <4>4
    <3> QED BY <3>1, <3>2
  <2>8. Load(q) \in Request
    BY RequestsAre
  <2> HIDE DEF c2
  <2> QED BY <1>1, <1>2, <1>4, <2>1, <2>2, <2>4, <2>5, <2>6, <2>7, <2>8 DEF Few, c2, m1
<1> QED BY <1>3, <1>4

-----------------------------------------------------------------------------
(* The requests after a clock edge. *)

\* Cancelling keeps the queue's length and its stores.
LEMMA CancelAllIs ==
  ASSUME NEW s \in Seq(Request), NEW x \in BOOLEAN
  PROVE  /\ CancelAll(x, s) \in Seq(Request) /\ Len(CancelAll(x, s)) = Len(s)
         /\ \A i \in 1..Len(s) : CancelAll(x, s)[i] = Cancelled(x, s[i])
<1>1. Len(s) \in Nat /\ DOMAIN s = 1..Len(s) /\ \A i \in 1..Len(s) : s[i] \in Request
  BY LenProperties, ElementOfSeq
<1>2. \A i \in 1..Len(s) : Cancelled(x, s[i]) \in Request
  BY <1>1, RequestsAre DEF Cancelled
<1> DEFINE c(i) == Cancelled(x, s[i])
<1>3. CancelAll(x, s) = [i \in 1..Len(s) |-> c(i)]
  BY <1>1 DEF CancelAll
<1> HIDE DEF c
<1>4. \A i \in 1..Len(s) : c(i) \in Request
  BY <1>2 DEF c
<1>5. /\ CancelAll(x, s) \in Seq(Request) /\ Len(CancelAll(x, s)) = Len(s)
      /\ \A i \in 1..Len(s) : CancelAll(x, s)[i] = c(i)
  BY <1>1, <1>3, <1>4
<1> QED BY <1>5 DEF c

\* A part is a queue.
LEMMA FewIs ==
  ASSUME NEW s, Few(s)
  PROVE  s \in Seq(Request) /\ Len(s) \in Nat /\ Len(s) <= 1
<1>1. CASE s = <<>>
  BY <1>1
<1>2. CASE \E e \in Request : s = <<e>>
  BY <1>2
<1> QED BY <1>1, <1>2 DEF Few

\* Where an entry of a queue t comes from that is s with three parts added.
Joins(t, s, abc, a, b, c) ==
  /\ abc \in Seq(Request) /\ Len(abc) <= 3
  /\ t \in Seq(Request) /\ Len(s) \in Nat /\ Len(t) \in Nat /\ Len(s) <= Len(t)
  /\ \A i \in 1..Len(t) :
       \/ i <= Len(s) /\ t[i] = s[i]
       \/ i > Len(s) /\ a # <<>> /\ t[i] = a[1]
       \/ i > Len(s) /\ b # <<>> /\ t[i] = b[1]
       \/ i > Len(s) /\ i = Len(t) /\ c # <<>> /\ t[i] = c[1]
  /\ \A m \in Memories : Drained(t, m) = All(All(All(Drained(s, m), a), b), c)

\* It does.
LEMMA Appended ==
  ASSUME NEW s \in Seq(Request), NEW a \in Seq(Request), NEW b \in Seq(Request), NEW c \in Seq(Request),
         Few(a), Few(b), Few(c)
  PROVE  Joins(s \o (a \o b \o c), s, a \o b \o c, a, b, c)
<1> DEFINE sa == s \o a
           sab == sa \o b
           ab == a \o b
           abc == ab \o c
           t == s \o abc
<1>1. /\ a \in Seq(Request) /\ b \in Seq(Request) /\ c \in Seq(Request)
      /\ Len(a) \in Nat /\ Len(b) \in Nat /\ Len(c) \in Nat
      /\ Len(a) <= 1 /\ Len(b) <= 1 /\ Len(c) <= 1
  BY FewIs
<1>2. /\ ab \in Seq(Request) /\ abc \in Seq(Request)
      /\ sa \in Seq(Request) /\ sab \in Seq(Request) /\ t \in Seq(Request)
  <2>1. ab \in Seq(Request) /\ sa \in Seq(Request)
    BY <1>1, ConcatProperties
  <2> HIDE DEF ab, sa
  <2>2. abc \in Seq(Request) /\ sab \in Seq(Request)
    BY <1>1, <2>1, ConcatProperties
  <2>3. t \in Seq(Request)
    BY <2>2, ConcatProperties
  <2> QED BY <2>1, <2>2, <2>3
<1>3. t = sab \o c
  OBVIOUS
<1>4. /\ Len(s) \in Nat /\ Len(sa) = Len(s) + Len(a) /\ Len(sab) = Len(sa) + Len(b)
      /\ Len(t) = Len(sab) + Len(c)
      /\ Len(ab) = Len(a) + Len(b) /\ Len(abc) = Len(ab) + Len(c)
  <2>1. Len(s) \in Nat /\ Len(sa) = Len(s) + Len(a) /\ Len(ab) = Len(a) + Len(b)
    BY <1>1, ConcatProperties, LenProperties
  <2> HIDE DEF sa, ab, t
  <2>2. Len(sab) = Len(sa) + Len(b) /\ Len(abc) = Len(ab) + Len(c)
    BY <1>1, <1>2, ConcatProperties
  <2> HIDE DEF sab, abc
  <2>3. Len(t) = Len(sab) + Len(c)
    BY <1>1, <1>2, <1>3, ConcatProperties
  <2> QED BY <2>1, <2>2, <2>3
<1>5. /\ \A i \in 1..(Len(sab) + Len(c)) : t[i] = IF i <= Len(sab) THEN sab[i] ELSE c[i - Len(sab)]
      /\ \A i \in 1..(Len(sa) + Len(b)) : sab[i] = IF i <= Len(sa) THEN sa[i] ELSE b[i - Len(sa)]
      /\ \A i \in 1..(Len(s) + Len(a)) : sa[i] = IF i <= Len(s) THEN s[i] ELSE a[i - Len(s)]
  BY <1>1, <1>2, <1>3, ConcatProperties
<1>6. \A m \in Memories : Drained(t, m) = All(All(All(Drained(s, m), a), b), c)
  <2> SUFFICES ASSUME NEW m \in Memories PROVE Drained(t, m) = All(All(All(Drained(s, m), a), b), c)
    OBVIOUS
  <2>1. Drained(sa, m) = All(Drained(s, m), a)
    BY DrainedFew
  <2> HIDE DEF sa, t
  <2>2. Drained(sab, m) = All(Drained(sa, m), b)
    BY <1>2, DrainedFew
  <2> HIDE DEF sab, abc
  <2>3. Drained(t, m) = All(Drained(sab, m), c)
    BY <1>2, <1>3, DrainedFew
  <2> QED BY <2>1, <2>2, <2>3
<1>7. (a = <<>> => Len(a) = 0) /\ (b = <<>> => Len(b) = 0) /\ (c = <<>> => Len(c) = 0)
  OBVIOUS
<1> HIDE DEF sa, sab, ab, abc, t
<1>10. /\ Len(s) \in Nat /\ Len(a) \in Nat /\ Len(b) \in Nat /\ Len(c) \in Nat
       /\ Len(a) <= 1 /\ Len(b) <= 1 /\ Len(c) <= 1
  BY <1>1, <1>4
<1>11. Len(sa) \in Nat /\ Len(s) <= Len(sa) /\ Len(sa) <= Len(s) + 1 /\ Len(ab) <= 2 /\ Len(ab) \in Nat
  BY <1>4, <1>10
<1>12. Len(sab) \in Nat /\ Len(sa) <= Len(sab) /\ Len(sab) <= Len(sa) + 1 /\ Len(abc) <= 3
  BY <1>4, <1>10, <1>11
<1>13. Len(t) \in Nat /\ Len(sab) <= Len(t) /\ Len(t) <= Len(sab) + 1
  BY <1>4, <1>10, <1>12
<1>8. ASSUME NEW i \in 1..Len(t)
      PROVE  \/ i <= Len(s) /\ t[i] = s[i]
             \/ i > Len(s) /\ a # <<>> /\ t[i] = a[1]
             \/ i > Len(s) /\ b # <<>> /\ t[i] = b[1]
             \/ i > Len(s) /\ i = Len(t) /\ c # <<>> /\ t[i] = c[1]
  <2>1. CASE i > Len(sab)
    <3>1. t[i] = c[i - Len(sab)] /\ i - Len(sab) = 1 /\ i = Len(t) /\ i > Len(s) /\ Len(c) # 0
      BY <1>4, <1>5, <1>10, <1>11, <1>12, <1>13, <2>1
    <3> QED BY <1>7, <3>1
  <2>2. CASE i <= Len(sab) /\ i > Len(sa)
    <3>1. t[i] = sab[i] /\ sab[i] = b[i - Len(sa)] /\ i - Len(sa) = 1 /\ i > Len(s) /\ Len(b) # 0
      BY <1>4, <1>5, <1>10, <1>11, <1>12, <1>13, <2>2
    <3> QED BY <1>7, <3>1
  <2>3. CASE i <= Len(sa) /\ i > Len(s)
    <3>1. t[i] = sab[i] /\ sab[i] = sa[i] /\ sa[i] = a[i - Len(s)] /\ i - Len(s) = 1 /\ Len(a) # 0
      BY <1>4, <1>5, <1>10, <1>11, <1>12, <1>13, <2>3
    <3> QED BY <1>7, <2>3, <3>1
  <2>4. CASE i <= Len(s)
    BY <1>4, <1>5, <1>10, <1>11, <1>12, <1>13, <2>4, SMTT(30)
  <2> QED BY <1>10, <1>11, <1>12, <1>13, <2>1, <2>2, <2>3, <2>4
<1>9. Len(abc) <= 3 /\ Len(t) \in Nat /\ Len(s) <= Len(t)
  BY <1>10, <1>11, <1>12, <1>13
<1>14. Joins(t, s, abc, a, b, c)
  BY <1>2, <1>4, <1>6, <1>8, <1>9 DEF Joins
<1> QED BY <1>14 DEF t, abc, ab

\* The requests that are left when memory has seen the oldest.
LEMMA LeftIs ==
  ASSUME RequestsOK, memory \in Memories
  PROVE  LET d == IF q1 = <<>> THEN 0 ELSE 1
         IN  /\ d \in 0..1 /\ Pending \in Seq(Request) /\ Left \in Seq(Request)
             /\ Len(Pending) \in Nat /\ Len(Left) \in Nat /\ Len(Left) + d = Len(Pending)
             /\ \A i \in 1..Len(Left) : Left[i] = Pending[i + d]
             /\ q1_head \in Request /\ Performed(memory, q1_head) \in Memories
             /\ d = 1 => Pending[1] = q1_head
             /\ d = 0 => q1_head = NoOp
             /\ Drained(Left, Performed(memory, q1_head)) = Written
<1>1. q1 \in Seq(Request) /\ new \in Seq(Request)
  BY DEF RequestsOK
<1>2. Pending \in Seq(Request) /\ Len(Pending) \in Nat
  BY <1>1, ConcatProperties, LenProperties DEF Pending
<1>3. Written = Drained(Pending, memory)
  BY DEF Written, Pending
<1>4. CASE q1 = <<>>
  <2>1. Left = Pending /\ q1_head = NoOp
    BY <1>4 DEF Left, Pending, q1_head
  <2>2. q1_head \in Request /\ Performed(memory, q1_head) = memory
    BY <2>1, RequestsAre DEF Performed, NoOp
  <2>3. \A i \in 1..Len(Pending) : i + 0 = i
    BY <1>2
  <2>4. Len(Pending) + 0 = Len(Pending)
    BY <1>2
  <2> QED BY <1>2, <1>3, <1>4, <2>1, <2>2, <2>3, <2>4
<1>5. CASE q1 # <<>>
  <2>1. /\ Tail(q1) \in Seq(Request) /\ Len(Tail(q1)) = Len(q1) - 1 /\ Len(q1) \in Nat /\ Len(q1) >= 1
        /\ q1_head = q1[1] /\ q1_head \in Request
        /\ \A i \in 1..Len(Tail(q1)) : Tail(q1)[i] = q1[i + 1]
    BY <1>1, <1>5, HeadTailProperties, LenProperties DEF q1_head
  <2>2. Left = Tail(q1) \o new
    BY <1>5 DEF Left
  <2>3. /\ Left \in Seq(Request) /\ Len(Left) = Len(Tail(q1)) + Len(new)
        /\ \A i \in 1..(Len(Tail(q1)) + Len(new)) :
             Left[i] = IF i <= Len(Tail(q1)) THEN Tail(q1)[i] ELSE new[i - Len(Tail(q1))]
    BY <1>1, <2>1, <2>2, ConcatProperties
  <2>4. /\ Len(Pending) = Len(q1) + Len(new)
        /\ \A i \in 1..(Len(q1) + Len(new)) : Pending[i] = IF i <= Len(q1) THEN q1[i] ELSE new[i - Len(q1)]
    BY <1>1, ConcatProperties DEF Pending
  <2>5. Len(new) \in Nat /\ Len(Tail(q1)) \in Nat
    BY <1>1, <2>1, LenProperties
  <2> DEFINE l == Len(q1)
             k == Len(new)
             t == Len(Tail(q1))
  <2>6. l \in Nat /\ k \in Nat /\ t \in Nat /\ l >= 1 /\ t = l - 1 /\ Len(Left) = t + k /\ Len(Pending) = l + k
    BY <2>1, <2>3, <2>4, <2>5
  <2>7. \A i \in 1..(t + k) : Left[i] = Pending[i + 1]
    <3> SUFFICES ASSUME NEW i \in 1..(t + k) PROVE Left[i] = Pending[i + 1]
      OBVIOUS
    <3>1. Left[i] = IF i <= t THEN Tail(q1)[i] ELSE new[i - t]
      BY <2>3
    <3>2. i \in 1..t => Tail(q1)[i] = q1[i + 1]
      BY <2>1
    <3> HIDE DEF l, k, t
    <3>3. i + 1 \in 1..(l + k) /\ (i <= t <=> i + 1 <= l) /\ i + 1 - l = i - t /\ (i <= t => i \in 1..t)
      BY <2>6
    <3>4. Pending[i + 1] = IF i + 1 <= l THEN q1[i + 1] ELSE new[i + 1 - l]
      BY <2>4, <3>3 DEF l, k
    <3>5. CASE i <= t
      BY <3>1, <3>2, <3>3, <3>4, <3>5
    <3>6. CASE ~(i <= t)
      <4>1. new[i - t] = new[i + 1 - l]
        BY <3>3
      <4> QED BY <3>1, <3>3, <3>4, <3>6, <4>1
    <3> QED BY <3>5, <3>6
  <2>8. Pending[1] = q1[1] /\ Pending # <<>>
    <3>1. 1 \in 1..(l + k) /\ 1 <= l /\ l + k # 0
      BY <2>6
    <3> QED BY <2>4, <3>1
  <2>9. /\ Tail(Pending) \in Seq(Request) /\ Len(Tail(Pending)) = Len(Pending) - 1 /\ Head(Pending) = Pending[1]
        /\ \A i \in 1..Len(Tail(Pending)) : Tail(Pending)[i] = Pending[i + 1]
    BY <1>2, <2>8, HeadTailProperties
  <2>10. Len(Tail(Pending)) = t + k /\ Len(Left) = t + k
    <3> HIDE DEF l, k, t
    <3> QED BY <2>6, <2>9
  <2> HIDE DEF l, k, t
  <2>11. Left = Tail(Pending)
    BY <2>3, <2>7, <2>9, <2>10, SeqEqual
  <2>12. Drained(Left, Performed(memory, q1_head)) = Written
    BY <1>2, <1>3, <2>1, <2>8, <2>9, <2>11, DrainedTail
  <2>13. Performed(memory, q1_head) \in Memories
    BY <2>1, PerformedIs
  <2>14. Len(Left) \in Nat /\ Len(Left) + 1 = Len(Pending)
    BY <2>6
  <2> QED BY <1>2, <1>5, <2>1, <2>3, <2>6, <2>7, <2>8, <2>12, <2>13, <2>14
<1> QED BY <1>4, <1>5

\* Where the requests after a clock edge come from.
LEMMA PendingNext ==
  ASSUME LAT < TAGS, TagsOK, RequestsOK, memory \in Memories,
         NEW w, NEW r, NEW fetch \in BOOLEAN, NEW except \in BOOLEAN, Clock(w, r, fetch, except),
         Few(Displaced(w, r, fetch)), Few(WriteMiss(w)), Few(ReadMiss(w, r))
  PROVE  LET d == IF q1 = <<>> THEN 0 ELSE 1
             a == Displaced(w, r, fetch)
             b == WriteMiss(w)
             c == ReadMiss(w, r)
         IN  /\ RequestsOK' /\ memory' = Performed(memory, q1_head) /\ memory' \in Memories
             /\ Len(Left) \in Nat /\ Len(Pending') \in Nat /\ Len(Left) <= Len(Pending')
             /\ Len(Left) + d = Len(Pending) /\ d \in 0..1
             /\ \A i \in 1..Len(Left) : Left[i] = Pending[i + d]
             /\ \A i \in 1..Len(Pending') :
                  \/ i <= Len(Left) /\ Pending'[i] = Cancelled(except, Left[i])
                  \/ i > Len(Left) /\ a # <<>> /\ Pending'[i] = Cancelled(except, a[1])
                  \/ i > Len(Left) /\ b # <<>> /\ Pending'[i] = Cancelled(except, b[1])
                  \/ i > Len(Left) /\ i = Len(Pending') /\ c # <<>> /\ Pending'[i] = Cancelled(except, c[1])
             /\ Written' = All(All(All(Written, a), b), c)
<1> DEFINE d == IF q1 = <<>> THEN 0 ELSE 1
           a == Displaced(w, r, fetch)
           b == WriteMiss(w)
           c == ReadMiss(w, r)
           asked == a \o b \o c
           all == Left \o asked
<1>1. /\ d \in 0..1 /\ Pending \in Seq(Request) /\ Left \in Seq(Request)
      /\ Len(Pending) \in Nat /\ Len(Left) \in Nat /\ Len(Left) + d = Len(Pending)
      /\ \A i \in 1..Len(Left) : Left[i] = Pending[i + d]
      /\ q1_head \in Request /\ Performed(memory, q1_head) \in Memories
      /\ d = 1 => Pending[1] = q1_head
      /\ d = 0 => q1_head = NoOp
      /\ Drained(Left, Performed(memory, q1_head)) = Written
  BY LeftIs
<1> HIDE DEF a, b, c, d
<1>2. a \in Seq(Request) /\ b \in Seq(Request) /\ c \in Seq(Request) /\ Few(a) /\ Few(b) /\ Few(c)
  BY FewIs DEF a, b, c
<1>15. Left \in Seq(Request)
  BY <1>1
<1>16. Joins(all, Left, asked, a, b, c)
  BY <1>2, <1>15, Appended
<1>17. asked = a \o b \o c /\ all = Left \o asked
  OBVIOUS
<1> HIDE DEF asked, all
<1>3. /\ asked \in Seq(Request) /\ Len(asked) <= 3
      /\ all \in Seq(Request) /\ Len(Left) \in Nat /\ Len(all) \in Nat /\ Len(Left) <= Len(all)
      /\ \A i \in 1..Len(all) :
           \/ i <= Len(Left) /\ all[i] = Left[i]
           \/ i > Len(Left) /\ a # <<>> /\ all[i] = a[1]
           \/ i > Len(Left) /\ b # <<>> /\ all[i] = b[1]
           \/ i > Len(Left) /\ i = Len(all) /\ c # <<>> /\ all[i] = c[1]
      /\ \A m \in Memories : Drained(all, m) = All(All(All(Drained(Left, m), a), b), c)
  BY <1>16 DEF Joins
<1>4. Asked(w, r, fetch) = asked
  BY <1>17 DEF Asked, a, b, c
<1>5. new' = CancelAll(except, asked) /\ q1' = CancelAll(except, Left)
  BY <1>4, ClockQueues
<1>6. memory' = Performed(memory, q1_head)
  <2>1. memory' = IF Response(fetch) = 0 THEN memory ELSE Performed(memory, q1_head)
    BY ClockQueues
  <2>2. CASE q1_head.cmd = "none"
    <3>1. Performed(memory, q1_head) = memory
      BY <2>2 DEF Performed
    <3> QED BY <2>1, <3>1
  <2>3. CASE q1_head.cmd # "none"
    <3>1. Command(fetch) # "none"
      BY <2>3 DEF Command
    <3>2. Response(fetch) \in 1..TAGS
      BY <3>1, TagsAre DEF Response
    <3>3. Response(fetch) # 0
      BY <3>2, Sizes
    <3> QED BY <2>1, <3>3
  <2> QED BY <2>2, <2>3
<1>7. /\ CancelAll(except, asked) \in Seq(Request) /\ Len(CancelAll(except, asked)) = Len(asked)
      /\ \A i \in 1..Len(asked) : CancelAll(except, asked)[i] = Cancelled(except, asked[i])
  BY <1>3, CancelAllIs
<1>8. /\ CancelAll(except, Left) \in Seq(Request) /\ Len(CancelAll(except, Left)) = Len(Left)
      /\ \A i \in 1..Len(Left) : CancelAll(except, Left)[i] = Cancelled(except, Left[i])
  BY <1>1, CancelAllIs
<1>9. RequestsOK'
  <2>1. Len(asked) <= 3
    BY <1>3
  <2> QED BY <1>5, <1>7, <1>8, <2>1 DEF RequestsOK
<1>10. Pending' = q1' \o new'
  BY DEF Pending
<1>12. /\ Len(Pending') = Len(all) /\ Pending' \in Seq(Request)
       /\ \A i \in 1..Len(all) : Pending'[i] = Cancelled(except, all[i])
  <2> DEFINE s == CancelAll(except, Left)
             t == CancelAll(except, asked)
  <2>1. /\ s \in Seq(Request) /\ t \in Seq(Request) /\ asked \in Seq(Request)
        /\ Len(s) = Len(Left) /\ Len(t) = Len(asked)
        /\ \A i \in 1..Len(Left) : s[i] = Cancelled(except, Left[i])
        /\ \A i \in 1..Len(asked) : t[i] = Cancelled(except, asked[i])
    BY <1>3, <1>7, <1>8
  <2>2. Pending' = s \o t
    BY <1>5, <1>10
  <2> HIDE DEF s, t
  <2>3. /\ Pending' \in Seq(Request) /\ Len(Pending') = Len(s) + Len(t)
        /\ \A i \in 1..(Len(s) + Len(t)) : Pending'[i] = IF i <= Len(s) THEN s[i] ELSE t[i - Len(s)]
    BY <2>1, <2>2, ConcatProperties
  <2>4. /\ Len(all) = Len(Left) + Len(asked) /\ Len(asked) \in Nat
        /\ \A i \in 1..(Len(Left) + Len(asked)) : all[i] = IF i <= Len(Left) THEN Left[i] ELSE asked[i - Len(Left)]
    BY <1>1, <1>17, <2>1, ConcatProperties, LenProperties
  <2> DEFINE m == Len(Left)
             n == Len(asked)
  <2>5. /\ m \in Nat /\ n \in Nat /\ Len(s) = m /\ Len(t) = n /\ Len(all) = m + n
        /\ \A i \in 1..(m + n) : all[i] = IF i <= m THEN Left[i] ELSE asked[i - m]
        /\ \A i \in 1..(m + n) : Pending'[i] = IF i <= m THEN s[i] ELSE t[i - m]
        /\ Len(Pending') = m + n
        /\ \A i \in 1..m : s[i] = Cancelled(except, Left[i])
        /\ \A i \in 1..n : t[i] = Cancelled(except, asked[i])
    BY <1>1, <2>1, <2>3, <2>4
  <2> HIDE DEF m, n
  <2>6. ASSUME NEW i \in 1..(m + n) PROVE Pending'[i] = Cancelled(except, all[i])
    <3>1. CASE i <= m
      <4>1. i \in 1..m
        BY <2>5, <3>1
      <4> QED BY <2>5, <3>1, <4>1
    <3>2. CASE ~(i <= m)
      <4>1. i - m \in 1..n
        BY <2>5, <3>2
      <4> QED BY <2>5, <3>2, <4>1
    <3> QED BY <3>1, <3>2
  <2> QED BY <2>3, <2>5, <2>6
<1>13. Written' = All(All(All(Written, a), b), c)
  <2>1. Written' = Drained(Pending', memory')
    BY DEF Written, Pending
  <2>2. memory' \in Memories
    BY <1>1, <1>6
  <2>3. Drained(Pending', memory') = Drained(all, memory')
    <3> DEFINE p == Pending'
               m == memory'
    <3>1. /\ p \in Seq(Request) /\ Len(p) = Len(all) /\ m \in Memories /\ all \in Seq(Request)
          /\ \A i \in 1..Len(all) : p[i] = Cancelled(except, all[i])
      BY <1>3, <1>12, <2>2
    <3> HIDE DEF p, m
    <3>2. Drained(p, m) = Drained(all, m)
      BY <3>1, DrainedCancelled
    <3> QED BY <3>2 DEF p, m
  <2>4. Drained(all, memory') = All(All(All(Drained(Left, memory'), a), b), c)
    BY <1>3, <2>2
  <2>5. Drained(Left, memory') = Written
    BY <1>1, <1>6
  <2> QED BY <2>1, <2>3, <2>4, <2>5
<1>14. ASSUME NEW i \in 1..Len(Pending')
       PROVE  \/ i <= Len(Left) /\ Pending'[i] = Cancelled(except, Left[i])
              \/ i > Len(Left) /\ a # <<>> /\ Pending'[i] = Cancelled(except, a[1])
              \/ i > Len(Left) /\ b # <<>> /\ Pending'[i] = Cancelled(except, b[1])
              \/ i > Len(Left) /\ i = Len(Pending') /\ c # <<>> /\ Pending'[i] = Cancelled(except, c[1])
  <2>1. i \in 1..Len(all) /\ Len(Pending') = Len(all) /\ Pending'[i] = Cancelled(except, all[i])
    BY <1>12, <1>14
  <2>2. \/ i <= Len(Left) /\ all[i] = Left[i]
        \/ i > Len(Left) /\ a # <<>> /\ all[i] = a[1]
        \/ i > Len(Left) /\ b # <<>> /\ all[i] = b[1]
        \/ i > Len(Left) /\ i = Len(all) /\ c # <<>> /\ all[i] = c[1]
    BY <1>3, <2>1
  <2> QED BY <2>1, <2>2
<1>18. Len(Left) \in Nat /\ Len(Pending') \in Nat /\ Len(Left) <= Len(Pending')
  BY <1>3, <1>12
<1> QED BY <1>1, <1>6, <1>9, <1>13, <1>14, <1>18 DEF a, b, c, d

-----------------------------------------------------------------------------
(* The cache after a clock edge. *)

\* A read that is over comes with the contents its block has.
LEMMA FilledIs ==
  ASSUME LAT < TAGS, IInv, NEW fetch \in BOOLEAN, Filling(fetch)
  PROVE  /\ q2 # <<>> /\ 1 \in 1..Len(q2) /\ q2[1] \in Q2Entry /\ q2[1].is_rd
         /\ Tag(fetch) = q2[1].mem_tag /\ Tag(fetch) \in 1..TAGS /\ tags[q2[1].mem_tag].cycles_left = 1
         /\ q2[1].read \in live /\ q2[1].read \in Read /\ q2[1].read.block \in Blocks
         /\ Filled(fetch) = Written[q2[1].read.block]
<1>1. q2 # <<>> /\ q2[1].mem_tag = Tag(fetch) /\ q2[1].is_rd
  BY DEF Filling, q2_head_mem_response
<1>2. q2 \in Seq(Q2Entry) /\ TagsOK
  BY DEF IInv, Q2OK
<1>3. 1 \in 1..Len(q2) /\ q2[1] \in Q2Entry
  BY <1>1, <1>2
<1>4. q2[1].mem_tag \in 1..TAGS /\ q2[1].read \in Read
  BY <1>3 DEF Q2Entry
<1>5. Tag(fetch) # 0
  BY <1>1, <1>4, Sizes
<1>6. Filled(fetch) = tags[q2[1].mem_tag].loaded_data
  BY <1>1, <1>5 DEF Filled, mem2proc_data
<1>7. q2[1].read \in live /\ tags[q2[1].mem_tag].loaded_data = Written[q2[1].read.block]
  BY <1>1, <1>3 DEF IInv, ReadsOK, OrderOK
<1>8. tags[q2[1].mem_tag].cycles_left = 1
  BY <1>1, <1>2, <1>4, TagsAre DEF Tag, Response
<1>9. q2[1].read.block \in Blocks
  BY <1>4 DEF Read
<1> QED BY <1>1, <1>3, <1>4, <1>6, <1>7, <1>8, <1>9

\* Two stores to different blocks can be performed in either order.
LEMMA StoresCommute ==
  ASSUME NEW m \in Memories, NEW e \in Request, NEW f \in Request,
         e.cmd = "store", f.cmd = "store", e.block # f.block
  PROVE  Performed(Performed(m, e), f) = Performed(Performed(m, f), e)
<1> DEFINE me == Performed(m, e)
           mf == Performed(m, f)
           mef == Performed(me, f)
           mfe == Performed(mf, e)
<1>1. me \in Memories /\ mf \in Memories
  BY PerformedIs
<1>2. /\ \A b \in Blocks, u \in Units : me[b][u] = IF Covers(e, b, u) THEN e.data[u] ELSE m[b][u]
      /\ \A b \in Blocks, u \in Units : mf[b][u] = IF Covers(f, b, u) THEN f.data[u] ELSE m[b][u]
  BY PerformedIs
<1> HIDE DEF me, mf
<1>3. mef \in Memories /\ mfe \in Memories
  BY <1>1, PerformedIs
<1>4. /\ \A b \in Blocks, u \in Units : mef[b][u] = IF Covers(f, b, u) THEN f.data[u] ELSE me[b][u]
      /\ \A b \in Blocks, u \in Units : mfe[b][u] = IF Covers(e, b, u) THEN e.data[u] ELSE mf[b][u]
  BY <1>1, PerformedIs
<1>5. \A b \in Blocks, u \in Units : ~(Covers(e, b, u) /\ Covers(f, b, u))
  BY DEF Covers
<1> HIDE DEF mef, mfe
<1>6. \A b \in Blocks, u \in Units : mef[b][u] = mfe[b][u]
  BY <1>2, <1>4, <1>5
<1>7. mef = mfe
  BY <1>3, <1>6, SameMemory
<1> QED BY <1>7 DEF mef, mfe, me, mf

\* The cache and memory behind it, and what the queues above see of them.
LEMMA CacheNext ==
  ASSUME LAT < TAGS, IInv, NEW w, NEW r, NEW fetch, NEW except, Step(w, r, fetch, except)
  PROVE  /\ Few(Displaced(w, r, fetch)) /\ Few(WriteMiss(w)) /\ Few(ReadMiss(w, r))
         /\ Displaced(w, r, fetch) # <<>> =>
              \E v \in CopiesOf(ReadStage(w, r)) :
                /\ v.block \in Blocks /\ v.dirty /\ v.data \in [Units -> Value]
                /\ Displaced(w, r, fetch) = <<Store(v.block, v.data)>>
         /\ RequestsOK' /\ Written' \in Memories /\ CacheOK(cache', Written')
         /\ w = {} => Flat' = Flat
         /\ \A x \in w : x \in Request /\ Flat' = Performed(Flat, x)
         /\ \A l \in CopiesOf(cache') : l.dirty /\ Valid(l) => l \in CopiesOf(ReadStage(w, r))
         /\ \A b \in Blocks : /\ \A x \in w : x.block # b
                              /\ \A l \in CopiesOf(ReadStage(w, r)) : l.block = b => ~l.dirty
                              => Written'[b] = Written[b]
<1> DEFINE c2 == ReadStage(w, r)
           D == Displaced(w, r, fetch)
           W == WriteMiss(w)
           R == ReadMiss(w, r)
           m1 == All(Written, W)
           m3 == All(m1, D)
           b == q2[1].read.block
<1>1. /\ w \in Writes /\ r \in Reads /\ fetch \in BOOLEAN /\ except \in BOOLEAN
      /\ \A x \in w, q \in r : x.block # q.block
      /\ Clock(w, r, fetch, except)
      /\ MemoryOK /\ RequestsOK /\ TagsOK /\ memory \in Memories
  BY DEF Step, IInv, MemoryOK
<1>2. /\ Written \in Memories /\ Few(W) /\ m1 \in Memories /\ CacheOK(c2, m1)
      /\ w = {} => W = <<>> /\ View(c2, m1) = View(cache, Written)
      /\ \A x \in w : x \in Request /\ View(c2, m1) = Performed(View(cache, Written), x)
      /\ W # <<>> => \E x \in w : W = <<x>> /\ \A l \in CopiesOf(c2) : l.block # x.block
      /\ Few(R)
  BY <1>1, StagesAre
<1>3. \A q \in live : \A x \in w : x.cmd = "store" /\ x.block # q.block
  <2> SUFFICES ASSUME NEW q \in live, NEW x \in w PROVE x.cmd = "store" /\ x.block # q.block
    OBVIOUS
  <2>1. PICK k \in Blocks, u \in Units : \E d \in [{u} -> Value] :
          /\ w = {Store(k, d)} /\ Requested(w) = <<Store(k, d)>>
          /\ d = [y \in {u} |-> <<k, used.writes + 2>>]
          /\ used.writes < MaxWrites /\ \A p \in live : p.block # k
    BY <1>1, WritesAre
  <2>2. PICK d \in [{u} -> Value] : w = {Store(k, d)} /\ \A p \in live : p.block # k
    BY <2>1
  <2>3. x = Store(k, d)
    BY <2>2
  <2> QED BY <2>2, <2>3 DEF Store
<1>4. R = <<>> \/ \E q : R = <<Load(q)>>
  BY <1>1, StagesAre
<1> HIDE DEF c2, W, R, m1
<1>5. ASSUME Filling(fetch) PROVE b \in Blocks /\ Filled(fetch) = m1[b]
  <2>1. b \in Blocks /\ Filled(fetch) = Written[b] /\ q2[1].read \in live
    BY <1>5, FilledIs DEF Step
  <2>2. CASE W = <<>>
    BY <2>1, <2>2 DEF m1, All
  <2>3. CASE W # <<>>
    <3>1. PICK x \in w : W = <<x>>
      BY <1>2, <2>3
    <3>2. m1 = Performed(Written, x) /\ x \in Request /\ x.block # b
      BY <1>2, <1>3, <2>1, <2>3, <3>1 DEF m1, All
    <3>3. m1[b] = Written[b]
      BY <3>2, <2>1 DEF Performed
    <3> QED BY <2>1, <3>3
  <2> QED BY <2>2, <2>3
<1>6. /\ D = <<>> \/ \E v \in CopiesOf(c2) : /\ v.block \in Blocks /\ v.dirty /\ v.data \in [Units -> Value]
                                             /\ D = <<Store(v.block, v.data)>>
      /\ m3 \in Memories /\ CacheOK(cache', m3) /\ View(cache', m3) = View(c2, m1)
      /\ \A l \in CopiesOf(cache') : l.dirty /\ Valid(l) => l \in CopiesOf(c2)
  <2>1. CASE ~Filling(fetch)
    <3>1. D = <<>> /\ cache' = c2
      BY <1>1, <2>1, ClockCache DEF Displaced, c2
    <3>2. m3 = m1
      BY <3>1 DEF All
    <3> QED BY <1>2, <3>1, <3>2
  <2>2. CASE Filling(fetch)
    <3>1. cache' = AfterFill(c2, b, Filled(fetch)) /\ D = WriteBack(c2, b)
      BY <1>1, <2>2, ClockCache DEF Displaced, c2
    <3>2. b \in Blocks /\ Filled(fetch) = m1[b]
      BY <1>5, <2>2
    <3>3. m3 = IF D = <<>> THEN m1 ELSE Performed(m1, D[1])
      BY DEF All
    <3> HIDE DEF D, m3, b
    <3>4. LET c3 == AfterFill(c2, b, Filled(fetch))
              wb == WriteBack(c2, b)
              n3 == IF wb = <<>> THEN m1 ELSE Performed(m1, wb[1])
          IN  /\ \/ wb = <<>>
                 \/ \E v \in CopiesOf(c2) : /\ v.block \in Blocks /\ v.dirty /\ v.data \in [Units -> Value]
                                           /\ wb = <<Store(v.block, v.data)>>
              /\ n3 \in Memories /\ CacheOK(c3, n3) /\ View(c3, n3) = View(c2, m1)
              /\ \A l \in CopiesOf(c3) : l.dirty /\ Valid(l) => l \in CopiesOf(c2)
      BY <1>2, <3>2, AfterFillView
    <3> QED BY <3>1, <3>3, <3>4
  <2> QED BY <2>1, <2>2
<1> HIDE DEF D
<1>7. Few(D)
  <2>1. CASE D = <<>>
    BY <2>1 DEF Few
  <2>2. CASE D # <<>>
    <3>1. PICK v \in CopiesOf(c2) : v.block \in Blocks /\ v.data \in [Units -> Value] /\ D = <<Store(v.block, v.data)>>
      BY <1>6, <2>2
    <3>2. Store(v.block, v.data) \in Request
      BY <3>1, RequestsAre
    <3> QED BY <3>1, <3>2 DEF Few
  <2> QED BY <2>1, <2>2
<1>8. RequestsOK' /\ Written' = All(All(All(Written, D), W), R)
  BY <1>1, <1>2, <1>7, PendingNext DEF D, W, R
<1>9. All(All(Written, D), W) = m3
  <2>1. CASE D = <<>> \/ W = <<>>
    BY <2>1 DEF m1, All
  <2>2. CASE D # <<>> /\ W # <<>>
    <3>1. PICK v \in CopiesOf(c2) : v.block \in Blocks /\ v.data \in [Units -> Value] /\ D = <<Store(v.block, v.data)>>
      BY <1>6, <2>2
    <3>2. PICK x \in w : W = <<x>> /\ \A l \in CopiesOf(c2) : l.block # x.block
      BY <1>2, <2>2
    <3> DEFINE e == Store(v.block, v.data)
    <3>3. e \in Request /\ e.cmd = "store" /\ e.block = v.block
      BY <3>1, RequestsAre
    <3>4. x \in Request /\ x.cmd = "store"
      <4>1. x \in Request
        BY <1>2
      <4>2. PICK k \in Blocks, u \in Units : \E d \in [{u} -> Value] :
              /\ w = {Store(k, d)} /\ Requested(w) = <<Store(k, d)>>
              /\ d = [y \in {u} |-> <<k, used.writes + 2>>]
              /\ used.writes < MaxWrites /\ \A p \in live : p.block # k
        BY <1>1, WritesAre
      <4>3. PICK d : x = Store(k, d)
        BY <4>2
      <4> QED BY <4>1, <4>3 DEF Store
    <3>5. e.block # x.block
      BY <3>1, <3>2, <3>3
    <3>6. D = <<e>>
      BY <3>1
    <3> HIDE DEF e
    <3>7. Performed(Performed(Written, e), x) = Performed(Performed(Written, x), e)
      BY <1>2, <3>3, <3>4, <3>5, StoresCommute
    <3>8. All(All(Written, D), W) = Performed(Performed(Written, e), x)
      BY <3>2, <3>6 DEF All
    <3>9. m3 = Performed(Performed(Written, x), e)
      BY <3>2, <3>6 DEF All, m1
    <3> QED BY <3>7, <3>8, <3>9
  <2> QED BY <2>1, <2>2
<1>10. Written' = m3
  <2>1. All(m3, R) = m3
    BY <1>4 DEF All, Performed, Load
  <2> QED BY <1>8, <1>9, <2>1
<1>11. Flat = View(cache, Written) /\ Flat' = View(cache', Written')
  BY DEF Flat, View, Copies, CopiesOf
<1> HIDE DEF m3
<1>12. w = {} => Flat' = Flat
  BY <1>2, <1>6, <1>10, <1>11
<1>13. \A x \in w : x \in Request /\ Flat' = Performed(Flat, x)
  BY <1>2, <1>6, <1>10, <1>11
<1>14. ASSUME NEW k \in Blocks, \A x \in w : x.block # k, \A l \in CopiesOf(c2) : l.block = k => ~l.dirty
       PROVE  Written'[k] = Written[k]
  <2>1. m1[k] = Written[k]
    <3>1. CASE W = <<>>
      BY <3>1 DEF m1, All
    <3>2. CASE W # <<>>
      <4>1. PICK x \in w : W = <<x>>
        BY <1>2, <3>2
      <4>2. m1 = Performed(Written, x) /\ x.block # k
        BY <1>14, <3>2, <4>1 DEF m1, All
      <4> QED BY <4>2 DEF Performed
    <3> QED BY <3>1, <3>2
  <2>2. m3[k] = m1[k]
    <3>1. CASE D = <<>>
      BY <3>1 DEF m3, All
    <3>2. CASE D # <<>>
      <4>1. PICK v \in CopiesOf(c2) : v.block \in Blocks /\ v.dirty /\ D = <<Store(v.block, v.data)>>
        BY <1>6, <3>2
      <4>2. v.block # k
        BY <1>14, <4>1
      <4>3. m3 = Performed(m1, Store(v.block, v.data))
        BY <3>2, <4>1 DEF m3, All
      <4>4. Store(v.block, v.data).block = v.block
        BY DEF Store
      <4> QED BY <4>2, <4>3, <4>4 DEF Performed
    <3> QED BY <3>1, <3>2
  <2> QED BY <1>10, <2>1, <2>2
<1> QED BY <1>2, <1>6, <1>7, <1>8, <1>10, <1>12, <1>13, <1>14 DEF D, W, R, c2

-----------------------------------------------------------------------------
(* The reads that memory has taken, after a clock edge. *)

\* How many of them are over.
Over(tag) == IF q2_head_clr(tag) THEN 1 ELSE 0

\* The entries of the next q2, q: what is left of q2 without its first e
\* entries, n of them, and the read that memory takes.
Follows(q, e, n, response, except) ==
  /\ q \in Seq(Q2Entry) /\ Len(q) \in Nat /\ n \in Nat /\ e \in 0..1
  /\ n <= Len(q) /\ Len(q) <= n + 1 /\ e <= Len(q2)
  /\ \A i \in 1..n : /\ i + e \in 1..Len(q2)
                     /\ q[i].read = q2[i + e].read /\ q[i].mem_tag = q2[i + e].mem_tag
                     /\ (q[i].is_rd <=> q2[i + e].is_rd /\ ~except)
  /\ Len(q) = n + 1 => /\ q1_head.cmd = "load"
                       /\ q[n + 1].read = q1_head.read /\ q[n + 1].mem_tag = response
                       /\ (q[n + 1].is_rd <=> ~except)

\* They are.
LEMMA Q2NextIs ==
  ASSUME q2 \in Seq(Q2Entry), q1_head \in Request, NEW tag, NEW response, NEW except \in BOOLEAN,
         q1_head.cmd = "load" => response \in 1..TAGS
  PROVE  Follows(q2_next(tag, response, except), Over(tag), Len(q2) - Over(tag), response, except)
<1> DEFINE q == q2_next(tag, response, except)
           e == Over(tag)
           n == Len(q2) - e
           kept == IF q2_head_clr(tag) THEN Tail(q2) ELSE q2
           taken == IF q1_head.cmd = "load"
                    THEN <<[read |-> q1_head.read, mem_tag |-> response, is_rd |-> TRUE]>> ELSE <<>>
           all == kept \o taken
<1>1. /\ Len(q2) \in Nat /\ e \in 0..1 /\ e <= Len(q2)
      /\ kept \in Seq(Q2Entry) /\ Len(kept) = n /\ n \in Nat
      /\ \A i \in 1..n : i + e \in 1..Len(q2) /\ kept[i] = q2[i + e]
  <2>1. CASE q2_head_clr(tag)
    <3>1. e = 1 /\ kept = Tail(q2) /\ q2 # <<>>
      BY <2>1 DEF Over, q2_head_clr
    <3>2. /\ Tail(q2) \in Seq(Q2Entry) /\ Len(Tail(q2)) = Len(q2) - 1 /\ Len(q2) \in Nat /\ Len(q2) >= 1
          /\ \A i \in 1..Len(Tail(q2)) : Tail(q2)[i] = q2[i + 1]
      BY <3>1, HeadTailProperties, LenProperties, EmptySeq
    <3>3. Len(q2) - 1 \in Nat /\ \A i \in 1..(Len(q2) - 1) : i + 1 \in 1..Len(q2)
      BY <3>2
    <3> HIDE DEF kept, e
    <3> QED BY <3>1, <3>2, <3>3
  <2>2. CASE ~q2_head_clr(tag)
    <3>1. e = 0 /\ kept = q2 /\ Len(q2) \in Nat
      BY <2>2, LenProperties DEF Over
    <3> HIDE DEF kept, e
    <3>2. n = Len(q2) /\ 0 <= Len(q2) /\ \A i \in 1..n : i + 0 = i
      BY <3>1
    <3> QED BY <3>1, <3>2
  <2> QED BY <2>1, <2>2
<1>2. /\ taken \in Seq(Q2Entry) /\ Len(taken) \in Nat /\ Len(taken) <= 1
      /\ Len(taken) = 1 => /\ q1_head.cmd = "load" /\ taken[1].read = q1_head.read
                           /\ taken[1].mem_tag = response /\ taken[1].is_rd
  <2>1. CASE q1_head.cmd = "load"
    <3>1. q1_head.read \in Read /\ response \in 1..TAGS
      BY <2>1, RequestIs
    <3> DEFINE t == [read |-> q1_head.read, mem_tag |-> response, is_rd |-> TRUE]
    <3>2. t \in Q2Entry /\ t.read = q1_head.read /\ t.mem_tag = response /\ t.is_rd
      BY <3>1 DEF Q2Entry
    <3>3. taken = <<t>>
      BY <2>1
    <3> HIDE DEF t, taken
    <3>4. <<t>> \in Seq(Q2Entry) /\ Len(<<t>>) = 1 /\ <<t>>[1] = t
      BY <3>2
    <3> QED BY <2>1, <3>2, <3>3, <3>4
  <2>2. CASE q1_head.cmd # "load"
    <3>1. taken = <<>>
      BY <2>2
    <3> HIDE DEF taken
    <3> QED BY <3>1, EmptySeq
  <2> QED BY <2>1, <2>2
<1>3. q = [i \in DOMAIN all |-> [all[i] EXCEPT !.is_rd = @ /\ ~except]]
  BY DEF q2_next
<1>4. all = kept \o taken
  OBVIOUS
<1> HIDE DEF q, kept, taken, all, e
<1>5. /\ all \in Seq(Q2Entry) /\ Len(all) = n + Len(taken)
      /\ \A i \in 1..(n + Len(taken)) : all[i] = IF i <= n THEN kept[i] ELSE taken[i - n]
  BY <1>1, <1>2, <1>4, ConcatProperties
<1> DEFINE N == Len(all)
<1>6. N \in Nat /\ DOMAIN all = 1..N /\ \A i \in 1..N : all[i] \in Q2Entry
  BY <1>5, LenProperties, ElementOfSeq
<1> DEFINE B(i) == all[i].is_rd /\ ~except
           G(i) == [all[i] EXCEPT !.is_rd = B(i)]
<1>7. q = [i \in 1..N |-> G(i)]
  BY <1>3, <1>6
<1> HIDE DEF B
<1>8. ASSUME NEW i \in 1..N
      PROVE  /\ G(i) \in Q2Entry /\ G(i).read = all[i].read /\ G(i).mem_tag = all[i].mem_tag
             /\ G(i).is_rd = B(i)
  <2>1. B(i) \in BOOLEAN
    BY DEF B
  <2>2. all[i] \in Q2Entry
    BY <1>6
  <2> QED BY <2>1, <2>2 DEF Q2Entry
<1> HIDE DEF G, N
<1>9. /\ q \in Seq(Q2Entry) /\ Len(q) = N
      /\ \A i \in 1..N : q[i] = G(i)
  BY <1>6, <1>7, <1>8
<1>10. \A i \in 1..N : /\ q[i].read = all[i].read /\ q[i].mem_tag = all[i].mem_tag
                       /\ (q[i].is_rd <=> all[i].is_rd /\ ~except)
  BY <1>8, <1>9 DEF B
<1> DEFINE t == Len(taken)
<1>11. n \in Nat /\ t \in Nat /\ t <= 1 /\ N = n + t
  BY <1>1, <1>2, <1>5 DEF N
<1>12. \A i \in 1..(n + t) : all[i] = IF i <= n THEN kept[i] ELSE taken[i - n]
  BY <1>5
<1> HIDE DEF n, t
<1>13. n <= N /\ N <= n + 1
  BY <1>11
<1>14. ASSUME NEW i \in 1..n
       PROVE  /\ i + e \in 1..Len(q2)
              /\ q[i].read = q2[i + e].read /\ q[i].mem_tag = q2[i + e].mem_tag
              /\ (q[i].is_rd <=> q2[i + e].is_rd /\ ~except)
  <2>1. i \in 1..(n + t) /\ i \in 1..N /\ i <= n
    BY <1>11
  <2>2. all[i] = kept[i] /\ kept[i] = q2[i + e] /\ i + e \in 1..Len(q2)
    BY <1>1, <1>12, <2>1 DEF n
  <2> QED BY <1>10, <2>1, <2>2
<1>15. ASSUME N = n + 1
       PROVE  /\ q1_head.cmd = "load" /\ q[n + 1].read = q1_head.read /\ q[n + 1].mem_tag = response
              /\ (q[n + 1].is_rd <=> ~except)
  <2>1. t = 1 /\ n + 1 \in 1..(n + t) /\ n + 1 \in 1..N /\ ~(n + 1 <= n) /\ n + 1 - n = 1
    BY <1>11, <1>15
  <2>2. all[n + 1] = taken[1]
    <3> DEFINE i == n + 1
    <3>1. i \in 1..(n + t) /\ ~(i <= n) /\ i - n = 1
      BY <1>11, <2>1
    <3> HIDE DEF i
    <3>2. all[i] = taken[i - n]
      BY <1>12, <3>1
    <3>3. all[i] = taken[1]
      BY <3>1, <3>2
    <3> QED BY <3>3 DEF i
  <2> QED BY <1>2, <1>10, <2>1, <2>2 DEF t
<1>16. Follows(q, e, n, response, except)
  <2>1. n \in Nat /\ e \in 0..1 /\ e <= Len(q2)
    BY <1>1, <1>11
  <2>2. q \in Seq(Q2Entry) /\ Len(q) = N /\ N \in Nat
    BY <1>6, <1>9
  <2> HIDE DEF N
  <2> QED BY <1>13, <1>14, <1>15, <2>1, <2>2 DEF Follows
<1> QED BY <1>16 DEF q, e, n

\* Reads that memory has taken after a clock edge, and what they will bring.
LEMMA Q2Next ==
  ASSUME LAT < TAGS, IInv, NEW w, NEW r, NEW fetch, NEW except, Step(w, r, fetch, except)
  PROVE  LET e == Over(Tag(fetch))
             n == Len(q2) - e
         IN  /\ TagsOK' /\ Q2OK' /\ Len(q2') \in Nat /\ n \in Nat /\ e \in 0..1
             /\ n <= Len(q2') /\ Len(q2') <= n + 1 /\ e <= Len(q2)
             /\ \A i \in 1..n : /\ i + e \in 1..Len(q2)
                                /\ q2'[i].read = q2[i + e].read
                                /\ (q2'[i].is_rd <=> q2[i + e].is_rd /\ ~except)
                                /\ tags'[q2'[i].mem_tag].loaded_data = tags[q2[i + e].mem_tag].loaded_data
                                /\ tags'[q2'[i].mem_tag].cycles_left = tags[q2[i + e].mem_tag].cycles_left - 1
             /\ Len(q2') = n + 1 => /\ q1_head.cmd = "load"
                                    /\ q2'[n + 1].read = q1_head.read
                                    /\ (q2'[n + 1].is_rd <=> ~except)
                                    /\ tags'[q2'[n + 1].mem_tag].loaded_data = memory[q1_head.read.block]
                                    /\ tags'[q2'[n + 1].mem_tag].cycles_left = LAT
             /\ e = 1 => Len(q2) >= 1 /\ (q2[1].is_rd => Filling(fetch))
             /\ Filling(fetch) => e = 1 /\ q2[1].is_rd
<1> DEFINE tag == Tag(fetch)
           response == Response(fetch)
           e == Over(tag)
           n == Len(q2) - e
           isLoad == Command(fetch) = "load"
           loaded == IF q1_head.cmd = "load" THEN memory[q1_head.read.block] ELSE Garbage
           q == q2_next(tag, response, except)
<1>1. /\ TagsOK /\ q2 \in Seq(Q2Entry) /\ RequestsOK /\ memory \in Memories
      /\ Clock(w, r, fetch, except) /\ except \in BOOLEAN
      /\ \A k \in 1..Len(q2) : tags[q2[k].mem_tag].waiting_for_bus
      /\ \A j, k \in 1..Len(q2) : j < k => tags[q2[j].mem_tag].cycles_left < tags[q2[k].mem_tag].cycles_left
  BY DEF Step, IInv, Q2OK, MemoryOK
<1>2. q1_head \in Request
  BY <1>1, LeftIs
<1>3. /\ Command(fetch) = "none" => response = 0
      /\ Command(fetch) # "none" => /\ response \in 1..TAGS
                                    /\ tags[response].cycles_left = 0 /\ ~tags[response].waiting_for_bus
      /\ tag \in 0..TAGS
      /\ \A i \in 1..TAGS : tag = i <=> tags[i].waiting_for_bus /\ tags[i].cycles_left = 1
  BY <1>1, TagsAre DEF Tag, Response
<1>4. q1_head.cmd = "load" => isLoad /\ Command(fetch) # "none"
  BY DEF Command
<1>5. loaded \in [Units -> Value \cup {<<NoBlock, 0>>}]
  <2>1. CASE q1_head.cmd = "load"
    <3>1. q1_head.read.block \in Blocks
      BY <1>2, <2>1, RequestIs DEF Read
    <3>2. memory[q1_head.read.block] \in [Units -> Value]
      BY <1>1, <3>1 DEF Memories
    <3> QED BY <2>1, <3>2
  <2>2. CASE q1_head.cmd # "load"
    BY <2>2 DEF Garbage
  <2> QED BY <2>1, <2>2
<1>6. q2' = q /\ tags' = NextTags(response, isLoad, loaded)
  BY <1>1, ClockTags
<1>7. isLoad \in BOOLEAN /\ (isLoad => Command(fetch) # "none")
  OBVIOUS
<1> HIDE DEF isLoad, loaded
<1>8. /\ TagsOK'
      /\ \A i \in 1..TAGS : tags[i].waiting_for_bus /\ i # tag =>
           /\ tags'[i].waiting_for_bus
           /\ tags'[i].cycles_left = tags[i].cycles_left - 1
           /\ tags'[i].loaded_data = tags[i].loaded_data
      /\ isLoad => /\ tags'[response].waiting_for_bus
                   /\ tags'[response].cycles_left = LAT
                   /\ tags'[response].loaded_data = loaded
  BY <1>1, <1>5, <1>6, <1>7, TagsNext DEF Tag, Response
<1>25. Follows(q, e, n, response, except)
  <2>1. q1_head.cmd = "load" => response \in 1..TAGS
    BY <1>3, <1>4
  <2>2. q2 \in Seq(Q2Entry) /\ except \in BOOLEAN
    BY <1>1
  <2> HIDE DEF tag, response
  <2> QED BY <1>2, <2>1, <2>2, Q2NextIs
<1>9. /\ q \in Seq(Q2Entry) /\ Len(q) \in Nat /\ n \in Nat /\ e \in 0..1
      /\ n <= Len(q) /\ Len(q) <= n + 1 /\ e <= Len(q2)
      /\ \A i \in 1..n : /\ i + e \in 1..Len(q2)
                         /\ q[i].read = q2[i + e].read /\ q[i].mem_tag = q2[i + e].mem_tag
                         /\ (q[i].is_rd <=> q2[i + e].is_rd /\ ~except)
      /\ Len(q) = n + 1 => /\ q1_head.cmd = "load"
                           /\ q[n + 1].read = q1_head.read /\ q[n + 1].mem_tag = response
                           /\ (q[n + 1].is_rd <=> ~except)
  <2> HIDE DEF q, e, n
  <2> QED BY <1>25 DEF Follows
<1>10. e = 1 <=> Len(q2) >= 1 /\ tag # 0 /\ q2[1].mem_tag = tag
  <2>1. q2 # <<>> <=> Len(q2) >= 1
    BY <1>1, EmptySeq, LenProperties
  <2> QED BY <2>1 DEF Over, q2_head_clr
<1>11. \A k \in 1..Len(q2) : q2[k] \in Q2Entry /\ q2[k].mem_tag \in 1..TAGS
  <2>1. \A k \in 1..Len(q2) : q2[k] \in Q2Entry
    BY <1>1, ElementOfSeq
  <2> QED BY <2>1 DEF Q2Entry
<1> DEFINE C(i) == tags[i].cycles_left
           T(k) == q2[k].mem_tag
<1>12. /\ LAT \in Nat \ {0} /\ TAGS \in Nat /\ Len(q2) \in Nat
       /\ \A i \in 1..TAGS : C(i) \in 0..LAT
       /\ \A i \in 1..TAGS : tags[i].waiting_for_bus => C(i) > 0
       /\ \A k \in 1..Len(q2) : C(T(k)) > 0 /\ C(T(k)) \in 0..LAT
       /\ \A j, k \in 1..Len(q2) : j < k => C(T(j)) < C(T(k))
  <2>1. /\ LAT \in Nat \ {0} /\ TAGS \in Nat /\ Len(q2) \in Nat
    BY <1>1, Sizes, LenProperties
  <2>2. /\ \A i \in 1..TAGS : C(i) \in 0..LAT
        /\ \A i \in 1..TAGS : tags[i].waiting_for_bus => C(i) > 0
    BY <1>1 DEF TagsOK
  <2>3. \A k \in 1..Len(q2) : C(T(k)) > 0 /\ C(T(k)) \in 0..LAT
    BY <1>1, <1>11, <2>2
  <2> QED BY <1>1, <2>1, <2>2, <2>3
<1>13. ASSUME NEW i \in 1..n PROVE T(i + e) # tag
  <2> SUFFICES ASSUME T(i + e) = tag PROVE FALSE
    OBVIOUS
  <2> DEFINE k == i + e
  <2>1. k \in 1..Len(q2) /\ 1 \in 1..Len(q2) /\ (k = 1 \/ 1 < k)
    BY <1>9, <1>12
  <2> HIDE DEF k
  <2>2. T(k) \in 1..TAGS /\ T(k) = tag /\ T(1) \in 1..TAGS
    BY <1>11, <2>1 DEF k
  <2>3. C(T(k)) = 1
    BY <1>3, <2>2
  <2>4. k = 1
    <3> SUFFICES ASSUME 1 < k PROVE FALSE
      BY <2>1
    <3>1. C(T(1)) < C(T(k)) /\ C(T(1)) > 0 /\ C(T(1)) \in 0..LAT
      BY <1>12, <2>1
    <3> QED BY <1>12, <2>3, <3>1
  <2>5. e = 1
    <3>1. Len(q2) >= 1 /\ tag # 0 /\ T(1) = tag
      BY <1>12, <2>1, <2>2, <2>4
    <3> QED BY <1>10, <3>1
  <2>6. i = 0
    BY <1>9, <2>4, <2>5 DEF k
  <2> QED BY <2>6
<1>14. ASSUME NEW i \in 1..n
       PROVE  /\ tags'[q[i].mem_tag].waiting_for_bus
              /\ tags'[q[i].mem_tag].cycles_left = C(T(i + e)) - 1
              /\ tags'[q[i].mem_tag].loaded_data = tags[T(i + e)].loaded_data
              /\ i + e \in 1..Len(q2)
  <2>1. i + e \in 1..Len(q2) /\ q[i].mem_tag = T(i + e) /\ T(i + e) # tag
    BY <1>9, <1>13
  <2>2. T(i + e) \in 1..TAGS /\ tags[T(i + e)].waiting_for_bus
    BY <1>1, <1>11, <2>1
  <2> QED BY <1>8, <2>1, <2>2
<1>15. ASSUME Len(q) = n + 1
       PROVE  /\ tags'[q[n + 1].mem_tag].waiting_for_bus
              /\ tags'[q[n + 1].mem_tag].cycles_left = LAT
              /\ tags'[q[n + 1].mem_tag].loaded_data = memory[q1_head.read.block]
  BY <1>4, <1>8, <1>9, <1>15 DEF loaded
<1> HIDE DEF q, n, e, tag, response, C, T
<1>16. ASSUME NEW k \in 1..Len(q) PROVE k \in 1..n \/ (k = n + 1 /\ Len(q) = n + 1)
  BY <1>9
<1>17. \A k \in 1..Len(q) : tags'[q[k].mem_tag].waiting_for_bus
  BY <1>14, <1>15, <1>16
<1>18. ASSUME NEW j \in 1..Len(q), NEW k \in 1..Len(q), j < k
       PROVE  tags'[q[j].mem_tag].cycles_left < tags'[q[k].mem_tag].cycles_left
  <2>1. j \in 1..n
    BY <1>9, <1>16, <1>18
  <2>2. /\ tags'[q[j].mem_tag].cycles_left = C(T(j + e)) - 1 /\ j + e \in 1..Len(q2)
        /\ C(T(j + e)) > 0 /\ C(T(j + e)) \in 0..LAT
    BY <1>12, <1>14, <2>1
  <2>3. CASE k \in 1..n
    <3>1. /\ tags'[q[k].mem_tag].cycles_left = C(T(k + e)) - 1 /\ k + e \in 1..Len(q2)
          /\ C(T(k + e)) > 0 /\ C(T(k + e)) \in 0..LAT
      BY <1>12, <1>14, <2>3
    <3>2. j + e < k + e
      BY <1>9, <1>18
    <3>3. C(T(j + e)) < C(T(k + e))
      BY <1>12, <2>2, <3>1, <3>2
    <3> QED BY <1>12, <2>2, <3>1, <3>3
  <2>4. CASE k = n + 1 /\ Len(q) = n + 1
    <3>1. tags'[q[k].mem_tag].cycles_left = LAT
      BY <1>15, <2>4
    <3> QED BY <1>12, <2>2, <3>1
  <2> QED BY <1>16, <2>3, <2>4
<1>19. Q2OK'
  BY <1>6, <1>9, <1>17, <1>18 DEF Q2OK
<1>20. e = 1 => Len(q2) >= 1 /\ (q2[1].is_rd => Filling(fetch))
  <2>1. Len(q2) >= 1 => q2 # <<>>
    OBVIOUS
  <2> QED BY <1>10, <2>1 DEF Filling, q2_head_mem_response, tag
<1>21. Filling(fetch) => e = 1 /\ q2[1].is_rd
  <2> SUFFICES ASSUME Filling(fetch) PROVE e = 1 /\ q2[1].is_rd
    OBVIOUS
  <2>1. q2 # <<>> /\ q2[1].is_rd /\ q2[1].mem_tag = tag /\ tag \in 1..TAGS /\ 1 \in 1..Len(q2)
    BY FilledIs DEF Step, tag
  <2>2. tag # 0 /\ Len(q2) >= 1
    BY <1>12, <2>1
  <2> QED BY <1>10, <2>1, <2>2
<1>22. \A i \in 1..n : /\ i + e \in 1..Len(q2)
                       /\ q2'[i].read = q2[i + e].read
                       /\ (q2'[i].is_rd <=> q2[i + e].is_rd /\ ~except)
                       /\ tags'[q2'[i].mem_tag].loaded_data = tags[q2[i + e].mem_tag].loaded_data
                       /\ tags'[q2'[i].mem_tag].cycles_left = tags[q2[i + e].mem_tag].cycles_left - 1
  BY <1>6, <1>9, <1>14 DEF T, C
<1>23. Len(q2') = n + 1 => /\ q1_head.cmd = "load"
                           /\ q2'[n + 1].read = q1_head.read
                           /\ (q2'[n + 1].is_rd <=> ~except)
                           /\ tags'[q2'[n + 1].mem_tag].loaded_data = memory[q1_head.read.block]
                           /\ tags'[q2'[n + 1].mem_tag].cycles_left = LAT
  BY <1>6, <1>9, <1>15
<1>24. /\ TagsOK' /\ Len(q2') \in Nat /\ n \in Nat /\ e \in 0..1
       /\ n <= Len(q2') /\ Len(q2') <= n + 1 /\ e <= Len(q2)
  BY <1>6, <1>8, <1>9
<1> QED BY <1>19, <1>20, <1>21, <1>22, <1>23, <1>24 DEF e, n, tag

-----------------------------------------------------------------------------
(* The reads that the load queue waits for, after a clock edge. *)

\* A read is waited for until it is answered or cancelled.
LEMMA LiveNext ==
  ASSUME IInv, NEW w, NEW r, NEW fetch, NEW except, Step(w, r, fetch, except)
  PROVE  /\ \A q \in r : q \in Read /\ (\A p \in live : p.slot # q.slot) /\ (\A p \in r : p = q)
         /\ live' \subseteq Read
         /\ except => live' = {}
         /\ \A q \in live' : q \in live \/ (q \in r /\ q \notin Hits(w, r))
         /\ \A q \in live : ~except /\ (\A a \in mem_feedback : a[1] # q.slot) => q \in live'
         /\ \A q \in r : ~except /\ q \notin Hits(w, r) => q \in live'
         /\ \A p, q \in live' : p.slot = q.slot => p = q
<1>1. /\ r \in Reads /\ Clock(w, r, fetch, except) /\ live \subseteq Read
      /\ \A p, q \in live : p.slot = q.slot => p = q
  BY DEF Step, IInv, ReadsOK
<1>2. \A q \in r : q \in Read /\ (\A p \in live : p.slot # q.slot) /\ (\A p \in r : p = q)
  <2>1. CASE r = {}
    BY <2>1
  <2>2. CASE r # {}
    <3>1. PICK q \in Read : /\ r = {q} /\ Requested(r) = <<q>> /\ refill = 0
                            /\ \A p \in live : p.slot # q.slot
      BY <1>1, <2>2, ReadsAre
    <3> QED BY <3>1
  <2> QED BY <2>1, <2>2
<1> DEFINE H == {<<q.slot, ReadStage(w, r).line[Index[q.block]].data[q.unit]>> : q \in Hits(w, r)}
           F == {a \in mem_feedback : \E q \in live : q.slot = a[1]}
<1>3. Told(w, r) = H \cup F
  BY DEF Told
<1>4. \A a \in H : \E q \in Hits(w, r) : a[1] = q.slot
  OBVIOUS
<1>5. \A q \in Hits(w, r) : \E a \in H : a[1] = q.slot
  <2> SUFFICES ASSUME NEW q \in Hits(w, r) PROVE \E a \in H : a[1] = q.slot
    OBVIOUS
  <2>1. <<q.slot, ReadStage(w, r).line[Index[q.block]].data[q.unit]>> \in H
    OBVIOUS
  <2> QED BY <2>1
<1>6. Hits(w, r) \subseteq r
  BY DEF Hits
<1> HIDE DEF H
<1>7. live' = IF except THEN {} ELSE {q \in live \cup r : \A a \in Told(w, r) : a[1] # q.slot}
  BY <1>1, ClockCache
<1>8. \A q \in live' : ~except /\ q \in live \cup r /\ \A a \in Told(w, r) : a[1] # q.slot
  BY <1>7
<1>9. \A q \in live' : q \in live \/ (q \in r /\ q \notin Hits(w, r))
  BY <1>3, <1>5, <1>8
<1>10. ASSUME NEW q \in live, ~except, \A a \in mem_feedback : a[1] # q.slot PROVE q \in live'
  <2>1. \A a \in Told(w, r) : a[1] # q.slot
    BY <1>2, <1>3, <1>4, <1>6, <1>10
  <2> QED BY <1>7, <1>10, <2>1
<1>11. ASSUME NEW q \in r, ~except, q \notin Hits(w, r) PROVE q \in live'
  <2>1. Hits(w, r) = {}
    BY <1>2, <1>6, <1>11
  <2>2. \A a \in Told(w, r) : a[1] # q.slot
    BY <1>2, <1>3, <1>4, <2>1
  <2> QED BY <1>7, <1>11, <2>2
<1>12. \A p, q \in live' : p.slot = q.slot => p = q
  BY <1>1, <1>2, <1>8
<1>13. live' \subseteq Read /\ (except => live' = {})
  BY <1>1, <1>2, <1>7, <1>8
<1> QED BY <1>2, <1>9, <1>10, <1>11, <1>12, <1>13

\* Nothing changes the block of a read that is waited for.
LEMMA BlocksOfReads ==
  ASSUME LAT < TAGS, IInv, NEW w, NEW r, NEW fetch, NEW except, Step(w, r, fetch, except), NEW q \in live
  PROVE  /\ q \in Read /\ q.block \in Blocks /\ q.unit \in Units /\ q.slot \in Slots
         /\ \A x \in w : x.cmd = "store" /\ x.block # q.block
         /\ \A l \in CopiesOf(ReadStage(w, r)) : l.block = q.block => ~l.dirty
         /\ Written'[q.block] = Written[q.block]
         /\ Flat[q.block] = Written[q.block] /\ Flat'[q.block] = Flat[q.block]
<1>1. /\ w \in Writes /\ r \in Reads /\ MemoryOK /\ RequestsOK
      /\ \A x \in w, p \in r : x.block # p.block
      /\ q \in Read /\ \A l \in Copies : l.block = q.block => ~l.dirty
  BY DEF Step, IInv, ReadsOK, OrderOK
<1>2. q.block \in Blocks /\ q.unit \in Units /\ q.slot \in Slots
  BY <1>1 DEF Read
<1>3. \A x \in w : x.cmd = "store" /\ x.block # q.block
  <2> SUFFICES ASSUME NEW x \in w PROVE x.cmd = "store" /\ x.block # q.block
    OBVIOUS
  <2>1. PICK k \in Blocks, u \in Units : \E d \in [{u} -> Value] :
          /\ w = {Store(k, d)} /\ Requested(w) = <<Store(k, d)>>
          /\ d = [y \in {u} |-> <<k, used.writes + 2>>]
          /\ used.writes < MaxWrites /\ \A p \in live : p.block # k
    BY <1>1, WritesAre
  <2>2. PICK d \in [{u} -> Value] : w = {Store(k, d)} /\ \A p \in live : p.block # k
    BY <2>1
  <2>3. x = Store(k, d)
    BY <2>2
  <2> QED BY <2>2, <2>3 DEF Store
<1>4. \A l \in CopiesOf(ReadStage(w, r)) : (\A x \in w : l.block # x.block) => l \in CopiesOf(cache)
  BY <1>1, StagesAre
<1>5. \A l \in CopiesOf(ReadStage(w, r)) : l.block = q.block => ~l.dirty
  BY <1>1, <1>3, <1>4 DEF Copies, CopiesOf
<1>6. /\ \A b \in Blocks : /\ \A x \in w : x.block # b
                           /\ \A l \in CopiesOf(ReadStage(w, r)) : l.block = b => ~l.dirty
                           => Written'[b] = Written[b]
      /\ w = {} => Flat' = Flat
      /\ \A x \in w : x \in Request /\ Flat' = Performed(Flat, x)
  BY CacheNext
<1>7. Written'[q.block] = Written[q.block]
  BY <1>2, <1>3, <1>5, <1>6
<1>8. Flat'[q.block] = Flat[q.block]
  <2>1. CASE w = {}
    BY <1>6, <2>1
  <2>2. CASE w # {}
    <3>1. PICK x \in w : Flat' = Performed(Flat, x) /\ x.cmd = "store" /\ x.block # q.block
      BY <1>3, <1>6, <2>2
    <3>2. Flat' = [Flat EXCEPT ![x.block] = Overlay(x.data, Flat[x.block])]
      BY <3>1 DEF Performed
    <3> QED BY <3>1, <3>2
  <2> QED BY <2>1, <2>2
<1>9. Flat[q.block] = Written[q.block]
  <2>1. cache \in CacheType /\ Apart(cache) /\ Backed(cache, Written)
    BY <1>1 DEF MemoryOK, CacheOK
  <2>2. Flat = View(cache, Written)
    BY DEF Flat, View, Copies, CopiesOf
  <2>3. /\ \A l \in CopiesOf(cache) : l.block = q.block => View(cache, Written)[q.block] = l.data
        /\ (\A l \in CopiesOf(cache) : l.block # q.block) => View(cache, Written)[q.block] = Written[q.block]
    BY <1>2, <2>1, ViewIs
  <2>4. \A l \in CopiesOf(cache) : l.block = q.block => l.data = Written[q.block]
    BY <1>1, <1>2, <2>1, Sizes DEF Backed, Valid, Copies, CopiesOf
  <2> QED BY <2>2, <2>3, <2>4
<1> QED BY <1>1, <1>2, <1>3, <1>5, <1>7, <1>8, <1>9

\* How many requests memory has seen.
Seen == IF q1 = <<>> THEN 0 ELSE 1

\* Where the loads and the stores on their way to memory come from.
LEMMA RequestsNext ==
  ASSUME LAT < TAGS, IInv, NEW w, NEW r, NEW fetch, NEW except, Step(w, r, fetch, except)
  PROVE  /\ memory' = Performed(memory, q1_head) /\ memory' \in Memories
         /\ Seen \in 0..1 /\ Len(Left) \in Nat /\ Len(Left) + Seen = Len(Pending)
         /\ q1_head.cmd = "load" => Seen = 1 /\ 1 \in 1..Len(Pending) /\ Pending[1] = q1_head
         /\ Len(Pending') \in Nat
         /\ \A i \in 1..Len(Pending') : IsLoad(Pending'[i]) =>
              /\ ~except
              /\ \/ /\ i <= Len(Left) /\ i + Seen \in 1..Len(Pending) /\ Pending'[i] = Pending[i + Seen]
                 \/ /\ i > Len(Left) /\ i = Len(Pending')
                    /\ Pending'[i].read \in r /\ Pending'[i].read \notin Hits(w, r)
         /\ \A j \in 1..Len(Pending') : Pending'[j].cmd = "store" =>
              \/ /\ j <= Len(Left) /\ j + Seen \in 1..Len(Pending) /\ Pending'[j] = Pending[j + Seen]
              \/ \A q \in live : Pending'[j].block # q.block
<1> DEFINE a == Displaced(w, r, fetch)
           b == WriteMiss(w)
           c == ReadMiss(w, r)
           c2 == ReadStage(w, r)
<1>1. /\ TagsOK /\ RequestsOK /\ memory \in Memories /\ MemoryOK /\ w \in Writes /\ r \in Reads
      /\ fetch \in BOOLEAN /\ except \in BOOLEAN /\ Clock(w, r, fetch, except)
      /\ \A x \in w, q \in r : x.block # q.block
  BY DEF Step, IInv, MemoryOK
<1>2. /\ Few(a) /\ Few(b) /\ Few(c)
      /\ a # <<>> => \E v \in CopiesOf(c2) : /\ v.block \in Blocks /\ v.dirty /\ v.data \in [Units -> Value]
                                             /\ a = <<Store(v.block, v.data)>>
  BY CacheNext
<1>3. /\ memory' = Performed(memory, q1_head) /\ memory' \in Memories
      /\ Len(Left) \in Nat /\ Len(Pending') \in Nat /\ Len(Left) <= Len(Pending')
      /\ Len(Left) + Seen = Len(Pending) /\ Seen \in 0..1
      /\ \A i \in 1..Len(Left) : Left[i] = Pending[i + Seen]
      /\ \A i \in 1..Len(Pending') :
           \/ i <= Len(Left) /\ Pending'[i] = Cancelled(except, Left[i])
           \/ i > Len(Left) /\ a # <<>> /\ Pending'[i] = Cancelled(except, a[1])
           \/ i > Len(Left) /\ b # <<>> /\ Pending'[i] = Cancelled(except, b[1])
           \/ i > Len(Left) /\ i = Len(Pending') /\ c # <<>> /\ Pending'[i] = Cancelled(except, c[1])
  BY <1>1, <1>2, PendingNext DEF Seen
<1>4. /\ Seen = 1 => Pending[1] = q1_head
      /\ Seen = 0 => q1_head = NoOp
  BY <1>1, LeftIs DEF Seen
<1>5. b # <<>> => \E x \in w : b = <<x>>
  BY <1>1, StagesAre
<1>6. c # <<>> => Hits(w, r) = {} /\ r # {} /\ c = <<Load(Requested(r)[1])>>
  BY <1>1, StagesAre
<1> HIDE DEF a, b, c, c2
<1>7. a # <<>> => a[1].cmd = "store" /\ \A q \in live : a[1].block # q.block
  <2> SUFFICES ASSUME a # <<>>, NEW q \in live PROVE a[1].cmd = "store" /\ a[1].block # q.block
    <3>1. a # <<>> => a[1].cmd = "store"
      BY <1>2 DEF Store
    <3> QED BY <3>1
  <2>1. PICK v \in CopiesOf(c2) : v.dirty /\ a = <<Store(v.block, v.data)>>
    BY <1>2
  <2>2. v.block # q.block
    BY <2>1, BlocksOfReads DEF c2
  <2> QED BY <2>1, <2>2 DEF Store
<1>8. b # <<>> => b[1] \in w
  BY <1>5
<1>9. b # <<>> => b[1].cmd = "store" /\ \A q \in live : b[1].block # q.block
  <2>1. \A q \in live, x \in w : x.cmd = "store" /\ x.block # q.block
    BY BlocksOfReads
  <2>2. b # <<>> => b[1].cmd = "store"
    <3> SUFFICES ASSUME b # <<>> PROVE b[1].cmd = "store"
      OBVIOUS
    <3>1. w # {}
      BY <1>8
    <3>2. PICK k \in Blocks, u \in Units : \E d \in [{u} -> Value] :
            /\ w = {Store(k, d)} /\ Requested(w) = <<Store(k, d)>>
            /\ d = [y \in {u} |-> <<k, used.writes + 2>>]
            /\ used.writes < MaxWrites /\ \A p \in live : p.block # k
      BY <1>1, <3>1, WritesAre
    <3>3. PICK d : w = {Store(k, d)}
      BY <3>2
    <3>4. b[1] = Store(k, d)
      BY <1>8, <3>3
    <3> QED BY <3>4 DEF Store
  <2> QED BY <1>8, <2>1, <2>2
<1>10. c # <<>> => c[1].cmd = "load" /\ c[1].read \in r /\ c[1].read \notin Hits(w, r)
  <2> SUFFICES ASSUME c # <<>> PROVE c[1].cmd = "load" /\ c[1].read \in r /\ c[1].read \notin Hits(w, r)
    OBVIOUS
  <2>1. PICK q \in Read : /\ r = {q} /\ Requested(r) = <<q>> /\ refill = 0
                          /\ \A p \in live : p.slot # q.slot
    BY <1>1, <1>6, ReadsAre
  <2>2. c[1] = Load(q)
    BY <1>6, <2>1
  <2>3. c[1].cmd = "load" /\ c[1].read = q
    BY <2>2 DEF Load
  <2>4. q \in r /\ q \notin Hits(w, r)
    BY <1>6, <2>1
  <2> QED BY <2>3, <2>4
<1>11. \A e : /\ IsLoad(Cancelled(except, e)) => ~except /\ Cancelled(except, e) = e /\ e.cmd = "load"
              /\ Cancelled(except, e).cmd = "store" => Cancelled(except, e) = e /\ e.cmd = "store"
  BY DEF Cancelled, IsLoad, NoOp
<1>12. \A i \in 1..Len(Pending') : i <= Len(Left) => i \in 1..Len(Left) /\ i + Seen \in 1..Len(Pending)
  BY <1>3
<1>13. ASSUME NEW i \in 1..Len(Pending'), IsLoad(Pending'[i])
       PROVE  /\ ~except
              /\ \/ /\ i <= Len(Left) /\ i + Seen \in 1..Len(Pending) /\ Pending'[i] = Pending[i + Seen]
                 \/ /\ i > Len(Left) /\ i = Len(Pending')
                    /\ Pending'[i].read \in r /\ Pending'[i].read \notin Hits(w, r)
  <2>1. CASE i <= Len(Left) /\ Pending'[i] = Cancelled(except, Left[i])
    <3>1. ~except /\ Pending'[i] = Left[i]
      BY <1>11, <1>13, <2>1
    <3> QED BY <1>3, <1>12, <2>1, <3>1
  <2>2. CASE i > Len(Left) /\ a # <<>> /\ Pending'[i] = Cancelled(except, a[1])
    <3>1. a[1].cmd = "load"
      BY <1>11, <1>13, <2>2
    <3> QED BY <1>7, <2>2, <3>1
  <2>3. CASE i > Len(Left) /\ b # <<>> /\ Pending'[i] = Cancelled(except, b[1])
    <3>1. b[1].cmd = "load"
      BY <1>11, <1>13, <2>3
    <3> QED BY <1>9, <2>3, <3>1
  <2>4. CASE i > Len(Left) /\ i = Len(Pending') /\ c # <<>> /\ Pending'[i] = Cancelled(except, c[1])
    <3>1. ~except /\ Pending'[i] = c[1]
      BY <1>11, <1>13, <2>4
    <3> QED BY <1>10, <2>4, <3>1
  <2> QED BY <1>3, <2>1, <2>2, <2>3, <2>4
<1>14. ASSUME NEW i \in 1..Len(Pending'), Pending'[i].cmd = "store"
       PROVE  \/ /\ i <= Len(Left) /\ i + Seen \in 1..Len(Pending) /\ Pending'[i] = Pending[i + Seen]
              \/ \A q \in live : Pending'[i].block # q.block
  <2>1. CASE i <= Len(Left) /\ Pending'[i] = Cancelled(except, Left[i])
    <3>1. Pending'[i] = Left[i]
      BY <1>11, <1>14, <2>1
    <3> QED BY <1>3, <1>12, <2>1, <3>1
  <2>2. CASE i > Len(Left) /\ a # <<>> /\ Pending'[i] = Cancelled(except, a[1])
    <3>1. Pending'[i] = a[1]
      BY <1>11, <1>14, <2>2
    <3> QED BY <1>7, <2>2, <3>1
  <2>3. CASE i > Len(Left) /\ b # <<>> /\ Pending'[i] = Cancelled(except, b[1])
    <3>1. Pending'[i] = b[1]
      BY <1>11, <1>14, <2>3
    <3> QED BY <1>9, <2>3, <3>1
  <2>4. CASE i > Len(Left) /\ i = Len(Pending') /\ c # <<>> /\ Pending'[i] = Cancelled(except, c[1])
    <3>1. c[1].cmd = "store"
      BY <1>11, <1>14, <2>4
    <3> QED BY <1>10, <2>4, <3>1
  <2> QED BY <1>3, <2>1, <2>2, <2>3, <2>4
<1>15. q1_head.cmd = "load" => Seen = 1 /\ 1 \in 1..Len(Pending) /\ Pending[1] = q1_head
  <2> SUFFICES ASSUME q1_head.cmd = "load" PROVE Seen = 1 /\ 1 \in 1..Len(Pending) /\ Pending[1] = q1_head
    OBVIOUS
  <2>1. Seen # 0
    BY <1>4 DEF NoOp
  <2>2. Seen = 1
    BY <2>1 DEF Seen
  <2>3. 1 \in 1..Len(Pending)
    BY <1>3, <2>2
  <2> QED BY <1>4, <2>2, <2>3
<1> QED BY <1>3, <1>13, <1>14, <1>15

-----------------------------------------------------------------------------
(* A clock edge keeps the invariant. *)

\* Reads on their way are waited for, once.
LEMMA ReadsNext ==
  ASSUME LAT < TAGS, IInv, NEW w, NEW r, NEW fetch, NEW except, Step(w, r, fetch, except)
  PROVE  ReadsOK'
<1> DEFINE d == Seen
           e == Over(Tag(fetch))
           n == Len(q2) - e
           P(i) == Pending[i]
           P1(i) == Pending'[i]
<1>1. /\ \A p, q \in live : p.slot = q.slot => p = q
      /\ \A i \in 1..Len(Pending) : IsLoad(P(i)) => P(i).read \in live
      /\ \A i, j \in 1..Len(Pending) :
           IsLoad(P(i)) /\ IsLoad(P(j)) /\ P(j).read.slot = P(i).read.slot => j = i
      /\ \A k \in 1..Len(q2) : q2[k].is_rd => q2[k].read \in live
      /\ \A j, k \in 1..Len(q2) : q2[k].is_rd /\ q2[j].is_rd /\ q2[j].read.slot = q2[k].read.slot => j = k
      /\ \A k \in 1..Len(q2), i \in 1..Len(Pending) :
           q2[k].is_rd /\ IsLoad(P(i)) => P(i).read.slot # q2[k].read.slot
      /\ live \subseteq Read
  BY DEF IInv, ReadsOK
<1>2. /\ \A q \in r : q \in Read /\ (\A p \in live : p.slot # q.slot) /\ (\A p \in r : p = q)
      /\ live' \subseteq Read
      /\ \A q \in live : ~except /\ (\A a \in mem_feedback : a[1] # q.slot) => q \in live'
      /\ \A q \in r : ~except /\ q \notin Hits(w, r) => q \in live'
      /\ \A p, q \in live' : p.slot = q.slot => p = q
  BY LiveNext
<1>3. /\ d \in 0..1 /\ Len(Left) \in Nat /\ Len(Pending') \in Nat
      /\ q1_head.cmd = "load" => d = 1 /\ 1 \in 1..Len(Pending) /\ P(1) = q1_head
      /\ \A i \in 1..Len(Pending') : IsLoad(P1(i)) =>
           /\ ~except
           /\ \/ i <= Len(Left) /\ i + d \in 1..Len(Pending) /\ P1(i) = P(i + d)
              \/ i > Len(Left) /\ i = Len(Pending') /\ P1(i).read \in r /\ P1(i).read \notin Hits(w, r)
  BY RequestsNext
<1>4. /\ Len(q2') \in Nat /\ n \in Nat /\ e \in 0..1 /\ Len(q2') <= n + 1
      /\ \A i \in 1..n : /\ i + e \in 1..Len(q2) /\ q2'[i].read = q2[i + e].read
                         /\ (q2'[i].is_rd <=> q2[i + e].is_rd /\ ~except)
      /\ Len(q2') = n + 1 => /\ q1_head.cmd = "load"
                             /\ q2'[n + 1].read = q1_head.read
                             /\ (q2'[n + 1].is_rd <=> ~except)
  BY Q2Next
<1>5. /\ \A a \in mem_feedback, i \in 1..Len(Pending) : IsLoad(P(i)) => P(i).read.slot # a[1]
      /\ \A a \in mem_feedback, k \in 1..Len(q2) : q2[k].is_rd => q2[k].read.slot # a[1]
  BY DEF IInv, FeedbackOK
<1> HIDE DEF d, e, n, P, P1
\* Where a load that is not yet taken, and one that is, come from.
<1>6. ASSUME NEW i \in 1..Len(Pending'), IsLoad(P1(i))
      PROVE  /\ ~except
             /\ \/ /\ i <= Len(Left) /\ i + d \in 1..Len(Pending) /\ IsLoad(P(i + d))
                   /\ P1(i).read = P(i + d).read /\ P1(i).read \in live
                \/ i = Len(Pending') /\ i > Len(Left) /\ P1(i).read \in r /\ P1(i).read \notin Hits(w, r)
  <2>1. CASE i <= Len(Left) /\ i + d \in 1..Len(Pending) /\ P1(i) = P(i + d)
    <3>1. IsLoad(P(i + d)) /\ P1(i).read = P(i + d).read
      BY <1>6, <2>1
    <3>2. P(i + d).read \in live
      BY <1>1, <2>1, <3>1
    <3> QED BY <1>3, <1>6, <2>1, <3>1, <3>2
  <2>2. CASE i > Len(Left) /\ i = Len(Pending') /\ P1(i).read \in r /\ P1(i).read \notin Hits(w, r)
    BY <1>3, <1>6, <2>2
  <2> QED BY <1>3, <1>6, <2>1, <2>2
<1>7. ASSUME NEW k \in 1..Len(q2'), q2'[k].is_rd
      PROVE  /\ ~except
             /\ \/ /\ k \in 1..n /\ k + e \in 1..Len(q2) /\ q2[k + e].is_rd
                   /\ q2'[k].read = q2[k + e].read
                \/ /\ k = n + 1 /\ d = 1 /\ 1 \in 1..Len(Pending) /\ IsLoad(P(1)) /\ q2'[k].read = P(1).read
             /\ q2'[k].read \in live
  <2>1. CASE k \in 1..n
    <3>1. k + e \in 1..Len(q2) /\ q2[k + e].is_rd /\ ~except /\ q2'[k].read = q2[k + e].read
      BY <1>4, <1>7, <2>1
    <3>2. q2[k + e].read \in live
      BY <1>1, <3>1
    <3> QED BY <2>1, <3>1, <3>2
  <2>2. CASE k = n + 1 /\ Len(q2') = n + 1
    <3>1. ~except /\ q1_head.cmd = "load" /\ q2'[k].read = q1_head.read
      BY <1>4, <1>7, <2>2
    <3>2. d = 1 /\ 1 \in 1..Len(Pending) /\ IsLoad(P(1)) /\ q2'[k].read = P(1).read
      BY <1>3, <3>1 DEF IsLoad
    <3>3. P(1).read \in live
      BY <1>1, <3>2
    <3> QED BY <2>2, <3>1, <3>2, <3>3
  <2> QED BY <1>4, <2>1, <2>2
<1>8. ASSUME NEW i \in 1..Len(Pending'), IsLoad(P1(i)) PROVE P1(i).read \in live'
  <2>1. CASE /\ i <= Len(Left) /\ i + d \in 1..Len(Pending) /\ IsLoad(P(i + d))
             /\ P1(i).read = P(i + d).read /\ P1(i).read \in live
    <3>1. \A a \in mem_feedback : a[1] # P1(i).read.slot
      BY <1>5, <2>1
    <3> QED BY <1>2, <1>6, <1>8, <2>1, <3>1
  <2>2. CASE P1(i).read \in r /\ P1(i).read \notin Hits(w, r)
    BY <1>2, <1>6, <1>8, <2>2
  <2> QED BY <1>6, <1>8, <2>1, <2>2
<1>9. ASSUME NEW i \in 1..Len(Pending'), NEW j \in 1..Len(Pending'), IsLoad(P1(i)), IsLoad(P1(j)),
             P1(j).read.slot = P1(i).read.slot
      PROVE  j = i
  <2>1. CASE i <= Len(Left) /\ j <= Len(Left)
    <3>1. /\ i + d \in 1..Len(Pending) /\ IsLoad(P(i + d)) /\ P1(i).read = P(i + d).read
          /\ j + d \in 1..Len(Pending) /\ IsLoad(P(j + d)) /\ P1(j).read = P(j + d).read
      BY <1>3, <1>6, <1>9, <2>1
    <3>2. i + d = j + d
      BY <1>1, <1>9, <3>1
    <3> QED BY <1>3, <3>2
  <2>2. CASE i > Len(Left) /\ j > Len(Left)
    BY <1>3, <1>6, <1>9, <2>2
  <2>3. CASE i <= Len(Left) /\ j > Len(Left)
    <3>1. P1(i).read \in live /\ P1(j).read \in r
      BY <1>3, <1>6, <1>9, <2>3
    <3> QED BY <1>2, <1>9, <3>1
  <2>4. CASE i > Len(Left) /\ j <= Len(Left)
    <3>1. P1(j).read \in live /\ P1(i).read \in r
      BY <1>3, <1>6, <1>9, <2>4
    <3> QED BY <1>2, <1>9, <3>1
  <2> QED BY <1>3, <2>1, <2>2, <2>3, <2>4
<1>10. ASSUME NEW k \in 1..Len(q2'), q2'[k].is_rd PROVE q2'[k].read \in live'
  <2>1. \A a \in mem_feedback : a[1] # q2'[k].read.slot
    BY <1>5, <1>7, <1>10
  <2> QED BY <1>2, <1>7, <1>10, <2>1
<1>11. ASSUME NEW j \in 1..Len(q2'), NEW k \in 1..Len(q2'), q2'[j].is_rd, q2'[k].is_rd,
              q2'[j].read.slot = q2'[k].read.slot
       PROVE  j = k
  <2>1. CASE j \in 1..n /\ k \in 1..n
    <3>1. /\ j + e \in 1..Len(q2) /\ q2[j + e].is_rd /\ q2'[j].read = q2[j + e].read
          /\ k + e \in 1..Len(q2) /\ q2[k + e].is_rd /\ q2'[k].read = q2[k + e].read
      BY <1>4, <1>11, <2>1
    <3>2. j + e = k + e
      BY <1>1, <1>11, <3>1
    <3> QED BY <1>4, <3>2
  <2>2. CASE j = n + 1 /\ k = n + 1
    BY <2>2
  <2>3. CASE j \in 1..n /\ k = n + 1
    <3>1. /\ j + e \in 1..Len(q2) /\ q2[j + e].is_rd /\ q2'[j].read = q2[j + e].read
          /\ 1 \in 1..Len(Pending) /\ IsLoad(P(1)) /\ q2'[k].read = P(1).read
      BY <1>4, <1>7, <1>11, <2>3
    <3> QED BY <1>1, <1>11, <3>1
  <2>4. CASE j = n + 1 /\ k \in 1..n
    <3>1. /\ k + e \in 1..Len(q2) /\ q2[k + e].is_rd /\ q2'[k].read = q2[k + e].read
          /\ 1 \in 1..Len(Pending) /\ IsLoad(P(1)) /\ q2'[j].read = P(1).read
      BY <1>4, <1>7, <1>11, <2>4
    <3> QED BY <1>1, <1>11, <3>1
  <2> QED BY <1>7, <1>11, <2>1, <2>2, <2>3, <2>4
<1>12. ASSUME NEW k \in 1..Len(q2'), q2'[k].is_rd, NEW i \in 1..Len(Pending'), IsLoad(P1(i))
       PROVE  P1(i).read.slot # q2'[k].read.slot
  <2>1. CASE P1(i).read \in r
    BY <1>2, <1>7, <1>12, <2>1
  <2>2. CASE /\ i <= Len(Left) /\ i + d \in 1..Len(Pending) /\ IsLoad(P(i + d))
             /\ P1(i).read = P(i + d).read
    <3>1. CASE k \in 1..n /\ k + e \in 1..Len(q2) /\ q2[k + e].is_rd /\ q2'[k].read = q2[k + e].read
      BY <1>1, <2>2, <3>1
    <3>2. CASE k = n + 1 /\ d = 1 /\ 1 \in 1..Len(Pending) /\ IsLoad(P(1)) /\ q2'[k].read = P(1).read
      <4>1. i + d # 1
        BY <3>2
      <4> QED BY <1>1, <2>2, <3>2, <4>1
    <3> QED BY <1>7, <1>12, <3>1, <3>2
  <2> QED BY <1>6, <1>12, <2>1, <2>2
<1> QED BY <1>2, <1>8, <1>9, <1>10, <1>11, <1>12 DEF ReadsOK, P1

\* No store overtakes a read of its block.
LEMMA OrderNext ==
  ASSUME LAT < TAGS, IInv, NEW w, NEW r, NEW fetch, NEW except, Step(w, r, fetch, except)
  PROVE  OrderOK'
<1> DEFINE d == Seen
           e == Over(Tag(fetch))
           n == Len(q2) - e
           P(i) == Pending[i]
           P1(i) == Pending'[i]
           c2 == ReadStage(w, r)
<1>1. /\ \A i \in 1..Len(Pending) : IsLoad(P(i)) => P(i).read \in live
      /\ \A k \in 1..Len(q2) : q2[k].is_rd => q2[k].read \in live
      /\ \A i, j \in 1..Len(Pending) : IsLoad(P(i)) /\ i < j => ~StoreOf(P(j), P(i).read.block)
      /\ \A k \in 1..Len(q2), j \in 1..Len(Pending) : q2[k].is_rd => ~StoreOf(P(j), q2[k].read.block)
      /\ \A k \in 1..Len(q2) : q2[k].is_rd => tags[q2[k].mem_tag].loaded_data = Written[q2[k].read.block]
  BY DEF IInv, ReadsOK, OrderOK
<1>2. /\ \A q \in live' : q \in live \/ (q \in r /\ q \notin Hits(w, r))
      /\ live' \subseteq Read
      /\ \A q \in r : q \in Read
  BY LiveNext
<1>3. /\ d \in 0..1 /\ Len(Left) \in Nat /\ Len(Pending') \in Nat
      /\ q1_head.cmd = "load" => d = 1 /\ 1 \in 1..Len(Pending) /\ P(1) = q1_head
      /\ \A i \in 1..Len(Pending') : IsLoad(P1(i)) =>
           /\ ~except
           /\ \/ i <= Len(Left) /\ i + d \in 1..Len(Pending) /\ P1(i) = P(i + d)
              \/ i > Len(Left) /\ i = Len(Pending') /\ P1(i).read \in r /\ P1(i).read \notin Hits(w, r)
      /\ \A j \in 1..Len(Pending') : P1(j).cmd = "store" =>
           \/ j <= Len(Left) /\ j + d \in 1..Len(Pending) /\ P1(j) = P(j + d)
           \/ \A q \in live : P1(j).block # q.block
  BY RequestsNext
<1>4. /\ Len(q2') \in Nat /\ n \in Nat /\ e \in 0..1 /\ Len(q2') <= n + 1
      /\ \A i \in 1..n : /\ i + e \in 1..Len(q2) /\ q2'[i].read = q2[i + e].read
                         /\ (q2'[i].is_rd <=> q2[i + e].is_rd /\ ~except)
                         /\ tags'[q2'[i].mem_tag].loaded_data = tags[q2[i + e].mem_tag].loaded_data
      /\ Len(q2') = n + 1 => /\ q1_head.cmd = "load"
                             /\ q2'[n + 1].read = q1_head.read
                             /\ (q2'[n + 1].is_rd <=> ~except)
                             /\ tags'[q2'[n + 1].mem_tag].loaded_data = memory[q1_head.read.block]
  BY Q2Next
<1>5. \A q \in live : /\ \A l \in CopiesOf(c2) : l.block = q.block => ~l.dirty
                      /\ Written'[q.block] = Written[q.block] /\ q.block \in Blocks
  BY BlocksOfReads
<1>6. \A l \in CopiesOf(cache') : l.dirty /\ Valid(l) => l \in CopiesOf(c2)
  BY CacheNext
<1>7. \A q \in r : q \notin Hits(w, r) => \A l \in CopiesOf(c2) : l.block # q.block
  <2>1. MemoryOK /\ RequestsOK /\ w \in Writes /\ r \in Reads /\ \A x \in w, q \in r : x.block # q.block
    BY DEF Step, IInv
  <2> QED BY <2>1, StagesAre
<1> HIDE DEF d, e, n, P, P1, c2
<1>8. ASSUME NEW q \in live', NEW l \in CopiesOf(cache'), l.block = q.block PROVE ~l.dirty
  <2> SUFFICES ASSUME l.dirty PROVE FALSE
    OBVIOUS
  <2>1. q.block \in Blocks
    BY <1>2 DEF Read
  <2>2. Valid(l)
    BY <1>8, <2>1, Sizes DEF Valid
  <2>3. l \in CopiesOf(c2)
    BY <1>6, <2>2
  <2> QED BY <1>2, <1>5, <1>7, <1>8, <2>3
<1>9. ASSUME NEW i \in 1..Len(Pending'), NEW j \in 1..Len(Pending'), IsLoad(P1(i)), i < j
      PROVE  ~StoreOf(P1(j), P1(i).read.block)
  <2> SUFFICES ASSUME StoreOf(P1(j), P1(i).read.block) PROVE FALSE
    OBVIOUS
  <2>1. P1(j).cmd = "store" /\ P1(j).block = P1(i).read.block
    BY DEF StoreOf
  <2>2. ~(i > Len(Left) /\ i = Len(Pending'))
    BY <1>3, <1>9
  <2>3. i <= Len(Left) /\ i + d \in 1..Len(Pending) /\ P1(i) = P(i + d)
    BY <1>3, <1>9, <2>2
  <2>4. IsLoad(P(i + d)) /\ P1(i).read \in live
    BY <1>1, <1>9, <2>3
  <2>5. j + d \in 1..Len(Pending) /\ P1(j) = P(j + d)
    BY <1>3, <2>1, <2>4
  <2>6. i + d < j + d
    BY <1>3, <1>9
  <2>7. ~StoreOf(P(j + d), P(i + d).read.block)
    BY <1>1, <2>3, <2>4, <2>5, <2>6
  <2> QED BY <2>3, <2>5, <2>7
<1>10. ASSUME NEW k \in 1..Len(q2'), q2'[k].is_rd
       PROVE  /\ ~except
              /\ \/ /\ k \in 1..n /\ k + e \in 1..Len(q2) /\ q2[k + e].is_rd
                    /\ q2'[k].read = q2[k + e].read
                    /\ tags'[q2'[k].mem_tag].loaded_data = tags[q2[k + e].mem_tag].loaded_data
                 \/ /\ k = n + 1 /\ d = 1 /\ 1 \in 1..Len(Pending) /\ IsLoad(P(1)) /\ q2'[k].read = P(1).read
                    /\ tags'[q2'[k].mem_tag].loaded_data = memory[P(1).read.block]
              /\ q2'[k].read \in live
  <2>1. CASE k \in 1..n
    <3>1. /\ k + e \in 1..Len(q2) /\ q2[k + e].is_rd /\ ~except /\ q2'[k].read = q2[k + e].read
          /\ tags'[q2'[k].mem_tag].loaded_data = tags[q2[k + e].mem_tag].loaded_data
      BY <1>4, <1>10, <2>1
    <3>2. q2[k + e].read \in live
      BY <1>1, <3>1
    <3> QED BY <2>1, <3>1, <3>2
  <2>2. CASE k = n + 1 /\ Len(q2') = n + 1
    <3>1. /\ ~except /\ q1_head.cmd = "load" /\ q2'[k].read = q1_head.read
          /\ tags'[q2'[k].mem_tag].loaded_data = memory[q1_head.read.block]
      BY <1>4, <1>10, <2>2
    <3>2. /\ d = 1 /\ 1 \in 1..Len(Pending) /\ IsLoad(P(1)) /\ q2'[k].read = P(1).read
          /\ q1_head = P(1)
      BY <1>3, <3>1 DEF IsLoad
    <3>3. P(1).read \in live
      BY <1>1, <3>2
    <3> QED BY <2>2, <3>1, <3>2, <3>3
  <2> QED BY <1>4, <2>1, <2>2
<1>11. ASSUME NEW k \in 1..Len(q2'), q2'[k].is_rd, NEW j \in 1..Len(Pending')
       PROVE  ~StoreOf(P1(j), q2'[k].read.block)
  <2> SUFFICES ASSUME StoreOf(P1(j), q2'[k].read.block) PROVE FALSE
    OBVIOUS
  <2>1. P1(j).cmd = "store" /\ P1(j).block = q2'[k].read.block
    BY DEF StoreOf
  <2>2. q2'[k].read \in live
    BY <1>10, <1>11
  <2>3. j + d \in 1..Len(Pending) /\ P1(j) = P(j + d)
    BY <1>3, <2>1, <2>2
  <2>4. CASE k + e \in 1..Len(q2) /\ q2[k + e].is_rd /\ q2'[k].read = q2[k + e].read
    <3>1. ~StoreOf(P(j + d), q2[k + e].read.block)
      BY <1>1, <2>3, <2>4
    <3> QED BY <2>3, <2>4, <3>1
  <2>5. CASE d = 1 /\ 1 \in 1..Len(Pending) /\ IsLoad(P(1)) /\ q2'[k].read = P(1).read
    <3>1. 1 < j + d
      BY <1>3, <2>5
    <3>2. ~StoreOf(P(j + d), P(1).read.block)
      BY <1>1, <2>3, <2>5, <3>1
    <3> QED BY <2>3, <2>5, <3>2
  <2> QED BY <1>10, <1>11, <2>4, <2>5
<1>12. ASSUME NEW k \in 1..Len(q2'), q2'[k].is_rd
       PROVE  tags'[q2'[k].mem_tag].loaded_data = Written'[q2'[k].read.block]
  <2>1. Written'[q2'[k].read.block] = Written[q2'[k].read.block]
    BY <1>5, <1>10, <1>12
  <2>2. CASE /\ k + e \in 1..Len(q2) /\ q2[k + e].is_rd /\ q2'[k].read = q2[k + e].read
             /\ tags'[q2'[k].mem_tag].loaded_data = tags[q2[k + e].mem_tag].loaded_data
    <3>1. tags[q2[k + e].mem_tag].loaded_data = Written[q2[k + e].read.block]
      BY <1>1, <2>2
    <3> QED BY <2>1, <2>2, <3>1
  <2>3. CASE /\ 1 \in 1..Len(Pending) /\ IsLoad(P(1)) /\ q2'[k].read = P(1).read
             /\ tags'[q2'[k].mem_tag].loaded_data = memory[P(1).read.block]
    <3> DEFINE b == P(1).read.block
    <3>1. b \in Blocks
      BY <1>1, <1>5, <2>3
    <3>2. Pending \in Seq(Request) /\ memory \in Memories /\ Written \in Memories /\ Len(Pending) \in Nat
      <4>1. RequestsOK /\ memory \in Memories
        BY DEF IInv, MemoryOK
      <4>2. Pending \in Seq(Request) /\ Len(Pending) \in Nat
        BY <4>1, LeftIs
      <4>3. Written = Drained(Pending, memory)
        BY DEF Written, Pending
      <4> QED BY <4>1, <4>2, <4>3, DrainedType
    <3>3. \A j \in 1..Len(Pending) : ~StoreOf(P(j), b)
      <4> SUFFICES ASSUME NEW j \in 1..Len(Pending) PROVE ~StoreOf(P(j), b)
        OBVIOUS
      <4>1. CASE j = 1
        BY <2>3, <4>1 DEF IsLoad, StoreOf
      <4>2. CASE j # 1
        <5>1. 1 < j
          BY <3>2, <4>2
        <5> QED BY <1>1, <2>3, <5>1
      <4> QED BY <4>1, <4>2
    <3> HIDE DEF b
    <3>4. ASSUME NEW u \in Units PROVE Written[b][u] = memory[b][u]
      <4>1. \A j \in 1..Len(Pending) : ~Covers(Pending[j], b, u)
        BY <3>3 DEF Covers, StoreOf, P
      <4>2. Written = Drained(Pending, memory)
        BY DEF Written, Pending
      <4> QED BY <3>1, <3>2, <4>1, <4>2, DrainedIs
    <3>5. Written[b] \in [Units -> Value] /\ memory[b] \in [Units -> Value]
      BY <3>1, <3>2 DEF Memories
    <3>6. Written[b] = memory[b]
      BY <3>4, <3>5
    <3> QED BY <2>1, <2>3, <3>6 DEF b
  <2> QED BY <1>10, <1>12, <2>2, <2>3
<1>13. Copies' = CopiesOf(cache')
  BY DEF Copies, CopiesOf
<1> QED BY <1>8, <1>9, <1>11, <1>12, <1>13 DEF OrderOK, P1

\* The answer that the controller holds is the right one.
LEMMA FeedbackNext ==
  ASSUME LAT < TAGS, IInv, NEW w, NEW r, NEW fetch, NEW except, Step(w, r, fetch, except)
  PROVE  FeedbackOK'
<1> DEFINE d == Seen
           e == Over(Tag(fetch))
           n == Len(q2) - e
           P(i) == Pending[i]
           P1(i) == Pending'[i]
           q0 == q2[1].read
<1>1. mem_feedback' = IF Filling(fetch)
                      THEN {<<q2[1].read.slot, Filled(fetch)[q2[1].read.unit]>>} ELSE {}
  BY ClockCache DEF Step
<1>2. CASE ~Filling(fetch)
  BY <1>1, <1>2 DEF FeedbackOK
<1>3. CASE Filling(fetch)
  <2>1. /\ 1 \in 1..Len(q2) /\ q2[1].is_rd /\ q0 \in live /\ q0.block \in Blocks
        /\ Filled(fetch) = Written[q0.block]
    BY <1>3, FilledIs DEF Step
  <2>2. /\ \A p, q \in live : p.slot = q.slot => p = q
        /\ \A j, k \in 1..Len(q2) : q2[k].is_rd /\ q2[j].is_rd /\ q2[j].read.slot = q2[k].read.slot => j = k
        /\ \A k \in 1..Len(q2), i \in 1..Len(Pending) :
             q2[k].is_rd /\ IsLoad(P(i)) => P(i).read.slot # q2[k].read.slot
    BY DEF IInv, ReadsOK
  <2>3. /\ \A q \in r : \A p \in live : p.slot # q.slot
        /\ \A q \in live' : q \in live \/ q \in r
    BY LiveNext
  <2>4. /\ d \in 0..1 /\ Len(Left) \in Nat /\ Len(Pending') \in Nat
        /\ q1_head.cmd = "load" => d = 1 /\ 1 \in 1..Len(Pending) /\ P(1) = q1_head
        /\ \A i \in 1..Len(Pending') : IsLoad(P1(i)) =>
             /\ ~except
             /\ \/ i <= Len(Left) /\ i + d \in 1..Len(Pending) /\ P1(i) = P(i + d)
                \/ i > Len(Left) /\ i = Len(Pending') /\ P1(i).read \in r /\ P1(i).read \notin Hits(w, r)
    BY RequestsNext
  <2>5. /\ Len(q2') \in Nat /\ n \in Nat /\ e \in 0..1 /\ Len(q2') <= n + 1
        /\ \A i \in 1..n : /\ i + e \in 1..Len(q2) /\ q2'[i].read = q2[i + e].read
                           /\ (q2'[i].is_rd <=> q2[i + e].is_rd /\ ~except)
        /\ Len(q2') = n + 1 => /\ q1_head.cmd = "load"
                               /\ q2'[n + 1].read = q1_head.read
        /\ e = 1
    BY <1>3, Q2Next
  <2>6. /\ q0.unit \in Units /\ q0.slot \in Slots
        /\ Flat[q0.block] = Written[q0.block] /\ Flat'[q0.block] = Flat[q0.block]
    BY <2>1, BlocksOfReads
  <2>7. Written[q0.block] \in [Units -> Value]
    <3>1. MemoryOK /\ RequestsOK /\ w \in Writes /\ r \in Reads /\ \A x \in w, q \in r : x.block # q.block
      BY DEF IInv, Step
    <3>2. Written \in Memories
      BY <3>1, StagesAre
    <3> QED BY <2>1, <3>2 DEF Memories
  <2> DEFINE a == <<q0.slot, Filled(fetch)[q0.unit]>>
  <2>8. mem_feedback' = {a} /\ a[1] = q0.slot /\ a[2] = Written[q0.block][q0.unit]
    BY <1>1, <1>3, <2>1
  <2>9. a \in Slots \X Value
    BY <2>1, <2>6, <2>7
  <2> HIDE DEF a, q0, P, P1, d, e, n
  <2>10. ASSUME NEW q \in live', q.slot = a[1] PROVE a[2] = Flat'[q.block][q.unit]
    <3>1. q = q0
      BY <2>1, <2>2, <2>3, <2>8, <2>10
    <3> QED BY <2>6, <2>8, <3>1
  <2>11. ASSUME NEW i \in 1..Len(Pending'), IsLoad(P1(i)) PROVE P1(i).read.slot # a[1]
    <3>1. CASE P1(i).read \in r
      BY <2>1, <2>3, <2>8, <3>1
    <3>2. CASE i + d \in 1..Len(Pending) /\ P1(i) = P(i + d)
      <4>1. IsLoad(P(i + d))
        BY <2>11, <3>2
      <4>2. P(i + d).read.slot # q2[1].read.slot
        BY <2>1, <2>2, <3>2, <4>1
      <4> QED BY <2>8, <3>2, <4>2 DEF q0
    <3> QED BY <2>4, <2>11, <3>1, <3>2
  <2>12. ASSUME NEW k \in 1..Len(q2'), q2'[k].is_rd PROVE q2'[k].read.slot # a[1]
    <3>1. CASE k \in 1..n
      <4>1. k + e \in 1..Len(q2) /\ q2[k + e].is_rd /\ q2'[k].read = q2[k + e].read /\ k + e # 1
        BY <2>5, <2>12, <3>1
      <4>2. q2[k + e].read.slot # q2[1].read.slot
        BY <2>1, <2>2, <4>1
      <4> QED BY <2>8, <4>1, <4>2 DEF q0
    <3>2. CASE k = n + 1 /\ Len(q2') = n + 1
      <4>1. q1_head.cmd = "load" /\ q2'[k].read = q1_head.read
        BY <2>5, <3>2
      <4>2. 1 \in 1..Len(Pending) /\ IsLoad(P(1)) /\ q2'[k].read = P(1).read
        BY <2>4, <4>1 DEF IsLoad
      <4>3. P(1).read.slot # q2[1].read.slot
        BY <2>1, <2>2, <4>2
      <4> QED BY <2>8, <4>2, <4>3 DEF q0
    <3> QED BY <2>5, <3>1, <3>2
  <2>13. mem_feedback' \subseteq Slots \X Value
    BY <2>8, <2>9
  <2> QED BY <2>8, <2>10, <2>11, <2>12, <2>13 DEF FeedbackOK, P1
<1> QED BY <1>2, <1>3

\* Memory, the cache and the counters.
LEMMA MemoryNext ==
  ASSUME LAT < TAGS, IInv, NEW w, NEW r, NEW fetch, NEW except, Step(w, r, fetch, except)
  PROVE  MemoryOK'
<1>1. /\ MemoryOK /\ w \in Writes /\ r \in Reads /\ Clock(w, r, fetch, except)
      /\ fetch \in BOOLEAN /\ except \in BOOLEAN
      /\ refill \in 0..Refill /\ Refill \in Nat /\ MaxWrites \in Nat
      /\ used \in [writes : 0..MaxWrites, reads : Nat, squashes : Nat, fetches : Nat]
  BY Sizes DEF Step, IInv, MemoryOK
<1>10. Clock(w, r, fetch, except)
  BY DEF Step
<1>2. memory' \in Memories
  BY RequestsNext
<1>3. CacheOK(cache', Written')
  BY CacheNext
<1>4. refill' \in 0..Refill
  <2>1. refill' = IF except THEN Refill ELSE IF refill > 0 THEN refill - 1 ELSE 0
    BY <1>10 DEF Clock
  <2> QED BY <1>1, <2>1
<1> DEFINE W == used.writes + Cardinality(w)
           R == used.reads + Cardinality(r)
           S == used.squashes + (IF except THEN 1 ELSE 0)
           F == used.fetches + (IF fetch THEN 1 ELSE 0)
<1>5. W \in 0..MaxWrites
  <2>1. CASE w = {}
    <3>1. Cardinality(w) = 0
      BY <2>1, FS_EmptySet
    <3> QED BY <1>1, <3>1
  <2>2. CASE w # {}
    <3>1. PICK k \in Blocks, u \in Units : \E d \in [{u} -> Value] :
            /\ w = {Store(k, d)} /\ Requested(w) = <<Store(k, d)>>
            /\ d = [y \in {u} |-> <<k, used.writes + 2>>]
            /\ used.writes < MaxWrites /\ \A p \in live : p.block # k
      BY <1>1, <2>2, WritesAre
    <3>2. PICK x : w = {x} /\ used.writes < MaxWrites
      BY <3>1
    <3>3. Cardinality(w) = 1
      BY <3>2, FS_Singleton
    <3> QED BY <1>1, <3>2, <3>3
  <2> QED BY <2>1, <2>2
<1>6. R \in Nat
  <2>1. CASE r = {}
    <3>1. Cardinality(r) = 0
      BY <2>1, FS_EmptySet
    <3> QED BY <1>1, <3>1
  <2>2. CASE r # {}
    <3>1. PICK q \in Read : /\ r = {q} /\ Requested(r) = <<q>> /\ refill = 0
                            /\ \A p \in live : p.slot # q.slot
      BY <1>1, <2>2, ReadsAre
    <3>2. Cardinality(r) = 1
      BY <3>1, FS_Singleton
    <3> QED BY <1>1, <3>2
  <2> QED BY <2>1, <2>2
<1>7. S \in Nat /\ F \in Nat
  BY <1>1
<1>8. used' = [used EXCEPT !.writes = W, !.reads = R, !.squashes = S, !.fetches = F]
  BY <1>10, Zenon DEF Clock
<1> HIDE DEF W, R, S, F
<1>9. used' \in [writes : 0..MaxWrites, reads : Nat, squashes : Nat, fetches : Nat]
  BY <1>1, <1>5, <1>6, <1>7, <1>8
<1> QED BY <1>2, <1>3, <1>4, <1>9 DEF MemoryOK

\* A clock edge keeps the invariant.
LEMMA StepKeeps ==
  ASSUME LAT < TAGS, IInv, NEW w, NEW r, NEW fetch, NEW except, Step(w, r, fetch, except)
  PROVE  IInv'
<1>1. MemoryOK'
  BY MemoryNext
<1>2. TagsOK' /\ Q2OK'
  BY Q2Next
<1>3. RequestsOK'
  BY CacheNext
<1>4. ReadsOK'
  BY ReadsNext
<1>5. OrderOK'
  BY OrderNext
<1>6. FeedbackOK'
  BY FeedbackNext
<1> QED BY <1>1, <1>2, <1>3, <1>4, <1>5, <1>6 DEF IInv

\* Every step of the system is such an edge.
LEMMA NextIsStep ==
  ASSUME Next
  PROVE  \E w \in Writes, r \in Reads, fetch \in BOOLEAN, except \in BOOLEAN : Step(w, r, fetch, except)
<1>1. PICK w \in Writes, r \in Reads, fetch \in {f \in BOOLEAN : f => q1_head.cmd = "none" /\ used.fetches < MaxFetches},
           except \in {x \in BOOLEAN : x => used.squashes < MaxSquashes} :
             /\ \A x \in w, q \in r : x.block # q.block
             /\ Clock(w, r, fetch, except)
  BY DEF Next
<1>2. Step(w, r, fetch, except)
  BY <1>1 DEF Step
<1> QED BY <1>1, <1>2

\* A step that changes nothing keeps the invariant.
LEMMA StutterKeeps ==
  ASSUME IInv, UNCHANGED vars
  PROVE  IInv' /\ Flat' = Flat
<1>1. /\ cache' = cache /\ new' = new /\ q1' = q1 /\ q2' = q2 /\ tags' = tags /\ memory' = memory
      /\ mem_feedback' = mem_feedback /\ live' = live /\ refill' = refill /\ used' = used
  BY DEF vars
<1>2. Written' = Written /\ Pending' = Pending /\ Copies' = Copies
  BY <1>1 DEF Written, Pending, Copies
<1>3. Flat' = Flat
  BY <1>2 DEF Flat
<1>4. MemoryOK'
  BY <1>1, <1>2 DEF IInv, MemoryOK
<1>5. TagsOK' /\ Q2OK'
  BY <1>1 DEF IInv, TagsOK, Q2OK
<1>6. RequestsOK'
  BY <1>1 DEF IInv, RequestsOK
<1>7. ReadsOK'
  BY <1>1, <1>2 DEF IInv, ReadsOK
<1>8. OrderOK'
  BY <1>1, <1>2 DEF IInv, OrderOK
<1>9. FeedbackOK'
  BY <1>1, <1>2, <1>3 DEF IInv, FeedbackOK
<1> QED BY <1>3, <1>4, <1>5, <1>6, <1>7, <1>8, <1>9 DEF IInv

\* The caches from which a run may start are in front of the memory at reset.
LEMMA DrainedCachesAre ==
  ASSUME NEW c \in DrainedCaches, NEW m, m = [b \in Blocks |-> Contents(b, 0)]
  PROVE  CacheOK(c, m) /\ m \in Memories
<1> DEFINE Holding(b, d) == [block |-> b, dirty |-> d, data |-> Contents(b, IF d THEN 1 ELSE 0)]
           Lines == {NoLine} \cup {Holding(b, d) : b \in Blocks, d \in BOOLEAN}
<1>1. /\ c \in [line : [Sets -> Lines], victim : [0..1 -> Lines], victim_lru : 0..1]
      /\ \A s \in Sets : Valid(c.line[s]) => Index[c.line[s].block] = s
      /\ \A i \in 0..1 : Valid(c.victim[i]) =>
           Valid(c.line[Index[c.victim[i].block]]) /\ ~Hit(c, c.victim[i].block)
      /\ Valid(c.victim[1]) => Valid(c.victim[0]) /\ c.victim[0].block # c.victim[1].block
  BY DEF DrainedCaches
<1>2. \A b \in Blocks : Contents(b, 0) \in [Units -> Value] /\ Contents(b, 1) \in [Units -> Value]
  <2>1. 0 \in 0..(MaxWrites + 1) /\ 1 \in 0..(MaxWrites + 1)
    BY Sizes
  <2> QED BY <2>1 DEF Contents, Value
<1>3. \A b \in Blocks : m[b] = Contents(b, 0)
  OBVIOUS
<1>4. m \in Memories
  BY <1>2 DEF Memories
<1>5. NoLine \in Line /\ ~Valid(NoLine)
  BY DEF NoLine, Line, Valid, Garbage
<1>6. ASSUME NEW b \in Blocks, NEW d \in BOOLEAN
      PROVE  /\ Holding(b, d) \in Line /\ Holding(b, d).data \in [Units -> Value]
             /\ Holding(b, d).block = b /\ (Holding(b, d).dirty \/ Holding(b, d).data = m[b])
  <2>1. CASE d
    BY <1>2, <2>1 DEF Line
  <2>2. CASE ~d
    BY <1>2, <1>3, <2>2 DEF Line
  <2> QED BY <2>1, <2>2
<1>7. Lines = {NoLine} \cup {Holding(b, d) : b \in Blocks, d \in BOOLEAN}
  OBVIOUS
<1> HIDE DEF Holding, Lines
<1>8. \A l \in Lines : /\ l \in Line
                       /\ Valid(l) => l.data \in [Units -> Value] /\ (l.dirty \/ l.data = m[l.block])
  BY <1>5, <1>6, <1>7
<1>9. c \in CacheType
  BY <1>1, <1>8 DEF CacheType
<1>10. c.line \in [Sets -> Lines] /\ c.victim \in [0..1 -> Lines]
  BY <1>1
<1>11. Backed(c, m)
  BY <1>8, <1>10 DEF Backed, CopiesOf
<1>12. Apart(c)
  <2>1. Valid(c.victim[0]) => c.victim[0].block # c.victim[1].block
    BY <1>1 DEF Valid
  <2> QED BY <1>1, <2>1 DEF Apart, Hit
<1> QED BY <1>4, <1>9, <1>11, <1>12 DEF CacheOK

\* The invariant holds at reset.
LEMMA InitKeeps ==
  ASSUME Init
  PROVE  IInv
<1>1. /\ cache \in DrainedCaches /\ new = <<>> /\ q1 = <<>> /\ q2 = <<>>
      /\ memory = [b \in Blocks |-> Contents(b, 0)]
      /\ mem_feedback = {} /\ live = {} /\ refill = 0
      /\ used = [writes |-> 0, reads |-> 0, squashes |-> 0, fetches |-> 0]
  BY StartsAssumption DEF Init, StartsAssumption
<1>2. CacheOK(cache, memory) /\ memory \in Memories
  BY <1>1, DrainedCachesAre
<1>3. Pending = <<>> /\ Pending \in Seq(Request) /\ Len(Pending) = 0
  BY <1>1 DEF Pending
<1>4. Written = memory
  <2>1. Written = Drained(Pending, memory) /\ Written \in Memories
    BY <1>2, <1>3, DrainedType DEF Written, Pending
  <2>2. ASSUME NEW b \in Blocks, NEW u \in Units PROVE Written[b][u] = memory[b][u]
    <3>1. ~\E i \in 1..Len(Pending) : TRUE
      BY <1>3
    <3>2. \/ /\ \A i \in 1..Len(Pending) : ~Covers(Pending[i], b, u)
             /\ Drained(Pending, memory)[b][u] = memory[b][u]
          \/ \E i \in 1..Len(Pending) :
               /\ Covers(Pending[i], b, u) /\ \A j \in 1..Len(Pending) : Covers(Pending[j], b, u) => j <= i
               /\ Drained(Pending, memory)[b][u] = Pending[i].data[u]
      <4>1. Pending \in Seq(Request) /\ memory \in Memories
        BY <1>2, <1>3
      <4> QED BY <4>1, DrainedIs
    <3>3. Drained(Pending, memory)[b][u] = memory[b][u]
      BY <3>1, <3>2
    <3> QED BY <2>1, <3>3
  <2> QED BY <1>2, <2>1, <2>2, SameMemory
<1>5. MemoryOK
  BY <1>1, <1>2, <1>4, Sizes DEF MemoryOK
<1>6. TagsOK
  <2>1. tags = [i \in 1..TAGS |-> [cycles_left |-> 0, waiting_for_bus |-> FALSE, loaded_data |-> Garbage]]
    BY DEF Init
  <2>2. Garbage \in [Units -> Value \cup {<<NoBlock, 0>>}] /\ 0 \in 0..LAT
    BY Sizes DEF Garbage
  <2>3. \A i \in 1..TAGS : tags[i].cycles_left = 0 /\ tags[i].waiting_for_bus = FALSE
    BY <2>1
  <2>4. tags \in [1..TAGS -> [cycles_left : 0..LAT, waiting_for_bus : BOOLEAN,
                              loaded_data : [Units -> Value \cup {<<NoBlock, 0>>}]]]
    BY <2>1, <2>2
  <2> QED BY <2>3, <2>4 DEF TagsOK
<1>7. Q2OK /\ RequestsOK
  BY <1>1 DEF Q2OK, RequestsOK
<1>8. ReadsOK
  BY <1>1, <1>3 DEF ReadsOK
<1>9. OrderOK
  BY <1>1, <1>3 DEF OrderOK
<1>10. FeedbackOK
  BY <1>1 DEF FeedbackOK
<1> QED BY <1>5, <1>6, <1>7, <1>8, <1>9, <1>10 DEF IInv

-----------------------------------------------------------------------------
(* A clock edge is a cycle of the flat memory. *)

\* The store that is asked for is a request of the flat memory, and performed.
LEMMA StoreIsPerformed ==
  ASSUME LAT < TAGS, IInv, NEW w, NEW r, NEW fetch, NEW except, Step(w, r, fetch, except)
  PROVE  Memory!Request(request') /\ Memory!Perform(request'.write)
<1> DEFINE part(x) == [block |-> x.block, data |-> x.data]
           W == {part(x) : x \in w}
<1>1. /\ w = {} => Flat' = Flat
      /\ \A x \in w : x \in Request /\ Flat' = Performed(Flat, x)
  BY CacheNext
<1>2. w \in Writes /\ r \in Reads /\ except \in BOOLEAN /\ Clock(w, r, fetch, except) /\ MemoryOK
  BY DEF Step, IInv
<1>3. request' = [write |-> W, read |-> r, except |-> except]
  BY <1>2 DEF Clock
<1>4. /\ r \subseteq Read /\ \A x, y \in r : x = y
  BY <1>2 DEF Reads
<1>5. CASE w = {}
  <2>1. W = {}
    BY <1>5
  <2>2. Memory!Request(request')
    BY <1>2, <1>3, <1>4, <2>1 DEF Memory!Request, Memory!Read, Read
  <2> QED BY <1>1, <1>3, <1>5, <2>1, <2>2 DEF Memory!Perform
<1>6. CASE w # {}
  <2>1. PICK b \in Blocks, u \in Units : \E d \in [{u} -> Value] :
          /\ w = {Store(b, d)} /\ Requested(w) = <<Store(b, d)>>
          /\ d = [y \in {u} |-> <<b, used.writes + 2>>]
          /\ used.writes < MaxWrites /\ \A p \in live : p.block # b
    BY <1>2, <1>6, WritesAre
  <2>2. PICK d \in [{u} -> Value] : w = {Store(b, d)}
    BY <2>1
  <2>3. Store(b, d).cmd = "store" /\ Store(b, d).block = b /\ Store(b, d).data = d
    BY DEF Store
  <2>4. part(Store(b, d)).block = b /\ part(Store(b, d)).data = d
    BY <2>3
  <2>5. W = {part(Store(b, d))}
    BY <2>2
  <2> HIDE DEF part, W
  <2>6. DOMAIN d = {u} /\ d \in [DOMAIN d -> Value] /\ DOMAIN d \subseteq Units
    BY <2>2
  <2>7. Memory!Request(request')
    <3>1. \A x \in W : x.block = b /\ x.data = d /\ x = part(Store(b, d))
      BY <2>4, <2>5
    <3>2. \A x \in request'.write : /\ x.block \in Blocks
            /\ DOMAIN x.data \subseteq Units /\ x.data \in [DOMAIN x.data -> Value]
      BY <1>3, <2>6, <3>1
    <3>3. \A x, y \in request'.write : x = y
      BY <1>3, <3>1
    <3>4. /\ request'.read \subseteq Memory!Read /\ \A x, y \in request'.read : x = y
          /\ request'.except \in BOOLEAN
      BY <1>2, <1>3, <1>4 DEF Memory!Read, Read
    <3> QED BY <3>2, <3>3, <3>4 DEF Memory!Request
  <2>8. Flat' = [Flat EXCEPT ![b] = Overlay(d, Flat[b])]
    BY <1>1, <2>2, <2>3 DEF Performed
  <2>9. Overlay(d, Flat[b]) = [y \in Units |-> IF y \in DOMAIN d THEN d[y] ELSE Flat[b][y]]
    BY DEF Overlay
  <2>10. \A x \in W : Flat' = [Flat EXCEPT ![x.block] =
           [y \in Units |-> IF y \in DOMAIN x.data THEN x.data[y] ELSE @[y]]]
    BY <2>4, <2>5, <2>8, <2>9
  <2>11. W # {} /\ request'.write = W
    BY <1>3, <2>5
  <2> QED BY <2>7, <2>10, <2>11 DEF Memory!Perform
<1> QED BY <1>5, <1>6

\* What a read finds in the cache is what the flat memory holds.
LEMMA HitsSeeFlat ==
  ASSUME LAT < TAGS, IInv, NEW w, NEW r, NEW fetch, NEW except, Step(w, r, fetch, except),
         NEW q \in Hits(w, r)
  PROVE  q \in r /\ q \in Read
         /\ ReadStage(w, r).line[Index[q.block]].data[q.unit] = Flat'[q.block][q.unit]
<1> DEFINE c2 == ReadStage(w, r)
           m1 == All(Written, WriteMiss(w))
<1>1. /\ MemoryOK /\ RequestsOK /\ w \in Writes /\ r \in Reads /\ \A x \in w, p \in r : x.block # p.block
  BY DEF Step, IInv
<1>2. q \in r /\ Hit(c2, q.block)
  BY DEF Hits
<1>3. q \in Read
  BY <1>2, LiveNext
<1>4. q.block \in Blocks
  BY <1>3 DEF Read
<1>5. /\ CacheOK(c2, m1)
      /\ w = {} => View(c2, m1) = View(cache, Written)
      /\ \A x \in w : View(c2, m1) = Performed(View(cache, Written), x)
  BY <1>1, StagesAre
<1>6. /\ w = {} => Flat' = Flat
      /\ \A x \in w : Flat' = Performed(Flat, x)
  BY CacheNext
<1>7. Flat = View(cache, Written)
  BY DEF Flat, View, Copies, CopiesOf
<1>8. Flat' = View(c2, m1)
  BY <1>5, <1>6, <1>7
<1> HIDE DEF c2, m1
<1>9. c2 \in CacheType /\ Apart(c2)
  BY <1>5 DEF CacheOK
<1>10. c2.line[Index[q.block]] \in CopiesOf(c2) /\ c2.line[Index[q.block]].block = q.block
  BY <1>2, <1>4, <1>9, CopiesAre DEF Hit
<1>11. View(c2, m1)[q.block] = c2.line[Index[q.block]].data
  BY <1>4, <1>9, <1>10, ViewIs
<1> QED BY <1>2, <1>3, <1>8, <1>11 DEF c2

\* The slots that are told something in this cycle.
Done(w, r) == {a[1] : a \in Told(w, r)}

\* What the load queue is told is what the flat memory answers.
LEMMA ToldIs ==
  ASSUME LAT < TAGS, IInv, NEW w, NEW r, NEW fetch, NEW except, Step(w, r, fetch, except)
  PROVE  /\ Done(w, r) \in SUBSET Slots
         /\ Told(w, r) = {<<q.slot, Flat'[q.block][q.unit]>> : q \in {p \in live \cup r : p.slot \in Done(w, r)}}
<1> DEFINE val(q) == Flat'[q.block][q.unit]
           H == {<<q.slot, ReadStage(w, r).line[Index[q.block]].data[q.unit]>> : q \in Hits(w, r)}
           F == {a \in mem_feedback : \E q \in live : q.slot = a[1]}
           A == {<<q.slot, val(q)>> : q \in {p \in live \cup r : p.slot \in Done(w, r)}}
<1>1. Told(w, r) = H \cup F
  BY DEF Told
<1>2. /\ \A q \in r : q \in Read /\ (\A p \in live : p.slot # q.slot) /\ (\A p \in r : p = q)
      /\ live \subseteq Read /\ \A p, q \in live : p.slot = q.slot => p = q
      /\ mem_feedback \subseteq Slots \X Value
      /\ \A a \in mem_feedback : \A q \in live : q.slot = a[1] => a[2] = Flat[q.block][q.unit]
  BY LiveNext DEF IInv, ReadsOK, FeedbackOK
<1>3. \A q \in live : Flat'[q.block] = Flat[q.block]
  BY BlocksOfReads
<1>4. \A q \in Hits(w, r) : q \in r /\ q \in Read
                            /\ ReadStage(w, r).line[Index[q.block]].data[q.unit] = val(q)
  BY HitsSeeFlat
<1> HIDE DEF val
<1>5. H = {<<q.slot, val(q)>> : q \in Hits(w, r)}
  BY <1>4
<1> HIDE DEF H
<1>6. \A a \in H : \E q \in Hits(w, r) : a = <<q.slot, val(q)>> /\ a[1] = q.slot /\ q \in r /\ q \in Read
  BY <1>4, <1>5
<1>7. ASSUME NEW a \in F PROVE \E q \in live : a = <<q.slot, val(q)>> /\ a[1] = q.slot /\ q \in Read
  <2>1. PICK q \in live : q.slot = a[1]
    OBVIOUS
  <2>2. a = <<a[1], a[2]>> /\ a[2] = Flat[q.block][q.unit]
    BY <1>2, <2>1
  <2>3. val(q) = a[2]
    BY <1>3, <2>2 DEF val
  <2> QED BY <1>2, <2>1, <2>2, <2>3
<1> HIDE DEF F
<1>8. Done(w, r) = {a[1] : a \in H \cup F}
  BY <1>1 DEF Done
<1>9. Done(w, r) \in SUBSET Slots
  <2>1. \A q \in Read : q.slot \in Slots
    BY DEF Read
  <2> QED BY <1>6, <1>7, <1>8, <2>1
<1>10. Told(w, r) \subseteq A
  <2> SUFFICES ASSUME NEW a \in Told(w, r) PROVE a \in A
    OBVIOUS
  <2>1. PICK q \in live \cup r : a = <<q.slot, val(q)>> /\ a[1] = q.slot
    BY <1>1, <1>6, <1>7
  <2>2. q.slot \in Done(w, r)
    BY <2>1 DEF Done
  <2> QED BY <2>1, <2>2
<1>11. A \subseteq Told(w, r)
  <2> SUFFICES ASSUME NEW q \in live \cup r, q.slot \in Done(w, r) PROVE <<q.slot, val(q)>> \in Told(w, r)
    OBVIOUS
  <2>1. PICK a \in H \cup F : q.slot = a[1]
    BY <1>8
  <2>2. CASE a \in H
    <3>1. PICK p \in Hits(w, r) : a = <<p.slot, val(p)>> /\ a[1] = p.slot /\ p \in r
      BY <1>6, <2>2
    <3>2. p = q
      BY <1>2, <2>1, <3>1
    <3> QED BY <1>1, <2>2, <3>1, <3>2
  <2>3. CASE a \in F
    <3>1. PICK p \in live : a = <<p.slot, val(p)>> /\ a[1] = p.slot
      BY <1>7, <2>3
    <3>2. p = q
      BY <1>2, <2>1, <3>1
    <3> QED BY <1>1, <2>3, <3>1, <3>2
  <2> QED BY <2>1, <2>2, <2>3
<1>12. Told(w, r) = A
  BY <1>10, <1>11
<1> QED BY <1>9, <1>12 DEF val

\* A clock edge is a cycle of the flat memory.
LEMMA StepIsCycle ==
  ASSUME LAT < TAGS, IInv, NEW w, NEW r, NEW fetch, NEW except, Step(w, r, fetch, except)
  PROVE  Memory!Next
<1> DEFINE done == Done(w, r)
           answered == {q \in live \cup r : q.slot \in done}
<1>1. done \in SUBSET Slots
  BY ToldIs
<1>2. request'.read = r /\ request'.except = except
  <2>1. request'.read = r /\ request'.except = except
    BY DEF Step, Clock
  <2> QED BY <2>1
<1>3. live' = IF except THEN {} ELSE (live \cup r) \ answered
  <2>1. live' = IF except THEN {} ELSE {q \in live \cup r : \A a \in Told(w, r) : a[1] # q.slot}
    BY ClockCache DEF Step
  <2>2. \A q : (\A a \in Told(w, r) : a[1] # q.slot) <=> q.slot \notin done
    BY DEF Done
  <2> QED BY <2>1, <2>2
<1>4. Memory!Request(request') /\ Memory!Perform(request'.write)
  BY StoreIsPerformed
<1>5. answer' = {<<q.slot, Flat'[q.block][q.unit]>> : q \in answered}
  <2>1. answer' = Told(w, r)
    BY ClockCache DEF Step
  <2> QED BY <2>1, ToldIs
<1> HIDE DEF done
<1>6. Memory!Answer(done)
  BY <1>2, <1>3, <1>5 DEF Memory!Answer
<1> QED BY <1>1, <1>4, <1>6 DEF Memory!Next

-----------------------------------------------------------------------------
(* How many reads the controller's second queue holds. *)

\* Cycles until the data of a read that memory has taken is on the bus.
Wait(k) == tags[q2[k].mem_tag].cycles_left

\* A read that was cancelled is further ahead of every read that the load queue
\* still waits for than the cycles that nothing was asked for.
GapOK ==
  \A k \in 1..Len(q2) : ~q2[k].is_rd =>
    /\ Wait(k) <= LAT - Refill + refill
    /\ \A i \in 1..Len(new) : IsLoad(new[i]) => Wait(k) <= LAT - Refill - 1
    /\ \A i \in 1..Len(q1) : IsLoad(q1[i]) => Wait(k) <= LAT - Refill - 2
    /\ \A j \in 1..Len(q2) : q2[j].is_rd => Wait(j) >= Wait(k) + (Refill + 3)

\* The reads that are waited for have a slot each; cancelled ones and the ones
\* behind their gap share the latency.
Q2Bounded == Len(q2) <= Cardinality(Slots) \/ Len(q2) <= LAT - Refill - 2

\* Where the loads in both parts of the first queue come from.
LEMMA LoadsNext ==
  ASSUME LAT < TAGS, IInv, NEW w, NEW r, NEW fetch, NEW except, Step(w, r, fetch, except)
  PROVE  /\ \A i \in 1..Len(new') : IsLoad(new'[i]) => ~except /\ r # {}
         /\ \A i \in 1..Len(q1') : IsLoad(q1'[i]) =>
              /\ ~except
              /\ \/ \E j \in 1..Len(q1) : IsLoad(q1[j])
                 \/ \E j \in 1..Len(new) : IsLoad(new[j])
<1>1. /\ RequestsOK /\ RequestsOK' /\ memory \in Memories
      /\ except \in BOOLEAN /\ Clock(w, r, fetch, except)
  BY StepKeeps DEF Step, IInv, MemoryOK
<1>2. /\ q1 \in Seq(Request) /\ new \in Seq(Request) /\ q1' \in Seq(Request) /\ new' \in Seq(Request)
      /\ Len(q1) \in Nat /\ Len(new) \in Nat /\ Len(q1') \in Nat /\ Len(new') \in Nat
  BY <1>1, LenProperties DEF RequestsOK
<1>3. /\ Len(Pending) = Len(q1) + Len(new) /\ Len(Pending') = Len(q1') + Len(new')
      /\ \A i \in 1..(Len(q1) + Len(new)) : Pending[i] = IF i <= Len(q1) THEN q1[i] ELSE new[i - Len(q1)]
      /\ \A i \in 1..(Len(q1') + Len(new')) : Pending'[i] = IF i <= Len(q1') THEN q1'[i] ELSE new'[i - Len(q1')]
  BY <1>2, ConcatProperties DEF Pending
<1>4. /\ Left \in Seq(Request) /\ q1' = CancelAll(except, Left)
  <2>1. q1' = CancelAll(except, Left)
    BY <1>1, ClockQueues
  <2>2. Left \in Seq(Request)
    BY <1>1, LeftIs
  <2> QED BY <2>1, <2>2
<1>5. Len(q1') = Len(Left)
  BY <1>1, <1>4, CancelAllIs
<1>6. /\ Seen \in 0..1
      /\ \A i \in 1..Len(Pending') : IsLoad(Pending'[i]) =>
           /\ ~except
           /\ \/ /\ i <= Len(Left) /\ i + Seen \in 1..Len(Pending) /\ Pending'[i] = Pending[i + Seen]
              \/ /\ i > Len(Left) /\ i = Len(Pending')
                 /\ Pending'[i].read \in r /\ Pending'[i].read \notin Hits(w, r)
  BY RequestsNext
<1> DEFINE a == Len(q1)
           b == Len(new)
           a1 == Len(q1')
           b1 == Len(new')
           P(i) == Pending[i]
           P1(i) == Pending'[i]
<1>7. ASSUME NEW i \in 1..b1, IsLoad(new'[i])
      PROVE  ~except /\ r # {}
  <2> DEFINE k == a1 + i
  <2>1. k \in 1..(a1 + b1) /\ ~(k <= a1) /\ k - a1 = i
    BY <1>2
  <2> HIDE DEF k
  <2>2. P1(k) = new'[k - a1]
    BY <1>3, <2>1
  <2>3. k \in 1..Len(Pending') /\ IsLoad(P1(k)) /\ ~(k <= Len(Left))
    BY <1>3, <1>5, <1>7, <2>1, <2>2
  <2> QED BY <1>6, <2>3
<1>8. ASSUME NEW i \in 1..a1, IsLoad(q1'[i])
      PROVE  /\ ~except
             /\ \/ \E j \in 1..a : IsLoad(q1[j])
                \/ \E j \in 1..b : IsLoad(new[j])
  <2>1. i \in 1..(a1 + b1) /\ i <= a1
    BY <1>2
  <2>2. i \in 1..Len(Pending') /\ IsLoad(P1(i)) /\ P1(i) = q1'[i] /\ ~(i > Len(Left))
    BY <1>2, <1>3, <1>5, <1>8, <2>1
  <2>3. ~except /\ i + Seen \in 1..Len(Pending) /\ P1(i) = P(i + Seen)
    BY <1>6, <2>2
  <2> DEFINE k == i + Seen
  <2>4. k \in 1..(a + b) /\ IsLoad(P(k))
    BY <1>3, <2>2, <2>3
  <2> HIDE DEF k
  <2>5. CASE k <= a
    <3>1. k \in 1..a /\ P(k) = q1[k]
      BY <1>2, <1>3, <2>4, <2>5
    <3> QED BY <2>3, <2>4, <3>1
  <2>6. CASE ~(k <= a)
    <3>1. k - a \in 1..b /\ P(k) = new[k - a]
      BY <1>2, <1>3, <2>4, <2>6
    <3> QED BY <2>3, <2>4, <3>1
  <2> QED BY <2>5, <2>6
<1> QED BY <1>7, <1>8

\* The gap stays while both pass through the memory: Refill cycles until the
\* next read is asked for, and three until memory has taken it.
LEMMA GapNext ==
  ASSUME LAT < TAGS, IInv, GapOK, NEW w, NEW r, NEW fetch, NEW except, Step(w, r, fetch, except)
  PROVE  GapOK'
<1> DEFINE e == Over(Tag(fetch))
           n == Len(q2) - e
           W(k) == Wait(k)
           W1(k) == tags'[q2'[k].mem_tag].cycles_left
<1>1. /\ Len(q2') \in Nat /\ n \in Nat /\ e \in 0..1 /\ Len(q2') <= n + 1
      /\ \A i \in 1..n : /\ i + e \in 1..Len(q2)
                         /\ (q2'[i].is_rd <=> q2[i + e].is_rd /\ ~except)
                         /\ W1(i) = W(i + e) - 1
      /\ Len(q2') = n + 1 => /\ q1_head.cmd = "load"
                             /\ (q2'[n + 1].is_rd <=> ~except)
                             /\ W1(n + 1) = LAT
  BY Q2Next DEF Wait
<1>2. /\ \A k \in 1..Len(q2) : W(k) \in Int
      /\ \A k \in 1..Len(q2') : W1(k) \in 0..LAT
  <2>1. TagsOK /\ Q2OK /\ TagsOK' /\ Q2OK'
    BY Q2Next DEF IInv
  <2>2. \A k \in 1..Len(q2) : q2[k].mem_tag \in 1..TAGS
    <3>1. \A k \in 1..Len(q2) : q2[k] \in Q2Entry
      BY <2>1, ElementOfSeq DEF Q2OK
    <3> QED BY <3>1 DEF Q2Entry
  <2>3. \A k \in 1..Len(q2') : q2'[k].mem_tag \in 1..TAGS
    <3>1. \A k \in 1..Len(q2') : q2'[k] \in Q2Entry
      BY <2>1, ElementOfSeq DEF Q2OK
    <3> QED BY <3>1 DEF Q2Entry
  <2> QED BY <2>1, <2>2, <2>3, Sizes, SMTT(30) DEF TagsOK, Wait
<1>3. /\ refill \in 0..Refill /\ LAT \in Nat /\ Refill \in Nat
      /\ refill' = IF except THEN Refill ELSE IF refill > 0 THEN refill - 1 ELSE 0
  BY Sizes, Zenon DEF IInv, MemoryOK, Step, Clock
<1>4. r # {} => refill = 0
  BY ReadsAre DEF Step
<1>5. /\ \A i \in 1..Len(new') : IsLoad(new'[i]) => ~except /\ refill = 0
      /\ \A i \in 1..Len(q1') : IsLoad(q1'[i]) =>
           /\ ~except
           /\ \/ \E j \in 1..Len(q1) : IsLoad(q1[j])
              \/ \E j \in 1..Len(new) : IsLoad(new[j])
  BY <1>4, LoadsNext
<1>6. q1_head.cmd = "load" => \E j \in 1..Len(q1) : IsLoad(q1[j])
  <2>1. q1 \in Seq(Request)
    BY DEF IInv, RequestsOK
  <2>2. CASE q1 = <<>>
    BY <2>2 DEF q1_head, NoOp
  <2>3. CASE q1 # <<>>
    BY <2>1, <2>3, EmptySeq, LenProperties, HeadTailProperties DEF q1_head, IsLoad
  <2> QED BY <2>2, <2>3
<1>7. \A k \in 1..Len(q2) : ~q2[k].is_rd =>
        /\ W(k) <= LAT - Refill + refill
        /\ (\E i \in 1..Len(new) : IsLoad(new[i])) => W(k) <= LAT - Refill - 1
        /\ (\E i \in 1..Len(q1) : IsLoad(q1[i])) => W(k) <= LAT - Refill - 2
        /\ \A j \in 1..Len(q2) : q2[j].is_rd => W(j) >= W(k) + (Refill + 3)
  BY DEF GapOK
<1> HIDE DEF e, n, W, W1
<1>8. ASSUME NEW k \in 1..Len(q2'), ~q2'[k].is_rd
      PROVE  /\ W1(k) <= LAT - Refill + refill'
             /\ \A i \in 1..Len(new') : IsLoad(new'[i]) => W1(k) <= LAT - Refill - 1
             /\ \A i \in 1..Len(q1') : IsLoad(q1'[i]) => W1(k) <= LAT - Refill - 2
             /\ \A j \in 1..Len(q2') : q2'[j].is_rd => W1(j) >= W1(k) + (Refill + 3)
  <2>1. \A j \in 1..Len(q2') : j \in 1..n \/ (j = n + 1 /\ Len(q2') = n + 1)
    BY <1>1
  <2>2. CASE except
    <3>1. \A j \in 1..Len(q2') : ~q2'[j].is_rd
      BY <1>1, <2>1, <2>2
    <3>2. W1(k) <= LAT - Refill + refill'
      BY <1>2, <1>3, <2>2
    <3> QED BY <1>5, <2>2, <3>1, <3>2
  <2>3. CASE ~except
    <3>1. /\ k \in 1..n /\ k + e \in 1..Len(q2) /\ ~q2[k + e].is_rd
          /\ W1(k) = W(k + e) - 1 /\ W(k + e) \in Int
      BY <1>1, <1>2, <1>8, <2>1, <2>3
    <3>2. W1(k) <= LAT - Refill + refill'
      BY <1>3, <1>7, <2>3, <3>1
    <3>3. \A i \in 1..Len(new') : IsLoad(new'[i]) => W1(k) <= LAT - Refill - 1
      <4> SUFFICES ASSUME refill = 0 PROVE W1(k) <= LAT - Refill - 1
        BY <1>5
      <4>1. W(k + e) <= LAT - Refill + refill
        BY <1>7, <3>1
      <4> QED BY <1>3, <3>1, <4>1
    <3>4. ASSUME NEW i \in 1..Len(q1'), IsLoad(q1'[i]) PROVE W1(k) <= LAT - Refill - 2
      <4>1. W(k + e) <= LAT - Refill - 1
        <5>1. W(k + e) <= LAT - Refill - 2 \/ W(k + e) <= LAT - Refill - 1
          BY <1>5, <1>7, <3>1, <3>4
        <5> QED BY <1>3, <3>1, <5>1
      <4> QED BY <1>3, <3>1, <4>1
    <3>5. ASSUME NEW j \in 1..Len(q2'), q2'[j].is_rd PROVE W1(j) >= W1(k) + (Refill + 3)
      <4>1. CASE j \in 1..n
        <5>1. j + e \in 1..Len(q2) /\ q2[j + e].is_rd /\ W1(j) = W(j + e) - 1 /\ W(j + e) \in Int
          BY <1>1, <1>2, <3>5, <4>1
        <5>2. W(j + e) >= W(k + e) + (Refill + 3)
          BY <1>7, <3>1, <5>1
        <5> QED BY <1>3, <3>1, <5>1, <5>2
      <4>2. CASE j = n + 1 /\ Len(q2') = n + 1
        <5>1. W1(j) = LAT /\ \E i \in 1..Len(q1) : IsLoad(q1[i])
          BY <1>1, <1>6, <4>2
        <5>2. W(k + e) <= LAT - Refill - 2
          BY <1>7, <3>1, <5>1
        <5> QED BY <1>3, <3>1, <5>1, <5>2
      <4> QED BY <2>1, <4>1, <4>2
    <3> QED BY <3>2, <3>3, <3>4, <3>5
  <2> QED BY <2>2, <2>3
<1> QED BY <1>8 DEF GapOK, Wait, W1

\* The bound stays: a read that memory takes has a slot of its own, or a gap to
\* the last cancelled one in front of it.
LEMMA Q2BoundedNext ==
  ASSUME LAT < TAGS, IsFiniteSet(Slots), IInv, GapOK, Q2Bounded,
         NEW w, NEW r, NEW fetch, NEW except, Step(w, r, fetch, except)
  PROVE  Q2Bounded'
<1> DEFINE e == Over(Tag(fetch))
           n == Len(q2) - e
           m == Len(q2')
           W(k) == Wait(k)
           f == [k \in 1..m |-> tags'[q2'[k].mem_tag].cycles_left]
           s == [k \in 1..m |-> q2'[k].read.slot]
<1>1. /\ Len(q2) \in Nat /\ m \in Nat /\ n \in Nat /\ e \in 0..1 /\ n <= m /\ m <= n + 1 /\ n <= Len(q2)
      /\ \A i \in 1..n : /\ i + e \in 1..Len(q2)
                         /\ q2'[i].read = q2[i + e].read
                         /\ tags'[q2'[i].mem_tag].cycles_left = W(i + e) - 1
      /\ m = n + 1 => /\ q1_head.cmd = "load"
                      /\ q2'[n + 1].read = q1_head.read
                      /\ tags'[q2'[n + 1].mem_tag].cycles_left = LAT
  <2>1. q2 \in Seq(Q2Entry)
    BY DEF IInv, Q2OK
  <2>2. Len(q2) \in Nat
    BY <2>1, LenProperties
  <2> QED BY <2>2, Q2Next DEF Wait
<1>2. Q2OK' /\ TagsOK' /\ LAT \in Nat /\ Refill \in Nat /\ Cardinality(Slots) \in Nat
  BY Q2Next, Sizes, FS_CardinalityType
<1>3. \A k \in 1..m : q2'[k] \in Q2Entry
  BY <1>2, ElementOfSeq DEF Q2OK
<1>4. /\ \A k \in 1..m : f[k] \in Nat /\ f[k] >= 1
      /\ \A j, k \in 1..m : j < k => f[j] < f[k]
  <2>1. \A k \in 1..m : q2'[k].mem_tag \in 1..TAGS
    BY <1>3 DEF Q2Entry
  <2>2. \A k \in 1..m : /\ tags'[q2'[k].mem_tag].cycles_left \in 0..LAT
                        /\ tags'[q2'[k].mem_tag].cycles_left > 0
    BY <1>2, <2>1 DEF TagsOK, Q2OK
  <2>3. \A j, k \in 1..m : j < k => tags'[q2'[j].mem_tag].cycles_left < tags'[q2'[k].mem_tag].cycles_left
    BY <1>2 DEF Q2OK
  <2> QED BY <1>2, <2>2, <2>3
<1>5. \A j, k \in 1..m : j <= k => f[k] >= f[j] + (k - j)
  <2> HIDE DEF f, m
  <2> QED BY <1>1, <1>4, Increasing
<1>8. /\ \A i \in 1..n : /\ i \in 1..m /\ i + e \in 1..Len(q2) /\ f[i] = W(i + e) - 1
                         /\ s[i] = q2[i + e].read.slot
      /\ \A k \in 1..m : s[k] \in Slots
      /\ m = n + 1 => n + 1 \in 1..m /\ f[n + 1] = LAT /\ s[n + 1] = q1_head.read.slot
  <2>1. /\ \A i \in 1..n : i \in 1..m
        /\ m = n + 1 => n + 1 \in 1..m
    BY <1>1
  <2>2. \A k \in 1..m : s[k] \in Slots
    BY <1>3 DEF Q2Entry, Read
  <2> QED BY <1>1, <2>1, <2>2
<1>9. \A k \in 1..Len(q2) : W(k) \in Int
  <2>1. \A k \in 1..Len(q2) : q2[k] \in Q2Entry
    BY ElementOfSeq DEF IInv, Q2OK
  <2>2. \A k \in 1..Len(q2) : q2[k].mem_tag \in 1..TAGS
    BY <2>1 DEF Q2Entry
  <2> QED BY <1>2, <2>2 DEF IInv, TagsOK, Wait
<1>10. \A k \in 1..Len(q2) : ~q2[k].is_rd =>
         /\ (\E i \in 1..Len(q1) : IsLoad(q1[i])) => W(k) <= LAT - Refill - 2
         /\ \A j \in 1..Len(q2) : q2[j].is_rd => W(j) >= W(k) + (Refill + 3)
  BY DEF GapOK
<1>6. CASE m # n + 1
  BY <1>1, <1>2, <1>6 DEF Q2Bounded
<1>7. CASE m = n + 1
  <2>1. /\ q1 \in Seq(Request) /\ q1_head.cmd = "load"
        /\ Pending[1] = q1_head /\ 1 \in 1..Len(Pending)
    BY <1>1, <1>7, RequestsNext DEF IInv, RequestsOK
  <2>4. \A k \in 1..m : k \in 1..n \/ k = n + 1
    BY <1>1, <1>7
  <2>5. /\ \A j, k \in 1..Len(q2) : q2[k].is_rd /\ q2[j].is_rd /\ q2[j].read.slot = q2[k].read.slot => j = k
        /\ \A k \in 1..Len(q2) : q2[k].is_rd => q1_head.read.slot # q2[k].read.slot
    <3>1. \A j, k \in 1..Len(q2) : q2[k].is_rd /\ q2[j].is_rd /\ q2[j].read.slot = q2[k].read.slot => j = k
      BY DEF IInv, ReadsOK
    <3>2. \A k \in 1..Len(q2) : q2[k].is_rd => Pending[1].read.slot # q2[k].read.slot
      BY <2>1 DEF IInv, ReadsOK, IsLoad
    <3> QED BY <2>1, <3>1, <3>2
  <2> HIDE DEF f, s, e, n, W
  <2>2. CASE \A k \in 1..n : q2[k + e].is_rd
    <3>3. ASSUME NEW j \in 1..m, NEW k \in 1..m, s[j] = s[k], j < k PROVE FALSE
      <4>1. j \in 1..n /\ j + e \in 1..Len(q2) /\ q2[j + e].is_rd /\ s[j] = q2[j + e].read.slot
        <5>1. j \in 1..n
          BY <1>1, <1>7, <3>3
        <5> QED BY <1>8, <2>2, <5>1
      <4>2. CASE k \in 1..n
        <5>1. k + e \in 1..Len(q2) /\ q2[k + e].is_rd /\ s[k] = q2[k + e].read.slot
          BY <1>8, <2>2, <4>2
        <5>2. j + e = k + e
          BY <2>5, <3>3, <4>1, <5>1
        <5> QED BY <1>1, <3>3, <5>2
      <4>3. CASE k = n + 1
        BY <1>7, <1>8, <2>5, <3>3, <4>1, <4>3
      <4> QED BY <2>4, <4>2, <4>3
    <3>1. \A j, k \in 1..m : s[j] = s[k] => j = k
      BY <1>1, <3>3
    <3>4. IsFiniteSet(1..m) /\ Cardinality(1..m) = m
      <4> HIDE DEF m
      <4>1. m \in Nat
        BY <1>1
      <4> QED BY <4>1, FS_Interval
    <3> DEFINE S == {s[k] : k \in 1..m}
    <3>5. S \subseteq Slots
      BY <1>8
    <3>6. Cardinality(S) = m
      <4> HIDE DEF m
      <4>1. \A j, k \in 1..m : s[j] = s[k] => j = k
        BY <3>1
      <4>2. IsFiniteSet(1..m) /\ Cardinality(1..m) = m
        BY <3>4
      <4> DEFINE D == 1..m
      <4>3. \A j, k \in D : s[j] = s[k] => j = k
        BY <4>1
      <4>4. IsFiniteSet(D)
        BY <4>2
      <4> HIDE DEF D
      <4>5. Cardinality({s[k] : k \in D}) = Cardinality(D)
        BY <4>3, <4>4, ImageSize, Zenon
      <4> QED BY <4>2, <4>5 DEF D
    <3>7. Cardinality(S) <= Cardinality(Slots)
      <4> HIDE DEF S
      <4> QED BY <3>5, FS_Subset
    <3> HIDE DEF S
    <3> QED BY <3>6, <3>7 DEF Q2Bounded
  <2>3. CASE \E k \in 1..n : ~q2[k + e].is_rd
    <3> DEFINE C == {k \in 1..n : ~q2[k + e].is_rd}
    <3>1. C # {} /\ C \in SUBSET Nat /\ \A k \in C : k <= n
      <4>1. C # {}
        BY <2>3
      <4>2. C \subseteq 1..n
        OBVIOUS
      <4> HIDE DEF C
      <4>3. \A k \in 1..n : k \in Nat /\ k <= n
        BY <1>1
      <4> QED BY <4>1, <4>2, <4>3
    <3>2. PICK k \in C : \A j \in C : j <= k
      <4> HIDE DEF C
      <4> QED BY <1>1, <3>1, GreatestNat
    <3>3. /\ k \in 1..n /\ k \in 1..m /\ k + 1 \in 1..m /\ n + 1 \in 1..m /\ 1 \in 1..m
          /\ k + 1 <= n + 1
      BY <1>1, <1>7
    <3>4. /\ k + e \in 1..Len(q2) /\ ~q2[k + e].is_rd /\ f[k] = W(k + e) - 1 /\ W(k + e) \in Int
          /\ f[n + 1] = LAT /\ f[k] \in Nat /\ f[k + 1] \in Nat /\ f[1] \in Nat /\ f[1] >= 1
      BY <1>4, <1>7, <1>8, <1>9, <3>3
    <3>5. f[k + 1] >= f[k] + (Refill + 3)
      <4>1. CASE k = n
        <5>1. \E i \in 1..Len(q1) : IsLoad(q1[i])
          <6>1. CASE q1 = <<>>
            BY <2>1, <6>1 DEF q1_head, NoOp
          <6>2. CASE q1 # <<>>
            BY <2>1, <6>2, EmptySeq, LenProperties, HeadTailProperties DEF q1_head, IsLoad
          <6> QED BY <6>1, <6>2
        <5>2. W(k + e) <= LAT - Refill - 2
          BY <1>10, <3>4, <5>1
        <5> QED BY <1>2, <3>4, <4>1, <5>2
      <4>2. CASE k # n
        <5>1. k + 1 \in 1..n
          BY <1>1, <3>3, <4>2
        <5>2. k + 1 \notin C
          <6> HIDE DEF C
          <6>1. ~(k + 1 <= k)
            BY <1>1, <3>3
          <6> QED BY <3>2, <6>1
        <5> DEFINE j == k + 1
        <5>3. j + e \in 1..Len(q2) /\ q2[j + e].is_rd /\ f[j] = W(j + e) - 1 /\ W(j + e) \in Int
          BY <1>8, <1>9, <5>1, <5>2
        <5>4. W(j + e) >= W(k + e) + (Refill + 3)
          <6> HIDE DEF j
          <6> QED BY <1>10, <3>4, <5>3
        <5>5. f[j] >= f[k] + (Refill + 3)
          <6> HIDE DEF j
          <6> QED BY <1>2, <3>4, <5>3, <5>4
        <5> QED BY <5>5
      <4> QED BY <4>1, <4>2
    <3>6. f[k] >= f[1] + (k - 1)
      BY <1>5, <3>3
    <3>7. f[n + 1] >= f[k + 1] + ((n + 1) - (k + 1))
      <4> DEFINE j == k + 1
                 l == n + 1
      <4> HIDE DEF j, l
      <4>1. f[l] >= f[j] + (l - j)
        BY <1>5, <3>3 DEF j, l
      <4> QED BY <4>1 DEF j, l
    <3>8. m <= LAT - Refill - 2
      <4> DEFINE a == f[k]
                 b == f[k + 1]
                 c == f[1]
      <4>1. /\ a \in Nat /\ b \in Nat /\ c \in Nat /\ c >= 1 /\ b >= a + (Refill + 3)
            /\ a >= c + (k - 1) /\ LAT >= b + ((n + 1) - (k + 1)) /\ k \in Nat
        BY <3>3, <3>4, <3>5, <3>6, <3>7
      <4> HIDE DEF a, b, c, m
      <4> QED BY <1>1, <1>2, <1>7, <4>1
    <3> QED BY <3>8 DEF Q2Bounded
  <2> QED BY <2>2, <2>3
<1> QED BY <1>6, <1>7

-----------------------------------------------------------------------------
(* The theorems. *)

\* With more tags than cycles of latency the cache, the queues and the tags
\* are what IInv says in every state.
THEOREM Invariance ==
  ASSUME LAT < TAGS
  PROVE  Spec => []IInv
<1>1. Init => IInv
  BY InitKeeps
<1>2. IInv /\ [Next]_vars => IInv'
  <2> SUFFICES ASSUME IInv, [Next]_vars PROVE IInv'
    OBVIOUS
  <2>1. CASE UNCHANGED vars
    BY <2>1, StutterKeeps
  <2>2. CASE Next
    <3>1. PICK w \in Writes, r \in Reads, fetch \in BOOLEAN, except \in BOOLEAN : Step(w, r, fetch, except)
      BY <2>2, NextIsStep
    <3> QED BY <3>1, StepKeeps
  <2> QED BY <2>1, <2>2
<1> QED BY <1>1, <1>2, PTL DEF Spec

\* The cache, the queues, the memory and its tags hold what they are meant to
\* hold.
THEOREM TypeCorrect ==
  ASSUME LAT < TAGS
  PROVE  Spec => []TypeOK
<1>1. IInv => TypeOK
  <2> SUFFICES ASSUME IInv PROVE TypeOK
    OBVIOUS
  <2>1. MemoryOK /\ TagsOK /\ RequestsOK /\ ReadsOK
    BY DEF IInv
  <2>2. cache \in [line : [Sets -> Line], victim : [0..1 -> Line], victim_lru : 0..1]
    BY <2>1 DEF MemoryOK, CacheOK, CacheType
  <2>3. memory \in [Blocks -> [Units -> Value]] /\ refill \in 0..Refill
    BY <2>1 DEF MemoryOK, Memories
  <2>4. Len(new) <= 3 /\ \A q \in live : q \in Read
    BY <2>1 DEF RequestsOK, ReadsOK
  <2>5. \A i \in 1..TAGS : tags[i].cycles_left \in 0..LAT
    BY <2>1 DEF TagsOK
  <2> QED BY <2>2, <2>3, <2>4, <2>5 DEF TypeOK
<1> QED BY <1>1, Invariance, PTL

\* A block is in its own line or in one victim: neither a swap, a fill nor the
\* order of the writes that make them leaves a second copy behind
\* (dcache.sv).
THEOREM InOnePlace ==
  ASSUME LAT < TAGS
  PROVE  Spec => []OnePlace
<1>1. IInv => OnePlace
  <2> SUFFICES ASSUME IInv PROVE OnePlace
    OBVIOUS
  <2>1. cache \in CacheType /\ Apart(cache)
    BY DEF IInv, MemoryOK, CacheOK
  <2>2. ASSUME NEW b \in Blocks
        PROVE  Cardinality(VictimMatch(cache, b)) + (IF Hit(cache, b) THEN 1 ELSE 0) <= 1
    <3>1. /\ \A i, j \in VictimMatch(cache, b) : i = j
          /\ Hit(cache, b) => VictimMatch(cache, b) = {}
      BY <2>1, CopiesAre
    <3> DEFINE V == VictimMatch(cache, b)
               h == IF Hit(cache, b) THEN 1 ELSE 0
    <3>2. h \in 0..1
      OBVIOUS
    <3>3. Cardinality(V) = 0 \/ (Cardinality(V) = 1 /\ h = 0)
      <4>1. CASE V = {}
        BY <4>1, FS_EmptySet
      <4>2. CASE V # {}
        <5>1. PICK i : V = {i}
          BY <3>1, <4>2
        <5>2. Cardinality(V) = 1
          BY <5>1, FS_Singleton
        <5>3. h = 0
          BY <3>1, <4>2
        <5> QED BY <5>2, <5>3
      <4> QED BY <4>1, <4>2
    <3> HIDE DEF V, h
    <3>4. Cardinality(V) + h <= 1
      BY <3>2, <3>3
    <3> QED BY <3>4 DEF V, h
  <2> QED BY <2>1, <2>2 DEF OnePlace, Apart
<1> QED BY <1>1, Invariance, PTL

\* A line that is not dirty can be dropped: memory has its contents or a store
\* on its way there brings them.
THEOREM CleanLinesAreWritten ==
  ASSUME LAT < TAGS
  PROVE  Spec => []CleanIsWritten
<1>1. IInv => CleanIsWritten
  <2> SUFFICES ASSUME IInv PROVE CleanIsWritten
    OBVIOUS
  <2>1. Backed(cache, Written)
    BY DEF IInv, MemoryOK, CacheOK
  <2> QED BY <2>1 DEF Backed, CleanIsWritten, Copies, CopiesOf
<1> QED BY <1>1, Invariance, PTL

\* The ring of reads that memory has taken never fills, however many loads and
\* mispredictions there are and whatever the timing: in the code a full ring
\* looks empty and never moves again (dcache_ctrl.sv).  What it takes are fewer
\* load queue slots than the ring has and no more latency than ring and refill
\* cover.
THEOREM ReadsFit ==
  ASSUME LAT < TAGS, IsFiniteSet(Slots), Cardinality(Slots) < LSQSZ, LAT - Refill - 2 < LSQSZ
  PROVE  Spec => []Q2NeverFull
<1> DEFINE I == IInv /\ GapOK /\ Q2Bounded
<1>1. LAT \in Nat /\ Refill \in Nat /\ LSQSZ \in Nat /\ Cardinality(Slots) \in Nat
  BY Sizes, FS_CardinalityType, DmemAssumption DEF DmemAssumption
<1>2. Init => I
  <2> SUFFICES ASSUME Init PROVE GapOK /\ Q2Bounded
    BY InitKeeps
  <2>1. q2 = <<>> /\ Len(q2) = 0
    BY DEF Init
  <2> QED BY <1>1, <2>1 DEF GapOK, Q2Bounded
<1>3. I /\ [Next]_vars => I'
  <2> SUFFICES ASSUME I, [Next]_vars PROVE I'
    OBVIOUS
  <2>1. CASE UNCHANGED vars
    <3>1. q1' = q1 /\ q2' = q2 /\ new' = new /\ tags' = tags /\ refill' = refill
      BY <2>1 DEF vars
    <3>2. IInv'
      BY <2>1, StutterKeeps
    <3> QED BY <3>1, <3>2 DEF GapOK, Q2Bounded, Wait
  <2>2. CASE Next
    <3>1. PICK w \in Writes, r \in Reads, fetch \in BOOLEAN, except \in BOOLEAN : Step(w, r, fetch, except)
      BY <2>2, NextIsStep
    <3> QED BY <3>1, StepKeeps, GapNext, Q2BoundedNext
  <2> QED BY <2>1, <2>2
<1>4. I => Q2NeverFull
  <2> SUFFICES ASSUME I PROVE Len(q2) < LSQSZ
    BY DEF Q2NeverFull
  <2>1. Len(q2) \in Nat
    BY LenProperties DEF IInv, Q2OK
  <2> QED BY <1>1, <2>1 DEF Q2Bounded
<1> QED BY <1>2, <1>3, <1>4, PTL DEF Spec

\* The load and store queues are in front of one flat memory: it changes in
\* each cycle by exactly the store that the store queue asks for, and a load
\* that is answered, whenever that is, gets what it then holds, wherever the
\* block and the stores to it are (dcache.sv, dcache_ctrl.sv).
THEOREM Refinement ==
  ASSUME LAT < TAGS
  PROVE  Spec => ImplementsFlatMemory
<1>1. Init => Memory!Init
  <2> SUFFICES ASSUME Init PROVE Memory!Init
    OBVIOUS
  <2>1. Flat \in [Blocks -> [Units -> Value]]
    <3>1. MemoryOK /\ RequestsOK
      BY InitKeeps DEF IInv
    <3>2. q1 \o new \in Seq(Request) /\ memory \in Memories
      BY <3>1, ConcatProperties DEF RequestsOK, MemoryOK
    <3>3. Written \in Memories
      BY <3>2, DrainedType DEF Written
    <3>4. View(cache, Written) \in Memories
      BY <3>1, <3>3, ViewType DEF MemoryOK
    <3>5. Flat = View(cache, Written)
      BY DEF Flat, View, Copies, CopiesOf
    <3> QED BY <3>4, <3>5 DEF Memories
  <2>2. live = {} /\ answer = {} /\ request = [write |-> {}, read |-> {}, except |-> FALSE]
    BY DEF Init
  <2> QED BY <2>1, <2>2 DEF Memory!Init
<1>2. IInv /\ [Next]_vars => [Memory!Next]_Memory!vars
  <2> SUFFICES ASSUME IInv, [Next]_vars PROVE Memory!Next \/ UNCHANGED Memory!vars
    OBVIOUS
  <2>1. CASE UNCHANGED vars
    <3>1. Flat' = Flat
      BY <2>1, StutterKeeps
    <3>2. live' = live /\ answer' = answer /\ request' = request
      BY <2>1 DEF vars
    <3> QED BY <3>1, <3>2 DEF Memory!vars
  <2>2. CASE Next
    <3>1. PICK w \in Writes, r \in Reads, fetch \in BOOLEAN, except \in BOOLEAN : Step(w, r, fetch, except)
      BY <2>2, NextIsStep
    <3> QED BY <3>1, StepIsCycle
  <2> QED BY <2>1, <2>2
<1> QED BY <1>1, <1>2, Invariance, PTL DEF Spec, ImplementsFlatMemory, Memory!Spec
=============================================================================
