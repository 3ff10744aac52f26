------------------------------ MODULE LSQProofs ------------------------------
(***************************************************************************)
(* Theorems about LSQ: for every number of slots and ways and every        *)
(* program, the queues hold the window, a load's age is its place in       *)
(* program order, and what a load returns is what program order demands.   *)
(***************************************************************************)
EXTENDS LSQ, NumberLemmas

-----------------------------------------------------------------------------
(* The inductive invariant. *)

Sizes == {"byte", "word"}
Addr == [block : Blocks, off : 0..1]
Data == Unit \X Unit
StoreEntry == [valid : BOOLEAN, id : 0..MaxOps, size : Sizes, addr : Addr,
               addr_valid : BOOLEAN, data : Data, data_valid : BOOLEAN]
LoadEntry == [free : BOOLEAN, id : 0..MaxOps, size : Sizes, signed : BOOLEAN, addr : Addr,
              addr_ready : BOOLEAN, sq_tail_old : Slots, data : Data, state : 0..3]

\* Stores in the queue, and the slot of the i-th of them, counted from 0.
Stores == LSQSZ - sq_num_free
At(i) == (sq_head + i) % LSQSZ

Held == {s \in Slots : ~lq[s].free}
Older(s) == {j \in Slots : sq[j].valid /\ sq[j].id < lq[s].id}

RegistersOK ==
  /\ sq \in [Slots -> StoreEntry] /\ lq \in [Slots -> LoadEntry]
  /\ sq_head \in Slots /\ sq_num_free \in 0..LSQSZ
  /\ mem \in [Blocks -> [0..1 -> Unit]]

WindowOK ==
  /\ dispatched \in 0..MaxOps
  /\ InWindow \subseteq 1..dispatched
  /\ window \in [InWindow -> Program]
  /\ sent \subseteq InWindow

\* An entry has what its instruction says.
StoreMatches(j) ==
  /\ sq[j].size = window[sq[j].id].size
  /\ sq[j].addr_valid => sq[j].addr = window[sq[j].id].addr /\ sq[j].data_valid
  /\ sq[j].data_valid => sq[j].data = Register(sq[j].id)
  /\ sq[j].id \in sent => sq[j].addr_valid

LoadMatches(s) ==
  /\ lq[s].size = window[lq[s].id].size
  /\ lq[s].signed = window[lq[s].id].signed
  /\ lq[s].addr_ready => lq[s].addr = window[lq[s].id].addr

EntriesMatch ==
  /\ \A j \in Slots : sq[j].valid => StoreMatches(j)
  /\ \A s \in Slots : IF lq[s].free THEN lq[s].state = 0 ELSE LoadMatches(s)

\* The recorded tail is behind the k-th store, where k is how many are older.
AgedAt(s, k) ==
  /\ lq[s].sq_tail_old = At(k)
  /\ \A i \in 0..(Stores - 1) : i < k <=> sq[At(i)].id < lq[s].id

AgesRecorded == \A s \in Held : \E k \in 0..Stores : AgedAt(s, k)

\* No older store may be to the load's block.
Clear(s) == \A j \in Older(s) : sq[j].addr_valid /\ sq[j].addr.block # lq[s].addr.block

\* The load's data is that of memory, as far as the load looks at it.
HasMemory(s) ==
  LET d == ReadFrom(mem, lq[s].size, lq[s].addr)
  IN  lq[s].data[1] = d[1] /\ (lq[s].size = "word" => lq[s].data[2] = d[2])

\* The load's data is that of the youngest older store that may conflict.
HasStore(s, j) ==
  /\ ls_addr_all_hit(s, j)
  /\ lq[s].data = sq[j].data
  /\ \A k \in Older(s) : sq[j].id < sq[k].id => ~ls_addr_block_hit(s, k)

LoadsRight ==
  \A s \in Held :
    /\ lq[s].state # 0 => lq[s].addr_ready
    /\ lq[s].state \in {1, 2} => Clear(s)
    /\ lq[s].state = 3 => (Clear(s) /\ HasMemory(s)) \/ \E j \in Older(s) : HasStore(s, j)

IInv ==
  /\ RegistersOK /\ WindowOK /\ QueuesMatchWindow /\ EntriesMatch /\ AgesRecorded /\ LoadsRight

-----------------------------------------------------------------------------
(* Sizes, the ring of the store queue and the bundle. *)

\* The assumption on the constants, in the form the proofs use.
LEMMA SizesOK ==
  /\ WAYS \in Nat \ {0} /\ LSQSZ \in Nat \ {0} /\ WAYS < LSQSZ /\ MaxOps \in Nat
  /\ Starts \subseteq Slots
BY QueueAssumption DEF QueueAssumption, Slots

\* At(i) is a slot, and one subtraction at most.
LEMMA AtSlot ==
  ASSUME sq_head \in Slots, NEW i \in 0..LSQSZ
  PROVE  /\ At(i) = IF sq_head + i < LSQSZ THEN sq_head + i ELSE sq_head + i - LSQSZ
         /\ At(i) \in Slots
<1>1. LSQSZ \in Nat \ {0} /\ sq_head \in 0..(LSQSZ - 1)
  BY SizesOK DEF Slots
<1> QED BY <1>1, RingSlot DEF At, Slots

\* Every slot is one At(i), and only one below a round.
LEMMA AtUnique ==
  ASSUME sq_head \in Slots
  PROVE  /\ \A i, k \in 0..(LSQSZ - 1) : At(i) = At(k) => i = k
         /\ \A j \in Slots : \E i \in 0..(LSQSZ - 1) : j = At(i)
         /\ At(0) = sq_head
<1>1. LSQSZ \in Nat \ {0} /\ sq_head \in 0..(LSQSZ - 1)
  BY SizesOK DEF Slots
<1>2. ASSUME NEW i \in 0..(LSQSZ - 1), NEW k \in 0..(LSQSZ - 1), At(i) = At(k) PROVE i = k
  BY <1>1, <1>2, RingInjective DEF At
<1>3. ASSUME NEW j \in Slots PROVE \E i \in 0..(LSQSZ - 1) : j = At(i)
  BY <1>1, <1>3, RingOnto DEF At, Slots
<1>4. At(0) = sq_head
  <2>1. 0 \in 0..LSQSZ
    BY <1>1
  <2>2. At(0) = IF sq_head + 0 < LSQSZ THEN sq_head + 0 ELSE sq_head + 0 - LSQSZ
    BY <2>1, AtSlot
  <2> QED BY <1>1, <2>2
<1> QED BY <1>2, <1>3, <1>4

\* The instructions of a bundle.
LEMMA BundleIs ==
  ASSUME NEW bundle \in Bundles
  PROVE  /\ \A S : S \subseteq Ways =>
              S \in SUBSET Nat /\ IsFiniteSet(S) /\ Cardinality(S) \in 0..WAYS
         /\ \A kind : Enabled(bundle, kind) \subseteq Ways
         /\ Incoming(bundle) \subseteq Ways
         /\ Incoming(bundle) = Enabled(bundle, "store") \cup Enabled(bundle, "load")
         /\ \A i \in Incoming(bundle) : bundle[i] \in Program
         /\ \A i \in Enabled(bundle, "store") : bundle[i].kind = "store"
         /\ \A i \in Enabled(bundle, "load") : bundle[i].kind = "load"
<1>1. Ways = 1..WAYS /\ WAYS \in Nat /\ IsFiniteSet(Ways) /\ Cardinality(Ways) = WAYS
  <2>1. 1 \in Int /\ WAYS \in Int /\ WAYS \in Nat
    BY SizesOK
  <2>2. IsFiniteSet(1..WAYS) /\ Cardinality(1..WAYS) = IF 1 > WAYS THEN 0 ELSE WAYS - 1 + 1
    BY <2>1, FS_Interval
  <2> QED BY <2>1, <2>2 DEF Ways
<1>2. ASSUME NEW S, S \subseteq Ways
      PROVE  S \in SUBSET Nat /\ IsFiniteSet(S) /\ Cardinality(S) \in 0..WAYS
  <2>1. IsFiniteSet(S) /\ Cardinality(S) <= WAYS
    BY <1>1, <1>2, FS_Subset
  <2>2. Cardinality(S) \in Nat
    BY <2>1, FS_CardinalityType
  <2> QED BY <1>1, <1>2, <2>1, <2>2
<1>3. \A i \in Ways : bundle[i] \in Program \/ bundle[i].kind = "none"
  BY DEF Bundles, Nothing
<1>4. \A i \in Incoming(bundle) : i \in Ways /\ bundle[i].kind # "none"
  BY DEF Incoming, Enabled
<1> QED BY <1>2, <1>3, <1>4 DEF Enabled, Incoming

\* A higher x has more of S below it.
LEMMA RankGrows ==
  ASSUME NEW S \in SUBSET Nat, IsFiniteSet(S), NEW x \in Nat, NEW y \in Nat, x <= y
  PROVE  /\ Rank(S, x) \in Nat /\ Rank(S, y) \in Nat
         /\ Rank(S, x) <= Rank(S, y)
         /\ x \in S /\ x < y => Rank(S, x) < Rank(S, y)
<1> DEFINE A == {z \in S : z < x}
           B == {z \in S : z < y}
<1>1. A \subseteq B /\ B \subseteq S
  <2>1. \A z \in S : z \in Nat
    OBVIOUS
  <2>2. \A z \in S : z < x => z < y
    BY <2>1
  <2> QED BY <2>2
<1>2. IsFiniteSet(B)
  BY <1>1, FS_Subset
<1>3. IsFiniteSet(A) /\ Cardinality(A) <= Cardinality(B)
  BY <1>1, <1>2, FS_Subset
<1>4. Cardinality(A) \in Nat /\ Cardinality(B) \in Nat
  BY <1>2, <1>3, FS_CardinalityType
<1>5. ASSUME x \in S, x < y PROVE Cardinality(A) < Cardinality(B)
  <2>1. A # B
    BY <1>5
  <2>2. Cardinality(A) # Cardinality(B)
    <3> HIDE DEF A, B
    <3> QED BY <1>1, <1>2, <2>1, FS_Subset
  <2> QED BY <1>3, <1>4, <2>2
<1> QED BY <1>3, <1>4, <1>5 DEF Rank

\* The numbers of the instructions of a bundle: behind those dispatched so far,
\* in the order of the ways.
LEMMA NumbersAre ==
  ASSUME NEW bundle \in Bundles, dispatched \in Nat
  PROVE  /\ \A i \in Incoming(bundle) :
              IdOf(bundle, i) \in (dispatched + 1)..(dispatched + Cardinality(Incoming(bundle)))
         /\ \A i, k \in Incoming(bundle) : i < k => IdOf(bundle, i) < IdOf(bundle, k)
         /\ \A i, k \in Incoming(bundle) : IdOf(bundle, i) = IdOf(bundle, k) => i = k
<1> DEFINE S == Incoming(bundle)
<1>1. S \in SUBSET Nat /\ IsFiniteSet(S) /\ Cardinality(S) \in Nat
  BY BundleIs
<1>2. \A i \in S : IdOf(bundle, i) = dispatched + 1 + Rank(S, i)
  BY DEF IdOf, Rank
<1> HIDE DEF S
<1>3. ASSUME NEW i \in S PROVE Rank(S, i) \in 0..(Cardinality(S) - 1)
  BY <1>1, RankRange
<1>4. ASSUME NEW i \in S, NEW k \in S, i < k PROVE Rank(S, i) < Rank(S, k)
  BY <1>1, <1>4, RankMonotonic
<1>5. ASSUME NEW i \in S, NEW k \in S, Rank(S, i) = Rank(S, k) PROVE i = k
  BY <1>1, <1>5, RankInjective
<1>6. ASSUME NEW i \in S PROVE IdOf(bundle, i) \in (dispatched + 1)..(dispatched + Cardinality(S))
  BY <1>1, <1>2, <1>3
<1>7. ASSUME NEW i \in S, NEW k \in S, i < k PROVE IdOf(bundle, i) < IdOf(bundle, k)
  <2>1. Rank(S, i) \in Int /\ Rank(S, k) \in Int /\ Rank(S, i) < Rank(S, k)
    BY <1>1, <1>3, <1>4, <1>7
  <2> QED BY <1>2, <2>1
<1>8. ASSUME NEW i \in S, NEW k \in S, IdOf(bundle, i) = IdOf(bundle, k) PROVE i = k
  <2>1. Rank(S, i) \in Int /\ Rank(S, k) \in Int
    BY <1>1, <1>3
  <2>2. Rank(S, i) = Rank(S, k)
    BY <1>2, <1>8, <2>1
  <2> QED BY <2>2, <1>5
<1> QED BY <1>6, <1>7, <1>8 DEF S

\* Sets of slots are finite sets of numbers.
LEMMA SlotsFinite ==
  ASSUME NEW S, S \subseteq Slots
  PROVE  S \in SUBSET Nat /\ IsFiniteSet(S) /\ Cardinality(S) \in 0..LSQSZ
<1>1. LSQSZ \in Nat \ {0}
  BY SizesOK
<1>2. IsFiniteSet(0..(LSQSZ - 1)) /\ Cardinality(0..(LSQSZ - 1)) = IF 0 > LSQSZ - 1 THEN 0 ELSE LSQSZ - 1 - 0 + 1
  BY <1>1, FS_Interval
<1>3. IsFiniteSet(Slots) /\ Cardinality(Slots) = LSQSZ
  BY <1>1, <1>2 DEF Slots
<1>4. IsFiniteSet(S) /\ Cardinality(S) <= LSQSZ
  BY <1>3, FS_Subset
<1>5. Cardinality(S) \in Nat
  BY <1>4, FS_CardinalityType
<1> QED BY <1>1, <1>4, <1>5 DEF Slots

\* A bundle finds its slots: the stall has looked at both counters.
LEMMA OfferedFits ==
  ASSUME RegistersOK, WindowOK, QueuesMatchWindow, NEW bundle \in Offered
  PROVE  /\ bundle \in Bundles
         /\ Stores \in 0..(LSQSZ - 1)
         /\ Stores + Cardinality(Enabled(bundle, "store")) <= LSQSZ - 1
         /\ Enabled(bundle, "load") # {} => lq_num_free > WAYS
         /\ dispatched + Cardinality(Incoming(bundle)) <= MaxOps
<1>1. Stores \in 0..(LSQSZ - 1) /\ LSQSZ \in Nat /\ WAYS \in Nat /\ dispatched \in 0..MaxOps
      /\ sq_num_free \in Nat /\ MaxOps \in Nat
  BY SizesOK DEF QueuesMatchWindow, StoresQueued, WindowOK, Stores, RegistersOK
<1>2. Nothing.kind = "none"
  BY DEF Nothing
<1>3. CASE ~RoomForBundle
  <2>1. bundle = NoBundle
    BY <1>3 DEF Offered
  <2>2. bundle \in Bundles
    BY <2>1 DEF NoBundle, Bundles
  <2>3. Enabled(bundle, "store") = {} /\ Enabled(bundle, "load") = {}
    BY <1>2, <2>1 DEF NoBundle, Enabled
  <2>4. Incoming(bundle) = {}
    BY <2>3 DEF Incoming
  <2>5. Cardinality({}) = 0
    BY FS_EmptySet
  <2> QED BY <1>1, <2>2, <2>3, <2>4, <2>5
<1>4. CASE RoomForBundle
  <2>1. bundle \in Bundles /\ dispatched + Cardinality(Incoming(bundle)) <= MaxOps
    BY <1>4 DEF Offered
  <2>2. Cardinality(Enabled(bundle, "store")) \in 0..WAYS
    BY <2>1, BundleIs
  <2>3. sq_num_free >= WAYS + 1 /\ lq_num_free >= WAYS + 1
    BY <1>4 DEF RoomForBundle
  <2>4. lq_num_free \in Nat
    <3>1. lq_num_free = Cardinality(Slots \ {s \in Slots : ~lq[s].free})
      BY DEF QueuesMatchWindow, LoadsQueued
    <3>2. (Slots \ {s \in Slots : ~lq[s].free}) \subseteq Slots
      OBVIOUS
    <3> QED BY <3>1, <3>2, SlotsFinite
  <2>5. lq_num_free > WAYS
    BY <1>1, <2>3, <2>4
  <2>6. Stores + Cardinality(Enabled(bundle, "store")) <= LSQSZ - 1
    BY <1>1, <2>2, <2>3 DEF Stores
  <2> QED BY <1>1, <2>1, <2>5, <2>6
<1> QED BY <1>3, <1>4

-----------------------------------------------------------------------------
(* The queues hold the window. *)

\* The queue in its own terms: which slots are valid, whose they are.
LEMMA QueueIs ==
  ASSUME RegistersOK, QueuesMatchWindow
  PROVE  /\ Stores \in 0..(LSQSZ - 1)
         /\ sq_tail = At(Stores)
         /\ \A i \in 0..(LSQSZ - 1) : At(i) \in Slots /\ (sq[At(i)].valid <=> i < Stores)
         /\ \A i \in 0..(Stores - 1) : At(i) \in Slots /\ sq[At(i)].valid /\ sq[At(i)].id \in StoresIn
         /\ \A id \in StoresIn : \E i \in 0..(Stores - 1) : sq[At(i)].id = id
         /\ \A i, k \in 0..(Stores - 1) : i < k => sq[At(i)].id < sq[At(k)].id
         /\ \A j \in Slots : sq[j].valid => \E i \in 0..(Stores - 1) : j = At(i)
<1>1. /\ Stores \in 0..(LSQSZ - 1) /\ sq_tail = At(Stores)
      /\ \A i \in 0..(LSQSZ - 1) : sq[At(i)].valid <=> i < Stores
      /\ {sq[At(i)].id : i \in 0..(Stores - 1)} = StoresIn
      /\ \A i, k \in 0..(Stores - 1) : i < k => sq[At(i)].id < sq[At(k)].id
  BY DEF QueuesMatchWindow, StoresQueued, Stores, At
<1>2. LSQSZ \in Nat /\ sq_head \in Slots
  BY SizesOK DEF RegistersOK
<1>3. \A i \in 0..(LSQSZ - 1) : At(i) \in Slots
  BY <1>2, AtSlot
<1>4. \A j \in Slots : \E i \in 0..(LSQSZ - 1) : j = At(i)
  BY <1>2, AtUnique
<1> HIDE DEF Stores, At
<1>5. \A i \in 0..(Stores - 1) : i \in 0..(LSQSZ - 1) /\ i < Stores
  BY <1>1, <1>2
<1>6. \A j \in Slots : sq[j].valid => \E i \in 0..(Stores - 1) : j = At(i)
  <2> SUFFICES ASSUME NEW j \in Slots, sq[j].valid PROVE \E i \in 0..(Stores - 1) : j = At(i)
    OBVIOUS
  <2>1. PICK i \in 0..(LSQSZ - 1) : j = At(i)
    BY <1>4
  <2>2. i < Stores
    BY <1>1, <2>1
  <2>3. i \in 0..(Stores - 1)
    BY <1>1, <1>2, <2>2
  <2> QED BY <2>1, <2>3
<1>7. \A i \in 0..(Stores - 1) : At(i) \in Slots /\ sq[At(i)].valid /\ sq[At(i)].id \in StoresIn
  BY <1>1, <1>3, <1>5
<1> QED BY <1>1, <1>3, <1>6, <1>7

\* The instructions of the window by their numbers.
LEMMA WindowIs ==
  ASSUME WindowOK
  PROVE  /\ InWindow \in SUBSET Nat /\ dispatched \in Nat
         /\ \A id \in InWindow : 1 <= id /\ id <= dispatched /\ window[id] \in Program
         /\ InWindow = StoresIn \cup LoadsIn /\ StoresIn \cap LoadsIn = {}
         /\ StoresIn \subseteq InWindow /\ LoadsIn \subseteq InWindow
<1>1. MaxOps \in Nat /\ dispatched \in 0..MaxOps /\ InWindow \subseteq 1..dispatched
      /\ window \in [InWindow -> Program]
  BY SizesOK DEF WindowOK
<1>2. \A id \in InWindow : id \in Nat /\ 1 <= id /\ id <= dispatched
  BY <1>1
<1>3. \A id \in InWindow : window[id] \in Program
  BY <1>1
<1>4. \A op \in Program : op.kind \in {"store", "load"}
  BY ProgramAssumption DEF ProgramAssumption
<1> HIDE DEF InWindow
<1>5. InWindow = StoresIn \cup LoadsIn /\ StoresIn \cap LoadsIn = {}
  BY <1>3, <1>4 DEF StoresIn, LoadsIn
<1> QED BY <1>1, <1>2, <1>3, <1>5 DEF StoresIn, LoadsIn

\* A store that may commit is the oldest instruction, at the head, with its
\* address and its data, which it writes.
LEMMA CommitIs ==
  ASSUME IInv, MayCommit
  PROVE  /\ Stores > 0
         /\ sq[sq_head].valid /\ sq[sq_head].id = Oldest
         /\ sq[sq_head].addr_valid /\ sq[sq_head].data_valid
         /\ Oldest \in StoresIn /\ \A id \in InWindow : Oldest <= id
         /\ WriteBack(TRUE) = AfterOldest
<1>1. RegistersOK /\ WindowOK /\ QueuesMatchWindow /\ EntriesMatch
  BY DEF IInv
<1>2. InWindow \in SUBSET Nat /\ InWindow # {} /\ Oldest \in StoresIn /\ Oldest \in sent
  BY <1>1, WindowIs DEF MayCommit
<1>3. \A id \in InWindow : Oldest <= id
  <2>1. \E m \in InWindow : \A id \in InWindow : m <= id
    BY <1>2, LeastNat
  <2> QED BY <2>1 DEF Oldest
<1>4. PICK i \in 0..(Stores - 1) : sq[At(i)].id = Oldest
  BY <1>1, <1>2, QueueIs
<1>5. Stores \in Nat /\ Stores > 0 /\ 0 \in 0..(Stores - 1)
  BY <1>1, <1>4, QueueIs, SizesOK
<1>6. /\ sq[At(0)].valid /\ sq[At(0)].id \in InWindow
      /\ 0 < i => sq[At(0)].id < sq[At(i)].id
      /\ At(0) = sq_head /\ sq_head \in Slots
  <2>1. At(0) = sq_head /\ sq_head \in Slots
    BY <1>1, AtUnique DEF RegistersOK
  <2>2. StoresIn \subseteq InWindow
    BY DEF StoresIn
  <2> QED BY <1>1, <1>5, <2>1, <2>2, QueueIs
<1>7. sq[sq_head].id = Oldest
  <2>1. CASE i = 0
    BY <1>4, <1>6, <2>1
  <2>2. CASE i # 0
    <3>1. 0 < i
      BY <1>5, <2>2
    <3>2. sq[At(0)].id < Oldest /\ Oldest <= sq[At(0)].id
      BY <1>3, <1>4, <1>6, <3>1
    <3>3. sq[At(0)].id \in Nat /\ Oldest \in Nat
      BY <1>2, <1>6 DEF StoresIn
    <3> QED BY <3>2, <3>3
  <2> QED BY <2>1, <2>2
<1>8. StoreMatches(sq_head) /\ sq[sq_head].valid
  BY <1>1, <1>6 DEF EntriesMatch
<1>9. sq[sq_head].addr_valid /\ sq[sq_head].data_valid
  BY <1>2, <1>7, <1>8 DEF StoreMatches
<1>10. /\ sq[sq_head].size = window[Oldest].size
       /\ sq[sq_head].addr = window[Oldest].addr
       /\ sq[sq_head].data = Register(Oldest)
  BY <1>7, <1>8, <1>9 DEF StoreMatches
<1>11. WriteBack(TRUE) = AfterOldest
  BY <1>8, <1>10 DEF WriteBack, AfterOldest, Written
<1> QED BY <1>2, <1>3, <1>5, <1>7, <1>8, <1>9, <1>11

-----------------------------------------------------------------------------
(* One clock edge: the window. *)

\* An edge of Next that is not a squash.
Step(bundle, alu, data, commit, cache, hit, fb, gnt) ==
  /\ bundle \in Offered /\ alu \subseteq Addressable /\ commit \in BOOLEAN
  /\ cache \subseteq Reading /\ hit \in BOOLEAN /\ fb \subseteq Waiting /\ gnt \subseteq Done
  /\ Clock(bundle, alu, data, commit, cache, hit, fb, gnt)

Gone(commit) == IF commit THEN {Oldest} ELSE {}
Coming(bundle, kind) == {IdOf(bundle, i) : i \in Enabled(bundle, kind)}

\* What is done is held by a load of the window.
LEMMA HeldAre ==
  ASSUME IInv
  PROVE  /\ Done \subseteq Held /\ Reading \subseteq Held /\ Waiting \subseteq Held
         /\ \A s \in Held : s \in Slots /\ ~lq[s].free /\ lq[s].id \in LoadsIn /\ LoadMatches(s)
         /\ \A id \in LoadsIn : \E s \in Held : lq[s].id = id
         /\ \A s, t \in Held : lq[s].id = lq[t].id => s = t
<1>1. \A s \in Slots : IF lq[s].free THEN lq[s].state = 0 ELSE LoadMatches(s)
  BY DEF IInv, EntriesMatch
<1>2. {lq[s].id : s \in Held} = LoadsIn /\ \A s, t \in Held : lq[s].id = lq[t].id => s = t
  BY DEF IInv, QueuesMatchWindow, LoadsQueued, Held
<1>3. Done \subseteq Held /\ Reading \subseteq Held /\ Waiting \subseteq Held
  BY <1>1 DEF Done, Reading, Waiting, Held
<1>4. \A s \in Held : s \in Slots /\ ~lq[s].free
  BY DEF Held
<1> QED BY <1>1, <1>2, <1>3, <1>4

\* The window loses the store that commits and the loads that are broadcast,
\* and gains the bundle.
LEMMA StepWindow ==
  ASSUME IInv, NEW bundle, NEW alu, NEW data, NEW commit, NEW cache, NEW hit, NEW fb, NEW gnt,
         Step(bundle, alu, data, commit, cache, hit, fb, gnt)
  PROVE  /\ dispatched' = dispatched + Cardinality(Incoming(bundle))
         /\ InWindow' = Staying(commit, gnt) \cup NewOps(bundle)
         /\ \A id \in Staying(commit, gnt) :
              id \in InWindow /\ id \in Nat /\ id <= dispatched /\ window'[id] = window[id]
         /\ \A i \in Incoming(bundle) :
              /\ IdOf(bundle, i) \in Nat /\ IdOf(bundle, i) > dispatched
              /\ window'[IdOf(bundle, i)] = bundle[i]
         /\ StoresIn' = (StoresIn \ Gone(commit)) \cup Coming(bundle, "store")
         /\ LoadsIn' = (LoadsIn \ {lq[s].id : s \in gnt}) \cup Coming(bundle, "load")
         /\ WindowOK'
<1> DEFINE stay == Staying(commit, gnt)
           come == NewOps(bundle)
           w == [id \in stay \cup come |->
                   IF id \in come THEN bundle[CHOOSE i \in Incoming(bundle) : IdOf(bundle, i) = id]
                   ELSE window[id]]
<1>1. /\ RegistersOK /\ WindowOK /\ QueuesMatchWindow
      /\ bundle \in Offered /\ gnt \subseteq Done /\ alu \subseteq Addressable
      /\ Clock(bundle, alu, data, commit, cache, hit, fb, gnt)
  BY DEF IInv, Step
<1>2. /\ window' = w /\ sent' = (sent \cup alu) \cap stay
      /\ dispatched' = dispatched + Cardinality(Incoming(bundle))
      /\ commit => MayCommit
  BY <1>1 DEF Clock, WindowNext
<1>3. bundle \in Bundles /\ dispatched + Cardinality(Incoming(bundle)) <= MaxOps
  BY <1>1, OfferedFits
<1>4. /\ InWindow \in SUBSET Nat /\ dispatched \in Nat
      /\ \A id \in InWindow : 1 <= id /\ id <= dispatched /\ window[id] \in Program
      /\ InWindow = StoresIn \cup LoadsIn /\ StoresIn \cap LoadsIn = {}
  BY <1>1, WindowIs
<1>5. /\ \A i \in Incoming(bundle) :
           IdOf(bundle, i) \in (dispatched + 1)..(dispatched + Cardinality(Incoming(bundle)))
      /\ \A i, k \in Incoming(bundle) : IdOf(bundle, i) = IdOf(bundle, k) => i = k
  BY <1>3, <1>4, NumbersAre
<1>6. /\ Incoming(bundle) = Enabled(bundle, "store") \cup Enabled(bundle, "load")
      /\ \A i \in Incoming(bundle) : bundle[i] \in Program
      /\ \A i \in Enabled(bundle, "store") : bundle[i].kind = "store"
      /\ \A i \in Enabled(bundle, "load") : bundle[i].kind = "load"
      /\ Cardinality(Incoming(bundle)) \in Nat
  BY <1>3, BundleIs
<1>7. /\ \A i \in Incoming(bundle) : IdOf(bundle, i) \in come /\ IdOf(bundle, i) \in Nat /\ IdOf(bundle, i) > dispatched
      /\ \A id \in come : \E i \in Incoming(bundle) : id = IdOf(bundle, i)
  BY <1>4, <1>5, <1>6 DEF NewOps
<1>8. stay \subseteq InWindow
  BY DEF Staying
<1>9. \A id \in come : id \in Nat /\ id > dispatched
  BY <1>7
<1>10. \A id \in stay : id \in Nat /\ id <= dispatched /\ id \notin come
  BY <1>4, <1>8, <1>9
<1> HIDE DEF stay, come
<1>11. \A id \in stay : window'[id] = window[id]
  BY <1>2, <1>10
<1>12. \A i \in Incoming(bundle) : window'[IdOf(bundle, i)] = bundle[i]
  <2> SUFFICES ASSUME NEW i \in Incoming(bundle) PROVE window'[IdOf(bundle, i)] = bundle[i]
    OBVIOUS
  <2>1. (CHOOSE k \in Incoming(bundle) : IdOf(bundle, k) = IdOf(bundle, i)) = i
    BY <1>5
  <2>2. IdOf(bundle, i) \in come
    BY <1>7
  <2> QED BY <1>2, <2>1, <2>2
<1>13. InWindow' = stay \cup come
  BY <1>2 DEF InWindow
<1> HIDE DEF w
<1>14. \A id \in InWindow' : window'[id] \in Program
  BY <1>4, <1>6, <1>7, <1>8, <1>11, <1>12, <1>13
<1>15. Gone(commit) \subseteq StoresIn
  BY <1>2 DEF MayCommit, Gone
<1>16. {lq[s].id : s \in gnt} \subseteq LoadsIn
  <2>1. \A s \in gnt : s \in Held
    BY <1>1, HeldAre
  <2> QED BY <2>1, HeldAre
<1>17. stay = InWindow \ (Gone(commit) \cup {lq[s].id : s \in gnt})
  BY DEF stay, Staying, Gone
<1>18. StoresIn' = (StoresIn \ Gone(commit)) \cup Coming(bundle, "store")
  <2>1. ASSUME NEW id \in InWindow', window'[id].kind = "store"
        PROVE  id \in (StoresIn \ Gone(commit)) \cup Coming(bundle, "store")
    <3>1. CASE id \in stay
      <4>1. window[id].kind = "store" /\ id \in InWindow /\ id \notin Gone(commit)
        BY <1>11, <1>17, <2>1, <3>1
      <4> QED BY <4>1 DEF StoresIn
    <3>2. CASE id \in come
      <4>1. PICK i \in Incoming(bundle) : id = IdOf(bundle, i)
        BY <1>7, <3>2
      <4>2. i \in Enabled(bundle, "store")
        BY <1>6, <1>12, <2>1, <4>1
      <4> QED BY <4>1, <4>2 DEF Coming
    <3> QED BY <1>13, <3>1, <3>2
  <2>2. ASSUME NEW id \in StoresIn, id \notin Gone(commit)
        PROVE  id \in InWindow' /\ window'[id].kind = "store"
    <3>1. id \in InWindow /\ window[id].kind = "store" /\ id \notin LoadsIn
      BY <1>4 DEF StoresIn
    <3>2. id \in stay
      BY <1>16, <1>17, <2>2, <3>1
    <3> QED BY <1>11, <1>13, <3>1, <3>2
  <2>3. ASSUME NEW i \in Enabled(bundle, "store")
        PROVE  IdOf(bundle, i) \in InWindow' /\ window'[IdOf(bundle, i)].kind = "store"
    BY <1>6, <1>7, <1>12, <1>13
  <2>4. StoresIn' = {id \in InWindow' : window'[id].kind = "store"}
    BY DEF StoresIn
  <2> QED BY <2>1, <2>2, <2>3, <2>4 DEF Coming
<1>19. LoadsIn' = (LoadsIn \ {lq[s].id : s \in gnt}) \cup Coming(bundle, "load")
  <2>1. ASSUME NEW id \in InWindow', window'[id].kind = "load"
        PROVE  id \in (LoadsIn \ {lq[s].id : s \in gnt}) \cup Coming(bundle, "load")
    <3>1. CASE id \in stay
      <4>1. window[id].kind = "load" /\ id \in InWindow /\ id \notin {lq[s].id : s \in gnt}
        BY <1>11, <1>17, <2>1, <3>1
      <4> QED BY <4>1 DEF LoadsIn
    <3>2. CASE id \in come
      <4>1. PICK i \in Incoming(bundle) : id = IdOf(bundle, i)
        BY <1>7, <3>2
      <4>2. i \in Enabled(bundle, "load")
        BY <1>6, <1>12, <2>1, <4>1
      <4> QED BY <4>1, <4>2 DEF Coming
    <3> QED BY <1>13, <3>1, <3>2
  <2>2. ASSUME NEW id \in LoadsIn, id \notin {lq[s].id : s \in gnt}
        PROVE  id \in InWindow' /\ window'[id].kind = "load"
    <3>1. id \in InWindow /\ window[id].kind = "load" /\ id \notin StoresIn
      BY <1>4 DEF LoadsIn
    <3>2. id \in stay
      BY <1>15, <1>17, <2>2, <3>1
    <3> QED BY <1>11, <1>13, <3>1, <3>2
  <2>3. ASSUME NEW i \in Enabled(bundle, "load")
        PROVE  IdOf(bundle, i) \in InWindow' /\ window'[IdOf(bundle, i)].kind = "load"
    BY <1>6, <1>7, <1>12, <1>13
  <2>4. LoadsIn' = {id \in InWindow' : window'[id].kind = "load"}
    BY DEF LoadsIn
  <2> QED BY <2>1, <2>2, <2>3, <2>4 DEF Coming
<1>20. WindowOK'
  <2>1. dispatched' \in 0..MaxOps
    BY <1>2, <1>3, <1>4, <1>6, SizesOK
  <2>2. \A id \in InWindow' : id \in 1..dispatched'
    <3>1. \A id \in stay : id \in 1..dispatched'
      BY <1>2, <1>4, <1>6, <1>8
    <3>2. ASSUME NEW id \in come PROVE id \in 1..dispatched'
      <4>1. PICK i \in Incoming(bundle) : id = IdOf(bundle, i)
        BY <1>7
      <4>2. id \in (dispatched + 1)..(dispatched + Cardinality(Incoming(bundle)))
        BY <1>5, <4>1
      <4> QED BY <1>2, <1>4, <1>6, <4>2
    <3> QED BY <1>13, <3>1, <3>2
  <2>3. window' \in [InWindow' -> Program]
    <3>1. window' = [id \in InWindow' |-> window'[id]]
      BY <1>2, <1>13 DEF w
    <3> QED BY <1>14, <3>1
  <2>4. sent' \subseteq InWindow'
    BY <1>2, <1>13
  <2> QED BY <2>1, <2>2, <2>3, <2>4 DEF WindowOK
<1> QED BY <1>2, <1>7, <1>8, <1>10, <1>11, <1>12, <1>13, <1>18, <1>19, <1>20 DEF stay, come

-----------------------------------------------------------------------------
(* One clock edge: the store queue. *)

\* The empty entries and the values that are written into entries.
LEMMA EntryTypes ==
  /\ NoAddr \in Addr /\ NoData \in Data /\ MixedData \in Data /\ ZeroUnit \in Unit
  /\ \A id \in 0..MaxOps : Register(id) \in Data
  /\ FreeStore \in StoreEntry /\ FreeLoad \in LoadEntry
  /\ \A op \in Program : op.size \in Sizes /\ op.addr \in Addr /\ op.signed \in BOOLEAN
<1>1. 0 \in 0..MaxOps /\ LSQSZ \in Nat \ {0}
  BY SizesOK
<1>2. NoAddr \in Addr
  <2>1. (CHOOSE b \in Blocks : TRUE) \in Blocks
    BY ProgramAssumption DEF ProgramAssumption
  <2> QED BY <2>1 DEF NoAddr, Addr
<1>3. ZeroUnit \in Unit
  BY <1>1 DEF ZeroUnit, Unit
<1>4. NoData \in Data
  BY <1>3 DEF NoData, Data
<1>5. MixedData \in Data
  <2>1. SignOf(ZeroUnit) \in Unit
    <3>1. ASSUME NEW f, NEW t
          PROVE  [[src |-> 0, part |-> 0, sign |-> f] EXCEPT !.sign = t] = [src |-> 0, part |-> 0, sign |-> t]
      OBVIOUS
    <3>2. SignOf(ZeroUnit) = [src |-> 0, part |-> 0, sign |-> TRUE]
      BY <3>1, Zenon DEF SignOf, ZeroUnit
    <3> QED BY <1>1, <3>2 DEF Unit
  <2> QED BY <2>1 DEF MixedData, Data
<1>6. \A id \in 0..MaxOps : Register(id) \in Data
  <2> SUFFICES ASSUME NEW id \in 0..MaxOps PROVE Register(id) \in Data
    OBVIOUS
  <2>1. /\ [src |-> id, part |-> 0, sign |-> FALSE] \in Unit
        /\ [src |-> id, part |-> 1, sign |-> FALSE] \in Unit
    BY DEF Unit
  <2> QED BY <2>1 DEF Register, Data
<1>7. FreeStore \in StoreEntry
  BY <1>1, <1>2, <1>4 DEF FreeStore, StoreEntry, Sizes
<1>8. FreeLoad \in LoadEntry
  <2>1. 0 \in Slots
    BY <1>1 DEF Slots
  <2> QED BY <1>1, <1>2, <1>4, <2>1 DEF FreeLoad, LoadEntry, Sizes
<1>9. \A op \in Program : op.size \in Sizes /\ op.addr \in Addr /\ op.signed \in BOOLEAN
  BY ProgramAssumption DEF ProgramAssumption, Sizes, Addr
<1> QED BY <1>2, <1>3, <1>4, <1>5, <1>6, <1>7, <1>8, <1>9

\* The slot of a way, and the tail a load of that way sees.
LEMMA WaySlot ==
  ASSUME IInv, NEW bundle \in Offered, NEW i \in Nat
  PROVE  LET r == Rank(Enabled(bundle, "store"), i)
         IN  /\ r \in Nat /\ r <= Cardinality(Enabled(bundle, "store"))
             /\ i > WAYS => r = Cardinality(Enabled(bundle, "store"))
             /\ Stores + r \in 0..(LSQSZ - 1)
             /\ sq_tail_internal_tmp(bundle, i) = At(Stores + r)
             /\ ld_sq_tail(bundle, i) = At(Stores + r)
<1> DEFINE S == Enabled(bundle, "store")
           r == Rank(S, i)
<1>1. /\ Stores \in 0..(LSQSZ - 1) /\ Stores + Cardinality(S) <= LSQSZ - 1
      /\ S \subseteq Ways /\ S \in SUBSET Nat /\ IsFiniteSet(S) /\ Cardinality(S) \in Nat
  BY OfferedFits, BundleIs DEF IInv
<1>2. sq_tail = At(Stores) /\ sq_head \in 0..(LSQSZ - 1) /\ LSQSZ \in Nat \ {0} /\ WAYS \in Nat
  BY QueueIs, SizesOK DEF IInv, RegistersOK, Slots
<1>3. /\ sq_tail_internal_tmp(bundle, i) = (sq_tail + r) % LSQSZ
      /\ ld_sq_tail(bundle, i) = (sq_tail + r) % LSQSZ
  BY DEF sq_tail_internal_tmp, ld_sq_tail, Rank
<1> HIDE DEF S
<1>4. r \in Nat /\ r <= Cardinality(S)
  <2> DEFINE T == {z \in S : z < i}
  <2>1. T \subseteq S
    OBVIOUS
  <2>2. IsFiniteSet(T) /\ Cardinality(T) <= Cardinality(S)
    BY <1>1, <2>1, FS_Subset
  <2>3. Cardinality(T) \in Nat
    BY <2>2, FS_CardinalityType
  <2> QED BY <2>2, <2>3 DEF Rank
<1>5. i > WAYS => r = Cardinality(S)
  <2> SUFFICES ASSUME i > WAYS PROVE r = Cardinality(S)
    OBVIOUS
  <2>1. \A z \in S : z \in Nat /\ z <= WAYS
    BY <1>1, <1>2 DEF Ways
  <2>2. {z \in S : z < i} = S
    BY <1>2, <2>1
  <2> QED BY <2>2 DEF Rank
<1> HIDE DEF r
<1>6. Stores + r \in 0..(LSQSZ - 1) /\ r \in 0..LSQSZ /\ Stores \in 0..LSQSZ /\ Stores + r <= LSQSZ
  BY <1>1, <1>2, <1>4
<1>7. (sq_tail + r) % LSQSZ = At(Stores + r)
  <2>1. (((sq_head + Stores) % LSQSZ) + r) % LSQSZ = (sq_head + (Stores + r)) % LSQSZ
    BY <1>2, <1>6, RingAdds
  <2> QED BY <1>2, <2>1 DEF At
<1> QED BY <1>3, <1>4, <1>5, <1>6, <1>7 DEF r, S

\* The ways whose slot is q steps from the head.
LEMMA WaysTo ==
  ASSUME IInv, NEW bundle \in Offered, NEW q \in 0..(LSQSZ - 1)
  PROVE  LET S == Enabled(bundle, "store")
             way == {i \in S : sq_tail_internal_tmp(bundle, i) = At(q)}
         IN  /\ \A i \in way : Rank(S, i) = q - Stores /\ Stores <= q /\ q < Stores + Cardinality(S)
             /\ Stores <= q /\ q < Stores + Cardinality(S) => way # {}
<1> DEFINE S == Enabled(bundle, "store")
           way == {i \in S : sq_tail_internal_tmp(bundle, i) = At(q)}
<1>1. /\ Stores \in 0..(LSQSZ - 1) /\ LSQSZ \in Nat
      /\ S \in SUBSET Nat /\ IsFiniteSet(S) /\ Cardinality(S) \in Nat
      /\ sq_head \in Slots
  BY OfferedFits, BundleIs, SizesOK DEF IInv, RegistersOK
<1>2. ASSUME NEW i \in S
      PROVE  /\ Rank(S, i) \in 0..(Cardinality(S) - 1) /\ Stores + Rank(S, i) \in 0..(LSQSZ - 1)
             /\ sq_tail_internal_tmp(bundle, i) = At(Stores + Rank(S, i))
  <2>1. i \in Nat
    BY <1>1
  <2>2. Stores + Rank(S, i) \in 0..(LSQSZ - 1) /\ sq_tail_internal_tmp(bundle, i) = At(Stores + Rank(S, i))
    BY <2>1, WaySlot
  <2>3. Rank(S, i) \in 0..(Cardinality(S) - 1)
    <3> HIDE DEF S
    <3> QED BY <1>1, RankRange
  <2> QED BY <2>2, <2>3
<1> HIDE DEF S
<1>3. ASSUME NEW i \in way
      PROVE  Rank(S, i) = q - Stores /\ Stores <= q /\ q < Stores + Cardinality(S)
  <2>1. At(Stores + Rank(S, i)) = At(q) /\ Stores + Rank(S, i) \in 0..(LSQSZ - 1)
        /\ Rank(S, i) \in 0..(Cardinality(S) - 1)
    BY <1>2, <1>3
  <2>2. Stores + Rank(S, i) = q
    BY <1>1, <2>1, AtUnique
  <2> QED BY <1>1, <2>1, <2>2
<1>4. ASSUME Stores <= q, q < Stores + Cardinality(S) PROVE way # {}
  <2>1. q - Stores \in 0..(Cardinality(S) - 1)
    BY <1>1, <1>4
  <2>2. PICK i \in S : Rank(S, i) = q - Stores
    BY <1>1, <2>1, RankOnto
  <2>3. Stores + Rank(S, i) = q
    BY <1>1, <2>2
  <2>4. i \in way
    BY <1>2, <2>3
  <2> QED BY <2>4
<1> QED BY <1>3, <1>4 DEF S

\* A store that stays takes the address and the data that are broadcast.
StoreKept(j, alu, data) ==
  LET id == sq[j].id
  IN  /\ sq[j].valid /\ sq'[j].valid /\ sq'[j].id = id /\ sq'[j].size = sq[j].size
      /\ (sq'[j].addr_valid <=> sq[j].addr_valid \/ id \in alu)
      /\ sq[j].addr_valid => sq'[j].addr = sq[j].addr
      /\ ~sq[j].addr_valid /\ id \in alu => sq'[j].addr = window[id].addr
      /\ (sq'[j].data_valid <=> sq[j].data_valid \/ id \in data)
      /\ sq[j].data_valid => sq'[j].data = sq[j].data
      /\ ~sq[j].data_valid /\ id \in data => sq'[j].data = Register(id)

\* What becomes of slot j when no way takes it and it does not commit.
LEMMA StoreUntaken ==
  ASSUME IInv, NEW j \in Slots, NEW bundle, NEW alu, NEW data, NEW commit,
         ~\E i \in Enabled(bundle, "store") : sq_tail_internal_tmp(bundle, i) = j,
         ~(commit /\ j = sq_head), sq'[j] = NextStore(j, bundle, alu, data, commit)
  PROVE  /\ sq'[j].valid = sq[j].valid
         /\ sq[j].valid => StoreKept(j, alu, data)
         /\ sq'[j] \in StoreEntry
<1> DEFINE e == sq[j]
           id == e.id
           addr_hit == e.valid /\ ~e.addr_valid /\ id \in alu
           data_hit == e.valid /\ ~e.data_valid /\ id \in data
           a == IF addr_hit THEN window[id].addr ELSE e.addr
           av == e.addr_valid \/ addr_hit
           d == IF data_hit THEN Register(id) ELSE e.data
           dv == e.data_valid \/ data_hit
           new == [e EXCEPT !.addr = a, !.addr_valid = av, !.data = d, !.data_valid = dv]
<1>1. e \in StoreEntry
  BY DEF IInv, RegistersOK
<1>2. sq'[j] = new
  <2>1. {i \in Enabled(bundle, "store") : sq_tail_internal_tmp(bundle, i) = j} = {}
    OBVIOUS
  <2> QED BY <2>1 DEF NextStore
<1>3. e.id \in 0..MaxOps /\ e.addr \in Addr /\ e.data \in Data
      /\ e.valid \in BOOLEAN /\ e.addr_valid \in BOOLEAN /\ e.data_valid \in BOOLEAN
  BY <1>1 DEF StoreEntry
<1>4. e.valid => id \in InWindow /\ window[id] \in Program /\ window[id].addr \in Addr
  <2>1. e.valid => id \in StoresIn
    BY QueueIs DEF IInv
  <2> QED BY <2>1, WindowIs, EntryTypes DEF IInv
<1>5. Register(id) \in Data
  BY <1>3, EntryTypes
<1>6. a \in Addr /\ av \in BOOLEAN /\ d \in Data /\ dv \in BOOLEAN
  <2>1. a \in Addr
    BY <1>3, <1>4
  <2>2. d \in Data
    BY <1>3, <1>5
  <2> QED BY <2>1, <2>2
<1>7. /\ addr_hit => a = window[id].addr
      /\ ~addr_hit => a = e.addr
      /\ data_hit => d = Register(id)
      /\ ~data_hit => d = e.data
  OBVIOUS
<1>8. e.valid => /\ (av <=> e.addr_valid \/ id \in alu)
                 /\ (dv <=> e.data_valid \/ id \in data)
                 /\ (addr_hit <=> ~e.addr_valid /\ id \in alu)
                 /\ (data_hit <=> ~e.data_valid /\ id \in data)
  OBVIOUS
<1> HIDE DEF a, av, d, dv, e, addr_hit, data_hit
<1>9. /\ new.valid = e.valid /\ new.id = e.id /\ new.size = e.size
      /\ new.addr = a /\ new.addr_valid = av /\ new.data = d /\ new.data_valid = dv
      /\ new \in StoreEntry
  BY <1>1, <1>6 DEF StoreEntry
<1> HIDE DEF new
<1>10. ASSUME e.valid PROVE StoreKept(j, alu, data)
  <2>1. /\ sq'[j].valid /\ sq'[j].id = id /\ sq'[j].size = e.size
        /\ (sq'[j].addr_valid <=> e.addr_valid \/ id \in alu)
        /\ (sq'[j].data_valid <=> e.data_valid \/ id \in data)
    BY <1>2, <1>8, <1>9, <1>10, Zenon
  <2>2. /\ e.addr_valid => sq'[j].addr = e.addr
        /\ ~e.addr_valid /\ id \in alu => sq'[j].addr = window[id].addr
    BY <1>2, <1>7, <1>8, <1>9, <1>10, Zenon
  <2>3. /\ e.data_valid => sq'[j].data = e.data
        /\ ~e.data_valid /\ id \in data => sq'[j].data = Register(id)
    BY <1>2, <1>7, <1>8, <1>9, <1>10, Zenon
  <2> QED BY <1>10, <2>1, <2>2, <2>3, Zenon DEF StoreKept, e
<1> QED BY <1>2, <1>9, <1>10, Zenon DEF e

\* The slot q steps from the head: the committed store leaves it, a store of
\* the queue stays, a store of the bundle enters, or it stays empty.
LEMMA StoreNext ==
  ASSUME IInv, NEW bundle, NEW alu, NEW data, NEW commit, NEW cache, NEW hit, NEW fb, NEW gnt,
         Step(bundle, alu, data, commit, cache, hit, fb, gnt), NEW q \in 0..(LSQSZ - 1)
  PROVE  LET S == Enabled(bundle, "store")
         IN  /\ commit /\ q = 0 => sq'[At(q)] = FreeStore
             /\ q < Stores /\ ~(commit /\ q = 0) => StoreKept(At(q), alu, data)
             /\ Stores <= q /\ q < Stores + Cardinality(S) =>
                  \E i \in S : Rank(S, i) = q - Stores /\ sq'[At(q)] = NewStore(bundle, i, data)
             /\ Stores + Cardinality(S) <= q => ~sq'[At(q)].valid
             /\ sq'[At(q)] \in StoreEntry
<1> DEFINE S == Enabled(bundle, "store")
           j == At(q)
           way == {i \in S : sq_tail_internal_tmp(bundle, i) = At(q)}
<1>1. /\ bundle \in Offered /\ Clock(bundle, alu, data, commit, cache, hit, fb, gnt)
      /\ commit \in BOOLEAN
  BY DEF Step
<1>2. /\ bundle \in Bundles /\ Stores \in Nat /\ Cardinality(S) \in Nat /\ q \in Nat
      /\ sq_head \in Slots /\ LSQSZ \in Nat \ {0}
  BY <1>1, OfferedFits, BundleIs, SizesOK DEF IInv, RegistersOK
<1>3. j \in Slots /\ (sq[j].valid <=> q < Stores) /\ (j = sq_head <=> q = 0)
  <2>1. 0 \in 0..(LSQSZ - 1) /\ At(0) = sq_head
    BY <1>2, AtUnique
  <2>2. j = sq_head <=> q = 0
    BY <1>2, <2>1, AtUnique
  <2>3. j \in Slots /\ (sq[j].valid <=> q < Stores)
    BY QueueIs DEF IInv
  <2> QED BY <2>2, <2>3
<1>4. sq'[j] = NextStore(j, bundle, alu, data, commit)
  BY <1>1, <1>3 DEF Clock
<1>5. /\ \A i \in way : Rank(S, i) = q - Stores /\ Stores <= q /\ q < Stores + Cardinality(S)
      /\ Stores <= q /\ q < Stores + Cardinality(S) => way # {}
  BY <1>1, WaysTo
<1>6. commit => Stores > 0
  BY <1>1, CommitIs DEF Clock
<1>7. CASE way # {}
  <2> DEFINE i == CHOOSE x \in way : TRUE
  <2>1. i \in way
    BY <1>7
  <2>2. sq'[j] = NewStore(bundle, i, data)
    BY <1>4, <1>7 DEF NextStore
  <2>3. i \in S /\ Rank(S, i) = q - Stores /\ Stores <= q /\ q < Stores + Cardinality(S)
    BY <1>5, <2>1
  <2>4. sq'[j] \in StoreEntry
    <3> DEFINE id == IdOf(bundle, i)
               d == IF id \in data THEN Register(id) ELSE NoData
               dv == id \in data
    <3>1. i \in Incoming(bundle) /\ bundle[i] \in Program
      BY <1>2, <2>3, BundleIs
    <3>2. id \in 0..MaxOps
      <4>1. dispatched \in Nat /\ Cardinality(Incoming(bundle)) \in Nat /\ MaxOps \in Nat
        BY <1>2, WindowIs, BundleIs, SizesOK DEF IInv
      <4>2. dispatched + Cardinality(Incoming(bundle)) <= MaxOps
        BY <1>1, OfferedFits DEF IInv
      <4>3. id \in (dispatched + 1)..(dispatched + Cardinality(Incoming(bundle)))
        BY <1>2, <3>1, <4>1, NumbersAre
      <4> QED BY <4>1, <4>2, <4>3
    <3>3. d \in Data /\ dv \in BOOLEAN /\ bundle[i].size \in Sizes
      BY <3>1, <3>2, EntryTypes
    <3> HIDE DEF id, d, dv
    <3>4. sq'[j] = [FreeStore EXCEPT !.valid = TRUE, !.id = id, !.size = bundle[i].size,
                                     !.data = d, !.data_valid = dv]
      BY <2>2, Zenon DEF NewStore, id, d, dv
    <3>5. FreeStore \in StoreEntry
      BY EntryTypes
    <3> HIDE DEF i
    <3> QED BY <3>2, <3>3, <3>4, <3>5 DEF StoreEntry
  <2>5. ~(commit /\ q = 0) /\ ~(q < Stores) /\ ~(Stores + Cardinality(S) <= q)
    BY <1>2, <1>6, <2>3
  <2> HIDE DEF i, j, S
  <2> QED BY <2>2, <2>3, <2>4, <2>5 DEF j, S
<1>8. CASE way = {} /\ commit /\ q = 0
  <2>1. sq'[j] = FreeStore
    BY <1>3, <1>4, <1>8 DEF NextStore
  <2>2. ~FreeStore.valid /\ FreeStore \in StoreEntry
    BY EntryTypes DEF FreeStore
  <2>3. ~(Stores <= q)
    BY <1>2, <1>6, <1>8
  <2> HIDE DEF j, S
  <2> QED BY <1>8, <2>1, <2>2, <2>3 DEF j, S
<1>9. CASE way = {} /\ ~(commit /\ q = 0)
  <2>1. /\ sq'[j].valid = sq[j].valid
        /\ sq[j].valid => StoreKept(j, alu, data)
        /\ sq'[j] \in StoreEntry
    BY <1>3, <1>4, <1>9, StoreUntaken
  <2>2. q < Stores \/ Stores + Cardinality(S) <= q
    BY <1>2, <1>5, <1>9
  <2>3. ~(Stores <= q /\ q < Stores + Cardinality(S))
    BY <1>5, <1>9
  <2>4. Stores + Cardinality(S) <= q => ~(q < Stores)
    BY <1>2
  <2> HIDE DEF j, S
  <2>5. q < Stores => StoreKept(j, alu, data)
    BY <1>3, <2>1
  <2>6. Stores + Cardinality(S) <= q => ~sq'[j].valid
    BY <1>3, <2>1, <2>4
  <2> QED BY <1>9, <2>1, <2>3, <2>5, <2>6 DEF j, S
<1> QED BY <1>7, <1>8, <1>9

\* The head moves past what commits, the tail past what enters.
Left(commit) == IF commit THEN 1 ELSE 0

LEMMA StepRing ==
  ASSUME IInv, NEW bundle, NEW alu, NEW data, NEW commit, NEW cache, NEW hit, NEW fb, NEW gnt,
         Step(bundle, alu, data, commit, cache, hit, fb, gnt)
  PROVE  LET m == Cardinality(Enabled(bundle, "store"))
             c == Left(commit)
         IN  /\ c \in 0..1 /\ c <= Stores /\ m \in Nat /\ Stores \in Nat
             /\ Stores' = Stores - c + m /\ Stores' \in 0..(LSQSZ - 1)
             /\ sq_num_free' \in 0..LSQSZ /\ sq_head' \in Slots
             /\ \A i \in 0..(LSQSZ - c) : At(i)' = At(i + c)
             /\ sq_tail' = (sq_head' + Stores') % LSQSZ
<1> DEFINE S == Enabled(bundle, "store")
           m == Cardinality(S)
           c == Left(commit)
<1>1. /\ bundle \in Offered /\ Clock(bundle, alu, data, commit, cache, hit, fb, gnt)
      /\ RegistersOK /\ LSQSZ \in Nat \ {0}
  BY SizesOK DEF Step, IInv
<1>2. /\ bundle \in Bundles /\ Stores \in 0..(LSQSZ - 1) /\ m \in Nat /\ Stores + m <= LSQSZ - 1
      /\ sq_head \in 0..(LSQSZ - 1) /\ sq_num_free \in Nat
  BY <1>1, OfferedFits, BundleIs DEF IInv, RegistersOK, Slots
<1>3. c \in 0..1 /\ c <= Stores
  <2>1. commit => Stores > 0
    BY <1>1, CommitIs DEF Clock
  <2> QED BY <1>1, <1>2, <2>1 DEF Left
<1>4. sq_num_free' = sq_num_free - m + c
  BY <1>1 DEF Clock, Left
<1>5. sq_head' = (sq_head + c) % LSQSZ
  <2>1. (sq_head + 0) % LSQSZ = sq_head
    BY <1>1, <1>2
  <2> QED BY <1>1, <2>1 DEF Clock, Left
<1>6. sq_tail' = At(Stores + m)
  <2>1. sq_tail' = sq_tail_internal_tmp(bundle, WAYS + 1)
    BY <1>1 DEF Clock
  <2>2. WAYS + 1 \in Nat /\ WAYS + 1 > WAYS
    BY SizesOK
  <2> QED BY <1>1, <2>1, <2>2, WaySlot
<1> HIDE DEF S, m, c
<1>7. Stores' = Stores - c + m /\ Stores' \in 0..(LSQSZ - 1) /\ sq_num_free' \in 0..LSQSZ
  BY <1>1, <1>2, <1>3, <1>4 DEF Stores
<1>8. ASSUME NEW i \in 0..(LSQSZ - c) PROVE At(i)' = At(i + c)
  <2>1. /\ c \in 0..LSQSZ /\ i \in 0..LSQSZ /\ c + i <= LSQSZ /\ LSQSZ \in Nat \ {0}
        /\ c + i = i + c
    BY <1>1, <1>3
  <2>2. (((sq_head + c) % LSQSZ) + i) % LSQSZ = (sq_head + (c + i)) % LSQSZ
    BY <1>2, <2>1, RingAdds
  <2>3. (sq_head' + i) % LSQSZ = (sq_head + (c + i)) % LSQSZ
    BY <1>5, <2>2
  <2> QED BY <2>1, <2>3 DEF At
<1>9. sq_head' \in Slots
  <2>1. c \in 0..LSQSZ
    BY <1>1, <1>3
  <2> QED BY <1>1, <1>2, <1>5, <2>1, RingSlot DEF Slots
<1>10. sq_tail' = (sq_head' + Stores') % LSQSZ
  <2>1. Stores' \in 0..(LSQSZ - c) /\ Stores' + c = Stores + m
    BY <1>1, <1>2, <1>3, <1>7
  <2>2. \A i \in 0..(LSQSZ - c) : (sq_head' + i) % LSQSZ = At(i + c)
    BY <1>8 DEF At
  <2>3. (sq_head' + Stores') % LSQSZ = At(Stores' + c)
    BY <2>1, <2>2
  <2> QED BY <1>6, <2>1, <2>3
<1> QED BY <1>2, <1>3, <1>7, <1>8, <1>9, <1>10 DEF S, m, c

\* What is i steps from the new head: a store that stayed, a store of the
\* bundle, or nothing.
LEMMA NewQueue ==
  ASSUME IInv, NEW bundle, NEW alu, NEW data, NEW commit, NEW cache, NEW hit, NEW fb, NEW gnt,
         Step(bundle, alu, data, commit, cache, hit, fb, gnt), NEW i \in 0..(LSQSZ - 1)
  PROVE  LET S == Enabled(bundle, "store")
             m == Cardinality(S)
             c == Left(commit)
         IN  /\ At(i)' \in Slots /\ At(i)' = At(i + c)
             /\ i < Stores - c => i + c \in 0..(Stores - 1) /\ StoreKept(At(i + c), alu, data)
             /\ Stores - c <= i /\ i < Stores - c + m =>
                  \E w \in S : Rank(S, w) = i + c - Stores /\ sq'[At(i + c)] = NewStore(bundle, w, data)
             /\ Stores - c + m <= i => ~sq'[At(i + c)].valid
             /\ sq'[At(i + c)] \in StoreEntry
<1> DEFINE S == Enabled(bundle, "store")
           m == Cardinality(S)
           c == Left(commit)
<1>1. /\ c \in 0..1 /\ c <= Stores /\ m \in Nat /\ Stores \in Nat
      /\ Stores - c + m \in 0..(LSQSZ - 1) /\ sq_head \in Slots
      /\ At(i)' = At(i + c)
      /\ LSQSZ \in Nat /\ Stores + m <= LSQSZ - 1
  <2>1. /\ c \in 0..1 /\ c <= Stores /\ m \in Nat /\ Stores \in Nat
        /\ Stores' = Stores - c + m /\ Stores' \in 0..(LSQSZ - 1)
        /\ \A k \in 0..(LSQSZ - c) : At(k)' = At(k + c)
    BY StepRing
  <2>2. LSQSZ \in Nat /\ sq_head \in Slots
    BY SizesOK DEF IInv, RegistersOK
  <2>3. Stores + m <= LSQSZ - 1
    BY OfferedFits DEF IInv, Step
  <2>4. i \in 0..(LSQSZ - c)
    BY <2>1, <2>2
  <2> QED BY <2>1, <2>2, <2>3, <2>4
<1>2. At(i + c) \in Slots
  <2>1. i + c \in 0..LSQSZ
    BY <1>1
  <2> QED BY <1>1, <2>1, AtSlot
<1>3. c = 1 <=> commit
  BY DEF Left
<1>4. CASE i + c = LSQSZ
  <2>1. commit /\ c = 1 /\ i = LSQSZ - 1
    BY <1>1, <1>3, <1>4
  <2>2. At(i + c) = At(0)
    <3>1. At(i + c) = sq_head
      BY <1>1, <1>4, AtSlot DEF Slots
    <3> QED BY <1>1, <3>1, AtUnique
  <2>3. sq'[At(0)] = FreeStore /\ sq'[At(0)] \in StoreEntry
    <3>1. 0 \in 0..(LSQSZ - 1)
      BY <1>1
    <3> QED BY <2>1, <3>1, StoreNext
  <2>4. ~FreeStore.valid
    BY DEF FreeStore
  <2> HIDE DEF c, m, S
  <2>5. ~(i < Stores - c) /\ ~(i < Stores - c + m)
    <3>1. Stores - c + m <= LSQSZ - 2 /\ Stores - c <= LSQSZ - 2
      BY <1>1, <2>1
    <3> QED BY <1>1, <2>1, <3>1
  <2> QED BY <1>1, <1>2, <2>2, <2>3, <2>4, <2>5 DEF c, m, S
<1>5. CASE i + c # LSQSZ
  <2> DEFINE q == i + c
  <2>1. q \in 0..(LSQSZ - 1)
    BY <1>1, <1>5
  <2>2. /\ q < Stores /\ ~(commit /\ q = 0) => StoreKept(At(q), alu, data)
        /\ Stores <= q /\ q < Stores + m =>
             \E w \in S : Rank(S, w) = q - Stores /\ sq'[At(q)] = NewStore(bundle, w, data)
        /\ Stores + m <= q => ~sq'[At(q)].valid
        /\ sq'[At(q)] \in StoreEntry
    <3> HIDE DEF q
    <3> QED BY <2>1, StoreNext
  <2>3. ~(commit /\ q = 0)
    BY <1>1, <1>3
  <2>4. /\ i < Stores - c => q \in 0..(Stores - 1)
        /\ (i < Stores - c <=> q < Stores)
        /\ (Stores - c <= i <=> Stores <= q)
        /\ (i < Stores - c + m <=> q < Stores + m)
        /\ (Stores - c + m <= i <=> Stores + m <= q)
        /\ i + c - Stores = q - Stores
    BY <1>1
  <2> HIDE DEF c, m, S
  <2> QED BY <1>1, <1>2, <2>2, <2>3, <2>4 DEF c, m, S
<1> QED BY <1>4, <1>5

\* The store queue holds the stores of the window after the edge.
LEMMA StoresQueuedNext ==
  ASSUME IInv, NEW bundle, NEW alu, NEW data, NEW commit, NEW cache, NEW hit, NEW fb, NEW gnt,
         Step(bundle, alu, data, commit, cache, hit, fb, gnt)
  PROVE  StoresQueued' /\ sq' \in [Slots -> StoreEntry]
<1> DEFINE S == Enabled(bundle, "store")
           m == Cardinality(S)
           c == Left(commit)
           e(i) == sq'[At(i + c)]
           kept == Stores - c
           n == kept + m
<1>1. /\ c \in 0..1 /\ c <= Stores /\ m \in Nat /\ Stores \in Nat
      /\ Stores' = n /\ n \in 0..(LSQSZ - 1) /\ LSQSZ \in Nat \ {0}
      /\ sq_tail' = (sq_head' + n) % LSQSZ /\ sq_head' \in Slots
  BY StepRing, SizesOK
<1>2. \A i \in 0..(LSQSZ - 1) :
        /\ At(i)' \in Slots /\ At(i)' = At(i + c)
        /\ i < kept => i + c \in 0..(Stores - 1) /\ StoreKept(At(i + c), alu, data)
        /\ kept <= i /\ i < n => \E w \in S : Rank(S, w) = i + c - Stores /\ e(i) = NewStore(bundle, w, data)
        /\ n <= i => ~e(i).valid
        /\ e(i) \in StoreEntry
  BY NewQueue
<1>3. /\ bundle \in Bundles /\ S \in SUBSET Nat /\ IsFiniteSet(S) /\ S \subseteq Incoming(bundle)
      /\ dispatched \in Nat /\ Clock(bundle, alu, data, commit, cache, hit, fb, gnt)
  BY BundleIs, OfferedFits, WindowIs DEF IInv, Step
<1>4. \A i, k \in Incoming(bundle) : i < k => IdOf(bundle, i) < IdOf(bundle, k)
  BY <1>3, NumbersAre
<1>5. /\ \A i \in Incoming(bundle) : IdOf(bundle, i) \in Nat /\ IdOf(bundle, i) > dispatched
      /\ StoresIn' = (StoresIn \ Gone(commit)) \cup Coming(bundle, "store")
  BY StepWindow
<1>6. /\ \A i \in 0..(Stores - 1) : sq[At(i)].valid /\ sq[At(i)].id \in StoresIn
      /\ \A id \in StoresIn : \E i \in 0..(Stores - 1) : sq[At(i)].id = id
      /\ \A i, k \in 0..(Stores - 1) : i < k => sq[At(i)].id < sq[At(k)].id
  BY QueueIs DEF IInv
<1>7. \A id \in StoresIn : id \in Nat /\ id <= dispatched
  BY WindowIs DEF IInv
<1>8. \A w \in S : NewStore(bundle, w, data).valid /\ NewStore(bundle, w, data).id = IdOf(bundle, w)
  BY DEF NewStore, FreeStore
<1>9. commit => c = 1 /\ Oldest = sq[At(0)].id
  <2>1. At(0) = sq_head
    BY AtUnique DEF IInv, RegistersOK
  <2> QED BY <1>3, <2>1, CommitIs DEF Clock, Left
<1>10. ~commit => c = 0
  BY DEF Left
<1> HIDE DEF S, m, c, e
<1>11. ASSUME NEW i \in 0..(LSQSZ - 1), i < kept
       PROVE  /\ i + c \in 0..(Stores - 1) /\ e(i).valid /\ e(i).id = sq[At(i + c)].id
              /\ e(i).id \in StoresIn
  BY <1>2, <1>6, <1>11 DEF StoreKept, e
<1>12. ASSUME NEW i \in 0..(LSQSZ - 1), kept <= i, i < n
       PROVE  \E w \in S : /\ Rank(S, w) = i + c - Stores
                           /\ e(i) = NewStore(bundle, w, data)
                           /\ e(i).valid /\ e(i).id = IdOf(bundle, w)
  <2>1. PICK w \in S : Rank(S, w) = i + c - Stores /\ e(i) = NewStore(bundle, w, data)
    BY <1>2, <1>12
  <2> QED BY <1>8, <2>1
<1>13. \A i \in 0..(LSQSZ - 1) : e(i).valid <=> i < n
  <2> SUFFICES ASSUME NEW i \in 0..(LSQSZ - 1) PROVE e(i).valid <=> i < n
    OBVIOUS
  <2>1. i < kept \/ (kept <= i /\ i < n) \/ n <= i
    BY <1>1
  <2>2. i < kept => i < n
    BY <1>1
  <2>3. n <= i => ~(i < n)
    BY <1>1
  <2> QED BY <1>2, <1>11, <1>12, <2>1, <2>2, <2>3
<1>14. \A i \in 0..(n - 1) : e(i).id \in StoresIn'
  <2> SUFFICES ASSUME NEW i \in 0..(n - 1) PROVE e(i).id \in StoresIn'
    OBVIOUS
  <2>1. i \in 0..(LSQSZ - 1) /\ i < n
    BY <1>1
  <2>2. CASE i < kept
    <3>1. e(i).id = sq[At(i + c)].id /\ e(i).id \in StoresIn /\ i + c \in 0..(Stores - 1)
      BY <1>11, <2>1, <2>2
    <3>2. commit => e(i).id # Oldest
      <4> SUFFICES ASSUME commit PROVE e(i).id # Oldest
        OBVIOUS
      <4>1. 0 \in 0..(Stores - 1) /\ 0 < i + c
        BY <1>1, <1>9, <2>1, <3>1
      <4>2. sq[At(0)].id < sq[At(i + c)].id
        BY <1>6, <3>1, <4>1
      <4>3. sq[At(0)].id \in Nat /\ sq[At(i + c)].id \in Nat
        BY <1>6, <1>7, <3>1, <4>1
      <4> QED BY <1>9, <3>1, <4>2, <4>3
    <3> QED BY <1>5, <3>1, <3>2 DEF Gone
  <2>3. CASE kept <= i
    <3>1. PICK w \in S : e(i).id = IdOf(bundle, w)
      BY <1>12, <2>1, <2>3
    <3> QED BY <1>5, <3>1 DEF Coming, S
  <2> QED BY <1>1, <2>1, <2>2, <2>3
<1>15. \A id \in StoresIn' : \E i \in 0..(n - 1) : e(i).id = id
  <2> SUFFICES ASSUME NEW id \in StoresIn' PROVE \E i \in 0..(n - 1) : e(i).id = id
    OBVIOUS
  <2>1. CASE id \in StoresIn \ Gone(commit)
    <3>1. PICK k \in 0..(Stores - 1) : sq[At(k)].id = id
      BY <1>6, <2>1
    <3>2. commit => k # 0
      BY <1>9, <2>1, <3>1 DEF Gone
    <3>3. k - c \in 0..(n - 1) /\ k - c \in 0..(LSQSZ - 1) /\ k - c < kept /\ k - c + c = k
      BY <1>1, <1>9, <1>10, <3>2
    <3>4. e(k - c).id = sq[At(k - c + c)].id
      BY <1>11, <3>3
    <3> QED BY <3>1, <3>3, <3>4
  <2>2. CASE id \in Coming(bundle, "store")
    <3>1. PICK w \in S : id = IdOf(bundle, w)
      BY <2>2 DEF Coming, S
    <3>2. Rank(S, w) \in 0..(m - 1)
      BY <1>3, RankRange DEF m
    <3> DEFINE i == kept + Rank(S, w)
    <3>3. i \in 0..(n - 1) /\ i \in 0..(LSQSZ - 1) /\ kept <= i /\ i < n
          /\ i + c - Stores = Rank(S, w)
      BY <1>1, <3>2
    <3> HIDE DEF i
    <3>4. PICK v \in S : Rank(S, v) = i + c - Stores /\ e(i).id = IdOf(bundle, v)
      BY <1>12, <3>3
    <3>5. v = w
      BY <1>3, <3>3, <3>4, RankInjective
    <3> QED BY <3>1, <3>3, <3>4, <3>5
  <2> QED BY <1>5, <2>1, <2>2
<1>16. \A i, k \in 0..(n - 1) : i < k => e(i).id < e(k).id
  <2> SUFFICES ASSUME NEW i \in 0..(n - 1), NEW k \in 0..(n - 1), i < k PROVE e(i).id < e(k).id
    OBVIOUS
  <2>1. /\ i \in 0..(LSQSZ - 1) /\ k \in 0..(LSQSZ - 1) /\ i < n /\ k < n
        /\ k < kept => i < kept
        /\ i < kept \/ kept <= i
        /\ k < kept \/ kept <= k
        /\ i + c < k + c
    BY <1>1
  <2>2. CASE k < kept
    <3>1. i + c \in 0..(Stores - 1) /\ e(i).id = sq[At(i + c)].id
      BY <1>11, <2>1, <2>2
    <3>2. k + c \in 0..(Stores - 1) /\ e(k).id = sq[At(k + c)].id
      BY <1>11, <2>1, <2>2
    <3> QED BY <1>6, <2>1, <3>1, <3>2
  <2>3. CASE i < kept /\ kept <= k
    <3>1. e(i).id \in Nat /\ e(i).id <= dispatched
      BY <1>7, <1>11, <2>1, <2>3
    <3>2. PICK w \in S : e(k).id = IdOf(bundle, w)
      BY <1>12, <2>1, <2>3
    <3>3. IdOf(bundle, w) \in Nat /\ IdOf(bundle, w) > dispatched
      BY <1>3, <1>5
    <3> QED BY <1>3, <3>1, <3>2, <3>3
  <2>4. CASE kept <= i /\ kept <= k
    <3>1. PICK v \in S : Rank(S, v) = i + c - Stores /\ e(i).id = IdOf(bundle, v)
      BY <1>12, <2>1, <2>4
    <3>2. PICK w \in S : Rank(S, w) = k + c - Stores /\ e(k).id = IdOf(bundle, w)
      BY <1>12, <2>1, <2>4
    <3>3. Rank(S, v) < Rank(S, w) /\ Rank(S, v) \in Int /\ Rank(S, w) \in Int
      BY <1>1, <3>1, <3>2
    <3>4. v \in Nat /\ w \in Nat
      BY <1>3
    <3>5. v < w
      <4>1. CASE v = w
        BY <3>3, <4>1
      <4>2. CASE w < v
        <5>1. Rank(S, w) < Rank(S, v)
          BY <1>3, <4>2, RankMonotonic
        <5> QED BY <3>3, <5>1
      <4> QED BY <3>4, <4>1, <4>2
    <3>6. v \in Incoming(bundle) /\ w \in Incoming(bundle)
      BY <1>3
    <3> QED BY <1>4, <3>1, <3>2, <3>5, <3>6
  <2> QED BY <2>1, <2>2, <2>3, <2>4
<1>17. StoresQueued'
  <2>1. \A i \in 0..(LSQSZ - 1) : (sq_head' + i) % LSQSZ = At(i + c)
    BY <1>2 DEF At
  <2>2. LSQSZ - sq_num_free' = n
    BY <1>1 DEF Stores
  <2>3. \A i \in 0..(LSQSZ - 1) : sq'[(sq_head' + i) % LSQSZ] = e(i)
    BY <2>1 DEF e
  <2>4. \A i \in 0..(n - 1) : i \in 0..(LSQSZ - 1)
    BY <1>1
  <2> HIDE DEF n
  <2>5. {sq'[(sq_head' + i) % LSQSZ].id : i \in 0..(n - 1)} = StoresIn'
    BY <1>14, <1>15, <2>3, <2>4
  <2>6. \A i, k \in 0..(n - 1) :
          i < k => sq'[(sq_head' + i) % LSQSZ].id < sq'[(sq_head' + k) % LSQSZ].id
    BY <1>16, <2>3, <2>4
  <2>7. \A i \in 0..(LSQSZ - 1) : sq'[(sq_head' + i) % LSQSZ].valid <=> i < n
    BY <1>13, <2>3
  <2> QED BY <1>1, <2>2, <2>5, <2>6, <2>7 DEF StoresQueued
<1>18. sq' \in [Slots -> StoreEntry]
  <2>1. \A j \in Slots : sq'[j] \in StoreEntry
    <3> SUFFICES ASSUME NEW j \in Slots PROVE sq'[j] \in StoreEntry
      OBVIOUS
    <3>1. PICK q \in 0..(LSQSZ - 1) : j = At(q)
      BY AtUnique DEF IInv, RegistersOK
    <3> QED BY <3>1, StoreNext
  <2>2. sq' = [j \in Slots |-> NextStore(j, bundle, alu, data, commit)]
    BY <1>3 DEF Clock
  <2>3. sq' = [j \in Slots |-> sq'[j]]
    BY <2>2
  <2> QED BY <2>1, <2>3
<1> QED BY <1>17, <1>18

-----------------------------------------------------------------------------
(* The slots of the ways' loads. *)

\* Where way i's slot is among the free ones, counted from the bottom.
Place(i) == IF i % 2 = 1 THEN lq_num_free - 1 - ((i - 1) \div 2) ELSE (i - 1) \div 2

\* With more free slots than ways the two counts do not meet.
LEMMA PlacesDiffer ==
  ASSUME lq_num_free \in Nat, lq_num_free > WAYS
  PROVE  /\ \A i \in Ways : Place(i) \in 0..(lq_num_free - 1)
         /\ \A i, k \in Ways : Place(i) = Place(k) => i = k
<1>1. WAYS \in Nat
  BY SizesOK
<1>2. ASSUME NEW i \in Ways
      PROVE  \E q \in Nat : \/ i % 2 = 1 /\ i = 2 * q + 1 /\ Place(i) = lq_num_free - 1 - q
                            \/ i % 2 # 1 /\ i = 2 * q + 2 /\ Place(i) = q
  <2> DEFINE q == (i - 1) \div 2
  <2>1. i \in 1..WAYS
    BY DEF Ways
  <2>2. q \in Nat /\ (i = 2 * q + 1 \/ i = 2 * q + 2)
    BY <1>1, <2>1
  <2>3. i = 2 * q + 1 <=> i % 2 = 1
    BY <1>1, <2>1, <2>2
  <2>4. Place(i) = IF i % 2 = 1 THEN lq_num_free - 1 - q ELSE q
    BY DEF Place
  <2> HIDE DEF q
  <2> QED BY <2>2, <2>3, <2>4
<1>3. \A i \in Ways : i \in 1..WAYS
  BY DEF Ways
<1>4. ASSUME NEW i \in Ways PROVE Place(i) \in 0..(lq_num_free - 1)
  BY <1>1, <1>2, <1>3
<1>5. ASSUME NEW i \in Ways, NEW k \in Ways, Place(i) = Place(k) PROVE i = k
  <2>1. PICK q \in Nat : \/ i % 2 = 1 /\ i = 2 * q + 1 /\ Place(i) = lq_num_free - 1 - q
                         \/ i % 2 # 1 /\ i = 2 * q + 2 /\ Place(i) = q
    BY <1>2
  <2>2. PICK r \in Nat : \/ k % 2 = 1 /\ k = 2 * r + 1 /\ Place(k) = lq_num_free - 1 - r
                         \/ k % 2 # 1 /\ k = 2 * r + 2 /\ Place(k) = r
    BY <1>2
  <2>3. i \in 1..WAYS /\ k \in 1..WAYS
    BY <1>3
  <2> QED BY <1>1, <1>5, <2>1, <2>2, <2>3
<1> QED BY <1>4, <1>5

\* Every way has a free slot of its own.
LEMMA LoadSlotIs ==
  ASSUME LoadsQueued, lq_num_free > WAYS
  PROVE  /\ \A i \in Ways : \E s \in Slots \ Held : LoadSlot(i) = {s}
         /\ \A i, k \in Ways, s \in Slots : s \in LoadSlot(i) /\ s \in LoadSlot(k) => i = k
<1> DEFINE F == Slots \ Held
<1>1. F \in SUBSET Nat /\ IsFiniteSet(F) /\ lq_num_free = Cardinality(F) /\ lq_num_free \in Nat
  <2>1. F \subseteq Slots /\ lq_num_free = Cardinality(F)
    BY DEF LoadsQueued, Held
  <2> HIDE DEF F
  <2> QED BY <2>1, SlotsFinite
<1>2. F = {s \in Slots : lq[s].free}
  BY DEF Held
<1>3. /\ \A i \in Ways : Place(i) \in 0..(Cardinality(F) - 1)
      /\ \A i, k \in Ways : Place(i) = Place(k) => i = k
  BY <1>1, PlacesDiffer
<1> HIDE DEF F
<1>4. ASSUME NEW i \in Ways PROVE LoadSlot(i) = {s \in F : Rank(F, s) = Place(i)}
  <2>1. LoadSlot(i) = {s \in F : Cardinality({t \in F : IF i % 2 = 1 THEN t > s ELSE t < s}) = (i - 1) \div 2}
    BY <1>2 DEF LoadSlot
  <2>2. CASE i % 2 = 1
    <3> SUFFICES ASSUME NEW s \in F
                 PROVE  Cardinality({t \in F : t > s}) = (i - 1) \div 2 <=> Rank(F, s) = Place(i)
      BY <2>1, <2>2
    <3>1. Cardinality({t \in F : t > s}) = Cardinality(F) - 1 - Rank(F, s)
      BY <1>1, RankFromAbove
    <3>2. Rank(F, s) \in 0..(Cardinality(F) - 1)
      BY <1>1, RankRange
    <3>3. Place(i) = Cardinality(F) - 1 - ((i - 1) \div 2)
      BY <1>1, <2>2 DEF Place
    <3>4. (i - 1) \div 2 \in Int
      BY SizesOK DEF Ways
    <3> QED BY <1>1, <3>1, <3>2, <3>3, <3>4
  <2>3. CASE i % 2 # 1
    <3>1. Place(i) = (i - 1) \div 2
      BY <2>3 DEF Place
    <3> QED BY <2>1, <2>3, <3>1 DEF Rank
  <2> QED BY <2>2, <2>3
<1>5. ASSUME NEW i \in Ways PROVE \E s \in F : LoadSlot(i) = {s}
  <2>1. PICK s \in F : Rank(F, s) = Place(i)
    BY <1>1, <1>3, RankOnto
  <2>2. \A t \in F : Rank(F, t) = Place(i) => t = s
    BY <1>1, <2>1, RankInjective
  <2> QED BY <1>4, <2>1, <2>2
<1>6. ASSUME NEW i \in Ways, NEW k \in Ways, NEW s \in Slots, s \in LoadSlot(i), s \in LoadSlot(k)
      PROVE  i = k
  BY <1>3, <1>4, <1>6
<1> QED BY <1>5, <1>6 DEF F

-----------------------------------------------------------------------------
(* The age of a load and the store it waits for. *)

\* A load's age as a number of steps from the head.
LEMMA AgeOf ==
  ASSUME IInv, NEW s \in Held
  PROVE  \E k \in 0..Stores :
           /\ AgedAt(s, k)
           /\ \A j \in Slots : sq[j].valid =>
                \E i \in 0..(Stores - 1) : j = At(i) /\ (j \in Older(s) <=> i < k)
<1>1. PICK k \in 0..Stores : AgedAt(s, k)
  BY DEF IInv, AgesRecorded
<1>2. \A j \in Slots : sq[j].valid => \E i \in 0..(Stores - 1) : j = At(i)
  BY QueueIs DEF IInv
<1>3. \A i \in 0..(Stores - 1) : i < k <=> sq[At(i)].id < lq[s].id
  BY <1>1 DEF AgedAt
<1> HIDE DEF Stores, At
<1> SUFFICES ASSUME NEW j \in Slots, sq[j].valid
             PROVE  \E i \in 0..(Stores - 1) : j = At(i) /\ (j \in Older(s) <=> i < k)
  BY <1>1
<1>4. PICK i \in 0..(Stores - 1) : j = At(i)
  BY <1>2
<1>5. j \in Older(s) <=> sq[j].id < lq[s].id
  BY DEF Older
<1> QED BY <1>3, <1>4, <1>5

\* The age mask tells the older stores, wherever the head is, and orders them
\* as the selection does.
LEMMA AgeMaskIs ==
  ASSUME IInv, NEW s \in Held
  PROVE  /\ \A j \in Slots : sq[j].valid => (j \in age_mask(s) <=> j \in Older(s))
         /\ \A j, k \in Older(s) :
              IF wrap_around(s)
              THEN /\ (j < lq[s].sq_tail_old <=> k < lq[s].sq_tail_old) /\ j <= k => sq[j].id <= sq[k].id
                   /\ ~(j < lq[s].sq_tail_old) /\ k < lq[s].sq_tail_old => sq[j].id <= sq[k].id
              ELSE j <= k => sq[j].id <= sq[k].id
<1> DEFINE t == lq[s].sq_tail_old
<1>1. PICK k \in 0..Stores :
        /\ AgedAt(s, k)
        /\ \A j \in Slots : sq[j].valid =>
             \E i \in 0..(Stores - 1) : j = At(i) /\ (j \in Older(s) <=> i < k)
  BY AgeOf
<1>2. /\ Stores \in 0..(LSQSZ - 1) /\ LSQSZ \in Nat \ {0} /\ sq_head \in 0..(LSQSZ - 1)
      /\ \A a, b \in 0..(Stores - 1) : a < b => sq[At(a)].id < sq[At(b)].id
      /\ \A a \in 0..(Stores - 1) : sq[At(a)].id \in Nat
  <2>1. sq_head \in Slots /\ sq \in [Slots -> StoreEntry] /\ MaxOps \in Nat
    BY SizesOK DEF IInv, RegistersOK
  <2>2. \A j \in Slots : sq[j].id \in Nat
    BY <2>1 DEF StoreEntry
  <2>3. \A a \in 0..(Stores - 1) : At(a) \in Slots
    BY QueueIs DEF IInv
  <2> QED BY <2>1, <2>2, <2>3, QueueIs, SizesOK DEF IInv, Slots
<1>3. ASSUME NEW i \in 0..LSQSZ
      PROVE  At(i) = IF sq_head + i < LSQSZ THEN sq_head + i ELSE sq_head + i - LSQSZ
  BY <1>2, AtSlot DEF Slots
<1>4. t = At(k)
  BY <1>1 DEF AgedAt
<1>5. t = IF sq_head + k < LSQSZ THEN sq_head + k ELSE sq_head + k - LSQSZ
  BY <1>2, <1>3, <1>4
<1>6. wrap_around(s) <=> sq_head > t
  BY DEF wrap_around
<1>7. \A j \in Slots : j \in age_mask(s) <=> IF sq_head > t THEN j < t \/ j >= sq_head
                                                           ELSE j < t /\ j >= sq_head
  BY <1>6 DEF age_mask
<1> HIDE DEF t, Stores, At
<1>8. ASSUME NEW j \in Slots, sq[j].valid PROVE j \in age_mask(s) <=> j \in Older(s)
  <2>1. PICK i \in 0..(Stores - 1) : j = At(i) /\ (j \in Older(s) <=> i < k)
    BY <1>1, <1>8
  <2>2. j = IF sq_head + i < LSQSZ THEN sq_head + i ELSE sq_head + i - LSQSZ
    BY <1>2, <1>3, <2>1
  <2>3. i < k <=> IF sq_head > t THEN j < t \/ j >= sq_head ELSE j < t /\ j >= sq_head
    BY <1>2, <1>5, <2>2
  <2> QED BY <1>7, <2>1, <2>3
<1>9. ASSUME NEW j \in Older(s), NEW l \in Older(s)
      PROVE  IF wrap_around(s)
             THEN /\ (j < t <=> l < t) /\ j <= l => sq[j].id <= sq[l].id
                  /\ ~(j < t) /\ l < t => sq[j].id <= sq[l].id
             ELSE j <= l => sq[j].id <= sq[l].id
  <2>1. j \in Slots /\ sq[j].valid /\ l \in Slots /\ sq[l].valid
    BY DEF Older
  <2>2. PICK a \in 0..(Stores - 1) : j = At(a) /\ a < k
    BY <1>1, <2>1
  <2>3. PICK b \in 0..(Stores - 1) : l = At(b) /\ b < k
    BY <1>1, <2>1
  <2>4. j = IF sq_head + a < LSQSZ THEN sq_head + a ELSE sq_head + a - LSQSZ
    BY <1>2, <1>3, <2>2
  <2>5. l = IF sq_head + b < LSQSZ THEN sq_head + b ELSE sq_head + b - LSQSZ
    BY <1>2, <1>3, <2>3
  <2>6. a <= b => sq[j].id <= sq[l].id
    <3>1. sq[j].id \in Nat /\ sq[l].id \in Nat
      BY <1>2, <2>2, <2>3
    <3>2. a = b => sq[j].id = sq[l].id
      BY <2>2, <2>3
    <3>3. a < b => sq[j].id < sq[l].id
      BY <1>2, <2>2, <2>3
    <3>4. a \in Int /\ b \in Int
      BY <1>2, <2>2, <2>3
    <3> QED BY <3>1, <3>2, <3>3, <3>4
  <2>7. IF sq_head > t
        THEN /\ (j < t <=> l < t) /\ j <= l => a <= b
             /\ ~(j < t) /\ l < t => a <= b
        ELSE j <= l => a <= b
    BY <1>2, <1>5, <2>2, <2>3, <2>4, <2>5
  <2> QED BY <1>6, <2>6, <2>7
<1> QED BY <1>8, <1>9 DEF t

\* A finite set of slots that is not empty has a greatest.
LEMMA MaxOfIs ==
  ASSUME NEW S, S \subseteq Slots, S # {}
  PROVE  MaxOf(S) \in S /\ \A y \in S : y <= MaxOf(S)
<1>1. S \in SUBSET Nat /\ LSQSZ \in Nat /\ \A y \in S : y <= LSQSZ
  BY SizesOK DEF Slots
<1>2. \E x \in S : \A y \in S : y <= x
  BY <1>1, GreatestNat
<1> QED BY <1>2 DEF MaxOf

Hits(s) == {j \in Older(s) : ls_addr_block_hit(s, j)}

\* What is selected is the youngest of the older stores that may conflict.
LEMMA SelectedIs ==
  ASSUME IInv, NEW s \in Held
  PROVE  /\ Hits(s) = {} => ls_addr_block_hit_selected(s) = {}
         /\ Hits(s) # {} => \E j \in Hits(s) : /\ ls_addr_block_hit_selected(s) = {j}
                                               /\ \A k \in Hits(s) : sq[k].id <= sq[j].id
         /\ Hits(s) \subseteq Slots
<1> DEFINE t == lq[s].sq_tail_old
           H == Hits(s)
           below == {j \in H : j < t}
<1>1. H = {j \in age_mask(s) : ls_addr_block_hit(s, j)}
  <2>1. age_mask(s) \subseteq Slots /\ Older(s) \subseteq Slots
    BY DEF age_mask, Older
  <2>2. \A j \in Slots : ls_addr_block_hit(s, j) => sq[j].valid
    BY DEF ls_addr_block_hit
  <2>3. \A j \in Slots : sq[j].valid => (j \in age_mask(s) <=> j \in Older(s))
    BY AgeMaskIs
  <2> QED BY <2>1, <2>2, <2>3 DEF Hits
<1>2. ls_addr_block_hit_selected(s) =
        IF H = {} THEN {}
        ELSE IF wrap_around(s) /\ below # {} THEN {MaxOf(below)} ELSE {MaxOf(H)}
  BY <1>1 DEF ls_addr_block_hit_selected
<1>3. H \subseteq Older(s) /\ H \subseteq Slots
  BY DEF Hits, Older
<1>4. \A j, k \in H :
        IF wrap_around(s)
        THEN /\ (j < t <=> k < t) /\ j <= k => sq[j].id <= sq[k].id
             /\ ~(j < t) /\ k < t => sq[j].id <= sq[k].id
        ELSE j <= k => sq[j].id <= sq[k].id
  BY <1>3, AgeMaskIs
<1> HIDE DEF H, t
<1>5. CASE wrap_around(s) /\ below # {}
  <2> DEFINE x == MaxOf(below)
  <2>1. below \subseteq Slots
    BY <1>3
  <2>2. x \in below /\ \A y \in below : y <= x
    <3> HIDE DEF below
    <3> QED BY <1>5, <2>1, MaxOfIs
  <2>3. x \in H /\ x < t
    BY <2>2
  <2> HIDE DEF x
  <2>4. ASSUME NEW y \in H PROVE sq[y].id <= sq[x].id
    <3>1. CASE y < t
      <4>1. y <= x
        BY <2>2, <3>1
      <4> QED BY <1>4, <1>5, <2>3, <3>1, <4>1
    <3>2. CASE ~(y < t)
      BY <1>4, <1>5, <2>3, <3>2
    <3> QED BY <3>1, <3>2
  <2>5. ls_addr_block_hit_selected(s) = {x} /\ H # {}
    BY <1>2, <1>5, <2>3 DEF x
  <2> QED BY <1>3, <2>3, <2>4, <2>5 DEF H
<1>6. CASE ~(wrap_around(s) /\ below # {}) /\ H # {}
  <2> DEFINE x == MaxOf(H)
  <2>1. x \in H /\ \A y \in H : y <= x
    BY <1>3, <1>6, MaxOfIs
  <2> HIDE DEF x
  <2>2. ASSUME NEW y \in H PROVE sq[y].id <= sq[x].id
    <3>1. y <= x
      BY <2>1
    <3>2. wrap_around(s) => ~(y < t) /\ ~(x < t)
      BY <1>6, <2>1
    <3> QED BY <1>4, <2>1, <3>1, <3>2
  <2>3. ls_addr_block_hit_selected(s) = {x}
    BY <1>2, <1>6 DEF x
  <2> QED BY <1>3, <1>6, <2>1, <2>2, <2>3 DEF H
<1>7. CASE H = {}
  BY <1>2, <1>3, <1>7 DEF H
<1> QED BY <1>5, <1>6, <1>7

-----------------------------------------------------------------------------
(* One clock edge: the load queue. *)

\* A load that stays takes the address that is broadcast, and its data and its
\* state from its state machine; m is the memory the cache reads.
LoadKept(s, m, alu, cache, hit, fb) ==
  LET id == lq[s].id
  IN  /\ ~lq'[s].free /\ lq'[s].id = id /\ lq'[s].size = lq[s].size
      /\ lq'[s].signed = lq[s].signed /\ lq'[s].sq_tail_old = lq[s].sq_tail_old
      /\ (lq'[s].addr_ready <=> lq[s].addr_ready \/ id \in alu)
      /\ lq[s].addr_ready => lq'[s].addr = lq[s].addr
      /\ ~lq[s].addr_ready /\ id \in alu => lq'[s].addr = window[id].addr
      /\ lq'[s].data = ld_data_next(s, m, cache, hit, fb)
      /\ lq'[s].state = ls_state_next(s, cache, hit, fb)

\* Memory after the edge is memory, what is read from it is data.
LEMMA ReadTypes ==
  ASSUME IInv, NEW commit \in BOOLEAN, commit => MayCommit
  PROVE  /\ WriteBack(commit) \in [Blocks -> [0..1 -> Unit]]
         /\ \A m \in [Blocks -> [0..1 -> Unit]], addr \in Addr : \A size : ReadFrom(m, size, addr) \in Data
<1>1. mem \in [Blocks -> [0..1 -> Unit]] /\ sq \in [Slots -> StoreEntry] /\ sq_head \in Slots
  BY DEF IInv, RegistersOK
<1>2. sq[sq_head].addr \in Addr /\ sq[sq_head].data \in Data
  BY <1>1 DEF StoreEntry
<1>3. WriteBack(commit) \in [Blocks -> [0..1 -> Unit]]
  <2> DEFINE a == sq[sq_head].addr
             d == sq[sq_head].data
  <2>1. a.block \in Blocks /\ a.off \in 0..1 /\ d[1] \in Unit /\ d[2] \in Unit
    BY <1>2 DEF Addr, Data
  <2>2. [o \in 0..1 |-> d[o + 1]] \in [0..1 -> Unit]
    <3>1. \A o \in 0..1 : d[o + 1] \in Unit
      BY <2>1
    <3> QED BY <3>1
  <2>3. WriteBack(commit) = mem
        \/ WriteBack(commit) = [mem EXCEPT ![a.block] = [o \in 0..1 |-> d[o + 1]]]
        \/ WriteBack(commit) = [mem EXCEPT ![a.block][a.off] = d[1]]
    BY DEF WriteBack, Written
  <2> HIDE DEF a, d
  <2> QED BY <1>1, <2>1, <2>2, <2>3
<1>4. ASSUME NEW m \in [Blocks -> [0..1 -> Unit]], NEW size, NEW addr \in Addr
      PROVE  ReadFrom(m, size, addr) \in Data
  <2>1. addr.block \in Blocks /\ addr.off \in 0..1
    BY DEF Addr
  <2>2. m[addr.block][0] \in Unit /\ m[addr.block][1] \in Unit /\ m[addr.block][addr.off] \in Unit
    BY <2>1
  <2> QED BY <2>2, EntryTypes DEF ReadFrom, Data
<1> QED BY <1>3, <1>4

\* What becomes of the load in slot s when no way takes the slot.
LEMMA LoadUntaken ==
  ASSUME IInv, NEW s \in Slots, NEW m \in [Blocks -> [0..1 -> Unit]], NEW bundle, NEW alu,
         NEW cache, NEW hit \in BOOLEAN, NEW fb, NEW gnt,
         ~\E i \in Enabled(bundle, "load") : s \in LoadSlot(i),
         lq'[s] = NextLoad(s, m, bundle, alu, cache, hit, fb, gnt)
  PROVE  /\ s \in gnt \/ lq[s].free => lq'[s] = FreeLoad
         /\ s \notin gnt /\ ~lq[s].free => LoadKept(s, m, alu, cache, hit, fb) /\ lq'[s] \in LoadEntry
<1> DEFINE e == lq[s]
           id == e.id
           addr_hit == ~e.addr_ready /\ id \in alu
           a == IF addr_hit THEN window[id].addr ELSE e.addr
           ar == e.addr_ready \/ addr_hit
           d == ld_data_next(s, m, cache, hit, fb)
           st == ls_state_next(s, cache, hit, fb)
           new == [e EXCEPT !.addr = a, !.addr_ready = ar, !.data = d, !.state = st]
<1>1. {i \in Enabled(bundle, "load") : s \in LoadSlot(i)} = {}
  OBVIOUS
<1>2. s \in gnt \/ lq[s].free => lq'[s] = FreeLoad
  BY <1>1 DEF NextLoad
<1> SUFFICES ASSUME s \notin gnt, ~lq[s].free
             PROVE  LoadKept(s, m, alu, cache, hit, fb) /\ lq'[s] \in LoadEntry
  BY <1>2
<1>3. lq'[s] = new
  BY <1>1 DEF NextLoad
<1>4. e \in LoadEntry /\ s \in Held
  BY DEF IInv, RegistersOK, Held
<1>5. e.addr \in Addr /\ e.data \in Data /\ e.addr_ready \in BOOLEAN /\ e.state \in 0..3
  BY <1>4 DEF LoadEntry
<1>6. a \in Addr
  <2>1. id \in InWindow /\ window[id] \in Program
    BY <1>4, HeldAre, WindowIs DEF IInv
  <2> QED BY <1>5, <2>1, EntryTypes
<1>7. st \in 0..3
  BY DEF ls_state_next
<1>8. d \in Data
  <2> DEFINE sources == {sq[j].data : j \in ls_addr_forward(s)}
               \cup (IF s \in cache /\ hit THEN {ReadFrom(m, lq[s].size, lq[s].addr)} ELSE {})
               \cup (IF s \in fb THEN {ReadFrom(mem, lq[s].size, lq[s].addr)} ELSE {})
  <2>1. \A j \in ls_addr_forward(s) : sq[j].data \in Data
    <3>1. \A j \in ls_addr_forward(s) : j \in Hits(s)
      BY <1>4, SelectedIs DEF ls_addr_forward
    <3>2. \A j \in Hits(s) : j \in Slots
      BY <1>4, SelectedIs
    <3>3. \A j \in Slots : sq[j].data \in Data
      BY DEF IInv, RegistersOK, StoreEntry
    <3> QED BY <3>1, <3>2, <3>3
  <2>2. ReadFrom(m, lq[s].size, lq[s].addr) \in Data /\ ReadFrom(mem, lq[s].size, lq[s].addr) \in Data
    <3>1. FALSE \in BOOLEAN /\ (FALSE => MayCommit) /\ mem \in [Blocks -> [0..1 -> Unit]]
      BY DEF IInv, RegistersOK
    <3>2. \A n \in [Blocks -> [0..1 -> Unit]], addr \in Addr : \A size : ReadFrom(n, size, addr) \in Data
      BY <3>1, ReadTypes
    <3> QED BY <1>5, <3>1, <3>2
  <2>3. \A x \in sources : x \in Data
    BY <2>1, <2>2
  <2>4. d = IF sources = {} THEN lq[s].data
            ELSE IF \E x \in sources : sources = {x} THEN CHOOSE x \in sources : TRUE
            ELSE MixedData
    BY DEF ld_data_next
  <2> HIDE DEF sources
  <2>5. sources # {} => (CHOOSE x \in sources : TRUE) \in sources
    OBVIOUS
  <2>6. MixedData \in Data
    BY EntryTypes
  <2> HIDE DEF d
  <2> QED BY <1>5, <2>3, <2>4, <2>5, <2>6
<1>9. /\ addr_hit => a = window[id].addr
      /\ ~addr_hit => a = e.addr
      /\ (ar <=> e.addr_ready \/ id \in alu)
      /\ (addr_hit <=> ~e.addr_ready /\ id \in alu)
      /\ ar \in BOOLEAN
  BY <1>5
<1> HIDE DEF a, ar, d, st, e, addr_hit
<1>10. /\ new.free = e.free /\ new.id = e.id /\ new.size = e.size /\ new.signed = e.signed
       /\ new.sq_tail_old = e.sq_tail_old
       /\ new.addr = a /\ new.addr_ready = ar /\ new.data = d /\ new.state = st
       /\ new \in LoadEntry
  BY <1>4, <1>6, <1>7, <1>8, <1>9 DEF LoadEntry
<1> HIDE DEF new
<1>11. ~e.free
  BY DEF e
<1>12. LoadKept(s, m, alu, cache, hit, fb)
  <2>1. /\ ~lq'[s].free /\ lq'[s].id = id /\ lq'[s].size = e.size
        /\ lq'[s].signed = e.signed /\ lq'[s].sq_tail_old = e.sq_tail_old
        /\ lq'[s].data = d /\ lq'[s].state = st
    BY <1>3, <1>10, <1>11, Zenon
  <2>2. (lq'[s].addr_ready <=> e.addr_ready \/ id \in alu)
    BY <1>3, <1>9, <1>10, Zenon
  <2>3. /\ e.addr_ready => lq'[s].addr = e.addr
        /\ ~e.addr_ready /\ id \in alu => lq'[s].addr = window[id].addr
    BY <1>3, <1>9, <1>10, Zenon
  <2> QED BY <2>1, <2>2, <2>3, Zenon DEF LoadKept, e, d, st
<1> QED BY <1>3, <1>10, <1>12

\* The slot s after the edge: a load of the bundle has come into a free slot,
\* or the slot is empty, or the load has stayed.
LEMMA LoadNext ==
  ASSUME IInv, NEW bundle, NEW alu, NEW data, NEW commit, NEW cache, NEW hit, NEW fb, NEW gnt,
         Step(bundle, alu, data, commit, cache, hit, fb, gnt), NEW s \in Slots
  PROVE  LET L == Enabled(bundle, "load")
         IN  /\ \A i \in L : s \in LoadSlot(i) => s \notin Held /\ lq'[s] = NewLoad(bundle, i)
             /\ s \in Held /\ s \notin gnt => LoadKept(s, WriteBack(commit), alu, cache, hit, fb)
             /\ s \in gnt \/ s \notin Held =>
                  (\E i \in L : s \in LoadSlot(i)) \/ lq'[s] = FreeLoad
             /\ lq'[s] \in LoadEntry
<1> DEFINE L == Enabled(bundle, "load")
           way == {i \in L : s \in LoadSlot(i)}
           m == WriteBack(commit)
<1>1. /\ bundle \in Offered /\ commit \in BOOLEAN /\ hit \in BOOLEAN /\ (commit => MayCommit)
      /\ lq'[s] = NextLoad(s, m, bundle, alu, cache, hit, fb, gnt)
  BY DEF Step, Clock
<1>2. /\ bundle \in Bundles /\ L \subseteq Ways /\ L \subseteq Incoming(bundle)
      /\ \A i \in L : lq_num_free > WAYS
  BY <1>1, OfferedFits, BundleIs DEF IInv
<1>3. \A i \in L : /\ \E t \in Slots \ Held : LoadSlot(i) = {t}
                   /\ \A k \in L : s \in LoadSlot(i) /\ s \in LoadSlot(k) => i = k
  <2> SUFFICES ASSUME NEW i \in L
               PROVE  /\ \E t \in Slots \ Held : LoadSlot(i) = {t}
                      /\ \A k \in L : s \in LoadSlot(i) /\ s \in LoadSlot(k) => i = k
    OBVIOUS
  <2>1. LoadsQueued /\ lq_num_free > WAYS
    BY <1>2 DEF IInv, QueuesMatchWindow
  <2> QED BY <1>2, <2>1, LoadSlotIs
<1>4. ASSUME NEW i \in L, s \in LoadSlot(i)
      PROVE  s \notin Held /\ lq'[s] = NewLoad(bundle, i) /\ lq'[s] \in LoadEntry
  <2>1. s \notin Held
    BY <1>3, <1>4
  <2>2. lq'[s] = NewLoad(bundle, i)
    <3>1. i \in way /\ \A k \in way : k = i
      BY <1>3, <1>4
    <3>2. (CHOOSE k \in way : TRUE) = i
      BY <3>1
    <3> QED BY <1>1, <3>1, <3>2 DEF NextLoad
  <2>3. NewLoad(bundle, i) \in LoadEntry
    <3> DEFINE id == IdOf(bundle, i)
               t == ld_sq_tail(bundle, i)
    <3>1. bundle[i] \in Program /\ i \in Incoming(bundle)
      BY <1>2, BundleIs
    <3>2. id \in 0..MaxOps
      <4>1. dispatched \in Nat /\ Cardinality(Incoming(bundle)) \in Nat /\ MaxOps \in Nat
        BY <1>2, WindowIs, BundleIs, SizesOK DEF IInv
      <4>2. dispatched + Cardinality(Incoming(bundle)) <= MaxOps
        BY <1>1, OfferedFits DEF IInv
      <4>3. id \in (dispatched + 1)..(dispatched + Cardinality(Incoming(bundle)))
        BY <1>2, <3>1, <4>1, NumbersAre
      <4> QED BY <4>1, <4>2, <4>3
    <3>3. t \in Slots
      <4>1. i \in Nat /\ LSQSZ \in Nat /\ sq_head \in Slots
        BY <1>2, SizesOK DEF Ways, IInv, RegistersOK
      <4> DEFINE r == Rank(Enabled(bundle, "store"), i)
      <4>2. Stores + r \in 0..(LSQSZ - 1) /\ t = At(Stores + r)
        BY <1>1, <4>1, WaySlot
      <4> HIDE DEF r, t
      <4>3. Stores + r \in 0..LSQSZ
        BY <4>1, <4>2
      <4> QED BY <4>1, <4>2, <4>3, AtSlot
    <3>4. bundle[i].size \in Sizes /\ bundle[i].signed \in BOOLEAN /\ FreeLoad \in LoadEntry
      BY <3>1, EntryTypes
    <3> HIDE DEF id, t
    <3>5. NewLoad(bundle, i) = [FreeLoad EXCEPT !.free = FALSE, !.id = id, !.size = bundle[i].size,
                                                !.signed = bundle[i].signed, !.sq_tail_old = t]
      BY Zenon DEF NewLoad, id, t
    <3> QED BY <3>2, <3>3, <3>4, <3>5 DEF LoadEntry
  <2> QED BY <2>1, <2>2, <2>3
<1>5. ASSUME ~\E i \in L : s \in LoadSlot(i)
      PROVE  /\ s \in gnt \/ lq[s].free => lq'[s] = FreeLoad
             /\ s \notin gnt /\ ~lq[s].free =>
                  LoadKept(s, m, alu, cache, hit, fb) /\ lq'[s] \in LoadEntry
  <2>1. m \in [Blocks -> [0..1 -> Unit]]
    BY <1>1, ReadTypes
  <2> HIDE DEF m
  <2> QED BY <1>1, <1>5, <2>1, LoadUntaken
<1>6. FreeLoad \in LoadEntry
  BY EntryTypes
<1>7. s \in Held <=> ~lq[s].free
  BY DEF Held
<1> HIDE DEF L
<1> QED BY <1>4, <1>5, <1>6, <1>7 DEF L

\* The load queue holds the loads of the window after the edge.
LEMMA LoadsQueuedNext ==
  ASSUME IInv, NEW bundle, NEW alu, NEW data, NEW commit, NEW cache, NEW hit, NEW fb, NEW gnt,
         Step(bundle, alu, data, commit, cache, hit, fb, gnt)
  PROVE  LoadsQueued' /\ lq' \in [Slots -> LoadEntry]
<1> DEFINE L == Enabled(bundle, "load")
           F == Slots \ Held
           f == [i \in L |-> CHOOSE s \in Slots : s \in LoadSlot(i)]
           T == {f[i] : i \in L}
           m == WriteBack(commit)
<1>1. /\ bundle \in Offered /\ bundle \in Bundles /\ gnt \subseteq Done
      /\ Clock(bundle, alu, data, commit, cache, hit, fb, gnt)
      /\ L \subseteq Ways /\ L \subseteq Incoming(bundle) /\ IsFiniteSet(L) /\ Cardinality(L) \in Nat
  BY OfferedFits, BundleIs DEF Step, IInv
<1>2. /\ \A s \in Held : s \in Slots /\ lq[s].id \in LoadsIn
      /\ \A id \in LoadsIn : \E s \in Held : lq[s].id = id
      /\ \A s, t \in Held : lq[s].id = lq[t].id => s = t
      /\ gnt \subseteq Held /\ Held \subseteq Slots
  BY <1>1, HeldAre
<1>3. ASSUME NEW i \in L
      PROVE  /\ f[i] \in F /\ LoadSlot(i) = {f[i]}
             /\ \A k \in L : f[i] = f[k] => i = k
  <2>1. LoadsQueued /\ lq_num_free > WAYS
    BY <1>1, OfferedFits DEF IInv, QueuesMatchWindow
  <2>2. \A k \in L : \E t \in F : LoadSlot(k) = {t}
    BY <1>1, <2>1, LoadSlotIs
  <2>3. \A k \in L : f[k] \in LoadSlot(k)
    BY <2>2
  <2>4. \A k \in L : f[k] \in F /\ LoadSlot(k) = {f[k]}
    <3> HIDE DEF f
    <3> QED BY <2>2, <2>3
  <2>5. \A k \in L, s \in Slots : s \in LoadSlot(i) /\ s \in LoadSlot(k) => i = k
    BY <1>1, <2>1, LoadSlotIs
  <2> HIDE DEF f, L
  <2> QED BY <2>4, <2>5
<1> HIDE DEF f
<1>4. \A s \in Slots :
        /\ \A i \in L : s \in LoadSlot(i) => s \notin Held /\ lq'[s] = NewLoad(bundle, i)
        /\ s \in Held /\ s \notin gnt => LoadKept(s, m, alu, cache, hit, fb)
        /\ s \in gnt \/ s \notin Held => (\E i \in L : s \in LoadSlot(i)) \/ lq'[s] = FreeLoad
        /\ lq'[s] \in LoadEntry
  BY LoadNext
<1>5. \A i \in L : /\ NewLoad(bundle, i).id = IdOf(bundle, i) /\ ~NewLoad(bundle, i).free
  BY DEF NewLoad, FreeLoad
<1>6. /\ \A id \in LoadsIn : id \in Nat /\ id <= dispatched
      /\ dispatched \in Nat
  BY WindowIs DEF IInv
<1>7. /\ \A i \in Incoming(bundle) : IdOf(bundle, i) \in Nat /\ IdOf(bundle, i) > dispatched
      /\ LoadsIn' = (LoadsIn \ {lq[s].id : s \in gnt}) \cup Coming(bundle, "load")
  BY StepWindow
<1>8. \A i, k \in L : IdOf(bundle, i) = IdOf(bundle, k) => i = k
  BY <1>1, <1>6, NumbersAre
<1>9. Coming(bundle, "load") = {IdOf(bundle, i) : i \in L}
  BY DEF Coming
<1>10. FreeLoad.free
  BY DEF FreeLoad
<1>11. \A s \in Slots : LoadKept(s, m, alu, cache, hit, fb) => ~lq'[s].free /\ lq'[s].id = lq[s].id
  BY DEF LoadKept
<1> HIDE DEF L, F, m
<1>12. \A i \in L : lq'[f[i]].id = IdOf(bundle, i) /\ ~lq'[f[i]].free /\ f[i] \in Slots /\ f[i] \notin Held
  BY <1>3, <1>4, <1>5 DEF F
<1>13. ASSUME NEW s \in Slots PROVE ~lq'[s].free <=> (s \in Held /\ s \notin gnt) \/ s \in T
  <2>1. CASE s \in Held /\ s \notin gnt
    BY <1>4, <1>11, <2>1
  <2>2. CASE s \in T
    BY <1>12, <2>2
  <2>3. CASE ~(s \in Held /\ s \notin gnt) /\ s \notin T
    <3>1. ~\E i \in L : s \in LoadSlot(i)
      BY <1>3, <2>3
    <3> QED BY <1>4, <1>10, <2>3, <3>1
  <2> QED BY <2>1, <2>2, <2>3
<1>14. Held' = (Held \ gnt) \cup T
  <2>1. T \subseteq Slots
    BY <1>12
  <2>2. Held' = {s \in Slots : ~lq'[s].free}
    BY DEF Held
  <2> HIDE DEF T
  <2> QED BY <1>2, <1>13, <2>1, <2>2
<1>15. {lq'[s].id : s \in Held'} = LoadsIn'
  <2>1. ASSUME NEW s \in Held' PROVE lq'[s].id \in LoadsIn'
    <3>1. CASE s \in Held /\ s \notin gnt
      <4>1. lq'[s].id = lq[s].id /\ lq[s].id \in LoadsIn
        BY <1>2, <1>4, <1>11, <3>1
      <4>2. \A t \in gnt : lq[s].id # lq[t].id
        BY <1>2, <3>1
      <4> QED BY <1>7, <4>1, <4>2
    <3>2. CASE s \in T
      BY <1>7, <1>9, <1>12, <3>2
    <3> QED BY <1>14, <2>1, <3>1, <3>2
  <2>2. ASSUME NEW id \in LoadsIn' PROVE \E s \in Held' : lq'[s].id = id
    <3>1. CASE id \in LoadsIn /\ id \notin {lq[s].id : s \in gnt}
      <4>1. PICK s \in Held : lq[s].id = id
        BY <1>2, <3>1
      <4>2. s \notin gnt
        BY <3>1, <4>1
      <4> QED BY <1>2, <1>4, <1>11, <1>14, <4>1, <4>2
    <3>2. CASE id \in Coming(bundle, "load")
      <4>1. PICK i \in L : id = IdOf(bundle, i)
        BY <1>9, <3>2
      <4> QED BY <1>12, <1>14, <4>1
    <3> QED BY <1>7, <2>2, <3>1, <3>2
  <2> QED BY <2>1, <2>2
<1>16. \A s, t \in Held' : lq'[s].id = lq'[t].id => s = t
  <2> SUFFICES ASSUME NEW s \in Held', NEW t \in Held', lq'[s].id = lq'[t].id PROVE s = t
    OBVIOUS
  <2>1. \A u \in Held' : \/ u \in Held /\ lq'[u].id = lq[u].id /\ lq'[u].id <= dispatched
                         \/ \E i \in L : u = f[i] /\ lq'[u].id = IdOf(bundle, i) /\ lq'[u].id > dispatched
    <3> SUFFICES ASSUME NEW u \in Held'
                 PROVE  \/ u \in Held /\ lq'[u].id = lq[u].id /\ lq'[u].id <= dispatched
                        \/ \E i \in L : u = f[i] /\ lq'[u].id = IdOf(bundle, i) /\ lq'[u].id > dispatched
      OBVIOUS
    <3>1. CASE u \in Held /\ u \notin gnt
      BY <1>2, <1>4, <1>6, <1>11, <3>1
    <3>2. CASE u \in T
      <4>1. PICK i \in L : u = f[i]
        BY <3>2
      <4> QED BY <1>1, <1>7, <1>12, <4>1 DEF L
    <3> QED BY <1>14, <3>1, <3>2
  <2>2. /\ \A u \in Held' : lq'[u].id \in Nat
        /\ dispatched \in Nat
    <3>1. \A u \in Held' : lq'[u] \in LoadEntry
      BY <1>4 DEF Held
    <3>2. MaxOps \in Nat
      BY SizesOK
    <3> QED BY <1>6, <3>1, <3>2 DEF LoadEntry
  <2>3. ~(lq'[s].id <= dispatched /\ lq'[t].id > dispatched)
        /\ ~(lq'[t].id <= dispatched /\ lq'[s].id > dispatched)
    BY <2>2
  <2> QED BY <1>2, <1>8, <2>1, <2>3
<1>17. lq_num_free' = Cardinality(Slots \ Held')
  <2>1. F \subseteq Slots /\ gnt \subseteq Slots /\ F \cap gnt = {} /\ T \subseteq F
    BY <1>2, <1>3 DEF F
  <2>2. IsFiniteSet(F) /\ IsFiniteSet(gnt) /\ Cardinality(F) \in Nat /\ Cardinality(gnt) \in Nat
    BY <2>1, SlotsFinite
  <2>3. IsFiniteSet(T) /\ Cardinality(T) = Cardinality(L)
    <3>1. \A i, k \in L : f[i] = f[k] => i = k
      BY <1>3
    <3> QED BY <1>1, <3>1, ImageSize DEF L
  <2>4. Slots \ Held' = (F \cup gnt) \ T
    <3> HIDE DEF T
    <3> QED BY <1>2, <1>14, <2>1 DEF F
  <2> HIDE DEF T
  <2>5. IsFiniteSet(F \cup gnt) /\ Cardinality(F \cup gnt) = Cardinality(F) + Cardinality(gnt)
    <3>1. /\ IsFiniteSet(F \cup gnt)
          /\ Cardinality(F \cup gnt) = Cardinality(F) + Cardinality(gnt) - Cardinality(F \cap gnt)
      BY <2>2, FS_Union
    <3>2. Cardinality(F \cap gnt) = 0
      BY <2>1, FS_EmptySet
    <3> QED BY <2>2, <3>1, <3>2
  <2>6. Cardinality((F \cup gnt) \ T) = Cardinality(F \cup gnt) - Cardinality(T)
    <3> DEFINE G == F \cup gnt
    <3>1. G \cap T = T
      BY <2>1
    <3>2. IsFiniteSet(G)
      BY <2>5
    <3> HIDE DEF G
    <3>3. Cardinality(G \ T) = Cardinality(G) - Cardinality(G \cap T)
      BY <3>2, FS_Difference
    <3> QED BY <3>1, <3>3 DEF G
  <2>7. lq_num_free = Cardinality(F)
    BY DEF F, IInv, QueuesMatchWindow, LoadsQueued, Held
  <2>8. lq_num_free' = lq_num_free - Cardinality(L) + Cardinality(gnt)
    BY <1>1 DEF Clock, L
  <2>9. Cardinality(L) \in Nat
    BY <1>1 DEF L
  <2> DEFINE x == Cardinality(F)
             y == Cardinality(gnt)
             z == Cardinality(L)
  <2>10. Cardinality((F \cup gnt) \ T) = (x + y) - z
    BY <2>3, <2>5, <2>6
  <2>11. lq_num_free' = (x - z) + y /\ x \in Nat /\ y \in Nat /\ z \in Nat
    BY <2>2, <2>7, <2>8, <2>9
  <2> HIDE DEF x, y, z
  <2>12. (x - z) + y = (x + y) - z
    BY <2>11
  <2> QED BY <2>4, <2>10, <2>11, <2>12
<1>18. LoadsQueued'
  BY <1>15, <1>16, <1>17 DEF LoadsQueued, Held
<1>19. lq' \in [Slots -> LoadEntry]
  <2>1. lq' = [s \in Slots |-> lq'[s]]
    BY <1>1 DEF Clock
  <2> QED BY <1>4, <2>1
<1> QED BY <1>18, <1>19

-----------------------------------------------------------------------------
(* One clock edge: what the entries say. *)

\* The stores of the queue have numbers of their own.
LEMMA StoreOnce ==
  ASSUME IInv, NEW j \in Slots, NEW k \in Slots, sq[j].valid, sq[k].valid, sq[j].id = sq[k].id
  PROVE  j = k /\ sq[j].id \in StoresIn /\ sq[j].id \in Nat
<1>1. PICK a \in 0..(Stores - 1) : j = At(a)
  BY QueueIs DEF IInv
<1>2. PICK b \in 0..(Stores - 1) : k = At(b)
  BY QueueIs DEF IInv
<1>3. /\ a < b => sq[j].id < sq[k].id
      /\ b < a => sq[k].id < sq[j].id
      /\ sq[j].id \in StoresIn
  BY <1>1, <1>2, QueueIs DEF IInv
<1>4. sq[j].id \in Nat
  BY <1>3, WindowIs DEF IInv
<1>5. Stores \in Nat /\ a \in Int /\ b \in Int
  BY <1>1, <1>2, QueueIs DEF IInv
<1>6. a = b
  BY <1>3, <1>4, <1>5
<1> QED BY <1>1, <1>2, <1>3, <1>4, <1>6

\* Slot by slot: what is in the store queue after the edge has stayed or come.
LEMMA StoreSlot ==
  ASSUME IInv, NEW bundle, NEW alu, NEW data, NEW commit, NEW cache, NEW hit, NEW fb, NEW gnt,
         Step(bundle, alu, data, commit, cache, hit, fb, gnt), NEW j \in Slots
  PROVE  /\ sq[j].valid /\ ~(commit /\ j = sq_head) => StoreKept(j, alu, data)
         /\ sq'[j].valid => \/ sq[j].valid /\ ~(commit /\ j = sq_head)
                            \/ \E i \in Enabled(bundle, "store") : sq'[j] = NewStore(bundle, i, data)
<1>1. PICK q \in 0..(LSQSZ - 1) : j = At(q)
  BY AtUnique DEF IInv, RegistersOK
<1>2. /\ LSQSZ \in Nat \ {0} /\ Stores \in Nat /\ (sq[j].valid <=> q < Stores)
      /\ Cardinality(Enabled(bundle, "store")) \in Nat
  BY <1>1, QueueIs, SizesOK, OfferedFits, BundleIs DEF IInv, Step
<1>3. j = sq_head <=> q = 0
  <2>1. 0 \in 0..(LSQSZ - 1) /\ At(0) = sq_head
    BY <1>2, AtUnique DEF IInv, RegistersOK
  <2> QED BY <1>1, <2>1, AtUnique DEF IInv, RegistersOK
<1> DEFINE m == Cardinality(Enabled(bundle, "store"))
<1>4. /\ commit /\ q = 0 => sq'[j] = FreeStore
      /\ q < Stores /\ ~(commit /\ q = 0) => StoreKept(j, alu, data)
      /\ Stores <= q /\ q < Stores + m =>
           \E i \in Enabled(bundle, "store") : sq'[j] = NewStore(bundle, i, data)
      /\ Stores + m <= q => ~sq'[j].valid
  <2>1. LET S == Enabled(bundle, "store")
        IN  /\ commit /\ q = 0 => sq'[At(q)] = FreeStore
            /\ q < Stores /\ ~(commit /\ q = 0) => StoreKept(At(q), alu, data)
            /\ Stores <= q /\ q < Stores + Cardinality(S) =>
                 \E i \in S : Rank(S, i) = q - Stores /\ sq'[At(q)] = NewStore(bundle, i, data)
            /\ Stores + Cardinality(S) <= q => ~sq'[At(q)].valid
    BY StoreNext
  <2> QED BY <1>1, <2>1
<1>5. ~FreeStore.valid
  BY DEF FreeStore
<1>6. q < Stores \/ (Stores <= q /\ q < Stores + m) \/ Stores + m <= q
  BY <1>2
<1> HIDE DEF m
<1> QED BY <1>2, <1>3, <1>4, <1>5, <1>6

\* The instructions that stay keep their numbers and their text.
LEMMA StaysSo ==
  ASSUME IInv, NEW bundle, NEW alu, NEW data, NEW commit, NEW cache, NEW hit, NEW fb, NEW gnt,
         Step(bundle, alu, data, commit, cache, hit, fb, gnt)
  PROVE  /\ \A id \in StoresIn \ Gone(commit) : id \in Staying(commit, gnt) /\ window'[id] = window[id]
         /\ \A s \in Held \ gnt : lq[s].id \in Staying(commit, gnt) /\ window'[lq[s].id] = window[lq[s].id]
         /\ \A j \in Slots : sq[j].valid /\ ~(commit /\ j = sq_head) => sq[j].id \in StoresIn \ Gone(commit)
         /\ commit => /\ sq[sq_head].valid /\ sq_head \in Slots /\ sq[sq_head].id = Oldest
                      /\ \A id \in InWindow : Oldest <= id
<1>1. gnt \subseteq Held /\ Clock(bundle, alu, data, commit, cache, hit, fb, gnt) /\ sq_head \in Slots
  BY HeldAre DEF Step, IInv, RegistersOK
<1>2. commit => /\ sq[sq_head].valid /\ sq[sq_head].id = Oldest /\ Oldest \in StoresIn
                /\ \A id \in InWindow : Oldest <= id
  BY <1>1, CommitIs DEF Clock
<1>3. /\ StoresIn \cap LoadsIn = {} /\ StoresIn \subseteq InWindow /\ LoadsIn \subseteq InWindow
  BY WindowIs DEF IInv
<1>4. \A s \in Held : lq[s].id \in LoadsIn /\ \A t \in Held : lq[s].id = lq[t].id => s = t
  BY HeldAre
<1>5. \A id \in Staying(commit, gnt) : window'[id] = window[id]
  BY StepWindow
<1>6. Staying(commit, gnt) = InWindow \ (Gone(commit) \cup {lq[s].id : s \in gnt})
  BY DEF Staying, Gone
<1>7. Gone(commit) \subseteq StoresIn
  BY <1>2 DEF Gone
<1>8. ASSUME NEW id \in StoresIn \ Gone(commit) PROVE id \in Staying(commit, gnt)
  BY <1>1, <1>3, <1>4, <1>6
<1>9. ASSUME NEW s \in Held \ gnt PROVE lq[s].id \in Staying(commit, gnt)
  <2>1. \A t \in gnt : lq[t].id # lq[s].id
    BY <1>1, <1>4
  <2> QED BY <1>3, <1>4, <1>6, <1>7, <2>1
<1>10. ASSUME NEW j \in Slots, sq[j].valid, ~(commit /\ j = sq_head)
       PROVE  sq[j].id \in StoresIn \ Gone(commit)
  <2>1. sq[j].id \in StoresIn
    BY <1>10, StoreOnce
  <2>2. commit => sq[j].id # Oldest
    BY <1>1, <1>2, <1>10, StoreOnce
  <2> QED BY <2>1, <2>2 DEF Gone
<1> QED BY <1>1, <1>2, <1>5, <1>8, <1>9, <1>10

\* The entries say what their instructions say after the edge.
LEMMA EntriesMatchNext ==
  ASSUME IInv, NEW bundle, NEW alu, NEW data, NEW commit, NEW cache, NEW hit, NEW fb, NEW gnt,
         Step(bundle, alu, data, commit, cache, hit, fb, gnt)
  PROVE  EntriesMatch'
<1>1. /\ alu \subseteq Addressable /\ Clock(bundle, alu, data, commit, cache, hit, fb, gnt)
      /\ bundle \in Bundles
  BY OfferedFits DEF Step, IInv
<1>2. sent' = (sent \cup alu) \cap Staying(commit, gnt)
  BY <1>1 DEF Clock
<1>3. \A id \in sent \cup alu : id \in Nat /\ id <= dispatched
  BY <1>1, WindowIs DEF IInv, WindowOK, Addressable
<1>4. dispatched \in Nat
  BY WindowIs DEF IInv
<1>5. \A i \in Incoming(bundle) :
        /\ IdOf(bundle, i) \in Nat /\ IdOf(bundle, i) > dispatched
        /\ window'[IdOf(bundle, i)] = bundle[i]
  BY StepWindow
<1>6. \A i : i \in Enabled(bundle, "store") \/ i \in Enabled(bundle, "load") => i \in Incoming(bundle)
  BY DEF Incoming
<1>7. ASSUME NEW j \in Slots, sq'[j].valid PROVE StoreMatches(j)'
  <2>1. CASE sq[j].valid /\ ~(commit /\ j = sq_head)
    <3> DEFINE id == sq[j].id
    <3>1. StoreKept(j, alu, data)
      BY <2>1, StoreSlot
    <3>2. window'[id] = window[id]
      BY <2>1, StaysSo
    <3>3. StoreMatches(j)
      BY <2>1 DEF IInv, EntriesMatch
    <3>4. id \in alu => sq[j].data_valid
      <4> SUFFICES ASSUME id \in alu PROVE sq[j].data_valid
        OBVIOUS
      <4>1. id \in StoresIn
        BY <2>1, StoreOnce
      <4>2. PICK k \in Slots : sq[k].valid /\ sq[k].id = id /\ sq[k].data_valid
        BY <1>1, <4>1 DEF Addressable
      <4>3. k = j
        BY <2>1, <4>2, StoreOnce
      <4> QED BY <4>2, <4>3
    <3>5. sq'[j].id = id /\ sq'[j].size = window'[id].size
      BY <3>1, <3>2, <3>3 DEF StoreKept, StoreMatches
    <3>6. sq'[j].addr_valid => sq'[j].addr = window'[id].addr /\ sq'[j].data_valid
      <4>1. sq[j].addr_valid => sq'[j].addr = window[id].addr /\ sq'[j].data_valid
        BY <3>1, <3>3 DEF StoreKept, StoreMatches
      <4>2. ~sq[j].addr_valid /\ id \in alu => sq'[j].addr = window[id].addr /\ sq'[j].data_valid
        BY <3>1, <3>4 DEF StoreKept
      <4>3. sq'[j].addr_valid => sq[j].addr_valid \/ id \in alu
        BY <3>1 DEF StoreKept
      <4> QED BY <3>2, <4>1, <4>2, <4>3
    <3>7. sq'[j].data_valid => sq'[j].data = Register(id)
      <4>1. sq[j].data_valid => sq'[j].data = Register(id)
        BY <3>1, <3>3 DEF StoreKept, StoreMatches
      <4>2. ~sq[j].data_valid /\ id \in data => sq'[j].data = Register(id)
        BY <3>1 DEF StoreKept
      <4>3. sq'[j].data_valid => sq[j].data_valid \/ id \in data
        BY <3>1 DEF StoreKept
      <4> QED BY <4>1, <4>2, <4>3
    <3>8. id \in sent' => sq'[j].addr_valid
      <4>1. id \in sent' => id \in sent \/ id \in alu
        BY <1>2
      <4>2. id \in sent => sq[j].addr_valid
        BY <3>3 DEF StoreMatches
      <4>3. sq[j].addr_valid \/ id \in alu => sq'[j].addr_valid
        BY <3>1 DEF StoreKept
      <4> QED BY <4>1, <4>2, <4>3
    <3> HIDE DEF id
    <3> QED BY <3>5, <3>6, <3>7, <3>8 DEF StoreMatches
  <2>2. CASE \E i \in Enabled(bundle, "store") : sq'[j] = NewStore(bundle, i, data)
    <3>1. PICK i \in Enabled(bundle, "store") : sq'[j] = NewStore(bundle, i, data)
      BY <2>2
    <3> DEFINE id == IdOf(bundle, i)
    <3>2. id \in Nat /\ id > dispatched /\ window'[id] = bundle[i]
      BY <1>5, <1>6
    <3>3. id \notin sent'
      BY <1>2, <1>3, <1>4, <3>2
    <3>4. /\ sq'[j].id = id /\ sq'[j].size = bundle[i].size /\ ~sq'[j].addr_valid
          /\ sq'[j].data_valid => sq'[j].data = Register(id)
      <4> DEFINE d == IF id \in data THEN Register(id) ELSE NoData
                 dv == id \in data
      <4>1. sq'[j] = [FreeStore EXCEPT !.valid = TRUE, !.id = id, !.size = bundle[i].size,
                                       !.data = d, !.data_valid = dv]
        BY <3>1, Zenon DEF NewStore
      <4>2. dv => d = Register(id)
        OBVIOUS
      <4> HIDE DEF id, d, dv
      <4>3. /\ sq'[j].id = id /\ sq'[j].size = bundle[i].size /\ sq'[j].addr_valid = FALSE
            /\ sq'[j].data = d /\ sq'[j].data_valid = dv
        BY <4>1 DEF FreeStore
      <4> QED BY <4>2, <4>3, Zenon
    <3> HIDE DEF id
    <3> QED BY <3>2, <3>3, <3>4 DEF StoreMatches
  <2> QED BY <1>7, <2>1, <2>2, StoreSlot
<1>8. ASSUME NEW s \in Slots PROVE IF lq'[s].free THEN lq'[s].state = 0 ELSE LoadMatches(s)'
  <2>1. CASE s \in Held /\ s \notin gnt
    <3> DEFINE id == lq[s].id
    <3>1. LoadKept(s, WriteBack(commit), alu, cache, hit, fb)
      BY <2>1, LoadNext
    <3>2. window'[id] = window[id]
      BY <2>1, StaysSo
    <3>3. LoadMatches(s)
      BY <2>1, HeldAre
    <3>4. lq'[s].addr_ready => lq'[s].addr = window[id].addr
      <4>1. lq[s].addr_ready => lq'[s].addr = window[id].addr
        BY <3>1, <3>3 DEF LoadKept, LoadMatches
      <4>2. ~lq[s].addr_ready /\ id \in alu => lq'[s].addr = window[id].addr
        BY <3>1 DEF LoadKept
      <4>3. lq'[s].addr_ready => lq[s].addr_ready \/ id \in alu
        BY <3>1 DEF LoadKept
      <4> QED BY <4>1, <4>2, <4>3
    <3>5. ~lq'[s].free /\ lq'[s].id = id /\ lq'[s].size = window[id].size /\ lq'[s].signed = window[id].signed
      BY <3>1, <3>3 DEF LoadKept, LoadMatches
    <3> HIDE DEF id
    <3> QED BY <3>2, <3>4, <3>5 DEF LoadMatches
  <2>2. CASE \E i \in Enabled(bundle, "load") : s \in LoadSlot(i)
    <3>1. PICK i \in Enabled(bundle, "load") : s \in LoadSlot(i)
      BY <2>2
    <3>2. lq'[s] = NewLoad(bundle, i)
      BY <3>1, LoadNext
    <3>3. window'[IdOf(bundle, i)] = bundle[i]
      BY <1>5, <1>6
    <3>4. /\ ~lq'[s].free /\ lq'[s].id = IdOf(bundle, i) /\ lq'[s].size = bundle[i].size
          /\ lq'[s].signed = bundle[i].signed /\ ~lq'[s].addr_ready
      BY <3>2 DEF NewLoad, FreeLoad
    <3> QED BY <3>3, <3>4 DEF LoadMatches
  <2>3. CASE lq'[s] = FreeLoad
    BY <2>3 DEF FreeLoad
  <2>4. \/ s \in Held /\ s \notin gnt
        \/ \E i \in Enabled(bundle, "load") : s \in LoadSlot(i)
        \/ lq'[s] = FreeLoad
    BY LoadNext
  <2> QED BY <2>1, <2>2, <2>3, <2>4
<1> QED BY <1>7, <1>8 DEF EntriesMatch

\* The tails that loads recorded tell their ages after the edge too.
LEMMA AgesRecordedNext ==
  ASSUME IInv, NEW bundle, NEW alu, NEW data, NEW commit, NEW cache, NEW hit, NEW fb, NEW gnt,
         Step(bundle, alu, data, commit, cache, hit, fb, gnt)
  PROVE  AgesRecorded'
<1> DEFINE S == Enabled(bundle, "store")
           m == Cardinality(S)
           c == Left(commit)
           n == (Stores - c) + m
           e(i) == sq'[At(i + c)]
<1>1. /\ bundle \in Offered /\ bundle \in Bundles
      /\ S \in SUBSET Nat /\ IsFiniteSet(S) /\ S \subseteq Incoming(bundle)
      /\ Enabled(bundle, "load") \subseteq Incoming(bundle) /\ Incoming(bundle) \subseteq Ways
  BY OfferedFits, BundleIs DEF Step, IInv
<1>2. /\ c \in 0..1 /\ c <= Stores /\ m \in Nat /\ Stores \in Nat
      /\ Stores' = n /\ n \in 0..(LSQSZ - 1) /\ LSQSZ \in Nat \ {0}
      /\ \A i \in 0..(LSQSZ - c) : At(i)' = At(i + c)
  <2>1. LET M == Cardinality(Enabled(bundle, "store"))
            C == Left(commit)
        IN  /\ C \in 0..1 /\ C <= Stores /\ M \in Nat /\ Stores \in Nat
            /\ Stores' = Stores - C + M /\ Stores' \in 0..(LSQSZ - 1)
            /\ \A i \in 0..(LSQSZ - C) : At(i)' = At(i + C)
    BY StepRing
  <2>2. LSQSZ \in Nat \ {0}
    BY SizesOK
  <2> QED BY <2>1, <2>2
<1>3. \A i \in 0..(LSQSZ - 1) :
        /\ i < Stores - c => i + c \in 0..(Stores - 1) /\ StoreKept(At(i + c), alu, data)
        /\ Stores - c <= i /\ i < n => \E w \in S : Rank(S, w) = i + c - Stores /\ e(i) = NewStore(bundle, w, data)
  BY NewQueue
<1>4. \A w \in S : NewStore(bundle, w, data).id = IdOf(bundle, w)
  BY DEF NewStore, FreeStore
<1>5. /\ \A i \in Incoming(bundle) : IdOf(bundle, i) \in Nat /\ IdOf(bundle, i) > dispatched
      /\ dispatched \in Nat
  BY StepWindow, WindowIs DEF IInv
<1>6. \A i, k \in Incoming(bundle) : i < k => IdOf(bundle, i) < IdOf(bundle, k)
  BY <1>1, <1>5, NumbersAre
<1>7. \A i \in 0..(Stores - 1) : sq[At(i)].id \in Nat /\ sq[At(i)].id <= dispatched
  BY QueueIs, WindowIs DEF IInv
<1>8. c = 1 <=> commit
  BY DEF Left
<1> HIDE DEF S, m, c, e
<1>9. ASSUME NEW i \in 0..(n - 1), i < Stores - c
      PROVE  i + c \in 0..(Stores - 1) /\ e(i).id = sq[At(i + c)].id
  <2>1. i \in 0..(LSQSZ - 1)
    BY <1>2
  <2>2. i + c \in 0..(Stores - 1) /\ StoreKept(At(i + c), alu, data)
    BY <1>3, <1>9, <2>1
  <2> QED BY <2>2 DEF StoreKept, e
<1>10. ASSUME NEW i \in 0..(n - 1), ~(i < Stores - c)
       PROVE  \E w \in S : Rank(S, w) = i + c - Stores /\ e(i).id = IdOf(bundle, w)
  <2>1. i \in 0..(LSQSZ - 1) /\ Stores - c <= i /\ i < n
    BY <1>2, <1>10
  <2> QED BY <1>3, <1>4, <2>1
<1>11. ASSUME NEW s \in Slots, NEW k \in 0..n,
              lq'[s].sq_tail_old = At(k + c), \A i \in 0..(n - 1) : i < k <=> e(i).id < lq'[s].id
       PROVE  \E j \in 0..Stores' : AgedAt(s, j)'
  <2>1. k \in 0..(LSQSZ - c) /\ k \in 0..Stores'
    BY <1>2
  <2>2. (sq_head' + k) % LSQSZ = At(k + c)
    BY <1>2, <2>1 DEF At
  <2>3. \A i \in 0..(n - 1) : sq'[(sq_head' + i) % LSQSZ] = e(i)
    <3>1. \A i \in 0..(n - 1) : i \in 0..(LSQSZ - c)
      BY <1>2
    <3>2. \A i \in 0..(LSQSZ - c) : (sq_head' + i) % LSQSZ = At(i + c)
      BY <1>2 DEF At
    <3> QED BY <3>1, <3>2 DEF e
  <2>4. LSQSZ - sq_num_free' = n
    BY <1>2 DEF Stores
  <2> HIDE DEF n
  <2>5. \A i \in 0..(n - 1) : i < k <=> sq'[(sq_head' + i) % LSQSZ].id < lq'[s].id
    BY <1>11, <2>3
  <2>6. AgedAt(s, k)'
    BY <1>11, <2>2, <2>4, <2>5 DEF AgedAt, At, Stores
  <2> QED BY <2>1, <2>6
<1>12. ASSUME NEW s \in Held \ gnt PROVE \E j \in 0..Stores' : AgedAt(s, j)'
  <2>1. lq'[s].id = lq[s].id /\ lq'[s].sq_tail_old = lq[s].sq_tail_old /\ s \in Slots
    <3>1. s \in Slots
      BY DEF Held
    <3> QED BY <3>1, LoadNext DEF LoadKept
  <2>2. lq[s].id \in InWindow /\ lq[s].id \in LoadsIn /\ lq[s].id \in Nat /\ lq[s].id <= dispatched
    BY HeldAre, WindowIs DEF IInv
  <2>3. PICK k \in 0..Stores : AgedAt(s, k)
    BY DEF IInv, AgesRecorded
  <2>4. /\ lq[s].sq_tail_old = At(k)
        /\ \A i \in 0..(Stores - 1) : i < k <=> sq[At(i)].id < lq[s].id
    BY <2>3 DEF AgedAt
  <2>5. c <= k
    <3>1. CASE commit
      <4>1. Stores > 0 /\ sq[At(0)].id = Oldest /\ Oldest \in StoresIn /\ Oldest <= lq[s].id
        <5>1. At(0) = sq_head
          BY AtUnique DEF IInv, RegistersOK
        <5>2. MayCommit
          BY <3>1 DEF Step, Clock
        <5> QED BY <5>1, <5>2, <2>2, CommitIs
      <4>2. Oldest # lq[s].id /\ Oldest \in Nat
        BY <2>2, <4>1, WindowIs DEF IInv
      <4>3. 0 \in 0..(Stores - 1) /\ sq[At(0)].id < lq[s].id
        BY <1>2, <2>2, <4>1, <4>2
      <4>4. 0 < k
        BY <2>4, <4>3
      <4> QED BY <1>2, <4>4
    <3>2. CASE ~commit
      BY <1>2, <1>8, <3>2
    <3> QED BY <3>1, <3>2
  <2> DEFINE l == k - c
  <2>6. l \in 0..n /\ l + c = k /\ l <= Stores - c
    BY <1>2, <2>5
  <2>7. ASSUME NEW i \in 0..(n - 1) PROVE i < l <=> e(i).id < lq'[s].id
    <3>1. CASE i < Stores - c
      <4>1. i + c \in 0..(Stores - 1) /\ e(i).id = sq[At(i + c)].id
        BY <1>9, <3>1
      <4>2. i + c < k <=> e(i).id < lq[s].id
        BY <2>4, <4>1
      <4>3. i + c < k <=> i < l
        BY <1>2, <2>6
      <4> QED BY <2>1, <4>2, <4>3
    <3>2. CASE ~(i < Stores - c)
      <4>1. PICK w \in S : e(i).id = IdOf(bundle, w)
        BY <1>10, <3>2
      <4>2. e(i).id \in Nat /\ e(i).id > dispatched
        BY <1>1, <1>5, <4>1
      <4>3. ~(e(i).id < lq[s].id)
        BY <1>5, <2>2, <4>2
      <4>4. ~(i < l)
        BY <1>2, <2>6, <3>2
      <4> QED BY <2>1, <4>3, <4>4
    <3> QED BY <3>1, <3>2
  <2>8. lq'[s].sq_tail_old = At(l + c)
    BY <2>1, <2>4, <2>6
  <2> HIDE DEF l, n
  <2> QED BY <1>11, <2>1, <2>6, <2>7, <2>8
<1>13. ASSUME NEW s \in Slots, NEW w \in Enabled(bundle, "load"), s \in LoadSlot(w)
       PROVE  \E j \in 0..Stores' : AgedAt(s, j)'
  <2> DEFINE r == Rank(S, w)
             k == (Stores - c) + r
  <2>1. lq'[s].id = IdOf(bundle, w) /\ lq'[s].sq_tail_old = ld_sq_tail(bundle, w)
    <3>1. lq'[s] = NewLoad(bundle, w)
      BY <1>13, LoadNext
    <3> QED BY <3>1 DEF NewLoad, FreeLoad
  <2>2. w \in Nat /\ w \in Incoming(bundle)
    BY <1>1 DEF Ways
  <2>3. r \in Nat /\ r <= m /\ ld_sq_tail(bundle, w) = At(Stores + r)
    BY <1>1, <2>2, WaySlot DEF S, m
  <2>4. w \notin S
    BY <1>1, BundleIs DEF S
  <2>5. ASSUME NEW v \in S PROVE Rank(S, v) < r <=> IdOf(bundle, v) < IdOf(bundle, w)
    <3>1. v \in Nat /\ v # w /\ v \in Incoming(bundle)
      BY <1>1, <2>4
    <3>2. CASE v < w
      <4>1. Rank(S, v) < r
        BY <1>1, <2>2, <3>1, <3>2, RankGrows
      <4> QED BY <1>6, <2>2, <3>1, <3>2, <4>1
    <3>3. CASE w < v
      <4>1. w <= v
        BY <2>2, <3>1, <3>3
      <4>2. r <= Rank(S, v) /\ Rank(S, v) \in Nat
        BY <1>1, <2>2, <3>1, <4>1, RankGrows
      <4>3. IdOf(bundle, w) < IdOf(bundle, v) /\ IdOf(bundle, w) \in Nat /\ IdOf(bundle, v) \in Nat
        BY <1>5, <1>6, <2>2, <3>1, <3>3
      <4> HIDE DEF r
      <4> QED BY <2>3, <4>2, <4>3
    <3> QED BY <2>2, <3>1, <3>2, <3>3
  <2> HIDE DEF r
  <2>6. k \in 0..n /\ k + c = Stores + r
    BY <1>2, <2>3
  <2>7. ASSUME NEW i \in 0..(n - 1) PROVE i < k <=> e(i).id < lq'[s].id
    <3>1. CASE i < Stores - c
      <4>1. e(i).id \in Nat /\ e(i).id <= dispatched
        BY <1>7, <1>9, <3>1
      <4>2. IdOf(bundle, w) \in Nat /\ IdOf(bundle, w) > dispatched
        BY <1>5, <2>2
      <4>3. i < k
        BY <1>2, <2>3, <3>1
      <4> QED BY <1>5, <2>1, <4>1, <4>2, <4>3
    <3>2. CASE ~(i < Stores - c)
      <4>1. PICK v \in S : Rank(S, v) = i + c - Stores /\ e(i).id = IdOf(bundle, v)
        BY <1>10, <3>2
      <4>2. Rank(S, v) < r <=> i < k
        BY <1>2, <2>3, <4>1
      <4> QED BY <2>1, <2>5, <4>1, <4>2
    <3> QED BY <3>1, <3>2
  <2>8. lq'[s].sq_tail_old = At(k + c)
    BY <2>1, <2>3, <2>6
  <2> HIDE DEF k, n
  <2> QED BY <1>11, <2>6, <2>7, <2>8
<1>14. ASSUME NEW s \in Held' PROVE \E j \in 0..Stores' : AgedAt(s, j)'
  <2>1. s \in Slots /\ ~lq'[s].free
    BY DEF Held
  <2>2. lq'[s] # FreeLoad
    BY <2>1 DEF FreeLoad
  <2>3. \/ s \in Held /\ s \notin gnt
        \/ \E i \in Enabled(bundle, "load") : s \in LoadSlot(i)
    BY <2>1, <2>2, LoadNext
  <2> QED BY <1>12, <1>13, <2>1, <2>3
<1> QED BY <1>14 DEF AgesRecorded

-----------------------------------------------------------------------------
(* One clock edge: what loads return. *)

\* A load whose address is known is clear when nothing older may conflict.
LEMMA ClearIs ==
  ASSUME NEW s \in Held, lq[s].addr_ready
  PROVE  /\ Clear(s) <=> Hits(s) = {}
         /\ \A j \in Older(s) : ~ls_addr_block_hit(s, j) <=>
                                  sq[j].addr_valid /\ sq[j].addr.block # lq[s].addr.block
<1>1. ~lq[s].free /\ \A j \in Older(s) : sq[j].valid
  BY DEF Held, Older
<1>2. \A j \in Older(s) : ~ls_addr_block_hit(s, j) <=>
                            sq[j].addr_valid /\ sq[j].addr.block # lq[s].addr.block
  BY <1>1 DEF ls_addr_block_hit
<1> QED BY <1>2 DEF Clear, Hits

\* The data of load s is what memory m has for it.
LooksLike(d, s, m) ==
  LET r == ReadFrom(m, lq[s].size, lq[s].addr)
  IN  d[1] = r[1] /\ (lq[s].size = "word" => d[2] = r[2])

\* The data d of load s is that of the youngest older store that may conflict.
Forwarded(d, s) ==
  \E j \in Older(s) : /\ ls_addr_all_hit(s, j) /\ d = sq[j].data
                      /\ \A k \in Older(s) : sq[j].id < sq[k].id => ~ls_addr_block_hit(s, k)

\* What the state machine and the data register of a load come to, in terms of
\* the stores before the edge.
LEMMA LoadResult ==
  ASSUME IInv, NEW s \in Held, NEW m, NEW cache, NEW hit \in BOOLEAN, NEW fb,
         cache \subseteq Reading, fb \subseteq Waiting
  PROVE  LET st == ls_state_next(s, cache, hit, fb)
             d == ld_data_next(s, m, cache, hit, fb)
         IN  /\ st # 0 => lq[s].addr_ready
             /\ st \in {1, 2} => Clear(s)
             /\ st = 3 => \/ Clear(s) /\ (LooksLike(d, s, m) \/ LooksLike(d, s, mem))
                          \/ Forwarded(d, s)
<1> DEFINE st == ls_state_next(s, cache, hit, fb)
           d == ld_data_next(s, m, cache, hit, fb)
           sources == {sq[j].data : j \in ls_addr_forward(s)}
             \cup (IF s \in cache /\ hit THEN {ReadFrom(m, lq[s].size, lq[s].addr)} ELSE {})
             \cup (IF s \in fb THEN {ReadFrom(mem, lq[s].size, lq[s].addr)} ELSE {})
<1>1. /\ s \in cache => lq[s].state = 1
      /\ s \in fb => lq[s].state = 2
      /\ lq[s].state \in 0..3
  BY HeldAre DEF Reading, Waiting, IInv, RegistersOK, LoadEntry
<1>2. /\ lq[s].state # 0 => lq[s].addr_ready
      /\ lq[s].state \in {1, 2} => Clear(s)
      /\ lq[s].state = 3 => (Clear(s) /\ HasMemory(s)) \/ \E j \in Older(s) : HasStore(s, j)
  BY DEF IInv, LoadsRight
<1>3. /\ sources = {} => d = lq[s].data
      /\ \A x : sources = {x} => d = x
  <2>1. d = IF sources = {} THEN lq[s].data
            ELSE IF \E x \in sources : sources = {x} THEN CHOOSE x \in sources : TRUE
            ELSE MixedData
    BY DEF ld_data_next
  <2> HIDE DEF d, sources
  <2>2. ASSUME NEW x, sources = {x} PROVE d = x
    <3>1. sources # {} /\ (\E y \in sources : sources = {y})
      BY <2>2
    <3>2. d = CHOOSE y \in sources : TRUE
      BY <2>1, <3>1
    <3>3. (CHOOSE y \in sources : TRUE) \in sources
      BY <3>1
    <3> QED BY <2>2, <3>2, <3>3
  <2> QED BY <2>1, <2>2
<1>4. /\ Hits(s) = {} => ls_addr_block_hit_selected(s) = {} /\ ls_addr_forward(s) = {}
      /\ Hits(s) # {} => \E j \in Hits(s) : /\ ls_addr_block_hit_selected(s) = {j}
                                             /\ \A k \in Hits(s) : sq[k].id <= sq[j].id
  <2>1. Hits(s) = {} => ls_addr_block_hit_selected(s) = {}
    BY SelectedIs
  <2> QED BY <2>1, SelectedIs DEF ls_addr_forward
<1>5. \A j \in Older(s) : j \in Slots /\ sq[j].valid /\ sq[j].id \in Nat
  <2>1. \A j \in Older(s) : j \in Slots /\ sq[j].valid
    BY DEF Older
  <2> QED BY <2>1, StoreOnce
<1>6. \A j \in Older(s) : ls_addr_all_hit(s, j) => ls_addr_block_hit(s, j) /\ lq[s].addr_ready
  BY DEF ls_addr_all_hit
<1>7. ASSUME NEW j \in Older(s), ls_addr_block_hit_selected(s) = {j}, ls_addr_all_hit(s, j),
             \A k \in Hits(s) : sq[k].id <= sq[j].id
      PROVE  ls_addr_forward(s) = {j} /\ Forwarded(sq[j].data, s)
  <2>1. ls_addr_forward(s) = {j}
    BY <1>7 DEF ls_addr_forward
  <2>2. ASSUME NEW k \in Older(s), sq[j].id < sq[k].id PROVE ~ls_addr_block_hit(s, k)
    <3>1. k \in Hits(s) => sq[k].id <= sq[j].id
      BY <1>7
    <3>2. sq[j].id \in Nat /\ sq[k].id \in Nat
      BY <1>5
    <3>3. k \notin Hits(s)
      BY <2>2, <3>1, <3>2
    <3> QED BY <3>3 DEF Hits
  <2> QED BY <1>7, <2>1, <2>2 DEF Forwarded
<1>8. CASE lq[s].state = 0
  <2>1. st = IF ls_addr_block_hit_selected(s) = {} /\ lq[s].addr_ready THEN 1
             ELSE IF ls_addr_forward(s) # {} THEN 3 ELSE 0
    BY <1>8 DEF ls_state_next
  <2>2. CASE Hits(s) = {}
    <3>1. st = IF lq[s].addr_ready THEN 1 ELSE 0
      BY <1>4, <2>1, <2>2
    <3> HIDE DEF st, d
    <3> QED BY <2>2, <3>1, ClearIs DEF st, d
  <2>3. CASE Hits(s) # {}
    <3>1. PICK j \in Hits(s) : /\ ls_addr_block_hit_selected(s) = {j}
                               /\ \A k \in Hits(s) : sq[k].id <= sq[j].id
      BY <1>4, <2>3
    <3>2. j \in Older(s)
      BY DEF Hits
    <3>3. CASE ls_addr_all_hit(s, j)
      <4>1. ls_addr_forward(s) = {j} /\ Forwarded(sq[j].data, s)
        BY <1>7, <3>1, <3>2, <3>3
      <4>2. s \notin cache /\ s \notin fb
        BY <1>1, <1>8
      <4>3. sources = {sq[j].data}
        BY <4>1, <4>2
      <4>4. d = sq[j].data /\ st = 3 /\ lq[s].addr_ready
        <5>1. d = sq[j].data
          BY <1>3, <4>3
        <5>2. st = 3
          BY <2>1, <3>1, <4>1
        <5> QED BY <1>6, <3>2, <3>3, <5>1, <5>2
      <4> HIDE DEF st, d
      <4> QED BY <4>1, <4>4 DEF st, d
    <3>4. CASE ~ls_addr_all_hit(s, j)
      <4>1. ls_addr_forward(s) = {}
        BY <3>1, <3>4 DEF ls_addr_forward
      <4>2. st = 0
        BY <2>1, <3>1, <4>1
      <4> HIDE DEF st, d
      <4> QED BY <4>2 DEF st, d
    <3> QED BY <3>3, <3>4
  <2> QED BY <2>2, <2>3
<1>9. CASE lq[s].state \in {1, 2}
  <2>1. Clear(s) /\ lq[s].addr_ready /\ ls_addr_forward(s) = {}
    <3>1. Clear(s) /\ lq[s].addr_ready
      BY <1>2, <1>9
    <3> QED BY <1>4, <3>1, ClearIs
  <2>2. st \in {1, 2, 3}
    BY <1>9 DEF ls_state_next
  <2>3. CASE lq[s].state = 1
    <3>1. s \notin fb /\ (st = 3 => s \in cache /\ hit)
      <4>1. s \notin fb
        BY <1>1, <2>3
      <4>2. st = IF s \in cache THEN IF hit THEN 3 ELSE 2 ELSE 1
        BY <2>3 DEF ls_state_next
      <4> QED BY <4>1, <4>2
    <3>2. st = 3 => d = ReadFrom(m, lq[s].size, lq[s].addr)
      <4> SUFFICES ASSUME st = 3 PROVE d = ReadFrom(m, lq[s].size, lq[s].addr)
        OBVIOUS
      <4>1. sources = {ReadFrom(m, lq[s].size, lq[s].addr)}
        BY <2>1, <3>1
      <4> QED BY <1>3, <4>1
    <3> HIDE DEF st, d
    <3>3. st = 3 => LooksLike(d, s, m)
      BY <3>2 DEF LooksLike
    <3> QED BY <2>1, <2>2, <3>3 DEF st, d
  <2>4. CASE lq[s].state = 2
    <3>1. s \notin cache /\ (st = 3 => s \in fb)
      <4>1. s \notin cache
        BY <1>1, <2>4
      <4>2. st = IF s \in fb THEN 3 ELSE 2
        BY <2>4 DEF ls_state_next
      <4> QED BY <4>1, <4>2
    <3>2. st = 3 => d = ReadFrom(mem, lq[s].size, lq[s].addr)
      <4> SUFFICES ASSUME st = 3 PROVE d = ReadFrom(mem, lq[s].size, lq[s].addr)
        OBVIOUS
      <4>1. sources = {ReadFrom(mem, lq[s].size, lq[s].addr)}
        BY <2>1, <3>1
      <4> QED BY <1>3, <4>1
    <3> HIDE DEF st, d
    <3>3. st = 3 => LooksLike(d, s, mem)
      BY <3>2 DEF LooksLike
    <3> QED BY <2>1, <2>2, <3>3 DEF st, d
  <2> QED BY <1>9, <2>3, <2>4
<1>10. CASE lq[s].state = 3
  <2>1. st = 3 /\ lq[s].addr_ready /\ s \notin cache /\ s \notin fb
    BY <1>1, <1>2, <1>10 DEF ls_state_next
  <2>2. CASE Clear(s) /\ HasMemory(s)
    <3>1. ls_addr_forward(s) = {}
      BY <1>4, <2>1, <2>2, ClearIs
    <3>2. sources = {}
      BY <2>1, <3>1
    <3>3. d = lq[s].data
      BY <1>3, <3>2
    <3> HIDE DEF st, d
    <3>4. LooksLike(d, s, mem)
      BY <2>2, <3>3 DEF LooksLike, HasMemory
    <3> QED BY <2>1, <2>2, <3>4 DEF st, d
  <2>3. CASE \E j \in Older(s) : HasStore(s, j)
    <3>1. PICK j \in Older(s) : HasStore(s, j)
      BY <2>3
    <3>2. /\ ls_addr_all_hit(s, j) /\ lq[s].data = sq[j].data
          /\ \A k \in Older(s) : sq[j].id < sq[k].id => ~ls_addr_block_hit(s, k)
      BY <3>1 DEF HasStore
    <3>3. j \in Hits(s)
      BY <1>6, <3>2 DEF Hits
    <3>4. PICK x \in Hits(s) : /\ ls_addr_block_hit_selected(s) = {x}
                               /\ \A k \in Hits(s) : sq[k].id <= sq[x].id
      BY <1>4, <3>3
    <3>5. x = j
      <4>1. x \in Older(s) /\ ls_addr_block_hit(s, x)
        BY DEF Hits
      <4>2. sq[j].id <= sq[x].id /\ ~(sq[j].id < sq[x].id)
        BY <3>2, <3>3, <3>4, <4>1
      <4>3. sq[j].id = sq[x].id
        BY <1>5, <4>1, <4>2
      <4> QED BY <1>5, <4>1, <4>3, StoreOnce
    <3>6. ls_addr_forward(s) = {j} /\ Forwarded(sq[j].data, s)
      BY <1>7, <3>2, <3>4, <3>5
    <3>7. sources = {sq[j].data}
      BY <2>1, <3>6
    <3>8. d = sq[j].data
      BY <1>3, <3>7
    <3> HIDE DEF st, d
    <3> QED BY <2>1, <3>6, <3>8 DEF st, d
  <2> QED BY <1>2, <1>10, <2>2, <2>3
<1> QED BY <1>1, <1>8, <1>9, <1>10

\* A store that may commit is older than every load, and the oldest store.
LEMMA HeadOlder ==
  ASSUME IInv, MayCommit, NEW s \in Held
  PROVE  sq_head \in Older(s) /\ \A j \in Older(s) : j # sq_head => sq[sq_head].id < sq[j].id
<1>1. /\ sq[sq_head].valid /\ sq_head \in Slots /\ sq[sq_head].id = Oldest
      /\ Oldest \in StoresIn /\ Oldest \in Nat
      /\ \A id \in InWindow : Oldest <= id
  BY CommitIs, WindowIs DEF IInv, RegistersOK
<1>2. lq[s].id \in LoadsIn /\ lq[s].id \in InWindow /\ lq[s].id \in Nat
  BY HeldAre, WindowIs DEF IInv
<1>3. Oldest # lq[s].id
  BY <1>1, <1>2, WindowIs DEF IInv
<1>4. Oldest < lq[s].id
  <2>1. Oldest <= lq[s].id
    BY <1>1, <1>2
  <2> QED BY <1>1, <1>2, <1>3, <2>1
<1>5. ASSUME NEW j \in Older(s), j # sq_head PROVE sq[sq_head].id < sq[j].id
  <2>1. j \in Slots /\ sq[j].valid
    BY DEF Older
  <2>2. sq[j].id \in StoresIn /\ sq[j].id \in Nat /\ sq[j].id # Oldest
    BY <1>1, <1>5, <2>1, StoreOnce
  <2>3. Oldest <= sq[j].id
    BY <1>1, <2>2, WindowIs DEF IInv
  <2> QED BY <1>1, <2>2, <2>3
<1> QED BY <1>1, <1>4, <1>5 DEF Older

\* The older stores of a load that stays are those of before, but for the one
\* that commits, which is the oldest of them.
LEMMA OlderNext ==
  ASSUME IInv, NEW bundle, NEW alu, NEW data, NEW commit, NEW cache, NEW hit, NEW fb, NEW gnt,
         Step(bundle, alu, data, commit, cache, hit, fb, gnt), NEW s \in Held \ gnt
  PROVE  /\ lq'[s].id = lq[s].id
         /\ \A j : j \in Older(s)' <=> j \in Older(s) /\ ~(commit /\ j = sq_head)
         /\ \A j \in Older(s)' : StoreKept(j, alu, data)
         /\ commit => sq_head \in Older(s) /\ \A j \in Older(s) : j # sq_head => sq[sq_head].id < sq[j].id
<1>1. s \in Slots /\ lq'[s].id = lq[s].id
  <2>1. s \in Slots
    BY DEF Held
  <2> QED BY <2>1, LoadNext DEF LoadKept
<1>2. lq[s].id \in LoadsIn /\ lq[s].id \in InWindow /\ lq[s].id \in Nat /\ lq[s].id <= dispatched
  BY HeldAre, WindowIs DEF IInv
<1>3. \A i \in Enabled(bundle, "store") :
        NewStore(bundle, i, data).id \in Nat /\ NewStore(bundle, i, data).id > dispatched
  <2>1. \A i \in Enabled(bundle, "store") : IdOf(bundle, i) \in Nat /\ IdOf(bundle, i) > dispatched
    BY StepWindow DEF Incoming
  <2> QED BY <2>1 DEF NewStore, FreeStore
<1>4. dispatched \in Nat
  BY WindowIs DEF IInv
<1>5. Older(s)' = {j \in Slots : sq'[j].valid /\ sq'[j].id < lq[s].id}
  BY <1>1 DEF Older
<1>6. ASSUME NEW j \in Slots PROVE j \in Older(s)' <=> j \in Older(s) /\ ~(commit /\ j = sq_head)
  <2>1. CASE sq[j].valid /\ ~(commit /\ j = sq_head)
    <3>1. StoreKept(j, alu, data)
      BY <2>1, StoreSlot
    <3>2. sq'[j].valid /\ sq'[j].id = sq[j].id
      BY <3>1 DEF StoreKept
    <3> QED BY <1>5, <2>1, <3>2 DEF Older
  <2>2. CASE ~(sq[j].valid /\ ~(commit /\ j = sq_head))
    <3>1. ASSUME sq'[j].valid PROVE ~(sq'[j].id < lq[s].id)
      <4>1. PICK i \in Enabled(bundle, "store") : sq'[j] = NewStore(bundle, i, data)
        BY <2>2, <3>1, StoreSlot
      <4>2. sq'[j].id \in Nat /\ sq'[j].id > dispatched
        BY <1>3, <4>1
      <4> QED BY <1>2, <1>4, <4>2
    <3> QED BY <1>5, <2>2, <3>1 DEF Older
  <2> QED BY <2>1, <2>2
<1>7. \A j : j \in Older(s)' <=> j \in Older(s) /\ ~(commit /\ j = sq_head)
  <2>1. \A j : j \in Older(s) \/ j \in Older(s)' => j \in Slots
    BY <1>5 DEF Older
  <2> QED BY <1>6, <2>1
<1>8. \A j \in Older(s)' : StoreKept(j, alu, data)
  <2> SUFFICES ASSUME NEW j \in Older(s)' PROVE StoreKept(j, alu, data)
    OBVIOUS
  <2>1. j \in Slots /\ sq[j].valid /\ ~(commit /\ j = sq_head)
    BY <1>7 DEF Older
  <2> QED BY <2>1, StoreSlot
<1>9. commit => sq_head \in Older(s) /\ \A j \in Older(s) : j # sq_head => sq[sq_head].id < sq[j].id
  BY HeadOlder DEF Step, Clock
<1> QED BY <1>1, <1>7, <1>8, <1>9

\* What may not conflict with a load that knows its address will not.
LEMMA MissStays ==
  ASSUME IInv, NEW bundle, NEW alu, NEW data, NEW commit, NEW cache, NEW hit, NEW fb, NEW gnt,
         Step(bundle, alu, data, commit, cache, hit, fb, gnt), NEW s \in Held \ gnt,
         lq[s].addr_ready, NEW j \in Older(s)', ~ls_addr_block_hit(s, j)
  PROVE  /\ sq'[j].addr_valid /\ sq'[j].addr.block # lq'[s].addr.block
         /\ ~ls_addr_block_hit(s, j)'
<1>1. s \in Slots /\ ~lq'[s].free /\ lq'[s].addr_ready /\ lq'[s].addr = lq[s].addr
  <2>1. s \in Slots
    BY DEF Held
  <2> QED BY <2>1, LoadNext DEF LoadKept
<1>2. j \in Older(s) /\ StoreKept(j, alu, data)
  BY OlderNext
<1>3. sq[j].addr_valid /\ sq[j].addr.block # lq[s].addr.block
  BY <1>2, ClearIs
<1>4. sq'[j].addr_valid /\ sq'[j].addr = sq[j].addr
  BY <1>2, <1>3 DEF StoreKept
<1> QED BY <1>1, <1>3, <1>4 DEF ls_addr_block_hit

\* The store that commits writes one block.
LEMMA WritesBlock ==
  ASSUME IInv, NEW commit \in BOOLEAN, commit => MayCommit, NEW b \in Blocks,
         commit => sq[sq_head].addr.block # b
  PROVE  WriteBack(commit)[b] = mem[b]
<1> DEFINE a == sq[sq_head].addr
           d == sq[sq_head].data
<1>1. a.block \in Blocks /\ mem \in [Blocks -> [0..1 -> Unit]]
  BY DEF IInv, RegistersOK, StoreEntry, Addr
<1>2. WriteBack(commit) = mem
      \/ (commit /\ WriteBack(commit) = [mem EXCEPT ![a.block] = [o \in 0..1 |-> d[o + 1]]])
      \/ (commit /\ WriteBack(commit) = [mem EXCEPT ![a.block][a.off] = d[1]])
  BY DEF WriteBack, Written
<1>3. commit => a.block # b
  OBVIOUS
<1> HIDE DEF a, d
<1> QED BY <1>1, <1>2, <1>3

\* A load that stays right: what it holds, or gets, is still what program order
\* demands after the edge.
LEMMA LoadStaysRight ==
  ASSUME IInv, NEW bundle, NEW alu, NEW data, NEW commit, NEW cache, NEW hit, NEW fb, NEW gnt,
         Step(bundle, alu, data, commit, cache, hit, fb, gnt), NEW s \in Held \ gnt
  PROVE  /\ lq'[s].state # 0 => lq'[s].addr_ready
         /\ lq'[s].state \in {1, 2} => Clear(s)'
         /\ lq'[s].state = 3 => (Clear(s) /\ HasMemory(s))' \/ \E j \in Older(s)' : HasStore(s, j)'
<1> DEFINE m == WriteBack(commit)
<1>1. /\ commit \in BOOLEAN /\ hit \in BOOLEAN /\ cache \subseteq Reading /\ fb \subseteq Waiting
      /\ (commit => MayCommit) /\ mem' = m /\ s \in Slots /\ s \in Held
  BY DEF Step, Clock, Held
<1>2. LoadKept(s, m, alu, cache, hit, fb)
  BY <1>1, LoadNext
<1>3. /\ lq'[s].state = ls_state_next(s, cache, hit, fb)
      /\ lq'[s].data = ld_data_next(s, m, cache, hit, fb)
      /\ lq'[s].size = lq[s].size /\ lq'[s].id = lq[s].id /\ ~lq'[s].free
      /\ lq[s].addr_ready => lq'[s].addr_ready /\ lq'[s].addr = lq[s].addr
  BY <1>2 DEF LoadKept
<1> DEFINE st == lq'[s].state
           d == lq'[s].data
<1>4. /\ st # 0 => lq[s].addr_ready
      /\ st \in {1, 2} => Clear(s)
      /\ st = 3 => \/ Clear(s) /\ (LooksLike(d, s, m) \/ LooksLike(d, s, mem))
                   \/ Forwarded(d, s)
  <2> HIDE DEF m
  <2> QED BY <1>1, <1>3, LoadResult
<1>5. /\ \A j : j \in Older(s)' <=> j \in Older(s) /\ ~(commit /\ j = sq_head)
      /\ \A j \in Older(s)' : StoreKept(j, alu, data)
      /\ commit => sq_head \in Older(s) /\ \A j \in Older(s) : j # sq_head => sq[sq_head].id < sq[j].id
  BY OlderNext
<1>6. lq[s].addr.block \in Blocks /\ lq[s].addr.off \in 0..1
  BY <1>1 DEF IInv, RegistersOK, LoadEntry, Addr
<1> HIDE DEF m, st, d
<1>7. ASSUME lq[s].addr_ready, Clear(s) PROVE Clear(s)' /\ m[lq[s].addr.block] = mem[lq[s].addr.block]
  <2>1. \A j \in Older(s) : ~ls_addr_block_hit(s, j) /\ sq[j].addr.block # lq[s].addr.block
    BY <1>1, <1>7, ClearIs DEF Clear
  <2>2. \A j \in Older(s)' : sq'[j].addr_valid /\ sq'[j].addr.block # lq'[s].addr.block
    BY <1>5, <1>7, <2>1, MissStays
  <2>3. commit => sq[sq_head].addr.block # lq[s].addr.block
    BY <1>5, <2>1
  <2>4. m[lq[s].addr.block] = mem[lq[s].addr.block]
    BY <1>1, <1>6, <2>3, WritesBlock DEF m
  <2> QED BY <2>2, <2>4 DEF Clear
<1>8. ASSUME lq[s].addr_ready, LooksLike(d, s, m) PROVE HasMemory(s)'
  <2>1. mem' = m /\ lq'[s].size = lq[s].size /\ lq'[s].addr = lq[s].addr
    BY <1>1, <1>3, <1>8
  <2> QED BY <1>8, <2>1 DEF LooksLike, HasMemory, d
<1>9. ASSUME LooksLike(d, s, mem), m[lq[s].addr.block] = mem[lq[s].addr.block] PROVE LooksLike(d, s, m)
  BY <1>9 DEF LooksLike, ReadFrom
<1>10. ASSUME lq[s].addr_ready, Forwarded(d, s)
       PROVE  (Clear(s) /\ HasMemory(s))' \/ \E j \in Older(s)' : HasStore(s, j)'
  <2>1. PICK j \in Older(s) : /\ ls_addr_all_hit(s, j) /\ d = sq[j].data
                              /\ \A k \in Older(s) : sq[j].id < sq[k].id => ~ls_addr_block_hit(s, k)
    BY <1>10 DEF Forwarded
  <2>2. /\ sq[j].valid /\ sq[j].addr_valid /\ sq[j].data_valid /\ lq[s].addr.block = sq[j].addr.block
        /\ lq[s].addr.off = sq[j].addr.off /\ lq[s].size = sq[j].size
    BY <1>10, <2>1 DEF ls_addr_all_hit, ls_addr_block_hit
  <2>3. CASE commit /\ j = sq_head
    <3>1. \A k \in Older(s)' : ~ls_addr_block_hit(s, k)
      BY <1>5, <2>1, <2>3
    <3>2. Clear(s)'
      <4>1. \A k \in Older(s)' : sq'[k].addr_valid /\ sq'[k].addr.block # lq'[s].addr.block
        BY <1>10, <3>1, MissStays
      <4> QED BY <4>1 DEF Clear
    <3>3. m = Written(mem, sq[j], d)
      BY <2>1, <2>2, <2>3 DEF m, WriteBack
    <3>4. LooksLike(d, s, m)
      <4> DEFINE b == lq[s].addr.block
                 o == lq[s].addr.off
      <4>1. mem \in [Blocks -> [0..1 -> Unit]] /\ lq[s].size \in {"word", "byte"}
        BY <1>1 DEF IInv, RegistersOK, LoadEntry, Sizes
      <4>2. CASE lq[s].size = "word"
        <5>1. m = [mem EXCEPT ![b] = [x \in 0..1 |-> d[x + 1]]]
          BY <2>2, <3>3, <4>2 DEF Written
        <5>2. m[b] = [x \in 0..1 |-> d[x + 1]]
          BY <1>6, <4>1, <5>1
        <5>3. m[b][0] = d[1] /\ m[b][1] = d[2]
          BY <5>2
        <5> QED BY <4>2, <5>3 DEF LooksLike, ReadFrom
      <4>3. CASE lq[s].size = "byte"
        <5>1. m = [mem EXCEPT ![b][o] = d[1]]
          BY <2>2, <3>3, <4>3 DEF Written
        <5>2. mem[b] \in [0..1 -> Unit] /\ b \in Blocks /\ o \in 0..1
          BY <1>6, <4>1
        <5> HIDE DEF b, o
        <5>3. m[b][o] = d[1]
          BY <4>1, <5>1, <5>2
        <5> QED BY <4>3, <5>3 DEF LooksLike, ReadFrom, b, o
      <4> QED BY <4>1, <4>2, <4>3
    <3> QED BY <1>8, <1>10, <3>2, <3>4
  <2>4. CASE ~(commit /\ j = sq_head)
    <3>1. j \in Older(s)' /\ StoreKept(j, alu, data)
      BY <1>5, <2>4
    <3>2. /\ sq'[j].valid /\ sq'[j].addr_valid /\ sq'[j].data_valid /\ sq'[j].addr = sq[j].addr
          /\ sq'[j].data = sq[j].data /\ sq'[j].size = sq[j].size /\ sq'[j].id = sq[j].id
      BY <2>2, <3>1 DEF StoreKept
    <3>3. lq'[s].addr_ready /\ lq'[s].addr = lq[s].addr /\ lq'[s].size = lq[s].size /\ ~lq'[s].free
      BY <1>3, <1>10
    <3>4. ls_addr_all_hit(s, j)'
      BY <2>2, <3>2, <3>3 DEF ls_addr_all_hit, ls_addr_block_hit
    <3>5. ASSUME NEW k \in Older(s)', sq'[j].id < sq'[k].id PROVE ~ls_addr_block_hit(s, k)'
      <4>1. k \in Older(s) /\ sq'[k].id = sq[k].id
        BY <1>5 DEF StoreKept
      <4>2. ~ls_addr_block_hit(s, k)
        BY <2>1, <3>2, <3>5, <4>1
      <4> QED BY <1>10, <4>2, MissStays
    <3>6. HasStore(s, j)'
      BY <2>1, <3>2, <3>4, <3>5 DEF HasStore, d
    <3> QED BY <3>1, <3>6
  <2> QED BY <2>3, <2>4
<1>11. st = 3 => (Clear(s) /\ HasMemory(s))' \/ \E j \in Older(s)' : HasStore(s, j)'
  <2> SUFFICES ASSUME st = 3
               PROVE  (Clear(s) /\ HasMemory(s))' \/ \E j \in Older(s)' : HasStore(s, j)'
    OBVIOUS
  <2>1. lq[s].addr_ready
    BY <1>4
  <2>2. CASE Clear(s) /\ (LooksLike(d, s, m) \/ LooksLike(d, s, mem))
    <3>1. Clear(s)' /\ m[lq[s].addr.block] = mem[lq[s].addr.block]
      BY <1>7, <2>1, <2>2
    <3>2. LooksLike(d, s, m)
      BY <1>9, <2>2, <3>1
    <3> QED BY <1>8, <2>1, <3>1, <3>2
  <2>3. CASE Forwarded(d, s)
    BY <1>10, <2>1, <2>3
  <2> QED BY <1>4, <2>2, <2>3
<1>12. st \in {1, 2} => Clear(s)'
  BY <1>4, <1>7
<1>13. st # 0 => lq'[s].addr_ready
  BY <1>3, <1>4
<1> QED BY <1>11, <1>12, <1>13 DEF st

\* Every load is right after the edge.
LEMMA LoadsRightNext ==
  ASSUME IInv, NEW bundle, NEW alu, NEW data, NEW commit, NEW cache, NEW hit, NEW fb, NEW gnt,
         Step(bundle, alu, data, commit, cache, hit, fb, gnt)
  PROVE  LoadsRight'
<1>1. ASSUME NEW s \in Held'
      PROVE  /\ lq'[s].state # 0 => lq'[s].addr_ready
             /\ lq'[s].state \in {1, 2} => Clear(s)'
             /\ lq'[s].state = 3 => (Clear(s) /\ HasMemory(s))' \/ \E j \in Older(s)' : HasStore(s, j)'
  <2>1. s \in Slots /\ ~lq'[s].free
    BY DEF Held
  <2>2. CASE s \in Held /\ s \notin gnt
    BY <2>2, LoadStaysRight
  <2>3. CASE \E i \in Enabled(bundle, "load") : s \in LoadSlot(i)
    <3>1. PICK i \in Enabled(bundle, "load") : s \in LoadSlot(i)
      BY <2>3
    <3>2. lq'[s] = NewLoad(bundle, i)
      BY <2>1, <3>1, LoadNext
    <3>3. lq'[s].state = 0
      BY <3>2 DEF NewLoad, FreeLoad
    <3> QED BY <3>3
  <2>4. lq'[s] # FreeLoad
    BY <2>1 DEF FreeLoad
  <2> QED BY <2>1, <2>2, <2>3, <2>4, LoadNext
<1>2. LoadsRight' = \A s \in Held' :
        /\ lq'[s].state # 0 => lq'[s].addr_ready
        /\ lq'[s].state \in {1, 2} => Clear(s)'
        /\ lq'[s].state = 3 => (Clear(s) /\ HasMemory(s))' \/ \E j \in Older(s)' : HasStore(s, j)'
  BY DEF LoadsRight
<1> QED BY <1>1, <1>2

-----------------------------------------------------------------------------
(* The invariant. *)

\* Queues that hold nothing, with nothing in the window.
Empty ==
  /\ sq = [j \in Slots |-> FreeStore] /\ sq_head \in Slots /\ sq_tail = sq_head /\ sq_num_free = LSQSZ
  /\ lq = [s \in Slots |-> FreeLoad] /\ lq_num_free = LSQSZ
  /\ window = <<>> /\ sent = {}
  /\ mem \in [Blocks -> [0..1 -> Unit]] /\ dispatched \in 0..MaxOps

\* The invariant holds of empty queues, which reset and a squash leave behind.
LEMMA EmptyHolds == Empty => IInv
<1> SUFFICES ASSUME Empty PROVE IInv
  OBVIOUS
<1>1. /\ sq = [j \in Slots |-> FreeStore] /\ sq_head \in Slots /\ sq_tail = sq_head /\ sq_num_free = LSQSZ
      /\ lq = [s \in Slots |-> FreeLoad] /\ lq_num_free = LSQSZ
      /\ window = <<>> /\ sent = {}
      /\ mem \in [Blocks -> [0..1 -> Unit]] /\ dispatched \in 0..MaxOps
  BY DEF Empty
<1>2. LSQSZ \in Nat \ {0} /\ MaxOps \in Nat
  BY SizesOK
<1>3. \A j \in Slots : /\ sq[j] = FreeStore /\ ~sq[j].valid
                       /\ lq[j] = FreeLoad /\ lq[j].free /\ lq[j].state = 0
  <2>1. \A j \in Slots : sq[j] = FreeStore /\ lq[j] = FreeLoad
    BY <1>1
  <2>2. ~FreeStore.valid /\ FreeLoad.free /\ FreeLoad.state = 0
    BY DEF FreeStore, FreeLoad
  <2> QED BY <2>1, <2>2
<1>4. InWindow = {}
  BY <1>1 DEF InWindow
<1>5. StoresIn = {} /\ LoadsIn = {}
  BY <1>4 DEF StoresIn, LoadsIn
<1>6. Held = {}
  BY <1>3 DEF Held
<1>7. RegistersOK
  <2>1. sq \in [Slots -> StoreEntry] /\ lq \in [Slots -> LoadEntry]
    BY <1>1, EntryTypes
  <2>2. sq_num_free \in 0..LSQSZ
    BY <1>1, <1>2
  <2> QED BY <1>1, <2>1, <2>2 DEF RegistersOK
<1>8. WindowOK
  <2>1. window \in [InWindow -> Program]
    BY <1>1, <1>4
  <2> QED BY <1>1, <1>4, <2>1 DEF WindowOK
<1>9. StoresQueued
  <2>1. LSQSZ - sq_num_free = 0 /\ 0 \in 0..(LSQSZ - 1) /\ 0..(0 - 1) = {}
    BY <1>1, <1>2
  <2>2. sq_tail = (sq_head + 0) % LSQSZ
    BY <1>1, AtUnique DEF At
  <2>3. \A i \in 0..(LSQSZ - 1) : sq[(sq_head + i) % LSQSZ].valid <=> i < 0
    <3>1. ASSUME NEW i \in 0..(LSQSZ - 1) PROVE At(i) \in Slots /\ ~(i < 0)
      <4>1. i \in 0..LSQSZ /\ ~(i < 0)
        BY <1>2
      <4> QED BY <1>1, <4>1, AtSlot
    <3> QED BY <1>3, <3>1 DEF At
  <2>4. {sq[(sq_head + i) % LSQSZ].id : i \in 0..(0 - 1)} = {}
    BY <2>1
  <2> QED BY <1>5, <2>1, <2>2, <2>3, <2>4 DEF StoresQueued
<1>10. LoadsQueued
  <2>1. Slots \ {s \in Slots : ~lq[s].free} = 0..(LSQSZ - 1)
    BY <1>3 DEF Slots
  <2>2. Cardinality(0..(LSQSZ - 1)) = LSQSZ
    <3>1. Cardinality(0..(LSQSZ - 1)) = IF 0 > LSQSZ - 1 THEN 0 ELSE LSQSZ - 1 - 0 + 1
      BY <1>2, FS_Interval
    <3> QED BY <1>2, <3>1
  <2>3. {s \in Slots : ~lq[s].free} = {}
    BY <1>3
  <2> QED BY <1>1, <1>5, <2>1, <2>2, <2>3 DEF LoadsQueued
<1>11. EntriesMatch /\ AgesRecorded /\ LoadsRight
  BY <1>3, <1>6 DEF EntriesMatch, AgesRecorded, LoadsRight
<1> QED BY <1>7, <1>8, <1>9, <1>10, <1>11 DEF IInv, QueuesMatchWindow

\* The same after a step.
LEMMA EmptyHoldsNext == (Empty => IInv)'
BY EmptyHolds, PTL

\* A step of the program is a clock edge or a squash.
LEMMA StepsAre ==
  ASSUME Next
  PROVE  \/ \E bundle, alu, data, commit, cache, hit, fb, gnt :
              Step(bundle, alu, data, commit, cache, hit, fb, gnt)
         \/ \E commit \in BOOLEAN : Except(commit)
<1>1. ASSUME NEW requests, NEW grant \in Grants(requests) PROVE grant \subseteq requests
  BY <1>1 DEF Grants
<1>2. CASE \E bundle \in Offered :
             \E alu \in UpTo(WAYS, Addressable), data \in UpTo(WAYS, Dataless(bundle)),
                commit \in BOOLEAN, fb \in UpTo(1, Waiting) : Cycle(bundle, alu, data, commit, fb)
  <2>1. PICK bundle \in Offered :
             \E alu \in UpTo(WAYS, Addressable), data \in UpTo(WAYS, Dataless(bundle)),
                commit \in BOOLEAN, fb \in UpTo(1, Waiting) : Cycle(bundle, alu, data, commit, fb)
    BY <1>2
  <2>2. PICK alu \in UpTo(WAYS, Addressable), data \in UpTo(WAYS, Dataless(bundle)),
             commit \in BOOLEAN, fb \in UpTo(1, Waiting) : Cycle(bundle, alu, data, commit, fb)
    BY <2>1
  <2>3. PICK cache \in Grants(Reading), gnt \in Grants(Done), hit \in BOOLEAN :
             Clock(bundle, alu, data, commit, cache, hit, fb, gnt)
    BY <2>2 DEF Cycle
  <2>4. alu \subseteq Addressable /\ fb \subseteq Waiting
    BY DEF UpTo
  <2>5. cache \subseteq Reading /\ gnt \subseteq Done
    BY <1>1
  <2> QED BY <2>3, <2>4, <2>5 DEF Step
<1> QED BY <1>2 DEF Next

\* The invariant holds initially.
LEMMA InitHolds == Init => IInv
<1> SUFFICES ASSUME Init PROVE Empty
  BY EmptyHolds
<1>1. sq_head \in Slots
  BY SizesOK DEF Init
<1>2. mem \in [Blocks -> [0..1 -> Unit]]
  <2>1. \A b \in Blocks, o \in 0..1 : [src |-> b, part |-> o, sign |-> FALSE] \in Unit
    BY DEF Unit
  <2> QED BY <2>1 DEF Init
<1>3. dispatched \in 0..MaxOps
  BY SizesOK DEF Init
<1> QED BY <1>1, <1>2, <1>3 DEF Init, Empty

\* A clock edge keeps the invariant.
LEMMA StepHolds ==
  ASSUME IInv, NEW bundle, NEW alu, NEW data, NEW commit, NEW cache, NEW hit, NEW fb, NEW gnt,
         Step(bundle, alu, data, commit, cache, hit, fb, gnt)
  PROVE  IInv'
<1>1. StoresQueued' /\ sq' \in [Slots -> StoreEntry]
  BY StoresQueuedNext
<1>2. LoadsQueued' /\ lq' \in [Slots -> LoadEntry]
  BY LoadsQueuedNext
<1>3. sq_head' \in Slots /\ sq_num_free' \in 0..LSQSZ
  BY StepRing
<1>4. mem' \in [Blocks -> [0..1 -> Unit]]
  BY ReadTypes DEF Step, Clock
<1>5. WindowOK'
  BY StepWindow
<1>6. EntriesMatch'
  BY EntriesMatchNext
<1>7. AgesRecorded'
  BY AgesRecordedNext
<1>8. LoadsRight'
  BY LoadsRightNext
<1>9. RegistersOK'
  BY <1>1, <1>2, <1>3, <1>4 DEF RegistersOK
<1> QED BY <1>1, <1>2, <1>5, <1>6, <1>7, <1>8, <1>9 DEF IInv, QueuesMatchWindow

\* So does a squash.
LEMMA ExceptHolds ==
  ASSUME IInv, NEW commit \in BOOLEAN, Except(commit)
  PROVE  IInv'
<1>1. mem' \in [Blocks -> [0..1 -> Unit]]
  BY ReadTypes DEF Except
<1>2. 0 \in Slots
  BY SizesOK DEF Slots
<1>3. dispatched' \in 0..MaxOps
  BY DEF Except, IInv, WindowOK
<1>4. Empty'
  BY <1>1, <1>2, <1>3 DEF Except, Empty
<1> QED BY <1>4, EmptyHoldsNext

\* A step that changes nothing keeps the invariant.
LEMMA StutterHolds ==
  ASSUME IInv, UNCHANGED vars
  PROVE  IInv'
<1>1. /\ sq' = sq /\ sq_head' = sq_head /\ sq_tail' = sq_tail /\ sq_num_free' = sq_num_free
      /\ lq' = lq /\ lq_num_free' = lq_num_free /\ window' = window /\ sent' = sent
      /\ mem' = mem /\ dispatched' = dispatched
  BY DEF vars
<1>2. InWindow' = InWindow /\ StoresIn' = StoresIn /\ LoadsIn' = LoadsIn /\ Held' = Held /\ Stores' = Stores
  BY <1>1 DEF InWindow, StoresIn, LoadsIn, Held, Stores
<1>3. RegistersOK' /\ WindowOK'
  BY <1>1, <1>2 DEF IInv, RegistersOK, WindowOK
<1>4. StoresQueued' /\ LoadsQueued'
  BY <1>1, <1>2 DEF IInv, QueuesMatchWindow, StoresQueued, LoadsQueued
<1>5. EntriesMatch'
  BY <1>1 DEF IInv, EntriesMatch, StoreMatches, LoadMatches
<1>6. AgesRecorded'
  <2>1. \A s, k : AgedAt(s, k)' <=> AgedAt(s, k)
    BY <1>1 DEF AgedAt, At, Stores
  <2> QED BY <1>2, <2>1 DEF IInv, AgesRecorded
<1>7. LoadsRight'
  <2>1. \A s : Older(s)' = Older(s)
    BY <1>1 DEF Older
  <2>2. \A s, j : ls_addr_block_hit(s, j)' <=> ls_addr_block_hit(s, j)
    BY <1>1 DEF ls_addr_block_hit
  <2>3. \A s, j : ls_addr_all_hit(s, j)' <=> ls_addr_all_hit(s, j)
    BY <1>1, <2>2 DEF ls_addr_all_hit
  <2>4. \A s, j : HasStore(s, j)' <=> HasStore(s, j)
    BY <1>1, <2>1, <2>2, <2>3 DEF HasStore
  <2>5. \A s : (Clear(s)' <=> Clear(s)) /\ (HasMemory(s)' <=> HasMemory(s))
    BY <1>1, <2>1 DEF Clear, HasMemory, ReadFrom
  <2> QED BY <1>1, <1>2, <2>1, <2>4, <2>5 DEF IInv, LoadsRight
<1> QED BY <1>3, <1>4, <1>5, <1>6, <1>7 DEF IInv, QueuesMatchWindow

-----------------------------------------------------------------------------
(* Theorems. *)

\* The inductive invariant, of which the other theorems are consequences: it
\* adds to the queues' contents that an entry says what its instruction says,
\* that a recorded tail tells a load's age, and that a load beyond its first
\* state has nothing older in its way or has been forwarded to.
THEOREM Invariance == Spec => []IInv
<1>1. IInv /\ [Next]_vars => IInv'
  <2> SUFFICES ASSUME IInv, [Next]_vars PROVE IInv'
    OBVIOUS
  <2>1. CASE UNCHANGED vars
    BY <2>1, StutterHolds
  <2>2. CASE Next
    <3>1. CASE \E commit \in BOOLEAN : Except(commit)
      BY <3>1, ExceptHolds
    <3>2. CASE \E bundle, alu, data, commit, cache, hit, fb, gnt :
                 Step(bundle, alu, data, commit, cache, hit, fb, gnt)
      BY <3>2, StepHolds
    <3> QED BY <2>2, <3>1, <3>2, StepsAre
  <2> QED BY <2>1, <2>2
<1> QED BY <1>1, InitHolds, PTL DEF Spec

\* Every register of sq.sv and lq.sv keeps a value of its type, and no counter
\* or pointer leaves its range.
THEOREM TypeCorrect == Spec => []TypeOK
<1>1. IInv => TypeOK
  <2> SUFFICES ASSUME IInv PROVE TypeOK
    OBVIOUS
  <2>1. sq_tail \in Slots
    <3>1. Stores \in 0..(LSQSZ - 1) /\ sq_tail = At(Stores) /\ sq_head \in Slots /\ LSQSZ \in Nat
      BY QueueIs, SizesOK DEF IInv, RegistersOK
    <3>2. Stores \in 0..LSQSZ
      BY <3>1
    <3> QED BY <3>1, <3>2, AtSlot
  <2>2. lq_num_free \in 0..LSQSZ
    <3>1. lq_num_free = Cardinality(Slots \ Held)
      BY DEF IInv, QueuesMatchWindow, LoadsQueued, Held
    <3>2. (Slots \ Held) \subseteq Slots
      OBVIOUS
    <3> QED BY <3>1, <3>2, SlotsFinite
  <2>3. RegistersOK /\ WindowOK
    BY DEF IInv
  <2> QED BY <2>1, <2>2, <2>3
           DEF TypeOK, RegistersOK, WindowOK, StoreEntry, LoadEntry, Sizes, Addr, Data
<1> QED BY <1>1, Invariance, PTL

\* The queues hold exactly the window: the stores in program order from head to
\* tail, the loads once each, both counters exact, so that no bundle is squeezed
\* in past the stall and head and tail never meet in a queue that is not empty.
THEOREM QueuesHoldWindow == Spec => []QueuesMatchWindow
<1>1. IInv => QueuesMatchWindow
  BY DEF IInv
<1> QED BY <1>1, Invariance, PTL

\* The head, the tail recorded with a load and the wrap-around tell exactly
\* which stores are older than the load, for every size of the queue.
THEOREM AgesRight == Spec => []AgeIsProgramOrder
<1>1. IInv => AgeIsProgramOrder
  <2> SUFFICES ASSUME IInv, NEW s \in Slots, ~lq[s].free
               PROVE  {sq[j].id : j \in {k \in age_mask(s) : sq[k].valid}} = {id \in StoresIn : id < lq[s].id}
    BY DEF AgeIsProgramOrder
  <2>1. s \in Held
    BY DEF Held
  <2>2. {k \in age_mask(s) : sq[k].valid} = Older(s)
    <3>1. age_mask(s) \subseteq Slots
      BY DEF age_mask
    <3>2. \A j \in Slots : sq[j].valid => (j \in age_mask(s) <=> j \in Older(s))
      BY <2>1, AgeMaskIs
    <3>3. \A j \in Older(s) : j \in Slots /\ sq[j].valid
      BY DEF Older
    <3> QED BY <3>1, <3>2, <3>3
  <2>3. ASSUME NEW j \in Older(s) PROVE sq[j].id \in StoresIn /\ sq[j].id < lq[s].id
    BY StoreOnce DEF Older
  <2>4. ASSUME NEW id \in StoresIn, id < lq[s].id PROVE \E j \in Older(s) : sq[j].id = id
    <3>1. PICK i \in 0..(Stores - 1) : sq[At(i)].id = id
      BY QueueIs DEF IInv
    <3>2. At(i) \in Slots /\ sq[At(i)].valid
      BY QueueIs DEF IInv
    <3> QED BY <2>4, <3>1, <3>2 DEF Older
  <2> QED BY <2>2, <2>3, <2>4
<1> QED BY <1>1, Invariance, PTL

\* The greatest of a set of numbers.
LEMMA MaxOfNat ==
  ASSUME NEW S \in SUBSET Nat, NEW x \in S, \A y \in S : y <= x
  PROVE  MaxOf(S) = x
<1>1. \A y \in S : (\A z \in S : z <= y) => y = x
  <2> SUFFICES ASSUME NEW y \in S, \A z \in S : z <= y PROVE y = x
    OBVIOUS
  <2>1. x <= y /\ y <= x /\ x \in Nat /\ y \in Nat
    OBVIOUS
  <2> QED BY <2>1
<1> QED BY <1>1 DEF MaxOf

\* The writers of a unit before a load are stores of the queue older than it.
LEMMA WritersAre ==
  ASSUME IInv, NEW s \in Held, NEW b, NEW o, NEW k \in Writers(lq[s].id, b, o)
  PROVE  \E j \in Older(s) : /\ sq[j].id = k
                             /\ sq[j].addr_valid => sq[j].addr.block = b
<1>1. /\ k \in StoresIn /\ k < lq[s].id /\ window[k].addr.block = b
  BY DEF Writers
<1>2. PICK i \in 0..(Stores - 1) : sq[At(i)].id = k
  BY <1>1, QueueIs DEF IInv
<1>3. At(i) \in Slots /\ sq[At(i)].valid
  BY QueueIs DEF IInv
<1>4. StoreMatches(At(i))
  BY <1>3 DEF IInv, EntriesMatch
<1>5. At(i) \in Older(s)
  BY <1>1, <1>2, <1>3 DEF Older
<1> QED BY <1>1, <1>2, <1>4, <1>5 DEF StoreMatches

\* A load that is done has what program order demands.
LEMMA DoneIsExpected ==
  ASSUME IInv, \A op \in Program : op.kind = "load" /\ op.size = "byte" => op.signed,
         NEW s \in Done
  PROVE  CDB_Data(lq[s].size, lq[s].signed, lq[s].data) = Expected(lq[s].id)
<1> DEFINE id == lq[s].id
           b == lq[s].addr.block
           o == lq[s].addr.off
           size == lq[s].size
           d == lq[s].data
           seen == InOrder(id)
<1>1. s \in Held /\ s \in Slots /\ lq[s].state = 3
  BY HeldAre DEF Done
<1>2. /\ lq[s].addr_ready
      /\ (Clear(s) /\ HasMemory(s)) \/ \E j \in Older(s) : HasStore(s, j)
  BY <1>1 DEF IInv, LoadsRight
<1>3. size = window[id].size /\ lq[s].signed = window[id].signed /\ lq[s].addr = window[id].addr
  BY <1>1, <1>2, HeldAre DEF LoadMatches
<1>4. id \in LoadsIn /\ id \in Nat /\ window[id] \in Program /\ window[id].kind = "load"
  <2>1. id \in LoadsIn
    BY <1>1, HeldAre
  <2> QED BY <2>1, WindowIs DEF IInv, LoadsIn
<1>5. size = "byte" => lq[s].signed
  BY <1>3, <1>4
<1>6. /\ size \in {"word", "byte"} /\ b \in Blocks /\ o \in 0..1
      /\ d = <<d[1], d[2]>>
  BY <1>1 DEF IInv, RegistersOK, LoadEntry, Sizes, Addr, Data
<1>7. Expected(id) = CDB_Data(size, lq[s].signed, ReadFrom(seen, size, lq[s].addr))
  BY <1>3 DEF Expected
<1>8. \A p \in 0..1 : seen[b][p] = IF Writers(id, b, p) = {} THEN mem[b][p]
                                   ELSE Stored(MaxOf(Writers(id, b, p)), p)
  BY <1>6 DEF InOrder
<1>9. ASSUME NEW r, r[1] = d[1], size = "word" => r = <<r[1], r[2]>> /\ r[2] = d[2]
      PROVE  CDB_Data(size, lq[s].signed, r) = CDB_Data(size, lq[s].signed, d)
  BY <1>5, <1>6, <1>9 DEF CDB_Data
<1>10. CASE Clear(s) /\ HasMemory(s)
  <2>1. \A p \in 0..1 : Writers(id, b, p) = {}
    <3> SUFFICES ASSUME NEW p \in 0..1, NEW k \in Writers(id, b, p) PROVE FALSE
      OBVIOUS
    <3>1. PICK j \in Older(s) : sq[j].id = k /\ (sq[j].addr_valid => sq[j].addr.block = b)
      BY <1>1, WritersAre
    <3> QED BY <1>10, <3>1 DEF Clear
  <2>2. \A p \in 0..1 : seen[b][p] = mem[b][p]
    BY <1>8, <2>1
  <2>3. ReadFrom(seen, size, lq[s].addr) = ReadFrom(mem, size, lq[s].addr)
    BY <1>6, <2>2 DEF ReadFrom
  <2>4. size = "word" => ReadFrom(mem, size, lq[s].addr) = <<mem[b][0], mem[b][1]>>
    BY DEF ReadFrom
  <2> DEFINE r == ReadFrom(mem, size, lq[s].addr)
  <2>5. d[1] = r[1] /\ (size = "word" => d[2] = r[2])
    BY <1>10 DEF HasMemory
  <2>6. size = "word" => r = <<r[1], r[2]>>
    BY <2>4
  <2> HIDE DEF r, d, size
  <2>7. CDB_Data(size, lq[s].signed, r) = CDB_Data(size, lq[s].signed, d)
    BY <1>9, <2>5, <2>6
  <2> QED BY <1>7, <2>3, <2>7 DEF r, d, size
<1>11. CASE \E j \in Older(s) : HasStore(s, j)
  <2>1. PICK j \in Older(s) : HasStore(s, j)
    BY <1>11
  <2>2. /\ ls_addr_all_hit(s, j) /\ d = sq[j].data
        /\ \A k \in Older(s) : sq[j].id < sq[k].id => ~ls_addr_block_hit(s, k)
    BY <2>1 DEF HasStore
  <2>3. /\ j \in Slots /\ sq[j].valid /\ sq[j].id < id
        /\ sq[j].addr_valid /\ sq[j].data_valid /\ sq[j].addr.block = b /\ sq[j].addr.off = o
        /\ sq[j].size = size
    BY <1>2, <2>2 DEF Older, ls_addr_all_hit, ls_addr_block_hit
  <2> DEFINE w == sq[j].id
  <2>4. w \in StoresIn /\ w \in Nat /\ StoreMatches(j)
    BY <2>3, StoreOnce DEF IInv, EntriesMatch
  <2>5. window[w].size = size /\ window[w].addr.block = b /\ window[w].addr.off = o /\ d = Register(w)
    BY <2>2, <2>3, <2>4 DEF StoreMatches
  <2>6. ASSUME NEW p \in 0..1, size = "word" \/ p = o PROVE seen[b][p] = Stored(w, p)
    <3>1. w \in Writers(id, b, p)
      BY <2>3, <2>4, <2>5, <2>6 DEF Writers
    <3>2. ASSUME NEW k \in Writers(id, b, p) PROVE k \in Nat /\ k <= w
      <4>1. PICK l \in Older(s) : sq[l].id = k /\ (sq[l].addr_valid => sq[l].addr.block = b)
        BY <1>1, WritersAre
      <4>2. l \in Slots /\ sq[l].valid
        BY DEF Older
      <4>3. k \in Nat
        BY <4>1, <4>2, StoreOnce
      <4>4. w < k => ~ls_addr_block_hit(s, l)
        BY <2>2, <4>1
      <4>5. ls_addr_block_hit(s, l)
        BY <1>1, <1>2, <4>1, ClearIs
      <4> QED BY <2>4, <4>3, <4>4, <4>5
    <3>3. Writers(id, b, p) \in SUBSET Nat
      BY <3>2
    <3>4. MaxOf(Writers(id, b, p)) = w
      <4> DEFINE W == Writers(id, b, p)
      <4>1. W \in SUBSET Nat /\ w \in W /\ \A k \in W : k <= w
        BY <3>1, <3>2, <3>3
      <4> HIDE DEF W, w
      <4>2. MaxOf(W) = w
        BY <4>1, MaxOfNat
      <4> QED BY <4>2 DEF W
    <3> QED BY <1>8, <3>1, <3>4
  <2> HIDE DEF w
  <2>7. CASE size = "word"
    <3>1. \A p \in 0..1 : seen[b][p] = Register(w)[p + 1]
      <4>1. \A p \in 0..1 : seen[b][p] = Stored(w, p)
        BY <2>6, <2>7
      <4>2. window[w].size = "word"
        BY <2>5, <2>7
      <4> QED BY <4>1, <4>2 DEF Stored
    <3>2. seen[b][0] = d[1] /\ seen[b][1] = d[2]
      <4>1. seen[b][0] = Register(w)[0 + 1] /\ seen[b][1] = Register(w)[1 + 1]
        BY <3>1
      <4>2. 0 + 1 = 1 /\ 1 + 1 = 2
        OBVIOUS
      <4> HIDE DEF d
      <4> QED BY <2>5, <4>1, <4>2
    <3>3. ReadFrom(seen, size, lq[s].addr) = <<seen[b][0], seen[b][1]>>
      BY <2>7 DEF ReadFrom
    <3>4. ReadFrom(seen, size, lq[s].addr) = d
      BY <1>6, <3>2, <3>3
    <3> QED BY <1>7, <3>4
  <2>8. CASE size = "byte"
    <3>1. seen[b][o] = Register(w)[1]
      <4>1. seen[b][o] = Stored(w, o)
        BY <1>6, <2>6
      <4>2. window[w].size # "word"
        BY <2>5, <2>8
      <4> QED BY <4>1, <4>2 DEF Stored
    <3>2. ReadFrom(seen, size, lq[s].addr) = <<seen[b][o], ZeroUnit>>
      BY <2>8 DEF ReadFrom
    <3> DEFINE r == ReadFrom(seen, size, lq[s].addr)
    <3>3. r[1] = d[1]
      BY <2>5, <3>1, <3>2
    <3>4. size # "word"
      BY <2>8
    <3> HIDE DEF r, d, size
    <3>5. CDB_Data(size, lq[s].signed, r) = CDB_Data(size, lq[s].signed, d)
      BY <1>9, <3>3, <3>4
    <3> QED BY <1>7, <3>5 DEF r, d, size
  <2> QED BY <1>6, <2>7, <2>8
<1> QED BY <1>2, <1>10, <1>11

\* What a load puts on the bus is what it would have read had every older store
\* been performed and no younger one, wherever the value came from and however
\* long it has waited.  Unsigned byte loads are excepted: a forwarded byte comes
\* with what is above it in the store's register, and the program that shows it
\* is that of UnsignedProgram.
THEOREM LoadsSee ==
  ASSUME \A op \in Program : op.kind = "load" /\ op.size = "byte" => op.signed
  PROVE  Spec => []LoadsSeeProgramOrder
<1>1. IInv => LoadsSeeProgramOrder
  BY DoneIsExpected DEF LoadsSeeProgramOrder
<1> QED BY <1>1, Invariance, PTL

\* No store writes the block of a load that reads the cache or waits for
\* memory: the load got that far because no older store may be to its block,
\* and only an older store can commit before it.
THEOREM ReadsUndisturbed == Spec => NoWriteUnderRead
<1> DEFINE A == \A s \in Reading \cup Waiting : mem'[lq[s].addr.block] = mem[lq[s].addr.block]
<1>1. IInv /\ [Next]_vars => [A]_vars
  <2> SUFFICES ASSUME IInv, Next, NEW s \in Reading \cup Waiting
               PROVE  mem'[lq[s].addr.block] = mem[lq[s].addr.block]
    OBVIOUS
  <2>1. PICK commit \in BOOLEAN : mem' = WriteBack(commit) /\ (commit => MayCommit)
    <3>1. CASE \E bundle, alu, data, commit, cache, hit, fb, gnt :
                 Step(bundle, alu, data, commit, cache, hit, fb, gnt)
      BY <3>1 DEF Step, Clock
    <3>2. CASE \E commit \in BOOLEAN : Except(commit)
      BY <3>2 DEF Except
    <3> QED BY <3>1, <3>2, StepsAre
  <2>2. s \in Held /\ s \in Slots /\ lq[s].state \in {1, 2}
    BY HeldAre DEF Reading, Waiting
  <2>3. Clear(s) /\ lq[s].addr.block \in Blocks
    BY <2>2 DEF IInv, LoadsRight, RegistersOK, LoadEntry, Addr
  <2>4. commit => sq[sq_head].addr.block # lq[s].addr.block
    <3>1. commit => sq_head \in Older(s)
      BY <2>1, <2>2, HeadOlder
    <3> QED BY <2>3, <3>1 DEF Clear
  <2> QED BY <2>1, <2>3, <2>4, WritesBlock
<1> QED BY <1>1, Invariance, PTL DEF Spec, NoWriteUnderRead

\* Memory only ever takes the oldest store of the window, whole, and a store
\* that leaves has written, also beside the mispredicted branch that empties
\* the queue.
THEOREM StoresWriteInOrder == Spec => CommitWritesOldest
<1> DEFINE A == /\ mem' # mem => MayCommit /\ mem' = AfterOldest
                /\ InWindow # {} /\ Oldest \in StoresIn \ InWindow' /\ InWindow' # {} => mem' = AfterOldest
                /\ InWindow' = {} /\ Except(TRUE) => mem' = AfterOldest
<1>1. IInv /\ [Next]_vars => [A]_vars
  <2> SUFFICES ASSUME IInv, Next PROVE A
    OBVIOUS
  <2>1. ASSUME NEW commit \in BOOLEAN, mem' = WriteBack(commit), commit => MayCommit
        PROVE  /\ mem' # mem => MayCommit /\ mem' = AfterOldest
               /\ commit => mem' = AfterOldest
    <3>1. CASE commit
      BY <2>1, <3>1, CommitIs
    <3>2. CASE ~commit
      BY <2>1, <3>2 DEF WriteBack
    <3> QED BY <3>1, <3>2
  <2>2. Except(TRUE) => mem' = AfterOldest
    BY CommitIs DEF Except
  <2>3. CASE \E commit \in BOOLEAN : Except(commit)
    <3>1. PICK commit \in BOOLEAN : Except(commit)
      BY <2>3
    <3>2. InWindow' = {} /\ mem' = WriteBack(commit) /\ (commit => MayCommit)
      BY <3>1 DEF Except, InWindow
    <3> QED BY <2>1, <2>2, <3>2
  <2>4. CASE \E bundle, alu, data, commit, cache, hit, fb, gnt :
               Step(bundle, alu, data, commit, cache, hit, fb, gnt)
    <3>1. PICK bundle, alu, data, commit, cache, hit, fb, gnt :
                 Step(bundle, alu, data, commit, cache, hit, fb, gnt)
      BY <2>4
    <3>2. commit \in BOOLEAN /\ mem' = WriteBack(commit) /\ (commit => MayCommit)
      BY <3>1 DEF Step, Clock
    <3>3. Oldest \in StoresIn \ InWindow' => commit
      <4>1. InWindow' = Staying(commit, gnt) \cup NewOps(bundle)
        BY <3>1, StepWindow
      <4>2. \A id \in StoresIn \ Gone(commit) : id \in Staying(commit, gnt)
        BY <3>1, StaysSo
      <4>3. ~commit => Gone(commit) = {}
        BY DEF Gone
      <4> QED BY <3>2, <4>1, <4>2, <4>3
    <3> QED BY <2>1, <2>2, <3>2, <3>3
  <2> QED BY <2>3, <2>4, StepsAre
<1> QED BY <1>1, Invariance, PTL DEF Spec, CommitWritesOldest
=============================================================================
