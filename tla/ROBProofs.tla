----------------------------- MODULE ROBProofs -----------------------------
(***************************************************************************)
(* Proofs about ROB, for every number of entries, every width and, where   *)
(* nothing else is said, every program: the buffer's counters agree, what  *)
(* the bus names is what waits in the window, and the buffer implements    *)
(* the queue CommitQueue.                                                  *)
(***************************************************************************)
EXTENDS MCROB, FiniteSetTheorems, TLAPS

-----------------------------------------------------------------------------
(* Arithmetic of the ring. *)

\* The assumption on the sizes, in the form the proofs use.
LEMMA Sizes ==
  /\ WAYS \in Nat \ {0} /\ ROBSZ \in Nat \ {0}
  /\ 2 * WAYS <= ROBSZ /\ WAYS < ROBSZ
BY SizesAssumption

\* Before a number has gone round twice, the remainder is one subtraction.
LEMMA Wrap ==
  ASSUME NEW a \in Nat, a < 2 * ROBSZ
  PROVE  a % ROBSZ = IF a < ROBSZ THEN a ELSE a - ROBSZ
BY Sizes

\* Slot(base, i) is an entry, and one subtraction at most.
LEMMA SlotIs ==
  ASSUME NEW b \in Idx, NEW i \in 0..ROBSZ
  PROVE  /\ Slot(b, i) = IF b + i < ROBSZ THEN b + i ELSE b + i - ROBSZ
         /\ Slot(b, i) \in Idx
BY Wrap, Sizes DEF Slot, Idx

\* Steps along the ring add up.
LEMMA SlotAdds ==
  ASSUME NEW b \in Idx, NEW i \in 0..ROBSZ, NEW j \in 0..ROBSZ, i + j <= ROBSZ
  PROVE  Slot(Slot(b, i), j) = Slot(b, i + j)
<1>1. i + j \in 0..ROBSZ
  BY Sizes
<1>2. /\ Slot(b, i) = IF b + i < ROBSZ THEN b + i ELSE b + i - ROBSZ
      /\ Slot(b, i) \in Idx
  BY SlotIs
<1>3. Slot(Slot(b, i), j) = IF Slot(b, i) + j < ROBSZ THEN Slot(b, i) + j ELSE Slot(b, i) + j - ROBSZ
  BY <1>2, SlotIs
<1>4. Slot(b, i + j) = IF b + (i + j) < ROBSZ THEN b + (i + j) ELSE b + (i + j) - ROBSZ
  BY <1>1, SlotIs
<1> QED BY <1>2, <1>3, <1>4, Sizes DEF Idx

\* Less than a round of steps does not come back.
LEMMA SlotInjective ==
  ASSUME NEW b \in Idx, NEW i \in 0..(ROBSZ - 1), NEW j \in 0..(ROBSZ - 1), Slot(b, i) = Slot(b, j)
  PROVE  i = j
<1>1. i \in 0..ROBSZ /\ j \in 0..ROBSZ
  BY Sizes
<1>2. Slot(b, i) = IF b + i < ROBSZ THEN b + i ELSE b + i - ROBSZ
  BY <1>1, SlotIs
<1>3. Slot(b, j) = IF b + j < ROBSZ THEN b + j ELSE b + j - ROBSZ
  BY <1>1, SlotIs
<1>4. (IF b + i < ROBSZ THEN b + i ELSE b + i - ROBSZ) = (IF b + j < ROBSZ THEN b + j ELSE b + j - ROBSZ)
  BY <1>2, <1>3
<1> QED BY <1>4, Sizes DEF Idx

\* Every entry is less than a round away.
LEMMA SlotOnto ==
  ASSUME NEW b \in Idx, NEW s \in Idx
  PROVE  \E i \in 0..(ROBSZ - 1) : s = Slot(b, i)
<1> DEFINE d == IF b <= s THEN s - b ELSE s - b + ROBSZ
<1>1. d \in 0..(ROBSZ - 1) /\ d \in 0..ROBSZ
  BY Sizes DEF Idx
<1>2. (IF b + d < ROBSZ THEN b + d ELSE b + d - ROBSZ) = s
  BY Sizes DEF Idx
<1>3. Slot(b, d) = IF b + d < ROBSZ THEN b + d ELSE b + d - ROBSZ
  BY <1>1, SlotIs
<1> QED BY <1>1, <1>2, <1>3

-----------------------------------------------------------------------------
(* How many ways commit and how many are dispatched. *)

\* A set of ways that contains every way below one of its own is an interval,
\* and its size says where it ends.
LEMMA PrefixSet ==
  ASSUME NEW S \in SUBSET Ways, \A i \in S : \A j \in 0..i : j \in S
  PROVE  /\ Cardinality(S) \in 0..WAYS
         /\ S = 0..(Cardinality(S) - 1)
<1>1. IsFiniteSet(Ways) /\ Cardinality(Ways) = WAYS
  BY FS_Interval, Sizes DEF Ways
<1>2. IsFiniteSet(S) /\ Cardinality(S) <= WAYS /\ Cardinality(S) \in Nat
  BY <1>1, FS_Subset, FS_CardinalityType
<1> DEFINE n == Cardinality(S)
<1>3. n \in 0..WAYS
  BY <1>2, Sizes
<1>4. IsFiniteSet(0..(n - 1)) /\ Cardinality(0..(n - 1)) = n
  BY <1>2, FS_Interval, SMTT(30)
<1>5. ASSUME NEW i \in S PROVE i \in 0..(n - 1)
  <2>1. i \in Nat /\ 0..i \subseteq S
    BY Sizes DEF Ways
  <2>2. Cardinality(0..i) = i + 1
    BY <2>1, FS_Interval
  <2>3. i + 1 <= n
    BY <2>1, <2>2, <1>2, FS_Subset
  <2> QED BY <2>1, <2>3, <1>2
<1>6. S = 0..(n - 1)
  BY <1>4, <1>5, FS_Subset
<1> QED BY <1>3, <1>6

\* The committed ways are the first ones, and each may commit.
LEMMA Committed ==
  /\ num_committed \in 0..WAYS
  /\ \A i \in 0..(num_committed - 1) : i \in Ways /\ MayCommit(i)
  /\ MayCommit(0) => num_committed > 0
<1> DEFINE S == {i \in Ways : \A j \in 0..i : MayCommit(j)}
<1>1. \A i \in S : \A j \in 0..i : j \in S
  BY Sizes DEF Ways
<1>2. /\ Cardinality(S) \in 0..WAYS
      /\ S = 0..(Cardinality(S) - 1)
  BY <1>1, PrefixSet
<1>3. num_committed = Cardinality(S)
  BY DEF num_committed
<1>4. \A i \in S : i \in Ways /\ MayCommit(i)
  BY Sizes DEF Ways
<1>5. ASSUME MayCommit(0) PROVE num_committed > 0
  <2>1. 0 \in Ways /\ \A j \in 0..0 : j = 0
    BY Sizes DEF Ways
  <2>2. 0 \in S
    BY <2>1, <1>5
  <2> QED BY <2>2, <1>2, <1>3, Sizes
<1> QED BY <1>2, <1>3, <1>4, <1>5

\* num_dispatched counts up to the last valid way.
LEMMA NumDispatched ==
  /\ num_dispatched \in 0..WAYS
  /\ \A i \in Dispatched : i \in 0..(num_dispatched - 1)
  /\ ValidPrefix => Dispatched = 0..(num_dispatched - 1)
<1>1. CASE \E i \in Ways : Valid(i)
  <2> DEFINE U == {j \in Ways : \E i \in Ways : Valid(i) /\ j <= i}
  <2>1. \A i \in U : \A j \in 0..i : j \in U
    BY Sizes DEF Ways
  <2>2. /\ Cardinality(U) \in 0..WAYS
        /\ U = 0..(Cardinality(U) - 1)
    BY <2>1, PrefixSet
  <2>3. \A i \in Ways : Valid(i) => i \in U
    BY Sizes DEF Ways
  <2> DEFINE m == Cardinality(U) - 1
  <2>4. m \in Ways /\ Valid(m) /\ \A j \in Ways : Valid(j) => j <= m
    <3>1. m \in U
      <4> HIDE DEF U
      <4>1. U # {}
        BY <1>1, <2>3
      <4> QED BY <4>1, <2>2, Sizes
    <3>2. PICK i \in Ways : Valid(i) /\ m <= i
      BY <3>1
    <3>3. i \in 0..m
      BY <2>2, <2>3, <3>2
    <3>4. i = m
      BY <3>2, <3>3, <2>2, Sizes
    <3> QED BY <3>2, <3>4, <2>2, <2>3
  <2>5. m = CHOOSE i \in Ways : Valid(i) /\ \A j \in Ways : Valid(j) => j <= i
    <3> HIDE DEF m
    <3> QED BY <2>4, Sizes DEF Ways
  <2>6. num_dispatched = m + 1
    <3>1. num_dispatched = 1 + m
      BY <1>1, <2>5, Zenon DEF num_dispatched
    <3> QED BY <3>1, <2>2, Sizes
  <2> HIDE DEF m, U
  <2>7. num_dispatched \in 1..WAYS
    BY <2>4, <2>6, Sizes DEF Ways
  <2>8. \A i \in Dispatched : i \in 0..m
    BY <2>4, Sizes DEF Dispatched, Ways
  <2>9. ASSUME ValidPrefix, NEW i \in 0..m PROVE i \in Dispatched
    BY <2>4, <2>9, Sizes DEF ValidPrefix, Dispatched, Ways
  <2>10. m = num_dispatched - 1
    BY <2>4, <2>6, <2>7, Sizes DEF Ways
  <2>11. ValidPrefix => Dispatched = 0..m
    BY <2>8, <2>9
  <2> QED BY <2>7, <2>8, <2>10, <2>11, Sizes
<1>2. CASE ~ \E i \in Ways : Valid(i)
  BY <1>2, Sizes DEF num_dispatched, Dispatched
<1> QED BY <1>1, <1>2

\* The same holds of the next bundle.
LEMMA NumDispatchedNext == (num_dispatched \in 0..WAYS)'
BY NumDispatched, PTL

-----------------------------------------------------------------------------
(* The invariant. *)

Unfinished == {s \in Window : ~entries[s].done}

\* Without words the decoder rejects, a bundle has no gaps, so that every entry
\* of the window has an instruction and every unfinished one a broadcast to come.
NoGaps ==
  /\ ValidPrefix
  /\ \A s \in Window : entries[s].kind \in Kinds
  /\ Unfinished \subseteq executing

IInv ==
  /\ TypeOK
  /\ WindowAccounting
  /\ OnlyWindowDone
  /\ executing \subseteq Unfinished
  /\ Dispatched # {} => rob_idx = tail
  /\ Words \subseteq Kinds => NoGaps

\* The window has no more than ROBSZ - WAYS entries, with the bundle to come.
LEMMA OccupiedBound ==
  ASSUME TypeOK, WindowAccounting
  PROVE  /\ Occupied \in 0..ROBSZ
         /\ num_dispatched \in 0..WAYS
         /\ Occupied + num_dispatched \in 0..(ROBSZ - WAYS)
BY NumDispatched, Sizes DEF TypeOK, WindowAccounting, Occupied

\* The entries of the window are those less than Occupied steps from the head.
LEMMA InWindow ==
  ASSUME TypeOK, WindowAccounting, NEW i \in 0..(ROBSZ - 1)
  PROVE  Slot(head, i) \in Window <=> i < Occupied
<1>1. Occupied \in 0..ROBSZ /\ head \in Idx
  BY OccupiedBound DEF TypeOK
<1>2. ASSUME Slot(head, i) \in Window PROVE i < Occupied
  <2>1. PICK j \in 0..(Occupied - 1) : Slot(head, i) = Slot(head, j)
    BY <1>2 DEF Window
  <2>2. i = j
    BY <1>1, <2>1, SlotInjective, Sizes
  <2> QED BY <1>1, <2>2
<1>3. ASSUME i < Occupied PROVE Slot(head, i) \in Window
  <2>1. i \in 0..(Occupied - 1)
    BY <1>1, <1>3
  <2> QED BY <2>1 DEF Window
<1> QED BY <1>2, <1>3

\* Only what is in the window commits.
LEMMA CommitsFromWindow ==
  ASSUME TypeOK, WindowAccounting, OnlyWindowDone
  PROVE  num_committed <= Occupied
<1>1. Occupied \in 0..ROBSZ /\ head \in Idx
  BY OccupiedBound DEF TypeOK
<1>2. num_committed \in 0..WAYS
  BY Committed
<1>3. CASE num_committed > 0
  <2> DEFINE i == num_committed - 1
  <2>1. i \in 0..(num_committed - 1) /\ i \in 0..(ROBSZ - 1) /\ i \in 0..ROBSZ
    BY <1>2, <1>3, Sizes
  <2>2. MayCommit(i)
    BY <2>1, Committed
  <2>3. Slot(head, i) \in Idx
    BY <1>1, <2>1, SlotIs
  <2>4. Slot(head, i) \in Window
    BY <2>2, <2>3 DEF MayCommit, AtHead, OnlyWindowDone
  <2>5. i < Occupied
    BY <2>1, <2>4, InWindow
  <2> QED BY <1>1, <1>2, <2>5
<1> QED BY <1>1, <1>2, <1>3

\* A bundle comes right behind the window.
LEMMA TailSlot ==
  ASSUME TypeOK, WindowAccounting, NEW i \in 0..WAYS
  PROVE  /\ Occupied + i \in 0..ROBSZ
         /\ Slot(tail, i) = Slot(head, Occupied + i)
<1>1. /\ Occupied \in 0..ROBSZ /\ Occupied <= ROBSZ - WAYS
      /\ head \in Idx
  BY OccupiedBound, Sizes DEF TypeOK
<1>2. tail = Slot(head, Occupied)
  BY DEF WindowAccounting
<1>3. i \in 0..ROBSZ /\ Occupied + i <= ROBSZ
  BY <1>1, Sizes
<1> QED BY <1>1, <1>2, <1>3, SlotAdds, Sizes

-----------------------------------------------------------------------------
(* One clock edge. *)

\* The window moves: what commits leaves at its head and the bundle comes at
\* its tail.
LEMMA NextWindow ==
  ASSUME IInv, NEW cdb, NEW wrong, NEW fetched, Clock(cdb, wrong, fetched)
  PROVE  /\ head' \in Idx
         /\ Occupied' = Occupied - num_committed + num_dispatched
         /\ Occupied' \in 0..(ROBSZ - WAYS)
         /\ \A i \in 0..(ROBSZ - WAYS) : Slot(head, num_committed + i) = Slot(head', i)
         /\ tail' = Slot(head', Occupied')
<1> DEFINE nc == num_committed
           nd == num_dispatched
           occ == Occupied
<1>1. /\ nc \in 0..WAYS
      /\ nd \in 0..WAYS
      /\ nc <= occ
      /\ occ \in 0..ROBSZ
      /\ occ + nd \in 0..(ROBSZ - WAYS)
      /\ head \in Idx
      /\ num_free \in 0..ROBSZ
  BY Committed, CommitsFromWindow, OccupiedBound DEF IInv, TypeOK
<1>2. head' = Slot(head, nc) /\ tail' = Slot(tail, nd) /\ num_free' = num_free - nd + nc
  BY DEF Clock, next_head, next_tail, next_num_free, Slot
<1> HIDE DEF nc, nd
<1>4. occ' = occ - nc + nd
  BY <1>1, <1>2, Sizes DEF Occupied
<1> HIDE DEF occ
<1>5. head' \in Idx
  BY <1>1, <1>2, SlotIs, Sizes
<1>6. occ' \in 0..(ROBSZ - WAYS)
  BY <1>1, <1>4, Sizes
<1>7. ASSUME NEW i \in 0..(ROBSZ - WAYS) PROVE Slot(head, nc + i) = Slot(head', i)
  BY <1>1, <1>2, SlotAdds, Sizes
<1>8. Slot(tail, nd) = Slot(head, occ + nd)
  BY <1>1, TailSlot DEF IInv, occ
<1>9. tail' = Slot(head', occ')
  <2>1. tail' = Slot(head, occ + nd)
    BY <1>1, <1>2, <1>8
  <2>2. Slot(head', occ') = Slot(head, nc + occ')
    BY <1>6, <1>7
  <2>3. nc + occ' = occ + nd
    BY <1>1, <1>4, Sizes
  <2> QED BY <2>1, <2>2, <2>3
<1> QED BY <1>4, <1>5, <1>6, <1>7, <1>9 DEF nc, nd, occ

\* Whether a way of the bundle goes to the entry i steps from the head.
LEMMA WayGoesTo ==
  ASSUME TypeOK, WindowAccounting, NEW i \in 0..(ROBSZ - 1), NEW k \in Dispatched
  PROVE  Slot(tail, k) = Slot(head, i) <=> i = Occupied + k
<1>1. Occupied \in 0..ROBSZ /\ Occupied + num_dispatched \in 0..(ROBSZ - WAYS) /\ num_dispatched \in 0..WAYS
  BY OccupiedBound
<1>2. k \in 0..(num_dispatched - 1)
  BY NumDispatched
<1>3. k \in 0..WAYS /\ Occupied + k \in 0..(ROBSZ - 1)
  BY <1>1, <1>2, Sizes
<1>4. Slot(tail, k) = Slot(head, Occupied + k)
  BY <1>3, TailSlot
<1>5. head \in Idx
  BY DEF TypeOK
<1> QED BY <1>3, <1>4, <1>5, SlotInjective

\* Whether the entry i steps from the head commits.
LEMMA CommitsAt ==
  ASSUME TypeOK, NEW i \in 0..(ROBSZ - 1)
  PROVE  (\E j \in 0..(num_committed - 1) : Slot(head, j) = Slot(head, i)) <=> i < num_committed
<1>1. num_committed \in 0..WAYS /\ head \in Idx
  BY Committed DEF TypeOK
<1>2. ASSUME NEW j \in 0..(num_committed - 1), Slot(head, j) = Slot(head, i) PROVE i < num_committed
  <2>1. j \in 0..(ROBSZ - 1)
    BY <1>1, Sizes
  <2>2. j = i
    BY <1>1, <1>2, <2>1, SlotInjective
  <2> QED BY <1>1, <2>2
<1>3. ASSUME i < num_committed
      PROVE  \E j \in 0..(num_committed - 1) : Slot(head, j) = Slot(head, i)
  BY <1>1, <1>3
<1> QED BY <1>2, <1>3

\* An entry that stays changes only by its broadcast.
LEMMA StayingEntry ==
  ASSUME IInv, NEW cdb \in SUBSET executing, NEW wrong,
         NEW i \in num_committed..(Occupied - 1)
  PROVE  LET s == Slot(head, i)
             old == entries[s]
             new == NextEntry(s, cdb, wrong)
         IN  /\ s \in cdb /\ old # Blank =>
                  new.kind = old.kind /\ new.done /\ (new.mispredicted => old.kind = "branch")
             /\ ~ (s \in cdb /\ old # Blank) => new = old
<1> DEFINE s == Slot(head, i)
           old == entries[s]
           new == NextEntry(s, cdb, wrong)
<1>1. Occupied \in 0..ROBSZ /\ num_committed \in 0..WAYS /\ num_dispatched \in 0..WAYS
  BY OccupiedBound, Committed DEF IInv
<1>2. i \in 0..(ROBSZ - 1) /\ ~ (i < num_committed)
  BY <1>1, Sizes
<1>3. {k \in Dispatched : Slot(tail, k) = s} = {}
  <2> SUFFICES ASSUME NEW k \in Dispatched PROVE Slot(tail, k) # s
    OBVIOUS
  <2>1. k \in 0..(num_dispatched - 1)
    BY NumDispatched
  <2>2. i # Occupied + k
    BY <1>1, <2>1
  <2> QED BY <1>2, <2>2, WayGoesTo DEF IInv
<1>4. ~ \E j \in 0..(num_committed - 1) : Slot(head, j) = s
  BY <1>2, CommitsAt DEF IInv
<1>5. CASE s \in cdb /\ old # Blank
  <2> DEFINE m == old.kind = "branch" /\ s \in wrong
  <2>1. new = [old EXCEPT !.done = TRUE, !.mispredicted = m]
    BY <1>3, <1>5, Zenon DEF NextEntry
  <2>2. old \in Entry
    BY <1>2, SlotIs, Sizes DEF IInv, TypeOK
  <2>3. m = TRUE => old.kind = "branch"
    OBVIOUS
  <2>4. m \in BOOLEAN
    OBVIOUS
  <2> HIDE DEF m, new, old
  <2>5. new.kind = old.kind /\ new.done = TRUE /\ new.mispredicted = m
    BY <2>1, <2>2 DEF Entry
  <2> QED BY <1>5, <2>3, <2>4, <2>5, Zenon DEF new, old
<1>6. CASE ~ (s \in cdb /\ old # Blank)
  BY <1>3, <1>4, <1>6, Zenon DEF NextEntry
<1> QED BY <1>5, <1>6, Zenon

\* An entry that leaves is not done any more, and nothing names it.
LEMMA LeavingEntry ==
  ASSUME IInv, NEW cdb \in SUBSET executing, NEW wrong,
         NEW i \in 0..(num_committed - 1)
  PROVE  ~ NextEntry(Slot(head, i), cdb, wrong).done /\ Slot(head, i) \notin executing
<1> DEFINE s == Slot(head, i)
<1>1. Occupied \in 0..ROBSZ /\ num_committed \in 0..WAYS /\ num_committed <= Occupied
  BY OccupiedBound, Committed, CommitsFromWindow DEF IInv
<1>2. i \in 0..(ROBSZ - 1) /\ i < num_committed
  BY <1>1, Sizes
<1>3. s \notin executing /\ s \notin cdb
  <2>1. entries[s].done
    BY Committed DEF MayCommit, AtHead
  <2> QED BY <2>1 DEF IInv, Unfinished
<1>4. \E j \in 0..(num_committed - 1) : Slot(head, j) = s
  BY <1>2, CommitsAt DEF IInv
<1>5. s \in Idx
  BY <1>2, SlotIs, Sizes DEF IInv, TypeOK
<1>6. \A k \in Dispatched : NewEntry(k) = [kind |-> id_ex[k], done |-> FALSE, mispredicted |-> FALSE]
  BY DEF NewEntry
<1> DEFINE way == {k \in Dispatched : Slot(tail, k) = s}
           new == IF way = {} THEN entries[s] ELSE NewEntry(CHOOSE k \in way : TRUE)
<1>7. NextEntry(s, cdb, wrong) = [new EXCEPT !.done = FALSE]
  BY <1>3, <1>4 DEF NextEntry
<1>8. CASE way = {}
  <2>1. new = entries[s]
    BY <1>8
  <2>2. entries[s] \in Entry
    BY <1>5 DEF IInv, TypeOK
  <2> HIDE DEF new, s
  <2>3. ~ [new EXCEPT !.done = FALSE].done
    BY <2>1, <2>2 DEF Entry
  <2> QED BY <1>3, <1>7, <2>3 DEF s
<1>9. CASE way # {}
  <2>1. new = NewEntry(CHOOSE k \in way : TRUE)
    BY <1>9
  <2>2. PICK k \in Dispatched : new = NewEntry(k)
    BY <1>9, <2>1
  <2> HIDE DEF new
  <2> QED BY <1>3, <1>7, <2>2 DEF NewEntry
<1> QED BY <1>8, <1>9

\* Outside the window an entry becomes the instruction that comes, if any.
LEMMA ComingEntry ==
  ASSUME IInv, NEW cdb \in SUBSET executing, NEW wrong,
         NEW i \in Occupied..(ROBSZ - 1)
  PROVE  /\ ~ NextEntry(Slot(head, i), cdb, wrong).done
         /\ Slot(head, i) \notin cdb
         /\ i - Occupied \in Dispatched => NextEntry(Slot(head, i), cdb, wrong) = NewEntry(i - Occupied)
<1> DEFINE s == Slot(head, i)
           way == {k \in Dispatched : Slot(tail, k) = s}
<1>1. Occupied \in 0..ROBSZ /\ num_committed \in 0..WAYS /\ num_committed <= Occupied
  BY OccupiedBound, Committed, CommitsFromWindow DEF IInv
<1>2. i \in 0..(ROBSZ - 1) /\ ~ (i < num_committed) /\ ~ (i < Occupied)
  BY <1>1, Sizes
<1>3. s \notin Window
  BY <1>2, InWindow DEF IInv
<1>4. s \notin cdb
  BY <1>3 DEF IInv, Unfinished
<1>5. ~ \E j \in 0..(num_committed - 1) : Slot(head, j) = s
  BY <1>2, CommitsAt DEF IInv
<1>6. NextEntry(s, cdb, wrong) = IF way = {} THEN entries[s] ELSE NewEntry(CHOOSE k \in way : TRUE)
  BY <1>4, <1>5 DEF NextEntry
<1>7. \A k \in Dispatched : k \in way <=> i = Occupied + k
  BY <1>2, WayGoesTo DEF IInv
<1>8. ASSUME NEW k \in way PROVE k = i - Occupied
  <2>1. k \in Int
    BY Sizes DEF Dispatched, Ways
  <2> QED BY <1>1, <1>2, <1>7, <2>1
<1>9. CASE i - Occupied \in Dispatched
  <2>1. i - Occupied \in way
    BY <1>1, <1>2, <1>7, <1>9
  <2>2. way # {} /\ (CHOOSE k \in way : TRUE) = i - Occupied
    BY <1>8, <2>1
  <2>3. NextEntry(s, cdb, wrong) = NewEntry(i - Occupied)
    BY <1>6, <2>2
  <2> QED BY <1>4, <2>3 DEF NewEntry
<1>10. CASE i - Occupied \notin Dispatched
  <2>1. way = {}
    BY <1>8, <1>10
  <2>2. s \in Idx
    BY <1>2, SlotIs, Sizes DEF IInv, TypeOK
  <2>3. ~ entries[s].done
    BY <1>3, <2>2 DEF IInv, OnlyWindowDone
  <2> QED BY <1>4, <1>6, <1>10, <2>1, <2>3
<1> QED BY <1>9, <1>10

\* What fetch and decode hand over.
LEMMA BundleIs ==
  ASSUME NEW b \in Bundles \cup {NoBundle}
  PROVE  /\ b \in [Ways -> Kinds \cup {"bubble"}]
         /\ Words \subseteq Kinds =>
              \A i, j \in Ways : i < j /\ b[j] # "bubble" => b[i] # "bubble"
<1>1. CASE b = NoBundle
  BY <1>1 DEF NoBundle
<1>2. CASE b \in Bundles
  <2>1. PICK words \in [Ways -> Words] :
               \E taken \in SUBSET {i \in Ways : words[i] = "branch"} : b = Decode(words, taken)
    BY <1>2 DEF Bundles
  <2>10. PICK taken \in SUBSET {i \in Ways : words[i] = "branch"} : b = Decode(words, taken)
    BY <2>1
  <2>2. b = [i \in Ways |-> IF words[i] \in NotInstructions \/ \E k \in taken : k < i
                            THEN "bubble" ELSE words[i]]
    BY <2>10 DEF Decode
  <2>3. ASSUME NEW i \in Ways PROVE b[i] \in Kinds \cup {"bubble"}
    BY <2>2, SizesAssumption
  <2>4. ASSUME Words \subseteq Kinds, NEW i \in Ways, NEW j \in Ways, i < j, b[j] # "bubble"
        PROVE  b[i] # "bubble"
    <3>1. ~ \E k \in taken : k < j
      BY <2>2, <2>4
    <3>2. i \in Int /\ j \in Int /\ \A k \in taken : k \in Int
      BY Sizes DEF Ways
    <3>3. ~ \E k \in taken : k < i
      BY <2>4, <3>1, <3>2
    <3>4. words[i] \in Kinds
      BY <2>4
    <3>5. words[i] \notin NotInstructions /\ words[i] # "bubble"
      BY <3>4 DEF Kinds, NotInstructions
    <3>6. b[i] = words[i]
      BY <2>2, <3>3, <3>5
    <3> QED BY <3>5, <3>6
  <2> QED BY <2>2, <2>3, <2>4
<1> QED BY <1>1, <1>2

\* The invariant survives an edge that drops nothing.
LEMMA ClockKeeps ==
  ASSUME IInv, NEW cdb \in Bus, NEW wrong, NEW fetched \in Bundles \cup {NoBundle},
         Clock(cdb, wrong, fetched)
  PROVE  IInv'
<1> DEFINE nc == num_committed
           nd == num_dispatched
           occ == Occupied
<1> USE Sizes
<1>0. cdb \in SUBSET executing
  BY DEF Bus
<1>1. /\ nc \in 0..WAYS /\ nc <= occ
      /\ nd \in 0..WAYS
      /\ occ \in 0..ROBSZ
      /\ occ + nd \in 0..(ROBSZ - WAYS)
      /\ head \in Idx
      /\ \A i \in Dispatched : i \in 0..(nd - 1)
      /\ ValidPrefix => Dispatched = 0..(nd - 1)
  BY Committed, CommitsFromWindow, OccupiedBound, NumDispatched DEF IInv, TypeOK
<1>2. /\ head' \in Idx
      /\ Occupied' = occ - nc + nd
      /\ Occupied' \in 0..(ROBSZ - WAYS)
      /\ \A i \in 0..(ROBSZ - WAYS) : Slot(head, nc + i) = Slot(head', i)
      /\ tail' = Slot(head', Occupied')
  BY NextWindow
<1>3. /\ entries' = [s \in Idx |-> NextEntry(s, cdb, wrong)]
      /\ num_free' = num_free - nd + nc
      /\ id_ex' = fetched
      /\ rob_idx' = IF rob_is_full THEN 0 ELSE tail'
      /\ executing' = (executing \ cdb) \cup {Slot(rob_idx, i) : i \in Dispatched}
      /\ halted' = halt_out
      /\ rob_is_full => fetched = NoBundle
      /\ rob_is_full <=> num_free' < 2 * WAYS
  BY DEF Clock, latched_idx, rob_is_full, next_num_free
<1> HIDE DEF nc, nd, occ
<1>21. Occupied' = ROBSZ - num_free'
  BY DEF Occupied
<1>22. num_free' \in WAYS..ROBSZ
  <2>1. num_free \in Int
    BY DEF IInv, TypeOK
  <2>2. num_free' \in Int
    BY <1>1, <1>3, <2>1
  <2>3. 0 <= ROBSZ - num_free' /\ ROBSZ - num_free' <= ROBSZ - WAYS
    BY <1>2, <1>21
  <2>4. WAYS \in Int /\ ROBSZ \in Int
    OBVIOUS
  <2>5. \A f \in Int : 0 <= ROBSZ - f /\ ROBSZ - f <= ROBSZ - WAYS => f \in WAYS..ROBSZ
    BY <2>4
  <2> QED BY <2>2, <2>3, <2>5
<1>4. TypeOK'
  <2>1. ASSUME NEW s \in Idx PROVE NextEntry(s, cdb, wrong) \in Entry
    <3> DEFINE way == {k \in Dispatched : Slot(tail, k) = s}
               new == IF way = {} THEN entries[s] ELSE NewEntry(CHOOSE k \in way : TRUE)
    <3>1. new \in Entry
      <4>1. CASE way = {}
        BY <4>1 DEF IInv, TypeOK
      <4>2. CASE way # {}
        <5>1. PICK k \in Dispatched : new = NewEntry(k)
          BY <4>2
        <5>2. id_ex[k] \in Kinds
          BY DEF IInv, TypeOK, Dispatched, Valid
        <5> HIDE DEF new
        <5>3. NewEntry(k) \in Entry
          BY <5>2 DEF NewEntry, Entry
        <5> QED BY <5>1, <5>3
      <4> QED BY <4>1, <4>2
    <3>2. \/ NextEntry(s, cdb, wrong) = [new EXCEPT !.done = TRUE,
                !.mispredicted = entries[s].kind = "branch" /\ s \in wrong]
          \/ NextEntry(s, cdb, wrong) = [new EXCEPT !.done = FALSE]
          \/ NextEntry(s, cdb, wrong) = new
      BY Zenon DEF NextEntry
    <3> HIDE DEF new
    <3> DEFINE m == entries[s].kind = "branch" /\ s \in wrong
    <3>3. m \in BOOLEAN
      OBVIOUS
    <3>4. \/ NextEntry(s, cdb, wrong) = [new EXCEPT !.done = TRUE, !.mispredicted = m]
          \/ NextEntry(s, cdb, wrong) = [new EXCEPT !.done = FALSE]
          \/ NextEntry(s, cdb, wrong) = new
      BY <3>2
    <3> HIDE DEF m
    <3> QED BY <3>1, <3>3, <3>4 DEF Entry
  <2>2. entries' \in [Idx -> Entry]
    BY <1>3, <2>1
  <2>3. num_free' \in 0..ROBSZ
    BY <1>22
  <2>4. tail' \in Idx
    BY <1>2, SlotIs
  <2>5. id_ex' \in [Ways -> Kinds \cup {"bubble"}]
    BY <1>3, BundleIs
  <2>6. rob_idx' \in Idx
    BY <1>3, <2>4 DEF Idx
  <2>7. executing' \in SUBSET Idx
    <3>1. \A i \in Dispatched : Slot(rob_idx, i) \in Idx
      BY <1>1, SlotIs DEF IInv, TypeOK
    <3> QED BY <1>3, <3>1 DEF IInv, TypeOK
  <2>8. halted' \in BOOLEAN
    BY <1>3 DEF halt_out
  <2> QED BY <1>2, <2>2, <2>3, <2>4, <2>5, <2>6, <2>7, <2>8 DEF TypeOK
<1>5. WindowAccounting'
  <2>1. num_dispatched' \in 0..WAYS /\ (Dispatched' = {} => num_dispatched' = 0)
    <3>1. ASSUME Dispatched' = {} PROVE num_dispatched' = 0
      BY <3>1 DEF num_dispatched, Dispatched
    <3> QED BY <3>1, NumDispatchedNext
  <2>2. rob_is_full => Dispatched' = {}
    BY <1>3 DEF Dispatched, Valid, NoBundle
  <2>3. num_free' - num_dispatched' >= WAYS
    <3>1. num_free' \in 0..ROBSZ /\ num_free' >= WAYS
      BY <1>22
    <3> QED BY <1>3, <2>1, <2>2, <3>1
  <2> QED BY <1>2, <2>3 DEF WindowAccounting
\* Where an entry of the ring is, seen from the old and the new head.
<1>6. ASSUME NEW s \in Idx
      PROVE  \E i \in 0..(ROBSZ - 1) :
               /\ s = Slot(head, i)
               /\ s \in Window' <=> nc <= i /\ i < occ + nd
  <2>1. PICK i \in 0..(ROBSZ - 1) : s = Slot(head, i)
    BY <1>1, SlotOnto
  <2>2. CASE nc <= i /\ i < occ + nd
    <3>1. i - nc \in 0..(Occupied' - 1) /\ i - nc \in 0..(ROBSZ - WAYS)
      BY <1>1, <1>2, <2>2
    <3>2. s = Slot(head', i - nc)
      BY <1>1, <1>2, <2>1, <3>1
    <3>3. s \in Window'
      BY <3>1, <3>2 DEF Window
    <3> QED BY <2>1, <2>2, <3>3
  <2>3. CASE ~ (nc <= i /\ i < occ + nd)
    <3>1. ASSUME s \in Window' PROVE FALSE
      <4>1. PICK j \in 0..(Occupied' - 1) : s = Slot(head', j)
        BY <3>1 DEF Window
      <4>2. j \in 0..(ROBSZ - WAYS) /\ nc + j \in 0..(ROBSZ - 1)
        BY <1>1, <1>2
      <4>3. s = Slot(head, nc + j)
        BY <1>2, <4>1, <4>2
      <4>4. i = nc + j
        BY <1>1, <2>1, <4>2, <4>3, SlotInjective
      <4> QED BY <1>1, <1>2, <2>3, <4>4
    <3> QED BY <2>1, <2>3, <3>1
  <2> QED BY <2>2, <2>3
\* What becomes of the entries, by their distance from the head.
<1>7. ASSUME NEW i \in 0..(nc - 1)
      PROVE  ~ entries'[Slot(head, i)].done /\ Slot(head, i) \notin executing
  <2>1. Slot(head, i) \in Idx
    BY <1>1, SlotIs
  <2> QED BY <1>0, <1>3, <2>1, LeavingEntry DEF nc
<1>8. ASSUME NEW i \in nc..(occ - 1), NEW s, s = Slot(head, i)
      PROVE  /\ s \in Window
             /\ entries'[s].kind = entries[s].kind
             /\ s \in cdb /\ entries[s] # Blank => entries'[s].done
             /\ s \in executing \ cdb => ~ entries'[s].done
             /\ s \notin cdb => entries'[s] = entries[s]
  <2>1. i \in 0..ROBSZ /\ i \in 0..(ROBSZ - 1) /\ i < occ
    BY <1>1
  <2>2. s \in Idx /\ s \in Window
    BY <1>1, <1>8, <2>1, SlotIs, InWindow DEF IInv, occ
  <2>3. entries'[s] = NextEntry(s, cdb, wrong) /\ i \in num_committed..(Occupied - 1)
    BY <1>3, <2>2 DEF nc, occ
  <2>8. entries'[s] = NextEntry(Slot(head, i), cdb, wrong)
    BY <1>8, <2>3
  <2>4. entries[s] \in Entry
    BY <2>2 DEF IInv, TypeOK
  <2>5. s \in executing => ~ entries[s].done
    BY DEF IInv, Unfinished
  <2>6. CASE s \in cdb /\ entries[s] # Blank
    <3>2. entries'[s].kind = entries[s].kind /\ entries'[s].done
      BY <1>0, <1>8, <2>3, <2>6, <2>8, StayingEntry
    <3> QED BY <2>2, <2>6, <3>2
  <2>7. CASE ~ (s \in cdb /\ entries[s] # Blank)
    <3>1. entries'[s] = entries[s]
      BY <1>0, <1>8, <2>3, <2>7, <2>8, StayingEntry
    <3> QED BY <2>2, <2>5, <2>7, <3>1
  <2> QED BY <2>6, <2>7
<1>9. ASSUME NEW i \in occ..(ROBSZ - 1)
      PROVE  LET s == Slot(head, i)
             IN  /\ ~ entries'[s].done
                 /\ s \notin executing
                 /\ i - occ \in Dispatched => entries'[s] = NewEntry(i - occ)
  <2>1. i \in 0..ROBSZ /\ i \in 0..(ROBSZ - 1) /\ ~ (i < occ)
    BY <1>1
  <2>2. Slot(head, i) \in Idx /\ Slot(head, i) \notin Window
    BY <1>1, <2>1, SlotIs, InWindow DEF IInv, occ
  <2>3. Slot(head, i) \notin executing
    BY <2>2 DEF IInv, Unfinished
  <2> QED BY <1>0, <1>3, <2>2, <2>3, ComingEntry DEF occ
<1>10. OnlyWindowDone'
  <2> SUFFICES ASSUME NEW s \in Idx, s \notin Window' PROVE ~ entries'[s].done
    BY DEF OnlyWindowDone
  <2>1. PICK i \in 0..(ROBSZ - 1) : s = Slot(head, i) /\ ~ (nc <= i /\ i < occ + nd)
    BY <1>6
  <2>2. i \in 0..(nc - 1) \/ i \in occ..(ROBSZ - 1)
    BY <1>1, <2>1
  <2> QED BY <1>7, <1>9, <2>1, <2>2
\* The dispatched instructions are the entries behind the old window.
<1>11. ASSUME NEW k \in Dispatched
       PROVE  /\ occ + k \in occ..(occ + nd - 1)
              /\ occ + k \in occ..(ROBSZ - 1)
              /\ Slot(rob_idx, k) = Slot(head, occ + k)
  <2>1. k \in 0..(nd - 1) /\ k \in 0..WAYS
    BY <1>1
  <2>2. Slot(rob_idx, k) = Slot(tail, k)
    BY DEF IInv
  <2>3. Slot(tail, k) = Slot(head, occ + k)
    BY <2>1, TailSlot DEF IInv, occ
  <2> QED BY <1>1, <2>1, <2>2, <2>3
<1>12. executing' \subseteq Unfinished'
  <2>1. ASSUME NEW s \in executing \ cdb PROVE s \in Window' /\ ~ entries'[s].done
    <3>1. s \in Idx
      BY DEF IInv, TypeOK
    <3>2. PICK i \in 0..(ROBSZ - 1) : s = Slot(head, i) /\ (s \in Window' <=> nc <= i /\ i < occ + nd)
      BY <1>6, <3>1
    <3>3. i \in nc..(occ - 1)
      BY <1>1, <1>7, <1>9, <3>2
    <3>4. nc <= i /\ i < occ + nd
      BY <1>1, <3>3
    <3>5. ~ entries'[s].done
      BY <1>8, <2>1, <3>2, <3>3
    <3> QED BY <3>2, <3>4, <3>5
  <2>2. ASSUME NEW k \in Dispatched
        PROVE  Slot(rob_idx, k) \in Window' /\ ~ entries'[Slot(rob_idx, k)].done
    <3> DEFINE s == Slot(rob_idx, k)
    <3>1. s = Slot(head, occ + k) /\ occ + k \in 0..ROBSZ /\ occ + k \in 0..(ROBSZ - 1)
      BY <1>1, <1>11
    <3>2. s \in Idx
      BY <1>1, <3>1, SlotIs
    <3>3. PICK i \in 0..(ROBSZ - 1) : s = Slot(head, i) /\ (s \in Window' <=> nc <= i /\ i < occ + nd)
      BY <1>6, <3>2
    <3>4. i = occ + k
      BY <1>1, <3>1, <3>3, SlotInjective
    <3>5. s \in Window'
      BY <1>1, <1>11, <3>3, <3>4
    <3>6. ~ entries'[s].done
      BY <1>9, <1>11, <3>1
    <3> QED BY <3>5, <3>6
  <2> QED BY <1>3, <2>1, <2>2 DEF Unfinished
<1>13. Dispatched' # {} => rob_idx' = tail'
  <2>1. rob_is_full => Dispatched' = {}
    BY <1>3 DEF Dispatched, Valid, NoBundle
  <2> QED BY <1>3, <2>1
<1>14. Words \subseteq Kinds => NoGaps'
  <2> SUFFICES ASSUME Words \subseteq Kinds PROVE NoGaps'
    OBVIOUS
  <2>1. NoGaps /\ Dispatched = 0..(nd - 1)
    BY <1>1 DEF IInv, NoGaps
  <2>2. ValidPrefix'
    <3>1. \A i, j \in Ways : i < j /\ fetched[j] # "bubble" => fetched[i] # "bubble"
      BY BundleIs
    <3> QED BY <1>3, <3>1 DEF ValidPrefix, Valid
  <2>3. ASSUME NEW s \in Window'
        PROVE  entries'[s].kind \in Kinds /\ (~ entries'[s].done => s \in executing')
    <3>1. s \in Idx
      <4>1. PICK j \in 0..(Occupied' - 1) : s = Slot(head', j)
        BY DEF Window
      <4>2. j \in 0..ROBSZ
        BY <1>2
      <4> QED BY <1>2, <4>1, <4>2, SlotIs
    <3>2. PICK i \in 0..(ROBSZ - 1) : s = Slot(head, i) /\ nc <= i /\ i < occ + nd
      BY <1>6, <3>1
    <3>3. CASE i \in nc..(occ - 1)
      <4>1. /\ s \in Window
            /\ entries'[s].kind = entries[s].kind
            /\ s \in cdb /\ entries[s] # Blank => entries'[s].done
            /\ s \notin cdb => entries'[s] = entries[s]
        BY <1>8, <3>2, <3>3
      <4>2. entries[s].kind \in Kinds /\ (~ entries[s].done => s \in executing)
        BY <2>1, <4>1 DEF NoGaps, Unfinished
      <4>3. entries[s] # Blank
        BY <4>2 DEF Blank, Kinds
      <4>4. ~ entries'[s].done => s \in executing \ cdb
        BY <4>1, <4>2, <4>3
      <4> QED BY <1>3, <4>1, <4>2, <4>4
    <3>4. CASE i \in occ..(ROBSZ - 1)
      <4>1. i - occ \in Dispatched
        BY <1>1, <2>1, <3>2, <3>4
      <4>2. entries'[s] = NewEntry(i - occ)
        BY <1>9, <3>2, <3>4, <4>1
      <4>3. id_ex[i - occ] \in Kinds
        BY <4>1 DEF IInv, TypeOK, Dispatched, Valid
      <4>4. Slot(rob_idx, i - occ) = s
        <5>1. occ + (i - occ) = i
          BY <1>1, <3>2
        <5> QED BY <1>11, <3>2, <4>1, <5>1
      <4> QED BY <1>3, <4>1, <4>2, <4>3, <4>4 DEF NewEntry
    <3> QED BY <1>1, <3>2, <3>3, <3>4
  <2> QED BY <2>2, <2>3 DEF NoGaps, Unfinished
<1> QED BY <1>4, <1>5, <1>10, <1>12, <1>13, <1>14 DEF IInv

\* Reset establishes the invariant.
LEMMA InitHolds == Init => IInv
<1> SUFFICES ASSUME Init PROVE IInv
  OBVIOUS
<1> USE Sizes
<1>1. Dispatched = {}
  BY DEF Init, Dispatched, Valid, NoBundle
<1>2. Occupied = 0 /\ 0 \in Idx /\ Window = {}
  BY DEF Init, Occupied, Window, Idx
<1>3. num_dispatched = 0
  BY <1>1 DEF num_dispatched, Dispatched
<1>4. TypeOK
  <2>1. Blank \in Entry
    BY DEF Blank, Entry
  <2>2. num_free \in 0..ROBSZ
    BY DEF Init
  <2> QED BY <1>2, <2>1, <2>2 DEF Init, TypeOK, NoBundle
<1>5. WindowAccounting
  <2>1. Slot(0, 0) = 0
    BY <1>2, SlotIs
  <2> QED BY <1>2, <1>3, <2>1 DEF Init, WindowAccounting
<1>6. OnlyWindowDone
  BY DEF Init, OnlyWindowDone, Blank
<1>7. NoGaps
  BY <1>2 DEF Init, NoGaps, ValidPrefix, Valid, NoBundle, Unfinished
<1> QED BY <1>1, <1>4, <1>5, <1>6, <1>7 DEF IInv, Init

\* Recovery empties everything.
LEMMA NukeResets ==
  ASSUME IInv, Nuke
  PROVE  IInv' /\ Occupied' = 0
<1> USE Sizes
<1>1. Dispatched' = {}
  BY DEF Nuke, Dispatched, Valid, NoBundle
<1>2. Occupied' = 0 /\ 0 \in Idx /\ Window' = {}
  BY DEF Nuke, Occupied, Window, Idx
<1>3. num_dispatched' = 0
  BY <1>1 DEF num_dispatched, Dispatched
<1>4. TypeOK'
  <2>1. Blank \in Entry
    BY DEF Blank, Entry
  <2>2. num_free' \in 0..ROBSZ
    BY DEF Nuke
  <2>3. halted' \in BOOLEAN
    BY DEF Nuke, IInv, TypeOK
  <2> QED BY <1>2, <2>1, <2>2, <2>3 DEF Nuke, TypeOK, NoBundle
<1>5. WindowAccounting'
  <2>1. Slot(0, 0) = 0
    BY <1>2, SlotIs
  <2> QED BY <1>2, <1>3, <2>1 DEF Nuke, WindowAccounting
<1>6. OnlyWindowDone'
  BY DEF Nuke, OnlyWindowDone, Blank
<1>7. NoGaps'
  BY <1>2 DEF Nuke, NoGaps, ValidPrefix, Valid, NoBundle, Unfinished
<1> QED BY <1>1, <1>2, <1>4, <1>5, <1>6, <1>7 DEF IInv, Nuke

\* Nothing changes when the simulation has ended.
LEMMA StutterKeeps ==
  ASSUME IInv, UNCHANGED vars
  PROVE  IInv' /\ Queue' = Queue
<1>1. IInv'
  BY DEF vars, IInv, TypeOK, WindowAccounting, OnlyWindowDone, NoGaps, ValidPrefix, Unfinished,
         Window, Occupied, Dispatched, Valid, num_dispatched
<1>2. Queue' = Queue
  BY DEF vars, Queue, Occupied
<1> QED BY <1>1, <1>2

\* Every step keeps the invariant.
LEMMA NextKeeps == IInv /\ [Next]_vars => IInv'
<1> SUFFICES ASSUME IInv, [Next]_vars PROVE IInv'
  OBVIOUS
<1>1. CASE Nuke
  BY <1>1, NukeResets
<1>2. ASSUME NEW cdb \in Bus, NEW fetched \in Bundles \cup {NoBundle},
             NEW wrong \in SUBSET (cdb \cap Branches), Clock(cdb, wrong, fetched)
      PROVE  IInv'
  BY <1>2, ClockKeeps
<1>3. CASE Halted \/ UNCHANGED vars
  BY <1>3, StutterKeeps DEF Halted
<1> QED BY <1>1, <1>2, <1>3 DEF Next

\* The invariant always holds.
LEMMA Invariant == Spec => []IInv
BY InitHolds, NextKeeps, PTL DEF Spec

\* The registers of the reorder buffer keep their types, whatever the program.
THEOREM TypeCorrect == Spec => []TypeOK
<1>1. IInv => TypeOK
  BY DEF IInv
<1> QED BY Invariant, <1>1, PTL

\* Head, tail and count agree, and there is always room for another bundle
\* behind the one in the ID/EX register, whatever the program.
THEOREM CountersAgree == Spec => []WindowAccounting
<1>1. IInv => WindowAccounting
  BY DEF IInv
<1> QED BY Invariant, <1>1, PTL

\* In a program whose words the decoder knows, the broadcasts to come name
\* exactly the unfinished entries of the window, whose done bits are the only
\* ones.
THEOREM BusRight == ASSUME Words \subseteq Kinds PROVE Spec => []BusMeetsWindow
<1>1. IInv => BusMeetsWindow
  BY DEF IInv, NoGaps, BusMeetsWindow, BusNamesWindow, Unfinished
<1> QED BY Invariant, <1>1, PTL

-----------------------------------------------------------------------------
(* The buffer is a queue. *)

\* The queue has the entries of the window, in order.
LEMMA QueueIs ==
  ASSUME IInv
  PROVE  /\ Occupied \in 0..(ROBSZ - WAYS)
         /\ Len(Queue) = Occupied
         /\ \A i \in 1..Occupied : Queue[i] = entries[Slot(head, i - 1)]
<1>1. Occupied \in 0..(ROBSZ - WAYS)
  BY OccupiedBound, Sizes DEF IInv
<1>2. Queue = [i \in 1..Occupied |-> entries[Slot(head, i - 1)]]
  BY DEF Queue
<1>3. Len(Queue) = Occupied
  BY <1>1, <1>2, Sizes
<1> QED BY <1>1, <1>2, <1>3

\* The committed entries are the front of the queue, which may leave.
LEMMA FrontLeaves ==
  ASSUME IInv
  PROVE  /\ num_committed \in 0..(IF Len(Queue) < WAYS THEN Len(Queue) ELSE WAYS)
         /\ InOrder!Leave(num_committed)
         /\ Queue # <<>> /\ Queue[1].done => num_committed > 0
         /\ proc_nuke <=> \E i \in 1..num_committed : Queue[i].kind = "branch" /\ Queue[i].mispredicted
<1> USE Sizes
<1> DEFINE nc == num_committed
<1>1. /\ Occupied \in 0..(ROBSZ - WAYS)
      /\ Len(Queue) = Occupied
      /\ \A i \in 1..Occupied : Queue[i] = entries[Slot(head, i - 1)]
  BY QueueIs
<1>2. nc \in 0..WAYS /\ nc <= Occupied
  BY Committed, CommitsFromWindow DEF IInv
<1>3. \A i \in 0..(nc - 1) : MayCommit(i) /\ Queue[i + 1] = AtHead(i)
  BY <1>1, <1>2, Committed DEF AtHead
<1> HIDE DEF nc
<1>4. ASSUME NEW i \in 1..nc
      PROVE  /\ i - 1 \in 0..(nc - 1)
             /\ MayCommit(i - 1)
             /\ Queue[i] = AtHead(i - 1)
  <2>1. i - 1 \in 0..(nc - 1) /\ (i - 1) + 1 = i
    BY <1>2
  <2> QED BY <1>3, <2>1
<1>5. InOrder!Leave(nc)
  <2>1. ASSUME NEW i \in 1..nc PROVE Queue[i].done
    BY <1>4 DEF MayCommit
  <2>2. ASSUME NEW i \in 1..nc, NEW j \in 1..nc, j < i, Queue[i].kind = "store"
        PROVE  Queue[j].kind # "store"
    <3>1. j - 1 \in 0..((i - 1) - 1)
      BY <1>2, <2>2
    <3> QED BY <1>4, <2>2, <3>1 DEF MayCommit
  <2>3. ASSUME NEW i \in 1..nc, NEW j \in 1..nc, Queue[i].kind = "store", Queue[j].kind = "store"
        PROVE  i = j
    BY <1>2, <2>2, <2>3
  <2>4. ASSUME NEW i \in 1..(nc - 1) PROVE ~ InOrder!Stops(Queue[i])
    <3>1. i - 1 \in 0..((nc - 1) - 1) /\ nc \in 1..nc /\ i \in 1..nc
      BY <1>2
    <3>2. ~ Stops(AtHead(i - 1)) /\ Queue[i] = AtHead(i - 1)
      BY <1>4, <3>1 DEF MayCommit
    <3> QED BY <3>2 DEF Stops, InOrder!Stops
  <2> QED BY <2>1, <2>3, <2>4 DEF InOrder!Leave
<1>6. ASSUME Queue # <<>>, Queue[1].done PROVE nc > 0
  <2>1. Occupied > 0
    BY <1>1, <1>6 DEF Queue
  <2>2. Queue[1] = AtHead(0)
    BY <1>1, <2>1 DEF AtHead
  <2>3. MayCommit(0)
    BY <1>6, <2>2 DEF MayCommit
  <2> QED BY <2>3, Committed DEF nc
<1>7. proc_nuke <=> \E i \in 1..nc : Queue[i].kind = "branch" /\ Queue[i].mispredicted
  <2>1. ASSUME NEW i \in 0..(nc - 1), AtHead(i).kind = "branch" /\ AtHead(i).mispredicted
        PROVE  \E k \in 1..nc : Queue[k].kind = "branch" /\ Queue[k].mispredicted
    <3>1. i + 1 \in 1..nc
      BY <1>2
    <3> QED BY <1>3, <2>1, <3>1
  <2>2. ASSUME NEW i \in 1..nc, Queue[i].kind = "branch" /\ Queue[i].mispredicted
        PROVE  \E k \in 0..(nc - 1) : AtHead(k).kind = "branch" /\ AtHead(k).mispredicted
    BY <1>4, <2>2
  <2> QED BY <2>1, <2>2 DEF proc_nuke, nc
<1>8. nc \in 0..(IF Len(Queue) < WAYS THEN Len(Queue) ELSE WAYS)
  BY <1>1, <1>2
<1> QED BY <1>5, <1>6, <1>7, <1>8 DEF nc

\* Recovery empties the queue.
LEMMA NukeRefines ==
  ASSUME IInv, Nuke
  PROVE  InOrder!Next
<1>1. Queue' = <<>>
  <2>1. Occupied' = 0
    BY NukeResets
  <2> QED BY <2>1 DEF Queue
<1>2. proc_nuke
  BY DEF Nuke
<1>3. InOrder!Step(num_committed)
  BY <1>1, <1>2, FrontLeaves DEF InOrder!Step
<1> QED BY <1>3, FrontLeaves DEF InOrder!Next

\* Any other edge takes the committed instructions from its front and appends
\* the dispatched ones.
LEMMA ClockRefines ==
  ASSUME Words \subseteq Kinds, IInv, NEW cdb \in Bus, NEW wrong,
         NEW fetched \in Bundles \cup {NoBundle}, Clock(cdb, wrong, fetched)
  PROVE  InOrder!Next
<1> USE Sizes
<1> DEFINE nc == num_committed
           nd == num_dispatched
           occ == Occupied
<1>1. /\ occ \in 0..(ROBSZ - WAYS)
      /\ Len(Queue) = occ
      /\ \A i \in 1..occ : Queue[i] = entries[Slot(head, i - 1)]
  BY QueueIs
<1>2. /\ Occupied' = occ - nc + nd
      /\ Occupied' \in 0..(ROBSZ - WAYS)
      /\ \A i \in 0..(ROBSZ - WAYS) : Slot(head, nc + i) = Slot(head', i)
  BY NextWindow
<1>3. Queue' = [i \in 1..Occupied' |-> entries'[Slot(head', i - 1)]]
  BY DEF Queue
<1>4. /\ nc \in 0..WAYS /\ nc <= occ
      /\ nd \in 0..WAYS
      /\ occ + nd \in 0..(ROBSZ - WAYS)
      /\ Dispatched = 0..(nd - 1)
      /\ head \in Idx
  BY Committed, CommitsFromWindow, OccupiedBound, NumDispatched DEF IInv, NoGaps, TypeOK
<1>5. cdb \in SUBSET executing /\ entries' = [s \in Idx |-> NextEntry(s, cdb, wrong)] /\ ~ proc_nuke
  BY DEF Clock, Bus
<1> DEFINE rest == occ - nc
<1> HIDE DEF nc, nd, occ
<1>6. /\ Len(Queue') = Occupied'
      /\ Len(Queue') \in rest..(rest + WAYS)
      /\ Len(Queue') <= ROBSZ - WAYS
  <2>1. Occupied' \in Nat /\ Occupied' <= ROBSZ - WAYS
    BY <1>2
  <2>2. Len(Queue') = Occupied'
    BY <1>3, <2>1
  <2>3. Occupied' \in rest..(rest + WAYS)
    BY <1>1, <1>2, <1>4
  <2> QED BY <2>1, <2>2, <2>3
<1>7. ASSUME NEW i \in 1..Occupied'
      PROVE  /\ nc + (i - 1) \in 0..(ROBSZ - 1)
             /\ Slot(head, nc + (i - 1)) \in Idx
             /\ Queue'[i] = NextEntry(Slot(head, nc + (i - 1)), cdb, wrong)
  <2>1. i - 1 \in 0..(ROBSZ - WAYS) /\ nc + (i - 1) \in 0..(ROBSZ - 1) /\ nc + (i - 1) \in 0..ROBSZ
    BY <1>1, <1>2, <1>4
  <2>2. Slot(head, nc + (i - 1)) \in Idx /\ Slot(head, nc + (i - 1)) = Slot(head', i - 1)
    BY <1>2, <1>4, <2>1, SlotIs
  <2> QED BY <1>3, <1>5, <2>1, <2>2
<1>8. ASSUME NEW i \in 1..rest PROVE InOrder!Progresses(Queue[nc + i], Queue'[i])
  <2>1. /\ i \in 1..Occupied' /\ nc + i \in 1..occ
        /\ nc + (i - 1) \in nc..(occ - 1) /\ (nc + i) - 1 = nc + (i - 1)
    BY <1>1, <1>2, <1>4
  <2> DEFINE s == Slot(head, nc + (i - 1))
             old == entries[s]
             new == NextEntry(s, cdb, wrong)
  <2>2. Queue[nc + i] = old /\ Queue'[i] = new /\ s \in Idx
    BY <1>1, <1>7, <2>1
  <2>3. nc + (i - 1) \in num_committed..(Occupied - 1)
    BY <2>1 DEF nc, occ
  <2>4. /\ s \in cdb /\ old # Blank =>
             new.kind = old.kind /\ new.done /\ (new.mispredicted => old.kind = "branch")
        /\ ~ (s \in cdb /\ old # Blank) => new = old
    BY <1>5, <2>3, StayingEntry
  <2>5. s \in cdb => ~ old.done
    BY <1>5 DEF IInv, Unfinished
  <2>6. old \in Entry
    BY <2>2 DEF IInv, TypeOK
  <2>7. new \in Entry
    <3>1. TypeOK'
      BY ClockKeeps DEF IInv
    <3> QED BY <1>5, <2>2, <3>1 DEF TypeOK
  <2> HIDE DEF new, old, s
  <2>8. CASE s \in cdb /\ old # Blank
    <3>1. ~ old.done /\ new.kind = old.kind /\ new.done = TRUE /\ (new.mispredicted => old.kind = "branch")
      BY <2>4, <2>5, <2>7, <2>8 DEF Entry
    <3>2. new = [old EXCEPT !.done = TRUE, !.mispredicted = new.mispredicted]
      BY <2>6, <2>7, <3>1 DEF Entry
    <3> QED BY <2>2, <3>1, <3>2 DEF InOrder!Progresses
  <2>9. CASE ~ (s \in cdb /\ old # Blank)
    BY <2>2, <2>4, <2>9 DEF InOrder!Progresses
  <2> QED BY <2>8, <2>9
<1>9. ASSUME NEW i \in (rest + 1)..Occupied' PROVE Queue'[i] \in InOrder!Fresh
  <2>1. i \in 1..Occupied'
    BY <1>1, <1>2, <1>4
  <2> DEFINE d == nc + (i - 1)
  <2>2. d \in occ..(ROBSZ - 1) /\ d - occ \in Dispatched
    BY <1>1, <1>2, <1>4
  <2>3. Queue'[i] = NextEntry(Slot(head, d), cdb, wrong)
    BY <1>7, <2>1
  <2> HIDE DEF d
  <2>4. Queue'[i] = NewEntry(d - occ)
    BY <1>5, <2>2, <2>3, ComingEntry DEF occ
  <2>5. id_ex[d - occ] \in Kinds
    BY <2>2 DEF IInv, TypeOK, Dispatched, Valid
  <2> QED BY <2>4, <2>5 DEF NewEntry, InOrder!Fresh
<1>10. InOrder!Step(nc)
  <2>1. ~ \E i \in 1..nc : Queue[i].kind = "branch" /\ Queue[i].mispredicted
    BY <1>5, FrontLeaves DEF nc
  <2> QED BY <1>1, <1>6, <1>8, <1>9, <2>1, FrontLeaves DEF InOrder!Step, nc
<1> QED BY <1>10, FrontLeaves DEF InOrder!Next, nc

\* The reorder buffer implements a queue that commits in order: nothing leaves
\* before its turn, before it has finished, or behind a halt or a mispredicted
\* branch, in any program whose words the decoder knows.
THEOREM ImplementsQueue == ASSUME Words \subseteq Kinds PROVE Spec => InOrderSpec
<1>1. Init => InOrder!Init
  BY Sizes DEF Init, InOrder!Init, Queue, Occupied
<1>2. ASSUME IInv, [Next]_vars PROVE InOrder!Next \/ UNCHANGED Queue
  <2>1. CASE Nuke
    BY <1>2, <2>1, NukeRefines
  <2>2. ASSUME NEW cdb \in Bus, NEW fetched \in Bundles \cup {NoBundle},
               NEW wrong \in SUBSET (cdb \cap Branches), Clock(cdb, wrong, fetched)
        PROVE  InOrder!Next
    BY <1>2, <2>2, ClockRefines
  <2>3. CASE Halted \/ UNCHANGED vars
    BY <1>2, <2>3, StutterKeeps DEF Halted
  <2> QED BY <1>2, <2>1, <2>2, <2>3 DEF Next
<1>3. IInv /\ [Next]_vars => [InOrder!Next]_Queue
  BY <1>2
<1> QED BY Invariant, <1>1, <1>3, PTL DEF Spec, InOrderSpec, InOrder!Spec
=============================================================================
