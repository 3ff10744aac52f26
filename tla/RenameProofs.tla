---------------------------- MODULE RenameProofs ----------------------------
(***************************************************************************)
(* Proofs about Rename, for every number of registers, width and size.     *)
(*                                                                         *)
(* The main result is that renaming conserves the physical registers: each *)
(* is always in exactly one of three places, the retired map, the          *)
(* destination of one instruction in flight, or the free list.             *)
(***************************************************************************)
EXTENDS MCRename, NumberLemmas, FiniteSetTheorems, SequenceTheorems, TLAPS

-----------------------------------------------------------------------------
(* The chain of writes to a map. *)

\* The last writer exists when there is a writer.
LEMMA YoungestIsLast ==
  ASSUME NEW R, NEW s \in Seq(R), NEW a, Writers(s, a) # {}
  PROVE  /\ Youngest(s, a) \in Writers(s, a)
         /\ \A j \in Writers(s, a) : j <= Youngest(s, a)
<1>1. Writers(s, a) \in SUBSET Nat /\ \A j \in Writers(s, a) : j <= Len(s)
  BY LenProperties DEF Writers
<1>2. Len(s) \in Nat
  BY LenProperties
<1>3. \E i \in Writers(s, a) : \A j \in Writers(s, a) : j <= i
  BY <1>1, <1>2, GreatestNat
<1> QED BY <1>3 DEF Youngest

\* What the map holds for a after the writes of s, given the last writer.
LEMMA OverwriteAt ==
  ASSUME NEW R, NEW s \in Seq(R), NEW map, NEW a \in ARN, NEW i \in DOMAIN s,
         s[i].arn = a, \A j \in DOMAIN s : s[j].arn = a => j <= i
  PROVE  Overwrite(map, s)[a] = s[i].prn
<1>1. i \in Writers(s, a) /\ Writers(s, a) # {}
  BY DEF Writers
<1>2. Youngest(s, a) \in Writers(s, a) /\ i <= Youngest(s, a)
  BY <1>1, YoungestIsLast
<1>3. Youngest(s, a) \in DOMAIN s /\ Youngest(s, a) <= i
  BY <1>2 DEF Writers
<1>4. i = Youngest(s, a)
  BY <1>2, <1>3, LenProperties
<1> QED BY <1>1, <1>4 DEF Overwrite

\* A register that s does not write keeps its mapping.
LEMMA OverwriteKeeps ==
  ASSUME NEW s, NEW map, NEW a \in ARN, \A j \in DOMAIN s : s[j].arn # a
  PROVE  Overwrite(map, s)[a] = map[a]
BY DEF Overwrite, Writers

\* The converse: the mapping of a comes from its last writer, if it has one.
LEMMA OverwriteFrom ==
  ASSUME NEW R, NEW s \in Seq(R), NEW map, NEW a \in ARN
  PROVE  \/ /\ \A j \in DOMAIN s : s[j].arn # a
            /\ Overwrite(map, s)[a] = map[a]
         \/ \E i \in DOMAIN s :
              /\ s[i].arn = a
              /\ \A j \in DOMAIN s : s[j].arn = a => j <= i
              /\ Overwrite(map, s)[a] = s[i].prn
<1>1. CASE Writers(s, a) = {}
  BY <1>1 DEF Overwrite, Writers
<1>2. CASE Writers(s, a) # {}
  <2>1. /\ Youngest(s, a) \in Writers(s, a)
        /\ \A j \in Writers(s, a) : j <= Youngest(s, a)
    BY <1>2, YoungestIsLast
  <2>2. Overwrite(map, s)[a] = s[Youngest(s, a)].prn
    BY <1>2 DEF Overwrite
  <2> QED BY <2>1, <2>2 DEF Writers
<1> QED BY <1>1, <1>2

\* Writing registers of the file keeps a map a map.
LEMMA OverwriteType ==
  ASSUME NEW R, NEW s \in Seq(R), NEW map \in [ARN -> PRN],
         \A i \in DOMAIN s : s[i].arn \in ARN => s[i].prn \in PRN
  PROVE  Overwrite(map, s) \in [ARN -> PRN]
<1>1. ASSUME NEW a \in ARN PROVE Overwrite(map, s)[a] \in PRN
  BY OverwriteFrom
<1>2. Overwrite(map, s) = [a \in ARN |-> Overwrite(map, s)[a]]
  BY DEF Overwrite
<1> QED BY <1>1, <1>2

-----------------------------------------------------------------------------
(* Commit: what the retirement map and its free list become. *)

\* The k oldest instructions, one by one.
LEMMA OldestIs ==
  ASSUME inflight \in Seq(Instr), NEW k \in 0..Len(inflight)
  PROVE  /\ Oldest(k) \in Seq(Instr)
         /\ DOMAIN Oldest(k) = 1..k
         /\ \A i \in 1..k : Oldest(k)[i] = inflight[i]
         /\ 1..k \subseteq DOMAIN inflight
<1>1. Len(inflight) \in Nat /\ DOMAIN inflight = 1..Len(inflight)
  BY LenProperties
<1>2. \A i \in 1..k : inflight[i] \in Instr
  BY <1>1, ElementOfSeq
<1>3. /\ Oldest(k) \in Seq(Instr)
      /\ Len(Oldest(k)) = k
      /\ \A i \in 1..k : Oldest(k)[i] = inflight[i]
  BY <1>1, <1>2, SubSeqProperties DEF Oldest
<1> QED BY <1>1, <1>3, LenProperties

\* Where the retirement map gets the register of a from.
LEMMA RRATFrom ==
  ASSUME inflight \in Seq(Instr), NEW k \in 0..Len(inflight), NEW a \in ARN
  PROVE  \/ /\ \A j \in 1..k : inflight[j].arn # a
            /\ RRAT_next(k)[a] = RRAT[a]
         \/ \E i \in 1..k :
              /\ inflight[i].arn = a
              /\ \A j \in 1..k : inflight[j].arn = a => j <= i
              /\ RRAT_next(k)[a] = inflight[i].prn
<1> DEFINE s == Oldest(k)
<1>1. s \in Seq(Instr) /\ DOMAIN s = 1..k /\ \A i \in 1..k : s[i] = inflight[i]
  BY OldestIs
<1>2. RRAT_next(k) = Overwrite(RRAT, s)
  BY DEF RRAT_next
<1> HIDE DEF s
<1>3. \/ /\ \A j \in DOMAIN s : s[j].arn # a
         /\ Overwrite(RRAT, s)[a] = RRAT[a]
      \/ \E i \in DOMAIN s :
           /\ s[i].arn = a
           /\ \A j \in DOMAIN s : s[j].arn = a => j <= i
           /\ Overwrite(RRAT, s)[a] = s[i].prn
  BY <1>1, OverwriteFrom
<1> QED BY <1>1, <1>2, <1>3

\* The retirement map shows the register of the last committing writer of a
\* (the commit chain of RAT_RRAT.sv).
LEMMA RRATAt ==
  ASSUME inflight \in Seq(Instr), NEW k \in 0..Len(inflight), NEW a \in ARN,
         NEW i \in 1..k, inflight[i].arn = a,
         \A j \in 1..k : inflight[j].arn = a => j <= i
  PROVE  RRAT_next(k)[a] = inflight[i].prn
BY OldestIs, OverwriteAt DEF RRAT_next

\* An architectural register no committing instruction writes keeps its
\* retired register (RAT_RRAT.sv).
LEMMA RRATKeeps ==
  ASSUME inflight \in Seq(Instr), NEW k \in 0..Len(inflight), NEW a \in ARN,
         \A j \in 1..k : inflight[j].arn # a
  PROVE  RRAT_next(k)[a] = RRAT[a]
BY OldestIs, OverwriteKeeps DEF RRAT_next

\* The destination of every instruction in flight is a physical register.
HeldIsReal ==
  \A i \in DOMAIN inflight : inflight[i].arn \in ARN => inflight[i].prn \in PRN

\* What the lemmas about commit need of the state.
Conserved ==
  /\ inflight \in Seq(Instr)
  /\ RRAT \in [ARN -> PRN]
  /\ HeldIsReal
  /\ NoSharedRegister

\* The retirement map stays a map, and stays injective.
LEMMA RRATNextInjective ==
  ASSUME Conserved, NEW k \in 0..Len(inflight)
  PROVE  /\ RRAT_next(k) \in [ARN -> PRN]
         /\ \A a, b \in ARN : RRAT_next(k)[a] = RRAT_next(k)[b] => a = b
<1> USE DEF Conserved
<1>1. 1..k \subseteq DOMAIN inflight
  BY OldestIs
<1>2. RRAT_next(k) \in [ARN -> PRN]
  <2> DEFINE s == Oldest(k)
  <2>1. s \in Seq(Instr) /\ DOMAIN s = 1..k /\ \A i \in 1..k : s[i] = inflight[i]
    BY OldestIs
  <2>2. \A i \in DOMAIN s : s[i].arn \in ARN => s[i].prn \in PRN
    BY <1>1, <2>1 DEF HeldIsReal
  <2>3. RRAT_next(k) = Overwrite(RRAT, s)
    BY DEF RRAT_next
  <2> HIDE DEF s
  <2> QED BY <2>1, <2>2, <2>3, OverwriteType
<1>3. ASSUME NEW a \in ARN, NEW b \in ARN, RRAT_next(k)[a] = RRAT_next(k)[b]
      PROVE  a = b
  <2>1. \A i \in 1..k : inflight[i].arn \in ARN => inflight[i].prn \in Held
    BY <1>1 DEF Held
  <2>2. RRAT[a] \in Image(RRAT) /\ RRAT[b] \in Image(RRAT)
    BY DEF Image
  <2>3. Held \cap Image(RRAT) = {}
    BY DEF NoSharedRegister
  <2>4. \A i, j \in 1..k :
          inflight[i].arn \in ARN /\ inflight[j].arn \in ARN
            /\ inflight[i].prn = inflight[j].prn => i = j
    BY <1>1 DEF NoSharedRegister
  <2>5. RRAT[a] = RRAT[b] => a = b
    BY DEF NoSharedRegister
  <2>6. \/ RRAT_next(k)[a] = RRAT[a]
        \/ \E i \in 1..k : inflight[i].arn = a /\ RRAT_next(k)[a] = inflight[i].prn
    BY RRATFrom
  <2>7. \/ RRAT_next(k)[b] = RRAT[b]
        \/ \E i \in 1..k : inflight[i].arn = b /\ RRAT_next(k)[b] = inflight[i].prn
    BY RRATFrom
  <2> QED BY <1>3, <2>1, <2>2, <2>3, <2>4, <2>5, <2>6, <2>7
<1> QED BY <1>2, <1>3

\* A register a commit pushes out was in use, and is not used by the new map.
LEMMA LeavingLeaves ==
  ASSUME Conserved, NEW k \in 0..Len(inflight)
  PROVE  /\ Leaving(k) \subseteq Image(RRAT) \cup Entering(k)
         /\ Leaving(k) \cap Image(RRAT_next(k)) = {}
<1> USE DEF Conserved
<1> SUFFICES ASSUME NEW i \in Retiring(k)
             PROVE  /\ RRAT_PRF_old(i) \in Image(RRAT) \cup Entering(k)
                    /\ RRAT_PRF_old(i) \notin Image(RRAT_next(k))
  BY DEF Leaving
<1>1. Len(inflight) \in Nat /\ i \in 1..k /\ i - 1 \in 0..Len(inflight)
      /\ 1..(i - 1) \subseteq 1..k /\ 1..k \subseteq DOMAIN inflight
  BY LenProperties DEF Retiring
<1> DEFINE a == inflight[i].arn
<1>2. a \in ARN /\ RRAT_PRF_old(i) = RRAT_next(i - 1)[a]
  BY DEF Retiring, RRAT_PRF_old, RRAT_next
<1>3. \A j \in 1..k : inflight[j].arn \in ARN => j \in Retiring(k)
  BY DEF Retiring
<1>4. \A b \in ARN : RRAT[b] \in Image(RRAT)
  BY DEF Image
<1>5. \A j \in 1..k : inflight[j].arn \in ARN =>
        inflight[j].prn \in Entering(k) /\ inflight[j].prn \notin Image(RRAT)
  BY <1>1 DEF NoSharedRegister, Held, Entering, Retiring
<1>6. \/ RRAT_PRF_old(i) = RRAT[a]
      \/ \E j \in 1..(i - 1) : inflight[j].arn = a /\ RRAT_PRF_old(i) = inflight[j].prn
  <2> HIDE DEF a
  <2> QED BY <1>1, <1>2, RRATFrom
<1>7. RRAT_PRF_old(i) \in Image(RRAT) \cup Entering(k)
  BY <1>1, <1>2, <1>4, <1>5, <1>6
<1>8. ASSUME NEW b \in ARN, RRAT_next(k)[b] = RRAT_PRF_old(i)
      PROVE  FALSE
  <2>1. \/ /\ \A j \in 1..k : inflight[j].arn # b
           /\ RRAT_next(k)[b] = RRAT[b]
        \/ \E y \in 1..k :
             /\ inflight[y].arn = b
             /\ \A j \in 1..k : inflight[j].arn = b => j <= y
             /\ RRAT_next(k)[b] = inflight[y].prn
    BY RRATFrom
  <2>2. ASSUME \A j \in 1..k : inflight[j].arn # b, RRAT_next(k)[b] = RRAT[b]
        PROVE  FALSE
    <3>1. b # a
      BY <1>1, <2>2
    <3>2. RRAT_PRF_old(i) # RRAT[a]
      BY <3>1, <1>8, <2>2, <1>2 DEF NoSharedRegister
    <3>3. RRAT_PRF_old(i) \in Image(RRAT)
      BY <1>8, <2>2, <1>4
    <3> QED BY <3>2, <3>3, <1>6, <1>1, <1>2, <1>5
  <2>3. ASSUME NEW y \in 1..k, inflight[y].arn = b,
               \A j \in 1..k : inflight[j].arn = b => j <= y,
               RRAT_next(k)[b] = inflight[y].prn
        PROVE  FALSE
    <3>1. RRAT_PRF_old(i) \notin Image(RRAT)
      BY <1>5, <1>8, <2>3
    <3>2. PICK j \in 1..(i - 1) : inflight[j].arn = a /\ RRAT_PRF_old(i) = inflight[j].prn
      BY <3>1, <1>2, <1>4, <1>6
    <3>3. y = j
      BY <3>2, <1>1, <1>2, <1>8, <2>3 DEF NoSharedRegister
    <3>4. i <= y
      BY <3>2, <3>3, <1>1, <2>3
    <3> QED BY <3>3, <3>4, <3>2, <1>1
  <2> QED BY <2>1, <2>2, <2>3
<1>9. DOMAIN RRAT_next(k) = ARN
  BY RRATNextInjective
<1> QED BY <1>7, <1>8, <1>9 DEF Image

\* A register that was in use either stays in the new map or is pushed out:
\* by the first writer of its architectural register if it was in the map,
\* and by the next writer if its own instruction commits.
LEMMA StaysOrLeaves ==
  ASSUME Conserved, NEW k \in 0..Len(inflight)
  PROVE  Image(RRAT) \cup Entering(k) \subseteq Image(RRAT_next(k)) \cup Leaving(k)
<1> USE DEF Conserved
<1>1. Len(inflight) \in Nat /\ DOMAIN RRAT = ARN /\ DOMAIN RRAT_next(k) = ARN
  BY LenProperties, RRATNextInjective
<1>2. \A b \in ARN : RRAT_next(k)[b] \in Image(RRAT_next(k))
  BY <1>1 DEF Image
<1>3. \A i \in 1..k : inflight[i].arn \in ARN => RRAT_PRF_old(i) \in Leaving(k)
  BY DEF Leaving, Retiring
<1>4. \A i \in 1..k : RRAT_PRF_old(i) = RRAT_next(i - 1)[inflight[i].arn]
  BY DEF RRAT_PRF_old, RRAT_next
<1>5. ASSUME NEW a \in ARN
      PROVE  RRAT[a] \in Image(RRAT_next(k)) \cup Leaving(k)
  <2> DEFINE W == {i \in 1..k : inflight[i].arn = a}
  <2>1. CASE W = {}
    <3>1. RRAT_next(k)[a] = RRAT[a]
      BY <2>1, RRATKeeps
    <3> QED BY <3>1, <1>2
  <2>2. CASE W # {}
    <3>1. W \in SUBSET Nat
      OBVIOUS
    <3>2. PICK m \in W : \A n \in W : m <= n
      <4> HIDE DEF W
      <4> QED BY <2>2, <3>1, LeastNat
    <3>3. m \in 1..k /\ inflight[m].arn = a /\ m - 1 \in 0..Len(inflight)
      BY <1>1
    <3>4. \A j \in 1..(m - 1) : inflight[j].arn # a
      BY <3>2, <3>3, <1>1
    <3>5. RRAT_next(m - 1)[a] = RRAT[a]
      BY <3>3, <3>4, RRATKeeps
    <3> QED BY <3>3, <3>5, <1>3, <1>4
  <2> QED BY <2>1, <2>2
<1>6. ASSUME NEW i \in 1..k, inflight[i].arn \in ARN
      PROVE  inflight[i].prn \in Image(RRAT_next(k)) \cup Leaving(k)
  <2> DEFINE a == inflight[i].arn
             W == {j \in 1..k : inflight[j].arn = a /\ j > i}
  <2>1. CASE W = {}
    <3>1. \A j \in 1..k : inflight[j].arn = a => j <= i
      BY <2>1, <1>1
    <3>2. RRAT_next(k)[a] = inflight[i].prn
      BY <3>1, <1>6, RRATAt
    <3> QED BY <3>2, <1>2, <1>6
  <2>2. CASE W # {}
    <3>1. W \in SUBSET Nat
      OBVIOUS
    <3>2. PICK m \in W : \A n \in W : m <= n
      <4> HIDE DEF W
      <4> QED BY <2>2, <3>1, LeastNat
    <3>3. m \in 1..k /\ inflight[m].arn = a /\ m > i
      OBVIOUS
    <3>4. m - 1 \in 0..Len(inflight) /\ i \in 1..(m - 1)
      BY <3>3, <1>1
    <3>5. \A j \in 1..(m - 1) : inflight[j].arn = a => j <= i
      BY <3>2, <3>3, <1>1
    <3>6. RRAT_next(m - 1)[a] = inflight[i].prn
      BY <3>4, <3>5, <1>6, RRATAt
    <3> QED BY <3>3, <3>6, <1>3, <1>4, <1>6
  <2> QED BY <2>1, <2>2
<1> QED BY <1>1, <1>5, <1>6 DEF Image, Entering, Retiring

\* The registers of the map after a commit are those of the map before it,
\* with those that enter and without those that leave.
LEMMA RetiredRegisters ==
  ASSUME Conserved, NEW k \in 0..Len(inflight)
  PROVE  /\ Image(RRAT_next(k)) = (Image(RRAT) \cup Entering(k)) \ Leaving(k)
         /\ Image(RRAT) \subseteq PRN
         /\ Entering(k) \subseteq PRN
         /\ Leaving(k) \subseteq PRN
         /\ Entering(k) \subseteq Held
<1>1. Image(RRAT_next(k)) \subseteq Image(RRAT) \cup Entering(k)
  <2>1. \A a \in ARN : RRAT_next(k)[a] \in Image(RRAT) \cup Entering(k)
    BY RRATFrom DEF Conserved, Image, Entering, Retiring
  <2>2. DOMAIN RRAT_next(k) = ARN
    BY RRATNextInjective
  <2> QED BY <2>1, <2>2 DEF Image
<1>2. Image(RRAT) \subseteq PRN
  BY DEF Conserved, Image
<1>3. Entering(k) \subseteq PRN /\ Entering(k) \subseteq Held
  BY OldestIs DEF Conserved, HeldIsReal, Entering, Retiring, Held
<1> QED BY <1>1, <1>2, <1>3, LeavingLeaves, StaysOrLeaves

\* The retired free list stays the complement of the retirement map.
LEMMA RetiredFreeListExact ==
  ASSUME Conserved, free_RRAT = PRN \ Image(RRAT), NEW k \in 0..Len(inflight)
  PROVE  free_RRAT_next(k) = PRN \ Image(RRAT_next(k))
BY RetiredRegisters, LeavingLeaves DEF free_RRAT_next

-----------------------------------------------------------------------------
(* The clock edge: what is in flight after it. *)

\* Broadcasts are functions from instructions in flight to values.
LEMMA BroadcastsAre ==
  ASSUME NEW res \in Broadcasts
  PROVE  /\ DOMAIN res \subseteq Unfinished
         /\ \A i \in DOMAIN res : res[i] \in Val
BY DEF Broadcasts

\* How many instructions stay in the window when k commit.
Rest(k) == Len(inflight) - k

\* The window after a clock edge: the instructions that stay, in order, and
\* then the bundle.
WindowNext(k, n, dests, res) ==
  /\ inflight' \in Seq(Instr)
  /\ Rest(k) \in Nat
  /\ Len(inflight') = Rest(k) + n
  /\ DOMAIN inflight' = 1..(Rest(k) + n)
  /\ \A i \in 1..Rest(k) :
       /\ k + i \in DOMAIN inflight
       /\ inflight'[i].arn = inflight[k + i].arn
       /\ inflight'[i].prn = inflight[k + i].prn
       /\ inflight'[i].done = (inflight[k + i].done \/ k + i \in DOMAIN res)
  /\ \A i \in 1..n :
       /\ i \in Ways
       /\ inflight'[Rest(k) + i].arn = dests[i]
       /\ inflight'[Rest(k) + i].prn = IF dests[i] = NoReg THEN P0 ELSE reg_idx_out[i]
       /\ ~ inflight'[Rest(k) + i].done

\* What a clock edge leaves in flight: the instructions that did not commit,
\* in their order and with their registers, and behind them the new bundle.
LEMMA ClockWindow ==
  ASSUME TypeOK, NEW k \in 0..Len(inflight), NEW n \in 0..WAYS,
         NEW dests \in [1..n -> Dest], NEW res \in Broadcasts,
         Clock(k, res, dests)
  PROVE  WindowNext(k, n, dests, res)
<1> USE DEF Rest, WindowNext
<1> DEFINE L == Len(inflight)
           m == L - k
           f == Finish(res)
           s == SubSeq(f, k + 1, L)
           t == Bundle(dests)
<1>1. /\ L \in Nat /\ DOMAIN inflight = 1..L
      /\ \A i \in 1..L : inflight[i] \in Instr
      /\ m \in Nat /\ n \in Nat /\ 1..n \subseteq Ways
  <2>1. inflight \in Seq(Instr) /\ WAYS \in Nat
    BY SizesAssumption DEF TypeOK
  <2>2. L \in Nat /\ DOMAIN inflight = 1..L /\ \A i \in 1..L : inflight[i] \in Instr
    BY <2>1, LenProperties, ElementOfSeq
  <2> QED BY <2>1, <2>2 DEF Ways
<1>2. \A i \in 1..L :
        /\ f[i] \in Instr
        /\ f[i].arn = inflight[i].arn
        /\ f[i].prn = inflight[i].prn
        /\ f[i].done = (inflight[i].done \/ i \in DOMAIN res)
  BY <1>1 DEF Finish, Instr
<1>3. /\ s \in Seq(Instr)
      /\ Len(s) = m
      /\ \A i \in 1..m : s[i] = f[k + i]
  <2> HIDE DEF f
  <2>1. \A i \in (k + 1)..L : f[i] \in Instr
    BY <1>1, <1>2
  <2>2. /\ s \in Seq(Instr)
        /\ Len(s) = IF k + 1 <= L THEN L - (k + 1) + 1 ELSE 0
        /\ \A i \in 1..(L - (k + 1) + 1) : s[i] = f[(k + 1) + i - 1]
    <3>1. k + 1 \in Int /\ L \in Int
      BY <1>1
    <3> HIDE DEF L
    <3> QED BY <3>1, <2>1, SubSeqProperties
  <2>3. Len(s) = m
    <3>1. L \in Nat /\ k \in Nat /\ k <= L
      BY <1>1
    <3> HIDE DEF L, s
    <3> QED BY <3>1, <2>2
  <2>4. ASSUME NEW i \in 1..m PROVE s[i] = f[k + i]
    <3>1. i \in 1..(L - (k + 1) + 1) /\ (k + 1) + i - 1 = k + i
      BY <1>1
    <3> QED BY <3>1, <2>2
  <2> QED BY <2>2, <2>3, <2>4
<1>4. /\ t \in Seq(Instr)
      /\ Len(t) = n
      /\ \A i \in 1..n : /\ t[i].arn = dests[i]
                         /\ t[i].prn = IF dests[i] = NoReg THEN P0 ELSE reg_idx_out[i]
                         /\ ~ t[i].done
  <2>1. \A i \in 1..n : dests[i] \in ARN \cup {NoReg, X0}
    BY RegistersAssumption
  <2>2. \A i \in 1..n : reg_idx_out[i] \in PRN \cup {P0}
    BY <1>1 DEF TypeOK
  <2>3. DOMAIN t = 1..n
    BY DEF Bundle
  <2>4. \A i \in 1..n : t[i] \in Instr
    BY <2>1, <2>2 DEF Bundle, Instr
  <2>5. t \in [1..n -> Instr]
    BY <2>3, <2>4 DEF Bundle
  <2>6. t \in Seq(Instr) /\ Len(t) = n
    <3> HIDE DEF t
    <3> QED BY <1>1, <2>5, LenProperties
  <2> QED BY <2>6 DEF Bundle
<1>5. inflight' = s \o t
  BY DEF Clock
<1>6. /\ s \o t \in Seq(Instr)
      /\ Len(s \o t) = m + n
      /\ \A i \in 1..(m + n) : (s \o t)[i] = IF i <= m THEN s[i] ELSE t[i - m]
  <2> HIDE DEF s, t, m
  <2>1. /\ s \o t \in Seq(Instr)
        /\ Len(s \o t) = Len(s) + Len(t)
        /\ \A i \in 1..(Len(s) + Len(t)) :
             (s \o t)[i] = IF i <= Len(s) THEN s[i] ELSE t[i - Len(s)]
    BY <1>3, <1>4, ConcatProperties
  <2> QED BY <2>1, <1>3, <1>4
<1> HIDE DEF f, s, t
<1>7. DOMAIN inflight' = 1..(m + n)
  BY <1>5, <1>6, LenProperties
<1>8. \A i \in 1..m :
        /\ k + i \in 1..L
        /\ inflight'[i] = f[k + i]
  BY <1>1, <1>3, <1>5, <1>6
<1>9. \A i \in 1..n : inflight'[m + i] = t[i]
  <2> SUFFICES ASSUME NEW i \in 1..n PROVE inflight'[m + i] = t[i]
    OBVIOUS
  <2>1. m + i \in 1..(m + n) /\ ~(m + i <= m) /\ (m + i) - m = i
    BY <1>1
  <2> QED BY <2>1, <1>5, <1>6
<1>10. \A i \in 1..m :
         /\ k + i \in DOMAIN inflight
         /\ inflight'[i].arn = inflight[k + i].arn
         /\ inflight'[i].prn = inflight[k + i].prn
         /\ inflight'[i].done = (inflight[k + i].done \/ k + i \in DOMAIN res)
  BY <1>1, <1>2, <1>8
<1>11. \A i \in 1..n :
         /\ i \in Ways
         /\ inflight'[m + i].arn = dests[i]
         /\ inflight'[m + i].prn = IF dests[i] = NoReg THEN P0 ELSE reg_idx_out[i]
         /\ ~ inflight'[m + i].done
  BY <1>1, <1>4, <1>9
<1> QED BY <1>1, <1>5, <1>6, <1>7, <1>10, <1>11

-----------------------------------------------------------------------------
(* The inductive invariant. *)

\* What a reader would call the state of the registers being consistent.
\* None of its parts is inductive alone: that a bundle finds registers needs
\* the exact free list and the room kept in the window; that the free list is
\* exact needs the offers to be free and the owners to be distinct.
Inv ==
  /\ TypeOK
  /\ RoomKept
  /\ NoSharedRegister
  /\ FreeListsExact
  /\ OffersFree
  /\ NeverOutOfRegisters

\* The part about the commits of a cycle.
LEMMA InvConserved ==
  ASSUME Inv
  PROVE  /\ Conserved
         /\ Len(inflight) \in Nat
         /\ DOMAIN inflight = 1..Len(inflight)
         /\ \A k \in 0..MaxCommit : k \in 0..Len(inflight)
<1>1. inflight \in Seq(Instr) /\ WAYS \in Nat
  BY SizesAssumption DEF Inv, TypeOK
<1>2. /\ Len(inflight) \in Nat
      /\ DOMAIN inflight = 1..Len(inflight)
      /\ \A i \in 1..Len(inflight) : inflight[i] \in Instr
  BY <1>1, LenProperties, ElementOfSeq
<1>3. HeldIsReal
  BY <1>2 DEF Inv, HeldIsReal, NeverOutOfRegisters, Instr
<1>4. \A k \in 0..MaxCommit : k \in 0..Len(inflight)
  BY <1>1, <1>2 DEF MaxCommit
<1> QED BY <1>2, <1>3, <1>4 DEF Inv, TypeOK, Conserved

\* The registers of the instructions that do not commit.
Staying(k) ==
  {inflight[i].prn : i \in {j \in DOMAIN inflight : j > k /\ inflight[j].arn \in ARN}}

\* The registers in flight are those of the instructions that stay and of
\* those that commit; the former are used by nobody else and stay registers.
LEMMA StayingIs ==
  ASSUME Inv, NEW k \in 0..Len(inflight)
  PROVE  /\ Held = Staying(k) \cup Entering(k)
         /\ Staying(k) \cap Entering(k) = {}
         /\ Staying(k) \cap Image(RRAT) = {}
         /\ Staying(k) \subseteq PRN
<1>1. DOMAIN inflight = 1..Len(inflight) /\ Len(inflight) \in Nat /\ HeldIsReal
  BY InvConserved DEF Conserved
<1>2. Held = Staying(k) \cup Entering(k)
  BY <1>1 DEF Held, Staying, Entering, Retiring
<1>3. Staying(k) \cap Entering(k) = {}
  BY <1>1 DEF Inv, NoSharedRegister, Staying, Entering, Retiring
<1> QED BY <1>1, <1>2, <1>3 DEF Inv, NoSharedRegister, Staying, HeldIsReal

\* The registers a bundle takes are free, and every way that needs one gets
\* the one offered to it.
LEMMA TakenAreFree ==
  ASSUME Inv, NEW k \in 0..MaxCommit, NEW n \in 0..WAYS,
         NEW dests \in [1..n -> Dest], NEW res \in Broadcasts,
         Clock(k, res, dests)
  PROVE  /\ Taken(dests) \subseteq free_RAT
         /\ Taken(dests) = {reg_idx_out[i] : i \in {j \in 1..n : dests[j] \in ARN}}
         /\ Taken(dests) \cap (Image(RRAT) \cup Held) = {}
         /\ \A i \in 1..n : reg_idx_out[i] # P0
<1>1. 1..n \subseteq Ways /\ DOMAIN dests = 1..n
  BY SizesAssumption DEF Ways
<1>2. \A i \in 1..n : reg_idx_out[i] # P0
  BY <1>1 DEF Clock, MayRename, Inv, NeverOutOfRegisters
<1>3. Taken(dests) = {reg_idx_out[i] : i \in {j \in 1..n : dests[j] \in ARN}}
  BY <1>1, <1>2 DEF Taken
<1>4. Taken(dests) \subseteq free_RAT
  BY <1>1, <1>2, <1>3 DEF Inv, OffersFree
<1> QED BY <1>2, <1>3, <1>4 DEF Inv, FreeListsExact

\* The registers in flight after a clock edge.
LEMMA HeldNext ==
  ASSUME Inv, NEW k \in 0..MaxCommit, NEW n \in 0..WAYS,
         NEW dests \in [1..n -> Dest], NEW res \in Broadcasts,
         Clock(k, res, dests)
  PROVE  Held' = Staying(k) \cup Taken(dests)
<1> DEFINE m == Rest(k)
<1>1. k \in 0..Len(inflight) /\ Len(inflight) \in Nat /\ DOMAIN inflight = 1..Len(inflight)
  BY InvConserved
<1>2. /\ m \in Nat
      /\ DOMAIN inflight' = 1..(m + n)
      /\ \A i \in 1..m :
           /\ k + i \in DOMAIN inflight
           /\ inflight'[i].arn = inflight[k + i].arn
           /\ inflight'[i].prn = inflight[k + i].prn
      /\ \A i \in 1..n :
           /\ inflight'[m + i].arn = dests[i]
           /\ inflight'[m + i].prn = IF dests[i] = NoReg THEN P0 ELSE reg_idx_out[i]
  <2>1. TypeOK
    BY DEF Inv
  <2> HIDE DEF Inv
  <2>2. WindowNext(k, n, dests, res)
    BY <2>1, <1>1, ClockWindow
  <2> QED BY <2>2 DEF WindowNext
<1>3. Taken(dests) = {reg_idx_out[i] : i \in {j \in 1..n : dests[j] \in ARN}}
  BY TakenAreFree
<1>4. NoReg \notin ARN /\ n \in Nat
  BY RegistersAssumption, SizesAssumption
<1>5. Held' = {inflight'[i].prn : i \in {j \in DOMAIN inflight' : inflight'[j].arn \in ARN}}
  BY DEF Held
<1>6. ASSUME NEW i \in DOMAIN inflight', inflight'[i].arn \in ARN
      PROVE  inflight'[i].prn \in Staying(k) \cup Taken(dests)
  <2>1. CASE i \in 1..m
    <3>1. k + i \in DOMAIN inflight /\ k + i > k
      BY <1>1, <1>2, <2>1
    <3> QED BY <3>1, <1>2, <1>6, <2>1 DEF Staying
  <2>2. CASE i \notin 1..m
    <3>1. i - m \in 1..n /\ i = m + (i - m)
      BY <1>2, <1>4, <2>2
    <3>2. dests[i - m] \in ARN /\ inflight'[i].prn = reg_idx_out[i - m]
      BY <3>1, <1>2, <1>4, <1>6
    <3> QED BY <3>1, <3>2, <1>3
  <2> QED BY <2>1, <2>2
<1>7. ASSUME NEW p \in Staying(k) \cup Taken(dests)
      PROVE  p \in Held'
  <2>1. CASE p \in Staying(k)
    <3>1. PICK i \in DOMAIN inflight : i > k /\ inflight[i].arn \in ARN /\ p = inflight[i].prn
      BY <2>1 DEF Staying
    <3>2. i - k \in 1..m /\ i = k + (i - k) /\ i - k \in DOMAIN inflight'
      BY <3>1, <1>1, <1>2, <1>4 DEF Rest
    <3>3. inflight'[i - k].arn \in ARN /\ inflight'[i - k].prn = p
      BY <3>1, <3>2, <1>2
    <3> QED BY <3>2, <3>3, <1>5
  <2>2. CASE p \in Taken(dests)
    <3>1. PICK i \in 1..n : dests[i] \in ARN /\ p = reg_idx_out[i]
      BY <2>2, <1>3
    <3>2. m + i \in DOMAIN inflight'
      BY <1>2, <1>4
    <3>3. inflight'[m + i].arn \in ARN /\ inflight'[m + i].prn = p
      BY <3>1, <1>2, <1>4
    <3> QED BY <3>2, <3>3, <1>5
  <2> QED BY <2>1, <2>2
<1> QED BY <1>5, <1>6, <1>7

-----------------------------------------------------------------------------
(* There are always enough free registers. *)

\* The registers named by a map and by fewer than ROBSZ - WAYS instructions
\* leave a bundle's worth.
LEMMA EnoughRegisters ==
  ASSUME NEW f \in [ARN -> PRN], NEW s \in Seq(Instr), Len(s) <= ROBSZ - WAYS,
         NEW H, \A p \in H : \E i \in DOMAIN s : p = s[i].prn
  PROVE  /\ Cardinality(PRN \ (Image(f) \cup H)) \in Nat
         /\ Cardinality(PRN \ (Image(f) \cup H)) >= WAYS
<1>1. /\ IsFiniteSet(PRN) /\ IsFiniteSet(ARN)
      /\ Cardinality(PRN) \in Nat /\ Cardinality(ARN) \in Nat
      /\ Cardinality(PRN) >= Cardinality(ARN) + ROBSZ
      /\ WAYS \in Nat /\ ROBSZ \in Nat
  BY RegistersAssumption, SizesAssumption, FS_Subset, FS_CardinalityType
<1>2. IsFiniteSet(Image(f)) /\ Cardinality(Image(f)) <= Cardinality(ARN)
      /\ Cardinality(Image(f)) \in Nat
  <2>1. f \in Surjection(ARN, Image(f))
    BY DEF Surjection, Image
  <2>2. IsFiniteSet(Image(f)) /\ Cardinality(Image(f)) <= Cardinality(ARN)
    BY <1>1, <2>1, FS_Surjection
  <2> QED BY <2>2, FS_CardinalityType
<1> DEFINE P == {s[i].prn : i \in DOMAIN s}
           g == [i \in DOMAIN s |-> s[i].prn]
<1>3. IsFiniteSet(P) /\ Cardinality(P) <= Len(s) /\ Cardinality(P) \in Nat /\ Len(s) \in Nat
  <2>1. Len(s) \in Nat /\ DOMAIN s = 1..Len(s)
    BY LenProperties
  <2>2. IsFiniteSet(1..Len(s)) /\ Cardinality(1..Len(s)) = Len(s)
    <3>1. /\ IsFiniteSet(1..Len(s))
          /\ Cardinality(1..Len(s)) = IF 1 > Len(s) THEN 0 ELSE Len(s) - 1 + 1
      BY <2>1, FS_Interval
    <3> QED BY <2>1, <3>1
  <2>3. g \in Surjection(1..Len(s), P)
    BY <2>1 DEF Surjection
  <2> HIDE DEF P, g
  <2>4. IsFiniteSet(P) /\ Cardinality(P) <= Len(s)
    BY <2>2, <2>3, FS_Surjection
  <2> QED BY <2>1, <2>4, FS_CardinalityType
<1>4. H \subseteq P
  OBVIOUS
<1> HIDE DEF P
<1>5. IsFiniteSet(H) /\ Cardinality(H) <= Len(s) /\ Cardinality(H) \in Nat
  <2>1. IsFiniteSet(H) /\ Cardinality(H) <= Cardinality(P)
    BY <1>3, <1>4, FS_Subset
  <2> QED BY <1>3, <2>1, FS_CardinalityType
<1> DEFINE U == Image(f) \cup H
<1>6. IsFiniteSet(U) /\ Cardinality(U) \in Nat
      /\ Cardinality(U) <= Cardinality(ARN) + Len(s)
  <2>1. /\ IsFiniteSet(U)
        /\ Cardinality(U) = Cardinality(Image(f)) + Cardinality(H) - Cardinality(Image(f) \cap H)
    BY <1>2, <1>5, FS_Union
  <2>2. Cardinality(Image(f) \cap H) \in Nat
    BY <1>2, FS_Intersection, FS_CardinalityType
  <2>3. Cardinality(U) \in Nat
    BY <2>1, FS_CardinalityType
  <2> QED BY <1>1, <1>2, <1>3, <1>5, <2>1, <2>2, <2>3
<1> HIDE DEF U
<1>7. /\ IsFiniteSet(PRN \ U)
      /\ Cardinality(PRN \ U) = Cardinality(PRN) - Cardinality(PRN \cap U)
  BY <1>1, FS_Difference
<1>8. Cardinality(PRN \cap U) \in Nat /\ Cardinality(PRN \cap U) <= Cardinality(U)
  <2>1. IsFiniteSet(PRN \cap U) /\ Cardinality(PRN \cap U) <= Cardinality(U)
    BY <1>6, FS_Intersection
  <2> QED BY <2>1, FS_CardinalityType
<1>9. Cardinality(PRN \ U) \in Nat
  BY <1>7, FS_CardinalityType
<1>10. Cardinality(PRN \ U) >= WAYS
  BY <1>1, <1>3, <1>6, <1>7, <1>8, <1>9
<1> QED BY <1>9, <1>10 DEF U

\* What the selectors latch out of a set of registers.
LEMMA GrantsAre ==
  ASSUME NEW S \in SUBSET PRN, NEW g \in Grants(S)
  PROVE  /\ g \in [Ways -> PRN \cup {P0}]
         /\ \A i, j \in Ways : g[i] # P0 =>
              g[i] \in S /\ (g[i] = g[j] => i = j)
         /\ Cardinality(S) \in Nat /\ Cardinality(S) >= WAYS => \A i \in Ways : g[i] # P0
<1> DEFINE n == IF Cardinality(S) < WAYS THEN Cardinality(S) ELSE WAYS
<1>1. /\ g \in [Ways -> S \cup {P0}]
      /\ \A i \in Ways : g[i] = P0 <=> i > n
      /\ \A i, j \in 1..n : g[i] = g[j] => i = j
  BY DEF Grants
<1>2. WAYS \in Nat /\ Ways = 1..WAYS
  BY SizesAssumption DEF Ways
<1>3. Cardinality(S) \in Nat /\ IsFiniteSet(S)
  BY RegistersAssumption, FS_Subset, FS_CardinalityType
<1>4. n \in Nat
  BY <1>2, <1>3
<1>5. Cardinality(S) >= WAYS => n = WAYS
  BY <1>2, <1>3
<1> HIDE DEF n
<1>6. g \in [Ways -> PRN \cup {P0}]
  BY <1>1
<1>7. ASSUME NEW i \in Ways, NEW j \in Ways, g[i] # P0
      PROVE  g[i] \in S /\ (g[i] = g[j] => i = j)
  BY <1>1, <1>2, <1>4, <1>7
<1>8. Cardinality(S) >= WAYS => \A i \in Ways : g[i] # P0
  BY <1>1, <1>2, <1>4, <1>5
<1> QED BY <1>6, <1>7, <1>8

-----------------------------------------------------------------------------
(* The steps of a cycle that both clock edges share. *)

\* The register file and the valid lists keep their types.
LEMMA ResultsType ==
  ASSUME Inv, NEW k \in 0..Len(inflight), NEW res \in Broadcasts
  PROVE  /\ prf_next(res) \in [PRN -> Val]
         /\ CDB_PRF_idx(res) \in SUBSET PRN
         /\ valid_RRAT_next(k) \in SUBSET PRN
<1>1. DOMAIN res \subseteq DOMAIN inflight /\ \A i \in DOMAIN res : res[i] \in Val
  BY BroadcastsAre DEF Unfinished
<1>2. \A i \in DOMAIN inflight : inflight[i] \in Instr
  BY InvConserved, ElementOfSeq DEF Conserved
<1>3. CDB_PRF_idx(res) \in SUBSET PRN
  BY <1>1, <1>2 DEF CDB_PRF_idx, RegWrites, Instr
<1>4. \A p \in CDB_PRF_idx(res) : CDB_Data(res, p) \in Val
  <2> SUFFICES ASSUME NEW p \in CDB_PRF_idx(res) PROVE CDB_Data(res, p) \in Val
    OBVIOUS
  <2>1. \E i \in RegWrites(res) : inflight[i].prn = p
    BY DEF CDB_PRF_idx
  <2>2. (CHOOSE i \in RegWrites(res) : inflight[i].prn = p) \in DOMAIN res
    BY <2>1 DEF RegWrites
  <2> QED BY <2>2, <1>1 DEF CDB_Data
<1>5. prf_next(res) \in [PRN -> Val]
  BY <1>4 DEF prf_next, Inv, TypeOK
<1>6. valid_RRAT_next(k) \in SUBSET PRN
  BY RetiredRegisters, InvConserved DEF valid_RRAT_next, Inv, TypeOK
<1> QED BY <1>3, <1>5, <1>6

\* The bundle as the map table sees it writes physical registers only.
LEMMA RenamedType ==
  ASSUME Inv, NEW n \in 0..WAYS, NEW dests \in [1..n -> Dest], NEW i \in 1..(n + 1)
  PROVE  /\ RAT_next(dests) \in [ARN -> PRN]
         /\ RAT_tmp(dests, i) \in [ARN -> PRN]
<1> DEFINE s == IsRenamed(dests)
           R == {s[j] : j \in 1..n}
<1>1. n \in Nat /\ 1..n \subseteq Ways /\ DOMAIN s = 1..n
  BY SizesAssumption DEF Ways, IsRenamed
<1>2. \A j \in 1..n : s[j].arn \in ARN => s[j].prn \in PRN
  BY <1>1, RegistersAssumption DEF Inv, TypeOK, IsRenamed
<1>3. s \in Seq(R) /\ Len(s) = n
  <2>1. s \in [1..n -> R]
    BY <1>1 DEF IsRenamed
  <2> HIDE DEF s, R
  <2> QED BY <1>1, <2>1, LenProperties
<1> HIDE DEF R
<1>4. RAT_next(dests) = Overwrite(RAT, s) /\ RAT_tmp(dests, i) = Overwrite(RAT, SubSeq(s, 1, i - 1))
  BY DEF RAT_next, RAT_tmp
<1> HIDE DEF s
<1>5. RAT \in [ARN -> PRN]
  BY DEF Inv, TypeOK
<1>6. Overwrite(RAT, s) \in [ARN -> PRN]
  BY <1>1, <1>2, <1>3, <1>5, OverwriteType
<1> DEFINE t == SubSeq(s, 1, i - 1)
<1>7. t \in Seq(R) /\ DOMAIN t = 1..(i - 1) /\ \A j \in 1..(i - 1) : t[j] = s[j]
  <2>1. \A j \in 1..(i - 1) : s[j] \in R
    <3>1. 1..(i - 1) \subseteq 1..Len(s)
      BY <1>1, <1>3
    <3> QED BY <3>1, <1>3, ElementOfSeq
  <2>2. /\ t \in Seq(R)
        /\ Len(t) = IF 1 <= i - 1 THEN (i - 1) - 1 + 1 ELSE 0
        /\ \A j \in 1..((i - 1) - 1 + 1) : t[j] = s[1 + j - 1]
    BY <1>1, <2>1, SubSeqProperties
  <2> HIDE DEF t
  <2>3. DOMAIN t = 1..Len(t)
    BY <2>2, LenProperties
  <2> QED BY <1>1, <2>2, <2>3
<1>8. \A j \in DOMAIN t : t[j].arn \in ARN => t[j].prn \in PRN
  BY <1>1, <1>2, <1>7
<1>9. Overwrite(RAT, t) \in [ARN -> PRN]
  <2> HIDE DEF t
  <2> QED BY <1>5, <1>7, <1>8, OverwriteType
<1> QED BY <1>4, <1>6, <1>9

\* The free lists keep their types.
LEMMA FreeListsType ==
  ASSUME Inv, NEW k \in 0..Len(inflight), NEW dests
  PROVE  /\ free_RAT_next(k, dests) \in SUBSET PRN
         /\ free_RRAT_next(k) \in SUBSET PRN
BY RetiredRegisters, InvConserved DEF free_RAT_next, free_RRAT_next, Inv, TypeOK

-----------------------------------------------------------------------------
(* A clock edge preserves the invariant. *)

\* A clock edge without a misprediction keeps the types of the registers.
LEMMA ClockTypeOK ==
  ASSUME Inv, NEW k \in 0..MaxCommit, NEW n \in 0..WAYS,
         NEW dests \in [1..n -> Dest], NEW res \in Broadcasts,
         Clock(k, res, dests)
  PROVE  TypeOK'
<1>1. k \in 0..Len(inflight) /\ Conserved /\ TypeOK
  BY InvConserved DEF Inv
<1>2. n \in Nat /\ n + 1 \in 1..(n + 1) /\ DOMAIN dests = 1..n
  BY SizesAssumption
<1>3. RAT' \in [ARN -> PRN]
  BY <1>2, RenamedType DEF Clock
<1>4. RRAT' \in [ARN -> PRN]
  BY <1>1, RRATNextInjective DEF Clock
<1>5. free_RAT' \in SUBSET PRN /\ free_RRAT' \in SUBSET PRN
  BY <1>1, FreeListsType DEF Clock
<1>6. reg_idx_out' \in [Ways -> PRN \cup {P0}]
  BY <1>1, FreeListsType, GrantsAre DEF Clock
<1>7. valid_RAT' \in SUBSET PRN
  BY <1>1, ResultsType DEF Clock, valid_RAT_next, TypeOK
<1>8. valid_RRAT' \in SUBSET PRN /\ prf' \in [PRN -> Val]
  BY <1>1, ResultsType DEF Clock
<1>9. inflight' \in Seq(Instr)
  <2>1. WindowNext(k, n, dests, res)
    BY <1>1, ClockWindow
  <2> QED BY <2>1 DEF WindowNext
<1>10. operand' \in Operand
  <2>1. NoOperand \in Operand
    BY RegistersAssumption, SizesAssumption DEF NoOperand, Operand
  <2>2. ASSUME NEW i \in 1..n, NEW a \in Observed
        PROVE  SourceOperand(res, dests, i, a) \in Operand
    <3>1. i \in 1..(n + 1)
      BY <1>2
    <3>2. RAT_tmp(dests, i)[a] \in PRN
      BY <3>1, RenamedType, RegistersAssumption
    <3>3. prf_next(res)[RAT_tmp(dests, i)[a]] \in Val
      BY <3>2, <1>1, ResultsType
    <3>4. i \in 0..WAYS /\ a \in ARN
      BY SizesAssumption, RegistersAssumption
    <3> QED BY <3>2, <3>3, <3>4, RegistersAssumption DEF SourceOperand, Operand
  <2> QED BY <1>2, <2>1, <2>2 DEF Clock
<1>11. started' \in BOOLEAN
  BY DEF Clock
<1> QED BY <1>3, <1>4, <1>5, <1>6, <1>7, <1>8, <1>9, <1>10, <1>11 DEF TypeOK

\* It leaves a bundle's worth of reorder-buffer entries unused: the stall of
\* processor.sv lets a bundle in only when two bundles fit.
LEMMA ClockRoomKept ==
  ASSUME Inv, NEW k \in 0..MaxCommit, NEW n \in 0..WAYS,
         NEW dests \in [1..n -> Dest], NEW res \in Broadcasts,
         Clock(k, res, dests)
  PROVE  RoomKept'
<1>1. k \in 0..Len(inflight) /\ Len(inflight) \in Nat /\ TypeOK
  BY InvConserved DEF Inv
<1>2. Len(inflight') = Len(inflight) - k + n
  <2>1. WindowNext(k, n, dests, res)
    BY <1>1, ClockWindow
  <2> QED BY <2>1 DEF WindowNext, Rest
<1>3. WAYS \in Nat /\ ROBSZ \in Nat /\ n \in Nat /\ n <= WAYS
  BY SizesAssumption
<1>4. CASE dests = <<>>
  <2>1. n = 0
    BY <1>3, <1>4
  <2> QED BY <1>1, <1>2, <1>3, <2>1 DEF Inv, RoomKept
<1>5. CASE dests # <<>>
  <2>1. ROBSZ - (Len(inflight) - k) >= 2 * WAYS
    BY <1>5 DEF Clock, MayRename
  <2> QED BY <1>1, <1>2, <1>3, <2>1 DEF RoomKept
<1> QED BY <1>4, <1>5

\* It gives no register a second owner: what commits moves its register from
\* the window to RRAT, and what is renamed takes a register of the free list.
LEMMA ClockNoSharedRegister ==
  ASSUME Inv, NEW k \in 0..MaxCommit, NEW n \in 0..WAYS,
         NEW dests \in [1..n -> Dest], NEW res \in Broadcasts,
         Clock(k, res, dests)
  PROVE  NoSharedRegister'
<1>1. TypeOK /\ k \in 0..Len(inflight)
  BY InvConserved DEF Inv
<1>2. Conserved /\ Len(inflight) \in Nat /\ k \in Nat
  BY InvConserved
<1>3. \A a, b \in ARN : RRAT'[a] = RRAT'[b] => a = b
  BY <1>1, <1>2, RRATNextInjective DEF Clock
<1>4. Held' \cap Image(RRAT)' = {}
  <2>1. Image(RRAT)' \subseteq Image(RRAT) \cup Entering(k)
    <3>1. Image(RRAT)' = Image(RRAT_next(k))
      BY DEF Clock, Image
    <3> QED BY <3>1, <1>1, <1>2, RetiredRegisters
  <2> QED BY <2>1, <1>1, <1>2, HeldNext, StayingIs, TakenAreFree
<1> DEFINE m == Rest(k)
<1>5. /\ m \in Nat
      /\ DOMAIN inflight' = 1..(m + n)
      /\ \A i \in 1..m :
           /\ k + i \in DOMAIN inflight
           /\ inflight'[i].arn = inflight[k + i].arn
           /\ inflight'[i].prn = inflight[k + i].prn
      /\ \A i \in 1..n :
           /\ i \in Ways
           /\ inflight'[m + i].arn = dests[i]
           /\ inflight'[m + i].prn = IF dests[i] = NoReg THEN P0 ELSE reg_idx_out[i]
  <2>1. WindowNext(k, n, dests, res)
    BY <1>1, ClockWindow
  <2> QED BY <2>1 DEF WindowNext
<1>6. n \in Nat
  BY SizesAssumption
<1> HIDE DEF m
<1>7. ASSUME NEW i \in DOMAIN inflight', NEW j \in DOMAIN inflight',
             inflight'[i].arn \in ARN, inflight'[j].arn \in ARN,
             inflight'[i].prn = inflight'[j].prn
      PROVE  i = j
  <2>2. \A x \in 1..m : inflight'[x].arn \in ARN => inflight'[x].prn \in Held
    BY <1>5 DEF Held
  <2>3. \A x \in (m + 1)..(m + n) : inflight'[x].arn \in ARN =>
          /\ x - m \in 1..n
          /\ inflight'[x].prn = reg_idx_out[x - m]
          /\ reg_idx_out[x - m] \in Taken(dests)
    <3> SUFFICES ASSUME NEW x \in (m + 1)..(m + n), inflight'[x].arn \in ARN
                 PROVE  /\ x - m \in 1..n
                        /\ inflight'[x].prn = reg_idx_out[x - m]
                        /\ reg_idx_out[x - m] \in Taken(dests)
      OBVIOUS
    <3>1. x - m \in 1..n /\ x = m + (x - m)
      BY <1>6, <1>5
    <3>2. inflight'[x].arn = dests[x - m]
          /\ inflight'[x].prn = IF dests[x - m] = NoReg THEN P0 ELSE reg_idx_out[x - m]
      BY <1>5, <3>1
    <3>3. Taken(dests) = {reg_idx_out[y] : y \in {z \in 1..n : dests[z] \in ARN}}
      BY TakenAreFree
    <3> QED BY <3>1, <3>2, <3>3, RegistersAssumption
  <2>4. Taken(dests) \cap Held = {}
    BY TakenAreFree
  <2>5. CASE i \in 1..m /\ j \in 1..m
    <3>1. /\ k + i \in DOMAIN inflight /\ k + j \in DOMAIN inflight
          /\ inflight[k + i].arn \in ARN /\ inflight[k + j].arn \in ARN
          /\ inflight[k + i].prn = inflight[k + j].prn
      BY <1>5, <2>5, <1>7
    <3>2. k + i = k + j
      BY <3>1 DEF Inv, NoSharedRegister
    <3> QED BY <3>2, <1>1, <1>2, <1>5
  <2>6. CASE i \notin 1..m /\ j \notin 1..m
    <3>1. i \in (m + 1)..(m + n) /\ j \in (m + 1)..(m + n)
      BY <1>6, <1>5, <2>6
    <3>2. i - m \in Ways /\ j - m \in Ways /\ reg_idx_out[i - m] = reg_idx_out[j - m]
          /\ reg_idx_out[i - m] # P0
      BY <3>1, <1>6, <1>5, <2>3, <1>7, TakenAreFree
    <3>3. i - m = j - m
      BY <3>2 DEF Inv, OffersFree
    <3> QED BY <3>1, <3>3, <1>6, <1>5
  <2>7. CASE ~(i \in 1..m <=> j \in 1..m)
    <3>1. \/ i \in 1..m /\ j \in (m + 1)..(m + n)
          \/ j \in 1..m /\ i \in (m + 1)..(m + n)
      BY <1>6, <1>5, <2>7
    <3> QED BY <3>1, <1>7, <2>2, <2>3, <2>4
  <2> QED BY <2>5, <2>6, <2>7
<1> QED BY <1>3, <1>4, <1>7 DEF NoSharedRegister

\* It neither leaks nor frees too early: FreeList.sv takes out what the bundle
\* took and puts in what the commits pushed out of RRAT, and nothing else.
LEMMA ClockFreeListsExact ==
  ASSUME Inv, NEW k \in 0..MaxCommit, NEW n \in 0..WAYS,
         NEW dests \in [1..n -> Dest], NEW res \in Broadcasts,
         Clock(k, res, dests)
  PROVE  FreeListsExact'
<1>1. k \in 0..Len(inflight) /\ Conserved
  BY InvConserved
<1>2. free_RAT = PRN \ (Image(RRAT) \cup Held) /\ free_RRAT = PRN \ Image(RRAT)
  BY DEF Inv, FreeListsExact
<1>3. Image(RRAT)' = Image(RRAT_next(k))
  BY DEF Clock, Image
<1>4. free_RRAT' = PRN \ Image(RRAT)'
  BY <1>1, <1>2, <1>3, RetiredFreeListExact DEF Clock
<1>5. free_RAT' = PRN \ (Image(RRAT)' \cup Held')
  <2>1. free_RAT' = (free_RAT \ Taken(dests)) \cup Leaving(k)
    BY DEF Clock, free_RAT_next
  <2>2. Image(RRAT)' = (Image(RRAT) \cup Entering(k)) \ Leaving(k)
        /\ Leaving(k) \subseteq PRN
    BY <1>1, <1>3, RetiredRegisters
  <2>3. Held' = Staying(k) \cup Taken(dests)
    BY HeldNext
  <2>4. /\ Held = Staying(k) \cup Entering(k)
        /\ Staying(k) \cap Entering(k) = {}
        /\ Staying(k) \cap Image(RRAT) = {}
    BY <1>1, StayingIs
  <2>5. Taken(dests) \subseteq free_RAT /\ Taken(dests) \cap (Image(RRAT) \cup Held) = {}
    BY TakenAreFree
  <2>6. Leaving(k) \subseteq Image(RRAT) \cup Entering(k)
    BY <1>1, LeavingLeaves
  <2> QED BY <1>2, <2>1, <2>2, <2>3, <2>4, <2>5, <2>6
<1> QED BY <1>4, <1>5 DEF FreeListsExact

\* The selectors latch distinct free registers, one for every way, because
\* a bundle's worth of registers is left (RoomKept and the size of PRN).
LEMMA ClockOffers ==
  ASSUME Inv, NEW k \in 0..MaxCommit, NEW n \in 0..WAYS,
         NEW dests \in [1..n -> Dest], NEW res \in Broadcasts,
         Clock(k, res, dests)
  PROVE  OffersFree' /\ NeverOutOfRegisters'
<1>1. TypeOK' /\ RoomKept' /\ FreeListsExact'
  BY ClockTypeOK, ClockRoomKept, ClockFreeListsExact
<1>2. free_RAT' \in SUBSET PRN /\ reg_idx_out' \in Grants(free_RAT')
  BY <1>1 DEF Clock, TypeOK
<1>3. OffersFree'
  BY <1>2, GrantsAre DEF OffersFree
<1>4. \A i \in Ways : reg_idx_out'[i] # P0
  <2>1. RRAT' \in [ARN -> PRN] /\ inflight' \in Seq(Instr) /\ Len(inflight') <= ROBSZ - WAYS
    BY <1>1 DEF TypeOK, RoomKept
  <2>2. \A p \in Held' : \E i \in DOMAIN inflight' : p = inflight'[i].prn
    BY DEF Held
  <2>3. free_RAT' = PRN \ (Image(RRAT') \cup Held')
    BY <1>1 DEF FreeListsExact, Image
  <2>4. Cardinality(free_RAT') \in Nat /\ Cardinality(free_RAT') >= WAYS
    BY <2>1, <2>2, <2>3, EnoughRegisters
  <2> QED BY <1>2, <2>4, GrantsAre
<1>5. ASSUME NEW i \in DOMAIN inflight', inflight'[i].arn \in ARN
      PROVE  inflight'[i].prn # P0
  <2>1. inflight'[i].prn \in Held'
    BY <1>5 DEF Held
  <2>2. Held' \subseteq PRN
    BY HeldNext, StayingIs, TakenAreFree, InvConserved DEF Inv, TypeOK
  <2> QED BY <2>1, <2>2, RegistersAssumption
<1> QED BY <1>3, <1>4, <1>5 DEF NeverOutOfRegisters

\* The clock edge of a cycle that commits a mispredicted branch.
LEMMA ExceptInv ==
  ASSUME Inv, NEW k \in 0..MaxCommit, NEW res \in Broadcasts, Except(k, res)
  PROVE  Inv'
<1>1. k \in 0..Len(inflight) /\ Conserved
  BY InvConserved
<1>2. free_RRAT_next(k) \in SUBSET PRN /\ free_RRAT_next(k) = PRN \ Image(RRAT_next(k))
  BY <1>1, FreeListsType, RetiredFreeListExact DEF Inv, FreeListsExact
<1>3. /\ inflight' = <<>>
      /\ inflight' \in Seq(Instr)
      /\ Len(inflight') = 0
      /\ DOMAIN inflight' = {}
      /\ Held' = {}
  BY DEF Except, Held
<1>4. RRAT' \in [ARN -> PRN] /\ RAT' = RRAT'
      /\ \A a, b \in ARN : RRAT'[a] = RRAT'[b] => a = b
  BY <1>1, RRATNextInjective DEF Except
<1>5. reg_idx_out' \in Grants(free_RRAT_next(k))
  BY DEF Except
<1>6. TypeOK'
  <2>1. valid_RRAT' \in SUBSET PRN /\ valid_RAT' = valid_RRAT' /\ prf' \in [PRN -> Val]
    BY <1>1, ResultsType DEF Except
  <2>2. free_RAT' \in SUBSET PRN /\ free_RRAT' \in SUBSET PRN
    BY <1>2 DEF Except
  <2>3. reg_idx_out' \in [Ways -> PRN \cup {P0}]
    BY <1>2, <1>5, GrantsAre
  <2>4. operand' \in Operand /\ started' \in BOOLEAN
    BY RegistersAssumption, SizesAssumption DEF Except, NoOperand, Operand
  <2> QED BY <1>3, <1>4, <2>1, <2>2, <2>3, <2>4 DEF TypeOK
<1>7. WAYS \in Nat /\ ROBSZ \in Nat /\ 2 * WAYS <= ROBSZ
  BY SizesAssumption
<1>8. RoomKept'
  BY <1>3, <1>7 DEF RoomKept
<1>9. NoSharedRegister'
  BY <1>3, <1>4 DEF NoSharedRegister
<1>10. Image(RRAT)' = Image(RRAT_next(k))
  BY DEF Except, Image
<1>11. FreeListsExact'
  BY <1>2, <1>3, <1>10 DEF FreeListsExact, Except
<1>12. OffersFree'
  BY <1>2, <1>5, GrantsAre DEF OffersFree, Except
<1>13. \A i \in Ways : reg_idx_out'[i] # P0
  <2>1. Len(inflight') <= ROBSZ - WAYS /\ \A p \in {} : \E i \in DOMAIN inflight' : p = inflight'[i].prn
    BY <1>3, <1>7
  <2>2. /\ Cardinality(PRN \ (Image(RRAT') \cup {})) \in Nat
        /\ Cardinality(PRN \ (Image(RRAT') \cup {})) >= WAYS
    BY <2>1, <1>3, <1>4, EnoughRegisters
  <2>3. free_RRAT_next(k) = PRN \ (Image(RRAT') \cup {})
    BY <1>2 DEF Except
  <2> QED BY <1>2, <1>5, <2>2, <2>3, GrantsAre
<1>14. NeverOutOfRegisters'
  BY <1>3, <1>13 DEF NeverOutOfRegisters
<1> QED BY <1>6, <1>8, <1>9, <1>11, <1>12, <1>14 DEF Inv

-----------------------------------------------------------------------------
(* The theorems about the conservation of registers. *)

\* The values after reset (RAT_RRAT.sv, FreeList.sv, Validlist.sv) satisfy the
\* invariant.
LEMMA InitInv ==
  ASSUME Init
  PROVE  Inv
<1>1. /\ ARN \subseteq PRN /\ Zero \in Val /\ P0 \notin PRN
      /\ WAYS \in Nat /\ ROBSZ \in Nat /\ 2 * WAYS <= ROBSZ
  BY RegistersAssumption, SizesAssumption
<1>2. inflight = <<>> /\ inflight \in Seq(Instr) /\ Len(inflight) = 0 /\ DOMAIN inflight = {}
  BY DEF Init
<1>3. TypeOK
  <2>1. NoOperand \in Operand
    BY <1>1 DEF NoOperand, Operand
  <2> QED BY <1>1, <1>2, <2>1 DEF Init, TypeOK
<1>4. RoomKept
  BY <1>1, <1>2 DEF RoomKept
<1>5. Held = {} /\ Image(RRAT) = ARN
  BY <1>2 DEF Init, Held, Image
<1>6. NoSharedRegister
  BY <1>2, <1>5 DEF NoSharedRegister, Init
<1>7. FreeListsExact
  BY <1>5 DEF FreeListsExact, Init
<1>8. OffersFree /\ NeverOutOfRegisters
  BY <1>2 DEF OffersFree, NeverOutOfRegisters, Init
<1> QED BY <1>3, <1>4, <1>6, <1>7, <1>8 DEF Inv

\* Every clock edge preserves the invariant.
LEMMA StepInv ==
  ASSUME Inv, [Next]_vars
  PROVE  Inv'
<1>1. ASSUME NEW k \in 0..MaxCommit, NEW res \in Broadcasts, NEW n \in 0..WAYS,
             NEW dests \in [1..n -> Dest], Clock(k, res, dests)
      PROVE  Inv'
  BY <1>1, ClockTypeOK, ClockRoomKept, ClockNoSharedRegister, ClockFreeListsExact,
     ClockOffers DEF Inv
<1>2. ASSUME NEW k \in 0..MaxCommit, NEW res \in Broadcasts, Except(k, res)
      PROVE  Inv'
  BY <1>2, ExceptInv
<1>3. CASE UNCHANGED vars
  <2> USE <1>3 DEF vars
  <2>1. Held' = Held /\ Image(RRAT)' = Image(RRAT)
    BY DEF Held, Image
  <2>2. TypeOK' <=> TypeOK
    BY DEF TypeOK
  <2>3. (RoomKept' <=> RoomKept) /\ (NoSharedRegister' <=> NoSharedRegister)
        /\ (FreeListsExact' <=> FreeListsExact)
    BY <2>1 DEF RoomKept, NoSharedRegister, FreeListsExact
  <2>4. (OffersFree' <=> OffersFree) /\ (NeverOutOfRegisters' <=> NeverOutOfRegisters)
    BY DEF OffersFree, NeverOutOfRegisters
  <2> QED BY <2>2, <2>3, <2>4 DEF Inv
<1> QED BY <1>1, <1>2, <1>3 DEF Next

\* The inductive invariant holds in every reachable state: registers have
\* their types, a bundle fits, and each physical register has one place.
THEOREM InvHolds == Spec => []Inv
<1>1. Init => Inv
  BY InitInv
<1>2. Inv /\ [Next]_vars => Inv'
  BY StepInv
<1> QED BY <1>1, <1>2, PTL DEF Spec

\* The registers of the renaming hardware always have their types.
THEOREM TypeCorrect == Spec => []TypeOK
<1>1. Inv => TypeOK
  BY DEF Inv
<1> QED BY <1>1, InvHolds, PTL

\* No physical register ever has two owners, none leaks and none is freed
\* while it has an owner, whatever commits, is renamed or is dropped.
THEOREM RegistersConserved == Spec => []OneOwner
<1>1. Inv => OneOwner
  BY DEF Inv, OneOwner
<1> QED BY <1>1, InvHolds, PTL

\* The stall on the reorder buffer alone guarantees that renaming never lacks
\* a register, although id_stage.sv does not check for one.
THEOREM AlwaysARegister == Spec => [](RoomKept /\ NeverOutOfRegisters)
<1>1. Inv => RoomKept /\ NeverOutOfRegisters
  BY DEF Inv
<1> QED BY <1>1, InvHolds, PTL

-----------------------------------------------------------------------------
(* The speculative map follows program order. *)

\* What the bundle does to the speculative map, register by register.
LEMMA RATNextIs ==
  ASSUME Inv, NEW k \in 0..MaxCommit, NEW n \in 0..WAYS,
         NEW dests \in [1..n -> Dest], NEW res \in Broadcasts,
         Clock(k, res, dests), NEW a \in ARN
  PROVE  /\ (\A d \in 1..n : dests[d] # a) => RAT'[a] = RAT[a]
         /\ \A d \in 1..n : dests[d] = a /\ (\A x \in 1..n : dests[x] = a => x <= d)
              => RAT'[a] = reg_idx_out[d]
<1> DEFINE s == IsRenamed(dests)
           R == {s[j] : j \in 1..n}
<1>1. n \in Nat /\ DOMAIN s = 1..n
  BY SizesAssumption DEF IsRenamed
<1>2. \A d \in 1..n : s[d].arn = dests[d] /\ s[d].prn = reg_idx_out[d]
  BY TakenAreFree DEF IsRenamed
<1>3. s \in Seq(R)
  <2>1. s \in [1..n -> R]
    BY <1>1 DEF IsRenamed
  <2> HIDE DEF s, R
  <2> QED BY <1>1, <2>1
<1>4. RAT' = Overwrite(RAT, s)
  BY DEF Clock, RAT_next
<1> HIDE DEF s, R
<1>5. (\A d \in 1..n : dests[d] # a) => Overwrite(RAT, s)[a] = RAT[a]
  BY <1>1, <1>2, OverwriteKeeps
<1>6. ASSUME NEW d \in 1..n, dests[d] = a, \A x \in 1..n : dests[x] = a => x <= d
      PROVE  Overwrite(RAT, s)[a] = reg_idx_out[d]
  <2>1. d \in DOMAIN s /\ s[d].arn = a /\ \A x \in DOMAIN s : s[x].arn = a => x <= d
    BY <1>1, <1>2, <1>6
  <2> QED BY <1>2, <1>3, <2>1, OverwriteAt
<1> QED BY <1>4, <1>5, <1>6

\* A clock edge keeps the speculative map the program-order one: what commits
\* is written into RRAT first, what is renamed is written into RAT last.
LEMMA ClockProgramOrder ==
  ASSUME Inv, RATIsProgramOrder, NEW k \in 0..MaxCommit, NEW n \in 0..WAYS,
         NEW dests \in [1..n -> Dest], NEW res \in Broadcasts,
         Clock(k, res, dests)
  PROVE  RATIsProgramOrder'
<1> DEFINE m == Rest(k)
           L == Len(inflight)
<1>1. /\ k \in 0..L /\ L \in Nat /\ DOMAIN inflight = 1..L
      /\ inflight \in Seq(Instr) /\ TypeOK
  BY InvConserved DEF Inv, Conserved
<1>2. n \in Nat /\ m = L - k
  BY SizesAssumption DEF Rest
<1>3. /\ inflight' \in Seq(Instr)
      /\ m \in Nat
      /\ DOMAIN inflight' = 1..(m + n)
      /\ \A i \in 1..m :
           /\ inflight'[i].arn = inflight[k + i].arn
           /\ inflight'[i].prn = inflight[k + i].prn
      /\ \A i \in 1..n :
           /\ inflight'[m + i].arn = dests[i]
           /\ inflight'[m + i].prn = IF dests[i] = NoReg THEN P0 ELSE reg_idx_out[i]
  <2>1. WindowNext(k, n, dests, res)
    BY <1>1, ClockWindow
  <2> QED BY <2>1 DEF WindowNext
<1>4. RAT' \in [ARN -> PRN]
  BY ClockTypeOK DEF TypeOK
<1> HIDE DEF m, L
<1> SUFFICES ASSUME NEW a \in ARN PROVE RAT'[a] = Overwrite(RRAT', inflight')[a]
  <2>1. RAT' = [a \in ARN |-> RAT'[a]]
    BY <1>4
  <2>2. \A f, s : Overwrite(f, s) = [a \in ARN |-> Overwrite(f, s)[a]]
    BY DEF Overwrite
  <2>3. Overwrite(RRAT, inflight)' = Overwrite(RRAT', inflight')
    BY DEF Overwrite, Writers, Youngest
  <2> QED BY <2>1, <2>2, <2>3 DEF RATIsProgramOrder
<1>5. NoReg # a
  BY RegistersAssumption
<1>6. CASE \E d \in 1..n : dests[d] = a
  <2> DEFINE W == {d \in 1..n : dests[d] = a}
  <2>1. W \in SUBSET Nat /\ W # {} /\ \A d \in W : d <= n
    BY <1>2, <1>6
  <2>2. PICK d \in W : \A x \in W : x <= d
    <3> HIDE DEF W
    <3> QED BY <2>1, <1>2, GreatestNat
  <2>3. d \in 1..n /\ dests[d] = a /\ \A x \in 1..n : dests[x] = a => x <= d
    BY <2>2
  <2>4. RAT'[a] = reg_idx_out[d]
    BY <2>3, RATNextIs
  <2>5. m + d \in DOMAIN inflight' /\ inflight'[m + d].arn = a
        /\ inflight'[m + d].prn = reg_idx_out[d]
    BY <1>2, <1>3, <1>5, <2>3
  <2>6. ASSUME NEW j \in DOMAIN inflight', inflight'[j].arn = a PROVE j <= m + d
    <3>1. CASE j <= m
      BY <3>1, <1>2, <1>3, <2>3
    <3>2. CASE ~(j <= m)
      <4>1. j - m \in 1..n /\ j = m + (j - m)
        BY <3>2, <1>2, <1>3
      <4>2. dests[j - m] = a
        BY <4>1, <1>3, <2>6
      <4> QED BY <4>1, <4>2, <2>3, <1>2, <1>3
    <3> QED BY <3>1, <3>2
  <2>7. Overwrite(RRAT', inflight')[a] = inflight'[m + d].prn
    <3> DEFINE y == m + d
               w == inflight'
    <3>1. /\ w \in Seq(Instr) /\ y \in DOMAIN w /\ w[y].arn = a
          /\ \A j \in DOMAIN w : w[j].arn = a => j <= y
      BY <2>5, <2>6, <1>3
    <3> HIDE DEF y, w
    <3>2. Overwrite(RRAT', w)[a] = w[y].prn
      BY <3>1, OverwriteAt
    <3> QED BY <3>2 DEF y, w
  <2> QED BY <2>4, <2>5, <2>7
<1>7. CASE \A d \in 1..n : dests[d] # a
  <2>1. RAT'[a] = RAT[a] /\ RAT[a] = Overwrite(RRAT, inflight)[a]
    BY <1>7, RATNextIs DEF RATIsProgramOrder
  <2>2. \/ /\ \A j \in 1..k : inflight[j].arn # a
           /\ RRAT_next(k)[a] = RRAT[a]
        \/ \E i \in 1..k :
             /\ inflight[i].arn = a
             /\ \A j \in 1..k : inflight[j].arn = a => j <= i
             /\ RRAT_next(k)[a] = inflight[i].prn
    BY <1>1, RRATFrom DEF L
  <2>3. \/ /\ \A j \in DOMAIN inflight : inflight[j].arn # a
           /\ RAT'[a] = RRAT[a]
        \/ \E i \in DOMAIN inflight :
             /\ inflight[i].arn = a
             /\ \A j \in DOMAIN inflight : inflight[j].arn = a => j <= i
             /\ RAT'[a] = inflight[i].prn
    BY <1>1, <2>1, OverwriteFrom
  <2>4. RRAT' = RRAT_next(k)
    BY DEF Clock
  <2>5. \A j \in DOMAIN inflight' : inflight'[j].arn = a =>
          j \in 1..m /\ k + j \in DOMAIN inflight /\ inflight[k + j].arn = a
    <3> SUFFICES ASSUME NEW j \in DOMAIN inflight', inflight'[j].arn = a
                 PROVE  j \in 1..m /\ k + j \in DOMAIN inflight /\ inflight[k + j].arn = a
      OBVIOUS
    <3>1. CASE j <= m
      BY <3>1, <1>1, <1>2, <1>3
    <3>2. CASE ~(j <= m)
      <4>1. j - m \in 1..n /\ j = m + (j - m)
        BY <3>2, <1>2, <1>3
      <4> QED BY <4>1, <1>3, <1>7
    <3> QED BY <3>1, <3>2
  <2>6. CASE \A j \in DOMAIN inflight : j > k => inflight[j].arn # a
    <3>1. \A j \in DOMAIN inflight' : inflight'[j].arn # a
      <4> SUFFICES ASSUME NEW j \in DOMAIN inflight', inflight'[j].arn = a PROVE FALSE
        OBVIOUS
      <4>1. j \in 1..m /\ k + j \in DOMAIN inflight /\ inflight[k + j].arn = a
        BY <2>5
      <4>2. k + j > k
        BY <4>1, <1>1, <1>3
      <4> QED BY <4>1, <4>2, <2>6
    <3>2. Overwrite(RRAT', inflight')[a] = RRAT_next(k)[a]
      BY <3>1, <2>4, OverwriteKeeps
    <3>3. RAT'[a] = RRAT_next(k)[a]
      BY <1>1, <2>2, <2>3, <2>6
    <3> QED BY <3>2, <3>3
  <2>7. CASE \E j \in DOMAIN inflight : j > k /\ inflight[j].arn = a
    <3>1. PICK i \in DOMAIN inflight :
             /\ inflight[i].arn = a
             /\ \A j \in DOMAIN inflight : inflight[j].arn = a => j <= i
             /\ RAT'[a] = inflight[i].prn
      BY <2>3, <2>7
    <3>2. i > k
      BY <1>1, <2>7, <3>1
    <3>3. i - k \in 1..m /\ k + (i - k) = i /\ i - k \in DOMAIN inflight'
      BY <3>2, <1>1, <1>2, <1>3
    <3>4. inflight'[i - k].arn = a /\ inflight'[i - k].prn = inflight[i].prn
      BY <3>1, <3>3, <1>3
    <3>5. ASSUME NEW j \in DOMAIN inflight', inflight'[j].arn = a PROVE j <= i - k
      <4>1. k + j \in DOMAIN inflight /\ inflight[k + j].arn = a /\ j \in 1..m
        BY <2>5, <3>5
      <4>2. k + j <= i
        BY <3>1, <4>1
      <4> QED BY <4>1, <4>2, <1>1
    <3>6. Overwrite(RRAT', inflight')[a] = inflight'[i - k].prn
      <4> DEFINE y == i - k
                 w == inflight'
      <4>1. /\ w \in Seq(Instr) /\ y \in DOMAIN w /\ w[y].arn = a
            /\ \A j \in DOMAIN w : w[j].arn = a => j <= y
        BY <3>3, <3>4, <3>5, <1>3
      <4> HIDE DEF y, w
      <4>2. Overwrite(RRAT', w)[a] = w[y].prn
        BY <4>1, OverwriteAt
      <4> QED BY <4>2 DEF y, w
    <3> QED BY <3>1, <3>4, <3>6
  <2> QED BY <2>6, <2>7
<1> QED BY <1>6, <1>7

\* A map that nothing has written is itself.
LEMMA OverwriteEmpty ==
  ASSUME NEW f \in [ARN -> PRN]
  PROVE  Overwrite(f, <<>>) = f
<1>1. \A a \in ARN : Overwrite(f, <<>>)[a] = f[a]
  BY OverwriteKeeps
<1>2. Overwrite(f, <<>>) = [a \in ARN |-> Overwrite(f, <<>>)[a]]
  BY DEF Overwrite
<1> QED BY <1>1, <1>2

\* The map table that renaming reads always agrees with the instructions in
\* flight: it is the retired map as they, in program order, will leave it.
THEOREM ProgramOrder == Spec => []RATIsProgramOrder
<1>1. Init => RATIsProgramOrder
  <2> SUFFICES ASSUME Init PROVE RATIsProgramOrder
    OBVIOUS
  <2>1. RRAT \in [ARN -> PRN] /\ RAT = RRAT /\ inflight = <<>>
    BY RegistersAssumption DEF Init
  <2> QED BY <2>1, OverwriteEmpty DEF RATIsProgramOrder
<1>2. Inv /\ RATIsProgramOrder /\ [Next]_vars => RATIsProgramOrder'
  <2> SUFFICES ASSUME Inv, RATIsProgramOrder, [Next]_vars PROVE RATIsProgramOrder'
    OBVIOUS
  <2>1. Overwrite(RRAT, inflight)' = Overwrite(RRAT', inflight')
    BY DEF Overwrite, Writers, Youngest
  <2>2. ASSUME NEW k \in 0..MaxCommit, NEW res \in Broadcasts, NEW n \in 0..WAYS,
               NEW dests \in [1..n -> Dest], Clock(k, res, dests)
        PROVE  RATIsProgramOrder'
    BY <2>2, ClockProgramOrder
  <2>3. ASSUME NEW k \in 0..MaxCommit, NEW res \in Broadcasts, Except(k, res)
        PROVE  RATIsProgramOrder'
    <3>1. RRAT' \in [ARN -> PRN] /\ RAT' = RRAT' /\ inflight' = <<>>
      BY <2>3, InvConserved, RRATNextInjective DEF Except
    <3> QED BY <3>1, <2>1, OverwriteEmpty DEF RATIsProgramOrder
  <2>4. CASE UNCHANGED vars
    BY <2>4, <2>1 DEF vars, RATIsProgramOrder
  <2> QED BY <2>2, <2>3, <2>4 DEF Next
<1> QED BY <1>1, <1>2, InvHolds, PTL DEF Spec

-----------------------------------------------------------------------------
(* Valid bits and values, for programs that never load into x0.  For those  *)
(* that do FreshIsInvalid is false.                                         *)

NoX0Loads == X0 \notin Dest

\* Then only instructions that write a register carry a register number.
OnlyWritersNamed ==
  \A i \in DOMAIN inflight : inflight[i].prn # P0 => inflight[i].arn \in ARN

\* A register the bus names belongs to an instruction that has not produced
\* its result yet, and to nothing else.
LEMMA BusIsFresh ==
  ASSUME Inv, OnlyWritersNamed, NEW res \in Broadcasts, NEW p \in CDB_PRF_idx(res)
  PROVE  /\ p \notin Produced
         /\ \E i \in DOMAIN res : /\ i \in DOMAIN inflight /\ inflight[i].arn \in ARN
                                  /\ ~ inflight[i].done /\ inflight[i].prn = p
<1>1. PICK i \in DOMAIN res : inflight[i].prn = p /\ p # P0
  BY DEF CDB_PRF_idx, RegWrites
<1>2. i \in DOMAIN inflight /\ ~ inflight[i].done
  BY BroadcastsAre DEF Unfinished
<1>3. inflight[i].arn \in ARN
  BY <1>1, <1>2 DEF OnlyWritersNamed
<1>4. p \in Held /\ p \notin Image(RRAT)
  BY <1>1, <1>2, <1>3 DEF Held, Inv, NoSharedRegister
<1>5. p \notin Produced
  BY <1>1, <1>2, <1>3, <1>4 DEF Produced, Inv, NoSharedRegister
<1> QED BY <1>1, <1>2, <1>3, <1>5

\* A clock edge keeps the valid bits right: renaming clears the bit of the
\* register taken, a broadcast sets it, nothing else touches it (Validlist.sv).
LEMMA ClockValid ==
  ASSUME NoX0Loads, Inv, OnlyWritersNamed, ValidMeansProduced,
         NEW k \in 0..MaxCommit, NEW n \in 0..WAYS,
         NEW dests \in [1..n -> Dest], NEW res \in Broadcasts,
         Clock(k, res, dests)
  PROVE  OnlyWritersNamed' /\ ValidMeansProduced'
<1> DEFINE m == Rest(k)
<1>1. /\ k \in 0..Len(inflight) /\ Conserved /\ TypeOK
      /\ DOMAIN inflight = 1..Len(inflight)
  BY InvConserved DEF Inv
<1>2. /\ m \in Nat
      /\ DOMAIN inflight' = 1..(m + n)
      /\ \A i \in 1..m :
           /\ k + i \in DOMAIN inflight
           /\ inflight'[i].arn = inflight[k + i].arn
           /\ inflight'[i].prn = inflight[k + i].prn
           /\ inflight'[i].done = (inflight[k + i].done \/ k + i \in DOMAIN res)
      /\ \A i \in 1..n :
           /\ inflight'[m + i].arn = dests[i]
           /\ inflight'[m + i].prn = IF dests[i] = NoReg THEN P0 ELSE reg_idx_out[i]
           /\ ~ inflight'[m + i].done
  <2>1. WindowNext(k, n, dests, res)
    BY <1>1, ClockWindow
  <2> QED BY <2>1 DEF WindowNext
<1>3. n \in Nat
  BY SizesAssumption
<1> HIDE DEF m
<1>4. ASSUME NEW i \in DOMAIN inflight', ~(i \in 1..m)
      PROVE  i - m \in 1..n /\ i = m + (i - m)
  BY <1>2, <1>3, <1>4
<1>5. OnlyWritersNamed'
  <2> SUFFICES ASSUME NEW i \in DOMAIN inflight', inflight'[i].prn # P0
               PROVE  inflight'[i].arn \in ARN
    BY DEF OnlyWritersNamed
  <2>1. CASE i \in 1..m
    BY <2>1, <1>2 DEF OnlyWritersNamed
  <2>2. CASE ~(i \in 1..m)
    <3>1. i - m \in 1..n /\ inflight'[i].arn = dests[i - m] /\ dests[i - m] # NoReg
      BY <2>2, <1>2, <1>4
    <3> QED BY <3>1, RegistersAssumption DEF NoX0Loads
  <2> QED BY <2>1, <2>2
<1>6. Taken(dests) = {reg_idx_out[i] : i \in {j \in 1..n : dests[j] \in ARN}}
      /\ Taken(dests) \cap (Image(RRAT) \cup Held) = {}
  BY TakenAreFree
<1>7. valid_RAT' = (valid_RAT \cup CDB_PRF_idx(res)) \ Taken(dests)
  BY DEF Clock, valid_RAT_next
<1>8. FreshIsInvalid'
  <2> SUFFICES ASSUME NEW i \in DOMAIN inflight', inflight'[i].arn \in ARN, ~ inflight'[i].done
               PROVE  inflight'[i].prn \notin valid_RAT'
    BY DEF FreshIsInvalid
  <2>1. CASE i \in 1..m
    <3>1. /\ k + i \in DOMAIN inflight /\ inflight[k + i].arn \in ARN
          /\ ~ inflight[k + i].done /\ k + i \notin DOMAIN res
          /\ inflight'[i].prn = inflight[k + i].prn
      BY <2>1, <1>2
    <3>2. inflight[k + i].prn \notin valid_RAT
      BY <3>1 DEF ValidMeansProduced, FreshIsInvalid
    <3>3. inflight[k + i].prn \notin CDB_PRF_idx(res)
      BY <3>1, BusIsFresh DEF Inv, NoSharedRegister
    <3> QED BY <3>1, <3>2, <3>3, <1>7
  <2>2. CASE ~(i \in 1..m)
    <3>1. i - m \in 1..n /\ inflight'[i].arn = dests[i - m]
          /\ inflight'[i].prn = IF dests[i - m] = NoReg THEN P0 ELSE reg_idx_out[i - m]
      BY <2>2, <1>2, <1>4
    <3>2. inflight'[i].prn \in Taken(dests)
      BY <3>1, <1>6, RegistersAssumption
    <3> QED BY <3>2, <1>7
  <2> QED BY <2>1, <2>2
<1>9. Image(RRAT)' = (Image(RRAT) \cup Entering(k)) \ Leaving(k)
  <2>1. Image(RRAT)' = Image(RRAT_next(k))
    BY DEF Clock, Image
  <2> QED BY <2>1, <1>1, RetiredRegisters
<1>10. Entering(k) \subseteq Produced /\ Entering(k) \subseteq Held
  <2>1. \A i \in 1..k : i \in DOMAIN inflight /\ inflight[i].done
    BY <1>1, OldestIs DEF Clock, Committable, Conserved
  <2> QED BY <2>1, <1>1, RetiredRegisters DEF Entering, Retiring, Produced
<1>11. Produced' \subseteq valid_RAT'
  <2> SUFFICES ASSUME NEW p \in Produced' PROVE p \in valid_RAT'
    OBVIOUS
  <2>1. Produced \subseteq valid_RAT /\ Image(RRAT) \subseteq Produced
    BY DEF ValidMeansProduced, Produced
  <2>2. CASE p \in Image(RRAT)'
    BY <2>1, <2>2, <1>6, <1>7, <1>9, <1>10
  <2>3. CASE p \notin Image(RRAT)'
    <3>1. PICK i \in DOMAIN inflight' :
            inflight'[i].arn \in ARN /\ inflight'[i].done /\ inflight'[i].prn = p
      BY <2>3 DEF Produced
    <3>2. i \in 1..m
      BY <3>1, <1>2, <1>4
    <3>3. /\ k + i \in DOMAIN inflight /\ inflight[k + i].arn \in ARN
          /\ inflight[k + i].prn = p
          /\ inflight[k + i].done \/ k + i \in DOMAIN res
      BY <3>1, <3>2, <1>2
    <3>4. p \in Held /\ p # P0
      BY <3>3 DEF Held, Inv, NeverOutOfRegisters
    <3>5. p \in valid_RAT \cup CDB_PRF_idx(res)
      BY <3>3, <3>4, <2>1 DEF Produced, CDB_PRF_idx, RegWrites
    <3> QED BY <3>4, <3>5, <1>6, <1>7
  <2> QED BY <2>2, <2>3
<1>12. Image(RRAT)' \subseteq valid_RRAT'
  BY <1>9 DEF Clock, valid_RRAT_next, ValidMeansProduced
<1> QED BY <1>5, <1>8, <1>11, <1>12 DEF ValidMeansProduced

\* So does the clock edge of a misprediction, which copies the retired bits.
LEMMA ExceptValid ==
  ASSUME Inv, ValidMeansProduced, NEW k \in 0..MaxCommit, NEW res, Except(k, res)
  PROVE  OnlyWritersNamed' /\ ValidMeansProduced'
<1>1. k \in 0..Len(inflight) /\ Conserved
  BY InvConserved
<1>2. inflight' = <<>> /\ DOMAIN inflight' = {}
  BY DEF Except
<1>3. Image(RRAT)' = Image(RRAT_next(k))
  BY DEF Except, Image
<1>4. Image(RRAT)' = (Image(RRAT) \cup Entering(k)) \ Leaving(k)
  BY <1>1, <1>3, RetiredRegisters
<1>5. Image(RRAT)' \subseteq valid_RRAT' /\ valid_RAT' = valid_RRAT'
  BY <1>4 DEF Except, valid_RRAT_next, ValidMeansProduced
<1> QED BY <1>2, <1>5 DEF OnlyWritersNamed, ValidMeansProduced, FreshIsInvalid, Produced

\* The valid bits are right in every reachable state of a program without
\* loads into x0; the bus names registers of renamed instructions only.
LEMMA ValidInvHolds ==
  ASSUME NoX0Loads
  PROVE  Spec => [](OnlyWritersNamed /\ ValidMeansProduced)
<1> DEFINE V == OnlyWritersNamed /\ ValidMeansProduced
<1>1. Init => V
  <2> SUFFICES ASSUME Init PROVE V
    OBVIOUS
  <2>1. DOMAIN inflight = {} /\ Image(RRAT) = ARN /\ valid_RAT = ARN /\ valid_RRAT = ARN
    BY DEF Init, Image
  <2> QED BY <2>1 DEF OnlyWritersNamed, ValidMeansProduced, FreshIsInvalid, Produced
<1>2. Inv /\ V /\ [Next]_vars => V'
  <2> SUFFICES ASSUME Inv, V, [Next]_vars PROVE V'
    OBVIOUS
  <2>1. ASSUME NEW k \in 0..MaxCommit, NEW res \in Broadcasts, NEW n \in 0..WAYS,
               NEW dests \in [1..n -> Dest], Clock(k, res, dests)
        PROVE  V'
    BY <2>1, ClockValid
  <2>2. ASSUME NEW k \in 0..MaxCommit, NEW res \in Broadcasts, Except(k, res)
        PROVE  V'
    BY <2>2, ExceptValid
  <2>3. CASE UNCHANGED vars
    BY <2>3 DEF vars, OnlyWritersNamed, ValidMeansProduced, FreshIsInvalid, Produced, Image
  <2> QED BY <2>1, <2>2, <2>3 DEF Next
<1> HIDE DEF V
<1>3. Spec => []V
  BY <1>1, <1>2, InvHolds, PTL DEF Spec
<1> QED BY <1>3 DEF V

\* In a program without loads into x0 the valid bits of the registers in use
\* mean what Validlist.sv says they mean: the value has been produced.
THEOREM ValidBits ==
  ASSUME NoX0Loads
  PROVE  Spec => []ValidMeansProduced
<1>1. Spec => [](OnlyWritersNamed /\ ValidMeansProduced)
  BY ValidInvHolds
<1> QED BY <1>1, PTL

\* In such a program no result is overwritten while anyone can still read it.
THEOREM ResultsStable ==
  ASSUME NoX0Loads
  PROVE  Spec => ProducedValuesStable
<1>1. Inv /\ OnlyWritersNamed /\ ValidMeansProduced /\ [Next]_vars
        => [\A p \in Produced : prf'[p] = prf[p]]_vars
  <2> SUFFICES ASSUME Inv, OnlyWritersNamed, [Next]_vars, ~ UNCHANGED vars,
                      NEW p \in Produced
               PROVE  prf'[p] = prf[p]
    OBVIOUS
  <2>1. p \in PRN
    <3>1. HeldIsReal /\ RRAT \in [ARN -> PRN]
      BY InvConserved DEF Conserved
    <3> QED BY <3>1 DEF Produced, HeldIsReal, Image
  <2>2. ASSUME NEW res \in Broadcasts, prf' = prf_next(res) PROVE prf'[p] = prf[p]
    BY <2>1, <2>2, BusIsFresh DEF prf_next
  <2>3. PICK k \in 0..MaxCommit, res \in Broadcasts :
          \/ \E n \in 0..WAYS : \E dests \in [1..n -> Dest] : Clock(k, res, dests)
          \/ Except(k, res)
    BY DEF Next
  <2>4. prf' = prf_next(res)
    BY <2>3 DEF Clock, Except
  <2> QED BY <2>2, <2>4
<1>2. Spec => [](OnlyWritersNamed /\ ValidMeansProduced)
  BY ValidInvHolds
<1> QED BY <1>1, <1>2, InvHolds, PTL DEF Spec, ProducedValuesStable

-----------------------------------------------------------------------------
(* Renaming implements the register file updated in program order.          *)

\* What the step simulation needs of a state.
SInv == Inv /\ RATIsProgramOrder /\ OnlyWritersNamed /\ ValidMeansProduced

\* The abstract window, entry by entry.
LEMMA AbsWindowIs ==
  ASSUME inflight \in Seq(Instr)
  PROVE  /\ DOMAIN AbsWindow = DOMAIN inflight
         /\ AbsWindow \in Seq({AbsWindow[i] : i \in DOMAIN inflight})
         /\ Len(AbsWindow) = Len(inflight)
         /\ \A i \in DOMAIN inflight :
              AbsWindow[i] = [arn  |-> IF inflight[i].arn \in ARN THEN inflight[i].arn ELSE NoReg,
                              done |-> inflight[i].done,
                              val  |-> IF inflight[i].arn \in ARN /\ inflight[i].done
                                       THEN prf[inflight[i].prn] ELSE Zero]
<1> DEFINE R == {AbsWindow[i] : i \in DOMAIN inflight}
<1>1. DOMAIN inflight = 1..Len(inflight) /\ Len(inflight) \in Nat
  OBVIOUS
<1>2. AbsWindow \in [1..Len(inflight) -> R]
  BY <1>1 DEF AbsWindow
<1>3. AbsWindow \in Seq(R) /\ Len(AbsWindow) = Len(inflight)
  <2> HIDE DEF R
  <2> QED BY <1>1, <1>2, LenProperties
<1> QED BY <1>1, <1>3 DEF AbsWindow

\* The last writer of a register in a window.
LEMMA LastWriterIs ==
  ASSUME NEW s, DOMAIN s \subseteq Nat, NEW a, NEW i \in DOMAIN s, s[i].arn = a,
         \A j \in DOMAIN s : s[j].arn = a => j <= i
  PROVE  InOrder!WritersOf(s, a) # {} /\ InOrder!LastWriter(s, a) = i
<1>1. i \in InOrder!WritersOf(s, a) /\ \A j \in InOrder!WritersOf(s, a) : j \in Nat /\ j <= i
  BY DEF InOrder!WritersOf
<1> QED BY <1>1 DEF InOrder!LastWriter

\* What has been produced stays as it is when the bus writes.
LEMMA ProducedStays ==
  ASSUME SInv, NEW res \in Broadcasts, NEW p \in Produced
  PROVE  p \in PRN /\ prf_next(res)[p] = prf[p]
<1>1. p \in PRN
  <2>1. HeldIsReal /\ RRAT \in [ARN -> PRN]
    BY InvConserved DEF SInv, Conserved
  <2> QED BY <2>1 DEF Produced, HeldIsReal, Image
<1> QED BY <1>1, BusIsFresh DEF prf_next, SInv

\* The oldest instructions of the abstract window.
LEMMA AbsOldest ==
  ASSUME inflight \in Seq(Instr), NEW k \in 0..Len(inflight)
  PROVE  /\ DOMAIN SubSeq(AbsWindow, 1, k) = 1..k
         /\ \A i \in 1..k : i \in DOMAIN inflight /\ SubSeq(AbsWindow, 1, k)[i] = AbsWindow[i]
<1> DEFINE R == {AbsWindow[i] : i \in DOMAIN inflight}
<1>1. AbsWindow \in Seq(R) /\ Len(AbsWindow) = Len(inflight) /\ Len(inflight) \in Nat
      /\ DOMAIN inflight = 1..Len(inflight)
  BY AbsWindowIs
<1> HIDE DEF R
<1>2. \A i \in 1..k : AbsWindow[i] \in R
  BY <1>1, ElementOfSeq
<1>3. /\ SubSeq(AbsWindow, 1, k) \in Seq(R)
      /\ Len(SubSeq(AbsWindow, 1, k)) = k
      /\ \A i \in 1..k : SubSeq(AbsWindow, 1, k)[i] = AbsWindow[i]
  BY <1>1, <1>2, SubSeqProperties
<1> QED BY <1>1, <1>3

\* The committed registers after an edge are what the abstract machine commits.
LEMMA CommitIs ==
  ASSUME SInv, NEW k \in 0..MaxCommit, NEW res \in Broadcasts, Committable(k),
         RRAT' = RRAT_next(k), prf' = prf_next(res)
  PROVE  [a \in ARN |-> prf'[RRAT'[a]]] = InOrder!Commit(k)
<1> DEFINE old == SubSeq(AbsWindow, 1, k)
           new(a) == IF InOrder!WritersOf(old, a) = {} THEN prf[RRAT[a]] ELSE old[InOrder!LastWriter(old, a)].val
<1>1. /\ inflight \in Seq(Instr) /\ k \in 0..Len(inflight) /\ Len(inflight) \in Nat
      /\ RRAT \in [ARN -> PRN]
  BY InvConserved DEF SInv, Inv, TypeOK
<1>2. /\ DOMAIN old = 1..k
      /\ \A i \in 1..k : i \in DOMAIN inflight /\ old[i] = AbsWindow[i]
  BY <1>1, AbsOldest
<1>3. \A i \in 1..k : /\ old[i].arn = IF inflight[i].arn \in ARN THEN inflight[i].arn ELSE NoReg
                      /\ inflight[i].arn \in ARN => old[i].val = prf[inflight[i].prn]
  <2> SUFFICES ASSUME NEW i \in 1..k
               PROVE  /\ old[i].arn = IF inflight[i].arn \in ARN THEN inflight[i].arn ELSE NoReg
                      /\ inflight[i].arn \in ARN => old[i].val = prf[inflight[i].prn]
    OBVIOUS
  <2> HIDE DEF old
  <2>1. i \in DOMAIN inflight /\ old[i] = AbsWindow[i] /\ inflight[i].done
    BY <1>2 DEF Committable
  <2>2. AbsWindow[i] = [arn  |-> IF inflight[i].arn \in ARN THEN inflight[i].arn ELSE NoReg,
                        done |-> inflight[i].done,
                        val  |-> IF inflight[i].arn \in ARN /\ inflight[i].done
                                 THEN prf[inflight[i].prn] ELSE Zero]
    BY <1>1, <2>1, AbsWindowIs
  <2> QED BY <2>1, <2>2
<1> HIDE DEF old
<1>4. ASSUME NEW a \in ARN PROVE prf'[RRAT'[a]] = new(a)
  <2>1. CASE /\ \A j \in 1..k : inflight[j].arn # a
             /\ RRAT_next(k)[a] = RRAT[a]
    <3>1. InOrder!WritersOf(old, a) = {}
      BY <2>1, <1>2, <1>3, RegistersAssumption DEF InOrder!WritersOf
    <3>2. RRAT[a] \in Produced
      BY <1>1 DEF Produced, Image
    <3> QED BY <2>1, <3>1, <3>2, ProducedStays
  <2>2. ASSUME NEW i \in 1..k, inflight[i].arn = a,
               \A j \in 1..k : inflight[j].arn = a => j <= i,
               RRAT_next(k)[a] = inflight[i].prn
        PROVE  prf'[RRAT'[a]] = new(a)
    <3>1. i \in DOMAIN old /\ old[i].arn = a /\ \A j \in DOMAIN old : old[j].arn = a => j <= i
      BY <2>2, <1>2, <1>3, RegistersAssumption
    <3>2. InOrder!WritersOf(old, a) # {} /\ InOrder!LastWriter(old, a) = i
      BY <3>1, <1>2, LastWriterIs
    <3>3. inflight[i].prn \in Produced
      BY <2>2, <1>2 DEF Produced, Committable
    <3> QED BY <2>2, <1>3, <3>2, <3>3, ProducedStays
  <2> QED BY <1>1, <2>1, <2>2, RRATFrom
<1> QED BY <1>4 DEF InOrder!Commit, old

\* An instruction that stays keeps its result or gets it from the bus.
LEMMA EntriesProgress ==
  ASSUME SInv, NEW k \in 0..MaxCommit, NEW n \in 0..WAYS, NEW dests \in [1..n -> Dest],
         NEW res \in Broadcasts, Clock(k, res, dests), NEW i \in 1..Rest(k)
  PROVE  InOrder!Progresses(AbsWindow[k + i], (AbsWindow')[i])
<1> DEFINE j == k + i
           old == AbsWindow[j]
           new == (AbsWindow')[i]
<1>1. Inv /\ TypeOK /\ inflight \in Seq(Instr) /\ k \in 0..Len(inflight)
  BY InvConserved DEF SInv, Inv, TypeOK
<1>2. WindowNext(k, n, dests, res)
  BY <1>1, ClockWindow
<1>3. /\ j \in DOMAIN inflight
      /\ i \in DOMAIN inflight'
      /\ inflight'[i].arn = inflight[j].arn
      /\ inflight'[i].prn = inflight[j].prn
      /\ inflight'[i].done = (inflight[j].done \/ j \in DOMAIN res)
  <2>1. n \in Nat
    OBVIOUS
  <2> QED BY <1>2, <2>1 DEF WindowNext
<1>4. prf' = prf_next(res)
  BY DEF Clock
<1>5. inflight[j] \in Instr
  BY <1>1, <1>3, ElementOfSeq
<1>6. old = [arn  |-> IF inflight[j].arn \in ARN THEN inflight[j].arn ELSE NoReg,
             done |-> inflight[j].done,
             val  |-> IF inflight[j].arn \in ARN /\ inflight[j].done THEN prf[inflight[j].prn] ELSE Zero]
  BY <1>3 DEF AbsWindow
<1>7. new = [arn  |-> IF inflight[j].arn \in ARN THEN inflight[j].arn ELSE NoReg,
             done |-> inflight[j].done \/ j \in DOMAIN res,
             val  |-> IF inflight[j].arn \in ARN /\ (inflight[j].done \/ j \in DOMAIN res)
                      THEN prf_next(res)[inflight[j].prn] ELSE Zero]
  BY <1>3, <1>4 DEF AbsWindow
<1> HIDE DEF old, new, j
<1>8. CASE inflight[j].done
  <2>1. inflight[j].arn \in ARN => prf_next(res)[inflight[j].prn] = prf[inflight[j].prn]
    <3> SUFFICES ASSUME inflight[j].arn \in ARN PROVE prf_next(res)[inflight[j].prn] = prf[inflight[j].prn]
      OBVIOUS
    <3>1. inflight[j].prn \in Produced
      BY <1>3, <1>8 DEF Produced
    <3> QED BY <3>1, ProducedStays
  <2>2. (inflight[j].done \/ j \in DOMAIN res) = inflight[j].done
    BY <1>5, <1>8 DEF Instr
  <2>3. new = old
    <3> DEFINE x == inflight[j].done \/ j \in DOMAIN res
    <3>1. x = inflight[j].done
      BY <2>2
    <3>2. new = [arn  |-> IF inflight[j].arn \in ARN THEN inflight[j].arn ELSE NoReg,
                 done |-> x,
                 val  |-> IF inflight[j].arn \in ARN /\ x THEN prf_next(res)[inflight[j].prn] ELSE Zero]
      BY <1>7, Zenon
    <3> HIDE DEF x
    <3>3. (IF inflight[j].arn \in ARN /\ x THEN prf_next(res)[inflight[j].prn] ELSE Zero)
            = (IF inflight[j].arn \in ARN /\ inflight[j].done THEN prf[inflight[j].prn] ELSE Zero)
      BY <2>1, <3>1, <1>8
    <3> QED BY <1>6, <3>1, <3>2, <3>3, Zenon
  <2> QED BY <2>3 DEF InOrder!Progresses, old, new, j
<1>9. CASE ~inflight[j].done /\ j \in DOMAIN res
  <2> DEFINE v == new.val
             b == IF inflight[j].arn \in ARN THEN inflight[j].arn ELSE NoReg
  <2>1. old = [arn |-> b, done |-> FALSE, val |-> Zero]
    <3>1. inflight[j].done = FALSE
      BY <1>5, <1>9 DEF Instr
    <3>2. (IF inflight[j].arn \in ARN /\ inflight[j].done THEN prf[inflight[j].prn] ELSE Zero) = Zero
      BY <1>9
    <3> QED BY <1>6, <3>1, <3>2, Zenon
  <2>2. new = [arn |-> b, done |-> TRUE, val |-> v]
    <3>1. (inflight[j].done \/ j \in DOMAIN res) = TRUE
      BY <1>9
    <3>2. new.val = IF inflight[j].arn \in ARN /\ (inflight[j].done \/ j \in DOMAIN res)
                    THEN prf_next(res)[inflight[j].prn] ELSE Zero
      BY <1>7
    <3> QED BY <1>7, <3>1, <3>2, Zenon
  <2>3. v \in IF old.arn = NoReg THEN {Zero} ELSE Val
    <3>1. old.arn = NoReg <=> inflight[j].arn \notin ARN
      BY <1>6, RegistersAssumption
    <3>2. CASE inflight[j].arn \notin ARN
      BY <3>1, <3>2, <1>7
    <3>3. CASE inflight[j].arn \in ARN
      <4>1. inflight[j].prn \in PRN
        BY <1>1, <1>3, <3>3, InvConserved DEF Conserved, HeldIsReal
      <4>2. prf_next(res)[inflight[j].prn] \in Val
        BY <1>1, <4>1, ResultsType
      <4> QED BY <3>1, <3>3, <1>7, <1>9, <4>2
    <3> QED BY <3>2, <3>3
  <2>4. new = [old EXCEPT !.done = TRUE, !.val = v] /\ ~old.done
    <3> HIDE DEF v, b
    <3>1. old.done = FALSE
      BY <2>1
    <3> DEFINE f == FALSE
               t == TRUE
    <3>2. old = [arn |-> b, done |-> f, val |-> Zero] /\ new = [arn |-> b, done |-> t, val |-> v]
      BY <2>1, <2>2
    <3> HIDE DEF f, t
    <3>3. [[arn |-> b, done |-> f, val |-> Zero] EXCEPT !.done = t, !.val = v] = [arn |-> b, done |-> t, val |-> v]
      <4> DEFINE r == [arn |-> b, done |-> f, val |-> Zero]
                 s == [arn |-> b, done |-> t, val |-> Zero]
      <4>1. [r EXCEPT !.done = t] = s
        OBVIOUS
      <4>2. [s EXCEPT !.val = v] = [arn |-> b, done |-> t, val |-> v]
        OBVIOUS
      <4> HIDE DEF r
      <4>3. [r EXCEPT !.done = t, !.val = v] = [[r EXCEPT !.done = t] EXCEPT !.val = v]
        OBVIOUS
      <4> QED BY <4>1, <4>2, <4>3, Zenon DEF r
    <3>4. new = [old EXCEPT !.done = t, !.val = v]
      BY <3>2, <3>3, Zenon
    <3> QED BY <3>1, <3>4 DEF t
  <2>5. \E u \in IF old.arn = NoReg THEN {Zero} ELSE Val : new = [old EXCEPT !.done = TRUE, !.val = u]
    BY <2>3, <2>4
  <2> QED BY <2>4, <2>5 DEF InOrder!Progresses, old, new, j
<1>10. CASE ~inflight[j].done /\ j \notin DOMAIN res
  <2>1. (inflight[j].done \/ j \in DOMAIN res) = inflight[j].done
    BY <1>5, <1>10 DEF Instr
  <2>2. new = old
    <3> DEFINE x == inflight[j].done \/ j \in DOMAIN res
    <3>1. x = inflight[j].done
      BY <2>1
    <3>2. new = [arn  |-> IF inflight[j].arn \in ARN THEN inflight[j].arn ELSE NoReg,
                 done |-> x,
                 val  |-> IF inflight[j].arn \in ARN /\ x THEN prf_next(res)[inflight[j].prn] ELSE Zero]
      BY <1>7, Zenon
    <3> HIDE DEF x
    <3>3. (IF inflight[j].arn \in ARN /\ x THEN prf_next(res)[inflight[j].prn] ELSE Zero)
            = (IF inflight[j].arn \in ARN /\ inflight[j].done THEN prf[inflight[j].prn] ELSE Zero)
      BY <3>1, <1>10
    <3> QED BY <1>6, <3>1, <3>2, <3>3, Zenon
  <2> QED BY <2>2 DEF InOrder!Progresses, old, new, j
<1> QED BY <1>8, <1>9, <1>10

\* What a way of the bundle looks like behind them.
LEMMA EntriesFresh ==
  ASSUME SInv, NEW k \in 0..MaxCommit, NEW n \in 0..WAYS, NEW dests \in [1..n -> Dest],
         NEW res \in Broadcasts, Clock(k, res, dests), NEW i \in 1..n
  PROVE  /\ Rest(k) + i \in DOMAIN inflight'
         /\ (AbsWindow')[Rest(k) + i] \in InOrder!Fresh
<1>1. TypeOK /\ k \in 0..Len(inflight)
  BY InvConserved DEF SInv, Inv
<1>2. WindowNext(k, n, dests, res)
  BY <1>1, ClockWindow
<1>3. Rest(k) + i \in DOMAIN inflight' /\ ~inflight'[Rest(k) + i].done
  <2>1. /\ DOMAIN inflight' = 1..(Rest(k) + n) /\ Rest(k) \in Nat
        /\ ~inflight'[Rest(k) + i].done
    BY <1>2 DEF WindowNext
  <2> DEFINE m == Rest(k)
  <2>2. m \in Nat /\ n \in Nat
    BY <2>1
  <2> HIDE DEF m
  <2>3. m + i \in 1..(m + n)
    BY <2>2
  <2> QED BY <2>1, <2>3 DEF m
<1>4. (AbsWindow')[Rest(k) + i]
        = [arn  |-> IF inflight'[Rest(k) + i].arn \in ARN THEN inflight'[Rest(k) + i].arn ELSE NoReg,
           done |-> inflight'[Rest(k) + i].done,
           val  |-> IF inflight'[Rest(k) + i].arn \in ARN /\ inflight'[Rest(k) + i].done
                    THEN prf'[inflight'[Rest(k) + i].prn] ELSE Zero]
  BY <1>3 DEF AbsWindow
<1>5. inflight'[Rest(k) + i].done = FALSE
  <2>1. inflight' \in Seq(Instr)
    BY <1>2 DEF WindowNext
  <2>2. inflight'[Rest(k) + i] \in Instr
    BY <2>1, <1>3, ElementOfSeq
  <2> QED BY <2>2, <1>3 DEF Instr
<1> DEFINE e == (AbsWindow')[Rest(k) + i]
<1>6. e = [arn |-> IF inflight'[Rest(k) + i].arn \in ARN THEN inflight'[Rest(k) + i].arn ELSE NoReg,
           done |-> FALSE, val |-> Zero]
  BY <1>4, <1>5
<1>7. e \in InOrder!Fresh
  <2> HIDE DEF e
  <2> QED BY <1>6 DEF InOrder!Fresh
<1> QED BY <1>3, <1>7

\* What way i reads in the map, register by register.
LEMMA TmpIs ==
  ASSUME SInv, NEW k \in 0..MaxCommit, NEW n \in 0..WAYS, NEW dests \in [1..n -> Dest],
         NEW res \in Broadcasts, Clock(k, res, dests), NEW i \in 1..n, NEW a \in ARN
  PROVE  /\ (\A d \in 1..(i - 1) : dests[d] # a) => RAT_tmp(dests, i)[a] = RAT[a]
         /\ \A d \in 1..(i - 1) :
              dests[d] = a /\ (\A x \in 1..(i - 1) : dests[x] = a => x <= d)
                => RAT_tmp(dests, i)[a] = reg_idx_out[d]
<1> DEFINE s == IsRenamed(dests)
           R == {s[j] : j \in 1..n}
           t == SubSeq(s, 1, i - 1)
<1>1. n \in Nat /\ DOMAIN s = 1..n /\ Inv
  BY SizesAssumption DEF IsRenamed, SInv
<1>2. \A d \in 1..n : s[d].arn = dests[d] /\ s[d].prn = reg_idx_out[d]
  BY <1>1, TakenAreFree DEF IsRenamed
<1>3. t \in Seq(R) /\ Len(t) = i - 1 /\ \A d \in 1..(i - 1) : t[d] = s[d]
  <2>1. \A d \in 1..(i - 1) : s[d] \in R
    BY <1>1
  <2> HIDE DEF s, R
  <2> QED BY <1>1, <2>1, SubSeqProperties
<1>4. DOMAIN t = 1..(i - 1)
  BY <1>3, LenProperties
<1>5. \A d \in 1..(i - 1) : t[d].arn = dests[d] /\ t[d].prn = reg_idx_out[d]
  BY <1>1, <1>2, <1>3
<1>6. RAT_tmp(dests, i) = Overwrite(RAT, t)
  BY DEF RAT_tmp
<1> HIDE DEF s, R, t
<1>7. (\A d \in 1..(i - 1) : dests[d] # a) => Overwrite(RAT, t)[a] = RAT[a]
  BY <1>4, <1>5, OverwriteKeeps
<1>8. ASSUME NEW d \in 1..(i - 1), dests[d] = a, \A x \in 1..(i - 1) : dests[x] = a => x <= d
      PROVE  Overwrite(RAT, t)[a] = reg_idx_out[d]
  <2>1. d \in DOMAIN t /\ t[d].arn = a /\ \A x \in DOMAIN t : t[x].arn = a => x <= d
    BY <1>4, <1>5, <1>8
  <2> QED BY <1>3, <1>5, <2>1, OverwriteAt
<1> QED BY <1>6, <1>7, <1>8

\* The abstract window after an edge, as a register's reader looks at it.
LEMMA AbsWindowNext ==
  ASSUME SInv', NEW m \in 0..Len(inflight')
  PROVE  /\ Len(AbsWindow') = Len(inflight')
         /\ inflight' = <<>> => AbsWindow' = <<>>
         /\ DOMAIN SubSeq(AbsWindow', 1, m) = 1..m
         /\ \A x \in 1..m : /\ x \in DOMAIN inflight'
                            /\ SubSeq(AbsWindow', 1, m)[x] = (AbsWindow')[x]
         /\ \A x \in DOMAIN inflight', a \in ARN : (AbsWindow')[x].arn = a <=> inflight'[x].arn = a
         /\ \A x \in DOMAIN inflight' : (AbsWindow')[x].done = inflight'[x].done
         /\ \A x \in DOMAIN inflight' : inflight'[x].arn \in ARN /\ inflight'[x].done =>
              (AbsWindow')[x].val = prf'[inflight'[x].prn]
<1> DEFINE R == {(AbsWindow')[i] : i \in DOMAIN inflight'}
<1>1. inflight' \in Seq(Instr) /\ DOMAIN inflight' = 1..Len(inflight') /\ Len(inflight') \in Nat
  BY DEF SInv, Inv, TypeOK
<1>2. AbsWindow' \in [1..Len(inflight') -> R]
  BY <1>1 DEF AbsWindow
<1>3. AbsWindow' \in Seq(R) /\ Len(AbsWindow') = Len(inflight')
  <2> HIDE DEF R
  <2> QED BY <1>1, <1>2, LenProperties
<1>4. \A x \in 1..m : (AbsWindow')[x] \in R
  BY <1>1
<1> HIDE DEF R
<1>10. inflight' = <<>> => AbsWindow' = <<>>
  <2> SUFFICES ASSUME inflight' = <<>> PROVE AbsWindow' = <<>>
    OBVIOUS
  <2>1. AbsWindow' \in Seq(R) /\ Len(AbsWindow') = 0
    BY <1>3
  <2> QED BY <2>1
<1>5. /\ SubSeq(AbsWindow', 1, m) \in Seq(R)
      /\ Len(SubSeq(AbsWindow', 1, m)) = m
      /\ \A x \in 1..m : SubSeq(AbsWindow', 1, m)[x] = (AbsWindow')[x]
  BY <1>1, <1>3, <1>4, SubSeqProperties
<1>6. ASSUME NEW x \in DOMAIN inflight'
      PROVE  /\ (AbsWindow')[x].arn = IF inflight'[x].arn \in ARN THEN inflight'[x].arn ELSE NoReg
             /\ (AbsWindow')[x].done = inflight'[x].done
             /\ (AbsWindow')[x].val = IF inflight'[x].arn \in ARN /\ inflight'[x].done
                                      THEN prf'[inflight'[x].prn] ELSE Zero
  BY DEF AbsWindow
<1>7. DOMAIN SubSeq(AbsWindow', 1, m) = 1..m
  BY <1>5, LenProperties
<1>8. \A x \in DOMAIN inflight', a \in ARN : (AbsWindow')[x].arn = a <=> inflight'[x].arn = a
  BY <1>6, RegistersAssumption
<1>9. \A x \in 1..m : x \in DOMAIN inflight'
  BY <1>1
<1> QED BY <1>3, <1>5, <1>6, <1>7, <1>8, <1>9, <1>10

\* A reader finds the last writer in front of it.
LEMMA ReadsWriter ==
  ASSUME SInv', NEW m \in Nat, NEW i \in Nat \ {0}, m + i - 1 <= Len(inflight'),
         NEW a \in ARN, NEW regs, NEW j \in 1..(m + i - 1), inflight'[j].arn = a,
         \A x \in 1..(m + i - 1) : inflight'[x].arn = a => x <= j
  PROVE  InOrder!Read(AbsWindow', regs, m, i, a)
           = IF inflight'[j].done
             THEN [way |-> i, arn |-> a, ready |-> TRUE, val |-> prf'[inflight'[j].prn], from |-> 0]
             ELSE [way |-> i, arn |-> a, ready |-> FALSE, val |-> Zero, from |-> j]
<1> DEFINE q == m + i - 1
           older == SubSeq(AbsWindow', 1, q)
<1>1. q \in 0..Len(inflight')
  BY DEF SInv, Inv, TypeOK
<1>2. /\ DOMAIN older = 1..q
      /\ \A x \in 1..q : x \in DOMAIN inflight' /\ older[x].arn = (AbsWindow')[x].arn
  <2> HIDE DEF q
  <2> QED BY <1>1, AbsWindowNext
<1>3. \A x \in 1..q : older[x].arn = a <=> inflight'[x].arn = a
  BY <1>1, <1>2, AbsWindowNext
<1>4. j \in DOMAIN older /\ older[j].arn = a /\ DOMAIN older \subseteq Nat
      /\ \A x \in DOMAIN older : older[x].arn = a => x <= j
  BY <1>2, <1>3
<1>5. /\ (AbsWindow')[j].done = inflight'[j].done
      /\ inflight'[j].done => (AbsWindow')[j].val = prf'[inflight'[j].prn]
  BY <1>1, <1>2, AbsWindowNext
<1> HIDE DEF older
<1>6. InOrder!WritersOf(older, a) # {} /\ InOrder!LastWriter(older, a) = j
  BY <1>4, LastWriterIs
<1>7. CASE inflight'[j].done
  <2>1. InOrder!Read(AbsWindow', regs, m, i, a)
          = [way |-> i, arn |-> a, ready |-> TRUE, val |-> (AbsWindow')[j].val, from |-> 0]
    BY <1>5, <1>6, <1>7 DEF InOrder!Read, older
  <2> QED BY <1>5, <1>7, <2>1
<1>8. CASE ~inflight'[j].done
  <2>1. InOrder!Read(AbsWindow', regs, m, i, a)
          = [way |-> i, arn |-> a, ready |-> FALSE, val |-> Zero, from |-> j]
    BY <1>5, <1>6, <1>8 DEF InOrder!Read, older
  <2> QED BY <1>8, <2>1
<1> QED BY <1>7, <1>8

\* Without one it gets the committed value.
LEMMA ReadsCommitted ==
  ASSUME SInv', NEW m \in Nat, NEW i \in Nat \ {0}, m + i - 1 <= Len(inflight'),
         NEW a \in ARN, NEW regs, \A x \in 1..(m + i - 1) : inflight'[x].arn # a
  PROVE  InOrder!Read(AbsWindow', regs, m, i, a)
           = [way |-> i, arn |-> a, ready |-> TRUE, val |-> regs[a], from |-> 0]
<1> DEFINE q == m + i - 1
           older == SubSeq(AbsWindow', 1, q)
<1>1. q \in 0..Len(inflight')
  BY DEF SInv, Inv, TypeOK
<1>2. /\ DOMAIN older = 1..q
      /\ \A x \in 1..q : x \in DOMAIN inflight' /\ older[x].arn = (AbsWindow')[x].arn
  <2> HIDE DEF q
  <2> QED BY <1>1, AbsWindowNext
<1>3. \A x \in 1..q : older[x].arn # a
  BY <1>1, <1>2, AbsWindowNext
<1> HIDE DEF older
<1>4. InOrder!WritersOf(older, a) = {}
  BY <1>2, <1>3 DEF InOrder!WritersOf
<1> QED BY <1>4 DEF InOrder!Read, older

\* The name of a register in flight leads to its writer.
LEMMA NameIs ==
  ASSUME SInv', NEW x \in DOMAIN inflight', inflight'[x].arn \in ARN, NEW t, inflight'[x].prn = t
  PROVE  /\ t # P0
         /\ (CHOOSE y \in DOMAIN inflight' : inflight'[y].prn = t) = x
<1>1. t # P0
  BY DEF SInv, Inv, NeverOutOfRegisters
<1>2. ASSUME NEW y \in DOMAIN inflight', inflight'[y].prn = t PROVE y = x
  <2>1. inflight'[y].arn \in ARN
    BY <1>1, <1>2 DEF SInv, OnlyWritersNamed
  <2> QED BY <1>2, <2>1 DEF SInv, Inv, NoSharedRegister
<1> QED BY <1>1, <1>2

\* The registers a way sees as valid: the valid ones and those on the bus,
\* without those that the ways in front of it take.
LEMMA TmpValid ==
  ASSUME SInv, NEW k \in 0..MaxCommit, NEW n \in 0..WAYS, NEW dests \in [1..n -> Dest],
         NEW res \in Broadcasts, Clock(k, res, dests), NEW i \in 1..n, NEW p
  PROVE  p \in valid_RAT_tmp(res, dests, i) <=>
           /\ p \in valid_RAT \cup CDB_PRF_idx(res)
           /\ ~\E d \in 1..(i - 1) : dests[d] \in ARN /\ p = reg_idx_out[d]
<1> DEFINE t == SubSeq(dests, 1, i - 1)
<1>1. /\ Inv /\ n \in Nat /\ i \in Nat
  BY DEF SInv
<1>2. DOMAIN t = 1..(i - 1) /\ \A d \in 1..(i - 1) : t[d] = dests[d] /\ d \in 1..n
  <2>1. dests \in Seq(Dest) /\ \A d \in 1..(i - 1) : dests[d] \in Dest /\ d \in 1..n
    BY <1>1
  <2>2. t \in Seq(Dest) /\ Len(t) = i - 1 /\ \A d \in 1..(i - 1) : t[d] = dests[d]
    BY <1>1, <2>1, SubSeqProperties
  <2> QED BY <2>1, <2>2, LenProperties
<1>3. \A d \in 1..n : reg_idx_out[d] # P0
  BY <1>1, TakenAreFree
<1> HIDE DEF t
<1>4. p \in Taken(t) <=> \E d \in 1..(i - 1) : dests[d] \in ARN /\ p = reg_idx_out[d]
  BY <1>2, <1>3 DEF Taken
<1> QED BY <1>4 DEF valid_RAT_tmp, t

\* A source operand is what the abstract machine reads: the result of the
\* youngest older writer, or its place in the window, or the committed value.
LEMMA OperandNext ==
  ASSUME SInv, SInv', NEW k \in 0..MaxCommit, NEW n \in 0..WAYS, NEW dests \in [1..n -> Dest],
         NEW res \in Broadcasts, Clock(k, res, dests), NEW i \in 1..n, NEW a \in ARN,
         operand' = SourceOperand(res, dests, i, a)
  PROVE  AbsOperand' = InOrder!Read(AbsWindow', [b \in ARN |-> prf'[RRAT'[b]]], Rest(k), i, a)
<1> DEFINE m == Rest(k)
           L == Len(inflight)
           p == RAT_tmp(dests, i)[a]
           regs == [b \in ARN |-> prf'[RRAT'[b]]]
           valid == p \in valid_RAT_tmp(res, dests, i)
<1>1. /\ Inv /\ TypeOK /\ inflight \in Seq(Instr) /\ L \in Nat /\ k \in 0..L /\ DOMAIN inflight = 1..L
      /\ RAT = Overwrite(RRAT, inflight)
  BY InvConserved DEF SInv, Inv, TypeOK, RATIsProgramOrder
<1>2. WindowNext(k, n, dests, res)
  BY <1>1, ClockWindow
<1>3. /\ n \in Nat /\ i \in Nat \ {0} /\ i <= n
      /\ m \in Nat /\ L = k + m
      /\ Len(inflight') = m + n /\ DOMAIN inflight' = 1..(m + n)
  BY <1>1, <1>2 DEF WindowNext, Rest
<1>4. \A x \in 1..m : /\ k + x \in 1..L
                      /\ inflight'[x].arn = inflight[k + x].arn
                      /\ inflight'[x].prn = inflight[k + x].prn
                      /\ inflight'[x].done = (inflight[k + x].done \/ k + x \in DOMAIN res)
  BY <1>1, <1>2 DEF WindowNext
<1>5. \A d \in 1..n : /\ inflight'[m + d].arn = dests[d]
                      /\ dests[d] \in ARN => inflight'[m + d].prn = reg_idx_out[d]
                      /\ ~inflight'[m + d].done
  BY <1>2, RegistersAssumption DEF WindowNext
<1>6. prf' = prf_next(res) /\ RRAT' = RRAT_next(k)
  BY DEF Clock
<1>7. operand' = IF valid
                 THEN [way |-> i, arn |-> a, ready |-> TRUE, val |-> prf'[p], tag |-> P0]
                 ELSE [way |-> i, arn |-> a, ready |-> FALSE, val |-> Zero, tag |-> p]
  BY <1>6 DEF SourceOperand
<1>8. valid <=> /\ p \in valid_RAT \cup CDB_PRF_idx(res)
                /\ ~\E d \in 1..(i - 1) : dests[d] \in ARN /\ p = reg_idx_out[d]
  BY TmpValid
<1>9. p \in Image(RRAT) \cup Held => ~\E d \in 1..(i - 1) : dests[d] \in ARN /\ p = reg_idx_out[d]
  <2>1. /\ Taken(dests) = {reg_idx_out[x] : x \in {y \in 1..n : dests[y] \in ARN}}
        /\ Taken(dests) \cap (Image(RRAT) \cup Held) = {}
    BY <1>1, TakenAreFree
  <2>2. \A d \in 1..(i - 1) : d \in 1..n
    BY <1>3
  <2> QED BY <2>1, <2>2
<1>10. ASSUME valid
       PROVE  AbsOperand' = [way |-> i, arn |-> a, ready |-> TRUE, val |-> prf'[p], from |-> 0]
  BY <1>7, <1>10 DEF AbsOperand
<1>11. ASSUME ~valid, NEW j \in DOMAIN inflight', inflight'[j].arn \in ARN, inflight'[j].prn = p
       PROVE  AbsOperand' = [way |-> i, arn |-> a, ready |-> FALSE, val |-> Zero, from |-> j]
  <2>1. operand' = [way |-> i, arn |-> a, ready |-> FALSE, val |-> Zero, tag |-> p]
    BY <1>7, <1>11
  <2> HIDE DEF p
  <2>2. operand'.tag # P0 /\ (CHOOSE y \in DOMAIN inflight' : inflight'[y].prn = operand'.tag) = j
    BY <1>11, <2>1, NameIs
  <2> DEFINE from == IF operand'.tag = P0 THEN 0
                     ELSE CHOOSE y \in DOMAIN inflight' : inflight'[y].prn = operand'.tag
  <2>3. from = j
    BY <2>2, Zenon
  <2>4. AbsOperand' = [way |-> operand'.way, arn |-> operand'.arn, ready |-> operand'.ready,
                       val |-> operand'.val, from |-> from]
    BY Zenon DEF AbsOperand
  <2> HIDE DEF from
  <2> QED BY <2>1, <2>3, <2>4
<1> HIDE DEF m, p, valid, regs, L
<1> DEFINE D == {d \in 1..(i - 1) : dests[d] = a}
           E == {x \in 1..m : inflight'[x].arn = a}
<1>12. CASE D # {}
  <2>1. PICK d \in D : \A x \in D : x <= d
    <3>1. D \in SUBSET Nat /\ \A x \in D : x <= i
      BY <1>3
    <3> HIDE DEF D
    <3> QED BY <1>12, <1>3, <3>1, GreatestNat
  <2>2. p = reg_idx_out[d]
    BY <2>1, TmpIs DEF p
  <2>3. d \in 1..n /\ d \in 1..(i - 1) /\ dests[d] = a
    BY <1>3
  <2>4. ~valid
    BY <1>8, <2>2, <2>3
  <2> DEFINE j == m + d
  <2>5. j \in 1..(m + i - 1) /\ j \in DOMAIN inflight' /\ m + i - 1 <= Len(inflight')
    BY <1>3, <2>3
  <2>6. inflight'[j].arn = a /\ inflight'[j].prn = p /\ ~inflight'[j].done
    BY <1>5, <2>2, <2>3
  <2>7. ASSUME NEW x \in 1..(m + i - 1), inflight'[x].arn = a PROVE x <= j
    <3>1. CASE x <= m
      BY <3>1, <1>3, <2>3
    <3>2. CASE x > m
      <4>1. x - m \in 1..(i - 1) /\ x - m \in 1..n /\ m + (x - m) = x
        BY <3>2, <1>3
      <4>2. dests[x - m] = a
        BY <1>5, <2>7, <4>1
      <4>3. x - m <= d
        BY <2>1, <4>1, <4>2
      <4> QED BY <4>3, <1>3, <2>3
    <3> QED BY <3>1, <3>2, <1>3
  <2>8. AbsOperand' = [way |-> i, arn |-> a, ready |-> FALSE, val |-> Zero, from |-> j]
    BY <1>11, <2>4, <2>5, <2>6
  <2> HIDE DEF j
  <2>9. InOrder!Read(AbsWindow', regs, m, i, a)
          = [way |-> i, arn |-> a, ready |-> FALSE, val |-> Zero, from |-> j]
    BY <1>3, <2>5, <2>6, <2>7, ReadsWriter
  <2> QED BY <2>8, <2>9 DEF regs, m
<1>13. CASE D = {} /\ E # {}
  <2>1. PICK j \in E : \A x \in E : x <= j
    <3>1. E \in SUBSET Nat /\ \A x \in E : x <= m
      BY <1>3
    <3> HIDE DEF E
    <3> QED BY <1>13, <1>3, <3>1, GreatestNat
  <2>2. j \in 1..m /\ inflight'[j].arn = a /\ j \in DOMAIN inflight' /\ j \in 1..(m + i - 1)
        /\ m + i - 1 <= Len(inflight')
    BY <1>3
  <2>3. ASSUME NEW x \in 1..(m + i - 1), inflight'[x].arn = a PROVE x <= j
    <3>1. CASE x <= m
      BY <3>1, <2>1, <2>3, <1>3
    <3>2. CASE x > m
      <4>1. x - m \in 1..(i - 1) /\ x - m \in 1..n /\ m + (x - m) = x
        BY <3>2, <1>3
      <4>2. dests[x - m] = a
        BY <1>5, <2>3, <4>1
      <4> QED BY <1>13, <4>1, <4>2
    <3> QED BY <3>1, <3>2, <1>3
  <2> DEFINE y == k + j
  <2>4. y \in DOMAIN inflight /\ inflight[y].arn = a /\ inflight[y].prn = inflight'[j].prn
        /\ inflight'[j].done = (inflight[y].done \/ y \in DOMAIN res)
    BY <1>1, <1>4, <2>2
  <2>5. ASSUME NEW x \in DOMAIN inflight, inflight[x].arn = a PROVE x <= y
    <3>1. CASE x <= k
      BY <3>1, <1>1, <1>3, <2>2
    <3>2. CASE x > k
      <4>1. x - k \in 1..m /\ k + (x - k) = x
        BY <3>2, <1>1, <1>3
      <4>2. inflight'[x - k].arn = a
        BY <1>4, <2>5, <4>1
      <4>3. x - k <= j
        BY <2>1, <4>1, <4>2
      <4> QED BY <4>3, <1>1, <1>3, <2>2
    <3> QED BY <3>1, <3>2, <1>1, <1>3
  <2> HIDE DEF y
  <2>6. p = inflight[y].prn
    <3>1. p = RAT[a]
      <4>1. \A d \in 1..(i - 1) : dests[d] # a
        BY <1>13
      <4>2. (\A d \in 1..(i - 1) : dests[d] # a) => RAT_tmp(dests, i)[a] = RAT[a]
        BY TmpIs
      <4> QED BY <4>1, <4>2 DEF p
    <3>2. Overwrite(RRAT, inflight)[a] = inflight[y].prn
      BY <1>1, <2>4, <2>5, OverwriteAt
    <3> QED BY <3>1, <3>2, <1>1
  <2>7. p \in Held /\ p # P0
    BY <2>4, <2>6 DEF Held, SInv, Inv, NeverOutOfRegisters
  <2>8. valid <=> inflight'[j].done
    <3>1. CASE inflight[y].done
      <4>1. p \in Produced
        BY <2>4, <2>6, <3>1 DEF Produced
      <4>2. p \in valid_RAT
        BY <4>1 DEF SInv, ValidMeansProduced
      <4> QED BY <4>2, <1>8, <1>9, <2>4, <2>7, <3>1
    <3>2. CASE y \in DOMAIN res
      <4>1. p \in CDB_PRF_idx(res)
        BY <3>2, <2>6, <2>7 DEF CDB_PRF_idx, RegWrites
      <4> QED BY <4>1, <1>8, <1>9, <2>4, <2>7, <3>2
    <3>3. CASE ~inflight[y].done /\ y \notin DOMAIN res
      <4>1. p \notin valid_RAT
        BY <2>4, <2>6, <3>3 DEF SInv, ValidMeansProduced, FreshIsInvalid
      <4>2. p \notin CDB_PRF_idx(res)
        <5> SUFFICES ASSUME p \in CDB_PRF_idx(res) PROVE FALSE
          OBVIOUS
        <5>1. PICK z \in DOMAIN res : z \in DOMAIN inflight /\ inflight[z].arn \in ARN /\ inflight[z].prn = p
          BY BusIsFresh DEF SInv
        <5>2. z = y
          BY <5>1, <2>4, <2>6 DEF SInv, Inv, NoSharedRegister
        <5> QED BY <5>1, <5>2, <3>3
      <4> QED BY <4>1, <4>2, <1>8, <2>4, <3>3
    <3> QED BY <3>1, <3>2, <3>3
  <2>9. CASE inflight'[j].done
    <3>1. AbsOperand' = [way |-> i, arn |-> a, ready |-> TRUE, val |-> prf'[p], from |-> 0]
      BY <1>10, <2>8, <2>9
    <3>2. InOrder!Read(AbsWindow', regs, m, i, a)
            = [way |-> i, arn |-> a, ready |-> TRUE, val |-> prf'[inflight'[j].prn], from |-> 0]
      <4>1. InOrder!Read(AbsWindow', regs, m, i, a)
              = IF inflight'[j].done
                THEN [way |-> i, arn |-> a, ready |-> TRUE, val |-> prf'[inflight'[j].prn], from |-> 0]
                ELSE [way |-> i, arn |-> a, ready |-> FALSE, val |-> Zero, from |-> j]
        BY <1>3, <2>2, <2>3, ReadsWriter
      <4> QED BY <4>1, <2>9
    <3> QED BY <3>1, <3>2, <2>4, <2>6 DEF regs, m
  <2>10. CASE ~inflight'[j].done
    <3>1. AbsOperand' = [way |-> i, arn |-> a, ready |-> FALSE, val |-> Zero, from |-> j]
      BY <1>11, <2>2, <2>4, <2>6, <2>8, <2>10
    <3>2. InOrder!Read(AbsWindow', regs, m, i, a)
            = [way |-> i, arn |-> a, ready |-> FALSE, val |-> Zero, from |-> j]
      BY <1>3, <2>2, <2>3, <2>10, ReadsWriter
    <3> QED BY <3>1, <3>2 DEF regs, m
  <2> QED BY <2>9, <2>10
<1>14. CASE D = {} /\ E = {}
  <2>1. p = RAT[a]
    <3>1. \A d \in 1..(i - 1) : dests[d] # a
      BY <1>14
    <3>2. (\A d \in 1..(i - 1) : dests[d] # a) => RAT_tmp(dests, i)[a] = RAT[a]
      BY TmpIs
    <3> QED BY <3>1, <3>2 DEF p
  <2>2. ASSUME NEW x \in 1..(m + i - 1) PROVE inflight'[x].arn # a
    <3>1. CASE x <= m
      BY <3>1, <1>14, <1>3
    <3>2. CASE x > m
      <4>1. x - m \in 1..(i - 1) /\ x - m \in 1..n /\ m + (x - m) = x
        BY <3>2, <1>3
      <4> QED BY <1>14, <1>5, <4>1
    <3> QED BY <3>1, <3>2, <1>3
  <2>3. ASSUME NEW y \in DOMAIN inflight, inflight[y].arn = a PROVE y \in 1..k
    <3>1. ~(y > k)
      <4> SUFFICES ASSUME y > k PROVE FALSE
        OBVIOUS
      <4>1. y - k \in 1..m /\ k + (y - k) = y
        BY <1>1, <1>3
      <4> QED BY <1>4, <1>14, <2>3, <4>1
    <3> QED BY <3>1, <1>1
  <2>4. p = RRAT'[a] /\ p \in Produced /\ p \in Image(RRAT) \cup Held
    <3>1. CASE \A j \in DOMAIN inflight : inflight[j].arn # a
      <4>1. p = RRAT[a]
        BY <3>1, <2>1, <1>1, OverwriteKeeps
      <4>2. \A j \in 1..k : inflight[j].arn # a
        BY <3>1, <1>1
      <4>3. RRAT_next(k)[a] = RRAT[a]
        BY <4>2, <1>1, RRATKeeps
      <4>4. RRAT[a] \in Image(RRAT)
        BY <1>1 DEF Image, TypeOK
      <4> QED BY <4>1, <4>3, <4>4, <1>6 DEF Produced
    <3>2. ASSUME NEW j \in DOMAIN inflight, inflight[j].arn = a,
                 \A x \in DOMAIN inflight : inflight[x].arn = a => x <= j,
                 Overwrite(RRAT, inflight)[a] = inflight[j].prn
          PROVE  p = RRAT'[a] /\ p \in Produced /\ p \in Image(RRAT) \cup Held
      <4>1. j \in 1..k /\ 1..k \subseteq DOMAIN inflight
        BY <3>2, <2>3, <1>1
      <4>2. RRAT_next(k)[a] = inflight[j].prn
        <5>1. k \in 0..Len(inflight) /\ \A x \in 1..k : inflight[x].arn = a => x <= j
          BY <3>2, <4>1, <1>1 DEF L
        <5> QED BY <5>1, <3>2, <4>1, <1>1, RRATAt
      <4>3. inflight[j].done
        BY <4>1 DEF Clock, Committable
      <4> QED BY <3>2, <2>1, <4>2, <4>3, <1>1, <1>6 DEF Produced, Held
    <3> QED BY <3>1, <3>2, <1>1, OverwriteFrom, SMTT(30)
  <2>5. valid
    BY <2>4, <1>8, <1>9 DEF SInv, ValidMeansProduced
  <2>6. InOrder!Read(AbsWindow', regs, m, i, a)
          = [way |-> i, arn |-> a, ready |-> TRUE, val |-> regs[a], from |-> 0]
    BY <1>3, <2>2, ReadsCommitted
  <2>7. regs[a] = prf'[p]
    BY <2>4 DEF regs
  <2> QED BY <1>10, <2>5, <2>6, <2>7 DEF regs, m
<1> QED BY <1>12, <1>13, <1>14

\* What commits has finished in the abstract window too.
LEMMA OldestCompleted ==
  ASSUME inflight \in Seq(Instr), NEW k \in 0..Len(inflight), Committable(k)
  PROVE  InOrder!Completed(k)
<1> SUFFICES ASSUME NEW i \in 1..k PROVE AbsWindow[i].done
  BY DEF InOrder!Completed
<1>1. i \in DOMAIN inflight /\ inflight[i].done
  BY AbsOldest DEF Committable
<1>2. AbsWindow[i].done = inflight[i].done
  BY <1>1 DEF AbsWindow
<1> QED BY <1>1, <1>2

\* An edge without a misprediction is a step of the abstract machine: it
\* commits the same instructions and lets a bundle in.
LEMMA ClockAdvances ==
  ASSUME SInv, SInv', NEW k \in 0..MaxCommit, NEW n \in 0..WAYS, NEW dests \in [1..n -> Dest],
         NEW res \in Broadcasts, Clock(k, res, dests)
  PROVE  InOrder!Advance(k)
<1> DEFINE m == Rest(k)
           regs == [b \in ARN |-> prf'[RRAT'[b]]]
<1>1. /\ Inv /\ TypeOK /\ inflight \in Seq(Instr) /\ Len(inflight) \in Nat /\ k \in 0..Len(inflight)
  BY InvConserved DEF SInv, Inv, TypeOK
<1>2. WindowNext(k, n, dests, res)
  BY <1>1, ClockWindow
<1>3. /\ n \in 0..WAYS /\ WAYS \in Nat /\ ROBSZ \in Nat /\ m \in Nat
      /\ m = Len(inflight) - k /\ Len(inflight') = m + n
  BY <1>2, SizesAssumption DEF WindowNext, Rest
<1>4. Len(AbsWindow) = Len(inflight) /\ Len(AbsWindow) - k = m
  BY <1>1, <1>3, AbsWindowIs
<1>5. Len(AbsWindow') = m + n /\ Len(AbsWindow') - m = n
  <2>1. 0 \in 0..Len(inflight')
    BY <1>3
  <2>2. Len(AbsWindow') = Len(inflight')
    BY <2>1, AbsWindowNext
  <2> HIDE DEF m
  <2> QED BY <1>3, <2>2
<1>6. InOrder!Completed(k)
  BY <1>1, OldestCompleted DEF Clock
<1>7. regs = InOrder!Commit(k)
  BY CommitIs DEF Clock
<1>8. Len(AbsWindow') <= ROBSZ - WAYS
  BY <1>3, <1>5 DEF SInv, Inv, RoomKept
<1>9. \A i \in 1..m : InOrder!Progresses(AbsWindow[k + i], (AbsWindow')[i])
  BY EntriesProgress
<1>10. \A i \in (m + 1)..(m + n) : (AbsWindow')[i] \in InOrder!Fresh
  <2> SUFFICES ASSUME NEW i \in (m + 1)..(m + n) PROVE (AbsWindow')[i] \in InOrder!Fresh
    OBVIOUS
  <2>1. i - m \in 1..n /\ m + (i - m) = i
    BY <1>3
  <2>2. (AbsWindow')[Rest(k) + (i - m)] \in InOrder!Fresh
    <3> HIDE DEF m
    <3> QED BY <2>1, EntriesFresh
  <2> QED BY <2>1, <2>2
<1>11. \/ AbsOperand' = InOrder!NoOperand
       \/ \E i \in 1..n, a \in ARN : AbsOperand' = InOrder!Read(AbsWindow', regs, m, i, a)
  <2>1. CASE operand' = NoOperand
    BY <2>1 DEF AbsOperand, NoOperand, InOrder!NoOperand
  <2>2. CASE operand' # NoOperand
    <3>1. PICK i \in 1..n, a \in ARN : operand' = SourceOperand(res, dests, i, a)
      <4>1. DOMAIN dests = 1..n /\ Observed \subseteq ARN
        BY RegistersAssumption
      <4> QED BY <2>2, <4>1 DEF Clock
    <3>2. AbsOperand' = InOrder!Read(AbsWindow', regs, m, i, a)
      BY <3>1, OperandNext
    <3> HIDE DEF regs, m
    <3> QED BY <3>2
  <2> QED BY <2>1, <2>2
<1> HIDE DEF m, regs
<1>12. /\ Len(AbsWindow') \in m..(m + WAYS)
       /\ \A i \in (m + 1)..Len(AbsWindow') : (AbsWindow')[i] \in InOrder!Fresh
  BY <1>3, <1>5, <1>10
<1> DEFINE rest == Len(AbsWindow) - k
           came == Len(AbsWindow') - rest
<1>13. rest = m /\ came = n
  BY <1>4, <1>5
<1>14. regs = [b \in ARN |-> prf[RRAT[b]]]'
  BY DEF regs
<1> DEFINE arf == [b \in ARN |-> prf[RRAT[b]]]'
           reads == {InOrder!Read(AbsWindow', arf, rest, i, a) : i \in 1..came, a \in ARN}
<1> HIDE DEF rest, came, arf
<1>15. AbsOperand' \in {InOrder!NoOperand} \cup reads
  <2>1. CASE AbsOperand' = InOrder!NoOperand
    BY <2>1
  <2>2. CASE \E i \in 1..n, a \in ARN : AbsOperand' = InOrder!Read(AbsWindow', regs, m, i, a)
    <3>1. PICK i \in 1..came, a \in ARN : AbsOperand' = InOrder!Read(AbsWindow', arf, rest, i, a)
      BY <2>2, <1>13, <1>14 DEF arf
    <3> QED BY <3>1
  <2> QED BY <2>1, <2>2, <1>11
<1>16. /\ Len(AbsWindow') \in rest..(rest + WAYS)
       /\ \A i \in 1..rest : InOrder!Progresses(AbsWindow[k + i], (AbsWindow')[i])
       /\ \A i \in (rest + 1)..Len(AbsWindow') : (AbsWindow')[i] \in InOrder!Fresh
  BY <1>9, <1>12, <1>13
<1>17. InOrder!Advance(k) <=>
         /\ InOrder!Completed(k)
         /\ arf = InOrder!Commit(k)
         /\ Len(AbsWindow') \in rest..(rest + WAYS)
         /\ Len(AbsWindow') <= ROBSZ - WAYS
         /\ \A i \in 1..rest : InOrder!Progresses(AbsWindow[k + i], (AbsWindow')[i])
         /\ \A i \in (rest + 1)..Len(AbsWindow') : (AbsWindow')[i] \in InOrder!Fresh
         /\ AbsOperand' \in {InOrder!NoOperand} \cup reads
  BY DEF InOrder!Advance, rest, came, arf
<1>18. arf = InOrder!Commit(k)
  BY <1>7, <1>14 DEF arf
<1> HIDE DEF reads
<1> QED BY <1>6, <1>8, <1>15, <1>16, <1>17, <1>18

\* An edge on which the k-th instruction is a mispredicted branch drops the
\* window and leaves the committed registers.
LEMMA ExceptSquashes ==
  ASSUME SInv, SInv', NEW k \in 0..MaxCommit, NEW res \in Broadcasts, Except(k, res)
  PROVE  InOrder!Squash(k)
<1>1. inflight \in Seq(Instr) /\ k \in 0..Len(inflight)
  BY InvConserved DEF SInv, Inv, TypeOK
<1>2. InOrder!Completed(k)
  BY <1>1, OldestCompleted DEF Except
<1>3. [b \in ARN |-> prf'[RRAT'[b]]] = InOrder!Commit(k)
  BY CommitIs DEF Except
<1>4. AbsWindow' = <<>>
  <2>1. inflight' = <<>> /\ 0 \in 0..Len(inflight')
    BY DEF Except
  <2> QED BY <2>1, AbsWindowNext
<1>5. AbsOperand' = InOrder!NoOperand
  BY DEF Except, AbsOperand, NoOperand, InOrder!NoOperand
<1> QED BY <1>2, <1>3, <1>4, <1>5 DEF InOrder!Squash, Except

\* Renaming, with its maps, free lists, valid bits and physical registers,
\* implements a register file that is updated in program order: whatever
\* commits, finishes, enters or is dropped on an edge, a source operand is the
\* result of the youngest older writer of its register, or the name under
\* which that result will be broadcast, or the committed value.
THEOREM ImplementsInOrder ==
  ASSUME NoX0Loads
  PROVE  Spec => InOrderSpec
<1>1. Init => InOrder!Init
  <2> SUFFICES ASSUME Init PROVE InOrder!Init
    OBVIOUS
  <2>1. \A a \in ARN : prf[RRAT[a]] = Zero
    BY RegistersAssumption DEF Init
  <2>2. AbsWindow = <<>>
    <3>1. inflight \in Seq(Instr) /\ Len(inflight) = 0
      BY DEF Init
    <3> DEFINE R == {AbsWindow[i] : i \in DOMAIN inflight}
    <3>2. AbsWindow \in Seq(R) /\ Len(AbsWindow) = 0
      BY <3>1, AbsWindowIs
    <3> HIDE DEF R
    <3> QED BY <3>2
  <2>3. AbsOperand = InOrder!NoOperand
    BY DEF Init, AbsOperand, NoOperand, InOrder!NoOperand
  <2> QED BY <2>1, <2>2, <2>3 DEF InOrder!Init
<1>2. SInv /\ SInv' /\ [Next]_vars => [InOrder!Next]_InOrder!vars
  <2> SUFFICES ASSUME SInv, SInv', [Next]_vars PROVE InOrder!Next \/ UNCHANGED InOrder!vars
    OBVIOUS
  <2>1. CASE UNCHANGED vars
    BY <2>1 DEF vars, InOrder!vars, AbsWindow, AbsOperand
  <2>2. CASE Next
    <3>1. PICK k \in 0..MaxCommit, res \in Broadcasts :
            \/ \E n \in 0..WAYS : \E dests \in [1..n -> Dest] : Clock(k, res, dests)
            \/ Except(k, res)
      BY <2>2 DEF Next
    <3>2. InOrder!Advance(k) \/ InOrder!Squash(k)
      BY <3>1, ClockAdvances, ExceptSquashes
    <3>3. Len(AbsWindow) = Len(inflight)
      <4>1. inflight \in Seq(Instr)
        BY DEF SInv, Inv, TypeOK
      <4> QED BY <4>1, AbsWindowIs
    <3> QED BY <3>2, <3>3 DEF InOrder!Next, MaxCommit
  <2> QED BY <2>1, <2>2
<1>3. Spec => []SInv
  <2>1. Inv /\ RATIsProgramOrder /\ OnlyWritersNamed /\ ValidMeansProduced => SInv
    BY DEF SInv
  <2>2. Spec => [](OnlyWritersNamed /\ ValidMeansProduced)
    BY ValidInvHolds
  <2> QED BY <2>1, <2>2, InvHolds, ProgramOrder, PTL
<1> QED BY <1>1, <1>2, <1>3, PTL DEF Spec, InOrderSpec, InOrder!Spec
=============================================================================
