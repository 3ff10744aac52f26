---------------------------- MODULE IssueProofs ------------------------------
(***************************************************************************)
(* Proofs about Issue, for every width, number of entries, stations and    *)
(* multiplier stages: an instruction in the window is in one place, a      *)
(* bundle that has been decoded finds its lines, and what waits waits for  *)
(* exactly the results that have not been broadcast.                       *)
(***************************************************************************)
EXTENDS Issue, NumberLemmas, SequenceTheorems

-----------------------------------------------------------------------------
(* Sizes, and the window as a part of the ring. *)

\* The assumption on the constants, in the form the proofs use.
LEMMA Sizes ==
  /\ WAYS \in Nat \ {0} /\ ROBSZ \in Nat \ {0} /\ RSSZ \in Nat \ {0} /\ STAGES \in Nat \ {0}
  /\ 2 * WAYS <= ROBSZ /\ WAYS <= RSSZ
  /\ Kinds \subseteq {"alu", "mult", "load"}
  /\ None \notin Idx /\ None \notin Packet
BY IssueAssumption DEF IssueAssumption, Idx, Packet

\* Sets of lines and of ways are finite sets of numbers.
LEMMA LinesFinite ==
  ASSUME NEW S, S \subseteq Lines \/ S \subseteq Ways
  PROVE  S \in SUBSET Nat /\ IsFiniteSet(S) /\ Cardinality(S) \in Nat
<1>1. IsFiniteSet(Lines) /\ IsFiniteSet(Ways)
  BY FS_Interval, Sizes DEF Lines, Ways
<1>2. IsFiniteSet(S)
  BY <1>1, FS_Subset
<1>3. S \in SUBSET Nat
  BY Sizes DEF Lines, Ways
<1> QED BY <1>2, <1>3, FS_CardinalityType

-----------------------------------------------------------------------------
(* The selectors. *)

\* The selector grants only requests, and as many as the width if it can.
LEMMA GrantsEnough ==
  ASSUME NEW req \in SUBSET Lines, Cardinality(req) >= WAYS
  PROVE  Cardinality(gnt_bus(req)) >= WAYS
<1> DEFINE c == Cardinality(req)
           hi == (WAYS + 1) \div 2
           lo == WAYS \div 2
           A == 0..(lo - 1)
           B == (c - hi)..(c - 1)
           f == [k \in A \cup B |-> CHOOSE x \in req : Rank(req, x) = k]
           g == gnt_bus(req)
<1>1. req \in SUBSET Nat /\ IsFiniteSet(req) /\ c \in Nat
  BY LinesFinite
<1>2. hi \in Nat /\ lo \in Nat /\ hi + lo = WAYS /\ WAYS \in Nat
  BY Sizes
<1> HIDE DEF c, hi, lo
<1>3. c >= WAYS /\ c - hi >= lo /\ c - hi \in Int /\ c - 1 \in Int /\ lo - 1 \in Int
  BY <1>1, <1>2 DEF c
<1>4. IsFiniteSet(A) /\ Cardinality(A) = lo
  <2>1. 0 \in Int /\ lo - 1 \in Int
    BY <1>2
  <2>2. IsFiniteSet(A) /\ Cardinality(A) = IF 0 > lo - 1 THEN 0 ELSE (lo - 1) - 0 + 1
    BY <2>1, FS_Interval
  <2> QED BY <2>2, <1>2
<1>5. IsFiniteSet(B) /\ Cardinality(B) = hi
  BY <1>1, <1>2, <1>3, FS_Interval
<1>6. A \cap B = {}
  <2> SUFFICES ASSUME NEW k \in Int, 0 <= k, k <= lo - 1, c - hi <= k, k <= c - 1 PROVE FALSE
    BY <1>3
  <2> QED BY <1>1, <1>2, <1>3
<1>7. IsFiniteSet(A \cup B) /\ Cardinality(A \cup B) = WAYS
  <2> HIDE DEF A, B
  <2>1. /\ IsFiniteSet(A \cup B)
        /\ Cardinality(A \cup B) = Cardinality(A) + Cardinality(B) - Cardinality(A \cap B)
    BY <1>4, <1>5, FS_Union
  <2>2. Cardinality(A \cap B) = 0
    BY <1>6, FS_EmptySet
  <2> QED BY <2>1, <2>2, <1>2, <1>4, <1>5
<1>8. A \cup B \subseteq 0..(c - 1)
  <2>1. \A k \in Int : 0 <= k /\ k <= lo - 1 => k <= c - 1
    BY <1>1, <1>2, <1>3
  <2>2. \A k \in Int : c - hi <= k /\ k <= c - 1 => 0 <= k
    BY <1>1, <1>2, <1>3
  <2> QED BY <2>1, <2>2
<1>9. \A k \in A \cup B : f[k] \in req /\ Rank(req, f[k]) = k
  <2> SUFFICES ASSUME NEW k \in A \cup B PROVE f[k] \in req /\ Rank(req, f[k]) = k
    OBVIOUS
  <2>1. \E x \in req : Rank(req, x) = k
    BY <1>1, <1>8, RankOnto DEF c
  <2> QED BY <2>1
<1>10. \A k \in A \cup B : f[k] \in g
  <2> SUFFICES ASSUME NEW k \in A \cup B PROVE f[k] \in g
    OBVIOUS
  <2>1. f[k] \in req /\ Rank(req, f[k]) = k
    BY <1>9
  <2>2. Above(req, f[k]) = c - 1 - k
    BY <2>1, <1>1, RankFromAbove DEF Above, c
  <2>3. Below(req, f[k]) = k
    BY <2>1 DEF Below, Rank
  <2>4. c - 1 - k < hi \/ k < lo
    BY <1>1, <1>2, <1>3
  <2> HIDE DEF f
  <2> QED BY <2>1, <2>2, <2>3, <2>4 DEF gnt_bus, hi, lo
<1>11. IsFiniteSet(g)
  <2>1. g \in SUBSET req
    BY DEF gnt_bus
  <2> QED BY <2>1, <1>1, FS_Subset
<1>12. f \in Injection(A \cup B, g)
  <2>1. f \in [A \cup B -> g]
    BY <1>10
  <2>2. \A j, k \in A \cup B : f[j] = f[k] => j = k
    BY <1>9
  <2>3. DOMAIN f = A \cup B
    OBVIOUS
  <2> HIDE DEF f
  <2> QED BY <2>1, <2>2, <2>3 DEF Injection, IsInjective
<1>13. Cardinality(A \cup B) <= Cardinality(g)
  BY <1>11, <1>12, FS_Injection
<1>14. Cardinality(g) \in Nat
  BY <1>11, FS_CardinalityType
<1> QED BY <1>2, <1>7, <1>13, <1>14

\* What the matching pairs: a line that is ready with a free way, each at most
\* once.
LEMMA MatchingIs ==
  ASSUME NEW load
  PROVE  /\ \A p \in Matching(load) :
              /\ p[1] \in Lines /\ rs[p[1]] # None
              /\ p[2] \in Ways /\ ~ALU_occupied(p[2]) /\ ~lq_CDB_valid(load, p[2])
              /\ p = <<p[1], p[2]>>
         /\ \A p, q \in Matching(load) : p[1] = q[1] \/ p[2] = q[2] => p = q
<1> DEFINE R == reset_hub_tmp
           F == FreeWays(load)
<1>1. R \subseteq Lines /\ \A l \in R : rs[l] # None
  BY DEF reset_hub_tmp, gnt_bus, ready_hub
<1>2. F \subseteq Ways /\ \A j \in F : ~ALU_occupied(j) /\ ~lq_CDB_valid(load, j)
  BY DEF FreeWays
<1> HIDE DEF R, F
<1>3. Matching(load) = {p \in R \X F : Below(R, p[1]) = Below(F, p[2])}
  BY DEF Matching, R, F
<1>4. \A p \in Matching(load) :
        p[1] \in R /\ p[2] \in F /\ p = <<p[1], p[2]>> /\ Rank(R, p[1]) = Rank(F, p[2])
  BY <1>3 DEF Below, Rank
<1>5. /\ R \in SUBSET Nat /\ IsFiniteSet(R)
      /\ F \in SUBSET Nat /\ IsFiniteSet(F)
  BY <1>1, <1>2, LinesFinite
<1>6. ASSUME NEW p \in Matching(load), NEW q \in Matching(load), p[1] = q[1] \/ p[2] = q[2]
      PROVE  p = q
  <2>1. /\ p[1] \in R /\ p[2] \in F /\ p = <<p[1], p[2]>> /\ Rank(R, p[1]) = Rank(F, p[2])
        /\ q[1] \in R /\ q[2] \in F /\ q = <<q[1], q[2]>> /\ Rank(R, q[1]) = Rank(F, q[2])
    BY <1>4
  <2>2. CASE p[1] = q[1]
    <3>1. p[2] = q[2]
      BY <2>1, <2>2, <1>5, RankInjective
    <3> QED BY <2>1, <2>2, <3>1
  <2>3. CASE p[2] = q[2]
    <3>1. p[1] = q[1]
      BY <2>1, <2>3, <1>5, RankInjective
    <3> QED BY <2>1, <2>3, <3>1
  <2> QED BY <1>6, <2>2, <2>3
<1> QED BY <1>1, <1>2, <1>4, <1>6
-----------------------------------------------------------------------------
(* The registers and what they say of each other. *)

States == {"INITIAL", "MULT_NOT_DONE", "MULT_DONE_WAIT_FOR_CDB"}

FreeLines == {l \in Lines : rs[l] = None}

\* The types, with the exact count of the free lines.
RegistersOK ==
  /\ head \in Idx /\ num \in 0..ROBSZ /\ done \subseteq Idx /\ lq \subseteq Idx
  /\ id_ex \in Seq(Packet) /\ Len(id_ex) <= WAYS
  /\ rs \in [Lines -> Packet \cup {None}]
  /\ num_is_free = Cardinality(FreeLines)
  /\ alu \in [Ways -> [state : States, inst : Packet \cup {None}]]
  /\ \A j \in Ways : dones[j] \subseteq 1..STAGES
  /\ operands \in [Idx -> SUBSET Idx]
  /\ edge \in 0..1

\* A unit that is occupied works on a multiplication.
UnitsHoldMults ==
  \A j \in Ways : /\ ALU_occupied(j) <=> Held(j) # None
                  /\ Held(j) # None => Held(j).kind = "mult"

\* The stall leaves room for the bundle in the ID/EX register.
RoomForBundle ==
  /\ num + Len(id_ex) <= ROBSZ - WAYS
  /\ id_ex # <<>> => num_is_free >= WAYS

-----------------------------------------------------------------------------
(* One unit in one cycle. *)

\* What a unit works on after a cycle.
NextHeld(load, m, j) == IF next_state(load, m, j) = "INITIAL" THEN None ELSE ex_packet_in(load, m, j)

\* The packet of a unit: the matched line's, or the one it holds; an idle unit
\* may see an old one only while the load queue has the bus.
LEMMA UnitPacket ==
  ASSUME NEW load, NEW j
  PROVE  /\ \A p \in Matching(load) : p[2] = j =>
              /\ ex_packet_in(load, Matching(load), j) = rs[p[1]]
              /\ ~ALU_occupied(j) /\ ~lq_CDB_valid(load, j)
         /\ (\A p \in Matching(load) : p[2] # j) =>
              /\ ALU_occupied(j) => ex_packet_in(load, Matching(load), j) = Held(j)
              /\ ~ALU_occupied(j) /\ ~lq_CDB_valid(load, j) => ex_packet_in(load, Matching(load), j) = None
<1> DEFINE m == Matching(load)
<1>1. ASSUME NEW p \in m, p[2] = j
      PROVE  ex_packet_in(load, m, j) = rs[p[1]] /\ ~ALU_occupied(j) /\ ~lq_CDB_valid(load, j)
  <2>1. (CHOOSE q \in m : q[2] = j) \in m /\ (CHOOSE q \in m : q[2] = j)[2] = j
    BY <1>1
  <2>2. (CHOOSE q \in m : q[2] = j) = p
    BY <1>1, <2>1, MatchingIs
  <2>3. ~ALU_occupied(j) /\ ~lq_CDB_valid(load, j)
    BY <1>1, MatchingIs
  <2> HIDE DEF m
  <2> QED BY <1>1, <2>2, <2>3 DEF ex_packet_in, rs_packet_out
<1>2. ASSUME \A p \in m : p[2] # j
      PROVE  /\ ALU_occupied(j) => ex_packet_in(load, m, j) = Held(j)
             /\ ~ALU_occupied(j) /\ ~lq_CDB_valid(load, j) => ex_packet_in(load, m, j) = None
  <2> HIDE DEF m
  <2> QED BY <1>2 DEF ex_packet_in, rs_packet_out, Held
<1> QED BY <1>1, <1>2

\* What a unit sees is a packet, or nothing.
LEMMA PacketSeen ==
  ASSUME RegistersOK, NEW load, NEW j \in Ways
  PROVE  ex_packet_in(load, Matching(load), j) \in Packet \cup {None}
<1>1. CASE \E p \in Matching(load) : p[2] = j
  <2>1. PICK p \in Matching(load) : p[2] = j
    BY <1>1
  <2>2. ex_packet_in(load, Matching(load), j) = rs[p[1]] /\ p[1] \in Lines
    BY <2>1, UnitPacket, MatchingIs
  <2> QED BY <2>2 DEF RegistersOK
<1>2. CASE ~\E p \in Matching(load) : p[2] = j
  <2>1. alu[j].inst \in Packet \cup {None}
    BY DEF RegistersOK
  <2> QED BY <1>2, <2>1 DEF ex_packet_in, rs_packet_out
<1> QED BY <1>1, <1>2

\* A unit that gets an instruction keeps a multiplication, anything else is on
\* the bus at once.
LEMMA UnitStarted ==
  ASSUME RegistersOK, NEW load, NEW p \in Matching(load)
  PROVE  LET m == Matching(load)
         IN  /\ rs[p[1]] \in Packet /\ rs[p[1]].kind \in {"alu", "mult", "load"}
             /\ next_state(load, m, p[2]) \in States
             /\ rs[p[1]].kind = "mult" =>
                  /\ ~valid_out(load, m, p[2])
                  /\ start(load, m, p[2])
                  /\ next_state(load, m, p[2]) # "INITIAL"
                  /\ NextHeld(load, m, p[2]) = rs[p[1]]
             /\ rs[p[1]].kind # "mult" =>
                  /\ valid_out(load, m, p[2])
                  /\ ~start(load, m, p[2])
                  /\ next_state(load, m, p[2]) = "INITIAL"
                  /\ NextHeld(load, m, p[2]) = None
<1> DEFINE m == Matching(load)
           l == p[1]
           j == p[2]
<1>1. /\ l \in Lines /\ rs[l] # None /\ j \in Ways /\ ~lq_CDB_valid(load, j)
      /\ ex_packet_in(load, m, j) = rs[l] /\ ~ALU_occupied(j)
  BY MatchingIs, UnitPacket
<1>2. rs[l] \in Packet /\ rs[l].kind \in Kinds /\ rs[l].kind \in {"alu", "mult", "load"}
  BY <1>1, Sizes DEF RegistersOK, Packet
<1> HIDE DEF m, l, j
<1>3. /\ start(load, m, j) <=> rs[l].kind = "mult"
      /\ valid_out(load, m, j) <=> rs[l].kind # "mult"
  BY <1>1, <1>2 DEF start, Starts, valid_out, ALU_occupied
<1>4. next_state(load, m, j) = IF rs[l].kind = "mult" THEN "MULT_NOT_DONE" ELSE "INITIAL"
  BY <1>3 DEF next_state
<1> QED BY <1>1, <1>2, <1>3, <1>4 DEF NextHeld, States, m, l, j

\* A unit that gets none goes on with what it has; in particular an idle one
\* does nothing with an old packet.
LEMMA UnitKept ==
  ASSUME UnitsHoldMults, RegistersOK, NEW load, NEW j \in Ways, \A p \in Matching(load) : p[2] # j
  PROVE  LET m == Matching(load)
         IN  /\ ~start(load, m, j)
             /\ next_state(load, m, j) \in States
             /\ Held(j) = None => ~valid_out(load, m, j) /\ next_state(load, m, j) = "INITIAL"
             /\ Held(j) # None =>
                  /\ ex_packet_in(load, m, j) = Held(j)
                  /\ valid_out(load, m, j) <=> next_state(load, m, j) = "INITIAL"
<1> DEFINE m == Matching(load)
<1>1. /\ ALU_occupied(j) => ex_packet_in(load, m, j) = Held(j)
      /\ ~ALU_occupied(j) /\ ~lq_CDB_valid(load, j) => ex_packet_in(load, m, j) = None
  BY UnitPacket
<1>2. alu[j].state \in States /\ (ALU_occupied(j) <=> Held(j) # None)
  BY DEF RegistersOK, UnitsHoldMults
<1> HIDE DEF m
<1>3. \A kinds : ~Starts(load, m, j, kinds)
  BY <1>1 DEF Starts
<1>4. ~start(load, m, j)
  BY <1>3 DEF start
<1>5. Held(j) = None => alu[j].state = "INITIAL" /\ ~valid_out(load, m, j)
  BY <1>2, <1>3 DEF valid_out, ALU_occupied
<1>6. next_state(load, m, j) \in States
  BY <1>2 DEF next_state, States
<1>7. Held(j) = None => next_state(load, m, j) = "INITIAL"
  BY <1>4, <1>5 DEF next_state
<1>8. Held(j) # None => (valid_out(load, m, j) <=> next_state(load, m, j) = "INITIAL")
  BY <1>2, <1>4 DEF next_state, ALU_occupied
<1> QED BY <1>1, <1>2, <1>4, <1>5, <1>6, <1>7, <1>8 DEF m

\* Where the instructions that leave the lines and units in a cycle go.
LEMMA BusIs ==
  ASSUME RegistersOK, UnitsHoldMults, NEW load \in lq \cup {None}, NEW i
  PROVE  LET m == Matching(load)
         IN  /\ i \in CDB_reg_write(load, m) <=>
                  \/ i = load /\ load \in lq
                  \/ \E p \in m : rs[p[1]].kind = "alu" /\ rs[p[1]].idx = i
                  \/ \E j \in Ways : Held(j) # None /\ Held(j).idx = i /\ valid_out(load, m, j)
             /\ i \in Addresses(load, m) <=>
                  \E p \in m : rs[p[1]].kind = "load" /\ rs[p[1]].idx = i
<1> DEFINE m == Matching(load)
           Matched(j) == \E p \in m : p[2] = j
<1>1. \A p \in m : /\ p[2] \in Ways /\ ex_packet_in(load, m, p[2]) = rs[p[1]]
                  /\ Held(p[2]) = None
                  /\ rs[p[1]].kind \in {"alu", "mult", "load"}
                  /\ (valid_out(load, m, p[2]) <=> rs[p[1]].kind # "mult")
  <2> SUFFICES ASSUME NEW p \in m
               PROVE  /\ p[2] \in Ways /\ ex_packet_in(load, m, p[2]) = rs[p[1]]
                      /\ Held(p[2]) = None
                      /\ rs[p[1]].kind \in {"alu", "mult", "load"}
                      /\ (valid_out(load, m, p[2]) <=> rs[p[1]].kind # "mult")
    OBVIOUS
  <2>1. p[2] \in Ways /\ ex_packet_in(load, m, p[2]) = rs[p[1]] /\ ~ALU_occupied(p[2])
    BY MatchingIs, UnitPacket
  <2> QED BY <2>1, UnitStarted DEF Held
<1>2. \A j \in Ways : ~Matched(j) /\ valid_out(load, m, j) =>
        /\ ex_packet_in(load, m, j) = Held(j)
        /\ Held(j) # None /\ Held(j).kind = "mult"
  <2> SUFFICES ASSUME NEW j \in Ways, ~Matched(j), valid_out(load, m, j)
               PROVE  ex_packet_in(load, m, j) = Held(j) /\ Held(j) # None /\ Held(j).kind = "mult"
    OBVIOUS
  <2> QED BY UnitKept DEF UnitsHoldMults
<1> HIDE DEF m
<1>3. ex_packet_out(load, m) = {ex_packet_in(load, m, j) : j \in {k \in Ways : valid_out(load, m, k)}}
  BY DEF ex_packet_out, valid_out, Starts
<1>4. \A k : (\E q \in ex_packet_out(load, m) : q.kind # "load" /\ q.idx = k) <=>
        \/ \E p \in m : rs[p[1]].kind = "alu" /\ rs[p[1]].idx = k
        \/ \E j \in Ways : Held(j) # None /\ Held(j).idx = k /\ valid_out(load, m, j)
  <2> TAKE k
  <2>1. ASSUME NEW j \in Ways, valid_out(load, m, j), ex_packet_in(load, m, j).kind # "load",
               ex_packet_in(load, m, j).idx = k
        PROVE  \/ \E p \in m : rs[p[1]].kind = "alu" /\ rs[p[1]].idx = k
               \/ Held(j) # None /\ Held(j).idx = k
    <3>1. CASE Matched(j)
      <4>1. PICK p \in m : p[2] = j
        BY <3>1
      <4>2. /\ ex_packet_in(load, m, p[2]) = rs[p[1]] /\ rs[p[1]].kind \in {"alu", "mult", "load"}
            /\ valid_out(load, m, p[2]) <=> rs[p[1]].kind # "mult"
        BY <1>1
      <4>3. rs[p[1]].kind # "mult" /\ rs[p[1]] = ex_packet_in(load, m, j)
        BY <2>1, <4>1, <4>2
      <4> QED BY <2>1, <4>2, <4>3
    <3>2. CASE ~Matched(j)
      BY <1>2, <2>1, <3>2
    <3> QED BY <3>1, <3>2
  <2>2. ASSUME NEW p \in m, rs[p[1]].kind = "alu", rs[p[1]].idx = k
        PROVE  \E j \in Ways : /\ valid_out(load, m, j) /\ ex_packet_in(load, m, j).kind # "load"
                               /\ ex_packet_in(load, m, j).idx = k
    <3>1. p[2] \in Ways /\ ex_packet_in(load, m, p[2]) = rs[p[1]] /\ valid_out(load, m, p[2])
      BY <1>1, <2>2
    <3> QED BY <2>2, <3>1
  <2>3. ASSUME NEW j \in Ways, Held(j) # None, Held(j).idx = k, valid_out(load, m, j)
        PROVE  ex_packet_in(load, m, j).kind # "load" /\ ex_packet_in(load, m, j).idx = k
    <3>1. ~Matched(j)
      <4> SUFFICES ASSUME NEW p \in m, p[2] = j PROVE FALSE
        OBVIOUS
      <4>1. Held(p[2]) = None
        BY <1>1
      <4> QED BY <2>3, <4>1
    <3>2. ex_packet_in(load, m, j) = Held(j) /\ Held(j).kind = "mult"
      BY <1>2, <2>3, <3>1
    <3> QED BY <2>3, <3>2
  <2> QED BY <1>3, <2>1, <2>2, <2>3
<1>5. \A k : (\E q \in ex_packet_out(load, m) : q.kind = "load" /\ q.idx = k) <=>
        \E p \in m : rs[p[1]].kind = "load" /\ rs[p[1]].idx = k
  <2> TAKE k
  <2>1. ASSUME NEW j \in Ways, valid_out(load, m, j), ex_packet_in(load, m, j).kind = "load",
               ex_packet_in(load, m, j).idx = k
        PROVE  \E p \in m : rs[p[1]].kind = "load" /\ rs[p[1]].idx = k
    <3>1. Matched(j)
      BY <1>2, <2>1
    <3>2. PICK p \in m : p[2] = j
      BY <3>1
    <3>3. ex_packet_in(load, m, p[2]) = rs[p[1]]
      BY <1>1
    <3> QED BY <2>1, <3>2, <3>3
  <2>2. ASSUME NEW p \in m, rs[p[1]].kind = "load", rs[p[1]].idx = k
        PROVE  \E j \in Ways : /\ valid_out(load, m, j) /\ ex_packet_in(load, m, j).kind = "load"
                               /\ ex_packet_in(load, m, j).idx = k
    <3>1. p[2] \in Ways /\ ex_packet_in(load, m, p[2]) = rs[p[1]] /\ valid_out(load, m, p[2])
      BY <1>1, <2>2
    <3> QED BY <2>2, <3>1
  <2> QED BY <1>3, <2>1, <2>2
<1>6. load # None <=> load \in lq
  BY Sizes DEF RegistersOK
<1> QED BY <1>4, <1>5, <1>6 DEF CDB_reg_write, Addresses, m

-----------------------------------------------------------------------------
(* The stations in one cycle. *)

\* A broadcast changes only what a packet waits for.
LEMMA WokenIs ==
  ASSUME NEW p \in Packet, NEW bus
  PROVE  /\ Woken(p, bus) \in Packet /\ Woken(p, bus) # None
         /\ Woken(p, bus).idx = p.idx /\ Woken(p, bus).kind = p.kind
         /\ Woken(p, bus).waits = p.waits \ bus
<1>1. Woken(p, bus) = [p EXCEPT !.waits = p.waits \ bus]
  BY DEF Woken
<1>2. Woken(p, bus) \in Packet
  BY <1>1 DEF Packet
<1> QED BY <1>1, <1>2, Sizes DEF Packet

\* The lines given up are the matched ones, which were in use, and the lines
\* that may be entered are free.
LEMMA FreedAre ==
  ASSUME NEW load
  PROVE  LET freed == reset_hub(Matching(load))
         IN  /\ freed \subseteq Lines /\ freed \cap FreeLines = {}
             /\ \A l : l \in freed <=> \E p \in Matching(load) : p[1] = l
             /\ load_in_hub(freed) \subseteq FreeLines \cup freed
             /\ Entered(load_in_hub(freed)) \subseteq load_in_hub(freed)
<1>1. \A p \in Matching(load) : p[1] \in Lines /\ rs[p[1]] # None
  BY MatchingIs
<1>2. reset_hub(Matching(load)) = {p[1] : p \in Matching(load)}
  BY DEF reset_hub
<1> DEFINE freed == reset_hub(Matching(load))
<1>3. freed \subseteq Lines /\ freed \cap FreeLines = {} /\ \A l : l \in freed <=> \E p \in Matching(load) : p[1] = l
  BY <1>1, <1>2 DEF FreeLines
<1> HIDE DEF freed
<1>4. load_in_hub(freed) \subseteq FreeLines \cup freed
  BY DEF load_in_hub, gnt_bus, FreeLines
<1>5. Entered(load_in_hub(freed)) \subseteq load_in_hub(freed)
  BY DEF Entered
<1> QED BY <1>3, <1>4, <1>5 DEF freed

\* Each packet of the bundle enters exactly one line.
LEMMA BundleEnters ==
  ASSUME RegistersOK, RoomForBundle, NEW freed \in SUBSET Lines
  PROVE  LET loaded == load_in_hub(freed)
         IN  /\ \A l \in Entered(loaded) : Below(loaded, l) + 1 \in 1..Len(id_ex)
             /\ \A l, k \in Entered(loaded) : Below(loaded, l) = Below(loaded, k) => l = k
             /\ \A k \in 1..Len(id_ex) : \E l \in Entered(loaded) : Below(loaded, l) + 1 = k
<1> DEFINE loaded == load_in_hub(freed)
           c == Cardinality(loaded)
<1>1. loaded \subseteq Lines
  BY DEF load_in_hub, gnt_bus
<1>2. loaded \in SUBSET Nat /\ IsFiniteSet(loaded) /\ c \in Nat
  BY <1>1, LinesFinite
<1>3. Len(id_ex) \in Nat /\ DOMAIN id_ex = 1..Len(id_ex) /\ Len(id_ex) <= WAYS
  BY LenProperties DEF RegistersOK
<1>4. id_ex # <<>> => c >= WAYS
  <2> SUFFICES ASSUME id_ex # <<>> PROVE c >= WAYS
    OBVIOUS
  <2>1. Len(id_ex) > 0
    BY <1>3, EmptySeq DEF RegistersOK
  <2>2. num \in Nat /\ num + Len(id_ex) <= ROBSZ - WAYS /\ num_is_free >= WAYS
    BY Sizes DEF RoomForBundle, RegistersOK
  <2>3. load_in
    BY <2>2, <1>3, Sizes DEF load_in, num_free
  <2> DEFINE req == FreeLines \cup freed
  <2>4. req \in SUBSET Lines /\ FreeLines \in SUBSET req
    BY DEF FreeLines
  <2>5. Cardinality(FreeLines) <= Cardinality(req) /\ Cardinality(req) \in Nat
    BY <2>4, LinesFinite, FS_Subset
  <2>6. Cardinality(req) >= WAYS
    BY <2>2, <2>5, Sizes, LinesFinite DEF RegistersOK, FreeLines
  <2>7. loaded = gnt_bus(req)
    BY <2>3 DEF load_in_hub, FreeLines
  <2> HIDE DEF req
  <2> QED BY <2>4, <2>6, <2>7, GrantsEnough
<1> HIDE DEF loaded
<1>5. \A l \in loaded : Below(loaded, l) = Rank(loaded, l) /\ Rank(loaded, l) \in 0..(c - 1)
  BY <1>2, RankRange DEF Below, Rank
<1> HIDE DEF c
<1>6. \A l \in Entered(loaded) : l \in loaded /\ Below(loaded, l) + 1 \in 1..Len(id_ex)
  BY <1>2, <1>3, <1>5 DEF Entered
<1>7. \A l, k \in Entered(loaded) : Below(loaded, l) = Below(loaded, k) => l = k
  BY <1>2, <1>5, <1>6, RankInjective
<1>8. ASSUME NEW k \in 1..Len(id_ex) PROVE \E l \in Entered(loaded) : Below(loaded, l) + 1 = k
  <2>1. id_ex # <<>>
    BY <1>3, <1>8
  <2>2. k \in Int /\ k - 1 \in 0..(c - 1) /\ k - 1 < Len(id_ex)
    BY <1>2, <1>3, <1>4, <2>1, Sizes
  <2>3. PICK l \in loaded : Rank(loaded, l) = k - 1
    BY <1>2, <2>2, RankOnto DEF c
  <2>4. Below(loaded, l) = k - 1
    BY <2>3, <1>5
  <2> QED BY <2>2, <2>4 DEF Entered
<1> QED BY <1>6, <1>7, <1>8 DEF loaded

\* What a line holds after the cycle.
LEMMA LineNext ==
  ASSUME RegistersOK, RoomForBundle, NEW load, NEW bus, NEW l \in Lines
  PROVE  LET freed == reset_hub(Matching(load))
             loaded == load_in_hub(freed)
             next == NextLine(loaded, freed, bus, l)
         IN  /\ l \in Entered(loaded) =>
                  /\ id_ex[Below(loaded, l) + 1] \in Packet
                  /\ next = Woken(id_ex[Below(loaded, l) + 1], bus)
                  /\ next # None
             /\ l \notin Entered(loaded) /\ l \in FreeLines \cup freed => next = None
             /\ l \notin FreeLines \cup freed =>
                  rs[l] \in Packet /\ next = Woken(rs[l], bus) /\ next # None
<1> DEFINE freed == reset_hub(Matching(load))
           loaded == load_in_hub(freed)
           next == NextLine(loaded, freed, bus, l)
<1>1. /\ freed \in SUBSET Lines /\ loaded \subseteq FreeLines \cup freed
      /\ Entered(loaded) \subseteq loaded
  BY FreedAre
<1>2. ASSUME l \in Entered(loaded) PROVE Below(loaded, l) + 1 \in 1..Len(id_ex)
  BY <1>1, <1>2, BundleEnters
<1> HIDE DEF freed, loaded
<1>3. ASSUME l \in Entered(loaded)
      PROVE  /\ id_ex[Below(loaded, l) + 1] \in Packet
             /\ next = Woken(id_ex[Below(loaded, l) + 1], bus)
             /\ next # None
  <2>1. id_ex[Below(loaded, l) + 1] \in Packet
    BY <1>2, <1>3, ElementOfSeq DEF RegistersOK
  <2>2. next = Woken(id_ex[Below(loaded, l) + 1], bus)
    BY <1>3 DEF NextLine, opa_in_processed
  <2> QED BY <2>1, <2>2, WokenIs
<1>4. ASSUME l \notin Entered(loaded), l \in FreeLines \cup freed PROVE next = None
  BY <1>4 DEF NextLine, FreeLines
<1>5. ASSUME l \notin FreeLines \cup freed
      PROVE  rs[l] \in Packet /\ next = Woken(rs[l], bus) /\ next # None
  <2>1. rs[l] \in Packet /\ rs[l] # None /\ l \notin loaded \cup freed /\ l \notin Entered(loaded)
    BY <1>1, <1>5 DEF RegistersOK, FreeLines
  <2>2. next = Woken(rs[l], bus)
    BY <2>1 DEF NextLine
  <2> QED BY <2>1, <2>2, WokenIs
<1> QED BY <1>3, <1>4, <1>5 DEF freed, loaded

\* The count of free lines stays exact.
LEMMA CountNext ==
  ASSUME RegistersOK, RoomForBundle, NEW load, NEW bus,
         rs' = [l \in Lines |->
                  NextLine(load_in_hub(reset_hub(Matching(load))), reset_hub(Matching(load)), bus, l)]
  PROVE  num_is_free_next(Matching(load)) = Cardinality({l \in Lines : rs'[l] = None})
<1> DEFINE m == Matching(load)
           freed == reset_hub(m)
           ent == Entered(load_in_hub(freed))
           G == FreeLines \cup freed
<1>1. /\ freed \subseteq Lines /\ freed \cap FreeLines = {} /\ ent \subseteq G
      /\ FreeLines \subseteq Lines
  BY FreedAre DEF FreeLines
<1>2. {l \in Lines : rs'[l] = None} = G \ ent
  <2>1. \A l \in Lines : rs'[l] = NextLine(load_in_hub(freed), freed, bus, l)
    OBVIOUS
  <2>2. \A l \in Lines : /\ l \in ent => rs'[l] # None
                         /\ l \notin ent /\ l \in G => rs'[l] = None
                         /\ l \notin G => rs'[l] # None
    BY <2>1, LineNext
  <2> HIDE DEF freed, ent
  <2> QED BY <1>1, <2>2
<1>3. num_is_free_next(m) = Cardinality(FreeLines) - Cardinality(ent) + Cardinality(freed)
  BY DEF num_is_free_next, free_decrease, free_increase, RegistersOK
<1> HIDE DEF m, freed, ent
<1>4. IsFiniteSet(freed) /\ IsFiniteSet(FreeLines) /\ IsFiniteSet(ent) /\ IsFiniteSet(G)
  BY <1>1, LinesFinite, FS_Union, FS_Subset
<1>5. /\ Cardinality(freed) \in Nat /\ Cardinality(FreeLines) \in Nat
      /\ Cardinality(ent) \in Nat /\ Cardinality(G) \in Nat
  BY <1>4, FS_CardinalityType
<1>6. Cardinality(G) = Cardinality(FreeLines) + Cardinality(freed)
  <2>1. Cardinality(G) = Cardinality(FreeLines) + Cardinality(freed) - Cardinality(FreeLines \cap freed)
    BY <1>4, FS_Union
  <2>2. FreeLines \cap freed = {}
    BY <1>1
  <2>3. Cardinality(FreeLines \cap freed) = 0
    BY <2>2, FS_EmptySet
  <2> QED BY <2>1, <2>3, <1>5
<1>7. Cardinality(G \ ent) = Cardinality(G) - Cardinality(ent)
  <2>1. G \cap ent = ent
    BY <1>1
  <2> QED BY <2>1, <1>4, FS_Difference
<1>8. num_is_free_next(m) = Cardinality(G \ ent)
  BY <1>3, <1>5, <1>6, <1>7
<1> QED BY <1>2, <1>8 DEF m

-----------------------------------------------------------------------------
(* The window in one cycle. *)

\* What may commit, and the part of the ring it leaves.
Gone(committed) == {Slot(i) : i \in 0..(committed - 1)}

\* A commit takes instructions of the window that are done.
LEMMA CommitsAre ==
  ASSUME RegistersOK, NEW committed \in Commits
  PROVE  /\ committed \in 0..num /\ committed \in 0..WAYS
         /\ Gone(committed) \subseteq done
BY DEF Commits, Gone

\* The slots of a round are entries, all different.
LEMMA SlotIs ==
  ASSUME head \in Idx
  PROVE  /\ \A i \in 0..ROBSZ : Slot(i) \in Idx
         /\ \A i, j \in 0..(ROBSZ - 1) : Slot(i) = Slot(j) => i = j
<1>1. ROBSZ \in Nat \ {0} /\ head \in 0..(ROBSZ - 1)
  BY Sizes DEF Idx
<1>2. \A i \in 0..ROBSZ : (head + i) % ROBSZ \in 0..(ROBSZ - 1)
  BY <1>1, RingSlot
<1>3. \A i, j \in 0..(ROBSZ - 1) : (head + i) % ROBSZ = (head + j) % ROBSZ => i = j
  BY <1>1, RingInjective
<1> QED BY <1>2, <1>3 DEF Slot, Idx

\* A bundle that is decoded is given entries outside the window.
LEMMA NewAre ==
  ASSUME RegistersOK, RoomForBundle
  PROVE  /\ \A k \in 1..WAYS : NewIdx(k) \in Idx /\ NewIdx(k) \notin Window
         /\ \A j, k \in 1..WAYS : NewIdx(j) = NewIdx(k) => j = k
         /\ Window \subseteq Idx
<1>1. /\ num \in Nat /\ Len(id_ex) \in Nat /\ num + Len(id_ex) <= ROBSZ - WAYS /\ head \in Idx
  BY LenProperties DEF RegistersOK, RoomForBundle
<1> DEFINE u == num + Len(id_ex)
<1>2. u \in Nat /\ u <= ROBSZ - WAYS
  BY <1>1
<1>3. /\ Window = {Slot(i) : i \in 0..(u - 1)}
      /\ \A k \in Int : NewIdx(k) = Slot(u + k - 1)
  <2>1. Window = {Slot(i) : i \in 0..(u - 1)}
    <3>1. 0..(u - 1) = 0..(num + Len(id_ex) - 1)
      BY <1>1
    <3>2. Window = {Slot(i) : i \in 0..(num + Len(id_ex) - 1)}
      BY DEF Window
    <3> HIDE DEF u
    <3> QED BY <3>1, <3>2
  <2>2. \A k \in Int : NewIdx(k) = Slot(u + k - 1)
    BY <1>1 DEF NewIdx
  <2> QED BY <2>1, <2>2
<1> HIDE DEF u
<1>4. \A k \in 1..WAYS : u + k - 1 \in 0..(ROBSZ - 1) /\ u + k - 1 \in 0..ROBSZ /\ k \in Int /\ u + k - 1 >= u
  BY <1>2, Sizes
<1>5. \A i \in 0..(u - 1) : i \in 0..(ROBSZ - 1) /\ i \in 0..ROBSZ /\ i < u
  BY <1>2, Sizes
<1>6. ASSUME NEW k \in 1..WAYS PROVE NewIdx(k) \in Idx /\ NewIdx(k) \notin Window
  <2>1. NewIdx(k) \in Idx
    BY <1>1, <1>3, <1>4, SlotIs
  <2>2. ASSUME NEW i \in 0..(u - 1), Slot(i) = Slot(u + k - 1) PROVE FALSE
    <3>1. i = u + k - 1
      BY <1>1, <1>4, <1>5, <2>2, SlotIs
    <3> QED BY <1>2, <1>4, <1>5, <3>1
  <2> QED BY <1>3, <2>1, <2>2
<1>7. ASSUME NEW j \in 1..WAYS, NEW k \in 1..WAYS, NewIdx(j) = NewIdx(k) PROVE j = k
  <2>1. u + j - 1 = u + k - 1
    BY <1>1, <1>3, <1>4, <1>7, SlotIs
  <2> QED BY <1>2, <1>4, <2>1
<1>8. Window \subseteq Idx
  BY <1>1, <1>3, <1>5, SlotIs
<1> QED BY <1>6, <1>7, <1>8

\* Committed instructions leave the window at one end, decoded ones join it at
\* the other.
LEMMA WindowNext ==
  ASSUME RegistersOK, RoomForBundle, NEW committed \in 0..num, NEW n \in 0..WAYS,
         head' = Slot(committed), num' = num + Len(id_ex) - committed, Len(id_ex') = n
  PROVE  \A i : i \in Window' <=>
           (i \in Window /\ i \notin Gone(committed)) \/ \E k \in 1..n : NewIdx(k) = i
<1>1. /\ num \in Nat /\ Len(id_ex) \in Nat /\ num + Len(id_ex) <= ROBSZ - WAYS
      /\ head \in Idx /\ head \in 0..(ROBSZ - 1)
      /\ committed \in Nat /\ committed <= num /\ n \in Nat /\ n <= WAYS
  BY LenProperties DEF RegistersOK, RoomForBundle, Idx
<1> DEFINE u == num + Len(id_ex)
<1>2. u \in Nat /\ u <= ROBSZ - WAYS /\ committed <= u /\ u + n <= ROBSZ
  BY <1>1, Sizes
<1>3. /\ Window = {Slot(i) : i \in 0..(u - 1)}
      /\ \A k \in Int : NewIdx(k) = Slot(u + k - 1)
      /\ Gone(committed) = {Slot(i) : i \in 0..(committed - 1)}
  <2>1. Window = {Slot(i) : i \in 0..(u - 1)}
    <3>1. 0..(u - 1) = 0..(num + Len(id_ex) - 1)
      BY <1>1
    <3>2. Window = {Slot(i) : i \in 0..(num + Len(id_ex) - 1)}
      BY DEF Window
    <3> HIDE DEF u
    <3> QED BY <3>1, <3>2
  <2>2. \A k \in Int : NewIdx(k) = Slot(u + k - 1)
    BY <1>1 DEF NewIdx
  <2> QED BY <2>1, <2>2 DEF Gone
<1>4. Window' = {(head' + i) % ROBSZ : i \in 0..((u - committed) + n - 1)}
  <2>1. Window' = {(head' + i) % ROBSZ : i \in 0..(num' + Len(id_ex') - 1)}
    BY DEF Window, Slot
  <2>2. num' + Len(id_ex') - 1 = (u - committed) + n - 1
    BY <1>1
  <2> QED BY <2>1, <2>2
<1> HIDE DEF u
<1>5. \A i \in 0..((u - committed) + n - 1) : (head' + i) % ROBSZ = Slot(committed + i)
  <2> SUFFICES ASSUME NEW i \in 0..((u - committed) + n - 1)
               PROVE  (head' + i) % ROBSZ = Slot(committed + i)
    OBVIOUS
  <2>1. i \in 0..ROBSZ /\ committed \in 0..ROBSZ /\ committed + i <= ROBSZ
    BY <1>1, <1>2, Sizes
  <2> QED BY <1>1, <2>1, RingAdds, Sizes DEF Slot
<1>6. ASSUME NEW i \in Window' PROVE (i \in Window /\ i \notin Gone(committed)) \/ \E k \in 1..n : NewIdx(k) = i
  <2>1. PICK d \in 0..((u - committed) + n - 1) : i = Slot(committed + d)
    BY <1>4, <1>5, <1>6
  <2>2. d \in Nat /\ d <= (u - committed) + n - 1
    BY <1>1, <1>2
  <2>3. CASE committed + d < u
    <3>1. committed + d \in 0..(u - 1)
      BY <1>1, <1>2, <2>2, <2>3
    <3>2. i \in Window
      BY <1>3, <2>1, <3>1
    <3>3. ASSUME NEW g \in 0..(committed - 1), Slot(g) = i PROVE FALSE
      <4>1. g \in 0..(ROBSZ - 1) /\ committed + d \in 0..(ROBSZ - 1) /\ g # committed + d
        BY <1>1, <1>2, <2>2, <2>3, Sizes
      <4> QED BY <1>1, <2>1, <3>3, <4>1, SlotIs
    <3> QED BY <1>3, <3>2, <3>3
  <2>4. CASE committed + d >= u
    <3> DEFINE k == committed + d - u + 1
    <3>1. k \in 1..n /\ u + k - 1 = committed + d
      BY <1>1, <1>2, <2>2, <2>4
    <3>2. NewIdx(k) = i
      BY <1>3, <2>1, <3>1
    <3> QED BY <3>1, <3>2
  <2> QED BY <2>3, <2>4, <1>1, <1>2, <2>2
<1>7. ASSUME NEW i \in Window, i \notin Gone(committed) PROVE i \in Window'
  <2>1. PICK d \in 0..(u - 1) : i = Slot(d)
    BY <1>3, <1>7
  <2>2. d \notin 0..(committed - 1)
    BY <1>3, <1>7, <2>1
  <2>3. d - committed \in 0..((u - committed) + n - 1) /\ committed + (d - committed) = d
    BY <1>1, <1>2, <2>2
  <2>4. (head' + (d - committed)) % ROBSZ = i
    BY <1>5, <2>1, <2>3
  <2> QED BY <1>4, <2>3, <2>4
<1>8. ASSUME NEW k \in 1..n PROVE NewIdx(k) \in Window'
  <2>1. /\ (u - committed) + k - 1 \in 0..((u - committed) + n - 1)
        /\ committed + ((u - committed) + k - 1) = u + k - 1
    BY <1>1, <1>2
  <2>2. (head' + ((u - committed) + k - 1)) % ROBSZ = NewIdx(k)
    BY <1>3, <1>5, <2>1
  <2> QED BY <1>4, <2>1, <2>2
<1> QED BY <1>6, <1>7, <1>8

\* What decode sends.
LEMMA BundleIs ==
  ASSUME RegistersOK, RoomForBundle, NEW b \in Bundles \cup {<<>>}
  PROVE  \E n \in 0..WAYS :
           /\ Len(b) = n /\ DOMAIN b = 1..n
           /\ \A k \in 1..n : b[k].kind \in Kinds /\ b[k].needs \subseteq Idx
<1>1. CASE b = <<>>
  BY <1>1, Sizes
<1>2. CASE b \in Bundles
  <2> DEFINE Of(n) == {[i \in 1..n |-> [kind |-> kinds[i], needs |-> needs[i]]] :
                         kinds \in Mix(n),
                         needs \in {f \in [1..n -> Operands(n)] : \A i \in 1..n : f[i] \in Operands(i)}}
  <2>0. PICK n \in 0..WAYS : b \in Of(n)
    <3>1. Bundles = UNION {Of(n) : n \in 0..WAYS}
      BY DEF Bundles
    <3> HIDE DEF Of
    <3> QED BY <1>2, <3>1
  <2>1. \E kinds \in Mix(n), needs \in [1..n -> Operands(n)] :
          b = [i \in 1..n |-> [kind |-> kinds[i], needs |-> needs[i]]]
    BY <2>0
  <2>2. n \in Nat /\ Len(b) = n /\ DOMAIN b = 1..n
    BY <2>1
  <2>3. \A k \in 1..n : b[k].kind \in Kinds /\ b[k].needs \in Operands(n)
    BY <2>1 DEF Mix
  <2>4. \A S \in Operands(n) : S \subseteq Idx
    <3>1. \A j \in 1..(n - 1) : j \in 1..WAYS
      BY <2>2, Sizes
    <3>2. InFlight \cup {NewIdx(j) : j \in 1..(n - 1)} \subseteq Idx
      BY <3>1, NewAre DEF InFlight
    <3> QED BY <3>2 DEF Operands
  <2> QED BY <2>2, <2>3, <2>4
<1> QED BY <1>1, <1>2

-----------------------------------------------------------------------------
(* A cycle keeps the registers as they should be. *)

\* A cycle in which load is broadcast, committed instructions leave and the
\* bundle b is decoded.
Step(load, committed, b) ==
  LET m == Matching(load)
  IN  /\ load \in lq \cup {None}
      /\ committed \in Commits
      /\ b \in Bundles \cup {<<>>}
      /\ b # <<>> => ~rob_is_full(committed) /\ ~rs_is_full(m)
      /\ Execute(load, m)
      /\ Advance(CDB_reg_write(load, m), b, committed)

\* A cycle is such a step.
LEMMA CycleIsStep ==
  ASSUME NEW load \in lq \cup {None}, Cycle(load)
  PROVE  \E committed \in Commits, b \in Bundles \cup {<<>>} : Step(load, committed, b)
<1> DEFINE m == Matching(load)
           bus == CDB_reg_write(load, m)
<1>1. Execute(load, m) /\ \E committed \in Commits :
        \E b \in IF rob_is_full(committed) \/ rs_is_full(m) THEN {<<>>} ELSE Bundles :
          Advance(bus, b, committed)
  BY DEF Cycle
<1>2. PICK committed \in Commits :
        \E b \in IF rob_is_full(committed) \/ rs_is_full(m) THEN {<<>>} ELSE Bundles :
          Advance(bus, b, committed)
  BY <1>1
<1>3. PICK b \in Bundles \cup {<<>>} :
        /\ b # <<>> => ~(rob_is_full(committed) \/ rs_is_full(m))
        /\ Advance(bus, b, committed)
  <2>1. CASE rob_is_full(committed) \/ rs_is_full(m)
    BY <1>2, <2>1
  <2>2. CASE ~(rob_is_full(committed) \/ rs_is_full(m))
    BY <1>2, <2>2
  <2> QED BY <2>1, <2>2
<1> QED BY <1>1, <1>3 DEF Step

\* The decoded bundle, packet by packet.
LEMMA DecodedIs ==
  ASSUME RegistersOK, RoomForBundle, NEW load, NEW committed, NEW b, Step(load, committed, b)
  PROVE  /\ Len(id_ex') = Len(b) /\ Len(b) \in 0..WAYS
         /\ id_ex' \in Seq(Packet)
         /\ \A k \in 1..Len(b) :
              /\ k \in 1..WAYS
              /\ id_ex'[k].idx = NewIdx(k)
              /\ id_ex'[k].waits = b[k].needs \ CDB_reg_write(load, Matching(load))
              /\ b[k].needs \subseteq Idx
<1> DEFINE bus == CDB_reg_write(load, Matching(load))
<1>1. PICK n \in 0..WAYS :
        /\ Len(b) = n /\ DOMAIN b = 1..n
        /\ \A k \in 1..n : b[k].kind \in Kinds /\ b[k].needs \subseteq Idx
  BY BundleIs DEF Step
<1>2. id_ex' = [i \in 1..n |-> id_packet(b, i, bus)]
  BY <1>1 DEF Step, Advance
<1>3. n \in Nat /\ \A k \in 1..n : k \in 1..WAYS
  BY Sizes
<1> HIDE DEF bus
<1>4. \A k \in 1..n : /\ id_ex'[k] = [idx |-> NewIdx(k), kind |-> b[k].kind, waits |-> b[k].needs \ bus]
                      /\ id_ex'[k] \in Packet
  <2> SUFFICES ASSUME NEW k \in 1..n
               PROVE  /\ id_ex'[k] = [idx |-> NewIdx(k), kind |-> b[k].kind, waits |-> b[k].needs \ bus]
                      /\ id_ex'[k] \in Packet
    OBVIOUS
  <2>1. id_ex'[k] = [idx |-> NewIdx(k), kind |-> b[k].kind, waits |-> b[k].needs \ bus]
    BY <1>2 DEF id_packet
  <2>2. NewIdx(k) \in Idx /\ b[k].kind \in Kinds /\ b[k].needs \ bus \in SUBSET Idx
    BY <1>1, <1>3, NewAre
  <2> QED BY <2>1, <2>2 DEF Packet
<1>5. id_ex' \in Seq(Packet) /\ Len(id_ex') = n
  BY <1>2, <1>3, <1>4
<1> QED BY <1>1, <1>3, <1>4, <1>5 DEF bus

\* What units work on after a cycle.
LEMMA HeldNext ==
  ASSUME NEW load, NEW m, NEW j \in Ways,
         alu' = [k \in Ways |-> [state |-> next_state(load, m, k), inst |-> ex_packet_in(load, m, k)]]
  PROVE  /\ Held(j)' = NextHeld(load, m, j)
         /\ ALU_occupied(j)' <=> next_state(load, m, j) # "INITIAL"
BY DEF Held, ALU_occupied, NextHeld

\* The registers keep their types and the free lines their count.
LEMMA StepRegisters ==
  ASSUME RegistersOK, UnitsHoldMults, RoomForBundle, NEW load, NEW committed, NEW b,
         Step(load, committed, b)
  PROVE  RegistersOK' /\ UnitsHoldMults'
<1> DEFINE m == Matching(load)
           bus == CDB_reg_write(load, m)
           loaded == load_in_hub(reset_hub(m))
<1>1. /\ rs' = [l \in Lines |-> NextLine(loaded, reset_hub(m), bus, l)]
      /\ num_is_free' = num_is_free_next(m)
      /\ alu' = [j \in Ways |-> [state |-> next_state(load, m, j), inst |-> ex_packet_in(load, m, j)]]
      /\ dones' = [j \in Ways |-> NextDones(load, m, j)]
      /\ lq' = (lq \ {load}) \cup Addresses(load, m)
      /\ head' = Slot(committed)
      /\ num' = num + Len(id_ex) - committed
      /\ done' = (done \ {Slot(i) : i \in 0..(committed - 1)}) \cup bus
      /\ operands' = [x \in Idx |-> (IF \E i \in 1..Len(b) : NewIdx(i) = x
                                     THEN b[CHOOSE i \in 1..Len(b) : NewIdx(i) = x].needs
                                     ELSE operands[x]) \ bus]
      /\ edge' = 1 - edge
      /\ load \in lq \cup {None}
  BY DEF Step, Execute, Advance
<1>2. committed \in 0..num /\ num \in 0..ROBSZ /\ committed \in 0..ROBSZ
      /\ Len(id_ex) \in Nat /\ num + Len(id_ex) <= ROBSZ - WAYS
  BY CommitsAre, LenProperties, Sizes DEF Step, RegistersOK, RoomForBundle
<1>3. head' \in Idx /\ num' \in 0..ROBSZ
  BY <1>1, <1>2, SlotIs, Sizes DEF RegistersOK
<1>4. /\ Len(id_ex') <= WAYS /\ id_ex' \in Seq(Packet)
      /\ \A k \in 1..Len(b) : b[k].needs \subseteq Idx
  BY DecodedIs, Sizes
<1>5. rs' \in [Lines -> Packet \cup {None}]
  <2> SUFFICES ASSUME NEW l \in Lines PROVE NextLine(loaded, reset_hub(m), bus, l) \in Packet \cup {None}
    BY <1>1
  <2>1. \/ \E p \in Packet : NextLine(loaded, reset_hub(m), bus, l) = Woken(p, bus)
        \/ NextLine(loaded, reset_hub(m), bus, l) = None
    BY LineNext
  <2> QED BY <2>1, WokenIs
<1>6. num_is_free' = Cardinality(FreeLines')
  BY <1>1, CountNext DEF FreeLines
<1>7. \A p \in m : p[2] \in Ways /\ rs[p[1]] \in Packet
  BY MatchingIs, UnitStarted
<1>8. \A j \in Ways : next_state(load, m, j) \in States /\ ex_packet_in(load, m, j) \in Packet \cup {None}
  <2> SUFFICES ASSUME NEW j \in Ways PROVE next_state(load, m, j) \in States
    BY PacketSeen
  <2> QED BY UnitStarted, UnitKept
<1>9. alu' \in [Ways -> [state : States, inst : Packet \cup {None}]] /\ UnitsHoldMults'
  <2>1. alu' \in [Ways -> [state : States, inst : Packet \cup {None}]]
    <3> HIDE DEF m
    <3> QED BY <1>1, <1>8
  <2> SUFFICES ASSUME NEW j \in Ways
               PROVE  (ALU_occupied(j)' <=> Held(j)' # None) /\ (Held(j)' # None => Held(j)'.kind = "mult")
    BY <2>1 DEF UnitsHoldMults
  <2>2. Held(j)' = NextHeld(load, m, j) /\ (ALU_occupied(j)' <=> next_state(load, m, j) # "INITIAL")
    BY <1>1, HeldNext
  <2>3. CASE \E p \in m : p[2] = j
    <3>1. PICK p \in m : p[2] = j
      BY <2>3
    <3>2. \/ rs[p[1]] \in Packet /\ rs[p[1]].kind = "mult" /\ NextHeld(load, m, j) = rs[p[1]]
             /\ next_state(load, m, j) # "INITIAL"
          \/ NextHeld(load, m, j) = None /\ next_state(load, m, j) = "INITIAL"
      BY <3>1, UnitStarted
    <3> HIDE DEF m
    <3> QED BY <2>2, <3>2, Sizes
  <2>4. CASE ~\E p \in m : p[2] = j
    <3>1. /\ Held(j) = None => next_state(load, m, j) = "INITIAL"
          /\ Held(j) # None => ex_packet_in(load, m, j) = Held(j) /\ Held(j).kind = "mult"
      BY <2>4, UnitKept DEF UnitsHoldMults
    <3> HIDE DEF m
    <3> QED BY <2>2, <3>1 DEF NextHeld
  <2> QED BY <2>3, <2>4
<1>10. \A j \in Ways : dones'[j] \subseteq 1..STAGES
  <2> SUFFICES ASSUME NEW j \in Ways PROVE NextDones(load, m, j) \subseteq 1..STAGES
    BY <1>1
  <2>1. dones[j] \subseteq 1..STAGES
    BY DEF RegistersOK
  <2>2. \A s \in dones[j] \ {STAGES} : s + 1 \in 1..STAGES
    BY <2>1, Sizes
  <2>3. 1 \in 1..STAGES
    BY Sizes
  <2> QED BY <2>2, <2>3 DEF NextDones
<1>11. bus \subseteq Idx /\ Addresses(load, m) \subseteq Idx
  <2>1. \A p \in m : rs[p[1]].idx \in Idx
    BY <1>7 DEF Packet
  <2>2. \A j \in Ways : Held(j) # None => Held(j).idx \in Idx
    BY DEF RegistersOK, Packet, Held
  <2>3. load \in lq => load \in Idx
    BY DEF RegistersOK
  <2>4. ASSUME NEW i \in bus PROVE i \in Idx
    BY <1>1, <2>1, <2>2, <2>3, <2>4, BusIs
  <2>5. ASSUME NEW i \in Addresses(load, m) PROVE i \in Idx
    BY <1>1, <2>1, <2>5, BusIs
  <2> QED BY <2>4, <2>5
<1>12. done' \subseteq Idx /\ lq' \subseteq Idx
  <2> HIDE DEF bus, m
  <2> QED BY <1>1, <1>11 DEF RegistersOK
<1>13. operands' \in [Idx -> SUBSET Idx]
  <2> HIDE DEF bus, m
  <2>1. \A x \in Idx : operands[x] \subseteq Idx
    BY DEF RegistersOK
  <2>2. \A x \in Idx : (\E i \in 1..Len(b) : NewIdx(i) = x) =>
          b[CHOOSE i \in 1..Len(b) : NewIdx(i) = x].needs \subseteq Idx
    BY <1>4
  <2>3. \A x \in Idx : ((IF \E i \in 1..Len(b) : NewIdx(i) = x
                         THEN b[CHOOSE i \in 1..Len(b) : NewIdx(i) = x].needs
                         ELSE operands[x]) \ bus) \in SUBSET Idx
    BY <2>1, <2>2
  <2> QED BY <1>1, <2>3
<1>14. edge' \in 0..1
  BY <1>1 DEF RegistersOK
<1> QED BY <1>3, <1>4, <1>5, <1>6, <1>9, <1>10, <1>12, <1>13, <1>14 DEF RegistersOK

\* The stall leaves room for what it lets through.
LEMMA StepRoom ==
  ASSUME RegistersOK, RoomForBundle, NEW load, NEW committed, NEW b, Step(load, committed, b)
  PROVE  RoomForBundle'
<1>1. /\ num' = num + Len(id_ex) - committed
      /\ num_is_free' = num_is_free_next(Matching(load))
      /\ b # <<>> => ~rob_is_full(committed) /\ ~rs_is_full(Matching(load))
      /\ id_ex' = [i \in 1..Len(b) |-> id_packet(b, i, CDB_reg_write(load, Matching(load)))]
  BY DEF Step, Execute, Advance
<1>2. /\ Len(id_ex') = Len(b) /\ Len(b) \in Nat /\ Len(b) <= WAYS
      /\ committed \in Nat /\ num \in Nat /\ Len(id_ex) \in Nat /\ num + Len(id_ex) <= ROBSZ - WAYS
  BY DecodedIs, CommitsAre, LenProperties, Sizes DEF Step, RegistersOK, RoomForBundle
<1>3. CASE b = <<>>
  <2>1. Len(b) = 0 /\ id_ex' = <<>>
    BY <1>1, <1>3
  <2> QED BY <1>1, <1>2, <2>1, Sizes DEF RoomForBundle
<1>4. CASE b # <<>>
  <2>1. ~(ROBSZ - num - Len(id_ex) + committed < 2 * WAYS)
    BY <1>1, <1>4 DEF rob_is_full, num_free
  <2>2. ~(num_is_free' < WAYS)
    BY <1>1, <1>4 DEF rs_is_full
  <2>3. num_is_free' \in Nat
    <3>1. RegistersOK => num_is_free \in Nat /\ num_is_free = Cardinality(FreeLines)
      BY LinesFinite DEF RegistersOK, FreeLines
    <3>2. num_is_free_next(Matching(load)) = Cardinality({l \in Lines : rs'[l] = None})
      BY CountNext DEF Step, Execute
    <3> QED BY <1>1, <3>2, LinesFinite
  <2>4. num' + Len(id_ex') <= ROBSZ - WAYS
    BY <1>1, <1>2, <2>1, Sizes
  <2> QED BY <2>2, <2>3, <2>4, Sizes DEF RoomForBundle
<1> QED BY <1>3, <1>4

-----------------------------------------------------------------------------
(* Where an instruction is. *)

InIdEx(i) == {k \in 1..Len(id_ex) : id_ex[k].idx = i}
InRs(i) == {l \in Lines : rs[l] # None /\ rs[l].idx = i}
InAlu(i) == {j \in Ways : Held(j) # None /\ Held(j).idx = i}

Nowhere(i) == InIdEx(i) = {} /\ InRs(i) = {} /\ InAlu(i) = {} /\ i \notin lq /\ i \notin done

Alone(i) ==
  \/ (\E k : InIdEx(i) = {k}) /\ InRs(i) = {} /\ InAlu(i) = {} /\ i \notin lq /\ i \notin done
  \/ InIdEx(i) = {} /\ (\E l : InRs(i) = {l}) /\ InAlu(i) = {} /\ i \notin lq /\ i \notin done
  \/ InIdEx(i) = {} /\ InRs(i) = {} /\ (\E j : InAlu(i) = {j}) /\ i \notin lq /\ i \notin done
  \/ InIdEx(i) = {} /\ InRs(i) = {} /\ InAlu(i) = {} /\ i \in lq /\ i \notin done
  \/ InIdEx(i) = {} /\ InRs(i) = {} /\ InAlu(i) = {} /\ i \notin lq /\ i \in done

Located == \A i \in Idx : IF i \in Window THEN Alone(i) ELSE Nowhere(i)

\* How instruction i moves in a cycle.
LEMMA Moves ==
  ASSUME RegistersOK, UnitsHoldMults, RoomForBundle, NEW load, NEW committed, NEW b,
         Step(load, committed, b), NEW i
  PROVE  LET m == Matching(load)
             loaded == load_in_hub(reset_hub(m))
         IN  /\ \A k : k \in InIdEx(i)' <=> k \in 1..Len(b) /\ NewIdx(k) = i
             /\ \A l : l \in InRs(i)' <=>
                  \/ l \in Entered(loaded) /\ Below(loaded, l) + 1 \in InIdEx(i)
                  \/ l \in InRs(i) /\ l \notin reset_hub(m)
             /\ \A j : j \in InAlu(i)' <=>
                  \/ \E p \in m : p[1] \in InRs(i) /\ rs[p[1]].kind = "mult" /\ p[2] = j
                  \/ j \in InAlu(i) /\ ~valid_out(load, m, j)
             /\ i \in lq' <=> \/ i \in lq /\ i # load
                              \/ \E p \in m : p[1] \in InRs(i) /\ rs[p[1]].kind = "load"
             /\ i \in done' <=> \/ i \in done /\ i \notin Gone(committed)
                                \/ i = load /\ i \in lq
                                \/ \E p \in m : p[1] \in InRs(i) /\ rs[p[1]].kind = "alu"
                                \/ \E j \in InAlu(i) : valid_out(load, m, j)
<1> DEFINE m == Matching(load)
           bus == CDB_reg_write(load, m)
           freed == reset_hub(m)
           loaded == load_in_hub(freed)
<1>1. /\ rs' = [l \in Lines |-> NextLine(loaded, freed, bus, l)]
      /\ alu' = [j \in Ways |-> [state |-> next_state(load, m, j), inst |-> ex_packet_in(load, m, j)]]
      /\ lq' = (lq \ {load}) \cup Addresses(load, m)
      /\ done' = (done \ {Slot(k) : k \in 0..(committed - 1)}) \cup bus
      /\ load \in lq \cup {None}
  BY DEF Step, Execute, Advance
<1>2. \A p \in m : /\ p[1] \in Lines /\ rs[p[1]] # None /\ p[2] \in Ways
                   /\ (p[1] \in InRs(i) <=> rs[p[1]].idx = i)
  BY MatchingIs DEF InRs
<1>3. \A k : k \in InIdEx(i)' <=> k \in 1..Len(b) /\ NewIdx(k) = i
  <2>1. InIdEx(i)' = {k \in 1..Len(id_ex') : id_ex'[k].idx = i}
    BY DEF InIdEx
  <2>2. Len(id_ex') = Len(b) /\ \A k \in 1..Len(b) : id_ex'[k].idx = NewIdx(k)
    BY DecodedIs
  <2> QED BY <2>1, <2>2
<1>4. \A l : l \in InRs(i)' <=>
        \/ l \in Entered(loaded) /\ Below(loaded, l) + 1 \in InIdEx(i)
        \/ l \in InRs(i) /\ l \notin freed
  <2>1. \A l : l \in InRs(i)' <=> l \in Lines /\ rs'[l] # None /\ rs'[l].idx = i
    BY DEF InRs
  <2>2. /\ freed \in SUBSET Lines /\ loaded \subseteq FreeLines \cup freed
        /\ Entered(loaded) \subseteq loaded
    BY FreedAre
  <2>3. \A l \in Entered(loaded) : Below(loaded, l) + 1 \in 1..Len(id_ex)
    BY <2>2, BundleEnters
  <2>4. \A l \in Lines :
          /\ l \in Entered(loaded) =>
               rs'[l] # None /\ rs'[l].idx = id_ex[Below(loaded, l) + 1].idx
          /\ l \notin Entered(loaded) /\ l \in FreeLines \cup freed => rs'[l] = None
          /\ l \notin FreeLines \cup freed => rs'[l] # None /\ rs'[l].idx = rs[l].idx
    <3> SUFFICES ASSUME NEW l \in Lines
                 PROVE  /\ l \in Entered(loaded) =>
                             rs'[l] # None /\ rs'[l].idx = id_ex[Below(loaded, l) + 1].idx
                        /\ l \notin Entered(loaded) /\ l \in FreeLines \cup freed => rs'[l] = None
                        /\ l \notin FreeLines \cup freed => rs'[l] # None /\ rs'[l].idx = rs[l].idx
      OBVIOUS
    <3>1. rs'[l] = NextLine(loaded, freed, bus, l)
      BY <1>1
    <3>2. /\ l \in Entered(loaded) =>
               /\ id_ex[Below(loaded, l) + 1] \in Packet
               /\ rs'[l] = Woken(id_ex[Below(loaded, l) + 1], bus)
               /\ rs'[l] # None
          /\ l \notin Entered(loaded) /\ l \in FreeLines \cup freed => rs'[l] = None
          /\ l \notin FreeLines \cup freed =>
               rs[l] \in Packet /\ rs'[l] = Woken(rs[l], bus) /\ rs'[l] # None
      BY <3>1, LineNext
    <3> HIDE DEF m, freed, loaded, bus
    <3> QED BY <3>2, WokenIs
  <2> HIDE DEF m, freed, loaded, bus
  <2> SUFFICES ASSUME NEW l
               PROVE  l \in InRs(i)' <=>
                        \/ l \in Entered(loaded) /\ Below(loaded, l) + 1 \in InIdEx(i)
                        \/ l \in InRs(i) /\ l \notin freed
    OBVIOUS
  <2>5. l \in Entered(loaded) => (Below(loaded, l) + 1 \in InIdEx(i) <=> id_ex[Below(loaded, l) + 1].idx = i)
    BY <2>3 DEF InIdEx
  <2>6. l \in InRs(i) <=> l \in Lines /\ l \notin FreeLines /\ rs[l].idx = i
    BY DEF InRs, FreeLines
  <2>7. l \in Entered(loaded) => l \in Lines /\ l \in FreeLines \cup freed
    BY <2>2 DEF FreeLines
  <2> QED BY <2>1, <2>4, <2>5, <2>6, <2>7
<1>5. \A j : j \in InAlu(i)' <=>
        \/ \E p \in m : p[1] \in InRs(i) /\ rs[p[1]].kind = "mult" /\ p[2] = j
        \/ j \in InAlu(i) /\ ~valid_out(load, m, j)
  <2> SUFFICES ASSUME NEW j
               PROVE  j \in InAlu(i)' <=>
                        \/ \E p \in m : p[1] \in InRs(i) /\ rs[p[1]].kind = "mult" /\ p[2] = j
                        \/ j \in InAlu(i) /\ ~valid_out(load, m, j)
    OBVIOUS
  <2>1. j \in InAlu(i)' <=> j \in Ways /\ Held(j)' # None /\ Held(j)'.idx = i
    BY DEF InAlu
  <2>2. j \in Ways => Held(j)' = NextHeld(load, m, j)
    BY <1>1, HeldNext
  <2>4. CASE \E p \in m : p[2] = j
    <3>1. PICK p \in m : p[2] = j
      BY <2>4
    <3>2. /\ rs[p[1]].kind = "mult" => NextHeld(load, m, j) = rs[p[1]]
          /\ rs[p[1]].kind # "mult" => NextHeld(load, m, j) = None
      BY <3>1, UnitStarted
    <3>3. ~ALU_occupied(j) /\ j \in Ways
      BY <3>1, UnitPacket, MatchingIs
    <3>4. j \notin InAlu(i)
      BY <3>3 DEF InAlu, Held
    <3>5. \A q \in m : q[2] = j => q = p
      BY <3>1, MatchingIs
    <3>6. rs[p[1]] # None
      BY <1>2
    <3>7. p[1] \in InRs(i) <=> rs[p[1]].idx = i
      BY <1>2
    <3> HIDE DEF m
    <3>8. (\E q \in m : q[1] \in InRs(i) /\ rs[q[1]].kind = "mult" /\ q[2] = j)
             <=> rs[p[1]].idx = i /\ rs[p[1]].kind = "mult"
      BY <3>1, <3>5, <3>7
    <3> QED BY <2>1, <2>2, <3>2, <3>3, <3>4, <3>6, <3>8
  <2>5. CASE j \in Ways /\ ~\E p \in m : p[2] = j
    <3>1. /\ Held(j) = None => ~valid_out(load, m, j) /\ next_state(load, m, j) = "INITIAL"
          /\ Held(j) # None =>
               /\ ex_packet_in(load, m, j) = Held(j)
               /\ valid_out(load, m, j) <=> next_state(load, m, j) = "INITIAL"
      BY <2>5, UnitKept
    <3> HIDE DEF m
    <3>2. Held(j)' = IF Held(j) = None \/ valid_out(load, m, j) THEN None ELSE Held(j)
      BY <2>2, <2>5, <3>1 DEF NextHeld
    <3> QED BY <2>1, <2>5, <3>2 DEF InAlu
  <2>6. CASE j \notin Ways
    BY <1>2, <2>1, <2>6 DEF InAlu
  <2> QED BY <2>4, <2>5, <2>6
<1>6. /\ i \in bus <=>
           \/ i = load /\ load \in lq
           \/ \E p \in m : rs[p[1]].kind = "alu" /\ rs[p[1]].idx = i
           \/ \E j \in Ways : Held(j) # None /\ Held(j).idx = i /\ valid_out(load, m, j)
      /\ i \in Addresses(load, m) <=> \E p \in m : rs[p[1]].kind = "load" /\ rs[p[1]].idx = i
  BY <1>1, BusIs
<1>7. i \in lq' <=> \/ i \in lq /\ i # load
                    \/ \E p \in m : p[1] \in InRs(i) /\ rs[p[1]].kind = "load"
  <2> HIDE DEF m, bus
  <2> QED BY <1>1, <1>2, <1>6
<1>8. i \in done' <=> \/ i \in done /\ i \notin Gone(committed)
                      \/ i = load /\ i \in lq
                      \/ \E p \in m : p[1] \in InRs(i) /\ rs[p[1]].kind = "alu"
                      \/ \E j \in InAlu(i) : valid_out(load, m, j)
  <2>1. (\E p \in m : rs[p[1]].kind = "alu" /\ rs[p[1]].idx = i)
          <=> \E p \in m : p[1] \in InRs(i) /\ rs[p[1]].kind = "alu"
    BY <1>2
  <2>2. (\E j \in Ways : Held(j) # None /\ Held(j).idx = i /\ valid_out(load, m, j))
          <=> \E j \in InAlu(i) : valid_out(load, m, j)
    BY DEF InAlu
  <2> HIDE DEF m, bus
  <2>3. i \in done' <=> (i \in done /\ i \notin Gone(committed)) \/ i \in bus
    BY <1>1 DEF Gone
  <2> QED BY <1>6, <2>1, <2>2, <2>3
<1> QED BY <1>3, <1>4, <1>5, <1>7, <1>8

\* After a cycle, an instruction of the window is again in one place.
LEMMA StepLocated ==
  ASSUME RegistersOK, UnitsHoldMults, RoomForBundle, Located, NEW load, NEW committed, NEW b,
         Step(load, committed, b)
  PROVE  Located'
<1> DEFINE m == Matching(load)
           loaded == load_in_hub(reset_hub(m))
<1> SUFFICES ASSUME NEW i \in Idx PROVE IF i \in Window' THEN Alone(i)' ELSE Nowhere(i)'
  BY DEF Located
<1>1. /\ \A k : k \in InIdEx(i)' <=> k \in 1..Len(b) /\ NewIdx(k) = i
      /\ \A l : l \in InRs(i)' <=>
           \/ l \in Entered(loaded) /\ Below(loaded, l) + 1 \in InIdEx(i)
           \/ l \in InRs(i) /\ l \notin reset_hub(m)
      /\ \A j : j \in InAlu(i)' <=>
           \/ \E p \in m : p[1] \in InRs(i) /\ rs[p[1]].kind = "mult" /\ p[2] = j
           \/ j \in InAlu(i) /\ ~valid_out(load, m, j)
      /\ i \in lq' <=> \/ i \in lq /\ i # load
                       \/ \E p \in m : p[1] \in InRs(i) /\ rs[p[1]].kind = "load"
      /\ i \in done' <=> \/ i \in done /\ i \notin Gone(committed)
                         \/ i = load /\ i \in lq
                         \/ \E p \in m : p[1] \in InRs(i) /\ rs[p[1]].kind = "alu"
                         \/ \E j \in InAlu(i) : valid_out(load, m, j)
  BY Moves
<1>2. /\ i \in Window' <=> (i \in Window /\ i \notin Gone(committed)) \/ \E k \in 1..Len(b) : NewIdx(k) = i
      /\ Gone(committed) \subseteq done
      /\ \A k \in 1..Len(b) : k \in 1..WAYS
  <2>1. /\ Len(id_ex') = Len(b) /\ Len(b) \in 0..WAYS
        /\ \A k \in 1..Len(b) : k \in 1..WAYS
    BY DecodedIs
  <2>2. committed \in 0..num /\ Gone(committed) \subseteq done
    BY CommitsAre DEF Step
  <2>3. head' = Slot(committed) /\ num' = num + Len(id_ex) - committed
    BY DEF Step, Advance
  <2> QED BY <2>1, <2>2, <2>3, WindowNext
<1>3. /\ \A k \in 1..Len(b) : NewIdx(k) \notin Window
      /\ \A j, k \in 1..Len(b) : NewIdx(j) = NewIdx(k) => j = k
  BY <1>2, NewAre
<1>4. /\ \A l, k \in Entered(loaded) : Below(loaded, l) = Below(loaded, k) => l = k
      /\ \A k \in 1..Len(id_ex) : \E l \in Entered(loaded) : Below(loaded, l) + 1 = k
      /\ \A l \in Entered(loaded) : Below(loaded, l) + 1 \in 1..Len(id_ex) /\ Below(loaded, l) \in Nat
  <2>1. reset_hub(m) \in SUBSET Lines /\ Entered(loaded) \subseteq Lines /\ loaded \subseteq Lines
    BY FreedAre DEF FreeLines
  <2>2. \A l : Below(loaded, l) \in Nat
    <3> SUFFICES ASSUME NEW l PROVE Cardinality({y \in loaded : y < l}) \in Nat
      BY DEF Below
    <3> QED BY <2>1, LinesFinite
  <2> QED BY <2>1, <2>2, BundleEnters
<1>5. \A l : l \in reset_hub(m) <=> \E p \in m : p[1] = l
  BY FreedAre
<1>6. \A p \in m : rs[p[1]].kind \in {"alu", "mult", "load"}
  BY UnitStarted
<1>7. \A p, q \in m : p[1] = q[1] => p = q
  BY MatchingIs
<1> DEFINE R == reset_hub(m)
           E == Entered(loaded)
           B(l) == Below(loaded, l)
           V(j) == valid_out(load, m, j)
           X == InIdEx(i)
           Y == InRs(i)
           Z == InAlu(i)
<1> HIDE DEF m, loaded, R, E, B, V, X, Y, Z
<1>8. CASE i \notin Window
  <2>1. X = {} /\ Y = {} /\ Z = {} /\ i \notin lq /\ i \notin done
    BY <1>8 DEF Located, Nowhere, X, Y, Z
  <2>2. InRs(i)' = {} /\ InAlu(i)' = {} /\ i \notin lq' /\ i \notin done'
    BY <1>1, <2>1 DEF X, Y, Z
  <2>3. CASE \E k \in 1..Len(b) : NewIdx(k) = i
    <3>1. PICK k \in 1..Len(b) : NewIdx(k) = i
      BY <2>3
    <3>2. InIdEx(i)' = {k}
      BY <1>1, <1>3, <3>1
    <3> QED BY <1>2, <2>2, <2>3, <3>2 DEF Alone
  <2>4. CASE ~\E k \in 1..Len(b) : NewIdx(k) = i
    <3>1. InIdEx(i)' = {}
      BY <1>1, <2>4
    <3> QED BY <1>2, <1>8, <2>2, <2>4, <3>1 DEF Nowhere
  <2> QED BY <2>3, <2>4
<1>9. CASE i \in Window
  <2>1. InIdEx(i)' = {} /\ (i \in Window' <=> i \notin Gone(committed))
    BY <1>1, <1>2, <1>3, <1>9
  <2>2. Alone(i)
    BY <1>9 DEF Located
  <2>3. CASE (\E k : X = {k}) /\ Y = {} /\ Z = {} /\ i \notin lq /\ i \notin done
    <3>1. PICK k : X = {k}
      BY <2>3
    <3>2. k \in 1..Len(id_ex)
      BY <3>1 DEF X, InIdEx
    <3>3. PICK l \in E : B(l) + 1 = k
      BY <1>4, <3>2 DEF E, B
    <3>4. \A x \in E : B(x) + 1 = k => x = l
      BY <1>4, <3>3 DEF E, B
    <3>5. InRs(i)' = {l}
      BY <1>1, <2>3, <3>1, <3>3, <3>4 DEF X, Y, E, B
    <3>6. InAlu(i)' = {} /\ i \notin lq' /\ i \notin done'
      BY <1>1, <2>3 DEF Y, Z
    <3> QED BY <1>2, <2>1, <2>3, <3>5, <3>6 DEF Alone
  <2>4. CASE X = {} /\ (\E l : Y = {l}) /\ Z = {} /\ i \notin lq /\ i \notin done
    <3>1. PICK l : Y = {l}
      BY <2>4
    <3>2. i \notin Gone(committed)
      BY <1>2, <2>4
    <3>3. CASE l \notin R
      <4>1. ~\E p \in m : p[1] \in Y
        BY <1>5, <3>1, <3>3 DEF R
      <4>2. InRs(i)' = {l}
        BY <1>1, <2>4, <3>1, <3>3 DEF X, Y, R
      <4>3. InAlu(i)' = {} /\ i \notin lq' /\ i \notin done'
        BY <1>1, <2>4, <4>1 DEF Y, Z
      <4> QED BY <2>1, <3>2, <4>2, <4>3 DEF Alone
    <3>4. CASE l \in R
      <4>1. PICK p \in m : p[1] = l
        BY <1>5, <3>4 DEF R
      <4>2. \A q \in m : q[1] \in Y <=> q = p
        BY <1>7, <3>1, <4>1
      <4>3. InRs(i)' = {}
        BY <1>1, <2>4, <3>1, <3>4 DEF X, Y, R
      <4>4. /\ \A j : j \in InAlu(i)' <=> rs[p[1]].kind = "mult" /\ p[2] = j
            /\ i \in lq' <=> rs[p[1]].kind = "load"
            /\ i \in done' <=> rs[p[1]].kind = "alu"
        BY <1>1, <2>4, <4>2 DEF Y, Z
      <4>5. rs[p[1]].kind \in {"alu", "mult", "load"}
        BY <1>6
      <4>6. CASE rs[p[1]].kind = "mult"
        <5>1. InAlu(i)' = {p[2]} /\ i \notin lq' /\ i \notin done'
          BY <4>4, <4>6
        <5> QED BY <2>1, <3>2, <4>3, <5>1 DEF Alone
      <4>7. CASE rs[p[1]].kind # "mult"
        <5>1. InAlu(i)' = {} /\ (i \in lq' <=> i \notin done')
          BY <4>4, <4>5, <4>7
        <5> QED BY <2>1, <3>2, <4>3, <5>1 DEF Alone
      <4> QED BY <4>6, <4>7
    <3> QED BY <3>3, <3>4
  <2>5. CASE X = {} /\ Y = {} /\ (\E j : Z = {j}) /\ i \notin lq /\ i \notin done
    <3>1. PICK j : Z = {j}
      BY <2>5
    <3>2. i \notin Gone(committed)
      BY <1>2, <2>5
    <3>3. InRs(i)' = {} /\ i \notin lq'
      BY <1>1, <2>5 DEF X, Y
    <3>4. /\ \A k : k \in InAlu(i)' <=> k = j /\ ~V(j)
          /\ i \in done' <=> V(j)
      BY <1>1, <2>5, <3>1 DEF Y, Z, V
    <3>5. CASE V(j)
      <4>1. InAlu(i)' = {}
        BY <3>4, <3>5
      <4> QED BY <2>1, <3>2, <3>3, <3>4, <3>5, <4>1 DEF Alone
    <3>6. CASE ~V(j)
      <4>1. InAlu(i)' = {j}
        BY <3>4, <3>6
      <4> QED BY <2>1, <3>2, <3>3, <3>4, <3>6, <4>1 DEF Alone
    <3> QED BY <3>5, <3>6
  <2>6. CASE X = {} /\ Y = {} /\ Z = {} /\ i \in lq /\ i \notin done
    <3>1. i \notin Gone(committed)
      BY <1>2, <2>6
    <3>2. InRs(i)' = {} /\ InAlu(i)' = {} /\ (i \in lq' <=> i # load) /\ (i \in done' <=> i = load)
      BY <1>1, <2>6 DEF X, Y, Z
    <3> QED BY <2>1, <3>1, <3>2 DEF Alone
  <2>7. CASE X = {} /\ Y = {} /\ Z = {} /\ i \notin lq /\ i \in done
    <3>1. InRs(i)' = {} /\ InAlu(i)' = {} /\ i \notin lq' /\ (i \in done' <=> i \notin Gone(committed))
      BY <1>1, <2>7 DEF X, Y, Z
    <3> QED BY <2>1, <3>1 DEF Alone, Nowhere
  <2> QED BY <2>2, <2>3, <2>4, <2>5, <2>6, <2>7 DEF Alone, X, Y, Z
<1> QED BY <1>8, <1>9

\* A broadcast reaches every packet, wherever it is.
LEMMA StepWaits ==
  ASSUME RegistersOK, UnitsHoldMults, RoomForBundle, Located, WaitsExact,
         NEW load, NEW committed, NEW b, Step(load, committed, b)
  PROVE  WaitsExact'
<1> DEFINE m == Matching(load)
           bus == CDB_reg_write(load, m)
           freed == reset_hub(m)
           loaded == load_in_hub(freed)
<1>1. /\ rs' = [l \in Lines |-> NextLine(loaded, freed, bus, l)]
      /\ operands' = [x \in Idx |-> (IF \E i \in 1..Len(b) : NewIdx(i) = x
                                     THEN b[CHOOSE i \in 1..Len(b) : NewIdx(i) = x].needs
                                     ELSE operands[x]) \ bus]
  BY DEF Step, Execute, Advance
<1>2. /\ Len(id_ex') = Len(b)
      /\ \A k \in 1..Len(b) : /\ k \in 1..WAYS
                              /\ id_ex'[k].idx = NewIdx(k)
                              /\ id_ex'[k].waits = b[k].needs \ bus
  BY DecodedIs
<1>3. /\ \A k \in 1..Len(b) : NewIdx(k) \in Idx /\ NewIdx(k) \notin Window
      /\ \A j, k \in 1..Len(b) : NewIdx(j) = NewIdx(k) => j = k
  BY <1>2, NewAre
<1>4. ASSUME NEW k \in 1..Len(b) PROVE id_ex'[k].waits = operands'[id_ex'[k].idx]
  <2>1. (CHOOSE i \in 1..Len(b) : NewIdx(i) = NewIdx(k)) = k
    BY <1>3
  <2>2. operands'[NewIdx(k)] = b[k].needs \ bus
    <3> HIDE DEF bus
    <3> QED BY <1>1, <1>3, <2>1
  <2> QED BY <1>2, <2>2
<1>5. ASSUME NEW x \in Idx, x \in Window PROVE operands'[x] = operands[x] \ bus
  <2>1. ~\E i \in 1..Len(b) : NewIdx(i) = x
    BY <1>3, <1>5
  <2> HIDE DEF bus
  <2> QED BY <1>1, <2>1
<1>6. \A x \in Idx : InIdEx(x) # {} \/ InRs(x) # {} => x \in Window
  BY DEF Located, Nowhere
<1>7. \A p \in Packet : p.idx \in Idx
  BY DEF Packet
<1>8. ASSUME NEW l \in Lines, rs'[l] # None PROVE rs'[l].waits = operands'[rs'[l].idx]
  <2>0. rs'[l] = NextLine(loaded, freed, bus, l)
    BY <1>1
  <2>1. /\ l \in Entered(loaded) =>
             /\ id_ex[Below(loaded, l) + 1] \in Packet
             /\ rs'[l] = Woken(id_ex[Below(loaded, l) + 1], bus)
        /\ l \notin Entered(loaded) /\ l \in FreeLines \cup freed => rs'[l] = None
        /\ l \notin FreeLines \cup freed => rs[l] \in Packet /\ rs'[l] = Woken(rs[l], bus)
    BY <2>0, LineNext
  <2>2. l \in Entered(loaded) => Below(loaded, l) + 1 \in 1..Len(id_ex)
    <3>1. freed \in SUBSET Lines
      BY FreedAre
    <3> QED BY <3>1, BundleEnters
  <2> HIDE DEF m, bus, freed, loaded
  <2>3. \E p \in Packet : rs'[l] = Woken(p, bus) /\ p.waits = operands[p.idx] /\ p.idx \in Window
    <3>1. CASE l \in Entered(loaded)
      <4> DEFINE k == Below(loaded, l) + 1
      <4>1. id_ex[k] \in Packet /\ rs'[l] = Woken(id_ex[k], bus) /\ k \in 1..Len(id_ex)
        BY <2>1, <2>2, <3>1
      <4> HIDE DEF k
      <4>2. k \in InIdEx(id_ex[k].idx) /\ id_ex[k].idx \in Idx
        BY <1>7, <4>1 DEF InIdEx
      <4>3. id_ex[k].idx \in Window
        BY <1>6, <4>2
      <4>4. id_ex[k].waits = operands[id_ex[k].idx]
        BY <4>1 DEF WaitsExact
      <4> QED BY <4>1, <4>3, <4>4
    <3>2. CASE l \notin Entered(loaded)
      <4>1. rs[l] \in Packet /\ rs'[l] = Woken(rs[l], bus) /\ rs[l] # None
        BY <1>8, <2>1, <3>2 DEF FreeLines
      <4>2. l \in InRs(rs[l].idx) /\ rs[l].idx \in Idx
        BY <1>7, <4>1 DEF InRs
      <4>3. rs[l].idx \in Window
        BY <1>6, <4>2
      <4>4. rs[l].waits = operands[rs[l].idx]
        BY <4>1 DEF WaitsExact
      <4> QED BY <4>1, <4>3, <4>4
    <3> QED BY <3>1, <3>2
  <2>4. PICK p \in Packet : rs'[l] = Woken(p, bus) /\ p.waits = operands[p.idx] /\ p.idx \in Window
    BY <2>3
  <2>5. rs'[l].idx = p.idx /\ rs'[l].waits = p.waits \ bus
    BY <2>4, WokenIs
  <2>6. operands'[p.idx] = operands[p.idx] \ bus
    BY <1>5, <1>7, <2>4
  <2> QED BY <2>4, <2>5, <2>6
<1> QED BY <1>2, <1>4, <1>8 DEF WaitsExact

-----------------------------------------------------------------------------
(* The invariant. *)

IInv == RegistersOK /\ UnitsHoldMults /\ RoomForBundle /\ Located /\ WaitsExact

\* Everything empty satisfies the invariant.
LEMMA EmptyIsFine ==
  ASSUME head = 0, num = 0, done = {}, id_ex = <<>>, rs = [l \in Lines |-> None],
         num_is_free = RSSZ, alu \in [Ways -> [state : {"INITIAL"}, inst : Packet \cup {None}]],
         dones = [j \in Ways |-> {}], lq = {},
         operands = [i \in Idx |-> {}], edge \in 0..1
  PROVE  IInv
<1>1. 0 \in Idx /\ 0 \in 0..ROBSZ
  BY Sizes DEF Idx
<1>2. FreeLines = Lines /\ Cardinality(Lines) = RSSZ
  <2>1. Cardinality(0..(RSSZ - 1)) = IF 0 > RSSZ - 1 THEN 0 ELSE (RSSZ - 1) - 0 + 1
    BY Sizes, FS_Interval
  <2>2. Cardinality(Lines) = RSSZ
    BY <2>1, Sizes DEF Lines
  <2> QED BY <2>2 DEF FreeLines
<1>3. Len(id_ex) = 0 /\ id_ex \in Seq(Packet)
  OBVIOUS
<1>4. \A j \in Ways : alu[j].state = "INITIAL" /\ Held(j) = None
  BY DEF Held, ALU_occupied
<1>5. RegistersOK
  <2>1. alu \in [Ways -> [state : States, inst : Packet \cup {None}]]
    BY DEF States
  <2>2. Len(id_ex) <= WAYS
    BY <1>3, Sizes
  <2>3. \A j \in Ways : dones[j] \subseteq 1..STAGES
    OBVIOUS
  <2> QED BY <1>1, <1>2, <1>3, <2>1, <2>2, <2>3 DEF RegistersOK
<1>6. UnitsHoldMults
  BY <1>4 DEF UnitsHoldMults, ALU_occupied
<1>7. RoomForBundle
  BY <1>3, Sizes DEF RoomForBundle
<1>8. Window = {}
  <2>1. 0..(num + Len(id_ex) - 1) = {}
    BY <1>3
  <2> QED BY <2>1 DEF Window
<1>9. Located
  <2> SUFFICES ASSUME NEW i \in Idx PROVE Nowhere(i)
    BY <1>8 DEF Located
  <2>1. InIdEx(i) = {}
    BY <1>3 DEF InIdEx
  <2>2. InRs(i) = {} /\ InAlu(i) = {}
    BY <1>4 DEF InRs, InAlu
  <2> QED BY <2>1, <2>2 DEF Nowhere
<1>10. WaitsExact
  BY <1>3 DEF WaitsExact
<1> QED BY <1>5, <1>6, <1>7, <1>9, <1>10 DEF IInv

\* The same of the state that a squash leads to.
LEMMA EmptyIsFineNext ==
  (head = 0 /\ num = 0 /\ done = {} /\ id_ex = <<>> /\ rs = [l \in Lines |-> None]
   /\ num_is_free = RSSZ /\ alu \in [Ways -> [state : {"INITIAL"}, inst : Packet \cup {None}]]
   /\ dones = [j \in Ways |-> {}] /\ lq = {}
   /\ operands = [i \in Idx |-> {}] /\ edge \in 0..1 => IInv)'
BY EmptyIsFine, PTL

\* The invariant holds of every state.
THEOREM Invariance == Spec => []IInv
<1>1. Init => IInv
  <2> SUFFICES ASSUME Init PROVE IInv
    OBVIOUS
  <2>1. alu \in [Ways -> [state : {"INITIAL"}, inst : Packet \cup {None}]]
    BY DEF Init
  <2> QED BY <2>1, EmptyIsFine DEF Init
<1>2. IInv /\ [Next]_vars => IInv'
  <2> SUFFICES ASSUME IInv, [Next]_vars PROVE IInv'
    OBVIOUS
  <2>1. RegistersOK /\ UnitsHoldMults /\ RoomForBundle /\ Located /\ WaitsExact
    BY DEF IInv
  <2>2. ASSUME NEW load \in lq \cup {None}, Cycle(load) PROVE IInv'
    <3>1. PICK committed \in Commits, b \in Bundles \cup {<<>>} : Step(load, committed, b)
      BY <2>2, CycleIsStep
    <3> QED BY <2>1, <3>1, StepRegisters, StepRoom, StepLocated, StepWaits DEF IInv
  <2>3. ASSUME NEW load \in lq \cup {None}, Except(load) PROVE IInv'
    <3>1. edge' \in 0..1
      BY <2>1, <2>3 DEF Except, RegistersOK
    <3>2. alu' \in [Ways -> [state : {"INITIAL"}, inst : Packet \cup {None}]]
      BY <2>1, <2>3, PacketSeen DEF Except
    <3> QED BY <2>3, <3>1, <3>2, EmptyIsFineNext DEF Except
  <2>4. CASE UNCHANGED vars
    <3>1. RegistersOK'
      BY <2>1, <2>4 DEF vars, RegistersOK, FreeLines
    <3>2. UnitsHoldMults' /\ RoomForBundle' /\ WaitsExact'
      BY <2>1, <2>4 DEF vars, UnitsHoldMults, ALU_occupied, Held, RoomForBundle, WaitsExact
    <3>3. Located'
      <4>1. Window' = Window
        BY <2>4 DEF vars, Window, Slot
      <4>2. \A i : /\ InIdEx(i)' = InIdEx(i) /\ InRs(i)' = InRs(i) /\ InAlu(i)' = InAlu(i)
                   /\ (i \in lq' <=> i \in lq) /\ (i \in done' <=> i \in done)
        BY <2>4 DEF vars, InIdEx, InRs, InAlu, Held, ALU_occupied
      <4>3. \A i : (Alone(i)' <=> Alone(i)) /\ (Nowhere(i)' <=> Nowhere(i))
        BY <4>2 DEF Alone, Nowhere
      <4> QED BY <2>1, <4>1, <4>3 DEF Located
    <3> QED BY <3>1, <3>2, <3>3 DEF IInv
  <2> QED BY <2>2, <2>3, <2>4 DEF Next
<1> QED BY <1>1, <1>2, PTL DEF Spec

-----------------------------------------------------------------------------
(* What it gives. *)

\* The registers stay within their widths; the count of free lines never runs
\* below zero or above the stations.
THEOREM TypeCorrect == Spec => []TypeOK
<1>1. IInv => TypeOK
  <2> SUFFICES ASSUME IInv PROVE TypeOK
    OBVIOUS
  <2>1. RegistersOK
    BY DEF IInv
  <2>2. num_is_free \in 0..RSSZ
    <3>1. FreeLines \in SUBSET Lines /\ IsFiniteSet(Lines)
      BY LinesFinite DEF FreeLines
    <3>2. Cardinality(FreeLines) <= Cardinality(Lines)
      BY <3>1, FS_Subset
    <3>3. Cardinality(0..(RSSZ - 1)) = IF 0 > RSSZ - 1 THEN 0 ELSE (RSSZ - 1) - 0 + 1
      BY Sizes, FS_Interval
    <3>4. Cardinality(Lines) = RSSZ
      BY <3>3, Sizes DEF Lines
    <3>5. Cardinality(FreeLines) \in Nat
      BY <3>1, LinesFinite
    <3> QED BY <2>1, <3>2, <3>4, <3>5, Sizes DEF RegistersOK
  <2>3. \A j \in Ways : alu[j].state \in States /\ alu[j].inst \in Packet \cup {None}
    BY <2>1 DEF RegistersOK
  <2> QED BY <2>1, <2>2, <2>3 DEF RegistersOK, TypeOK, States
<1> QED BY Invariance, <1>1, PTL

\* An instruction in the window is in one place at a time and no other is
\* anywhere.
THEOREM InOnePlace == Spec => []OnePlace
<1>1. IInv => OnePlace
  <2> SUFFICES ASSUME IInv, NEW i \in Idx
               PROVE  Cardinality(Places(i)) = IF i \in Window THEN 1 ELSE 0
    BY DEF OnePlace
  <2> DEFINE P == {<<"id_ex", k>> : k \in InIdEx(i)}
             Q == {<<"rs", l>> : l \in InRs(i)}
             R == {<<"alu", j>> : j \in InAlu(i)}
             S == IF i \in lq THEN {<<"lq", 0>>} ELSE {}
             T == IF i \in done THEN {<<"done", 0>>} ELSE {}
  <2>1. Places(i) = P \cup Q \cup R \cup S \cup T
    BY DEF Places, InIdEx, InRs, InAlu
  <2>2. IF i \in Window THEN Alone(i) ELSE Nowhere(i)
    BY DEF IInv, Located
  <2>3. /\ InIdEx(i) = {} => P = {}
        /\ \A k : InIdEx(i) = {k} => P = {<<"id_ex", k>>}
        /\ InRs(i) = {} => Q = {}
        /\ \A k : InRs(i) = {k} => Q = {<<"rs", k>>}
        /\ InAlu(i) = {} => R = {}
        /\ \A k : InAlu(i) = {k} => R = {<<"alu", k>>}
        /\ i \in lq => S = {<<"lq", 0>>}
        /\ i \notin lq => S = {}
        /\ i \in done => T = {<<"done", 0>>}
        /\ i \notin done => T = {}
    OBVIOUS
  <2> HIDE DEF P, Q, R, S, T
  <2>4. CASE i \in Window
    <3>1. \E x : Places(i) = {x}
      <4>1. CASE (\E k : InIdEx(i) = {k}) /\ InRs(i) = {} /\ InAlu(i) = {} /\ i \notin lq /\ i \notin done
        <5>1. PICK k : InIdEx(i) = {k}
          BY <4>1
        <5>2. P = {<<"id_ex", k>>}
          BY <2>3, <5>1
        <5>3. Places(i) = {<<"id_ex", k>>}
          BY <2>1, <2>3, <4>1, <5>2
        <5> QED BY <5>3
      <4>2. CASE InIdEx(i) = {} /\ (\E l : InRs(i) = {l}) /\ InAlu(i) = {} /\ i \notin lq /\ i \notin done
        <5>1. PICK k : InRs(i) = {k}
          BY <4>2
        <5>2. Q = {<<"rs", k>>}
          BY <2>3, <5>1
        <5>3. Places(i) = {<<"rs", k>>}
          BY <2>1, <2>3, <4>2, <5>2
        <5> QED BY <5>3
      <4>3. CASE InIdEx(i) = {} /\ InRs(i) = {} /\ (\E j : InAlu(i) = {j}) /\ i \notin lq /\ i \notin done
        <5>1. PICK k : InAlu(i) = {k}
          BY <4>3
        <5>2. R = {<<"alu", k>>}
          BY <2>3, <5>1
        <5>3. Places(i) = {<<"alu", k>>}
          BY <2>1, <2>3, <4>3, <5>2
        <5> QED BY <5>3
      <4>4. CASE InIdEx(i) = {} /\ InRs(i) = {} /\ InAlu(i) = {} /\ i \in lq /\ i \notin done
        BY <2>1, <2>3, <4>4
      <4>5. CASE InIdEx(i) = {} /\ InRs(i) = {} /\ InAlu(i) = {} /\ i \notin lq /\ i \in done
        BY <2>1, <2>3, <4>5
      <4> QED BY <2>2, <2>4, <4>1, <4>2, <4>3, <4>4, <4>5 DEF Alone
    <3>2. PICK x : Places(i) = {x}
      BY <3>1
    <3>3. Cardinality({x}) = 1
      BY FS_Singleton
    <3> QED BY <2>4, <3>2, <3>3
  <2>5. CASE i \notin Window
    <3>1. Places(i) = {}
      BY <2>1, <2>2, <2>3, <2>5 DEF Nowhere
    <3> QED BY <2>5, <3>1, FS_EmptySet
  <2> QED BY <2>4, <2>5
<1> QED BY Invariance, <1>1, PTL

\* A bundle that has reached the ID/EX register finds its lines and entries.
THEOREM BundlesFit == Spec => []BundleFits
<1>1. IInv => BundleFits
  <2> SUFFICES ASSUME IInv, id_ex # <<>>
               PROVE  load_in /\ num_is_free = Cardinality({l \in Lines : rs[l] = None})
    BY DEF BundleFits
  <2>1. /\ num \in Nat /\ Len(id_ex) \in Nat /\ num + Len(id_ex) <= ROBSZ - WAYS
        /\ num_is_free >= WAYS /\ num_is_free = Cardinality(FreeLines)
    BY LenProperties DEF IInv, RegistersOK, RoomForBundle
  <2> QED BY <2>1, Sizes DEF load_in, num_free, FreeLines
<1> QED BY Invariance, <1>1, PTL

\* What waits waits for exactly the results that have not been broadcast.
THEOREM WaitsAreExact == Spec => []WaitsExact
<1>1. IInv => WaitsExact
  BY DEF IInv
<1> QED BY Invariance, <1>1, PTL
=============================================================================
