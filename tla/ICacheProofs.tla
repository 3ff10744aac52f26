---------------------------- MODULE ICacheProofs -----------------------------
(***************************************************************************)
(* Fetch delivers memory: the proof for every width, cache, memory and     *)
(* program that the bundles of ICache carry the words at their program     *)
(* counter.                                                                *)
(*                                                                         *)
(* The bundle is read from the lines, a line is written from what a tag    *)
(* brings, and a tag brings what was asked for.  So the invariant follows  *)
(* a block on its way: the tag that waits for it holds it and stays taken  *)
(* until it returns, and a line that is marked with a block holds it.      *)
(***************************************************************************)
EXTENDS ICache, NumberLemmas

-----------------------------------------------------------------------------
(* The invariant. *)

\* A line that is marked with a block holds that block.
LinesHold ==
  /\ DOMAIN lines = 0..(LINES - 1)
  /\ \A n \in 0..(LINES - 1) : lines[n].block # NoBlock => lines[n].data = lines[n].block

\* What the cache waits for is what the tag will bring, and no command can
\* take the tag before.
WaitsForData ==
  \A t \in Tags : wait_buffer[t] # NoBlock =>
    mem[t].waiting_for_bus /\ mem[t].loaded_data = wait_buffer[t]

FetchInv == PC_reg \in Nat /\ LinesHold /\ WaitsForData /\ DeliversMemory

-----------------------------------------------------------------------------
(* The memory's tags. *)

\* The lowest of a set of tags is one of them.
LEMMA LowestIs ==
  ASSUME NEW S \in SUBSET Tags
  PROVE  (S = {} /\ LowestOf(S) = 0) \/ LowestOf(S) \in S
<1>1. S \in SUBSET Nat
  BY DEF Tags
<1>2. ASSUME S # {} PROVE Min(S) \in S
  BY <1>1, <1>2, LeastNat DEF Min
<1> QED BY <1>2 DEF LowestOf

\* A command gets a tag nobody waits for.
LEMMA ResponseIsFree ==
  ASSUME NEW command, mem2proc_response(command) # 0
  PROVE  LET t == mem2proc_response(command)
         IN  t \in Tags /\ ~mem[t].waiting_for_bus /\ command # "none"
<1> DEFINE S == {t \in Tags : mem[t].cycles_left = 0 /\ ~mem[t].waiting_for_bus}
<1>1. command # "none" /\ mem2proc_response(command) = LowestOf(S)
  BY DEF mem2proc_response
<1>2. LowestOf(S) \in S
  BY <1>1, LowestIs
<1> QED BY <1>1, <1>2

\* The tag on the bus is waited for, and is not the one a command has just got.
LEMMA TagIsWaiting ==
  ASSUME NEW response, mem2proc_tag(response) # 0
  PROVE  LET t == mem2proc_tag(response)
         IN  t \in Tags /\ mem[t].waiting_for_bus /\ t # response
<1> DEFINE S == {t \in Tags : CyclesLeft(t, response) = 0 /\ mem[t].waiting_for_bus}
<1>1. mem2proc_tag(response) = LowestOf(S)
  BY DEF mem2proc_tag
<1>2. LowestOf(S) \in S
  BY <1>1, LowestIs
<1>3. LAT # 0
  BY ICacheAssumption DEF ICacheAssumption
<1> QED BY <1>1, <1>2, <1>3 DEF CyclesLeft

-----------------------------------------------------------------------------
(* What fetch reads. *)

\* The words of a bundle, from lines that have its blocks.
LEMMA BundleFromLines ==
  ASSUME PC_reg \in Nat, LinesHold, miss_outstanding = {}, NEW i \in Ways
  PROVE  if_packet_out[i].inst = PC_reg + i /\ if_packet_out[i].valid = (PC_reg + i \notin Zeros)
<1> DEFINE a == proc2Icache_addr(i)
           w == PC_reg + i
<1>1. w \in Nat /\ a = w \div 2 /\ LINES \in Nat \ {0}
  BY ICacheAssumption DEF Ways, proc2Icache_addr, BlockOf, ICacheAssumption
<1>2. a \in Nat /\ 2 * a + (w % 2) = w
  <2> HIDE DEF w
  <2> QED BY <1>1
<1>3. IndexOf(a) \in 0..(LINES - 1)
  <2> HIDE DEF a
  <2> QED BY <1>1, <1>2 DEF IndexOf
<1>4. lines[IndexOf(a)].block = a
  BY DEF miss_outstanding, Icache_valid_out
<1>5. Icache_data_out(i) = a
  BY <1>2, <1>3, <1>4 DEF Icache_data_out, LinesHold, NoBlock
<1>6. if_packet_out[i] = [inst |-> 2 * a + (w % 2), valid |-> 2 * a + (w % 2) \notin Zeros]
  BY <1>5 DEF if_packet_out
<1> QED BY <1>2, <1>6

-----------------------------------------------------------------------------
(* The steps. *)

LEMMA InitFetchInv == Init => FetchInv
BY DEF Init, FetchInv, LinesHold, WaitsForData, DeliversMemory, Nothing

\* A clock edge preserves the invariant.
LEMMA ClockFetchInv ==
  ASSUME FetchInv, NEW dcache_command, NEW stall, NEW taken, Clock(dcache_command, stall, taken)
  PROVE  FetchInv'
<1> DEFINE addr == proc2Imem_addr
           command == IF dcache_command # "none" THEN dcache_command ELSE proc2Imem_command
           response == mem2proc_response(command)
           Iresponse == IF dcache_command # "none" THEN 0 ELSE response
           tag == mem2proc_tag(response)
           loaded == IF dcache_command = "none" THEN addr ELSE NoBlock
<1>1. /\ lines' = lines_next(tag)
      /\ wait_buffer' = wait_buffer_next(addr, tag, Iresponse)
      /\ mem' = NextMem(command, response, tag, loaded)
      /\ PC_reg' \in Targets \cup {PC_reg}
      /\ fetched'.PC = PC_reg
      /\ fetched'.bundle \in {<<>>, if_packet_out}
      /\ fetched'.bundle # <<>> => miss_outstanding = {}
  BY DEF Clock
<1>2. response # 0 => response \in Tags /\ ~mem[response].waiting_for_bus /\ command # "none"
  BY ResponseIsFree
<1>3. tag # 0 => tag \in Tags /\ mem[tag].waiting_for_bus /\ tag # response
  BY TagIsWaiting
<1>4. Iresponse # 0 => Iresponse = response /\ command = "load" /\ loaded = addr
  BY <1>2 DEF proc2Imem_command
<1>5. 0 \notin Tags
  BY DEF Tags
<1> HIDE DEF addr, command, response, Iresponse, tag, loaded
<1>6. PC_reg' \in Nat
  BY <1>1, ICacheAssumption DEF FetchInv, ICacheAssumption
<1>7. LinesHold'
  BY <1>1, <1>3 DEF FetchInv, LinesHold, WaitsForData, lines_next, data_write_enable, current_block
<1>8. WaitsForData'
  <2> SUFFICES ASSUME NEW t \in Tags, wait_buffer'[t] # NoBlock
               PROVE  mem'[t].waiting_for_bus /\ mem'[t].loaded_data = wait_buffer'[t]
    BY DEF WaitsForData
  <2>1. /\ mem'[t].waiting_for_bus = (IF t = response THEN command = "load"
                                      ELSE mem[t].waiting_for_bus /\ t # tag)
        /\ mem'[t].loaded_data = (IF t = response /\ command = "load" THEN loaded
                                  ELSE IF t \in {response, tag} THEN NoBlock
                                  ELSE mem[t].loaded_data)
    BY <1>1 DEF NextMem
  <2>2. CASE t = Iresponse
    <3>1. wait_buffer'[t] = addr
      BY <1>1, <2>2 DEF wait_buffer_next
    <3> QED BY <2>1, <2>2, <3>1, <1>4, <1>5
  <2>3. CASE t # Iresponse
    <3>1. wait_buffer'[t] = wait_buffer[t] /\ t # tag /\ wait_buffer[t] # NoBlock
      BY <1>1, <2>3 DEF wait_buffer_next
    <3>2. mem[t].waiting_for_bus /\ mem[t].loaded_data = wait_buffer[t]
      BY <3>1 DEF FetchInv, WaitsForData
    <3>3. t # response
      BY <3>2, <1>2, <1>5
    <3> QED BY <2>1, <3>1, <3>2, <3>3
  <2> QED BY <2>2, <2>3
<1>9. DeliversMemory'
  <2>1. CASE fetched'.bundle = <<>>
    BY <2>1 DEF DeliversMemory
  <2>2. CASE fetched'.bundle # <<>>
    <3>1. fetched'.bundle = if_packet_out /\ miss_outstanding = {} /\ DOMAIN if_packet_out = Ways
      BY <1>1, <2>2 DEF if_packet_out
    <3>2. \A i \in Ways : /\ if_packet_out[i].inst = PC_reg + i
                          /\ if_packet_out[i].valid = (PC_reg + i \notin Zeros)
      BY <3>1, BundleFromLines DEF FetchInv
    <3> QED BY <1>1, <3>1, <3>2 DEF DeliversMemory
  <2> QED BY <2>1, <2>2
<1> QED BY <1>6, <1>7, <1>8, <1>9 DEF FetchInv

\* Whatever is fetched, redirected, displaced or refused, a bundle carries the
\* words of memory at its program counter (if_stage.sv, icache.sv, cachemem.sv).
THEOREM BundlesCarryMemory == Spec => []DeliversMemory
<1>1. Init => FetchInv
  BY InitFetchInv
<1>2. FetchInv /\ [Next]_vars => FetchInv'
  <2>1. CASE Next
    BY <2>1, ClockFetchInv DEF Next
  <2>2. CASE UNCHANGED vars
    BY <2>2 DEF vars, FetchInv, LinesHold, WaitsForData, DeliversMemory
  <2> QED BY <2>1, <2>2
<1>3. FetchInv => DeliversMemory
  BY DEF FetchInv
<1> QED BY <1>1, <1>2, <1>3, PTL DEF Spec
=============================================================================
