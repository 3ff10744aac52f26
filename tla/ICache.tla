------------------------------- MODULE ICache -------------------------------
(***************************************************************************)
(* Instruction fetch: the program counter of if_stage.sv, the non-blocking *)
(* prefetching instruction cache (icache.sv) and its lines (cachemem.sv),  *)
(* below them the arbiter that serves the data cache first                 *)
(* (mem_arbiter.sv) and the memory with its tags (mem.sv).                 *)
(*                                                                         *)
(* One clock edge is one action.  Addresses count words; a block has two.  *)
(* What memory returns is named by the block it was read from: stores      *)
(* never reach instructions, which the cache would not notice.             *)
(*                                                                         *)
(* The environment stalls, predicts and redirects as it likes, and the     *)
(* data cache uses memory in any cycle.                                    *)
(***************************************************************************)
EXTENDS Integers, Sequences, FiniteSets, FiniteSetsExt

CONSTANTS
  WAYS,      \* superscalar width
  BLOCKS,    \* blocks a 16-bit address reaches (8192)
  LINES,     \* lines of the cache (32)
  PREFETCH,  \* blocks asked for behind a miss (4)
  TAGS,      \* memory tags (15)
  LAT,       \* memory latency in cycles (10)
  Zeros,     \* words that hold no instruction
  Targets,   \* bound: where bundles may start
  Commands   \* bound: what the data cache may send, of "none", "load", "store"

VARIABLES
  PC_reg,         \* first word of the bundle
  lines,          \* [line -> what it holds, or Nothing]
  wait_buffer,    \* [tag -> the block it will bring, or NoBlock]
  pending,        \* [line -> the block asked for, or NoBlock]
  prefetch_addr,  \* the block to ask for next
  prefetch_cnt,   \* blocks still to ask for
  mem,            \* [tag -> [cycles_left, waiting_for_bus, loaded_data]]
  fetched         \* what the last cycle did: [event, PC, bundle]

vars == <<PC_reg, lines, wait_buffer, pending, prefetch_addr, prefetch_cnt, mem, fetched>>

Ways == 0..(WAYS - 1)
Tags == 1..TAGS
Blocks == 0..(BLOCKS - 1)
NoBlock == -1       \* no request is out, or data that is not an instruction
Nothing == [block |-> NoBlock, data |-> NoBlock]

ASSUME ICacheAssumption ==
  /\ {WAYS, BLOCKS, LINES, TAGS, LAT} \subseteq Nat \ {0}
  /\ PREFETCH \in Nat
  /\ Targets \subseteq 0..(2 * BLOCKS - WAYS)
  /\ WAYS < LINES

BlockOf(word) == word \div 2
IndexOf(b) == b % LINES

-----------------------------------------------------------------------------
(* The memory, with the data cache's commands on the same bus. *)

LowestOf(S) == IF S = {} THEN 0 ELSE Min(S)

mem2proc_response(command) ==
  IF command = "none" THEN 0
  ELSE LowestOf({t \in Tags : mem[t].cycles_left = 0 /\ ~mem[t].waiting_for_bus})

CyclesLeft(t, response) ==
  IF t = response THEN LAT
  ELSE IF mem[t].cycles_left > 0 THEN mem[t].cycles_left - 1 ELSE 0

mem2proc_tag(response) ==
  LowestOf({t \in Tags : CyclesLeft(t, response) = 0 /\ mem[t].waiting_for_bus})

\* The tags after a cycle whose command got response and that returned tag;
\* loaded is what a load reads, a store waits for nothing.
NextMem(command, response, tag, loaded) ==
  [t \in Tags |->
    [cycles_left |-> CyclesLeft(t, response),
     waiting_for_bus |-> IF t = response THEN command = "load"
                         ELSE mem[t].waiting_for_bus /\ t # tag,
     loaded_data |-> IF t = response /\ command = "load" THEN loaded
                     ELSE IF t \in {response, tag} THEN NoBlock
                     ELSE mem[t].loaded_data]]

-----------------------------------------------------------------------------
(* The instruction cache. *)

proc2Icache_addr(i) == BlockOf(PC_reg + i)

Icache_valid_out(i) == lines[IndexOf(proc2Icache_addr(i))].block = proc2Icache_addr(i)
Icache_data_out(i) == lines[IndexOf(proc2Icache_addr(i))].data

miss_outstanding == {i \in Ways : ~Icache_valid_out(i)}
pending_hit == {i \in Ways : pending[IndexOf(proc2Icache_addr(i))] = proc2Icache_addr(i)}

\* The first miss that is not on its way, else the next block to prefetch.
proc2Imem_addr ==
  LET unasked == miss_outstanding \ pending_hit
  IN  IF unasked # {} THEN proc2Icache_addr(Min(unasked)) ELSE prefetch_addr

proc2Imem_command == IF miss_outstanding # {} \/ prefetch_cnt # 0 THEN "load" ELSE "none"

\* Block 0 stands for the entry of a tag that is not waited for.
current_block(tag) == IF tag = 0 \/ wait_buffer[tag] = NoBlock THEN 0 ELSE wait_buffer[tag]

\* Mutant: any data on the bus is written, the data cache's too.
data_write_enable_AnyTag(tag) == tag # 0

\* Mutant: a block is written only if its line is still marked for it.
data_write_enable_Marked(tag) ==
  tag # 0 /\ wait_buffer[tag] # NoBlock /\ pending[IndexOf(wait_buffer[tag])] = wait_buffer[tag]

data_write_enable(tag) == tag # 0 /\ wait_buffer[tag] # NoBlock

prefetch_addr_next(addr, response) == IF response # 0 THEN (addr + 1) % BLOCKS ELSE addr

prefetch_cnt_next(response) ==
  IF miss_outstanding # {} THEN PREFETCH
  ELSE IF prefetch_cnt # 0 /\ response # 0 THEN prefetch_cnt - 1
  ELSE prefetch_cnt

wait_buffer_next(addr, tag, response) ==
  [t \in Tags |-> IF t = response THEN addr ELSE IF t = tag THEN NoBlock ELSE wait_buffer[t]]

\* The line of the block that came back has no request, line 0 if none did.
pending_next(addr, tag, response) ==
  [n \in DOMAIN pending |->
    IF response # 0 /\ n = IndexOf(addr) THEN addr
    ELSE IF n = IndexOf(current_block(tag)) THEN NoBlock
    ELSE pending[n]]

lines_next(tag) ==
  IF data_write_enable(tag)
  THEN [lines EXCEPT ![IndexOf(current_block(tag))] =
          [block |-> current_block(tag), data |-> mem[tag].loaded_data]]
  ELSE lines

-----------------------------------------------------------------------------
(* Fetch. *)

\* A way carries an instruction unless the word is zero; the bundle is whole.
if_packet_out ==
  [i \in Ways |->
    LET word == 2 * Icache_data_out(i) + ((PC_reg + i) % 2)
    IN  [inst |-> word, valid |-> word \notin Zeros]]

Init ==
  /\ PC_reg = 0
  /\ lines = [n \in 0..(LINES - 1) |-> Nothing]
  /\ wait_buffer = [t \in Tags |-> NoBlock]
  /\ pending = [n \in 0..(LINES - 1) |-> NoBlock]
  /\ prefetch_addr = 0
  /\ prefetch_cnt = 0
  /\ mem = [t \in Tags |-> [cycles_left |-> 0, waiting_for_bus |-> FALSE, loaded_data |-> NoBlock]]
  /\ fetched = [event |-> "none", PC |-> 0, bundle |-> <<>>]

\* The edge that ends a cycle in which the data cache sends dcache_command,
\* stall holds fetch back and, with taken, a mispredicted branch commits.  Its
\* target and what the predictor says may be any of the targets.
Clock(dcache_command, stall, taken) ==
  LET addr == proc2Imem_addr
      command == IF dcache_command # "none" THEN dcache_command ELSE proc2Imem_command
      mem_response == mem2proc_response(command)
      Imem2proc_response == IF dcache_command # "none" THEN 0 ELSE mem_response
      tag == mem2proc_tag(mem_response)
      PC_enable == ~stall /\ miss_outstanding = {}
  IN  /\ lines' = lines_next(tag)
      /\ wait_buffer' = wait_buffer_next(addr, tag, Imem2proc_response)
      /\ pending' = pending_next(addr, tag, Imem2proc_response)
      /\ prefetch_addr' = prefetch_addr_next(addr, Imem2proc_response)
      /\ prefetch_cnt' = prefetch_cnt_next(Imem2proc_response)
      /\ mem' = NextMem(command, mem_response, tag, IF dcache_command = "none" THEN addr ELSE NoBlock)
      /\ PC_reg' \in IF taken \/ PC_enable THEN Targets ELSE {PC_reg}
      /\ fetched' = [event |-> CASE taken                   -> "redirected"
                                 [] ~taken /\ PC_enable     -> "delivered"
                                 [] ~taken /\ stall         -> "stalled"
                                 [] OTHER -> IF dcache_command # "none" THEN "refused" ELSE "waits",
                     PC |-> PC_reg,
                     bundle |-> IF PC_enable THEN if_packet_out ELSE <<>>]

Next ==
  \E dcache_command \in Commands, stall \in BOOLEAN, taken \in BOOLEAN :
     Clock(dcache_command, stall, taken)

Spec == Init /\ [][Next]_vars

-----------------------------------------------------------------------------
(* Properties. *)

\* A bundle carries the words of memory at its program counter, although tags
\* are shared with the data cache and blocks return late, twice or unwanted;
\* a word is dropped only if it is zero.
DeliversMemory ==
  \A i \in DOMAIN fetched.bundle :
    /\ fetched.bundle[i].inst = fetched.PC + i
    /\ fetched.bundle[i].valid = (fetched.PC + i \notin Zeros)

\* Fetch never waits for ever: unless it is redirected, stalled or kept from
\* memory by the data cache over and over, all lines of a bundle are there in
\* one cycle in the end, whatever the prefetches displace.
FetchDelivers == []<>(fetched.event # "waits")
=============================================================================
