------------------------------ MODULE MCMemory ------------------------------
(* What the core waits for below its window: a load or store to leave its    *)
(* queue, a read to be answered by the data cache, a bundle to be fetched.   *)
(* A behaviour runs one of the three parts; part says which.                 *)
EXTENDS ICache

CONSTANTS Parts, b1, u1, s1, s2, NoTag



VARIABLES
  part,
  tick,      \* turns with every clock edge, so that an idle one is a step too
  \* LSQ
  sq, sq_head, sq_tail, sq_num_free, lq, lq_num_free, window, sent, lsq_mem, dispatched,
  \* Dmem
  cache, new, q1, q2, tags, memory, mem_feedback, live, answer, request, refill,
  used

\* Every way a load can meet a store: forwarded from it, or waiting for it to
\* leave because their sizes differ.
WaitingProgram ==
  LET At0 == [block |-> b1, off |-> 0]
  IN  [kind : {"store"}, size : {"byte", "word"}, addr : {At0}, signed : {FALSE}]
        \cup [kind : {"load"}, size : {"word"}, addr : {At0}, signed : {FALSE}]

L == INSTANCE LSQ WITH
       LSQSZ <- 4, Blocks <- {b1}, Program <- WaitingProgram, MaxOps <- 3, Starts <- {3},
       mem <- lsq_mem

\* The data cache after reset.
ResetCache ==
  LET NoLine == [block |-> NoTag, dirty |-> FALSE, data |-> [u \in {u1} |-> <<NoTag, 0>>]]
  IN  {[line |-> [s \in {0} |-> NoLine], victim |-> [i \in 0..1 |-> NoLine], victim_lru |-> 0]}

D == INSTANCE Dmem WITH
       Blocks <- {b1}, Units <- {u1}, Sets <- {0}, Index <- [b \in {b1} |-> 0], Slots <- {s1, s2},
       NoBlock <- NoTag, LSQSZ <- 3, LAT <- 4, TAGS <- 5, Refill <- 0, MaxWrites <- 1,
       MaxReads <- 4, MaxSquashes <- 1, MaxFetches <- 1, Starts <- ResetCache

-----------------------------------------------------------------------------
lsq_vars == <<sq, sq_head, sq_tail, sq_num_free, lq, lq_num_free, window, sent, lsq_mem, dispatched>>
dmem_vars == <<cache, new, q1, q2, tags, memory, mem_feedback, live, answer, request, refill, used>>
icache_vars == <<PC_reg, lines, wait_buffer, pending, prefetch_addr, prefetch_cnt, mem, fetched>>
all_vars == <<part, tick, lsq_vars, dmem_vars, icache_vars>>

MemoryInit == part \in Parts /\ tick = 0 /\ L!Init /\ D!Init /\ Init

Edge == tick' = 1 - tick

MemoryNext ==
  /\ Edge
  /\ UNCHANGED part
  /\ \/ part = "lsq" /\ L!Next /\ UNCHANGED <<dmem_vars, icache_vars>>
     \/ part = "dmem" /\ D!Next /\ UNCHANGED <<lsq_vars, icache_vars>>
     \/ part = "icache" /\ Next /\ UNCHANGED <<lsq_vars, dmem_vars>>

\* The clock never stops, and the core serves the queues.
MemorySpec == MemoryInit /\ [][MemoryNext]_all_vars /\ WF_tick(Edge) /\ L!Served

-----------------------------------------------------------------------------
(* The properties, which the parts' modules state. *)

Q2NeverFull == D!Q2NeverFull
ImplementsFlatMemory == D!ImplementsFlatMemory
QueuesDrain == L!OpsLeave /\ D!ReadsAnswered
BundlesArrive == part = "icache" => FetchDelivers
=============================================================================
