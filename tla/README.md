# rv32-core: TLA+ models, model checking and proofs

This directory is a verification development for the out-of-order RV32IM core in
`src/verilog` and for the C code its simulations rest on (`src/testbench`, `src/test_progs`).  It
models the control of the core (who holds which register, entry, slot, line, unit or bus, and
when), the visual debugger's two processes, the instruction class and its decoders, and the
allocator and algorithms of the test programs.  TLC checks every model on small instances; TLAPS
proves the results about renaming and the reorder buffer for every number of registers, every width
and every window size.

## 1. The system

A core of width `WAYS` (3), an R10K-style machine with physical registers, fetches bundles of
up to `WAYS` instructions, renames them, executes them out of order and commits them in order.

| Part | Code | State it keeps | Operations | Model |
| --- | --- | --- | --- | --- |
| Fetch | `if_stage.sv` | PC | deliver a bundle when all ways hit, stall, redirect | `ICache`; the valid ways of a bundle in `ROB` |
| Instruction cache | `icache.sv`, `cache/cachemem.sv` | 32 lines, outstanding tags, pending marks, prefetch counter | look up, fetch, prefetch, fill | `ICache`; its traffic in `Dmem` |
| Branch predictor | `branch_pred.sv` | tables | predict, train | answers are free choices |
| Decode | `id_stage.sv`, `ISA.svh` | none | match patterns, select operands, cut the bundle behind a taken branch | `Rename`, `ROB`, `Issue`; patterns and immediates in `InstCodec` |
| Renaming | `RAT_RRAT.sv`, `FreeList.sv`, `Validlist.sv`, `PRF.sv` | two maps, two free lists, two valid lists, registers offered to the next bundle, contents | rename, commit, broadcast, recover | `Rename` |
| Reorder buffer | `rob.sv`, ID/EX register of `processor.sv` | ring of entries, head, tail, count | dispatch, mark done, commit, squash, stall | `ROB` |
| Reservation stations | `rs.sv`, `rs_psl_gen.v` | 16 lines, count of free ones | enter, wake up, select, match to units, stall | `Issue` |
| Execution units, bus | `ex_stage.sv`, `mult.sv`, `processor.sv` | unit state, packet held, multiplier stages | execute, multiply, wait for the bus, broadcast | `Issue` |
| Load and store queues | `lsq.sv`, `lq.sv`, `sq.sv` | two queues of 8 with pointers and counts | dispatch, take address and data, forward, read, broadcast, commit, squash, stall | `LSQ` |
| Arbiter of the load queue | `arbiter_rr.sv` | mask | grant one request | any grant (`LSQ`) |
| Data cache | `dcache.sv` | 32 lines, 2 victims, an lru bit | write, read, swap, fill, displace, write back | `Dmem` |
| Cache controller | `dcache_ctrl.sv`, `dmem.sv` | new requests, queue q1, reads in memory q2, last answer | queue, send, match tags, cancel | `Dmem` |
| Memory and its arbiter | `mem_arbiter.sv`, `testbench/mem.sv` | contents, 15 tags | accept or refuse, answer after the latency | `Dmem`, `ICache` |
| Visual debugger | `visual_c_hooks.cpp`, `visual_testbench.v` | a ring of 256 cycles' tables, the cycle on display, two pipes, the simulation's clock | dump and block, read a line, show, step, go back, quit | `Debugger` |
| Instruction words | `riscv_inst.h`, `pipe_print.c`, `visual_c_hooks.cpp` | the fields of an instruction | decode, select, encode, name | `InstCodec` |
| Allocator of the programs | `tj_malloc.h` | 16 KiB, a circular free list | malloc, free | `Heap` |
| Programs | `bfs.c`, `graph.c` | graphs, marks, a queue or a stack | three traversals | `Traversals` |
| Programs | sorts, search, priority queue, knight's tour, products, transform | arrays | run to the end | `TestPrograms` |

The parts speak through wires that are all sampled at the same clock edge:

- **Decode to everything**: the bundle in the ID/EX register enters the reorder buffer, the
  stations and the load and store queues in one edge.  The register is *cleared*, not held, when
  any of them is too full for another bundle (`processor.sv` 484-510), so the fullness of
  each is computed one cycle ahead.
- **The common data bus**: `WAYS` results a cycle, from the units and, on the last way and with
  priority, from the load queue.  It is watched by the valid list, the registers, the stations,
  the ID/EX register on its way into them, the reorder buffer and the store queue.
- **Commit**: the reorder buffer tells renaming which mappings are retired and the store queue
  that its head may be written.
- **Recovery**: `except` is raised when a mispredicted branch *commits*.  Everything younger goes
  in that edge; the speculative maps and lists restart from the retired ones as they are after
  the commits and broadcasts of the same edge.
- **Below the queues**: one write and one read a cycle reach the data cache; its controller sends
  at most one request a cycle to memory, which the instruction cache gets only when the data
  cache has none.  Reads of a squashed path are still in memory and come back.
- **Debugger**: the simulation prints its tables into one pipe at every clock edge and blocks until
  an answer comes through another; the debugger reads to the line `break`, answers, and then
  takes keys, of which only some let it go on reading.

What is hard here is not concurrency of threads but of *edges*: each register updated by several
actors at once, ages and entry numbers computed a cycle early, rings that cannot tell full from
empty, one broadcast that must not be missed in any of five places, and a recovery that meets
everything else in the same cycle.  `PROJECT.json` lists the hazards at their lines.

What makes each part correct:

- renaming: a register has one owner, none leaks, none runs short, and every operand read is the
  value (or the name) the instruction would have seen in program order;
- reorder buffer: it is a queue: commits are in order, once, of finished instructions, and stop
  at a halt, a mispredicted branch and a second store;
- issue: no instruction is lost, run twice, started early or left waiting;
- load and store queues: a load returns what program order says, memory takes whole stores in
  order, nothing writes a block that is being read, and nobody waits in a circle;
- data memory system: it is one flat memory, which each store changes at once and nothing else does,
  and every read is answered or dropped;
- fetch: a bundle carries the words of memory at its program counter, and one arrives in the end;
- debugger: the two processes take turns, a screen shows one cycle, and the keys come back;
- instruction words: decoding and encoding are inverse, and every decoder means the same;
- heap: the array is divided among the blocks in use and the free ones;
- programs: traversals reach what there is to reach, once; sorts sort what they are given; the products are right.

## 2. Modules

| Module | What it is | State and actions against the code |
| --- | --- | --- |
| `Rename` | maps, free lists, valid lists, registers | one variable per register of the four files, `inflight` for the renamed and uncommitted instructions (ID/EX and ROB); `Clock` and `Except` are the two outcomes of an edge |
| `InOrderRegs` | abstract: a register file updated in program order | refined by `Rename` (`InOrderSpec` in `MCRename`) |
| `RenameProofs`, `ROBProofs`, `IssueProofs`, `LSQProofs`, `DmemProofs`, `ICacheProofs` | theorems about the module of that name | see section 5 |
| `HostProofs` | theorems about `Debugger`, `InstCodec`, `Heap` and `Traversals` | see section 5 |
| `NumberLemmas` | lemmas about natural numbers, positions on a ring, ranks, remainders and increasing sequences, for the proof modules | see section 5 |
| `ROB` | `rob.sv` with the ID/EX register and the stall | `Clock`, `Nuke`, `Halted`; entries, head, tail and count as in the code, the entry number latched a cycle early in `rob_idx` |
| `CommitQueue` | abstract: a queue that commits in order | refined by `ROB` (`InOrderSpec` in `MCROB`) |
| `Issue` | `rs.sv`, `ex_stage.sv`, `mult.sv` and the bus | `Cycle` (`Execute`: stations, units, load queue; `Advance`: commit, decode, ID/EX) and `Except`; `alu` has the state of a unit and the packet held in front of it, which nothing clears |
| `LSQ` | `lq.sv`, `sq.sv`, `lsq.sv` | `Clock`/`Except`; slots, pointers and counters as in the code, `window` for the program order |
| `Dmem` | `dcache.sv`, `dcache_ctrl.sv`, `mem_arbiter.sv`, `mem.sv` | `Clock`: write, read and fill stages in the order of the combinational code |
| `FlatMemory` | abstract: a memory that performs the store of a cycle in that cycle, changes in no other way, and answers with its contents | refined by `Dmem` (`ImplementsFlatMemory`); `request`, what the queues ask for in a cycle, is the interface of both |
| `ICache` | `if_stage.sv`, `icache.sv`, `cachemem.sv`, with the bus and the tags of memory | `Clock`, one edge: what the code has as index, tag and valid bit is the block, and a word is named by its address |
| `InstCodec` | `inst_t` of `riscv_inst.h`, the printing decoders, the core's decoder | `decode`, `assign` (with `select`), `Encode`; a word is the set of its bits |
| `Debugger` | `visual_c_hooks.cpp` and the clock, dump and halt of `visual_testbench.v` | `Edge`, `Halt`, `waitforresponse` of the simulation; `processinput`, `Break` and a key per action of the debugger; a table is the cycle and level it was printed at |
| `Heap` | `tj_malloc.h` | `tj_malloc`, `tj_free`; addresses modulo `WRAP`, sizes and links of the headers; `anchor` is where the linker put `base` |
| `Traversals` | the traversals of `bfs.c` and `graph.c` | `addEdge`, `Start`, one step per turn of a loop, `Finish` |
| `TestPrograms` | the algorithms of the other programs | an action per program, which makes the call its `main` makes; the algorithms are operators |
| `MCRename`, `MCROB`, `MCLSQ`, `MCDmem` | instances, refinement mappings, symmetry, starting caches, programs | |
| `MCMemory` | `LSQ`, `Dmem` and `ICache` side by side | a behaviour runs one of them (`part`); what must happen in the end is stated over all three |
| `MCHost` | `Debugger`, `InstCodec`, `Heap`, `Traversals` and `TestPrograms` side by side | a behaviour runs one of them |

Modules meet at their environments, which are stated so that each one's assumption is another
one's result:

- `LSQ` reads a flat memory; `Dmem` implements one (`ImplementsFlatMemory`).
- `Dmem` assumes that no store writes a block a read is outstanding for and that a slot has at
  most one read; `LSQ` guarantees the first (`NoWriteUnderRead`), and the state machine of its
  slots is the second.
- `Issue` assumes that a load leaves the load queue in the end; `LSQ` shows it (`OpsLeave`), and
  `Dmem` that its reads are answered (`ReadsAnswered`); the two are `QueuesDrain`.
- `ROB` takes any bundle at any time; `ICache` shows that one comes in the end (`BundlesArrive`)
  and what is in it (`DeliversMemory`).
- The core's models take instructions as kinds with operands; `InstCodec` says how the decoder
  reads words, and that the tools that show instructions to people agree with it.
- `LSQ` assumes that a store's address is not broadcast before its data is there and a packet
  starts only with its operands; `Issue` shows it (`WaitsExact`).
- `Rename` and `ROB` assume that broadcasts name instructions in the window, each once; `Issue`
  shows it (`OnePlace`).
- `Issue` and `LSQ` assume bundles that are a valid prefix; `rob_illegal` shows when the front end
  breaks that.
- `Rename` assumes the stall of the reorder buffer; `ROB` shows that it keeps a bundle's worth of
  entries unused (`WindowAccounting`), which is `RoomKept`.

## 3. Runs

All runs use `tlc -workers 2`.  "Violation" runs check one statement of the sources that the code
does not keep; their findings are in `PROJECT.json`.

| Run | Instance | What it shows |
| --- | --- | --- |
| `rename` | 1 architectural, 6 physical registers, `WAYS` 2, 5 entries, two values of which at most one result in the file carries the second | registers have one owner and never run short, the speculative map follows program order, valid bits are right, operands are those of `InOrderRegs`, no result that can be read is overwritten |
| `rename_x0` | with loads into x0 | violation of `FreshIsInvalid` |
| `rob` | 5 entries, `WAYS` 2, ALU instructions, stores, branches, halts | the ring implements `CommitQueue`; counts, done bits and the numbers on the bus agree with the window |
| `rob_illegal` | with words the decoder rejects | violation of `ValidPrefix` |
| `issue` | `WAYS` 2, 6 entries, 3 stations, 2 multiplier stages, one operand missing per instruction, one multiplication in flight | nothing is lost, doubled, woken early or starved, although units go on seeing packets they have executed |
| `lsq` | 4 slots, `WAYS` 2, 4 accesses from slot 3, bytes and words of one block | ages, forwarding, reads and commits; no write under a read, and a commit that meets a squash still writes |
| `lsq_unsigned` | unsigned byte loads | violation of `LoadsSeeProgramOrder` |
| `dmem` | 5 blocks of 2 units, 2 lines and 2 victims, all full, latency 2, 2 reads, 1 partial store, 1 squash | one flat memory that changes by exactly the stores asked for; a block in one place; clean means written |
| `dmem_refused` | latency as long as there are tags | violation of `ImplementsFlatMemory` |
| `memory_live` | three machines (`part`): the queues with 3 accesses; the data cache with 1 block, latency 4, no refill time, 4 reads, 1 store, 1 squash, 1 instruction fetch; the instruction cache with 6 blocks, 3 lines, `WAYS` 2, 2 tags, 2 branch targets, a zero word | every access leaves its queue; reads are answered or dropped although cancelled ones stay; bundles arrive and are memory's words |
| `host` | five machines: all words with extreme fields; a debugger ring of 4 over 9 cycles; a heap of 120 bytes with the sizes the programs ask for; graphs of 4 vertices and 4 edges; arrays of 5 and the cell behind | codec, debugger, heap, traversals and algorithms |
| `heap_overlap` | heap of 160 bytes, a program that frees 8-byte nodes | violation of `HeapPartition` |

`MCMemory` and `MCHost` put machines that do not interact side by side: the first state picks the
machine (`part`) and the others keep their initial state, so the states add up and do not
multiply.  What is asked of all of them is one question each: progress of whoever uses memory,
and correctness of the C code.

### Bounds, and why they are enough

- **Sizes.** Two ways are the least with which two instructions of one bundle can depend on each
  other, conflict, and be committed in one cycle.  Rings are larger than one bundle and smaller
  than two and a half, so they wrap in every run.  The reorder buffer has 5 entries in `rob`,
  which is not a power of two: the modulo is done, not left to the width of a register.
- **Registers.** One architectural register makes every instruction overwrite the last one, the
  hardest case for renaming; what several registers add is proved (section 5).  One marked value
  (`OneMark`) suffices to follow data that is only copied.
- **Programs.** `Rename`, `ROB` and `Issue` run for ever: entries, registers and lines are
  reused without end.  `LSQ` bounds the number of accesses (`MaxOps`), and starts the store queue
  at slot 3 so that it wraps at once; a bound is needed because an access carries its age.
- **`Issue`.** `MaxOperands` 1 leaves out an instruction that waits for two results; its two
  operands are watched by the same circuit twice.  `MaxMults` 1 leaves out two multiplications
  that compete with each other; each has a unit of its own and competes only with the load queue.
- **`Dmem`.** `FullCaches` are drained caches in which everything is valid, so that each fill
  displaces a victim; `ResetCache` is the cache after reset.  A value is the block and the number
  of the store it came from.  Stores, reads, squashes and fetches are counted (`MaxWrites`...).
- **Latency.** The real memory takes 10 cycles (100 ns at a period of 10), a misprediction is
  followed by at least 5 cycles without a new access, and `q2` has 8 slots.  `memory_live` takes
  4, 0 and 3, which is harsher in the ratio of slots to reads in flight; `Q2NeverFull` holds
  for it.  `ReadsFit` (section 5) says where the limit is: with 5 such cycles and latencies from 15
  on, which a shorter clock period would give, as many reads of the squashed path can still be in
  `q2` when those of the right path arrive as fill the ring; its head then meets its tail, which the
  code takes for empty.
  `LAT + 1 <= TAGS` is the condition under which memory never refuses; `dmem_refused` drops it.
- **`ICache`.** A bundle of two words spans two blocks at odd program counters, and with three
  lines a prefetch, which runs ahead of the bundle, displaces the line the bundle still needs.
  Two tags make requests be refused.  A target in the middle of a block and one at the end of
  memory make bundles start at a redirected counter; block 2's zero word is one that `if_stage`
  takes for no instruction.
- **`Debugger`.** A ring of 4 with 9 cycles wraps twice, so the oldest cycle shown is one that was
  overwritten; the slots the array has not been given yet hold zeros or ones (`Junk`).
- **`InstCodec`.** Words combine every opcode (and one that is unknown) with every `funct3` and
  values of the other fields that set each kind of bit an immediate is made of; operands for the
  encoder have immediates with single bits, runs of ones and negative numbers.
- **`Heap`.** Sizes are those the programs of `src/test_progs` ask for; `WRAP` is the width of the
  offsets, beyond any address in reach.  The array is small enough to be exhausted and to have
  several blocks in use at once.
- **`Traversals`, `TestPrograms`.** Every graph with at most 4 edges over 4 vertices, every array
  of 5 over three values with any of them in the cell behind it, every pair of factors from the boundaries of a byte and a nibble.

### Fairness

- The clock runs (`WF` of the edge) in `Issue`, `LSQ`, `Dmem` and `ICache`.  In `Issue` the parity
  `edge` makes an edge at which nothing moves a step, so that "the clock runs" can be said about
  states.
- `Issue`: no load stays in the load queue for ever (`QueuesDrain`).
- `LSQ`, in `memory_live`, assumes `Served` of its surroundings: an address in the stations is
  broadcast in the end (`Finishes` of `Issue`), a load that waits for memory is answered
  (`QueuesDrain` of the data cache), the oldest store's data arrives and it is committed.
- `BundlesArrive` asks nothing while fetch is redirected, while the reorder buffer stalls, or
  while the data cache keeps the bus: those end by the other results, and fetch may wait for them.
- The test bench and the reader of its pipe run (`WF`); of the user nothing is assumed, so
  `UserServed` says that a key pressed is answered, not that one is pressed.
- Nothing is assumed of mispredictions or of the arbiters' order.

`CHECK_DEADLOCK FALSE` is in the configurations of `MCHost` only: programs end, and the simulation
after a halt waits in `waitforresponse` for input that never comes.  The core has no state in
which the clock stops (a halt is the stuttering action `Halted` in `ROB`).

## 4. What the properties say about the code

Each property has a mutant of the model, a plausible slip in the code it translates, that TLC
finds by that property: a pointer that does not wrap, a stall that looks at the count of the last
edge, a multiplication that ignores the bus, an age mask that ignores the wrap, a forwarding that
ignores sizes, a cancelled read that fills, a conflict check that looks only at the victims, a
store that is dropped when it meets a squash, an idle unit that executes its last packet again, a
block that fills the line of any tag, a cycle put into the wrong slot of the history, an immediate
that lacks a bit.

What the models showed about the code:

1. `rename_x0`: a load into x0 is broadcast with the physical register its way was *offered*
   and did not take.  The register is marked valid and written while free, and if its next owner
   takes it before the load returns, that owner's readers take the load's value.
2. `rob_illegal`: an illegal or zero word in the middle of a bundle leaves valid ways behind an
   invalid one, which `rob.sv` 123 rules out; the entry skipped is never marked done.
3. `lsq_unsigned`: an unsigned byte or half load forwarded from a store returns the store's whole
   register.
4. `dmem_refused`: a request that memory refuses is dropped, although the interface says 0 means
   "can't accept".
5. `heap_overlap`: `tj_malloc.h` adds sizes in bytes to pointers to headers, so it merges blocks
   that stand eight times as far apart as it means, and not those that are neighbours.

Observed and not a finding, in the core: the retired valid list keeps the bit of a register that
enters and leaves it in one commit (`Validlist.sv` 72), which is why `ValidMeansProduced` is an
inclusion for it; after a swap the lru bit points at the victim just put there; the mask of
`arbiter_rr.sv` resolves to a fixed priority; the branch mask of `ex_stage.sv` 224 uses one bit of
a vector; `q1` has no check for being full and nothing
in the controller bounds it; a pending mark of the instruction cache may be cleared
by the block that had the line before, and heals because the next miss or prefetch asks again; the
instruction cache does not see stores; `README` says one way does not work; `rs.sv` contains
unresolved merge markers, of which the side called `final_project` fits `processor.sv` and is the
one modelled.

In the C code: `inst_t`'s encoder loses the sign of a store's offset, and `select` gives a jump
the upper-immediate fields; the window of the retired map shows the speculative map and its free
list; going back has no limit when the present cycle stands at the end of the ring, and the slot
of the cycle before the first is shown as it was never written; the simulation never recognises
the line `DONE` since `fgets` keeps its newline; `mergesort.c` sorts indices 0 to 23 of an array of
23, so that the cell behind it is sorted with the data (`SortsSort`); `priority_queue.c` pushed onto an empty list dereferences a null pointer; `riscv_inst.h` spells
LUI in upper case.

## 5. Proofs

`RenameProofs` proves about `Rename`, for every set of registers, every `WAYS` and every `ROBSZ`
that satisfy `SizesAssumption` and `RegistersAssumption` (at least two bundles of entries, and as
many physical registers as architectural ones and entries together, which `sys_defs.svh` gives:
64 = 32 + 32):

| Theorem | Statement |
| --- | --- |
| `TypeCorrect` | `Spec => []TypeOK` |
| `RegistersConserved` | `Spec => []OneOwner`: no register is shared, both free lists are exact, offers are free and distinct |
| `AlwaysARegister` | every way always has a register to take |
| `ProgramOrder` | the speculative map is the retired one overwritten by the window in order |
| `ValidBits` | without loads into x0, valid means produced |
| `ResultsStable` | without loads into x0, no result is overwritten while it can be read |
| `ImplementsInOrder` | without loads into x0, `Spec => InOrderSpec`: operands are those of a register file updated in program order |

The argument.  `RoomKept` bounds the window by the stall, and `FreeListsExact` says that what is
not free is retired or in flight.  Neither is inductive alone: a commit frees the *old* mapping of
its destination, which is the right register only if the mappings are injective
(`NoSharedRegister`), and a recovery copies the retired free list, which is right only if it is
exact *after* this edge's commits.  The invariant is their conjunction with `OffersFree`, since the
registers for a bundle are chosen an edge before they are taken, and with `RATIsProgramOrder`,
since a recovery discards the speculative map.  Its lemmas follow one edge: the retired map after
k commits is injective (`RRATNextInjective`), the registers that leave are not used by it
(`LeavingLeaves`), every owner stays or leaves (`StaysOrLeaves`), hence both lists stay exact.
That a free register is left for every way is a count (`EnoughRegisters`).  The valid bits and the
stability of results follow from the same invariant and from broadcasts naming registers in
flight.  The refinement then has one step to map, the clock edge, in three lemmas.  What commits is
what the abstract register file commits (`CommitIs`), since the head's destination names the
register the retired map gets.  What is in the window only fills (`EntriesProgress`): a broadcast
reaches the one entry that owns its register.  What arrives reads the last writer in program order
(`EntriesFresh`), which `OperandNext` takes in three cases: a writer in the same bundle, whose
forwarding must beat the map; a writer in the window, by `RATIsProgramOrder`; and none, where the
register is the retired one and its valid bit is set.  A recovery maps to the abstract squash
(`ExceptSquashes`).

`ROBProofs` proves about `ROB`, for every `WAYS`, every `ROBSZ` of at least two bundles and every
program that satisfies `SizesAssumption`:

| Theorem | Statement |
| --- | --- |
| `TypeCorrect` | `Spec => []TypeOK` |
| `CountersAgree` | `Spec => []WindowAccounting`: head, tail and count agree, another bundle fits |
| `BusRight` | if the decoder knows all words, the broadcasts to come are the unfinished entries |
| `ImplementsQueue` | if the decoder knows all words, `Spec => InOrderSpec`: the ring is a queue that commits in order |

The argument.  Lemmas on `Slot` make the ring a line: an entry is its distance from the head, which
is unique below `ROBSZ`.  The invariant is `TypeOK`, `WindowAccounting`, `OnlyWindowDone`, that what
executes is in the window and unfinished, and that the latched number is the tail.  None of them
is inductive alone: that no more commits than the window has (`CommitsFromWindow`) needs that
nothing outside is done, which needs that the bus names only the window, which needs the number
latched an edge early, which is right because the stall leaves the bundle empty when it would not
be.  Three lemmas then say what becomes of an entry by its distance: it leaves (`LeavingEntry`),
stays (`StayingEntry`) or comes (`ComingEntry`); the same three give the step simulation of
`CommitQueue` (`ClockRefines`).  The hypothesis on the words is needed: `rob_illegal` shows the gap
that a rejected word leaves, and an entry in a gap has no broadcast to come (`NoGaps`).

`IssueProofs` proves about `Issue`, for every number of ways, entries, lines and multiplier stages
that `IssueAssumption` allows:

| Theorem | Statement |
| --- | --- |
| `TypeCorrect` | `Spec => []TypeOK` |
| `InOnePlace` | every instruction of the window is in exactly one place, any other in none |
| `BundlesFit` | a bundle in the ID/EX register finds as many free lines as it needs |
| `WaitsAreExact` | an operand is waited for exactly while its producer has not been broadcast |

The argument.  The invariant is `RegistersOK`, `UnitsHoldMults` (a unit that is occupied works on a
multiplication), `RoomForBundle` (the stall, an edge later), `Located` (`OnePlace`, place by place) and
`WaitsExact`.  `Moves` says for one cycle and one instruction where it was and where it is; that it
is in one place afterwards (`StepLocated`) needs that a granted line finds its unit or stays, that a
bundle finds a line for each of its instructions (`RoomForBundle`), and that the ways that take the
bus are those the load queue leaves (`BusIs`).  A packet stays in front of its
unit after it was executed, so an instruction can be seen there and be elsewhere: where it *is*
counts only what the unit holds (`Held`), and a unit starts nothing that it has not just been given
(`UnitKept`).  `WaitsExact` follows the broadcast through decode,
the ID/EX register and the lines in the same cycle.

`LSQProofs` proves about `LSQ`, for every number of slots and ways, every program and every number of
instructions (`QueueAssumption`, `ProgramAssumption`):

| Theorem | Statement |
| --- | --- |
| `TypeCorrect` | `Spec => []TypeOK` |
| `QueuesHoldWindow` | the queues hold exactly the window, in order, and the counters are exact |
| `AgesRight` | head, recorded tail and wrap-around name exactly the stores older than a load |
| `LoadsSee` | if byte loads are signed, a load puts on the bus what program order demands |
| `ReadsUndisturbed` | no store writes the block of a load that reads or waits |
| `StoresWriteInOrder` | memory changes only by the oldest instruction writing its own data |

The argument.  The store queue is a line of `Stores` entries from its head, in the order of the
instructions' numbers (`At(i)`), and the invariant says of each load that the tail it recorded is
`At(k)`, where k is how many stores of the queue are older (`AgesRecorded`): when the head moves,
k falls with it.  `QueuesMatchWindow` is inductive only with the latched number of free slots
and what the stall allows; `NewQueue` and `StoreSlot` say which entry stays, comes or goes.  `LoadsSee`
needs what a load found when it was granted to be still so later: a load that reads or waits has no
older store to its block (`Clear`), a load that is done has the value of memory and is `Clear`, or
has the value of the youngest older store that may conflict with it (`HasStore`).  Neither survives
a commit by itself: it does because what commits is the oldest instruction, so older than every load
(`HeadOlder`), and so no write to a block being read; and a load that was forwarded from the store
that leaves has memory's value afterwards (`LoadStaysRight`).  The hypothesis on byte loads is
needed: without it `lsq_unsigned` is the counterexample.

`DmemProofs` proves about `Dmem`, for every set of blocks and units, every index function, every
starting cache of `DrainedCaches`, and `LAT < TAGS`:

| Theorem | Statement |
| --- | --- |
| `TypeCorrect` | `Spec => []TypeOK` |
| `InOnePlace` | no block is in two places of the cache |
| `CleanLinesAreWritten` | what is not dirty is in memory or queued for it |
| `Refinement` | `Spec => ImplementsFlatMemory`: cache, victims, queues and memory are one flat memory, which changes in each cycle by exactly the store asked for, and the reads get what it holds |
| `ReadsFit` | `Spec => []Q2NeverFull`: the ring `q2` never fills, if `Cardinality(Slots) < LSQSZ` and `LAT - Refill - 2 < LSQSZ` |

The argument.  `Flat` is what a reader of the cache sees (`View`): a block's copy in a line or a
victim, else memory after the stores queued for it (`Written`).  A cycle is a write, a fetch into
the cache and a fill, one after the other, and each has a lemma that says what it does to the view
(`AfterWriteView`, `FetchedView`, `AfterFillView`): only a
store changes it, in its block, by its units, and at once (`StoreIsPerformed`), wherever the block
is: in a line, in a victim, or queued.  That a read brings the
right contents from memory rests on order: no store to its block is queued behind it and every copy
of its block is clean (`OrderOK`), its tag holds the block's written contents, and the tags of the
controller's second queue run out in its order (`Q2OK`).  That each answer reaches the read that
waits for it rests on `ReadsOK`: a slot has one read, in one queue.  `LAT < TAGS` means that memory never refuses a
command, since a tag is busy for `LAT + 1` cycles and one is taken per cycle; it holds of the
configuration in `sys_defs.svh` (10 cycles, 15 tags), and `dmem_refused` shows what is lost
without it.

`ReadsFit` says of `q2` what no bound on loads or mispredictions has a part in.  Reads that are
waited for have a slot each, so they alone do not fill the ring.  A cancelled one keeps its entry,
but nothing is asked for `Refill` cycles and a read takes three more until memory has it, so it is
`Refill + 3` cycles ahead of every read that is waited for (`GapOK`); as one read is taken per cycle, a
cancelled read, the gap and what is behind it share the latency (`Q2Bounded`).  The bound is exact:
for one more cycle of latency TLC finds the ring full on small instances.  In `sys_defs.svh` the
ring has 8 entries, the stall lets at most 7 loads into the load queue, and 10 - 5 - 2 is 3.

`ICacheProofs` proves `BundlesCarryMemory` about `ICache`, `Spec => []DeliversMemory`, for every
width, number of lines, tags, latency and program: the invariant follows a block from the tag that waits for it, which
cannot be taken again before it returns (`WaitsForData`), to its line (`LinesHold`) and the bundle.

`HostProofs` proves about `Debugger`, for every length of the history ring from 2 on, every
number of cycles and every user (`HistoryAssumption`):

| Theorem | Statement |
| --- | --- |
| `TypeCorrect` | `Spec => []TypeOK`, and with it that the pipes hold at most a dump and two answers |
| `TakeTurns` | until the program halts, the right to go on is in one place |
| `ScreenRight` | the screen shows the cycle it names, up to `NUM_HISTORY - 2` cycles back |

The argument.  `Turn` lists who can be about to move and what is in each pipe then; in particular what
is in the simulation's pipe is the end of one dump, the dump of the present edge (`Unread`).
`HistoryOK` says of the last cycles that their slots have the tables of their rising edges.  It is
not inductive alone: a line is stored before the cycle it belongs to is the present one, so the
invariant says what has been read so far of a rising edge's dump (`PartialOK`), and the line break,
which every table precedes (`EveryTable`), makes it the newest cycle (`BreakKeeps`).  The slot that is
written lies behind all slots that count (`SlotsApart`), also at the falling edge, whose dump goes
one slot further than the cycle's own.

`HostProofs` also proves about `InstCodec`, for every set of words of 32 bits, every instruction and
everything a field that was never assigned may hold (`CodecAssumption`):

| Theorem | Statement |
| --- | --- |
| `CodecConsistent` | object and word belong together in every state (`CodecInv`) |
| `AllDecodersAgree` | `CodecSpec => []DecodersAgree` |
| `RoundTrips` | `CodecSpec => RoundTrip` |

The argument.  Words are sets of bits, so a field is described by which bits of the word are in it
and an equality of words by a case for each field.  The core's patterns (`CoreMeans`) and the name
tables (`Means`) are each shown to say the same thing of `opcode`, `funct3` and `funct7`, which is why
they agree (`CoreNames`), also where a printing decoder shifts copies of the sign into `funct7`; the
immediates are the core's piece by piece (`ImmediateKinds`).  For the round trip, the word of a
decoded object is put together from its own fields (`Reencodes`) and the fields of a built one's
word are its own (`Rebuilt`).  The invariant is needed because an object that no word decoded to
keeps junk in the fields `select` does not assign.

And about `Heap`, for every size of header and array that fits the address space
(`HeapAssumption`: what a merge looks at, `HEADER` times a size further on, is not beyond the end of
memory), every place of `base` off the array (`Anchors`) and every set of programs that are careful
with it:

| Theorem | Statement |
| --- | --- |
| `HeapTypeCorrect` | `\A p \in Programs, x \in Anchors : Careful(p, x)` implies `HeapSpec => []HeapTypeOK` |
| `BlocksApart` | `\A p \in Programs, x \in Anchors : Careful(p, x)` implies `HeapSpec => []HeapPartition` |

`Careful` is where the allocator is right and not a convenience: a program frees nothing, or all its
requests round to one size `s`, `HEADER * s` is not a multiple of `s + HEADER`, and no block can lie
`HEADER * s` in front of `base` (`OutOfReach`).  The merges, which add sizes in bytes to pointers to
headers, then never fire.  `graph.c` and `bfs.c` free nothing,
`priority_queue.c` asks for 12 bytes (96 is no multiple of 20) and `basic_malloc.c` for 16 (128 is none of 24);
8 bytes (64 is a multiple of 16) is the counterexample of `heap_overlap`.

Where `base` is, the linker decides.  Below the array no merge reaches it.  Behind the array, `d` bytes
from the end of its 16384, blocks of 12 bytes meet it if `d` is 12 modulo 20, and blocks of 16 bytes
if `d` is 16 modulo 24; no gap, or one of a word, is out of reach.  A block that meets it joins it, and
`base` is off the list with its size of 0 added: the same line of `tj_free` as the finding's, so
`Careful` excludes it.  A program that frees nothing may meet it without harm, since `base` is then
alone on the list (`FreedAlone`).

The argument.  The invariant (`HeapInv`) says that the list is a circle (`Circle`), that blocks in
use and free ones are laid side by side up to `next_index` (`TilesOK`), and what keeps merges away
(`ShapeOK`): all blocks are one stride apart, or nothing but the anchor stays on the list.  A circle
of addresses has exactly one place for a new one, so `tj_free`'s search ends, at that place
(`ScanFinds`), and inserting there or taking a block out leaves a circle (`CircleInsert`,
`CircleRemove`).  Two blocks are a multiple of the stride apart (`RowApart`), what lies behind a block in units of headers
is not reached by going around (`PlusInArray`), and the anchor is out of reach (`OutOfReach`), so `tj_free` only relinks (`FreedIs`,
`FreeKeeps`).  `getmoremem` adds a tile and frees it (`GrownTiles`, `MoreKeeps`), and what a search
finds fits exactly (`CarveKeeps`).

And about `Traversals`, for every number of vertices and of edges (`TraversalAssumption`):

| Theorem | Statement |
| --- | --- |
| `SearchesReach` | `TraversalSpec => []TraversalsReach` |

The argument.  The balls around vertex 0 are defined by recursion; that the definition holds for
every radius up to `MAX` is `BallIs`, by a least radius at which it would fail.  Balls are nested,
and as `MAX` growing ones would hold more than `MAX` vertices, one of them stops growing (`BallStops`), so
the largest holds all that can be reached (`BallClosed`).  From there on the proof knows the graph
only by `LayersOK`: distances grow by at most one along an edge, and every vertex but 0 has a
neighbour one nearer.  The invariant (`SearchInv`) says which neighbours may be unmarked, those of a
vertex in the array or of the current one, further on in its list (`MarkOK`), that the vertices in the array
are marked and differ (`ArrayOK`), and that the queue, the current vertex in front of it, is in order of
distance with at most two layers in it (`OrderOK`).  Hence all vertices as near as the current one
are marked (`LayersFull`), so that a neighbour that is not is in the next layer and joins at the end
(`NextLayer`, `JoinKeeps`), and while a vertex is unmarked a cell is free (`Room`): `insert` writes
inside the array and `enqueue` drops nothing.  When nothing is left in the array, `LayersFull`
for the largest distance is the result.  TLC checked `SearchInv` on the graphs of the `host` run.

`NumberLemmas` holds what these proofs keep needing: least and greatest elements, arithmetic of a
ring, ranks (how many elements of a set are below one), the size of an image, remainders, and
increasing sequences.

Proving changed the models where they said too little: `Issue`'s and `Dmem`'s constants had no
assumptions that kept a missing value out of the data, two `CASE`s had overlapping arms, the
contents of queued stores were a fold over a sequence, unread dumps were counted with an operator
that takes an operator, and the window of `LSQ` was a sequence with
its own index arithmetic where a function from instruction numbers says the same.  `InstCodec` named
opcodes by numbers, whose bits were folded back into a word; its names now come from the bits
themselves.  `Heap`'s searches of the list were recursive operators; they are now the first place that
passing headers of a set leads to.  No definition changed what TLC checks of the code.

Model-checked only: all liveness (`QueuesDrain`, `OpsLeave`, `ReadsAnswered`, `BundlesArrive`,
`Finishes`, `UserServed` and the like), which is beyond the prover; the algorithms of the C programs (`AnswersRight`), whose module uses recursive operators where the code recurses and whose results
are defined by recursion over the data; `HostTypeOK` as one formula, whose two conjuncts are
`TypeCorrect` of `HostProofs` and `HeapTypeCorrect`.

## 6. Abstractions a reader should know

- **Reset** happens once, at the start.
- **In flight** in `Rename` includes the bundle in the ID/EX register, which may then be broadcast
  one cycle before the stations could; more behaviours, never fewer.  Which free registers the
  selector offers is any choice of distinct ones.
- **Bundles** in `rob`, `issue` and `lsq` have no illegal or zero words.
- **Entries** in `Issue` name instructions, and a missing operand is named by its producer, where
  the code uses the producer's physical register; that the two agree is `Rename`'s result.
  `Commits` may take fewer than all finished instructions, as stores and branches make the code do.
  A store is an `alu` instruction there: its address is its result and nobody waits for it.
- **Loads** leave the window of `LSQ` at their broadcast, stores at their commit; the two arbiters
  may pick any request.  Data is a pair of units, so that bytes and words overlap.
  A freed load entry has its data normalised: nothing reads it.
- **Rings** of the cache controller are sequences.  For `q2` the theorem `ReadsFit` is what makes
  that right.  For `q1` it is an assumption: the code has no check, a cycle can add a store that
  misses, a read that misses and a displaced block, while one leaves, so it does not shrink while
  stores miss in every cycle.  At the bounds of the runs it stays far from its size, so no property is claimed.
- **Instruction cache**: index, tag and valid bit are one block name per line; a word is its
  address, and memory its own contents, so a wrong word is a wrong address.  The data cache's use
  of the bus is any command at any edge.
- **Debugger**: a printed table is its cycle and level, a pipe a sequence of lines.
- **Heap**: contents of blocks are left out (`memset` moves data only); of a header only size and
  link are kept, and undefined addresses are computed modulo `WRAP`.
- **One way** (`WAYS` 1) is out of scope, as it is for the code.

## 7. Not modelled, and why

- Branch predictor: its answers are free choices, and it cannot make the core wrong.
- The arithmetic of the units: data.
- `arbiter_rr.sv`'s mask: the queues are right for any order, and no property rests on it.
- `mt19937-64.c`: a published generator.  `alexnet.c`: the kernels of `matrix_mult` and
  `fc_forward` over and over.  `towers` in `graph.c` moves nothing.
- The layout of the debugger's windows, the reports of the ordinary test bench, the unit test
  benches (they drive one module and print), `rob_generate_test.cpp`.
- The assembly programs: inputs of a simulation.
- Older modules that `processor.sv` does not instantiate; synthesis scripts.

## 8. What could follow

1. `Backend`: `ROB` and `Issue` over one window, with `Nuke` and `Except` the same edge, to
   replace the commits that `Issue` leaves open.
2. `Requests`: `LSQ` driving the controller's `q1`, for how many requests can be in it and whether
   it can fill.
3. Half-word accesses in `LSQ`, a second block.
4. Proofs: the compositions of items 1 and 2 from the components' theorems.
