------------------------------- MODULE MCHost -------------------------------
(* The code around the core for TLC: the instruction codec, the debugger,    *)
(* the allocator and the test programs.  They do not interact, so a          *)
(* behaviour is one of one part, and the others keep an initial state.       *)
EXTENDS InstCodec, Debugger, Heap, Traversals

CONSTANTS
  Parts,                                                   \* parts that run
  Values, Entries, Size, Priorities, Boards, Factors, WIDTH \* TestPrograms

VARIABLES
  part,
  prog, input, output

T == INSTANCE TestPrograms

ASSUME HostAssumption ==
  /\ Parts \subseteq {"codec", "debugger", "heap", "traversals", "programs"}
  /\ HeapAssumption
  /\ TraversalAssumption
  /\ T!ProgramAssumption

-----------------------------------------------------------------------------
(* Values of the constants. *)

\* Words of every opcode and an unknown one, with fields that set the bits
\* immediates are made of.
SomeWords ==
  {Bits(op) \cup Shl(Bits(f3), 12) \cup Shl(Bits(f7), 25) \cup Shl(Bits(r2), 20) \cup Shl(Bits(r1), 15)
     \cup Shl(Bits(d), 7) : op \in {3, 15, 19, 23, 35, 47, 51, 55, 99, 103, 111, 115}, f3 \in 0..7,
                            f7 \in {0, 1, 8, 32, 82}, r2 \in {0, 5, 18}, r1 \in {0, 21}, d \in {0, 13}}

SomeOperands ==
  LET Regs == {{}, {0, 2, 4}}
  IN  [rd : Regs, rs1 : Regs, rs2 : Regs,
       imm_value : {{}, {1, 3}, 11..31, {2} \cup 12..31, {1, 13, 14} \cup 20..31, {4, 10, 11}, {0, 7, 19}}]

ZerosOrOnes == {{}, 0..31}

\* priority_queue.c, basic_malloc.c, graph.c and bfs.c: what they ask for, and whether they free.
RealPrograms ==
  {[sizes |-> {12}, frees |-> TRUE], [sizes |-> {16}, frees |-> TRUE], [sizes |-> {2, 8, 24}, frees |-> FALSE]}

\* A program that frees the nodes of graph.c's lists.
FreesNodes == {[sizes |-> {8}, frees |-> TRUE]}

\* base below the array, right behind it, one word further on, and as far
\* behind it as it can be.
SomeAnchors == {HEADER, ARENA + HEAP_SIZE, ARENA + HEAP_SIZE + 4, WRAP - HEADER}
BelowArray == {HEADER}

SomeEntries == {-2, 3}
UpToFour == UNION {[1..n -> 0..2] : n \in 1..4}

-----------------------------------------------------------------------------
program_vars == <<prog, input, output>>

HostInit ==
  /\ part \in Parts
  /\ CodecInit /\ (part # "codec" => obj.riscv = "R" /\ obj.opcode = {})
  /\ Init /\ (part # "debugger" => clock = 0)
  /\ HeapInit /\ (part # "heap" => anchor = (CHOOSE x \in Anchors : TRUE) /\ program = CHOOSE p \in Programs : TRUE)
  /\ TraversalInit /\ (part # "traversals" => search = "bfs")
  /\ IF part = "programs" THEN T!Init ELSE prog = "priority_queue.c" /\ input = <<1>> /\ output = <<>>

Debugging(A) == part = "debugger" /\ A /\ UNCHANGED <<part, codec_vars, heap_vars, traversal_vars, program_vars>>

HostNext ==
  \/ part = "codec" /\ CodecNext /\ UNCHANGED <<part, vars, heap_vars, traversal_vars, program_vars>>
  \/ Debugging(Next)
  \/ part = "heap" /\ HeapNext /\ UNCHANGED <<part, codec_vars, vars, traversal_vars, program_vars>>
  \/ part = "traversals" /\ TraversalNext /\ UNCHANGED <<part, codec_vars, vars, heap_vars, program_vars>>
  \/ part = "programs" /\ T!Next /\ UNCHANGED <<part, codec_vars, vars, heap_vars, traversal_vars>>

all_vars == <<part, codec_vars, vars, heap_vars, traversal_vars, program_vars>>

\* Only the debugger's two processes have a scheduler to be fair to.
HostSpec ==
  /\ HostInit /\ [][HostNext]_all_vars
  /\ WF_all_vars(Debugging(TestBench))
  /\ WF_all_vars(Debugging(Reader))

-----------------------------------------------------------------------------
(* The properties, which the parts' modules state. *)

HostTypeOK == TypeOK /\ HeapTypeOK
UserServed == part = "debugger" => Responsive
AnswersRight == T!SortsSort /\ T!AnswersRight
=============================================================================
