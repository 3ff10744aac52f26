------------------------------- MODULE MCLSQ -------------------------------
(* The load and store queues for TLC: which memory instructions occur. *)
EXTENDS LSQ

At(b, o) == [block |-> b, off |-> o]
Instruction(k, z, a, sg) == [kind |-> k, size |-> z, addr |-> a, signed |-> sg]

\* Bytes and words that overlap; byte loads extend the sign.
OverlapProgram ==
  {Instruction("store", z, At(b, 0), FALSE) : z \in {"byte", "word"}, b \in Blocks}
    \cup {Instruction("load", "word", At(b, 0), FALSE) : b \in Blocks}
    \cup {Instruction("load", "byte", At(b, o), TRUE) : b \in Blocks, o \in 0..1}

\* A byte store and an unsigned byte load.
UnsignedProgram ==
  {Instruction("store", "byte", At(b, 0), FALSE) : b \in Blocks}
    \cup {Instruction("load", "byte", At(b, 0), FALSE) : b \in Blocks}
=============================================================================
