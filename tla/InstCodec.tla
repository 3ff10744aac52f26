----------------------------- MODULE InstCodec -----------------------------
(***************************************************************************)
(* Instruction words: the class inst_t of riscv_inst.h, which takes words  *)
(* apart and puts them together, the decoders of pipe_print.c and the      *)
(* visual debugger, and the decoder of the core.                           *)
(*                                                                         *)
(* A word, and every field of one, is the set of its bits that are 1.      *)
(***************************************************************************)
EXTENDS Integers, Sequences

CONSTANTS
  Words,      \* words given to decode
  Operands,   \* register and immediate fields given to a new instruction
  Junk        \* what a field that was never assigned may hold

Word == SUBSET (0..31)

ASSUME CodecAssumption ==
  /\ Words \subseteq Word /\ Junk \subseteq Word
  /\ Operands \subseteq [rd : SUBSET (0..4), rs1 : SUBSET (0..4), rs2 : SUBSET (0..4), imm_value : Word]

VARIABLES
  obj,        \* the inst_t object
  word,       \* the word it was decoded from or encoded to
  step        \* "fresh", "built", "encoded" from a built one, or "decoded"

codec_vars == <<obj, word, step>>

-----------------------------------------------------------------------------
(* Bits. *)

\* (w >> lo) & mask of n bits, w << n, the bits of a number below 2^12, and the
\* number of a field of three bits.
Field(w, lo, n) == {b \in 0..(n - 1) : b + lo \in w}
Shl(w, n) == {b \in 0..31 : b - n \in w}
Power == <<1, 2, 4, 8, 16, 32, 64, 128, 256, 512, 1024, 2048>>
Bits(n) == {b \in 0..11 : (n \div Power[b + 1]) % 2 = 1}
Num(w) == (IF 0 \in w THEN 1 ELSE 0) + (IF 1 \in w THEN 2 ELSE 0) + (IF 2 \in w THEN 4 ELSE 0)
Extend(w, from) == IF 31 \in w THEN from..31 ELSE {}

-----------------------------------------------------------------------------
(* inst_t::decode. *)

Opcodes == [lui |-> Bits(55), auipc |-> Bits(23), jal |-> Bits(111), jalr |-> Bits(103), branch |-> Bits(99),
            load |-> Bits(3), store |-> Bits(35), immediate |-> Bits(19), arithmetic |-> Bits(51),
            fence |-> Bits(15), system |-> Bits(115)]

Branches == <<"beq", "bne", "invalid", "invalid", "blt", "bge", "bltu", "bgeu">>
Loads == <<"lb", "lh", "lw", "invalid", "lbu", "lhu", "invalid", "invalid">>
Stores == <<"sb", "sh", "sw", "invalid", "invalid", "invalid", "invalid", "invalid">>
Immediates(funct3, funct7) ==
  CASE Num(funct3) = 1 -> IF funct7 = {} THEN "slli" ELSE "invalid"
    [] Num(funct3) = 5 -> IF funct7 = {} THEN "srli" ELSE IF funct7 = Bits(32) THEN "srai" ELSE "invalid"
    [] OTHER -> <<"addi", "slli", "slti", "sltiu", "xori", "srli", "ori", "andi">>[Num(funct3) + 1]

Arithmetic(funct3, funct7) ==
  CASE funct7 = {}       -> <<"add", "sll", "slt", "sltu", "xor", "srl", "or", "and">>[Num(funct3) + 1]
    [] funct7 = Bits(32) -> IF Num(funct3) = 0 THEN "sub" ELSE IF Num(funct3) = 5 THEN "sra" ELSE "invalid"
    [] funct7 = Bits(1)  -> <<"mul", "mulh", "mulhsu", "mulhu", "div", "divu", "rem", "remu">>[Num(funct3) + 1]
    [] OTHER             -> "invalid"

System(funct3, funct12) ==
  IF Num(funct3) # 0 THEN <<"csrrw", "csrrs", "csrrc", "invalid", "csrrwi", "csrrsi", "csrrci">>[Num(funct3)]
  ELSE CASE funct12 = {}        -> "ecall"
         [] funct12 = Bits(1)   -> "ebreak"
         [] funct12 = Bits(261) -> "wfi"
         [] OTHER               -> "system"

\* The name of an instruction, from its fields (the class writes
\* "LUI" where the others write "lui").
Name(opcode, funct3, funct7, funct12) ==
  CASE opcode = Opcodes.lui        -> "lui"
    [] opcode = Opcodes.auipc      -> "auipc"
    [] opcode = Opcodes.jal        -> "jal"
    [] opcode = Opcodes.jalr       -> "jalr"
    [] opcode = Opcodes.branch     -> Branches[Num(funct3) + 1]
    [] opcode = Opcodes.load       -> Loads[Num(funct3) + 1]
    [] opcode = Opcodes.store      -> Stores[Num(funct3) + 1]
    [] opcode = Opcodes.immediate  -> Immediates(funct3, funct7)
    [] opcode = Opcodes.arithmetic -> Arithmetic(funct3, funct7)
    [] opcode = Opcodes.fence      -> "fence"
    [] opcode = Opcodes.system     -> System(funct3, funct12)
    [] OTHER                       -> "invalid"

\* Names whose op is INVALID.
Unsupported == {"invalid", "div", "divu", "rem", "remu", "fence", "ecall", "ebreak", "system", "csrrw",
                "csrrs", "csrrc", "csrrwi", "csrrsi", "csrrci"}

\* The layout and the kind of immediate of an opcode; none is assigned to an
\* unknown one, which keeps what it had.
Format(o, opcode) ==
  CASE opcode \in {Opcodes.lui, Opcodes.auipc} -> [riscv |-> "U", imm |-> "U"]
    [] opcode = Opcodes.jal                    -> [riscv |-> "U", imm |-> "J"]
    [] opcode \in {Opcodes.jalr, Opcodes.load, Opcodes.immediate} -> [riscv |-> "I", imm |-> "I"]
    [] opcode = Opcodes.branch                 -> [riscv |-> "S", imm |-> "B"]
    [] opcode = Opcodes.store                  -> [riscv |-> "S", imm |-> "S"]
    [] opcode = Opcodes.arithmetic             -> [riscv |-> "R", imm |-> "R"]
    [] opcode = Opcodes.system                 -> [riscv |-> "P", imm |-> "R"]
    [] OTHER                                   -> [riscv |-> o.riscv, imm |-> o.imm]

\* Mutant: bit 20 of a jump's word is left where it is.
Immediate_JumpBit(o, w, imm, shift) ==
  CASE imm = "J" -> Shl(Field(w, 21, 10), 1) \cup Shl(Field(w, 12, 8), 12) \cup Shl(Field(w, 20, 1), 20)
                      \cup Extend(w, 20)
    [] OTHER     -> Field(w, 20, 11) \cup Extend(w, 11)

\* Immediates: the pieces of the word, and copies of bit 31 above them.
Immediate(o, w, imm, shift) ==
  CASE imm = "I" -> IF shift THEN Field(w, 20, 5) ELSE Field(w, 20, 11) \cup Extend(w, 11)
    [] imm = "S" -> Field(w, 7, 5) \cup Shl(Field(w, 25, 6), 5) \cup Extend(w, 11)
    [] imm = "B" -> Shl(Field(w, 8, 4), 1) \cup Shl(Field(w, 25, 6), 5) \cup Shl(Field(w, 7, 1), 11)
                      \cup Extend(w, 12)
    [] imm = "U" -> Field(w, 12, 20)
    [] imm = "J" -> Shl(Field(w, 21, 10), 1) \cup Shl(Field(w, 20, 1), 11) \cup Shl(Field(w, 12, 8), 12)
                      \cup Extend(w, 20)
    [] OTHER     -> o.imm_value

\* The object o after decode(w), analyze() included.
Decoded(o, w) ==
  LET opcode == Field(w, 0, 7)
      funct3 == Field(w, 12, 3)
      f == Format(o, opcode)
      str == Name(opcode, funct3, Field(w, 25, 7), Field(w, 20, 12))
      shift == opcode = Opcodes.immediate /\ Num(funct3) \in {1, 5}
  IN  [op |-> IF str \in Unsupported THEN "INVALID" ELSE str, str |-> str, riscv |-> f.riscv, imm |-> f.imm,
       opcode |-> opcode, funct3 |-> funct3, funct7 |-> Field(w, 25, 7), funct12 |-> Field(w, 20, 12),
       rs1 |-> Field(w, 15, 5), rs2 |-> Field(w, 20, 5), rd |-> Field(w, 7, 5),
       imm_value |-> Immediate(o, w, f.imm, shift)]

-----------------------------------------------------------------------------
(* inst_t::select and encode. *)

SelectImmediate == [addi |-> 0, slti |-> 2, sltiu |-> 3, andi |-> 7, ori |-> 6, xori |-> 4]
SelectShift == [slli |-> <<1, 0>>, srli |-> <<5, 0>>, srai |-> <<5, 32>>]
SelectArithmetic == [add |-> <<0, 0>>, slt |-> <<2, 0>>, sltu |-> <<3, 0>>, and |-> <<7, 0>>, or |-> <<6, 0>>,
                     xor |-> <<4, 0>>, sll |-> <<1, 0>>, srl |-> <<5, 0>>, sra |-> <<5, 32>>, sub |-> <<0, 32>>]
SelectMultiply == [mul |-> <<0, 1>>, mulh |-> <<1, 1>>, mulhu |-> <<3, 1>>, mulhsu |-> <<2, 1>>]
SelectBranch == [beq |-> 0, bne |-> 1, blt |-> 4, bltu |-> 6, bge |-> 5, bgeu |-> 7]
SelectLoad == [lb |-> 0, lh |-> 1, lw |-> 2, lbu |-> 4, lhu |-> 5]
SelectStore == [sb |-> 0, sh |-> 1, sw |-> 2]

Ops == {"lui", "auipc", "jal", "jalr", "wfi"} \cup DOMAIN SelectImmediate \cup DOMAIN SelectShift
         \cup DOMAIN SelectArithmetic \cup DOMAIN SelectMultiply \cup DOMAIN SelectBranch
         \cup DOMAIN SelectLoad \cup DOMAIN SelectStore

\* What select(op) returns; junk is in the fields it does not assign.  A jump
\* is given the immediate of lui.
select(op, junk) ==
  LET Sel(opcode, riscv, imm, funct3, funct7, funct12) ==
        [opcode |-> Bits(opcode), riscv |-> riscv, imm |-> imm, funct3 |-> funct3, funct7 |-> funct7,
         funct12 |-> funct12]
      Pair(opcode, riscv, imm, p) == Sel(opcode, riscv, imm, Bits(p[1]), Bits(p[2]), junk)
      One(opcode, riscv, imm, n) == Sel(opcode, riscv, imm, Bits(n), junk, junk)
  IN  CASE op \in DOMAIN SelectImmediate  -> One(19, "I", "I", SelectImmediate[op])
        [] op \in DOMAIN SelectShift      -> Pair(19, "I", "I", SelectShift[op])
        [] op \in DOMAIN SelectArithmetic -> Pair(51, "R", "R", SelectArithmetic[op])
        [] op \in DOMAIN SelectMultiply   -> Pair(51, "R", "R", SelectMultiply[op])
        [] op \in DOMAIN SelectBranch     -> One(99, "S", "B", SelectBranch[op])
        [] op \in DOMAIN SelectLoad       -> One(3, "I", "I", SelectLoad[op])
        [] op \in DOMAIN SelectStore      -> One(35, "S", "S", SelectStore[op])
        [] op = "lui"   -> Sel(55, "U", "U", junk, junk, junk)
        [] op = "auipc" -> Sel(23, "U", "U", junk, junk, junk)
        [] op = "jal"   -> Sel(111, "U", "U", junk, junk, junk)
        [] op = "jalr"  -> One(103, "I", "I", 0)
        [] OTHER        -> Sel(115, "P", "R", {}, junk, Bits(261))

\* Mutant: the top bit of a branch's target is not put back.
Pieces_BranchShort(o) ==
  IF o.imm = "B" THEN Shl(Field(o.imm_value, 11, 1), 7) \cup Shl(Field(o.imm_value, 1, 4), 8)
                        \cup Shl(Field(o.imm_value, 5, 6), 25)
                 ELSE Shl(Field(o.imm_value, 0, 5), 7) \cup Shl(Field(o.imm_value, 5, 6), 25)

\* A store's or a branch's immediate as encode puts it into the word.  The
\* sign of a store's offset, bit 11, is not among the six bits that go to 25.
Pieces(o) ==
  IF o.imm = "B" THEN Shl(Field(o.imm_value, 11, 1), 7) \cup Shl(Field(o.imm_value, 1, 4), 8)
                        \cup Shl(Field(o.imm_value, 5, 6), 25) \cup Shl(Field(o.imm_value, 12, 1), 31)
                 ELSE Shl(Field(o.imm_value, 0, 5), 7) \cup Shl(Field(o.imm_value, 5, 6), 25)

Upper(o) ==
  IF o.imm = "U" THEN Shl(Field(o.imm_value, 0, 20), 12)
                 ELSE Shl(Field(o.imm_value, 12, 8), 12) \cup Shl(Field(o.imm_value, 11, 1), 20)
                        \cup Shl(Field(o.imm_value, 1, 10), 21) \cup Shl(Field(o.imm_value, 20, 1), 31)

encode(o) ==
  LET rd == Shl(o.rd, 7)
      funct3 == Shl(o.funct3, 12)
      rs1 == Shl(o.rs1, 15)
      rs2 == Shl(o.rs2, 20)
      upper == IF o.op \in DOMAIN SelectShift THEN Shl(Field(o.imm_value, 0, 5), 20) \cup Shl(o.funct7, 25)
                                              ELSE Shl(o.imm_value, 20)
  IN  o.opcode \cup CASE o.riscv = "R" -> rd \cup funct3 \cup rs1 \cup rs2 \cup Shl(o.funct7, 25)
                      [] o.riscv = "I" -> rd \cup funct3 \cup rs1 \cup upper
                      [] o.riscv = "S" -> funct3 \cup rs1 \cup rs2 \cup Pieces(o)
                      [] o.riscv = "U" -> rd \cup Upper(o)
                      [] OTHER         -> rd \cup funct3 \cup rs1 \cup Shl(o.funct12, 20)

is_nop(o) == o.op = "addi" /\ o.rd = {} /\ o.rs1 = {} /\ o.imm_value = {}

-----------------------------------------------------------------------------
(* The decoders that name instructions for people. *)

\* inst is a signed int here, so its shifts bring copies of bit 31 in.
pipe_decode(inst, valid) ==
  LET Signed(lo) == Field(inst, lo, 32 - lo) \cup Extend(inst, 32 - lo)
  IN  IF ~valid THEN "-"
      ELSE IF inst = Bits(19) THEN "nop"
      ELSE Name(Field(inst, 0, 7), Field(inst, 12, 3), Signed(25), Signed(20))

\* The visual debugger's copy of it.
visual_decode(inst, valid) == pipe_decode(inst, valid)

decode_alu(alu) ==
  <<"add", "sub", "slt", "sltu", "and", "or", "xor", "sll", "srl", "sra", "mul", "mulh", "mulhsu", "mulhu",
    "div", "divu", "rem", "remu">>[alu + 1]

-----------------------------------------------------------------------------
(* The decoder of the core: casez patterns, ALU functions and immediates. *)

Utype(op) == [mask |-> 0..6, value |-> Bits(op)]
Itype(op, funct3) == [mask |-> 0..6 \cup 12..14, value |-> Bits(op) \cup Shl(Bits(funct3), 12)]
Rtype(op, funct3, funct7) ==
  [mask |-> 0..6 \cup 12..14 \cup 25..31,
   value |-> Bits(op) \cup Shl(Bits(funct3), 12) \cup Shl(Bits(funct7), 25)]

ISA == [
  lui |-> Utype(55), auipc |-> Utype(23), jal |-> Utype(111), jalr |-> Itype(103, 0),
  beq |-> Itype(99, 0), bne |-> Itype(99, 1), blt |-> Itype(99, 4), bge |-> Itype(99, 5),
  bltu |-> Itype(99, 6), bgeu |-> Itype(99, 7),
  lb |-> Itype(3, 0), lh |-> Itype(3, 1), lw |-> Itype(3, 2), lbu |-> Itype(3, 4), lhu |-> Itype(3, 5),
  sb |-> Itype(35, 0), sh |-> Itype(35, 1), sw |-> Itype(35, 2),
  addi |-> Itype(19, 0), slti |-> Itype(19, 2), sltiu |-> Itype(19, 3), xori |-> Itype(19, 4),
  ori |-> Itype(19, 6), andi |-> Itype(19, 7),
  slli |-> Rtype(19, 1, 0), srli |-> Rtype(19, 5, 0), srai |-> Rtype(19, 5, 32),
  add |-> Rtype(51, 0, 0), sub |-> Rtype(51, 0, 32), sll |-> Rtype(51, 1, 0), slt |-> Rtype(51, 2, 0),
  sltu |-> Rtype(51, 3, 0), xor |-> Rtype(51, 4, 0), srl |-> Rtype(51, 5, 0), sra |-> Rtype(51, 5, 32),
  or |-> Rtype(51, 6, 0), and |-> Rtype(51, 7, 0),
  mul |-> Rtype(51, 0, 1), mulh |-> Rtype(51, 1, 1), mulhsu |-> Rtype(51, 2, 1), mulhu |-> Rtype(51, 3, 1),
  csrrw |-> Itype(115, 1), csrrs |-> Itype(115, 2), csrrc |-> Itype(115, 3),
  wfi |-> [mask |-> 0..31, value |-> Shl(Bits(261), 20) \cup Bits(115)]]

\* The cases that match; none is an illegal instruction.
decoder(inst) == {n \in DOMAIN ISA : inst \cap ISA[n].mask = ISA[n].value}

alu_func(name) ==
  CASE name = "sub" -> 1
    [] name \in {"slt", "slti"} -> 2
    [] name \in {"sltu", "sltiu"} -> 3
    [] name \in {"and", "andi"} -> 4
    [] name \in {"or", "ori"} -> 5
    [] name \in {"xor", "xori"} -> 6
    [] name \in {"sll", "slli"} -> 7
    [] name \in {"srl", "srli"} -> 8
    [] name \in {"sra", "srai"} -> 9
    [] name = "mul" -> 10
    [] name = "mulh" -> 11
    [] name = "mulhsu" -> 12
    [] name = "mulhu" -> 13
    [] OTHER -> 0

\* instr[hi:lo] at a position of the immediate, and its sign.
signext(inst, kind) ==
  LET At(hi, lo, p) == Shl(Field(inst, lo, hi - lo + 1), p)
      Sign(p) == {b \in p..31 : 31 \in inst}
  IN  CASE kind = "I" -> Sign(11) \cup At(30, 20, 0)
        [] kind = "S" -> Sign(11) \cup At(30, 25, 5) \cup At(11, 7, 0)
        [] kind = "B" -> Sign(12) \cup At(7, 7, 11) \cup At(30, 25, 5) \cup At(11, 8, 1)
        [] kind = "U" -> At(31, 12, 12)
        [] OTHER      -> Sign(20) \cup At(19, 12, 12) \cup At(20, 20, 11) \cup At(30, 21, 1)

-----------------------------------------------------------------------------
(* The object's life: a word is decoded, or the fields of an instruction   *)
(* are assigned; then it is encoded, and the word decoded.                 *)

IsShift(op) == op \in DOMAIN SelectShift
IsStore(op) == op \in DOMAIN SelectStore
Kind(op) == IF op = "jal" THEN "J" ELSE select(op, {}).imm

\* The immediates an instruction can have.
Fits(op, imm) ==
  LET SignFrom(n) == imm \cap n..31 \in {{}, n..31}
  IN  CASE IsShift(op) -> imm \subseteq 0..4
        [] ~IsShift(op) /\ Kind(op) \in {"I", "S"} -> SignFrom(11)
        [] Kind(op) = "B" -> 0 \notin imm /\ SignFrom(12)
        [] Kind(op) = "J" -> 0 \notin imm /\ SignFrom(20)
        [] Kind(op) = "U" -> imm \subseteq 0..19
        [] OTHER          -> imm = {}

CodecInit ==
  /\ \E j \in Junk, k \in {<<"R", "R">>, <<"U", "J">>} :
       obj = [op |-> "INVALID", str |-> "", riscv |-> k[1], imm |-> k[2], opcode |-> j, funct3 |-> j,
              funct7 |-> j, funct12 |-> j, rs1 |-> {}, rs2 |-> {}, rd |-> {}, imm_value |-> {}]
  /\ word = {}
  /\ step = "fresh"

\* A word from somewhere, or the one just encoded.
decode ==
  /\ \/ step = "fresh" /\ word' \in Words
     \/ step = "encoded" /\ UNCHANGED word
  /\ obj' = Decoded(obj, word')
  /\ step' = "decoded"

\* assign(select(op)) with op and the operands set.
assign ==
  /\ step = "fresh"
  /\ \E op \in Ops, junk \in Junk, f \in Operands :
       /\ Fits(op, f.imm_value)
       /\ obj' = LET sel == select(op, junk)
                 IN  [x \in DOMAIN obj |->
                        CASE x = "op"            -> op
                          [] x \in DOMAIN sel    -> sel[x]
                          [] x \in DOMAIN f      -> f[x]
                          [] OTHER               -> obj[x]]
  /\ step' = "built"
  /\ UNCHANGED word

Encode ==
  /\ step \in {"built", "decoded"}
  /\ word' = encode(obj)
  /\ step' = "encoded"
  /\ UNCHANGED obj

CodecNext == decode \/ assign \/ Encode
CodecSpec == CodecInit /\ [][CodecNext]_codec_vars

-----------------------------------------------------------------------------
(* Properties. *)

\* The fields an instruction's layout gives a meaning to, of two objects.
Same(o, p) ==
  /\ p.op = o.op /\ p.riscv = o.riscv
  /\ o.riscv # "S" => p.rd = o.rd
  /\ o.riscv # "U" => p.rs1 = o.rs1
  /\ o.riscv \in {"R", "S"} => p.rs2 = o.rs2
  /\ o.riscv \in {"I", "S", "U"} => p.imm_value = o.imm_value

\* Words and instructions survive encode and decode, whatever was left in the
\* fields that select does not assign.  Two kinds do not: stores lose the
\* sign of their offset, and a jump made by select has its target in the
\* place of lui's immediate.
RoundTrip ==
  [][/\ step = "decoded" /\ obj.op # "INVALID" /\ step' = "encoded" =>
          word' = IF IsStore(obj.op) THEN word \ {31} ELSE word
     /\ step = "encoded" /\ obj.op # "INVALID" /\ ~(IsStore(obj.op) /\ 31 \in obj.imm_value)
          /\ ~(obj.op = "jal" /\ obj.imm = "U") => Same(obj, obj')]_codec_vars

\* An instruction that the core executes has one meaning: the class and the
\* two printing decoders give it the name the core's decoder goes by, the
\* class gives its immediate the value the core's ALU sees, and the debugger
\* names the ALU function of register operations.  The class accepts no more
\* than the core but for jalr and wfi in other fields.
DecodersAgree ==
  step = "decoded" =>
    LET core == decoder(word)
    IN  /\ \A n \in core :
             /\ obj.str = n
             /\ \A name \in {pipe_decode(word, TRUE), visual_decode(word, TRUE)} :
                  name \in IF is_nop(obj) THEN {n, "nop"} ELSE {n}
             /\ obj.riscv # "P" /\ obj.riscv # "R" =>
                  LET core_imm == signext(word, obj.imm)
                  IN  CASE IsShift(n)    -> obj.imm_value = core_imm \cap 0..4
                        [] obj.imm = "U" -> Shl(obj.imm_value, 12) = core_imm
                        [] OTHER         -> obj.imm_value = core_imm
             /\ obj.riscv = "R" => decode_alu(alu_func(n)) = n
        /\ core = {} /\ obj.op # "INVALID" => obj.op \in {"jalr", "wfi"}
        /\ \A m, n \in core : m = n
=============================================================================
