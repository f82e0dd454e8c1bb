------------------------------- MODULE SimUnits -----------------------------
(***************************************************************************)
(* The parts of python_model/ooop_sim.py that have no state: words, the    *)
(* decoder, the ALU, the branch unit and the accesses to a memory word.    *)
(*                                                                         *)
(* Python's integers are unbounded and signed, and so are the values here: *)
(* only what the code passes through u32 is cut to a word.  A word has     *)
(* four bytes of BYTE_BITS bits, 8 in the code; widths that follow from    *)
(* the encoding of instructions are those of the code.                     *)
(***************************************************************************)
EXTENDS Integers, FiniteSets

CONSTANT BYTE_BITS

ASSUME ByteBitsAssumption == BYTE_BITS \in Nat \ {0}

XLEN == 4 * BYTE_BITS

U32(val) == val % 2^XLEN

S32(val) == LET w == val % 2^XLEN IN IF w < 2^(XLEN - 1) THEN w ELSE w - 2^XLEN

\* Mutant of Sext: no sign extension.
SextNot(val, bits) == val % 2^bits

Sext(val, bits) ==
  LET field == val % 2^bits
  IN  IF field < 2^(bits - 1) THEN field ELSE field - 2^bits

\* The k-th bit of the two's complement of val, for negative ones too.
Bit(val, k) == (val \div 2^k) % 2

\* The word with the given bits.
Word(bit) ==
  LET sum[k \in 0 .. XLEN] == IF k = 0 THEN 0 ELSE sum[k - 1] + bit[k - 1] * 2^(k - 1)
  IN  sum[XLEN]

\* Python's a & b and a | b for integers of at most a word and a sign: a negative
\* result has infinitely many ones above the word.
And(a, b) == Word([k \in 0 .. XLEN - 1 |-> Bit(a, k) * Bit(b, k)])
               - (IF a < 0 /\ b < 0 THEN 2^XLEN ELSE 0)

Or(a, b) == Word([k \in 0 .. XLEN - 1 |-> IF Bit(a, k) + Bit(b, k) > 0 THEN 1 ELSE 0])
              - (IF a < 0 \/ b < 0 THEN 2^XLEN ELSE 0)
-----------------------------------------------------------------------------
(***************************************************************************)
(* Instructions: the fields of the 32-bit encoding, together all its bits. *)
(***************************************************************************)
Field5 == 0 .. 31
Field7 == 0 .. 127
Insn   == [op : Field7, rd : Field5, f3 : 0 .. 7, rs1 : Field5, rs2 : Field5, f7 : Field7]

\* 0x00000013, with which the instruction memory is preset.
Nop == [op |-> 19, rd |-> 0, f3 |-> 0, rs1 |-> 0, rs2 |-> 0, f7 |-> 0]

SignBit(i) == i.f7 \div 64

ImmI(i) == Sext(i.f7 * 2^5 + i.rs2, 12)
ImmS(i) == Sext(i.f7 * 2^5 + i.rd, 12)
ImmB(i) == Sext(SignBit(i) * 2^12 + (i.rd % 2) * 2^11 + (i.f7 % 64) * 2^5
                  + (i.rd \div 2) * 2, 13)
\* The upper twenty bits in place, as far as the word reaches.
ImmU(i) == U32(((i.f3 + i.rs1 * 2^3 + i.rs2 * 2^8 + i.f7 * 2^13) % 2^XLEN) * 2^12)
ImmJ(i) == Sext(SignBit(i) * 2^20 + (i.rs1 * 2^3 + i.f3) * 2^12 + (i.rs2 % 2) * 2^11
                  + ((i.f7 % 64) * 2^4 + i.rs2 \div 2) * 2, 21)

FuType == {"ALU", "BRU", "LSU"}

\* alu_op as an OP-IMM and an OP instruction set it; ADD is the default, 0.
OpImmOp(f3) == CASE f3 = 3 -> "SLTIU" [] f3 = 5 -> "SRA" [] f3 = 6 -> "OR"
                 [] f3 = 7 -> "AND" [] OTHER -> "ADD"

OpOp(f3, f7) == CASE f3 = 0 /\ f7 = 32 -> "SUB" [] f3 = 7 -> "AND" [] f3 = 6 -> "OR"
                  [] f3 = 5 -> "SRA" [] OTHER -> "ADD"

LUI == 55
JAL == 111
OP_IMM == 19
OP == 51
LOAD == 3
STORE == 35
BRANCH == 99
JALR == 103

ImmOf(i) == CASE i.op = LUI -> ImmU(i)
              [] i.op = JAL -> ImmJ(i)
              [] i.op \in {OP_IMM, LOAD, JALR} -> ImmI(i)
              [] i.op = STORE -> ImmS(i)
              [] i.op = BRANCH -> ImmB(i)
              [] OTHER -> 0

AluOpOf(i) == CASE i.op = LUI -> "LUI"
                [] i.op = OP_IMM -> OpImmOp(i.f3)
                [] i.op = OP -> OpOp(i.f3, i.f7)
                [] OTHER -> "ADD"

\* decode_instr; an instruction it does not know keeps the defaults of DecodePkt.
DecodeInstr(pc, i) ==
  [pc |-> pc, instr |-> i, rs1 |-> i.rs1, rs2 |-> i.rs2, rd |-> i.rd,
   rs1_used |-> i.op \in {OP_IMM, OP, LOAD, STORE, BRANCH, JALR},
   rs2_used |-> i.op \in {OP, STORE, BRANCH},
   rd_used  |-> i.rd # 0 /\ i.op \in {LUI, JAL, OP_IMM, OP, LOAD, JALR},
   imm      |-> ImmOf(i),
   alu_op   |-> AluOpOf(i),
   fu_type  |-> IF i.op \in {JAL, JALR, BRANCH} THEN "BRU"
                ELSE IF i.op \in {LOAD, STORE} THEN "LSU" ELSE "ALU",
   is_load  |-> i.op = LOAD,
   ls_size  |-> IF i.op = LOAD /\ i.f3 # 2 THEN "B"
                ELSE IF i.op = STORE /\ i.f3 # 2 THEN "H" ELSE "W",
   unsigned_load |-> i.op = LOAD /\ i.f3 # 2,
   is_branch |-> i.op = BRANCH,
   is_jump   |-> i.op \in {JAL, JALR}]
-----------------------------------------------------------------------------
(***************************************************************************)
(* The units.  d is the decoded instruction, a and b its operands.         *)
(***************************************************************************)
\* Mutant of AluExec: the shift is logical.
AluExecLogicalShift(d, a, b) ==
  LET op_b == IF d.imm # 0 THEN d.imm ELSE b
  IN  CASE d.alu_op = "ADD"   -> U32(a + op_b)
        [] d.alu_op = "SUB"   -> U32(a - op_b)
        [] d.alu_op = "AND"   -> And(a, op_b)
        [] d.alu_op = "OR"    -> Or(a, op_b)
        [] d.alu_op = "SRA"   -> U32(a) \div 2^(op_b % XLEN)
        [] d.alu_op = "SLTIU" -> IF a < op_b THEN 1 ELSE 0
        [] d.alu_op = "LUI"   -> op_b

\* _alu_exec.  Whether the immediate counts is read off its being zero.
AluExec(d, a, b) ==
  LET op_b == IF d.imm # 0 THEN d.imm ELSE b
  IN  CASE d.alu_op = "ADD"   -> U32(a + op_b)
        [] d.alu_op = "SUB"   -> U32(a - op_b)
        [] d.alu_op = "AND"   -> And(a, op_b)
        [] d.alu_op = "OR"    -> Or(a, op_b)
        [] d.alu_op = "SRA"   -> U32(S32(a) \div 2^(op_b % XLEN))
        [] d.alu_op = "SLTIU" -> IF a < op_b THEN 1 ELSE 0
        [] d.alu_op = "LUI"   -> op_b

\* Mutant of BranchCond: signed comparisons made unsigned.
BranchCondUnsigned(f3, a, b) ==
  CASE f3 = 0 -> a = b [] f3 = 1 -> a # b [] f3 \in {4, 6} -> a < b
    [] f3 \in {5, 7} -> a >= b [] OTHER -> FALSE

BranchCond(f3, a, b) ==
  CASE f3 = 0 -> a = b           [] f3 = 1 -> a # b
    [] f3 = 4 -> S32(a) < S32(b) [] f3 = 5 -> S32(a) >= S32(b)
    [] f3 = 6 -> a < b           [] f3 = 7 -> a >= b
    [] OTHER -> FALSE

\* _bru_exec: whether the pc is redirected, and where to.
BruTaken(d, a, b) == d.is_jump \/ (d.is_branch /\ BranchCond(d.instr.f3, a, b))

BruTarget(d, a) ==
  IF d.instr.op = JALR THEN LET t == U32(a + d.imm) IN t - (t % 2)
                      ELSE U32(d.pc + d.imm)

\* n bits of a word from bit lo on, and the word with those bits replaced.
GetBits(word, lo, n) == (word \div 2^lo) % 2^n
PutBits(word, lo, n, data) == word + ((data % 2^n) - GetBits(word, lo, n)) * 2^lo

\* _mem_load and _mem_store on a memory of words, by byte address.
WordIndex(mem, addr) == (addr \div 4) % Cardinality(DOMAIN mem)
ByteLane(addr) == (addr % 4) * BYTE_BITS
HalfLane(addr) == ((addr % 4) - (addr % 2)) * BYTE_BITS

MemLoad(mem, addr, size, uns) ==
  LET word == mem[WordIndex(mem, addr)]
      byte == GetBits(word, ByteLane(addr), BYTE_BITS)
      half == GetBits(word, HalfLane(addr), 2 * BYTE_BITS)
  IN  CASE size = "B" -> IF uns THEN byte ELSE Sext(byte, BYTE_BITS)
        [] size = "H" -> IF uns THEN half ELSE Sext(half, 2 * BYTE_BITS)
        [] size = "W" -> word

MemStore(mem, addr, data, size) ==
  [mem EXCEPT ![WordIndex(mem, addr)] =
     CASE size = "B" -> PutBits(@, ByteLane(addr), BYTE_BITS, data)
       [] size = "H" -> PutBits(@, HalfLane(addr), 2 * BYTE_BITS, data)
       [] size = "W" -> U32(data)]
=============================================================================
