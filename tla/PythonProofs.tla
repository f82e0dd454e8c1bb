----------------------------- MODULE PythonProofs ---------------------------
(***************************************************************************)
(* Proofs about two of the Python files: about OoopModel, for every        *)
(* program, every size of the memory and every caller, and, at the end,    *)
(* about CompareOutputs, for every number two runs can end with.           *)
(***************************************************************************)
EXTENDS OoopModel, CompareOutputs, NatLemmas, SequenceTheorems

USE ByteBitsAssumption, DepthAssumption
-----------------------------------------------------------------------------
\* The two instructions the classes start from.
LEMMA InsnTypes ==
  /\ Nop \in Insn /\ ZeroWord \in Insn
  BY DEF Nop, ZeroWord, Insn, Field5, Field7

\* What load_program fills, and what it leaves, are instructions.
LEMMA LoadType ==
  ASSUME NEW p \in Programs
  PROVE  Load(p) \in [0 .. ICACHE_WORDS - 1 -> Insn]
<1>1. p \in Seq(Insn) /\ Len(p) \in Nat
  BY ProgramsAssumption
<1>2. ASSUME NEW w \in 0 .. ICACHE_WORDS - 1, w < Len(p)
      PROVE  p[w + 1] \in Insn
  <2>1. w + 1 \in 1 .. Len(p)
    BY <1>1, <1>2
  <2> QED BY <1>1, <2>1, ElementOfSeq
<1> QED BY <1>2, InsnTypes DEF Load

\* The memory answers with an instruction, beyond its end too.
LEMMA WordAtType ==
  ASSUME TypeOK, NEW addr \in Nat
  PROVE  WordAt(mem, addr) \in Insn
<1>1. addr \div 4 \in Nat
  OBVIOUS
<1> QED BY <1>1, InsnTypes DEF WordAt, TypeOK

(***************************************************************************)
(* When fetch waits for an answer that is already there, it is the answer  *)
(* to the address it waits with.  If the memory ticks first, it gives a    *)
(* new one.                                                                *)
(***************************************************************************)
AnswersPc ==
  fetch.state = "REQ" /\ rvalid /\ order # "memory first" => rdata = WordAt(mem, fetch.pc)

FrontInv == TypeOK /\ order \in CallOrder /\ OffersProgram /\ AnswersPc

\* The invariant holds at the start, and every tick keeps it.
LEMMA InitFront == Init => FrontInv
<1> SUFFICES ASSUME Init PROVE FrontInv
  OBVIOUS
<1>1. TypeOK
  <2>1. mem \in [0 .. ICACHE_WORDS - 1 -> Insn]
    BY LoadType DEF Init
  <2>2. /\ rdata \in Insn /\ rvalid \in BOOLEAN
        /\ fetch \in [state : {"IDLE", "REQ", "HAVE"}, pc : 0 .. MAX_PC, instr : Insn]
    <3>1. rdata \in Insn
      BY InsnTypes DEF Init
    <3>2. rvalid \in BOOLEAN
      BY DEF Init
    <3>3. fetch = [state |-> "IDLE", pc |-> 0, instr |-> Nop]
      BY DEF Init
    <3>4. 0 \in 0 .. MAX_PC /\ Nop \in Insn
      BY InsnTypes
    <3>5. fetch \in [state : {"IDLE", "REQ", "HAVE"}, pc : 0 .. MAX_PC, instr : Insn]
      BY <3>3, <3>4
    <3> QED BY <3>1, <3>2, <3>5
  <2> QED BY <2>1, <2>2 DEF TypeOK
<1>2. OffersProgram /\ AnswersPc
  BY DEF Init, OffersProgram, AnswersPc, ValidOut
<1> QED BY <1>1, <1>2 DEF FrontInv, Init

LEMMA CycleFront ==
  ASSUME FrontInv, NEW flush \in BOOLEAN, NEW flush_pc \in 0 .. MAX_PC, NEW ready_in \in BOOLEAN,
         ~flush /\ ValidOut(fetch) /\ ready_in => fetch.pc + 4 <= MAX_PC,
         Cycle(flush, flush_pc, ready_in)
  PROVE  FrontInv'
<1> DEFINE asked == ICacheTick(ICache, ICacheEn(fetch), fetch.pc)
           c == IF order = "memory first" THEN asked ELSE ICache
           f == FetchTick(fetch, flush, flush_pc, ready_in, c)
           answer == IF order = "fetch first" THEN ICacheTick(ICache, ICacheEn(f), f.pc) ELSE asked
           Answer == [rdata : Insn, rvalid : BOOLEAN]
           Fetch == [state : {"IDLE", "REQ", "HAVE"}, pc : 0 .. MAX_PC, instr : Insn]
<1> USE DEF FrontInv
<1>1. /\ fetch' = f /\ rdata' = answer.rdata /\ rvalid' = answer.rvalid
      /\ mem' = mem /\ order' = order
  BY DEF Cycle
<1>2. fetch \in Fetch /\ rdata \in Insn /\ rvalid \in BOOLEAN
  BY DEF TypeOK
<1>3. \A en \in BOOLEAN, addr \in 0 .. MAX_PC :
        LET t == ICacheTick(ICache, en, addr)
        IN  /\ t \in Answer
            /\ t.rvalid <=> en
            /\ en => t.rdata = WordAt(mem, addr)
  <2>1. \A addr \in 0 .. MAX_PC : WordAt(mem, addr) \in Insn
    BY WordAtType
  <2> QED BY <1>2, <2>1 DEF ICacheTick, ICache
<1>4. /\ asked \in Answer /\ (asked.rvalid <=> fetch.state = "REQ")
      /\ fetch.state = "REQ" => asked.rdata = WordAt(mem, fetch.pc)
  <2>1. ICacheEn(fetch) \in BOOLEAN /\ fetch.pc \in 0 .. MAX_PC
    BY <1>2 DEF ICacheEn
  <2> QED BY <1>3, <2>1 DEF ICacheEn
<1> HIDE DEF asked
<1>5. /\ c \in Answer
      /\ fetch.state = "REQ" /\ c.rvalid => c.rdata = WordAt(mem, fetch.pc)
  BY <1>2, <1>4 DEF ICache, AnswersPc, CallOrder
<1> HIDE DEF c
<1>6. /\ f \in Fetch
      /\ f.state = "HAVE" => f.instr = WordAt(mem, f.pc)
      /\ f.state = "REQ" => f.pc = fetch.pc \/ fetch.state = "HAVE"
  <2>1. CASE flush
    <3>1. f = [fetch EXCEPT !.state = "IDLE", !.pc = flush_pc]
      BY <2>1 DEF FetchTick
    <3> HIDE DEF f
    <3> QED BY <1>2, <3>1
  <2>2. CASE ~flush /\ fetch.state = "IDLE"
    <3>1. f = [fetch EXCEPT !.state = "REQ"]
      BY <2>2 DEF FetchTick
    <3> HIDE DEF f
    <3> QED BY <1>2, <3>1
  <2>3. CASE ~flush /\ fetch.state = "REQ"
    <3>1. f = IF c.rvalid THEN [fetch EXCEPT !.instr = c.rdata, !.state = "HAVE"] ELSE fetch
      BY <2>3 DEF FetchTick
    <3> HIDE DEF f
    <3> QED BY <1>2, <1>5, <2>3, <3>1
  <2>4. CASE ~flush /\ fetch.state = "HAVE"
    <3>1. f = IF ready_in THEN [fetch EXCEPT !.pc = @ + 4, !.state = "REQ"] ELSE fetch
      BY <2>4 DEF FetchTick
    <3>2. ready_in => fetch.pc + 4 \in 0 .. MAX_PC
      BY <1>2, <2>4 DEF ValidOut
    <3>3. fetch.instr = WordAt(mem, fetch.pc)
      BY <2>4 DEF OffersProgram, ValidOut
    <3> HIDE DEF f
    <3> QED BY <1>2, <2>4, <3>1, <3>2, <3>3
  <2> QED BY <1>2, <2>1, <2>2, <2>3, <2>4
<1> HIDE DEF f
<1>7. /\ answer \in Answer
      /\ f.state = "REQ" /\ answer.rvalid /\ order # "memory first"
           => answer.rdata = WordAt(mem, f.pc)
  <2>1. CASE order = "fetch first"
    <3>1. ICacheEn(f) \in BOOLEAN /\ f.pc \in 0 .. MAX_PC
      BY <1>6 DEF ICacheEn
    <3> QED BY <1>3, <2>1, <3>1 DEF ICacheEn
  <2>2. CASE order # "fetch first"
    BY <1>4, <1>6, <2>2
  <2> QED BY <2>1, <2>2
<1> HIDE DEF answer
<1>8. TypeOK'
  BY <1>1, <1>6, <1>7 DEF TypeOK
<1>9. OffersProgram'
  BY <1>1, <1>6 DEF OffersProgram, ValidOut, WordAt
<1>10. AnswersPc'
  BY <1>1, <1>7 DEF AnswersPc, WordAt
<1> QED BY <1>1, <1>8, <1>9, <1>10

LEMMA NextFront == FrontInv /\ [Next]_vars => FrontInv'
<1> SUFFICES ASSUME FrontInv, [Next]_vars PROVE FrontInv'
  OBVIOUS
<1>1. CASE Advance
  <2>1. PICK ready_in \in BOOLEAN :
          /\ ValidOut(fetch) /\ ready_in => fetch.pc + 4 <= MAX_PC
          /\ Cycle(FALSE, 0, ready_in)
    BY <1>1 DEF Advance
  <2>2. 0 \in 0 .. MAX_PC
    OBVIOUS
  <2> QED BY <2>1, <2>2, CycleFront
<1>2. CASE Flush
  <2>1. PICK flush_pc \in FlushPcs, ready_in \in BOOLEAN : Cycle(TRUE, flush_pc, ready_in)
    BY <1>2 DEF Flush
  <2>2. flush_pc \in 0 .. MAX_PC
    BY FlushPcsAssumption
  <2> QED BY <2>1, <2>2, CycleFront
<1>3. CASE UNCHANGED vars
  BY <1>3 DEF vars, FrontInv, TypeOK, OffersProgram, AnswersPc, ValidOut, WordAt
<1> QED BY <1>1, <1>2, <1>3 DEF Next

LEMMA SpecFront == Spec => []FrontInv
  BY InitFront, NextFront, PTL DEF Spec

(***************************************************************************)
(* The memory, its answer and fetch stay in their types, and the addresses *)
(* in their bound.                                                         *)
(***************************************************************************)
THEOREM FrontTypeCorrect == Spec => []TypeOK
<1>1. FrontInv => TypeOK
  BY DEF FrontInv
<1> QED BY <1>1, SpecFront, PTL

(***************************************************************************)
(* What fetch offers is what the memory holds at that address, in each of  *)
(* the three orders of calls and whenever flushes come: an answer to a     *)
(* request from before a flush is never taken.                             *)
(***************************************************************************)
THEOREM OffersWhatIsThere == Spec => []OffersProgram
<1>1. FrontInv => OffersProgram
  BY DEF FrontInv
<1> QED BY <1>1, SpecFront, PTL
-----------------------------------------------------------------------------
(***************************************************************************)
(* The decoders.  A word is as wide as the longest immediate.              *)
(***************************************************************************)
WideEnough == XLEN >= 21

\* Extending the sign in a word and reading the word as signed is extending it
\* as an integer.
LEMMA SignExtendMeans ==
  ASSUME NEW bits \in 1 .. XLEN, NEW v \in 0 .. 2^bits - 1
  PROVE  ToSigned(SignExtend(v, bits)) = Sext(v, bits)
<1> DEFINE h == 2^(bits - 1)
           H == 2^(XLEN - 1)
<1>1. XLEN \in Nat \ {0} /\ bits - 1 \in Nat /\ XLEN - bits \in Nat
  BY DEF XLEN
<1>2. h \in Nat \ {0} /\ H \in Nat \ {0} /\ 2^(XLEN - bits) \in Nat \ {0}
  BY <1>1, PowerPositive
<1>3. 2^bits = 2 * h /\ 2^XLEN = 2 * H
  <2>1. (bits - 1) + 1 = bits /\ (XLEN - 1) + 1 = XLEN /\ XLEN - 1 \in Nat
    BY <1>1
  <2> QED BY <1>1, <2>1, PowerDouble
<1>4. h <= H
  <2> DEFINE g == 2^(XLEN - bits)
  <2>1. (bits - 1) + (XLEN - bits) = XLEN - 1
    BY <1>1
  <2>2. H = h * g
    BY <1>1, <2>1, PowerSum
  <2>3. g \in Nat \ {0}
    BY <1>2
  <2> HIDE DEF g, h, H
  <2> QED BY <1>2, <2>2, <2>3
<1> HIDE DEF h, H
<1>5. v \in 0 .. 2 * h - 1 /\ v % (2 * h) = v
  <2>1. v \in 0 .. 2 * h - 1
    BY <1>3
  <2>2. 0 * (2 * h) + v = v /\ 2 * h \in Nat \ {0}
    BY <1>2, <2>1
  <2> QED BY <2>1, <2>2, DivisionUnique
<1>6. Sext(v, bits) = IF v < h THEN v ELSE v - 2 * h
  BY <1>3, <1>5 DEF Sext, h
<1>7. SignExtend(v, bits) = IF v < h THEN v ELSE v + (2 * H - 2 * h)
  <2>1. CASE v < h
    <3>1. v = 0 * h + v /\ v \in 0 .. h - 1
      BY <1>2, <1>5, <2>1
    <3>2. v \div h = 0
      BY <1>2, <3>1, DivisionUnique
    <3>3. Bit(v, bits - 1) = 0
      <4>1. 0 % 2 = 0
        OBVIOUS
      <4> QED BY <3>2, <4>1, Zenon DEF Bit, h
    <3> QED BY <1>3, <1>5, <2>1, <3>3 DEF SignExtend
  <2>2. CASE v >= h
    <3>1. v = 1 * h + (v - h) /\ v - h \in 0 .. h - 1
      BY <1>2, <1>5, <2>2
    <3>2. v \div h = 1
      BY <1>2, <3>1, DivisionUnique
    <3>3. Bit(v, bits - 1) = 1
      <4>1. 1 % 2 = 1
        OBVIOUS
      <4> QED BY <3>2, <4>1, Zenon DEF Bit, h
    <3> QED BY <1>2, <1>3, <1>5, <2>2, <3>3 DEF SignExtend
  <2> QED BY <1>2, <1>5, <2>1, <2>2
<1>8. ToSigned(SignExtend(v, bits)) =
        IF SignExtend(v, bits) >= H THEN SignExtend(v, bits) - 2 * H ELSE SignExtend(v, bits)
  BY <1>3 DEF ToSigned, H
<1> QED BY <1>2, <1>4, <1>5, <1>6, <1>7, <1>8

\* The immediates of the two decoders.
LEMMA SameImmediates ==
  ASSUME WideEnough, NEW i \in Insn
  PROVE  /\ ToSigned(MImmI(i)) = ImmI(i) /\ ToSigned(MImmS(i)) = ImmS(i)
         /\ ToSigned(MImmB(i)) = ImmB(i) /\ ToSigned(MImmJ(i)) = ImmJ(i)
         /\ ToSigned(0) = 0
<1>1. /\ i.f7 \in 0 .. 127 /\ i.rd \in 0 .. 31 /\ i.rs1 \in 0 .. 31 /\ i.rs2 \in 0 .. 31
      /\ i.f3 \in 0 .. 7
  BY DEF Insn, Field5, Field7
<1>2. 12 \in 1 .. XLEN /\ 13 \in 1 .. XLEN /\ 21 \in 1 .. XLEN
  BY DEF WideEnough, XLEN
<1>3. i.f7 * 2^5 + i.rs2 \in 0 .. 2^12 - 1 /\ i.f7 * 2^5 + i.rd \in 0 .. 2^12 - 1
  <2>1. \A f \in 0 .. 127, r \in 0 .. 31 : f * 2^5 + r \in 0 .. 2^12 - 1
    OBVIOUS
  <2> QED BY <1>1, <2>1, Zenon
<1>4. SignBit(i) * 2^12 + (i.rd % 2) * 2^11 + (i.f7 % 64) * 2^5 + (i.rd \div 2) * 2
        \in 0 .. 2^13 - 1
  <2>1. \A f \in 0 .. 127, r \in 0 .. 31 :
          (f \div 64) * 2^12 + (r % 2) * 2^11 + (f % 64) * 2^5 + (r \div 2) * 2 \in 0 .. 2^13 - 1
    OBVIOUS
  <2> QED BY <1>1, <2>1, Zenon DEF SignBit
<1>5. SignBit(i) * 2^20 + (i.rs1 * 2^3 + i.f3) * 2^12 + (i.rs2 % 2) * 2^11
        + ((i.f7 % 64) * 2^4 + i.rs2 \div 2) * 2 \in 0 .. 2^21 - 1
  <2>1. \A f \in 0 .. 127, r \in 0 .. 31, s \in 0 .. 31, k \in 0 .. 7 :
          (f \div 64) * 2^20 + (r * 2^3 + k) * 2^12 + (s % 2) * 2^11
            + ((f % 64) * 2^4 + s \div 2) * 2 \in 0 .. 2^21 - 1
    OBVIOUS
  <2> QED BY <1>1, <2>1, Zenon DEF SignBit
<1>6. ToSigned(MImmI(i)) = ImmI(i) /\ ToSigned(MImmS(i)) = ImmS(i)
  BY <1>2, <1>3, SignExtendMeans, Zenon DEF MImmI, ImmI, MImmS, ImmS
<1>7. ToSigned(MImmB(i)) = ImmB(i)
  BY <1>2, <1>4, SignExtendMeans, Zenon DEF MImmB, ImmB
<1>8. ToSigned(MImmJ(i)) = ImmJ(i)
  BY <1>2, <1>5, SignExtendMeans, Zenon DEF MImmJ, ImmJ
<1>9. ToSigned(0) = 0
  <2>1. XLEN - 1 \in Nat
    BY DEF XLEN
  <2>2. 2^(XLEN - 1) \in Nat \ {0}
    BY <2>1, PowerPositive
  <2> QED BY <2>2 DEF ToSigned
<1> QED BY <1>6, <1>7, <1>8, <1>9

\* Two packets with the same fields, the immediate aside.
SameFields(m, d) ==
  /\ m.pc = d.pc /\ m.instr = d.instr /\ m.rs1 = d.rs1 /\ m.rs2 = d.rs2 /\ m.rd = d.rd
  /\ m.rs1_used = d.rs1_used /\ m.rs2_used = d.rs2_used /\ m.rd_used = d.rd_used
  /\ m.alu_op = d.alu_op /\ m.fu_type = d.fu_type
  /\ m.is_load = d.is_load /\ m.ls_size = d.ls_size /\ m.unsigned_load = d.unsigned_load
  /\ m.is_branch = d.is_branch /\ m.is_jump = d.is_jump

\* A packet of the front end, field by field.
FrontPkt(pc, i, src1, src2, dest, imm, imm_used, fu, op, load, store, size, uns, br, jump) ==
  [pc |-> pc, instr |-> i, rs1 |-> i.rs1, rs2 |-> i.rs2, rd |-> i.rd,
   rs1_used |-> src1, rs2_used |-> src2, rd_used |-> dest, imm |-> imm, imm_used |-> imm_used,
   fu_type |-> fu, alu_op |-> op, is_load |-> load, is_store |-> store,
   ls_size |-> size, unsigned_load |-> uns, is_branch |-> br, is_jump |-> jump]

\* The two decoders, opcode by opcode.
LEMMA DecodeSame ==
  ASSUME WideEnough, NEW pc, NEW i \in Insn, Supported(i)
  PROVE  LET m == ModelDecode(pc, i)
             d == DecodeInstr(pc, i)
         IN  /\ SameFields(m, d)
             /\ IF d.alu_op = "LUI" THEN m.imm = d.imm ELSE ToSigned(m.imm) = d.imm
<1> DEFINE m == ModelDecode(pc, i)
           d == DecodeInstr(pc, i)
           p == DecodePkt(pc, i)
           Same == /\ SameFields(m, d)
                   /\ IF d.alu_op = "LUI" THEN m.imm = d.imm ELSE ToSigned(m.imm) = d.imm
<1> SUFFICES Same
  OBVIOUS
<1> USE DEF LUI, JAL, OP_IMM, OP, LOAD, STORE, BRANCH, JALR
<1>1. /\ ToSigned(MImmI(i)) = ImmI(i) /\ ToSigned(MImmS(i)) = ImmS(i)
      /\ ToSigned(MImmB(i)) = ImmB(i) /\ ToSigned(MImmJ(i)) = ImmJ(i)
      /\ ToSigned(0) = 0
  BY SameImmediates
<1>2. p = FrontPkt(pc, i, FALSE, FALSE, FALSE, 0, FALSE, "ALU", "ADD",
                   FALSE, FALSE, "W", FALSE, FALSE, FALSE)
  BY DEF DecodePkt, FrontPkt
<1>3. d.pc = pc /\ d.instr = i /\ d.rs1 = i.rs1 /\ d.rs2 = i.rs2 /\ d.rd = i.rd
  BY DEF DecodeInstr
<1>4. /\ d.imm = ImmOf(i) /\ d.alu_op = AluOpOf(i)
      /\ d.fu_type = IF i.op \in {JAL, JALR, BRANCH} THEN "BRU"
                     ELSE IF i.op \in {LOAD, STORE} THEN "LSU" ELSE "ALU"
      /\ d.ls_size = IF i.op = LOAD /\ i.f3 # 2 THEN "B"
                     ELSE IF i.op = STORE /\ i.f3 # 2 THEN "H" ELSE "W"
  BY DEF DecodeInstr
<1> DEFINE reads1 == i.op \in {OP_IMM, OP, LOAD, STORE, BRANCH, JALR}
           reads2 == i.op \in {OP, STORE, BRANCH}
           writes == i.rd # 0 /\ i.op \in {LUI, JAL, OP_IMM, OP, LOAD, JALR}
           loads == i.op = LOAD
           unsigned == i.op = LOAD /\ i.f3 # 2
           branches == i.op = BRANCH
           jumps == i.op \in {JAL, JALR}
<1>5. /\ d.rs1_used = reads1 /\ d.rs2_used = reads2 /\ d.rd_used = writes
      /\ d.is_load = loads /\ d.unsigned_load = unsigned
      /\ d.is_branch = branches /\ d.is_jump = jumps
  BY DEF DecodeInstr
<1>6. m = ModelDecode(pc, i) /\ p = DecodePkt(pc, i)
  OBVIOUS
<1> HIDE DEF m, d, p
<1>7. CASE i.op = LUI
  <2>1. m = [p EXCEPT !.alu_op = "LUI", !.imm = ImmU(i), !.imm_used = TRUE,
                     !.rd_used = (i.rd # 0)]
    BY <1>7, <1>6 DEF ModelDecode
  <2>2. m = FrontPkt(pc, i, FALSE, FALSE, (i.rd # 0), ImmU(i), TRUE, "ALU", "LUI",
                     FALSE, FALSE, "W", FALSE, FALSE, FALSE)
    BY <1>2, <2>1 DEF FrontPkt
  <2>3. ImmOf(i) = ImmU(i) /\ AluOpOf(i) = "LUI"
    BY <1>7 DEF ImmOf, AluOpOf
  <2>4. d.fu_type = "ALU" /\ d.ls_size = "W" /\ d.imm = ImmOf(i) /\ d.alu_op = AluOpOf(i)
    BY <1>4, <1>7
  <2>5. /\ (reads1 = FALSE) /\ (reads2 = FALSE) /\ (writes = (i.rd # 0))
        /\ (loads = FALSE) /\ (unsigned = FALSE) /\ (branches = FALSE) /\ (jumps = FALSE)
    BY <1>7
  <2> HIDE DEF reads1, reads2, writes, loads, unsigned, branches, jumps
  <2>6. /\ d.rs1_used = FALSE /\ d.rs2_used = FALSE /\ d.rd_used = (i.rd # 0)
        /\ d.is_load = FALSE /\ d.unsigned_load = FALSE
        /\ d.is_branch = FALSE /\ d.is_jump = FALSE
    BY <1>5, <2>5, Zenon
  <2>7. SameFields(m, d)
    BY <1>3, <1>7, <2>2, <2>3, <2>4, <2>6 DEF SameFields, FrontPkt
  <2>8. m.imm = ImmU(i) /\ d.imm = ImmU(i) /\ d.alu_op = "LUI"
    BY <2>2, <2>3, <2>4 DEF FrontPkt
  <2> QED BY <1>1, <2>7, <2>8
<1>8. CASE i.op = JAL
  <2>1. m = [p EXCEPT !.fu_type = "BRU", !.is_jump = TRUE, !.imm = MImmJ(i), !.imm_used = TRUE,
                     !.rd_used = (i.rd # 0)]
    BY <1>8, <1>6 DEF ModelDecode
  <2>2. m = FrontPkt(pc, i, FALSE, FALSE, (i.rd # 0), MImmJ(i), TRUE, "BRU", "ADD",
                     FALSE, FALSE, "W", FALSE, FALSE, TRUE)
    BY <1>2, <2>1 DEF FrontPkt
  <2>3. ImmOf(i) = ImmJ(i) /\ AluOpOf(i) = "ADD"
    BY <1>8 DEF ImmOf, AluOpOf
  <2>4. d.fu_type = "BRU" /\ d.ls_size = "W" /\ d.imm = ImmOf(i) /\ d.alu_op = AluOpOf(i)
    BY <1>4, <1>8
  <2>5. /\ (reads1 = FALSE) /\ (reads2 = FALSE) /\ (writes = (i.rd # 0))
        /\ (loads = FALSE) /\ (unsigned = FALSE) /\ (branches = FALSE) /\ (jumps = TRUE)
    BY <1>8
  <2> HIDE DEF reads1, reads2, writes, loads, unsigned, branches, jumps
  <2>6. /\ d.rs1_used = FALSE /\ d.rs2_used = FALSE /\ d.rd_used = (i.rd # 0)
        /\ d.is_load = FALSE /\ d.unsigned_load = FALSE
        /\ d.is_branch = FALSE /\ d.is_jump = TRUE
    BY <1>5, <2>5, Zenon
  <2>7. SameFields(m, d)
    BY <1>3, <1>8, <2>2, <2>3, <2>4, <2>6 DEF SameFields, FrontPkt
  <2>8. m.imm = MImmJ(i) /\ d.imm = ImmJ(i) /\ d.alu_op # "LUI"
    BY <2>2, <2>3, <2>4 DEF FrontPkt
  <2> QED BY <1>1, <2>7, <2>8
<1>9. CASE i.op = OP_IMM
  <2>1. m = [p EXCEPT !.alu_op = ImmAluOp(i.f3), !.imm = MImmI(i), !.imm_used = TRUE,
                     !.rd_used = (i.rd # 0), !.rs1_used = TRUE]
    BY <1>9, <1>6 DEF ModelDecode
  <2>2. m = FrontPkt(pc, i, TRUE, FALSE, (i.rd # 0), MImmI(i), TRUE, "ALU", ImmAluOp(i.f3),
                     FALSE, FALSE, "W", FALSE, FALSE, FALSE)
    BY <1>2, <2>1 DEF FrontPkt
  <2>3. ImmOf(i) = ImmI(i) /\ AluOpOf(i) = OpImmOp(i.f3)
    BY <1>9 DEF ImmOf, AluOpOf
  <2>4. d.fu_type = "ALU" /\ d.ls_size = "W" /\ d.imm = ImmOf(i) /\ d.alu_op = AluOpOf(i)
    BY <1>4, <1>9
  <2>5. /\ (reads1 = TRUE) /\ (reads2 = FALSE) /\ (writes = (i.rd # 0))
        /\ (loads = FALSE) /\ (unsigned = FALSE) /\ (branches = FALSE) /\ (jumps = FALSE)
    BY <1>9
  <2> HIDE DEF reads1, reads2, writes, loads, unsigned, branches, jumps
  <2>6. /\ d.rs1_used = TRUE /\ d.rs2_used = FALSE /\ d.rd_used = (i.rd # 0)
        /\ d.is_load = FALSE /\ d.unsigned_load = FALSE
        /\ d.is_branch = FALSE /\ d.is_jump = FALSE
    BY <1>5, <2>5, Zenon
  <2>7. SameFields(m, d)
    <3>1. ImmAluOp(i.f3) = OpImmOp(i.f3)
      BY DEF ImmAluOp, OpImmOp
    <3> QED BY <1>3, <1>9, <2>2, <2>3, <2>4, <2>6, <3>1 DEF SameFields, FrontPkt
  <2>8. m.imm = MImmI(i) /\ d.imm = ImmI(i) /\ d.alu_op # "LUI"
    BY <2>2, <2>3, <2>4 DEF FrontPkt, OpImmOp
  <2> QED BY <1>1, <2>7, <2>8
<1>10. CASE i.op = OP
  <2>1. m = [p EXCEPT !.alu_op = RegAluOp(i.f3, i.f7), !.rd_used = (i.rd # 0),
                     !.rs1_used = TRUE, !.rs2_used = TRUE]
    BY <1>10, <1>6 DEF ModelDecode
  <2>2. m = FrontPkt(pc, i, TRUE, TRUE, (i.rd # 0), 0, FALSE, "ALU", RegAluOp(i.f3, i.f7),
                     FALSE, FALSE, "W", FALSE, FALSE, FALSE)
    BY <1>2, <2>1 DEF FrontPkt
  <2>3. ImmOf(i) = 0 /\ AluOpOf(i) = OpOp(i.f3, i.f7)
    BY <1>10 DEF ImmOf, AluOpOf
  <2>4. d.fu_type = "ALU" /\ d.ls_size = "W" /\ d.imm = ImmOf(i) /\ d.alu_op = AluOpOf(i)
    BY <1>4, <1>10
  <2>5. /\ (reads1 = TRUE) /\ (reads2 = TRUE) /\ (writes = (i.rd # 0))
        /\ (loads = FALSE) /\ (unsigned = FALSE) /\ (branches = FALSE) /\ (jumps = FALSE)
    BY <1>10
  <2> HIDE DEF reads1, reads2, writes, loads, unsigned, branches, jumps
  <2>6. /\ d.rs1_used = TRUE /\ d.rs2_used = TRUE /\ d.rd_used = (i.rd # 0)
        /\ d.is_load = FALSE /\ d.unsigned_load = FALSE
        /\ d.is_branch = FALSE /\ d.is_jump = FALSE
    BY <1>5, <2>5, Zenon
  <2>7. SameFields(m, d)
    BY <1>3, <1>10, <2>2, <2>3, <2>4, <2>6 DEF SameFields, FrontPkt, RegAluOp, OpOp
  <2>8. m.imm = 0 /\ d.imm = 0 /\ d.alu_op # "LUI"
    BY <2>2, <2>3, <2>4 DEF FrontPkt, OpOp
  <2> QED BY <1>1, <2>7, <2>8
<1>11. CASE i.op = LOAD
  <2>1. m = [p EXCEPT !.fu_type = "LSU", !.is_load = TRUE,
                     !.ls_size = (IF i.f3 = 4 THEN "B" ELSE "W"), !.unsigned_load = (i.f3 = 4),
                     !.imm = MImmI(i), !.imm_used = TRUE, !.rd_used = (i.rd # 0),
                     !.rs1_used = TRUE]
    BY <1>11, <1>6 DEF ModelDecode
  <2>2. m = FrontPkt(pc, i, TRUE, FALSE, (i.rd # 0), MImmI(i), TRUE, "LSU", "ADD",
                     TRUE, FALSE, (IF i.f3 = 4 THEN "B" ELSE "W"), (i.f3 = 4), FALSE, FALSE)
    BY <1>2, <2>1 DEF FrontPkt
  <2>3. ImmOf(i) = ImmI(i) /\ AluOpOf(i) = "ADD"
    BY <1>11 DEF ImmOf, AluOpOf
  <2>4. /\ d.fu_type = "LSU" /\ d.imm = ImmOf(i) /\ d.alu_op = AluOpOf(i)
        /\ d.ls_size = (IF i.f3 # 2 THEN "B" ELSE "W")
    BY <1>4, <1>11
  <2>5. /\ (reads1 = TRUE) /\ (reads2 = FALSE) /\ (writes = (i.rd # 0))
        /\ (loads = TRUE) /\ (unsigned = (i.f3 # 2)) /\ (branches = FALSE) /\ (jumps = FALSE)
    BY <1>11
  <2> HIDE DEF reads1, reads2, writes, loads, unsigned, branches, jumps
  <2>6. /\ d.rs1_used = TRUE /\ d.rs2_used = FALSE /\ d.rd_used = (i.rd # 0)
        /\ d.is_load = TRUE /\ d.unsigned_load = (i.f3 # 2)
        /\ d.is_branch = FALSE /\ d.is_jump = FALSE
    BY <1>5, <2>5, Zenon
  <2>7. SameFields(m, d)
    <3>1. i.f3 \in {2, 4}
      BY <1>11 DEF Supported
    <3>2. ((i.f3 = 4) <=> (i.f3 # 2)) /\ (i.f3 = 4 => i.f3 # 2)
      BY <3>1
    <3>3. m.unsigned_load = (i.f3 = 4) /\ m.ls_size = (IF i.f3 = 4 THEN "B" ELSE "W")
      BY <2>2 DEF FrontPkt
    <3>4. m.unsigned_load = d.unsigned_load
      BY <2>6, <3>2, <3>3, Zenon
    <3>5. m.ls_size = d.ls_size
      BY <2>4, <3>2, <3>3
    <3>6. /\ m.pc = pc /\ m.instr = i /\ m.rs1 = i.rs1 /\ m.rs2 = i.rs2 /\ m.rd = i.rd
          /\ m.rs1_used = TRUE /\ m.rs2_used = FALSE /\ m.rd_used = (i.rd # 0)
          /\ m.fu_type = "LSU" /\ m.alu_op = "ADD" /\ m.is_load = TRUE
          /\ m.is_branch = FALSE /\ m.is_jump = FALSE
      BY <2>2 DEF FrontPkt
    <3> QED BY <1>3, <2>3, <2>4, <2>6, <3>4, <3>5, <3>6 DEF SameFields
  <2>8. m.imm = MImmI(i) /\ d.imm = ImmI(i) /\ d.alu_op # "LUI"
    BY <2>2, <2>3, <2>4 DEF FrontPkt
  <2> QED BY <1>1, <2>7, <2>8
<1>12. CASE i.op = STORE
  <2>1. m = [p EXCEPT !.fu_type = "LSU", !.is_store = TRUE,
                     !.ls_size = IF i.f3 = 2 THEN "W" ELSE "H", !.imm = MImmS(i),
                     !.imm_used = TRUE, !.rs1_used = TRUE, !.rs2_used = TRUE]
    BY <1>12, <1>6 DEF ModelDecode
  <2>2. m = FrontPkt(pc, i, TRUE, TRUE, FALSE, MImmS(i), TRUE, "LSU", "ADD",
                     FALSE, TRUE, (IF i.f3 = 2 THEN "W" ELSE "H"), FALSE, FALSE, FALSE)
    BY <1>2, <2>1 DEF FrontPkt
  <2>3. ImmOf(i) = ImmS(i) /\ AluOpOf(i) = "ADD"
    BY <1>12 DEF ImmOf, AluOpOf
  <2>4. /\ d.fu_type = "LSU" /\ d.imm = ImmOf(i) /\ d.alu_op = AluOpOf(i)
        /\ d.ls_size = (IF i.f3 # 2 THEN "H" ELSE "W")
    BY <1>4, <1>12
  <2>5. /\ (reads1 = TRUE) /\ (reads2 = TRUE) /\ (writes = FALSE)
        /\ (loads = FALSE) /\ (unsigned = FALSE) /\ (branches = FALSE) /\ (jumps = FALSE)
    BY <1>12
  <2> HIDE DEF reads1, reads2, writes, loads, unsigned, branches, jumps
  <2>6. /\ d.rs1_used = TRUE /\ d.rs2_used = TRUE /\ d.rd_used = FALSE
        /\ d.is_load = FALSE /\ d.unsigned_load = FALSE
        /\ d.is_branch = FALSE /\ d.is_jump = FALSE
    BY <1>5, <2>5, Zenon
  <2>7. SameFields(m, d)
    BY <1>3, <1>12, <2>2, <2>3, <2>4, <2>6 DEF SameFields, FrontPkt
  <2>8. m.imm = MImmS(i) /\ d.imm = ImmS(i) /\ d.alu_op # "LUI"
    BY <2>2, <2>3, <2>4 DEF FrontPkt
  <2> QED BY <1>1, <2>7, <2>8
<1>13. CASE i.op = BRANCH
  <2>1. m = [p EXCEPT !.fu_type = "BRU", !.is_branch = TRUE, !.imm = MImmB(i),
                     !.imm_used = TRUE, !.rs1_used = TRUE, !.rs2_used = TRUE]
    BY <1>13, <1>6 DEF ModelDecode
  <2>2. m = FrontPkt(pc, i, TRUE, TRUE, FALSE, MImmB(i), TRUE, "BRU", "ADD",
                     FALSE, FALSE, "W", FALSE, TRUE, FALSE)
    BY <1>2, <2>1 DEF FrontPkt
  <2>3. ImmOf(i) = ImmB(i) /\ AluOpOf(i) = "ADD"
    BY <1>13 DEF ImmOf, AluOpOf
  <2>4. d.fu_type = "BRU" /\ d.ls_size = "W" /\ d.imm = ImmOf(i) /\ d.alu_op = AluOpOf(i)
    BY <1>4, <1>13
  <2>5. /\ (reads1 = TRUE) /\ (reads2 = TRUE) /\ (writes = FALSE)
        /\ (loads = FALSE) /\ (unsigned = FALSE) /\ (branches = TRUE) /\ (jumps = FALSE)
    BY <1>13
  <2> HIDE DEF reads1, reads2, writes, loads, unsigned, branches, jumps
  <2>6. /\ d.rs1_used = TRUE /\ d.rs2_used = TRUE /\ d.rd_used = FALSE
        /\ d.is_load = FALSE /\ d.unsigned_load = FALSE
        /\ d.is_branch = TRUE /\ d.is_jump = FALSE
    BY <1>5, <2>5, Zenon
  <2>7. SameFields(m, d)
    BY <1>3, <1>13, <2>2, <2>3, <2>4, <2>6 DEF SameFields, FrontPkt
  <2>8. m.imm = MImmB(i) /\ d.imm = ImmB(i) /\ d.alu_op # "LUI"
    BY <2>2, <2>3, <2>4 DEF FrontPkt
  <2> QED BY <1>1, <2>7, <2>8
<1>14. CASE i.op = JALR
  <2>1. m = [p EXCEPT !.fu_type = "BRU", !.is_jump = TRUE, !.imm = MImmI(i), !.imm_used = TRUE,
                     !.rd_used = (i.rd # 0), !.rs1_used = TRUE]
    BY <1>14, <1>6 DEF ModelDecode
  <2>2. m = FrontPkt(pc, i, TRUE, FALSE, (i.rd # 0), MImmI(i), TRUE, "BRU", "ADD",
                     FALSE, FALSE, "W", FALSE, FALSE, TRUE)
    BY <1>2, <2>1 DEF FrontPkt
  <2>3. ImmOf(i) = ImmI(i) /\ AluOpOf(i) = "ADD"
    BY <1>14 DEF ImmOf, AluOpOf
  <2>4. d.fu_type = "BRU" /\ d.ls_size = "W" /\ d.imm = ImmOf(i) /\ d.alu_op = AluOpOf(i)
    BY <1>4, <1>14
  <2>5. /\ (reads1 = TRUE) /\ (reads2 = FALSE) /\ (writes = (i.rd # 0))
        /\ (loads = FALSE) /\ (unsigned = FALSE) /\ (branches = FALSE) /\ (jumps = TRUE)
    BY <1>14
  <2> HIDE DEF reads1, reads2, writes, loads, unsigned, branches, jumps
  <2>6. /\ d.rs1_used = TRUE /\ d.rs2_used = FALSE /\ d.rd_used = (i.rd # 0)
        /\ d.is_load = FALSE /\ d.unsigned_load = FALSE
        /\ d.is_branch = FALSE /\ d.is_jump = TRUE
    BY <1>5, <2>5, Zenon
  <2>7. SameFields(m, d)
    BY <1>3, <1>14, <2>2, <2>3, <2>4, <2>6 DEF SameFields, FrontPkt
  <2>8. m.imm = MImmI(i) /\ d.imm = ImmI(i) /\ d.alu_op # "LUI"
    BY <2>2, <2>3, <2>4 DEF FrontPkt
  <2> QED BY <1>1, <2>7, <2>8
<1>15. CASE i.op \notin {LUI, JAL, OP_IMM, OP, LOAD, STORE, BRANCH, JALR}
  <2>1. m = p
    BY <1>15, <1>6 DEF ModelDecode
  <2>2. d.fu_type = "ALU" /\ d.ls_size = "W" /\ d.imm = 0 /\ d.alu_op = "ADD"
    BY <1>4, <1>15 DEF ImmOf, AluOpOf
  <2>3. /\ (reads1 = FALSE) /\ (reads2 = FALSE) /\ (writes = FALSE) /\ (loads = FALSE)
        /\ (unsigned = FALSE) /\ (branches = FALSE) /\ (jumps = FALSE)
    BY <1>15
  <2> HIDE DEF reads1, reads2, writes, loads, unsigned, branches, jumps
  <2>4. /\ d.rs1_used = FALSE /\ d.rs2_used = FALSE /\ d.rd_used = FALSE
        /\ d.is_load = FALSE /\ d.unsigned_load = FALSE
        /\ d.is_branch = FALSE /\ d.is_jump = FALSE
    BY <1>5, <2>3, Zenon
  <2>5. SameFields(m, d)
    BY <1>2, <1>3, <2>1, <2>2, <2>4 DEF SameFields, FrontPkt
  <2>6. m.imm = 0
    BY <1>2, <2>1 DEF FrontPkt
  <2> QED BY <1>1, <2>2, <2>5, <2>6
<1> QED BY <1>7, <1>8, <1>9, <1>10, <1>11, <1>12, <1>13, <1>14, <1>15
-----------------------------------------------------------------------------
(***************************************************************************)
(* What fetch offers, both Python programs decode alike: the same fields,  *)
(* and an immediate that, as a word here and as a signed integer there,    *)
(* means the same.  Of loads, those the core has (ooop_model.py,           *)
(* Decode.decode; ooop_sim.py, decode_instr).                              *)
(***************************************************************************)
THEOREM DecodersSame == WideEnough => (Spec => []DecodersAgree)
<1> SUFFICES ASSUME WideEnough PROVE Spec => []DecodersAgree
  OBVIOUS
<1>1. FrontInv => DecodersAgree
  <2> SUFFICES ASSUME FrontInv, Supported(fetch.instr)
               PROVE  SameMeaning(ModelDecode(fetch.pc, fetch.instr),
                                  DecodeInstr(fetch.pc, fetch.instr))
    BY DEF DecodersAgree
  <2>1. fetch.instr \in Insn
    BY DEF FrontInv, TypeOK
  <2> DEFINE m == ModelDecode(fetch.pc, fetch.instr)
             d == DecodeInstr(fetch.pc, fetch.instr)
  <2>2. /\ SameFields(m, d)
        /\ IF d.alu_op = "LUI" THEN m.imm = d.imm ELSE ToSigned(m.imm) = d.imm
    BY <2>1, DecodeSame
  <2>3. DOMAIN d = {"pc", "instr", "rs1", "rs2", "rd", "rs1_used", "rs2_used", "rd_used", "imm",
                    "alu_op", "fu_type", "is_load", "ls_size", "unsigned_load", "is_branch",
                    "is_jump"}
    BY DEF DecodeInstr
  <2> HIDE DEF m, d
  <2>4. \A k \in DOMAIN d \ {"imm"} : m[k] = d[k]
    BY <2>2, <2>3 DEF SameFields
  <2> QED BY <2>2, <2>4 DEF SameMeaning, m, d
<1> QED BY <1>1, SpecFront, PTL
-----------------------------------------------------------------------------
\* The final lines of the two programs, for a way a run can end.
FinalLines(file, o) == IF file = "verilog" THEN RtlFinal(o) ELSE SimFinal(o)

(***************************************************************************)
(* What has been read of an output that reached its final lines, of which  *)
(* the last Len(L) are left.  Before them nothing counts: each of the      *)
(* three overwrites what a progress line left, and of the registers it is  *)
(* the number of the register that stays.                                  *)
(***************************************************************************)
ReadSoFar(file) ==
  LET o == runs[file].outcome
      F == FinalLines(file, o)
      L == lines[file]
      r == results[file]
  IN  /\ \A k \in 1 .. Len(L) : k > Len(L) - 3 => L[k] = F[k + 3 - Len(L)]
      /\ Len(L) < 3 => r.cycles = o.cycles /\ r.commits = o.commits
      /\ Len(L) < 2 => r.a0 = X10
      /\ Len(L) < 1 => r.a1 = X11

\* The verdict is that of the dictionaries, which no longer change then.
VerdictRight ==
  \/ verdict = "none"
  \/ /\ lines["verilog"] = << >> /\ lines["python"] = << >>
     /\ verdict = IF AllMatch(results["verilog"], results["python"])
                  THEN "ALL TESTS PASSED" ELSE "MISMATCH DETECTED"

FieldSet == [name : {"cycle", "cyc", "commits", "a0", "a1", "P", "value"}, num : Nat]
Line == Seq(FieldSet)

CompareInv ==
  /\ runs \in [{"verilog", "python"} -> Run]
  /\ lines \in [{"verilog", "python"} -> Seq(Line)]
  /\ results = [file \in {"verilog", "python"} |-> results[file]]
  /\ \A file \in {"verilog", "python"} : runs[file].final => ReadSoFar(file)
  /\ VerdictRight

\* Short tuples are sequences.
LEMMA ShortSeq ==
  ASSUME NEW S, NEW a \in S, NEW b \in S, NEW c \in S
  PROVE  /\ << >> \in Seq(S) /\ Len(<< >>) = 0
         /\ <<a>> \in Seq(S) /\ Len(<<a>>) = 1
         /\ <<a, b>> \in Seq(S)
         /\ <<a, b, c>> \in Seq(S) /\ Len(<<a, b, c>>) = 3
OBVIOUS

\* The lines the programs print have two fields or three.
LEMMA FoundInTwo ==
  ASSUME NEW name, NEW default, NEW n1, NEW x1, NEW n2, NEW x2
  PROVE  Found(<<Field(n1, x1), Field(n2, x2)>>, name, default)
           = IF n1 = name THEN x1 ELSE IF n2 = name THEN x2 ELSE default
<1> DEFINE a == Field(n1, x1)
           b == Field(n2, x2)
           line == <<a, b>>
           hits == {k \in DOMAIN line : line[k].name = name}
<1>1. /\ a.name = n1 /\ a.num = x1
      /\ b.name = n2 /\ b.num = x2
  BY DEF Field
<1> HIDE DEF a, b
<1>2. DOMAIN line = 1 .. 2 /\ (\A k \in 1 .. 2 : k = 1 \/ k = 2)
        /\ line[1] = a /\ line[2] = b
  OBVIOUS
<1> HIDE DEF line
<1>3. CASE n1 = name
  <2>1. 1 \in hits /\ \A k \in hits : k \in Int /\ 1 <= k
    BY <1>1, <1>2, <1>3
  <2>2. (CHOOSE k \in hits : \A j \in hits : k <= j) = 1
    BY <2>1
  <2> QED BY <1>1, <1>2, <1>3, <2>1, <2>2 DEF Found, line, a, b
<1>4. CASE n1 # name /\ n2 = name
  <2>1. hits = {2}
    BY <1>1, <1>2, <1>4
  <2>2. (CHOOSE k \in hits : \A j \in hits : k <= j) = 2
    BY <2>1
  <2> QED BY <1>1, <1>2, <1>4, <2>1, <2>2 DEF Found, line, a, b
<1>5. CASE n1 # name /\ n2 # name
  <2>1. hits = {}
    BY <1>1, <1>2, <1>5
  <2> QED BY <1>5, <2>1 DEF Found, line, a, b
<1> QED BY <1>3, <1>4, <1>5

\* Of the three it is not the middle one that is looked for.
LEMMA FoundInThree ==
  ASSUME NEW name, NEW default, NEW n1, NEW x1, NEW n2, NEW x2, NEW n3, NEW x3,
         n2 # name
  PROVE  Found(<<Field(n1, x1), Field(n2, x2), Field(n3, x3)>>, name, default)
           = IF n1 = name THEN x1 ELSE IF n3 = name THEN x3 ELSE default
<1> DEFINE a == Field(n1, x1)
           b == Field(n2, x2)
           c == Field(n3, x3)
           line == <<a, b, c>>
           hits == {k \in DOMAIN line : line[k].name = name}
<1>1. /\ a.name = n1 /\ a.num = x1
      /\ b.name = n2 /\ b.num = x2
      /\ c.name = n3 /\ c.num = x3
  BY DEF Field
<1> HIDE DEF a, b, c
<1>2. DOMAIN line = 1 .. 3 /\ (\A k \in 1 .. 3 : k = 1 \/ k = 2 \/ k = 3)
        /\ line[1] = a /\ line[2] = b /\ line[3] = c
  OBVIOUS
<1> HIDE DEF line
<1>3. CASE n1 = name
  <2>1. 1 \in hits /\ \A k \in hits : k \in Int /\ 1 <= k
    BY <1>1, <1>2, <1>3
  <2>2. (CHOOSE k \in hits : \A j \in hits : k <= j) = 1
    BY <2>1
  <2> QED BY <1>1, <1>2, <1>3, <2>1, <2>2 DEF Found, line, a, b, c
<1>4. CASE n1 # name /\ n3 = name
  <2>1. hits = {3}
    BY <1>1, <1>2, <1>4
  <2>2. (CHOOSE k \in hits : \A j \in hits : k <= j) = 3
    BY <2>1
  <2> QED BY <1>1, <1>2, <1>4, <2>1, <2>2 DEF Found, line, a, b, c
<1>5. CASE n1 # name /\ n3 # name
  <2>1. hits = {}
    BY <1>1, <1>2, <1>5
  <2> QED BY <1>5, <2>1 DEF Found, line, a, b, c
<1> QED BY <1>3, <1>4, <1>5

\* The three final lines, as the dictionary sees them.
LEMMA FinalParsed ==
  ASSUME NEW file \in {"verilog", "python"}, NEW o \in Outcome, NEW r
  PROVE  LET F == FinalLines(file, o) IN
         /\ F \in Seq(Line) /\ Len(F) = 3
         /\ Parsed(F[1], r) = [cycles |-> o.cycles, commits |-> o.commits,
                               a0 |-> r.a0, a1 |-> r.a1]
         /\ Parsed(F[2], r) = [cycles |-> r.cycles, commits |-> r.commits,
                               a0 |-> X10, a1 |-> r.a1]
         /\ Parsed(F[3], r) = [cycles |-> r.cycles, commits |-> r.commits,
                               a0 |-> r.a0, a1 |-> X11]
<1> DEFINE F == FinalLines(file, o)
<1>1. /\ F = <<F[1], F[2], F[3]>>
      /\ F[1] = <<Field("cycle", o.cycles), Field("commits", o.commits)>>
      /\ \/ F[2] = <<Field("a0", X10), Field("value", o.a0)>>
         \/ F[2] = <<Field("a0", X10), Field("P", 40), Field("value", o.a0)>>
      /\ \/ F[3] = <<Field("a1", X11), Field("value", o.a1)>>
         \/ F[3] = <<Field("a1", X11), Field("P", 41), Field("value", o.a1)>>
  BY DEF FinalLines, RtlFinal, SimFinal
<1>2. /\ o.cycles \in Nat /\ o.commits \in Nat /\ o.a0 \in Nat /\ o.a1 \in Nat
      /\ X10 \in Nat /\ X11 \in Nat
  BY NumbersAssumption DEF Outcome, X10, X11
<1> HIDE DEF F
<1>3. F[1] \in Line /\ F[2] \in Line /\ F[3] \in Line
  <2>1. /\ Field("cycle", o.cycles) \in FieldSet
        /\ Field("commits", o.commits) \in FieldSet
        /\ Field("a0", X10) \in FieldSet
        /\ Field("a1", X11) \in FieldSet
        /\ Field("P", 40) \in FieldSet
        /\ Field("P", 41) \in FieldSet
        /\ Field("value", o.a0) \in FieldSet
        /\ Field("value", o.a1) \in FieldSet
    BY <1>2 DEF Field, FieldSet
  <2>2. /\ <<Field("cycle", o.cycles), Field("commits", o.commits)>> \in Line
        /\ <<Field("a0", X10), Field("value", o.a0)>> \in Line
        /\ <<Field("a0", X10), Field("P", 40), Field("value", o.a0)>> \in Line
        /\ <<Field("a1", X11), Field("value", o.a1)>> \in Line
        /\ <<Field("a1", X11), Field("P", 41), Field("value", o.a1)>> \in Line
    BY <2>1, ShortSeq DEF Line
  <2> QED BY <1>1, <2>2
<1>4. F \in Seq(Line) /\ Len(F) = 3
  BY <1>1, <1>3, ShortSeq
<1>5. Parsed(F[1], r) = [cycles |-> o.cycles, commits |-> o.commits, a0 |-> r.a0, a1 |-> r.a1]
  <2>1. /\ Found(F[1], "cycle", r.cycles) = o.cycles
        /\ Found(F[1], "commits", r.commits) = o.commits
        /\ Found(F[1], "a0", r.a0) = r.a0 /\ Found(F[1], "a1", r.a1) = r.a1
    BY <1>1, FoundInTwo, FoundInThree
  <2> QED BY <2>1 DEF Parsed
<1>6. Parsed(F[2], r) = [cycles |-> r.cycles, commits |-> r.commits, a0 |-> X10, a1 |-> r.a1]
  <2>1. /\ Found(F[2], "cycle", r.cycles) = r.cycles
        /\ Found(F[2], "commits", r.commits) = r.commits
        /\ Found(F[2], "a0", r.a0) = X10 /\ Found(F[2], "a1", r.a1) = r.a1
    BY <1>1, FoundInTwo, FoundInThree
  <2> QED BY <2>1 DEF Parsed
<1>7. Parsed(F[3], r) = [cycles |-> r.cycles, commits |-> r.commits, a0 |-> r.a0, a1 |-> X11]
  <2>1. /\ Found(F[3], "cycle", r.cycles) = r.cycles
        /\ Found(F[3], "commits", r.commits) = r.commits
        /\ Found(F[3], "a0", r.a0) = r.a0 /\ Found(F[3], "a1", r.a1) = X11
    BY <1>1, FoundInTwo, FoundInThree
  <2> QED BY <2>1 DEF Parsed
<1> QED BY <1>4, <1>5, <1>6, <1>7 DEF F

\* An output that reached its final lines ends with them, after at most one
\* line of progress.
LEMMA InitCompare == CompareInit => CompareInv
<1> SUFFICES ASSUME CompareInit PROVE CompareInv
  OBVIOUS
<1>1. ASSUME NEW file \in {"verilog", "python"}
      PROVE  lines[file] \in Seq(Line) /\ (runs[file].final => ReadSoFar(file))
  <2> DEFINE o == runs[file].outcome
             F == FinalLines(file, o)
             before == IF runs[file].progress
                       THEN IF file = "verilog" THEN RtlProgress(o) ELSE SimProgress(o)
                       ELSE << >>
             after == IF runs[file].final THEN F ELSE << >>
  <2>1. lines[file] = before \o after
    <3>1. CASE file = "verilog"
      BY <3>1 DEF CompareInit, Output, FinalLines
    <3>2. CASE file = "python"
      BY <3>2 DEF CompareInit, Output, FinalLines
    <3> QED BY <3>1, <3>2
  <2>2. o \in Outcome
    BY DEF CompareInit, Run
  <2>3. F \in Seq(Line) /\ Len(F) = 3
    BY <2>2, FinalParsed
  <2>4. before \in Seq(Line) /\ Len(before) \in 0 .. 1
    <3>1. o.cycles \in Nat \ {0} /\ o.commits \in Nat
      BY <2>2, NumbersAssumption DEF Outcome
    <3>2. o.cycles - 1 \in Nat
      BY <3>1
    <3>3. /\ Field("cycle", o.cycles - 1) \in FieldSet /\ Field("cyc", o.cycles - 1) \in FieldSet
          /\ Field("commits", o.commits) \in FieldSet
      BY <3>1, <3>2 DEF Field, FieldSet
    <3>4. /\ <<Field("cycle", o.cycles - 1), Field("commits", o.commits)>> \in Line
          /\ <<Field("cyc", o.cycles - 1), Field("commits", o.commits)>> \in Line
      BY <3>3, ShortSeq DEF Line
    <3>5. RtlProgress(o) \in Seq(Line) /\ Len(RtlProgress(o)) = 1
      BY <3>4, ShortSeq DEF RtlProgress
    <3>6. SimProgress(o) \in Seq(Line) /\ Len(SimProgress(o)) = 1
      BY <3>4, ShortSeq DEF SimProgress
    <3>7. << >> \in Seq(Line) /\ Len(<< >>) = 0
      OBVIOUS
    <3> QED BY <3>5, <3>6, <3>7
  <2>5. after \in Seq(Line) /\ (runs[file].final => after = F)
    BY <2>3
  <2> HIDE DEF before, after, F
  <2>6. /\ lines[file] \in Seq(Line)
        /\ Len(lines[file]) = Len(before) + Len(after)
        /\ \A k \in 1 .. Len(before) + Len(after) :
             lines[file][k] = IF k <= Len(before) THEN before[k] ELSE after[k - Len(before)]
    BY <2>1, <2>4, <2>5, ConcatProperties
  <2>7. ASSUME runs[file].final PROVE ReadSoFar(file)
    <3>1. after = F /\ Len(after) = 3 /\ Len(before) \in Nat
      BY <2>3, <2>4, <2>5, <2>7
    <3>2. \A k \in 1 .. Len(lines[file]) : k > Len(lines[file]) - 3 =>
            lines[file][k] = F[k + 3 - Len(lines[file])]
      <4> SUFFICES ASSUME NEW k \in 1 .. Len(lines[file]), k > Len(lines[file]) - 3
                   PROVE  lines[file][k] = F[k + 3 - Len(lines[file])]
        OBVIOUS
      <4>1. ~(k <= Len(before)) /\ k + 3 - Len(lines[file]) = k - Len(before)
        BY <2>6, <3>1
      <4> QED BY <2>6, <3>1, <4>1
    <3> QED BY <2>6, <3>1, <3>2 DEF ReadSoFar, F
  <2> QED BY <2>6, <2>7
<1>2. /\ runs \in [{"verilog", "python"} -> Run]
      /\ lines \in [{"verilog", "python"} -> Seq(Line)]
      /\ results = [file \in {"verilog", "python"} |-> results[file]]
  BY <1>1 DEF CompareInit
<1> QED BY <1>1, <1>2 DEF CompareInit, CompareInv, VerdictRight

\* Reading a line, and comparing, keep the invariant.
LEMMA NextCompare == CompareInv /\ [CompareNext]_compareVars => CompareInv'
<1> SUFFICES ASSUME CompareInv, [CompareNext]_compareVars PROVE CompareInv'
  OBVIOUS
<1>1. ASSUME NEW file \in {"verilog", "python"}, ParseLine(file) PROVE CompareInv'
  <2> DEFINE L == lines[file]
  <2>1. /\ runs' = runs /\ verdict' = verdict /\ L # << >>
        /\ lines' = [lines EXCEPT ![file] = Tail(L)]
        /\ results' = [results EXCEPT ![file] = Parsed(Head(L), results[file])]
    BY <1>1 DEF ParseLine
  <2>2. /\ L \in Seq(Line) /\ Tail(L) \in Seq(Line) /\ Head(L) = L[1]
        /\ Len(L) \in Nat \ {0} /\ Len(Tail(L)) = Len(L) - 1
        /\ \A k \in 1 .. Len(L) - 1 : Tail(L)[k] = L[k + 1]
    BY <2>1, HeadTailProperties, EmptySeq DEF CompareInv
  <2>3. /\ lines' \in [{"verilog", "python"} -> Seq(Line)] /\ lines'[file] = Tail(L)
        /\ results' = [f \in {"verilog", "python"} |-> results'[f]]
        /\ results'[file] = Parsed(Head(L), results[file])
        /\ \A other \in {"verilog", "python"} \ {file} :
             lines'[other] = lines[other] /\ results'[other] = results[other]
    BY <2>1, <2>2 DEF CompareInv
  <2>4. ASSUME NEW other \in {"verilog", "python"}, runs'[other].final
        PROVE  ReadSoFar(other)'
    <3>1. CASE other # file
      <4>1. /\ ReadSoFar(other) /\ runs'[other] = runs[other]
            /\ lines'[other] = lines[other] /\ results'[other] = results[other]
        BY <2>1, <2>3, <2>4, <3>1 DEF CompareInv
      <4> QED BY <4>1 DEF ReadSoFar
    <3>2. CASE other = file
      <4> DEFINE o == runs[file].outcome
                 F == FinalLines(file, o)
                 r == results[file]
                 r1 == results'[file]
      <4>1. o \in Outcome /\ ReadSoFar(file)
        BY <2>1, <2>4, <3>2 DEF CompareInv, Run
      <4>2. /\ Parsed(F[1], r).cycles = o.cycles /\ Parsed(F[1], r).commits = o.commits
            /\ Parsed(F[2], r).cycles = r.cycles /\ Parsed(F[2], r).commits = r.commits
            /\ Parsed(F[2], r).a0 = X10
            /\ Parsed(F[3], r).cycles = r.cycles /\ Parsed(F[3], r).commits = r.commits
            /\ Parsed(F[3], r).a0 = r.a0 /\ Parsed(F[3], r).a1 = X11
        <5>1. /\ Parsed(F[1], r) = [cycles |-> o.cycles, commits |-> o.commits,
                                   a0 |-> r.a0, a1 |-> r.a1]
              /\ Parsed(F[2], r) = [cycles |-> r.cycles, commits |-> r.commits,
                                   a0 |-> X10, a1 |-> r.a1]
              /\ Parsed(F[3], r) = [cycles |-> r.cycles, commits |-> r.commits,
                                   a0 |-> r.a0, a1 |-> X11]
          <6> HIDE DEF r, o
          <6> QED BY <4>1, FinalParsed
        <5> HIDE DEF r, o, F
        <5> QED BY <5>1
      <4> HIDE DEF F, r, L, o
      <4>3. /\ \A k \in 1 .. Len(L) : k > Len(L) - 3 => L[k] = F[k + 3 - Len(L)]
            /\ Len(L) < 3 => r.cycles = o.cycles /\ r.commits = o.commits
            /\ Len(L) < 2 => r.a0 = X10
        BY <4>1 DEF ReadSoFar, F, r, L, o
      <4>4. \A k \in 1 .. Len(L) - 1 : k > (Len(L) - 1) - 3 => Tail(L)[k] = F[k + 3 - (Len(L) - 1)]
        <5> SUFFICES ASSUME NEW k \in 1 .. Len(L) - 1, k > (Len(L) - 1) - 3
                     PROVE  Tail(L)[k] = F[k + 3 - (Len(L) - 1)]
          OBVIOUS
        <5>1. k + 1 \in 1 .. Len(L) /\ k + 1 > Len(L) - 3
                /\ (k + 1) + 3 - Len(L) = k + 3 - (Len(L) - 1)
          BY <2>2
        <5> QED BY <2>2, <4>3, <5>1
      <4>5. r1 = Parsed(L[1], r)
        BY <2>2, <2>3 DEF r, L
      <4>6. /\ Len(L) = 3 => L[1] = F[1]
            /\ Len(L) = 2 => L[1] = F[2]
            /\ Len(L) = 1 => L[1] = F[3]
        <5>1. 1 \in 1 .. Len(L)
          BY <2>2
        <5>2. 1 > Len(L) - 3 => L[1] = F[1 + 3 - Len(L)]
          BY <4>3, <5>1
        <5>3. ASSUME Len(L) = 3 PROVE L[1] = F[1]
          BY <5>2, <5>3
        <5>4. ASSUME Len(L) = 2 PROVE L[1] = F[2]
          BY <5>2, <5>4
        <5>5. ASSUME Len(L) = 1 PROVE L[1] = F[3]
          BY <5>2, <5>5
        <5> QED BY <5>3, <5>4, <5>5
      <4>7. /\ Len(L) - 1 < 3 => r1.cycles = o.cycles /\ r1.commits = o.commits
            /\ Len(L) - 1 < 2 => r1.a0 = X10
            /\ Len(L) - 1 < 1 => r1.a1 = X11
        <5>1. CASE Len(L) = 3
          BY <4>2, <4>5, <4>6, <5>1
        <5>2. CASE Len(L) = 2
          BY <4>2, <4>3, <4>5, <4>6, <5>2
        <5>3. CASE Len(L) = 1
          BY <4>2, <4>3, <4>5, <4>6, <5>3
        <5>4. CASE Len(L) > 3
          BY <2>2, <5>4
        <5> QED BY <2>2, <5>1, <5>2, <5>3, <5>4
      <4>8. F' = F /\ o' = o /\ L' = Tail(L) /\ Len(L') = Len(L) - 1 /\ r' = r1
        BY <2>1, <2>2, <2>3 DEF F, o, L, r
      <4> QED BY <3>2, <4>4, <4>7, <4>8 DEF ReadSoFar, F, o, L, r
    <3> QED BY <3>1, <3>2
  <2>5. verdict = "none"
    BY <1>1, <2>1 DEF VerdictRight, CompareInv
  <2> QED BY <2>1, <2>3, <2>4, <2>5 DEF CompareInv, VerdictRight
<1>2. CASE Compare
  <2>1. VerdictRight'
    BY <1>2 DEF Compare, VerdictRight
  <2>2. /\ runs' = runs /\ lines' = lines /\ results' = results
    BY <1>2 DEF Compare
  <2> QED BY <2>1, <2>2 DEF CompareInv, ReadSoFar
<1>3. CASE UNCHANGED compareVars
  BY <1>3 DEF compareVars, CompareInv, ReadSoFar, VerdictRight
<1> QED BY <1>1, <1>2, <1>3 DEF CompareNext

\* When nothing is left to read, the counts are those of the end.
LEMMA AllRead ==
  ASSUME NEW file, ReadSoFar(file), lines[file] = << >>
  PROVE  /\ results[file].cycles = runs[file].outcome.cycles
         /\ results[file].commits = runs[file].outcome.commits
         /\ results[file].a0 = X10 /\ results[file].a1 = X11
<1>1. Len(lines[file]) = 0
  BY ShortSeq
<1>2. Len(lines[file]) < 3 /\ Len(lines[file]) < 2 /\ Len(lines[file]) < 1
  BY <1>1
<1> QED BY <1>2 DEF ReadSoFar

\* The invariant holds in every reachable state.
LEMMA SpecCompare == CompareSpec => []CompareInv
BY InitCompare, NextCompare, PTL DEF CompareSpec

(***************************************************************************)
(* Whatever the numbers are, "ALL TESTS PASSED" means that the two runs    *)
(* ended with the same number of cycles and of commits.                    *)
(***************************************************************************)
THEOREM CountsAreCompared == CompareSpec => []CountsCompared
<1>1. CompareInv => CountsCompared
  <2> SUFFICES ASSUME CompareInv, Passed, BothEnded
               PROVE  V.cycles = P.cycles /\ V.commits = P.commits
    BY DEF CountsCompared
  <2>1. /\ lines["verilog"] = << >> /\ lines["python"] = << >>
        /\ AllMatch(results["verilog"], results["python"])
    BY DEF CompareInv, VerdictRight, Passed
  <2>2. ReadSoFar("verilog") /\ ReadSoFar("python")
    BY DEF CompareInv, BothEnded
  <2>3. /\ results["verilog"].cycles = V.cycles /\ results["verilog"].commits = V.commits
        /\ results["verilog"].a0 = X10 /\ results["verilog"].a1 = X11
        /\ results["python"].cycles = P.cycles /\ results["python"].commits = P.commits
        /\ results["python"].a0 = X10 /\ results["python"].a1 = X11
    BY <2>1, <2>2, AllRead DEF V, P
  <2> QED BY <2>1, <2>3 DEF AllMatch
<1> QED BY <1>1, SpecCompare, PTL

(***************************************************************************)
(* Two runs that end alike are never reported as a mismatch: a progress    *)
(* line, or the other wording of the other program, leaves nothing behind. *)
(***************************************************************************)
THEOREM NeverFalseAlarm == CompareSpec => []NoFalseAlarm
<1>1. CompareInv => NoFalseAlarm
  <2> SUFFICES ASSUME CompareInv, BothEnded, V = P, verdict = "MISMATCH DETECTED"
               PROVE  FALSE
    BY DEF NoFalseAlarm
  <2>1. /\ lines["verilog"] = << >> /\ lines["python"] = << >>
        /\ ~AllMatch(results["verilog"], results["python"])
    BY DEF CompareInv, VerdictRight
  <2>2. ReadSoFar("verilog") /\ ReadSoFar("python")
    BY DEF CompareInv, BothEnded
  <2>3. /\ results["verilog"].cycles = V.cycles /\ results["verilog"].commits = V.commits
        /\ results["verilog"].a0 = X10 /\ results["verilog"].a1 = X11
        /\ results["python"].cycles = P.cycles /\ results["python"].commits = P.commits
        /\ results["python"].a0 = X10 /\ results["python"].a1 = X11
    BY <2>1, <2>2, AllRead DEF V, P
  <2> QED BY <2>1, <2>3 DEF AllMatch
<1> QED BY <1>1, SpecCompare, PTL
=============================================================================
