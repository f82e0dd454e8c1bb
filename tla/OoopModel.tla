------------------------------ MODULE OoopModel -----------------------------
(***************************************************************************)
(* python_model/ooop_model.py: classes for instruction memory, fetch and   *)
(* decode, the front end of a model whose second part is not there.        *)
(*                                                                         *)
(* So is the caller.  It is the environment here: it flushes and is ready  *)
(* when it likes, and ticks the two classes in one of three orders (the    *)
(* memory first, as ooop_sim.py does; fetch first; or fetch first with the *)
(* memory seeing the request from before, as registers on a clock edge).   *)
(***************************************************************************)
EXTENDS SimUnits, Sequences

CONSTANTS ICACHE_WORDS,   \* depth, 512
          Programs,       \* the program files, as the instructions in them
          FlushPcs,       \* where the caller redirects fetch to
          MAX_PC          \* bound on the addresses delivered

ASSUME DepthAssumption == ICACHE_WORDS \in Nat \ {0} /\ MAX_PC \in Nat

ASSUME ProgramsAssumption ==
  \A p \in Programs : p \in Seq(Insn) /\ Len(p) <= ICACHE_WORDS

ASSUME FlushPcsAssumption == FlushPcs \subseteq 0 .. MAX_PC

VARIABLES
  mem,      \* ICache: mem, rdata and rvalid
  rdata,
  rvalid,
  fetch,    \* the fields of Fetch
  order,    \* the caller's order
  flushed   \* history: the last tick flushed

vars == <<mem, rdata, rvalid, fetch, order, flushed>>

CallOrder == {"memory first", "fetch first", "clock edge"}

\* load_program.
Load(p) == [w \in 0 .. ICACHE_WORDS - 1 |-> IF w < Len(p) THEN p[w + 1] ELSE Nop]

\* rdata before the first answer: all bits 0.
ZeroWord == [Nop EXCEPT !.op = 0]

Init ==
  /\ mem \in {Load(p) : p \in Programs}
  /\ rdata = ZeroWord /\ rvalid = FALSE
  /\ fetch = [state |-> "IDLE", pc |-> 0, instr |-> Nop]
  /\ order \in CallOrder
  /\ flushed = FALSE
-----------------------------------------------------------------------------
\* What the memory holds at an address.
WordAt(m, addr) == IF addr \div 4 < ICACHE_WORDS THEN m[addr \div 4] ELSE Nop

\* Mutant of ICacheTick: no answer beyond the memory.
ICacheTickMute(c, en, addr) ==
  IF en /\ addr \div 4 < ICACHE_WORDS
  THEN [rdata |-> WordAt(mem, addr), rvalid |-> TRUE] ELSE [c EXCEPT !.rvalid = FALSE]

\* ICache.tick.
ICacheTick(c, en, addr) ==
  IF en THEN [rdata |-> WordAt(mem, addr), rvalid |-> TRUE]
        ELSE [c EXCEPT !.rvalid = FALSE]

\* Mutant of FetchTick: a flush lets the fetched instruction stand.
FetchTickKeeps(f, flush, flush_pc, ready_in, c) ==
  CASE flush -> [f EXCEPT !.pc = flush_pc]
    [] ~flush /\ f.state = "IDLE" -> [f EXCEPT !.state = "REQ"]
    [] ~flush /\ f.state = "REQ" ->
         IF c.rvalid THEN [f EXCEPT !.instr = c.rdata, !.state = "HAVE"] ELSE f
    [] ~flush /\ f.state = "HAVE" ->
         IF ready_in THEN [f EXCEPT !.pc = @ + 4, !.state = "REQ"] ELSE f

\* Mutant of FetchTick: the pc moves on before the instruction is taken.
FetchTickUnready(f, flush, flush_pc, ready_in, c) ==
  CASE flush -> [f EXCEPT !.state = "IDLE", !.pc = flush_pc]
    [] ~flush /\ f.state = "IDLE" -> [f EXCEPT !.state = "REQ"]
    [] ~flush /\ f.state = "REQ" ->
         IF c.rvalid THEN [f EXCEPT !.instr = c.rdata, !.state = "HAVE"] ELSE f
    [] ~flush /\ f.state = "HAVE" ->
         [f EXCEPT !.pc = @ + 4, !.state = IF ready_in THEN "REQ" ELSE @]

\* Fetch.tick.
FetchTick(f, flush, flush_pc, ready_in, c) ==
  CASE flush -> [f EXCEPT !.state = "IDLE", !.pc = flush_pc]
    [] ~flush /\ f.state = "IDLE" -> [f EXCEPT !.state = "REQ"]
    [] ~flush /\ f.state = "REQ" ->
         IF c.rvalid THEN [f EXCEPT !.instr = c.rdata, !.state = "HAVE"] ELSE f
    [] ~flush /\ f.state = "HAVE" ->
         IF ready_in THEN [f EXCEPT !.pc = @ + 4, !.state = "REQ"] ELSE f

\* get_valid_out and get_icache_en.
ValidOut(f) == f.state = "HAVE"
ICacheEn(f) == f.state = "REQ"

ICache == [rdata |-> rdata, rvalid |-> rvalid]

\* The two ticks of a cycle.
Cycle(flush, flush_pc, ready_in) ==
  LET asked == ICacheTick(ICache, ICacheEn(fetch), fetch.pc)
      c == IF order = "memory first" THEN asked ELSE ICache
      f == FetchTick(fetch, flush, flush_pc, ready_in, c)
      answer == IF order = "fetch first" THEN ICacheTick(ICache, ICacheEn(f), f.pc) ELSE asked
  IN  /\ fetch' = f
      /\ rdata' = answer.rdata /\ rvalid' = answer.rvalid
      /\ flushed' = flush
      /\ UNCHANGED <<mem, order>>

Advance == \E ready_in \in BOOLEAN :
  /\ ValidOut(fetch) /\ ready_in => fetch.pc + 4 <= MAX_PC
  /\ Cycle(FALSE, 0, ready_in)

Flush == \E flush_pc \in FlushPcs, ready_in \in BOOLEAN : Cycle(TRUE, flush_pc, ready_in)

Next == Advance \/ Flush

\* The caller keeps ticking, and does not flush in every tick.
Spec == Init /\ [][Next]_vars /\ WF_vars(Advance)
-----------------------------------------------------------------------------
(***************************************************************************)
(* Words: to_signed, to_unsigned and sign_extend.                          *)
(***************************************************************************)
ToSigned(value) == IF value >= 2^(XLEN - 1) THEN value - 2^XLEN ELSE value

\* Mutant of SignExtend: the sign is not looked at.
SignExtendZero(value, bits) == value % 2^bits

\* The value has no bits beyond its sign.
SignExtend(value, bits) ==
  IF Bit(value, bits - 1) = 1 THEN value + (2^XLEN - 2^bits) ELSE value % 2^bits

\* Decode.decode, the immediates.
MImmI(i) == SignExtend(i.f7 * 2^5 + i.rs2, 12)
MImmS(i) == SignExtend(i.f7 * 2^5 + i.rd, 12)
MImmB(i) == SignExtend(SignBit(i) * 2^12 + (i.rd % 2) * 2^11 + (i.f7 % 64) * 2^5
                         + (i.rd \div 2) * 2, 13)
MImmJ(i) == SignExtend(SignBit(i) * 2^20 + (i.rs1 * 2^3 + i.f3) * 2^12
                         + (i.rs2 % 2) * 2^11 + ((i.f7 % 64) * 2^4 + i.rs2 \div 2) * 2, 21)

DecodePkt(pc, i) ==
  [pc |-> pc, instr |-> i, rs1 |-> i.rs1, rs2 |-> i.rs2, rd |-> i.rd,
   rs1_used |-> FALSE, rs2_used |-> FALSE, rd_used |-> FALSE, imm |-> 0, imm_used |-> FALSE,
   fu_type |-> "ALU", alu_op |-> "ADD", is_load |-> FALSE, is_store |-> FALSE,
   ls_size |-> "W", unsigned_load |-> FALSE, is_branch |-> FALSE, is_jump |-> FALSE]

\* The operation of an OP-IMM and of an OP instruction; the default, ADD, unless named.
ImmAluOp(f3) == CASE f3 = 6 -> "OR" [] f3 = 7 -> "AND" [] f3 = 3 -> "SLTIU"
                  [] f3 = 5 -> "SRA" [] OTHER -> "ADD"
RegAluOp(f3, f7) == CASE f3 = 0 /\ f7 = 32 -> "SUB" [] f3 = 7 -> "AND" [] f3 = 6 -> "OR"
                      [] f3 = 5 -> "SRA" [] OTHER -> "ADD"

ModelDecode(pc, i) ==
  LET p == DecodePkt(pc, i)
      imm(q, val) == [q EXCEPT !.imm = val, !.imm_used = TRUE]
      dest(q) == [q EXCEPT !.rd_used = (i.rd # 0)]
      src1(q) == [q EXCEPT !.rs1_used = TRUE]
      src2(q) == [src1(q) EXCEPT !.rs2_used = TRUE]
      bru(q) == [q EXCEPT !.fu_type = "BRU"]
      lsu(q) == [q EXCEPT !.fu_type = "LSU"]
  IN  CASE i.op = 55 -> dest(imm([p EXCEPT !.alu_op = "LUI"], ImmU(i)))
        [] i.op = 111 -> dest(imm([bru(p) EXCEPT !.is_jump = TRUE], MImmJ(i)))
        [] i.op = 19 -> src1(dest(imm([p EXCEPT !.alu_op = ImmAluOp(i.f3)], MImmI(i))))
        [] i.op = 51 -> src2(dest([p EXCEPT !.alu_op = RegAluOp(i.f3, i.f7)]))
        [] i.op = 3 -> src1(dest(imm([lsu(p) EXCEPT
                         !.is_load = TRUE,
                         !.ls_size = IF i.f3 = 4 THEN "B" ELSE "W",
                         !.unsigned_load = (i.f3 = 4)], MImmI(i))))
        [] i.op = 35 -> src2(imm([lsu(p) EXCEPT
                          !.is_store = TRUE,
                          !.ls_size = IF i.f3 = 2 THEN "W" ELSE "H"], MImmS(i)))
        [] i.op = 99 -> src2(imm([bru(p) EXCEPT !.is_branch = TRUE], MImmB(i)))
        [] i.op = 103 -> src1(dest(imm([bru(p) EXCEPT !.is_jump = TRUE], MImmI(i))))
        [] OTHER -> p
-----------------------------------------------------------------------------
TypeOK ==
  /\ mem \in [0 .. ICACHE_WORDS - 1 -> Insn]
  /\ rdata \in Insn /\ rvalid \in BOOLEAN
  /\ fetch \in [state : {"IDLE", "REQ", "HAVE"}, pc : 0 .. MAX_PC, instr : Insn]

(***************************************************************************)
(* What fetch offers is what the memory holds at the address offered with  *)
(* it, whenever flushes come: no answer to a request from before a flush   *)
(* is taken for the new one (Fetch.tick, ICache.tick).                     *)
(***************************************************************************)
OffersProgram == ValidOut(fetch) => fetch.instr = WordAt(mem, fetch.pc)

(***************************************************************************)
(* Fetch gets to the next instruction unless it is flushed again: a        *)
(* request is always answered, beyond the memory too (ICache.tick).        *)
(***************************************************************************)
Fetches == ~ValidOut(fetch) ~> ValidOut(fetch) \/ flushed

(***************************************************************************)
(* Both Python programs decode what fetch offers alike: the immediates,    *)
(* words here and signed integers there, mean the same.  They differ in    *)
(* loads the core does not have (lb, lh, lhu).                             *)
(***************************************************************************)
Supported(i) == i.op = 3 => i.f3 \in {2, 4}

SameMeaning(m, d) ==
  /\ \A k \in DOMAIN d \ {"imm"} : m[k] = d[k]
  /\ IF d.alu_op = "LUI" THEN m.imm = d.imm ELSE ToSigned(m.imm) = d.imm

DecodersAgree ==
  ValidOut(fetch) /\ Supported(fetch.instr) =>
    SameMeaning(ModelDecode(fetch.pc, fetch.instr), DecodeInstr(fetch.pc, fetch.instr))
=============================================================================
