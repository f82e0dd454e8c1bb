------------------------------- MODULE RtlUnits -----------------------------
(***************************************************************************)
(* The ALU and the branch unit of verilog/ (alu_fu.sv, branch_fu.sv) next  *)
(* to those of the simulator of ooop_sim.py, on the instructions it        *)
(* fetches: d is the packet of an instruction, the words x and y are its   *)
(* operands.                                                               *)
(***************************************************************************)
EXTENDS OoopSim

CONSTANT Operands   \* what the registers of the simulator may hold

ASSUME OperandsAssumption == Operands \subseteq Int

\* decode.sv: imm_used, for the opcodes that go to the ALU.
ImmUsed(i) == i.op \in {LUI, OP_IMM}

\* alu_fu.sv, for the operations decode.sv selects.
RtlAlu(d, x, y) ==
  LET op_b == IF ImmUsed(d.instr) THEN U32(d.imm) ELSE y
  IN  CASE d.alu_op = "ADD"   -> U32(x + op_b)
        [] d.alu_op = "SUB"   -> U32(x - op_b)
        [] d.alu_op = "AND"   -> And(x, op_b)
        [] d.alu_op = "OR"    -> Or(x, op_b)
        [] d.alu_op = "SRA"   -> U32(S32(x) \div 2^(op_b % XLEN))
        [] d.alu_op = "SLTIU" -> IF x < op_b THEN 1 ELSE 0
        [] d.alu_op = "LUI"   -> op_b

\* branch_fu.sv: actual_taken and target_pc.
RtlTaken(d, x, y) ==
  \/ d.is_jump
  \/ /\ d.is_branch
     /\ CASE d.instr.f3 = 0 -> x = y
          [] d.instr.f3 = 1 -> x # y
          [] d.instr.f3 = 4 -> S32(x) < S32(y)
          [] d.instr.f3 = 5 -> S32(x) >= S32(y)
          [] d.instr.f3 = 6 -> x < y
          [] d.instr.f3 = 7 -> x >= y
          [] OTHER -> FALSE

RtlTarget(d, x) ==
  IF d.instr.op = JALR THEN LET t == U32(x + U32(d.imm)) IN t - (t % 2)
                      ELSE U32(d.pc + U32(d.imm))
-----------------------------------------------------------------------------
(***************************************************************************)
(* What is decoded is executed alike by the simulator and the core.  The   *)
(* operands are Python integers there and their words here; x0 reads as 0. *)
(***************************************************************************)
ForOperands(P(_, _, _)) ==
  fetch.state = "HAVE" =>
    \A a, b \in Operands :
      P(DecodeInstr(fetch.pc, fetch.instr), IF fetch.instr.rs1 = 0 THEN 0 ELSE a,
        IF fetch.instr.rs2 = 0 THEN 0 ELSE b)

IsWord(v) == v \in 0 .. 2^XLEN - 1

(***************************************************************************)
(* The two ALUs agree on the word a result stands for, whatever integers   *)
(* stand for the words of the operands: a negative immediate, which the    *)
(* core cuts to a word and the simulator does not, only leaves a negative  *)
(* number in place of its word.  An immediate of 0, which the simulator    *)
(* takes for none, makes it use rs2, which then is x0.  Comparison (SLTIU) *)
(* is the exception (_alu_exec, alu_fu.sv).                                *)
(***************************************************************************)
SameWord ==
  ForOperands(LAMBDA d, a, b :
    d.fu_type = "ALU" /\ d.alu_op # "SLTIU"
      => U32(AluExec(d, a, b)) = RtlAlu(d, U32(a), U32(b)))

(***************************************************************************)
(* As long as registers hold words, SLTIU with an immediate that is not    *)
(* negative and all branches decide alike; and jumps and branches lead to  *)
(* the same address (_alu_exec, _bru_exec, branch_fu.sv).                  *)
(***************************************************************************)
SameDecision ==
  ForOperands(LAMBDA d, a, b :
    /\ d.alu_op = "SLTIU" /\ IsWord(a) /\ d.imm >= 0
         => AluExec(d, a, b) = RtlAlu(d, a, U32(b))
    /\ d.fu_type = "BRU" =>
         /\ IsWord(a) /\ IsWord(b) => BruTaken(d, a, b) = RtlTaken(d, a, b)
         /\ BruTarget(d, a) = RtlTarget(d, U32(a)))
=============================================================================
