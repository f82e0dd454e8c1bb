------------------------------- MODULE Decode -------------------------------
(***************************************************************************)
(* verilog/decode.sv: one instruction to one decode_pkt_t.  The stage has  *)
(* no state and passes valid and ready through.                            *)
(***************************************************************************)
EXTENDS Datapath

DecodePkt ==
  [pc : Pc, rs1 : Areg, rs2 : Areg, rd : Areg,
   rd_used : BOOLEAN, rs1_used : BOOLEAN, rs2_used : BOOLEAN,
   fu_type : FuType, alu_op : AluOp, imm : Int, imm_used : BOOLEAN,
   is_load : BOOLEAN, is_store : BOOLEAN,
   is_branch : BOOLEAN, is_jump : BOOLEAN, is_jalr : BOOLEAN, funct3 : Funct]

\* The fields before the opcode is looked at.
DefaultPkt(pc, i) ==
  [pc |-> pc, rs1 |-> i.rs1, rs2 |-> i.rs2, rd |-> i.rd,
   rd_used |-> FALSE, rs1_used |-> FALSE, rs2_used |-> FALSE,
   fu_type |-> "ALU", alu_op |-> "ADD", imm |-> 0, imm_used |-> FALSE,
   is_load |-> FALSE, is_store |-> FALSE,
   is_branch |-> FALSE, is_jump |-> FALSE, is_jalr |-> FALSE, funct3 |-> i.fun]

\* An unknown opcode: everything but pc is cleared.
UnknownPkt(pc) == DefaultPkt(pc, Nop)

\* The operation of an OP or OP-IMM instruction; ADD unless named.
AluOpOf(i) ==
  IF i.op = "OP_IMM" /\ i.fun = "SLTIU" THEN "SLTIU"
  ELSE IF i.op = "OP" /\ i.fun = "SUB" THEN "SUB"
  ELSE "ADD"

DecodeInsn(pc, i) ==
  LET d  == DefaultPkt(pc, i)
      rd == i.rd # 0
  IN  CASE i.op = "LUI" ->
             [d EXCEPT !.alu_op = "LUI", !.rd_used = rd,
                       !.imm = i.imm, !.imm_used = TRUE]
        [] i.op = "OP_IMM" ->
             [d EXCEPT !.alu_op = AluOpOf(i), !.rd_used = rd, !.rs1_used = TRUE,
                       !.imm = i.imm, !.imm_used = TRUE]
        [] i.op = "OP" ->
             [d EXCEPT !.alu_op = AluOpOf(i), !.rd_used = rd,
                       !.rs1_used = TRUE, !.rs2_used = TRUE]
        [] i.op = "LOAD" ->
             [d EXCEPT !.fu_type = "LSU", !.is_load = TRUE, !.rd_used = rd,
                       !.rs1_used = TRUE, !.imm = i.imm, !.imm_used = TRUE]
        [] i.op = "STORE" ->
             [d EXCEPT !.fu_type = "LSU", !.is_store = TRUE, !.rs1_used = TRUE,
                       !.rs2_used = TRUE, !.imm = i.imm, !.imm_used = TRUE]
        [] i.op = "BRANCH" ->
             [d EXCEPT !.fu_type = "BRU", !.is_branch = TRUE, !.rs1_used = TRUE,
                       !.rs2_used = TRUE, !.imm = i.imm, !.imm_used = TRUE]
        [] i.op = "JAL" ->
             [d EXCEPT !.fu_type = "BRU", !.is_jump = TRUE, !.rd_used = rd,
                       !.imm = i.imm, !.imm_used = TRUE]
        [] i.op = "JALR" ->
             [d EXCEPT !.fu_type = "BRU", !.is_jump = TRUE, !.is_jalr = TRUE,
                       !.rd_used = rd, !.rs1_used = TRUE,
                       !.imm = i.imm, !.imm_used = TRUE]
        [] OTHER -> UnknownPkt(pc)
=============================================================================
