------------------------------- MODULE AluFu --------------------------------
(***************************************************************************)
(* verilog/alu_fu.sv: latches the issued entry with its operands and       *)
(* writes back in the next cycle.                                          *)
(***************************************************************************)
EXTENDS Datapath

VARIABLE alu_q    \* the latched entry with its operands (None: v_q = 0)

AluInit == alu_q = None

\* The operations of alu_op_t that the model's instructions use.
AluResult(e, a, b) ==
  LET op_b == IF e.d.imm_used THEN e.d.imm ELSE b
  IN  CASE e.d.alu_op = "ADD"   -> WordOf(a + op_b)
        [] e.d.alu_op = "SUB"   -> WordOf(a - op_b)
        [] e.d.alu_op = "SLTIU" -> IF a < WordOf(op_b) THEN 1 ELSE 0
        [] e.d.alu_op = "LUI"   -> WordOf(op_b)

\* wb_o.
WbAlu ==
  IF alu_q = None THEN None
  ELSE [rob_tag |-> alu_q.e.rob_tag, rd_used |-> alu_q.e.rd_used,
        prd |-> IF alu_q.e.rd_used THEN alu_q.e.prd ELSE 0,
        data |-> AluResult(alu_q.e, alu_q.a, alu_q.b)]

\* A clock edge; e: the entry issued to this unit, or None.
AluEdge(flush, e, a, b) ==
  alu_q' = IF ~flush /\ e # None THEN [e |-> e, a |-> a, b |-> b] ELSE None
=============================================================================
