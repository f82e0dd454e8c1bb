------------------------------ MODULE BranchFu ------------------------------
(***************************************************************************)
(* verilog/branch_fu.sv: resolves the issued branch or jump against the    *)
(* prediction, always not taken, and registers the outcome.                *)
(***************************************************************************)
EXTENDS Datapath

\* wb_q with mp_q (taken) and tgt_q (target); None when wb_q.valid = 0.
\* rtag_q equals wb_q.rob_tag whenever mp_q is set.
VARIABLE bru_q

BruTypeOK ==
  bru_q \in [rob_tag : Tag, rd_used : BOOLEAN, prd : Preg, data : Word,
             taken : BOOLEAN, target : Pc] \cup {None}

BruInit == bru_q = None

Taken(e, a, b) ==
  \/ e.d.is_jump
  \/ e.d.is_branch /\ CASE e.d.funct3 = "BEQ"  -> a = b
                        [] e.d.funct3 = "BNE"  -> a # b
                        [] e.d.funct3 = "BLTU" -> a < b
                        [] e.d.funct3 = "BGEU" -> a >= b
                        [] OTHER -> FALSE

\* (rs1 + imm) wraps at the width of a word; bit 0 is no part of the model's
\* addresses.
Target(e, a) ==
  IF e.d.is_jalr THEN PcOf(WordOf(a + e.d.imm)) ELSE PcOf(e.d.pc + e.d.imm)

Resolve(e, a, b) ==
  [rob_tag |-> e.rob_tag, rd_used |-> e.rd_used,
   prd |-> IF e.rd_used THEN e.prd ELSE 0,
   data |-> IF e.d.is_jump /\ e.rd_used THEN WordOf(e.d.pc + 1) ELSE 0,
   taken |-> Taken(e, a, b),
   target |-> Target(e, a)]

\* wb_o.
WbBru ==
  IF bru_q = None THEN None
  ELSE [rob_tag |-> bru_q.rob_tag, rd_used |-> bru_q.rd_used,
        prd |-> bru_q.prd, data |-> bru_q.data]

\* mispredict_o.
Mispredict == bru_q # None /\ bru_q.taken

\* A clock edge; e: the entry issued to this unit, or None.
BruEdge(flush, e, a, b) ==
  bru_q' = IF ~flush /\ e # None THEN Resolve(e, a, b) ELSE None
=============================================================================
