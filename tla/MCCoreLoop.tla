------------------------------ MODULE MCCoreLoop ----------------------------
(***************************************************************************)
(* CoreTop on all short programs, loops included.                          *)
(***************************************************************************)
EXTENDS CoreTop

I(op, fun, rd, rs1, rs2, imm) ==
  [op |-> op, fun |-> fun, rd |-> rd, rs1 |-> rs1, rs2 |-> rs2, imm |-> imm]

MCInsns ==
  { I("OP_IMM", "ADD", 1, 1, 0, 1),
    I("LOAD", "ADD", 1, 0, 0, 0),
    I("STORE", "ADD", 0, 0, 1, 0),
    I("BRANCH", "BNE", 0, 1, 0, -1),
    I("JAL", "ADD", 1, 0, 0, -1),
    I("JAL", "ADD", 1, 0, 0, 0),
    I("JAL", "ADD", 0, 0, 0, -2) }

MCPrograms ==
  {[a \in Pc |-> IF a < PROG_LEN THEN f[a] ELSE Nop] :
     f \in [0 .. PROG_LEN - 1 -> MCInsns]}
=============================================================================
