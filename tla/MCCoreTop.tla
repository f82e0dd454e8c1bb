------------------------------ MODULE MCCoreTop -----------------------------
(***************************************************************************)
(* CoreTop on all programs of a few instructions that jump forward only.   *)
(***************************************************************************)
EXTENDS CoreTop

I(op, fun, rd, rs1, rs2, imm) ==
  [op |-> op, fun |-> fun, rd |-> rd, rs1 |-> rs1, rs2 |-> rs2, imm |-> imm]

MCInsns ==
  { I("OP_IMM", "ADD", 1, 1, 0, 1),
    I("OP", "SUB", 2, 1, 2, 0),
    I("LOAD", "ADD", 1, 2, 0, 0),
    I("STORE", "ADD", 0, 2, 1, 0),
    I("BRANCH", "BNE", 0, 1, 2, 2),
    I("JAL", "ADD", 2, 0, 0, 2),
    I("JALR", "ADD", 1, 1, 0, 3) }

MCPrograms ==
  {[a \in Pc |-> IF a < PROG_LEN THEN f[a] ELSE Nop] :
     f \in [0 .. PROG_LEN - 1 -> MCInsns]}
=============================================================================
