----------------------------- MODULE MCWrongPath ----------------------------
(***************************************************************************)
(* CoreTop with so few physical registers that rename waits for a commit   *)
(* to free one; the instructions it then lets through follow each other    *)
(* more closely than fetch delivers them.  The programs end in a store     *)
(* that jumps may skip.                                                    *)
(***************************************************************************)
EXTENDS CoreTop

I(op, fun, rd, rs1, rs2, imm) ==
  [op |-> op, fun |-> fun, rd |-> rd, rs1 |-> rs1, rs2 |-> rs2, imm |-> imm]

MCInsns ==
  { I("OP_IMM", "ADD", 1, 0, 0, 1),
    I("LOAD", "ADD", 1, 0, 0, 0),
    I("JAL", "ADD", 1, 0, 0, 2) }

MCPrograms ==
  {[a \in Pc |-> IF a < PROG_LEN - 1 THEN f[a]
                 ELSE IF a = PROG_LEN - 1 THEN I("STORE", "ADD", 0, 0, 0, 0)
                 ELSE Nop] : f \in [0 .. PROG_LEN - 2 -> MCInsns]}
=============================================================================
