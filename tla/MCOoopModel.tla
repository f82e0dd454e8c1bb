----------------------------- MODULE MCOoopModel ----------------------------
(***************************************************************************)
(* OoopModel with two words of memory that hold every kind of instruction, *)
(* and immediates of both signs; words have 24 bits.                       *)
(***************************************************************************)
EXTENDS OoopModel

I(op, rd, f3, rs1, rs2, f7) ==
  [op |-> op, rd |-> rd, f3 |-> f3, rs1 |-> rs1, rs2 |-> rs2, f7 |-> f7]

MCInsns ==
  {I(op, rd, 2, 31, 21, f7) : op \in {3, 19, 35, 51, 99, 103, 111, 115},
                              rd \in {0, 21}, f7 \in {32, 64 + 21}}
  \cup {I(55, 1, 2, 31, 21, 32), I(3, 1, 4, 2, 0, 64), I(35, 3, 1, 2, 1, 0),
        I(19, 1, 3, 1, 1, 64), I(19, 1, 7, 1, 31, 63), I(51, 1, 6, 1, 2, 0),
        I(51, 1, 0, 1, 2, 0)}

MCPrograms == {<<i>> : i \in MCInsns} \cup {<<i, Nop>> : i \in MCInsns}
                \cup {<<I(19, 1, 0, 1, 1, 0), i>> : i \in MCInsns}
=============================================================================
