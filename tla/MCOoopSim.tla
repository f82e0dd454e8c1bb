------------------------------ MODULE MCOoopSim -----------------------------
(***************************************************************************)
(* OoopSim on all programs that fit a small instruction memory, which the  *)
(* program counter runs through repeatedly, and on programs of one         *)
(* instruction each for all the units do, to compare them with the RTL's.  *)
(***************************************************************************)
EXTENDS RtlUnits

I(op, rd, f3, rs1, rs2, f7) ==
  [op |-> op, rd |-> rd, f3 |-> f3, rs1 |-> rs1, rs2 |-> rs2, f7 |-> f7]

MCInsns ==
  { I(19, 1, 0, 1, 1, 0),       \* addi x1, x1, 1
    I(51, 2, 0, 1, 2, 32),      \* sub x2, x1, x2
    I(3, 1, 4, 2, 1, 0),        \* lbu x1, 1(x2)
    I(35, 2, 1, 1, 2, 0),       \* sh x2, 2(x1)
    I(99, 8, 1, 1, 2, 0),       \* bne x1, x2, 8
    I(111, 2, 7, 31, 29, 127),  \* jal x2, -4
    I(103, 1, 0, 1, 5, 0) }     \* jalr x1, 5(x1)

\* Every operation the decoders select, with immediates at their boundaries.
UnitInsns ==
  {I(19, 1, f3, 2, imm[1], imm[2]) :                        \* OP-IMM
      f3 \in {0, 3, 5, 6, 7}, imm \in {<<0, 0>>, <<5, 0>>, <<0, 64>>, <<31, 127>>, <<15, 96>>}}
  \cup {I(51, 1, f3, 2, 3, f7) : f3 \in {0, 5, 6, 7}, f7 \in {0, 32}}   \* OP
  \cup {I(99, 8, f3, 2, 3, f7) : f3 \in 0 .. 7, f7 \in {0, 127}}        \* BRANCH
  \cup {I(55, 1, 4, 2, 3, 9), I(55, 1, 0, 0, 0, 64), I(111, 1, 7, 31, 29, 127),
        I(111, 1, 0, 0, 8, 0), I(103, 1, 0, 2, 5, 0), I(103, 1, 0, 2, 31, 127)}

MCPrograms == (UNION {[1 .. n -> MCInsns] : n \in 0 .. ICACHE_WORDS})
                \cup {<<i>> : i \in UnitInsns}

\* The boundaries of a word of 16 bits, and negative numbers.
MCOperands == {0, 1, 5, 2^15 - 1, 2^15, 2^16 - 1, -1, -2048, -31}
=============================================================================
