--------------------------------- MODULE Isa --------------------------------
(***************************************************************************)
(* What the core promises to software: the instructions of the program     *)
(* take effect one at a time, in the order the program gives them.         *)
(***************************************************************************)
EXTENDS Datapath

VARIABLES imem,   \* the program
          pc,     \* address of the next instruction
          x,      \* the architectural registers
          mem     \* the data memory

isaVars == <<imem, pc, x, mem>>

Init ==
  /\ pc = 0
  /\ x = [r \in Areg |-> 0]
  /\ mem = [a \in Word |-> 0]

Instr == imem[pc]
A == x[Instr.rs1]
B == x[Instr.rs2]
Address == WordOf(A + Instr.imm)

\* What the instruction writes to rd.
Value ==
  CASE Instr.op = "LUI" -> WordOf(Instr.imm)
    [] Instr.op = "OP_IMM" /\ Instr.fun = "SLTIU" ->
         IF A < WordOf(Instr.imm) THEN 1 ELSE 0
    [] Instr.op = "OP_IMM" -> WordOf(A + Instr.imm)
    [] Instr.op = "OP" -> WordOf(IF Instr.fun = "SUB" THEN A - B ELSE A + B)
    [] Instr.op = "LOAD" -> mem[Address]
    [] Instr.op \in {"JAL", "JALR"} -> WordOf(pc + 1)

HasValue ==
  Instr.rd # 0 /\ Instr.op \in {"LUI", "OP_IMM", "OP", "LOAD", "JAL", "JALR"}

Taken ==
  \/ Instr.op = "JAL"
  \/ /\ Instr.op = "BRANCH"
     /\ \/ Instr.fun = "BEQ"  /\ A = B
        \/ Instr.fun = "BNE"  /\ A # B
        \/ Instr.fun = "BLTU" /\ A < B
        \/ Instr.fun = "BGEU" /\ A >= B

Execute ==
  /\ pc' = IF Instr.op = "JALR" THEN PcOf(Address)
           ELSE IF Taken THEN PcOf(pc + Instr.imm)
           ELSE PcOf(pc + 1)
  /\ x' = IF HasValue THEN [x EXCEPT ![Instr.rd] = Value] ELSE x
  /\ mem' = IF Instr.op = "STORE" THEN [mem EXCEPT ![Address] = B] ELSE mem
  /\ UNCHANGED imem

Spec == Init /\ [][Execute]_isaVars
=============================================================================
