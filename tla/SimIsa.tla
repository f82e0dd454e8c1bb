-------------------------------- MODULE SimIsa ------------------------------
(***************************************************************************)
(* What the simulator of ooop_sim.py promises: it gives the results of     *)
(* executing the instructions one at a time.  The units are parameters:    *)
(* whether those of the simulator are RISC-V's is a question of its own.   *)
(***************************************************************************)
EXTENDS Integers

CONSTANTS DecodeInstr(_, _), AluExec(_, _, _), BruTaken(_, _, _), BruTarget(_, _),
          MemLoad(_, _, _, _), MemStore(_, _, _, _), U32(_), ICacheWord(_, _)

VARIABLES imem,   \* the program, in words
          pc,     \* address of the next instruction
          x,      \* the registers
          mem     \* the data memory

isaVars == <<imem, pc, x, mem>>

Init ==
  /\ pc = 0
  /\ x = [r \in DOMAIN x |-> 0]
  /\ mem = [w \in DOMAIN mem |-> 0]

D == DecodeInstr(pc, ICacheWord(imem, pc))
A == x[D.rs1]
B == x[D.rs2]

Value ==
  CASE D.fu_type = "ALU" -> AluExec(D, A, B)
    [] D.fu_type = "BRU" -> D.pc + 4
    [] D.fu_type = "LSU" -> MemLoad(mem, U32(A + D.imm), D.ls_size, D.unsigned_load)

Stores == D.fu_type = "LSU" /\ ~D.is_load
Jumps  == D.fu_type = "BRU" /\ BruTaken(D, A, B)

Execute ==
  /\ pc' = IF Jumps THEN BruTarget(D, A) ELSE pc + 4
  /\ x' = IF D.rd_used THEN [x EXCEPT ![D.rd] = Value] ELSE x
  /\ mem' = IF Stores THEN MemStore(mem, U32(A + D.imm), B, D.ls_size) ELSE mem
  /\ UNCHANGED imem

Spec == Init /\ [][Execute]_isaVars
=============================================================================
