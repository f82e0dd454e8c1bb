------------------------------ MODULE Datapath ------------------------------
(***************************************************************************)
(* The data the core moves: words, program addresses, instructions.        *)
(*                                                                         *)
(* A word is a number below WORDS, a small power of two in place of 2^32.  *)
(* Addresses count instructions and words instead of bytes.  The program   *)
(* fills the addresses below PROG_LEN; icache.sv presets everything beyond *)
(* it with NOPs, and those addresses are one: PROG_LEN.                    *)
(***************************************************************************)
EXTENDS OoopTypes

CONSTANTS WORDS,      \* number of values of a word
          PROG_LEN,   \* instructions in the program
          None        \* the absence of a packet: a valid bit of 0

ASSUME WordsAssumption == WORDS \in Nat \ {0} /\ PROG_LEN \in Nat

Word == 0 .. WORDS - 1
Pc   == 0 .. PROG_LEN

\* Mutant of WordOf: a result that keeps its carry.
WordOfWide(n) == n

WordOf(n) == n % WORDS
PcOf(n)   == IF n \in Pc THEN n ELSE PROG_LEN

Opcode == {"LUI", "OP_IMM", "OP", "LOAD", "STORE", "BRANCH", "JAL", "JALR", "OTHER"}
Funct  == {"ADD", "SUB", "SLTIU", "BEQ", "BNE", "BLTU", "BGEU"}

Insn == [op : Opcode, fun : Funct, rd : Areg, rs1 : Areg, rs2 : Areg, imm : Int]

\* The preset contents of the instruction memory: addi x0, x0, 0.
Nop == [op |-> "OP_IMM", fun |-> "ADD", rd |-> 0, rs1 |-> 0, rs2 |-> 0, imm |-> 0]

FuType == {"ALU", "BRU", "LSU"}
AluOp  == {"ADD", "SUB", "SLTIU", "LUI"}

\* A writeback packet (wb_pkt_t; None when its valid bit is 0).
WbPkt == [rob_tag : Tag, rd_used : BOOLEAN, prd : Preg, data : Word]
=============================================================================
