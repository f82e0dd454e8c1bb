------------------------------ MODULE OoopTypes -----------------------------
(***************************************************************************)
(* verilog/ooop_defs.vh and ooop_types.sv: the sizes of the core and the   *)
(* sets its indices range over.                                            *)
(***************************************************************************)
EXTENDS Integers

CONSTANTS ROB_DEPTH,    \* entries of the ROB, and tags
          N_PHYS_REGS,  \* physical registers
          N_ARCH_REGS   \* architectural registers, x0 included

\* In the code ROB_DEPTH is a power of two, 16, and pointers wrap at their width,
\* $clog2(ROB_DEPTH): at least one bit.  Nothing else here depends on that.
ASSUME RobDepthAssumption == ROB_DEPTH \in Nat /\ ROB_DEPTH >= 2

ASSUME PhysRegsAssumption == N_PHYS_REGS \in Nat \ {0}

\* At reset every architectural register has a physical one.
ASSUME ArchRegsAssumption == N_ARCH_REGS \in 1 .. N_PHYS_REGS

Slot == 0 .. ROB_DEPTH - 1
Tag  == 0 .. ROB_DEPTH - 1
Preg == 0 .. N_PHYS_REGS - 1
Areg == 0 .. N_ARCH_REGS - 1

\* Mutant of Inc: a pointer one bit too wide.
IncUnwrapped(i) == i + 1

\* The next slot or tag, circularly.
Inc(i)  == IF i = ROB_DEPTH - 1 THEN 0 ELSE i + 1

\* How many increments lead from slot i to slot j.
Dist(i, j) == IF i <= j THEN j - i ELSE j - i + ROB_DEPTH
=============================================================================
