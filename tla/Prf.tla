--------------------------------- MODULE Prf --------------------------------
(***************************************************************************)
(* verilog/prf.sv: the physical registers and their valid bits.  The       *)
(* copies taken for each branch (ckpt_valid, ckpt_regs) are never read and *)
(* are left out.                                                           *)
(***************************************************************************)
EXTENDS Datapath

VARIABLES
  regs,          \* the contents of the physical registers
  valid_bits     \* the registers whose value has been written

prfVars == <<regs, valid_bits>>

PrfTypeOK ==
  /\ regs \in [Preg -> Word]
  /\ valid_bits \subseteq Preg

PrfInit ==
  /\ regs = [p \in Preg |-> 0]
  /\ valid_bits = Preg

\* The packet (or None) writes register p.
WbWrites(wb, p) == wb # None /\ wb.rd_used /\ wb.prd = p /\ p # 0

\* The register after the cycle; the last assignment of the source wins.
NextReg(p, wb_alu, wb_lsu, wb_bru) ==
  IF p = 0 THEN 0
  ELSE IF WbWrites(wb_bru, p) THEN wb_bru.data
  ELSE IF WbWrites(wb_lsu, p) THEN wb_lsu.data
  ELSE IF WbWrites(wb_alu, p) THEN wb_alu.data
  ELSE regs[p]

Written(wb_alu, wb_lsu, wb_bru) ==
  {p \in Preg : \E wb \in {wb_alu, wb_lsu, wb_bru} : WbWrites(wb, p)}

\* A clock edge with flush_i or recover_i: nothing is written or invalidated.
PrfFlush ==
  /\ regs' = [regs EXCEPT ![0] = 0]
  /\ valid_bits' = valid_bits \cup {0}

\* Any other edge; inval: the register just allocated, if any.
PrfEdge(wb_alu, wb_lsu, wb_bru, inval) ==
  /\ regs' = [p \in Preg |-> NextReg(p, wb_alu, wb_lsu, wb_bru)]
  /\ valid_bits' =
       ((valid_bits \ inval) \cup Written(wb_alu, wb_lsu, wb_bru)) \cup {0}
=============================================================================
