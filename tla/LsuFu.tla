------------------------------- MODULE LsuFu --------------------------------
(***************************************************************************)
(* verilog/lsu_fu.sv with its memory, dmem_bram.sv: a request is accepted  *)
(* in the cycle of its issue (a store then updates the memory) and         *)
(* answered two cycles later.  A flush drops the metadata that pairs with  *)
(* the answers and closes the unit for two cycles.                         *)
(***************************************************************************)
EXTENDS Datapath

VARIABLES
  dmem,         \* the data memory (mem)
  resp1, resp2, \* the answers on their way (rdata1_q, rdata2_q; None: v = 0)
  m0, m1,       \* metadata of the requests of the last two cycles (None: v = 0)
  block_cnt     \* cycles for which the unit stays closed

lsuVars == <<dmem, resp1, resp2, m0, m1, block_cnt>>

Meta == [is_load : BOOLEAN, rd_used : BOOLEAN, rob_tag : Tag, prd : Preg]

LsuTypeOK ==
  /\ dmem \in [Word -> Word]
  /\ resp1 \in Word \cup {None} /\ resp2 \in Word \cup {None}
  /\ m0 \in Meta \cup {None} /\ m1 \in Meta \cup {None}
  /\ block_cnt \in 0 .. 2

LsuInit ==
  /\ dmem = [a \in Word |-> 0]
  /\ resp1 = None /\ resp2 = None
  /\ m0 = None /\ m1 = None
  /\ block_cnt = 0

AllowIssue(flush) == block_cnt = 0 /\ ~flush

\* dmem_en_o; e: the entry issued to this unit, or None.
DmemEn(flush, e) == e # None /\ AllowIssue(flush)

\* eff_addr, as the word it selects.
EffAddr(e, a) == WordOf(a + e.d.imm)

\* Mutant of WbLsu: only what has a register is answered.
WbLsuLoadsOnly(flush) ==
  IF resp2 # None /\ m1 # None /\ AllowIssue(flush) /\ m1.is_load /\ m1.rd_used
  THEN [rob_tag |-> m1.rob_tag, rd_used |-> TRUE, prd |-> m1.prd, data |-> resp2]
  ELSE None

\* wb_o.
WbLsu(flush) ==
  IF resp2 # None /\ m1 # None /\ AllowIssue(flush)
  THEN IF m1.is_load /\ m1.rd_used
       THEN [rob_tag |-> m1.rob_tag, rd_used |-> TRUE, prd |-> m1.prd, data |-> resp2]
       ELSE [rob_tag |-> m1.rob_tag, rd_used |-> FALSE, prd |-> 0, data |-> 0]
  ELSE None

\* dmem_bram's clock edge, the same in a flush.
DmemEdge(en, e, a, b) ==
  /\ dmem' = IF en /\ e.d.is_store THEN [dmem EXCEPT ![EffAddr(e, a)] = b] ELSE dmem
  /\ resp1' = IF ~en THEN None
              ELSE IF e.d.is_store THEN 0
              ELSE dmem[EffAddr(e, a)]
  /\ resp2' = resp1

\* A clock edge.
LsuEdge(flush, e, a, b) ==
  LET en == DmemEn(flush, e)
  IN  /\ block_cnt' = IF flush THEN 2 ELSE IF block_cnt > 0 THEN block_cnt - 1 ELSE 0
      /\ m0' = IF en THEN [is_load |-> e.d.is_load, rd_used |-> e.rd_used,
                           rob_tag |-> e.rob_tag, prd |-> e.prd]
               ELSE None
      /\ m1' = IF flush THEN None ELSE m0
      /\ DmemEdge(en, e, a, b)
=============================================================================
