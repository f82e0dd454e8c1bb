-------------------------------- MODULE Fetch -------------------------------
(***************************************************************************)
(* verilog/fetch.sv and the read port of icache.sv: one request at a time, *)
(* answered in the next cycle; a flush forgets the request and the fetched *)
(* instruction, but not the answer the icache is about to give.            *)
(***************************************************************************)
EXTENDS Datapath

VARIABLES
  imem,      \* the program (icache mem)
  rdata,     \* the icache's answer (rdata; None when rvalid = 0)
  pc_q,      \* the address to fetch next
  req_pc,    \* the address of the pending request (None: req_pending = 0)
  f_out      \* the instruction offered to decode (None: out_valid = 0)

fetchVars == <<imem, rdata, pc_q, req_pc, f_out>>

FetchTypeOK ==
  /\ imem \in [Pc -> Insn]
  /\ rdata \in Insn \cup {None}
  /\ pc_q \in Pc
  /\ req_pc \in Pc \cup {None}
  /\ f_out \in [pc : Pc, instr : Insn] \cup {None}

FetchInit ==
  /\ rdata = None
  /\ pc_q = 0
  /\ req_pc = None
  /\ f_out = None

\* icache_en_o: nothing fetched and nothing asked for.
IcacheEn == f_out = None /\ req_pc = None

\* icache_rvalid_i answers the pending request.
Captured == req_pc # None /\ rdata # None

\* The icache's clock edge: it answers every request, also in a flush.
IcacheEdge ==
  /\ rdata' = IF IcacheEn THEN imem[pc_q] ELSE None
  /\ UNCHANGED imem

\* A clock edge with flush_i = 1.
FetchFlush(flush_pc) ==
  /\ pc_q' = flush_pc
  /\ req_pc' = None
  /\ f_out' = None
  /\ IcacheEdge

\* A clock edge with flush_i = 0: consume, launch, capture.
FetchEdge(ready_in) ==
  /\ f_out' = IF Captured THEN [pc |-> req_pc, instr |-> rdata]
              ELSE IF ready_in THEN None
              ELSE f_out
  /\ req_pc' = IF Captured THEN None
               ELSE IF IcacheEn THEN pc_q
               ELSE req_pc
  /\ pc_q' = IF Captured THEN PcOf(req_pc + 1) ELSE pc_q
  /\ IcacheEdge
=============================================================================
