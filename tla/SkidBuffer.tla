----------------------------- MODULE SkidBuffer -----------------------------
(***************************************************************************)
(* verilog/skidbuffer.sv: the one-entry buffer on the fetch->decode,       *)
(* decode->rename and rename->dispatch boundaries of core_top.sv.          *)
(*                                                                         *)
(* The flip-flops skid_valid and skid_data are one variable: skid holds    *)
(* the stored item, or NoItem when skid_valid = 0 (skid_data is then never *)
(* read).  valid_in, data_in and ready_in are the input wires of a cycle;  *)
(* an item together with its valid bit is likewise an element of           *)
(* Item \cup {NoItem}.                                                     *)
(***************************************************************************)
CONSTANTS Item,    \* what the buffer carries
          NoItem   \* no item: valid = 0

VARIABLE skid

SkidTypeOK == skid \in Item \cup {NoItem}

SkidInit == skid = NoItem

\* valid_out and data_out: the stored item first, else the input wires.
SkidOut(in) == IF skid # NoItem THEN skid ELSE in

\* ready_out, what the producer sees.
SkidReady(ready_in) == ready_in \/ skid = NoItem

\* A clock edge with flush_i = 1.
SkidFlush == skid' = NoItem

(***************************************************************************)
(* A clock edge with flush_i = 0: the input is stored when the consumer    *)
(* stalls and nothing is stored yet; a stored item leaves when the         *)
(* consumer is ready, and nothing replaces it.                             *)
(***************************************************************************)
SkidEdge(in, ready_in) ==
  skid' = IF skid # NoItem
          THEN IF ready_in THEN NoItem ELSE skid
          ELSE IF ready_in THEN NoItem ELSE in
=============================================================================
