---------------------------- MODULE DispatchFifo ----------------------------
(***************************************************************************)
(* verilog/dispatch_fifo.sv: the one-entry fifo in front of the dispatch   *)
(* router.  full and storage are one variable: storage holds the buffered  *)
(* item, or NoItem when full = 0 (the old contents are then never read).   *)
(***************************************************************************)
CONSTANTS Item,    \* what the fifo carries
          NoItem   \* no item: valid = 0

VARIABLE storage

FifoTypeOK == storage \in Item \cup {NoItem}

FifoInit == storage = NoItem

\* out_valid and out_pkt.
FifoOut == storage

\* in_ready: empty, or popping in the same cycle.
FifoReady(out_ready) == storage = NoItem \/ out_ready

\* do_push and do_pop.
FifoPush(in, out_ready) == in # NoItem /\ FifoReady(out_ready)
FifoPop(out_ready) == storage # NoItem /\ out_ready

\* A clock edge with flush_i = 1.
FifoFlush == storage' = NoItem

\* Mutant of FifoEdge: the pop of a cycle with both wins.
FifoEdgePopFirst(in, out_ready) ==
  storage' = IF FifoPop(out_ready) THEN NoItem
             ELSE IF FifoPush(in, out_ready) THEN in
             ELSE storage

\* A clock edge with flush_i = 0: push, pop, replace or hold.
FifoEdge(in, out_ready) ==
  storage' = IF FifoPush(in, out_ready) THEN in
             ELSE IF FifoPop(out_ready) THEN NoItem
             ELSE storage
=============================================================================
