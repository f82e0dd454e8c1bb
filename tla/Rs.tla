--------------------------------- MODULE Rs ---------------------------------
(***************************************************************************)
(* verilog/rs.sv: one reservation station.  Entries wait until both their  *)
(* operands are ready; the lowest ready slot is selected, and a selection  *)
(* that is not granted is held.                                            *)
(*                                                                         *)
(* A slot holds a rename packet (rs_entry_t, whose fields are a subset) or *)
(* None.  rs.sv squashes by live_tag_i on a recovery without a flush only  *)
(* (160-177); recovery_ctrl.sv raises both together, and the flush, tested *)
(* first, empties the station.                                             *)
(***************************************************************************)
EXTENDS OoopTypes

CONSTANTS RS_DEPTH, None

VARIABLES
  slots,    \* the entries (None: occupied = 0)
  hold      \* the held selection (None: hold_valid_q = 0)

Index == 0 .. RS_DEPTH - 1

RsTypeOK(Entry) ==
  /\ slots \in [Index -> Entry \cup {None}]
  /\ hold \in Index \cup {None}

RsInit ==
  /\ slots = [k \in Index |-> None]
  /\ hold = None

Lowest(S) == CHOOSE k \in S : \A j \in S : k <= j

FreeSlots == {k \in Index : slots[k] = None}

OperandsReady(e) ==
  /\ e.d.rs1_used => e.prs1_ready
  /\ e.d.rs2_used => e.prs2_ready

ReadySlots == {k \in Index : slots[k] # None /\ OperandsReady(slots[k])}

\* ready_o.
RsReady == FreeSlots # {}

\* issue_valid_o and issue_entry_o.
SelValid == hold # None \/ ReadySlots # {}
Sel      == IF hold # None THEN hold ELSE Lowest(ReadySlots)
IssueEntry == IF SelValid THEN slots[Sel] ELSE None

\* The entry once the registers in the set known have their value.
Wake(e, known) ==
  [e EXCEPT !.prs1_ready = @ \/ e.prs1 \in known,
            !.prs2_ready = @ \/ e.prs2 \in known]

\* Mutant of NextSlot: no second look at the operands on enqueue.
NextSlotUnchecked(k, insert, prf_valid, written, issue_ready) ==
  IF insert # None /\ RsReady /\ k = Lowest(FreeSlots)
  THEN insert
  ELSE IF SelValid /\ issue_ready /\ k = Sel THEN None
  ELSE IF slots[k] # None THEN Wake(slots[k], written)
  ELSE None

NextSlot(k, insert, prf_valid, written, issue_ready) ==
  IF insert # None /\ RsReady /\ k = Lowest(FreeSlots)
  THEN Wake(insert, prf_valid \cup {0} \cup written)
  ELSE IF SelValid /\ issue_ready /\ k = Sel THEN None
  ELSE IF slots[k] # None THEN Wake(slots[k], written)
  ELSE None

NextHold(issue_ready) ==
  IF SelValid /\ issue_ready THEN None
  ELSE IF hold = None /\ SelValid THEN Sel
  ELSE hold

\* A clock edge with flush_i = 1.
RsFlush ==
  /\ slots' = [k \in Index |-> None]
  /\ hold' = None

(***************************************************************************)
(* A clock edge with flush_i = 0: wake on the registers written back in    *)
(* this cycle, dequeue when granted, enqueue into the lowest free slot.    *)
(***************************************************************************)
RsEdge(insert, prf_valid, written, issue_ready) ==
  /\ slots' = [k \in Index |-> NextSlot(k, insert, prf_valid, written, issue_ready)]
  /\ hold' = NextHold(issue_ready)
=============================================================================
