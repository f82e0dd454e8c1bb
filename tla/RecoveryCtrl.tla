---------------------------- MODULE RecoveryCtrl ----------------------------
(***************************************************************************)
(* verilog/recovery_ctrl.sv: one registered flush/recover pulse on each    *)
(* rising edge of mispredict.                                              *)
(***************************************************************************)
EXTENDS Datapath

VARIABLES
  mp_q,       \* mispredict in the previous cycle
  redirect    \* the pulse: flush_pc_o and recover_tag_o (None: flush_o = 0)

recoveryVars == <<mp_q, redirect>>

RecoveryTypeOK ==
  /\ mp_q \in BOOLEAN
  /\ redirect \in [pc : Pc, tag : Tag] \cup {None}

RecoveryInit == mp_q = FALSE /\ redirect = None

\* flush_o and recover_o.
Flush == redirect # None

RecoveryEdge(mispredict, target_pc, recover_tag) ==
  /\ mp_q' = mispredict
  /\ redirect' = IF mispredict /\ ~mp_q THEN [pc |-> target_pc, tag |-> recover_tag]
                                        ELSE None
=============================================================================
