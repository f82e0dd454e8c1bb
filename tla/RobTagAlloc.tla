---------------------------- MODULE RobTagAlloc -----------------------------
(***************************************************************************)
(* verilog/rob_tag_alloc.sv: gives rename the ROB tag of the next          *)
(* instruction.  A tag is in use while it is live in the ROB or reserved   *)
(* by a packet on its way there; the allocator scans from next_tag for a   *)
(* tag that is not.                                                        *)
(***************************************************************************)
EXTENDS Rob

VARIABLES
  next_tag,        \* where the scan starts
  reserved,        \* tags given to rename and not yet seen by the ROB
  ckpt_next_tag    \* per branch tag: next_tag after that branch's allocation

tagVars == <<next_tag, reserved, ckpt_next_tag>>

TagTypeOK ==
  /\ next_tag \in Tag
  /\ reserved \subseteq Tag
  /\ ckpt_next_tag \in [Tag -> Tag]

TagInit ==
  /\ next_tag = 0
  /\ reserved = {}
  /\ ckpt_next_tag = [t \in Tag |-> 0]

\* Mutant of Used: reservations are not looked at.
UsedLiveOnly == LiveTags

Used == LiveTags \cup reserved

\* alloc_ok_o.
TagOk == Tag \ Used # {}

\* tag_o: the first tag not in use, scanning circularly from next_tag; next_tag
\* itself when there is none.
FreeTag ==
  IF TagOk THEN CHOOSE t \in Tag \ Used :
                  \A u \in Tag \ Used : Dist(next_tag, t) <= Dist(next_tag, u)
           ELSE next_tag

\* Rename takes the offered tag.
TagAllocated(req) == req /\ TagOk

\* next_tag after this cycle's allocation, if any.
NextTag(req) == IF TagAllocated(req) THEN Inc(FreeTag) ELSE next_tag

\* An edge with recover_i = 1: every reservation is dropped.
TagRecover(recover_tag) ==
  /\ next_tag' = ckpt_next_tag[recover_tag]
  /\ reserved' = {}
  /\ UNCHANGED ckpt_next_tag

(***************************************************************************)
(* An edge with recover_i = flush_i = 0.  req: rename fires.  take,        *)
(* take_tag: checkpoint controls.  rob_alloc, rob_tag: the ROB allocates a *)
(* packet with that tag, which ends its reservation.                       *)
(***************************************************************************)
TagEdge(req, take, take_tag, rob_alloc, rob_tag) ==
  /\ reserved' = (reserved \ (IF rob_alloc THEN {rob_tag} ELSE {}))
                   \cup (IF TagAllocated(req) THEN {FreeTag} ELSE {})
  /\ next_tag' = NextTag(req)
  /\ ckpt_next_tag' = IF take THEN [ckpt_next_tag EXCEPT ![take_tag] = NextTag(req)]
                              ELSE ckpt_next_tag
=============================================================================
