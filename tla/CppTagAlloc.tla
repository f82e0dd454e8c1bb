----------------------------- MODULE CppTagAlloc ----------------------------
(***************************************************************************)
(* The class ROBTagAlloc that cpp/scripts/gen_sources.py writes, the C++   *)
(* version of rob_tag_alloc.sv.  Its tick is called with the inputs of a   *)
(* cycle; what it finds are the outputs of that cycle.                     *)
(***************************************************************************)
EXTENDS Integers

CONSTANT ROB_DEPTH   \* 16

\* In the code tags wrap with & (ROB_DEPTH - 1), the depth being a power of two.
\* Nothing else here depends on that.
ASSUME DepthAssumption == ROB_DEPTH \in Nat \ {0}

Tag == 0 .. ROB_DEPTH - 1

VARIABLES next_tag, reserved, ckpt_next_tag, alloc_ok_q, tag_q

tagVars == <<next_tag, reserved, ckpt_next_tag, alloc_ok_q, tag_q>>

\* The constructor, with reset.
TagInit ==
  /\ next_tag = 0 /\ reserved = {}
  /\ ckpt_next_tag = [t \in Tag |-> 0]
  /\ alloc_ok_q = FALSE /\ tag_q = 0

\* Mutant of IncTag: no wrap.
IncTagUnwrapped(t) == t + 1

IncTag(t) == (t + 1) % ROB_DEPTH

\* findFreeTag.
FindFreeTag(used) ==
  LET cand(k) == (next_tag + k) % ROB_DEPTH
      free == {k \in 0 .. ROB_DEPTH - 1 : cand(k) \notin used}
  IN  IF free = {} THEN next_tag
      ELSE cand(CHOOSE k \in free : \A l \in free : k <= l)

\* Mutant of Used: reservations are not looked at.
UsedLiveOnly(live, confirmed) == live

\* used, after the confirmed tag (the one the ROB allocates, if any) has lost
\* its reservation.
Used(live, confirmed) == live \cup (reserved \ confirmed)

TagFound(used) == Tag \ used # {}

\* Mutant of TagTick: the reservation of the confirmed tag is cleared at the end.
TagTickClearsLast(alloc_req, live, confirmed, checkpoint_take, checkpoint_tag) ==
  LET used == Used(live, confirmed)
      free_tag == FindFreeTag(used)
      allocated == alloc_req /\ TagFound(used)
      after == IF allocated THEN IncTag(free_tag) ELSE next_tag
  IN  /\ alloc_ok_q' = TagFound(used)
      /\ tag_q' = free_tag
      /\ reserved' = (reserved \cup (IF allocated THEN {free_tag} ELSE {})) \ confirmed
      /\ next_tag' = after
      /\ ckpt_next_tag' = IF checkpoint_take
                          THEN [ckpt_next_tag EXCEPT ![checkpoint_tag] = after]
                          ELSE ckpt_next_tag

\* tick without flush and recover.
TagTick(alloc_req, live, confirmed, checkpoint_take, checkpoint_tag) ==
  LET used == Used(live, confirmed)
      free_tag == FindFreeTag(used)
      allocated == alloc_req /\ TagFound(used)
      after == IF allocated THEN IncTag(free_tag) ELSE next_tag
  IN  /\ alloc_ok_q' = TagFound(used)
      /\ tag_q' = free_tag
      /\ reserved' = (reserved \ confirmed) \cup (IF allocated THEN {free_tag} ELSE {})
      /\ next_tag' = after
      /\ ckpt_next_tag' = IF checkpoint_take
                          THEN [ckpt_next_tag EXCEPT ![checkpoint_tag] = after]
                          ELSE ckpt_next_tag

\* tick with flush or recover: flush is looked at first.
TagRedirect(flush, recover_tag) ==
  /\ reserved' = {}
  /\ next_tag' = IF flush THEN next_tag ELSE ckpt_next_tag[recover_tag]
  /\ UNCHANGED <<ckpt_next_tag, alloc_ok_q, tag_q>>

TagTypeOK ==
  /\ next_tag \in Tag /\ reserved \subseteq Tag
  /\ ckpt_next_tag \in [Tag -> Tag]
  /\ alloc_ok_q \in BOOLEAN /\ tag_q \in Tag
=============================================================================
