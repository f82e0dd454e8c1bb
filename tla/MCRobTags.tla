------------------------------ MODULE MCRobTags -----------------------------
(***************************************************************************)
(* RobTags on a small ROB, with its safety properties.                     *)
(***************************************************************************)
EXTENDS RobTags

\* Decode offers a plain instruction or a branch.
MCRenameInput ==
  {[rd_used |-> FALSE, old_prd |-> 0, is_branch |-> b] : b \in BOOLEAN}

(***************************************************************************)
(* The view has three reductions.  Slots and tags are only ever compared   *)
(* and incremented circularly, so states that differ by a rotation of the  *)
(* slots, or of the tags, behave alike: slots are seen from head, tags     *)
(* from next_tag.  What no later step reads is hidden: the snapshots of    *)
(* tags that are not of a branch in flight, which the next branch with     *)
(* that tag overwrites before a recovery can read them, and the pending    *)
(* bits of tags that no buffered branch carries.                           *)
(***************************************************************************)
SeenTags(T) == {Dist(next_tag, t) : t \in T}
SeenEntry(e) == IF e.valid THEN <<Dist(next_tag, e.tag), e.done>> ELSE << >>
SeenPkt(p) == IF p = NoPkt THEN << >> ELSE <<Dist(next_tag, p.rob_tag), p.is_branch>>

BufferedBranches == {p.rob_tag : p \in {q \in Buffered : q.is_branch}}

SeenSnapshot(t) ==
  <<IF t \in branches
    THEN <<Dist(head, ckpt_ptrs[t].tail), ckpt_ptrs[t].count>> ELSE << >>,
    IF t \in branches \cup BufferedBranches
    THEN Dist(next_tag, ckpt_next_tag[t]) ELSE -1>>

MCView ==
  <<[k \in Slot |-> SeenEntry(entries[(head + k) % ROB_DEPTH])],
    Dist(head, tail), count, SeenTags(reserved),
    SeenPkt(r2d_skid), SeenPkt(storage), SeenTags(branches),
    SeenTags(ckpt_pending \cap BufferedBranches),
    [k \in Tag |-> SeenSnapshot((next_tag + k) % ROB_DEPTH)]>>
=============================================================================
