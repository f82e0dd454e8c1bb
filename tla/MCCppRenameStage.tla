-------------------------- MODULE MCCppRenameStage --------------------------
(***************************************************************************)
(* CppRenameStage with a view that hides what no later step reads: the     *)
(* outputs of the last tick, and the checkpoints of tags that no branch in *)
(* flight has, which the next branch with that tag overwrites.             *)
(***************************************************************************)
EXTENDS CppRenameStage

\* A write of x1, a jump with a link, a branch, a store.
MCDecoded ==
  { [rd |-> 1, rd_used |-> TRUE, is_branch |-> FALSE],
    [rd |-> 1, rd_used |-> TRUE, is_branch |-> TRUE],
    [rd |-> 0, rd_used |-> FALSE, is_branch |-> TRUE],
    [rd |-> 1, rd_used |-> FALSE, is_branch |-> FALSE] }

BranchTags == {InFlight[k].rob_tag : k \in {l \in DOMAIN InFlight : InFlight[l].is_branch}}

MCView ==
  <<next_tag, reserved, free_map, rat, buffer, rob, spoiled,
    [t \in BranchTags |-> <<ckpt_next_tag[t], ckpt_free_map[t], ckpt_rat[t]>>]>>
=============================================================================
