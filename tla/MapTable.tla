------------------------------ MODULE MapTable ------------------------------
(***************************************************************************)
(* verilog/map_table.sv: the register alias table, with a copy per branch  *)
(* tag.                                                                    *)
(***************************************************************************)
EXTENDS OoopTypes

VARIABLES
  rat,         \* the physical register of each architectural one
  ckpt_rat     \* per branch tag: rat after that branch's own renaming

ratVars == <<rat, ckpt_rat>>

MapTypeOK ==
  /\ rat \in [Areg -> Preg]
  /\ ckpt_rat \in [Tag -> [Areg -> Preg]]

MapInit ==
  /\ rat = [r \in Areg |-> r]
  /\ ckpt_rat = [t \in Tag |-> [r \in Areg |-> 0]]

\* x0 is never remapped.
RatNext(we, we_arch, we_new_phys) ==
  IF we /\ we_arch # 0 THEN [rat EXCEPT ![we_arch] = we_new_phys] ELSE rat

\* A clock edge with recover_i = 1.
MapRecover(recover_tag) ==
  /\ rat' = ckpt_rat[recover_tag]
  /\ UNCHANGED ckpt_rat

\* Mutant of MapEdge: the checkpoint misses the branch's own renaming.
MapEdgeStale(we, we_arch, we_new_phys, take, take_tag) ==
  /\ rat' = RatNext(we, we_arch, we_new_phys)
  /\ ckpt_rat' = IF take THEN [ckpt_rat EXCEPT ![take_tag] = rat] ELSE ckpt_rat

\* A clock edge with recover_i = flush_i = 0.
MapEdge(we, we_arch, we_new_phys, take, take_tag) ==
  LET next == RatNext(we, we_arch, we_new_phys)
  IN  /\ rat' = next
      /\ ckpt_rat' = IF take THEN [ckpt_rat EXCEPT ![take_tag] = next] ELSE ckpt_rat
=============================================================================
