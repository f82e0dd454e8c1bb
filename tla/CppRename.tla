------------------------------ MODULE CppRename -----------------------------
(***************************************************************************)
(* The class Rename that cpp/scripts/gen_sources.py writes, with the       *)
(* classes FreeList and MapTable of cpp/src/ it works on.  A packet is     *)
(* reduced to its destination: the sources are looked up in rat and in the *)
(* valid bits of the register file, and renaming them changes nothing.     *)
(***************************************************************************)
EXTENDS Integers

CONSTANTS N_ARCH_REGS,   \* 32
          N_PHYS_REGS,   \* 128
          CkptTag        \* the indices of the checkpoints, 0 .. ROB_DEPTH - 1

ASSUME RegsAssumption ==
  /\ N_ARCH_REGS \in Nat \ {0}
  /\ N_PHYS_REGS \in Nat /\ N_PHYS_REGS > N_ARCH_REGS

Areg == 0 .. N_ARCH_REGS - 1
Preg == 0 .. N_PHYS_REGS - 1
Allocatable == N_ARCH_REGS .. N_PHYS_REGS - 1

VARIABLES free_map, alloc_preg_q, ckpt_free_map,  \* FreeList
          rat, ckpt_rat                           \* MapTable

renameVars == <<free_map, alloc_preg_q, ckpt_free_map, rat, ckpt_rat>>

\* is_branch: a branch or a jump, which take checkpoints.
DecodePkt == [rd : Areg, rd_used : BOOLEAN, is_branch : BOOLEAN]

ResetRat == [r \in Areg |-> r]

\* FreeList::reset and MapTable::reset.
RenameInit ==
  /\ free_map = Allocatable /\ alloc_preg_q = 0
  /\ ckpt_free_map = [t \in CkptTag |-> Allocatable]
  /\ rat = ResetRat /\ ckpt_rat = [t \in CkptTag |-> ResetRat]

\* hasFree and findFree.
HasFree(free) == free \cap Allocatable # {}
FindFree(free) == CHOOSE p \in free \cap Allocatable : \A q \in free \cap Allocatable : p <= q

\* Mutant of FreeListAfter: what is allocated stays free.
FreeListAfterKeeps(alloc_req, freed) ==
  LET returned == free_map \cup (freed \ {0})
      gnt == alloc_req /\ HasFree(returned)
  IN  [free_map |-> returned,
       alloc_preg_q |-> IF gnt THEN FindFree(returned) ELSE alloc_preg_q]

\* FreeList::tick without flush and recover.  freed: the register that comes
\* back, if one does.
FreeListAfter(alloc_req, freed) ==
  LET returned == free_map \cup (freed \ {0})
      gnt == alloc_req /\ HasFree(returned)
  IN  [free_map |-> IF gnt THEN returned \ {FindFree(returned)} ELSE returned,
       alloc_preg_q |-> IF gnt THEN FindFree(returned) ELSE alloc_preg_q]

\* MapTable::tick without flush and recover.
MapTableAfter(we, we_arch, we_new_phys) ==
  IF we /\ we_arch # 0 THEN [rat EXCEPT ![we_arch] = we_new_phys] ELSE rat

\* Mutant of RenameTick: the checkpoint misses the renaming of its own branch.
RenameTickStale(fl, next_rat, checkpoint_take, checkpoint_tag) ==
  /\ free_map' = fl.free_map /\ alloc_preg_q' = fl.alloc_preg_q
  /\ rat' = next_rat
  /\ ckpt_free_map' = IF checkpoint_take
                      THEN [ckpt_free_map EXCEPT ![checkpoint_tag] = fl.free_map]
                      ELSE ckpt_free_map
  /\ ckpt_rat' = IF checkpoint_take THEN [ckpt_rat EXCEPT ![checkpoint_tag] = rat]
                                    ELSE ckpt_rat

\* The two ticks, with the checkpoint they take.
RenameTick(fl, next_rat, checkpoint_take, checkpoint_tag) ==
  /\ free_map' = fl.free_map /\ alloc_preg_q' = fl.alloc_preg_q
  /\ rat' = next_rat
  /\ ckpt_free_map' = IF checkpoint_take
                      THEN [ckpt_free_map EXCEPT ![checkpoint_tag] = fl.free_map]
                      ELSE ckpt_free_map
  /\ ckpt_rat' = IF checkpoint_take THEN [ckpt_rat EXCEPT ![checkpoint_tag] = next_rat]
                                    ELSE ckpt_rat

\* The two ticks with flush or recover: flush is looked at first.
RenameRedirect(flush, recover_tag) ==
  /\ free_map' = IF flush THEN free_map ELSE ckpt_free_map[recover_tag]
  /\ rat' = IF flush THEN rat ELSE ckpt_rat[recover_tag]
  /\ UNCHANGED <<alloc_preg_q, ckpt_free_map, ckpt_rat>>
-----------------------------------------------------------------------------
NeedAlloc(d) == d.rd_used /\ d.rd # 0

\* alloc_ok, with what the free list has at the time.
AllocOk(d, free) == NeedAlloc(d) => HasFree(free)

\* getReadyOut and getValidOut, getAllocReq, getCheckpointTake.
ReadyOut(d, free, tag_ok, ready_in) == ready_in /\ AllocOk(d, free) /\ tag_ok
AllocReq(d, fire) == fire /\ NeedAlloc(d)
CheckpointTake(d, fire) == fire /\ d.is_branch

\* Mutant of RenamePkt: the map table has been told already.
RenamePktLate(d, fl, tag_ok, rob_tag) ==
  LET need == NeedAlloc(d)
      prd == IF need THEN fl.alloc_preg_q ELSE 0
  IN  [valid |-> AllocOk(d, fl.free_map) /\ tag_ok, rob_tag |-> rob_tag,
       rd |-> d.rd, rd_used |-> need, is_branch |-> d.is_branch,
       prd |-> prd, old_prd |-> prd]

\* Rename::rename on the free list fl.
RenamePkt(d, fl, tag_ok, rob_tag) ==
  LET need == NeedAlloc(d)
  IN  [valid |-> AllocOk(d, fl.free_map) /\ tag_ok, rob_tag |-> rob_tag,
       rd |-> d.rd, rd_used |-> need, is_branch |-> d.is_branch,
       prd |-> IF need THEN fl.alloc_preg_q ELSE 0,
       old_prd |-> IF need THEN rat[d.rd] ELSE 0]

RenameTypeOK ==
  /\ free_map \subseteq Preg /\ alloc_preg_q \in Preg
  /\ ckpt_free_map \in [CkptTag -> SUBSET Preg]
  /\ rat \in [Areg -> Preg] /\ ckpt_rat \in [CkptTag -> [Areg -> Preg]]
=============================================================================
