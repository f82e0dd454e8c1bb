------------------------------- MODULE Rename -------------------------------
(***************************************************************************)
(* verilog/rename.sv: the rename stage around the map table and the free   *)
(* list.  d is the decode packet offered, or None; tag_ok and rob_tag come *)
(* from rob_tag_alloc; prf_valid is the set of valid physical registers.   *)
(***************************************************************************)
EXTENDS MapTable, FreeListBitmap, Decode

\* rename_pkt_t: the decode packet and what renaming adds to it.
RenamePkt ==
  [d : DecodePkt, rd_used : BOOLEAN, is_branch : BOOLEAN,
   prs1 : Preg, prs2 : Preg, prs1_ready : BOOLEAN, prs2_ready : BOOLEAN,
   prd : Preg, old_prd : Preg, rob_tag : Tag]

renameVars == <<ratVars, freeVars>>

NeedAlloc(d) == d.rd_used /\ d.rd # 0

\* A register and a tag are there for d.
CanRename(d, tag_ok) == (NeedAlloc(d) => HasFree) /\ tag_ok

\* valid_in && ready_out.
RenameFire(d, tag_ok, ready_in) == d # None /\ ready_in /\ CanRename(d, tag_ok)

\* checkpoint_take_o.
CheckpointTake(d, fire) == fire /\ (d.is_branch \/ d.is_jump)

\* alloc_inval_o and alloc_preg_o as the set of registers to invalidate.
AllocInval(d, fire) == IF fire /\ NeedAlloc(d) /\ HasFree THEN {FoundPreg} ELSE {}

PregReady(p, prf_valid) == p = 0 \/ p \in prf_valid

\* Mutant of Renamed: the former mapping is looked up after the new one is there.
RenamedLate(d, rob_tag, prf_valid) ==
  LET prd == IF NeedAlloc(d) THEN FoundPreg ELSE 0
  IN  [d |-> d, rd_used |-> NeedAlloc(d), is_branch |-> d.is_branch \/ d.is_jump,
       prs1 |-> rat[d.rs1], prs2 |-> rat[d.rs2],
       prs1_ready |-> PregReady(rat[d.rs1], prf_valid),
       prs2_ready |-> PregReady(rat[d.rs2], prf_valid),
       prd |-> prd, old_prd |-> prd, rob_tag |-> rob_tag]

\* pkt_out.  is_branch is is_branch || is_jump: what a checkpoint depends on.
Renamed(d, rob_tag, prf_valid) ==
  [d |-> d, rd_used |-> NeedAlloc(d), is_branch |-> d.is_branch \/ d.is_jump,
   prs1 |-> rat[d.rs1], prs2 |-> rat[d.rs2],
   prs1_ready |-> PregReady(rat[d.rs1], prf_valid),
   prs2_ready |-> PregReady(rat[d.rs2], prf_valid),
   prd |-> IF NeedAlloc(d) THEN FoundPreg ELSE 0,
   old_prd |-> IF NeedAlloc(d) THEN rat[d.rd] ELSE 0,
   rob_tag |-> rob_tag]

\* A clock edge with recover_i = 1.
RenameRecover(recover_tag) ==
  /\ MapRecover(recover_tag)
  /\ FreeRecover(recover_tag)

\* A clock edge with recover_i = 0; fire: rename's handshake.
RenameEdge(d, fire, rob_tag, free_req, free_preg) ==
  LET req  == fire /\ NeedAlloc(d)
      take == CheckpointTake(d, fire)
  IN  /\ FreeEdge(req, free_req, free_preg, take, rob_tag)
      /\ MapEdge(AllocGnt(req), IF fire THEN d.rd ELSE 0, FoundPreg, take, rob_tag)
=============================================================================
