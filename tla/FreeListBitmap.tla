--------------------------- MODULE FreeListBitmap ---------------------------
(***************************************************************************)
(* verilog/free_list_bitmap.sv: the free physical registers, as the set of *)
(* the registers whose bit is 1, with a copy per branch tag.               *)
(***************************************************************************)
EXTENDS OoopTypes

VARIABLES
  free_map,        \* the free registers
  ckpt_free_map    \* per branch tag: free_map after that branch's allocation

freeVars == <<free_map, ckpt_free_map>>

FreeTypeOK ==
  /\ free_map \subseteq Preg
  /\ ckpt_free_map \in [Tag -> SUBSET Preg]

FreeInit ==
  /\ free_map = N_ARCH_REGS .. N_PHYS_REGS - 1
  /\ ckpt_free_map = [t \in Tag |-> {}]

\* The reset values of the first N_ARCH_REGS registers are never handed out,
\* even once their bit is set.
Allocatable == {p \in free_map : p >= N_ARCH_REGS}

HasFree == Allocatable # {}

\* alloc_preg: the lowest, or 0.
FoundPreg == IF HasFree
             THEN CHOOSE p \in Allocatable : \A q \in Allocatable : p <= q
             ELSE 0

AllocGnt(alloc_req) == alloc_req /\ HasFree

\* free_map after this cycle's free and allocation.
NextMap(alloc_req, free_req, free_preg) ==
  (free_map \cup (IF free_req /\ free_preg # 0 THEN {free_preg} ELSE {}))
    \ (IF AllocGnt(alloc_req) THEN {FoundPreg} ELSE {})

\* A clock edge with recover_i = 1: this cycle's free and allocation are lost.
FreeRecover(recover_tag) ==
  /\ free_map' = ckpt_free_map[recover_tag]
  /\ UNCHANGED ckpt_free_map

\* Mutant of FreeEdge: the checkpoint misses the branch's own allocation.
FreeEdgeStale(alloc_req, free_req, free_preg, take, take_tag) ==
  /\ free_map' = NextMap(alloc_req, free_req, free_preg)
  /\ ckpt_free_map' = IF take THEN [ckpt_free_map EXCEPT ![take_tag] = free_map]
                              ELSE ckpt_free_map

\* A clock edge with recover_i = 0.
FreeEdge(alloc_req, free_req, free_preg, take, take_tag) ==
  LET next == NextMap(alloc_req, free_req, free_preg)
  IN  /\ free_map' = next
      /\ ckpt_free_map' = IF take THEN [ckpt_free_map EXCEPT ![take_tag] = next]
                                  ELSE ckpt_free_map
=============================================================================
