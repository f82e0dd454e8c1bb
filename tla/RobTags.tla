------------------------------- MODULE RobTags ------------------------------
(***************************************************************************)
(* The path of a ROB tag through core_top.sv: rob_tag_alloc gives it to    *)
(* rename, the packet that carries it crosses the rename->dispatch skid    *)
(* buffer and the dispatch fifo, dispatch allocates the ROB entry, and the *)
(* tag is free again when the entry commits or a recovery squashes it.     *)
(*                                                                         *)
(* The rest of the core is the environment, free to act in any order: what *)
(* rename is offered and when (RenameInput), whether the reservation       *)
(* station of the packet has room (rs_ok), which live instructions write   *)
(* back (wb, one per port), and when a live branch that has written back   *)
(* asks for a recovery.                                                    *)
(***************************************************************************)
EXTENDS RobTagAlloc, FiniteSets, Sequences

CONSTANTS
  NoPkt,        \* no packet: valid = 0
  RenameInput   \* the instructions decode may offer rename

\* What the ROB and the allocator need of an instruction: the register that is
\* freed when it commits, if it has a destination, and whether it may redirect.
ASSUME RenameInputAssumption ==
  RenameInput \subseteq [rd_used : BOOLEAN, old_prd : Preg, is_branch : BOOLEAN]

VARIABLES
  r2d_skid,   \* the skid buffer between rename and dispatch
  storage,    \* the dispatch fifo
  branches    \* history: the tags of live ROB entries that are branches or jumps

vars == <<robVars, tagVars, r2d_skid, storage, branches>>

\* The fields of rename_pkt_t that the ROB and the allocator use.
Packet == [rob_tag : Tag, rd_used : BOOLEAN, old_prd : Preg, is_branch : BOOLEAN]

ASSUME NoPktAssumption == NoPkt \notin Packet \cup RenameInput

Skid == INSTANCE SkidBuffer WITH
          Item <- Packet, NoItem <- NoPkt, skid <- r2d_skid
Fifo == INSTANCE DispatchFifo WITH
          Item <- Packet, NoItem <- NoPkt, storage <- storage

TypeOK ==
  /\ RobTypeOK
  /\ TagTypeOK
  /\ Skid!SkidTypeOK
  /\ Fifo!FifoTypeOK
  /\ branches \subseteq Tag

Init ==
  /\ RobInit
  /\ TagInit
  /\ Skid!SkidInit
  /\ Fifo!FifoInit
  /\ branches = {}
-----------------------------------------------------------------------------
\* The packet rename builds around the tag on offer.
Renamed(r) == [rob_tag |-> FreeTag, rd_used |-> r.rd_used,
               old_prd |-> r.old_prd, is_branch |-> r.is_branch]

\* dispatch's fire: a packet, room in the ROB and in its reservation station.
DispatchFire(rs_ok) == storage # NoPkt /\ RobReady /\ rs_ok

\* ready of the skid buffer towards rename, when dispatch fires or not.
RenameReady(fire) == Skid!SkidReady(Fifo!FifoReady(fire))

\* The tags on the three writeback ports: live instructions not yet done.
Writebacks ==
  {wb \in SUBSET {entries[i].tag : i \in {j \in Slot : entries[j].valid
                                                        /\ ~entries[j].done}} :
     Cardinality(wb) <= 3}

\* Branches that have written back and are still in the ROB.
Resolved == {entries[i].tag : i \in {j \in Slot : entries[j].valid /\ entries[j].done}}
              \cap branches

\* history variable: follow the allocation of a branch, forget dead tags.
TrackBranches(fire) ==
  branches' = (IF fire /\ storage.is_branch THEN branches \cup {storage.rob_tag}
                                            ELSE branches) \cap LiveTags'

(***************************************************************************)
(* A cycle without recovery: rename is offered r or nothing (NoPkt),       *)
(* dispatch fires if it can.                                               *)
(***************************************************************************)
Cycle(r, rs_ok, wb) ==
  LET fire  == DispatchFire(rs_ok)
      valid == r # NoPkt /\ TagOk             \* rename's valid_out
      req   == valid /\ RenameReady(fire)     \* rename_fire
      in    == IF valid THEN Renamed(r) ELSE NoPkt
      take  == req /\ r.is_branch
  IN  /\ RobEdge(FALSE, 0, take, FreeTag, fire, storage, wb)
      /\ TagEdge(req, take, FreeTag, fire, IF fire THEN storage.rob_tag ELSE 0)
      /\ Skid!SkidEdge(in, Fifo!FifoReady(fire))
      /\ Fifo!FifoEdge(Skid!SkidOut(in), fire)
      /\ TrackBranches(fire)

(***************************************************************************)
(* The cycle in which recovery_ctrl raises flush and recover for the       *)
(* branch with this tag: dispatch does not fire, the buffers are emptied,  *)
(* but rename may still fire and the ROB may still commit.                 *)
(***************************************************************************)
RecoverCycle(tag, r, wb) ==
  LET req  == r # NoPkt /\ TagOk /\ RenameReady(FALSE)
      take == req /\ r.is_branch
  IN  /\ RobEdge(TRUE, tag, take, FreeTag, FALSE, storage, wb)
      /\ TagRecover(tag)
      /\ Skid!SkidFlush
      /\ Fifo!FifoFlush
      /\ TrackBranches(FALSE)

Run == \E r \in RenameInput \cup {NoPkt}, rs_ok \in BOOLEAN, wb \in Writebacks :
         Cycle(r, rs_ok, wb)

Recover == \E tag \in Resolved, r \in RenameInput \cup {NoPkt}, wb \in Writebacks :
             RecoverCycle(tag, r, wb)

Next == Run \/ Recover

Spec == Init /\ [][Next]_vars
-----------------------------------------------------------------------------
ValidSlots == {i \in Slot : entries[i].valid}

\* The packets between rename and the ROB.
Buffered == {r2d_skid, storage} \ {NoPkt}

(***************************************************************************)
(* No two instructions in flight share a tag: not two ROB entries, not an  *)
(* entry and a reservation, not the two packets on their way to the ROB    *)
(* (rob_tag_alloc.sv, "avoids tag collisions").                            *)
(***************************************************************************)
TagsUnique ==
  /\ \A i, j \in ValidSlots : entries[i].tag = entries[j].tag => i = j
  /\ \A i \in ValidSlots : entries[i].tag \notin reserved
  /\ \A p \in Buffered : p.rob_tag \in reserved
  /\ r2d_skid \in Buffered /\ storage \in Buffered
       => r2d_skid.rob_tag # storage.rob_tag

(***************************************************************************)
(* The valid entries are exactly the slots from head up to tail, and count *)
(* never says there is more room than there is: it may exceed their number *)
(* but stays within ROB_DEPTH (rob.sv, head, tail and count).              *)
(***************************************************************************)
WindowOf(n) ==
  /\ n <= count
  /\ count <= ROB_DEPTH
  /\ \A i \in Slot : entries[i].valid <=> Dist(head, i) < n
  /\ IF n = ROB_DEPTH THEN tail = head ELSE Dist(head, tail) = n

Window == \E n \in 0 .. ROB_DEPTH : WindowOf(n)

(***************************************************************************)
(* The snapshot of a live branch leads a recovery to the slot right after  *)
(* it, with a count that covers the branch and everything older that is    *)
(* still there; a branch on its way to the ROB has its snapshot pending    *)
(* (rob.sv, ckpt_pending and ckpt_ptrs).                                   *)
(***************************************************************************)
SnapshotsCoverBranches ==
  /\ \A i \in ValidSlots : entries[i].tag \in branches =>
       LET snap == ckpt_ptrs[entries[i].tag]
       IN  /\ snap.tail = Inc(i)
           /\ Dist(head, i) < snap.count
           /\ snap.count <= ROB_DEPTH
  /\ \A p \in Buffered : p.is_branch => p.rob_tag \in ckpt_pending

\* The slot n places after head, circularly.
FromHead(n) ==
  IF head + n < ROB_DEPTH THEN head + n ELSE head + n - ROB_DEPTH

\* The live entries, oldest first.
InOrder ==
  [k \in 1 .. Cardinality(ValidSlots) |->
     [tag |-> entries[FromHead(k - 1)].tag, done |-> entries[FromHead(k - 1)].done]]

(***************************************************************************)
(* The ROB is a queue in program order from which a recovery takes exactly *)
(* what is younger than the branch: the entries from head on, as many as   *)
(* are valid, implement RobQueue.                                          *)
(***************************************************************************)
Queue == INSTANCE RobQueue WITH Capacity <- ROB_DEPTH, rob <- InOrder

ImplementsQueue == Queue!Spec
=============================================================================
