--------------------------------- MODULE Rob --------------------------------
(***************************************************************************)
(* verilog/rob.sv: the reorder buffer.  A circular buffer of ROB_DEPTH     *)
(* entries that dispatch fills at tail, the three writeback ports mark     *)
(* done by tag, and commit empties at head; a recovery squashes what is    *)
(* younger than the mispredicted branch and restores tail and count from   *)
(* the snapshot taken when that branch was allocated.                      *)
(*                                                                         *)
(* The module has the flip-flops as variables, the combinational outputs   *)
(* as operators, and one action for the clock edge, whose parameters are   *)
(* the input wires of the cycle.  A reset is RobInit.  rob.sv also has an  *)
(* edge for flush_i without recover_i (135-147); recovery_ctrl.sv drives   *)
(* both from one register, so that edge never happens.                     *)
(***************************************************************************)
EXTENDS OoopTypes

\* count and the snapshot's count have one bit more than a pointer.
Count == 0 .. 2 * ROB_DEPTH - 1

CountInc(c) == IF c = 2 * ROB_DEPTH - 1 THEN 0 ELSE c + 1
CountDec(c) == IF c = 0 THEN 2 * ROB_DEPTH - 1 ELSE c - 1

VARIABLES
  entries,       \* the ROB entries
  head, tail,    \* oldest entry, next slot to allocate
  count,         \* how many entries the ROB believes it holds
  ckpt_ptrs,     \* per tag: tail and count after that branch's allocation (the
                 \* head saved with them is never read, and is left out)
  ckpt_pending   \* tags renamed as branches and not yet allocated

robVars == <<entries, head, tail, count, ckpt_ptrs, ckpt_pending>>

Entry == [valid : BOOLEAN, done : BOOLEAN, tag : Tag,
          rd_used : BOOLEAN, old_prd : Preg]

ZeroEntry == [valid |-> FALSE, done |-> FALSE, tag |-> 0,
              rd_used |-> FALSE, old_prd |-> 0]

Snapshot == [tail : Slot, count : Count]

RobTypeOK ==
  /\ entries \in [Slot -> Entry]
  /\ head \in Slot
  /\ tail \in Slot
  /\ count \in Count
  /\ ckpt_ptrs \in [Tag -> Snapshot]
  /\ ckpt_pending \subseteq Tag

RobInit ==
  /\ entries = [i \in Slot |-> ZeroEntry]
  /\ head = 0
  /\ tail = 0
  /\ count = 0
  /\ ckpt_ptrs = [t \in Tag |-> [tail |-> 0, count |-> 0]]
  /\ ckpt_pending = {}
-----------------------------------------------------------------------------
\* Mutant of RobReady: off by one.
RobReadyOffByOne == count <= ROB_DEPTH

\* ready_o: room for one more entry, by the count.
RobReady == count < ROB_DEPTH

\* Mutant of CommitFire: without the writeback.
CommitFireEarly == count # 0 /\ entries[head].valid

\* commit_fire: the head has written back.  Not gated by a recovery.
CommitFire == count # 0 /\ entries[head].valid /\ entries[head].done

\* free_req_o, with free_preg_o = entries[head].old_prd.
FreeReq == CommitFire /\ entries[head].rd_used /\ entries[head].old_prd # 0

\* live_tag_o, as the set of the tags whose bit is 1.
LiveTags == {entries[i].tag : i \in {j \in Slot : entries[j].valid}}
-----------------------------------------------------------------------------
\* The slots a recovery of tag clears: from the snapshot's tail up to tail.
Squashed(tag) ==
  {i \in Slot : Dist(ckpt_ptrs[tag].tail, i) < Dist(ckpt_ptrs[tag].tail, tail)}

\* One of the writeback ports names this entry (wb: the tags written back).
WbHit(i, wb) ==
  entries[i].valid /\ ~entries[i].done /\ entries[i].tag \in wb

NewEntry(pkt) ==
  [valid |-> TRUE, done |-> FALSE, tag |-> pkt.rob_tag,
   rd_used |-> pkt.rd_used, old_prd |-> pkt.old_prd]

\* A packet offered while count is below ROB_DEPTH is allocated.
AllocFire(alloc) == alloc /\ RobReady

\* The contents after the edge; later assignments of the source win.
NextEntry(i, recover, recover_tag, alloc, pkt, wb) ==
  IF AllocFire(alloc) /\ i = tail THEN NewEntry(pkt)
  ELSE IF CommitFire /\ i = head THEN ZeroEntry
  ELSE LET kept == IF recover /\ i \in Squashed(recover_tag)
                   THEN ZeroEntry ELSE entries[i]
       IN  IF WbHit(i, wb) THEN [kept EXCEPT !.done = TRUE] ELSE kept

NextTail(recover, recover_tag, alloc) ==
  IF AllocFire(alloc) THEN Inc(tail)
  ELSE IF recover THEN ckpt_ptrs[recover_tag].tail
  ELSE tail

\* A recovery takes the snapshot's count, less one if the head also commits.
NextCount(recover, recover_tag, alloc) ==
  IF recover
  THEN IF CommitFire THEN CountDec(ckpt_ptrs[recover_tag].count)
                     ELSE ckpt_ptrs[recover_tag].count
  ELSE IF AllocFire(alloc) /\ ~CommitFire THEN CountInc(count)
  ELSE IF CommitFire /\ ~AllocFire(alloc) THEN CountDec(count)
  ELSE count

\* The pending bits: a recovery clears them all, even the one this cycle's
\* rename sets is set after that; the allocation of a pending tag uses it up.
Snapshots(alloc, pkt) == AllocFire(alloc) /\ pkt.rob_tag \in ckpt_pending

\* Mutant of NextPending: an allocation in the same cycle hides the take.
NextPendingShadowed(recover, take, take_tag, alloc, pkt) ==
  IF Snapshots(alloc, pkt) THEN ckpt_pending \ {pkt.rob_tag}
  ELSE (IF recover THEN {} ELSE ckpt_pending) \cup (IF take THEN {take_tag} ELSE {})

NextPending(recover, take, take_tag, alloc, pkt) ==
  ((IF recover THEN {} ELSE ckpt_pending) \cup (IF take THEN {take_tag} ELSE {}))
    \ (IF Snapshots(alloc, pkt) THEN {pkt.rob_tag} ELSE {})

(***************************************************************************)
(* A clock edge.  recover, recover_tag: recover_i and its tag.             *)
(* take, take_tag: checkpoint_take_i and its tag.  alloc, pkt:             *)
(* alloc_valid_i and alloc_pkt_i.  wb: the tags on valid writeback ports.  *)
(***************************************************************************)
RobEdge(recover, recover_tag, take, take_tag, alloc, pkt, wb) ==
  /\ entries' = [i \in Slot |->
                   NextEntry(i, recover, recover_tag, alloc, pkt, wb)]
  /\ head' = IF CommitFire THEN Inc(head) ELSE head
  /\ tail' = NextTail(recover, recover_tag, alloc)
  /\ count' = NextCount(recover, recover_tag, alloc)
  /\ ckpt_pending' = NextPending(recover, take, take_tag, alloc, pkt)
  /\ ckpt_ptrs' = IF Snapshots(alloc, pkt)
                  THEN [ckpt_ptrs EXCEPT ![pkt.rob_tag] =
                          [tail |-> Inc(tail), count |-> CountInc(count)]]
                  ELSE ckpt_ptrs
=============================================================================
