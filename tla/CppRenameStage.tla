--------------------------- MODULE CppRenameStage ---------------------------
(***************************************************************************)
(* The classes of cpp/ that rename instructions, together.  The core that  *)
(* would call them was not written; it is the environment here, with the   *)
(* order of calls that Rename::rename needs: FreeList::tick before rename, *)
(* as getAllocPreg is what the last tick found, and MapTable::tick after   *)
(* it, as the sources are looked up there.  ROBTagAlloc::tick is told the  *)
(* tag of a checkpoint before it finds that tag, so a caller needs a tick  *)
(* with the same inputs and alloc_req = 0 first; it changes nothing that   *)
(* the second would not change the same way.  Up to BUFFERED packets wait  *)
(* for dispatch, the ROB retires in order, and a taken branch in the ROB   *)
(* redirects, with flush or without.                                       *)
(***************************************************************************)
EXTENDS CppTagAlloc, CppRename, FiniteSets, Sequences, SequencesExt

CONSTANTS BUFFERED,   \* packets between rename and dispatch: 2
          Decoded     \* the instructions decode may offer

ASSUME BufferedAssumption == BUFFERED \in 1 .. ROB_DEPTH

ASSUME DecodedAssumption == Decoded \subseteq DecodePkt

ASSUME CkptTagAssumption == CkptTag = Tag

VARIABLES
  buffer,   \* the packets on their way to dispatch
  rob,      \* the instructions in the ROB, in program order
  spoiled   \* history: whether one of the three faults below ever happened

vars == <<tagVars, renameVars, buffer, rob, spoiled>>

TagsOf(pkts) == {pkts[k].rob_tag : k \in DOMAIN pkts}
Live == TagsOf(rob)

Distinct(pkts) == \A k, l \in DOMAIN pkts : pkts[k].rob_tag = pkts[l].rob_tag => k = l

TagsUnique == Distinct(rob \o buffer)

(***************************************************************************)
(* What spoils the mapping: two instructions have the same tag, a packet   *)
(* is lost whose producer was told ready, or a branch redirects with flush *)
(* raised, which keeps the checkpoint from being restored.                 *)
(***************************************************************************)
Track(fault) == spoiled' = (spoiled \/ fault \/ ~TagsUnique')

Init == TagInit /\ RenameInit /\ buffer = << >> /\ rob = << >> /\ spoiled = FALSE

(***************************************************************************)
(* A cycle: decode offers d or nothing, dispatch sends a packet to the     *)
(* ROB, the oldest instruction commits.                                    *)
(***************************************************************************)
Cycle(d, valid_in, dispatch, commit) ==
  LET waiting == IF dispatch THEN Tail(buffer) ELSE buffer
      kept == IF commit THEN Tail(rob) ELSE rob
      confirmed == IF dispatch THEN {Head(buffer).rob_tag} ELSE {}
      freed == IF commit /\ Head(rob).rd_used THEN {Head(rob).old_prd} ELSE {}
      used == Used(Live, confirmed)
      tag == FindFreeTag(used)
      fire == valid_in /\ ReadyOut(d, free_map, TagFound(used), Len(waiting) < BUFFERED)
      fl == FreeListAfter(AllocReq(d, fire), freed)
      pkt == RenamePkt(d, fl, TagFound(used), tag)
      take == CheckpointTake(d, fire)
  IN  /\ dispatch => buffer # << >> /\ Len(rob) < ROB_DEPTH
      /\ commit => rob # << >>
      /\ TagTick(fire, Live, confirmed, take, tag)
      /\ RenameTick(fl, MapTableAfter(AllocReq(d, fire), d.rd, fl.alloc_preg_q), take, tag)
      /\ buffer' = IF fire /\ pkt.valid THEN Append(waiting, pkt) ELSE waiting
      /\ rob' = IF dispatch THEN Append(kept, Head(buffer)) ELSE kept
      /\ Track(fire /\ ~pkt.valid)

\* The k-th instruction in the ROB turns out to be a taken branch.
Redirect(k, flush) ==
  /\ rob[k].is_branch
  /\ TagRedirect(flush, rob[k].rob_tag)
  /\ RenameRedirect(flush, rob[k].rob_tag)
  /\ buffer' = << >>
  /\ rob' = SubSeq(rob, 1, k)
  /\ Track(flush)

Bubble == [rd |-> 0, rd_used |-> FALSE, is_branch |-> FALSE]

Run == \E dispatch, commit \in BOOLEAN :
  \/ \E d \in Decoded : Cycle(d, TRUE, dispatch, commit)
  \/ Cycle(Bubble, FALSE, dispatch, commit)

Recovery == \E k \in DOMAIN rob, flush \in BOOLEAN : Redirect(k, flush)

Next == Run \/ Recovery

Spec == Init /\ [][Next]_vars
-----------------------------------------------------------------------------
Packet == [valid : BOOLEAN, rob_tag : Tag, is_branch : BOOLEAN, rd : Areg, rd_used : BOOLEAN,
           prd : Preg, old_prd : Preg]

TypeOK ==
  /\ TagTypeOK /\ RenameTypeOK
  /\ buffer \in Seq(Packet) /\ rob \in Seq(Packet) /\ spoiled \in BOOLEAN

InFlight == rob \o buffer

(***************************************************************************)
(* A tag comes to be shared in one way only: tick clears the reservation   *)
(* of the tag the ROB takes before it looks for a free one, and live_tag   *)
(* does not have it yet, so the tag can be given again in the same tick    *)
(* (rob_tag_alloc.sv, "avoids tag collisions", keeps it until the next).   *)
(***************************************************************************)
SharedAtHandover ==
  [][TagsUnique /\ ~TagsUnique' =>
       /\ buffer # << >> /\ buffer' # << >> /\ rob' # << >>
       /\ Last(rob') = Head(buffer)
       /\ Last(buffer').rob_tag = Last(rob').rob_tag]_vars

(***************************************************************************)
(* The packets that wait for dispatch have reservations, each its own:     *)
(* tick sets one as it gives a tag and clears it as the ROB takes the tag  *)
(* over.  A missing one would let a tag be given while it waits.           *)
(***************************************************************************)
WaitingReserved == TagsOf(buffer) \subseteq reserved /\ Distinct(buffer)

(***************************************************************************)
(* No register has two uses, whatever is flushed, recovered or shared:     *)
(* instructions in flight have destinations of their own, and a free       *)
(* register is neither mapped nor the destination or the former register   *)
(* of any of them (FreeList, MapTable and Rename each hold a part of this, *)
(* and a recovery takes all of it back to another moment).                 *)
(***************************************************************************)
Writers == {k \in DOMAIN InFlight : InFlight[k].rd_used}
Mapped  == {rat[r] : r \in Areg}
Former  == {InFlight[k].old_prd : k \in Writers}

NoDoubleUse ==
  /\ \A k, l \in Writers : InFlight[k].prd = InFlight[l].prd => k = l
  /\ \A r, s \in Areg : rat[r] = rat[s] => r = s
  /\ free_map \cap (Mapped \cup Former \cup {InFlight[k].prd : k \in Writers}) = {}

(***************************************************************************)
(* The mapping is that of the program, recoveries included, unless spoiled *)
(* in one of the three ways: a register is where the last instruction in   *)
(* flight that writes it puts it.  Sharing a tag breaks this later, when   *)
(* the older branch restores the checkpoint of the younger.                *)
(***************************************************************************)
MappingOfProgram ==
  ~spoiled =>
    \A k \in Writers :
      \/ rat[InFlight[k].rd] = InFlight[k].prd
      \/ \E l \in Writers : l > k /\ InFlight[l].rd = InFlight[k].rd

(***************************************************************************)
(* Without a recovery, registers and tags are lost in one way only:        *)
(* FreeList grants the last free register, and rename, which is called     *)
(* after that, finds none and makes the packet invalid, although the       *)
(* producer has been told ready and the tag is reserved.                   *)
(***************************************************************************)
LostPregs == Allocatable \ (free_map \cup Mapped \cup Former)
LostTags  == reserved \ TagsOf(buffer)

GrantsLast == HasFree(free_map) /\ ~HasFree(free_map') /\ Len(buffer') <= Len(buffer)

RenameLosesLast ==
  [][(LostPregs' \subseteq LostPregs /\ LostTags' \subseteq LostTags)
       \/ GrantsLast \/ Recovery]_vars
=============================================================================
