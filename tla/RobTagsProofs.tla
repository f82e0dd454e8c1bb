---------------------------- MODULE RobTagsProofs ---------------------------
(***************************************************************************)
(* Proofs about RobTags, for every ROB depth: its type invariant, that     *)
(* tags are never shared, that the valid entries are a window with room    *)
(* for what dispatch allocates, and that every live branch has a snapshot  *)
(* a recovery can use; and with these, that the ROB is a queue (RobQueue). *)
(***************************************************************************)
EXTENDS RobTags, NatLemmas, FiniteSetTheorems, FunctionTheorems, SequenceTheorems

USE RobDepthAssumption, PhysRegsAssumption
-----------------------------------------------------------------------------
(***************************************************************************)
(* Arithmetic of the circular buffer.                                      *)
(***************************************************************************)

\* The pointers and their distances stay in range.
LEMMA SlotTypes ==
  ASSUME NEW i \in Slot, NEW j \in Slot
  PROVE  /\ Inc(i) \in Slot
         /\ Dist(i, j) \in 0 .. ROB_DEPTH - 1
         /\ Dist(i, j) = 0 <=> i = j
  BY DEF Slot, Inc, Dist

\* Moving the origin of a distance forward.
LEMMA DistFromNext ==
  ASSUME NEW i \in Slot, NEW j \in Slot
  PROVE  Dist(Inc(i), j) = IF i = j THEN ROB_DEPTH - 1 ELSE Dist(i, j) - 1
  BY DEF Slot, Inc, Dist

\* Moving the target of a distance forward.
LEMMA DistToNext ==
  ASSUME NEW i \in Slot, NEW j \in Slot
  PROVE  Dist(i, Inc(j)) =
           IF Dist(i, j) = ROB_DEPTH - 1 THEN 0 ELSE Dist(i, j) + 1
  BY DEF Slot, Inc, Dist

\* A slot is known by its distance from a given one.
LEMMA DistInjective ==
  ASSUME NEW h \in Slot, NEW i \in Slot, NEW j \in Slot, Dist(h, i) = Dist(h, j)
  PROVE  i = j
  BY DEF Slot, Dist

\* What lies between b (excluded) and t, measured from an origin h.
LEMMA DistBetween ==
  ASSUME NEW h \in Slot, NEW b \in Slot, NEW i \in Slot, NEW t \in Slot
  PROVE  Dist(Inc(b), i) < Dist(Inc(b), t) <=>
           IF Dist(h, b) < Dist(h, t)
           THEN Dist(h, b) < Dist(h, i) /\ Dist(h, i) < Dist(h, t)
           ELSE Dist(h, b) < Dist(h, i) \/ Dist(h, i) < Dist(h, t)
  BY DEF Slot, Inc, Dist
-----------------------------------------------------------------------------
(***************************************************************************)
(* The tag allocator.                                                      *)
(***************************************************************************)

\* The allocator offers a tag that is neither live nor reserved, if there is one.
LEMMA FreeTagType ==
  ASSUME next_tag \in Tag
  PROVE  /\ FreeTag \in Tag
         /\ TagOk => FreeTag \notin Used
<1>1. CASE TagOk
  <2> DEFINE D == {Dist(next_tag, t) : t \in Tag \ Used}
  <2>1. D \subseteq Nat
    BY SlotTypes DEF Slot, Tag
  <2>2. D # {}
    BY <1>1 DEF TagOk
  <2>3. PICK d \in D : \A e \in D : d <= e
    BY <2>1, <2>2, LeastElement
  <2>4. PICK t \in Tag \ Used : d = Dist(next_tag, t)
    OBVIOUS
  <2>5. \A u \in Tag \ Used : Dist(next_tag, t) <= Dist(next_tag, u)
    BY <2>3, <2>4
  <2>6. FreeTag \in Tag \ Used
    BY <1>1, <2>5 DEF FreeTag
  <2> QED BY <2>6
<1>2. CASE ~TagOk
  BY <1>2 DEF FreeTag
<1> QED BY <1>1, <1>2
-----------------------------------------------------------------------------
(***************************************************************************)
(* A clock edge of the ROB.                                                *)
(***************************************************************************)

\* The count arithmetic does not wrap where it is used.
LEMMA CountTypes ==
  ASSUME NEW c \in Count
  PROVE  /\ CountInc(c) \in Count
         /\ CountDec(c) \in Count
         /\ c <= ROB_DEPTH => CountInc(c) = c + 1
         /\ c # 0 => CountDec(c) = c - 1
  BY DEF Count, CountInc, CountDec

\* What an entry holds after the edge.
EntryStep(i, recover, recover_tag, alloc, pkt, next) ==
  /\ next \in Entry
  /\ next.valid <=> \/ AllocFire(alloc) /\ i = tail
                    \/ /\ entries[i].valid
                       /\ ~(CommitFire /\ i = head)
                       /\ ~(recover /\ i \in Squashed(recover_tag))
  /\ AllocFire(alloc) /\ i = tail => next.tag = pkt.rob_tag /\ ~next.done
  /\ ~(AllocFire(alloc) /\ i = tail) /\ next.valid =>
       next.tag = entries[i].tag /\ (entries[i].done => next.done)

LEMMA EntryAfter ==
  ASSUME RobTypeOK,
         NEW recover \in BOOLEAN, NEW recover_tag \in Tag,
         NEW alloc \in BOOLEAN, NEW pkt, AllocFire(alloc) => pkt \in Packet,
         NEW wb, NEW i \in Slot
  PROVE  EntryStep(i, recover, recover_tag, alloc, pkt,
                   NextEntry(i, recover, recover_tag, alloc, pkt, wb))
<1> USE DEF EntryStep
<1> DEFINE kept == IF recover /\ i \in Squashed(recover_tag)
                   THEN ZeroEntry ELSE entries[i]
<1>1. ZeroEntry \in Entry /\ ~ZeroEntry.valid
  BY DEF ZeroEntry, Entry, Tag, Preg
<1>2. entries[i] \in Entry
  BY DEF RobTypeOK
<1>3. CASE AllocFire(alloc) /\ i = tail
  <2>1. NextEntry(i, recover, recover_tag, alloc, pkt, wb) = NewEntry(pkt)
    BY <1>3 DEF NextEntry
  <2>2. pkt \in Packet
    BY <1>3
  <2> QED BY <1>3, <2>1, <2>2 DEF NewEntry, Entry, Packet
<1>4. CASE ~(AllocFire(alloc) /\ i = tail) /\ CommitFire /\ i = head
  BY <1>1, <1>4 DEF NextEntry
<1>5. CASE ~(AllocFire(alloc) /\ i = tail) /\ ~(CommitFire /\ i = head)
  <2>1. NextEntry(i, recover, recover_tag, alloc, pkt, wb) =
          IF WbHit(i, wb) THEN [kept EXCEPT !.done = TRUE] ELSE kept
    BY <1>5 DEF NextEntry
  <2>2. kept \in Entry
    BY <1>1, <1>2
  <2>3. /\ [kept EXCEPT !.done = TRUE] \in Entry
        /\ [kept EXCEPT !.done = TRUE].valid = kept.valid
        /\ [kept EXCEPT !.done = TRUE].tag = kept.tag
        /\ [kept EXCEPT !.done = TRUE].done
    BY <2>2 DEF Entry
  <2> HIDE DEF kept
  <2>4. LET next == NextEntry(i, recover, recover_tag, alloc, pkt, wb)
        IN /\ next \in Entry
           /\ next.valid = kept.valid
           /\ next.tag = kept.tag
           /\ kept.done => next.done
    BY <2>1, <2>2, <2>3
  <2>5. kept.valid <=> entries[i].valid /\ ~(recover /\ i \in Squashed(recover_tag))
    BY <1>1, <1>2 DEF kept
  <2>6. kept.valid => kept.tag = entries[i].tag /\ kept.done = entries[i].done
    BY <1>1 DEF kept
  <2> QED BY <1>5, <2>4, <2>5, <2>6
<1> QED BY <1>3, <1>4, <1>5

\* An edge keeps the types of the ROB.
LEMMA RobEdgeType ==
  ASSUME RobTypeOK,
         NEW recover \in BOOLEAN, NEW recover_tag \in Tag,
         NEW take \in BOOLEAN, NEW take_tag \in Tag,
         NEW alloc \in BOOLEAN, NEW pkt, AllocFire(alloc) => pkt \in Packet,
         NEW wb,
         RobEdge(recover, recover_tag, take, take_tag, alloc, pkt, wb)
  PROVE  RobTypeOK'
<1>1. entries' \in [Slot -> Entry]
  <2>1. ASSUME NEW i \in Slot
        PROVE  NextEntry(i, recover, recover_tag, alloc, pkt, wb) \in Entry
    BY EntryAfter DEF EntryStep
  <2> QED BY <2>1 DEF RobEdge
<1>2. head' \in Slot
  BY SlotTypes DEF RobEdge, RobTypeOK
<1>3. tail' \in Slot
  BY SlotTypes DEF RobEdge, RobTypeOK, NextTail, Snapshot
<1>4. count' \in Count
  <2>1. ckpt_ptrs[recover_tag].count \in Count
    BY DEF RobTypeOK, Snapshot
  <2> QED BY <2>1, CountTypes DEF RobEdge, RobTypeOK, NextCount
<1>5. ckpt_ptrs' \in [Tag -> Snapshot]
  <2>1. CASE Snapshots(alloc, pkt)
    <3>1. [tail |-> Inc(tail), count |-> CountInc(count)] \in Snapshot
      BY SlotTypes, CountTypes DEF RobTypeOK, Snapshot
    <3> QED BY <2>1, <3>1 DEF RobEdge, RobTypeOK
  <2>2. CASE ~Snapshots(alloc, pkt)
    BY <2>2 DEF RobEdge, RobTypeOK
  <2> QED BY <2>1, <2>2
<1>6. ckpt_pending' \subseteq Tag
  BY DEF RobEdge, RobTypeOK, NextPending
<1> QED BY <1>1, <1>2, <1>3, <1>4, <1>5, <1>6 DEF RobTypeOK

\* How many entries are valid after an edge without and with a recovery.
SizeAfterRun(n, alloc) ==
  (IF CommitFire THEN n - 1 ELSE n) + (IF AllocFire(alloc) THEN 1 ELSE 0)
SizeAfterRecover(b) == IF CommitFire THEN Dist(head, b) ELSE Dist(head, b) + 1

\* Without a recovery, the window moves: allocation extends it at tail, commit
\* shortens it at head.
LEMMA WindowAfterRun ==
  ASSUME RobTypeOK, NEW n \in 0 .. ROB_DEPTH, WindowOf(n),
         NEW recover_tag \in Tag, NEW take, NEW take_tag,
         NEW alloc \in BOOLEAN, NEW pkt, AllocFire(alloc) => pkt \in Packet,
         NEW wb,
         RobEdge(FALSE, recover_tag, take, take_tag, alloc, pkt, wb)
  PROVE  /\ AllocFire(alloc) => n < ROB_DEPTH /\ Dist(head, tail) = n
         /\ CommitFire => n > 0
         /\ \E m \in 0 .. ROB_DEPTH :
              /\ m = SizeAfterRun(n, alloc)
              /\ WindowOf(m)'
<1> DEFINE fire == AllocFire(alloc)
<1>1. WindowOf(n)
  OBVIOUS
<1>2. fire => n < ROB_DEPTH /\ count < ROB_DEPTH /\ Dist(head, tail) = n
  BY <1>1 DEF WindowOf, AllocFire, RobReady, RobTypeOK, Count
<1>3. CommitFire => n > 0 /\ count > 0
  <2>1. CommitFire => entries[head].valid /\ count # 0
    BY DEF CommitFire
  <2>2. Dist(head, head) = 0
    BY SlotTypes DEF RobTypeOK
  <2>3. entries[head].valid => 0 < n
    BY <1>1, <2>2 DEF WindowOf, RobTypeOK
  <2> QED BY <2>1, <2>3 DEF RobTypeOK, Count
<1>4. \A i \in Slot : entries'[i].valid <=>
        \/ fire /\ Dist(head, i) = n
        \/ Dist(head, i) < n /\ ~(CommitFire /\ i = head)
  <2> SUFFICES ASSUME NEW i \in Slot
               PROVE  entries'[i].valid <=>
                        \/ fire /\ Dist(head, i) = n
                        \/ Dist(head, i) < n /\ ~(CommitFire /\ i = head)
    OBVIOUS
  <2>1. EntryStep(i, FALSE, recover_tag, alloc, pkt, entries'[i])
    BY EntryAfter DEF RobEdge
  <2>2. entries[i].valid <=> Dist(head, i) < n
    BY <1>1 DEF WindowOf
  <2>3. fire => (i = tail <=> Dist(head, i) = n)
    BY <1>2, DistInjective DEF RobTypeOK
  <2> QED BY <2>1, <2>2, <2>3 DEF EntryStep
<1>5. PICK m \in 0 .. ROB_DEPTH :
        m = IF fire THEN IF CommitFire THEN n ELSE n + 1
                    ELSE IF CommitFire THEN n - 1 ELSE n
  BY <1>2, <1>3
<1>6. head' = (IF CommitFire THEN Inc(head) ELSE head)
      /\ tail' = (IF fire THEN Inc(tail) ELSE tail)
  BY DEF RobEdge, NextTail
<1>7. count' = IF fire THEN IF CommitFire THEN count ELSE count + 1
                       ELSE IF CommitFire THEN count - 1 ELSE count
  <2>1. count' = IF fire /\ ~CommitFire THEN CountInc(count)
                 ELSE IF CommitFire /\ ~fire THEN CountDec(count) ELSE count
    BY DEF RobEdge, NextCount
  <2>2. count \in Count
    BY DEF RobTypeOK
  <2>3. fire => CountInc(count) = count + 1
    BY <1>2, <2>2, CountTypes DEF Count
  <2>4. CommitFire => CountDec(count) = count - 1
    BY <1>3, <2>2, CountTypes DEF Count
  <2> QED BY <2>1, <2>3, <2>4
<1>8. m <= count' /\ count' <= ROB_DEPTH
  BY <1>1, <1>2, <1>3, <1>5, <1>7 DEF WindowOf, RobTypeOK, Count
<1>9. \A i \in Slot : entries'[i].valid <=> Dist(head', i) < m
  <2> SUFFICES ASSUME NEW i \in Slot
               PROVE  entries'[i].valid <=> Dist(head', i) < m
    OBVIOUS
  <2>1. Dist(head, i) \in 0 .. ROB_DEPTH - 1 /\ (Dist(head, i) = 0 <=> i = head)
    BY SlotTypes DEF RobTypeOK
  <2>2. Dist(Inc(head), i) = IF i = head THEN ROB_DEPTH - 1 ELSE Dist(head, i) - 1
    BY DistFromNext DEF RobTypeOK
  <2> QED BY <1>2, <1>3, <1>4, <1>5, <1>6, <2>1, <2>2
<1>10. IF m = ROB_DEPTH THEN tail' = head' ELSE Dist(head', tail') = m
  <2>1. IF n = ROB_DEPTH THEN tail = head ELSE Dist(head, tail) = n
    BY <1>1 DEF WindowOf
  <2>2. head \in Slot /\ tail \in Slot
    BY DEF RobTypeOK
  <2> QED BY <1>2, <1>3, <1>5, <1>6, <2>1, <2>2 DEF Slot, Inc, Dist
<1>11. WindowOf(m)'
  BY <1>8, <1>9, <1>10 DEF WindowOf
<1>12. m = SizeAfterRun(n, alloc)
  BY <1>5 DEF SizeAfterRun
<1> QED BY <1>2, <1>3, <1>11, <1>12

\* A recovery for a branch in slot b, whose snapshot points behind it, cuts the
\* window after b.
LEMMA WindowAfterRecover ==
  ASSUME RobTypeOK, Window,
         NEW b \in Slot, entries[b].valid,
         NEW recover_tag \in Tag,
         ckpt_ptrs[recover_tag].tail = Inc(b),
         Dist(head, b) < ckpt_ptrs[recover_tag].count,
         ckpt_ptrs[recover_tag].count <= ROB_DEPTH,
         NEW take, NEW take_tag, NEW pkt, NEW wb,
         RobEdge(TRUE, recover_tag, take, take_tag, FALSE, pkt, wb)
  PROVE  /\ \E m \in 0 .. ROB_DEPTH : m = SizeAfterRecover(b) /\ WindowOf(m)'
         /\ \A i \in Slot : entries'[i].valid <=>
               Dist(head, i) <= Dist(head, b) /\ ~(CommitFire /\ i = head)
<1> DEFINE d == Dist(head, b)
           snap == ckpt_ptrs[recover_tag]
<1>1. PICK n \in 0 .. ROB_DEPTH : WindowOf(n)
  BY DEF Window
<1>2. d \in 0 .. ROB_DEPTH - 1 /\ d < n
  BY <1>1, SlotTypes DEF WindowOf, RobTypeOK
<1>3. \A i \in Slot : entries'[i].valid <=>
        Dist(head, i) <= d /\ ~(CommitFire /\ i = head)
  <2> SUFFICES ASSUME NEW i \in Slot
               PROVE  entries'[i].valid <=>
                        Dist(head, i) <= d /\ ~(CommitFire /\ i = head)
    OBVIOUS
  <2>1. EntryStep(i, TRUE, recover_tag, FALSE, pkt, entries'[i])
    BY EntryAfter DEF RobEdge, AllocFire
  <2>2. entries[i].valid <=> Dist(head, i) < n
    BY <1>1 DEF WindowOf
  <2>3. i \in Squashed(recover_tag) <=> Dist(Inc(b), i) < Dist(Inc(b), tail)
    BY DEF Squashed
  <2>4. Dist(Inc(b), i) < Dist(Inc(b), tail) <=>
          IF d < Dist(head, tail)
          THEN d < Dist(head, i) /\ Dist(head, i) < Dist(head, tail)
          ELSE d < Dist(head, i) \/ Dist(head, i) < Dist(head, tail)
    BY DistBetween DEF RobTypeOK
  <2>5. IF n = ROB_DEPTH THEN Dist(head, tail) = 0 ELSE Dist(head, tail) = n
    BY <1>1, SlotTypes DEF WindowOf, RobTypeOK
  <2>6. Dist(head, i) \in 0 .. ROB_DEPTH - 1
    BY SlotTypes DEF RobTypeOK
  <2>7. Dist(head, i) < n => (i \in Squashed(recover_tag) <=> d < Dist(head, i))
    BY <1>2, <2>3, <2>4, <2>5, <2>6
  <2> QED BY <1>2, <2>1, <2>2, <2>6, <2>7 DEF EntryStep, AllocFire
<1>4. PICK m \in 0 .. ROB_DEPTH : m = IF CommitFire THEN d ELSE d + 1
  BY <1>2
<1>5. /\ head' = IF CommitFire THEN Inc(head) ELSE head
      /\ tail' = Inc(b)
  BY DEF RobEdge, NextTail, AllocFire
<1>6. m <= count' /\ count' <= ROB_DEPTH
  <2>1. snap.count \in Count
    BY DEF RobTypeOK, Snapshot
  <2>2. count' = IF CommitFire THEN CountDec(snap.count) ELSE snap.count
    BY DEF RobEdge, NextCount
  <2>3. CountDec(snap.count) = snap.count - 1
    BY <1>2, <2>1, CountTypes DEF Count
  <2> QED BY <1>2, <1>4, <2>1, <2>2, <2>3 DEF Count
<1>7. \A i \in Slot : entries'[i].valid <=> Dist(head', i) < m
  <2> SUFFICES ASSUME NEW i \in Slot
               PROVE  entries'[i].valid <=> Dist(head', i) < m
    OBVIOUS
  <2>1. Dist(head, i) \in 0 .. ROB_DEPTH - 1 /\ (Dist(head, i) = 0 <=> i = head)
    BY SlotTypes DEF RobTypeOK
  <2>2. Dist(Inc(head), i) = IF i = head THEN ROB_DEPTH - 1 ELSE Dist(head, i) - 1
    BY DistFromNext DEF RobTypeOK
  <2> QED BY <1>2, <1>3, <1>4, <1>5, <2>1, <2>2
<1>8. IF m = ROB_DEPTH THEN tail' = head' ELSE Dist(head', tail') = m
  BY <1>2, <1>4, <1>5 DEF RobTypeOK, Slot, Inc, Dist
<1>9. WindowOf(m)'
  BY <1>6, <1>7, <1>8 DEF WindowOf
<1> QED BY <1>3, <1>4, <1>9 DEF SizeAfterRecover
-----------------------------------------------------------------------------
(***************************************************************************)
(* The inductive invariant: what the runs check, and that the tags in      *)
(* branches are live.                                                      *)
(***************************************************************************)
BranchesLive == branches \subseteq LiveTags

Inv ==
  /\ TypeOK
  /\ TagsUnique
  /\ Window
  /\ SnapshotsCoverBranches
  /\ BranchesLive

LEMMA InitInv == Init => Inv
<1> SUFFICES ASSUME Init PROVE Inv
  OBVIOUS
<1> USE DEF Init, RobInit, TagInit, Skid!SkidInit, Fifo!FifoInit
<1>1. ZeroEntry \in Entry /\ ~ZeroEntry.valid
  BY DEF ZeroEntry, Entry, Tag, Preg
<1>2. \A i \in Slot : entries[i] = ZeroEntry
  OBVIOUS
<1>3. ValidSlots = {} /\ Buffered = {}
  BY <1>1, <1>2 DEF ValidSlots, Buffered
<1>4. TypeOK
  BY <1>1 DEF TypeOK, RobTypeOK, TagTypeOK, Skid!SkidTypeOK, Fifo!FifoTypeOK,
              Slot, Tag, Snapshot, Count
<1>5. TagsUnique
  BY <1>3 DEF TagsUnique
<1>6. Window
  <2>1. 0 \in Slot /\ Dist(0, 0) = 0 /\ (\A i \in Slot : ~(Dist(0, i) < 0))
    BY DEF Slot, Dist
  <2>2. WindowOf(0)
    BY <1>1, <1>2, <2>1 DEF WindowOf
  <2> QED BY <2>2 DEF Window
<1>7. SnapshotsCoverBranches
  BY <1>3 DEF SnapshotsCoverBranches
<1>8. BranchesLive
  BY DEF BranchesLive
<1> QED BY <1>4, <1>5, <1>6, <1>7, <1>8 DEF Inv

\* Which tags are live, entry by entry.
LEMMA LiveTagsAre ==
  ASSUME NEW t
  PROVE  t \in LiveTags <=> \E i \in ValidSlots : entries[i].tag = t
  BY DEF LiveTags, ValidSlots

\* Where the packets are after a cycle: if the fifo takes one (go), it takes the
\* stored one first and the skid buffer is empty; if not, the skid buffer stores
\* the new packet if it is empty.
LEMMA BuffersAfterRun ==
  ASSUME NEW fire \in BOOLEAN, fire => storage # NoPkt, NEW in,
         Skid!SkidEdge(in, Fifo!FifoReady(fire)),
         Fifo!FifoEdge(Skid!SkidOut(in), fire)
  PROVE  LET go   == fire \/ storage = NoPkt
             next == IF r2d_skid # NoPkt THEN r2d_skid ELSE in
         IN  /\ go => storage' = next /\ r2d_skid' = NoPkt
             /\ ~go => storage' = storage /\ r2d_skid' = next
             /\ RenameReady(fire) <=> go \/ r2d_skid = NoPkt
  BY DEF Skid!SkidEdge, Skid!SkidOut, Skid!SkidReady, Fifo!FifoEdge,
         Fifo!FifoReady, Fifo!FifoPush, Fifo!FifoPop, RenameReady

\* Rename's packet carries the tag on offer.
LEMMA RenamedType ==
  ASSUME next_tag \in Tag, NEW r \in RenameInput
  PROVE  /\ Renamed(r) \in Packet
         /\ Renamed(r).rob_tag = FreeTag
         /\ Renamed(r).is_branch = r.is_branch
  BY FreeTagType, RenameInputAssumption DEF Renamed, Packet

\* A cycle without recovery keeps the invariant.
LEMMA RunStep ==
  ASSUME Inv, NEW r \in RenameInput \cup {NoPkt}, NEW rs_ok \in BOOLEAN, NEW wb,
         Cycle(r, rs_ok, wb)
  PROVE  Inv'
<1> DEFINE fire  == DispatchFire(rs_ok)
           valid == r # NoPkt /\ TagOk
           req   == valid /\ RenameReady(fire)
           in    == IF valid THEN Renamed(r) ELSE NoPkt
           take  == req /\ r.is_branch
           go    == fire \/ storage = NoPkt
           next  == IF r2d_skid # NoPkt THEN r2d_skid ELSE in
<1>1. /\ RobEdge(FALSE, 0, take, FreeTag, fire, storage, wb)
      /\ TagEdge(req, take, FreeTag, fire, IF fire THEN storage.rob_tag ELSE 0)
      /\ Skid!SkidEdge(in, Fifo!FifoReady(fire))
      /\ Fifo!FifoEdge(Skid!SkidOut(in), fire)
      /\ TrackBranches(fire)
  BY DEF Cycle
<1>2. /\ RobTypeOK
      /\ TagTypeOK
      /\ r2d_skid \in Packet \cup {NoPkt}
      /\ storage \in Packet \cup {NoPkt}
      /\ branches \subseteq Tag
  BY DEF Inv, TypeOK, Skid!SkidTypeOK, Fifo!FifoTypeOK
<1>3. /\ FreeTag \in Tag
      /\ TagOk => FreeTag \notin LiveTags /\ FreeTag \notin reserved
  BY <1>2, FreeTagType DEF TagTypeOK, Used
<1>4. /\ in \in Packet \cup {NoPkt}
      /\ in # NoPkt <=> valid
      /\ in # NoPkt => in.rob_tag = FreeTag /\ in.is_branch = r.is_branch
  BY <1>2, RenamedType, NoPktAssumption DEF TagTypeOK
<1>5. /\ fire => storage \in Packet /\ storage # NoPkt
      /\ AllocFire(fire) <=> fire
      /\ fire \in BOOLEAN /\ req \in BOOLEAN
  BY <1>2 DEF DispatchFire, AllocFire
<1>6. /\ take \in BOOLEAN
      /\ take <=> req /\ r.is_branch
      /\ req <=> valid /\ RenameReady(fire)
      /\ valid => TagOk
      /\ 0 \in Tag
  BY DEF Tag
<1> HIDE DEF fire, in, valid, req, take
<1>7. /\ go => storage' = next /\ r2d_skid' = NoPkt
      /\ ~go => storage' = storage /\ r2d_skid' = next
      /\ RenameReady(fire) <=> go \/ r2d_skid = NoPkt
  BY <1>1, <1>5, BuffersAfterRun
<1>8. /\ reserved' = (reserved \ (IF fire THEN {storage.rob_tag} ELSE {}))
                       \cup (IF req THEN {FreeTag} ELSE {})
      /\ next_tag' = IF req THEN Inc(FreeTag) ELSE next_tag
      /\ ckpt_next_tag' = IF take
                          THEN [ckpt_next_tag EXCEPT ![FreeTag] = NextTag(req)]
                          ELSE ckpt_next_tag
  BY <1>1, <1>6 DEF TagEdge, TagAllocated, NextTag
<1>9. TypeOK'
  <2>1. RobTypeOK'
    BY <1>1, <1>2, <1>3, <1>5, <1>6, RobEdgeType
  <2>2. TagTypeOK'
    BY <1>2, <1>3, <1>5, <1>8, SlotTypes DEF TagTypeOK, NextTag, Slot, Tag
  <2>3. Skid!SkidTypeOK' /\ Fifo!FifoTypeOK'
    BY <1>2, <1>4, <1>7 DEF Skid!SkidTypeOK, Fifo!FifoTypeOK
  <2>4. branches' \subseteq Tag
    BY <1>1, <1>2, <1>5 DEF TrackBranches, Packet
  <2> QED BY <2>1, <2>2, <2>3, <2>4 DEF TypeOK
<1>10. Window'
  <2>1. PICK n \in 0 .. ROB_DEPTH : WindowOf(n)
    BY DEF Inv, Window
  <2>2. \E m \in 0 .. ROB_DEPTH : WindowOf(m)'
    BY <1>1, <1>2, <1>5, <1>6, <2>1, WindowAfterRun
  <2> QED BY <2>2 DEF Window
<1>11. \A i \in Slot : entries'[i].valid =>
         \/ fire /\ i = tail /\ entries'[i].tag = storage.rob_tag
         \/ /\ ~(fire /\ i = tail)
            /\ entries[i].valid
            /\ ~(CommitFire /\ i = head)
            /\ entries'[i].tag = entries[i].tag
  <2> SUFFICES ASSUME NEW i \in Slot
               PROVE  EntryStep(i, FALSE, 0, fire, storage, entries'[i])
    BY <1>5 DEF EntryStep
  <2>1. entries'[i] = NextEntry(i, FALSE, 0, fire, storage, wb)
    BY <1>1 DEF RobEdge
  <2> QED BY <1>2, <1>5, <1>6, <2>1, EntryAfter
<1>12. /\ \A i, j \in Slot : entries[i].valid /\ entries[j].valid
                             /\ entries[i].tag = entries[j].tag => i = j
       /\ \A i \in Slot : entries[i].valid => entries[i].tag \notin reserved
                                              /\ entries[i].tag \in LiveTags
       /\ storage # NoPkt => storage.rob_tag \in reserved
       /\ r2d_skid # NoPkt => r2d_skid.rob_tag \in reserved
       /\ storage # NoPkt /\ r2d_skid # NoPkt => r2d_skid.rob_tag # storage.rob_tag
  BY DEF Inv, TagsUnique, ValidSlots, Buffered, LiveTags
<1>13. TagsUnique'
  <2>1. \A i, j \in Slot : entries'[i].valid /\ entries'[j].valid
                           /\ entries'[i].tag = entries'[j].tag => i = j
    BY <1>5, <1>11, <1>12
  <2>2. \A i \in Slot : entries'[i].valid => entries'[i].tag \notin reserved'
    BY <1>3, <1>5, <1>6, <1>8, <1>11, <1>12
  <2>3. storage' # NoPkt => storage'.rob_tag \in reserved'
    BY <1>3, <1>4, <1>5, <1>6, <1>7, <1>8, <1>12
  <2>4. r2d_skid' # NoPkt => r2d_skid'.rob_tag \in reserved'
    BY <1>3, <1>4, <1>5, <1>6, <1>7, <1>8, <1>12
  <2>5. storage' # NoPkt /\ r2d_skid' # NoPkt =>
          r2d_skid'.rob_tag # storage'.rob_tag
    BY <1>3, <1>4, <1>5, <1>6, <1>7, <1>12
  <2> QED BY <2>1, <2>2, <2>3, <2>4, <2>5 DEF TagsUnique, ValidSlots, Buffered
<1>14. BranchesLive'
  BY <1>1 DEF BranchesLive, TrackBranches
<1>15. \A t \in branches' : t \in branches \/ (fire /\ storage.is_branch
                                                 /\ t = storage.rob_tag)
  BY <1>1 DEF TrackBranches
<1>16. SnapshotsCoverBranches'
  <2>1. /\ \A i \in Slot : entries[i].valid /\ entries[i].tag \in branches =>
             /\ ckpt_ptrs[entries[i].tag].tail = Inc(i)
             /\ Dist(head, i) < ckpt_ptrs[entries[i].tag].count
             /\ ckpt_ptrs[entries[i].tag].count <= ROB_DEPTH
        /\ storage # NoPkt /\ storage.is_branch => storage.rob_tag \in ckpt_pending
        /\ r2d_skid # NoPkt /\ r2d_skid.is_branch => r2d_skid.rob_tag \in ckpt_pending
    BY DEF Inv, SnapshotsCoverBranches, ValidSlots, Buffered
  <2>2. /\ Snapshots(fire, storage) <=> fire /\ storage.rob_tag \in ckpt_pending
        /\ ckpt_ptrs' = IF fire /\ storage.rob_tag \in ckpt_pending
                        THEN [ckpt_ptrs EXCEPT ![storage.rob_tag] =
                                [tail |-> Inc(tail), count |-> CountInc(count)]]
                        ELSE ckpt_ptrs
        /\ ckpt_pending' = (ckpt_pending \cup (IF take THEN {FreeTag} ELSE {}))
             \ (IF fire /\ storage.rob_tag \in ckpt_pending
                THEN {storage.rob_tag} ELSE {})
    BY <1>1, <1>5 DEF RobEdge, Snapshots, NextPending
  <2>3. ASSUME NEW i \in Slot, entries'[i].valid, entries'[i].tag \in branches'
        PROVE  /\ ckpt_ptrs'[entries'[i].tag].tail = Inc(i)
               /\ Dist(head', i) < ckpt_ptrs'[entries'[i].tag].count
               /\ ckpt_ptrs'[entries'[i].tag].count <= ROB_DEPTH
    <3> DEFINE t == entries'[i].tag
    <3>1. head' = IF CommitFire THEN Inc(head) ELSE head
      BY <1>1 DEF RobEdge
    <3>2. head \in Slot /\ tail \in Slot /\ count \in Count
      BY <1>2 DEF RobTypeOK
    <3>3. CASE fire /\ i = tail
      <4>1. t = storage.rob_tag /\ t \notin branches
        <5>1. t = storage.rob_tag /\ t \in reserved
          BY <1>5, <1>11, <1>12, <2>3, <3>3
        <5>2. t \notin LiveTags
          BY <1>12, <5>1 DEF LiveTags
        <5> QED BY <5>1, <5>2 DEF Inv, BranchesLive
      <4>2. storage.rob_tag \in ckpt_pending
        BY <1>5, <1>15, <2>1, <2>3, <3>3, <4>1
      <4>3. ckpt_ptrs'[t] = [tail |-> Inc(tail), count |-> CountInc(count)]
        BY <1>2, <1>5, <2>2, <3>3, <4>1, <4>2 DEF RobTypeOK, Packet
      <4>4. count < ROB_DEPTH /\ CountInc(count) = count + 1
        BY <1>5, <3>2, <3>3, CountTypes DEF AllocFire, RobReady, Count
      <4>5. PICK n \in 0 .. ROB_DEPTH : WindowOf(n)
        BY DEF Inv, Window
      <4>6. Dist(head, tail) <= count
        BY <3>2, <4>4, <4>5 DEF WindowOf, Count
      <4>7. Dist(head', i) < count + 1
        <5>1. CASE CommitFire
          <6>1. entries[head].valid /\ Dist(head, head) = 0
            BY <3>2, <5>1, SlotTypes DEF CommitFire
          <6>2. 0 < n /\ Dist(head, tail) = n
            BY <3>2, <4>4, <4>5, <6>1 DEF WindowOf, Count
          <6>3. head # tail
            BY <6>1, <6>2
          <6>4. Dist(Inc(head), tail) = Dist(head, tail) - 1
            BY <3>2, <6>3, DistFromNext
          <6> QED BY <3>1, <3>2, <3>3, <4>6, <5>1, <6>2, <6>4 DEF Count
        <5>2. CASE ~CommitFire
          <6>1. Dist(head, tail) \in 0 .. ROB_DEPTH - 1
            BY <3>2, SlotTypes
          <6> QED BY <3>1, <3>2, <3>3, <4>6, <5>2, <6>1 DEF Count
        <5> QED BY <5>1, <5>2
      <4> QED BY <3>3, <4>3, <4>4, <4>7, <3>2 DEF Count
    <3>4. CASE ~(fire /\ i = tail)
      <4>1. entries[i].valid /\ ~(CommitFire /\ i = head) /\ t = entries[i].tag
        BY <1>11, <2>3, <3>4
      <4>2. fire => t # storage.rob_tag
        BY <1>5, <1>12, <4>1
      <4>3. t \in branches
        BY <1>15, <2>3, <4>2
      <4>4. ckpt_ptrs'[t] = ckpt_ptrs[t]
        BY <1>2, <1>5, <2>2, <4>1, <4>2 DEF RobTypeOK, Entry, Packet
      <4>5. Dist(head', i) <= Dist(head, i)
        BY <3>1, <3>2, <4>1, DistFromNext, SlotTypes
      <4>6. ckpt_ptrs[t] \in Snapshot
        BY <1>2, <4>1 DEF RobTypeOK, Entry
      <4>7. Dist(head', i) \in Nat /\ Dist(head, i) \in Nat
        BY <3>1, <3>2, SlotTypes DEF Slot
      <4> QED BY <2>1, <4>1, <4>3, <4>4, <4>5, <4>6, <4>7 DEF Snapshot, Count
    <3> QED BY <3>3, <3>4
  <2>4. storage' # NoPkt /\ storage'.is_branch => storage'.rob_tag \in ckpt_pending'
    BY <1>3, <1>4, <1>5, <1>6, <1>7, <1>12, <2>1, <2>2
  <2>5. r2d_skid' # NoPkt /\ r2d_skid'.is_branch =>
          r2d_skid'.rob_tag \in ckpt_pending'
    BY <1>3, <1>4, <1>5, <1>6, <1>7, <1>12, <2>1, <2>2
  <2> QED BY <2>3, <2>4, <2>5 DEF SnapshotsCoverBranches, ValidSlots, Buffered
<1> QED BY <1>9, <1>10, <1>13, <1>14, <1>16 DEF Inv

\* The cycle of a recovery keeps the invariant.
LEMMA RecoverStep ==
  ASSUME Inv, NEW tag \in Resolved, NEW r \in RenameInput \cup {NoPkt}, NEW wb,
         RecoverCycle(tag, r, wb)
  PROVE  Inv'
<1> DEFINE req  == r # NoPkt /\ TagOk /\ RenameReady(FALSE)
           take == req /\ r.is_branch
<1>1. /\ RobEdge(TRUE, tag, take, FreeTag, FALSE, storage, wb)
      /\ next_tag' = ckpt_next_tag[tag]
      /\ reserved' = {}
      /\ ckpt_next_tag' = ckpt_next_tag
      /\ r2d_skid' = NoPkt
      /\ storage' = NoPkt
      /\ TrackBranches(FALSE)
  BY DEF RecoverCycle, TagRecover, Skid!SkidFlush, Fifo!FifoFlush
<1>2. /\ RobTypeOK
      /\ TagTypeOK
      /\ branches \subseteq Tag
  BY DEF Inv, TypeOK
<1>3. PICK b \in Slot : entries[b].valid /\ entries[b].tag = tag
  BY DEF Resolved
<1>4. tag \in branches /\ tag \in Tag
  BY <1>2 DEF Resolved
<1>5. /\ ckpt_ptrs[tag].tail = Inc(b)
      /\ Dist(head, b) < ckpt_ptrs[tag].count
      /\ ckpt_ptrs[tag].count <= ROB_DEPTH
  BY <1>3, <1>4 DEF Inv, SnapshotsCoverBranches, ValidSlots
<1>6. FreeTag \in Tag /\ take \in BOOLEAN /\ ~AllocFire(FALSE)
  BY <1>2, FreeTagType DEF TagTypeOK, AllocFire
<1> HIDE DEF take, req
<1>7. TypeOK'
  <2>1. RobTypeOK'
    BY <1>1, <1>2, <1>4, <1>6, RobEdgeType
  <2>2. TagTypeOK'
    BY <1>1, <1>2, <1>4 DEF TagTypeOK
  <2>3. Skid!SkidTypeOK' /\ Fifo!FifoTypeOK'
    BY <1>1 DEF Skid!SkidTypeOK, Fifo!FifoTypeOK
  <2>4. branches' \subseteq Tag
    BY <1>1, <1>2 DEF TrackBranches
  <2> QED BY <2>1, <2>2, <2>3, <2>4 DEF TypeOK
<1>8. Window'
  <2>1. \E m \in 0 .. ROB_DEPTH : WindowOf(m)'
    BY <1>1, <1>2, <1>3, <1>4, <1>5, WindowAfterRecover DEF Inv
  <2> QED BY <2>1 DEF Window
<1>9. \A i \in Slot : entries'[i].valid =>
        /\ entries[i].valid
        /\ ~(CommitFire /\ i = head)
        /\ entries'[i].tag = entries[i].tag
  <2> SUFFICES ASSUME NEW i \in Slot
               PROVE  EntryStep(i, TRUE, tag, FALSE, storage, entries'[i])
    BY <1>6 DEF EntryStep
  <2>1. entries'[i] = NextEntry(i, TRUE, tag, FALSE, storage, wb)
    BY <1>1 DEF RobEdge
  <2> QED BY <1>2, <1>4, <1>6, <2>1, EntryAfter
<1>10. ValidSlots' \subseteq Slot /\ Buffered' = {}
  BY <1>1 DEF ValidSlots, Buffered
<1>11. TagsUnique'
  <2>1. \A i, j \in Slot : entries'[i].valid /\ entries'[j].valid
                           /\ entries'[i].tag = entries'[j].tag => i = j
    BY <1>9 DEF Inv, TagsUnique, ValidSlots
  <2> QED BY <1>1, <1>10, <2>1 DEF TagsUnique, ValidSlots
<1>12. BranchesLive'
  BY <1>1 DEF BranchesLive, TrackBranches
<1>13. SnapshotsCoverBranches'
  <2>1. ckpt_ptrs' = ckpt_ptrs
    BY <1>1, <1>6 DEF RobEdge, Snapshots
  <2>2. head' = IF CommitFire THEN Inc(head) ELSE head
    BY <1>1 DEF RobEdge
  <2>3. ASSUME NEW i \in Slot, entries'[i].valid, entries'[i].tag \in branches'
        PROVE  /\ ckpt_ptrs'[entries'[i].tag].tail = Inc(i)
               /\ Dist(head', i) < ckpt_ptrs'[entries'[i].tag].count
               /\ ckpt_ptrs'[entries'[i].tag].count <= ROB_DEPTH
    <3> DEFINE t == entries[i].tag
    <3>1. /\ entries[i].valid /\ ~(CommitFire /\ i = head)
          /\ entries'[i].tag = t
      BY <1>9, <2>3
    <3>2. t \in branches
      BY <1>1, <2>3, <3>1 DEF TrackBranches
    <3>3. /\ ckpt_ptrs[t].tail = Inc(i)
          /\ Dist(head, i) < ckpt_ptrs[t].count
          /\ ckpt_ptrs[t].count <= ROB_DEPTH
      BY <3>1, <3>2 DEF Inv, SnapshotsCoverBranches, ValidSlots
    <3>4. head \in Slot /\ ckpt_ptrs[t].count \in Nat
      BY <1>2, <3>1 DEF RobTypeOK, Entry, Snapshot, Count
    <3>5. Dist(head, i) \in Nat /\ Dist(head', i) \in Nat
          /\ Dist(head', i) <= Dist(head, i)
      BY <2>2, <3>1, <3>4, DistFromNext, SlotTypes DEF Slot
    <3> QED BY <2>1, <3>1, <3>3, <3>4, <3>5
  <2> QED BY <1>10, <2>3 DEF SnapshotsCoverBranches, ValidSlots
<1> QED BY <1>7, <1>8, <1>11, <1>12, <1>13 DEF Inv

\* The invariant is inductive.
LEMMA NextInv == Inv /\ [Next]_vars => Inv'
<1> SUFFICES ASSUME Inv, [Next]_vars PROVE Inv'
  OBVIOUS
<1>1. CASE Run
  BY <1>1, RunStep DEF Run
<1>2. CASE Recover
  BY <1>2, RecoverStep DEF Recover
<1>3. CASE UNCHANGED vars
  <2> USE <1>3 DEF vars, robVars, tagVars
  <2>1. TypeOK'
    BY DEF Inv, TypeOK, RobTypeOK, TagTypeOK, Skid!SkidTypeOK, Fifo!FifoTypeOK
  <2>2. ValidSlots' = ValidSlots /\ Buffered' = Buffered /\ LiveTags' = LiveTags
    BY DEF ValidSlots, Buffered, LiveTags
  <2>3. TagsUnique' /\ SnapshotsCoverBranches' /\ BranchesLive'
    BY <2>2 DEF Inv, TagsUnique, SnapshotsCoverBranches, BranchesLive
  <2>4. Window'
    BY DEF Inv, Window, WindowOf
  <2> QED BY <2>1, <2>3, <2>4 DEF Inv
<1> QED BY <1>1, <1>2, <1>3 DEF Next

LEMMA SpecInv == Spec => []Inv
  BY InitInv, NextInv, PTL DEF Spec
-----------------------------------------------------------------------------
(***************************************************************************)
(* The variables of the ROB, of the tag allocator and of the buffers       *)
(* between them stay in their types, for every ROB depth.                  *)
(***************************************************************************)
THEOREM TypeCorrect == Spec => []TypeOK
<1>1. Inv => TypeOK
  BY DEF Inv
<1> QED BY <1>1, SpecInv, PTL

(***************************************************************************)
(* No two instructions in flight ever share a ROB tag, although the skid   *)
(* buffer may lose packets and a recovery drops every reservation.         *)
(***************************************************************************)
THEOREM NoTagCollision == Spec => []TagsUnique
<1>1. Inv => TagsUnique
  BY DEF Inv
<1> QED BY <1>1, SpecInv, PTL

(***************************************************************************)
(* The valid ROB entries are always the window from head up to tail, and   *)
(* count never understates it: an allocation never overwrites an entry.    *)
(***************************************************************************)
THEOREM WindowKept == Spec => []Window
<1>1. Inv => Window
  BY DEF Inv
<1> QED BY <1>1, SpecInv, PTL

(***************************************************************************)
(* Every live branch can be recovered: its snapshot points right behind    *)
(* its slot, with a count that covers it.                                  *)
(***************************************************************************)
THEOREM SnapshotsKept == Spec => []SnapshotsCoverBranches
<1>1. Inv => SnapshotsCoverBranches
  BY DEF Inv
<1> QED BY <1>1, SpecInv, PTL
-----------------------------------------------------------------------------
(***************************************************************************)
(* The ROB implements RobQueue.  What the refinement mapping InOrder is,   *)
(* in a state whose window has n entries.                                  *)
(***************************************************************************)

\* FromHead and Dist undo each other.
LEMMA FromHeadIs ==
  ASSUME head \in Slot
  PROVE  /\ \A k \in 0 .. ROB_DEPTH - 1 : FromHead(k) \in Slot
                                          /\ Dist(head, FromHead(k)) = k
         /\ \A i \in Slot : FromHead(Dist(head, i)) = i
         /\ \A k \in 0 .. ROB_DEPTH - 2 : Inc(FromHead(k)) = FromHead(k + 1)
  BY DEF FromHead, Dist, Slot, Inc

\* There are as many valid entries as the window is long.
LEMMA WindowCardinality ==
  ASSUME RobTypeOK, NEW n \in 0 .. ROB_DEPTH, WindowOf(n)
  PROVE  Cardinality(ValidSlots) = n
<1> DEFINE f == [k \in 1 .. n |-> FromHead(k - 1)]
<1>1. head \in Slot /\ ValidSlots \subseteq Slot
  BY DEF RobTypeOK, ValidSlots
<1>2. \A i \in Slot : i \in ValidSlots <=> Dist(head, i) < n
  BY DEF WindowOf, ValidSlots
<1>3. \A k \in 1 .. n : k - 1 \in 0 .. ROB_DEPTH - 1 /\ k - 1 < n
  OBVIOUS
<1>4. f \in [1 .. n -> ValidSlots]
  BY <1>1, <1>2, <1>3, FromHeadIs
<1>5. \A k, l \in 1 .. n : f[k] = f[l] => k = l
  <2>1. \A k \in 1 .. n : Dist(head, f[k]) = k - 1
    BY <1>1, <1>3, FromHeadIs
  <2> QED BY <2>1
<1>6. \A i \in ValidSlots : \E k \in 1 .. n : f[k] = i
  <2> SUFFICES ASSUME NEW i \in ValidSlots PROVE \E k \in 1 .. n : f[k] = i
    OBVIOUS
  <2>1. Dist(head, i) \in 0 .. ROB_DEPTH - 1 /\ Dist(head, i) < n
    BY <1>1, <1>2, SlotTypes
  <2> DEFINE k == Dist(head, i) + 1
  <2>2. k \in 1 .. n /\ k - 1 = Dist(head, i)
    BY <2>1
  <2>3. FromHead(Dist(head, i)) = i
    BY <1>1, FromHeadIs
  <2> HIDE DEF k
  <2> QED BY <2>2, <2>3
<1> HIDE DEF f
<1>7. f \in Bijection(1 .. n, ValidSlots)
  BY <1>4, <1>5, <1>6, Fun_IsBij
<1>8. ExistsBijection(1 .. n, ValidSlots)
  BY <1>7 DEF ExistsBijection
<1> QED BY <1>8, FS_CountingElements

InOrderFacts(n) ==
  /\ InOrder \in Seq(Queue!Instruction)
  /\ Len(InOrder) = n
  /\ \A k \in 0 .. n - 1 :
       /\ FromHead(k) \in Slot
       /\ entries[FromHead(k)].valid
       /\ InOrder[k + 1] = [tag  |-> entries[FromHead(k)].tag,
                            done |-> entries[FromHead(k)].done]
  /\ \A i \in Slot : entries[i].valid =>
       /\ Dist(head, i) \in 0 .. n - 1
       /\ InOrder[Dist(head, i) + 1] = [tag  |-> entries[i].tag,
                                        done |-> entries[i].done]

InOrderIs == \A n \in 0 .. ROB_DEPTH : WindowOf(n) => InOrderFacts(n)

LEMMA InOrderMapping == RobTypeOK => InOrderIs
<1> SUFFICES ASSUME RobTypeOK, NEW n \in 0 .. ROB_DEPTH, WindowOf(n)
             PROVE  InOrderFacts(n)
  BY DEF InOrderIs
<1>1. Cardinality(ValidSlots) = n
  BY WindowCardinality
<1>2. InOrder = [k \in 1 .. n |-> [tag  |-> entries[FromHead(k - 1)].tag,
                                   done |-> entries[FromHead(k - 1)].done]]
  BY <1>1 DEF InOrder
<1>3. head \in Slot /\ entries \in [Slot -> Entry]
  BY DEF RobTypeOK
<1>4. \A k \in 1 .. n : FromHead(k - 1) \in Slot /\ entries[FromHead(k - 1)].valid
  <2> SUFFICES ASSUME NEW k \in 1 .. n
               PROVE  FromHead(k - 1) \in Slot /\ entries[FromHead(k - 1)].valid
    OBVIOUS
  <2>1. k - 1 \in 0 .. ROB_DEPTH - 1 /\ k - 1 < n
    OBVIOUS
  <2>2. FromHead(k - 1) \in Slot /\ Dist(head, FromHead(k - 1)) = k - 1
    BY <1>3, <2>1, FromHeadIs
  <2> QED BY <2>1, <2>2 DEF WindowOf
<1>5. InOrder \in Seq(Queue!Instruction) /\ Len(InOrder) = n
  <2>1. \A k \in 1 .. n : [tag  |-> entries[FromHead(k - 1)].tag,
                           done |-> entries[FromHead(k - 1)].done]
                            \in Queue!Instruction
    BY <1>3, <1>4 DEF Entry, Queue!Instruction
  <2>2. InOrder \in [1 .. n -> Queue!Instruction]
    BY <1>2, <2>1
  <2>3. InOrder \in Seq(Queue!Instruction)
    BY <2>2, SeqDef
  <2> QED BY <2>2, <2>3, LenProperties
<1>6. \A k \in 0 .. n - 1 :
        /\ FromHead(k) \in Slot
        /\ entries[FromHead(k)].valid
        /\ InOrder[k + 1] = [tag  |-> entries[FromHead(k)].tag,
                             done |-> entries[FromHead(k)].done]
  <2> SUFFICES ASSUME NEW k \in 0 .. n - 1
               PROVE  /\ FromHead(k) \in Slot
                      /\ entries[FromHead(k)].valid
                      /\ InOrder[k + 1] = [tag  |-> entries[FromHead(k)].tag,
                                           done |-> entries[FromHead(k)].done]
    OBVIOUS
  <2>1. PICK l \in 1 .. n : l = k + 1 /\ l - 1 = k
    OBVIOUS
  <2> QED BY <1>2, <1>4, <2>1
<1>7. \A i \in Slot : entries[i].valid => Dist(head, i) \in 0 .. n - 1
  BY <1>3, SlotTypes DEF WindowOf
<1>8. \A i \in Slot : FromHead(Dist(head, i)) = i
  BY <1>3, FromHeadIs
<1> QED BY <1>5, <1>6, <1>7, <1>8 DEF InOrderFacts

\* The front of the queue is done exactly when the ROB commits.
LEMMA CommitIsRetire ==
  ASSUME RobTypeOK, NEW n \in 0 .. ROB_DEPTH, WindowOf(n), InOrderFacts(n)
  PROVE  CommitFire <=> InOrder # << >> /\ InOrder[1].done
<1>1. head \in Slot /\ count \in Count /\ n <= count
  BY DEF RobTypeOK, WindowOf
<1>2. FromHead(0) = head /\ Dist(head, head) = 0
  BY <1>1 DEF FromHead, Dist, Slot
<1>3. entries[head].valid <=> n > 0
  BY <1>1, <1>2 DEF WindowOf
<1>4. InOrder # << >> <=> n > 0
  BY EmptySeq DEF InOrderFacts
<1>5. n > 0 => InOrder[1].done = entries[head].done
  <2> SUFFICES ASSUME n > 0 PROVE InOrder[1].done = entries[head].done
    OBVIOUS
  <2>1. 0 \in 0 .. n - 1 /\ 0 + 1 = 1
    OBVIOUS
  <2>2. InOrder[0 + 1] = [tag  |-> entries[FromHead(0)].tag,
                          done |-> entries[FromHead(0)].done]
    BY <2>1, Zenon DEF InOrderFacts
  <2> QED BY <1>2, <2>1, <2>2
<1>6. n > 0 => count # 0
  BY <1>1 DEF Count
<1> QED BY <1>3, <1>4, <1>5, <1>6 DEF CommitFire

\* The tags of the queue are the live tags.
LEMMA QueueTags ==
  ASSUME RobTypeOK, NEW n \in 0 .. ROB_DEPTH, InOrderFacts(n)
  PROVE  Queue!Tags = LiveTags
<1>1. DOMAIN InOrder = 1 .. n
  BY LenProperties DEF InOrderFacts
<1>2. ASSUME NEW k \in 1 .. n
      PROVE  InOrder[k].tag \in LiveTags
  <2>1. PICK l \in 0 .. n - 1 : k = l + 1
    <3>1. k - 1 \in 0 .. n - 1 /\ k = (k - 1) + 1
      OBVIOUS
    <3> QED BY <3>1
  <2>2. /\ FromHead(l) \in Slot
        /\ entries[FromHead(l)].valid
        /\ InOrder[k] = [tag  |-> entries[FromHead(l)].tag,
                         done |-> entries[FromHead(l)].done]
    BY <2>1, Zenon DEF InOrderFacts
  <2> QED BY <2>2 DEF LiveTags
<1>3. ASSUME NEW i \in Slot, entries[i].valid
      PROVE  entries[i].tag \in Queue!Tags
  <2>1. /\ Dist(head, i) \in 0 .. n - 1
        /\ InOrder[Dist(head, i) + 1] = [tag  |-> entries[i].tag,
                                         done |-> entries[i].done]
    BY <1>3, Zenon DEF InOrderFacts
  <2>2. Dist(head, i) + 1 \in 1 .. n
    BY <2>1
  <2> QED BY <1>1, <2>1, <2>2 DEF Queue!Tags
<1> QED BY <1>1, <1>2, <1>3 DEF LiveTags, Queue!Tags

\* Marking the instructions that write back keeps the queue as it is otherwise.
LEMMA MarkDoneIs ==
  ASSUME NEW n \in Nat, InOrder \in Seq(Queue!Instruction), Len(InOrder) = n, NEW wb
  PROVE  /\ Queue!MarkDone(wb) \in Seq(Queue!Instruction)
         /\ Len(Queue!MarkDone(wb)) = n
         /\ \A k \in 1 .. n :
              Queue!MarkDone(wb)[k] = [tag  |-> InOrder[k].tag,
                                       done |-> InOrder[k].done
                                                \/ InOrder[k].tag \in wb]
<1>1. DOMAIN InOrder = 1 .. n /\ \A k \in 1 .. n : InOrder[k] \in Queue!Instruction
  BY LenProperties, ElementOfSeq
<1>2. \A k \in 1 .. n :
        [InOrder[k] EXCEPT !.done = @ \/ InOrder[k].tag \in wb]
          = [tag |-> InOrder[k].tag, done |-> InOrder[k].done \/ InOrder[k].tag \in wb]
  BY <1>1 DEF Queue!Instruction
<1>3. \A k \in 1 .. n : [tag |-> InOrder[k].tag,
                         done |-> InOrder[k].done \/ InOrder[k].tag \in wb]
                          \in Queue!Instruction
  BY <1>1 DEF Queue!Instruction
<1>4. Queue!MarkDone(wb)
        = [k \in 1 .. n |-> [tag  |-> InOrder[k].tag,
                             done |-> InOrder[k].done \/ InOrder[k].tag \in wb]]
  BY <1>1, <1>2 DEF Queue!MarkDone
<1>5. Queue!MarkDone(wb) \in Seq(Queue!Instruction)
  <2>1. Queue!MarkDone(wb) \in [1 .. n -> Queue!Instruction]
    BY <1>3, <1>4
  <2> QED BY <2>1, SeqDef
<1>6. Len(Queue!MarkDone(wb)) = n
  BY <1>4, <1>5, LenProperties
<1> QED BY <1>4, <1>5, <1>6

\* Retire leaves the queue, less its front if the ROB commits.
LEMMA RetireIs ==
  ASSUME RobTypeOK, NEW n \in 0 .. ROB_DEPTH, WindowOf(n), InOrderFacts(n),
         NEW m \in 0 .. n, m > 0 \/ ~CommitFire,
         NEW kept \in Seq(Queue!Instruction), Len(kept) = m
  PROVE  /\ Queue!Retire(kept) \in Seq(Queue!Instruction)
         /\ Len(Queue!Retire(kept)) = IF CommitFire THEN m - 1 ELSE m
         /\ \A k \in 1 .. Len(Queue!Retire(kept)) :
              Queue!Retire(kept)[k] = IF CommitFire THEN kept[k + 1] ELSE kept[k]
<1>1. Queue!Retire(kept) = IF CommitFire THEN Tail(kept) ELSE kept
  BY CommitIsRetire DEF Queue!Retire
<1>2. CommitFire => kept # << >>
  BY EmptySeq
<1>3. CASE CommitFire
  BY <1>1, <1>2, <1>3, HeadTailProperties
<1>4. CASE ~CommitFire
  BY <1>1, <1>4
<1> QED BY <1>3, <1>4

\* The slots of the queue move up by one when the ROB commits.
LEMMA FromHeadNext ==
  ASSUME head \in Slot, head' = (IF CommitFire THEN Inc(head) ELSE head),
         NEW k \in 0 .. ROB_DEPTH - 2
  PROVE  FromHead(k)' = FromHead(IF CommitFire THEN k + 1 ELSE k)
  BY DEF FromHead, Slot, Inc

\* The first m entries of the window that do not commit keep their tags, and are
\* done once their tags are written back.
EntriesKept(m, wb) ==
  \A i \in Slot :
    entries[i].valid /\ Dist(head, i) < m /\ ~(CommitFire /\ i = head) =>
      /\ entries'[i].tag = entries[i].tag
      /\ entries'[i].done = (entries[i].done \/ entries[i].tag \in wb)

\* An edge keeps what it neither allocates over nor squashes.
LEMMA EdgeKeeps ==
  ASSUME RobTypeOK, NEW recover \in BOOLEAN, NEW recover_tag, NEW take, NEW take_tag,
         NEW alloc \in BOOLEAN, NEW pkt, NEW wb,
         RobEdge(recover, recover_tag, take, take_tag, alloc, pkt, wb),
         NEW m \in 0 .. ROB_DEPTH,
         \A i \in Slot : Dist(head, i) < m => /\ ~(AllocFire(alloc) /\ i = tail)
                                             /\ ~(recover /\ i \in Squashed(recover_tag))
  PROVE  EntriesKept(m, wb)
<1> SUFFICES ASSUME NEW i \in Slot, entries[i].valid, Dist(head, i) < m,
                    ~(CommitFire /\ i = head)
             PROVE  /\ entries'[i].tag = entries[i].tag
                    /\ entries'[i].done = (entries[i].done \/ entries[i].tag \in wb)
  BY Zenon DEF EntriesKept
<1>1. entries'[i] = NextEntry(i, recover, recover_tag, alloc, pkt, wb)
  BY DEF RobEdge
<1>2. entries'[i] = IF WbHit(i, wb) THEN [entries[i] EXCEPT !.done = TRUE]
                                    ELSE entries[i]
  BY <1>1 DEF NextEntry
<1>3. entries[i] \in Entry /\ entries[i].done \in BOOLEAN
  BY DEF RobTypeOK, Entry
<1>4. CASE WbHit(i, wb)
  BY <1>2, <1>3, <1>4 DEF WbHit, Entry
<1>5. CASE ~WbHit(i, wb)
  <2>1. entries[i].done \/ entries[i].tag \notin wb
    BY <1>5 DEF WbHit
  <2>2. entries[i].done = (entries[i].done \/ entries[i].tag \in wb)
    BY <1>3, <2>1
  <2> QED BY <1>2, <1>5, <2>2
<1> QED BY <1>4, <1>5

\* After an edge, what is left of the queue: its first m entries written back,
\* less the front if the ROB commits.
LEMMA QueueKept ==
  ASSUME RobTypeOK, RobTypeOK', NEW n \in 0 .. ROB_DEPTH, WindowOf(n),
         head' = (IF CommitFire THEN Inc(head) ELSE head),
         NEW m \in 0 .. n, m > 0 \/ ~CommitFire, NEW wb, EntriesKept(m, wb),
         NEW left \in 0 .. ROB_DEPTH, left = (IF CommitFire THEN m - 1 ELSE m),
         NEW now \in 0 .. ROB_DEPTH, left <= now, WindowOf(now)',
         NEW kept \in Seq(Queue!Instruction), Len(kept) = m,
         \A k \in 1 .. m : kept[k] = Queue!MarkDone(wb)[k]
  PROVE  /\ Queue!Retire(kept) \in Seq(Queue!Instruction)
         /\ Len(Queue!Retire(kept)) = left
         /\ \A k \in 1 .. left : InOrder'[k] = Queue!Retire(kept)[k]
<1>1. InOrderFacts(n)
  BY InOrderMapping DEF InOrderIs
<1>2. InOrderFacts(now)'
  <2>1. RobTypeOK' => InOrderIs'
    BY InOrderMapping, PTL
  <2> QED BY <2>1 DEF InOrderIs
<1>0. /\ Queue!Retire(kept) \in Seq(Queue!Instruction)
      /\ Len(Queue!Retire(kept)) = left
      /\ \A l \in 1 .. left : Queue!Retire(kept)[l]
                               = IF CommitFire THEN kept[l + 1] ELSE kept[l]
  BY <1>1, RetireIs
<1> SUFFICES ASSUME NEW l \in 1 .. left
             PROVE  InOrder'[l] = Queue!Retire(kept)[l]
  BY <1>0
<1> DEFINE k == l - 1
           j == IF CommitFire THEN k + 1 ELSE k
           i == FromHead(j)
<1>3. j \in 0 .. m - 1 /\ j \in 0 .. n - 1 /\ k \in 0 .. now - 1
  OBVIOUS
<1>4. k \in 0 .. ROB_DEPTH - 2 \/ (~CommitFire /\ k = j)
  OBVIOUS
<1>5. head \in Slot /\ head' = (IF CommitFire THEN Inc(head) ELSE head)
  BY DEF RobTypeOK
<1>6. FromHead(k)' = i
  <2>1. CASE k \in 0 .. ROB_DEPTH - 2
    BY <1>5, <2>1, FromHeadNext
  <2>2. CASE ~CommitFire /\ k = j
    BY <1>5, <2>2 DEF FromHead
  <2> QED BY <1>4, <2>1, <2>2
<1>14. k + 1 = l /\ j + 1 \in 1 .. m
       /\ (CommitFire => j + 1 = l + 1) /\ (~CommitFire => j + 1 = l)
  OBVIOUS
<1> HIDE DEF j, k
<1>7. i \in Slot /\ entries[i].valid
      /\ InOrder[j + 1] = [tag |-> entries[i].tag, done |-> entries[i].done]
  BY <1>1, <1>3, Zenon DEF InOrderFacts
<1>8. Dist(head, i) = j
  BY <1>3, <1>5, FromHeadIs
<1>9. Dist(head, i) < m /\ ~(CommitFire /\ i = head)
  <2>1. Dist(head, head) = 0
    BY <1>5, SlotTypes
  <2>2. CommitFire => j # 0
    BY <1>14
  <2> QED BY <1>3, <1>8, <2>1, <2>2
<1> HIDE DEF i
<1>10. /\ entries'[i].tag = entries[i].tag
       /\ entries'[i].done = (entries[i].done \/ entries[i].tag \in wb)
  BY <1>7, <1>9, Zenon DEF EntriesKept
<1>11. InOrder'[k + 1] = [tag |-> entries'[i].tag, done |-> entries'[i].done]
  <2>1. InOrder'[k + 1] = [tag  |-> entries'[FromHead(k)'].tag,
                           done |-> entries'[FromHead(k)'].done]
    BY <1>2, <1>3, Zenon DEF InOrderFacts
  <2> QED BY <1>6, <2>1
<1>12. Queue!MarkDone(wb)[j + 1]
         = [tag |-> InOrder[j + 1].tag,
            done |-> InOrder[j + 1].done \/ InOrder[j + 1].tag \in wb]
  <2>1. j + 1 \in 1 .. n
    BY <1>3
  <2>2. InOrder \in Seq(Queue!Instruction) /\ Len(InOrder) = n
    BY <1>1 DEF InOrderFacts
  <2> QED BY <2>1, <2>2, MarkDoneIs
<1>13. InOrder'[k + 1] = Queue!MarkDone(wb)[j + 1]
  BY <1>7, <1>10, <1>11, <1>12
<1>15. Queue!Retire(kept)[l] = kept[j + 1]
  BY <1>0, <1>14
<1>16. kept[j + 1] = Queue!MarkDone(wb)[j + 1]
  BY <1>14
<1> QED BY <1>13, <1>14, <1>15, <1>16

\* A cycle without recovery advances the queue.
LEMMA RunAdvances ==
  ASSUME Inv, Inv', NEW r \in RenameInput \cup {NoPkt}, NEW rs_ok \in BOOLEAN,
         NEW wb \in Writebacks, Cycle(r, rs_ok, wb)
  PROVE  Queue!Advance
<1> DEFINE fire == DispatchFire(rs_ok)
           kept == Queue!MarkDone(wb)
           rest == Queue!Retire(kept)
<1>1. PICK n \in 0 .. ROB_DEPTH : WindowOf(n)
  BY DEF Inv, Window
<1>2. /\ RobTypeOK /\ RobTypeOK'
      /\ storage \in Packet \cup {NoPkt}
      /\ fire \in BOOLEAN
      /\ AllocFire(fire) <=> fire
      /\ fire => storage \in Packet /\ storage # NoPkt
  BY DEF Inv, TypeOK, Fifo!FifoTypeOK, DispatchFire, AllocFire
<1>3. PICK take, take_tag :
        RobEdge(FALSE, 0, take, take_tag, fire, storage, wb)
  BY DEF Cycle
<1> HIDE DEF fire
<1>4. /\ fire => n < ROB_DEPTH /\ Dist(head, tail) = n
      /\ CommitFire => n > 0
      /\ \E m \in 0 .. ROB_DEPTH : m = SizeAfterRun(n, fire) /\ WindowOf(m)'
  <2>1. 0 \in Tag /\ (AllocFire(fire) => storage \in Packet)
    BY <1>2 DEF Tag
  <2>2. AllocFire(fire) => n < ROB_DEPTH /\ Dist(head, tail) = n
    BY <1>1, <1>2, <1>3, <2>1, WindowAfterRun
  <2>3. CommitFire => n > 0
    BY <1>1, <1>2, <1>3, <2>1, WindowAfterRun
  <2>4. \E m \in 0 .. ROB_DEPTH : m = SizeAfterRun(n, fire) /\ WindowOf(m)'
    BY <1>1, <1>2, <1>3, <2>1, WindowAfterRun
  <2> QED BY <1>2, <2>2, <2>3, <2>4
<1>5. PICK m \in 0 .. ROB_DEPTH : m = SizeAfterRun(n, fire) /\ WindowOf(m)'
  BY <1>4
<1>6. PICK left \in 0 .. ROB_DEPTH :
        /\ left = (IF CommitFire THEN n - 1 ELSE n)
        /\ m = left + (IF fire THEN 1 ELSE 0)
  BY <1>2, <1>4, <1>5 DEF SizeAfterRun
<1>7. InOrderFacts(n) /\ InOrderFacts(m)'
  <2>1. RobTypeOK' => InOrderIs'
    BY InOrderMapping, PTL
  <2> QED BY <1>1, <1>2, <1>5, <2>1, InOrderMapping DEF InOrderIs
<1>8. InOrder' \in Seq(Queue!Instruction) /\ Len(InOrder') = m
  BY <1>7 DEF InOrderFacts
<1>9. kept \in Seq(Queue!Instruction) /\ Len(kept) = n
  BY <1>7, MarkDoneIs DEF InOrderFacts
<1> HIDE DEF kept
<1>10. /\ rest \in Seq(Queue!Instruction)
       /\ Len(rest) = left
       /\ \A k \in 1 .. left : InOrder'[k] = rest[k]
  <2>1. n \in 0 .. n /\ (n > 0 \/ ~CommitFire) /\ left <= m
    BY <1>4, <1>6
  <2>2. \A k \in 1 .. n : kept[k] = Queue!MarkDone(wb)[k]
    BY DEF kept
  <2>3. EntriesKept(n, wb)
    <3>1. \A i \in Slot : Dist(head, i) < n => /\ ~(AllocFire(fire) /\ i = tail)
                                               /\ ~(FALSE /\ i \in Squashed(0))
      BY <1>4, <1>2
    <3> QED BY <1>2, <1>3, <3>1, EdgeKeeps
  <2>4. head' = (IF CommitFire THEN Inc(head) ELSE head)
    BY <1>3 DEF RobEdge
  <2> QED BY <1>1, <1>2, <1>5, <1>6, <1>9, <2>1, <2>2, <2>3, <2>4, QueueKept
<1> HIDE DEF rest
<1>11. wb \in SUBSET Queue!Tags
  <2>1. wb \subseteq LiveTags
    BY DEF Writebacks, LiveTags
  <2> QED BY <1>2, <1>7, <2>1, QueueTags
<1>12. CASE ~fire
  <2>1. InOrder' = rest
    BY <1>6, <1>8, <1>10, <1>12, SeqEqual
  <2> QED BY <1>11, <2>1 DEF Queue!Advance, Queue!Join, rest, kept
<1>13. CASE fire
  <2> DEFINE new == [tag |-> storage.rob_tag, done |-> FALSE]
  <2>1. storage.rob_tag \in Tag /\ storage.rob_tag \notin Queue!Tags
    <3>1. storage.rob_tag \in Tag
      BY <1>2, <1>13 DEF Packet
    <3>2. storage.rob_tag \in reserved
      BY <1>2, <1>13 DEF Inv, TagsUnique, Buffered
    <3>3. storage.rob_tag \notin LiveTags
      BY <3>2 DEF Inv, TagsUnique, ValidSlots, LiveTags
    <3> QED BY <1>2, <1>7, <3>1, <3>3, QueueTags
  <2>2. new \in Queue!Instruction
    BY <2>1 DEF Queue!Instruction
  <2>3. FromHead(left)' = tail
    <3>1. head \in Slot /\ tail \in Slot
          /\ head' = (IF CommitFire THEN Inc(head) ELSE head)
      BY <1>2, <1>3 DEF RobTypeOK, RobEdge
    <3>2. FromHead(n) = tail
      BY <1>4, <1>13, <3>1, FromHeadIs
    <3> QED BY <1>4, <1>6, <1>13, <3>1, <3>2, FromHeadNext DEF FromHead
  <2>4. entries'[tail].tag = storage.rob_tag /\ entries'[tail].done = FALSE
    <3>1. entries'[tail] = NewEntry(storage)
      BY <1>2, <1>3, <1>13 DEF RobEdge, NextEntry, RobTypeOK
    <3> QED BY <3>1 DEF NewEntry
  <2>5. InOrder'[left + 1] = new
    <3>1. left \in 0 .. m - 1
      BY <1>6, <1>13
    <3>2. InOrder'[left + 1] = [tag  |-> entries'[FromHead(left)'].tag,
                                done |-> entries'[FromHead(left)'].done]
      BY <1>7, <3>1, Zenon DEF InOrderFacts
    <3> QED BY <2>3, <2>4, <3>2
  <2> HIDE DEF new
  <2>6. InOrder' = Append(rest, new)
    <3>1. /\ Append(rest, new) \in Seq(Queue!Instruction)
          /\ Len(Append(rest, new)) = left + 1
          /\ \A k \in 1 .. left : Append(rest, new)[k] = rest[k]
          /\ Append(rest, new)[left + 1] = new
      BY <1>10, <2>2, AppendProperties
    <3>2. \A k \in 1 .. left + 1 : k \in 1 .. left \/ k = left + 1
      OBVIOUS
    <3>3. \A k \in 1 .. left + 1 : InOrder'[k] = Append(rest, new)[k]
      BY <1>10, <2>5, <3>1, <3>2
    <3> QED BY <1>6, <1>8, <1>13, <3>1, <3>3, SeqEqual
  <2>7. Len(InOrder) < ROB_DEPTH
    BY <1>4, <1>7, <1>13 DEF InOrderFacts
  <2> QED BY <1>11, <2>1, <2>6, <2>7
          DEF Queue!Advance, Queue!Join, rest, kept, new
<1> QED BY <1>12, <1>13

\* The cycle of a recovery cuts the queue behind the branch.
LEMMA RecoverRecovers ==
  ASSUME Inv, Inv', NEW tag \in Resolved, NEW r \in RenameInput \cup {NoPkt},
         NEW wb \in Writebacks, RecoverCycle(tag, r, wb)
  PROVE  Queue!Recover
<1>1. PICK n \in 0 .. ROB_DEPTH : WindowOf(n)
  BY DEF Inv, Window
<1>2. RobTypeOK /\ RobTypeOK' /\ branches \subseteq Tag
  BY DEF Inv, TypeOK
<1>3. PICK take, take_tag :
        RobEdge(TRUE, tag, take, take_tag, FALSE, storage, wb)
  BY DEF RecoverCycle
<1>4. PICK b \in Slot : entries[b].valid /\ entries[b].done /\ entries[b].tag = tag
  BY DEF Resolved
<1>5. tag \in branches /\ tag \in Tag
  BY <1>2 DEF Resolved
<1>6. /\ ckpt_ptrs[tag].tail = Inc(b)
      /\ Dist(head, b) < ckpt_ptrs[tag].count
      /\ ckpt_ptrs[tag].count <= ROB_DEPTH
  BY <1>4, <1>5 DEF Inv, SnapshotsCoverBranches, ValidSlots
<1>7. /\ \E m \in 0 .. ROB_DEPTH : m = SizeAfterRecover(b) /\ WindowOf(m)'
      /\ \A i \in Slot : entries'[i].valid <=>
              Dist(head, i) <= Dist(head, b) /\ ~(CommitFire /\ i = head)
  BY <1>2, <1>3, <1>4, <1>5, <1>6, WindowAfterRecover DEF Inv
<1>8. PICK m \in 0 .. ROB_DEPTH : m = SizeAfterRecover(b) /\ WindowOf(m)'
  BY <1>7
<1>9. InOrderFacts(n) /\ InOrderFacts(m)'
  <2>1. RobTypeOK' => InOrderIs'
    BY InOrderMapping, PTL
  <2> QED BY <1>1, <1>2, <1>8, <2>1, InOrderMapping DEF InOrderIs
<1> DEFINE d == Dist(head, b) + 1
           kept == SubSeq(Queue!MarkDone(wb), 1, d)
<1>10. d \in 1 .. n /\ m = IF CommitFire THEN d - 1 ELSE d
  <2>1. Dist(head, b) \in 0 .. n - 1
    BY <1>4, <1>9 DEF InOrderFacts
  <2> QED BY <1>8, <2>1 DEF SizeAfterRecover
<1>11. InOrder[d].done /\ d \in DOMAIN InOrder
  <2>1. InOrder[d] = [tag |-> entries[b].tag, done |-> entries[b].done]
    BY <1>4, <1>9, Zenon DEF InOrderFacts
  <2>2. DOMAIN InOrder = 1 .. n
    BY <1>9, LenProperties DEF InOrderFacts
  <2> QED BY <1>4, <1>10, <2>1, <2>2
<1>12. \A i \in Slot : Dist(head, i) < d => /\ ~(AllocFire(FALSE) /\ i = tail)
                                            /\ ~(TRUE /\ i \in Squashed(tag))
  <2> SUFFICES ASSUME NEW i \in Slot, Dist(head, i) < d
               PROVE  i \notin Squashed(tag)
    BY DEF AllocFire
  <2>1. head \in Slot /\ tail \in Slot
    BY <1>2 DEF RobTypeOK
  <2>2. /\ Dist(head, i) \in 0 .. ROB_DEPTH - 1
        /\ Dist(head, b) \in 0 .. ROB_DEPTH - 1
        /\ Dist(head, tail) \in 0 .. ROB_DEPTH - 1
    BY <2>1, SlotTypes
  <2>3. IF n = ROB_DEPTH THEN Dist(head, tail) = 0 ELSE Dist(head, tail) = n
    BY <1>1, <2>1, SlotTypes DEF WindowOf
  <2>4. Dist(head, b) < Dist(head, tail) \/ Dist(head, tail) = 0
    BY <1>10, <2>2, <2>3
  <2>5. ~(Dist(Inc(b), i) < Dist(Inc(b), tail))
    BY <2>1, <2>2, <2>4, DistBetween
  <2> QED BY <1>6, <2>5 DEF Squashed
<1>13. Queue!MarkDone(wb) \in Seq(Queue!Instruction) /\ Len(Queue!MarkDone(wb)) = n
  BY <1>9, MarkDoneIs DEF InOrderFacts
<1> HIDE DEF d
<1>14. /\ kept \in Seq(Queue!Instruction)
       /\ Len(kept) = d
       /\ \A k \in 1 .. d : kept[k] = Queue!MarkDone(wb)[k]
  <2>1. \A k \in 1 .. d : Queue!MarkDone(wb)[k] \in Queue!Instruction
    BY <1>10, <1>13, ElementOfSeq
  <2>2. \A k \in 1 .. d - 1 + 1 : 1 + k - 1 = k /\ k \in 1 .. d
    BY <1>10
  <2> QED BY <1>10, <2>1, <2>2, SubSeqProperties
<1> HIDE DEF kept
<1>15. /\ Queue!Retire(kept) \in Seq(Queue!Instruction)
       /\ Len(Queue!Retire(kept)) = m
       /\ \A k \in 1 .. m : InOrder'[k] = Queue!Retire(kept)[k]
  <2>1. d \in 0 .. n /\ (d > 0 \/ ~CommitFire) /\ m <= m
        /\ m = (IF CommitFire THEN d - 1 ELSE d)
    BY <1>10
  <2>2. EntriesKept(d, wb)
    <3>1. d \in 0 .. ROB_DEPTH
      BY <1>10
    <3> QED BY <1>2, <1>3, <1>12, <3>1, EdgeKeeps
  <2>3. head' = (IF CommitFire THEN Inc(head) ELSE head)
    BY <1>3 DEF RobEdge
  <2> QED BY <1>1, <1>2, <1>8, <1>14, <2>1, <2>2, <2>3, QueueKept
<1>16. InOrder' = Queue!Retire(kept)
  <2>1. InOrder' \in Seq(Queue!Instruction) /\ Len(InOrder') = m
    BY <1>9 DEF InOrderFacts
  <2> QED BY <1>15, <2>1, SeqEqual
<1>17. wb \in SUBSET Queue!Tags
  <2>1. wb \subseteq LiveTags
    BY DEF Writebacks, LiveTags
  <2> QED BY <1>2, <1>9, <2>1, QueueTags
<1> QED BY <1>11, <1>16, <1>17 DEF Queue!Recover, kept

(***************************************************************************)
(* The ROB is a queue in program order: whatever the order of writebacks,  *)
(* commits, allocations and recoveries, every clock edge of the circular   *)
(* buffer is a step of RobQueue or leaves its queue as it is, for every    *)
(* depth (rob.sv).                                                         *)
(***************************************************************************)
THEOREM QueueImplemented == Spec => ImplementsQueue
<1>1. Init => Queue!Init
  <2> SUFFICES ASSUME Init PROVE InOrder = << >>
    BY DEF Queue!Init
  <2>1. Inv
    BY InitInv
  <2>2. PICK n \in 0 .. ROB_DEPTH : WindowOf(n)
    BY <2>1 DEF Inv, Window
  <2>3. InOrderFacts(n)
    BY <2>1, <2>2, InOrderMapping DEF InOrderIs, Inv, TypeOK
  <2>4. \A i \in Slot : ~entries[i].valid
    BY DEF Init, RobInit, ZeroEntry
  <2>5. n = 0
    <3>1. n > 0 => 0 \in 0 .. n - 1
      OBVIOUS
    <3>2. n > 0 => FromHead(0) \in Slot /\ entries[FromHead(0)].valid
      BY <2>3, <3>1, Zenon DEF InOrderFacts
    <3> QED BY <2>4, <3>2
  <2> QED BY <2>3, <2>5, EmptySeq DEF InOrderFacts
<1>2. Inv /\ Inv' /\ [Next]_vars => [Queue!Next]_InOrder
  <2> SUFFICES ASSUME Inv, Inv', [Next]_vars PROVE [Queue!Next]_InOrder
    OBVIOUS
  <2>1. CASE Run
    BY <2>1, RunAdvances DEF Run, Queue!Next
  <2>2. CASE Recover
    BY <2>2, RecoverRecovers DEF Recover, Queue!Next
  <2>3. CASE UNCHANGED vars
    BY <2>3 DEF vars, robVars, InOrder, ValidSlots, FromHead
  <2> QED BY <2>1, <2>2, <2>3 DEF Next
<1> QED BY <1>1, <1>2, SpecInv, PTL DEF Spec, ImplementsQueue, Queue!Spec
=============================================================================
