--------------------------- MODULE CppRenameProofs --------------------------
(***************************************************************************)
(* Proofs about CppRenameStage, for every number of registers and tags.    *)
(* The stage's invariants do not survive a recovery by themselves: it      *)
(* makes a checkpoint the present state. So each of them is proved of the  *)
(* present state and of what every checkpoint would restore.  Apart keeps  *)
(* free, mapped and former registers apart; Follows says that the map is   *)
(* the one the instructions in flight have built. Shared tags cannot       *)
(* break the first, only the second.                                       *)
(***************************************************************************)
EXTENDS CppRenameStage, NatLemmas, SequenceTheorems

USE DepthAssumption, RegsAssumption, CkptTagAssumption
-----------------------------------------------------------------------------
\* findFreeTag gives a tag, and one that is free if there is one.
LEMMA FreeTagFound ==
  ASSUME next_tag \in Tag, NEW used
  PROVE  /\ FindFreeTag(used) \in Tag
         /\ TagFound(used) => FindFreeTag(used) \notin used
<1> DEFINE cand(k) == (next_tag + k) % ROB_DEPTH
           free == {k \in 0 .. ROB_DEPTH - 1 : cand(k) \notin used}
<1>1. \A k \in 0 .. ROB_DEPTH - 1 : cand(k) \in Tag
  BY DEF Tag
<1>2. ASSUME TagFound(used) PROVE free # {}
  <2>1. PICK t \in Tag : t \notin used
    BY <1>2 DEF TagFound
  <2>2. CASE t >= next_tag
    <3>1. t - next_tag \in 0 .. ROB_DEPTH - 1 /\ next_tag + (t - next_tag) = t
      BY <2>2 DEF Tag
    <3>2. t % ROB_DEPTH = t
      BY DEF Tag
    <3> QED BY <2>1, <3>1, <3>2
  <2>3. CASE t < next_tag
    <3> DEFINE k == t - next_tag + ROB_DEPTH
    <3>1. k \in 0 .. ROB_DEPTH - 1 /\ next_tag + k = t + ROB_DEPTH
      BY <2>3 DEF Tag
    <3>2. (t + ROB_DEPTH) % ROB_DEPTH = t
      BY DEF Tag
    <3>3. cand(k) = t
      BY <3>1, <3>2
    <3> QED BY <2>1, <3>1, <3>3
  <2> QED BY <2>2, <2>3 DEF Tag
<1>3. free = {} => FindFreeTag(used) = next_tag
  BY DEF FindFreeTag
<1>4. ASSUME free # {} PROVE FindFreeTag(used) \in Tag \ used
  <2>1. free \subseteq Nat
    OBVIOUS
  <2> HIDE DEF free
  <2>2. \E k \in free : \A l \in free : k <= l
    BY <1>4, <2>1, LeastElement
  <2>3. (CHOOSE x \in free : \A l \in free : x <= l) \in free
    BY <2>2
  <2> QED BY <1>1, <1>4, <2>3 DEF free, FindFreeTag
<1> QED BY <1>2, <1>3, <1>4

\* findFree gives a free register, if there is one.
LEMMA FreePregFound ==
  ASSUME NEW free, HasFree(free)
  PROVE  FindFree(free) \in free \cap Allocatable
<1>1. free \cap Allocatable \subseteq Nat
  BY DEF Allocatable
<1>2. \E p \in free \cap Allocatable : \A q \in free \cap Allocatable : p <= q
  BY <1>1, LeastElement DEF HasFree
<1> QED BY <1>2 DEF FindFree
-----------------------------------------------------------------------------
(***************************************************************************)
(* What packets, a mapping and a free set have to do with each other, for  *)
(* the first n of the packets s: this is what a checkpoint saves, and it   *)
(* survives commits in front and further packets behind.                   *)
(***************************************************************************)
Apart(s, n, map, free) ==
  /\ \A r, q \in Areg : map[r] = map[q] => r = q
  /\ \A r \in Areg : map[r] \notin free
  /\ \A k \in 1 .. n : s[k].rd_used =>
       /\ s[k].prd \notin free /\ s[k].old_prd \notin free
       /\ \A r \in Areg : map[r] # s[k].old_prd
  /\ \A k, l \in 1 .. n : s[k].rd_used /\ s[l].rd_used =>
       /\ s[k].prd = s[l].prd => k = l
       /\ s[k].old_prd = s[l].old_prd => k = l
       /\ k <= l => s[k].old_prd # s[l].prd

\* The mapping has the last writer of each register among the first n packets.
Follows(s, n, map) ==
  \A k \in 1 .. n : s[k].rd_used =>
    \/ map[s[k].rd] = s[k].prd
    \/ \E l \in k + 1 .. n : s[l].rd_used /\ s[l].rd = s[k].rd

\* t starts with the first n packets of s.
SamePrefix(s, t, n) == \A i \in 1 .. n : t[i] = s[i]

\* Without the packets behind the first m.
LEMMA Prefix ==
  ASSUME NEW s, NEW t, NEW n \in Nat, NEW m \in Nat, m <= n, NEW map, NEW free,
         SamePrefix(s, t, m), Apart(s, n, map, free)
  PROVE  Apart(t, m, map, free)
BY DEF SamePrefix, Apart

\* Without the first packet, whose former register becomes free, if it has one.
LEMMA Behind ==
  ASSUME NEW s, NEW t, NEW n \in Nat \ {0}, NEW map, NEW free, NEW freed,
         \A i \in 1 .. n - 1 : t[i] = s[i + 1],
         freed \subseteq (IF s[1].rd_used THEN {s[1].old_prd} ELSE {}),
         Apart(s, n, map, free)
  PROVE  Apart(t, n - 1, map, free \cup freed)
<1>1. \A i \in 1 .. n - 1 : i + 1 \in 1 .. n /\ t[i] = s[i + 1] /\ 1 <= i + 1
  OBVIOUS
<1>2. 1 \in 1 .. n
  OBVIOUS
<1>3. \A i, j \in 1 .. n - 1 : (i + 1 = j + 1 <=> i = j) /\ (i <= j => i + 1 <= j + 1)
  OBVIOUS
<1>4. \A i \in 1 .. n - 1 : i + 1 # 1
  OBVIOUS
<1> QED BY <1>1, <1>2, <1>3, <1>4 DEF Apart

LEMMA BehindFollows ==
  ASSUME NEW s, NEW t, NEW n \in Nat \ {0}, NEW map,
         \A i \in 1 .. n - 1 : t[i] = s[i + 1], Follows(s, n, map)
  PROVE  Follows(t, n - 1, map)
<1> SUFFICES ASSUME NEW k \in 1 .. n - 1, t[k].rd_used, map[t[k].rd] # t[k].prd
             PROVE  \E l \in k + 1 .. n - 1 : t[l].rd_used /\ t[l].rd = t[k].rd
  BY DEF Follows
<1>1. k + 1 \in 1 .. n /\ t[k] = s[k + 1]
  OBVIOUS
<1>2. PICK l \in k + 2 .. n : s[l].rd_used /\ s[l].rd = s[k + 1].rd
  BY <1>1 DEF Follows
<1>3. l - 1 \in k + 1 .. n - 1 /\ t[l - 1] = s[l]
  OBVIOUS
<1> QED BY <1>1, <1>2, <1>3

\* A free register is taken for r, and the packet that was to say so is lost.
LEMMA Alone ==
  ASSUME NEW s, NEW n \in Nat, NEW map \in [Areg -> Preg], NEW free, NEW r \in Areg, NEW p \in free,
         Apart(s, n, map, free)
  PROVE  Apart(s, n, [map EXCEPT ![r] = p], free \ {p})
BY DEF Apart

\* It comes behind the others, with the register that r had.
LEMMA Together ==
  ASSUME NEW s, NEW t, NEW n \in Nat, NEW map \in [Areg -> Preg], NEW free,
         NEW r \in Areg, NEW p \in free,
         SamePrefix(s, t, n), t[n + 1].prd = p, t[n + 1].old_prd = map[r],
         Apart(s, n, map, free)
  PROVE  Apart(t, n + 1, [map EXCEPT ![r] = p], free \ {p})
<1> DEFINE after == [map EXCEPT ![r] = p]
<1>1. /\ \A q \in Areg : after[q] = IF q = r THEN p ELSE map[q]
      /\ \A q \in Areg : map[q] # p
  BY DEF Apart
<1>2. \A k \in 1 .. n + 1 : k \in 1 .. n \/ k = n + 1
  OBVIOUS
<1>3. \A k \in 1 .. n : t[k] = s[k] /\ k <= n + 1 /\ ~(n + 1 <= k)
  BY DEF SamePrefix
<1> HIDE DEF after
<1>4. /\ \A q, u \in Areg : after[q] = after[u] => q = u
      /\ \A q \in Areg : after[q] \notin free \ {p}
  BY <1>1 DEF Apart
<1>5. ASSUME NEW k \in 1 .. n + 1, t[k].rd_used
      PROVE  /\ t[k].prd \notin free \ {p} /\ t[k].old_prd \notin free \ {p}
             /\ \A q \in Areg : after[q] # t[k].old_prd
  <2>1. CASE k \in 1 .. n
    BY <1>1, <1>3, <1>5, <2>1 DEF Apart
  <2>2. CASE k = n + 1
    BY <1>1, <2>2 DEF Apart
  <2> QED BY <1>2, <2>1, <2>2
<1>6. ASSUME NEW k \in 1 .. n + 1, NEW l \in 1 .. n + 1, t[k].rd_used, t[l].rd_used
      PROVE  /\ t[k].prd = t[l].prd => k = l
             /\ t[k].old_prd = t[l].old_prd => k = l
             /\ k <= l => t[k].old_prd # t[l].prd
  <2>1. CASE k \in 1 .. n /\ l \in 1 .. n
    BY <1>3, <1>6, <2>1 DEF Apart
  <2>2. CASE k \in 1 .. n /\ l = n + 1
    BY <1>3, <1>6, <2>2 DEF Apart
  <2>3. CASE k = n + 1 /\ l \in 1 .. n
    BY <1>3, <1>6, <2>3 DEF Apart
  <2>4. CASE k = n + 1 /\ l = n + 1
    BY <1>1, <2>4
  <2> QED BY <1>2, <2>1, <2>2, <2>3, <2>4
<1> QED BY <1>4, <1>5, <1>6 DEF Apart, after

\* A packet without a destination comes behind the others.
LEMMA Beside ==
  ASSUME NEW s, NEW t, NEW n \in Nat, NEW map, NEW free,
         SamePrefix(s, t, n), ~t[n + 1].rd_used, Apart(s, n, map, free)
  PROVE  Apart(t, n + 1, map, free)
<1>1. \A k \in 1 .. n + 1 : t[k].rd_used => k \in 1 .. n /\ t[k] = s[k]
  BY DEF SamePrefix
<1> QED BY <1>1 DEF Apart
\* The same three ways of going on, for the mapping.
LEMMA PrefixFollows ==
  ASSUME NEW s, NEW t, NEW n \in Nat, NEW map, SamePrefix(s, t, n), Follows(s, n, map)
  PROVE  Follows(t, n, map)
<1>1. \A k \in 1 .. n : t[k] = s[k] /\ \A l \in k + 1 .. n : l \in 1 .. n
  BY DEF SamePrefix
<1>2. \A k \in 1 .. n : \A l \in k + 1 .. n : t[l] = s[l]
  BY <1>1 DEF SamePrefix
<1> QED BY <1>1, <1>2 DEF Follows

LEMMA TogetherFollows ==
  ASSUME NEW s, NEW t, NEW n \in Nat, NEW map \in [Areg -> Preg], NEW p,
         SamePrefix(s, t, n), t[n + 1].rd_used, t[n + 1].rd \in Areg, t[n + 1].prd = p,
         Follows(s, n, map)
  PROVE  Follows(t, n + 1, [map EXCEPT ![t[n + 1].rd] = p])
<1> DEFINE after == [map EXCEPT ![t[n + 1].rd] = p]
<1>1. /\ after[t[n + 1].rd] = p
      /\ \A q : q # t[n + 1].rd => after[q] = map[q]
  OBVIOUS
<1> HIDE DEF after
<1> SUFFICES ASSUME NEW k \in 1 .. n + 1, t[k].rd_used, after[t[k].rd] # t[k].prd
             PROVE  \E l \in k + 1 .. n + 1 : t[l].rd_used /\ t[l].rd = t[k].rd
  BY DEF Follows, after
<1>2. k \in 1 .. n
  BY <1>1
<1>3. Follows(t, n, map)
  BY PrefixFollows
<1>4. CASE t[k].rd = t[n + 1].rd
  BY <1>2, <1>4
<1>5. CASE t[k].rd # t[n + 1].rd
  <2>1. map[t[k].rd] # t[k].prd
    BY <1>1, <1>5
  <2>2. PICK l \in k + 1 .. n : t[l].rd_used /\ t[l].rd = t[k].rd
    BY <1>2, <1>3, <2>1 DEF Follows
  <2>3. l \in k + 1 .. n + 1
    OBVIOUS
  <2> QED BY <2>2, <2>3
<1> QED BY <1>4, <1>5

LEMMA BesideFollows ==
  ASSUME NEW s, NEW t, NEW n \in Nat, NEW map,
         SamePrefix(s, t, n), ~t[n + 1].rd_used, Follows(s, n, map)
  PROVE  Follows(t, n + 1, map)
<1>1. Follows(t, n, map)
  BY PrefixFollows
<1> SUFFICES ASSUME NEW k \in 1 .. n + 1, t[k].rd_used, map[t[k].rd] # t[k].prd
             PROVE  \E l \in k + 1 .. n + 1 : t[l].rd_used /\ t[l].rd = t[k].rd
  BY DEF Follows
<1>2. k \in 1 .. n
  OBVIOUS
<1>3. PICK l \in k + 1 .. n : t[l].rd_used /\ t[l].rd = t[k].rd
  BY <1>1, <1>2 DEF Follows
<1>4. l \in k + 1 .. n + 1
  OBVIOUS
<1> QED BY <1>3, <1>4
-----------------------------------------------------------------------------
(***************************************************************************)
(* A cycle, with names for what Cycle computes.                            *)
(***************************************************************************)
Waiting(dispatch) == IF dispatch THEN Tail(buffer) ELSE buffer
Confirmed(dispatch) == IF dispatch THEN {Head(buffer).rob_tag} ELSE {}
Freed(commit) == IF commit /\ Head(rob).rd_used THEN {Head(rob).old_prd} ELSE {}
NewTag(dispatch) == FindFreeTag(Used(Live, Confirmed(dispatch)))
HasTag(dispatch) == TagFound(Used(Live, Confirmed(dispatch)))
Fire(d, valid_in, dispatch) ==
  valid_in /\ ReadyOut(d, free_map, HasTag(dispatch), Len(Waiting(dispatch)) < BUFFERED)
FreeList(d, valid_in, dispatch, commit) ==
  FreeListAfter(AllocReq(d, Fire(d, valid_in, dispatch)), Freed(commit))
Pkt(d, valid_in, dispatch, commit) ==
  RenamePkt(d, FreeList(d, valid_in, dispatch, commit), HasTag(dispatch), NewTag(dispatch))
NextRat(d, valid_in, dispatch, commit) ==
  MapTableAfter(AllocReq(d, Fire(d, valid_in, dispatch)), d.rd,
                FreeList(d, valid_in, dispatch, commit).alloc_preg_q)

LEMMA CycleParts ==
  ASSUME NEW d, NEW valid_in, NEW dispatch, NEW commit, Cycle(d, valid_in, dispatch, commit)
  PROVE  LET fire == Fire(d, valid_in, dispatch)
             pkt == Pkt(d, valid_in, dispatch, commit)
             take == CheckpointTake(d, fire)
         IN  /\ dispatch => buffer # << >> /\ Len(rob) < ROB_DEPTH
             /\ commit => rob # << >>
             /\ TagTick(fire, Live, Confirmed(dispatch), take, NewTag(dispatch))
             /\ RenameTick(FreeList(d, valid_in, dispatch, commit),
                           NextRat(d, valid_in, dispatch, commit), take, NewTag(dispatch))
             /\ buffer' = IF fire /\ pkt.valid THEN Append(Waiting(dispatch), pkt)
                                               ELSE Waiting(dispatch)
             /\ rob' = LET kept == IF commit THEN Tail(rob) ELSE rob
                       IN  IF dispatch THEN Append(kept, Head(buffer)) ELSE kept
             /\ Track(fire /\ ~pkt.valid)
BY DEF Cycle, Waiting, Confirmed, Freed, NewTag, HasTag, Fire, FreeList, Pkt, NextRat

(***************************************************************************)
(* Seen over the ROB and the buffer together, dispatch changes nothing:    *)
(* the oldest packet leaves and a new one comes.                           *)
(***************************************************************************)
Shift(commit) == IF commit THEN 1 ELSE 0

LEMMA FlightLength ==
  ASSUME TypeOK
  PROVE  /\ InFlight \in Seq(Packet) /\ Len(InFlight) = Len(rob) + Len(buffer)
         /\ Len(rob) \in Nat /\ Len(buffer) \in Nat /\ Len(InFlight) \in Nat
         /\ \A i \in 1 .. Len(rob) : InFlight[i] = rob[i]
         /\ \A i \in 1 .. Len(buffer) : InFlight[Len(rob) + i] = buffer[i]
         /\ \A i \in 1 .. Len(InFlight) : InFlight[i] \in Packet
<1>1. rob \in Seq(Packet) /\ buffer \in Seq(Packet)
  BY DEF TypeOK
<1>2. Len(rob) \in Nat /\ Len(buffer) \in Nat
  BY <1>1
<1>3. /\ InFlight \in Seq(Packet) /\ Len(InFlight) = Len(rob) + Len(buffer)
      /\ \A i \in 1 .. Len(rob) + Len(buffer) :
           InFlight[i] = IF i <= Len(rob) THEN rob[i] ELSE buffer[i - Len(rob)]
  BY <1>1, ConcatProperties DEF InFlight
<1>4. \A i \in 1 .. Len(buffer) : /\ Len(rob) + i \in 1 .. Len(rob) + Len(buffer)
                                  /\ ~(Len(rob) + i <= Len(rob)) /\ Len(rob) + i - Len(rob) = i
  BY <1>2
<1>5. \A i \in 1 .. Len(InFlight) : InFlight[i] \in Packet
  BY <1>3, ElementOfSeq
<1> QED BY <1>2, <1>3, <1>4, <1>5

LEMMA FlightAfterCycle ==
  ASSUME TypeOK, rob' \in Seq(Packet), buffer' \in Seq(Packet),
         NEW d, NEW valid_in \in BOOLEAN, NEW dispatch \in BOOLEAN, NEW commit \in BOOLEAN,
         Cycle(d, valid_in, dispatch, commit)
  PROVE  LET n == Len(InFlight) - Shift(commit)
             pkt == Pkt(d, valid_in, dispatch, commit)
             got == Fire(d, valid_in, dispatch) /\ pkt.valid
         IN  /\ n \in Nat /\ (commit => n + 1 = Len(InFlight) /\ Len(InFlight) > 0)
             /\ \A i \in 1 .. n : InFlight'[i] = InFlight[i + Shift(commit)]
             /\ Len(InFlight') = IF got THEN n + 1 ELSE n
             /\ got => InFlight'[n + 1] = pkt
             /\ commit => InFlight[1] = Head(rob)
<1> DEFINE n == Len(InFlight) - Shift(commit)
           pkt == Pkt(d, valid_in, dispatch, commit)
           got == Fire(d, valid_in, dispatch) /\ pkt.valid
           kept == IF commit THEN Tail(rob) ELSE rob
           waiting == Waiting(dispatch)
           m == IF dispatch THEN 1 ELSE 0
<1>1. /\ dispatch => buffer # << >>
      /\ commit => rob # << >>
      /\ buffer' = IF got THEN Append(waiting, pkt) ELSE waiting
      /\ rob' = IF dispatch THEN Append(kept, Head(buffer)) ELSE kept
  BY CycleParts
<1>2. rob \in Seq(Packet) /\ buffer \in Seq(Packet)
  BY DEF TypeOK
<1>3. /\ kept \in Seq(Packet) /\ Len(kept) = Len(rob) - Shift(commit)
      /\ \A i \in 1 .. Len(kept) : kept[i] = rob[i + Shift(commit)]
      /\ commit => Len(rob) > 0 /\ Head(rob) = rob[1]
  BY <1>1, <1>2, HeadTailProperties DEF Shift
<1>4. /\ waiting \in Seq(Packet) /\ Len(waiting) = Len(buffer) - m
      /\ \A i \in 1 .. Len(waiting) : waiting[i] = buffer[i + m]
      /\ dispatch => Len(buffer) > 0 /\ Head(buffer) = buffer[1]
  BY <1>1, <1>2, HeadTailProperties DEF Waiting
<1>5. Len(kept) \in Nat /\ Len(waiting) \in Nat
  BY <1>3, <1>4
<1> HIDE DEF kept, waiting, got, pkt
<1>6. /\ Len(rob') = Len(kept) + m
      /\ \A i \in 1 .. Len(kept) : rob'[i] = rob[i + Shift(commit)]
      /\ dispatch => rob'[Len(kept) + 1] = buffer[1]
  BY <1>1, <1>3, <1>4, <1>5
<1>7. /\ Len(buffer') = IF got THEN Len(waiting) + 1 ELSE Len(waiting)
      /\ \A i \in 1 .. Len(waiting) : buffer'[i] = buffer[i + m]
      /\ got => buffer'[Len(waiting) + 1] = pkt
  BY <1>1, <1>4, <1>5
<1>8. /\ Len(InFlight') = Len(rob') + Len(buffer')
      /\ \A i \in 1 .. Len(rob') + Len(buffer') :
           InFlight'[i] = IF i <= Len(rob') THEN rob'[i] ELSE buffer'[i - Len(rob')]
  BY ConcatProperties DEF InFlight
<1>10. /\ \A i \in 1 .. Len(rob) : InFlight[i] = rob[i]
       /\ \A i \in 1 .. Len(buffer) : InFlight[Len(rob) + i] = buffer[i]
       /\ Len(InFlight) = Len(rob) + Len(buffer)
       /\ Len(rob) \in Nat /\ Len(buffer) \in Nat
  BY FlightLength
<1>15. m \in Nat /\ Shift(commit) \in Nat
  BY DEF Shift
<1>16. /\ Len(rob') \in Nat /\ Len(rob') = Len(kept) + m
       /\ Len(kept) = Len(rob) - Shift(commit) /\ Len(waiting) = Len(buffer) - m
  BY <1>3, <1>4, <1>5, <1>6, <1>15
<1>17. Len(buffer') \in Nat /\ Len(buffer') >= Len(waiting)
  BY <1>5, <1>7
<1>18. Len(rob) \in Nat /\ Len(buffer) \in Nat
  BY <1>10
<1> HIDE DEF m
<1>9. n \in Nat /\ n = Len(rob') + Len(waiting)
  BY <1>5, <1>10, <1>15, <1>16, SMTT(30)
<1> HIDE DEF n
<1>11. ASSUME NEW i \in 1 .. n
       PROVE  InFlight'[i] = InFlight[i + Shift(commit)]
  <2>1. CASE i <= Len(kept)
    <3>1. i \in 1 .. Len(kept) /\ i + Shift(commit) \in 1 .. Len(rob) /\ i <= Len(rob')
      BY <1>5, <1>10, <1>15, <1>16, <2>1
    <3>2. InFlight'[i] = rob'[i]
      BY <1>5, <1>8, <1>16, <1>17, <3>1
    <3> QED BY <1>6, <1>10, <3>1, <3>2
  <2>2. CASE i = Len(kept) + 1 /\ dispatch
    <3>1. i \in 1 .. Len(rob') + Len(buffer') /\ i <= Len(rob')
      BY <1>5, <1>15, <1>16, <1>17, <2>2 DEF m
    <3>2. InFlight'[i] = buffer[1]
      BY <1>6, <1>8, <2>2, <3>1
    <3>3. i + Shift(commit) = Len(rob) + 1 /\ 1 \in 1 .. Len(buffer)
      BY <1>4, <1>10, <1>15, <1>16, <2>2, SMTT(30)
    <3> QED BY <1>10, <3>2, <3>3
  <2>3. CASE i > Len(rob')
    <3>1. PICK j \in 1 .. Len(waiting) : i = Len(rob') + j
      <4>1. i - Len(rob') \in 1 .. Len(waiting) /\ i = Len(rob') + (i - Len(rob'))
        BY <1>5, <1>9, <1>16, <2>3
      <4> QED BY <4>1
    <3>2. /\ i - Len(rob') = j /\ ~(i <= Len(rob')) /\ i \in 1 .. Len(rob') + Len(buffer')
      BY <1>5, <1>16, <1>17, <3>1
    <3>3. InFlight'[i] = buffer'[j] /\ buffer'[j] = buffer[j + m]
      BY <1>7, <1>8, <3>2
    <3>4. j + m \in 1 .. Len(buffer)
      BY <1>5, <1>15, <1>16, <1>18
    <3>5. i + Shift(commit) = Len(rob) + (j + m)
      <4>1. Len(rob) = Len(kept) + Shift(commit)
        BY <1>5, <1>15, <1>16, <1>18
      <4>2. i = Len(kept) + m + j
        BY <1>16, <3>1
      <4>3. i + Shift(commit) = (Len(kept) + m + j) + Shift(commit)
        BY <4>2
      <4>4. Len(rob) + (j + m) = (Len(kept) + Shift(commit)) + (j + m)
        BY <4>1
      <4> QED BY <1>5, <1>15, <4>3, <4>4
    <3> QED BY <1>10, <3>3, <3>4, <3>5
  <2> QED BY <1>5, <1>9, <1>16, <2>1, <2>2, <2>3 DEF m
<1>12. Len(InFlight') = IF got THEN n + 1 ELSE n
  BY <1>5, <1>7, <1>8, <1>9, <1>16
<1>13. ASSUME got PROVE InFlight'[n + 1] = pkt
  <2> DEFINE e == n + 1
  <2>1. /\ e \in 1 .. Len(rob') + Len(buffer') /\ ~(e <= Len(rob'))
        /\ e - Len(rob') = Len(waiting) + 1
    BY <1>5, <1>7, <1>9, <1>13, <1>16, SMTT(30)
  <2> HIDE DEF e
  <2>2. InFlight'[e] = buffer'[e - Len(rob')]
    BY <1>8, <2>1
  <2>3. InFlight'[e] = pkt
    BY <1>7, <1>13, <2>1, <2>2
  <2> QED BY <2>3 DEF e
<1>14. commit => n + 1 = Len(InFlight) /\ Len(InFlight) > 0 /\ InFlight[1] = Head(rob)
  BY <1>3, <1>10, <1>16 DEF Shift, n
<1> QED BY <1>9, <1>11, <1>12, <1>13, <1>14 DEF got, pkt, n
-----------------------------------------------------------------------------
(***************************************************************************)
(* What the free list and rename make of a cycle.                          *)
(***************************************************************************)
Returned(commit) == free_map \cup (Freed(commit) \ {0})
Grant(d, valid_in, dispatch) == AllocReq(d, Fire(d, valid_in, dispatch))
NewPreg(commit) == FindFree(Returned(commit))

LEMMA ReadyMeansFree ==
  ASSUME NEW d, NEW valid_in, NEW dispatch, NEW commit, Grant(d, valid_in, dispatch)
  PROVE  HasFree(Returned(commit)) /\ NeedAlloc(d) /\ Fire(d, valid_in, dispatch)
BY DEF Grant, AllocReq, Fire, ReadyOut, AllocOk, HasFree, Returned

LEMMA Granted ==
  ASSUME NEW d, NEW valid_in, NEW dispatch, NEW commit, Grant(d, valid_in, dispatch)
  PROVE  LET p == NewPreg(commit)
             pkt == Pkt(d, valid_in, dispatch, commit)
         IN  /\ p \in Returned(commit) \cap Allocatable
             /\ FreeList(d, valid_in, dispatch, commit)
                  = [free_map |-> Returned(commit) \ {p}, alloc_preg_q |-> p]
             /\ NextRat(d, valid_in, dispatch, commit) = [rat EXCEPT ![d.rd] = p]
             /\ pkt.rd_used /\ pkt.prd = p /\ pkt.old_prd = rat[d.rd]
<1>1. /\ HasFree(Returned(commit)) /\ NeedAlloc(d) /\ Fire(d, valid_in, dispatch)
      /\ AllocReq(d, Fire(d, valid_in, dispatch))
  BY ReadyMeansFree DEF Grant
<1>2. NewPreg(commit) \in Returned(commit) \cap Allocatable
  BY <1>1, FreePregFound DEF NewPreg
<1>3. FreeList(d, valid_in, dispatch, commit)
        = [free_map |-> Returned(commit) \ {NewPreg(commit)}, alloc_preg_q |-> NewPreg(commit)]
  BY <1>1 DEF FreeList, FreeListAfter, Returned, NewPreg
<1>4. NextRat(d, valid_in, dispatch, commit) = [rat EXCEPT ![d.rd] = NewPreg(commit)]
  BY <1>1, <1>3 DEF NextRat, MapTableAfter, NeedAlloc
<1>5. LET pkt == Pkt(d, valid_in, dispatch, commit)
      IN  pkt.rd_used /\ pkt.prd = NewPreg(commit) /\ pkt.old_prd = rat[d.rd]
  BY <1>1, <1>3 DEF Pkt, RenamePkt
<1> QED BY <1>2, <1>3, <1>4, <1>5

LEMMA NotGranted ==
  ASSUME NEW d, NEW valid_in, NEW dispatch, NEW commit, ~Grant(d, valid_in, dispatch)
  PROVE  /\ FreeList(d, valid_in, dispatch, commit)
              = [free_map |-> Returned(commit), alloc_preg_q |-> alloc_preg_q]
         /\ NextRat(d, valid_in, dispatch, commit) = rat
         /\ Fire(d, valid_in, dispatch) => ~Pkt(d, valid_in, dispatch, commit).rd_used
<1>1. ~AllocReq(d, Fire(d, valid_in, dispatch))
  BY DEF Grant
<1>2. Fire(d, valid_in, dispatch) => ~NeedAlloc(d)
  BY <1>1 DEF AllocReq
<1> QED BY <1>1, <1>2 DEF FreeList, FreeListAfter, Returned, NextRat, MapTableAfter, Pkt, RenamePkt

\* The fields of a new packet that do not come from the free list.
LEMMA NewPacket ==
  ASSUME NEW d, NEW valid_in, NEW dispatch, NEW commit
  PROVE  LET pkt == Pkt(d, valid_in, dispatch, commit)
         IN  pkt.rob_tag = NewTag(dispatch) /\ pkt.rd = d.rd /\ pkt.is_branch = d.is_branch
BY DEF Pkt, RenamePkt
-----------------------------------------------------------------------------
(***************************************************************************)
(* The types.                                                              *)
(***************************************************************************)
LEMMA CycleType ==
  ASSUME TypeOK, NEW d \in DecodePkt, NEW valid_in \in BOOLEAN, NEW dispatch \in BOOLEAN,
         NEW commit \in BOOLEAN, Cycle(d, valid_in, dispatch, commit)
  PROVE  TypeOK'
<1> DEFINE fire == Fire(d, valid_in, dispatch)
           pkt == Pkt(d, valid_in, dispatch, commit)
           fl == FreeList(d, valid_in, dispatch, commit)
           nextRat == NextRat(d, valid_in, dispatch, commit)
           take == CheckpointTake(d, fire)
           tag == NewTag(dispatch)
<1>1. /\ dispatch => buffer # << >>
      /\ commit => rob # << >>
      /\ TagTick(fire, Live, Confirmed(dispatch), take, tag)
      /\ RenameTick(fl, nextRat, take, tag)
      /\ buffer' = IF fire /\ pkt.valid THEN Append(Waiting(dispatch), pkt) ELSE Waiting(dispatch)
      /\ rob' = LET kept == IF commit THEN Tail(rob) ELSE rob
                IN  IF dispatch THEN Append(kept, Head(buffer)) ELSE kept
      /\ Track(fire /\ ~pkt.valid)
  BY CycleParts
<1>2. /\ rob \in Seq(Packet) /\ buffer \in Seq(Packet)
      /\ rat \in [Areg -> Preg] /\ free_map \subseteq Preg /\ alloc_preg_q \in Preg
      /\ next_tag \in Tag
  BY DEF TypeOK, RenameTypeOK, TagTypeOK
<1>3. tag \in Tag /\ IncTag(tag) \in Tag
  BY <1>2, FreeTagFound DEF NewTag, IncTag, Tag
<1>4. /\ dispatch => Head(buffer) \in Packet /\ Tail(buffer) \in Seq(Packet)
      /\ commit => Head(rob) \in Packet /\ Tail(rob) \in Seq(Packet)
  BY <1>1, <1>2, HeadTailProperties
<1>5. Returned(commit) \subseteq Preg
  BY <1>2, <1>4 DEF Returned, Freed, Packet
<1>6. /\ fl.free_map \subseteq Preg /\ fl.alloc_preg_q \in Preg
      /\ nextRat \in [Areg -> Preg]
  <2>1. CASE Grant(d, valid_in, dispatch)
    BY <1>2, <1>5, <2>1, Granted
  <2>2. CASE ~Grant(d, valid_in, dispatch)
    BY <1>2, <1>5, <2>2, NotGranted
  <2> QED BY <2>1, <2>2
<1>7. pkt \in Packet
  <2>1. d.rd \in Areg /\ d.rd_used \in BOOLEAN /\ d.is_branch \in BOOLEAN
    BY DEF DecodePkt
  <2>2. NeedAlloc(d) \in BOOLEAN /\ rat[d.rd] \in Preg /\ 0 \in Preg
    BY <1>2, <2>1 DEF NeedAlloc, Preg
  <2>3. (AllocOk(d, fl.free_map) /\ HasTag(dispatch)) \in BOOLEAN
    BY DEF AllocOk, HasTag, TagFound
  <2> QED BY <1>3, <1>6, <2>1, <2>2, <2>3 DEF Pkt, RenamePkt, Packet
<1> HIDE DEF fire, pkt, fl, nextRat, take, tag
<1>8. TagTypeOK'
  BY <1>1, <1>3 DEF TypeOK, TagTypeOK, TagTick, NewTag, tag, TagFound
<1>9. RenameTypeOK'
  BY <1>1, <1>3, <1>6 DEF TypeOK, RenameTypeOK, RenameTick
<1>10. buffer' \in Seq(Packet) /\ rob' \in Seq(Packet)
  BY <1>1, <1>2, <1>4, <1>7 DEF Waiting
<1>11. spoiled' \in BOOLEAN
  BY <1>1 DEF Track, TypeOK
<1> QED BY <1>8, <1>9, <1>10, <1>11 DEF TypeOK

\* A redirect keeps the first packets in flight, up to the branch, which are in the ROB.
LEMMA FlightAfterRedirect ==
  ASSUME TypeOK, NEW k \in DOMAIN rob, NEW flush \in BOOLEAN, Redirect(k, flush)
  PROVE  /\ rob' \in Seq(Packet) /\ buffer' = << >>
         /\ k \in 1 .. Len(InFlight) /\ Len(InFlight') = k
         /\ SamePrefix(InFlight, InFlight', k)
         /\ InFlight[k] = rob[k] /\ rob[k].is_branch /\ rob[k].rob_tag \in Tag
<1>1. rob \in Seq(Packet) /\ buffer' = << >> /\ rob' = SubSeq(rob, 1, k) /\ rob[k].is_branch
  BY DEF TypeOK, Redirect
<1>2. k \in 1 .. Len(rob) /\ Len(rob) \in Nat
  BY <1>1
<1>3. \A i \in 1 .. k : rob[i] \in Packet
  BY <1>1, <1>2, ElementOfSeq
<1>4. /\ rob' \in Seq(Packet) /\ Len(rob') = k
      /\ \A i \in 1 .. k : rob'[i] = rob[i]
  BY <1>1, <1>2, <1>3, SubSeqProperties
<1>5. InFlight' = rob'
  BY <1>1, <1>4, ConcatEmptySeq DEF InFlight
<1>6. /\ k \in 1 .. Len(InFlight)
      /\ \A i \in 1 .. k : InFlight[i] = rob[i]
  BY <1>2, FlightLength
<1>7. rob[k] \in Packet /\ InFlight[k] = rob[k]
  BY <1>2, <1>3, <1>6
<1> QED BY <1>1, <1>4, <1>5, <1>6, <1>7 DEF SamePrefix, Packet

LEMMA RedirectType ==
  ASSUME TypeOK, NEW k \in DOMAIN rob, NEW flush \in BOOLEAN, Redirect(k, flush)
  PROVE  TypeOK'
<1>1. rob' \in Seq(Packet) /\ buffer' = << >> /\ rob[k].rob_tag \in Tag
  BY FlightAfterRedirect
<1>2. TagTypeOK'
  BY <1>1 DEF TypeOK, TagTypeOK, Redirect, TagRedirect
<1>3. RenameTypeOK'
  BY <1>1 DEF TypeOK, RenameTypeOK, Redirect, RenameRedirect
<1>4. buffer' \in Seq(Packet) /\ spoiled' \in BOOLEAN
  BY <1>1 DEF TypeOK, Redirect, Track
<1> QED BY <1>1, <1>2, <1>3, <1>4 DEF TypeOK

LEMMA InitType == Init => TypeOK
<1>1. 0 \in Tag /\ 0 \in Preg /\ Allocatable \subseteq Preg /\ Areg \subseteq Preg
  BY DEF Tag, Preg, Allocatable, Areg
<1>2. ResetRat \in [Areg -> Preg]
  BY <1>1 DEF ResetRat
<1> SUFFICES ASSUME Init PROVE TypeOK
  OBVIOUS
<1>3. TagTypeOK
  BY <1>1 DEF Init, TagInit, TagTypeOK
<1>4. RenameTypeOK
  BY <1>1, <1>2 DEF Init, RenameInit, RenameTypeOK
<1>5. buffer \in Seq(Packet) /\ rob \in Seq(Packet) /\ spoiled \in BOOLEAN
  BY EmptySeq DEF Init
<1> QED BY <1>3, <1>4, <1>5 DEF TypeOK

\* The two cases of a step.
LEMMA StepCases ==
  ASSUME Next
  PROVE  \/ \E d \in DecodePkt, valid_in, dispatch, commit \in BOOLEAN :
              Cycle(d, valid_in, dispatch, commit)
         \/ \E k \in DOMAIN rob, flush \in BOOLEAN : Redirect(k, flush)
<1>1. Bubble \in DecodePkt /\ Decoded \subseteq DecodePkt
  BY DecodedAssumption DEF Bubble, DecodePkt, Areg
<1> QED BY <1>1 DEF Next, Run, Recovery

LEMMA TypeStep == TypeOK /\ [Next]_vars => TypeOK'
<1> SUFFICES ASSUME TypeOK, [Next]_vars PROVE TypeOK'
  OBVIOUS
<1>1. CASE Next
  BY <1>1, StepCases, CycleType, RedirectType
<1>2. CASE UNCHANGED vars
  BY <1>2 DEF vars, tagVars, renameVars, TypeOK, TagTypeOK, RenameTypeOK
<1> QED BY <1>1, <1>2

(***************************************************************************)
(* Tags, registers, mappings and packets keep their types, for every size  *)
(* of the ROB and the register file and all instructions (CppTagAlloc,     *)
(* CppRename).                                                             *)
(***************************************************************************)
THEOREM RenameTypeCorrect == Spec => []TypeOK
BY InitType, TypeStep, PTL DEF Spec
-----------------------------------------------------------------------------
(***************************************************************************)
(* Reservations.                                                           *)
(***************************************************************************)
\* A new tag is neither live nor waiting, except that it may be the one that
\* dispatch hands over.
LEMMA NewTagFree ==
  ASSUME TypeOK, NEW dispatch, HasTag(dispatch)
  PROVE  NewTag(dispatch) \notin Live /\ NewTag(dispatch) \notin reserved \ Confirmed(dispatch)
<1>1. next_tag \in Tag
  BY DEF TypeOK, TagTypeOK
<1> QED BY <1>1, FreeTagFound DEF HasTag, NewTag, Used

\* What waits after a cycle waited before, or is new.
LEMMA WaitingAfterCycle ==
  ASSUME TypeOK, NEW d \in DecodePkt, NEW valid_in \in BOOLEAN, NEW dispatch \in BOOLEAN,
         NEW commit \in BOOLEAN, Cycle(d, valid_in, dispatch, commit)
  PROVE  LET pkt == Pkt(d, valid_in, dispatch, commit)
             got == Fire(d, valid_in, dispatch) /\ pkt.valid
             w == Waiting(dispatch)
             m == Shift(dispatch)
         IN  /\ Len(w) \in Nat /\ w \in Seq(Packet)
             /\ Len(buffer') = IF got THEN Len(w) + 1 ELSE Len(w)
             /\ \A i \in 1 .. Len(w) : i + m \in DOMAIN buffer /\ buffer'[i] = buffer[i + m]
             /\ DOMAIN buffer' = 1 .. Len(buffer')
             /\ got => buffer'[Len(w) + 1] = pkt
             /\ dispatch => 1 \in DOMAIN buffer /\ Head(buffer) = buffer[1]
<1> DEFINE pkt == Pkt(d, valid_in, dispatch, commit)
           got == Fire(d, valid_in, dispatch) /\ pkt.valid
           w == Waiting(dispatch)
<1>1. /\ dispatch => buffer # << >>
      /\ buffer' = IF got THEN Append(w, pkt) ELSE w
      /\ buffer \in Seq(Packet)
  BY CycleParts DEF TypeOK
<1>2. TypeOK'
  BY CycleType
<1>3. /\ w \in Seq(Packet) /\ Len(w) = Len(buffer) - Shift(dispatch)
      /\ \A i \in 1 .. Len(w) : w[i] = buffer[i + Shift(dispatch)]
      /\ dispatch => Len(buffer) > 0 /\ Head(buffer) = buffer[1]
  BY <1>1, HeadTailProperties DEF Waiting, Shift
<1>4. Len(w) \in Nat /\ Len(buffer) \in Nat /\ DOMAIN buffer = 1 .. Len(buffer)
  BY <1>1, <1>3
<1> HIDE DEF pkt, got, w
<1>9. Shift(dispatch) \in Nat
  BY DEF Shift
<1>5. \A i \in 1 .. Len(w) : i + Shift(dispatch) \in DOMAIN buffer
  BY <1>3, <1>4, <1>9
<1>6. dispatch => 1 \in DOMAIN buffer
  BY <1>3, <1>4
<1>7. /\ Len(buffer') = IF got THEN Len(w) + 1 ELSE Len(w)
      /\ \A i \in 1 .. Len(w) : buffer'[i] = w[i]
      /\ got => buffer'[Len(w) + 1] = pkt
  BY <1>1, <1>3, <1>4
<1>8. DOMAIN buffer' = 1 .. Len(buffer')
  BY <1>2 DEF TypeOK
<1> QED BY <1>3, <1>4, <1>5, <1>6, <1>7, <1>8 DEF pkt, got, w

\* A cycle keeps every waiting packet's reservation its own.
LEMMA CycleReserved ==
  ASSUME TypeOK, WaitingReserved, NEW d \in DecodePkt, NEW valid_in \in BOOLEAN,
         NEW dispatch \in BOOLEAN, NEW commit \in BOOLEAN, Cycle(d, valid_in, dispatch, commit)
  PROVE  WaitingReserved'
<1> DEFINE fire == Fire(d, valid_in, dispatch)
           pkt == Pkt(d, valid_in, dispatch, commit)
           got == fire /\ pkt.valid
           w == Waiting(dispatch)
           m == Shift(dispatch)
           tag == NewTag(dispatch)
<1>1. /\ Len(w) \in Nat
      /\ Len(buffer') = IF got THEN Len(w) + 1 ELSE Len(w)
      /\ \A i \in 1 .. Len(w) : i + m \in DOMAIN buffer /\ buffer'[i] = buffer[i + m]
      /\ DOMAIN buffer' = 1 .. Len(buffer')
      /\ got => buffer'[Len(w) + 1] = pkt
      /\ dispatch => 1 \in DOMAIN buffer /\ Head(buffer) = buffer[1]
  BY WaitingAfterCycle
<1>2. /\ \A i \in DOMAIN buffer : buffer[i].rob_tag \in reserved
      /\ \A i, j \in DOMAIN buffer : buffer[i].rob_tag = buffer[j].rob_tag => i = j
  BY DEF WaitingReserved, TagsOf, Distinct
<1>3. fire => HasTag(dispatch)
  BY DEF Fire, ReadyOut
<1>4. reserved' = (reserved \ Confirmed(dispatch)) \cup (IF fire THEN {tag} ELSE {})
  BY <1>3, CycleParts DEF TagTick, NewTag, HasTag
<1>5. m \in Nat /\ (dispatch => m = 1) /\ (~dispatch => m = 0)
  BY DEF Shift
<1> HIDE DEF w, m
<1>6. ASSUME NEW i \in 1 .. Len(w) PROVE buffer'[i].rob_tag \in reserved \ Confirmed(dispatch)
  <2>1. dispatch => i + m # 1
    BY <1>1, <1>5
  <2>2. buffer[i + m].rob_tag \in reserved \ Confirmed(dispatch)
    BY <1>1, <1>2, <2>1 DEF Confirmed
  <2> QED BY <1>1, <2>2
<1>7. got => pkt.rob_tag = tag /\ tag \notin reserved \ Confirmed(dispatch)
  BY <1>3, NewPacket, NewTagFree
<1> HIDE DEF fire, pkt, got, tag
<1>8. \A i \in DOMAIN buffer' : i \in 1 .. Len(w) \/ (got /\ i = Len(w) + 1)
  BY <1>1
<1>9. got => fire
  BY DEF got
<1>10. \A i \in DOMAIN buffer' : buffer'[i].rob_tag \in reserved'
  BY <1>1, <1>4, <1>6, <1>7, <1>8, <1>9
<1>11. ASSUME NEW i \in DOMAIN buffer', NEW j \in DOMAIN buffer',
              buffer'[i].rob_tag = buffer'[j].rob_tag
       PROVE  i = j
  <2>1. CASE i \in 1 .. Len(w) /\ j \in 1 .. Len(w)
    <3>1. buffer[i + m].rob_tag = buffer[j + m].rob_tag
      BY <1>1, <1>11, <2>1
    <3>2. i + m = j + m
      BY <1>1, <1>2, <2>1, <3>1
    <3> QED BY <1>1, <1>5, <2>1, <3>2
  <2>2. CASE i \in 1 .. Len(w) /\ got /\ j = Len(w) + 1
    BY <1>1, <1>6, <1>7, <1>11, <2>2
  <2>3. CASE got /\ i = Len(w) + 1 /\ j \in 1 .. Len(w)
    BY <1>1, <1>6, <1>7, <1>11, <2>3
  <2> QED BY <1>8, <2>1, <2>2, <2>3
<1> QED BY <1>10, <1>11 DEF WaitingReserved, TagsOf, Distinct

LEMMA ReservedStep == TypeOK /\ WaitingReserved /\ [Next]_vars => WaitingReserved'
<1> SUFFICES ASSUME TypeOK, WaitingReserved, [Next]_vars PROVE WaitingReserved'
  OBVIOUS
<1>1. CASE Next
  <2>1. ASSUME NEW k \in DOMAIN rob, NEW flush \in BOOLEAN, Redirect(k, flush)
        PROVE  WaitingReserved'
    BY <2>1 DEF Redirect, WaitingReserved, TagsOf, Distinct
  <2> QED BY <1>1, <2>1, StepCases, CycleReserved
<1>2. CASE UNCHANGED vars
  BY <1>2 DEF vars, tagVars, WaitingReserved, TagsOf, Distinct
<1> QED BY <1>1, <1>2

(***************************************************************************)
(* What waits for dispatch has a reservation of its own, for every depth   *)
(* (ROBTagAlloc::tick sets it when it gives the tag and clears it when the *)
(* ROB takes it).                                                          *)
(***************************************************************************)
THEOREM WaitingKeepsReservations == Spec => []WaitingReserved
<1>1. Init => WaitingReserved
  BY DEF Init, WaitingReserved, TagsOf, Distinct
<1> QED BY <1>1, ReservedStep, RenameTypeCorrect, PTL DEF Spec

\* A tag that comes to be shared is that of the packet handed over.
LEMMA SharedStep ==
  ASSUME TypeOK, WaitingReserved, Next, TagsUnique, ~TagsUnique'
  PROVE  /\ buffer # << >> /\ buffer' # << >> /\ rob' # << >>
         /\ Last(rob') = Head(buffer)
         /\ Last(buffer').rob_tag = Last(rob').rob_tag
<1>0. TagsUnique = Distinct(InFlight) /\ TagsUnique' = Distinct(InFlight')
  BY DEF TagsUnique, InFlight
<1>1. DOMAIN InFlight = 1 .. Len(InFlight) /\ DOMAIN InFlight' = 1 .. Len(InFlight')
  BY FlightLength, TypeStep, ConcatProperties DEF TypeOK, InFlight
<1>2. ASSUME NEW k \in DOMAIN rob, NEW flush \in BOOLEAN, Redirect(k, flush) PROVE FALSE
  <2>1. /\ k \in 1 .. Len(InFlight) /\ Len(InFlight') = k /\ Len(InFlight) \in Nat
        /\ \A i \in 1 .. k : InFlight'[i] = InFlight[i]
    BY <1>2, FlightAfterRedirect, FlightLength DEF SamePrefix
  <2>2. \A i \in 1 .. k : i \in 1 .. Len(InFlight)
    BY <2>1
  <2> QED BY <1>0, <1>1, <2>1, <2>2 DEF Distinct
<1>3. PICK d \in DecodePkt, valid_in, dispatch, commit \in BOOLEAN :
        Cycle(d, valid_in, dispatch, commit)
  BY <1>2, StepCases
<1> DEFINE pkt == Pkt(d, valid_in, dispatch, commit)
           got == Fire(d, valid_in, dispatch) /\ pkt.valid
           n == Len(InFlight) - Shift(commit)
<1>4. TypeOK'
  BY <1>3, CycleType
<1>5. /\ n \in Nat /\ Len(InFlight) \in Nat
      /\ \A i \in 1 .. n : InFlight'[i] = InFlight[i + Shift(commit)]
      /\ Len(InFlight') = IF got THEN n + 1 ELSE n
      /\ got => InFlight'[n + 1] = pkt
  <2>1. rob' \in Seq(Packet) /\ buffer' \in Seq(Packet)
    BY <1>4 DEF TypeOK
  <2> QED BY <1>3, <2>1, FlightAfterCycle, FlightLength
<1>6. \A i \in 1 .. n : i + Shift(commit) \in 1 .. Len(InFlight)
  BY <1>5 DEF Shift
<1>7. ASSUME NEW i \in 1 .. n, NEW j \in 1 .. n, InFlight'[i].rob_tag = InFlight'[j].rob_tag
      PROVE  i = j
  <2>1. InFlight[i + Shift(commit)].rob_tag = InFlight[j + Shift(commit)].rob_tag
    BY <1>5, <1>7
  <2>2. i + Shift(commit) = j + Shift(commit)
    BY <1>0, <1>1, <1>6, <2>1 DEF Distinct
  <2> QED BY <1>5, <2>2 DEF Shift
<1> HIDE DEF pkt, got, n
<1>8. got /\ \E i \in 1 .. n : InFlight'[i].rob_tag = pkt.rob_tag
  <2>1. \A i \in 1 .. Len(InFlight') : i \in 1 .. n \/ (got /\ i = n + 1)
    BY <1>5
  <2>2. PICK i \in 1 .. Len(InFlight'), j \in 1 .. Len(InFlight') :
          InFlight'[i].rob_tag = InFlight'[j].rob_tag /\ i # j
    BY <1>0, <1>1 DEF Distinct
  <2> QED BY <1>5, <1>7, <2>1, <2>2
<1>9. PICK e \in 1 .. Len(InFlight) : InFlight[e].rob_tag = pkt.rob_tag
  <2>1. PICK i \in 1 .. n : InFlight'[i].rob_tag = pkt.rob_tag
    BY <1>8
  <2> QED BY <1>5, <1>6, <2>1
<1>10. /\ pkt.rob_tag \notin Live /\ pkt.rob_tag \notin reserved \ Confirmed(dispatch)
  <2>1. HasTag(dispatch)
    BY <1>8 DEF got, Fire, ReadyOut
  <2> QED BY <2>1, NewPacket, NewTagFree DEF pkt
<1>11. /\ \A i \in 1 .. Len(rob) : InFlight[i] = rob[i] /\ i \in DOMAIN rob
       /\ \A i \in 1 .. Len(buffer) : InFlight[Len(rob) + i] = buffer[i] /\ i \in DOMAIN buffer
       /\ Len(rob) \in Nat /\ Len(buffer) \in Nat /\ Len(InFlight) = Len(rob) + Len(buffer)
  <2>1. DOMAIN rob = 1 .. Len(rob) /\ DOMAIN buffer = 1 .. Len(buffer)
    BY DEF TypeOK
  <2> QED BY <2>1, FlightLength
<1>12. e \in 1 .. Len(rob) \/ \E j \in 1 .. Len(buffer) : e = Len(rob) + j
  <2>1. e > Len(rob) => e - Len(rob) \in 1 .. Len(buffer) /\ e = Len(rob) + (e - Len(rob))
    BY <1>11
  <2> QED BY <1>11, <2>1
<1>13. PICK j \in 1 .. Len(buffer) : buffer[j].rob_tag = pkt.rob_tag /\ j \in DOMAIN buffer
  <2>1. e \notin 1 .. Len(rob)
    BY <1>9, <1>10, <1>11 DEF Live, TagsOf
  <2> QED BY <1>9, <1>11, <1>12, <2>1
<1>14. dispatch /\ pkt.rob_tag = Head(buffer).rob_tag
  BY <1>10, <1>13 DEF WaitingReserved, TagsOf, Confirmed
<1>15. /\ buffer # << >>
       /\ buffer' = Append(Waiting(dispatch), pkt)
       /\ rob' = Append(IF commit THEN Tail(rob) ELSE rob, Head(buffer))
       /\ commit => rob # << >>
  BY <1>3, <1>8, <1>14, CycleParts DEF got, pkt
<1>16. /\ Waiting(dispatch) \in Seq(Packet)
       /\ (IF commit THEN Tail(rob) ELSE rob) \in Seq(Packet)
  BY <1>15, HeadTailProperties DEF TypeOK, Waiting
<1>17. ASSUME NEW s \in Seq(Packet), NEW x
       PROVE  Append(s, x) # << >> /\ Last(Append(s, x)) = x
  BY DEF Last
<1> QED BY <1>14, <1>15, <1>16, <1>17

(***************************************************************************)
(* For every depth and any instructions, a tag comes to be shared in one   *)
(* way only: the allocator gives the tag again that dispatch hands over in *)
(* the same tick (gen_sources.py, the order of ROBTagAlloc::tick).         *)
(***************************************************************************)
THEOREM SharedOnlyAtHandover == Spec => SharedAtHandover
<1>1. TypeOK /\ WaitingReserved /\ [Next]_vars =>
        [TagsUnique /\ ~TagsUnique' =>
           /\ buffer # << >> /\ buffer' # << >> /\ rob' # << >>
           /\ Last(rob') = Head(buffer)
           /\ Last(buffer').rob_tag = Last(rob').rob_tag]_vars
  BY SharedStep
<1> QED BY <1>1, RenameTypeCorrect, WaitingKeepsReservations, PTL DEF Spec, SharedAtHandover
-----------------------------------------------------------------------------
(***************************************************************************)
(* Registers.  The inductive invariant says of every checkpoint what       *)
(* NoDoubleUse says of the present, for the packets up to its branch.      *)
(***************************************************************************)
CheckpointsApart ==
  \A k \in 1 .. Len(InFlight) : InFlight[k].is_branch =>
    Apart(InFlight, k, ckpt_rat[InFlight[k].rob_tag], ckpt_free_map[InFlight[k].rob_tag])

RegInv == TypeOK /\ Apart(InFlight, Len(InFlight), rat, free_map) /\ CheckpointsApart

\* The packets a cycle leaves in flight, without the new one.
Kept(commit) == [i \in 1 .. Len(InFlight) - Shift(commit) |-> InFlight[i + Shift(commit)]]

\* What a commit does to packets that belong with a mapping and a free set.
LEMMA CommitApart ==
  ASSUME NEW commit \in BOOLEAN, NEW n \in Nat, NEW map, NEW free, NEW freed,
         n <= Len(InFlight), Len(InFlight) \in Nat, commit => n > 0,
         freed \subseteq (IF commit /\ InFlight[1].rd_used THEN {InFlight[1].old_prd} ELSE {}),
         Apart(InFlight, n, map, free)
  PROVE  Apart(Kept(commit), n - Shift(commit), map, free \cup freed)
<1> DEFINE t == Kept(commit)
<1>1. CASE commit
  <2>1. n - Shift(commit) = n - 1 /\ n \in Nat \ {0}
    BY <1>1 DEF Shift
  <2>2. \A i \in 1 .. n - 1 : t[i] = InFlight[i + 1]
    BY <1>1 DEF Kept, Shift
  <2>3. freed \subseteq (IF InFlight[1].rd_used THEN {InFlight[1].old_prd} ELSE {})
    BY <1>1
  <2> HIDE DEF t
  <2>4. Apart(t, n - 1, map, free \cup freed)
    BY <2>1, <2>2, <2>3, Behind
  <2> QED BY <2>1, <2>4 DEF t
<1>2. CASE ~commit
  <2>1. n - Shift(commit) = n /\ free \cup freed = free
    BY <1>2 DEF Shift
  <2>2. SamePrefix(InFlight, t, n)
    BY <1>2 DEF Kept, Shift, SamePrefix
  <2> HIDE DEF t
  <2>3. Apart(t, n, map, free)
    BY <2>2, Prefix
  <2> QED BY <2>1, <2>3 DEF t
<1> QED BY <1>1, <1>2

\* What the other lemmas say of a cycle, for the proofs below.
LEMMA CycleFacts ==
  ASSUME TypeOK, NEW d \in DecodePkt, NEW valid_in \in BOOLEAN, NEW dispatch \in BOOLEAN,
         NEW commit \in BOOLEAN, Cycle(d, valid_in, dispatch, commit)
  PROVE  LET n == Len(InFlight) - Shift(commit)
             fire == Fire(d, valid_in, dispatch)
             pkt == Pkt(d, valid_in, dispatch, commit)
             got == fire /\ pkt.valid
             take == CheckpointTake(d, fire)
             tag == NewTag(dispatch)
         IN  /\ TypeOK'
             /\ n \in Nat /\ Len(InFlight) \in Nat /\ (commit => Len(InFlight) > 0)
             /\ SamePrefix(Kept(commit), InFlight', n)
             /\ Len(InFlight') = IF got THEN n + 1 ELSE n
             /\ got => InFlight'[n + 1] = pkt
             /\ commit => InFlight[1] = Head(rob)
             /\ rat' = NextRat(d, valid_in, dispatch, commit)
             /\ free_map' = FreeList(d, valid_in, dispatch, commit).free_map
             /\ \A t \in Tag :
                  IF take /\ t = tag
                  THEN ckpt_rat'[t] = rat' /\ ckpt_free_map'[t] = free_map'
                  ELSE ckpt_rat'[t] = ckpt_rat[t] /\ ckpt_free_map'[t] = ckpt_free_map[t]
             /\ \A i \in 1 .. Len(InFlight) : InFlight[i].rob_tag \in Tag
<1> DEFINE n == Len(InFlight) - Shift(commit)
           fire == Fire(d, valid_in, dispatch)
           pkt == Pkt(d, valid_in, dispatch, commit)
           got == fire /\ pkt.valid
           take == CheckpointTake(d, fire)
           tag == NewTag(dispatch)
           fl == FreeList(d, valid_in, dispatch, commit)
           nextRat == NextRat(d, valid_in, dispatch, commit)
<1>1. TypeOK'
  BY CycleType
<1>2. rob' \in Seq(Packet) /\ buffer' \in Seq(Packet)
  BY <1>1 DEF TypeOK
<1>3. /\ n \in Nat /\ (commit => Len(InFlight) > 0)
      /\ \A i \in 1 .. n : InFlight'[i] = InFlight[i + Shift(commit)]
      /\ Len(InFlight') = IF got THEN n + 1 ELSE n
      /\ got => InFlight'[n + 1] = pkt
      /\ commit => InFlight[1] = Head(rob)
  BY <1>2, FlightAfterCycle
<1>4. SamePrefix(Kept(commit), InFlight', n)
  BY <1>3 DEF SamePrefix, Kept
<1>5. Len(InFlight) \in Nat /\ \A i \in 1 .. Len(InFlight) : InFlight[i] \in Packet
  BY FlightLength
<1>6. RenameTick(fl, nextRat, take, tag)
  BY CycleParts
<1>7. ckpt_rat \in [Tag -> [Areg -> Preg]] /\ ckpt_free_map \in [Tag -> SUBSET Preg]
  BY DEF TypeOK, RenameTypeOK
<1> HIDE DEF fire, pkt, got, take, tag, fl, nextRat
<1>8. /\ rat' = nextRat /\ free_map' = fl.free_map
      /\ \A t \in Tag :
           IF take /\ t = tag
           THEN ckpt_rat'[t] = rat' /\ ckpt_free_map'[t] = free_map'
           ELSE ckpt_rat'[t] = ckpt_rat[t] /\ ckpt_free_map'[t] = ckpt_free_map[t]
  BY <1>6, <1>7 DEF RenameTick
<1>9. \A i \in 1 .. Len(InFlight) : InFlight[i].rob_tag \in Tag
  BY <1>5 DEF Packet
<1> QED BY <1>1, <1>3, <1>4, <1>5, <1>8, <1>9 DEF fire, pkt, got, take, tag, fl, nextRat

\* A cycle keeps registers apart.
LEMMA CycleApart ==
  ASSUME RegInv, NEW d \in DecodePkt, NEW valid_in \in BOOLEAN, NEW dispatch \in BOOLEAN,
         NEW commit \in BOOLEAN, Cycle(d, valid_in, dispatch, commit)
  PROVE  Apart(InFlight', Len(InFlight'), rat', free_map')
<1> DEFINE n == Len(InFlight) - Shift(commit)
           pkt == Pkt(d, valid_in, dispatch, commit)
           got == Fire(d, valid_in, dispatch) /\ pkt.valid
           p == NewPreg(commit)
           s == Kept(commit)
<1>1. TypeOK /\ Apart(InFlight, Len(InFlight), rat, free_map) /\ rat \in [Areg -> Preg]
  BY DEF RegInv, TypeOK, RenameTypeOK
<1>2. /\ n \in Nat /\ Len(InFlight) \in Nat /\ (commit => Len(InFlight) > 0)
      /\ SamePrefix(s, InFlight', n)
      /\ Len(InFlight') = IF got THEN n + 1 ELSE n
      /\ got => InFlight'[n + 1] = pkt
      /\ commit => InFlight[1] = Head(rob)
      /\ rat' = NextRat(d, valid_in, dispatch, commit)
      /\ free_map' = FreeList(d, valid_in, dispatch, commit).free_map
  BY <1>1, CycleFacts
<1>3. Apart(s, n, rat, Returned(commit))
  <2>1. Freed(commit) \ {0}
          \subseteq (IF commit /\ InFlight[1].rd_used THEN {InFlight[1].old_prd} ELSE {})
    BY <1>2 DEF Freed
  <2>2. Len(InFlight) <= Len(InFlight)
    BY <1>2
  <2>3. Apart(s, n, rat, free_map \cup (Freed(commit) \ {0}))
    BY <1>1, <1>2, <2>1, <2>2, CommitApart
  <2> QED BY <2>3 DEF Returned
<1> HIDE DEF n, pkt, got, p, s
<1>4. CASE Grant(d, valid_in, dispatch)
  <2>1. /\ p \in Returned(commit)
        /\ free_map' = Returned(commit) \ {p}
        /\ rat' = [rat EXCEPT ![d.rd] = p]
        /\ pkt.prd = p /\ pkt.old_prd = rat[d.rd]
    BY <1>2, <1>4, Granted DEF p, pkt
  <2>2. d.rd \in Areg
    BY DEF DecodePkt
  <2>3. CASE got
    <3>1. Apart(InFlight', n + 1, [rat EXCEPT ![d.rd] = p], Returned(commit) \ {p})
      <4>1. InFlight'[n + 1].prd = p /\ InFlight'[n + 1].old_prd = rat[d.rd]
        BY <1>2, <2>1, <2>3
      <4> QED BY <1>1, <1>2, <1>3, <2>1, <2>2, <4>1, Together
    <3> QED BY <1>2, <2>1, <2>3, <3>1
  <2>4. CASE ~got
    <3>1. Apart(s, n, [rat EXCEPT ![d.rd] = p], Returned(commit) \ {p})
      BY <1>1, <1>2, <1>3, <2>1, <2>2, Alone
    <3>2. n <= n
      BY <1>2
    <3>3. Apart(InFlight', n, rat', free_map')
      BY <1>2, <2>1, <3>1, <3>2, Prefix
    <3> QED BY <1>2, <2>4, <3>3
  <2> QED BY <2>3, <2>4
<1>5. CASE ~Grant(d, valid_in, dispatch)
  <2>1. /\ free_map' = Returned(commit) /\ rat' = rat
        /\ got => ~pkt.rd_used
    BY <1>2, <1>5, NotGranted DEF pkt, got
  <2>2. CASE got
    <3>1. Apart(InFlight', n + 1, rat', free_map')
      BY <1>2, <1>3, <2>1, <2>2, Beside
    <3> QED BY <1>2, <2>2, <3>1
  <2>3. CASE ~got
    <3>1. n <= n
      BY <1>2
    <3>2. Apart(InFlight', n, rat', free_map')
      BY <1>2, <1>3, <2>1, <3>1, Prefix
    <3> QED BY <1>2, <2>3, <3>2
  <2> QED BY <2>2, <2>3
<1> QED BY <1>4, <1>5

\* A cycle leaves checkpoints apart: that of the new branch is the present, and a
\* checkpoint that is overwritten under a shared tag is too.
LEMMA CycleCheckpoints ==
  ASSUME RegInv, NEW d \in DecodePkt, NEW valid_in \in BOOLEAN, NEW dispatch \in BOOLEAN,
         NEW commit \in BOOLEAN, Cycle(d, valid_in, dispatch, commit)
  PROVE  CheckpointsApart'
<1> DEFINE n == Len(InFlight) - Shift(commit)
           fire == Fire(d, valid_in, dispatch)
           pkt == Pkt(d, valid_in, dispatch, commit)
           got == fire /\ pkt.valid
           take == CheckpointTake(d, fire)
           tag == NewTag(dispatch)
           s == Kept(commit)
<1>1. TypeOK /\ CheckpointsApart
  BY DEF RegInv
<1>2. /\ TypeOK'
      /\ n \in Nat /\ Len(InFlight) \in Nat /\ (commit => Len(InFlight) > 0)
      /\ SamePrefix(s, InFlight', n)
      /\ Len(InFlight') = IF got THEN n + 1 ELSE n
      /\ got => InFlight'[n + 1] = pkt
      /\ \A t \in Tag :
           IF take /\ t = tag
           THEN ckpt_rat'[t] = rat' /\ ckpt_free_map'[t] = free_map'
           ELSE ckpt_rat'[t] = ckpt_rat[t] /\ ckpt_free_map'[t] = ckpt_free_map[t]
      /\ \A i \in 1 .. Len(InFlight) : InFlight[i].rob_tag \in Tag
  BY <1>1, CycleFacts
<1>3. Apart(InFlight', Len(InFlight'), rat', free_map')
  BY CycleApart
<1>4. pkt.rob_tag = tag /\ (got /\ pkt.is_branch => take)
  BY NewPacket DEF CheckpointTake
<1>5. \A i \in 1 .. n : /\ s[i] = InFlight[i + Shift(commit)]
                        /\ i + Shift(commit) \in 1 .. Len(InFlight)
  BY <1>2 DEF Kept, Shift
<1>6. tag \in Tag
  BY <1>1, FreeTagFound DEF TypeOK, TagTypeOK, NewTag
<1> HIDE DEF fire, pkt, got, take, tag, s
<1> SUFFICES ASSUME NEW k \in 1 .. Len(InFlight'), InFlight'[k].is_branch
             PROVE  LET t == InFlight'[k].rob_tag
                    IN  Apart(InFlight', k, ckpt_rat'[t], ckpt_free_map'[t])
  BY DEF CheckpointsApart
<1> DEFINE t == InFlight'[k].rob_tag
<1>7. k \in Nat /\ k <= Len(InFlight') /\ Len(InFlight') \in Nat
  BY <1>2
<1>8. SamePrefix(InFlight', InFlight', k)
  BY DEF SamePrefix
<1>9. CASE take /\ t = tag
  <2>1. ckpt_rat'[t] = rat' /\ ckpt_free_map'[t] = free_map'
    BY <1>2, <1>6, <1>9
  <2> QED BY <1>3, <1>7, <1>8, <2>1, Prefix
<1>10. CASE ~(take /\ t = tag)
  <2> DEFINE j == k + Shift(commit)
  <2>1. k \in 1 .. n
    <3>1. k \in 1 .. n \/ (got /\ k = n + 1)
      BY <1>2
    <3> QED BY <1>2, <1>4, <1>10, <3>1
  <2>2. InFlight'[k] = InFlight[j] /\ j \in 1 .. Len(InFlight)
    BY <1>2, <1>5, <2>1 DEF SamePrefix
  <2>3. j \in Nat /\ j <= Len(InFlight) /\ (commit => j > 0) /\ j - Shift(commit) = k
    BY <1>2, <1>7, <2>2 DEF Shift
  <2> HIDE DEF j
  <2>4. t \in Tag /\ t = InFlight[j].rob_tag
    BY <1>2, <2>2
  <2>5. ckpt_rat'[t] = ckpt_rat[t] /\ ckpt_free_map'[t] = ckpt_free_map[t]
    BY <1>2, <1>10, <2>4
  <2>6. Apart(InFlight, j, ckpt_rat[t], ckpt_free_map[t])
    BY <1>1, <2>2, <2>4 DEF CheckpointsApart
  <2>7. Apart(s, j - Shift(commit), ckpt_rat[t], ckpt_free_map[t] \cup {})
    BY <1>2, <2>3, <2>6, CommitApart DEF s
  <2>8. ckpt_free_map[t] \cup {} = ckpt_free_map[t]
    OBVIOUS
  <2>9. Apart(s, k, ckpt_rat[t], ckpt_free_map[t])
    BY <2>3, <2>7, <2>8
  <2>10. SamePrefix(s, InFlight', k) /\ k <= k
    BY <1>2, <1>7, <2>1 DEF SamePrefix
  <2> QED BY <1>7, <2>5, <2>9, <2>10, Prefix
<1> QED BY <1>9, <1>10

\* A redirect takes both back to the branch, or leaves both alone.
LEMMA RedirectApart ==
  ASSUME RegInv, NEW k \in DOMAIN rob, NEW flush \in BOOLEAN, Redirect(k, flush)
  PROVE  Apart(InFlight', Len(InFlight'), rat', free_map') /\ CheckpointsApart'
<1> DEFINE t == rob[k].rob_tag
<1>1. TypeOK /\ Apart(InFlight, Len(InFlight), rat, free_map) /\ CheckpointsApart
  BY DEF RegInv
<1>2. /\ k \in 1 .. Len(InFlight) /\ Len(InFlight') = k /\ Len(InFlight) \in Nat
      /\ SamePrefix(InFlight, InFlight', k)
      /\ InFlight[k].is_branch /\ InFlight[k].rob_tag = t
  BY <1>1, FlightAfterRedirect, FlightLength
<1>3. /\ IF flush THEN free_map' = free_map /\ rat' = rat
                  ELSE free_map' = ckpt_free_map[t] /\ rat' = ckpt_rat[t]
      /\ ckpt_free_map' = ckpt_free_map /\ ckpt_rat' = ckpt_rat
  BY DEF Redirect, RenameRedirect
<1>4. k \in Nat /\ k <= Len(InFlight) /\ k <= k
  BY <1>2
<1>5. Apart(InFlight', k, rat', free_map')
  <2>1. CASE flush
    BY <1>1, <1>2, <1>3, <1>4, <2>1, Prefix
  <2>2. CASE ~flush
    <3>1. Apart(InFlight, k, ckpt_rat[t], ckpt_free_map[t])
      BY <1>1, <1>2 DEF CheckpointsApart
    <3> QED BY <1>2, <1>3, <1>4, <2>2, <3>1, Prefix
  <2> QED BY <2>1, <2>2
<1>6. ASSUME NEW j \in 1 .. Len(InFlight'), InFlight'[j].is_branch
      PROVE  Apart(InFlight', j, ckpt_rat'[InFlight'[j].rob_tag],
                   ckpt_free_map'[InFlight'[j].rob_tag])
  <2>1. /\ InFlight'[j] = InFlight[j] /\ j \in 1 .. Len(InFlight) /\ j \in Nat /\ j <= j
        /\ SamePrefix(InFlight, InFlight', j)
    BY <1>2 DEF SamePrefix
  <2>2. Apart(InFlight, j, ckpt_rat[InFlight[j].rob_tag], ckpt_free_map[InFlight[j].rob_tag])
    BY <1>1, <1>6, <2>1 DEF CheckpointsApart
  <2> QED BY <1>3, <2>1, <2>2, Prefix
<1> QED BY <1>2, <1>5, <1>6 DEF CheckpointsApart

LEMMA RegStep == RegInv /\ [Next]_vars => RegInv'
<1> SUFFICES ASSUME RegInv, [Next]_vars PROVE RegInv'
  OBVIOUS
<1>1. CASE Next
  <2>1. TypeOK'
    BY TypeStep DEF RegInv
  <2>2. Apart(InFlight', Len(InFlight'), rat', free_map') /\ CheckpointsApart'
    BY <1>1, StepCases, CycleApart, CycleCheckpoints, RedirectApart
  <2> QED BY <2>1, <2>2 DEF RegInv
<1>2. CASE UNCHANGED vars
  <2>1. /\ InFlight' = InFlight /\ rat' = rat /\ free_map' = free_map
        /\ ckpt_rat' = ckpt_rat /\ ckpt_free_map' = ckpt_free_map
    BY <1>2 DEF vars, renameVars, InFlight
  <2>2. TypeOK'
    BY TypeStep DEF RegInv
  <2> QED BY <2>1, <2>2 DEF RegInv, CheckpointsApart
<1> QED BY <1>1, <1>2

LEMMA RegStart == Init => RegInv
<1> SUFFICES ASSUME Init PROVE RegInv
  OBVIOUS
<1>1. TypeOK /\ rob = << >> /\ buffer = << >>
  BY InitType DEF Init
<1>2. Len(InFlight) = 0
  BY <1>1, FlightLength
<1>3. Apart(InFlight, 0, rat, free_map)
  BY DEF Init, RenameInit, ResetRat, Apart, Areg, Allocatable
<1> QED BY <1>1, <1>2, <1>3 DEF RegInv, CheckpointsApart

LEMMA RegInvariant == Spec => []RegInv
BY RegStart, RegStep, PTL DEF Spec

(***************************************************************************)
(* For every number of registers and tags, no register has two uses,       *)
(* whatever is flushed, recovered or shared (FreeList, MapTable, Rename).  *)
(***************************************************************************)
THEOREM NoRegisterUsedTwice == Spec => []NoDoubleUse
<1>1. RegInv => NoDoubleUse
  <2> SUFFICES ASSUME RegInv PROVE NoDoubleUse
    OBVIOUS
  <2>1. DOMAIN InFlight = 1 .. Len(InFlight) /\ Apart(InFlight, Len(InFlight), rat, free_map)
    BY FlightLength DEF RegInv
  <2>2. Writers = {k \in 1 .. Len(InFlight) : InFlight[k].rd_used}
    BY <2>1 DEF Writers
  <2>3. \A k, l \in Writers : InFlight[k].prd = InFlight[l].prd => k = l
    BY <2>1, <2>2 DEF Apart
  <2>4. \A r, s \in Areg : rat[r] = rat[s] => r = s
    BY <2>1 DEF Apart
  <2>5. free_map \cap (Mapped \cup Former \cup {InFlight[k].prd : k \in Writers}) = {}
    BY <2>1, <2>2 DEF Apart, Mapped, Former
  <2> QED BY <2>3, <2>4, <2>5 DEF NoDoubleUse
<1> QED BY <1>1, RegInvariant, PTL
-----------------------------------------------------------------------------
(***************************************************************************)
(* The mapping.  Here too the invariant says of every checkpoint what the  *)
(* property says of the present; what a shared tag would spoil is that the *)
(* checkpoint of a branch is its own.                                      *)
(***************************************************************************)
CheckpointsFollow ==
  \A k \in 1 .. Len(InFlight) : InFlight[k].is_branch =>
    Follows(InFlight, k, ckpt_rat[InFlight[k].rob_tag])

MapInv ==
  /\ TypeOK
  /\ ~spoiled => TagsUnique /\ Follows(InFlight, Len(InFlight), rat) /\ CheckpointsFollow

LEMMA CommitFollows ==
  ASSUME NEW commit \in BOOLEAN, NEW n \in Nat, NEW map,
         n <= Len(InFlight), Len(InFlight) \in Nat, commit => n > 0, Follows(InFlight, n, map)
  PROVE  Follows(Kept(commit), n - Shift(commit), map)
<1> DEFINE t == Kept(commit)
<1>1. CASE commit
  <2>1. n - Shift(commit) = n - 1 /\ n \in Nat \ {0}
    BY <1>1 DEF Shift
  <2>2. \A i \in 1 .. n - 1 : t[i] = InFlight[i + 1]
    BY <1>1 DEF Kept, Shift
  <2> HIDE DEF t
  <2>3. Follows(t, n - 1, map)
    BY <2>1, <2>2, BehindFollows
  <2> QED BY <2>1, <2>3 DEF t
<1>2. CASE ~commit
  <2>1. n - Shift(commit) = n
    BY <1>2 DEF Shift
  <2>2. SamePrefix(InFlight, t, n)
    BY <1>2 DEF Kept, Shift, SamePrefix
  <2> HIDE DEF t
  <2>3. Follows(t, n, map)
    BY <2>2, PrefixFollows
  <2> QED BY <2>1, <2>3 DEF t
<1> QED BY <1>1, <1>2

\* A cycle that spoils nothing keeps mapping and checkpoints those of the program.
LEMMA CycleFollows ==
  ASSUME MapInv, NEW d \in DecodePkt, NEW valid_in \in BOOLEAN, NEW dispatch \in BOOLEAN,
         NEW commit \in BOOLEAN, Cycle(d, valid_in, dispatch, commit), ~spoiled'
  PROVE  TagsUnique' /\ Follows(InFlight', Len(InFlight'), rat') /\ CheckpointsFollow'
<1> DEFINE n == Len(InFlight) - Shift(commit)
           fire == Fire(d, valid_in, dispatch)
           pkt == Pkt(d, valid_in, dispatch, commit)
           got == fire /\ pkt.valid
           take == CheckpointTake(d, fire)
           tag == NewTag(dispatch)
           p == NewPreg(commit)
           s == Kept(commit)
<1>1. ~spoiled /\ TagsUnique' /\ (fire <=> got)
  BY CycleParts DEF Track
<1>2. /\ TypeOK /\ Follows(InFlight, Len(InFlight), rat) /\ CheckpointsFollow
      /\ rat \in [Areg -> Preg]
  BY <1>1 DEF MapInv, TypeOK, RenameTypeOK
<1>3. /\ TypeOK'
      /\ n \in Nat /\ Len(InFlight) \in Nat /\ (commit => Len(InFlight) > 0)
      /\ SamePrefix(s, InFlight', n)
      /\ Len(InFlight') = IF got THEN n + 1 ELSE n
      /\ got => InFlight'[n + 1] = pkt
      /\ rat' = NextRat(d, valid_in, dispatch, commit)
      /\ \A t \in Tag : ckpt_rat'[t] = IF take /\ t = tag THEN rat' ELSE ckpt_rat[t]
      /\ \A i \in 1 .. Len(InFlight) : InFlight[i].rob_tag \in Tag
  BY <1>2, CycleFacts
<1>4. /\ pkt.rob_tag = tag /\ pkt.rd = d.rd /\ d.rd \in Areg
      /\ got /\ pkt.is_branch => take
      /\ take => got
  BY <1>1, NewPacket DEF CheckpointTake, DecodePkt
<1>5. \A i \in 1 .. n : /\ s[i] = InFlight[i + Shift(commit)]
                        /\ i + Shift(commit) \in 1 .. Len(InFlight)
  BY <1>3 DEF Kept, Shift
<1>6. tag \in Tag
  BY <1>2, FreeTagFound DEF TypeOK, TagTypeOK, NewTag
<1>7. Follows(s, n, rat)
  <2>1. Len(InFlight) <= Len(InFlight)
    BY <1>3
  <2> QED BY <1>2, <1>3, <2>1, CommitFollows
<1>8. /\ Grant(d, valid_in, dispatch) =>
           fire /\ rat' = [rat EXCEPT ![d.rd] = p] /\ pkt.rd_used /\ pkt.prd = p
      /\ ~Grant(d, valid_in, dispatch) => rat' = rat /\ (fire => ~pkt.rd_used)
  BY <1>3, ReadyMeansFree, Granted, NotGranted
<1> HIDE DEF n, fire, pkt, got, take, tag, p, s
<1>9. Follows(InFlight', Len(InFlight'), rat')
  <2>1. CASE Grant(d, valid_in, dispatch)
    <3>1. got /\ rat' = [rat EXCEPT ![InFlight'[n + 1].rd] = p]
      BY <1>1, <1>3, <1>4, <1>8, <2>1
    <3>2. /\ InFlight'[n + 1].rd_used /\ InFlight'[n + 1].rd \in Areg
          /\ InFlight'[n + 1].prd = p
      BY <1>3, <1>4, <1>8, <2>1, <3>1
    <3>3. Follows(InFlight', n + 1, [rat EXCEPT ![InFlight'[n + 1].rd] = p])
      BY <1>2, <1>3, <1>7, <3>2, TogetherFollows
    <3> QED BY <1>3, <3>1, <3>3
  <2>2. CASE ~Grant(d, valid_in, dispatch) /\ got
    <3>1. Follows(InFlight', n + 1, rat)
      BY <1>1, <1>3, <1>7, <1>8, <2>2, BesideFollows
    <3> QED BY <1>3, <1>8, <2>2, <3>1
  <2>3. CASE ~Grant(d, valid_in, dispatch) /\ ~got
    <3>1. Follows(InFlight', n, rat)
      BY <1>3, <1>7, PrefixFollows
    <3> QED BY <1>3, <1>8, <2>3, <3>1
  <2> QED BY <2>1, <2>2, <2>3
<1>10. ASSUME NEW k \in 1 .. Len(InFlight'), InFlight'[k].is_branch
       PROVE  Follows(InFlight', k, ckpt_rat'[InFlight'[k].rob_tag])
  <2> DEFINE t == InFlight'[k].rob_tag
  <2>1. k \in Nat /\ k <= Len(InFlight') /\ Len(InFlight') \in Nat
    BY <1>3
  <2>2. CASE take /\ t = tag
    <3>1. /\ Len(InFlight') = n + 1 /\ n + 1 \in 1 .. Len(InFlight')
          /\ InFlight'[n + 1].rob_tag = t
      BY <1>3, <1>4, <2>2
    <3>2. DOMAIN InFlight' = 1 .. Len(InFlight')
      BY <1>3, ConcatProperties DEF TypeOK, InFlight
    <3>3. k = Len(InFlight')
      BY <1>1, <3>1, <3>2 DEF TagsUnique, InFlight, Distinct
    <3> QED BY <1>3, <1>6, <1>9, <2>2, <3>3
  <2>3. CASE ~(take /\ t = tag)
    <3> DEFINE j == k + Shift(commit)
    <3>1. k \in 1 .. n
      <4>1. k \in 1 .. n \/ (got /\ k = n + 1)
        BY <1>3
      <4> QED BY <1>3, <1>4, <1>10, <2>3, <4>1
    <3>2. InFlight'[k] = InFlight[j] /\ j \in 1 .. Len(InFlight)
      BY <1>3, <1>5, <3>1 DEF SamePrefix
    <3>3. j \in Nat /\ j <= Len(InFlight) /\ (commit => j > 0) /\ j - Shift(commit) = k
      BY <1>3, <2>1, <3>2 DEF Shift
    <3> HIDE DEF j
    <3>4. t \in Tag /\ t = InFlight[j].rob_tag
      BY <1>3, <3>2
    <3>5. Follows(InFlight, j, ckpt_rat[t])
      BY <1>2, <1>10, <3>2, <3>4 DEF CheckpointsFollow
    <3>6. Follows(s, k, ckpt_rat[t])
      <4>1. Follows(Kept(commit), j - Shift(commit), ckpt_rat[t])
        BY <1>3, <3>3, <3>5, CommitFollows
      <4> QED BY <3>3, <4>1 DEF s
    <3>7. SamePrefix(s, InFlight', k)
      BY <1>3, <3>1 DEF SamePrefix
    <3>8. Follows(InFlight', k, ckpt_rat[t])
      BY <2>1, <3>6, <3>7, PrefixFollows
    <3> QED BY <1>3, <2>3, <3>4, <3>8
  <2> QED BY <2>2, <2>3
<1> QED BY <1>1, <1>9, <1>10 DEF CheckpointsFollow

LEMMA RedirectFollows ==
  ASSUME MapInv, NEW k \in DOMAIN rob, NEW flush \in BOOLEAN, Redirect(k, flush), ~spoiled'
  PROVE  TagsUnique' /\ Follows(InFlight', Len(InFlight'), rat') /\ CheckpointsFollow'
<1> DEFINE t == rob[k].rob_tag
<1>1. ~spoiled /\ ~flush /\ TagsUnique'
  BY DEF Redirect, Track
<1>2. TypeOK /\ CheckpointsFollow
  BY <1>1 DEF MapInv
<1>3. /\ k \in 1 .. Len(InFlight) /\ Len(InFlight') = k /\ Len(InFlight) \in Nat
      /\ SamePrefix(InFlight, InFlight', k)
      /\ InFlight[k].is_branch /\ InFlight[k].rob_tag = t
  BY <1>2, FlightAfterRedirect, FlightLength
<1>4. rat' = ckpt_rat[t] /\ ckpt_rat' = ckpt_rat
  BY <1>1 DEF Redirect, RenameRedirect
<1>5. Follows(InFlight', k, rat')
  <2>1. Follows(InFlight, k, ckpt_rat[t]) /\ k \in Nat
    BY <1>2, <1>3 DEF CheckpointsFollow
  <2> QED BY <1>3, <1>4, <2>1, PrefixFollows
<1>6. ASSUME NEW j \in 1 .. Len(InFlight'), InFlight'[j].is_branch
      PROVE  Follows(InFlight', j, ckpt_rat'[InFlight'[j].rob_tag])
  <2>1. /\ InFlight'[j] = InFlight[j] /\ j \in 1 .. Len(InFlight) /\ j \in Nat
        /\ SamePrefix(InFlight, InFlight', j)
    BY <1>3 DEF SamePrefix
  <2>2. Follows(InFlight, j, ckpt_rat[InFlight[j].rob_tag])
    BY <1>2, <1>6, <2>1 DEF CheckpointsFollow
  <2> QED BY <1>4, <2>1, <2>2, PrefixFollows
<1> QED BY <1>1, <1>3, <1>5, <1>6 DEF CheckpointsFollow

LEMMA MapStep == MapInv /\ [Next]_vars => MapInv'
<1> SUFFICES ASSUME MapInv, [Next]_vars PROVE MapInv'
  OBVIOUS
<1>1. TypeOK'
  BY TypeStep DEF MapInv
<1>2. CASE Next
  BY <1>1, <1>2, StepCases, CycleFollows, RedirectFollows DEF MapInv
<1>3. CASE UNCHANGED vars
  BY <1>1, <1>3 DEF vars, renameVars, MapInv, InFlight, TagsUnique, CheckpointsFollow
<1> QED BY <1>2, <1>3

LEMMA MapStart == Init => MapInv
<1> SUFFICES ASSUME Init PROVE MapInv
  OBVIOUS
<1>1. TypeOK /\ rob = << >> /\ buffer = << >>
  BY InitType DEF Init
<1>2. Len(InFlight) = 0 /\ InFlight = << >>
  BY <1>1, FlightLength DEF InFlight
<1>3. TagsUnique
  BY <1>2 DEF TagsUnique, Distinct, InFlight
<1> QED BY <1>1, <1>2, <1>3 DEF MapInv, Follows, CheckpointsFollow

(***************************************************************************)
(* For every number of registers and tags, the mapping is that of the      *)
(* program until a tag is shared, a packet is lost or a redirect comes     *)
(* with flush raised (MapTable, Rename::rename).                           *)
(***************************************************************************)
THEOREM MappingKept == Spec => []MappingOfProgram
<1>1. MapInv => MappingOfProgram
  <2> SUFFICES ASSUME MapInv, ~spoiled, NEW k \in Writers, rat[InFlight[k].rd] # InFlight[k].prd
               PROVE  \E l \in Writers : l > k /\ InFlight[l].rd = InFlight[k].rd
    BY DEF MappingOfProgram
  <2>1. /\ DOMAIN InFlight = 1 .. Len(InFlight) /\ Len(InFlight) \in Nat
        /\ Follows(InFlight, Len(InFlight), rat)
    BY FlightLength DEF MapInv
  <2>2. Writers = {i \in 1 .. Len(InFlight) : InFlight[i].rd_used}
    BY <2>1 DEF Writers
  <2>3. PICK l \in k + 1 .. Len(InFlight) : InFlight[l].rd_used /\ InFlight[l].rd = InFlight[k].rd
    BY <2>1, <2>2 DEF Follows
  <2>4. l \in Writers /\ l > k
    BY <2>1, <2>2, <2>3
  <2> QED BY <2>3, <2>4
<1> QED BY <1>1, MapStart, MapStep, PTL DEF Spec
-----------------------------------------------------------------------------
(***************************************************************************)
(* Losses.                                                                 *)
(***************************************************************************)
\* What fires and does not become a packet took the last free register.
LEMMA LostPacket ==
  ASSUME TypeOK, NEW d \in DecodePkt, NEW valid_in \in BOOLEAN, NEW dispatch \in BOOLEAN,
         NEW commit \in BOOLEAN, Cycle(d, valid_in, dispatch, commit),
         Fire(d, valid_in, dispatch), ~Pkt(d, valid_in, dispatch, commit).valid
  PROVE  GrantsLast
<1> DEFINE fl == FreeList(d, valid_in, dispatch, commit)
<1>1. AllocOk(d, free_map) /\ HasTag(dispatch)
  BY DEF Fire, ReadyOut
<1>2. ~AllocOk(d, fl.free_map)
  BY <1>1 DEF Pkt, RenamePkt
<1>3. HasFree(free_map) /\ ~HasFree(fl.free_map)
  BY <1>1, <1>2 DEF AllocOk
<1>4. free_map' = fl.free_map
  BY CycleFacts
<1>5. Len(buffer') = Len(Waiting(dispatch))
  BY WaitingAfterCycle
<1>6. Len(Waiting(dispatch)) <= Len(buffer)
  <2>1. buffer \in Seq(Packet) /\ (dispatch => buffer # << >>)
    BY CycleParts DEF TypeOK
  <2> QED BY <2>1, HeadTailProperties DEF Waiting
<1> QED BY <1>3, <1>4, <1>5, <1>6 DEF GrantsLast

LEMMA CycleLosesLast ==
  ASSUME TypeOK, NEW d \in DecodePkt, NEW valid_in \in BOOLEAN, NEW dispatch \in BOOLEAN,
         NEW commit \in BOOLEAN, Cycle(d, valid_in, dispatch, commit), ~GrantsLast
  PROVE  LostPregs' \subseteq LostPregs /\ LostTags' \subseteq LostTags
<1> DEFINE n == Len(InFlight) - Shift(commit)
           fire == Fire(d, valid_in, dispatch)
           pkt == Pkt(d, valid_in, dispatch, commit)
           got == fire /\ pkt.valid
           w == Waiting(dispatch)
           p == NewPreg(commit)
<1>1. fire => got
  BY LostPacket
<1>2. /\ n \in Nat /\ Len(InFlight) \in Nat
      /\ SamePrefix(Kept(commit), InFlight', n)
      /\ Len(InFlight') = IF got THEN n + 1 ELSE n
      /\ got => InFlight'[n + 1] = pkt
      /\ commit => InFlight[1] = Head(rob)
      /\ rat' = NextRat(d, valid_in, dispatch, commit)
      /\ free_map' = FreeList(d, valid_in, dispatch, commit).free_map
      /\ TypeOK'
  BY CycleFacts
<1>3. /\ Len(w) \in Nat
      /\ Len(buffer') = IF got THEN Len(w) + 1 ELSE Len(w)
      /\ \A i \in 1 .. Len(w) : buffer'[i] = buffer[i + Shift(dispatch)]
      /\ DOMAIN buffer' = 1 .. Len(buffer')
      /\ got => buffer'[Len(w) + 1] = pkt
      /\ dispatch => Head(buffer) = buffer[1]
  BY WaitingAfterCycle
<1>4. /\ DOMAIN InFlight = 1 .. Len(InFlight) /\ DOMAIN InFlight' = 1 .. Len(InFlight')
      /\ DOMAIN buffer = 1 .. Len(buffer) /\ Len(buffer) \in Nat
      /\ Len(w) = Len(buffer) - Shift(dispatch)
  <2>1. /\ buffer \in Seq(Packet) /\ rob \in Seq(Packet) /\ (dispatch => buffer # << >>)
        /\ buffer' \in Seq(Packet) /\ rob' \in Seq(Packet)
    BY <1>2, CycleParts DEF TypeOK
  <2>2. Len(w) = Len(buffer) - Shift(dispatch)
    BY <2>1, HeadTailProperties DEF Waiting, Shift
  <2>3. InFlight \in Seq(Packet) /\ InFlight' \in Seq(Packet)
    BY <2>1, ConcatProperties DEF InFlight
  <2> QED BY <2>1, <2>2, <2>3
<1>5. /\ Grant(d, valid_in, dispatch) =>
           /\ fire /\ free_map' = Returned(commit) \ {p} /\ rat' = [rat EXCEPT ![d.rd] = p]
           /\ pkt.rd_used /\ pkt.old_prd = rat[d.rd]
      /\ ~Grant(d, valid_in, dispatch) => free_map' = Returned(commit) /\ rat' = rat
  BY <1>2, ReadyMeansFree, Granted, NotGranted
<1>6. d.rd \in Areg /\ rat \in [Areg -> Preg] /\ pkt.rob_tag = NewTag(dispatch)
  BY NewPacket DEF DecodePkt, TypeOK, RenameTypeOK
<1>7. reserved' = (reserved \ Confirmed(dispatch)) \cup (IF fire THEN {NewTag(dispatch)} ELSE {})
  <2>1. fire => HasTag(dispatch)
    BY DEF Fire, ReadyOut
  <2> QED BY <2>1, CycleParts DEF TagTick, NewTag, HasTag
<1>8. \A i \in 1 .. n : InFlight'[i] = InFlight[i + Shift(commit)]
  BY <1>2 DEF SamePrefix, Kept
<1> HIDE DEF n, fire, pkt, got, w, p
<1>9. ASSUME NEW t \in LostTags' PROVE t \in LostTags
  <2>1. t \in reserved' /\ \A i \in DOMAIN buffer' : buffer'[i].rob_tag # t
    BY DEF LostTags, TagsOf
  <2>2. ~(fire /\ t = NewTag(dispatch))
    BY <1>1, <1>3, <1>6, <2>1
  <2>3. t \in reserved \ Confirmed(dispatch)
    BY <1>7, <2>1, <2>2
  <2>4. ASSUME NEW i \in DOMAIN buffer, buffer[i].rob_tag = t PROVE FALSE
    <3>1. ~(dispatch /\ i = 1)
      BY <1>3, <2>3, <2>4 DEF Confirmed
    <3>2. PICK j \in 1 .. Len(w) : i = j + Shift(dispatch)
      <4>1. i \in 1 .. Len(buffer) /\ Len(buffer) \in Nat
        BY <1>3, <1>4
      <4>2. Len(w) = Len(buffer) - Shift(dispatch)
        BY <1>4
      <4>3. CASE dispatch
        <5>1. Shift(dispatch) = 1 /\ i - 1 \in 1 .. Len(w)
          BY <3>1, <4>1, <4>2, <4>3 DEF Shift
        <5> QED BY <4>1, <5>1
      <4>4. CASE ~dispatch
        <5>1. Shift(dispatch) = 0 /\ i \in 1 .. Len(w)
          BY <4>1, <4>2, <4>4 DEF Shift
        <5> QED BY <4>1, <5>1
      <4> QED BY <4>3, <4>4
    <3>3. j \in DOMAIN buffer' /\ buffer'[j].rob_tag = t
      BY <1>3, <2>4, <3>2
    <3> QED BY <2>1, <3>3
  <2> QED BY <2>3, <2>4 DEF LostTags, TagsOf
<1>10. ASSUME NEW q \in LostPregs' PROVE q \in LostPregs
  <2>1. /\ q \in Allocatable /\ q \notin free_map' /\ q # 0
        /\ \A r \in Areg : rat'[r] # q
        /\ \A i \in DOMAIN InFlight' : InFlight'[i].rd_used => InFlight'[i].old_prd # q
    BY DEF LostPregs, Mapped, Former, Writers, Allocatable
  <2>2. q \notin Returned(commit)
    BY <1>5, <1>6, <2>1
  <2>3. ASSUME NEW r \in Areg, rat[r] = q PROVE FALSE
    <3>1. Grant(d, valid_in, dispatch) /\ r = d.rd
      BY <1>5, <1>6, <2>1, <2>3
    <3>2. got /\ InFlight'[n + 1] = pkt /\ n + 1 \in DOMAIN InFlight'
      BY <1>1, <1>2, <1>4, <1>5, <3>1
    <3> QED BY <1>5, <2>1, <2>3, <3>1, <3>2
  <2>4. ASSUME NEW k \in DOMAIN InFlight, InFlight[k].rd_used, InFlight[k].old_prd = q PROVE FALSE
    <3>1. CASE commit /\ k = 1
      BY <1>2, <2>1, <2>2, <2>4, <3>1 DEF Returned, Freed
    <3>2. CASE ~(commit /\ k = 1)
      <4>1. PICK j \in 1 .. n : k = j + Shift(commit)
        <5>1. k \in 1 .. Len(InFlight) /\ Len(InFlight) \in Nat
          BY <1>2, <1>4
        <5>2. CASE commit
          <6>1. Shift(commit) = 1 /\ k - 1 \in 1 .. n
            BY <3>2, <5>1, <5>2 DEF Shift, n
          <6> QED BY <5>1, <6>1
        <5>3. CASE ~commit
          <6>1. Shift(commit) = 0 /\ k \in 1 .. n
            BY <5>1, <5>3 DEF Shift, n
          <6> QED BY <5>1, <6>1
        <5> QED BY <5>2, <5>3
      <4>2. j \in DOMAIN InFlight' /\ InFlight'[j] = InFlight[k]
        BY <1>2, <1>4, <1>8, <4>1
      <4> QED BY <2>1, <2>4, <4>2
    <3> QED BY <3>1, <3>2
  <2>5. q \notin free_map
    BY <2>2 DEF Returned
  <2> QED BY <2>1, <2>3, <2>4, <2>5 DEF LostPregs, Mapped, Former, Writers
<1> QED BY <1>9, <1>10

(***************************************************************************)
(* For every number of registers and tags, a register or a tag is lost     *)
(* without a recovery in one way only: the free list grants the last       *)
(* register to an instruction whose packet rename then makes invalid       *)
(* (Rename::rename).                                                       *)
(***************************************************************************)
THEOREM OnlyTheLastIsLost == Spec => RenameLosesLast
<1>1. TypeOK /\ [Next]_vars =>
        [(LostPregs' \subseteq LostPregs /\ LostTags' \subseteq LostTags)
           \/ GrantsLast \/ Recovery]_vars
  BY StepCases, CycleLosesLast DEF Recovery
<1> QED BY <1>1, RenameTypeCorrect, PTL DEF Spec, RenameLosesLast
=============================================================================
