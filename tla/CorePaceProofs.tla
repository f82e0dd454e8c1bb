--------------------------- MODULE CorePaceProofs --------------------------
(***************************************************************************)
(* A flush of CoreTop kills nothing older than the branch that asked for   *)
(* it, for every size of the core and every program.                       *)
(*                                                                         *)
(* Nothing in the units compares ages: the flush empties the stations and  *)
(* the load pipeline whatever is in them.  What keeps the older ones out   *)
(* of its way is the pace of the core.  Fetch delivers an instruction      *)
(* every third cycle at most and an instruction takes few cycles from      *)
(* dispatch to its result, so at most two are in the ROB at a time, at     *)
(* most one of them, the youngest, in a station, and the one before it     *)
(* has its result when a branch redirects.  Pace says what is where at     *)
(* each point of fetch's rhythm.                                           *)
(*                                                                         *)
(* This pace needs room in the ROB.  Recoveries leave count above the      *)
(* number of entries for good (RobTags, Window); when the difference has   *)
(* come to ROB_DEPTH - 1 the ROB takes one instruction at a time, and the  *)
(* property holds because there is nothing older.                          *)
(*                                                                         *)
(* The pace also bounds what the buffers drop (the end of this module).    *)
(***************************************************************************)
EXTENDS CoreTopProofs

-----------------------------------------------------------------------------
(***************************************************************************)
(* What holds at any pace.                                                 *)
(***************************************************************************)

\* The packets that wait in the stations.
St == Stations \ {None}
Ready(e) == RsAlu!OperandsReady(e)

\* Only what is loaded has a register from the load/store unit.
LoadsOnly(e) == e.rd_used /\ e.d.fu_type = "LSU" => e.d.is_load

\* Fetch asks for one instruction at a time, and one buffer suffices behind it.
FrontBasics ==
  /\ f2d # None => d2r # None
  /\ req_pc # None => rdata # None /\ f_out = None
  /\ d2r # None => (d2r.rd_used /\ d2r.fu_type = "LSU" => d2r.is_load)

\* One instruction is issued at a time; requests and answers of the memory pair;
\* the stations hold what belongs there.
UnitBasics ==
  /\ m0 # None => resp1 # None
  /\ m1 # None => resp2 # None
  /\ alu_q # None => bru_q = None /\ m0 = None
  /\ bru_q # None => m0 = None
  /\ redirect # None => m1 = None
  /\ m0 # None /\ m0.rd_used => m0.is_load
  /\ m1 # None /\ m1.rd_used => m1.is_load

PacketBasics ==
  /\ \A k \in RsIndex : /\ rs_alu[k] # None => rs_alu[k].d.fu_type = "ALU"
                        /\ rs_bru[k] # None => rs_bru[k].d.fu_type = "BRU"
                        /\ rs_lsu[k] # None => rs_lsu[k].d.fu_type = "LSU"
  /\ \A e \in St : LoadsOnly(e)
  /\ storage # None => LoadsOnly(storage)
  /\ r2d_skid # None => LoadsOnly(r2d_skid)

Basics == FrontBasics /\ UnitBasics /\ PacketBasics

\* Where fetch is: an instruction held for rename while the next one is asked for
\* or not, one fetched, one asked for, none.
G1 == d2r # None /\ req_pc # None
G2 == d2r # None /\ req_pc = None
F1 == d2r = None /\ f_out # None
F2 == d2r = None /\ f_out = None /\ req_pc # None
F3 == d2r = None /\ f_out = None /\ req_pc = None

\* After a flush the load/store unit is closed until there is work again.
Blocked ==
  block_cnt # 0 =>
    /\ r2d_skid = None /\ storage = None /\ St = {} /\ m0 = None /\ m1 = None
    /\ block_cnt = 2 => F3
    /\ block_cnt = 1 => F2

\* What has no result is in the stations or the units.
Located == \A t \in Running : \E u, k : At(u, k, t)
-----------------------------------------------------------------------------
(***************************************************************************)
(* The pace, with n instructions in the ROB.                               *)
(***************************************************************************)

\* The instruction with tag t is the one a places behind the head.
AgeIs(t, a) == \E i \in Slot : entries[i].valid /\ entries[i].tag = t /\ Dist(head, i) = a

AllReady == \A e \in St : Ready(e)

\* One packet is in the stations, and no buffer holds another one up.
OneAtATime ==
  /\ r2d_skid = None /\ hold_alu = None /\ hold_bru = None /\ hold_lsu = None
  /\ \A e, f \in St : e = f

Shapes ==
  /\ G1 => storage = None /\ St = {}
  /\ G2 => storage = None /\ AllReady
  /\ F1 => \/ storage = None /\ (m0 = None \/ AllReady)
           \/ St = {} /\ m0 = None
  /\ F2 => St = {} \/ storage = None
  /\ F3 => storage = None \/ AllReady

Counts(n) ==
  /\ n <= 2
  /\ G1 => n <= 1
  /\ G2 /\ n = 2 => entries[head].done
  /\ F3 /\ storage # None /\ n = 2 => entries[head].done
  /\ (F1 \/ F2) /\ storage # None => n <= 1
  /\ F1 /\ n = 2 /\ m0 # None => ~AgeIs(m0.rob_tag, 0)

\* The packet in the stations is the youngest in the ROB, and all that have no
\* result are younger than the branch that redirects.
Order(n) ==
  /\ \A e \in St : AgeIs(e.rob_tag, n - 1)
  /\ redirect # None => \E a \in 0 .. n : /\ AgeIs(redirect.tag, a)
       /\ \A u, k, t : At(u, k, t) => \E b \in a + 1 .. n : AgeIs(t, b)

\* Register p is written at the next edge, or by the load that is read then.
Writing(p) ==
  /\ p # 0
  /\ \/ alu_q # None /\ alu_q.e.rd_used /\ alu_q.e.prd = p
     \/ bru_q # None /\ bru_q.rd_used /\ bru_q.prd = p
     \/ m1 # None /\ m1.rd_used /\ m1.prd = p
Loading(p) == p # 0 /\ m0 # None /\ m0.rd_used /\ m0.prd = p
Waiting(p) == p # 0 /\ \E e \in St : e.rd_used /\ e.prd = p
Queued(p)  == p # 0 /\ storage # None /\ storage.rd_used /\ storage.prd = p

Known(p)    == PregReady(p, valid_bits)
Computed(p) == Known(p) \/ Writing(p) \/ Loading(p)
DueIn(p)    == Computed(p) \/ Waiting(p)
Due(p)      == DueIn(p) \/ Queued(p)

\* Every register that is mapped or waited for has its value or gets it soon.
Awaited ==
  /\ \A r \in Areg : Due(rat[r])
  /\ \A e \in St : /\ e.prs1_ready \/ Writing(e.prs1) \/ Loading(e.prs1)
                   /\ e.prs2_ready \/ Writing(e.prs2) \/ Loading(e.prs2)
  /\ storage # None => DueIn(storage.prs1) /\ DueIn(storage.prs2)

\* So has every register that a branch would map again.
Restorable ==
  /\ storage # None /\ storage.is_branch => ckpt_rat[storage.rob_tag] = rat
  /\ \A e \in St : e.rob_tag \in Branches => \A r \in Areg :
       /\ ckpt_rat[e.rob_tag][r] \notin free_map
       /\ DueIn(ckpt_rat[e.rob_tag][r])
  /\ bru_q # None /\ bru_q.rob_tag \in Branches => \A r \in Areg :
       /\ ckpt_rat[bru_q.rob_tag][r] \notin free_map
       /\ Computed(ckpt_rat[bru_q.rob_tag][r])
  /\ redirect # None => \A r \in Areg : Known(ckpt_rat[redirect.tag][r])

Pace(n) ==
  /\ OneAtATime
  /\ Shapes
  /\ Counts(n)
  /\ Order(n)
  /\ Awaited
  /\ Restorable

\* The ROB takes another instruction while there is one in it.
Room(n) == count - n <= ROB_DEPTH - 2

\* The youngest, if it is a branch, would not bring count below what it is now.
Snap(n) ==
  \A t \in Branches : AgeIs(t, n - 1) => count <= ckpt_ptrs[t].count

PaceInv ==
  /\ CoreInv /\ RegsInv /\ Basics /\ Blocked /\ Located
  /\ \E n \in 0 .. ROB_DEPTH : TP!WindowOf(n) /\ Snap(n) /\ (Room(n) => Pace(n))
-----------------------------------------------------------------------------
(***************************************************************************)
(* What an edge without a flush does to the stations and the units.        *)
(***************************************************************************)

\* A packet in the stations is in a place, and what is in a place is a packet in
\* the stations or in a register of a unit.
LEMMA Places ==
  ASSUME TypeOK
  PROVE  /\ St \subseteq RenamePkt /\ None \notin St
         /\ \A e \in St : \E u, k : /\ u \in {"ALU", "BRU", "LSU"}
                                    /\ At(u, k, e.rob_tag)
                                    /\ u = "ALU" => rs_alu[k] = e
                                    /\ u = "BRU" => rs_bru[k] = e
                                    /\ u = "LSU" => rs_lsu[k] = e
         /\ \A k \in RsIndex : /\ rs_alu[k] # None => rs_alu[k] \in St
                               /\ rs_bru[k] # None => rs_bru[k] \in St
                               /\ rs_lsu[k] # None => rs_lsu[k] \in St
         /\ \A u, k, t : At(u, k, t) =>
              \/ \E e \in St : e.rob_tag = t
              \/ alu_q # None /\ alu_q.e.rob_tag = t
              \/ Holds(bru_q, t) \/ Holds(m0, t) \/ Holds(m1, t)
<1>1. \A k \in RsIndex : /\ rs_alu[k] \in RenamePkt \cup {None}
                         /\ rs_bru[k] \in RenamePkt \cup {None}
                         /\ rs_lsu[k] \in RenamePkt \cup {None}
  BY DEF TypeOK, RsAlu!RsTypeOK, RsBru!RsTypeOK, RsLsu!RsTypeOK,
         RsAlu!Index, RsBru!Index, RsLsu!Index, RsIndex
<1>2. \A e : e \in St <=> /\ e # None
                          /\ \E k \in RsIndex : \/ e = rs_alu[k] \/ e = rs_bru[k]
                                                \/ e = rs_lsu[k]
  BY DEF St, Stations, RsIndex
<1>3. St \subseteq RenamePkt /\ None \notin St
  BY <1>1, <1>2
<1>4. ASSUME NEW e \in St
      PROVE  \E u, k : /\ u \in {"ALU", "BRU", "LSU"}
                       /\ At(u, k, e.rob_tag)
                       /\ u = "ALU" => rs_alu[k] = e
                       /\ u = "BRU" => rs_bru[k] = e
                       /\ u = "LSU" => rs_lsu[k] = e
  <2>1. PICK k \in RsIndex : e = rs_alu[k] \/ e = rs_bru[k] \/ e = rs_lsu[k]
    BY <1>2
  <2>2. e # None
    BY <1>2
  <2>3. CASE e = rs_alu[k]
    <3>1. At("ALU", k, e.rob_tag)
      BY <2>1, <2>2, <2>3 DEF At, Holds
    <3> QED BY <2>3, <3>1
  <2>4. CASE e = rs_bru[k]
    <3>1. At("BRU", k, e.rob_tag)
      BY <2>1, <2>2, <2>4 DEF At, Holds
    <3> QED BY <2>4, <3>1
  <2>5. CASE e = rs_lsu[k]
    <3>1. At("LSU", k, e.rob_tag)
      BY <2>1, <2>2, <2>5 DEF At, Holds
    <3> QED BY <2>5, <3>1
  <2> QED BY <2>1, <2>3, <2>4, <2>5
<1>5. \A k \in RsIndex : /\ rs_alu[k] # None => rs_alu[k] \in St
                         /\ rs_bru[k] # None => rs_bru[k] \in St
                         /\ rs_lsu[k] # None => rs_lsu[k] \in St
  BY <1>2
<1>6. ASSUME NEW u, NEW k, NEW t, At(u, k, t)
      PROVE  \/ \E e \in St : e.rob_tag = t
             \/ alu_q # None /\ alu_q.e.rob_tag = t
             \/ Holds(bru_q, t) \/ Holds(m0, t) \/ Holds(m1, t)
  BY <1>5, <1>6 DEF At, Holds
<1> QED BY <1>3, <1>4, <1>5, <1>6

\* What moving does, slot by slot.
LEMMA MovesIs ==
  ASSUME NEW old, NEW new, NEW insert, NEW iss, NEW in, NEW sel, NEW K, NEW L,
         insert \in RenamePkt \cup {None},
         Moves(old, new, insert, iss, in, sel, K, L)
  PROVE  /\ \A k \in RsIndex : new[k] # None =>
              \/ insert # None /\ new[k] = RsAlu!Wake(insert, K)
              \/ /\ old[k] # None /\ new[k] = RsAlu!Wake(old[k], L)
                 /\ ~(iss # None /\ k = sel)
         /\ insert # None => \E k \in RsIndex : /\ new[k] = RsAlu!Wake(insert, K)
                                                /\ new[k] # None
         /\ \A k \in RsIndex : old[k] # None /\ old[k] # iss =>
              new[k] = RsAlu!Wake(old[k], L) /\ new[k] # None
         /\ iss # None => sel \in RsIndex /\ old[sel] = iss
<1>1. \A e \in RenamePkt : \A M : RsAlu!Wake(e, M) # None
  BY WakeIs, NoneAssumption DEF SameInsn
<1> QED BY <1>1 DEF Moves

\* The edges of the stations.
KnownSet == valid_bits \cup {0} \cup Wakeups

LEMMA StationMoves ==
  ASSUME TypeOK, Cycle
  PROVE  /\ \E in, sel : Moves(rs_alu, rs_alu', Insert("ALU"), IssAlu, in, sel, KnownSet, Wakeups)
         /\ \E in, sel : Moves(rs_bru, rs_bru', Insert("BRU"), IssBru, in, sel, KnownSet, Wakeups)
         /\ \E in, sel : Moves(rs_lsu, rs_lsu', Insert("LSU"), IssLsu, in, sel, KnownSet, Wakeups)
<1>1. \A fu : Insert(fu) \in RenamePkt \cup {None}
  BY WireTypes DEF WiresOK
<1>2. /\ Insert("ALU") # None => RsAlu!RsReady
      /\ Insert("BRU") # None => RsBru!RsReady
      /\ Insert("LSU") # None => RsLsu!RsReady
  BY DEF Insert, DispatchFire, StationReady
<1>3. /\ IssAlu \in {None, RsAlu!IssueEntry}
      /\ IssBru \in {None, RsBru!IssueEntry}
      /\ IssLsu \in {None, RsLsu!IssueEntry}
  BY DEF IssAlu, IssBru, IssLsu
<1>4. /\ RsAlu!RsEdge(Insert("ALU"), valid_bits, Wakeups, IssAlu # None)
      /\ RsBru!RsEdge(Insert("BRU"), valid_bits, Wakeups, IssBru # None)
      /\ RsLsu!RsEdge(Insert("LSU"), valid_bits, Wakeups, IssLsu # None)
  BY DEF Cycle
<1>5. /\ RsAlu!RsTypeOK(RenamePkt) /\ RsBru!RsTypeOK(RenamePkt)
      /\ RsLsu!RsTypeOK(RenamePkt)
  BY DEF TypeOK
<1>6. \E in, sel : Moves(rs_alu, rs_alu', Insert("ALU"), IssAlu, in, sel, KnownSet, Wakeups)
  BY <1>1, <1>2, <1>3, <1>4, <1>5, AluStep DEF KnownSet
<1>7. \E in, sel : Moves(rs_bru, rs_bru', Insert("BRU"), IssBru, in, sel, KnownSet, Wakeups)
  BY <1>1, <1>2, <1>3, <1>4, <1>5, BruStep DEF KnownSet
<1>8. \E in, sel : Moves(rs_lsu, rs_lsu', Insert("LSU"), IssLsu, in, sel, KnownSet, Wakeups)
  BY <1>1, <1>2, <1>3, <1>4, <1>5, LsuStep DEF KnownSet
<1> QED BY <1>6, <1>7, <1>8
Issued == {IssAlu, IssBru, IssLsu} \ {None}

\* What is issued is a ready packet in the stations, and only one is.
LEMMA IssuedIs ==
  ASSUME TypeOK
  PROVE  /\ Issued \subseteq St
         /\ \A e, f \in Issued : e = f
         /\ hold_alu = None /\ hold_bru = None /\ hold_lsu = None =>
              \A e \in Issued : Ready(e)
         /\ IssAlu # None => \E k \in RsIndex : rs_alu[k] = IssAlu
         /\ IssBru # None => \E k \in RsIndex : rs_bru[k] = IssBru
         /\ IssLsu # None => \E k \in RsIndex : rs_lsu[k] = IssLsu
<1>1. /\ IssAlu # None => /\ RsAlu!SelValid /\ RsAlu!Sel \in RsIndex
                          /\ rs_alu[RsAlu!Sel] = IssAlu
      /\ IssBru # None => /\ RsBru!SelValid /\ RsBru!Sel \in RsIndex
                          /\ rs_bru[RsBru!Sel] = IssBru
      /\ IssLsu # None => /\ RsLsu!SelValid /\ RsLsu!Sel \in RsIndex
                          /\ rs_lsu[RsLsu!Sel] = IssLsu
  BY AluSelected, BruSelected, LsuSelected DEF TypeOK, IssAlu, IssBru, IssLsu
<1>2. Issued \subseteq St
  BY <1>1, Places DEF Issued
<1>3. \A e, f \in Issued : e = f
  BY DEF Issued, IssAlu, IssBru, IssLsu
<1>4. ASSUME hold_alu = None, hold_bru = None, hold_lsu = None, NEW e \in Issued
      PROVE  Ready(e)
  <2>1. CASE e = IssAlu /\ IssAlu # None
    <3>1. RsAlu!Sel \in RsAlu!ReadySlots
      <4>1. RsAlu!ReadySlots \subseteq RsIndex
        BY DEF RsAlu!ReadySlots, RsAlu!Index, RsIndex
      <4> QED BY <1>1, <1>4, <2>1, <4>1, LowestIs DEF RsAlu!SelValid, RsAlu!Sel, RsAlu!Lowest
    <3> QED BY <1>1, <2>1, <3>1 DEF RsAlu!ReadySlots, Ready
  <2>2. CASE e = IssBru /\ IssBru # None
    <3>1. RsBru!Sel \in RsBru!ReadySlots
      <4>1. RsBru!ReadySlots \subseteq RsIndex
        BY DEF RsBru!ReadySlots, RsBru!Index, RsIndex
      <4> QED BY <1>1, <1>4, <2>2, <4>1, LowestIs DEF RsBru!SelValid, RsBru!Sel, RsBru!Lowest
    <3> QED BY <1>1, <2>2, <3>1 DEF RsBru!ReadySlots, Ready, RsBru!OperandsReady, RsAlu!OperandsReady
  <2>3. CASE e = IssLsu /\ IssLsu # None
    <3>1. RsLsu!Sel \in RsLsu!ReadySlots
      <4>1. RsLsu!ReadySlots \subseteq RsIndex
        BY DEF RsLsu!ReadySlots, RsLsu!Index, RsIndex
      <4> QED BY <1>1, <1>4, <2>3, <4>1, LowestIs DEF RsLsu!SelValid, RsLsu!Sel, RsLsu!Lowest
    <3> QED BY <1>1, <2>3, <3>1 DEF RsLsu!ReadySlots, Ready, RsLsu!OperandsReady, RsAlu!OperandsReady
  <2> QED BY <1>4, <2>1, <2>2, <2>3 DEF Issued
<1> QED BY <1>1, <1>2, <1>3, <1>4

\* With one packet in the stations and none held, it issues as soon as it is ready.
LEMMA ReadyIssues ==
  ASSUME TypeOK, OneAtATime, NEW e \in St, Ready(e)
  PROVE  e \in Issued
<1>1. PICK k \in RsIndex : e = rs_alu[k] \/ e = rs_bru[k] \/ e = rs_lsu[k]
  BY DEF St, Stations, RsIndex
<1>2. e # None /\ \A f \in Issued : f = e
  BY IssuedIs, Places DEF OneAtATime
<1>3. CASE e = rs_alu[k]
  <2>1. k \in RsAlu!ReadySlots
    BY <1>1, <1>2, <1>3 DEF RsAlu!ReadySlots, RsAlu!Index, RsIndex, Ready
  <2>2. RsAlu!SelValid
    BY <2>1 DEF RsAlu!SelValid
  <2>3. RsAlu!Sel \in RsAlu!ReadySlots
    <3>1. RsAlu!ReadySlots \subseteq RsIndex
      BY DEF RsAlu!ReadySlots, RsAlu!Index, RsIndex
    <3> QED BY <2>1, <3>1, LowestIs DEF RsAlu!Sel, RsAlu!Lowest, OneAtATime
  <2>4. IssAlu # None
    BY <2>2, <2>3 DEF IssAlu, RsAlu!IssueEntry, RsAlu!ReadySlots
  <2> QED BY <1>2, <2>4 DEF Issued
<1>4. CASE e = rs_bru[k]
  <2>1. k \in RsBru!ReadySlots
    BY <1>1, <1>2, <1>4 DEF RsBru!ReadySlots, RsBru!Index, RsIndex, Ready,
                            RsBru!OperandsReady, RsAlu!OperandsReady
  <2>2. RsBru!SelValid
    BY <2>1 DEF RsBru!SelValid
  <2>3. RsBru!Sel \in RsBru!ReadySlots
    <3>1. RsBru!ReadySlots \subseteq RsIndex
      BY DEF RsBru!ReadySlots, RsBru!Index, RsIndex
    <3> QED BY <2>1, <3>1, LowestIs DEF RsBru!Sel, RsBru!Lowest, OneAtATime
  <2>4. IssAlu # None \/ IssBru # None
    BY <2>2, <2>3 DEF IssBru, RsBru!IssueEntry, RsBru!ReadySlots
  <2> QED BY <1>2, <2>4 DEF Issued
<1>5. CASE e = rs_lsu[k]
  <2>1. k \in RsLsu!ReadySlots
    BY <1>1, <1>2, <1>5 DEF RsLsu!ReadySlots, RsLsu!Index, RsIndex, Ready,
                            RsLsu!OperandsReady, RsAlu!OperandsReady
  <2>2. RsLsu!SelValid
    BY <2>1 DEF RsLsu!SelValid
  <2>3. RsLsu!Sel \in RsLsu!ReadySlots
    <3>1. RsLsu!ReadySlots \subseteq RsIndex
      BY DEF RsLsu!ReadySlots, RsLsu!Index, RsIndex
    <3> QED BY <2>1, <3>1, LowestIs DEF RsLsu!Sel, RsLsu!Lowest, OneAtATime
  <2>4. IssAlu # None \/ IssBru # None \/ IssLsu # None
    BY <2>2, <2>3 DEF IssLsu, RsLsu!IssueEntry, RsLsu!ReadySlots
  <2> QED BY <1>2, <2>4 DEF Issued
<1> QED BY <1>1, <1>3, <1>4, <1>5

\* The stations after the edge: what is not issued stays, and what is dispatched
\* comes in, both woken.
LEMMA StationsAfter ==
  ASSUME CoreInv, Cycle
  PROVE  /\ \A f \in St' : \/ \E e \in St : e \notin Issued /\ f = RsAlu!Wake(e, Wakeups)
                           \/ DispatchFire /\ f = RsAlu!Wake(storage, KnownSet)
         /\ \A e \in St : e \notin Issued => RsAlu!Wake(e, Wakeups) \in St'
         /\ DispatchFire => RsAlu!Wake(storage, KnownSet) \in St'
<1> USE DEF CoreInv
<1>1. \A fu : /\ Insert(fu) \in RenamePkt \cup {None}
              /\ Insert(fu) # None => DispatchFire /\ Insert(fu) = storage
  BY WireTypes DEF WiresOK, Insert
<1>2. /\ TypeOK' /\ St' = ({rs_alu'[k] : k \in RsIndex} \cup {rs_bru'[k] : k \in RsIndex}
                            \cup {rs_lsu'[k] : k \in RsIndex}) \ {None}
      /\ St = ({rs_alu[k] : k \in RsIndex} \cup {rs_bru[k] : k \in RsIndex}
                            \cup {rs_lsu[k] : k \in RsIndex}) \ {None}
  <2>1. TypeOK'
    BY CoreStep DEF Next
  <2> QED BY <2>1 DEF St, Stations, RsIndex
<1>3. PICK ia, a : Moves(rs_alu, rs_alu', Insert("ALU"), IssAlu, ia, a, KnownSet, Wakeups)
  BY StationMoves
<1>4. PICK ib, b : Moves(rs_bru, rs_bru', Insert("BRU"), IssBru, ib, b, KnownSet, Wakeups)
  BY StationMoves
<1>5. PICK ic, c : Moves(rs_lsu, rs_lsu', Insert("LSU"), IssLsu, ic, c, KnownSet, Wakeups)
  BY StationMoves
<1> DEFINE W(e) == RsAlu!Wake(e, Wakeups)
           V(e) == RsAlu!Wake(e, KnownSet)
<1>6. /\ \A k \in RsIndex : rs_alu'[k] # None =>
              \/ Insert("ALU") # None /\ rs_alu'[k] = V(Insert("ALU"))
              \/ /\ rs_alu[k] # None /\ rs_alu'[k] = W(rs_alu[k])
                 /\ ~(IssAlu # None /\ k = a)
      /\ Insert("ALU") # None => \E k \in RsIndex : /\ rs_alu'[k] = V(Insert("ALU"))
                                                    /\ rs_alu'[k] # None
      /\ \A k \in RsIndex : rs_alu[k] # None /\ rs_alu[k] # IssAlu =>
              rs_alu'[k] = W(rs_alu[k]) /\ rs_alu'[k] # None
      /\ IssAlu # None => a \in RsIndex /\ rs_alu[a] = IssAlu
  BY <1>1, <1>3, MovesIs
<1>7. /\ \A k \in RsIndex : rs_bru'[k] # None =>
              \/ Insert("BRU") # None /\ rs_bru'[k] = V(Insert("BRU"))
              \/ /\ rs_bru[k] # None /\ rs_bru'[k] = W(rs_bru[k])
                 /\ ~(IssBru # None /\ k = b)
      /\ Insert("BRU") # None => \E k \in RsIndex : /\ rs_bru'[k] = V(Insert("BRU"))
                                                    /\ rs_bru'[k] # None
      /\ \A k \in RsIndex : rs_bru[k] # None /\ rs_bru[k] # IssBru =>
              rs_bru'[k] = W(rs_bru[k]) /\ rs_bru'[k] # None
      /\ IssBru # None => b \in RsIndex /\ rs_bru[b] = IssBru
  BY <1>1, <1>4, MovesIs
<1>8. /\ \A k \in RsIndex : rs_lsu'[k] # None =>
              \/ Insert("LSU") # None /\ rs_lsu'[k] = V(Insert("LSU"))
              \/ /\ rs_lsu[k] # None /\ rs_lsu'[k] = W(rs_lsu[k])
                 /\ ~(IssLsu # None /\ k = c)
      /\ Insert("LSU") # None => \E k \in RsIndex : /\ rs_lsu'[k] = V(Insert("LSU"))
                                                    /\ rs_lsu'[k] # None
      /\ \A k \in RsIndex : rs_lsu[k] # None /\ rs_lsu[k] # IssLsu =>
              rs_lsu'[k] = W(rs_lsu[k]) /\ rs_lsu'[k] # None
      /\ IssLsu # None => c \in RsIndex /\ rs_lsu[c] = IssLsu
  BY <1>1, <1>5, MovesIs
<1> HIDE DEF W, V
<1>9. \A e : e \in Issued => \/ IssAlu # None /\ e = rs_alu[a] /\ a \in RsIndex
                             \/ IssBru # None /\ e = rs_bru[b] /\ b \in RsIndex
                             \/ IssLsu # None /\ e = rs_lsu[c] /\ c \in RsIndex
  BY <1>6, <1>7, <1>8 DEF Issued
\* What is issued is in no other slot.
<1>10. \A k \in RsIndex :
         /\ rs_alu[k] # None /\ rs_alu[k] \in Issued => IssAlu # None /\ k = a
         /\ rs_bru[k] # None /\ rs_bru[k] \in Issued => IssBru # None /\ k = b
         /\ rs_lsu[k] # None /\ rs_lsu[k] \in Issued => IssLsu # None /\ k = c
  <2>1. \A k \in RsIndex :
          /\ rs_alu[k] # None => At("ALU", k, rs_alu[k].rob_tag)
          /\ rs_bru[k] # None => At("BRU", k, rs_bru[k].rob_tag)
          /\ rs_lsu[k] # None => At("LSU", k, rs_lsu[k].rob_tag)
    BY DEF At, Holds
  <2> SUFFICES ASSUME NEW k \in RsIndex
               PROVE  /\ rs_alu[k] # None /\ rs_alu[k] \in Issued => IssAlu # None /\ k = a
                      /\ rs_bru[k] # None /\ rs_bru[k] \in Issued => IssBru # None /\ k = b
                      /\ rs_lsu[k] # None /\ rs_lsu[k] \in Issued => IssLsu # None /\ k = c
    OBVIOUS
  <2>2. /\ IssAlu # None => At("ALU", a, rs_alu[a].rob_tag)
        /\ IssBru # None => At("BRU", b, rs_bru[b].rob_tag)
        /\ IssLsu # None => At("LSU", c, rs_lsu[c].rob_tag)
    BY <1>6, <1>7, <1>8, <2>1
  <2>3. rs_alu[k] # None /\ rs_alu[k] \in Issued => IssAlu # None /\ k = a
    BY <1>9, <2>1, <2>2 DEF AtOnce
  <2>4. rs_bru[k] # None /\ rs_bru[k] \in Issued => IssBru # None /\ k = b
    BY <1>9, <2>1, <2>2 DEF AtOnce
  <2>5. rs_lsu[k] # None /\ rs_lsu[k] \in Issued => IssLsu # None /\ k = c
    BY <1>9, <2>1, <2>2 DEF AtOnce
  <2> QED BY <2>3, <2>4, <2>5
<1>11. ASSUME NEW f \in St'
       PROVE  \/ \E e \in St : e \notin Issued /\ f = W(e)
              \/ DispatchFire /\ f = V(storage)
  <2>1. CASE \E k \in RsIndex : f = rs_alu'[k] /\ f # None
    BY <1>1, <1>2, <1>6, <1>10, <2>1
  <2>2. CASE \E k \in RsIndex : f = rs_bru'[k] /\ f # None
    BY <1>1, <1>2, <1>7, <1>10, <2>2
  <2>3. CASE \E k \in RsIndex : f = rs_lsu'[k] /\ f # None
    BY <1>1, <1>2, <1>8, <1>10, <2>3
  <2> QED BY <1>2, <2>1, <2>2, <2>3
<1>12. ASSUME NEW e \in St, e \notin Issued PROVE W(e) \in St'
  <2>1. CASE \E k \in RsIndex : e = rs_alu[k] /\ e # None
    BY <1>2, <1>6, <1>12, <2>1 DEF Issued
  <2>2. CASE \E k \in RsIndex : e = rs_bru[k] /\ e # None
    BY <1>2, <1>7, <1>12, <2>2 DEF Issued
  <2>3. CASE \E k \in RsIndex : e = rs_lsu[k] /\ e # None
    BY <1>2, <1>8, <1>12, <2>3 DEF Issued
  <2> QED BY <1>2, <2>1, <2>2, <2>3
<1>13. DispatchFire => V(storage) \in St'
  <2> SUFFICES ASSUME DispatchFire PROVE V(storage) \in St'
    OBVIOUS
  <2>1. storage \in RenamePkt /\ storage # None
    BY WireTypes DEF WiresOK
  <2>2. storage.d.fu_type \in {"ALU", "BRU", "LSU"}
    BY <2>1 DEF RenamePkt, DecodePkt, FuType
  <2>3. \E fu \in {"ALU", "BRU", "LSU"} : Insert(fu) = storage /\ Insert(fu) # None
    BY <2>1, <2>2 DEF Insert
  <2> QED BY <1>2, <1>6, <1>7, <1>8, <2>3
<1> QED BY <1>11, <1>12, <1>13 DEF W, V
\* The units after the edge.
LEMMA UnitsAfter ==
  ASSUME TypeOK, Cycle
  PROVE  /\ IF IssAlu # None THEN alu_q' # None /\ alu_q'.e = IssAlu ELSE alu_q' = None
         /\ IF IssBru # None
            THEN /\ bru_q' # None /\ bru_q'.rob_tag = IssBru.rob_tag
                 /\ bru_q'.rd_used = IssBru.rd_used
                 /\ bru_q'.rd_used => bru_q'.prd = IssBru.prd
            ELSE bru_q' = None
         /\ IF IssLsu # None /\ block_cnt = 0
            THEN /\ m0' # None /\ m0'.rob_tag = IssLsu.rob_tag
                 /\ m0'.rd_used = IssLsu.rd_used /\ m0'.prd = IssLsu.prd
                 /\ m0'.is_load = IssLsu.d.is_load
                 /\ resp1' # None
            ELSE m0' = None
         /\ m1' = m0 /\ resp2' = resp1
         /\ block_cnt' = (IF block_cnt > 0 THEN block_cnt - 1 ELSE 0)
         /\ redirect' # None => Mispredict /\ redirect'.tag = bru_q.rob_tag
<1>1. /\ IssAlu \in RenamePkt \cup {None} /\ IssBru \in RenamePkt \cup {None}
      /\ IssLsu \in RenamePkt \cup {None}
      /\ \A e \in RenamePkt : Src1(e) \in Word /\ Src2(e) \in Word
  BY WireTypes DEF WiresOK
<1>2. ~Flush /\ EveryEdge
  BY DEF Cycle
<1>3. IF IssAlu # None THEN alu_q' # None /\ alu_q'.e = IssAlu ELSE alu_q' = None
  <2> DEFINE q == [e |-> IssAlu, a |-> Src1(IssAlu), b |-> Src2(IssAlu)]
  <2>1. IssAlu # None => q \in [e : RenamePkt, a : Word, b : Word] /\ q.e = IssAlu
    BY <1>1
  <2>2. alu_q' = IF IssAlu # None THEN q ELSE None
    BY <1>2 DEF EveryEdge, AluEdge
  <2> HIDE DEF q
  <2> QED BY <2>1, <2>2, RegistersNoneAssumption
<1>4. IF IssBru # None
      THEN /\ bru_q' # None /\ bru_q'.rob_tag = IssBru.rob_tag
           /\ bru_q'.rd_used = IssBru.rd_used
           /\ bru_q'.rd_used => bru_q'.prd = IssBru.prd
      ELSE bru_q' = None
  <2> DEFINE q == Resolve(IssBru, Src1(IssBru), Src2(IssBru))
  <2>1. IssBru # None => q \in [rob_tag : Tag, rd_used : BOOLEAN, prd : Preg, data : Word,
                                taken : BOOLEAN, target : Pc]
    BY <1>1, UnitTypes
  <2>2. /\ q.rob_tag = IssBru.rob_tag /\ q.rd_used = IssBru.rd_used
        /\ q.rd_used => q.prd = IssBru.prd
    BY DEF Resolve
  <2>3. bru_q' = IF IssBru # None THEN q ELSE None
    BY <1>2 DEF EveryEdge, BruEdge
  <2> HIDE DEF q
  <2> QED BY <2>1, <2>2, <2>3, RegistersNoneAssumption
<1> DEFINE en == IssLsu # None /\ block_cnt = 0
           q == [is_load |-> IssLsu.d.is_load, rd_used |-> IssLsu.rd_used,
                 rob_tag |-> IssLsu.rob_tag, prd |-> IssLsu.prd]
           addr == EffAddr(IssLsu, Src1(IssLsu))
<1>5. DmemEn(Flush, IssLsu) <=> en
  BY <1>2 DEF DmemEn, AllowIssue
<1>6. LsuEdge(Flush, IssLsu, Src1(IssLsu), Src2(IssLsu))
  BY <1>2 DEF EveryEdge
<1>7. /\ m0' = (IF en THEN q ELSE None) /\ m1' = m0 /\ resp2' = resp1
      /\ block_cnt' = (IF block_cnt > 0 THEN block_cnt - 1 ELSE 0)
  BY <1>2, <1>5, <1>6 DEF LsuEdge, DmemEdge
<1>8. resp1' = IF ~en THEN None ELSE IF IssLsu.d.is_store THEN 0 ELSE dmem[addr]
  BY <1>2, <1>5, <1>6 DEF LsuEdge, DmemEdge
<1>9. en => q \in Meta /\ addr \in Word
  <2>1. en => IssLsu \in RenamePkt
    BY <1>1
  <2>2. en => addr \in Word
    BY <1>1, <2>1, UnitTypes
  <2> QED BY <2>1, <2>2 DEF Meta, RenamePkt, DecodePkt
<1>10. /\ q.rob_tag = IssLsu.rob_tag /\ q.rd_used = IssLsu.rd_used /\ q.prd = IssLsu.prd
       /\ q.is_load = IssLsu.d.is_load
  OBVIOUS
<1> HIDE DEF en, q, addr
<1>11. en => m0' # None /\ resp1' # None
  <2>1. dmem \in [Word -> Word] /\ 0 \in Word
    BY DataTypes DEF TypeOK, LsuTypeOK
  <2> QED BY <1>7, <1>8, <1>9, <2>1, RegistersNoneAssumption
<1>12. IF en
       THEN /\ m0' # None /\ m0'.rob_tag = IssLsu.rob_tag
            /\ m0'.rd_used = IssLsu.rd_used /\ m0'.prd = IssLsu.prd
            /\ m0'.is_load = IssLsu.d.is_load
            /\ resp1' # None
       ELSE m0' = None
  BY <1>7, <1>10, <1>11
<1>13. redirect' # None => Mispredict /\ redirect'.tag = bru_q.rob_tag
  BY <1>2 DEF EveryEdge, RecoveryEdge
<1> QED BY <1>3, <1>4, <1>7, <1>12, <1>13 DEF en

LEMMA UnitBasicsRun ==
  ASSUME TypeOK, Basics, Cycle
  PROVE  UnitBasics'
<1> USE DEF Basics
<1>1. /\ IssBru # None => IssAlu = None
      /\ IssLsu # None => IssAlu = None /\ IssBru = None
  BY DEF IssBru, IssLsu
<1>2. IssLsu # None => LoadsOnly(IssLsu) /\ IssLsu.d.fu_type = "LSU"
  <2>1. IssLsu # None => \E k \in RsIndex : rs_lsu[k] = IssLsu
    BY IssuedIs
  <2> QED BY <2>1, Places DEF PacketBasics
<1>3. redirect' # None => m0 = None
  BY UnitsAfter DEF Mispredict, UnitBasics
<1> QED BY <1>1, <1>2, <1>3, UnitsAfter DEF UnitBasics, LoadsOnly

\* A packet that moves on keeps that it has a register only if it loads.
LEMMA LoadsWoken ==
  ASSUME NEW e \in RenamePkt, LoadsOnly(e), NEW M
  PROVE  /\ LoadsOnly(RsAlu!Wake(e, M))
         /\ RsAlu!Wake(e, M).d.fu_type = e.d.fu_type
  BY WakeIs DEF LoadsOnly, SameInsn

\* Decode makes packets that have a register from the load/store unit only for loads.
LEMMA DecodedLoads ==
  ASSUME TypeOK, FrontBasics
  PROVE  /\ Decoded # None <=> Fetched # None
         /\ Decoded # None => (Decoded.rd_used /\ Decoded.fu_type = "LSU" => Decoded.is_load)
         /\ RenameIn # None => (RenameIn.rd_used /\ RenameIn.fu_type = "LSU" => RenameIn.is_load)
         /\ RenameOut # None => LoadsOnly(RenameOut)
<1>1. Fetched \in FetchPkt \cup {None} /\ Decoded \in DecodePkt \cup {None}
  BY WireTypes DEF WiresOK
<1>2. Fetched # None => Fetched.pc \in Pc /\ Fetched.instr \in Insn
  BY <1>1 DEF FetchPkt
<1>3. Decoded # None <=> Fetched # None
  BY <1>2, DecodeType, RegistersNoneAssumption DEF Decoded
<1> DEFINE i == Fetched.instr
           d == DefaultPkt(Fetched.pc, i)
<1>4. ASSUME Fetched # None
      PROVE  Decoded.rd_used /\ Decoded.fu_type = "LSU" => Decoded.is_load
  <2>1. Decoded = DecodeInsn(Fetched.pc, i) /\ i.op \in Opcode
    BY <1>2, <1>4 DEF Decoded, Insn
  <2>2. \/ i.op = "LOAD" /\ Decoded.is_load
        \/ i.op = "STORE" /\ ~Decoded.rd_used
        \/ Decoded.fu_type # "LSU"
    BY <2>1, Zenon DEF DecodeInsn, DefaultPkt, UnknownPkt, Opcode
  <2> QED BY <2>2
<1>5. RenameIn # None => (RenameIn.rd_used /\ RenameIn.fu_type = "LSU" => RenameIn.is_load)
  BY <1>3, <1>4 DEF RenameIn, D2r!SkidOut, FrontBasics
<1>6. RenameOut # None => LoadsOnly(RenameOut)
  <2> SUFFICES ASSUME RenameOut # None PROVE LoadsOnly(RenameOut)
    OBVIOUS
  <2>1. RenameIn # None /\ RenameOut = Renamed(RenameIn, FreeTag, valid_bits)
    BY DEF RenameOut
  <2>2. RenameOut.d = RenameIn /\ RenameOut.rd_used = NeedAlloc(RenameIn)
    BY <2>1 DEF Renamed
  <2> QED BY <1>5, <2>1, <2>2 DEF LoadsOnly, NeedAlloc
<1> QED BY <1>3, <1>4, <1>5, <1>6
-----------------------------------------------------------------------------
(***************************************************************************)
(* The front.                                                              *)
(***************************************************************************)

LEMMA FrontBasicsRun ==
  ASSUME TypeOK, FrontBasics, Cycle
  PROVE  FrontBasics'
<1>1. /\ FetchEdge(F2dReady) /\ F2d!SkidEdge(f_out, D2rReady)
      /\ D2r!SkidEdge(Decoded, RenameReady)
  BY DEF Cycle
<1>2. f2d' # None => d2r' # None
  <2> SUFFICES ASSUME f2d' # None PROVE d2r' # None
    OBVIOUS
  <2>1. ~D2rReady
    BY <1>1 DEF F2d!SkidEdge
  <2> QED BY <1>1, <2>1 DEF D2r!SkidEdge, D2rReady, D2r!SkidReady
<1>3. req_pc' # None => rdata' # None /\ f_out' = None
  <2> SUFFICES ASSUME req_pc' # None PROVE rdata' # None /\ f_out' = None
    OBVIOUS
  <2>1. ~Captured /\ IcacheEn
    BY <1>1 DEF FetchEdge, Captured, FrontBasics
  <2>2. imem[pc_q] \in Insn
    BY DEF TypeOK, FetchTypeOK
  <2> QED BY <1>1, <2>1, <2>2, RegistersNoneAssumption DEF FetchEdge, IcacheEdge, IcacheEn
<1>4. d2r' # None => (d2r'.rd_used /\ d2r'.fu_type = "LSU" => d2r'.is_load)
  BY <1>1, DecodedLoads DEF D2r!SkidEdge, FrontBasics
<1> QED BY <1>2, <1>3, <1>4 DEF FrontBasics

\* When rename may send on what it makes, the front goes round: an instruction is
\* asked for, fetched, and renamed at once or held.
FrontMoves ==
  /\ RFire <=> RenameOut # None
  /\ G1 => IF RFire THEN F1' ELSE G2'
  /\ G2 => IF RFire THEN F2' \/ F3' ELSE G1' \/ G2'
  /\ F1 => IF RFire THEN F3' ELSE G2'
  /\ F2 => ~RFire /\ F1'
  /\ F3 => ~RFire /\ F2'

LEMMA FrontAfter ==
  ASSUME TypeOK, FrontBasics, r2d_skid = None, Cycle
  PROVE  FrontMoves
<1>1. /\ FetchEdge(F2dReady) /\ F2d!SkidEdge(f_out, D2rReady)
      /\ D2r!SkidEdge(Decoded, RenameReady)
  BY DEF Cycle
<1>2. R2dReady
  BY DEF R2dReady, R2d!SkidReady
<1>3. RFire <=> RenameOut # None
  <2>1. RFire <=> RenameIn # None /\ CanRename(RenameIn, TagOk)
    BY <1>2 DEF RFire, RenameFire
  <2>2. RFire => RenameOut # None
    <3>1. RFire => RenameIn \in DecodePkt /\ TagTypeOK /\ FreeTypeOK /\ MapTypeOK
      BY <2>1, WireTypes DEF WiresOK, TypeOK
    <3>2. RFire => Renamed(RenameIn, FreeTag, valid_bits) \in RenamePkt
      BY <3>1, FreeTagIs, RenamedType
    <3> QED BY <2>1, <3>2, NoneAssumption DEF RenameOut
  <2>3. RenameOut # None => RFire
    BY <2>1 DEF RenameOut
  <2> QED BY <2>2, <2>3
<1>4. RenameReady <=> RenameIn = None \/ RFire
  BY <1>2 DEF RenameReady, RFire, RenameFire
<1>5. d2r # None => /\ RenameIn # None
                    /\ d2r' = IF RFire THEN None ELSE d2r
                    /\ RFire => D2rReady /\ F2dReady
  BY <1>1, <1>4 DEF RenameIn, D2r!SkidOut, D2r!SkidEdge, D2rReady, D2r!SkidReady,
                    F2dReady, F2d!SkidReady
<1>6. d2r = None => /\ f2d = None /\ F2dReady
                    /\ RenameIn # None <=> f_out # None
                    /\ d2r' # None <=> f_out # None /\ ~RFire
  <2> SUFFICES ASSUME d2r = None
               PROVE  /\ f2d = None /\ F2dReady
                      /\ RenameIn # None <=> f_out # None
                      /\ d2r' # None <=> f_out # None /\ ~RFire
    OBVIOUS
  <2>1. f2d = None /\ F2dReady
    BY DEF FrontBasics, D2rReady, D2r!SkidReady, F2dReady, F2d!SkidReady
  <2>2. RenameIn = Decoded /\ Fetched = f_out
    BY <2>1 DEF RenameIn, D2r!SkidOut, Fetched, F2d!SkidOut
  <2>3. RenameIn # None <=> f_out # None
    BY <2>2, DecodedLoads
  <2>4. d2r' = IF RenameReady THEN None ELSE Decoded
    BY <1>1 DEF D2r!SkidEdge
  <2> QED BY <1>4, <2>1, <2>2, <2>3, <2>4
<1>7. RFire => RenameIn # None
  BY DEF RFire, RenameFire
<1>8. req_pc # None => f_out = None /\ f_out' # None /\ req_pc' = None
  <2> SUFFICES ASSUME req_pc # None PROVE f_out = None /\ f_out' # None /\ req_pc' = None
    OBVIOUS
  <2>1. f_out = None /\ Captured
    BY DEF FrontBasics, Captured
  <2>2. [pc |-> req_pc, instr |-> rdata] \in FetchPkt
    BY <2>1 DEF TypeOK, FetchTypeOK, FetchPkt, Captured
  <2> QED BY <1>1, <2>1, <2>2, RegistersNoneAssumption DEF FetchEdge
<1>9. req_pc = None => /\ f_out' = IF F2dReady THEN None ELSE f_out
                       /\ req_pc' = IF f_out = None THEN pc_q ELSE None
  BY <1>1 DEF FetchEdge, Captured, IcacheEn
<1>10. pc_q # None
  BY RegistersNoneAssumption DEF TypeOK, FetchTypeOK
<1>11. G1 => IF RFire THEN F1' ELSE G2'
  BY <1>5, <1>8 DEF G1, F1, G2
<1>12. G2 => IF RFire THEN F2' \/ F3' ELSE G1' \/ G2'
  BY <1>5, <1>9 DEF G1, G2, F2, F3
<1>13. F1 => IF RFire THEN F3' ELSE G2'
  BY <1>6, <1>8, <1>9 DEF F1, F3, G2
<1>14. F2 => ~RFire /\ F1'
  BY <1>6, <1>7, <1>8 DEF F1, F2
<1>15. F3 => ~RFire /\ F2'
  BY <1>6, <1>7, <1>9, <1>10 DEF F2, F3
<1> QED BY <1>3, <1>11, <1>12, <1>13, <1>14, <1>15 DEF FrontMoves

-----------------------------------------------------------------------------
LEMMA PacketBasicsRun ==
  ASSUME CoreInv, Basics, Cycle
  PROVE  PacketBasics'
<1> USE DEF CoreInv, Basics
<1>1. /\ TypeOK' /\ St \subseteq RenamePkt
      /\ storage \in RenamePkt \cup {None} /\ r2d_skid \in RenamePkt \cup {None}
  BY CoreStep, Places DEF Next, TypeOK, Fifo!FifoTypeOK, R2d!SkidTypeOK
<1>2. \A fu : /\ Insert(fu) \in RenamePkt \cup {None}
              /\ Insert(fu) # None => Insert(fu).d.fu_type = fu
  BY WireTypes DEF WiresOK, Insert
<1>3. \A k \in RsIndex : rs_alu'[k] # None => rs_alu'[k].d.fu_type = "ALU"
  <2>1. PICK in, sel : Moves(rs_alu, rs_alu', Insert("ALU"), IssAlu, in, sel, KnownSet, Wakeups)
    BY StationMoves
  <2>2. \A k \in RsIndex : rs_alu[k] # None => rs_alu[k].d.fu_type = "ALU" /\ rs_alu[k] \in RenamePkt
    BY <1>1, Places DEF PacketBasics
  <2>3. \A e \in RenamePkt : \A M : RsAlu!Wake(e, M).d = e.d
    BY WakeIs DEF SameInsn
  <2> QED BY <1>2, <2>1, <2>2, <2>3, MovesIs
<1>4. \A k \in RsIndex : rs_bru'[k] # None => rs_bru'[k].d.fu_type = "BRU"
  <2>1. PICK in, sel : Moves(rs_bru, rs_bru', Insert("BRU"), IssBru, in, sel, KnownSet, Wakeups)
    BY StationMoves
  <2>2. \A k \in RsIndex : rs_bru[k] # None => rs_bru[k].d.fu_type = "BRU" /\ rs_bru[k] \in RenamePkt
    BY <1>1, Places DEF PacketBasics
  <2>3. \A e \in RenamePkt : \A M : RsAlu!Wake(e, M).d = e.d
    BY WakeIs DEF SameInsn
  <2> QED BY <1>2, <2>1, <2>2, <2>3, MovesIs
<1>5. \A k \in RsIndex : rs_lsu'[k] # None => rs_lsu'[k].d.fu_type = "LSU"
  <2>1. PICK in, sel : Moves(rs_lsu, rs_lsu', Insert("LSU"), IssLsu, in, sel, KnownSet, Wakeups)
    BY StationMoves
  <2>2. \A k \in RsIndex : rs_lsu[k] # None => rs_lsu[k].d.fu_type = "LSU" /\ rs_lsu[k] \in RenamePkt
    BY <1>1, Places DEF PacketBasics
  <2>3. \A e \in RenamePkt : \A M : RsAlu!Wake(e, M).d = e.d
    BY WakeIs DEF SameInsn
  <2> QED BY <1>2, <2>1, <2>2, <2>3, MovesIs
<1>6. \A e \in St' : LoadsOnly(e)
  <2>1. storage # None => LoadsOnly(storage) /\ storage \in RenamePkt
    BY <1>1 DEF PacketBasics
  <2>2. DispatchFire => storage # None
    BY DEF DispatchFire
  <2>3. \A e \in St : LoadsOnly(e) /\ e \in RenamePkt
    BY <1>1 DEF PacketBasics
  <2> QED BY <2>1, <2>2, <2>3, StationsAfter, LoadsWoken
<1>7. /\ storage' # None => LoadsOnly(storage')
      /\ r2d_skid' # None => LoadsOnly(r2d_skid')
  <2>1. RenameOut # None => LoadsOnly(RenameOut)
    BY DecodedLoads
  <2> QED BY <2>1, BuffersAfter DEF PacketBasics, Go
<1> QED BY <1>3, <1>4, <1>5, <1>6, <1>7 DEF PacketBasics, LoadsOnly

LEMMA BasicsRun ==
  ASSUME CoreInv, Basics, Cycle
  PROVE  Basics'
BY FrontBasicsRun, UnitBasicsRun, PacketBasicsRun DEF Basics, CoreInv

\* A flush empties the front, the stations and the units.
LEMMA EmptyAfterFlush ==
  ASSUME CoreInv, Recover
  PROVE  /\ St' = {} /\ storage' = None /\ r2d_skid' = None
         /\ hold_alu' = None /\ hold_bru' = None /\ hold_lsu' = None
         /\ f2d' = None /\ d2r' = None /\ f_out' = None /\ req_pc' = None
         /\ alu_q' = None /\ bru_q' = None /\ m0' = None /\ m1' = None
         /\ redirect' = None /\ block_cnt' = 2
         /\ \A k \in RsIndex : rs_alu'[k] = None /\ rs_bru'[k] = None /\ rs_lsu'[k] = None
<1>1. \A k \in RsIndex : rs_alu'[k] = None /\ rs_bru'[k] = None /\ rs_lsu'[k] = None
  BY DEF Recover, RsAlu!RsFlush, RsBru!RsFlush, RsLsu!RsFlush,
         RsAlu!Index, RsBru!Index, RsLsu!Index, RsIndex
<1>2. St' = {}
  BY <1>1 DEF St, Stations, RsIndex
<1>3. /\ storage' = None /\ r2d_skid' = None /\ f2d' = None /\ d2r' = None
      /\ hold_alu' = None /\ hold_bru' = None /\ hold_lsu' = None
      /\ f_out' = None /\ req_pc' = None
  BY DEF Recover, RsAlu!RsFlush, RsBru!RsFlush, RsLsu!RsFlush, F2d!SkidFlush, D2r!SkidFlush,
         R2d!SkidFlush, Fifo!FifoFlush, FetchFlush
<1>4. /\ alu_q' = None /\ bru_q' = None /\ m0' = None /\ m1' = None /\ block_cnt' = 2
  BY DEF Recover, EveryEdge, AluEdge, BruEdge, LsuEdge, DmemEn, AllowIssue
<1>5. redirect' = None
  BY DEF Recover, EveryEdge, RecoveryEdge, CoreInv, RedirectOK
<1> QED BY <1>1, <1>2, <1>3, <1>4, <1>5

LEMMA BasicsRecover ==
  ASSUME CoreInv, Recover
  PROVE  Basics'
BY EmptyAfterFlush DEF Basics, FrontBasics, UnitBasics, PacketBasics

-----------------------------------------------------------------------------
(***************************************************************************)
(* The window of the ROB and the ages in it.                               *)
(***************************************************************************)
WindowIs(n) ==
  /\ n <= count
  /\ count <= ROB_DEPTH
  /\ \A i \in Slot : entries[i].valid <=> Dist(head, i) < n
  /\ IF n = ROB_DEPTH THEN tail = head ELSE Dist(head, tail) = n

LEMMA SameWindow ==
  ASSUME NEW n
  PROVE  /\ TP!WindowOf(n) <=> WindowIs(n)
         /\ TP!WindowOf(n)' <=> WindowIs(n)'
BY Zenon DEF TP!WindowOf, WindowIs, TP!Slot, Slot, TP!Dist, Dist

\* Tags and ages determine each other.
LEMMA Ages ==
  ASSUME CoreInv, NEW n \in 0 .. ROB_DEPTH, WindowIs(n)
  PROVE  /\ \A t, a : AgeIs(t, a) => a \in 0 .. n - 1
         /\ \A t, a, b : AgeIs(t, a) /\ AgeIs(t, b) => a = b
         /\ \A t, u, a : AgeIs(t, a) /\ AgeIs(u, a) => t = u
         /\ \A t \in LiveTags : \E a : AgeIs(t, a)
         /\ \A t, a : AgeIs(t, a) => t \in LiveTags
<1>1. head \in Slot /\ TP!TagsUnique
  BY DEF CoreInv, TypeOK, RobTypeOK, TP!Inv
<1>2. \A i, j \in Slot :
        entries[i].valid /\ entries[j].valid /\ entries[i].tag = entries[j].tag => i = j
  BY <1>1 DEF TP!TagsUnique, TP!ValidSlots, TP!Slot, Slot
<1>3. \A i, j \in Slot : Dist(head, i) = Dist(head, j) => i = j
  BY <1>1, RobDepthAssumption DEF Slot, Dist
<1>4. \A i \in Slot : Dist(head, i) \in 0 .. ROB_DEPTH - 1
  BY <1>1, DistFacts
<1>5. \A t, a : AgeIs(t, a) => a \in 0 .. n - 1
  BY <1>4 DEF AgeIs, WindowIs
<1>6. \A t, a, b : AgeIs(t, a) /\ AgeIs(t, b) => a = b
  BY <1>2 DEF AgeIs
<1>7. \A t, u, a : AgeIs(t, a) /\ AgeIs(u, a) => t = u
  BY <1>3 DEF AgeIs
<1>8. \A t \in LiveTags : \E a : AgeIs(t, a)
  BY DEF AgeIs, LiveTags
<1>9. \A t, a : AgeIs(t, a) => t \in LiveTags
  BY DEF AgeIs, LiveTags
<1> QED BY <1>5, <1>6, <1>7, <1>8, <1>9

\* The oldest instruction.
LEMMA Oldest ==
  ASSUME CoreInv, NEW n \in 0 .. ROB_DEPTH, WindowIs(n)
  PROVE  /\ n > 0 => entries[head].valid /\ AgeIs(entries[head].tag, 0)
         /\ n > 0 /\ entries[head].done => CommitFire
         /\ n > 0 /\ ~entries[head].done => entries[head].tag \in Running
         /\ CommitFire => n > 0 /\ entries[head].done
         /\ \A t \in Running : AgeIs(t, 0) => ~CommitFire
<1>0. head \in Slot /\ count \in Count
  BY DEF CoreInv, TypeOK, RobTypeOK
<1>1. head \in Slot /\ Dist(head, head) = 0 /\ count \in Int
  <2>1. Dist(head, head) = 0
    BY <1>0, DistFacts
  <2>2. count \in Int
    BY <1>0 DEF Count
  <2> QED BY <1>0, <2>1, <2>2
<1>2. n > 0 => entries[head].valid /\ AgeIs(entries[head].tag, 0)
  BY <1>1 DEF WindowIs, AgeIs
<1>3. n > 0 /\ entries[head].done => CommitFire
  BY <1>1, <1>2 DEF WindowIs, CommitFire
<1>4. n > 0 /\ ~entries[head].done => entries[head].tag \in Running
  BY <1>1, <1>2 DEF Running
<1>5. CommitFire => n > 0 /\ entries[head].done
  BY <1>1 DEF WindowIs, CommitFire
<1>6. ASSUME NEW t \in Running, AgeIs(t, 0), CommitFire PROVE FALSE
  <2>1. PICK i \in Slot : entries[i].valid /\ ~entries[i].done /\ entries[i].tag = t
    BY <1>6 DEF Running
  <2>2. PICK j \in Slot : entries[j].valid /\ entries[j].tag = t /\ Dist(head, j) = 0
    BY <1>6 DEF AgeIs
  <2>3. i = j
    <3>1. AgeIs(t, Dist(head, i)) /\ Dist(head, i) \in Int
      BY <1>1, <2>1, DistFacts DEF AgeIs
    <3>2. Dist(head, i) = 0
      BY <1>6, <3>1, Ages
    <3> QED BY <1>1, <2>2, <3>2, DistFacts
  <2>4. j = head
    BY <1>1, <2>2, DistFacts
  <2> QED BY <1>6, <2>1, <2>3, <2>4 DEF CommitFire
<1> QED BY <1>2, <1>3, <1>4, <1>5, <1>6

-----------------------------------------------------------------------------
(***************************************************************************)
(* What an edge without a flush does to the ROB.                           *)
(***************************************************************************)
Left  == IF CommitFire THEN 1 ELSE 0
Added == IF DispatchFire THEN 1 ELSE 0

LEMMA AgeNext ==
  ASSUME NEW t, NEW b
  PROVE  AgeIs(t, b)' <=> \E i \in Slot : /\ entries'[i].valid /\ entries'[i].tag = t
                                          /\ Dist(head', i) = b
BY DEF AgeIs, Slot, Dist

LEMMA AgesRun ==
  ASSUME CoreInv, Cycle, NEW n \in 0 .. ROB_DEPTH, WindowIs(n)
  PROVE  /\ \A t, a : \A b \in Nat : AgeIs(t, a) /\ b = a - Left => AgeIs(t, b)'
         /\ DispatchFire => \A t, b : t = storage.rob_tag /\ b = n - Left => AgeIs(t, b)'
         /\ \A t, b : AgeIs(t, b)' =>
              \/ DispatchFire /\ t = storage.rob_tag /\ b = n - Left
              \/ \E a : AgeIs(t, a) /\ b = a - Left
<1> USE DEF CoreInv
<1>1. /\ RobEdge(FALSE, 0, Take, FreeTag, DispatchFire, storage, WbTags)
      /\ DispatchFire \in BOOLEAN /\ RobTypeOK /\ head \in Slot /\ tail \in Slot
  BY WireTypes DEF Cycle, WiresOK, TypeOK, RobTypeOK
<1>2. \A i \in Slot : EntryAfterEdge(i, FALSE, 0, DispatchFire, storage, WbTags)
  BY <1>1, EntriesAfter
<1>3. DispatchFire <=> AllocFire(DispatchFire)
  BY <1>1 DEF AllocFire, DispatchFire
<1>4. /\ DispatchFire => n < ROB_DEPTH /\ Dist(head, tail) = n
      /\ CommitFire => n > 0
  <2>1. CommitFire => n > 0
    BY Oldest
  <2>2. count \in Int
    BY DEF TypeOK, RobTypeOK, Count
  <2>3. DispatchFire => n < ROB_DEPTH
    BY <2>2, RobDepthAssumption DEF DispatchFire, RobReady, WindowIs
  <2> QED BY <2>1, <2>3 DEF WindowIs
<1>5. head' = IF CommitFire THEN Inc(head) ELSE head
  BY <1>1 DEF RobEdge
<1>6. \A i \in Slot : i # head \/ ~CommitFire =>
        Dist(head', i) = Dist(head, i) - Left
  BY <1>1, <1>5, DistFacts DEF Left
<1>7. \A i \in Slot : /\ Dist(head, i) \in 0 .. ROB_DEPTH - 1
                      /\ Dist(head, i) = 0 <=> i = head
  BY <1>1, DistFacts
<1>8. DispatchFire => ~entries[tail].valid /\ (CommitFire => tail # head)
  BY <1>1, <1>4, <1>7 DEF WindowIs
<1>9. ASSUME NEW t, NEW a, NEW b \in Nat, AgeIs(t, a), b = a - Left
      PROVE  AgeIs(t, b)'
  <2>1. PICK i \in Slot : entries[i].valid /\ entries[i].tag = t /\ Dist(head, i) = a
    BY <1>9 DEF AgeIs
  <2>2. ~(DispatchFire /\ i = tail) /\ ~(CommitFire /\ i = head)
    BY <1>7, <1>8, <1>9, <2>1 DEF Left
  <2>3. entries'[i].valid /\ entries'[i].tag = t
    BY <1>2, <1>3, <2>1, <2>2 DEF EntryAfterEdge
  <2>4. Dist(head', i) = b
    BY <1>6, <1>9, <2>1, <2>2
  <2> QED BY <2>3, <2>4, AgeNext
<1>10. ASSUME DispatchFire, NEW t, t = storage.rob_tag, NEW b, b = n - Left
       PROVE  AgeIs(t, b)'
  <2>1. entries'[tail].valid /\ entries'[tail].tag = storage.rob_tag
    BY <1>1, <1>2, <1>3, <1>10 DEF EntryAfterEdge
  <2>2. Dist(head', tail) = b
    BY <1>1, <1>4, <1>6, <1>8, <1>10
  <2> QED BY <1>1, <1>10, <2>1, <2>2, AgeNext
<1>11. ASSUME NEW t, NEW b, AgeIs(t, b)'
       PROVE  \/ DispatchFire /\ t = storage.rob_tag /\ b = n - Left
              \/ \E a : AgeIs(t, a) /\ b = a - Left
  <2>1. PICK i \in Slot : entries'[i].valid /\ entries'[i].tag = t /\ Dist(head', i) = b
    BY <1>11, AgeNext
  <2>2. CASE DispatchFire /\ i = tail
    <3>1. t = storage.rob_tag
      BY <1>2, <1>3, <2>1, <2>2 DEF EntryAfterEdge
    <3>2. b = n - Left
      BY <1>4, <1>6, <1>8, <2>1, <2>2
    <3> QED BY <2>2, <3>1, <3>2
  <2>3. CASE ~(DispatchFire /\ i = tail)
    <3>1. entries[i].valid /\ ~(CommitFire /\ i = head) /\ entries[i].tag = t
      BY <1>2, <1>3, <2>1, <2>3 DEF EntryAfterEdge
    <3>2. b = Dist(head, i) - Left
      BY <1>6, <2>1, <3>1
    <3> QED BY <3>1, <3>2 DEF AgeIs
  <2> QED BY <2>2, <2>3
<1>12. DispatchFire => \A t, b : t = storage.rob_tag /\ b = n - Left => AgeIs(t, b)'
  BY <1>10
<1>13. \A t, a : \A b \in Nat : AgeIs(t, a) /\ b = a - Left => AgeIs(t, b)'
  BY <1>9
<1>14. \A t, b : AgeIs(t, b)' =>
              \/ DispatchFire /\ t = storage.rob_tag /\ b = n - Left
              \/ \E a : AgeIs(t, a) /\ b = a - Left
  BY <1>11
<1> QED BY <1>12, <1>13, <1>14

LEMMA DistOnto ==
  ASSUME NEW h \in Slot, NEW a \in 0 .. ROB_DEPTH - 1
  PROVE  \E i \in Slot : Dist(h, i) = a
<1>1. CASE h + a < ROB_DEPTH
  <2>1. h + a \in Slot /\ Dist(h, h + a) = a
    BY <1>1, RobDepthAssumption DEF Slot, Dist
  <2> QED BY <2>1
<1>2. CASE h + a >= ROB_DEPTH
  <2>1. h + a - ROB_DEPTH \in Slot /\ Dist(h, h + a - ROB_DEPTH) = a
    BY <1>2, RobDepthAssumption DEF Slot, Dist
  <2> QED BY <2>1
<1> QED BY <1>1, <1>2, RobDepthAssumption DEF Slot

LEMMA WindowRun ==
  ASSUME CoreInv, Cycle, NEW n \in 0 .. ROB_DEPTH, WindowIs(n), NEW m, m = n - Left + Added
  PROVE  /\ m \in 0 .. ROB_DEPTH /\ WindowIs(m)'
         /\ count' = count - Left + Added
         /\ DispatchFire => n < ROB_DEPTH /\ count < ROB_DEPTH
         /\ CommitFire => n > 0
<1>1. CoreInv' /\ CoreInv
  BY CoreStep DEF Next
<1>2. /\ RobTypeOK /\ RobTypeOK' /\ TP!Window'
      /\ RobEdge(FALSE, 0, Take, FreeTag, DispatchFire, storage, WbTags)
  BY <1>1 DEF CoreInv, TypeOK, TP!Inv, Cycle
<1>3. /\ count \in 0 .. 2 * ROB_DEPTH - 1 /\ ROB_DEPTH \in Nat /\ ROB_DEPTH >= 2
      /\ head \in Slot /\ head' \in Slot
  BY <1>2, RobDepthAssumption DEF RobTypeOK, Count, Slot
<1>4. /\ CommitFire => n > 0
      /\ DispatchFire => count < ROB_DEPTH /\ n < ROB_DEPTH
  <2>1. CommitFire => n > 0
    BY Oldest
  <2> QED BY <1>3, <2>1 DEF DispatchFire, RobReady, WindowIs
<1>5. m \in 0 .. ROB_DEPTH
  BY <1>3, <1>4 DEF Left, Added
<1>6. PICK k \in 0 .. ROB_DEPTH : WindowIs(k)'
  BY <1>2, SameWindow DEF TP!Window
<1>7. \A i \in Slot : entries'[i].valid <=> Dist(head', i) < k
  BY <1>6 DEF WindowIs, Slot, Dist
<1>8. ~(k < m)
  <2> SUFFICES ASSUME k < m PROVE FALSE
    OBVIOUS
  <2>1. \E t : AgeIs(t, k)'
    <3>1. CASE k + Left < n
      <4>1. PICK i \in Slot : Dist(head, i) = k + Left
        BY <1>3, <3>1, DistOnto DEF Left
      <4>2. entries[i].valid
        BY <3>1, <4>1 DEF WindowIs
      <4>3. PICK t, a : AgeIs(t, a) /\ a = k + Left
        BY <4>1, <4>2 DEF AgeIs
      <4>4. k \in Nat /\ k = a - Left
        BY <4>3 DEF Left
      <4> QED BY <4>3, <4>4, AgesRun
    <3>2. CASE k + Left >= n
      <4>1. DispatchFire /\ k = n - Left
        BY <1>3, <3>2 DEF Left, Added
      <4> QED BY <4>1, AgesRun
    <3> QED BY <1>3, <3>1, <3>2 DEF Left
  <2>2. PICK i \in Slot : entries'[i].valid /\ Dist(head', i) = k
    BY <2>1, AgeNext
  <2> QED BY <1>7, <2>2
<1>9. ~(m < k)
  <2> SUFFICES ASSUME m < k PROVE FALSE
    OBVIOUS
  <2>1. PICK i \in Slot : Dist(head', i) = m
    BY <1>3, <1>5, DistOnto
  <2>2. \E t : AgeIs(t, m)'
    BY <1>7, <2>1, AgeNext
  <2>3. PICK t, a : \/ AgeIs(t, a) /\ m = a - Left
                    \/ DispatchFire /\ m = n - Left
    BY <2>2, AgesRun
  <2>4. AgeIs(t, a) => a \in 0 .. n - 1
    BY <1>1, Ages
  <2> QED BY <1>3, <2>3, <2>4 DEF Left, Added
<1>10. WindowIs(m)'
  BY <1>5, <1>6, <1>8, <1>9
<1>11. count' = count - Left + Added
  <2>1. DispatchFire <=> AllocFire(DispatchFire)
    BY DEF AllocFire, DispatchFire
  <2>2. count' = IF AllocFire(DispatchFire) /\ ~CommitFire THEN CountInc(count)
                 ELSE IF CommitFire /\ ~AllocFire(DispatchFire) THEN CountDec(count)
                 ELSE count
    BY <1>2 DEF RobEdge, NextCount
  <2>3. DispatchFire => CountInc(count) = count + 1
    BY <1>3, <1>4 DEF CountInc
  <2>4. CommitFire => CountDec(count) = count - 1
    BY <1>3 DEF CountDec, CommitFire
  <2> QED BY <1>3, <2>1, <2>2, <2>3, <2>4 DEF Left, Added
<1> QED BY <1>4, <1>5, <1>10, <1>11

\* What has no result after the edge.
LEMMA RunningWas ==
  ASSUME CoreInv, Cycle, NEW t \in Running'
  PROVE  \/ DispatchFire /\ t = storage.rob_tag
         \/ t \in Running /\ t \notin WbTags
<1> USE DEF CoreInv
<1>1. /\ RobEdge(FALSE, 0, Take, FreeTag, DispatchFire, storage, WbTags)
      /\ DispatchFire \in BOOLEAN /\ RobTypeOK
  BY WireTypes DEF Cycle, WiresOK, TypeOK
<1>2. \A i \in Slot : EntryAfterEdge(i, FALSE, 0, DispatchFire, storage, WbTags)
  BY <1>1, EntriesAfter
<1>3. PICK i \in Slot : entries'[i].valid /\ ~entries'[i].done /\ entries'[i].tag = t
  BY DEF Running, Slot
<1>4. DispatchFire <=> AllocFire(DispatchFire)
  BY <1>1 DEF AllocFire, DispatchFire
<1>5. CASE DispatchFire /\ i = tail
  BY <1>2, <1>3, <1>4, <1>5 DEF EntryAfterEdge
<1>6. CASE ~(DispatchFire /\ i = tail)
  BY <1>2, <1>3, <1>4, <1>6 DEF EntryAfterEdge, Running
<1> QED BY <1>5, <1>6

\* The branches in the ROB after the edge.
LEMMA BranchIs ==
  ASSUME CoreInv, Cycle, NEW t \in Branches'
  PROVE  /\ t \in Tag
         /\ IF DispatchFire /\ t = storage.rob_tag THEN storage.is_branch
            ELSE t \in Branches
<1> USE DEF CoreInv
<1>1. Branches' = (IF DispatchFire /\ storage.is_branch
                  THEN Branches \cup {storage.rob_tag} ELSE Branches) \cap LiveTags'
  BY BranchesAfter
<1>2. LiveTags' \subseteq Tag
  BY LiveStepRun DEF LiveStep
<1>3. storage # None => storage.rob_tag \notin Branches
  BY StorageTagFresh DEF TP!Inv, Branches
<1>4. DispatchFire => storage # None
  BY DEF DispatchFire
<1> QED BY <1>1, <1>2, <1>3, <1>4

LEMMA SnapRun ==
  ASSUME CoreInv, Cycle, NEW n \in 0 .. ROB_DEPTH, WindowIs(n), Snap(n),
         NEW m, m = n - Left + Added
  PROVE  Snap(m)' /\ (Room(m)' => Room(n))
<1>1. /\ RobTypeOK /\ ROB_DEPTH \in Nat /\ ROB_DEPTH >= 2 /\ count \in 0 .. 2 * ROB_DEPTH - 1
      /\ m \in 0 .. ROB_DEPTH /\ count' = count - Left + Added
      /\ DispatchFire => count < ROB_DEPTH
  BY WindowRun, RobDepthAssumption DEF CoreInv, TypeOK, RobTypeOK, Count
<1>2. /\ ckpt_ptrs' = IF Snapshots(DispatchFire, storage)
                     THEN [ckpt_ptrs EXCEPT ![storage.rob_tag] =
                             [tail |-> Inc(tail), count |-> CountInc(count)]]
                     ELSE ckpt_ptrs
  BY DEF Cycle, RobEdge
<1>3. Room(m)' => Room(n)
  BY <1>1 DEF Room, Left, Added
<1>4. ASSUME NEW t \in Branches', AgeIs(t, m - 1)'
      PROVE  count' <= ckpt_ptrs'[t].count
  <2>1. CASE DispatchFire
    <3>1. t = storage.rob_tag
      <4>1. PICK b : b = m - 1 /\ AgeIs(t, b)'
        BY <1>4
      <4>2. b = n - Left
        BY <1>1, <2>1, <4>1 DEF Left, Added
      <4>3. \A a : AgeIs(t, a) => b # a - Left
        BY <4>2, Ages DEF Left
      <4> QED BY <4>1, <4>2, <4>3, AgesRun
    <3>2. storage.is_branch /\ storage # None /\ storage \in RenamePkt
      BY <1>4, <2>1, <3>1, BranchIs DEF DispatchFire, CoreInv, TypeOK, Fifo!FifoTypeOK
    <3>3. TagPacket(storage) \in TP!Buffered /\ TagPacket(storage).is_branch
          /\ TagPacket(storage).rob_tag = storage.rob_tag
      BY <3>2, TagPackets DEF TP!Buffered
    <3>4. storage.rob_tag \in ckpt_pending
      BY <3>3 DEF CoreInv, TP!Inv, TP!SnapshotsCoverBranches
    <3>5. Snapshots(DispatchFire, storage)
      BY <2>1, <3>4 DEF Snapshots, AllocFire, DispatchFire
    <3>6. storage.rob_tag \in Tag /\ ckpt_ptrs \in [Tag -> Snapshot]
      BY <1>1, <3>2 DEF RenamePkt, RobTypeOK
    <3>7. ckpt_ptrs'[t].count = CountInc(count)
      BY <1>2, <3>1, <3>5, <3>6
    <3>8. CountInc(count) = count + 1
      BY <1>1, <2>1 DEF CountInc
    <3> QED BY <1>1, <2>1, <3>7, <3>8 DEF Left, Added
  <2>2. CASE ~DispatchFire
    <3>1. ckpt_ptrs' = ckpt_ptrs
      BY <1>2, <2>2 DEF Snapshots, AllocFire
    <3>2. t \in Branches
      BY <1>4, <2>2, BranchIs
    <3>3. AgeIs(t, n - 1)
      <4>1. PICK b : b = m - 1 /\ AgeIs(t, b)'
        BY <1>4
      <4>2. PICK a : AgeIs(t, a) /\ b = a - Left
        BY <2>2, <4>1, AgesRun
      <4>3. a = n - 1
        <5>1. a \in 0 .. n - 1
          BY <4>2, Ages
        <5> QED BY <1>1, <2>2, <4>1, <4>2, <5>1 DEF Left, Added
      <4> QED BY <4>2, <4>3
    <3>4. count <= ckpt_ptrs[t].count
      BY <3>2, <3>3 DEF Snap
    <3>5. t \in Tag /\ ckpt_ptrs[t].count \in Int
      BY <1>1, <1>4, BranchIs DEF RobTypeOK, Snapshot, Count
    <3> QED BY <1>1, <2>2, <3>1, <3>4, <3>5 DEF Left, Added
  <2> QED BY <2>1, <2>2
<1>5. Snap(m)'
  BY <1>4 DEF Snap
<1> QED BY <1>3, <1>5

-----------------------------------------------------------------------------
(***************************************************************************)
(* The edge without a flush of a core at its pace.                         *)
(***************************************************************************)
Paced(n) ==
  /\ CoreInv /\ RegsInv /\ Basics /\ Blocked /\ Located
  /\ n \in 0 .. ROB_DEPTH /\ WindowIs(n)
  /\ Room(n) /\ Pace(n)

\* With the stations empty and an entry free in the ROB, the fifo's packet leaves.
LEMMA StationFree ==
  ASSUME TypeOK, Cycle, storage # None, St = {}, count < ROB_DEPTH
  PROVE  DispatchFire
<1>1. 0 \in RsIndex
  BY RsDepthAssumption DEF RsIndex
<1>2. rs_alu[0] = None /\ rs_bru[0] = None /\ rs_lsu[0] = None
  BY <1>1, Places
<1>3. RsAlu!RsReady /\ RsBru!RsReady /\ RsLsu!RsReady
  <2>1. 0 \in RsAlu!FreeSlots /\ 0 \in RsBru!FreeSlots /\ 0 \in RsLsu!FreeSlots
    BY <1>1, <1>2 DEF RsAlu!FreeSlots, RsBru!FreeSlots, RsLsu!FreeSlots,
                      RsAlu!Index, RsBru!Index, RsLsu!Index, RsIndex
  <2> QED BY <2>1 DEF RsAlu!RsReady, RsBru!RsReady, RsLsu!RsReady
<1>4. storage.d.fu_type \in {"ALU", "BRU", "LSU"}
  BY DEF TypeOK, Fifo!FifoTypeOK, RenamePkt, DecodePkt, FuType
<1>5. StationReady(storage.d.fu_type)
  BY <1>3, <1>4 DEF StationReady
<1> QED BY <1>5 DEF DispatchFire, RobReady, Cycle

\* What rename and dispatch do at each point of the round.
HandOver ==
  /\ FrontMoves
  /\ G1 \/ G2 \/ F1 \/ F2 \/ F3
  /\ RFire => Go /\ (G1 \/ G2 \/ F1)
  /\ r2d_skid' = None
  /\ storage' = IF Go THEN RenameOut ELSE storage
  /\ storage # None /\ (F1 \/ F2) => DispatchFire
  /\ storage # None => F1 \/ F2 \/ F3
  /\ DispatchFire => storage # None
  /\ ~Go => F3 /\ storage # None /\ ~DispatchFire
  /\ AllReady => St \subseteq Issued
  /\ DispatchFire => St \subseteq Issued

LEMMA HandOverIs ==
  ASSUME NEW n, Paced(n), Cycle
  PROVE  HandOver
<1> USE DEF Paced
<1>1. TypeOK /\ FrontBasics /\ r2d_skid = None /\ OneAtATime /\ Shapes /\ Counts(n)
  BY DEF CoreInv, Basics, Pace, OneAtATime
<1>2. FrontMoves
  BY <1>1, FrontAfter
<1>3. G1 \/ G2 \/ F1 \/ F2 \/ F3
  BY DEF G1, G2, F1, F2, F3
<1>4. storage # None => F1 \/ F2 \/ F3
  BY <1>1, <1>3 DEF Shapes
<1>5. storage # None /\ (F1 \/ F2) => DispatchFire
  <2> SUFFICES ASSUME storage # None, F1 \/ F2 PROVE DispatchFire
    OBVIOUS
  <2>1. St = {} /\ n <= 1
    BY <1>1 DEF Shapes, Counts
  <2>2. count \in Int
    BY <1>1 DEF TypeOK, RobTypeOK, Count
  <2>3. count < ROB_DEPTH
    BY <2>1, <2>2, RobDepthAssumption DEF Room
  <2> QED BY <1>1, <2>1, <2>3, StationFree
<1>6. DispatchFire => storage # None
  BY DEF DispatchFire
<1>7. ~Go => F3 /\ storage # None /\ ~DispatchFire
  BY <1>4, <1>5 DEF Go
<1>8. RFire => Go /\ (G1 \/ G2 \/ F1)
  <2>1. RFire => G1 \/ G2 \/ F1
    BY <1>2, <1>3 DEF FrontMoves
  <2>2. ~(F3 /\ (G1 \/ G2 \/ F1))
    BY DEF G1, G2, F1, F3
  <2> QED BY <1>7, <2>1, <2>2
<1>9. /\ r2d_skid' = None
      /\ storage' = IF Go THEN RenameOut ELSE storage
  <2>1. RenameOut # None => RFire
    BY <1>2 DEF FrontMoves
  <2> QED BY <1>1, <1>8, <2>1, BuffersAfter
<1>10. AllReady => St \subseteq Issued
  BY <1>1, ReadyIssues DEF AllReady
<1>11. DispatchFire => St \subseteq Issued
  <2>1. DispatchFire => St = {} \/ AllReady
    BY <1>1, <1>4, <1>6 DEF Shapes
  <2> QED BY <1>10, <2>1
<1> QED BY <1>2, <1>3, <1>4, <1>5, <1>6, <1>7, <1>8, <1>9, <1>10, <1>11 DEF HandOver

\* At most one packet is in the stations after the edge, and no selection is held.
LEMMA OneAtATimeRun ==
  ASSUME NEW n, Paced(n), Cycle
  PROVE  OneAtATime'
<1> USE DEF Paced
<1>1. TypeOK /\ OneAtATime /\ PacketBasics /\ HandOver /\ CoreInv
  BY HandOverIs DEF CoreInv, Basics, Pace
<1>2. \A e, f \in St' : e = f
  <2>1. CASE DispatchFire
    BY <1>1, <2>1, StationsAfter DEF HandOver
  <2>2. CASE ~DispatchFire
    BY <1>1, <2>2, StationsAfter DEF OneAtATime
  <2> QED BY <2>1, <2>2
<1>3. /\ RsAlu!SelValid => \E k \in RsIndex : rs_alu[k] # None
      /\ RsBru!SelValid => \E k \in RsIndex : rs_bru[k] # None
      /\ RsLsu!SelValid => \E k \in RsIndex : rs_lsu[k] # None
  BY <1>1 DEF OneAtATime, RsAlu!SelValid, RsBru!SelValid, RsLsu!SelValid, RsAlu!ReadySlots,
         RsBru!ReadySlots, RsLsu!ReadySlots, RsAlu!Index, RsBru!Index, RsLsu!Index, RsIndex
<1>4. \A k, l \in RsIndex : /\ ~(rs_alu[k] # None /\ rs_bru[l] # None)
                           /\ ~(rs_alu[k] # None /\ rs_lsu[l] # None)
                           /\ ~(rs_bru[k] # None /\ rs_lsu[l] # None)
  <2> SUFFICES ASSUME NEW k \in RsIndex, NEW l \in RsIndex
               PROVE  /\ ~(rs_alu[k] # None /\ rs_bru[l] # None)
                      /\ ~(rs_alu[k] # None /\ rs_lsu[l] # None)
                      /\ ~(rs_bru[k] # None /\ rs_lsu[l] # None)
    OBVIOUS
  <2>1. /\ rs_alu[k] # None => rs_alu[k].d.fu_type = "ALU" /\ rs_alu[k] \in St
        /\ rs_bru[k] # None => rs_bru[k].d.fu_type = "BRU" /\ rs_bru[k] \in St
        /\ rs_bru[l] # None => rs_bru[l].d.fu_type = "BRU" /\ rs_bru[l] \in St
        /\ rs_lsu[l] # None => rs_lsu[l].d.fu_type = "LSU" /\ rs_lsu[l] \in St
    BY <1>1, Places DEF PacketBasics
  <2> QED BY <1>1, <2>1 DEF OneAtATime
<1>5. /\ RsAlu!IssueEntry # None => RsAlu!SelValid
      /\ RsBru!IssueEntry # None => RsBru!SelValid
      /\ RsLsu!IssueEntry # None => RsLsu!SelValid
  BY DEF RsAlu!IssueEntry, RsBru!IssueEntry, RsLsu!IssueEntry
<1>6. /\ RsAlu!SelValid => RsAlu!IssueEntry # None
      /\ RsBru!SelValid => RsBru!IssueEntry # None
      /\ RsLsu!SelValid => RsLsu!IssueEntry # None
  <2>1. RsAlu!ReadySlots # {} => RsAlu!Lowest(RsAlu!ReadySlots) \in RsAlu!ReadySlots
    <3>1. RsAlu!ReadySlots \subseteq RsIndex
      BY DEF RsAlu!ReadySlots, RsAlu!Index, RsIndex
    <3> QED BY <3>1, LowestIs DEF RsAlu!Lowest
  <2>2. RsBru!ReadySlots # {} => RsBru!Lowest(RsBru!ReadySlots) \in RsBru!ReadySlots
    <3>1. RsBru!ReadySlots \subseteq RsIndex
      BY DEF RsBru!ReadySlots, RsBru!Index, RsIndex
    <3> QED BY <3>1, LowestIs DEF RsBru!Lowest
  <2>3. RsLsu!ReadySlots # {} => RsLsu!Lowest(RsLsu!ReadySlots) \in RsLsu!ReadySlots
    <3>1. RsLsu!ReadySlots \subseteq RsIndex
      BY DEF RsLsu!ReadySlots, RsLsu!Index, RsIndex
    <3> QED BY <3>1, LowestIs DEF RsLsu!Lowest
  <2> QED BY <1>1, <2>1, <2>2, <2>3
          DEF OneAtATime, RsAlu!SelValid, RsBru!SelValid, RsLsu!SelValid,
              RsAlu!Sel, RsBru!Sel, RsLsu!Sel, RsAlu!ReadySlots, RsBru!ReadySlots,
              RsLsu!ReadySlots, RsAlu!IssueEntry, RsBru!IssueEntry, RsLsu!IssueEntry
<1>7. /\ RsAlu!SelValid => IssAlu # None
      /\ RsBru!SelValid => IssBru # None
      /\ RsLsu!SelValid => IssLsu # None
  BY <1>3, <1>4, <1>5, <1>6 DEF IssAlu, IssBru, IssLsu
<1>8. hold_alu' = None /\ hold_bru' = None /\ hold_lsu' = None
  <2>1. /\ RsAlu!RsEdge(Insert("ALU"), valid_bits, Wakeups, IssAlu # None)
        /\ RsBru!RsEdge(Insert("BRU"), valid_bits, Wakeups, IssBru # None)
        /\ RsLsu!RsEdge(Insert("LSU"), valid_bits, Wakeups, IssLsu # None)
    BY DEF Cycle
  <2> QED BY <1>1, <1>7, <2>1 DEF OneAtATime, RsAlu!RsEdge, RsBru!RsEdge, RsLsu!RsEdge,
             RsAlu!NextHold, RsBru!NextHold, RsLsu!NextHold
<1> QED BY <1>1, <1>2, <1>8 DEF OneAtATime, HandOver

-----------------------------------------------------------------------------
(***************************************************************************)
(* The registers that are on their way.                                    *)
(***************************************************************************)

\* The writeback busses.
LEMMA Writers ==
  ASSUME TypeOK, ~Flush
  PROVE  /\ alu_q # None => /\ WbAlu # None /\ WbAlu.rob_tag = alu_q.e.rob_tag
                            /\ WbAlu.rd_used = alu_q.e.rd_used
                            /\ alu_q.e.rd_used => WbAlu.prd = alu_q.e.prd
         /\ bru_q # None => /\ WbBru # None /\ WbBru.rob_tag = bru_q.rob_tag
                            /\ WbBru.rd_used = bru_q.rd_used /\ WbBru.prd = bru_q.prd
         /\ resp2 # None /\ m1 # None /\ block_cnt = 0 =>
              /\ WbLsu(Flush) # None /\ WbLsu(Flush).rob_tag = m1.rob_tag
              /\ m1.is_load /\ m1.rd_used =>
                   WbLsu(Flush).rd_used /\ WbLsu(Flush).prd = m1.prd
<1>1. /\ alu_q \in [e : RenamePkt, a : Word, b : Word] \cup {None}
      /\ bru_q \in [rob_tag : Tag, rd_used : BOOLEAN, prd : Preg, data : Word,
                    taken : BOOLEAN, target : Pc] \cup {None}
      /\ m1 \in Meta \cup {None} /\ resp2 \in Word \cup {None}
  BY DEF TypeOK, BruTypeOK, LsuTypeOK
<1>2. ASSUME alu_q # None
      PROVE  /\ WbAlu # None /\ WbAlu.rob_tag = alu_q.e.rob_tag
             /\ WbAlu.rd_used = alu_q.e.rd_used
             /\ alu_q.e.rd_used => WbAlu.prd = alu_q.e.prd
  <2> DEFINE x == AluResult(alu_q.e, alu_q.a, alu_q.b)
             p == IF alu_q.e.rd_used THEN alu_q.e.prd ELSE 0
             w == [rob_tag |-> alu_q.e.rob_tag, rd_used |-> alu_q.e.rd_used,
                   prd |-> p, data |-> x]
  <2>1. alu_q.e \in RenamePkt /\ x \in Word
    BY <1>1, <1>2, UnitTypes
  <2> HIDE DEF x
  <2>2. p \in Preg
    BY <2>1, DataTypes DEF RenamePkt
  <2> HIDE DEF p
  <2>3. w \in WbPkt
    BY <2>1, <2>2 DEF WbPkt, RenamePkt
  <2>4. WbAlu = w
    BY <1>2 DEF WbAlu, x, p
  <2>5. /\ w.rob_tag = alu_q.e.rob_tag /\ w.rd_used = alu_q.e.rd_used
        /\ w.prd = p
    OBVIOUS
  <2> HIDE DEF w
  <2> QED BY <2>3, <2>4, <2>5, NoneAssumption DEF p
<1>3. ASSUME bru_q # None
      PROVE  /\ WbBru # None /\ WbBru.rob_tag = bru_q.rob_tag
             /\ WbBru.rd_used = bru_q.rd_used /\ WbBru.prd = bru_q.prd
  <2> DEFINE w == [rob_tag |-> bru_q.rob_tag, rd_used |-> bru_q.rd_used,
                   prd |-> bru_q.prd, data |-> bru_q.data]
  <2>1. w \in WbPkt
    BY <1>1, <1>3 DEF WbPkt
  <2>2. WbBru = w
    BY <1>3 DEF WbBru
  <2>3. /\ w.rob_tag = bru_q.rob_tag /\ w.rd_used = bru_q.rd_used
        /\ w.prd = bru_q.prd
    OBVIOUS
  <2> HIDE DEF w
  <2> QED BY <2>1, <2>2, <2>3, NoneAssumption
<1>4. ASSUME resp2 # None, m1 # None, block_cnt = 0
      PROVE  /\ WbLsu(Flush) # None /\ WbLsu(Flush).rob_tag = m1.rob_tag
             /\ m1.is_load /\ m1.rd_used =>
                  WbLsu(Flush).rd_used /\ WbLsu(Flush).prd = m1.prd
  <2> DEFINE w == [rob_tag |-> m1.rob_tag, rd_used |-> TRUE, prd |-> m1.prd, data |-> resp2]
             v == [rob_tag |-> m1.rob_tag, rd_used |-> FALSE, prd |-> 0, data |-> 0]
  <2>1. w \in WbPkt /\ v \in WbPkt
    BY <1>1, <1>4, DataTypes DEF WbPkt, Meta
  <2>2. WbLsu(Flush) = IF m1.is_load /\ m1.rd_used THEN w ELSE v
    BY <1>4 DEF WbLsu, AllowIssue
  <2>3. /\ w.rob_tag = m1.rob_tag /\ w.rd_used /\ w.prd = m1.prd
        /\ v.rob_tag = m1.rob_tag
    OBVIOUS
  <2> HIDE DEF w, v
  <2> QED BY <2>1, <2>2, <2>3, NoneAssumption
<1> QED BY <1>2, <1>3, <1>4

\* What is written, and what is at the end of a unit has its tag on a bus.
LEMMA WritingIs ==
  ASSUME CoreInv, Basics, Blocked, Cycle
  PROVE  /\ \A p : Writing(p) => p \in Wakeups
         /\ \A t : At("alu_q", 0, t) \/ At("bru_q", 0, t) \/ At("m1", 0, t) => t \in WbTags
<1>1. /\ TypeOK /\ ~Flush /\ UnitBasics
  BY DEF CoreInv, Basics, Cycle
<1>2. m1 # None => resp2 # None /\ block_cnt = 0
  BY <1>1 DEF UnitBasics, Blocked
<1>3. \A t : At("alu_q", 0, t) \/ At("bru_q", 0, t) \/ At("m1", 0, t) => t \in WbTags
  <2> SUFFICES ASSUME NEW t, At("alu_q", 0, t) \/ At("bru_q", 0, t) \/ At("m1", 0, t)
               PROVE  t \in WbTags
    OBVIOUS
  <2>1. \/ WbAlu # None /\ WbAlu.rob_tag = t
        \/ WbBru # None /\ WbBru.rob_tag = t
        \/ WbLsu(Flush) # None /\ WbLsu(Flush).rob_tag = t
    BY <1>1, <1>2, Writers DEF At, Holds
  <2> QED BY <2>1 DEF WbTags
<1>4. ASSUME NEW p, Writing(p) PROVE p \in Wakeups
  <2>1. \/ WbAlu # None /\ WbAlu.rd_used /\ WbAlu.prd = p
        \/ WbBru # None /\ WbBru.rd_used /\ WbBru.prd = p
        \/ WbLsu(Flush) # None /\ WbLsu(Flush).rd_used /\ WbLsu(Flush).prd = p
    <3>1. CASE alu_q # None /\ alu_q.e.rd_used /\ alu_q.e.prd = p
      BY <1>1, <3>1, Writers
    <3>2. CASE bru_q # None /\ bru_q.rd_used /\ bru_q.prd = p
      BY <1>1, <3>2, Writers
    <3>3. CASE m1 # None /\ m1.rd_used /\ m1.prd = p
      BY <1>1, <1>2, <3>3, Writers DEF UnitBasics
    <3> QED BY <1>4, <3>1, <3>2, <3>3 DEF Writing
  <2>2. /\ WbAlu \in WbPkt \cup {None} /\ WbLsu(Flush) \in WbPkt \cup {None}
        /\ WbBru \in WbPkt \cup {None}
    BY <1>1, WireTypes DEF WiresOK
  <2>3. p \in Preg
    BY <2>1, <2>2 DEF WbPkt
  <2>4. p # 0
    BY <1>4 DEF Writing
  <2>5. \E wb \in {WbAlu, WbLsu(Flush), WbBru} : WbWrites(wb, p)
    BY <2>1, <2>4 DEF WbWrites
  <2> QED BY <2>3, <2>5 DEF Wakeups, Written
<1> QED BY <1>3, <1>4

\* Fresh: register p is not the one that rename takes from the free list.
Fresh(p) == ~(New /\ p = FoundPreg)

LEMMA KnownRun ==
  ASSUME NEW n, Paced(n), Cycle, NEW p
  PROVE  /\ Known(p) /\ Fresh(p) => Known(p)'
         /\ Writing(p) => Known(p)'
         /\ Loading(p) => Writing(p)'
<1>1. /\ TypeOK /\ PrfEdge(WbAlu, WbLsu(Flush), WbBru, AllocInval(RenameIn, RFire))
  BY DEF Paced, CoreInv, Cycle
<1>2. valid_bits' = ((valid_bits \ AllocInval(RenameIn, RFire)) \cup Wakeups) \cup {0}
  BY <1>1 DEF PrfEdge, Wakeups
<1>3. Fresh(p) => p \notin AllocInval(RenameIn, RFire)
  BY DEF Fresh, New, AllocInval
<1>4. Known(p) /\ Fresh(p) => Known(p)'
  BY <1>2, <1>3 DEF Known, PregReady
<1>5. Writing(p) => Known(p)'
  BY <1>2, WritingIs DEF Paced, Known, PregReady
<1>6. Loading(p) => Writing(p)'
  <2>1. m1' = m0
    BY <1>1, UnitsAfter
  <2> QED BY <2>1 DEF Loading, Writing
<1> QED BY <1>4, <1>5, <1>6

\* A packet that waits for its operands, and its register.
LEMMA WaitingRun ==
  ASSUME NEW n, Paced(n), Cycle, NEW p, p # 0, NEW e \in St, e.rd_used, e.prd = p
  PROVE  IF e \in Issued THEN Writing(p)' \/ Loading(p)' ELSE Waiting(p)'
<1> USE DEF Paced
<1>1. TypeOK /\ CoreInv /\ St \subseteq RenamePkt /\ e # None /\ block_cnt = 0
  BY Places DEF CoreInv, Blocked
<1>2. CASE e \in Issued
  <2>1. CASE e = IssAlu
    BY <1>1, <1>2, <2>1, UnitsAfter DEF Writing
  <2>2. CASE e = IssBru
    BY <1>1, <1>2, <2>2, UnitsAfter DEF Writing
  <2>3. CASE e = IssLsu
    BY <1>1, <1>2, <2>3, UnitsAfter DEF Loading
  <2> QED BY <1>2, <2>1, <2>2, <2>3 DEF Issued
<1>3. CASE e \notin Issued
  <2>1. PICK f : f = RsAlu!Wake(e, Wakeups) /\ f \in St'
    BY <1>1, <1>3, StationsAfter
  <2>2. f.rd_used /\ f.prd = p
    BY <1>1, <2>1, WakeIs
  <2> QED BY <1>3, <2>1, <2>2 DEF Waiting
<1> QED BY <1>2, <1>3

LEMMA DueRun ==
  ASSUME NEW n, Paced(n), Cycle, NEW p
  PROVE  /\ Computed(p) /\ Fresh(p) => Computed(p)'
         /\ DueIn(p) /\ Fresh(p) => DueIn(p)'
         /\ Due(p) /\ Fresh(p) => Due(p)'
         /\ Due(p) /\ Fresh(p) /\ Go => DueIn(p)'
<1> USE DEF Paced
<1>1. /\ Known(p) /\ Fresh(p) => Known(p)'
      /\ Writing(p) => Known(p)'
      /\ Loading(p) => Writing(p)'
  BY KnownRun
<1>2. Waiting(p) => Writing(p)' \/ Loading(p)' \/ Waiting(p)'
  BY WaitingRun DEF Waiting
<1>3. /\ TypeOK /\ CoreInv /\ HandOver
      /\ storage \in RenamePkt \cup {None}
  BY HandOverIs DEF CoreInv, TypeOK, Fifo!FifoTypeOK
<1>4. Queued(p) /\ Go => Waiting(p)'
  <2> SUFFICES ASSUME Queued(p), Go PROVE Waiting(p)'
    OBVIOUS
  <2>1. DispatchFire /\ storage \in RenamePkt /\ storage.rd_used /\ storage.prd = p
    BY <1>3 DEF Queued, Go
  <2>2. PICK f : f = RsAlu!Wake(storage, KnownSet) /\ f \in St'
    BY <1>3, <2>1, StationsAfter
  <2>3. f.rd_used /\ f.prd = p
    BY <2>1, <2>2, WakeIs
  <2> QED BY <2>2, <2>3 DEF Waiting, Queued
<1>5. Queued(p) /\ ~Go => Queued(p)'
  <2>1. ~Go => storage' = storage
    BY <1>3 DEF HandOver
  <2> QED BY <2>1 DEF Queued
<1>6. Computed(p) /\ Fresh(p) => Computed(p)'
  BY <1>1 DEF Computed
<1>7. DueIn(p) /\ Fresh(p) => DueIn(p)'
  BY <1>2, <1>6 DEF DueIn, Computed
<1>8. Due(p) /\ Fresh(p) /\ Go => DueIn(p)'
  BY <1>4, <1>7 DEF Due, DueIn
<1>9. Due(p) /\ Fresh(p) => Due(p)'
  BY <1>5, <1>7, <1>8 DEF Due
<1> QED BY <1>6, <1>7, <1>8, <1>9

\* What is ready of an operand after the edge.
LEMMA OperandRun ==
  ASSUME NEW n, Paced(n), Cycle, NEW p
  PROVE  /\ Writing(p) \/ Loading(p) => p \in Wakeups \/ Writing(p)'
         /\ DispatchFire /\ DueIn(p) => p \in KnownSet \/ Writing(p)' \/ Loading(p)'
         /\ DispatchFire /\ DueIn(p) /\ St = {} /\ m0 = None => p \in KnownSet
<1>1. Writing(p) \/ Loading(p) => p \in Wakeups \/ Writing(p)'
  BY KnownRun, WritingIs DEF Paced
<1>2. Known(p) => p \in KnownSet
  BY DEF Known, PregReady, KnownSet
<1>3. DispatchFire /\ Waiting(p) => Writing(p)' \/ Loading(p)'
  BY WaitingRun, HandOverIs DEF Waiting, HandOver
<1>4. DispatchFire /\ DueIn(p) => p \in KnownSet \/ Writing(p)' \/ Loading(p)'
  BY <1>1, <1>2, <1>3 DEF DueIn, Computed, KnownSet
<1>5. St = {} /\ m0 = None => ~Waiting(p) /\ ~Loading(p)
  BY DEF Waiting, Loading
<1>6. Writing(p) => p \in KnownSet
  BY WritingIs DEF Paced, KnownSet
<1> QED BY <1>1, <1>2, <1>4, <1>5, <1>6 DEF DueIn, Computed

\* What rename sends on, and where from.
LEMMA RenamedIs ==
  ASSUME NEW n, Paced(n), Cycle, RFire
  PROVE  /\ storage' = RenameOut /\ RenameOut # None /\ RenameIn \in DecodePkt
         /\ RenameOut.prs1 = rat[RenameIn.rs1] /\ RenameOut.prs2 = rat[RenameIn.rs2]
         /\ RenameIn.rs1 \in Areg /\ RenameIn.rs2 \in Areg
         /\ New => /\ RenameOut.rd_used /\ RenameOut.prd = FoundPreg /\ FoundPreg # 0
                   /\ FoundPreg \in free_map
         /\ RenameOut.rob_tag = FreeTag
         /\ RenameOut.is_branch => Take
<1>1. HandOver /\ CoreInv /\ TypeOK
  BY HandOverIs DEF Paced, CoreInv
<1>2. storage' = RenameOut /\ RenameOut # None
  BY <1>1 DEF HandOver, FrontMoves
<1>3. RenameOut = Renamed(RenameIn, FreeTag, valid_bits) /\ RenameIn \in DecodePkt
  BY <1>1, <1>2, WireTypes DEF RenameOut, WiresOK
<1>4. RenameOut.prs1 = rat[RenameIn.rs1] /\ RenameOut.prs2 = rat[RenameIn.rs2]
  BY <1>3 DEF Renamed
<1>5. RenameIn.rs1 \in Areg /\ RenameIn.rs2 \in Areg
  BY <1>3 DEF DecodePkt
<1>6. New => /\ RenameOut.rd_used /\ RenameOut.prd = FoundPreg /\ FoundPreg # 0
             /\ FoundPreg \in free_map
  <2> SUFFICES ASSUME New
               PROVE  /\ RenameOut.rd_used /\ RenameOut.prd = FoundPreg /\ FoundPreg # 0
                      /\ FoundPreg \in free_map
    OBVIOUS
  <2>1. HasFree
    BY DEF New, RFire, RenameFire, CanRename
  <2>2. FreeTypeOK
    BY <1>1 DEF TypeOK
  <2>3. FoundPreg \in free_map /\ FoundPreg >= N_ARCH_REGS
    BY <2>1, <2>2, FoundPregType
  <2>4. FoundPreg # 0
    BY <2>3, ArchRegsAssumption, PhysRegsAssumption
  <2>5. RenameOut.rd_used /\ RenameOut.prd = FoundPreg
    BY <1>3 DEF Renamed, New
  <2> QED BY <2>3, <2>4, <2>5
<1> QED BY <1>2, <1>3, <1>4, <1>5, <1>6, NewPacket

\* A register that is not free is fresh, and so is what the map names.
LEMMA MappedFresh ==
  ASSUME NEW n, Paced(n), Cycle
  PROVE  /\ \A p : p \notin free_map => Fresh(p)
         /\ \A r \in Areg : rat[r] \notin free_map /\ Fresh(rat[r])
<1>1. RFire => (New => FoundPreg \in free_map)
  BY RenamedIs
<1>2. \A p : p \notin free_map => Fresh(p)
  BY <1>1 DEF Fresh, New
<1>3. \A r \in Areg : rat[r] \notin free_map
  BY DEF Paced, RegsInv, Apart
<1> QED BY <1>2, <1>3

LEMMA AwaitedRun ==
  ASSUME NEW n, Paced(n), Cycle
  PROVE  Awaited'
<1>1. /\ HandOver /\ CoreInv /\ TypeOK /\ Awaited /\ TablesAfter
      /\ St \subseteq RenamePkt /\ storage \in RenamePkt \cup {None}
  BY HandOverIs, Places, RenameTables DEF Paced, CoreInv, Pace, TypeOK, Fifo!FifoTypeOK
<1>2. ASSUME NEW r \in Areg, NEW p, p = rat'[r]
      PROVE  Due(p)'
  <2>1. rat \in [Areg -> Preg]
    BY <1>1 DEF TypeOK, MapTypeOK
  <2>2. CASE New /\ r = RenameIn.rd
    <3>1. p = FoundPreg
      BY <1>1, <1>2, <2>1, <2>2 DEF TablesAfter
    <3>2. RFire
      BY <2>2 DEF New
    <3>3. Queued(p)'
      BY <2>2, <3>1, <3>2, RenamedIs DEF Queued
    <3> QED BY <3>3 DEF Due
  <2>3. CASE ~(New /\ r = RenameIn.rd)
    <3>1. p = rat[r]
      BY <1>1, <1>2, <2>1, <2>3 DEF TablesAfter
    <3> QED BY <1>1, <3>1, DueRun, MappedFresh DEF Awaited
  <2> QED BY <2>2, <2>3
<1>3. ASSUME NEW f \in St', NEW p, NEW q, p = f.prs1, q = f.prs2
      PROVE  /\ f.prs1_ready \/ Writing(p)' \/ Loading(p)'
             /\ f.prs2_ready \/ Writing(q)' \/ Loading(q)'
  <2>1. CASE \E e \in St : e \notin Issued /\ f = RsAlu!Wake(e, Wakeups)
    <3>1. PICK e \in St : e \notin Issued /\ f = RsAlu!Wake(e, Wakeups)
      BY <2>1
    <3>2. /\ e.prs1_ready \/ Writing(p) \/ Loading(p)
          /\ e.prs2_ready \/ Writing(q) \/ Loading(q)
          /\ f.prs1_ready <=> e.prs1_ready \/ p \in Wakeups
          /\ f.prs2_ready <=> e.prs2_ready \/ q \in Wakeups
      BY <1>1, <1>3, <3>1, WakeIs DEF Awaited
    <3> QED BY <3>2, OperandRun
  <2>2. CASE DispatchFire /\ f = RsAlu!Wake(storage, KnownSet)
    <3>1. storage # None /\ storage \in RenamePkt
      BY <1>1, <2>2 DEF HandOver
    <3>2. /\ DueIn(p) /\ DueIn(q)
          /\ f.prs1_ready <=> storage.prs1_ready \/ p \in KnownSet
          /\ f.prs2_ready <=> storage.prs2_ready \/ q \in KnownSet
      BY <1>1, <1>3, <2>2, <3>1, WakeIs DEF Awaited
    <3> QED BY <2>2, <3>2, OperandRun
  <2> QED BY <1>1, <2>1, <2>2, StationsAfter
<1>4. ASSUME storage' # None, NEW p, p = storage'.prs1 \/ p = storage'.prs2
      PROVE  DueIn(p)'
  <2>1. CASE RFire
    <3>1. Go
      BY <1>1, <2>1 DEF HandOver
    <3>2. \E r \in Areg : p = rat[r]
      BY <1>4, <2>1, RenamedIs
    <3> QED BY <1>1, <3>1, <3>2, DueRun, MappedFresh DEF Awaited
  <2>2. CASE ~RFire
    <3>1. ~Go /\ storage' = storage /\ storage # None
      BY <1>1, <1>4, <2>2 DEF HandOver, FrontMoves
    <3>2. Fresh(p)
      BY <2>2 DEF Fresh, New
    <3> QED BY <1>1, <1>4, <3>1, <3>2, DueRun DEF Awaited
  <2> QED BY <2>1, <2>2
<1> QED BY <1>2, <1>3, <1>4 DEF Awaited

\* A checkpoint of a branch in flight stays, and what it names and is not free stays so.
LEMMA CheckpointKept ==
  ASSUME NEW n, Paced(n), Cycle, NEW q, NEW a, Flying(q, a), q.is_branch
  PROVE  /\ ckpt_rat'[q.rob_tag] = ckpt_rat[q.rob_tag]
         /\ \A r \in Areg : \A p : p = ckpt_rat[q.rob_tag][r] /\ p \notin free_map =>
              p \notin free_map' /\ Fresh(p)
<1>1. CoreInv /\ RegsInv /\ TablesAfter /\ EntriesFollow
  BY RenameTables DEF Paced, RegsInv
<1>2. q.rob_tag \in Tag /\ ~(Take /\ q.rob_tag = FreeTag)
  <2>1. q \in RenamePkt
    BY <1>1, FlyingIs
  <2>2. Take => TagOk
    BY NewPacket DEF Take, CheckpointTake
  <2> QED BY <1>1, <2>1, <2>2, FlyingTag DEF RenamePkt
<1>3. ckpt_rat'[q.rob_tag] = ckpt_rat[q.rob_tag]
  BY <1>1, <1>2 DEF TablesAfter
<1>4. ASSUME NEW r \in Areg, NEW p, p = ckpt_rat[q.rob_tag][r], p \notin free_map
      PROVE  p \notin free_map' /\ Fresh(p)
  <2>1. ~Held(p, a)
    BY <1>1, <1>4 DEF RegsInv, BranchesApart, Apart
  <2>2. ~Freed(p)
    <3>1. a >= 0
      BY <1>1, FlyingIs
    <3> QED BY <1>1, <2>1, <3>1, FreedWas DEF Held
  <2>3. p \notin free_map'
    BY <1>1, <1>4, <2>2 DEF TablesAfter
  <2> QED BY <1>4, <2>3, MappedFresh
<1> QED BY <1>3, <1>4

LEMMA BranchFlies ==
  ASSUME CoreInv, RegsInv, NEW t \in Branches
  PROVE  \E q, a : Flying(q, a) /\ q.is_branch /\ q.rob_tag = t
<1>1. PICK i \in Slot : entries[i].valid /\ entries[i].tag = t
  BY DEF Branches, LiveTags
<1> DEFINE q == inflight[t].pkt
<1>2. Flying(q, Dist(head, i))
  BY <1>1 DEF Flying
<1>3. q.is_branch /\ q.rob_tag = t
  BY <1>1 DEF Branches, RegsInv, EntriesFollow
<1> HIDE DEF q
<1> QED BY <1>2, <1>3

LEMMA RestorableRun ==
  ASSUME NEW n, Paced(n), Cycle
  PROVE  Restorable'
<1>1. /\ HandOver /\ CoreInv /\ RegsInv /\ TypeOK /\ Restorable /\ Awaited /\ TablesAfter
      /\ OneAtATime /\ UnitBasics
      /\ St \subseteq RenamePkt /\ storage \in RenamePkt \cup {None}
  BY HandOverIs, Places, RenameTables DEF Paced, CoreInv, Pace, Basics, TypeOK, Fifo!FifoTypeOK
<1>2. storage' # None /\ storage'.is_branch => ckpt_rat'[storage'.rob_tag] = rat'
  <2> SUFFICES ASSUME storage' # None, storage'.is_branch
               PROVE  ckpt_rat'[storage'.rob_tag] = rat'
    OBVIOUS
  <2>1. CASE RFire
    BY <1>1, <2>1, RenamedIs DEF TablesAfter
  <2>2. CASE ~RFire
    <3>1. ~Go /\ storage' = storage /\ storage # None
      BY <1>1, <2>2 DEF HandOver, FrontMoves
    <3>2. ~New /\ ~Take
      BY <2>2 DEF New, Take, CheckpointTake
    <3>3. storage.rob_tag \in Tag
      BY <1>1, <3>1 DEF RenamePkt
    <3> QED BY <1>1, <3>1, <3>2, <3>3 DEF TablesAfter, Restorable
  <2> QED BY <2>1, <2>2
<1>3. ASSUME NEW f \in St', f.rob_tag \in Branches', NEW r \in Areg,
             NEW p, p = ckpt_rat'[f.rob_tag][r]
      PROVE  p \notin free_map' /\ DueIn(p)'
  <2>1. CASE DispatchFire /\ f = RsAlu!Wake(storage, KnownSet)
    <3>1. storage # None /\ storage \in RenamePkt /\ Go
      BY <1>1, <2>1 DEF HandOver, Go
    <3>2. f.rob_tag = storage.rob_tag
      BY <2>1, <3>1, WakeIs DEF SameInsn
    <3>3. storage.is_branch
      BY <1>1, <1>3, <2>1, <3>2, BranchIs
    <3>4. Flying(storage, ROB_DEPTH)
      BY <3>1 DEF Flying
    <3>5. p = rat[r] /\ p = ckpt_rat[storage.rob_tag][r]
      BY <1>1, <1>3, <3>1, <3>2, <3>3, <3>4, CheckpointKept DEF Restorable
    <3>6. p \notin free_map /\ Fresh(p)
      BY <3>5, MappedFresh
    <3>7. p \notin free_map'
      BY <3>3, <3>4, <3>5, <3>6, CheckpointKept
    <3>8. DueIn(p)'
      BY <1>1, <3>1, <3>5, <3>6, DueRun DEF Awaited
    <3> QED BY <3>7, <3>8
  <2>2. CASE \E e \in St : e \notin Issued /\ f = RsAlu!Wake(e, Wakeups)
    <3>1. PICK e \in St : e \notin Issued /\ f = RsAlu!Wake(e, Wakeups)
      BY <2>2
    <3>2. f.rob_tag = e.rob_tag /\ ~DispatchFire
      BY <1>1, <3>1, WakeIs DEF SameInsn, HandOver
    <3>3. e.rob_tag \in Branches
      BY <1>1, <1>3, <3>2, BranchIs
    <3>4. PICK q, a : Flying(q, a) /\ q.is_branch /\ q.rob_tag = e.rob_tag
      BY <1>1, <3>3, BranchFlies
    <3>5. p = ckpt_rat[e.rob_tag][r]
      BY <1>3, <3>2, <3>4, CheckpointKept
    <3>6. p \notin free_map /\ DueIn(p)
      BY <1>1, <3>3, <3>5 DEF Restorable
    <3>7. p \notin free_map' /\ Fresh(p)
      BY <3>4, <3>5, <3>6, CheckpointKept
    <3> QED BY <3>6, <3>7, DueRun
  <2> QED BY <1>1, <2>1, <2>2, StationsAfter
<1>4. ASSUME bru_q' # None, bru_q'.rob_tag \in Branches', NEW r \in Areg,
             NEW p, p = ckpt_rat'[bru_q'.rob_tag][r]
      PROVE  p \notin free_map' /\ Computed(p)'
  <2>1. IssBru # None /\ bru_q'.rob_tag = IssBru.rob_tag
    BY <1>1, <1>4, UnitsAfter
  <2>2. IssBru \in Issued /\ IssBru \in St
    BY <1>1, <2>1, IssuedIs DEF Issued
  <2>3. IssBru.rob_tag \in LiveTags
    <3>1. \E u, k : At(u, k, IssBru.rob_tag)
      BY <1>1, <2>2, Places
    <3> QED BY <1>1, <3>1, RunningLive DEF CoreInv, AtRunning
  <2>4. ~(DispatchFire /\ IssBru.rob_tag = storage.rob_tag)
    BY <1>1, <2>3, StorageTagFresh DEF HandOver, CoreInv, TP!Inv
  <2>5. IssBru.rob_tag \in Branches
    BY <1>1, <1>4, <2>1, <2>4, BranchIs
  <2>6. PICK q, a : Flying(q, a) /\ q.is_branch /\ q.rob_tag = IssBru.rob_tag
    BY <1>1, <2>5, BranchFlies
  <2>7. p = ckpt_rat[IssBru.rob_tag][r]
    BY <1>4, <2>1, <2>6, CheckpointKept
  <2>8. p \notin free_map /\ DueIn(p)
    BY <1>1, <2>2, <2>5, <2>7 DEF Restorable
  <2>9. p \notin free_map' /\ Fresh(p)
    BY <2>6, <2>7, <2>8, CheckpointKept
  <2>10. Waiting(p) => Writing(p)' \/ Loading(p)'
    <3> SUFFICES ASSUME Waiting(p) PROVE Writing(p)' \/ Loading(p)'
      OBVIOUS
    <3>1. PICK e \in St : e.rd_used /\ e.prd = p /\ p # 0
      BY DEF Waiting
    <3>2. e \in Issued
      BY <1>1, <2>2, <3>1 DEF OneAtATime
    <3> QED BY <3>1, <3>2, WaitingRun
  <2> QED BY <2>8, <2>9, <2>10, DueRun DEF DueIn, Computed
<1>5. ASSUME redirect' # None, NEW r \in Areg, NEW p, p = ckpt_rat'[redirect'.tag][r]
      PROVE  Known(p)'
  <2>1. bru_q # None /\ redirect'.tag = bru_q.rob_tag /\ bru_q.rob_tag \in Branches
    BY <1>1, <1>5, UnitsAfter DEF Mispredict, CoreInv, BranchesTracked
  <2>2. PICK q, a : Flying(q, a) /\ q.is_branch /\ q.rob_tag = bru_q.rob_tag
    BY <1>1, <2>1, BranchFlies
  <2>3. p = ckpt_rat[bru_q.rob_tag][r]
    BY <1>5, <2>1, <2>2, CheckpointKept
  <2>4. p \notin free_map /\ Computed(p)
    BY <1>1, <2>1, <2>3 DEF Restorable
  <2>5. Fresh(p) /\ ~Loading(p)
    BY <1>1, <2>1, <2>4, MappedFresh DEF Loading, UnitBasics
  <2> QED BY <2>4, <2>5, KnownRun DEF Computed
<1> QED BY <1>2, <1>3, <1>4, <1>5 DEF Restorable

\* What is in the stations after the edge is in a place.
LEMMA StationPlace ==
  ASSUME NEW f \in St', NEW t, f.rob_tag = t
  PROVE  \E u, k : At(u, k, t)'
<1>1. PICK k \in RsIndex : f # None /\ (f = rs_alu'[k] \/ f = rs_bru'[k] \/ f = rs_lsu'[k])
  BY DEF St, Stations, RsIndex
<1>2. CASE f = rs_alu'[k]
  <2>1. At("ALU", k, t)'
    BY <1>1, <1>2 DEF At, Holds, RsIndex
  <2> QED BY <2>1
<1>3. CASE f = rs_bru'[k]
  <2>1. At("BRU", k, t)'
    BY <1>1, <1>3 DEF At, Holds, RsIndex
  <2> QED BY <2>1
<1>4. CASE f = rs_lsu'[k]
  <2>1. At("LSU", k, t)'
    BY <1>1, <1>4 DEF At, Holds, RsIndex
  <2> QED BY <2>1
<1> QED BY <1>1, <1>2, <1>3, <1>4

\* What has no result and does not write back is in the stations or in m0.
LEMMA NotWriting ==
  ASSUME CoreInv, Basics, Blocked, Located, Cycle, NEW t \in Running, t \notin WbTags
  PROVE  (\E e \in St : e.rob_tag = t) \/ Holds(m0, t)
<1>1. TypeOK
  BY DEF CoreInv
<1>2. PICK u, k : At(u, k, t)
  BY DEF Located
<1>3. ~(alu_q # None /\ alu_q.e.rob_tag = t) /\ ~Holds(bru_q, t) /\ ~Holds(m1, t)
  BY WritingIs DEF At
<1> QED BY <1>1, <1>2, <1>3, Places

LEMMA LocatedRun ==
  ASSUME CoreInv, Basics, Blocked, Located, Cycle
  PROVE  Located'
<1>1. /\ TypeOK
      /\ DispatchFire => storage # None
      /\ St \subseteq RenamePkt /\ storage \in RenamePkt \cup {None}
  BY Places DEF CoreInv, TypeOK, Fifo!FifoTypeOK, DispatchFire
<1>2. ASSUME NEW t \in Running' PROVE \E u, k : At(u, k, t)'
  <2>1. CASE DispatchFire /\ t = storage.rob_tag
    <3>1. PICK f : f = RsAlu!Wake(storage, KnownSet) /\ f \in St'
      BY <1>1, <2>1, StationsAfter
    <3>2. f.rob_tag = t
      BY <1>1, <2>1, <3>1, WakeIs DEF SameInsn
    <3> QED BY <3>1, <3>2, StationPlace
  <2>2. CASE \E e \in St : e.rob_tag = t /\ e \notin Issued
    <3>1. PICK e \in St : e.rob_tag = t /\ e \notin Issued
      BY <2>2
    <3>2. PICK f : f = RsAlu!Wake(e, Wakeups) /\ f \in St'
      BY <1>1, <3>1, StationsAfter
    <3>3. f.rob_tag = t
      BY <1>1, <3>1, <3>2, WakeIs DEF SameInsn
    <3> QED BY <3>2, <3>3, StationPlace
  <2>3. CASE \E e \in Issued : e.rob_tag = t
    <3>1. block_cnt = 0
      BY <1>1, <2>3, IssuedIs DEF Blocked
    <3>2. \/ alu_q' # None /\ alu_q'.e.rob_tag = t
          \/ bru_q' # None /\ bru_q'.rob_tag = t
          \/ m0' # None /\ m0'.rob_tag = t
      BY <1>1, <2>3, <3>1, UnitsAfter DEF Issued
    <3>3. At("alu_q", 0, t)' \/ At("bru_q", 0, t)' \/ At("m0", 0, t)'
      BY <3>2 DEF At, Holds
    <3> QED BY <3>3
  <2>4. CASE Holds(m0, t)
    <3>1. m1' = m0
      BY <1>1, UnitsAfter
    <3>2. At("m1", 0, t)'
      BY <2>4, <3>1 DEF At, Holds
    <3> QED BY <3>2
  <2>5. \/ DispatchFire /\ t = storage.rob_tag
        \/ (\E e \in St : e.rob_tag = t) \/ Holds(m0, t)
    BY <1>1, RunningWas, NotWriting
  <2> QED BY <2>1, <2>2, <2>3, <2>4, <2>5
<1> QED BY <1>2 DEF Located

LEMMA OrderRun ==
  ASSUME NEW n, Paced(n), Cycle, NEW m, m = n - Left + Added
  PROVE  Order(m)'
<1>1. /\ HandOver /\ CoreInv /\ TypeOK /\ Order(n) /\ n \in 0 .. ROB_DEPTH /\ WindowIs(n)
      /\ ROB_DEPTH \in Nat
      /\ St \subseteq RenamePkt /\ storage \in RenamePkt \cup {None}
  BY HandOverIs, Places, RobDepthAssumption DEF Paced, CoreInv, Pace, TypeOK, Fifo!FifoTypeOK
\* What runs is not what commits.
<1>2. ASSUME NEW t \in Running, NEW a, AgeIs(t, a), NEW b, b = a - Left
      PROVE  a \in 0 .. n - 1 /\ b \in Nat /\ AgeIs(t, b)'
  <2>1. a \in 0 .. n - 1
    BY <1>1, <1>2, Ages
  <2>2. b \in Nat
    BY <1>1, <1>2, <2>1, Oldest DEF Left
  <2> QED BY <1>1, <1>2, <2>1, <2>2, AgesRun
<1>3. \A e \in St : e.rob_tag \in Running /\ AgeIs(e.rob_tag, n - 1)
  <2>1. \A e \in St : \E u, k : At(u, k, e.rob_tag)
    BY <1>1, Places
  <2> QED BY <1>1, <2>1 DEF CoreInv, AtRunning, Order
<1>4. ASSUME DispatchFire, NEW t, t = storage.rob_tag, NEW b, b = n - Left
       PROVE  AgeIs(t, b)' /\ b = m - 1
  BY <1>1, <1>4, AgesRun DEF Left, Added
<1>5. ASSUME NEW f \in St', NEW t, t = f.rob_tag, NEW b, b = m - 1 PROVE AgeIs(t, b)'
  <2>1. CASE DispatchFire
    <3>1. f = RsAlu!Wake(storage, KnownSet)
      BY <1>1, <2>1, StationsAfter DEF HandOver
    <3>2. t = storage.rob_tag
      BY <1>1, <1>5, <2>1, <3>1, WakeIs DEF SameInsn, HandOver
    <3> QED BY <1>1, <1>4, <1>5, <2>1, <3>2 DEF Left, Added
  <2>2. CASE ~DispatchFire
    <3>1. PICK e \in St : f = RsAlu!Wake(e, Wakeups)
      BY <1>1, <2>2, StationsAfter
    <3>2. t = e.rob_tag
      BY <1>1, <1>5, <3>1, WakeIs DEF SameInsn
    <3>3. b = (n - 1) - Left
      BY <1>1, <1>5, <2>2 DEF Left, Added
    <3> QED BY <1>2, <1>3, <3>2, <3>3
  <2> QED BY <2>1, <2>2
<1>6. ASSUME redirect' # None, NEW t0, t0 = redirect'.tag
      PROVE  \E a \in 0 .. m : /\ AgeIs(t0, a)'
               /\ \A u, k, t : At(u, k, t)' => \E b \in a + 1 .. m : AgeIs(t, b)'
  <2>1. bru_q # None /\ t0 = bru_q.rob_tag /\ m0 = None /\ At("bru_q", 0, t0)
    <3>1. bru_q # None /\ t0 = bru_q.rob_tag
      BY <1>1, <1>6, UnitsAfter DEF Mispredict
    <3> QED BY <3>1 DEF Paced, Basics, UnitBasics, At, Holds
  <2>2. t0 \in Running /\ t0 \in LiveTags
    BY <1>1, <2>1, RunningLive DEF CoreInv, AtRunning
  <2>3. PICK a0 : AgeIs(t0, a0)
    BY <1>1, <2>2, Ages
  <2>4. PICK a : a = a0 - Left
    OBVIOUS
  <2>5. a0 \in 0 .. n - 1 /\ a \in Nat /\ AgeIs(t0, a)'
    BY <1>2, <2>2, <2>3, <2>4
  <2>6. a \in 0 .. m
    BY <1>1, <2>4, <2>5 DEF Left, Added
  <2>7. PICK x, y, z, s : \A u, k, t :
          At(u, k, t)' => \/ Enters(u, k, t, s)
                          \/ \E v, l : At(v, l, t) /\ Goes(v, l, u, k, x, y, z)
    BY <1>1, PendingMoves DEF PendingStep
  <2>8. ASSUME NEW u, NEW k, NEW t, At(u, k, t)'
        PROVE  \E b \in a + 1 .. m : AgeIs(t, b)'
    <3>1. CASE Enters(u, k, t, s)
      <4>1. PICK b : b = n - Left
        OBVIOUS
      <4>2. AgeIs(t, b)'
        BY <1>4, <3>1, <4>1 DEF Enters
      <4>3. b \in a + 1 .. m
        BY <1>1, <2>4, <2>5, <3>1, <4>1 DEF Left, Added, Enters
      <4> QED BY <4>2, <4>3
    <3>2. CASE \E v, l : At(v, l, t) /\ Goes(v, l, u, k, x, y, z)
      <4>1. PICK v, l : At(v, l, t) /\ Goes(v, l, u, k, x, y, z)
        BY <3>2
      <4>2. v \in {"ALU", "BRU", "LSU"}
        BY <2>1, <4>1 DEF Goes, At, Holds
      <4>3. t # t0
        BY <1>1, <2>1, <4>1, <4>2 DEF CoreInv, AtOnce
      <4>4. \E e \in St : e.rob_tag = t
        BY <1>1, <4>1, <4>2, Places DEF At, Holds
      <4>5. t \in Running /\ AgeIs(t, n - 1)
        BY <1>3, <4>4
      <4>6. PICK b : b = (n - 1) - Left
        OBVIOUS
      <4>7. AgeIs(t, b)'
        BY <1>2, <4>5, <4>6
      <4>8. a0 # n - 1
        BY <1>1, <2>3, <4>3, <4>5, Ages
      <4>9. b \in a + 1 .. m
        BY <1>1, <2>4, <2>5, <4>6, <4>8 DEF Left, Added
      <4> QED BY <4>7, <4>9
    <3> QED BY <2>7, <2>8, <3>1, <3>2
  <2> QED BY <2>5, <2>6, <2>8
<1> QED BY <1>5, <1>6 DEF Order

\* The points of fetch's round before those after the edge.
LEMMA FrontBefore ==
  ASSUME NEW n, Paced(n), Cycle
  PROVE  /\ G1' => G2 /\ ~RFire
         /\ G2' => (G1 \/ G2 \/ F1) /\ ~RFire
         /\ F1' => (G1 /\ RFire) \/ F2
         /\ F2' => (G2 /\ RFire) \/ F3
         /\ F3' => (F1 \/ G2) /\ RFire
<1>1. FrontMoves /\ (G1 \/ G2 \/ F1 \/ F2 \/ F3)
  BY HandOverIs DEF HandOver
<1>2. /\ G1' => ~G2' /\ ~F1' /\ ~F2' /\ ~F3'
      /\ G2' => ~F1' /\ ~F2' /\ ~F3'
      /\ F1' => ~F2' /\ ~F3'
      /\ F2' => ~F3'
  BY DEF G1, G2, F1, F2, F3
<1> QED BY <1>1, <1>2 DEF FrontMoves

\* The packet in the stations after the edge.
LEMMA StationsNext ==
  ASSUME NEW n, Paced(n), Cycle
  PROVE  /\ AllReady /\ ~DispatchFire => St' = {}
         /\ St = {} => m0' = None
         /\ m0' # None /\ ~DispatchFire => St' = {}
         /\ F1 => AllReady'
         /\ St' = {} => AllReady'
<1>1. /\ HandOver /\ CoreInv /\ TypeOK /\ Shapes /\ OneAtATime /\ Awaited
      /\ St \subseteq RenamePkt /\ storage \in RenamePkt \cup {None}
  BY HandOverIs, Places DEF Paced, CoreInv, Pace, TypeOK, Fifo!FifoTypeOK
<1>2. AllReady /\ ~DispatchFire => St' = {}
  BY <1>1, StationsAfter DEF HandOver
<1>3. m0' # None => IssLsu \in Issued /\ IssLsu \in St
  BY <1>1, UnitsAfter, IssuedIs DEF Issued
<1>4. m0' # None /\ ~DispatchFire => St' = {}
  <2>1. m0' # None => St \subseteq Issued
    BY <1>1, <1>3 DEF OneAtATime
  <2> QED BY <1>1, <2>1, StationsAfter
<1>5. ASSUME ~DispatchFire, m0 = None, NEW f \in St' PROVE Ready(f)
  <2>1. PICK e \in St : f = RsAlu!Wake(e, Wakeups)
    BY <1>1, <1>5, StationsAfter
  <2>2. ~Loading(e.prs1) /\ ~Loading(e.prs2)
    BY <1>5 DEF Loading
  <2>3. /\ f.prs1_ready <=> e.prs1_ready \/ e.prs1 \in Wakeups
        /\ f.prs2_ready <=> e.prs2_ready \/ e.prs2 \in Wakeups
    BY <1>1, <2>1, WakeIs
  <2>4. f.prs1_ready /\ f.prs2_ready
    BY <1>1, <2>2, <2>3, WritingIs DEF Paced, Awaited
  <2> QED BY <2>4 DEF Ready, RsAlu!OperandsReady
<1>6. ASSUME DispatchFire, St = {}, m0 = None, NEW f \in St' PROVE Ready(f)
  <2>1. f = RsAlu!Wake(storage, KnownSet) /\ storage # None /\ storage \in RenamePkt
    BY <1>1, <1>6, StationsAfter DEF HandOver
  <2>2. /\ f.prs1_ready <=> storage.prs1_ready \/ storage.prs1 \in KnownSet
        /\ f.prs2_ready <=> storage.prs2_ready \/ storage.prs2 \in KnownSet
    BY <2>1, WakeIs
  <2>3. f.prs1_ready /\ f.prs2_ready
    BY <1>1, <1>6, <2>1, <2>2, OperandRun DEF Awaited
  <2> QED BY <2>3 DEF Ready, RsAlu!OperandsReady
<1>7. (\A f \in St' : Ready(f)) => AllReady'
  BY DEF AllReady, Ready, RsAlu!OperandsReady
<1>8. F1 => AllReady'
  <2> SUFFICES ASSUME F1 PROVE \A f \in St' : Ready(f)
    BY <1>7
  <2>1. storage = None => ~DispatchFire
    BY DEF DispatchFire
  <2>2. CASE storage = None /\ (m0 = None \/ AllReady)
    BY <1>2, <1>5, <2>1, <2>2
  <2>3. CASE St = {} /\ m0 = None
    BY <1>5, <1>6, <2>3
  <2> QED BY <1>1, <2>2, <2>3 DEF Shapes
<1> QED BY <1>2, <1>3, <1>4, <1>7, <1>8

LEMMA ShapesRun ==
  ASSUME NEW n, Paced(n), Cycle
  PROVE  Shapes'
<1>1. HandOver /\ Shapes
  BY HandOverIs DEF Paced, Pace
<1>2. (G1 => ~F3) /\ (G2 => ~F3) /\ (F1 => ~F3) /\ (F2 => ~F3)
  BY DEF G1, G2, F1, F2, F3
<1>3. ~RFire /\ ~F3 => storage' = None
  BY <1>1 DEF HandOver, FrontMoves
<1>4. storage = None => ~DispatchFire
  BY DEF DispatchFire
<1>5. St = {} => AllReady
  BY DEF AllReady
<1>6. G1 \/ G2 => St' = {}
  BY <1>1, <1>4, <1>5, StationsNext DEF Shapes
<1>7. G1' => storage' = None /\ St' = {}
  BY <1>2, <1>3, <1>6, FrontBefore
<1>8. G2' => storage' = None /\ AllReady'
  BY <1>2, <1>3, <1>6, FrontBefore, StationsNext
<1>9. F1' => \/ storage' = None /\ (m0' = None \/ AllReady')
             \/ St' = {} /\ m0' = None
  <2>1. G1 => St' = {} /\ m0' = None
    BY <1>1, <1>6, StationsNext DEF Shapes
  <2>2. F2 => storage' = None
    BY <1>1, <1>2, <1>3 DEF HandOver, FrontMoves
  <2>3. F2 => m0' = None \/ AllReady'
    BY <1>1, <1>4, StationsNext DEF Shapes
  <2> QED BY <2>1, <2>2, <2>3, FrontBefore
<1>10. F2' => St' = {} \/ storage' = None
  <2>1. F3 => St' = {} \/ storage' = None
    <3>1. F3 /\ Go => storage' = None
      BY <1>1 DEF HandOver, FrontMoves
    <3>2. F3 /\ ~Go => St' = {}
      BY <1>1, StationsNext DEF HandOver, Shapes
    <3> QED BY <3>1, <3>2
  <2> QED BY <1>6, <2>1, FrontBefore
<1>11. F3' => storage' = None \/ AllReady'
  BY <1>6, FrontBefore, StationsNext
<1> QED BY <1>7, <1>8, <1>9, <1>10, <1>11 DEF Shapes

LEMMA BlockedRun ==
  ASSUME CoreInv, Basics, Blocked, Cycle
  PROVE  Blocked'
<1> SUFFICES ASSUME block_cnt' # 0 PROVE Blocked'
  BY DEF Blocked
<1>1. TypeOK /\ FrontBasics
  BY DEF CoreInv, Basics
<1>2. block_cnt = 2 /\ block_cnt' = 1
  BY <1>1, UnitsAfter DEF TypeOK, LsuTypeOK
<1>3. F3 /\ r2d_skid = None /\ storage = None /\ St = {} /\ m0 = None
  BY <1>2 DEF Blocked
<1>4. F2' /\ RenameOut = None /\ ~DispatchFire
  BY <1>1, <1>3, FrontAfter DEF FrontMoves, DispatchFire
<1>5. St' = {} /\ IssLsu = None
  BY <1>1, <1>3, <1>4, StationsAfter, IssuedIs DEF Issued
<1>6. m0' = None /\ m1' = None
  BY <1>1, <1>3, <1>5, UnitsAfter
<1>7. storage' = None /\ r2d_skid' = None
  BY <1>3, <1>4 DEF Cycle, Fifo!FifoEdge, Fifo!FifoPush, Fifo!FifoPop, R2d!SkidEdge,
                    R2d!SkidOut
<1> QED BY <1>2, <1>4, <1>5, <1>6, <1>7 DEF Blocked

\* When fetch delivers an instruction and two are in the ROB, the older one has its
\* result at the edge.
LEMMA HeadDone ==
  ASSUME NEW n, Paced(n), Cycle, F1, NEW m, m = n - Left + Added, m = 2
  PROVE  entries'[head'].done
<1>1. /\ HandOver /\ CoreInv /\ TypeOK /\ Shapes /\ Order(n) /\ Counts(n)
      /\ n \in 0 .. ROB_DEPTH /\ WindowIs(n)
  BY HandOverIs DEF Paced, CoreInv, Pace
<1>2. TypeOK' /\ head' \in Slot /\ WindowIs(m)'
  <2>1. TypeOK'
    BY <1>1, CoreStep DEF Next, CoreInv
  <2>2. head' \in Slot
    BY <2>1 DEF TypeOK, RobTypeOK, Slot
  <2> QED BY <1>1, <2>1, <2>2, WindowRun
<1>3. Dist(head', head') = 0
  BY <1>2, DistFacts
<1>4. entries'[head'].valid
  <2>1. \A i \in Slot : entries'[i].valid <=> Dist(head', i) < m
    BY <1>2 DEF WindowIs, Slot, Dist
  <2> QED BY <1>2, <1>3, <2>1
<1> SUFFICES ASSUME ~entries'[head'].done PROVE FALSE
  OBVIOUS
<1>5. PICK t : t = entries'[head'].tag
  OBVIOUS
<1>6. t \in Running'
  BY <1>2, <1>4, <1>5 DEF Running, Slot
<1>7. PICK z : z = 0 /\ AgeIs(t, z)'
  BY <1>2, <1>3, <1>4, <1>5, AgeNext
<1>8. ~(DispatchFire /\ z = n - Left)
  BY <1>1, <1>7 DEF Left, Added
<1>9. PICK a : AgeIs(t, a) /\ z = a - Left
  BY <1>1, <1>7, <1>8, AgesRun
<1>10. t \in LiveTags /\ a \in 0 .. n - 1
  BY <1>1, <1>9, Ages
<1>11. t \in Running /\ t \notin WbTags
  <2>1. ~(DispatchFire /\ t = storage.rob_tag)
    BY <1>1, <1>10, StorageTagFresh DEF HandOver, CoreInv, TP!Inv
  <2> QED BY <1>1, <1>6, <2>1, RunningWas
<1>12. CASE \E e \in St : e.rob_tag = t
  <2>1. AgeIs(t, n - 1)
    BY <1>1, <1>12 DEF Order
  <2>2. a = n - 1
    BY <1>1, <1>9, <2>1, Ages
  <2>3. ~DispatchFire
    BY <1>1, <1>12 DEF Shapes, HandOver
  <2> QED BY <1>1, <1>7, <1>9, <2>2, <2>3 DEF Left, Added
<1>13. CASE Holds(m0, t)
  <2>1. m0 # None /\ m0.rob_tag = t /\ storage = None
    BY <1>1, <1>13 DEF Holds, Shapes
  <2>2. ~DispatchFire
    BY <1>1, <2>1 DEF HandOver
  <2>3. n = 2 /\ Left = 0
    BY <1>1, <2>2 DEF Left, Added, Counts
  <2>4. a = 0
    BY <1>7, <1>9, <1>10, <2>3
  <2> QED BY <1>1, <1>9, <2>1, <2>3, <2>4 DEF Counts
<1> QED BY <1>11, <1>12, <1>13, NotWriting DEF Paced

LEMMA CountsRun ==
  ASSUME NEW n, Paced(n), Cycle, NEW m, m = n - Left + Added
  PROVE  Counts(m)'
<1>1. /\ HandOver /\ CoreInv /\ TypeOK /\ Shapes /\ Order(n) /\ Counts(n)
      /\ n \in 0 .. ROB_DEPTH /\ WindowIs(n)
  BY HandOverIs DEF Paced, CoreInv, Pace
<1>2. (G1 => ~F3) /\ (G2 => ~F3) /\ (F1 => ~F3) /\ (F2 => ~F3)
  BY DEF G1, G2, F1, F2, F3
<1>3. ~RFire /\ ~F3 => storage' = None
  BY <1>1, <1>2 DEF HandOver, FrontMoves
<1>4. /\ Left \in {0, 1} /\ Added \in {0, 1} /\ n \in Nat /\ n <= 2
      /\ DispatchFire => Added = 1 /\ storage # None
      /\ ~DispatchFire => Added = 0
      /\ CommitFire => Left = 1
  BY <1>1 DEF Left, Added, HandOver, Counts
<1>5. n = 2 /\ entries[head].done => Left = 1
  BY <1>1, <1>4, Oldest
<1>6. G1 \/ G2 => m <= 1
  <2>1. G1 \/ G2 => Added = 0
    BY <1>1, <1>4 DEF Shapes
  <2> QED BY <1>1, <1>4, <1>5, <2>1 DEF Counts
<1>7. m <= 2
  <2>1. DispatchFire /\ n = 2 => Left = 1
    <3>1. DispatchFire /\ n = 2 => F3 /\ storage # None
      BY <1>1, <1>4 DEF HandOver, Counts
    <3> QED BY <1>1, <1>5, <3>1 DEF Counts
  <2> QED BY <1>4, <2>1
<1>8. F1 /\ m = 2 => entries'[head'].done
  BY HeadDone
<1>9. F3 /\ storage' # None => m <= 1
  <2> SUFFICES ASSUME F3, storage' # None PROVE m <= 1
    OBVIOUS
  <2>1. ~Go /\ storage # None /\ ~DispatchFire
    BY <1>1 DEF HandOver, FrontMoves
  <2>2. n = 2 => Left = 1
    BY <1>1, <1>5, <2>1 DEF Counts
  <2> QED BY <1>4, <2>1, <2>2
<1>10. ASSUME F2, m = 2, m0' # None, NEW t, t = m0'.rob_tag, NEW z, z = 0
       PROVE  ~AgeIs(t, z)'
  <2>1. IssLsu # None /\ t = IssLsu.rob_tag
    BY <1>1, <1>10, UnitsAfter
  <2>2. IssLsu \in St
    BY <1>1, <2>1, IssuedIs DEF Issued
  <2>3. AgeIs(t, n - 1) /\ t \in LiveTags
    BY <1>1, <2>1, <2>2, Ages DEF Order
  <2>4. ~DispatchFire
    BY <1>1, <1>10, <2>2 DEF Shapes, HandOver
  <2>5. AgeIs(t, z)' => \E a : AgeIs(t, a) /\ z = a - Left
    BY <1>1, <2>4, AgesRun
  <2> QED BY <1>1, <1>4, <1>10, <2>3, <2>4, <2>5, Ages
<1>11. G1' => m <= 1
  BY <1>6, FrontBefore
<1>12. G2' /\ m = 2 => entries'[head'].done
  BY <1>4, <1>6, <1>8, FrontBefore
<1>13. F3' /\ storage' # None /\ m = 2 => entries'[head'].done
  BY <1>4, <1>6, <1>8, FrontBefore
<1>14. (F1' \/ F2') /\ storage' # None => m <= 1
  <2>1. F2 => storage' = None
    BY <1>1, <1>2, <1>3 DEF HandOver, FrontMoves
  <2> QED BY <1>6, <1>9, <2>1, FrontBefore
<1>15. ASSUME F1', m = 2, m0' # None, NEW t, t = m0'.rob_tag, NEW z, z = 0
       PROVE  ~AgeIs(t, z)'
  <2>1. F2
    BY <1>4, <1>6, <1>15, FrontBefore
  <2> QED BY <1>10, <1>15, <2>1
<1> QED BY <1>7, <1>11, <1>12, <1>13, <1>14, <1>15 DEF Counts

LEMMA PaceRun ==
  ASSUME NEW n, Paced(n), Cycle, NEW m, m = n - Left + Added
  PROVE  Pace(m)'
BY OneAtATimeRun, ShapesRun, CountsRun, OrderRun, AwaitedRun, RestorableRun DEF Pace

-----------------------------------------------------------------------------
(***************************************************************************)
(* The edge with a flush.                                                  *)
(***************************************************************************)

\* What is left of the window is what was not younger than the branch in slot b.
LEMMA WindowRecover ==
  ASSUME CoreInv, Recover, NEW n \in 0 .. ROB_DEPTH, WindowIs(n), NEW b, Asked(b),
         NEW k, k = Dist(head, b) + 1 - Left
  PROVE  /\ Dist(head, b) \in 0 .. n - 1 /\ AgeIs(redirect.tag, Dist(head, b))
         /\ k \in 0 .. n /\ WindowIs(k)'
         /\ ckpt_ptrs' = ckpt_ptrs
         /\ count' = ckpt_ptrs[redirect.tag].count - Left
         /\ ckpt_ptrs[redirect.tag].count \in 1 .. ROB_DEPTH
         /\ \A t, z : AgeIs(t, z)' =>
              \E a : AgeIs(t, a) /\ z = a - Left /\ a <= Dist(head, b)
<1> USE DEF CoreInv
<1> DEFINE tag == redirect.tag
           d == Dist(head, b)
<1>1. /\ RobEdge(TRUE, tag, Take, FreeTag, FALSE, storage, WbTags)
      /\ RobTypeOK /\ RobTypeOK' /\ head \in Slot /\ head' \in Slot /\ LiveStep
      /\ ROB_DEPTH \in Nat /\ ROB_DEPTH >= 2
  BY LiveStepRecover, CoreStep, RobDepthAssumption DEF Recover, Next, TypeOK, RobTypeOK, Slot
<1>2. TP!RobEdge(TRUE, tag, Take, FreeTag, FALSE, storage, WbTags)
  BY <1>1, SamePath
<1>3. /\ TP!RobTypeOK /\ TP!Window /\ b \in TP!Slot /\ tag \in TP!Tag
      /\ ckpt_ptrs[tag].tail = TP!Inc(b)
      /\ TP!Dist(head, b) < ckpt_ptrs[tag].count
      /\ ckpt_ptrs[tag].count <= ROB_DEPTH
  <2>1. TP!RobTypeOK /\ TP!Window /\ b \in TP!Slot
    BY DEF TP!Inv, TP!TypeOK, Asked, Slot, TP!Slot
  <2>2. tag \in TP!Tag
    BY <1>1, LiveTagTypes DEF Asked, Branches, Tag, TP!Tag
  <2>3. b \in TP!ValidSlots
    BY <2>1 DEF Asked, TP!ValidSlots
  <2> QED BY <2>1, <2>2, <2>3 DEF TP!Inv, TP!SnapshotsCoverBranches, Asked, Branches
<1>4. \A i \in TP!Slot : entries'[i].valid <=>
        TP!Dist(head, i) <= TP!Dist(head, b) /\ ~(TP!CommitFire /\ i = head)
  BY <1>2, <1>3, TagsAssumptions, TP!WindowAfterRecover DEF Asked
<1>5. \A i \in Slot : entries'[i].valid <=> Dist(head, i) <= d /\ ~(CommitFire /\ i = head)
  BY <1>4, Zenon DEF TP!Slot, Slot, TP!Dist, Dist, TP!CommitFire, CommitFire
<1>6. /\ d \in 0 .. n - 1 /\ AgeIs(tag, d) /\ d < ckpt_ptrs[tag].count
      /\ d \in 0 .. ROB_DEPTH - 1
  <2>1. d < ckpt_ptrs[tag].count
    BY <1>3, Zenon DEF TP!Dist, Dist
  <2>2. AgeIs(tag, d)
    BY DEF Asked, AgeIs
  <2> QED BY <1>1, <2>1, <2>2, Ages, DistFacts DEF Asked
<1>7. ckpt_ptrs[tag].count \in 1 .. ROB_DEPTH
  <2>1. ckpt_ptrs[tag].count \in Int
    <3>1. tag \in Tag
      BY <1>1, LiveTagTypes DEF Asked, Branches
    <3> QED BY <1>1, <3>1 DEF RobTypeOK, Snapshot, Count
  <2> QED BY <1>3, <1>6, <2>1
<1>8. k \in 0 .. n
  BY <1>6 DEF Left
<1>9. ckpt_ptrs' = ckpt_ptrs
  BY <1>1 DEF RobEdge, Snapshots, AllocFire
<1>10. count' = ckpt_ptrs[tag].count - Left
  <2>1. count' = IF CommitFire THEN CountDec(ckpt_ptrs[tag].count) ELSE ckpt_ptrs[tag].count
    BY <1>1 DEF RobEdge, NextCount
  <2>2. CountDec(ckpt_ptrs[tag].count) = ckpt_ptrs[tag].count - 1
    BY <1>1, <1>7 DEF CountDec
  <2> QED BY <1>7, <2>1, <2>2 DEF Left
<1>11. head' = IF CommitFire THEN Inc(head) ELSE head
  BY <1>1 DEF RobEdge
<1> HIDE DEF d, tag
<1>12. \A i \in Slot : /\ Dist(head, i) \in 0 .. ROB_DEPTH - 1
                       /\ Dist(head', i) = IF CommitFire /\ i = head THEN ROB_DEPTH - 1
                                           ELSE Dist(head, i) - Left
  <2> SUFFICES ASSUME NEW i \in Slot
               PROVE  /\ Dist(head, i) \in 0 .. ROB_DEPTH - 1
                      /\ Dist(head', i) = IF CommitFire /\ i = head THEN ROB_DEPTH - 1
                                          ELSE Dist(head, i) - Left
    OBVIOUS
  <2>1. /\ Dist(head, i) \in 0 .. ROB_DEPTH - 1
        /\ Dist(Inc(head), i) = IF head = i THEN ROB_DEPTH - 1 ELSE Dist(head, i) - 1
    BY <1>1, DistFacts
  <2> QED BY <1>11, <2>1 DEF Left
<1>13. \A i \in Slot : entries'[i].valid <=> Dist(head', i) < k
  <2> SUFFICES ASSUME NEW i \in Slot PROVE entries'[i].valid <=> Dist(head', i) < k
    OBVIOUS
  <2>1. k = d + 1 - Left
    BY DEF d
  <2>2. CASE CommitFire /\ i = head
    BY <1>1, <1>5, <1>6, <1>12, <2>1, <2>2 DEF Left
  <2>3. CASE ~(CommitFire /\ i = head)
    BY <1>1, <1>5, <1>6, <1>12, <2>1, <2>3 DEF Left
  <2> QED BY <2>2, <2>3
<1>14. WindowIs(k)'
  <2>1. PICK j \in 0 .. ROB_DEPTH : WindowIs(j)'
    <3>1. TP!Window'
      BY CoreStep DEF Next, TP!Inv
    <3> QED BY <3>1, SameWindow DEF TP!Window
  <2>2. \A i \in Slot : entries'[i].valid <=> Dist(head', i) < j
    BY <2>1 DEF WindowIs, Slot, Dist
  <2>3. k \in 0 .. ROB_DEPTH
    BY <1>1, <1>8
  <2>4. ~(j < k)
    <3> SUFFICES ASSUME j < k PROVE FALSE
      OBVIOUS
    <3>1. PICK i \in Slot : Dist(head', i) = j
      BY <1>1, <2>3, DistOnto
    <3> QED BY <1>13, <2>2, <3>1
  <2>5. ~(k < j)
    <3> SUFFICES ASSUME k < j PROVE FALSE
      OBVIOUS
    <3>1. PICK i \in Slot : Dist(head', i) = k
      BY <1>1, <2>3, DistOnto
    <3> QED BY <1>13, <2>2, <2>3, <3>1
  <2> QED BY <2>1, <2>3, <2>4, <2>5
<1>15. ASSUME NEW t, NEW z, AgeIs(t, z)'
       PROVE  \E a : AgeIs(t, a) /\ z = a - Left /\ a <= d
  <2>1. PICK i \in Slot : entries'[i].valid /\ entries'[i].tag = t /\ Dist(head', i) = z
    BY <1>15, AgeNext
  <2>2. EntryAfterEdge(i, TRUE, tag, FALSE, storage, WbTags)
    BY <1>1, EntriesAfter DEF tag
  <2>3. entries[i].valid /\ entries[i].tag = t
    BY <2>1, <2>2 DEF EntryAfterEdge, AllocFire
  <2>4. AgeIs(t, Dist(head, i))
    BY <2>3 DEF AgeIs
  <2> QED BY <1>5, <1>12, <2>1, <2>4
<1> QED BY <1>6, <1>7, <1>8, <1>9, <1>10, <1>14, <1>15 DEF d, tag

LEMMA SnapRecover ==
  ASSUME CoreInv, Recover, NEW n \in 0 .. ROB_DEPTH, WindowIs(n), NEW b, Asked(b), Snap(n),
         NEW k, k = Dist(head, b) + 1 - Left
  PROVE  Snap(k)' /\ (Room(k)' => Room(n))
<1> DEFINE C == ckpt_ptrs[redirect.tag].count
<1>1. PICK d : d = Dist(head, b)
  OBVIOUS
<1>2. /\ d \in 0 .. n - 1 /\ AgeIs(redirect.tag, d) /\ k \in 0 .. n /\ ckpt_ptrs' = ckpt_ptrs
      /\ count' = C - Left /\ C \in 1 .. ROB_DEPTH
      /\ \A t, z : AgeIs(t, z)' => \E a : AgeIs(t, a) /\ z = a - Left /\ a <= d
  BY <1>1, WindowRecover
<1>3. /\ Left \in {0, 1} /\ ROB_DEPTH \in Nat /\ ROB_DEPTH >= 2 /\ count \in Int
      /\ count <= ROB_DEPTH /\ n \in Nat
  BY RobDepthAssumption DEF Left, CoreInv, TypeOK, RobTypeOK, Count, WindowIs
<1>4. ASSUME NEW t \in Branches', AgeIs(t, k - 1)'
      PROVE  count' <= ckpt_ptrs'[t].count
  <2>1. PICK z : z = k - 1 /\ AgeIs(t, z)'
    BY <1>4
  <2>2. PICK a : AgeIs(t, a) /\ z = a - Left
    BY <1>2, <2>1
  <2>3. a \in 0 .. n - 1
    BY <2>2, Ages
  <2>4. a = d
    BY <1>1, <1>2, <1>3, <2>1, <2>2, <2>3
  <2>5. t = redirect.tag
    BY <1>2, <2>2, <2>4, Ages
  <2> HIDE DEF C
  <2>6. count' <= C
    BY <1>2, <1>3
  <2> QED BY <1>2, <2>5, <2>6 DEF C
<1>5. Snap(k)'
  BY <1>4 DEF Snap
<1>6. d = n - 1 => count <= C
  BY <1>2 DEF Snap, Asked
<1> HIDE DEF C
<1>7. ASSUME Room(k)' PROVE Room(n)
  <2>1. C - d - 1 <= ROB_DEPTH - 2
    BY <1>1, <1>2, <1>3, <1>7 DEF Room
  <2>2. CASE d = n - 1
    BY <1>2, <1>3, <1>6, <2>1, <2>2 DEF Room
  <2>3. CASE d # n - 1
    BY <1>2, <1>3, <2>3 DEF Room
  <2> QED BY <2>2, <2>3
<1> QED BY <1>5, <1>7

\* What has no result is younger than the branch that redirects: with room in the ROB
\* by its pace, without because there is nothing but the branch.
LEMMA UndoneYounger ==
  ASSUME CoreInv, Located, Flush, NEW n \in 0 .. ROB_DEPTH, WindowIs(n), Room(n) => Pace(n),
         NEW t \in Running, NEW a, AgeIs(t, a), NEW d, AgeIs(redirect.tag, d)
  PROVE  d < a
<1>1. TypeOK /\ redirect # None
  BY DEF CoreInv, Flush
<1>2. a \in 0 .. n - 1 /\ d \in 0 .. n - 1 /\ n \in Nat
  BY <1>1, Ages
<1>3. CASE Room(n)
  <2>1. \E u, k : At(u, k, t)
    BY DEF Located
  <2>2. PICK c \in 0 .. n : /\ AgeIs(redirect.tag, c)
                           /\ \E b \in c + 1 .. n : AgeIs(t, b)
    BY <1>1, <1>3, <2>1 DEF Pace, Order
  <2>3. PICK b \in c + 1 .. n : AgeIs(t, b)
    BY <2>2
  <2>4. c = d /\ b = a
    BY <2>2, <2>3, Ages
  <2> QED BY <1>2, <2>3, <2>4
<1>4. CASE ~Room(n)
  <2>1. n <= 1
    BY <1>1, <1>4, RobDepthAssumption DEF Room, WindowIs, TypeOK, RobTypeOK, Count
  <2>2. PICK j \in Slot : entries[j].valid /\ entries[j].done /\ entries[j].tag = redirect.tag
    BY DEF CoreInv, RedirectOK, Done
  <2>3. PICK i \in Slot : entries[i].valid /\ ~entries[i].done /\ entries[i].tag = t
    BY DEF Running
  <2>4. a = d
    BY <1>2, <2>1
  <2>5. t = redirect.tag
    BY <2>4, Ages
  <2>6. i = j
    BY <2>2, <2>3, <2>5 DEF CoreInv, TP!Inv, TP!TagsUnique, TP!ValidSlots, TP!Slot, Slot
  <2> QED BY <2>2, <2>3, <2>6
<1> QED BY <1>3, <1>4

\* So a recovery leaves nothing without a result, and what it empties held nothing
\* that is left.
LEMMA LocatedRecover ==
  ASSUME CoreInv, Located, Recover, NEW n \in 0 .. ROB_DEPTH, WindowIs(n),
         Room(n) => Pace(n), NEW b, Asked(b)
  PROVE  Located' /\ Blocked'
<1>1. Blocked'
  BY EmptyAfterFlush DEF Blocked, F3
<1>2. TypeOK /\ Flush
  BY DEF CoreInv, Recover
<1> SUFFICES ASSUME NEW t \in Running' PROVE FALSE
  BY <1>1 DEF Located
<1>3. PICK d : d = Dist(head, b)
  OBVIOUS
<1>4. PICK k : k = d + 1 - Left
  OBVIOUS
<1>5. /\ d \in 0 .. n - 1 /\ AgeIs(redirect.tag, d) /\ k \in 0 .. n
      /\ \A u, z : AgeIs(u, z)' => \E a : AgeIs(u, a) /\ z = a - Left /\ a <= d
  BY <1>3, <1>4, WindowRecover
<1>6. PICK i \in Slot : entries'[i].valid /\ ~entries'[i].done /\ entries'[i].tag = t
  BY DEF Running, Slot
<1>7. EntryAfterEdge(i, TRUE, redirect.tag, FALSE, storage, WbTags)
  BY <1>2, EntriesAfter DEF Recover, TypeOK
<1>8. t \in Running
  BY <1>6, <1>7 DEF EntryAfterEdge, AllocFire, Running
<1>9. PICK z : AgeIs(t, z)'
  BY <1>6, AgeNext
<1>10. PICK a : AgeIs(t, a) /\ a <= d
  BY <1>5, <1>9
<1>11. a \in 0 .. n - 1
  BY <1>10, Ages
<1>12. d < a
  BY <1>2, <1>5, <1>8, <1>10, UndoneYounger
<1> QED BY <1>5, <1>10, <1>11, <1>12

LEMMA PaceRecover ==
  ASSUME NEW n, Paced(n), Recover, NEW b, Asked(b), NEW k, k = Dist(head, b) + 1 - Left
  PROVE  Pace(k)'
<1>1. /\ CoreInv /\ TypeOK /\ Pace(n) /\ n \in 0 .. ROB_DEPTH /\ WindowIs(n) /\ n <= 2
      /\ redirect # None
  BY DEF Paced, CoreInv, Pace, Counts, Recover, Flush
<1>2. PICK d : d = Dist(head, b)
  OBVIOUS
<1>3. /\ d \in 0 .. n - 1 /\ AgeIs(redirect.tag, d) /\ k \in 0 .. n
      /\ \A t, z : AgeIs(t, z)' => \E a : AgeIs(t, a) /\ z = a - Left /\ a <= d
  BY <1>1, <1>2, WindowRecover
<1>4. /\ St' = {} /\ storage' = None /\ r2d_skid' = None
      /\ hold_alu' = None /\ hold_bru' = None /\ hold_lsu' = None
      /\ F3' /\ ~G1' /\ ~G2' /\ ~F1' /\ ~F2'
      /\ bru_q' = None /\ m0' = None /\ m1' = None
      /\ redirect' = None /\ block_cnt' = 2
  BY <1>1, EmptyAfterFlush DEF F3, F2, F1, G1, G2
<1>5. OneAtATime'
  BY <1>4 DEF OneAtATime
<1>6. Shapes' /\ Counts(k)'
  BY <1>1, <1>3, <1>4 DEF Shapes, Counts
<1>7. Order(k)'
  BY <1>4 DEF Order
<1>8. Awaited'
  <2>1. ASSUME NEW r \in Areg, NEW p, p = rat'[r] PROVE Due(p)'
    <3>1. Known(p)
      BY <1>1, <2>1 DEF Pace, Restorable, Recover, RenameRecover, MapRecover
    <3>2. Known(p)'
      BY <3>1 DEF Known, PregReady, Recover, PrfFlush
    <3> QED BY <3>2 DEF Due, DueIn, Computed
  <2> QED BY <1>4, <2>1 DEF Awaited
<1>9. Restorable'
  BY <1>4 DEF Restorable
<1> QED BY <1>5, <1>6, <1>7, <1>8, <1>9 DEF Pace

-----------------------------------------------------------------------------
LEMMA PaceInit == Init => PaceInv
<1> SUFFICES ASSUME Init PROVE PaceInv
  OBVIOUS
<1>1. /\ \A i \in Slot : ~entries[i].valid
      /\ head = 0 /\ tail = 0 /\ count = 0
  BY DEF Init, RobInit, ZeroEntry
<1>2. /\ storage = None /\ r2d_skid = None /\ f2d = None /\ d2r = None
      /\ f_out = None /\ req_pc = None /\ alu_q = None /\ bru_q = None
      /\ m0 = None /\ m1 = None /\ block_cnt = 0 /\ redirect = None
      /\ hold_alu = None /\ hold_bru = None /\ hold_lsu = None
  BY DEF Init, Fifo!FifoInit, R2d!SkidInit, D2r!SkidInit, F2d!SkidInit, FetchInit, AluInit,
         BruInit, LsuInit, RecoveryInit, RsAlu!RsInit, RsBru!RsInit, RsLsu!RsInit
<1>3. \A k \in RsIndex : rs_alu[k] = None /\ rs_bru[k] = None /\ rs_lsu[k] = None
  BY DEF Init, RsAlu!RsInit, RsBru!RsInit, RsLsu!RsInit, RsAlu!Index, RsBru!Index,
         RsLsu!Index, RsIndex
<1>4. St = {}
  BY <1>3 DEF St, Stations, RsIndex
<1>5. Running = {} /\ Branches = {}
  BY <1>1 DEF Running, Branches, LiveTags
<1>6. CoreInv /\ RegsInv
  BY InitCore, InitRegs
<1>7. Basics
  BY <1>2, <1>3, <1>4 DEF Basics, FrontBasics, UnitBasics, PacketBasics
<1>8. /\ F3 /\ ~G1 /\ ~G2 /\ ~F1 /\ ~F2 /\ ROB_DEPTH \in Nat /\ ROB_DEPTH >= 2
      /\ 0 \in 0 .. ROB_DEPTH
  BY <1>2, RobDepthAssumption DEF F3, F2, F1, G1, G2
<1>9. WindowIs(0)
  <2>1. head \in Slot
    BY <1>6 DEF CoreInv, TypeOK, RobTypeOK
  <2>2. Dist(head, tail) = 0
    BY <1>1, <2>1, DistFacts
  <2>3. \A i \in Slot : Dist(head, i) \in 0 .. ROB_DEPTH - 1
    BY <2>1, DistFacts
  <2> QED BY <1>1, <1>8, <2>2, <2>3 DEF WindowIs
<1>10. Snap(0)
  BY <1>5 DEF Snap
<1>11. Awaited
  <2>1. \A r \in Areg : Known(rat[r])
    BY <1>6 DEF Init, PrfInit, Known, PregReady, CoreInv, TypeOK, MapTypeOK
  <2> QED BY <1>2, <1>4, <2>1 DEF Awaited, Due, DueIn, Computed
<1>12. Pace(0)
  BY <1>2, <1>4, <1>5, <1>8, <1>11
     DEF Pace, OneAtATime, Shapes, Counts, Order, Restorable
<1>13. Blocked /\ Located
  BY <1>2, <1>5 DEF Blocked, Located
<1>14. TP!WindowOf(0)
  BY <1>9, SameWindow
<1> QED BY <1>6, <1>7, <1>8, <1>10, <1>12, <1>13, <1>14 DEF PaceInv

\* A step that changes nothing.
LEMMA PaceStutter ==
  ASSUME UNCHANGED vars
  PROVE  /\ Basics' <=> Basics
         /\ Blocked' <=> Blocked
         /\ Located' <=> Located
         /\ \A n : /\ WindowIs(n)' <=> WindowIs(n)
                   /\ Snap(n)' <=> Snap(n)
                   /\ Room(n)' <=> Room(n)
                   /\ Pace(n)' <=> Pace(n)
<1> USE DEF vars, robVars, tagVars, renameVars, ratVars, freeVars, prfVars, fetchVars,
            lsuVars, recoveryVars
<1>1. /\ St' = St /\ Branches' = Branches /\ Running' = Running
  BY DEF St, Stations, Branches, LiveTags, Running, Slot
<1>2. \A t, a : AgeIs(t, a)' <=> AgeIs(t, a)
  BY DEF AgeIs, Slot, Dist
<1>3. \A u, k, t : At(u, k, t)' <=> At(u, k, t)
  BY DEF At, Holds, RsIndex
<1>4. \A e : Ready(e)' <=> Ready(e)
  BY DEF Ready, RsAlu!OperandsReady
<1>5. /\ G1' <=> G1
      /\ G2' <=> G2
      /\ F1' <=> F1
      /\ F2' <=> F2
      /\ F3' <=> F3
  BY DEF G1, G2, F1, F2, F3
<1>6. /\ \A p : /\ Writing(p)' <=> Writing(p)
                /\ Loading(p)' <=> Loading(p)
                /\ Known(p)' <=> Known(p)
                /\ Queued(p)' <=> Queued(p)
                /\ Waiting(p)' <=> Waiting(p)
  BY <1>1 DEF Writing, Loading, Known, PregReady, Queued, Waiting
<1>7. \A p : /\ Computed(p)' <=> Computed(p)
             /\ DueIn(p)' <=> DueIn(p)
             /\ Due(p)' <=> Due(p)
  BY <1>6 DEF Computed, DueIn, Due
<1>8. Basics' <=> Basics
  BY <1>1 DEF Basics, FrontBasics, UnitBasics, PacketBasics, LoadsOnly, RsIndex
<1>9. /\ Blocked' <=> Blocked
      /\ Located' <=> Located
  BY <1>1, <1>3, <1>5 DEF Blocked, Located
<1>10. ASSUME NEW n
       PROVE  /\ WindowIs(n)' <=> WindowIs(n)
              /\ Snap(n)' <=> Snap(n)
              /\ Room(n)' <=> Room(n)
              /\ Pace(n)' <=> Pace(n)
  <2>1. /\ WindowIs(n)' <=> WindowIs(n)
        /\ Room(n)' <=> Room(n)
    BY DEF WindowIs, Slot, Dist, Room
  <2>2. Snap(n)' <=> Snap(n)
    BY <1>1, <1>2 DEF Snap
  <2>3. AllReady' <=> AllReady
    BY <1>1, <1>4 DEF AllReady
  <2>4. /\ OneAtATime' <=> OneAtATime
        /\ Shapes' <=> Shapes
        /\ Counts(n)' <=> Counts(n)
    BY <1>1, <1>2, <1>5, <2>3 DEF OneAtATime, Shapes, Counts
  <2>5. Order(n)' <=> Order(n)
    BY <1>1, <1>2, <1>3 DEF Order
  <2>6. /\ Awaited' <=> Awaited
        /\ Restorable' <=> Restorable
    BY <1>1, <1>6, <1>7 DEF Awaited, Restorable
  <2> QED BY <2>1, <2>2, <2>4, <2>5, <2>6 DEF Pace
<1> QED BY <1>8, <1>9, <1>10

LEMMA PaceStep == PaceInv /\ [Next]_vars => PaceInv'
<1> SUFFICES ASSUME PaceInv, [Next]_vars PROVE PaceInv'
  OBVIOUS
<1>1. CoreInv /\ RegsInv /\ Basics /\ Blocked /\ Located /\ CoreInv' /\ RegsInv'
  BY CoreStep, RegsStep DEF PaceInv
<1>2. PICK n \in 0 .. ROB_DEPTH : WindowIs(n) /\ Snap(n) /\ (Room(n) => Pace(n))
  BY SameWindow DEF PaceInv
<1>3. CASE Cycle
  <2>1. PICK m : m = n - Left + Added
    OBVIOUS
  <2>2. m \in 0 .. ROB_DEPTH /\ WindowIs(m)' /\ Snap(m)' /\ (Room(m)' => Room(n))
    BY <1>1, <1>2, <1>3, <2>1, WindowRun, SnapRun
  <2>3. Room(m)' => Pace(m)'
    BY <1>1, <1>2, <1>3, <2>1, <2>2, PaceRun DEF Paced
  <2>4. TP!WindowOf(m)'
    BY <2>2, SameWindow
  <2> QED BY <1>1, <1>3, <2>2, <2>3, <2>4, BasicsRun, BlockedRun, LocatedRun DEF PaceInv
<1>4. CASE Recover
  <2>1. PICK b : Asked(b)
    BY <1>1, <1>4, RecoveredBranch DEF RegsInv
  <2>2. PICK k : k = Dist(head, b) + 1 - Left
    OBVIOUS
  <2>3. k \in 0 .. n /\ WindowIs(k)' /\ Snap(k)' /\ (Room(k)' => Room(n))
    BY <1>1, <1>2, <1>4, <2>1, <2>2, WindowRecover, SnapRecover
  <2>4. Room(k)' => Pace(k)'
    BY <1>1, <1>2, <1>4, <2>1, <2>2, <2>3, PaceRecover DEF Paced
  <2>5. TP!WindowOf(k)' /\ k \in 0 .. ROB_DEPTH
    BY <2>3, SameWindow, RobDepthAssumption
  <2>6. Located' /\ Blocked'
    BY <1>1, <1>2, <1>4, <2>1, LocatedRecover
  <2> QED BY <1>1, <1>4, <2>3, <2>4, <2>5, <2>6, BasicsRecover DEF PaceInv
<1>5. CASE UNCHANGED vars
  <2>1. Basics' /\ Blocked' /\ Located' /\ WindowIs(n)' /\ Snap(n)' /\ (Room(n)' => Pace(n)')
    BY <1>1, <1>2, <1>5, PaceStutter
  <2>2. TP!WindowOf(n)'
    BY <2>1, SameWindow
  <2> QED BY <1>1, <2>1, <2>2 DEF PaceInv
<1> QED BY <1>3, <1>4, <1>5 DEF Next

\* The age of an instruction is that of its slot.
LEMMA SlotAge ==
  ASSUME CoreInv, NEW t, NEW a, AgeIs(t, a)
  PROVE  Dist(head, SlotOf(t)) = a
<1>1. PICK i \in Slot : entries[i].valid /\ entries[i].tag = t /\ Dist(head, i) = a
  BY DEF AgeIs
<1>2. \A j \in Slot : entries[j].valid /\ entries[j].tag = t => i = j
  BY <1>1 DEF CoreInv, TP!Inv, TP!TagsUnique, TP!ValidSlots, TP!Slot, Slot
<1>3. SlotOf(t) = i
  BY <1>1, <1>2 DEF SlotOf
<1> QED BY <1>1, <1>3

(***************************************************************************)
(* For every size of the core and every program: a flush finds nothing in  *)
(* the stations and in the load pipeline that is in the ROB and is not     *)
(* younger than the branch that asked for it (rs.sv and lsu_fu.sv look at  *)
(* no tags when flush_i is 1).                                             *)
(***************************************************************************)
THEOREM FlushesSpareOlder == Spec => []FlushKillsOnlyYounger
<1>1. PaceInv => FlushKillsOnlyYounger
  <2> SUFFICES ASSUME PaceInv, Flush, NEW t \in Pending \cap LiveTags
               PROVE  Older(redirect.tag, t)
    BY DEF FlushKillsOnlyYounger
  <2>1. PICK n \in 0 .. ROB_DEPTH : WindowIs(n) /\ (Room(n) => Pace(n))
    BY SameWindow DEF PaceInv
  <2>2. CoreInv /\ TypeOK /\ redirect # None
    BY DEF PaceInv, CoreInv, Flush
  <2>3. PICK u, k : At(u, k, t)
    <3>1. PICK e \in (Stations \cup {m0, m1}) \ {None} : t = e.rob_tag
      BY DEF Pending
    <3>2. CASE e \in St
      BY <2>2, <3>1, <3>2, Places
    <3>3. CASE e = m0 \/ e = m1
      <4>1. At("m0", 0, t) \/ At("m1", 0, t)
        BY <3>1, <3>3 DEF At, Holds
      <4> QED BY <4>1
    <3> QED BY <3>1, <3>2, <3>3 DEF St
  <2>4. t \in Running /\ t \in LiveTags
    BY <2>2, <2>3 DEF CoreInv, AtRunning
  <2>5. PICK d : AgeIs(redirect.tag, d)
    BY <2>1, <2>2, Ages DEF CoreInv, RedirectOK, Branches
  <2>6. PICK a : AgeIs(t, a)
    BY <2>1, <2>2, <2>4, Ages
  <2>7. d < a
    BY <2>1, <2>2, <2>4, <2>5, <2>6, UndoneYounger DEF PaceInv
  <2>8. Dist(head, SlotOf(redirect.tag)) = d /\ Dist(head, SlotOf(t)) = a
    BY <2>2, <2>5, <2>6, SlotAge
  <2> QED BY <2>7, <2>8 DEF Older
<1> QED BY <1>1, PaceInit, PaceStep, PTL DEF Spec

(***************************************************************************)
(* For every size of the core and every program: each instruction in the   *)
(* ROB that has no result is in a station or a unit; no flush, closed unit *)
(* or late answer of the memory (rs.sv, lsu_fu.sv) loses it.               *)
(***************************************************************************)
THEOREM NothingIsForgotten == Spec => []NothingForgotten
<1>1. PaceInv => NothingForgotten
  <2> SUFFICES ASSUME PaceInv, NEW t \in Running PROVE t \in OnTheWay
    BY DEF NothingForgotten, Undone, Running
  <2>1. TypeOK /\ \E u, k : At(u, k, t)
    BY DEF PaceInv, CoreInv, Located
  <2>2. \/ \E e \in St : e.rob_tag = t
        \/ alu_q # None /\ alu_q.e.rob_tag = t
        \/ Holds(bru_q, t) \/ Holds(m0, t) \/ Holds(m1, t)
    BY <2>1, Places
  <2> QED BY <2>2 DEF OnTheWay, St, Holds
<1> QED BY <1>1, PaceInit, PaceStep, PTL DEF Spec

-----------------------------------------------------------------------------
(***************************************************************************)
(* What else the pace gives.  Recoveries have left count so far above the  *)
(* number of entries that the ROB takes one instruction at a time:         *)
(***************************************************************************)
NoRoom == \E n \in 0 .. ROB_DEPTH : WindowIs(n) /\ ~Room(n)

LEMMA SkidEmpty ==
  ASSUME PaceInv, ~NoRoom
  PROVE  r2d_skid = None
<1>1. PICK n \in 0 .. ROB_DEPTH : WindowIs(n) /\ (Room(n) => Pace(n))
  BY SameWindow DEF PaceInv
<1>2. Room(n)
  BY <1>1 DEF NoRoom
<1> QED BY <1>1, <1>2 DEF Pace, OneAtATime

(***************************************************************************)
(* For every size of the core and every program: as long as the ROB has    *)
(* room, physical registers are lost in recoveries only; the skid buffer   *)
(* behind rename, which could drop a renamed packet with its register      *)
(* (skidbuffer.sv:45), is empty.                                           *)
(***************************************************************************)
LostInRecoveriesWithRoom == [][Flush \/ NoRoom \/ Lost' \subseteq Lost]_vars

THEOREM LossesNeedNoRoom == Spec => LostInRecoveriesWithRoom
<1>1. PaceInv /\ [Flush \/ Lost' \subseteq Lost \cup Dropped]_vars =>
        [Flush \/ NoRoom \/ Lost' \subseteq Lost]_vars
  BY SkidEmpty DEF Dropped
<1> QED BY <1>1, PaceInit, PaceStep, LossesAreKnown, PTL
        DEF Spec, LossesKnown, LostInRecoveriesWithRoom

(***************************************************************************)
(* For every size of the core and every program: the buffer between decode *)
(* and rename, which drops what it accepts in the cycle it is drained,     *)
(* fills only when rename has no register or no tag for its instruction,   *)
(* or the ROB has no room.                                                 *)
(***************************************************************************)
FillsOnStalls ==
  [][d2r = None /\ d2r' # None =>
       NoRoom \/ (RenameIn # None /\ ~CanRename(RenameIn, TagOk))]_vars

THEOREM BuffersFillOnStalls == Spec => FillsOnStalls
<1>1. PaceInv /\ [Next]_vars =>
        [d2r = None /\ d2r' # None =>
           NoRoom \/ (RenameIn # None /\ ~CanRename(RenameIn, TagOk))]_vars
  <2> SUFFICES ASSUME PaceInv, Next, d2r = None, d2r' # None, ~NoRoom
               PROVE  RenameIn # None /\ ~CanRename(RenameIn, TagOk)
    BY DEF vars
  <2>1. CASE Cycle
    <3>1. ~RenameReady
      BY <2>1 DEF Cycle, D2r!SkidEdge
    <3> QED BY <3>1, SkidEmpty DEF RenameReady, R2dReady, R2d!SkidReady
  <2>2. CASE Recover
    BY <2>2 DEF Recover, D2r!SkidFlush
  <2> QED BY <2>1, <2>2 DEF Next
<1> QED BY <1>1, PaceInit, PaceStep, PTL DEF Spec, FillsOnStalls

=============================================================================
