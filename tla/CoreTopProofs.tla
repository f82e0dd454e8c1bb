---------------------------- MODULE CoreTopProofs ---------------------------
(***************************************************************************)
(* Proofs about CoreTop: its types, and that the path of the tags in it is *)
(* a RobTags, whose environment, the stations and the units, keeps to what *)
(* RobTags assumes of it.  The invariant is CoreInv: the instructions that *)
(* have not written back are each in one place of the stations and units   *)
(* (AtRunning, AtOnce), so each writes back once; what the branch unit     *)
(* resolves is a branch in the ROB (BranchesTracked); and what asks for a  *)
(* recovery is one that has written back (RedirectOK).  At the end: that   *)
(* the physical registers stay apart, and in which ways they are lost.     *)
(***************************************************************************)
EXTENDS CoreTop, NatLemmas, FiniteSetTheorems

USE RobDepthAssumption, PhysRegsAssumption, ArchRegsAssumption, WordsAssumption,
    RsDepthAssumption

\* The tag path with what is proved about it.
TP == INSTANCE RobTagsProofs WITH
        NoPkt <- None,
        RenameInput <- [rd_used : BOOLEAN, old_prd : Preg, is_branch : BOOLEAN],
        r2d_skid <- TagPacket(r2d_skid),
        storage <- TagPacket(storage),
        branches <- {t \in LiveTags : inflight[t] # None /\ inflight[t].pkt.is_branch}

\* What TP assumes of its constants.
LEMMA TagsAssumptions ==
  /\ TP!RobDepthAssumption /\ TP!PhysRegsAssumption /\ TP!ArchRegsAssumption
  /\ TP!RenameInputAssumption /\ TP!NoPktAssumption
  BY NoneAssumption
     DEF TP!RobDepthAssumption, TP!PhysRegsAssumption, TP!ArchRegsAssumption,
         TP!RenameInputAssumption, TP!NoPktAssumption, TP!Packet, TP!Tag, TP!Preg,
         Tag, Preg
-----------------------------------------------------------------------------
(***************************************************************************)
(* The types of the wires.                                                 *)
(***************************************************************************)

\* Words and addresses are in range.
LEMMA DataTypes ==
  /\ \A n \in Int : WordOf(n) \in Word
  /\ \A n : PcOf(n) \in Pc
  /\ 0 \in Word /\ 0 \in Pc /\ 0 \in Tag /\ 0 \in Preg /\ 0 \in Areg
  /\ Word \subseteq Int /\ Pc \subseteq Int
  BY DEF WordOf, PcOf, Word, Pc, Tag, Preg, Areg

\* Decode makes decode packets.
LEMMA DecodeType ==
  ASSUME NEW pc \in Pc, NEW i \in Insn
  PROVE  DecodeInsn(pc, i) \in DecodePkt
<1>1. ASSUME NEW j \in Insn PROVE DefaultPkt(pc, j) \in DecodePkt
  BY DEF DefaultPkt, DecodePkt, Insn, FuType, AluOp
<1> DEFINE d == DefaultPkt(pc, i)
<1>2. d \in DecodePkt
  BY <1>1
<1>3. UnknownPkt(pc) \in DecodePkt
  <2>1. Nop \in Insn
    BY DEF Nop, Insn, Opcode, Funct, Areg
  <2> QED BY <1>1, <2>1 DEF UnknownPkt
<1>4. i.imm \in Int /\ AluOpOf(i) \in AluOp /\ i.op \in Opcode
  BY DEF Insn, AluOpOf, AluOp
<1> DEFINE rd == i.rd # 0
<1>5. rd \in BOOLEAN
  OBVIOUS
<1> HIDE DEF d, rd
<1> DEFINE kind == IF i.op \in {"LOAD", "STORE"} THEN "LSU" ELSE "BRU"
<1>6. /\ [d EXCEPT !.alu_op = "LUI", !.rd_used = rd, !.imm = i.imm, !.imm_used = TRUE] \in DecodePkt
  BY <1>2, <1>4, <1>5 DEF DecodePkt, AluOp
<1>7. [d EXCEPT !.alu_op = AluOpOf(i), !.rd_used = rd, !.rs1_used = TRUE,
                       !.imm = i.imm, !.imm_used = TRUE] \in DecodePkt
  BY <1>2, <1>4, <1>5 DEF DecodePkt
<1>8. [d EXCEPT !.alu_op = AluOpOf(i), !.rd_used = rd,
                       !.rs1_used = TRUE, !.rs2_used = TRUE] \in DecodePkt
  BY <1>2, <1>4, <1>5 DEF DecodePkt
<1>9. [d EXCEPT !.fu_type = "LSU", !.is_load = TRUE, !.rd_used = rd,
                       !.rs1_used = TRUE, !.imm = i.imm, !.imm_used = TRUE] \in DecodePkt
  BY <1>2, <1>4, <1>5 DEF DecodePkt, FuType
<1>10. [d EXCEPT !.fu_type = "LSU", !.is_store = TRUE, !.rs1_used = TRUE,
                       !.rs2_used = TRUE, !.imm = i.imm, !.imm_used = TRUE] \in DecodePkt
  BY <1>2, <1>4, <1>5 DEF DecodePkt, FuType
<1>11. [d EXCEPT !.fu_type = "BRU", !.is_branch = TRUE, !.rs1_used = TRUE,
                       !.rs2_used = TRUE, !.imm = i.imm, !.imm_used = TRUE] \in DecodePkt
  BY <1>2, <1>4, <1>5 DEF DecodePkt, FuType
<1>12. [d EXCEPT !.fu_type = "BRU", !.is_jump = TRUE, !.rd_used = rd,
                       !.imm = i.imm, !.imm_used = TRUE] \in DecodePkt
  BY <1>2, <1>4, <1>5 DEF DecodePkt, FuType
<1>13. [d EXCEPT !.fu_type = "BRU", !.is_jump = TRUE, !.is_jalr = TRUE,
                       !.rd_used = rd, !.rs1_used = TRUE,
                       !.imm = i.imm, !.imm_used = TRUE] \in DecodePkt
  BY <1>2, <1>4, <1>5 DEF DecodePkt, FuType
<1> QED
  BY <1>3, <1>6, <1>7, <1>8, <1>9, <1>10, <1>11, <1>12, <1>13, <1>4 DEF DecodeInsn, Opcode, d, rd

\* The free list offers a register.
LEMMA FoundPregType ==
  ASSUME FreeTypeOK
  PROVE  /\ FoundPreg \in Preg
         /\ HasFree => FoundPreg \in free_map /\ FoundPreg >= N_ARCH_REGS
<1>1. CASE HasFree
  <2>1. Allocatable \subseteq Nat
    <3>1. free_map \subseteq Preg
      BY DEF FreeTypeOK
    <3>2. Preg \subseteq Nat
      BY DEF Preg
    <3> QED BY <3>1, <3>2 DEF Allocatable
  <2>2. \E p \in Allocatable : \A q \in Allocatable : p <= q
    BY <1>1, <2>1, LeastElement DEF HasFree
  <2>3. FoundPreg \in Allocatable
    BY <1>1, <2>2 DEF FoundPreg
  <2> QED BY <2>3 DEF Allocatable, FreeTypeOK
<1>2. CASE ~HasFree
  BY <1>2, DataTypes DEF FoundPreg
<1> QED BY <1>1, <1>2

\* Rename makes rename packets.
LEMMA RenamedType ==
  ASSUME FreeTypeOK, MapTypeOK, NEW d \in DecodePkt, NEW t \in Tag, NEW v
  PROVE  Renamed(d, t, v) \in RenamePkt
<1>1. FoundPreg \in Preg /\ 0 \in Preg
  BY FoundPregType, DataTypes
<1>2. rat[d.rs1] \in Preg /\ rat[d.rs2] \in Preg /\ rat[d.rd] \in Preg
  BY DEF MapTypeOK, DecodePkt
<1>3. /\ NeedAlloc(d) \in BOOLEAN /\ (d.is_branch \/ d.is_jump) \in BOOLEAN
      /\ PregReady(rat[d.rs1], v) \in BOOLEAN /\ PregReady(rat[d.rs2], v) \in BOOLEAN
  BY DEF NeedAlloc, PregReady, DecodePkt
<1> QED BY <1>1, <1>2, <1>3 DEF Renamed, RenamePkt
-----------------------------------------------------------------------------
(***************************************************************************)
(* The stations.                                                           *)
(***************************************************************************)
RsIndex == 0 .. RS_DEPTH - 1

\* f is the instruction e, apart from what is known of its operands.
SameInsn(e, f) ==
  /\ f \in RenamePkt
  /\ f.rob_tag = e.rob_tag /\ f.d = e.d /\ f.is_branch = e.is_branch

\* What an edge makes of a station's slots: a packet that is inserted goes to an
\* empty one, and the instruction that is granted leaves.
StationStep(old, new, insert, granted) ==
  \E in, sel :
    /\ insert # None => in \in RsIndex /\ old[in] = None
    /\ granted # None => sel \in RsIndex /\ old[sel] = granted
    /\ \A k \in RsIndex : new[k] # None =>
         \/ insert # None /\ k = in /\ SameInsn(insert, new[k])
         \/ /\ old[k] # None /\ SameInsn(old[k], new[k])
            /\ granted # None => k # sel

\* The same in the words of rs.sv: packet in of the slots gets the packet that is
\* inserted, if any, slot sel is emptied when its packet is granted, and the
\* others are woken by the registers in L.
Moves(old, new, insert, iss, in, sel, K, L) ==
  /\ \A k \in RsIndex : old[k] \in RenamePkt \cup {None}
  /\ insert # None => in \in RsIndex /\ old[in] = None
  /\ iss # None => sel \in RsIndex /\ old[sel] = iss
  /\ \A k \in RsIndex : new[k] =
       IF insert # None /\ k = in THEN RsAlu!Wake(insert, K)
       ELSE IF old[k] # None /\ ~(iss # None /\ k = sel)
       THEN RsAlu!Wake(old[k], L) ELSE None

\* Waking changes an instruction in what is known of its operands only.
LEMMA WakeIs ==
  ASSUME NEW e \in RenamePkt, NEW M
  PROVE  /\ SameInsn(e, RsAlu!Wake(e, M))
         /\ RsAlu!Wake(e, M).rd_used = e.rd_used /\ RsAlu!Wake(e, M).prd = e.prd
         /\ RsAlu!Wake(e, M).prs1 = e.prs1 /\ RsAlu!Wake(e, M).prs2 = e.prs2
         /\ RsAlu!Wake(e, M).prs1_ready <=> e.prs1_ready \/ e.prs1 \in M
         /\ RsAlu!Wake(e, M).prs2_ready <=> e.prs2_ready \/ e.prs2 \in M
<1> DEFINE b == e.prs1_ready \/ e.prs1 \in M
           c == e.prs2_ready \/ e.prs2 \in M
<1>1. b \in BOOLEAN /\ c \in BOOLEAN
  OBVIOUS
<1> HIDE DEF b, c
<1>2. RsAlu!Wake(e, M) = [e EXCEPT !.prs1_ready = b, !.prs2_ready = c]
  BY DEF RsAlu!Wake, b, c, RenamePkt
<1>3. /\ SameInsn(e, RsAlu!Wake(e, M))
      /\ RsAlu!Wake(e, M).rd_used = e.rd_used /\ RsAlu!Wake(e, M).prd = e.prd
      /\ RsAlu!Wake(e, M).prs1 = e.prs1 /\ RsAlu!Wake(e, M).prs2 = e.prs2
      /\ RsAlu!Wake(e, M).prs1_ready = b /\ RsAlu!Wake(e, M).prs2_ready = c
  BY <1>1, <1>2 DEF SameInsn, RenamePkt
<1> QED BY <1>3 DEF b, c

LEMMA StationAfter ==
  ASSUME NEW old, NEW new, NEW insert, NEW iss, NEW in, NEW sel, NEW K, NEW L,
         insert \in RenamePkt \cup {None},
         Moves(old, new, insert, iss, in, sel, K, L)
  PROVE  /\ \A k \in RsIndex : new[k] \in RenamePkt \cup {None}
         /\ StationStep(old, new, insert, iss)
<1>1. \A k \in RsIndex : new[k] # None =>
        \/ insert # None /\ k = in /\ SameInsn(insert, new[k])
        \/ /\ old[k] # None /\ SameInsn(old[k], new[k])
           /\ iss # None => k # sel
  BY WakeIs DEF Moves
<1>2. ASSUME NEW k \in RsIndex PROVE new[k] \in RenamePkt \cup {None}
  BY <1>1 DEF SameInsn
<1> QED BY <1>1, <1>2 DEF StationStep, Moves

\* The lowest of a set of slots is one of them.
LEMMA LowestIs ==
  ASSUME NEW S, S \subseteq RsIndex, S # {}
  PROVE  (CHOOSE k \in S : \A j \in S : k <= j) \in S
<1>1. S \subseteq Nat
  BY DEF RsIndex
<1>2. \E k \in S : \A j \in S : k <= j
  BY <1>1, LeastElement
<1> QED BY <1>2

\* What issues is what the selected slot of the station holds.
LEMMA AluSelected ==
  ASSUME RsAlu!RsTypeOK(RenamePkt)
  PROVE  /\ RsAlu!SelValid => RsAlu!Sel \in RsIndex
         /\ RsAlu!IssueEntry \in RenamePkt \cup {None}
         /\ RsAlu!IssueEntry # None => /\ RsAlu!SelValid /\ RsAlu!Sel \in RsIndex
                                      /\ RsAlu!IssueEntry = rs_alu[RsAlu!Sel]
<1>1. RsAlu!ReadySlots \subseteq RsIndex
  BY DEF RsAlu!ReadySlots, RsAlu!Index, RsIndex
<1>2. RsAlu!SelValid => RsAlu!Sel \in RsIndex
  BY <1>1, LowestIs
     DEF RsAlu!SelValid, RsAlu!Sel, RsAlu!Lowest, RsAlu!RsTypeOK, RsAlu!Index, RsIndex
<1> QED BY <1>2 DEF RsAlu!IssueEntry, RsAlu!RsTypeOK, RsAlu!Index, RsIndex

LEMMA AluStep ==
  ASSUME RsAlu!RsTypeOK(RenamePkt),
         NEW insert \in RenamePkt \cup {None}, insert # None => RsAlu!RsReady,
         NEW iss \in {None, RsAlu!IssueEntry}, NEW v, NEW w,
         RsAlu!RsEdge(insert, v, w, iss # None)
  PROVE  /\ RsAlu!RsTypeOK(RenamePkt)'
         /\ StationStep(rs_alu, rs_alu', insert, iss)
         /\ \E in, sel : Moves(rs_alu, rs_alu', insert, iss, in, sel, v \cup {0} \cup w, w)
<1> DEFINE in == RsAlu!Lowest(RsAlu!FreeSlots)
           K == v \cup {0} \cup w
<1>1. /\ \A k \in RsIndex : rs_alu[k] \in RenamePkt \cup {None}
      /\ hold_alu \in RsIndex \cup {None}
  BY DEF RsAlu!RsTypeOK, RsAlu!Index, RsIndex
<1>2. /\ RsAlu!SelValid => RsAlu!Sel \in RsIndex
      /\ iss # None => RsAlu!SelValid /\ RsAlu!Sel \in RsIndex /\ rs_alu[RsAlu!Sel] = iss
  BY AluSelected
<1>3. hold_alu' \in RsIndex \cup {None}
  BY <1>1, <1>2 DEF RsAlu!RsEdge, RsAlu!NextHold
<1>4. insert # None => in \in RsIndex /\ rs_alu[in] = None
  <2>1. RsAlu!FreeSlots \subseteq RsIndex
    BY DEF RsAlu!FreeSlots, RsAlu!Index, RsIndex
  <2>2. insert # None => in \in RsAlu!FreeSlots
    BY <2>1, LowestIs DEF RsAlu!RsReady, RsAlu!Lowest
  <2> HIDE DEF in
  <2> QED BY <2>1, <2>2 DEF RsAlu!FreeSlots
<1>5. ASSUME NEW k \in RsIndex
      PROVE  rs_alu'[k] = IF insert # None /\ k = in THEN RsAlu!Wake(insert, K)
                         ELSE IF rs_alu[k] # None /\ ~(iss # None /\ k = RsAlu!Sel)
                         THEN RsAlu!Wake(rs_alu[k], w) ELSE None
  <2>1. rs_alu'[k] = RsAlu!NextSlot(k, insert, v, w, iss # None)
    BY DEF RsAlu!RsEdge, RsAlu!Index, RsIndex
  <2> HIDE DEF K
  <2>2. \A e, M : RsAlu!Wake(e, M) = RsAlu!Wake(e, M)
    OBVIOUS
  <2> QED BY <1>2, <1>4, <2>1, <2>2 DEF RsAlu!NextSlot, K
<1> HIDE DEF in, K
<1>6. Moves(rs_alu, rs_alu', insert, iss, in, RsAlu!Sel, K, w)
  BY <1>1, <1>2, <1>4, <1>5 DEF Moves
<1>7. /\ \A k \in RsIndex : rs_alu'[k] \in RenamePkt \cup {None}
      /\ StationStep(rs_alu, rs_alu', insert, iss)
  BY <1>6, StationAfter
<1>8. RsAlu!RsTypeOK(RenamePkt)'
  <2>1. rs_alu' = [k \in RsIndex |-> rs_alu'[k]]
    BY DEF RsAlu!RsEdge, RsAlu!Index, RsIndex
  <2>2. rs_alu' \in [RsIndex -> RenamePkt \cup {None}]
    BY <1>7, <2>1
  <2> QED BY <1>3, <2>2 DEF RsAlu!RsTypeOK, RsAlu!Index, RsIndex
<1>9. \E i, sel : Moves(rs_alu, rs_alu', insert, iss, i, sel, K, w)
  BY <1>6
<1> QED BY <1>7, <1>8, <1>9 DEF K

\* What issues is what the selected slot of the station holds.
LEMMA BruSelected ==
  ASSUME RsBru!RsTypeOK(RenamePkt)
  PROVE  /\ RsBru!SelValid => RsBru!Sel \in RsIndex
         /\ RsBru!IssueEntry \in RenamePkt \cup {None}
         /\ RsBru!IssueEntry # None => /\ RsBru!SelValid /\ RsBru!Sel \in RsIndex
                                      /\ RsBru!IssueEntry = rs_bru[RsBru!Sel]
<1>1. RsBru!ReadySlots \subseteq RsIndex
  BY DEF RsBru!ReadySlots, RsBru!Index, RsIndex
<1>2. RsBru!SelValid => RsBru!Sel \in RsIndex
  BY <1>1, LowestIs
     DEF RsBru!SelValid, RsBru!Sel, RsBru!Lowest, RsBru!RsTypeOK, RsBru!Index, RsIndex
<1> QED BY <1>2 DEF RsBru!IssueEntry, RsBru!RsTypeOK, RsBru!Index, RsIndex

LEMMA BruStep ==
  ASSUME RsBru!RsTypeOK(RenamePkt),
         NEW insert \in RenamePkt \cup {None}, insert # None => RsBru!RsReady,
         NEW iss \in {None, RsBru!IssueEntry}, NEW v, NEW w,
         RsBru!RsEdge(insert, v, w, iss # None)
  PROVE  /\ RsBru!RsTypeOK(RenamePkt)'
         /\ StationStep(rs_bru, rs_bru', insert, iss)
         /\ \E in, sel : Moves(rs_bru, rs_bru', insert, iss, in, sel, v \cup {0} \cup w, w)
<1> DEFINE in == RsBru!Lowest(RsBru!FreeSlots)
           K == v \cup {0} \cup w
<1>1. /\ \A k \in RsIndex : rs_bru[k] \in RenamePkt \cup {None}
      /\ hold_bru \in RsIndex \cup {None}
  BY DEF RsBru!RsTypeOK, RsBru!Index, RsIndex
<1>2. /\ RsBru!SelValid => RsBru!Sel \in RsIndex
      /\ iss # None => RsBru!SelValid /\ RsBru!Sel \in RsIndex /\ rs_bru[RsBru!Sel] = iss
  BY BruSelected
<1>3. hold_bru' \in RsIndex \cup {None}
  BY <1>1, <1>2 DEF RsBru!RsEdge, RsBru!NextHold
<1>4. insert # None => in \in RsIndex /\ rs_bru[in] = None
  <2>1. RsBru!FreeSlots \subseteq RsIndex
    BY DEF RsBru!FreeSlots, RsBru!Index, RsIndex
  <2>2. insert # None => in \in RsBru!FreeSlots
    BY <2>1, LowestIs DEF RsBru!RsReady, RsBru!Lowest
  <2> HIDE DEF in
  <2> QED BY <2>1, <2>2 DEF RsBru!FreeSlots
<1>5. ASSUME NEW k \in RsIndex
      PROVE  rs_bru'[k] = IF insert # None /\ k = in THEN RsAlu!Wake(insert, K)
                         ELSE IF rs_bru[k] # None /\ ~(iss # None /\ k = RsBru!Sel)
                         THEN RsAlu!Wake(rs_bru[k], w) ELSE None
  <2>1. rs_bru'[k] = RsBru!NextSlot(k, insert, v, w, iss # None)
    BY DEF RsBru!RsEdge, RsBru!Index, RsIndex
  <2> HIDE DEF K
  <2>2. \A e, M : RsBru!Wake(e, M) = RsAlu!Wake(e, M)
    BY DEF RsBru!Wake, RsAlu!Wake
  <2> QED BY <1>2, <1>4, <2>1, <2>2 DEF RsBru!NextSlot, K
<1> HIDE DEF in, K
<1>6. Moves(rs_bru, rs_bru', insert, iss, in, RsBru!Sel, K, w)
  BY <1>1, <1>2, <1>4, <1>5 DEF Moves
<1>7. /\ \A k \in RsIndex : rs_bru'[k] \in RenamePkt \cup {None}
      /\ StationStep(rs_bru, rs_bru', insert, iss)
  BY <1>6, StationAfter
<1>8. RsBru!RsTypeOK(RenamePkt)'
  <2>1. rs_bru' = [k \in RsIndex |-> rs_bru'[k]]
    BY DEF RsBru!RsEdge, RsBru!Index, RsIndex
  <2>2. rs_bru' \in [RsIndex -> RenamePkt \cup {None}]
    BY <1>7, <2>1
  <2> QED BY <1>3, <2>2 DEF RsBru!RsTypeOK, RsBru!Index, RsIndex
<1>9. \E i, sel : Moves(rs_bru, rs_bru', insert, iss, i, sel, K, w)
  BY <1>6
<1> QED BY <1>7, <1>8, <1>9 DEF K

\* What issues is what the selected slot of the station holds.
LEMMA LsuSelected ==
  ASSUME RsLsu!RsTypeOK(RenamePkt)
  PROVE  /\ RsLsu!SelValid => RsLsu!Sel \in RsIndex
         /\ RsLsu!IssueEntry \in RenamePkt \cup {None}
         /\ RsLsu!IssueEntry # None => /\ RsLsu!SelValid /\ RsLsu!Sel \in RsIndex
                                      /\ RsLsu!IssueEntry = rs_lsu[RsLsu!Sel]
<1>1. RsLsu!ReadySlots \subseteq RsIndex
  BY DEF RsLsu!ReadySlots, RsLsu!Index, RsIndex
<1>2. RsLsu!SelValid => RsLsu!Sel \in RsIndex
  BY <1>1, LowestIs
     DEF RsLsu!SelValid, RsLsu!Sel, RsLsu!Lowest, RsLsu!RsTypeOK, RsLsu!Index, RsIndex
<1> QED BY <1>2 DEF RsLsu!IssueEntry, RsLsu!RsTypeOK, RsLsu!Index, RsIndex

LEMMA LsuStep ==
  ASSUME RsLsu!RsTypeOK(RenamePkt),
         NEW insert \in RenamePkt \cup {None}, insert # None => RsLsu!RsReady,
         NEW iss \in {None, RsLsu!IssueEntry}, NEW v, NEW w,
         RsLsu!RsEdge(insert, v, w, iss # None)
  PROVE  /\ RsLsu!RsTypeOK(RenamePkt)'
         /\ StationStep(rs_lsu, rs_lsu', insert, iss)
         /\ \E in, sel : Moves(rs_lsu, rs_lsu', insert, iss, in, sel, v \cup {0} \cup w, w)
<1> DEFINE in == RsLsu!Lowest(RsLsu!FreeSlots)
           K == v \cup {0} \cup w
<1>1. /\ \A k \in RsIndex : rs_lsu[k] \in RenamePkt \cup {None}
      /\ hold_lsu \in RsIndex \cup {None}
  BY DEF RsLsu!RsTypeOK, RsLsu!Index, RsIndex
<1>2. /\ RsLsu!SelValid => RsLsu!Sel \in RsIndex
      /\ iss # None => RsLsu!SelValid /\ RsLsu!Sel \in RsIndex /\ rs_lsu[RsLsu!Sel] = iss
  BY LsuSelected
<1>3. hold_lsu' \in RsIndex \cup {None}
  BY <1>1, <1>2 DEF RsLsu!RsEdge, RsLsu!NextHold
<1>4. insert # None => in \in RsIndex /\ rs_lsu[in] = None
  <2>1. RsLsu!FreeSlots \subseteq RsIndex
    BY DEF RsLsu!FreeSlots, RsLsu!Index, RsIndex
  <2>2. insert # None => in \in RsLsu!FreeSlots
    BY <2>1, LowestIs DEF RsLsu!RsReady, RsLsu!Lowest
  <2> HIDE DEF in
  <2> QED BY <2>1, <2>2 DEF RsLsu!FreeSlots
<1>5. ASSUME NEW k \in RsIndex
      PROVE  rs_lsu'[k] = IF insert # None /\ k = in THEN RsAlu!Wake(insert, K)
                         ELSE IF rs_lsu[k] # None /\ ~(iss # None /\ k = RsLsu!Sel)
                         THEN RsAlu!Wake(rs_lsu[k], w) ELSE None
  <2>1. rs_lsu'[k] = RsLsu!NextSlot(k, insert, v, w, iss # None)
    BY DEF RsLsu!RsEdge, RsLsu!Index, RsIndex
  <2> HIDE DEF K
  <2>2. \A e, M : RsLsu!Wake(e, M) = RsAlu!Wake(e, M)
    BY DEF RsLsu!Wake, RsAlu!Wake
  <2> QED BY <1>2, <1>4, <2>1, <2>2 DEF RsLsu!NextSlot, K
<1> HIDE DEF in, K
<1>6. Moves(rs_lsu, rs_lsu', insert, iss, in, RsLsu!Sel, K, w)
  BY <1>1, <1>2, <1>4, <1>5 DEF Moves
<1>7. /\ \A k \in RsIndex : rs_lsu'[k] \in RenamePkt \cup {None}
      /\ StationStep(rs_lsu, rs_lsu', insert, iss)
  BY <1>6, StationAfter
<1>8. RsLsu!RsTypeOK(RenamePkt)'
  <2>1. rs_lsu' = [k \in RsIndex |-> rs_lsu'[k]]
    BY DEF RsLsu!RsEdge, RsLsu!Index, RsIndex
  <2>2. rs_lsu' \in [RsIndex -> RenamePkt \cup {None}]
    BY <1>7, <2>1
  <2> QED BY <1>3, <2>2 DEF RsLsu!RsTypeOK, RsLsu!Index, RsIndex
<1>9. \E i, sel : Moves(rs_lsu, rs_lsu', insert, iss, i, sel, K, w)
  BY <1>6
<1> QED BY <1>7, <1>8, <1>9 DEF K

\* What issues is a packet of its station.
LEMMA IssueTypes ==
  ASSUME TypeOK
  PROVE  /\ RsAlu!IssueEntry \in RenamePkt \cup {None}
         /\ RsBru!IssueEntry \in RenamePkt \cup {None}
         /\ RsLsu!IssueEntry \in RenamePkt \cup {None}
  BY AluSelected, BruSelected, LsuSelected DEF TypeOK
-----------------------------------------------------------------------------
(***************************************************************************)
(* The wires of core_top.                                                  *)
(***************************************************************************)

\* The units compute words and addresses.
LEMMA UnitTypes ==
  ASSUME NEW e \in RenamePkt, NEW a \in Word, NEW b \in Word
  PROVE  /\ AluResult(e, a, b) \in Word
         /\ Resolve(e, a, b) \in [rob_tag : Tag, rd_used : BOOLEAN, prd : Preg,
                                  data : Word, taken : BOOLEAN, target : Pc]
         /\ EffAddr(e, a) \in Word
<1>1. /\ e.d \in DecodePkt /\ e.rob_tag \in Tag /\ e.prd \in Preg
      /\ e.rd_used \in BOOLEAN
  BY DEF RenamePkt
<1>2. /\ e.d.imm \in Int /\ e.d.alu_op \in AluOp /\ e.d.pc \in Pc
      /\ e.d.is_jump \in BOOLEAN /\ e.d.is_branch \in BOOLEAN
  BY <1>1 DEF DecodePkt
<1>3. AluResult(e, a, b) \in Word
  <2> DEFINE op_b == IF e.d.imm_used THEN e.d.imm ELSE b
  <2>1. op_b \in Int /\ a \in Int /\ b \in Int
    BY <1>2, DataTypes
  <2> HIDE DEF op_b
  <2>2. /\ WordOf(a + op_b) \in Word /\ WordOf(a - op_b) \in Word
        /\ WordOf(op_b) \in Word
    BY <2>1, DataTypes
  <2>3. e.d.alu_op = "SLTIU" => 1 \in Word \/ ~(a < WordOf(op_b))
    BY <2>2 DEF Word
  <2> QED BY <1>2, <2>2, <2>3, DataTypes DEF AluResult, AluOp, op_b
<1>4. EffAddr(e, a) \in Word
  <2>1. a + e.d.imm \in Int
    BY <1>2, DataTypes
  <2> QED BY <2>1, DataTypes DEF EffAddr
<1>5. Target(e, a) \in Pc
  BY DataTypes DEF Target
<1>6. Taken(e, a, b) \in BOOLEAN
  BY DEF Taken
<1>7. WordOf(e.d.pc + 1) \in Word
  <2>1. e.d.pc \in Int
    BY <1>2, DataTypes
  <2>2. e.d.pc + 1 \in Int
    BY <2>1
  <2> QED BY <2>2, DataTypes
<1>8. Resolve(e, a, b) \in [rob_tag : Tag, rd_used : BOOLEAN, prd : Preg,
                            data : Word, taken : BOOLEAN, target : Pc]
  BY <1>1, <1>5, <1>6, <1>7, DataTypes DEF Resolve
<1> QED BY <1>3, <1>4, <1>8

\* The tag on offer is one that nobody has, if there is one.
LEMMA FreeTagIs ==
  ASSUME TagTypeOK
  PROVE  /\ FreeTag \in Tag
         /\ TagOk => FreeTag \notin LiveTags /\ FreeTag \notin reserved
<1>1. /\ FreeTag = TP!FreeTag /\ (TagOk <=> TP!TagOk) /\ Used = TP!Used /\ Tag = TP!Tag
  BY DEF FreeTag, TP!FreeTag, TagOk, TP!TagOk, Used, TP!Used, LiveTags, TP!LiveTags,
         Dist, TP!Dist, Tag, TP!Tag, Slot, TP!Slot
<1>2. next_tag \in TP!Tag
  BY <1>1 DEF TagTypeOK
<1> QED BY <1>1, <1>2, TagsAssumptions, TP!FreeTagType DEF Used

WiresOK ==
  /\ Fetched \in FetchPkt \cup {None}
  /\ Decoded \in DecodePkt \cup {None}
  /\ RenameIn \in DecodePkt \cup {None}
  /\ RenameOut \in RenamePkt \cup {None}
  /\ \A fu : Insert(fu) \in RenamePkt \cup {None}
  /\ DispatchFire \in BOOLEAN /\ (DispatchFire => storage # None /\ storage \in RenamePkt)
  /\ IssAlu \in RenamePkt \cup {None}
  /\ IssBru \in RenamePkt \cup {None}
  /\ IssLsu \in RenamePkt \cup {None}
  /\ \A e \in RenamePkt : Src1(e) \in Word /\ Src2(e) \in Word
  /\ WbAlu \in WbPkt \cup {None}
  /\ WbLsu(Flush) \in WbPkt \cup {None}
  /\ WbBru \in WbPkt \cup {None}

LEMMA WireTypes ==
  ASSUME TypeOK
  PROVE  WiresOK
<1>1. Fetched \in FetchPkt \cup {None}
  BY DEF TypeOK, FetchTypeOK, FetchPkt, F2d!SkidTypeOK, Fetched, F2d!SkidOut
<1>2. Decoded \in DecodePkt \cup {None}
  <2>1. CASE Fetched # None
    <3>1. Fetched.pc \in Pc /\ Fetched.instr \in Insn
      BY <1>1, <2>1 DEF FetchPkt
    <3> QED BY <2>1, <3>1, DecodeType DEF Decoded
  <2> QED BY <2>1 DEF Decoded
<1>3. RenameIn \in DecodePkt \cup {None}
  BY <1>2 DEF TypeOK, D2r!SkidTypeOK, RenameIn, D2r!SkidOut
<1>4. RenameOut \in RenamePkt \cup {None}
  <2>1. FreeTag \in Tag /\ FreeTypeOK /\ MapTypeOK
    BY FreeTagIs DEF TypeOK
  <2> QED BY <1>3, <2>1, RenamedType DEF RenameOut
<1>5. storage \in RenamePkt \cup {None}
  BY DEF TypeOK, Fifo!FifoTypeOK
<1>6. DispatchFire \in BOOLEAN /\ (DispatchFire => storage # None /\ storage \in RenamePkt)
  BY <1>5 DEF DispatchFire
<1>7. \A fu : Insert(fu) \in RenamePkt \cup {None}
  BY <1>5 DEF Insert
<1>8. /\ IssAlu \in RenamePkt \cup {None}
      /\ IssBru \in RenamePkt \cup {None}
      /\ IssLsu \in RenamePkt \cup {None}
  BY IssueTypes DEF IssAlu, IssBru, IssLsu
<1>9. \A e \in RenamePkt : Src1(e) \in Word /\ Src2(e) \in Word
  BY DataTypes DEF TypeOK, PrfTypeOK, Src1, Src2, RenamePkt
<1>10. WbAlu \in WbPkt \cup {None}
  <2>1. CASE alu_q # None
    <3>1. alu_q.e \in RenamePkt /\ alu_q.a \in Word /\ alu_q.b \in Word
      BY <2>1 DEF TypeOK
    <3>2. AluResult(alu_q.e, alu_q.a, alu_q.b) \in Word
      BY <3>1, UnitTypes
    <3>3. /\ alu_q.e.rob_tag \in Tag /\ alu_q.e.prd \in Preg /\ alu_q.e.rd_used \in BOOLEAN
      BY <3>1 DEF RenamePkt
    <3> QED BY <2>1, <3>2, <3>3, DataTypes DEF WbAlu, WbPkt
  <2> QED BY <2>1 DEF WbAlu
<1>11. WbLsu(Flush) \in WbPkt \cup {None}
  <2>1. LsuTypeOK
    BY DEF TypeOK
  <2>2. CASE resp2 # None /\ m1 # None
    <3>1. resp2 \in Word /\ m1 \in Meta
      BY <2>1, <2>2 DEF LsuTypeOK
    <3> QED BY <3>1, DataTypes DEF WbLsu, WbPkt, Meta
  <2> QED BY <2>2 DEF WbLsu
<1>12. WbBru \in WbPkt \cup {None}
  BY DEF TypeOK, BruTypeOK, WbBru, WbPkt
<1> QED
  BY <1>1, <1>2, <1>3, <1>4, <1>6, <1>7, <1>8, <1>9, <1>10, <1>11, <1>12 DEF WiresOK
-----------------------------------------------------------------------------
(***************************************************************************)
(* The core as an environment of the tag path.                             *)
(***************************************************************************)

\* The parts of RobTags are those of the core.
LEMMA SamePath ==
  /\ FreeTag = TP!FreeTag /\ (TagOk <=> TP!TagOk) /\ (RobReady <=> TP!RobReady)
  /\ LiveTags = TP!LiveTags /\ LiveTags' = TP!LiveTags'
  /\ \A recover, tag, take, ttag, alloc, pkt, wb :
       RobEdge(recover, tag, take, ttag, alloc, pkt, wb)
         <=> TP!RobEdge(recover, tag, take, ttag, alloc, pkt, wb)
  /\ \A req, take, ttag, alloc, tag :
       TagEdge(req, take, ttag, alloc, tag) <=> TP!TagEdge(req, take, ttag, alloc, tag)
  /\ \A tag : TagRecover(tag) <=> TP!TagRecover(tag)
<1>1. FreeTag = TP!FreeTag
  BY Zenon DEF FreeTag, TP!FreeTag, TagOk, TP!TagOk, Used, TP!Used, LiveTags,
         TP!LiveTags, Tag, TP!Tag, Slot, TP!Slot, Dist, TP!Dist
<1>2. TagOk <=> TP!TagOk
  BY Zenon DEF FreeTag, TP!FreeTag, TagOk, TP!TagOk, Used, TP!Used, LiveTags,
         TP!LiveTags, Tag, TP!Tag, Slot, TP!Slot, Dist, TP!Dist
<1>3. RobReady <=> TP!RobReady
  BY Zenon DEF RobReady, TP!RobReady
<1>4. LiveTags = TP!LiveTags /\ LiveTags' = TP!LiveTags'
  BY Zenon DEF FreeTag, TP!FreeTag, TagOk, TP!TagOk, Used, TP!Used, LiveTags,
         TP!LiveTags, Tag, TP!Tag, Slot, TP!Slot, Dist, TP!Dist
<1>5. ASSUME NEW recover, NEW tag, NEW take, NEW ttag, NEW alloc, NEW pkt, NEW wb
      PROVE  RobEdge(recover, tag, take, ttag, alloc, pkt, wb)
               <=> TP!RobEdge(recover, tag, take, ttag, alloc, pkt, wb)
  BY Zenon DEF RobEdge, TP!RobEdge, NextEntry, TP!NextEntry, Slot, TP!Slot,
         AllocFire, TP!AllocFire, RobReady, TP!RobReady, CommitFire,
         TP!CommitFire, NewEntry, TP!NewEntry, ZeroEntry, TP!ZeroEntry,
         Squashed, TP!Squashed, Dist, TP!Dist, WbHit, TP!WbHit, NextTail,
         TP!NextTail, Inc, TP!Inc, NextCount, TP!NextCount, CountDec,
         TP!CountDec, CountInc, TP!CountInc, NextPending, TP!NextPending,
         Snapshots, TP!Snapshots
<1>6. ASSUME NEW req, NEW take, NEW ttag, NEW alloc, NEW tag
      PROVE  TagEdge(req, take, ttag, alloc, tag)
               <=> TP!TagEdge(req, take, ttag, alloc, tag)
  BY Zenon DEF TagEdge, TP!TagEdge, TagRecover, TP!TagRecover, NextTag, TP!NextTag,
         TagAllocated, TP!TagAllocated, FreeTag, TP!FreeTag, TagOk, TP!TagOk,
         Used, TP!Used, LiveTags, TP!LiveTags, Inc, TP!Inc, Tag, TP!Tag,
         Slot, TP!Slot, Dist, TP!Dist
<1>7. ASSUME NEW tag PROVE TagRecover(tag) <=> TP!TagRecover(tag)
  BY Zenon DEF TagEdge, TP!TagEdge, TagRecover, TP!TagRecover, NextTag, TP!NextTag,
         TagAllocated, TP!TagAllocated, FreeTag, TP!FreeTag, TagOk, TP!TagOk,
         Used, TP!Used, LiveTags, TP!LiveTags, Inc, TP!Inc, Tag, TP!Tag,
         Slot, TP!Slot, Dist, TP!Dist
<1> QED BY <1>1, <1>2, <1>3, <1>4, <1>5, <1>6, <1>7

LEMMA SameCycle ==
  ASSUME NEW r, NEW ok, NEW wb
  PROVE  /\ TP!Cycle(r, ok, wb) <=> Tags!Cycle(r, ok, wb)
         /\ TP!RecoverCycle(r, ok, wb) <=> Tags!RecoverCycle(r, ok, wb)
  BY Zenon DEF TP!Cycle, Tags!Cycle, TP!RecoverCycle, Tags!RecoverCycle,
         TP!RobEdge, Tags!RobEdge, TP!NextEntry, Tags!NextEntry, TP!Slot,
         Tags!Slot, TP!AllocFire, Tags!AllocFire, TP!RobReady, Tags!RobReady,
         TP!CommitFire, Tags!CommitFire, TP!NewEntry, Tags!NewEntry,
         TP!ZeroEntry, Tags!ZeroEntry, TP!Squashed, Tags!Squashed, TP!Dist,
         Tags!Dist, TP!WbHit, Tags!WbHit, TP!NextTail, Tags!NextTail, TP!Inc,
         Tags!Inc, TP!NextCount, Tags!NextCount, TP!CountDec, Tags!CountDec,
         TP!CountInc, Tags!CountInc, TP!NextPending, Tags!NextPending,
         TP!Snapshots, Tags!Snapshots, TP!FreeTag, Tags!FreeTag, TP!TagOk,
         Tags!TagOk, TP!Used, Tags!Used, TP!LiveTags, Tags!LiveTags, TP!Tag,
         Tags!Tag, TP!TagEdge, Tags!TagEdge, TP!TagRecover, Tags!TagRecover,
         TP!NextTag, Tags!NextTag, TP!TagAllocated, Tags!TagAllocated,
         TP!TrackBranches, Tags!TrackBranches, TP!Skid!SkidEdge,
         Tags!Skid!SkidEdge, TP!Skid!SkidOut, Tags!Skid!SkidOut,
         TP!Skid!SkidReady, Tags!Skid!SkidReady, TP!Skid!SkidFlush,
         Tags!Skid!SkidFlush, TP!Fifo!FifoEdge, Tags!Fifo!FifoEdge,
         TP!Fifo!FifoReady, Tags!Fifo!FifoReady, TP!Fifo!FifoPush,
         Tags!Fifo!FifoPush, TP!Fifo!FifoPop, Tags!Fifo!FifoPop,
         TP!Fifo!FifoFlush, Tags!Fifo!FifoFlush, TP!RenameReady,
         Tags!RenameReady, TP!DispatchFire, Tags!DispatchFire, TP!Renamed,
         Tags!Renamed

Branches == {t \in LiveTags : inflight[t] # None /\ inflight[t].pkt.is_branch}

\* What the tag path is offered: what rename has to rename, if it has a register
\* for it.
Offer ==
  IF RenameIn # None /\ (NeedAlloc(RenameIn) => HasFree)
  THEN [rd_used |-> NeedAlloc(RenameIn),
        old_prd |-> IF NeedAlloc(RenameIn) THEN rat[RenameIn.rd] ELSE 0,
        is_branch |-> RenameIn.is_branch \/ RenameIn.is_jump]
  ELSE None

\* Whether the station of the fifo's packet has room.
StationOk == storage # None /\ StationReady(storage.d.fu_type)

LiveInFlight == \A t \in LiveTags : inflight[t] \in InFlight

\* A packet is nothing to the tag path if and only if it is nothing.
LEMMA TagPackets ==
  ASSUME NEW p \in RenamePkt \cup {None}
  PROVE  /\ TagPacket(p) \in TP!Packet \cup {None}
         /\ TagPacket(p) = None <=> p = None
         /\ p # None => /\ TagPacket(p).rob_tag = p.rob_tag
                        /\ TagPacket(p).rd_used = p.rd_used
                        /\ TagPacket(p).old_prd = p.old_prd
                        /\ TagPacket(p).is_branch = p.is_branch
<1>1. CASE p = None
  BY <1>1 DEF TagPacket
<1>2. CASE p # None
  <2>1. /\ p.rob_tag \in Tag /\ p.rd_used \in BOOLEAN
        /\ p.old_prd \in Preg /\ p.is_branch \in BOOLEAN
    BY <1>2 DEF RenamePkt
  <2>2. TagPacket(p) \in [rob_tag : Tag, rd_used : BOOLEAN, old_prd : Preg,
                          is_branch : BOOLEAN]
    BY <1>2, <2>1 DEF TagPacket
  <2>3. TP!Packet = [rob_tag : Tag, rd_used : BOOLEAN, old_prd : Preg,
                     is_branch : BOOLEAN]
    BY DEF TP!Packet, TP!Tag, TP!Preg, Tag, Preg
  <2> QED BY <1>2, <2>2, <2>3, NoneAssumption DEF TagPacket
<1> QED BY <1>1, <1>2

\* What is offered is an instruction of the tag path's environment.
LEMMA OfferIs ==
  ASSUME TypeOK
  PROVE  /\ Offer \in [rd_used : BOOLEAN, old_prd : Preg, is_branch : BOOLEAN] \cup {None}
         /\ Offer # None <=> RenameIn # None /\ (NeedAlloc(RenameIn) => HasFree)
         /\ RenameOut # None <=> Offer # None /\ TagOk
         /\ TagPacket(RenameOut) = IF Offer # None /\ TagOk
                                   THEN TP!Renamed(Offer) ELSE None
         /\ Offer # None => Offer.is_branch = (RenameIn.is_branch \/ RenameIn.is_jump)
<1>1. RenameIn \in DecodePkt \cup {None} /\ RenameOut \in RenamePkt \cup {None}
  BY WireTypes DEF WiresOK
<1>2. CASE RenameIn # None /\ (NeedAlloc(RenameIn) => HasFree)
  <2> DEFINE o == [rd_used |-> NeedAlloc(RenameIn),
                   old_prd |-> IF NeedAlloc(RenameIn) THEN rat[RenameIn.rd] ELSE 0,
                   is_branch |-> RenameIn.is_branch \/ RenameIn.is_jump]
  <2>1. RenameIn \in DecodePkt
    BY <1>1, <1>2
  <2>2. /\ RenameIn.rd \in Areg /\ RenameIn.rd_used \in BOOLEAN
        /\ RenameIn.is_branch \in BOOLEAN /\ RenameIn.is_jump \in BOOLEAN
    BY <2>1 DEF DecodePkt
  <2>3. rat[RenameIn.rd] \in Preg
    BY <2>2 DEF TypeOK, MapTypeOK
  <2>4. NeedAlloc(RenameIn) \in BOOLEAN /\ (RenameIn.is_branch \/ RenameIn.is_jump) \in BOOLEAN
    BY DEF NeedAlloc
  <2>5. o \in [rd_used : BOOLEAN, old_prd : Preg, is_branch : BOOLEAN]
    BY <2>3, <2>4, DataTypes
  <2>6. Offer = o /\ o # None
    BY <1>2, <2>5, NoneAssumption DEF Offer
  <2>7. CanRename(RenameIn, TagOk) <=> TagOk
    BY <1>2 DEF CanRename
  <2>8. CASE TagOk
    <3> DEFINE q == Renamed(RenameIn, FreeTag, valid_bits)
    <3>1. FreeTag \in Tag /\ FreeTypeOK /\ MapTypeOK
      BY FreeTagIs DEF TypeOK
    <3>2. q \in RenamePkt /\ q # None
      BY <2>1, <3>1, RenamedType, NoneAssumption
    <3>3. RenameOut = q
      BY <1>2, <2>7, <2>8 DEF RenameOut
    <3>4. TagPacket(q) = [rob_tag |-> q.rob_tag, rd_used |-> q.rd_used,
                          old_prd |-> q.old_prd, is_branch |-> q.is_branch]
      BY <3>2 DEF TagPacket
    <3>5. /\ q.rob_tag = FreeTag /\ q.rd_used = NeedAlloc(RenameIn)
          /\ q.old_prd = (IF NeedAlloc(RenameIn) THEN rat[RenameIn.rd] ELSE 0)
          /\ q.is_branch = (RenameIn.is_branch \/ RenameIn.is_jump)
      BY DEF Renamed
    <3>6. TagPacket(q) = TP!Renamed(o)
      BY <3>4, <3>5, SamePath, Zenon DEF TP!Renamed
    <3> HIDE DEF q, o
    <3>7. /\ RenameOut # None /\ Offer # None
          /\ TagPacket(RenameOut) = TP!Renamed(Offer)
      BY <2>6, <3>2, <3>3, <3>6
    <3>8. Offer.is_branch = (RenameIn.is_branch \/ RenameIn.is_jump)
      BY <2>6, Zenon DEF o
    <3> QED BY <1>2, <2>5, <2>6, <2>8, <3>7, <3>8
  <2>9. CASE ~TagOk
    <3>1. RenameOut = None /\ TagPacket(RenameOut) = None
      BY <2>7, <2>9 DEF RenameOut, TagPacket
    <3>2. Offer.is_branch = (RenameIn.is_branch \/ RenameIn.is_jump)
      BY <2>6, Zenon
    <3> QED BY <1>2, <2>5, <2>6, <2>9, <3>1, <3>2
  <2> QED BY <2>8, <2>9
<1>3. CASE ~(RenameIn # None /\ (NeedAlloc(RenameIn) => HasFree))
  BY <1>3 DEF Offer, RenameOut, CanRename, TagPacket
<1> QED BY <1>2, <1>3
-----------------------------------------------------------------------------
(***************************************************************************)
(* What an edge does to the ROB and to the histories.                      *)
(***************************************************************************)

\* An entry after the edge: the packet that is allocated, or what it was, done
\* once it has written back, unless it commits or is squashed.
EntryAfterEdge(i, recover, tag, alloc, pkt, wb) ==
  IF AllocFire(alloc) /\ i = tail
  THEN /\ entries'[i].valid /\ ~entries'[i].done
       /\ entries'[i].tag = pkt.rob_tag
       /\ entries'[i].rd_used = pkt.rd_used
       /\ entries'[i].old_prd = pkt.old_prd
  ELSE /\ entries'[i].valid <=> /\ entries[i].valid
                                /\ ~(CommitFire /\ i = head)
                                /\ ~(recover /\ i \in Squashed(tag))
       /\ entries'[i].valid =>
            /\ entries'[i].tag = entries[i].tag
            /\ entries'[i].rd_used = entries[i].rd_used
            /\ entries'[i].old_prd = entries[i].old_prd
            /\ entries'[i].done <=> entries[i].done \/ entries[i].tag \in wb

LEMMA EntriesAfter ==
  ASSUME RobTypeOK, NEW recover \in BOOLEAN, NEW tag, NEW take, NEW ttag,
         NEW alloc \in BOOLEAN, NEW pkt, NEW wb,
         RobEdge(recover, tag, take, ttag, alloc, pkt, wb),
         NEW i \in Slot
  PROVE  EntryAfterEdge(i, recover, tag, alloc, pkt, wb)
<1> DEFINE n == entries'[i]
<1>1. n = NextEntry(i, recover, tag, alloc, pkt, wb)
  BY DEF RobEdge
<1>2. entries[i] \in Entry
  BY DEF RobTypeOK
<1>3. CASE AllocFire(alloc) /\ i = tail
  <2>1. n = NewEntry(pkt)
    BY <1>1, <1>3 DEF NextEntry
  <2> HIDE DEF n
  <2>2. /\ n.valid /\ ~n.done /\ n.tag = pkt.rob_tag
        /\ n.rd_used = pkt.rd_used /\ n.old_prd = pkt.old_prd
    BY <2>1 DEF NewEntry
  <2> QED BY <1>3, <2>2 DEF EntryAfterEdge, n
<1>4. CASE ~(AllocFire(alloc) /\ i = tail) /\ CommitFire /\ i = head
  <2>1. ~n.valid
    BY <1>1, <1>4 DEF NextEntry, ZeroEntry
  <2> QED BY <1>4, <2>1 DEF EntryAfterEdge
<1>5. CASE ~(AllocFire(alloc) /\ i = tail) /\ ~(CommitFire /\ i = head)
  <2> DEFINE kept == IF recover /\ i \in Squashed(tag) THEN ZeroEntry ELSE entries[i]
  <2>1. n = IF WbHit(i, wb) THEN [kept EXCEPT !.done = TRUE] ELSE kept
    BY <1>1, <1>5 DEF NextEntry
  <2>2. kept \in Entry
    BY <1>2, DataTypes DEF ZeroEntry, Entry
  <2>3. /\ kept.valid <=> entries[i].valid /\ ~(recover /\ i \in Squashed(tag))
        /\ kept.valid => kept = entries[i]
    BY <1>2 DEF ZeroEntry, Entry
  <2> HIDE DEF kept, n
  <2>4. /\ n.valid = kept.valid /\ n.tag = kept.tag
        /\ n.rd_used = kept.rd_used /\ n.old_prd = kept.old_prd
        /\ n.done <=> kept.done \/ WbHit(i, wb)
    BY <2>1, <2>2 DEF Entry
  <2>5. kept.valid => (WbHit(i, wb) <=> ~entries[i].done /\ entries[i].tag \in wb)
    BY <2>3 DEF WbHit
  <2> QED BY <1>5, <2>3, <2>4, <2>5 DEF EntryAfterEdge, n
<1> QED BY <1>3, <1>4, <1>5

\* Every tag that is live after an edge was live before or is that of the packet
\* dispatched.
LEMMA LiveAfter ==
  ASSUME RobTypeOK, NEW recover \in BOOLEAN, NEW tag, NEW take, NEW ttag,
         NEW alloc \in BOOLEAN, NEW pkt, NEW wb,
         RobEdge(recover, tag, take, ttag, alloc, pkt, wb),
         NEW t \in LiveTags'
  PROVE  t \in LiveTags \/ (AllocFire(alloc) /\ t = pkt.rob_tag)
<1>1. PICK i \in Slot : entries'[i].valid /\ entries'[i].tag = t
  BY DEF LiveTags
<1>2. EntryAfterEdge(i, recover, tag, alloc, pkt, wb)
  BY EntriesAfter
<1> QED BY <1>1, <1>2 DEF EntryAfterEdge, LiveTags

LEMMA LiveTagTypes ==
  RobTypeOK => LiveTags \subseteq Tag
  BY DEF RobTypeOK, LiveTags, Entry

\* What inflight says of an instruction that stays in the ROB, and of one that
\* enters it.
LEMMA OutcomeAfter ==
  ASSUME TypeOK, LiveInFlight, NEW t \in Tag
  PROVE  /\ DispatchFire /\ t = storage.rob_tag =>
              Outcome(t) \in InFlight /\ Outcome(t).pkt = storage
         /\ ~(DispatchFire /\ t = storage.rob_tag) /\ t \in LiveTags' /\ t \in LiveTags =>
              Outcome(t) \in InFlight /\ Outcome(t).pkt = inflight[t].pkt
         /\ ~(DispatchFire /\ t = storage.rob_tag) /\ t \notin LiveTags' =>
              Outcome(t) = None
<1>1. WiresOK
  BY WireTypes
<1>2. CASE DispatchFire /\ t = storage.rob_tag
  <2>1. storage \in RenamePkt
    BY <1>1, <1>2 DEF WiresOK
  <2>2. PcOf(storage.d.pc + 1) \in Pc
    BY DataTypes
  <2>3. Outcome(t) = [pkt |-> storage, next |-> PcOf(storage.d.pc + 1), store |-> None]
    BY <1>2 DEF Outcome
  <2> QED BY <1>2, <2>1, <2>2, <2>3 DEF InFlight
<1>3. CASE ~(DispatchFire /\ t = storage.rob_tag) /\ t \in LiveTags' /\ t \in LiveTags
  <2> DEFINE f == inflight[t]
             g == Outcome(t)
             tgt == Target(IssBru, Src1(IssBru))
             st == [addr |-> EffAddr(IssLsu, Src1(IssLsu)), data |-> Src2(IssLsu)]
  <2>1. f \in InFlight
    BY <1>3 DEF LiveInFlight
  <2>2. \/ g = [f EXCEPT !.next = tgt]
        \/ g = [f EXCEPT !.store = st] /\ IssLsu # None
        \/ g = f
    BY <1>3 DEF Outcome, DmemEn
  <2>3. tgt \in Pc
    BY DataTypes DEF Target
  <2>4. IssLsu # None => st \in [addr : Word, data : Word]
    BY <1>1, UnitTypes DEF WiresOK
  <2> HIDE DEF f, g, tgt, st
  <2>5. g \in InFlight /\ g.pkt = f.pkt
    BY <2>1, <2>2, <2>3, <2>4 DEF InFlight
  <2> QED BY <1>3, <2>5 DEF f, g
<1>4. CASE ~(DispatchFire /\ t = storage.rob_tag) /\ t \notin LiveTags'
  BY <1>4 DEF Outcome
<1> QED BY <1>2, <1>3, <1>4
-----------------------------------------------------------------------------
\* The handshakes of rename, in terms of the tag path.
LEMMA Handshakes ==
  ASSUME TypeOK
  PROVE  /\ RFire = (Offer # None /\ TP!TagOk /\ TP!RenameReady(DispatchFire))
         /\ Take = (RFire /\ Offer.is_branch)
         /\ DispatchFire = (~Flush /\ TP!DispatchFire(StationOk))
<1>1. r2d_skid \in RenamePkt \cup {None} /\ storage \in RenamePkt \cup {None}
  BY DEF TypeOK, R2d!SkidTypeOK, Fifo!FifoTypeOK
<1>2. /\ TagPacket(r2d_skid) = None <=> r2d_skid = None
      /\ TagPacket(storage) = None <=> storage = None
  BY <1>1, TagPackets
<1>3. R2dReady <=> TP!RenameReady(DispatchFire)
  BY <1>2 DEF R2dReady, R2d!SkidReady, Fifo!FifoReady, TP!RenameReady,
              TP!Skid!SkidReady, TP!Fifo!FifoReady
<1>4. RFire <=> Offer # None /\ TP!TagOk /\ TP!RenameReady(DispatchFire)
  BY <1>3, SamePath, OfferIs DEF RFire, RenameFire, CanRename
<1>5. RFire => Offer # None
  BY <1>4
<1>6. Take <=> RFire /\ Offer.is_branch
  BY <1>5, OfferIs DEF Take, CheckpointTake
<1>7. DispatchFire <=> ~Flush /\ TP!DispatchFire(StationOk)
  BY <1>2, SamePath DEF DispatchFire, TP!DispatchFire, StationOk
<1>8. RFire \in BOOLEAN /\ Take \in BOOLEAN /\ DispatchFire \in BOOLEAN
  BY DEF RFire, RenameFire, Take, CheckpointTake, DispatchFire
<1> QED BY <1>4, <1>6, <1>7, <1>8

\* The ROB reads no more of a packet than the tag path has.
LEMMA SameRobEdge ==
  ASSUME TypeOK, NEW recover \in BOOLEAN, NEW tag, NEW take, NEW ttag,
         NEW alloc \in BOOLEAN, alloc => storage # None, NEW wb
  PROVE  RobEdge(recover, tag, take, ttag, alloc, storage, wb)
           <=> TP!RobEdge(recover, tag, take, ttag, alloc, TagPacket(storage), wb)
<1> DEFINE p == TagPacket(storage)
<1>1. AllocFire(alloc) => /\ p.rob_tag = storage.rob_tag
                          /\ p.rd_used = storage.rd_used
                          /\ p.old_prd = storage.old_prd
  <2>1. storage \in RenamePkt \cup {None}
    BY DEF TypeOK, Fifo!FifoTypeOK
  <2> QED BY <2>1, TagPackets DEF AllocFire
<1> HIDE DEF p
<1>2. AllocFire(alloc) => NewEntry(storage) = NewEntry(p)
  BY <1>1 DEF NewEntry
<1>3. \A i : NextEntry(i, recover, tag, alloc, storage, wb)
               = NextEntry(i, recover, tag, alloc, p, wb)
  BY <1>2 DEF NextEntry
<1>4. /\ Snapshots(alloc, storage) = Snapshots(alloc, p)
      /\ Snapshots(alloc, storage) => storage.rob_tag = p.rob_tag
  BY <1>1 DEF Snapshots
<1>5. NextPending(recover, take, ttag, alloc, storage)
        = NextPending(recover, take, ttag, alloc, p)
  BY <1>4 DEF NextPending
<1>6. (IF Snapshots(alloc, storage)
       THEN [ckpt_ptrs EXCEPT ![storage.rob_tag] =
               [tail |-> Inc(tail), count |-> CountInc(count)]]
       ELSE ckpt_ptrs)
        = (IF Snapshots(alloc, p)
           THEN [ckpt_ptrs EXCEPT ![p.rob_tag] =
                   [tail |-> Inc(tail), count |-> CountInc(count)]]
           ELSE ckpt_ptrs)
  BY <1>4
<1>7. RobEdge(recover, tag, take, ttag, alloc, storage, wb)
        <=> RobEdge(recover, tag, take, ttag, alloc, p, wb)
  BY <1>3, <1>5, <1>6 DEF RobEdge
<1> QED BY <1>7, SamePath DEF p

\* Only dispatch makes a tag live, one that was not.
LiveStep ==
  /\ DispatchFire => storage.rob_tag \notin LiveTags
  /\ \A t \in LiveTags' : t \in LiveTags \/ (DispatchFire /\ t = storage.rob_tag)
  /\ LiveTags' \subseteq Tag

\* The history of branches follows dispatch.
LEMMA SameBranches ==
  ASSUME TypeOK, LiveInFlight, Histories, LiveStep
  PROVE  /\ TP!TrackBranches(DispatchFire)
         /\ LiveInFlight'
<1> DEFINE before == IF DispatchFire /\ storage.is_branch
                     THEN Branches \cup {storage.rob_tag} ELSE Branches
<1> USE DEF LiveStep
<1>1. \A t \in LiveTags' :
        /\ inflight'[t] = Outcome(t) /\ inflight'[t] \in InFlight /\ inflight'[t] # None
        /\ DispatchFire /\ t = storage.rob_tag => inflight'[t].pkt = storage
        /\ ~(DispatchFire /\ t = storage.rob_tag) =>
              /\ t \in LiveTags
              /\ inflight'[t].pkt = inflight[t].pkt
              /\ inflight[t] # None
  <2> SUFFICES ASSUME NEW t \in LiveTags'
               PROVE  /\ inflight'[t] = Outcome(t)
                      /\ inflight'[t] \in InFlight /\ inflight'[t] # None
                      /\ DispatchFire /\ t = storage.rob_tag => inflight'[t].pkt = storage
                      /\ ~(DispatchFire /\ t = storage.rob_tag) =>
                            /\ t \in LiveTags
                            /\ inflight'[t].pkt = inflight[t].pkt
                            /\ inflight[t] # None
    OBVIOUS
  <2>1. inflight'[t] = Outcome(t)
    BY DEF Histories
  <2>2. t \in LiveTags => inflight[t] # None
    BY NoneAssumption DEF LiveInFlight
  <2> QED BY <2>1, <2>2, OutcomeAfter, NoneAssumption
<1>2. LiveInFlight'
  BY <1>1 DEF LiveInFlight
<1>3. ASSUME NEW t \in LiveTags'
      PROVE  inflight'[t].pkt.is_branch <=> t \in before
  <2>1. CASE DispatchFire /\ t = storage.rob_tag
    BY <1>1, <1>3, <2>1 DEF Branches
  <2>2. CASE ~(DispatchFire /\ t = storage.rob_tag)
    BY <1>1, <1>3, <2>2 DEF Branches
  <2> QED BY <2>1, <2>2
<1>4. Branches' = before \cap LiveTags'
  BY <1>1, <1>3 DEF Branches
<1>5. DispatchFire => /\ TagPacket(storage).is_branch = storage.is_branch
                      /\ TagPacket(storage).rob_tag = storage.rob_tag
  <2>1. DispatchFire => storage \in RenamePkt /\ storage # None
    BY WireTypes DEF WiresOK
  <2> QED BY <2>1, TagPackets
<1>6. before = IF DispatchFire /\ TagPacket(storage).is_branch
               THEN Branches \cup {TagPacket(storage).rob_tag} ELSE Branches
  BY <1>5
<1> HIDE DEF before
<1>7. TP!TrackBranches(DispatchFire)
  BY <1>4, <1>6, SamePath DEF TP!TrackBranches, Branches
<1> QED BY <1>2, <1>7
-----------------------------------------------------------------------------
(***************************************************************************)
(* A clock edge of the core is a cycle of the tag path.                    *)
(***************************************************************************)

\* The fifo's packet has a tag that no instruction in the ROB has.
LEMMA StorageTagFresh ==
  ASSUME TypeOK, TP!TagsUnique, storage # None
  PROVE  storage.rob_tag \notin LiveTags
<1>1. storage \in RenamePkt \cup {None}
  BY DEF TypeOK, Fifo!FifoTypeOK
<1>2. TagPacket(storage) # None /\ TagPacket(storage).rob_tag = storage.rob_tag
  BY <1>1, TagPackets
<1>3. storage.rob_tag \in reserved
  BY <1>2 DEF TP!TagsUnique, TP!Buffered
<1> QED BY <1>3 DEF TP!TagsUnique, TP!ValidSlots, TP!Slot, LiveTags, Slot

LEMMA SkidPath ==
  ASSUME TypeOK
  PROVE  /\ \A ready : R2d!SkidEdge(RenameOut, ready) =>
              TP!Skid!SkidEdge(TagPacket(RenameOut), ready)
         /\ \A fire : Fifo!FifoReady(fire) = TP!Fifo!FifoReady(fire)
         /\ \A fire : Fifo!FifoEdge(R2d!SkidOut(RenameOut), fire) =>
              TP!Fifo!FifoEdge(TP!Skid!SkidOut(TagPacket(RenameOut)), fire)
<1>1. /\ r2d_skid \in RenamePkt \cup {None} /\ storage \in RenamePkt \cup {None}
      /\ RenameOut \in RenamePkt \cup {None}
  BY WireTypes DEF TypeOK, R2d!SkidTypeOK, Fifo!FifoTypeOK, WiresOK
<1>2. /\ TagPacket(r2d_skid) = None <=> r2d_skid = None
      /\ TagPacket(storage) = None <=> storage = None
      /\ TagPacket(RenameOut) = None <=> RenameOut = None
  BY <1>1, TagPackets
<1>3. TagPacket(None) = None
  BY DEF TagPacket
<1>4. /\ \A ready : R2d!SkidEdge(RenameOut, ready) =>
              TP!Skid!SkidEdge(TagPacket(RenameOut), ready)
      /\ \A fire : Fifo!FifoReady(fire) = TP!Fifo!FifoReady(fire)
  BY <1>2, <1>3 DEF R2d!SkidEdge, TP!Skid!SkidEdge, Fifo!FifoReady, TP!Fifo!FifoReady
<1> DEFINE out == R2d!SkidOut(RenameOut)
<1>5. /\ TagPacket(out) = TP!Skid!SkidOut(TagPacket(RenameOut))
      /\ TagPacket(out) = None <=> out = None
  BY <1>2 DEF R2d!SkidOut, TP!Skid!SkidOut
<1> HIDE DEF out
<1>6. \A fire : Fifo!FifoEdge(out, fire) => TP!Fifo!FifoEdge(TagPacket(out), fire)
  BY <1>2, <1>3, <1>4, <1>5 DEF Fifo!FifoEdge, TP!Fifo!FifoEdge, Fifo!FifoPush, TP!Fifo!FifoPush,
     Fifo!FifoPop, TP!Fifo!FifoPop
<1> QED BY <1>4, <1>5, <1>6 DEF out

\* What is live after an edge.
LEMMA LiveStepRun ==
  ASSUME TypeOK, TP!Inv, Cycle
  PROVE  LiveStep
<1>1. /\ RobEdge(FALSE, 0, Take, FreeTag, DispatchFire, storage, WbTags)
      /\ DispatchFire \in BOOLEAN
      /\ DispatchFire => storage # None /\ storage \in RenamePkt
  BY WireTypes DEF Cycle, WiresOK
<1>2. DispatchFire => storage.rob_tag \notin LiveTags /\ storage.rob_tag \in Tag
  BY <1>1, StorageTagFresh DEF TP!Inv, RenamePkt
<1>3. RobTypeOK /\ LiveTags \subseteq Tag
  BY LiveTagTypes DEF TypeOK
<1>4. \A t \in LiveTags' : t \in LiveTags \/ (DispatchFire /\ t = storage.rob_tag)
  BY <1>1, <1>3, LiveAfter DEF AllocFire
<1> QED BY <1>2, <1>3, <1>4 DEF LiveStep

LEMMA LiveStepRecover ==
  ASSUME TypeOK, Recover
  PROVE  LiveStep
<1>1. /\ RobEdge(TRUE, redirect.tag, Take, FreeTag, FALSE, storage, WbTags)
      /\ ~DispatchFire
  BY DEF Recover, DispatchFire
<1>2. RobTypeOK /\ LiveTags \subseteq Tag
  BY LiveTagTypes DEF TypeOK
<1>3. \A t \in LiveTags' : t \in LiveTags
  BY <1>1, <1>2, LiveAfter DEF AllocFire
<1> QED BY <1>1, <1>2, <1>3 DEF LiveStep

LEMMA TagRun ==
  ASSUME TypeOK, LiveInFlight, TP!Inv, Cycle
  PROVE  /\ TP!Cycle(Offer, StationOk, WbTags)
         /\ LiveInFlight'
<1> DEFINE fire  == TP!DispatchFire(StationOk)
           valid == Offer # None /\ TP!TagOk
           req   == valid /\ TP!RenameReady(fire)
           in    == IF valid THEN TP!Renamed(Offer) ELSE None
           take  == req /\ Offer.is_branch
<1>1. DispatchFire = fire /\ RFire = req /\ Take = take
  <2>1. fire \in BOOLEAN
    BY DEF TP!DispatchFire
  <2>2. DispatchFire = fire
    BY <2>1, Handshakes DEF Cycle
  <2> HIDE DEF fire
  <2>3. RFire = req
    BY <2>2, Handshakes
  <2> HIDE DEF req
  <2> QED BY <2>2, <2>3, Handshakes
<1>2. TagPacket(RenameOut) = in
  BY OfferIs, SamePath
<1>3. /\ RobEdge(FALSE, 0, take, FreeTag, fire, storage, WbTags)
      /\ TagEdge(req, take, FreeTag, fire, IF fire THEN storage.rob_tag ELSE 0)
      /\ R2d!SkidEdge(RenameOut, Fifo!FifoReady(fire))
      /\ Fifo!FifoEdge(R2d!SkidOut(RenameOut), fire)
      /\ Histories
  BY <1>1 DEF Cycle
<1>4. fire \in BOOLEAN /\ (fire => storage # None /\ storage \in RenamePkt)
  BY <1>1, WireTypes DEF WiresOK
<1> HIDE DEF fire, valid, req, in, take
<1>5. TP!RobEdge(FALSE, 0, take, TP!FreeTag, fire, TagPacket(storage), WbTags)
  BY <1>3, <1>4, SameRobEdge, SamePath
<1>6. TP!TagEdge(req, take, TP!FreeTag, fire, IF fire THEN TagPacket(storage).rob_tag ELSE 0)
  <2>1. (IF fire THEN storage.rob_tag ELSE 0)
          = (IF fire THEN TagPacket(storage).rob_tag ELSE 0)
    BY <1>4, TagPackets
  <2> QED BY <1>3, <2>1, SamePath
<1>7. /\ TP!Skid!SkidEdge(in, TP!Fifo!FifoReady(fire))
      /\ TP!Fifo!FifoEdge(TP!Skid!SkidOut(in), fire)
  BY <1>2, <1>3, SkidPath
<1>8. LiveStep
  BY LiveStepRun
<1>9. TP!TrackBranches(fire) /\ LiveInFlight'
  <2>1. TP!TrackBranches(DispatchFire) /\ LiveInFlight'
    BY <1>3, <1>8, SameBranches
  <2> QED BY <1>1, <2>1 DEF TP!TrackBranches
<1>10. TP!Cycle(Offer, StationOk, WbTags)
  BY <1>5, <1>6, <1>7, <1>9 DEF TP!Cycle, fire, valid, req, in, take
<1> QED BY <1>9, <1>10

LEMMA TagRecovers ==
  ASSUME TypeOK, LiveInFlight, Recover
  PROVE  /\ TP!RecoverCycle(redirect.tag, Offer, WbTags)
         /\ LiveInFlight'
<1> DEFINE req  == Offer # None /\ TP!TagOk /\ TP!RenameReady(FALSE)
           take == req /\ Offer.is_branch
<1>1. DispatchFire = FALSE
  BY DEF Recover, DispatchFire
<1>2. Take = take
  BY <1>1, Handshakes
<1>3. /\ RobEdge(TRUE, redirect.tag, take, FreeTag, FALSE, storage, WbTags)
      /\ TagRecover(redirect.tag)
      /\ R2d!SkidFlush /\ Fifo!FifoFlush
      /\ Histories
  BY <1>2 DEF Recover
<1> HIDE DEF req, take
<1>4. TP!RobEdge(TRUE, redirect.tag, take, TP!FreeTag, FALSE, TagPacket(storage), WbTags)
  BY <1>3, SameRobEdge, SamePath
<1>5. TP!TagRecover(redirect.tag)
  BY <1>3, SamePath
<1>6. TP!Skid!SkidFlush /\ TP!Fifo!FifoFlush
  BY <1>3 DEF R2d!SkidFlush, Fifo!FifoFlush, TP!Skid!SkidFlush, TP!Fifo!FifoFlush, TagPacket
<1>7. LiveStep
  BY LiveStepRecover
<1>8. TP!TrackBranches(FALSE) /\ LiveInFlight'
  <2>1. TP!TrackBranches(DispatchFire) /\ LiveInFlight'
    BY <1>3, <1>7, SameBranches
  <2> QED BY <1>1, <2>1 DEF TP!TrackBranches
<1>9. TP!RecoverCycle(redirect.tag, Offer, WbTags)
  BY <1>4, <1>5, <1>6, <1>8 DEF TP!RecoverCycle, req, take
<1> QED BY <1>8, <1>9
-----------------------------------------------------------------------------
(***************************************************************************)
(* Where the instructions that have not written back are.                  *)
(***************************************************************************)
Holds(e, t) == e # None /\ e.rob_tag = t

\* The instruction with tag t is in slot k of station u, or in register u of a
\* unit (k = 0).
At(u, k, t) ==
  \/ u = "ALU" /\ k \in RsIndex /\ Holds(rs_alu[k], t)
  \/ u = "BRU" /\ k \in RsIndex /\ Holds(rs_bru[k], t)
  \/ u = "LSU" /\ k \in RsIndex /\ Holds(rs_lsu[k], t)
  \/ u = "alu_q" /\ k = 0 /\ alu_q # None /\ alu_q.e.rob_tag = t
  \/ u = "bru_q" /\ k = 0 /\ Holds(bru_q, t)
  \/ u = "m0" /\ k = 0 /\ Holds(m0, t)
  \/ u = "m1" /\ k = 0 /\ Holds(m1, t)

\* The tags of the instructions in the ROB that have not written back.
Running == {entries[i].tag : i \in {j \in Slot : entries[j].valid /\ ~entries[j].done}}

AtRunning == \A u, k, t : At(u, k, t) => t \in Running
AtOnce == \A u, k, v, l, t : At(u, k, t) /\ At(v, l, t) => u = v /\ k = l

\* Without a flush, what is in place (v, l) goes to place (u, k): a station's
\* packet stays, or the selected one (a, b, c) goes to its unit.
Goes(v, l, u, k, a, b, c) ==
  \/ u = "ALU" /\ v = u /\ k = l /\ (IssAlu # None => k # a)
  \/ u = "BRU" /\ v = u /\ k = l /\ (IssBru # None => k # b)
  \/ u = "LSU" /\ v = u /\ k = l /\ (IssLsu # None => k # c)
  \/ u = "alu_q" /\ k = 0 /\ v = "ALU" /\ l = a /\ IssAlu # None
  \/ u = "bru_q" /\ k = 0 /\ v = "BRU" /\ l = b /\ IssBru # None
  \/ u = "m0" /\ k = 0 /\ v = "LSU" /\ l = c /\ IssLsu # None
  \/ u = "m1" /\ k = 0 /\ v = "m0" /\ l = 0

\* The packet that is dispatched goes to place (u, k), slot n of its station.
Enters(u, k, t, n) ==
  DispatchFire /\ t = storage.rob_tag /\ u = storage.d.fu_type /\ k = n

PendingStep ==
  \E a, b, c, n : \A u, k, t :
    At(u, k, t)' => \/ Enters(u, k, t, n)
                    \/ \E v, l : At(v, l, t) /\ Goes(v, l, u, k, a, b, c)

\* The stations in a cycle without a flush.
LEMMA StationSteps ==
  ASSUME TypeOK, Cycle
  PROVE  /\ RsAlu!RsTypeOK(RenamePkt)' /\ RsBru!RsTypeOK(RenamePkt)'
         /\ RsLsu!RsTypeOK(RenamePkt)'
         /\ StationStep(rs_alu, rs_alu', Insert("ALU"), IssAlu)
         /\ StationStep(rs_bru, rs_bru', Insert("BRU"), IssBru)
         /\ StationStep(rs_lsu, rs_lsu', Insert("LSU"), IssLsu)
<1>1. \A fu : Insert(fu) \in RenamePkt \cup {None}
  BY WireTypes DEF WiresOK
<1>2. /\ Insert("ALU") # None => RsAlu!RsReady
      /\ Insert("BRU") # None => RsBru!RsReady
      /\ Insert("LSU") # None => RsLsu!RsReady
  BY DEF Insert, DispatchFire, StationReady
<1>3. /\ IssAlu \in {None, RsAlu!IssueEntry}
      /\ IssBru \in {None, RsBru!IssueEntry}
      /\ IssLsu \in {None, RsLsu!IssueEntry}
  BY DEF IssAlu, IssBru, IssLsu
<1>4. /\ RsAlu!RsEdge(Insert("ALU"), valid_bits, Wakeups, IssAlu # None)
      /\ RsBru!RsEdge(Insert("BRU"), valid_bits, Wakeups, IssBru # None)
      /\ RsLsu!RsEdge(Insert("LSU"), valid_bits, Wakeups, IssLsu # None)
  BY DEF Cycle
<1>5. /\ RsAlu!RsTypeOK(RenamePkt) /\ RsBru!RsTypeOK(RenamePkt)
      /\ RsLsu!RsTypeOK(RenamePkt)
  BY DEF TypeOK
<1>6. RsAlu!RsTypeOK(RenamePkt)' /\ StationStep(rs_alu, rs_alu', Insert("ALU"), IssAlu)
  BY <1>1, <1>2, <1>3, <1>4, <1>5, AluStep
<1>7. RsBru!RsTypeOK(RenamePkt)' /\ StationStep(rs_bru, rs_bru', Insert("BRU"), IssBru)
  BY <1>1, <1>2, <1>3, <1>4, <1>5, BruStep
<1>8. RsLsu!RsTypeOK(RenamePkt)' /\ StationStep(rs_lsu, rs_lsu', Insert("LSU"), IssLsu)
  BY <1>1, <1>2, <1>3, <1>4, <1>5, LsuStep
<1> QED BY <1>6, <1>7, <1>8

\* The packet in slot k of a station after the edge.
LEMMA SlotSource ==
  ASSUME NEW old, NEW new, NEW insert, NEW iss,
         StationStep(old, new, insert, iss)
  PROVE  \E in, sel :
           /\ iss # None => sel \in RsIndex /\ old[sel] = iss
           /\ \A k \in RsIndex : \A t : Holds(new[k], t) =>
                \/ k = in /\ Holds(insert, t)
                \/ Holds(old[k], t) /\ (iss # None => k # sel)
  BY DEF StationStep, SameInsn, Holds

LEMMA PendingMoves ==
  ASSUME TypeOK, Cycle
  PROVE  PendingStep
<1>1. PICK na, a :
        /\ IssAlu # None => a \in RsIndex /\ rs_alu[a] = IssAlu
        /\ \A k \in RsIndex : \A t : Holds(rs_alu'[k], t) =>
             \/ k = na /\ Holds(Insert("ALU"), t)
             \/ Holds(rs_alu[k], t) /\ (IssAlu # None => k # a)
  BY StationSteps, SlotSource
<1>2. PICK nb, b :
        /\ IssBru # None => b \in RsIndex /\ rs_bru[b] = IssBru
        /\ \A k \in RsIndex : \A t : Holds(rs_bru'[k], t) =>
             \/ k = nb /\ Holds(Insert("BRU"), t)
             \/ Holds(rs_bru[k], t) /\ (IssBru # None => k # b)
  BY StationSteps, SlotSource
<1>3. PICK nc, c :
        /\ IssLsu # None => c \in RsIndex /\ rs_lsu[c] = IssLsu
        /\ \A k \in RsIndex : \A t : Holds(rs_lsu'[k], t) =>
             \/ k = nc /\ Holds(Insert("LSU"), t)
             \/ Holds(rs_lsu[k], t) /\ (IssLsu # None => k # c)
  BY StationSteps, SlotSource
<1> DEFINE n == IF storage.d.fu_type = "ALU" THEN na
                ELSE IF storage.d.fu_type = "BRU" THEN nb ELSE nc
<1>4. /\ alu_q' = IF IssAlu # None
                  THEN [e |-> IssAlu, a |-> Src1(IssAlu), b |-> Src2(IssAlu)] ELSE None
      /\ bru_q' = IF IssBru # None
                  THEN Resolve(IssBru, Src1(IssBru), Src2(IssBru)) ELSE None
      /\ m0' = None \/ (IssLsu # None /\ m0'.rob_tag = IssLsu.rob_tag)
      /\ m1' = m0
  BY DEF Cycle, EveryEdge, AluEdge, BruEdge, LsuEdge, DmemEn
<1>5. SUFFICES ASSUME NEW u, NEW k, NEW t, At(u, k, t)'
               PROVE  \/ Enters(u, k, t, n)
                      \/ \E v, l : At(v, l, t) /\ Goes(v, l, u, k, a, b, c)
  BY DEF PendingStep
<1>6. CASE u = "ALU" /\ k \in RsIndex /\ Holds(rs_alu'[k], t)
  <2>1. CASE k = na /\ Holds(Insert("ALU"), t)
    BY <1>6, <2>1 DEF Enters, Insert, Holds
  <2>2. CASE Holds(rs_alu[k], t) /\ (IssAlu # None => k # a)
    BY <1>6, <2>2 DEF At, Goes
  <2> QED BY <1>1, <1>6, <2>1, <2>2
<1>7. CASE u = "BRU" /\ k \in RsIndex /\ Holds(rs_bru'[k], t)
  <2>1. CASE k = nb /\ Holds(Insert("BRU"), t)
    BY <1>7, <2>1 DEF Enters, Insert, Holds
  <2>2. CASE Holds(rs_bru[k], t) /\ (IssBru # None => k # b)
    BY <1>7, <2>2 DEF At, Goes
  <2> QED BY <1>2, <1>7, <2>1, <2>2
<1>8. CASE u = "LSU" /\ k \in RsIndex /\ Holds(rs_lsu'[k], t)
  <2>1. CASE k = nc /\ Holds(Insert("LSU"), t)
    BY <1>8, <2>1 DEF Enters, Insert, Holds
  <2>2. CASE Holds(rs_lsu[k], t) /\ (IssLsu # None => k # c)
    BY <1>8, <2>2 DEF At, Goes
  <2> QED BY <1>3, <1>8, <2>1, <2>2
<1>9. CASE u = "alu_q" /\ k = 0 /\ alu_q' # None /\ alu_q'.e.rob_tag = t
  <2>1. IssAlu # None /\ Holds(rs_alu[a], t) /\ a \in RsIndex
    BY <1>1, <1>4, <1>9 DEF Holds
  <2>2. At("ALU", a, t) /\ Goes("ALU", a, u, k, a, b, c)
    BY <1>9, <2>1 DEF At, Goes
  <2> QED BY <2>2
<1>10. CASE u = "bru_q" /\ k = 0 /\ Holds(bru_q', t)
  <2>1. IssBru # None /\ Holds(rs_bru[b], t) /\ b \in RsIndex
    BY <1>2, <1>4, <1>10 DEF Holds, Resolve
  <2>2. At("BRU", b, t) /\ Goes("BRU", b, u, k, a, b, c)
    BY <1>10, <2>1 DEF At, Goes
  <2> QED BY <2>2
<1>11. CASE u = "m0" /\ k = 0 /\ Holds(m0', t)
  <2>1. IssLsu # None /\ Holds(rs_lsu[c], t) /\ c \in RsIndex
    BY <1>3, <1>4, <1>11 DEF Holds
  <2>2. At("LSU", c, t) /\ Goes("LSU", c, u, k, a, b, c)
    BY <1>11, <2>1 DEF At, Goes
  <2> QED BY <2>2
<1>12. CASE u = "m1" /\ k = 0 /\ Holds(m1', t)
  <2>1. At("m0", 0, t) /\ Goes("m0", 0, u, k, a, b, c)
    BY <1>4, <1>12 DEF At, Goes
  <2> QED BY <2>1
<1> HIDE DEF n
<1>13. \/ u = "ALU" /\ k \in RsIndex /\ Holds(rs_alu'[k], t)
       \/ u = "BRU" /\ k \in RsIndex /\ Holds(rs_bru'[k], t)
       \/ u = "LSU" /\ k \in RsIndex /\ Holds(rs_lsu'[k], t)
       \/ u = "alu_q" /\ k = 0 /\ alu_q' # None /\ alu_q'.e.rob_tag = t
       \/ u = "bru_q" /\ k = 0 /\ Holds(bru_q', t)
       \/ u = "m0" /\ k = 0 /\ Holds(m0', t)
       \/ u = "m1" /\ k = 0 /\ Holds(m1', t)
  BY <1>5 DEF At, RsIndex, Holds
<1> QED BY <1>6, <1>7, <1>8, <1>9, <1>10, <1>11, <1>12, <1>13

\* What is written back is at the end of a unit.
LEMMA WritersAre ==
  \A t \in WbTags : At("alu_q", 0, t) \/ At("bru_q", 0, t) \/ At("m1", 0, t)
<1> SUFFICES ASSUME NEW wb \in {WbAlu, WbLsu(Flush), WbBru} \ {None}
             PROVE  \/ At("alu_q", 0, wb.rob_tag) \/ At("bru_q", 0, wb.rob_tag)
                    \/ At("m1", 0, wb.rob_tag)
  BY DEF WbTags
<1>1. CASE wb = WbAlu
  <2>1. alu_q # None /\ wb.rob_tag = alu_q.e.rob_tag
    BY <1>1 DEF WbAlu
  <2> QED BY <2>1 DEF At
<1>2. CASE wb = WbLsu(Flush)
  <2>1. m1 # None /\ wb.rob_tag = m1.rob_tag
    BY <1>2 DEF WbLsu
  <2> QED BY <2>1 DEF At, Holds
<1>3. CASE wb = WbBru
  <2>1. bru_q # None /\ wb.rob_tag = bru_q.rob_tag
    BY <1>3 DEF WbBru
  <2> QED BY <2>1 DEF At, Holds
<1> QED BY <1>1, <1>2, <1>3

\* Running instructions stay in the ROB, done if they write back, and the packet
\* that is dispatched joins them.
Done == {entries[i].tag : i \in {j \in Slot : entries[j].valid /\ entries[j].done}}

LEMMA RunningAfter ==
  ASSUME TypeOK, TP!Window, Cycle
  PROVE  /\ \A t \in Running : IF t \in WbTags THEN t \in Done' ELSE t \in Running'
         /\ DispatchFire => storage.rob_tag \in Running'
<1>1. /\ RobEdge(FALSE, 0, Take, FreeTag, DispatchFire, storage, WbTags)
      /\ DispatchFire \in BOOLEAN /\ RobTypeOK
  BY WireTypes DEF Cycle, WiresOK, TypeOK
<1>2. \A i \in Slot : EntryAfterEdge(i, FALSE, 0, DispatchFire, storage, WbTags)
  BY <1>1, EntriesAfter
<1>3. AllocFire(DispatchFire) => ~entries[tail].valid /\ tail \in Slot
  <2>1. PICK n \in 0 .. ROB_DEPTH : TP!WindowOf(n)
    BY DEF TP!Window
  <2>2. count \in Int
    BY <1>1 DEF RobTypeOK, Count
  <2>3. AllocFire(DispatchFire) => n # ROB_DEPTH
    BY <2>1, <2>2 DEF AllocFire, RobReady, TP!WindowOf
  <2> QED BY <1>1, <2>1, <2>3 DEF TP!WindowOf, TP!Dist, TP!Slot, RobTypeOK, Slot
<1>4. ASSUME NEW i \in Slot, entries[i].valid, ~entries[i].done
      PROVE  /\ entries'[i].valid /\ entries'[i].tag = entries[i].tag
             /\ entries'[i].done <=> entries[i].tag \in WbTags
  <2>1. ~(AllocFire(DispatchFire) /\ i = tail) /\ ~(CommitFire /\ i = head)
    BY <1>3, <1>4 DEF CommitFire
  <2> QED BY <1>2, <1>4, <2>1 DEF EntryAfterEdge
<1>5. \A t \in Running : IF t \in WbTags THEN t \in Done' ELSE t \in Running'
  BY <1>4 DEF Running, Done
<1>6. DispatchFire => storage.rob_tag \in Running'
  <2>1. DispatchFire => AllocFire(DispatchFire)
    BY DEF DispatchFire, AllocFire
  <2> QED BY <1>2, <1>3, <2>1 DEF Running, EntryAfterEdge
<1> QED BY <1>5, <1>6

LEMMA RunningLive == Running \subseteq LiveTags
  BY DEF Running, LiveTags

\* Two places never come to hold the same instruction.
LEMMA GoesOnce ==
  ASSUME NEW a, NEW b, NEW c, NEW v, NEW l, NEW u1, NEW k1, NEW u2, NEW k2,
         Goes(v, l, u1, k1, a, b, c), Goes(v, l, u2, k2, a, b, c)
  PROVE  u1 = u2 /\ k1 = k2
  BY DEF Goes

LEMMA PendingRun ==
  ASSUME TypeOK, TP!Inv, AtRunning, AtOnce, Cycle
  PROVE  AtRunning' /\ AtOnce'
<1>1. PICK a, b, c, n : \A u, k, t :
        At(u, k, t)' => \/ Enters(u, k, t, n)
                        \/ \E v, l : At(v, l, t) /\ Goes(v, l, u, k, a, b, c)
  BY PendingMoves DEF PendingStep
<1>2. ASSUME NEW v, NEW l, NEW t, At(v, l, t), NEW u, NEW k, Goes(v, l, u, k, a, b, c)
      PROVE  t \in Running /\ t \notin WbTags
  <2>1. t \in Running
    BY <1>2 DEF AtRunning
  <2>2. v \notin {"alu_q", "bru_q", "m1"}
    BY <1>2 DEF Goes
  <2>3. t \notin WbTags
    BY <1>2, <2>2, WritersAre DEF AtOnce
  <2> QED BY <2>1, <2>3
<1>3. DispatchFire => storage.rob_tag \notin Running
  <2>1. DispatchFire => storage.rob_tag \notin LiveTags
    BY StorageTagFresh, WireTypes DEF TP!Inv, WiresOK
  <2> QED BY <2>1, RunningLive
<1>4. AtRunning'
  <2> SUFFICES ASSUME NEW u, NEW k, NEW t, At(u, k, t)' PROVE t \in Running'
    BY DEF AtRunning
  <2>1. CASE Enters(u, k, t, n)
    BY <2>1, RunningAfter DEF Enters, TP!Inv
  <2>2. CASE \E v, l : At(v, l, t) /\ Goes(v, l, u, k, a, b, c)
    BY <1>2, <2>2, RunningAfter DEF TP!Inv
  <2> QED BY <1>1, <2>1, <2>2
<1>5. AtOnce'
  <2> SUFFICES ASSUME NEW u1, NEW k1, NEW u2, NEW k2, NEW t,
                      At(u1, k1, t)', At(u2, k2, t)'
               PROVE  u1 = u2 /\ k1 = k2
    BY DEF AtOnce
  <2>1. /\ \/ Enters(u1, k1, t, n)
           \/ \E v, l : At(v, l, t) /\ Goes(v, l, u1, k1, a, b, c)
        /\ \/ Enters(u2, k2, t, n)
           \/ \E v, l : At(v, l, t) /\ Goes(v, l, u2, k2, a, b, c)
    BY <1>1
  <2>2. ASSUME NEW v1, NEW l1, At(v1, l1, t), Goes(v1, l1, u1, k1, a, b, c),
               NEW v2, NEW l2, At(v2, l2, t), Goes(v2, l2, u2, k2, a, b, c)
        PROVE  u1 = u2 /\ k1 = k2
    <3>1. v1 = v2 /\ l1 = l2
      BY <2>2 DEF AtOnce
    <3> QED BY <2>2, <3>1, GoesOnce
  <2>3. CASE Enters(u1, k1, t, n) /\ Enters(u2, k2, t, n)
    BY <2>3 DEF Enters
  <2>4. CASE \/ Enters(u1, k1, t, n) /\ \E v, l : At(v, l, t) /\ Goes(v, l, u2, k2, a, b, c)
             \/ Enters(u2, k2, t, n) /\ \E v, l : At(v, l, t) /\ Goes(v, l, u1, k1, a, b, c)
    BY <1>2, <1>3, <2>4 DEF Enters
  <2> QED BY <2>1, <2>2, <2>3, <2>4
<1> QED BY <1>4, <1>5

\* A flush empties every place.
LEMMA PendingRecover ==
  ASSUME TypeOK, Recover
  PROVE  /\ AtRunning' /\ AtOnce'
         /\ \A u, k, t : ~At(u, k, t)'
<1>1. /\ \A k \in RsIndex : rs_alu'[k] = None /\ rs_bru'[k] = None /\ rs_lsu'[k] = None
      /\ alu_q' = None /\ bru_q' = None /\ m0' = None /\ m1' = None
  BY DEF Recover, EveryEdge, AluEdge, BruEdge, LsuEdge, DmemEn, AllowIssue,
         RsAlu!RsFlush, RsBru!RsFlush, RsLsu!RsFlush, RsAlu!Index, RsBru!Index,
         RsLsu!Index, RsIndex
<1>2. \A u, k, t : ~At(u, k, t)'
  BY <1>1 DEF At, Holds, RsIndex
<1> QED BY <1>2 DEF AtRunning, AtOnce
-----------------------------------------------------------------------------
(***************************************************************************)
(* A recovery is asked for by a live branch that has written back.         *)
(***************************************************************************)

\* The packet says that it takes a checkpoint if it can redirect.
WellFormed(p) == p.is_branch <=> p.d.is_branch \/ p.d.is_jump

BranchesTracked ==
  /\ \A p \in {r2d_skid, storage} : p # None => WellFormed(p)
  /\ \A k \in RsIndex : rs_bru[k] # None =>
       /\ WellFormed(rs_bru[k])
       /\ rs_bru[k].is_branch => rs_bru[k].rob_tag \in Branches
  /\ Mispredict => bru_q.rob_tag \in Branches

RedirectOK == Flush => mp_q /\ redirect.tag \in Done \cap Branches

LEMMA BranchesAfter ==
  ASSUME TypeOK, TP!Inv, LiveInFlight, Cycle
  PROVE  Branches' = (IF DispatchFire /\ storage.is_branch
                      THEN Branches \cup {storage.rob_tag} ELSE Branches) \cap LiveTags'
<1>1. TP!TrackBranches(TP!DispatchFire(StationOk))
  BY TagRun DEF TP!Cycle
<1>2. DispatchFire <=> TP!DispatchFire(StationOk)
  BY Handshakes DEF Cycle
<1>3. DispatchFire => /\ TagPacket(storage).is_branch = storage.is_branch
                      /\ TagPacket(storage).rob_tag = storage.rob_tag
  <2>1. DispatchFire => storage \in RenamePkt /\ storage # None
    BY WireTypes DEF WiresOK
  <2> QED BY <2>1, TagPackets
<1> QED BY <1>1, <1>2, <1>3, SamePath DEF TP!TrackBranches, Branches

LEMMA TrackedRun ==
  ASSUME TypeOK, TP!Inv, LiveInFlight, AtRunning, AtOnce, BranchesTracked, Cycle
  PROVE  BranchesTracked'
<1> DEFINE before == IF DispatchFire /\ storage.is_branch
                     THEN Branches \cup {storage.rob_tag} ELSE Branches
<1>1. Branches' = before \cap LiveTags'
  BY BranchesAfter
<1>2. \A u, k, t : At(u, k, t)' => t \in LiveTags'
  <2>1. AtRunning'
    BY PendingRun
  <2>2. Running' \subseteq LiveTags'
    BY DEF Running, LiveTags
  <2> QED BY <2>1, <2>2 DEF AtRunning
<1>3. ASSUME NEW p \in {r2d_skid', storage'}, p # None PROVE WellFormed(p)
  <2>1. p \in {r2d_skid, storage, RenameOut}
    BY <1>3 DEF Cycle, R2d!SkidEdge, Fifo!FifoEdge, R2d!SkidOut
  <2>2. RenameOut # None => WellFormed(RenameOut)
    BY DEF RenameOut, Renamed, WellFormed
  <2> QED BY <1>3, <2>1, <2>2 DEF BranchesTracked
<1>4. ASSUME NEW k \in RsIndex, rs_bru'[k] # None
      PROVE  /\ WellFormed(rs_bru'[k])
             /\ rs_bru'[k].is_branch => rs_bru'[k].rob_tag \in Branches'
  <2>1. \/ Insert("BRU") # None /\ SameInsn(Insert("BRU"), rs_bru'[k])
        \/ rs_bru[k] # None /\ SameInsn(rs_bru[k], rs_bru'[k])
    BY <1>4, StationSteps DEF StationStep
  <2>2. rs_bru'[k].rob_tag \in LiveTags'
    <3>1. ASSUME NEW t, t = rs_bru'[k].rob_tag PROVE At("BRU", k, t)'
      BY <1>4, <3>1 DEF At, Holds, RsIndex
    <3> QED BY <1>2, <3>1
  <2>3. CASE Insert("BRU") # None /\ SameInsn(Insert("BRU"), rs_bru'[k])
    <3>1. DispatchFire /\ storage # None /\ SameInsn(storage, rs_bru'[k])
      BY <2>3 DEF Insert
    <3>2. WellFormed(storage)
      BY <3>1 DEF BranchesTracked
    <3> QED BY <1>1, <2>2, <3>1, <3>2 DEF SameInsn, WellFormed
  <2>4. CASE rs_bru[k] # None /\ SameInsn(rs_bru[k], rs_bru'[k])
    <3>1. WellFormed(rs_bru[k]) /\ (rs_bru[k].is_branch => rs_bru[k].rob_tag \in Branches)
      BY <2>4 DEF BranchesTracked
    <3> QED BY <1>1, <2>2, <2>4, <3>1 DEF SameInsn, WellFormed
  <2> QED BY <2>1, <2>3, <2>4
<1>5. Mispredict' => bru_q'.rob_tag \in Branches'
  <2> SUFFICES ASSUME Mispredict' PROVE bru_q'.rob_tag \in Branches'
    OBVIOUS
  <2>1. bru_q' # None /\ bru_q'.taken
    BY DEF Mispredict
  <2>2. /\ IssBru # None
        /\ bru_q' = Resolve(IssBru, Src1(IssBru), Src2(IssBru))
    BY <2>1 DEF Cycle, EveryEdge, BruEdge
  <2>3. /\ bru_q'.rob_tag = IssBru.rob_tag
        /\ Taken(IssBru, Src1(IssBru), Src2(IssBru))
    BY <2>1, <2>2 DEF Resolve
  <2>4. IssBru.d.is_branch \/ IssBru.d.is_jump
    BY <2>3 DEF Taken
  <2>5. PICK sel \in RsIndex : rs_bru[sel] = IssBru
    BY <2>2, StationSteps DEF StationStep
  <2>6. IssBru.rob_tag \in Branches
    BY <2>2, <2>4, <2>5 DEF BranchesTracked, WellFormed
  <2>7. bru_q'.rob_tag \in LiveTags'
    <3>1. ASSUME NEW t, t = bru_q'.rob_tag PROVE At("bru_q", 0, t)'
      BY <2>1, <3>1 DEF At, Holds
    <3> QED BY <1>2, <3>1
  <2> QED BY <1>1, <2>3, <2>6, <2>7
<1> HIDE DEF before
<1>6. \A p \in {r2d_skid', storage'} : p # None => WellFormed(p)
  BY <1>3
<1> QED BY <1>4, <1>5, <1>6 DEF BranchesTracked, WellFormed, RsIndex

LEMMA TrackedRecover ==
  ASSUME TypeOK, Recover
  PROVE  BranchesTracked'
<1>1. \A u, k, t : ~At(u, k, t)'
  BY PendingRecover
<1>2. ~Mispredict'
  BY <1>1 DEF At, Holds, Mispredict
<1>3. \A k \in RsIndex : rs_bru'[k] = None
  BY <1>1 DEF At, Holds, RsIndex
<1>4. r2d_skid' = None /\ storage' = None
  BY DEF Recover, R2d!SkidFlush, Fifo!FifoFlush
<1> QED BY <1>2, <1>3, <1>4 DEF BranchesTracked, RsIndex

LEMMA RedirectRun ==
  ASSUME TypeOK, TP!Inv, LiveInFlight, AtRunning, AtOnce, BranchesTracked, Cycle
  PROVE  RedirectOK'
<1> SUFFICES ASSUME Flush' PROVE mp_q' /\ redirect'.tag \in Done' \cap Branches'
  BY DEF RedirectOK
<1>1. Mispredict /\ mp_q' /\ redirect'.tag = bru_q.rob_tag
  BY DEF Cycle, EveryEdge, RecoveryEdge, Flush
<1> DEFINE t == bru_q.rob_tag
<1>2. t \in Branches /\ bru_q # None
  BY <1>1 DEF BranchesTracked, Mispredict
<1>3. t \in Running
  <2>1. At("bru_q", 0, t)
    BY <1>2 DEF At, Holds
  <2> QED BY <2>1 DEF AtRunning
<1>4. t \in WbTags
  <2> DEFINE wb == WbBru
  <2>1. /\ wb = [rob_tag |-> bru_q.rob_tag, rd_used |-> bru_q.rd_used,
                 prd |-> bru_q.prd, data |-> bru_q.data]
    BY <1>2 DEF WbBru
  <2>2. wb # None
    <3>1. bru_q \in [rob_tag : Tag, rd_used : BOOLEAN, prd : Preg, data : Word,
                     taken : BOOLEAN, target : Pc]
      BY <1>2 DEF TypeOK, BruTypeOK
    <3>2. wb \in WbPkt
      BY <2>1, <3>1 DEF WbPkt
    <3> QED BY <3>2, NoneAssumption
  <2>3. wb.rob_tag = t
    BY <2>1
  <2> QED BY <2>2, <2>3 DEF WbTags
<1>5. t \in Done'
  BY <1>3, <1>4, RunningAfter DEF TP!Inv
<1>6. t \in Branches'
  <2>1. Done' \subseteq LiveTags'
    BY DEF Done, LiveTags
  <2> QED BY <1>2, <1>5, <2>1, BranchesAfter
<1> QED BY <1>1, <1>5, <1>6

LEMMA RedirectRecover ==
  ASSUME RedirectOK, Recover
  PROVE  RedirectOK'
<1>1. mp_q
  BY DEF Recover, RedirectOK
<1> QED BY <1>1 DEF Recover, EveryEdge, RecoveryEdge, RedirectOK, Flush
-----------------------------------------------------------------------------
(***************************************************************************)
(* The types after an edge.                                                *)
(***************************************************************************)

\* The tag path's part of the types.
LEMMA PathTypes ==
  ASSUME TP!TypeOK PROVE RobTypeOK /\ TagTypeOK
  BY DEF TP!TypeOK, TP!RobTypeOK, TP!TagTypeOK, RobTypeOK, TagTypeOK,
         TP!Entry, TP!Snapshot, TP!Count, TP!Slot, TP!Tag, TP!Preg,
         Entry, Snapshot, Count, Slot, Tag, Preg

\* The units at every edge.
LEMMA UnitsStep ==
  ASSUME TypeOK, EveryEdge
  PROVE  /\ BruTypeOK' /\ LsuTypeOK' /\ RecoveryTypeOK'
         /\ alu_q' \in [e : RenamePkt, a : Word, b : Word] \cup {None}
<1>1. /\ IssAlu \in RenamePkt \cup {None} /\ IssBru \in RenamePkt \cup {None}
      /\ IssLsu \in RenamePkt \cup {None}
      /\ \A e \in RenamePkt : Src1(e) \in Word /\ Src2(e) \in Word
  BY WireTypes DEF WiresOK
<1>2. alu_q' \in [e : RenamePkt, a : Word, b : Word] \cup {None}
  BY <1>1 DEF EveryEdge, AluEdge
<1>3. BruTypeOK'
  <2>1. CASE bru_q' = None
    BY <2>1 DEF BruTypeOK
  <2>2. CASE bru_q' # None
    <3>1. IssBru \in RenamePkt /\ bru_q' = Resolve(IssBru, Src1(IssBru), Src2(IssBru))
      BY <1>1, <2>2 DEF EveryEdge, BruEdge
    <3>2. Resolve(IssBru, Src1(IssBru), Src2(IssBru))
            \in [rob_tag : Tag, rd_used : BOOLEAN, prd : Preg,
                 data : Word, taken : BOOLEAN, target : Pc]
      BY <1>1, <3>1, UnitTypes
    <3> QED BY <3>1, <3>2 DEF BruTypeOK
  <2> QED BY <2>1, <2>2
<1>4. LsuTypeOK'
  <2>1. LsuTypeOK /\ LsuEdge(Flush, IssLsu, Src1(IssLsu), Src2(IssLsu))
    BY DEF TypeOK, EveryEdge
  <2>2. DmemEn(Flush, IssLsu) => IssLsu \in RenamePkt
    BY <1>1 DEF DmemEn
  <2>3. DmemEn(Flush, IssLsu) =>
          /\ EffAddr(IssLsu, Src1(IssLsu)) \in Word
          /\ Src2(IssLsu) \in Word
    BY <1>1, <2>2, UnitTypes
  <2> DEFINE en == DmemEn(Flush, IssLsu)
             addr == EffAddr(IssLsu, Src1(IssLsu))
             val == Src2(IssLsu)
  <2>4. DmemEdge(en, IssLsu, Src1(IssLsu), val)
    BY <2>1 DEF LsuEdge
  <2>5. /\ dmem' = IF en /\ IssLsu.d.is_store THEN [dmem EXCEPT ![addr] = val] ELSE dmem
        /\ resp1' = IF ~en THEN None ELSE IF IssLsu.d.is_store THEN 0 ELSE dmem[addr]
        /\ resp2' = resp1
    BY <2>4 DEF DmemEdge
  <2>6. /\ m0' = IF en THEN [is_load |-> IssLsu.d.is_load, rd_used |-> IssLsu.rd_used,
                             rob_tag |-> IssLsu.rob_tag, prd |-> IssLsu.prd]
                 ELSE None
        /\ m1' = IF Flush THEN None ELSE m0
        /\ block_cnt' = IF Flush THEN 2 ELSE IF block_cnt > 0 THEN block_cnt - 1 ELSE 0
    BY <2>1 DEF LsuEdge
  <2>7. en => [is_load |-> IssLsu.d.is_load, rd_used |-> IssLsu.rd_used,
               rob_tag |-> IssLsu.rob_tag, prd |-> IssLsu.prd] \in Meta
    BY <2>2 DEF RenamePkt, DecodePkt, Meta
  <2> HIDE DEF en, addr, val
  <2>8. (en => addr \in Word /\ val \in Word) /\ 0 \in Word
    BY <2>3, DataTypes DEF en, addr, val
  <2>9. dmem' \in [Word -> Word] /\ resp1' \in Word \cup {None} /\ resp2' \in Word \cup {None}
    BY <2>1, <2>5, <2>8 DEF LsuTypeOK
  <2>10. m0' \in Meta \cup {None} /\ m1' \in Meta \cup {None} /\ block_cnt' \in 0 .. 2
    BY <2>1, <2>6, <2>7 DEF LsuTypeOK
  <2> QED BY <2>9, <2>10 DEF LsuTypeOK
<1>5. RecoveryTypeOK'
  <2>1. RecoveryEdge(Mispredict, bru_q.target, bru_q.rob_tag)
    BY DEF EveryEdge
  <2>2. Mispredict \in BOOLEAN
    BY DEF Mispredict, TypeOK, BruTypeOK
  <2>3. Mispredict => bru_q.target \in Pc /\ bru_q.rob_tag \in Tag
    BY DEF Mispredict, TypeOK, BruTypeOK
  <2> QED BY <2>1, <2>2, <2>3 DEF RecoveryEdge, RecoveryTypeOK
<1> QED BY <1>2, <1>3, <1>4, <1>5

\* The histories.
LEMMA HistoriesStep ==
  ASSUME TypeOK, LiveInFlight, Histories, LiveStep
  PROVE  /\ inflight' \in [Tag -> InFlight \cup {None}]
         /\ arch' \in [pc : Pc, x : [Areg -> Word], mem : [Word -> Word]]
<1>1. ASSUME NEW t \in Tag PROVE Outcome(t) \in InFlight \cup {None}
  BY OutcomeAfter DEF LiveStep
<1>2. inflight' \in [Tag -> InFlight \cup {None}]
  BY <1>1 DEF Histories
<1>3. CASE CommitFire
  <2> DEFINE h == inflight[entries[head].tag]
  <2>1. arch' = Retired(h)
    BY <1>3 DEF Histories
  <2>2. h \in InFlight
    <3>1. head \in Slot
      BY DEF TypeOK, RobTypeOK
    <3>2. entries[head].tag \in LiveTags
      BY <1>3, <3>1 DEF CommitFire, LiveTags
    <3> QED BY <3>2 DEF LiveInFlight
  <2> HIDE DEF h
  <2>3. /\ h.pkt.d.rd \in Areg /\ h.pkt.prd \in Preg /\ h.next \in Pc
        /\ h.store # None => h.store.addr \in Word /\ h.store.data \in Word
    <3>1. h.pkt \in RenamePkt /\ h.next \in Pc
          /\ h.store \in [addr : Word, data : Word] \cup {None}
      BY <2>2 DEF InFlight
    <3>2. h.pkt.d \in DecodePkt /\ h.pkt.prd \in Preg
      BY <3>1 DEF RenamePkt
    <3> QED BY <3>1, <3>2 DEF DecodePkt
  <2>4. regs[h.pkt.prd] \in Word
    BY <2>3 DEF TypeOK, PrfTypeOK
  <2>5. arch.x \in [Areg -> Word] /\ arch.mem \in [Word -> Word]
    BY DEF TypeOK
  <2> DEFINE x   == IF h.pkt.rd_used THEN [arch.x EXCEPT ![h.pkt.d.rd] = regs[h.pkt.prd]]
                                     ELSE arch.x
             mem == IF h.store # None THEN [arch.mem EXCEPT ![h.store.addr] = h.store.data]
                                      ELSE arch.mem
  <2>6. x \in [Areg -> Word] /\ mem \in [Word -> Word]
    BY <2>3, <2>4, <2>5
  <2>7. arch' = [pc |-> h.next, x |-> x, mem |-> mem]
    BY <2>1 DEF Retired
  <2> HIDE DEF x, mem
  <2> QED BY <1>2, <2>3, <2>6, <2>7
<1>4. CASE ~CommitFire
  <2>1. arch' = arch
    BY <1>4 DEF Histories
  <2> QED BY <1>2, <2>1 DEF TypeOK
<1> QED BY <1>2, <1>3, <1>4

\* What rename keeps, with or without a flush.
LEMMA RenameStep ==
  ASSUME TypeOK, NEW fire \in BOOLEAN, NEW t \in Tag, NEW free_req, NEW free_preg \in Preg,
         fire => RenameIn # None,
         RenameEdge(RenameIn, fire, t, free_req, free_preg)
  PROVE  MapTypeOK' /\ FreeTypeOK'
<1>1. FreeTypeOK /\ MapTypeOK /\ RenameIn \in DecodePkt \cup {None}
  BY WireTypes DEF TypeOK, WiresOK
<1>2. FoundPreg \in Preg
  BY <1>1, FoundPregType
<1> DEFINE req  == fire /\ NeedAlloc(RenameIn)
           take == CheckpointTake(RenameIn, fire)
           map  == NextMap(req, free_req, free_preg)
           rd   == IF fire THEN RenameIn.rd ELSE 0
           next == RatNext(AllocGnt(req), rd, FoundPreg)
<1>3. /\ free_map' = map
      /\ ckpt_free_map' = IF take THEN [ckpt_free_map EXCEPT ![t] = map] ELSE ckpt_free_map
      /\ rat' = next
      /\ ckpt_rat' = IF take THEN [ckpt_rat EXCEPT ![t] = next] ELSE ckpt_rat
  BY DEF RenameEdge, FreeEdge, MapEdge
<1>4. map \subseteq Preg
  BY <1>1 DEF NextMap, FreeTypeOK
<1>5. next \in [Areg -> Preg]
  <2>1. rd \in Areg
    BY <1>1, DataTypes DEF DecodePkt
  <2> HIDE DEF rd
  <2> QED BY <1>1, <1>2, <2>1 DEF RatNext, MapTypeOK
<1> HIDE DEF map, next, take
<1> QED BY <1>1, <1>3, <1>4, <1>5 DEF MapTypeOK, FreeTypeOK

LEMMA PrfStep ==
  ASSUME TypeOK, NEW inval \in SUBSET Preg, PrfEdge(WbAlu, WbLsu(Flush), WbBru, inval)
  PROVE  PrfTypeOK'
<1>1. /\ WbAlu \in WbPkt \cup {None} /\ WbLsu(Flush) \in WbPkt \cup {None}
      /\ WbBru \in WbPkt \cup {None}
  BY WireTypes DEF WiresOK
<1>2. ASSUME NEW wb \in WbPkt \cup {None}, NEW p, WbWrites(wb, p)
      PROVE  wb.data \in Word
  BY <1>2 DEF WbWrites, WbPkt
<1>3. ASSUME NEW p \in Preg PROVE NextReg(p, WbAlu, WbLsu(Flush), WbBru) \in Word
  BY <1>1, <1>2, DataTypes DEF NextReg, TypeOK, PrfTypeOK
<1>4. regs' \in [Preg -> Word]
  BY <1>3 DEF PrfEdge
<1>5. valid_bits' \subseteq Preg
  BY DataTypes DEF PrfEdge, Written, TypeOK, PrfTypeOK
<1> QED BY <1>4, <1>5 DEF PrfTypeOK

\* The front of the core.
LEMMA FetchStep ==
  ASSUME TypeOK
  PROVE  /\ \A ready : FetchEdge(ready) => FetchTypeOK'
         /\ \A pc \in Pc : FetchFlush(pc) => FetchTypeOK'
<1>1. FetchTypeOK
  BY DEF TypeOK
<1>2. IcacheEdge => imem' \in [Pc -> Insn] /\ rdata' \in Insn \cup {None}
  BY <1>1 DEF IcacheEdge, FetchTypeOK
<1>3. ASSUME NEW ready, FetchEdge(ready) PROVE FetchTypeOK'
  <2>1. Captured => [pc |-> req_pc, instr |-> rdata] \in [pc : Pc, instr : Insn]
    BY <1>1 DEF Captured, FetchTypeOK
  <2>2. PcOf(req_pc + 1) \in Pc
    BY DataTypes
  <2> QED BY <1>1, <1>2, <1>3, <2>1, <2>2 DEF FetchEdge, FetchTypeOK
<1>4. ASSUME NEW pc \in Pc, FetchFlush(pc) PROVE FetchTypeOK'
  BY <1>2, <1>4 DEF FetchFlush, FetchTypeOK
<1> QED BY <1>3, <1>4
-----------------------------------------------------------------------------
(***************************************************************************)
(* The inductive invariant: the types; what the tag path maintains; every  *)
(* instruction that waits for its result is in one place, and in the ROB;  *)
(* and who redirects is a branch of the ROB that has written back.         *)
(***************************************************************************)
CoreInv ==
  /\ TypeOK
  /\ LiveInFlight
  /\ TP!Inv
  /\ AtRunning
  /\ AtOnce
  /\ BranchesTracked
  /\ RedirectOK

LEMMA InitCore == Init => CoreInv
<1> SUFFICES ASSUME Init PROVE CoreInv
  OBVIOUS
<1> USE DEF Init
<1>1. entries = [i \in Slot |-> ZeroEntry]
  BY DEF RobInit
<1>2. \A i \in Slot : ~entries[i].valid
  BY <1>1 DEF ZeroEntry
<1>3. LiveTags = {} /\ Running = {}
  BY <1>2 DEF LiveTags, Running
<1>4. TP!Inv
  <2>1. TP!RobInit /\ TP!TagInit
    BY DEF RobInit, TagInit, TP!RobInit, TP!TagInit, ZeroEntry, TP!ZeroEntry,
           Slot, TP!Slot, Tag, TP!Tag
  <2>2. TP!Skid!SkidInit /\ TP!Fifo!FifoInit
    BY DEF R2d!SkidInit, Fifo!FifoInit, TP!Skid!SkidInit, TP!Fifo!FifoInit, TagPacket
  <2>3. Branches = {}
    BY <1>3 DEF Branches
  <2>4. TP!Init
    BY <2>1, <2>2, <2>3 DEF TP!Init, Branches
  <2> QED BY <2>4, TagsAssumptions, TP!InitInv
<1>5. \A u, k, t : ~At(u, k, t)
  BY DEF At, Holds, RsIndex, RsAlu!RsInit, RsBru!RsInit, RsLsu!RsInit, RsAlu!Index,
         RsBru!Index, RsLsu!Index, AluInit, BruInit, LsuInit
<1>6. TypeOK
  <2>1. RobTypeOK /\ TagTypeOK
    BY <1>4, PathTypes DEF TP!Inv
  <2>2. MapTypeOK /\ FreeTypeOK
    BY DataTypes DEF MapInit, FreeInit, MapTypeOK, FreeTypeOK, Areg, Preg
  <2>3. PrfTypeOK /\ FetchTypeOK
    BY DataTypes, ProgramsAssumption DEF PrfInit, FetchInit, PrfTypeOK, FetchTypeOK
  <2>4. BruTypeOK /\ LsuTypeOK /\ RecoveryTypeOK
    <3>1. BruTypeOK
      BY DEF BruInit, BruTypeOK
    <3>2. dmem \in [Word -> Word] /\ block_cnt \in 0 .. 2
      BY DataTypes DEF LsuInit
    <3>3. LsuTypeOK
      BY <3>2 DEF LsuInit, LsuTypeOK
    <3>4. RecoveryTypeOK
      BY DEF RecoveryInit, RecoveryTypeOK
    <3> QED BY <3>1, <3>3, <3>4
  <2>5. F2d!SkidTypeOK /\ D2r!SkidTypeOK /\ R2d!SkidTypeOK /\ Fifo!FifoTypeOK
    BY DEF F2d!SkidInit, D2r!SkidInit, R2d!SkidInit, Fifo!FifoInit,
           F2d!SkidTypeOK, D2r!SkidTypeOK, R2d!SkidTypeOK, Fifo!FifoTypeOK
  <2>6. RsAlu!RsTypeOK(RenamePkt) /\ RsBru!RsTypeOK(RenamePkt) /\ RsLsu!RsTypeOK(RenamePkt)
    BY DEF RsAlu!RsInit, RsBru!RsInit, RsLsu!RsInit, RsAlu!RsTypeOK, RsBru!RsTypeOK,
           RsLsu!RsTypeOK
  <2>7. /\ alu_q \in [e : RenamePkt, a : Word, b : Word] \cup {None}
        /\ inflight \in [Tag -> InFlight \cup {None}]
        /\ arch \in [pc : Pc, x : [Areg -> Word], mem : [Word -> Word]]
    BY DataTypes DEF AluInit
  <2> QED BY <2>1, <2>2, <2>3, <2>4, <2>5, <2>6, <2>7 DEF TypeOK
<1>7. LiveInFlight
  BY <1>3 DEF LiveInFlight
<1>8. AtRunning /\ AtOnce
  BY <1>5 DEF AtRunning, AtOnce
<1>9. BranchesTracked
  <2>1. ~Mispredict
    BY DEF BruInit, Mispredict
  <2>2. \A k \in RsIndex : rs_bru[k] = None
    BY DEF RsBru!RsInit, RsBru!Index, RsIndex
  <2> QED BY <2>1, <2>2 DEF BranchesTracked, R2d!SkidInit, Fifo!FifoInit
<1>10. RedirectOK
  BY DEF RedirectOK, RecoveryInit, Flush
<1> QED BY <1>4, <1>6, <1>7, <1>8, <1>9, <1>10 DEF CoreInv

LEMMA TypesRun ==
  ASSUME CoreInv, Cycle, TP!Inv'
  PROVE  TypeOK'
<1> USE DEF CoreInv
<1>1. WiresOK /\ FreeTag \in Tag
  BY WireTypes, FreeTagIs DEF TypeOK
<1>2. RobTypeOK' /\ TagTypeOK'
  <2>1. TP!TypeOK'
    BY DEF TP!Inv
  <2> QED BY <2>1, PathTypes, PTL
<1>3. BruTypeOK' /\ LsuTypeOK' /\ RecoveryTypeOK'
      /\ alu_q' \in [e : RenamePkt, a : Word, b : Word] \cup {None}
  BY UnitsStep DEF Cycle
<1>4. MapTypeOK' /\ FreeTypeOK'
  <2>1. /\ RenameEdge(RenameIn, RFire, FreeTag, FreeReq, entries[head].old_prd)
        /\ RFire \in BOOLEAN /\ (RFire => RenameIn # None)
    BY DEF Cycle, RFire, RenameFire
  <2>2. entries[head].old_prd \in Preg
    BY DEF TypeOK, RobTypeOK, Entry
  <2> QED BY <1>1, <2>1, <2>2, RenameStep
<1>5. PrfTypeOK'
  <2>1. AllocInval(RenameIn, RFire) \subseteq Preg
    BY FoundPregType DEF AllocInval, TypeOK
  <2> QED BY <2>1, PrfStep DEF Cycle
<1>6. FetchTypeOK'
  BY FetchStep DEF Cycle
<1>7. F2d!SkidTypeOK'
  BY <1>1 DEF Cycle, TypeOK, F2d!SkidTypeOK, F2d!SkidEdge, FetchTypeOK, FetchPkt
<1>8. D2r!SkidTypeOK'
  BY <1>1 DEF Cycle, TypeOK, D2r!SkidTypeOK, D2r!SkidEdge, WiresOK
<1>9. R2d!SkidTypeOK'
  BY <1>1 DEF Cycle, TypeOK, R2d!SkidTypeOK, R2d!SkidEdge, WiresOK
<1>10. Fifo!FifoTypeOK'
  BY <1>1 DEF Cycle, TypeOK, Fifo!FifoTypeOK, Fifo!FifoEdge, R2d!SkidTypeOK,
              R2d!SkidOut, WiresOK
<1>11. /\ RsAlu!RsTypeOK(RenamePkt)' /\ RsBru!RsTypeOK(RenamePkt)'
       /\ RsLsu!RsTypeOK(RenamePkt)'
  BY StationSteps
<1>12. /\ inflight' \in [Tag -> InFlight \cup {None}]
       /\ arch' \in [pc : Pc, x : [Areg -> Word], mem : [Word -> Word]]
  BY LiveStepRun, HistoriesStep DEF Cycle
<1> QED
  BY <1>2, <1>3, <1>4, <1>5, <1>6, <1>7, <1>8, <1>9, <1>10, <1>11, <1>12 DEF TypeOK

LEMMA TypesRecover ==
  ASSUME CoreInv, Recover, TP!Inv'
  PROVE  TypeOK'
<1> USE DEF CoreInv
<1>1. redirect.pc \in Pc /\ redirect.tag \in Tag
  BY DEF Recover, Flush, TypeOK, RecoveryTypeOK
<1>2. RobTypeOK' /\ TagTypeOK'
  <2>1. TP!TypeOK'
    BY DEF TP!Inv
  <2> QED BY <2>1, PathTypes, PTL
<1>3. BruTypeOK' /\ LsuTypeOK' /\ RecoveryTypeOK'
      /\ alu_q' \in [e : RenamePkt, a : Word, b : Word] \cup {None}
  BY UnitsStep DEF Recover
<1>4. MapTypeOK' /\ FreeTypeOK'
  BY <1>1 DEF Recover, RenameRecover, MapRecover, FreeRecover, TypeOK, MapTypeOK, FreeTypeOK
<1>5. PrfTypeOK'
  BY DataTypes DEF Recover, PrfFlush, TypeOK, PrfTypeOK
<1>6. FetchTypeOK'
  BY <1>1, FetchStep DEF Recover
<1>7. F2d!SkidTypeOK' /\ D2r!SkidTypeOK' /\ R2d!SkidTypeOK' /\ Fifo!FifoTypeOK'
  BY DEF Recover, F2d!SkidFlush, D2r!SkidFlush, R2d!SkidFlush, Fifo!FifoFlush,
         F2d!SkidTypeOK, D2r!SkidTypeOK, R2d!SkidTypeOK, Fifo!FifoTypeOK
<1>8. /\ RsAlu!RsTypeOK(RenamePkt)' /\ RsBru!RsTypeOK(RenamePkt)'
      /\ RsLsu!RsTypeOK(RenamePkt)'
  BY DEF Recover, RsAlu!RsFlush, RsBru!RsFlush, RsLsu!RsFlush, RsAlu!RsTypeOK,
         RsBru!RsTypeOK, RsLsu!RsTypeOK
<1>9. /\ inflight' \in [Tag -> InFlight \cup {None}]
      /\ arch' \in [pc : Pc, x : [Areg -> Word], mem : [Word -> Word]]
  BY LiveStepRecover, HistoriesStep DEF Recover
<1> QED BY <1>2, <1>3, <1>4, <1>5, <1>6, <1>7, <1>8, <1>9 DEF TypeOK

\* What the core does is a step of the tag path as RobTags has it, also as far as
\* its environment goes.
LEMMA WritersAllowed ==
  ASSUME AtRunning
  PROVE  WbTags \in Tags!Writebacks
<1> DEFINE a == WbAlu
           l == WbLsu(Flush)
           b == WbBru
           S == {a.rob_tag, l.rob_tag, b.rob_tag}
<1>1. WbTags \subseteq S
  BY DEF WbTags
<1>2. IsFiniteSet(S) /\ Cardinality(S) <= 3
  <2>1. /\ IsFiniteSet({a.rob_tag}) /\ Cardinality({a.rob_tag}) = 1
    BY FS_Singleton
  <2>2. /\ IsFiniteSet({a.rob_tag} \cup {l.rob_tag})
        /\ Cardinality({a.rob_tag} \cup {l.rob_tag}) \in {1, 2}
    BY <2>1, FS_AddElement
  <2>3. /\ IsFiniteSet(({a.rob_tag} \cup {l.rob_tag}) \cup {b.rob_tag})
        /\ Cardinality(({a.rob_tag} \cup {l.rob_tag}) \cup {b.rob_tag}) \in {1, 2, 3}
    BY <2>2, FS_AddElement
  <2>4. S = ({a.rob_tag} \cup {l.rob_tag}) \cup {b.rob_tag}
    OBVIOUS
  <2> QED BY <2>3, <2>4
<1> HIDE DEF S
<1>3. Cardinality(WbTags) <= 3
  <2>1. Cardinality(WbTags) \in Nat /\ Cardinality(S) \in Nat
        /\ Cardinality(WbTags) <= Cardinality(S)
    BY <1>1, <1>2, FS_Subset, FS_CardinalityType
  <2> QED BY <1>2, <2>1
<1>4. WbTags \subseteq Running
  BY WritersAre DEF AtRunning
<1>5. Tags!Cardinality(WbTags) <= 3
  BY <1>3, Zenon DEF Tags!Cardinality, Cardinality
<1> QED BY <1>4, <1>5 DEF Tags!Writebacks, Running, Tags!Slot, Slot

LEMMA PathStep ==
  ASSUME CoreInv, Next
  PROVE  Tags!Next /\ TP!Inv' /\ LiveInFlight'
<1> USE DEF CoreInv
<1>1. /\ Offer \in [rd_used : BOOLEAN, old_prd : Preg, is_branch : BOOLEAN] \cup {None}
      /\ StationOk \in BOOLEAN
  BY OfferIs DEF StationOk
<1>2. CASE Cycle
  <2>1. TP!Cycle(Offer, StationOk, WbTags) /\ LiveInFlight'
    BY <1>2, TagRun
  <2>2. TP!Inv'
    BY <1>1, <2>1, TagsAssumptions, TP!RunStep
  <2>3. Tags!Cycle(Offer, StationOk, WbTags)
    BY <2>1, SameCycle
  <2> QED BY <1>1, <2>1, <2>2, <2>3, WritersAllowed DEF Tags!Next, Tags!Run
<1>3. CASE Recover
  <2>1. TP!RecoverCycle(redirect.tag, Offer, WbTags) /\ LiveInFlight'
    BY <1>3, TagRecovers
  <2>2. redirect.tag \in Done \cap Branches
    BY <1>3 DEF Recover, RedirectOK
  <2>3. redirect.tag \in TP!Resolved /\ redirect.tag \in Tags!Resolved
    BY <2>2 DEF TP!Resolved, Tags!Resolved, Done, Branches, TP!Slot, Tags!Slot, Slot,
                LiveTags
  <2>4. TP!Inv'
    BY <1>1, <2>1, <2>3, TagsAssumptions, TP!RecoverStep
  <2>5. Tags!RecoverCycle(redirect.tag, Offer, WbTags)
    BY <2>1, SameCycle
  <2> QED BY <1>1, <2>1, <2>3, <2>4, <2>5, WritersAllowed DEF Tags!Next, Tags!Recover
<1> QED BY <1>2, <1>3 DEF Next

LEMMA CoreStep == CoreInv /\ [Next]_vars => CoreInv'
<1> SUFFICES ASSUME CoreInv, [Next]_vars PROVE CoreInv'
  OBVIOUS
<1>1. CASE Cycle
  <2>1. TP!Inv' /\ LiveInFlight'
    BY <1>1, PathStep DEF Next
  <2>2. TypeOK'
    BY <1>1, <2>1, TypesRun
  <2>3. AtRunning' /\ AtOnce' /\ BranchesTracked' /\ RedirectOK'
    BY <1>1, PendingRun, TrackedRun, RedirectRun DEF CoreInv
  <2> QED BY <2>1, <2>2, <2>3 DEF CoreInv
<1>2. CASE Recover
  <2>1. TP!Inv' /\ LiveInFlight'
    BY <1>2, PathStep DEF Next
  <2>2. TypeOK'
    BY <1>2, <2>1, TypesRecover
  <2>3. AtRunning' /\ AtOnce' /\ BranchesTracked' /\ RedirectOK'
    BY <1>2, PendingRecover, TrackedRecover, RedirectRecover DEF CoreInv
  <2> QED BY <2>1, <2>2, <2>3 DEF CoreInv
<1>3. CASE UNCHANGED vars
  <2> USE <1>3 DEF vars, robVars, tagVars, renameVars, ratVars, freeVars, prfVars,
                   fetchVars, lsuVars, recoveryVars
  <2>1. TypeOK'
    BY DEF CoreInv, TypeOK, RobTypeOK, TagTypeOK, MapTypeOK, FreeTypeOK,
           PrfTypeOK, FetchTypeOK, BruTypeOK, LsuTypeOK, RecoveryTypeOK, F2d!SkidTypeOK,
           D2r!SkidTypeOK, R2d!SkidTypeOK, Fifo!FifoTypeOK, RsAlu!RsTypeOK,
           RsBru!RsTypeOK, RsLsu!RsTypeOK
  <2>2. LiveTags' = LiveTags /\ Running' = Running /\ Done' = Done /\ Branches' = Branches
    BY DEF LiveTags, Running, Done, Branches
  <2>3. LiveInFlight'
    BY <2>2 DEF CoreInv, LiveInFlight
  <2>4. TP!Inv'
    <3>1. UNCHANGED TP!vars
      BY <2>2 DEF TP!vars, TP!robVars, TP!tagVars, Branches
    <3> QED BY <3>1, TagsAssumptions, TP!NextInv DEF CoreInv
  <2>5. \A u, k, t : At(u, k, t)' <=> At(u, k, t)
    BY DEF At, Holds, RsIndex
  <2>6. AtRunning' /\ AtOnce'
    BY <2>2, <2>5 DEF CoreInv, AtRunning, AtOnce
  <2>7. BranchesTracked' /\ RedirectOK'
    BY <2>2 DEF CoreInv, BranchesTracked, RedirectOK, WellFormed, Mispredict, Flush, RsIndex
  <2> QED BY <2>1, <2>3, <2>4, <2>6, <2>7 DEF CoreInv
<1> QED BY <1>1, <1>2, <1>3 DEF Next

LEMMA SpecCore == Spec => []CoreInv
  BY InitCore, CoreStep, PTL DEF Spec
-----------------------------------------------------------------------------
(***************************************************************************)
(* Every register of the core stays in its type, for every size of the     *)
(* core and every program: no tag, register, word or address is ever out   *)
(* of range, and what has a valid bit is a whole packet.                   *)
(***************************************************************************)
THEOREM CoreTypeCorrect == Spec => []TypeOK
<1>1. CoreInv => TypeOK
  BY DEF CoreInv
<1> QED BY <1>1, SpecCore, PTL

(***************************************************************************)
(* The core, seen through its tags, is one of the behaviours of RobTags:   *)
(* what writes back is in the ROB and has not done so before, and what is  *)
(* recovered is a branch in the ROB that has.  So the theorems about       *)
(* RobTags, which leaves its environment free, are about the core.         *)
(***************************************************************************)
THEOREM TagPathImplemented == Spec => ImplementsRobTags
<1>1. Init => Tags!Init
  <2> SUFFICES ASSUME Init PROVE Tags!Init
    OBVIOUS
  <2>1. LiveTags = {}
    BY DEF Init, RobInit, ZeroEntry, LiveTags
  <2>2. Tags!RobInit /\ Tags!TagInit
    BY DEF Init, RobInit, TagInit, Tags!RobInit, Tags!TagInit, ZeroEntry, Tags!ZeroEntry,
           Slot, Tags!Slot, Tag, Tags!Tag
  <2>3. Tags!Skid!SkidInit /\ Tags!Fifo!FifoInit
    BY DEF Init, R2d!SkidInit, Fifo!FifoInit, Tags!Skid!SkidInit, Tags!Fifo!FifoInit,
           TagPacket
  <2> QED BY <2>1, <2>2, <2>3 DEF Tags!Init
<1>2. CoreInv /\ [Next]_vars => [Tags!Next]_Tags!vars
  <2> SUFFICES ASSUME CoreInv, [Next]_vars PROVE [Tags!Next]_Tags!vars
    OBVIOUS
  <2>1. CASE Next
    BY <2>1, PathStep
  <2>2. CASE UNCHANGED vars
    BY <2>2 DEF vars, robVars, tagVars, Tags!vars, Tags!robVars, Tags!tagVars, LiveTags
  <2> QED BY <2>1, <2>2
<1> QED BY <1>1, <1>2, SpecCore, PTL DEF Spec, ImplementsRobTags, Tags!Spec

(***************************************************************************)
(* In the whole core, then, no two instructions in flight share a tag ...  *)
(***************************************************************************)
THEOREM CoreTagsUnique == Spec => []Tags!TagsUnique
<1>1. CoreInv => Tags!TagsUnique
  BY DEF CoreInv, TP!Inv, TP!TagsUnique, Tags!TagsUnique, TP!ValidSlots, Tags!ValidSlots,
         TP!Slot, Tags!Slot, TP!Buffered, Tags!Buffered
<1> QED BY <1>1, SpecCore, PTL
-----------------------------------------------------------------------------
(***************************************************************************)
(* The physical registers of CoreTop stay apart: free, mapped, or waiting  *)
(* for the commit of an instruction in flight to free them.                *)
(*                                                                         *)
(* RegistersDisjoint is not inductive: a recovery brings back an older map *)
(* and an older free list.  RegsInv says of the pair that each branch in   *)
(* flight would restore what RegistersDisjoint says of the current one,    *)
(* with the instructions that this recovery would leave in flight: those   *)
(* that are not younger than the branch.  For this the instructions have   *)
(* an age, that every edge keeps in order.                                 *)
(***************************************************************************)

(***************************************************************************)
(* The instructions in flight and their age: the distance from head for    *)
(* those in the ROB, then the fifo's packet, then the skid buffer's.       *)
(***************************************************************************)
Flying(q, a) ==
  \/ \E i \in Slot : /\ entries[i].valid
                     /\ q = inflight[entries[i].tag].pkt
                     /\ a = Dist(head, i)
  \/ storage # None /\ q = storage /\ a = ROB_DEPTH
  \/ r2d_skid # None /\ q = r2d_skid /\ a = ROB_DEPTH + 1

\* The ROB entry of an instruction has its packet's fields.
EntriesFollow ==
  \A i \in Slot : entries[i].valid =>
    /\ inflight[entries[i].tag].pkt.rob_tag = entries[i].tag
    /\ inflight[entries[i].tag].pkt.rd_used = entries[i].rd_used
    /\ inflight[entries[i].tag].pkt.old_prd = entries[i].old_prd

\* Physical register p waits for an instruction not younger than a to commit.
Held(p, a) ==
  p # 0 /\ \E q, b : Flying(q, b) /\ b <= a /\ q.rd_used /\ q.old_prd = p

\* The registers of a map, the free ones and those that wait are apart.
Apart(map, free, a) ==
  /\ \A p \in {map[r] : r \in Areg} : p \notin free /\ ~Held(p, a)
  /\ \A r, s \in Areg : map[r] = map[s] => r = s
  /\ \A p \in free : ~Held(p, a)

\* No register waits for two instructions.
OldOnce ==
  \A q1, q2, a1, a2 :
    /\ Flying(q1, a1) /\ Flying(q2, a2)
    /\ q1.rd_used /\ q2.rd_used /\ q1.old_prd = q2.old_prd /\ q1.old_prd # 0
    => a1 = a2

\* What a branch in flight would restore is apart from what it leaves waiting.
BranchesApart ==
  \A q, a : Flying(q, a) /\ q.is_branch =>
    Apart(ckpt_rat[q.rob_tag], ckpt_free_map[q.rob_tag], a)

RegsInv ==
  /\ Apart(rat, free_map, ROB_DEPTH + 1)
  /\ OldOnce
  /\ BranchesApart
  /\ EntriesFollow

\* The fifo takes a packet: dispatch empties it, or it is empty.
Go == DispatchFire \/ storage = None

\* What an edge without a flush makes of an age, with n instructions in the ROB.
Shift(b, a, n) ==
  \/ b \in 0 .. n - 1 /\ a = (IF CommitFire THEN b - 1 ELSE b) /\ a >= 0
  \/ b = ROB_DEPTH /\ DispatchFire /\ n < ROB_DEPTH
       /\ a = (IF CommitFire THEN n - 1 ELSE n)
  \/ b = ROB_DEPTH /\ ~DispatchFire /\ a = ROB_DEPTH
  \/ b = ROB_DEPTH + 1 /\ a = (IF Go THEN ROB_DEPTH ELSE ROB_DEPTH + 1)

\* What rename sends on is the youngest, if it is kept.
Newest(a) == r2d_skid = None /\ a = (IF Go THEN ROB_DEPTH ELSE ROB_DEPTH + 1)

\* Distances from head.
LEMMA DistFacts ==
  ASSUME NEW i \in Slot, NEW j \in Slot
  PROVE  /\ Dist(i, j) \in 0 .. ROB_DEPTH - 1
         /\ Dist(i, j) = 0 <=> i = j
         /\ Dist(Inc(i), j) = IF i = j THEN ROB_DEPTH - 1 ELSE Dist(i, j) - 1
         /\ Inc(i) \in Slot
<1>1. i \in 0 .. ROB_DEPTH - 1 /\ j \in 0 .. ROB_DEPTH - 1 /\ ROB_DEPTH \in Nat /\ ROB_DEPTH >= 2
  BY RobDepthAssumption DEF Slot
<1>2. Dist(i, j) \in 0 .. ROB_DEPTH - 1
  BY <1>1 DEF Dist
<1>3. Dist(i, j) = 0 <=> i = j
  BY <1>1 DEF Dist
<1>4. Dist(Inc(i), j) = IF i = j THEN ROB_DEPTH - 1 ELSE Dist(i, j) - 1
  BY <1>1 DEF Dist, Inc
<1>5. Inc(i) \in Slot
  BY <1>1 DEF Inc, Slot
<1> QED BY <1>2, <1>3, <1>4, <1>5

\* Ages and packets.
LEMMA FlyingIs ==
  ASSUME CoreInv, NEW q, NEW a, Flying(q, a)
  PROVE  /\ q \in RenamePkt /\ a \in 0 .. ROB_DEPTH + 1
         /\ a = ROB_DEPTH => storage # None
         /\ a = ROB_DEPTH + 1 => r2d_skid # None
<1> USE DEF CoreInv
<1>1. CASE \E i \in Slot : /\ entries[i].valid
                           /\ q = inflight[entries[i].tag].pkt
                           /\ a = Dist(head, i)
  <2>1. PICK i \in Slot : /\ entries[i].valid
                          /\ q = inflight[entries[i].tag].pkt
                          /\ a = Dist(head, i)
    BY <1>1
  <2>2. a \in 0 .. ROB_DEPTH - 1
    BY <2>1, DistFacts DEF TypeOK, RobTypeOK
  <2>3. inflight[entries[i].tag] \in InFlight
    BY <2>1 DEF LiveInFlight, LiveTags
  <2>4. q \in RenamePkt
    BY <2>1, <2>3 DEF InFlight
  <2>5. a \in 0 .. ROB_DEPTH + 1 /\ a # ROB_DEPTH /\ a # ROB_DEPTH + 1
    BY <2>2, RobDepthAssumption
  <2> QED BY <2>4, <2>5
<1>0. ROB_DEPTH \in Nat /\ ROB_DEPTH \in 0 .. ROB_DEPTH + 1 /\ ROB_DEPTH + 1 \in 0 .. ROB_DEPTH + 1
        /\ ROB_DEPTH # ROB_DEPTH + 1
  BY RobDepthAssumption
<1>2. CASE storage # None /\ q = storage /\ a = ROB_DEPTH
  BY <1>0, <1>2 DEF TypeOK, Fifo!FifoTypeOK
<1>3. CASE r2d_skid # None /\ q = r2d_skid /\ a = ROB_DEPTH + 1
  BY <1>0, <1>3 DEF TypeOK, R2d!SkidTypeOK
<1> QED BY <1>1, <1>2, <1>3 DEF Flying

\* The packets on their way to the ROB after an edge without a flush.
LEMMA BuffersAfter ==
  ASSUME TypeOK, Cycle
  PROVE  LET next == IF r2d_skid # None THEN r2d_skid ELSE RenameOut
         IN  /\ Go => storage' = next /\ r2d_skid' = None
             /\ ~Go => storage' = storage /\ r2d_skid' = next
             /\ r2d_skid = None /\ RenameOut # None => RFire
<1>1. DispatchFire => storage # None
  BY DEF DispatchFire
<1>2. /\ R2d!SkidEdge(RenameOut, Fifo!FifoReady(DispatchFire))
      /\ Fifo!FifoEdge(R2d!SkidOut(RenameOut), DispatchFire)
  BY DEF Cycle
<1>3. r2d_skid = None /\ RenameOut # None => RFire
  BY DEF RenameOut, RFire, RenameFire, R2dReady, R2d!SkidReady
<1> QED BY <1>1, <1>2, <1>3 DEF Go, R2d!SkidEdge, R2d!SkidOut, Fifo!FifoEdge, Fifo!FifoReady,
       Fifo!FifoPush, Fifo!FifoPop

\* The packets in the ROB after an edge.
LEMMA PacketsAfter ==
  ASSUME TypeOK, LiveInFlight, Histories, LiveStep, NEW t \in LiveTags'
  PROVE  inflight'[t].pkt = IF DispatchFire /\ t = storage.rob_tag
                            THEN storage ELSE inflight[t].pkt
<1>1. t \in Tag /\ inflight'[t] = Outcome(t)
  BY DEF LiveStep, Histories
<1>2. t \in LiveTags \/ (DispatchFire /\ t = storage.rob_tag)
  BY DEF LiveStep
<1> QED BY <1>1, <1>2, OutcomeAfter

LEMMA FlyingRun ==
  ASSUME CoreInv, Cycle
  PROVE  \E n \in 0 .. ROB_DEPTH : \A q, a : Flying(q, a)' =>
           \/ \E b : Flying(q, b) /\ Shift(b, a, n)
           \/ RFire /\ q = RenameOut /\ RenameOut # None /\ Newest(a)
<1> USE DEF CoreInv
<1>1. PICK n \in 0 .. ROB_DEPTH : TP!WindowOf(n)
  BY DEF TP!Inv, TP!Window
<1>2. /\ RobTypeOK /\ head \in Slot /\ tail \in Slot /\ count \in Int
      /\ RobEdge(FALSE, 0, Take, FreeTag, DispatchFire, storage, WbTags)
      /\ DispatchFire \in BOOLEAN
  <2>1. RobTypeOK /\ WiresOK
    BY WireTypes DEF TypeOK
  <2>2. head \in Slot /\ tail \in Slot /\ count \in Int
    BY <2>1, RobDepthAssumption DEF RobTypeOK, Count
  <2>3. RobEdge(FALSE, 0, Take, FreeTag, DispatchFire, storage, WbTags)
    BY DEF Cycle
  <2> QED BY <2>1, <2>2, <2>3 DEF WiresOK
<1>3. head' = IF CommitFire THEN Inc(head) ELSE head
  BY <1>2 DEF RobEdge
<1>4. /\ AllocFire(DispatchFire) <=> DispatchFire
      /\ DispatchFire => n < ROB_DEPTH /\ Dist(head, tail) = n
      /\ \A i \in Slot : entries[i].valid <=> Dist(head, i) < n
  <2>1. DispatchFire => RobReady
    BY DEF DispatchFire
  <2>2. AllocFire(DispatchFire) <=> DispatchFire
    BY <2>1 DEF AllocFire
  <2>3. /\ n <= count /\ (n # ROB_DEPTH => Dist(head, tail) = n)
        /\ \A i \in Slot : entries[i].valid <=> Dist(head, i) < n
    BY <1>1 DEF TP!WindowOf, TP!Slot, Slot, TP!Dist, Dist
  <2>4. RobReady => n < ROB_DEPTH
    BY <1>2, <2>3, RobDepthAssumption DEF RobReady
  <2> QED BY <2>1, <2>2, <2>3, <2>4
<1>5. CommitFire => n > 0 /\ entries[head].valid
  BY <1>2, <1>4, DistFacts DEF CommitFire
<1> SUFFICES ASSUME NEW q, NEW a, Flying(q, a)'
             PROVE  \/ \E b : Flying(q, b) /\ Shift(b, a, n)
                    \/ RFire /\ q = RenameOut /\ RenameOut # None /\ Newest(a)
  OBVIOUS
<1>6. CASE \E i \in Slot : /\ entries'[i].valid
                           /\ q = inflight'[entries'[i].tag].pkt
                           /\ a = Dist(head', i)
  <2>1. PICK i \in Slot : /\ entries'[i].valid
                          /\ q = inflight'[entries'[i].tag].pkt
                          /\ a = Dist(head', i)
    BY <1>6
  <2>2. EntryAfterEdge(i, FALSE, 0, DispatchFire, storage, WbTags)
    BY <1>2, EntriesAfter
  <2>3. entries'[i].tag \in LiveTags'
    BY <2>1 DEF LiveTags
  <2>4. q = IF DispatchFire /\ entries'[i].tag = storage.rob_tag
            THEN storage ELSE inflight[entries'[i].tag].pkt
    BY <2>1, <2>3, LiveStepRun, PacketsAfter DEF Cycle
  <2>5. CASE DispatchFire /\ i = tail
    <3>1. q = storage /\ storage # None
      BY <1>4, <2>2, <2>4, <2>5 DEF EntryAfterEdge, DispatchFire
    <3>2. Flying(q, ROB_DEPTH)
      BY <3>1 DEF Flying
    <3>3. a = IF CommitFire THEN n - 1 ELSE n
      BY <1>2, <1>3, <1>4, <1>5, <2>1, <2>5, DistFacts
    <3>4. Shift(ROB_DEPTH, a, n)
      BY <1>4, <2>5, <3>3 DEF Shift
    <3> QED BY <3>2, <3>4
  <2>6. CASE ~(DispatchFire /\ i = tail)
    <3>1. /\ entries[i].valid /\ ~(CommitFire /\ i = head)
          /\ entries'[i].tag = entries[i].tag
      BY <1>4, <2>1, <2>2, <2>6 DEF EntryAfterEdge
    <3>2. ~(DispatchFire /\ entries[i].tag = storage.rob_tag)
      <4>1. entries[i].tag \in LiveTags
        BY <3>1 DEF LiveTags
      <4> QED BY <4>1, LiveStepRun DEF LiveStep
    <3>3. Flying(q, Dist(head, i))
      BY <2>4, <3>1, <3>2 DEF Flying
    <3>4. Dist(head, i) \in 0 .. n - 1
      BY <1>2, <1>4, <3>1, DistFacts
    <3>5. a = (IF CommitFire THEN Dist(head, i) - 1 ELSE Dist(head, i)) /\ a >= 0
      BY <1>2, <1>3, <2>1, <3>1, <3>4, DistFacts
    <3>6. Shift(Dist(head, i), a, n)
      BY <3>4, <3>5 DEF Shift
    <3> QED BY <3>3, <3>6
  <2> QED BY <2>5, <2>6
<1>7. CASE storage' # None /\ q = storage' /\ a = ROB_DEPTH
  <2>1. CASE Go /\ r2d_skid # None
    <3>1. q = r2d_skid
      BY <1>7, <2>1, BuffersAfter
    <3> QED BY <1>7, <2>1, <3>1 DEF Flying, Shift
  <2>2. CASE Go /\ r2d_skid = None
    <3>1. q = RenameOut /\ RenameOut # None /\ RFire
      BY <1>7, <2>2, BuffersAfter
    <3> QED BY <1>7, <2>2, <3>1 DEF Newest
  <2>3. CASE ~Go
    <3>1. q = storage /\ storage # None /\ ~DispatchFire
      BY <1>7, <2>3, BuffersAfter DEF Go
    <3> QED BY <1>7, <3>1 DEF Flying, Shift
  <2> QED BY <2>1, <2>2, <2>3
<1>8. CASE r2d_skid' # None /\ q = r2d_skid' /\ a = ROB_DEPTH + 1
  <2>1. ~Go
    BY <1>8, BuffersAfter
  <2>2. CASE r2d_skid # None
    <3>1. q = r2d_skid
      BY <1>8, <2>1, <2>2, BuffersAfter
    <3> QED BY <1>8, <2>1, <2>2, <3>1 DEF Flying, Shift
  <2>3. CASE r2d_skid = None
    <3>1. q = RenameOut /\ RenameOut # None /\ RFire
      BY <1>8, <2>1, <2>3, BuffersAfter
    <3> QED BY <1>8, <2>1, <2>3, <3>1 DEF Newest
  <2> QED BY <2>2, <2>3
<1> QED BY <1>6, <1>7, <1>8 DEF Flying, Slot, Dist
-----------------------------------------------------------------------------
\* The tag of an instruction in flight is in use.
LEMMA FlyingTag ==
  ASSUME CoreInv, EntriesFollow, NEW q, NEW a, Flying(q, a)
  PROVE  /\ q.rob_tag \in LiveTags \cup reserved
         /\ TagOk => q.rob_tag # FreeTag
<1> USE DEF CoreInv
<1>1. q.rob_tag \in LiveTags \cup reserved
  <2>1. CASE \E i \in Slot : entries[i].valid /\ q = inflight[entries[i].tag].pkt
    BY <2>1 DEF EntriesFollow, LiveTags
  <2>2. ASSUME NEW p \in {r2d_skid, storage}, p # None, q = p
        PROVE  q.rob_tag \in reserved
    <3>1. p \in RenamePkt
      BY <2>2 DEF TypeOK, Fifo!FifoTypeOK, R2d!SkidTypeOK
    <3>2. TagPacket(p) # None /\ TagPacket(p).rob_tag = p.rob_tag
      BY <2>2, <3>1, TagPackets
    <3>3. TagPacket(p) \in TP!Buffered
      BY <2>2, <3>2 DEF TP!Buffered
    <3> QED BY <2>2, <3>2, <3>3 DEF TP!Inv, TP!TagsUnique
  <2> QED BY <2>1, <2>2 DEF Flying
<1>2. TagOk => FreeTag \notin LiveTags \cup reserved
  BY FreeTagIs DEF TypeOK
<1> QED BY <1>1, <1>2

\* What commits frees.
Freed(p) == FreeReq /\ p = entries[head].old_prd

\* Rename gives the destination a new register.
New == RFire /\ NeedAlloc(RenameIn)

\* The tables after an edge without a flush.
TablesAfter ==
  /\ New => /\ FoundPreg \in free_map
            /\ RenameIn.rd \in Areg
            /\ rat' = [rat EXCEPT ![RenameIn.rd] = FoundPreg]
            /\ \A p : p \in free_map' <=> (p \in free_map \/ Freed(p)) /\ p # FoundPreg
  /\ ~New => /\ rat' = rat
             /\ \A p : p \in free_map' <=> p \in free_map \/ Freed(p)
  /\ \A t \in Tag : ~(Take /\ t = FreeTag) =>
       ckpt_rat'[t] = ckpt_rat[t] /\ ckpt_free_map'[t] = ckpt_free_map[t]
  /\ Take => /\ FreeTag \in Tag
             /\ ckpt_rat'[FreeTag] = rat' /\ ckpt_free_map'[FreeTag] = free_map'

LEMMA RenameTables ==
  ASSUME CoreInv, Cycle
  PROVE  TablesAfter
<1> USE DEF CoreInv
<1> DEFINE req  == RFire /\ NeedAlloc(RenameIn)
           map  == NextMap(req, FreeReq, entries[head].old_prd)
           rd   == IF RFire THEN RenameIn.rd ELSE 0
           next == RatNext(AllocGnt(req), rd, FoundPreg)
<1>1. /\ free_map' = map
      /\ ckpt_free_map' = IF Take THEN [ckpt_free_map EXCEPT ![FreeTag] = map] ELSE ckpt_free_map
      /\ rat' = next
      /\ ckpt_rat' = IF Take THEN [ckpt_rat EXCEPT ![FreeTag] = next] ELSE ckpt_rat
  BY DEF Cycle, RenameEdge, FreeEdge, MapEdge, Take
<1>2. FreeTypeOK /\ MapTypeOK /\ RenameIn \in DecodePkt \cup {None} /\ FreeTag \in Tag
  BY WireTypes, FreeTagIs DEF TypeOK, WiresOK
<1>3. req => HasFree /\ RenameIn.rd # 0 /\ RenameIn # None
  BY DEF RFire, RenameFire, CanRename, NeedAlloc
<1>4. HasFree => FoundPreg \in free_map
  BY <1>2, FoundPregType
<1>5. RenameIn # None => RenameIn.rd \in Areg
  BY <1>2 DEF DecodePkt
<1>6. AllocGnt(req) <=> req
  BY <1>3 DEF AllocGnt
<1>7. next = IF req THEN [rat EXCEPT ![RenameIn.rd] = FoundPreg] ELSE rat
  BY <1>3, <1>6 DEF RatNext
<1>8. \A p : p \in map <=> (p \in free_map \/ Freed(p)) /\ ~(req /\ p = FoundPreg)
  BY <1>6 DEF NextMap, Freed, FreeReq
<1> HIDE DEF map, next
<1>9. New <=> req
  BY DEF New
<1>10. \A t \in Tag : ~(Take /\ t = FreeTag) =>
       ckpt_rat'[t] = ckpt_rat[t] /\ ckpt_free_map'[t] = ckpt_free_map[t]
  BY <1>1, <1>2 DEF FreeTypeOK, MapTypeOK
<1>11. Take => ckpt_rat'[FreeTag] = rat' /\ ckpt_free_map'[FreeTag] = free_map'
  BY <1>1, <1>2 DEF FreeTypeOK, MapTypeOK
<1> HIDE DEF req, rd
<1> QED BY <1>1, <1>2, <1>3, <1>4, <1>5, <1>7, <1>8, <1>9, <1>10, <1>11 DEF TablesAfter

\* What rename sends on.
LEMMA NewPacket ==
  ASSUME RFire
  PROVE  /\ TagOk
         /\ RenameOut.rd_used = NeedAlloc(RenameIn)
         /\ NeedAlloc(RenameIn) => RenameOut.old_prd = rat[RenameIn.rd]
         /\ RenameOut.rob_tag = FreeTag
         /\ RenameOut.is_branch => Take
<1>1. RenameIn # None /\ CanRename(RenameIn, TagOk)
  BY DEF RFire, RenameFire
<1>2. RenameOut = Renamed(RenameIn, FreeTag, valid_bits)
  BY <1>1 DEF RenameOut
<1> QED BY <1>1, <1>2 DEF Renamed, CanRename, Take, CheckpointTake
-----------------------------------------------------------------------------
(***************************************************************************)
(* An edge without a flush.                                                *)
(***************************************************************************)

\* Where what flies after the edge comes from.
Comes(q, a, n) ==
  \/ \E b : Flying(q, b) /\ Shift(b, a, n)
  \/ RFire /\ q = RenameOut /\ RenameOut # None /\ Newest(a)

\* Ages keep their order, and the newest is the youngest.
LEMMA ShiftOrder ==
  ASSUME CoreInv, NEW n \in 0 .. ROB_DEPTH,
         NEW q1, NEW b1, NEW a1, Flying(q1, b1), Shift(b1, a1, n),
         NEW a2, a2 <= a1
  PROVE  /\ \A q2, b2 : Flying(q2, b2) /\ Shift(b2, a2, n) => b2 <= b1
         /\ ~Newest(a2)
<1> DEFINE c == IF CommitFire THEN 1 ELSE 0
<1>0. ROB_DEPTH \in Nat /\ n \in Nat /\ n <= ROB_DEPTH
  BY RobDepthAssumption
<1>1. /\ b1 \in 0 .. ROB_DEPTH + 1
      /\ b1 = ROB_DEPTH => storage # None
      /\ b1 = ROB_DEPTH + 1 => r2d_skid # None
  BY FlyingIs
<1>2. DispatchFire => Go
  BY DEF Go
<1>3. ASSUME NEW q2, NEW b2, Flying(q2, b2), Shift(b2, a2, n)
      PROVE  b2 <= b1
  <2>1. /\ b2 \in 0 .. ROB_DEPTH + 1
        /\ b2 = ROB_DEPTH => storage # None
        /\ b2 = ROB_DEPTH + 1 => r2d_skid # None
    BY <1>3, FlyingIs
  <2>2. b2 = ROB_DEPTH /\ ~DispatchFire => ~Go
    BY <2>1 DEF Go
  <2>3. b1 = ROB_DEPTH /\ ~DispatchFire => ~Go
    BY <1>1 DEF Go
  <2> QED BY <1>0, <1>1, <1>2, <1>3, <2>1, <2>2, <2>3 DEF Shift
<1>4. ASSUME Newest(a2)
      PROVE  FALSE
  <2>1. b1 # ROB_DEPTH + 1 /\ b1 \in 0 .. ROB_DEPTH
    BY <1>0, <1>1, <1>4 DEF Newest
  <2>2. b1 = ROB_DEPTH /\ ~DispatchFire => ~Go
    BY <1>1 DEF Go
  <2> QED BY <1>0, <1>2, <1>4, <2>1, <2>2 DEF Newest, Shift
<1> QED BY <1>3, <1>4

\* An age goes over into one age, and none to zero and below.
LEMMA ShiftOnce ==
  ASSUME NEW n \in 0 .. ROB_DEPTH, NEW b, NEW a1, NEW a2
  PROVE  /\ Shift(b, a1, n) /\ Shift(b, a2, n) => a1 = a2
         /\ CommitFire => ~Shift(0, a1, n)
<1>1. ROB_DEPTH \in Nat /\ n \in Nat /\ n <= ROB_DEPTH /\ ROB_DEPTH > 0
  BY RobDepthAssumption
<1>2. Shift(b, a1, n) /\ Shift(b, a2, n) => a1 = a2
  BY <1>1 DEF Shift
<1>3. CommitFire => ~Shift(0, a1, n)
  BY <1>1 DEF Shift
<1> QED BY <1>2, <1>3

\* What waits after the edge.
LEMMA HeldAfter ==
  ASSUME CoreInv, Cycle, NEW n \in 0 .. ROB_DEPTH,
         \A q, a : Flying(q, a)' => Comes(q, a, n),
         NEW p, NEW a, Held(p, a)'
  PROVE  \/ Held(p, ROB_DEPTH + 1)
         \/ New /\ p = rat[RenameIn.rd] /\ p # 0
<1>1. PICK q, b : Flying(q, b)' /\ q.rd_used /\ q.old_prd = p /\ p # 0
  BY DEF Held
<1>2. CASE \E c : Flying(q, c)
  <2>1. PICK c : Flying(q, c)
    BY <1>2
  <2>2. c <= ROB_DEPTH + 1
    BY <2>1, FlyingIs, RobDepthAssumption
  <2> QED BY <1>1, <2>1, <2>2 DEF Held
<1>3. CASE RFire /\ q = RenameOut
  BY <1>1, <1>3, NewPacket DEF New
<1> QED BY <1>1, <1>2, <1>3 DEF Comes

\* What waits for an instruction not younger than one that was there before.
LEMMA HeldKept ==
  ASSUME CoreInv, NEW n \in 0 .. ROB_DEPTH,
         \A q, a : Flying(q, a)' => Comes(q, a, n),
         NEW q1, NEW b1, NEW a1, Flying(q1, b1), Shift(b1, a1, n), a1 \in Int,
         NEW p, Held(p, a1)'
  PROVE  Held(p, b1)
<1>1. PICK q, a : Flying(q, a)' /\ a <= a1 /\ q.rd_used /\ q.old_prd = p /\ p # 0
  BY DEF Held
<1>2. PICK b : Flying(q, b) /\ Shift(b, a, n)
  BY <1>1, ShiftOrder DEF Comes
<1>3. b <= b1
  BY <1>1, <1>2, ShiftOrder
<1> QED BY <1>1, <1>2, <1>3 DEF Held

\* What commits has waited for the oldest instruction, and waits no more.
LEMMA FreedWas ==
  ASSUME CoreInv, EntriesFollow, NEW p, Freed(p)
  PROVE  /\ p # 0 /\ CommitFire
         /\ \E q : Flying(q, 0) /\ q.rd_used /\ q.old_prd = p
         /\ Held(p, ROB_DEPTH + 1)
<1>1. FreeReq /\ p = entries[head].old_prd /\ head \in Slot
  BY DEF Freed, CoreInv, TypeOK, RobTypeOK
<1>2. CommitFire /\ p # 0 /\ entries[head].rd_used /\ entries[head].valid
  BY <1>1 DEF FreeReq, CommitFire
<1> DEFINE q == inflight[entries[head].tag].pkt
<1>3. q.rd_used /\ q.old_prd = p
  BY <1>1, <1>2 DEF EntriesFollow
<1>4. Dist(head, head) = 0
  BY <1>1, DistFacts
<1>5. Flying(q, 0)
  BY <1>1, <1>2, <1>4 DEF Flying
<1> HIDE DEF q
<1>6. 0 <= ROB_DEPTH + 1
  BY RobDepthAssumption
<1> QED BY <1>2, <1>3, <1>5, <1>6 DEF Held

LEMMA FreedFree ==
  ASSUME CoreInv, RegsInv, Cycle, NEW n \in 0 .. ROB_DEPTH,
         \A q, a : Flying(q, a)' => Comes(q, a, n),
         NEW p, Freed(p), NEW a
  PROVE  ~Held(p, a)'
<1> SUFFICES ASSUME Held(p, a)' PROVE FALSE
  OBVIOUS
<1> USE DEF RegsInv
<1>1. PICK q0 : Flying(q0, 0) /\ q0.rd_used /\ q0.old_prd = p
  BY FreedWas
<1>2. p # 0 /\ CommitFire /\ Held(p, ROB_DEPTH + 1)
  BY FreedWas
<1>3. PICK q, b : Flying(q, b)' /\ q.rd_used /\ q.old_prd = p
  BY DEF Held
<1>4. CASE \E c : Flying(q, c) /\ Shift(c, b, n)
  <2>1. PICK c : Flying(q, c) /\ Shift(c, b, n)
    BY <1>4
  <2>2. c = 0
    BY <1>1, <1>2, <1>3, <2>1 DEF OldOnce
  <2> QED BY <1>2, <2>1, <2>2, ShiftOnce
<1>5. CASE RFire /\ q = RenameOut
  <2>1. New /\ p = rat[RenameIn.rd]
    BY <1>3, <1>5, NewPacket DEF New
  <2>2. RenameIn.rd \in Areg
    BY <2>1, RenameTables DEF TablesAfter
  <2> QED BY <1>2, <2>1, <2>2 DEF Apart
<1> QED BY <1>3, <1>4, <1>5 DEF Comes

\* The current map and the free list.
LEMMA TablesApart ==
  ASSUME CoreInv, RegsInv, Cycle, NEW n \in 0 .. ROB_DEPTH,
         \A q, a : Flying(q, a)' => Comes(q, a, n),
         NEW a
  PROVE  Apart(rat, free_map, a)'
<1> USE DEF RegsInv
<1> DEFINE rd == RenameIn.rd
<1>1. /\ TablesAfter
      /\ \A r \in Areg : rat[r] \notin free_map /\ ~Held(rat[r], ROB_DEPTH + 1)
      /\ \A r, s \in Areg : rat[r] = rat[s] => r = s
      /\ \A p \in free_map : ~Held(p, ROB_DEPTH + 1)
      /\ rat \in [Areg -> Preg]
  BY RenameTables DEF Apart, CoreInv, TypeOK, MapTypeOK
<1>2. \A p : Held(p, a)' => \/ Held(p, ROB_DEPTH + 1)
                            \/ New /\ p = rat[rd] /\ p # 0
  BY HeldAfter
<1>3. \A p : Freed(p) => Held(p, ROB_DEPTH + 1) /\ ~Held(p, a)'
  BY FreedWas, FreedFree
<1> HIDE DEF rd
<1>4. CASE New
  <2>1. /\ FoundPreg \in free_map /\ rd \in Areg
        /\ \A r \in Areg : rat'[r] = IF r = rd THEN FoundPreg ELSE rat[r]
        /\ \A p : p \in free_map' <=> (p \in free_map \/ Freed(p)) /\ p # FoundPreg
    BY <1>1, <1>4 DEF TablesAfter, rd
  <2>2. ASSUME NEW r \in Areg, NEW p, p = rat'[r]
        PROVE  p \notin free_map' /\ ~Held(p, a)'
    <3>1. CASE r = rd
      BY <1>1, <1>2, <2>1, <2>2, <3>1
    <3>2. CASE r # rd
      BY <1>1, <1>2, <1>3, <2>1, <2>2, <3>2
    <3> QED BY <3>1, <3>2
  <2>3. \A r, s \in Areg : rat'[r] = rat'[s] => r = s
    BY <1>1, <2>1
  <2>4. \A p \in free_map' : ~Held(p, a)'
    BY <1>1, <1>2, <1>3, <2>1
  <2> QED BY <2>2, <2>3, <2>4 DEF Apart
<1>5. CASE ~New
  <2>1. /\ rat' = rat
        /\ \A p : p \in free_map' <=> p \in free_map \/ Freed(p)
    BY <1>1, <1>5 DEF TablesAfter
  <2>2. ASSUME NEW r \in Areg, NEW p, p = rat'[r]
        PROVE  p \notin free_map' /\ ~Held(p, a)'
    BY <1>1, <1>2, <1>3, <1>5, <2>1, <2>2
  <2>3. \A r, s \in Areg : rat'[r] = rat'[s] => r = s
    BY <1>1, <2>1
  <2>4. \A p \in free_map' : ~Held(p, a)'
    BY <1>1, <1>2, <1>3, <1>5, <2>1
  <2> QED BY <2>2, <2>3, <2>4 DEF Apart
<1> QED BY <1>4, <1>5

LEMMA OldOnceRun ==
  ASSUME CoreInv, RegsInv, Cycle, NEW n \in 0 .. ROB_DEPTH,
         \A q, a : Flying(q, a)' => Comes(q, a, n)
  PROVE  OldOnce'
<1> USE DEF RegsInv
<1>1. TablesAfter
  BY RenameTables
<1>2. ASSUME NEW q, NEW b, Flying(q, b), q.rd_used, q.old_prd # 0,
             New, q.old_prd = rat[RenameIn.rd]
      PROVE  FALSE
  <2>1. b <= ROB_DEPTH + 1
    BY <1>2, FlyingIs, RobDepthAssumption
  <2>2. Held(q.old_prd, ROB_DEPTH + 1)
    BY <1>2, <2>1 DEF Held
  <2>3. RenameIn.rd \in Areg
    BY <1>1, <1>2 DEF TablesAfter
  <2> QED BY <1>2, <2>2, <2>3 DEF Apart
<1>3. RFire /\ RenameOut.rd_used => New /\ RenameOut.old_prd = rat[RenameIn.rd]
  BY NewPacket DEF New
<1>4. \A a1, a2 : Newest(a1) /\ Newest(a2) => a1 = a2
  BY DEF Newest
<1> SUFFICES ASSUME NEW q1, NEW q2, NEW a1, NEW a2,
                    Flying(q1, a1)', Flying(q2, a2)',
                    q1.rd_used, q2.rd_used, q1.old_prd = q2.old_prd, q1.old_prd # 0
             PROVE  a1 = a2
  BY DEF OldOnce
<1>5. Comes(q1, a1, n) /\ Comes(q2, a2, n)
  OBVIOUS
<1>6. CASE /\ \E b : Flying(q1, b) /\ Shift(b, a1, n)
           /\ \E b : Flying(q2, b) /\ Shift(b, a2, n)
  <2>1. PICK b1, b2 : /\ Flying(q1, b1) /\ Shift(b1, a1, n)
                      /\ Flying(q2, b2) /\ Shift(b2, a2, n)
    BY <1>6
  <2>2. b1 = b2
    BY <2>1 DEF OldOnce
  <2> QED BY <2>1, <2>2, ShiftOnce
<1>7. CASE ~\E b : Flying(q1, b) /\ Shift(b, a1, n)
  BY <1>2, <1>3, <1>4, <1>5, <1>7 DEF Comes
<1>8. CASE ~\E b : Flying(q2, b) /\ Shift(b, a2, n)
  BY <1>2, <1>3, <1>4, <1>5, <1>8 DEF Comes
<1> QED BY <1>6, <1>7, <1>8

LEMMA BranchesApartRun ==
  ASSUME CoreInv, RegsInv, Cycle, NEW n \in 0 .. ROB_DEPTH,
         \A q, a : Flying(q, a)' => Comes(q, a, n)
  PROVE  BranchesApart'
<1> USE DEF RegsInv
<1>1. TablesAfter
  BY RenameTables
<1> SUFFICES ASSUME NEW q, NEW a, Flying(q, a)', q.is_branch,
                    NEW m, NEW f,
                    m = ckpt_rat'[q.rob_tag], f = ckpt_free_map'[q.rob_tag]
             PROVE  Apart(m, f, a)'
  BY DEF BranchesApart, Apart
<1>2. CASE \E b : Flying(q, b) /\ Shift(b, a, n)
  <2>1. PICK b : Flying(q, b) /\ Shift(b, a, n)
    BY <1>2
  <2>2. q.rob_tag \in Tag /\ ~(Take /\ q.rob_tag = FreeTag)
    <3>1. q \in RenamePkt
      BY <2>1, FlyingIs
    <3>2. Take => TagOk
      BY NewPacket DEF Take, CheckpointTake
    <3> QED BY <2>1, <3>1, <3>2, FlyingTag DEF RenamePkt
  <2>3. m = ckpt_rat[q.rob_tag] /\ f = ckpt_free_map[q.rob_tag]
    BY <1>1, <2>2 DEF TablesAfter
  <2>4. Apart(m, f, b)
    BY <2>1, <2>3 DEF BranchesApart
  <2>5. a \in Int
    BY <2>1, FlyingIs, RobDepthAssumption DEF Shift
  <2>6. \A p : Held(p, a)' => Held(p, b)
    BY <2>1, <2>5, HeldKept
  <2> QED BY <2>4, <2>6 DEF Apart
<1>3. CASE RFire /\ q = RenameOut
  <2>1. m = rat' /\ f = free_map'
    BY <1>1, <1>3, NewPacket DEF TablesAfter
  <2>2. Apart(rat, free_map, a)'
    BY TablesApart
  <2> QED BY <2>1, <2>2 DEF Apart
<1> QED BY <1>2, <1>3 DEF Comes

\* The ROB entries after an edge, flushed or not.
LEMMA EntriesFollowAfter ==
  ASSUME CoreInv, EntriesFollow, Next
  PROVE  EntriesFollow'
<1> USE DEF CoreInv
<1> DEFINE rec == IF Flush THEN TRUE ELSE FALSE
           tag == IF Flush THEN redirect.tag ELSE 0
<1>1. /\ LiveStep /\ Histories /\ RobTypeOK /\ DispatchFire \in BOOLEAN
      /\ RobEdge(rec, tag, Take, FreeTag, DispatchFire, storage, WbTags)
  <2>1. CASE Cycle
    BY <2>1, LiveStepRun, WireTypes DEF Cycle, WiresOK, TypeOK
  <2>2. CASE Recover
    <3>1. DispatchFire = FALSE
      BY <2>2 DEF Recover, DispatchFire
    <3> QED BY <2>2, <3>1, LiveStepRecover DEF Recover, TypeOK
  <2> QED BY <2>1, <2>2 DEF Next
<1>2. rec \in BOOLEAN
  OBVIOUS
<1> HIDE DEF rec, tag
<1> SUFFICES ASSUME NEW i \in Slot, entries'[i].valid,
                    NEW t, t = entries'[i].tag
             PROVE  /\ inflight'[t].pkt.rob_tag = t
                    /\ inflight'[t].pkt.rd_used = entries'[i].rd_used
                    /\ inflight'[t].pkt.old_prd = entries'[i].old_prd
  BY DEF EntriesFollow, Slot
<1>3. t \in LiveTags'
  BY DEF LiveTags, Slot
<1>4. inflight'[t].pkt = IF DispatchFire /\ t = storage.rob_tag
                         THEN storage ELSE inflight[t].pkt
  BY <1>1, <1>3, PacketsAfter
<1>5. EntryAfterEdge(i, rec, tag, DispatchFire, storage, WbTags)
  BY <1>1, <1>2, EntriesAfter
<1>6. CASE AllocFire(DispatchFire) /\ i = tail
  BY <1>4, <1>5, <1>6 DEF EntryAfterEdge, AllocFire
<1>7. CASE ~(AllocFire(DispatchFire) /\ i = tail)
  <2>1. /\ entries[i].valid /\ t = entries[i].tag
        /\ entries'[i].rd_used = entries[i].rd_used
        /\ entries'[i].old_prd = entries[i].old_prd
    BY <1>5, <1>7 DEF EntryAfterEdge
  <2>2. ~(DispatchFire /\ t = storage.rob_tag)
    BY <1>1, <2>1 DEF LiveStep, LiveTags
  <2> QED BY <1>4, <2>1, <2>2 DEF EntriesFollow
<1> QED BY <1>6, <1>7

LEMMA RegsRun ==
  ASSUME CoreInv, RegsInv, Cycle
  PROVE  RegsInv'
<1>1. PICK n \in 0 .. ROB_DEPTH : \A q, a : Flying(q, a)' => Comes(q, a, n)
  BY FlyingRun DEF Comes
<1>2. Apart(rat, free_map, ROB_DEPTH + 1)'
  BY <1>1, TablesApart
<1>3. OldOnce' /\ BranchesApart'
  BY <1>1, OldOnceRun, BranchesApartRun
<1>4. EntriesFollow'
  BY EntriesFollowAfter DEF RegsInv, Next
<1> QED BY <1>2, <1>3, <1>4 DEF RegsInv
-----------------------------------------------------------------------------
(***************************************************************************)
(* An edge with a flush.                                                   *)
(***************************************************************************)

\* The branch in slot b asked for the recovery.
Asked(b) ==
  b \in Slot /\ entries[b].valid /\ entries[b].tag = redirect.tag /\ redirect.tag \in Branches

LEMMA RecoveredBranch ==
  ASSUME CoreInv, EntriesFollow, Recover
  PROVE  \E b, q : /\ Asked(b) /\ Flying(q, Dist(head, b))
                  /\ q.is_branch /\ q.rob_tag = redirect.tag
<1>1. redirect.tag \in Branches
  BY DEF Recover, CoreInv, RedirectOK
<1>2. PICK b \in Slot : entries[b].valid /\ entries[b].tag = redirect.tag
  BY <1>1 DEF Branches, LiveTags
<1> DEFINE q == inflight[redirect.tag].pkt
<1>3. Flying(q, Dist(head, b))
  BY <1>2 DEF Flying
<1>4. q.is_branch /\ q.rob_tag = redirect.tag
  BY <1>1, <1>2 DEF Branches, EntriesFollow
<1> HIDE DEF q
<1> QED BY <1>1, <1>2, <1>3, <1>4 DEF Asked

\* What is in flight after the recovery was in the ROB, not younger than b.
LEMMA FlyingRecover ==
  ASSUME CoreInv, Recover, NEW b, Asked(b), NEW q, NEW a, Flying(q, a)'
  PROVE  \E c \in Int : /\ Flying(q, c) /\ c <= Dist(head, b)
                        /\ a = IF CommitFire THEN c - 1 ELSE c
<1> USE DEF CoreInv
<1> DEFINE tag == redirect.tag
           take == Offer # None /\ TP!TagOk /\ TP!RenameReady(FALSE) /\ Offer.is_branch
<1>1. /\ RobEdge(TRUE, tag, Take, FreeTag, FALSE, storage, WbTags)
      /\ RobTypeOK /\ head \in Slot /\ ~DispatchFire /\ Histories /\ LiveStep
      /\ storage' = None /\ r2d_skid' = None
  BY LiveStepRecover DEF Recover, TypeOK, RobTypeOK, DispatchFire, R2d!SkidFlush, Fifo!FifoFlush
<1>2. TP!RobEdge(TRUE, tag, Take, FreeTag, FALSE, storage, WbTags)
  BY <1>1, SamePath
<1>3. /\ TP!RobTypeOK /\ TP!Window /\ b \in TP!Slot /\ tag \in TP!Tag
      /\ ckpt_ptrs[tag].tail = TP!Inc(b)
      /\ TP!Dist(head, b) < ckpt_ptrs[tag].count
      /\ ckpt_ptrs[tag].count <= ROB_DEPTH
  <2>1. TP!RobTypeOK /\ TP!Window /\ b \in TP!Slot
    BY DEF TP!Inv, TP!TypeOK, Asked, Slot, TP!Slot
  <2>2. tag \in TP!Tag
    BY <1>1, LiveTagTypes DEF Asked, Branches, Tag, TP!Tag
  <2>3. b \in TP!ValidSlots
    BY <2>1 DEF Asked, TP!ValidSlots
  <2> QED BY <2>1, <2>2, <2>3 DEF TP!Inv, TP!SnapshotsCoverBranches, Asked, Branches
<1>4. \A i \in TP!Slot : entries'[i].valid <=>
        TP!Dist(head, i) <= TP!Dist(head, b) /\ ~(TP!CommitFire /\ i = head)
  BY <1>2, <1>3, TagsAssumptions, TP!WindowAfterRecover DEF Asked
<1>5. \A i \in Slot : entries'[i].valid <=>
        Dist(head, i) <= Dist(head, b) /\ ~(CommitFire /\ i = head)
  BY <1>4, Zenon DEF TP!Slot, Slot, TP!Dist, Dist, TP!CommitFire, CommitFire
<1>6. PICK i \in Slot : /\ entries'[i].valid
                        /\ q = inflight'[entries'[i].tag].pkt
                        /\ a = Dist(head', i)
  BY <1>1 DEF Flying, Slot, Dist
<1>7. /\ Dist(head, i) <= Dist(head, b) /\ ~(CommitFire /\ i = head)
      /\ Dist(head, i) \in Int
  BY <1>1, <1>5, <1>6, DistFacts
<1>8. head' = IF CommitFire THEN Inc(head) ELSE head
  BY <1>1 DEF RobEdge
<1>9. a = IF CommitFire THEN Dist(head, i) - 1 ELSE Dist(head, i)
  BY <1>1, <1>6, <1>7, <1>8, DistFacts
<1>10. EntryAfterEdge(i, TRUE, tag, FALSE, storage, WbTags)
  BY <1>1, EntriesAfter
<1>11. entries[i].valid /\ entries'[i].tag = entries[i].tag
  BY <1>6, <1>10 DEF EntryAfterEdge, AllocFire
<1>12. inflight'[entries'[i].tag].pkt = inflight[entries'[i].tag].pkt
  <2>1. entries'[i].tag \in LiveTags'
    BY <1>6 DEF LiveTags
  <2> QED BY <1>1, <2>1, PacketsAfter
<1>13. Flying(q, Dist(head, i))
  BY <1>6, <1>11, <1>12 DEF Flying
<1> QED BY <1>7, <1>9, <1>13

LEMMA RegsRecover ==
  ASSUME CoreInv, RegsInv, Recover
  PROVE  RegsInv'
<1> USE DEF RegsInv
<1>1. PICK b, q0 : /\ Asked(b) /\ Flying(q0, Dist(head, b))
                   /\ q0.is_branch /\ q0.rob_tag = redirect.tag
  BY RecoveredBranch
<1>2. /\ rat' = ckpt_rat[redirect.tag] /\ free_map' = ckpt_free_map[redirect.tag]
      /\ ckpt_rat' = ckpt_rat /\ ckpt_free_map' = ckpt_free_map
  BY DEF Recover, RenameRecover, MapRecover, FreeRecover
<1>3. \A q, a : Flying(q, a)' =>
        \E c \in Int : /\ Flying(q, c) /\ c <= Dist(head, b)
                      /\ a = IF CommitFire THEN c - 1 ELSE c
  BY <1>1, FlyingRecover
<1>4. Apart(rat, free_map, ROB_DEPTH + 1)'
  <2>1. Apart(ckpt_rat[redirect.tag], ckpt_free_map[redirect.tag], Dist(head, b))
    BY <1>1 DEF BranchesApart
  <2>2. \A p : Held(p, ROB_DEPTH + 1)' => Held(p, Dist(head, b))
    BY <1>3 DEF Held
  <2> QED BY <1>2, <2>1, <2>2 DEF Apart
<1>5. OldOnce'
  BY <1>3 DEF OldOnce
<1>6. BranchesApart'
  <2> SUFFICES ASSUME NEW q, NEW a, Flying(q, a)', q.is_branch
               PROVE  Apart(ckpt_rat[q.rob_tag], ckpt_free_map[q.rob_tag], a)'
    BY DEF BranchesApart
  <2>1. PICK c \in Int : Flying(q, c) /\ a = IF CommitFire THEN c - 1 ELSE c
    BY <1>3
  <2>2. Apart(ckpt_rat[q.rob_tag], ckpt_free_map[q.rob_tag], c)
    BY <2>1 DEF BranchesApart
  <2>3. ASSUME NEW p, Held(p, a)' PROVE Held(p, c)
    <3>1. PICK r, d : Flying(r, d)' /\ d <= a /\ r.rd_used /\ r.old_prd = p /\ p # 0
      BY <2>3 DEF Held
    <3>2. PICK e \in Int : Flying(r, e) /\ d = IF CommitFire THEN e - 1 ELSE e
      BY <1>3, <3>1
    <3>3. e <= c
      BY <2>1, <3>1, <3>2
    <3> QED BY <3>1, <3>2, <3>3 DEF Held
  <2> QED BY <1>2, <2>2, <2>3 DEF Apart
<1>7. EntriesFollow'
  BY EntriesFollowAfter DEF Next
<1> QED BY <1>4, <1>5, <1>6, <1>7
-----------------------------------------------------------------------------
LEMMA InitRegs == Init => RegsInv
<1> SUFFICES ASSUME Init PROVE RegsInv
  OBVIOUS
<1>1. \A i \in Slot : ~entries[i].valid
  BY DEF Init, RobInit, ZeroEntry
<1>2. storage = None /\ r2d_skid = None
  BY DEF Init, Fifo!FifoInit, R2d!SkidInit
<1>3. \A q, a : ~Flying(q, a)
  BY <1>1, <1>2 DEF Flying
<1>4. \A p, a : ~Held(p, a)
  BY <1>3 DEF Held
<1>5. rat = [r \in Areg |-> r] /\ free_map = N_ARCH_REGS .. N_PHYS_REGS - 1
  BY DEF Init, MapInit, FreeInit
<1>6. \A r \in Areg : rat[r] \notin free_map
  BY <1>5, ArchRegsAssumption, PhysRegsAssumption DEF Areg
<1>7. Apart(rat, free_map, ROB_DEPTH + 1)
  BY <1>4, <1>5, <1>6 DEF Apart
<1>8. OldOnce /\ BranchesApart /\ EntriesFollow
  BY <1>1, <1>3 DEF OldOnce, BranchesApart, EntriesFollow
<1> QED BY <1>7, <1>8 DEF RegsInv

LEMMA RegsStep == CoreInv /\ RegsInv /\ [Next]_vars => RegsInv'
<1> SUFFICES ASSUME CoreInv, RegsInv, [Next]_vars PROVE RegsInv'
  OBVIOUS
<1>1. CASE UNCHANGED vars
  <2> USE <1>1 DEF vars, robVars, renameVars, ratVars, freeVars
  <2>1. \A q, a : Flying(q, a)' <=> Flying(q, a)
    BY DEF Flying, Slot, Dist
  <2>2. \A p, a : Held(p, a)' <=> Held(p, a)
    BY <2>1 DEF Held
  <2>3. Apart(rat, free_map, ROB_DEPTH + 1)'
    BY <2>2 DEF RegsInv, Apart
  <2>4. OldOnce' /\ BranchesApart'
    BY <2>1, <2>2 DEF RegsInv, OldOnce, BranchesApart, Apart
  <2>5. EntriesFollow'
    BY DEF RegsInv, EntriesFollow, Slot
  <2> QED BY <2>3, <2>4, <2>5 DEF RegsInv
<1> QED BY <1>1, RegsRun, RegsRecover DEF Next

(***************************************************************************)
(* For every size of the core and every program: a physical register that  *)
(* is free is neither mapped nor waiting to be freed by an instruction in  *)
(* flight, no two registers share one, and a recovery restores a map and a *)
(* free list of which this holds again.                                    *)
(***************************************************************************)
THEOREM RegistersApart == Spec => []RegistersDisjoint
<1>1. CoreInv /\ RegsInv => RegistersDisjoint
  <2> SUFFICES ASSUME CoreInv, RegsInv PROVE RegistersDisjoint
    OBVIOUS
  <2>1. ASSUME NEW p \in OldPrds
        PROVE  Held(p, ROB_DEPTH + 1)
    <3>1. PICK q \in InFlightPkts : q.rd_used /\ p = q.old_prd /\ p # 0
      BY <2>1 DEF OldPrds
    <3>2. \E a : Flying(q, a)
      BY <3>1 DEF InFlightPkts, Buffered, LiveTags, Flying
    <3>3. \E a : Flying(q, a) /\ a <= ROB_DEPTH + 1
      BY <3>2, FlyingIs, RobDepthAssumption
    <3> QED BY <3>1, <3>3 DEF Held
  <2> QED BY <2>1 DEF RegsInv, Apart, RegistersDisjoint
<1> QED BY <1>1, InitRegs, RegsStep, SpecCore, PTL DEF Spec
-----------------------------------------------------------------------------
(***************************************************************************)
(* No register is lost but in a recovery or with the packet of rename that *)
(* a full skid buffer drops while it is drained (skidbuffer.sv:45): what   *)
(* is free, mapped or waiting is so after the edge.                        *)
(***************************************************************************)

\* The former register of an instruction that is renamed and then dropped.
Dropped == IF r2d_skid # None /\ New THEN {rat[RenameIn.rd]} ELSE {}

\* An edge without a flush loses no other register (free_list_bitmap.sv,
\* skidbuffer.sv).
LossesKnown == [][Flush \/ Lost' \subseteq Lost \cup Dropped]_vars

Kept(p) == p \in free_map \/ (\E r \in Areg : rat[r] = p) \/ p \in OldPrds

\* A register that is free or freed by this edge.
LEMMA FreeKept ==
  ASSUME CoreInv, Cycle, NEW p, p \in free_map \/ Freed(p)
  PROVE  Kept(p)'
<1>1. TablesAfter /\ rat \in [Areg -> Preg]
  BY RenameTables DEF CoreInv, TypeOK, MapTypeOK
<1>2. CASE New /\ p = FoundPreg
  <2>1. RenameIn.rd \in Areg /\ rat'[RenameIn.rd] = p
    BY <1>1, <1>2 DEF TablesAfter
  <2>2. Areg' = Areg
    BY DEF Areg
  <2>3. \E r \in Areg : rat'[r] = p
    BY <2>1
  <2> QED BY <2>2, <2>3 DEF Kept
<1>3. CASE ~(New /\ p = FoundPreg)
  BY <1>1, <1>3 DEF TablesAfter, Kept
<1> QED BY <1>2, <1>3

\* A register that is mapped: the instruction that takes its place waits.
LEMMA MappedKept ==
  ASSUME CoreInv, Cycle, NEW r \in Areg, NEW p, p = rat[r], p \notin Dropped, p # 0
  PROVE  Kept(p)'
<1>1. TablesAfter /\ rat \in [Areg -> Preg] /\ TypeOK
  BY RenameTables DEF CoreInv, TypeOK, MapTypeOK
<1>2. CASE ~(New /\ r = RenameIn.rd)
  <2>1. rat'[r] = p
    BY <1>1, <1>2 DEF TablesAfter
  <2>2. Areg' = Areg
    BY DEF Areg
  <2> QED BY <2>1, <2>2 DEF Kept
<1>3. CASE New /\ r = RenameIn.rd
  <2>1. r2d_skid = None
    BY <1>3 DEF Dropped
  <2>2. RenameOut.rd_used /\ RenameOut.old_prd = p /\ RenameOut # None
    <3>1. RFire /\ NeedAlloc(RenameIn)
      BY <1>3 DEF New
    <3>2. RenameOut = Renamed(RenameIn, FreeTag, valid_bits)
      BY <3>1 DEF RenameOut, RFire, RenameFire
    <3>3. RenameOut \in RenamePkt
      <4>1. RenameIn \in DecodePkt
        BY <1>1, <3>1, WireTypes DEF WiresOK, RFire, RenameFire
      <4>2. FreeTypeOK /\ MapTypeOK /\ FreeTag \in Tag
        BY <1>1, FreeTagIs DEF TypeOK
      <4> QED BY <3>2, <4>1, <4>2, RenamedType
    <3> QED BY <1>3, <3>1, <3>3, NewPacket, NoneAssumption
  <2>3. storage' = RenameOut \/ r2d_skid' = RenameOut
    BY <1>1, <2>1, BuffersAfter
  <2>4. RenameOut \in Buffered'
    BY <2>2, <2>3 DEF Buffered
  <2>5. p \in OldPrds'
    <3>1. PICK q : q = RenameOut
      OBVIOUS
    <3>2. q \in InFlightPkts' /\ q.rd_used /\ q.old_prd = p
      BY <2>2, <2>4, <3>1 DEF InFlightPkts
    <3> QED BY <3>2 DEF OldPrds
  <2> QED BY <2>5 DEF Kept
<1> QED BY <1>2, <1>3

\* Dispatch overwrites no entry.
LEMMA TailFree ==
  ASSUME CoreInv, DispatchFire
  PROVE  ~entries[tail].valid
<1>1. PICK n \in 0 .. ROB_DEPTH : TP!WindowOf(n)
  BY DEF CoreInv, TP!Inv, TP!Window
<1>2. /\ n <= count /\ (n # ROB_DEPTH => Dist(head, tail) = n)
      /\ \A i \in Slot : entries[i].valid <=> Dist(head, i) < n
  BY <1>1 DEF TP!WindowOf, TP!Slot, Slot, TP!Dist, Dist
<1>3. tail \in Slot /\ count \in Int /\ RobReady
  BY RobDepthAssumption DEF CoreInv, TypeOK, RobTypeOK, Count, DispatchFire
<1>4. n < ROB_DEPTH
  BY <1>2, <1>3, RobDepthAssumption DEF RobReady
<1> QED BY <1>2, <1>3, <1>4

\* A register that waits: its instruction moves on to the ROB, and frees it when
\* it commits.
LEMMA WaitingKept ==
  ASSUME CoreInv, EntriesFollow, Cycle, NEW p \in OldPrds
  PROVE  Kept(p)'
<1> USE DEF CoreInv
<1>1. PICK q \in InFlightPkts : q.rd_used /\ p = q.old_prd /\ p # 0
  BY DEF OldPrds
<1>2. q \in InFlightPkts' => Kept(p)'
  BY <1>1 DEF OldPrds, Kept
<1>3. LiveStep /\ Histories
  BY LiveStepRun DEF Cycle
<1>4. \A t \in LiveTags' : inflight'[t] # None
  BY <1>3, OutcomeAfter, NoneAssumption DEF LiveStep, Histories
<1>5. /\ RobEdge(FALSE, 0, Take, FreeTag, DispatchFire, storage, WbTags)
      /\ DispatchFire \in BOOLEAN /\ RobTypeOK
      /\ DispatchFire => storage # None
  BY WireTypes DEF Cycle, WiresOK, TypeOK
<1>6. CASE q = r2d_skid /\ r2d_skid # None
  <2>1. storage' = q \/ r2d_skid' = q
    BY <1>6, BuffersAfter
  <2>2. q \in Buffered'
    BY <1>6, <2>1 DEF Buffered
  <2> QED BY <1>2, <2>2 DEF InFlightPkts
<1>7. CASE q = storage /\ storage # None /\ ~DispatchFire
  <2>1. storage' = q
    BY <1>7, BuffersAfter DEF Go
  <2>2. q \in Buffered'
    BY <1>7, <2>1 DEF Buffered
  <2> QED BY <1>2, <2>2 DEF InFlightPkts
<1>8. CASE q = storage /\ DispatchFire
  <2>1. storage.rob_tag \in LiveTags'
    <3>1. EntryAfterEdge(tail, FALSE, 0, DispatchFire, storage, WbTags)
      BY <1>5, EntriesAfter DEF RobTypeOK
    <3>2. AllocFire(DispatchFire)
      BY <1>8 DEF AllocFire, DispatchFire
    <3> QED BY <1>5, <3>1, <3>2 DEF EntryAfterEdge, LiveTags, RobTypeOK, Slot
  <2>2. inflight'[storage.rob_tag].pkt = q
    BY <1>3, <1>8, <2>1, PacketsAfter
  <2> QED BY <1>2, <1>4, <2>1, <2>2 DEF InFlightPkts
<1>9. CASE \E t \in LiveTags : q = inflight[t].pkt
  <2>1. PICK i \in Slot : entries[i].valid /\ q = inflight[entries[i].tag].pkt
    BY <1>9 DEF LiveTags
  <2>2. EntryAfterEdge(i, FALSE, 0, DispatchFire, storage, WbTags)
    BY <1>5, EntriesAfter
  <2>3. CASE CommitFire /\ i = head
    <3>1. q.rd_used = entries[i].rd_used /\ q.old_prd = entries[i].old_prd
      BY <2>1 DEF EntriesFollow
    <3>2. entries[i].rd_used
      BY <1>1, <3>1
    <3>3. Freed(p)
      BY <1>1, <2>3, <3>1, <3>2 DEF Freed, FreeReq
    <3> QED BY <3>3, FreeKept
  <2>4. CASE ~(CommitFire /\ i = head)
    <3>0. ~(AllocFire(DispatchFire) /\ i = tail)
      BY <2>1, TailFree DEF AllocFire
    <3>1. entries'[i].valid /\ entries'[i].tag = entries[i].tag
      BY <1>5, <2>1, <2>2, <2>4, <3>0 DEF EntryAfterEdge
    <3>2. entries[i].tag \in LiveTags' /\ entries[i].tag \in LiveTags
      BY <2>1, <3>1 DEF LiveTags, Slot
    <3>3. inflight'[entries[i].tag].pkt = q
      BY <1>3, <2>1, <3>2, PacketsAfter DEF LiveStep
    <3> QED BY <1>2, <1>4, <3>2, <3>3 DEF InFlightPkts
  <2> QED BY <2>3, <2>4
<1> QED BY <1>1, <1>6, <1>7, <1>8, <1>9 DEF InFlightPkts, Buffered

(***************************************************************************)
(* Registers are lost in two ways only, for every size of the core and     *)
(* every program: by a recovery, and one at a time by the skid buffer in   *)
(* front of dispatch, when it accepts a packet while full.                 *)
(***************************************************************************)
THEOREM LossesAreKnown == Spec => LossesKnown
<1> DEFINE Known == Flush \/ Lost' \subseteq Lost \cup Dropped
<1>1. CoreInv /\ RegsInv /\ [Next]_vars => [Known]_vars
  <2> SUFFICES ASSUME CoreInv, RegsInv, Next PROVE Known
    OBVIOUS
  <2>1. CASE Recover
    BY <2>1 DEF Recover
  <2>2. ASSUME Cycle, NEW p \in Lost', p \notin Lost, p \notin Dropped
        PROVE  FALSE
    <3>1. p \in N_ARCH_REGS .. N_PHYS_REGS - 1 /\ ~Kept(p)'
      BY <2>2 DEF Lost, Kept, Areg
    <3>2. Kept(p) /\ p # 0
      BY <2>2, <3>1, ArchRegsAssumption, PhysRegsAssumption DEF Lost, Kept
    <3>3. CASE p \in free_map
      BY <2>2, <3>1, <3>3, FreeKept
    <3>4. CASE \E r \in Areg : rat[r] = p
      <4>1. PICK r \in Areg : rat[r] = p
        BY <3>4
      <4> QED BY <2>2, <3>1, <3>2, <4>1, MappedKept
    <3>5. CASE p \in OldPrds
      BY <2>2, <3>1, <3>5, WaitingKept DEF RegsInv
    <3> QED BY <3>2, <3>3, <3>4, <3>5 DEF Kept
  <2> QED BY <2>1, <2>2 DEF Next
<1> QED BY <1>1, InitRegs, RegsStep, SpecCore, PTL DEF Spec, LossesKnown
=============================================================================
