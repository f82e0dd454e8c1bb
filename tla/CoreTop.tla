------------------------------- MODULE CoreTop ------------------------------
(***************************************************************************)
(* verilog/core_top.sv: the whole core.  The wires between the units are   *)
(* operators on the registers of the units; the clock edge is one action,  *)
(* Cycle, or Recover when recovery_ctrl drives flush and recover.  The     *)
(* core has no inputs: once the program is chosen, all is determined.      *)
(***************************************************************************)
EXTENDS RobTagAlloc, Rename, Prf, Fetch, AluFu, BranchFu, LsuFu, RecoveryCtrl

CONSTANTS RS_DEPTH,   \* entries of each reservation station
          Programs    \* the programs: functions from Pc to Insn

ASSUME RsDepthAssumption == RS_DEPTH \in Nat \ {0}

ASSUME ProgramsAssumption == Programs \subseteq [Pc -> Insn]

VARIABLES
  f2d, d2r, r2d_skid,           \* the three skid buffers
  storage,                      \* the dispatch fifo
  rs_alu, rs_bru, rs_lsu,       \* the slots of the reservation stations
  hold_alu, hold_bru, hold_lsu, \* and their held selections
  inflight,                     \* history: what is in the ROB under each tag
  arch                          \* history: what the retired instructions did

vars == <<robVars, tagVars, renameVars, prfVars, fetchVars, alu_q, bru_q, lsuVars,
          recoveryVars, f2d, d2r, r2d_skid, storage, rs_alu, rs_bru, rs_lsu,
          hold_alu, hold_bru, hold_lsu, inflight, arch>>

FetchPkt == [pc : Pc, instr : Insn]

F2d == INSTANCE SkidBuffer WITH Item <- FetchPkt, NoItem <- None, skid <- f2d
D2r == INSTANCE SkidBuffer WITH Item <- DecodePkt, NoItem <- None, skid <- d2r
R2d == INSTANCE SkidBuffer WITH Item <- RenamePkt, NoItem <- None, skid <- r2d_skid
Fifo == INSTANCE DispatchFifo WITH Item <- RenamePkt, NoItem <- None
RsAlu == INSTANCE Rs WITH slots <- rs_alu, hold <- hold_alu
RsBru == INSTANCE Rs WITH slots <- rs_bru, hold <- hold_bru
RsLsu == INSTANCE Rs WITH slots <- rs_lsu, hold <- hold_lsu

\* What became of an instruction in the ROB: the address after it, and its store.
InFlight == [pkt : RenamePkt, next : Pc,
             store : [addr : Word, data : Word] \cup {None}]

\* What has a valid bit is told from None.
ASSUME NoneAssumption ==
  /\ None \notin RenamePkt
  /\ None \notin WbPkt
  /\ None \notin InFlight
  /\ None \notin [rob_tag : Tag, rd_used : BOOLEAN, old_prd : Preg, is_branch : BOOLEAN]
  /\ None \notin [rd_used : BOOLEAN, old_prd : Preg, is_branch : BOOLEAN]

\* The same for the registers of the front and of the units.
ASSUME RegistersNoneAssumption ==
  /\ None \notin Pc /\ None \notin Insn /\ None \notin FetchPkt /\ None \notin DecodePkt
  /\ None \notin Word /\ None \notin Meta
  /\ None \notin [e : RenamePkt, a : Word, b : Word]
  /\ None \notin [rob_tag : Tag, rd_used : BOOLEAN, prd : Preg, data : Word,
                 taken : BOOLEAN, target : Pc]

TypeOK ==
  /\ RobTypeOK /\ TagTypeOK /\ MapTypeOK /\ FreeTypeOK
  /\ PrfTypeOK /\ FetchTypeOK /\ BruTypeOK /\ LsuTypeOK /\ RecoveryTypeOK
  /\ F2d!SkidTypeOK /\ D2r!SkidTypeOK /\ R2d!SkidTypeOK /\ Fifo!FifoTypeOK
  /\ RsAlu!RsTypeOK(RenamePkt) /\ RsBru!RsTypeOK(RenamePkt) /\ RsLsu!RsTypeOK(RenamePkt)
  /\ alu_q \in [e : RenamePkt, a : Word, b : Word] \cup {None}
  /\ inflight \in [Tag -> InFlight \cup {None}]
  /\ arch \in [pc : Pc, x : [Areg -> Word], mem : [Word -> Word]]

Init ==
  /\ imem \in Programs
  /\ RobInit /\ TagInit /\ MapInit /\ FreeInit
  /\ PrfInit /\ FetchInit /\ AluInit /\ BruInit /\ LsuInit /\ RecoveryInit
  /\ F2d!SkidInit /\ D2r!SkidInit /\ R2d!SkidInit /\ Fifo!FifoInit
  /\ RsAlu!RsInit /\ RsBru!RsInit /\ RsLsu!RsInit
  /\ inflight = [t \in Tag |-> None]
  /\ arch = [pc |-> 0, x |-> [r \in Areg |-> 0], mem |-> [a \in Word |-> 0]]
-----------------------------------------------------------------------------
(***************************************************************************)
(* The wires.                                                              *)
(***************************************************************************)
\* dispatch.sv: the fifo's packet goes to its station and to the ROB together.
StationReady(fu) == CASE fu = "ALU" -> RsAlu!RsReady
                      [] fu = "BRU" -> RsBru!RsReady
                      [] fu = "LSU" -> RsLsu!RsReady

\* Mutant of DispatchFire: without a look at the ROB.
DispatchFireBlind ==
  storage # None /\ StationReady(storage.d.fu_type) /\ ~Flush

DispatchFire ==
  storage # None /\ RobReady /\ StationReady(storage.d.fu_type) /\ ~Flush

Insert(fu) == IF DispatchFire /\ storage.d.fu_type = fu THEN storage ELSE None

\* Decode between its two skid buffers.
Fetched == F2d!SkidOut(f_out)
Decoded == IF Fetched = None THEN None ELSE DecodeInsn(Fetched.pc, Fetched.instr)

\* Rename: what it is offered, whether it fires, what it sends on.
RenameIn  == D2r!SkidOut(Decoded)
R2dReady  == R2d!SkidReady(Fifo!FifoReady(DispatchFire))
RFire     == RenameFire(RenameIn, TagOk, R2dReady)
RenameOut == IF RenameIn # None /\ CanRename(RenameIn, TagOk)
             THEN Renamed(RenameIn, FreeTag, valid_bits) ELSE None
Take      == CheckpointTake(RenameIn, RFire)

\* The ready wires towards the front.
RenameReady == R2dReady /\ (RenameIn # None => CanRename(RenameIn, TagOk))
D2rReady    == D2r!SkidReady(RenameReady)
F2dReady    == F2d!SkidReady(D2rReady)

\* Single issue, ALU before BRU before LSU.
IssAlu == RsAlu!IssueEntry
IssBru == IF IssAlu # None THEN None ELSE RsBru!IssueEntry
IssLsu == IF IssAlu # None \/ IssBru # None THEN None ELSE RsLsu!IssueEntry

\* The PRF read ports follow the issued entry.
Src1(e) == IF e = None THEN 0 ELSE regs[e.prs1]
Src2(e) == IF e = None THEN 0 ELSE regs[e.prs2]

\* The writeback busses: the registers they name and the tags.
Wakeups == Written(WbAlu, WbLsu(Flush), WbBru)
WbTags  == {wb.rob_tag : wb \in {WbAlu, WbLsu(Flush), WbBru} \ {None}}
-----------------------------------------------------------------------------
(***************************************************************************)
(* The histories.  An instruction enters inflight with its ROB entry, gets *)
(* its outcome when it issues, and leaves with its entry; when it retires, *)
(* arch takes the register it wrote, its store and its successor.          *)
(***************************************************************************)
Outcome(t) ==
  IF DispatchFire /\ storage.rob_tag = t
  THEN [pkt |-> storage, next |-> PcOf(storage.d.pc + 1), store |-> None]
  ELSE IF t \notin LiveTags' THEN None
  ELSE IF ~Flush /\ IssBru # None /\ IssBru.rob_tag = t
          /\ Taken(IssBru, Src1(IssBru), Src2(IssBru))
  THEN [inflight[t] EXCEPT !.next = Target(IssBru, Src1(IssBru))]
  ELSE IF DmemEn(Flush, IssLsu) /\ IssLsu.rob_tag = t /\ IssLsu.d.is_store
  THEN [inflight[t] EXCEPT !.store = [addr |-> EffAddr(IssLsu, Src1(IssLsu)),
                                      data |-> Src2(IssLsu)]]
  ELSE inflight[t]

Retired(h) ==
  [pc |-> h.next,
   x |-> IF h.pkt.rd_used THEN [arch.x EXCEPT ![h.pkt.d.rd] = regs[h.pkt.prd]]
                          ELSE arch.x,
   mem |-> IF h.store # None THEN [arch.mem EXCEPT ![h.store.addr] = h.store.data]
                             ELSE arch.mem]

Histories ==
  /\ inflight' = [t \in Tag |-> Outcome(t)]
  /\ arch' = IF CommitFire THEN Retired(inflight[entries[head].tag]) ELSE arch
-----------------------------------------------------------------------------
\* What happens at every edge, flushed or not.
EveryEdge ==
  /\ AluEdge(Flush, IssAlu, Src1(IssAlu), Src2(IssAlu))
  /\ BruEdge(Flush, IssBru, Src1(IssBru), Src2(IssBru))
  /\ LsuEdge(Flush, IssLsu, Src1(IssLsu), Src2(IssLsu))
  /\ RecoveryEdge(Mispredict, bru_q.target, bru_q.rob_tag)

\* A clock edge with flush_i = recover_i = 0.
Cycle ==
  /\ ~Flush
  /\ EveryEdge
  /\ FetchEdge(F2dReady)
  /\ F2d!SkidEdge(f_out, D2rReady)
  /\ D2r!SkidEdge(Decoded, RenameReady)
  /\ RenameEdge(RenameIn, RFire, FreeTag, FreeReq, entries[head].old_prd)
  /\ TagEdge(RFire, Take, FreeTag, DispatchFire, IF DispatchFire THEN storage.rob_tag ELSE 0)
  /\ R2d!SkidEdge(RenameOut, Fifo!FifoReady(DispatchFire))
  /\ Fifo!FifoEdge(R2d!SkidOut(RenameOut), DispatchFire)
  /\ RobEdge(FALSE, 0, Take, FreeTag, DispatchFire, storage, WbTags)
  /\ RsAlu!RsEdge(Insert("ALU"), valid_bits, Wakeups, IssAlu # None)
  /\ RsBru!RsEdge(Insert("BRU"), valid_bits, Wakeups, IssBru # None)
  /\ RsLsu!RsEdge(Insert("LSU"), valid_bits, Wakeups, IssLsu # None)
  /\ PrfEdge(WbAlu, WbLsu(Flush), WbBru, AllocInval(RenameIn, RFire))
  /\ Histories

\* A clock edge with flush_i = recover_i = 1.
Recover ==
  /\ Flush
  /\ EveryEdge
  /\ FetchFlush(redirect.pc)
  /\ F2d!SkidFlush /\ D2r!SkidFlush /\ R2d!SkidFlush /\ Fifo!FifoFlush
  /\ RenameRecover(redirect.tag)
  /\ TagRecover(redirect.tag)
  /\ RobEdge(TRUE, redirect.tag, Take, FreeTag, FALSE, storage, WbTags)
  /\ RsAlu!RsFlush /\ RsBru!RsFlush /\ RsLsu!RsFlush
  /\ PrfFlush
  /\ Histories

Next == Cycle \/ Recover

\* The clock keeps ticking.
Spec == Init /\ [][Next]_vars /\ WF_vars(Next)
-----------------------------------------------------------------------------
(***************************************************************************)
(* The core executes programs: what retires is what the ISA prescribes, in *)
(* program order, with nothing skipped, repeated or taken from a wrong     *)
(* path (README.md, "In-order commit via ROB", "Precise branch recovery"). *)
(***************************************************************************)
ISA == INSTANCE Isa WITH pc <- arch.pc, x <- arch.x, mem <- arch.mem

ImplementsIsa == ISA!Spec

(***************************************************************************)
(* The program comes to its end: no instruction is stuck in a reservation  *)
(* station, in the ROB or in front of rename.                              *)
(***************************************************************************)
Finishes == <>(arch.pc = PROG_LEN)

(***************************************************************************)
(* The path of the tags: seen through the fields the ROB and the tag       *)
(* allocator use, the core is one of the behaviours of RobTags.  Its       *)
(* environment does what RobTags assumes of it: only live instructions     *)
(* write back, and only a live branch that has written back recovers.      *)
(***************************************************************************)
TagPacket(p) ==
  IF p = None THEN None
  ELSE [rob_tag |-> p.rob_tag, rd_used |-> p.rd_used,
        old_prd |-> p.old_prd, is_branch |-> p.is_branch]

Tags == INSTANCE RobTags WITH
          NoPkt <- None,
          RenameInput <- [rd_used : BOOLEAN, old_prd : Preg, is_branch : BOOLEAN],
          r2d_skid <- TagPacket(r2d_skid),
          storage <- TagPacket(storage),
          branches <- {t \in LiveTags : inflight[t] # None /\ inflight[t].pkt.is_branch}

ImplementsRobTags == Tags!Spec

\* The instructions in the ROB, by tag, and their program order.
Buffered == {f \in {r2d_skid, storage} : f # None}
SlotOf(t) == CHOOSE i \in Slot : entries[i].valid /\ entries[i].tag = t
Older(t, u) == Dist(head, SlotOf(t)) < Dist(head, SlotOf(u))

(***************************************************************************)
(* A physical register that is free is not the current mapping of any      *)
(* register, is not waiting to be freed by an instruction in flight, and   *)
(* no two registers share one (free_list_bitmap.sv, map_table.sv).         *)
(***************************************************************************)
InFlightPkts == Buffered \cup {inflight[t].pkt : t \in {u \in LiveTags : inflight[u] # None}}
OldPrds == {p.old_prd : p \in {q \in InFlightPkts : q.rd_used}} \ {0}

RegistersDisjoint ==
  /\ \A r \in Areg : rat[r] \notin free_map
  /\ \A r, s \in Areg : rat[r] = rat[s] => r = s
  /\ OldPrds \cap free_map = {}
  /\ \A r \in Areg : rat[r] \notin OldPrds

(***************************************************************************)
(* A flush empties the stations, the units and the load pipeline without   *)
(* looking at tags.  It must not hit an instruction older than the branch  *)
(* that asked for it (README.md, "Preserves older instructions").          *)
(***************************************************************************)
Stations == {rs_alu[k] : k \in 0 .. RS_DEPTH - 1} \cup {rs_bru[k] : k \in 0 .. RS_DEPTH - 1}
              \cup {rs_lsu[k] : k \in 0 .. RS_DEPTH - 1}
Pending == {e.rob_tag : e \in (Stations \cup {m0, m1}) \ {None}}

FlushKillsOnlyYounger ==
  Flush => \A t \in Pending \cap LiveTags : Older(redirect.tag, t)

(***************************************************************************)
(* No instruction is forgotten: each that waits in the ROB for its result  *)
(* is in a station or a unit.  A station gives its packet to a unit that   *)
(* may be closed (lsu_fu.sv, allow_issue), the load/store unit drops what  *)
(* it finishes while closed, and a flush drops everything; a live entry    *)
(* hit by any of these would block the ROB for ever.                       *)
(***************************************************************************)
Undone == {entries[i].tag : i \in {j \in Slot : entries[j].valid /\ ~entries[j].done}}
OnTheWay == {p.rob_tag : p \in (Stations \cup {bru_q, m0, m1}) \ {None}}
              \cup {q.e.rob_tag : q \in {alu_q} \ {None}}

NothingForgotten == Undone \subseteq OnTheWay

(***************************************************************************)
(* A store writes the memory when it issues (dmem_bram.sv), long before it *)
(* commits, and a recovery restores registers only.  What a recovery       *)
(* squashes must therefore not have stored yet.                            *)
(***************************************************************************)
SquashedNeverStored ==
  Flush => \A t \in LiveTags : Older(redirect.tag, t) => inflight[t].store = None

(***************************************************************************)
(* No physical register is lost, as long as nothing is recovered: each     *)
(* that rename can allocate is free, is mapped, or is to be freed when an  *)
(* instruction in flight commits (README.md, "Frees old physical registers *)
(* on ROB commit").  A recovery restores the free list of its branch and   *)
(* loses what was freed since.                                             *)
(***************************************************************************)
Lost == (N_ARCH_REGS .. N_PHYS_REGS - 1) \ (free_map \cup {rat[r] : r \in Areg} \cup OldPrds)

LostInRecoveriesOnly == [][Lost' \subseteq Lost \/ Flush]_vars

(***************************************************************************)
(* The core never stops retiring: beyond the program there are NOPs for    *)
(* ever (rs.sv, live tags "prevents ROB deadlock after branch recovery").  *)
(***************************************************************************)
KeepsRetiring == []<>CommitFire
=============================================================================
