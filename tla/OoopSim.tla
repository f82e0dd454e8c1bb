------------------------------- MODULE OoopSim ------------------------------
(***************************************************************************)
(* python_model/ooop_sim.py: the simulator of the whole core.              *)
(*                                                                         *)
(* The main loop calls Core.tick() once per cycle, and one call is one     *)
(* step.  Its sections (commit, execute, writeback, wakeup, recovery,      *)
(* decode to dispatch, fetch) follow one another in one thread, each       *)
(* working on what the one before left: here they are operators from a     *)
(* core to a core, and Tick composes them in the order of the code.        *)
(*                                                                         *)
(* A list with entries that may be None is a function on the indices of    *)
(* the entries that are there; a list of flags is the set of indices that  *)
(* are True.  flush, flush_pc, recover and recover_tag are set and used up *)
(* within one tick and are the operator Redirect.  After a recovery the    *)
(* lists in use are those in the dictionaries of checkpoints; that is not  *)
(* modelled, as a checkpoint is read only by the branch that took it.      *)
(* Left out is what nothing reads: dmem_stage, ckpt_prf_valid and the      *)
(* is_store of a station entry.                                            *)
(***************************************************************************)
EXTENDS SimUnits, Functions, Sequences

CONSTANTS N_ARCH_REGS,   \* 32
          N_PHYS_REGS,   \* 128
          ROB_DEPTH,     \* 16
          RS_DEPTH,      \* 8
          ICACHE_WORDS,  \* 512
          DMEM_WORDS,    \* 1024
          MAX_CYCLES,    \* the argument of the main loop
          Programs       \* the program files, as the instructions in them

\* Register fields have five bits.
ASSUME ArchRegsAssumption == N_ARCH_REGS = 32

\* Enough registers that one is free while none but the mapped ones are in use.
ASSUME PhysRegsAssumption == N_PHYS_REGS \in Nat /\ N_PHYS_REGS >= 2 * N_ARCH_REGS

ASSUME DepthAssumption ==
  /\ ROB_DEPTH \in Nat /\ ROB_DEPTH >= 2
  /\ RS_DEPTH \in Nat \ {0}

ASSUME MemoryAssumption ==
  /\ ICACHE_WORDS \in Nat \ {0}
  /\ DMEM_WORDS \in Nat \ {0}
  /\ MAX_CYCLES \in Nat

\* A file that is longer than the memory ends the simulator with an exception.
ASSUME ProgramsAssumption ==
  \A p \in Programs : p \in Seq(Insn) /\ Len(p) <= ICACHE_WORDS

Areg == 0 .. N_ARCH_REGS - 1
Preg == 0 .. N_PHYS_REGS - 1
Slot == 0 .. ROB_DEPTH - 1

\* The registers rename takes its new ones from.
Allocatable == N_ARCH_REGS .. N_PHYS_REGS - 1

VARIABLES core,    \* the fields of Core
          fetch,   \* the fields of Fetch
          imem,    \* icache.mem
          cycle    \* the number of ticks so far

vars == <<core, fetch, imem, cycle>>

NoEntries == [i \in {} |-> 0]

\* The mapping and the free registers a core starts with.
ResetRat == [r \in Areg |-> r]

CoreInit ==
  [rat |-> ResetRat, free_map |-> Allocatable,
   prf |-> [p \in Preg |-> 0], prf_valid |-> Preg,
   rob |-> NoEntries, rob_head |-> 0, rob_tail |-> 0, rob_count |-> 0,
   rs |-> [fu \in FuType |-> NoEntries],
   dmem |-> [w \in 0 .. DMEM_WORDS - 1 |-> 0],
   ckpt |-> NoEntries, commits |-> 0]

\* ICache.load: what the file does not fill keeps its NOPs.
Load(p) == [w \in 0 .. ICACHE_WORDS - 1 |-> IF w < Len(p) THEN p[w + 1] ELSE Nop]

FetchInit == [state |-> "IDLE", pc |-> 0, instr |-> Nop]

Init ==
  /\ core = CoreInit
  /\ fetch = FetchInit
  /\ imem \in {Load(p) : p \in Programs}
  /\ cycle = 0
-----------------------------------------------------------------------------
\* Mutant of IncSlot: it does not wrap.
IncSlotUnwrapped(i) == i + 1

IncSlot(i) == (i + 1) % ROB_DEPTH

HeadDone(c) ==
  c.rob_count > 0 /\ c.rob_head \in DOMAIN c.rob /\ c.rob[c.rob_head].done

\* Mutant of Commit: the former register is not freed.
CommitKeeps(c) ==
  IF ~HeadDone(c) THEN c
  ELSE [c EXCEPT !.rob = Restrict(@, DOMAIN @ \ {c.rob_head}),
                 !.rob_head = IncSlot(@),
                 !.rob_count = @ - 1,
                 !.commits = @ + 1]

\* The head retires and frees the register its destination had before.
Commit(c) ==
  IF ~HeadDone(c) THEN c
  ELSE LET e == c.rob[c.rob_head]
           freed == IF e.rd_used /\ e.old_prd # 0 THEN {e.old_prd} ELSE {}
       IN  [c EXCEPT !.free_map = @ \cup freed,
                     !.rob = Restrict(@, DOMAIN @ \ {c.rob_head}),
                     !.rob_head = IncSlot(@),
                     !.rob_count = @ - 1,
                     !.commits = @ + 1]
-----------------------------------------------------------------------------
\* Each unit takes the first ready entry of its station.
ReadyIdx(c, fu) == {i \in DOMAIN c.rs[fu] : c.rs[fu][i].ready}
Issuing(c) == {fu \in FuType : ReadyIdx(c, fu) # {}}
IssueIdx(c, fu) == CHOOSE i \in ReadyIdx(c, fu) : \A j \in ReadyIdx(c, fu) : i <= j
IssueEntry(c, fu) == c.rs[fu][IssueIdx(c, fu)]

\* Mutant of Src1: the register's value before renaming.
Src1Stale(c, e) == c.prf[e.d.rs1]

Src1(c, e) == c.prf[e.prs1]
Src2(c, e) == c.prf[e.prs2]

\* The writeback packet of a unit.
WbPkt(c, fu) ==
  LET e == IssueEntry(c, fu)
      wb(prd, data, rd_used) ==
        [rob_tag |-> e.rob_tag, prd |-> prd, data |-> data, rd_used |-> rd_used]
  IN  CASE fu = "ALU" -> wb(e.prd, AluExec(e.d, Src1(c, e), Src2(c, e)), e.rd_used)
        [] fu = "BRU" -> wb(e.prd, IF e.d.is_jump THEN e.d.pc + 4 ELSE 0, e.rd_used)
        [] fu = "LSU" /\ e.d.is_load ->
             wb(e.prd, MemLoad(c.dmem, U32(Src1(c, e) + e.d.imm), e.d.ls_size,
                               e.d.unsigned_load), e.rd_used)
        [] fu = "LSU" /\ ~e.d.is_load -> wb(0, 0, FALSE)

WbPkts(c) == [fu \in Issuing(c) |-> WbPkt(c, fu)]

\* flush and recover: the branch that redirects fetch, if one does.
Redirect(c) ==
  IF "BRU" \notin Issuing(c) THEN {}
  ELSE LET e == IssueEntry(c, "BRU")
       IN  IF BruTaken(e.d, Src1(c, e), Src2(c, e))
           THEN {[pc |-> BruTarget(e.d, Src1(c, e)), tag |-> e.rob_tag]} ELSE {}

\* The issued entries leave their stations; a store writes the memory.
Execute(c) ==
  LET st == IssueEntry(c, "LSU")
  IN  [c EXCEPT
        !.rs = [fu \in FuType |->
                  IF fu \in Issuing(c)
                  THEN Restrict(@[fu], DOMAIN @[fu] \ {IssueIdx(c, fu)}) ELSE @[fu]],
        !.dmem = IF "LSU" \in Issuing(c) /\ ~st.d.is_load
                 THEN MemStore(@, U32(Src1(c, st) + st.d.imm), Src2(c, st), st.d.ls_size)
                 ELSE @]

Writes(wb) == wb.rd_used /\ wb.prd # 0

\* Mutant of WriteOne: only an instruction with a destination gets done.
WriteOneDest(c, wbs, fu) ==
  IF fu \notin DOMAIN wbs \/ ~Writes(wbs[fu]) THEN c
  ELSE LET wb == wbs[fu]
       IN  [c EXCEPT
             !.prf = [@ EXCEPT ![wb.prd] = wb.data],
             !.prf_valid = @ \cup {wb.prd},
             !.rob = [i \in DOMAIN c.rob |->
                        IF c.rob[i].tag = wb.rob_tag
                        THEN [c.rob[i] EXCEPT !.done = TRUE] ELSE c.rob[i]]]

\* One packet reaches the register file and the ROB.
WriteOne(c, wbs, fu) ==
  IF fu \notin DOMAIN wbs THEN c
  ELSE LET wb == wbs[fu]
       IN  [c EXCEPT
             !.prf = IF Writes(wb) THEN [@ EXCEPT ![wb.prd] = wb.data] ELSE @,
             !.prf_valid = IF Writes(wb) THEN @ \cup {wb.prd} ELSE @,
             !.rob = [i \in DOMAIN c.rob |->
                        IF c.rob[i].tag = wb.rob_tag
                        THEN [c.rob[i] EXCEPT !.done = TRUE] ELSE c.rob[i]]]

Writeback(c, wbs) ==
  WriteOne(WriteOne(WriteOne(c, wbs, "ALU"), wbs, "BRU"), wbs, "LSU")

\* What the packets make of the ready flags of a waiting entry.
Woken(e, wbs) ==
  LET hit(prs) == \E fu \in DOMAIN wbs : wbs[fu].rd_used /\ wbs[fu].prd = prs
      r1 == e.prs1_ready \/ (e.d.rs1_used /\ hit(e.prs1))
      r2 == e.prs2_ready \/ (e.d.rs2_used /\ hit(e.prs2))
  IN  [e EXCEPT !.prs1_ready = r1, !.prs2_ready = r2, !.ready = r1 /\ r2]

Wakeup(c, wbs) ==
  [c EXCEPT !.rs = [fu \in FuType |->
                      [i \in DOMAIN c.rs[fu] |-> Woken(c.rs[fu][i], wbs)]]]
-----------------------------------------------------------------------------
\* The checkpoint of a tag, or the defaults of the dictionaries.
Checkpoint(c, tag) ==
  IF tag \in DOMAIN c.ckpt THEN c.ckpt[tag]
  ELSE [rat |-> ResetRat, free_map |-> Allocatable, head |-> 0, tail |-> 0]

\* The slots from tail up to, not including, end.
SlotsBetween(tail, end) == {(tail + k) % ROB_DEPTH : k \in 0 .. ((end - tail) % ROB_DEPTH) - 1}

\* rob_count stays as it is, and so does prf_valid.
Recover(c, tag) ==
  LET ck == Checkpoint(c, tag)
  IN  [c EXCEPT !.rat = ck.rat,
                !.free_map = ck.free_map,
                !.rob = Restrict(@, DOMAIN @ \ SlotsBetween(ck.tail, c.rob_tail)),
                !.rob_head = ck.head,
                !.rob_tail = ck.tail,
                !.rs = [fu \in FuType |-> NoEntries]]

Recovery(c, redirect) ==
  IF redirect = {} THEN c ELSE Recover(c, (CHOOSE r \in redirect : TRUE).tag)
-----------------------------------------------------------------------------
FreePregs(c) == c.free_map \cap Allocatable

\* _allocate_preg.
AllocatePreg(c) == CHOOSE p \in FreePregs(c) : \A q \in FreePregs(c) : p <= q

NeedAlloc(d) == d.rd_used /\ d.rd # 0

\* What is not accepted is lost: fetch is told ready all the same.
Accepts(c, d) == c.rob_count < ROB_DEPTH /\ (NeedAlloc(d) => FreePregs(c) # {})

\* The station entry of d, renamed.
Renamed(c, d, prd) ==
  LET valid == IF NeedAlloc(d) THEN c.prf_valid \ {prd} ELSE c.prf_valid
      r1 == d.rs1_used => c.rat[d.rs1] \in valid
      r2 == d.rs2_used => c.rat[d.rs2] \in valid
  IN  [d |-> d, prs1 |-> c.rat[d.rs1], prs2 |-> c.rat[d.rs2], prd |-> prd,
       rob_tag |-> c.rob_tail, rd_used |-> NeedAlloc(d),
       prs1_ready |-> r1, prs2_ready |-> r2, ready |-> r1 /\ r2]

\* The first free index of a station, if there is one, takes e.
Inserted(rs, e) ==
  LET free == (0 .. RS_DEPTH - 1) \ DOMAIN rs
      at == CHOOSE i \in free : \A j \in free : i <= j
  IN  IF free = {} THEN rs
      ELSE [i \in DOMAIN rs \cup {at} |-> IF i = at THEN e ELSE rs[i]]

\* Mutant of Checkpointed: the mapping from before the branch's own rename.
CheckpointedEarly(c, d, tag, rat, free) ==
  IF ~(d.is_branch \/ d.is_jump) THEN c.ckpt
  ELSE LET snap == [rat |-> c.rat, free_map |-> free,
                    head |-> c.rob_head, tail |-> IncSlot(tag)]
       IN  [t \in DOMAIN c.ckpt \cup {tag} |-> IF t = tag THEN snap ELSE c.ckpt[t]]

\* A branch or jump saves the mapping and the free registers with its own rename
\* done, and where the ROB begins and ends.
Checkpointed(c, d, tag, rat, free) ==
  IF ~(d.is_branch \/ d.is_jump) THEN c.ckpt
  ELSE LET snap == [rat |-> rat, free_map |-> free,
                    head |-> c.rob_head, tail |-> IncSlot(tag)]
       IN  [t \in DOMAIN c.ckpt \cup {tag} |-> IF t = tag THEN snap ELSE c.ckpt[t]]

\* Rename, allocate in the ROB, checkpoint, and insert in the station.
Dispatch(c, d) ==
  LET need == NeedAlloc(d)
      prd  == IF need THEN AllocatePreg(c) ELSE 0
      tag  == c.rob_tail
      entry == [tag |-> tag, done |-> FALSE, rd_used |-> need,
                old_prd |-> IF need THEN c.rat[d.rd] ELSE 0]
      rat  == IF need THEN [c.rat EXCEPT ![d.rd] = prd] ELSE c.rat
      free == IF need THEN c.free_map \ {prd} ELSE c.free_map
  IN  [c EXCEPT
        !.rat = rat,
        !.free_map = free,
        !.prf_valid = IF need THEN @ \ {prd} ELSE @,
        !.rob = [i \in DOMAIN c.rob \cup {tag} |-> IF i = tag THEN entry ELSE c.rob[i]],
        !.rob_tail = IncSlot(tag),
        !.rob_count = @ + 1,
        !.ckpt = Checkpointed(c, d, tag, rat, free),
        !.rs[d.fu_type] = Inserted(@, Renamed(c, d, prd))]

Decode(c, f, redirect) ==
  LET d == DecodeInstr(f.pc, f.instr)
  IN  IF f.state = "HAVE" /\ redirect = {} /\ Accepts(c, d) THEN Dispatch(c, d) ELSE c
-----------------------------------------------------------------------------
\* icache.rdata: the memory repeats itself.
ICacheWord(mem, addr) == mem[(addr \div 4) % ICACHE_WORDS]

\* Mutant of FetchTick: the next instruction comes with the last one's departure.
FetchTickPipelined(f, mem, redirect) ==
  CASE redirect # {} ->
         [f EXCEPT !.state = "IDLE", !.pc = (CHOOSE r \in redirect : TRUE).pc]
    [] redirect = {} /\ f.state = "IDLE" -> [f EXCEPT !.state = "REQ"]
    [] redirect = {} /\ f.state = "REQ" ->
         [f EXCEPT !.instr = ICacheWord(mem, f.pc), !.state = "HAVE"]
    [] redirect = {} /\ f.state = "HAVE" ->
         [f EXCEPT !.pc = @ + 4, !.instr = ICacheWord(mem, f.pc + 4)]

\* Fetch.tick with ready = True and the answer of ICache.tick in the same cycle.
FetchTick(f, mem, redirect) ==
  CASE redirect # {} ->
         [f EXCEPT !.state = "IDLE", !.pc = (CHOOSE r \in redirect : TRUE).pc]
    [] redirect = {} /\ f.state = "IDLE" -> [f EXCEPT !.state = "REQ"]
    [] redirect = {} /\ f.state = "REQ" ->
         [f EXCEPT !.instr = ICacheWord(mem, f.pc), !.state = "HAVE"]
    [] redirect = {} /\ f.state = "HAVE" -> [f EXCEPT !.pc = @ + 4, !.state = "REQ"]

Tick ==
  LET c1  == Commit(core)
      wbs == WbPkts(c1)
      rd  == Redirect(c1)
      c2  == Wakeup(Writeback(Execute(c1), wbs), wbs)
  IN  /\ core' = Decode(Recovery(c2, rd), fetch, rd)
      /\ fetch' = FetchTick(fetch, imem, rd)
      /\ cycle' = cycle + 1
      /\ UNCHANGED imem

\* The loop of __main__.
Next == cycle < MAX_CYCLES /\ Tick

Spec == Init /\ [][Next]_vars
-----------------------------------------------------------------------------
(***************************************************************************)
(* What there is between two ticks.                                        *)
(***************************************************************************)
RobEntry == [tag : Slot, done : BOOLEAN, rd_used : BOOLEAN, old_prd : Preg]
Snapshot == [rat : [Areg -> Preg], free_map : SUBSET Preg, head : Slot, tail : Slot]

CoreTypeOK(c) ==
  /\ DOMAIN c = DOMAIN CoreInit
  /\ c.rat \in [Areg -> Preg]
  /\ c.free_map \subseteq Preg
  /\ c.prf \in [Preg -> Int]
  /\ c.prf_valid \subseteq Preg
  /\ DOMAIN c.rob \subseteq Slot
  /\ \A i \in DOMAIN c.rob : c.rob[i] \in RobEntry
  /\ c.rob_head \in Slot /\ c.rob_tail \in Slot /\ c.rob_count \in Nat
  /\ DOMAIN c.rs = FuType
  /\ \A fu \in FuType : DOMAIN c.rs[fu] \subseteq 0 .. RS_DEPTH - 1
  /\ c.dmem \in [0 .. DMEM_WORDS - 1 -> Int]
  /\ DOMAIN c.ckpt \subseteq Slot
  /\ \A t \in DOMAIN c.ckpt : c.ckpt[t] \in Snapshot
  /\ c.commits \in Nat

TypeOK ==
  /\ CoreTypeOK(core)
  /\ DOMAIN fetch = DOMAIN FetchInit
  /\ fetch.state \in {"IDLE", "REQ", "HAVE"} /\ fetch.pc \in Nat /\ fetch.instr \in Insn
  /\ imem \in [0 .. ICACHE_WORDS - 1 -> Insn]
  /\ cycle \in Nat

\* The entries that wait in a station, and the instructions not yet executed.
Waiting == {w \in FuType \X (0 .. RS_DEPTH - 1) : w[2] \in DOMAIN core.rs[w[1]]}
Undone  == {i \in DOMAIN core.rob : ~core.rob[i].done}

(***************************************************************************)
(* Nothing is ever out of order: an instruction is dispatched only when    *)
(* the ROB is empty, and executes in the next tick.  tick() relies on it:  *)
(* a recovery does not restore rob_count, a full station loses the entry,  *)
(* and what the ROB or rename cannot take is dropped by fetch.             *)
(***************************************************************************)
OneInFlight ==
  /\ core.rob_count \in {0, 1}
  /\ DOMAIN core.rob = IF core.rob_count = 0 THEN {} ELSE {core.rob_head}
  /\ core.rob_tail = IF core.rob_count = 0 THEN core.rob_head ELSE IncSlot(core.rob_head)
  /\ \A fu \in FuType : \A i \in DOMAIN core.rs[fu] :
        core.rs[fu][i].ready /\ core.rs[fu][i].rob_tag \in Undone
  /\ \A w, v \in Waiting : w = v
  /\ Undone # {} => Waiting # {}

(***************************************************************************)
(* Every register rename can allocate is either free, or mapped, or the    *)
(* former register of the instruction in flight, to be freed when that     *)
(* commits; and no register has two of these roles (Commit, Recover,       *)
(* _allocate_preg).                                                        *)
(***************************************************************************)
OldPregs == {core.rob[i].old_prd : i \in {j \in DOMAIN core.rob : core.rob[j].rd_used}}
Mapped   == {core.rat[r] : r \in Areg}

RegistersAccounted ==
  /\ \A r, s \in Areg : core.rat[r] = core.rat[s] => r = s
  /\ core.free_map \cap Mapped = {}
  /\ core.free_map \cap OldPregs = {}
  /\ Mapped \cap OldPregs = {}
  /\ Allocatable \subseteq core.free_map \cup Mapped \cup OldPregs

(***************************************************************************)
(* The simulator does not stall: n + 1 instructions have committed by      *)
(* cycle 4n + 5, which is four cycles for each on average (a taken branch  *)
(* costs two more than another instruction).                               *)
(***************************************************************************)
KeepsPace == cycle <= 4 * core.commits + 4

(***************************************************************************)
(* An instruction that fetch moves past has been taken: it is in its       *)
(* station and in the ROB.  Fetch does not ask (ready = True), so this     *)
(* rests on room in the ROB and the station and on a free register.        *)
(***************************************************************************)
Taken(d) ==
  \E i \in DOMAIN core'.rs[d.fu_type] :
     /\ core'.rs[d.fu_type][i].d = d
     /\ core'.rs[d.fu_type][i].rob_tag \in DOMAIN core'.rob

NothingDropped ==
  [][fetch.state = "HAVE" /\ fetch'.state = "REQ"
       => Taken(DecodeInstr(fetch.pc, fetch.instr))]_vars

(***************************************************************************)
(* A recovery finds nothing to undo: the branch is alone in the core, and  *)
(* the mapping, the free registers and the ROB are what its checkpoint     *)
(* says.  No instruction is squashed, and no register that was freed since *)
(* the checkpoint is lost.                                                 *)
(***************************************************************************)
RecoveryUndoesNothing ==
  [][Redirect(core) # {} =>
       /\ core'.rat = core.rat
       /\ core'.free_map = core.free_map
       /\ DOMAIN core'.rob = DOMAIN core.rob
       /\ core'.rob_head = core.rob_head /\ core'.rob_tail = core.rob_tail]_vars

(***************************************************************************)
(* The simulator executes programs.  Seen from outside, an instruction     *)
(* takes effect, on registers, memory and pc together, in the tick that    *)
(* executes it; until then its destination has its former value.           *)
(***************************************************************************)
\* get_arch_reg.
GetArchReg(r) == core.prf[core.rat[r]]

Pending == IF Waiting = {} THEN {}
           ELSE LET w == CHOOSE w \in Waiting : TRUE IN {core.rs[w[1]][w[2]]}

PcOf == IF Pending = {} THEN fetch.pc ELSE (CHOOSE e \in Pending : TRUE).d.pc

XOf == [r \in Areg |->
          IF \E e \in Pending : e.rd_used /\ e.d.rd = r
          THEN core.prf[core.rob[core.rob_head].old_prd] ELSE GetArchReg(r)]

\* The units are those of SimUnits, by name.
ISA == INSTANCE SimIsa WITH pc <- PcOf, x <- XOf, mem <- core.dmem

ImplementsIsa == ISA!Spec
=============================================================================
