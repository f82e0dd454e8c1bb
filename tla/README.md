# TLA+ models of the out-of-order core

The repository has one RISC-V core three times: in SystemVerilog (`verilog/`), as a
Python simulator that the documentation calls cycle-accurate (`python_model/`), and
as an unfinished C++ port (`cpp/`). The modules here are translated from the code,
part by part:

- the RTL: every unit of `core_top.sv` and the whole core, a single-issue,
  out-of-order pipeline with register renaming, reservation stations, a reorder
  buffer (ROB) and checkpoint-based recovery from mispredicted branches;
- the Python programs: the simulator `ooop_sim.py`, the front end classes of
  `ooop_model.py`, and `compare_outputs.py`, which is to tell whether a run of the
  simulator matches a run of the RTL;
- the C++ classes that rename instructions, two of which are written by
  `cpp/scripts/gen_sources.py`.

TLC checks small instances: the RTL core on all short programs, the simulator on all
programs of three instructions, the parts in environments that do what they like.
TLAPS proves, for all sizes and all programs: that the RTL core stays in its types,
keeps its tags and its physical registers apart, uses its ROB as a queue in program
order, flushes nothing older than the branch that asks for it and forgets no
instruction that is in the ROB; that the simulator gives the ISA's results, and its
ALU and branch unit those of the RTL (comparisons where the registers hold words and
immediates are not negative, the memory not compared); that the Python front end
offers the program and both decoders agree; that the comparison of outputs counts
right and gives no false alarm; and the invariants of the C++ rename stage.

`PROJECT.json` lists every component, run, mutant, finding, hazard and theorem, and
maps every definition to the lines it models.

## The system: the RTL

All units are clocked by one clock and joined by wires in `core_top.sv`; the core
has no input but clock and reset. A cycle is: every unit computes its outputs from
its registers and the other units' outputs, then all registers change at once.

| Unit (`verilog/`) | State | Operations | What makes it correct |
|---|---|---|---|
| `fetch.sv`, `icache.sv` | pc, one request, one fetched instruction | request, capture, consume, flush | every address fetched once and in order; no answer taken for the wrong request |
| `skidbuffer.sv` (fetch->decode, decode->rename, rename->dispatch) | one item | store, drain, pass, flush | what is accepted is delivered once, in order |
| `decode.sv` | none | | agrees with the ISA |
| `rename.sv` with `map_table.sv`, `free_list_bitmap.sv` | RAT, free bitmap, a copy of both per branch | rename, allocate, free, checkpoint, recover | mapped, free and retiring registers are disjoint and none is lost |
| `rob_tag_alloc.sv` | next tag, reserved tags, copies of next tag | allocate, release, recover | no two instructions in flight share a tag |
| `dispatch.sv`, `dispatch_fifo.sv` | one packet | push, pop, route | station and ROB get it together |
| `rs.sv` (three) | entries, held selection | enqueue, wake, select, issue, flush | no wakeup missed, no entry lost, older entries survive a recovery |
| `alu_fu.sv`, `branch_fu.sv`, `lsu_fu.sv`, `dmem_bram.sv` | pipeline registers, memory, block counter | execute, write back, flush | results reach the right entry; no effect of squashed instructions |
| `prf.sv` | values, valid bits | write back, invalidate | an operand read is the value of its producer |
| `rob.sv` | entries, head, tail, count, snapshots | allocate, mark done, commit, recover | a queue in program order; a recovery cuts right behind the branch |
| `recovery_ctrl.sv` | last mispredict, pulse | detect, pulse | one recovery per misprediction |

Interactions that are hard: the three buffers and the fifo stall and flush
independently; a tag is held by an allocator, a buffer and the ROB in turn; commit,
writeback, allocation, checkpoint and recovery can meet in one cycle; a recovery
starts two cycles after the branch issued, and in between rename, the stations,
the memory and the ROB go on. There are no crashes, messages or timeouts.

Not part of this core: `cdb_arb.sv` and `priority_encoder.sv` are instantiated
nowhere, `core_tb.sv` is the simulation harness, `trace/` and `log/` are data.

## The system: the Python and C++ programs

Nothing here runs concurrently, but each program imitates hardware whose units work
at once, by calls in some order; what an order loses or sees too early is the
question. Nothing is persisted and nothing is sent.

| Program | State | Operations | What makes it correct |
|---|---|---|---|
| `ooop_sim.py`, `Core` | RAT, free bitmap, registers, ROB, stations, memory, checkpoints | `tick`: commit, execute, write back, wake, recover, dispatch | the results are the ISA's; nothing dropped; no register lost; the units compute what the RTL's compute |
| `ooop_sim.py`, `Fetch`, `ICache` | pc, state, instruction | `tick` in the core's cycle | fetch moves on only past what was taken |
| `ooop_model.py` (`ICache`, `Fetch`, `Decode`) | answer, pc, state | `tick`, `decode`; nobody calls them | the instruction offered is that of the address offered, whatever the order of calls; both decoders agree |
| `compare_outputs.py` | one dictionary per output file | parse a line, compare | different runs are told apart, equal ones are not |
| `gen_sources.py`: `ROBTagAlloc` | next tag, reserved tags, copies | `tick` | tags in flight are distinct |
| `gen_sources.py`: `Rename`; `cpp/src/free_list.cpp`, `map_table.cpp` | free bitmap, RAT, copies | `rename`, `tick` | no register used twice or lost; recovery restores the program's mapping |

The C++ core that would call these classes does not exist, nor do the ROB, the
stations and the units. `cpp/scripts/src/` holds what `gen_sources.py` writes.

## The modules

### The RTL

How a unit is modelled: its flip-flops are VARIABLES, its combinational outputs
are operators, and its clock edge is an action whose parameters are its input
wires (`RobEdge`, `TagEdge`, `RsEdge`, ...; `...Flush` or `...Recover` for the edge
with `flush_i` or `recover_i`). Reset is the unit's `...Init`. A register with its
valid bit is one variable that may be `None`. `flush_o` and `recover_o` of
`recovery_ctrl.sv` are always equal, so the edges for one without the other cannot
happen and are left out; so are registers no logic reads (`ckpt_valid`,
`ckpt_regs`, the head in a ROB snapshot).

| Module | Models |
|---|---|
| `OoopTypes`, `Datapath` | sizes, circular arithmetic, words, addresses, instructions |
| `Rob`, `RobTagAlloc` | `rob.sv`, `rob_tag_alloc.sv` |
| `SkidBuffer`, `DispatchFifo` | `skidbuffer.sv`, `dispatch_fifo.sv` |
| `Fetch`, `Decode`, `MapTable`, `FreeListBitmap`, `Rename`, `Prf`, `Rs`, `AluFu`, `BranchFu`, `LsuFu`, `RecoveryCtrl` | the files of those names (`Fetch` with the read port of `icache.sv`, `LsuFu` with `dmem_bram.sv`) |
| `RobTags` | the path of a tag: allocator, rename->dispatch buffer, fifo, ROB, in an environment that offers instructions, stalls dispatch, writes back and recovers whenever it likes |
| `CoreTop` | `core_top.sv` with `dispatch.sv`: all units and wires |
| `RobQueue` | what a ROB promises: a queue in program order |
| `ElasticBuffer` | what a valid/ready buffer promises |
| `Isa` | what the core promises: one instruction after the other |
| `RobTagsProofs` | the theorems about `RobTags` |
| `CoreTopProofs` | the theorems about `CoreTop`: types, tags, registers |
| `CorePaceProofs` | the pace of `CoreTop`, and what follows for flushes and buffers |

`CoreTop` has two actions, `Cycle` and `Recover`, for a clock edge without and with
flush. All the choice is in the program: `Init` takes any from `Programs`, and the
rest is determined, as in the RTL. Two history variables are not in the code:
`inflight` holds, per tag, the instruction in the ROB, its successor and its store,
and `arch` is what the retired instructions amount to (pc, registers, memory). They
are what `Isa` is compared with: a commit must be a step of the ISA on `arch`.

Abstractions of data. Words are numbers below `WORDS`, addresses count words and
instructions instead of bytes. Programs have `PROG_LEN` instructions; all addresses
beyond hold NOPs (as `icache.sv` presets) and are one address. The operations are
ADD, SUB, SLTIU, LUI, BEQ, BNE, BLTU, BGEU, JAL, JALR and word loads and stores;
AND, OR, SRA, the signed branches and byte and half-word accesses differ from these
only in arithmetic that no property here is about.

The ROB's pointers wrap at their width, which is exact because the depth is a power
of two; the modules wrap at `ROB_DEPTH`, which is the same there. `count` has one
bit more and wraps at twice the depth.

### The Python programs

| Module | Models |
|---|---|
| `SimUnits` | `ooop_sim.py`: words, `decode_instr`, `_alu_exec`, `_bru_exec`, `mem_load`, `mem_store` |
| `OoopSim` | `ooop_sim.py`: `Core`, `Fetch`, `ICache` and the main loop |
| `SimIsa` | what the simulator promises: the results of one instruction after the other |
| `RtlUnits` | `alu_fu.sv` and `branch_fu.sv` next to the simulator's units, on what it decodes |
| `OoopModel` | `ooop_model.py`, with a caller that picks one of three orders of calls, is ready and flushes when it likes |
| `CompareOutputs` | `compare_outputs.py` |
| `OoopSimProofs` | the theorems about `OoopSim`, and about its units and the RTL's |
| `PythonProofs` | the theorems about `OoopModel` and `CompareOutputs` |
| `NatLemmas` | facts about the naturals: least elements, powers of two, remainders |

`OoopSim` has one action, `Tick`, made of the stages of `tick()` in their order, each
an operator from a core to a core: `Commit`, `Execute`, `Writeback`, `Wakeup`,
`Recovery`, `Decode`. The core is a record of the fields of the class, because the
stages pass it on half changed; the ROB, the stations and the checkpoints are
functions on the slots in use. All the choice is in the program. `SimIsa` is
implemented under a mapping: an instruction takes effect, on registers, memory and
pc together, in the tick that executes it.

Words have `XLEN` = 4 * `BYTE_BITS` bits; registers hold integers, since Python's
have no width and `_alu_exec` cuts some results and not others. Instructions are
records of the fields of an encoding with their real ranges, so that decoding and
the immediates are the program's own. What nothing reads (`dmem_stage`,
`ckpt_prf_valid`) and printing are left out; a program is a sequence of words, not a
text file.

`CompareOutputs` reduces a line to the fields the regular expressions can find, in
their order: a name and the first number after it.

### The C++ rename stage

| Module | Models |
|---|---|
| `CppTagAlloc` | `ROBTagAlloc` |
| `CppRename` | `Rename`, `FreeList`, `MapTable` |
| `CppRenameStage` | both, with the two packets between rename and dispatch, and the ROB's order, as the environment |
| `CppRenameProofs` | the theorems about it |

A tick is an action whose parameters are its arguments, flush and recover as one of
their own (`TagRedirect`, `RenameRedirect`). The environment calls in the order
`Rename` needs: `FreeList::tick` first, because `getAllocPreg` is what the last tick
found, then `rename`, then `MapTable::tick`, because `rename` looks sources and the
former register up (`rename.h` calls it "combinational" and names no order). It
dispatches, commits and redirects when it likes, the last with `flush` raised or
not, as the classes take both. The history variable `spoiled` says that one of three
faults has occurred; each is needed, without it `MappingOfProgram` fails.

`MC...` modules hold constants and programs for TLC; `MCDispatchFifo` also the
environment of the fifo and the theorem about it.

## The runs

Passing:

| Run | Checks | Bounds |
|---|---|---|
| `rob_tags` (`MCRobTags`) | `TypeOK`, `TagsUnique`, `Window`, `SnapshotsCoverBranches`, and that the ROB implements `RobQueue` | depth 4, plain instructions and branches, every environment |
| `dispatch_fifo` (`MCDispatchFifo`) | the fifo implements `ElasticBuffer` | seven items, every handshake, flushes |
| `core_programs` (`MCCoreTop`) | `TypeOK`, the core implements `Isa` (`ImplementsIsa`), and every program ends (`Finishes`) | the 7^4 programs of 4 instructions with forward jumps only; ROB 4, stations 2, 3 architectural and 10 physical registers, 8 words |
| `core_loops` (`MCCoreLoop`) | `RegistersDisjoint`, `FlushKillsOnlyYounger`, `NothingForgotten`, that registers are lost in recoveries only (`LostInRecoveriesOnly`), and that the core implements `RobTags` | the 7^3 programs of 3 instructions with backward jumps; ROB 4, stations 2, 2 architectural and 12 physical registers, 2 words |
| `sim_programs` (`MCOoopSim`) | `TypeOK`, `OneInFlight`, `RegistersAccounted`, `KeepsPace`, `NothingDropped`, `RecoveryUndoesNothing`, that the simulator implements `SimIsa` (`ImplementsIsa`), and that its ALU and branch unit are the RTL's (`SameWord`, `SameDecision`) | the programs of up to 3 of 7 instructions, and one program for each operation; 24 cycles, words of 16 bits, the real register counts and stations of 8, ROB 4 |
| `front_end` (`MCOoopModel`) | `TypeOK`, `OffersProgram`, `DecodersAgree`, `Fetches` | two words of memory with every kind of instruction, addresses up to 16, three orders of calls, flushes at any time; words of 24 bits |
| `compare_outputs` | `CountsCompared`, `NoFalseAlarm` | two numbers of cycles, of commits and of each register; outputs with and without progress lines and final lines |
| `cpp_rename_stage` (`MCCppRenameStage`) | `TypeOK`, `WaitingReserved`, `NoDoubleUse`, `MappingOfProgram`, `SharedAtHandover`, `RenameLosesLast` | ROB 2, two packets waiting, 2 architectural and 6 physical registers, every order of calls of the environment |

The sizes are small enough that what they limit fills up: four entries hold two
branches with instructions between them, and the loops exhaust both the ROB's count
and the free list within the run. `core_loops` is finite although its programs are
not: the machine's state repeats or it stops. In `sim_programs` the ROB's slots are
gone through more than once and the memory wraps; 24 cycles are at least five instructions of
a program of three. In `cpp_rename_stage` two tags are fewer than two packets waiting and a
full ROB, and the free list of four registers runs empty.
The view of `MCRobTags` identifies states that differ by a rotation of slots or
tags, or in what no later step reads; that of `MCCppRenameStage` leaves out the
outputs of the last tick and the checkpoints of tags no branch in flight has.
`MAX_CYCLES` and `MAX_PC` are the bounds on counters; the former is the argument the
program takes. `sim_programs`, the two runs of `CompareOutputs` and
`cpp_rename_stage` may stop: the simulator at its last cycle, the comparison with
its verdict, and the C++ stage, as a small instance that may lose all its tags to
the faults below.

`ImplementsRobTags` ties the two halves together: in the whole core, only live
instructions write back and only a live branch that has written back recovers,
which is what `RobTags` assumes of its environment.

Violations, each a disagreement between the code and what its documentation says
(quoted in `PROJECT.json`, "findings"):

| Run | Property | What happens |
|---|---|---|
| `core_hangs` | `KeepsRetiring` | a loop loses registers until rename waits for ever |
| `skipped_insn` | `ImplementsIsa` | rename stalls, the skid buffer in front drops a jump, and the core retires past it |
| `wrong_path_store` | `SquashedNeverStored` | a store behind a taken jump writes memory before it is squashed |
| `compare_registers` | `RegistersCompared` | runs that end with different `a0` pass the comparison |

The first two show in the repository's own simulation: at the end of
`log/core_cycle_dump.log` the ROB has a count of 16 with one live entry. With the
default sizes (16 entries, 128 physical registers) they take more iterations of a
loop; nothing in the mechanism depends on the sizes. `core_programs` passes because
with forward jumps only, a program this short recovers too rarely to stall rename.

## What else differs from the documentation or between the versions

These came up in the modelling and have no run of their own; where the models
repeat them, a run that passes shows what holds in spite of them.

- `skidbuffer.sv:45`: a full buffer that is drained in the cycle in which it accepts
  an item drops the item, contrary to "1-entry elastic buffers" (`README.md:231`).
  This is the cause of `skipped_insn`; `dispatch_fifo.sv`, which does implement
  `ElasticBuffer`, has no such cycle.
- `rob.sv:222`: a recovery restores the count of its branch's allocation, so that
  the ROB refuses entries with room left. Entries are safe (`Window`, proved).
- `free_list_bitmap.sv:98`: a recovery restores the free list of its branch's rename,
  without the registers freed since. This is the cause of `core_hangs`;
  `LostInRecoveriesOnly` says that there is no other on the programs of `core_loops`, and
  `LossesAreKnown` that the only other, for all programs and sizes, is a packet the
  buffer above drops, and `LossesNeedNoRoom` that this takes a ROB whose count recoveries
  have filled up.
- "100% cycle-accurate to Verilog design" (`README.md:516`): the simulator's front
  end delivers an instruction in two cycles, the RTL's in three, and every stage
  behind it takes the tick in which it is called. It commits an instruction in four
  cycles on average or faster (`KeepsPace`, proved), and it never has two instructions in the core
  (`OneInFlight`, proved). So its out-of-order machinery is never used, and these
  faults stay latent: a recovery does not restore `rob_count` (`ooop_sim.py:260-278`),
  a full station loses the entry (323-331), fetch is told ready whether or not the
  instruction was taken (334). `NothingDropped` and `RecoveryUndoesNothing` rest on
  there being one instruction at a time, not on those lines.
- `ooop_sim.py:393`: the final registers are read through the RAT, which is ahead of
  execution by the instruction in the core; a dump between dispatch and execution
  shows what the new register held before ("Final register extraction",
  `DELIVERY.md:19`).
- `ooop_sim.py:354`: SLTIU compares with a negative immediate as it is, the RTL with
  its word (`alu_fu.sv:65`); ORI with one leaves a negative integer in a register
  (352), which comparisons may then meet. `SameDecision` leaves both out; `SameWord`
  leaves out SLTIU and covers every other ALU instruction on all integers.
- `ooop_sim.py:103`: the instruction memory repeats itself; in `icache.sv:291` and
  `ooop_model.py:139` there are NOPs beyond its end. A program that runs past its end
  thus starts again in the simulator only if it fills the memory.
- `compare_outputs.py:14`: what an output lacks counts as 0, so two outputs without
  final lines pass.
- `gen_sources.py:48`: `ROBTagAlloc::tick` clears the reservation of the tag the ROB
  takes before it looks for a free one, and `live_tag` does not yet have it: the tag
  can be given again in that tick. `rob_tag_alloc.sv` keeps it one cycle longer, and
  says why ("avoids tag collisions", line 4). The same function is told the tag of a
  checkpoint before it finds that tag, so that a caller needs a tick without `alloc_req`
  first; `CppRenameStage` assumes one that has done so, as such a tick changes nothing that
  the second does not change the same way. `SharedAtHandover` says that this is the
  only way to share a tag, `NoDoubleUse` that no register suffers, and
  `MappingOfProgram` what does.
- `gen_sources.py:36`, `free_list.cpp:22`, `map_table.cpp:23`: flush is looked at
  before recover, so that a redirect that raises both, as the RTL's always does,
  restores nothing.
- `RenameLosesLast`: the C++ `rename` asks for a free register after the free list
  has granted the last one, and makes the packet invalid whose producer was told ready.

## Fairness

`CoreTop!Spec` has `WF_vars(Next)`: the clock keeps ticking. Nothing else is
assumed, and nothing else is left to chance, since every cycle is determined.
`Finishes` and `KeepsRetiring` rest on it. `OoopModel!Spec` has `WF_vars(Advance)`:
whoever calls the two classes keeps ticking them, and does not flush in every tick;
`Fetches` rests on that and still allows any number of flushes in between. Nothing is
assumed of `ready_in`. The other specifications are checked for safety only and have
no fairness.

## The proofs

### The tag path

`RobTagsProofs` proves for `RobTags`, for every `ROB_DEPTH` of at least two and any
set of instructions:

- `TypeCorrect`: `[]TypeOK`
- `NoTagCollision`: `[]TagsUnique`
- `WindowKept`: `[]Window`
- `SnapshotsKept`: `[]SnapshotsCoverBranches`
- `QueueImplemented`: `ImplementsQueue`, that the ROB is a queue in program order

None of the invariants is inductive alone. The invariant `Inv` is their conjunction with
`BranchesLive` (the history of branches names live tags only). They need each other:

- A new entry has a tag that differs from all others because the fifo's packet is
  reserved and reserved tags are not live; that survives a commit because the tag
  leaves `LiveTags` only with its one entry.
- The slot at `tail` is free when dispatch allocates because `count` is below the
  depth and `Window` says there are at most `count` valid entries. `count` is not
  equal to their number, as a recovery restores a stale one; the invariant is the
  inequality, and this is what keeps the ROB safe although its count drifts.
- A recovery keeps `Window` because the snapshot's tail is the slot behind the
  branch and its count is more than the branch's distance from `head`, by
  `SnapshotsCoverBranches`; commits move `head` towards the branch and only make
  that distance smaller.
- A branch gets its snapshot because its tag is pending while it is buffered; a
  recovery that clears the pending bits empties the buffers too. A bit set by a
  rename in the recovery cycle stays behind, harmlessly: the next instruction with
  that tag, branch or not, takes a snapshot nobody uses.

`QueueImplemented` reads the queue off the circular buffer as the slots from `head`
to `tail`. An edge that commits takes its first, one that allocates appends, one that
recovers cuts it behind the branch, and a writeback changes what one slot says; the
edges that do several at once are the same steps of `RobQueue`. `Window` gives the
length of the queue, `TagsUnique` that a writeback or a recovery means one slot, and
`SnapshotsCoverBranches` where the cut is.

The lemmas are the circular arithmetic (`DistFromNext`, `DistToNext`,
`DistInjective`, `DistBetween`), what the first free tag is (`FreeTagType`), and what
an edge does to entries and to the window (`EntryAfter`, `WindowAfterRun`,
`WindowAfterRecover`); `RunStep` and `RecoverStep` are the two cases of `Next`. The
assumptions are those on the constants: `RobDepthAssumption`, `PhysRegsAssumption`,
`ArchRegsAssumption`, `RenameInputAssumption`, `NoPktAssumption`.

### The core

`CoreTopProofs` proves for `CoreTop`, for every depth of ROB and
stations, every number of registers and words and every set of programs, loops
included:

- `CoreTypeCorrect`: `[]TypeOK`
- `TagPathImplemented`: `ImplementsRobTags`
- `CoreTagsUnique`: `[]Tags!TagsUnique`, from the former and `NoTagCollision`
- `RegistersApart`: `[]RegistersDisjoint`
- `LossesAreKnown`: a clock edge without a flush loses no register but the former one
  of an instruction that a full skid buffer drops

`TagPathImplemented` is where the assumptions `RobTags` makes about its environment
are discharged. Three things are to be shown of the stations and units, and they are
the parts of `CoreInv`:

- Only a live instruction that has not written back writes back. `AtRunning` says that
  what is in a station, a unit or the load pipeline is in the ROB and not done; `AtOnce`
  that it is in one such place. The second is needed for the first: of two copies the
  first to write back would make the other a stale one. `StationStep` says what becomes of
  each slot of a station at an edge; an instruction is inserted once, because dispatch
  puts it into one station and the ROB together.
- What the branch unit resolves as mispredicted is a branch of the ROB
  (`BranchesTracked`).
- The tag held for a redirect is that of a live branch that has written back
  (`RedirectOK`). The edge that registers the pulse is the one that marks the branch
  done, so that the branch cannot have committed when the pulse is there.

The rest of `CoreInv` is the types and the invariant of `RobTagsProofs`, instantiated
with the tag-relevant fields of the packets (`TP`).

`RegistersDisjoint` is not inductive, since a recovery makes a checkpoint the present
map and free list. `RegsInv` says of the checkpoint of each branch in flight what
`RegistersDisjoint` says of the present (`BranchesApart`), but only against the
instructions that this recovery would leave in flight, those not younger than the
branch: a younger one may well wait to free a register that the checkpoint maps. So
the instructions get an age (`Flying`): the distance from `head` for those in the
ROB, then the packet in the fifo, then the one in the skid buffer. Every edge keeps
the order of ages (`ShiftOrder`), a commit takes the oldest only, and what rename
adds is the youngest. `OldOnce` is needed for commit: what it frees is awaited by
nobody else. A packet lost in the skid buffer does no harm to this: fewer wait.

`LossesAreKnown` follows each register in the other direction: what is free, mapped
or waiting before an edge is one of these after it (`FreeKept`, `MappedKept`,
`WaitingKept`), where `Window` gives that dispatch overwrites no entry that still has
a register to free. It is weaker than `LostInRecoveriesOnly` by the drop in
`skidbuffer.sv:45`; when that can happen at all is the subject of the next section.

The assumptions are `RobDepthAssumption`, `PhysRegsAssumption`, `ArchRegsAssumption`,
`WordsAssumption`, `RsDepthAssumption`, `ProgramsAssumption` (programs are made of
instructions), `NoneAssumption` and `RegistersNoneAssumption` (what has no valid bit is
told from packets and words). What
`RobTagsProofs` assumes of its constants is proved of the ones the core gives it
(`TagsAssumptions`).

### The pace of the core

`CorePaceProofs` proves for `CoreTop`, under the same assumptions:

- `FlushesSpareOlder`: `[]FlushKillsOnlyYounger`
- `NothingIsForgotten`: `[]NothingForgotten`, that each instruction in the ROB without a
  result is in a station or a unit
- `LossesNeedNoRoom`: an edge without a flush loses a register only in a state where the
  ROB takes one instruction at a time (`NoRoom`)
- `BuffersFillOnStalls`: the buffer in front of rename fills only when rename has no
  register or no tag for its instruction, or in such a state

Nothing in the RTL compares ages when it flushes: `rs.sv` and `lsu_fu.sv` drop what they
have. What keeps older instructions out of the way is how slowly fetch delivers, one
instruction in three cycles at most, and how few cycles pass from dispatch to a result.
The invariant `PaceInv` says how far the instructions behind are at each point of fetch's
rhythm: `G1` and `G2` while an instruction is held for rename, `F1`, `F2` and `F3` when none
is. It adds to `CoreInv` and `RegsInv`:

- `Shapes`, `Counts`: which of fifo, stations and load pipeline may be occupied at that
  point, and how many instructions the ROB then has, two at most.
- `OneAtATime`, `Order`: one packet at most is in the stations, it is the youngest in the
  ROB, and whatever has no result is younger than the branch that redirects. This is the
  property, for the edges before the flush.
- `Awaited`: the operands of the packet in a station are there when the point of the
  rhythm says they must be, since every register that is mapped or needed has its value, is
  written at the next edge, or is computed by what is in a station. Without this a packet
  could wait for ever and the next one would join it.
- `Restorable`: the same for the registers that the checkpoint of a branch in flight would
  map again. It makes `Awaited` hold after a recovery.

and, at any pace:

- `Located`: an entry that is not done is in a station or a unit (`NothingForgotten`).
- `Blocked`: the LSU refuses work for two cycles after a flush, in which fetch is back at
  `F3` and `F2` and nothing waits for the LSU. Without this a load could be issued and
  dropped. A flush leaves nothing without a result (`UndoneYounger`, `LocatedRecover`).

A stall of rename does not disturb this: it only delays what follows, while the
instructions behind rename go on. A stall of the ROB would, and it can happen:
recoveries leave `count` above the number of entries (`Window`). `PaceInv` therefore
says the first list of states with `Room` only: while one entry is in the ROB it takes
another. Once the difference is `ROB_DEPTH - 1` or more, the ROB takes an instruction at
most when it is empty, so that nothing older than a branch is in flight and the theorem
holds for that reason. That room, once gone, does not come back is `Snap`: the snapshot
of the youngest branch has a count not below the present one. TLC reaches both kinds of
states on the programs of `core_loops`.

### The dispatch fifo

`FifoIsElastic` in `MCDispatchFifo`: for all items, the fifo implements
`ElasticBuffer`, with every handshake and every flush. An edge that pushes and pops
is two steps of the promise in one, which is why the promise has that step.

### The simulator

`OoopSimProofs` proves for `OoopSim`, for every program, every width of a word and
all sizes of memories, register file, ROB and stations:

- `SimTypeCorrect`: `[]TypeOK`
- `NeverOutOfOrder`: `[]OneInFlight`
- `NoRegisterLost`: `[]RegistersAccounted`
- `PaceKept`: `[]KeepsPace`, a bound on the average (`cycle <= 4 * commits + 4`)
- `TakesEveryInstruction`: `NothingDropped`
- `RecoveryIsIdle`: `RecoveryUndoesNothing`
- `ExecutesPrograms`: `ImplementsIsa`
- `UnitsSameWord`: `[]SameWord`, `UnitsSameDecision`: `[]SameDecision`, if words have
  32 bits

All but the last three follow from one invariant, `IInv`: the types and `Phase`, the five phases an
instruction goes through with what the core, fetch and the cycle count are in each.
No property is inductive alone: that a station has room rests on the core being empty
when fetch has an instruction, which rests on how fetch and commit keep in step, and
`KeepsPace` counts those same steps. The stages of a tick have a lemma each
(`CommitFinished`, `MiddleExecuting`, `RecoveryFinished`, `DispatchIdle`); `TickPhase`
puts them together.

- That rename finds a register (`FreeRegister`) is a pigeonhole argument: the mapping
  is injective, there are at least twice as many physical registers as architectural
  ones, and what is not mapped is free.
- AND and OR are defined by a recursive function that sums up bits. That it yields
  words is proved by taking the least number of bits at which it does not
  (`LeastElement`, `WordType`).
- `ExecutesPrograms` adds `Data`: fetch holds the instruction of its address, and the
  entry that waits in a station is the one right before, whose sources are the registers
  as they were before its own rename. The tick that executes and writes back is the
  instruction of `SimIsa`; all others leave its state as it is, although rename moves a
  register before its value is there, which the mapping of the refinement accounts for.
- `UnitsSameWord` and `UnitsSameDecision` compare each operation of the two ALUs on all
  integers as operands, not on samples: the simulator computes with registers of any
  size and sign and cuts some results, the RTL cuts the operands. They agree because
  sums, differences, AND, OR and what is shifted out depend on the words of the operands
  only (`WordSum`, `WordAndOr`, `WordShift`). The hypothesis `WordOfTheCode`, `BYTE_BITS`
  = 8, is the width of the code, and it is needed: the simulator takes the distance of a
  shift from an uncut register, which is the same remainder only if the width is a power
  of two; and it takes an immediate of 0 for none and adds `rs2`, which LUI encodes as part
  of its immediate, so the immediate must not lose bits in a word. (TLC's operands and
  widths of 16 bits are in `sim_programs`.)

### The Python front end

`PythonProofs` proves for `OoopModel`, for every program, every size of the memory
and every caller:

- `FrontTypeCorrect`: `[]TypeOK`
- `OffersWhatIsThere`: `[]OffersProgram`
- `DecodersSame`: `[]DecodersAgree`, if a word holds the longest immediate

The invariant `FrontInv` says which address an answer of the memory is for that fetch may
still take (`AnswersPc`): the pc, unless the memory is called first and answers anew. A
flush while a request is out moves the pc and the state together, so that the late answer
is never taken; `OffersProgram` could not say this of itself. `DecodersSame` goes through
the opcodes: one decoder extends signs within a word, the other makes signed integers
(`SignExtendMeans`), and the same integer is meant if a word has at least the 21 bits of a
jump's offset (`WideEnough`; the code has 32, the run 24).

### The comparison

`PythonProofs` also proves for `CompareOutputs`, for all numbers two runs can end with
(its names differ from those of `OoopModel`, so that one module can extend both):

- `CountsAreCompared`: `[]CountsCompared`
- `NeverFalseAlarm`: `[]NoFalseAlarm`

`CompareInv` says of an output that reached its final lines what the dictionary holds
when some of these are left (`ReadSoFar`). It also says why the registers are not compared
(`compare_registers`): what is left of both is 0x10 and 0x11.

### The C++ rename stage

`CppRenameProofs` proves for `CppRenameStage`, for all numbers of tags, registers and
waiting packets and any instructions decode may offer:

- `RenameTypeCorrect`: `[]TypeOK`
- `WaitingKeepsReservations`: `[]WaitingReserved`
- `SharedOnlyAtHandover`: `SharedAtHandover`
- `NoRegisterUsedTwice`: `[]NoDoubleUse`
- `MappingKept`: `[]MappingOfProgram`
- `OnlyTheLastIsLost`: `RenameLosesLast`

`NoDoubleUse` and `MappingOfProgram` are not inductive: a redirect turns a checkpoint
into the present. The invariants `RegInv` and `MapInv` therefore say of every
checkpoint what the properties say of the present state (`Apart`, `Follows`), about
the instructions up to its branch. That survives dispatch and commit because both
leave the order of the instructions in flight as it is, and the allocation of
younger ones because what they take is free in the checkpoint as well or allocated
since. With a tag shared, one branch may restore the checkpoint of the other: `Apart`
holds of that too, `Follows` does not, which is why only the latter asks that
nothing is `spoiled`.

The proofs rest on the assumptions on the constants only: `DepthAssumption`,
`RegsAssumption`, `CkptTagAssumption`, `BufferedAssumption` and `DecodedAssumption`;
those about the simulator on `ByteBitsAssumption`, `OperandsAssumption` and those at the
head of `OoopSim`; those about the front end on `ByteBitsAssumption` and those at the head
of `OoopModel`, those about the comparison on `NumbersAssumption`.

### Only model-checked

- `LostInRecoveriesOnly`, on the programs of `core_loops`. Its proof for all sizes would
  need that the buffer in front of dispatch drops nothing when the ROB has no room either.
  There that buffer does fill, and what then arrives depends on how long an instruction
  alone in the ROB takes, which the invariant does not follow. `LossesAreKnown` and
  `LossesNeedNoRoom` are what is proved.
- That the core implements `Isa`: it does not on loops (`skipped_insn`). On the programs
  of `core_programs` it does, and that is a statement about those.
- All liveness (`Finishes`, `KeepsRetiring`, `Fetches`), which is out of the prover's
  reach.
- What the recursive functions of `SimUnits` compute: the theorems say that AND and OR
  depend on the bits of their operands only and yield words, not that they are what their
  names say.

## Not modelled

- RTL: reset in mid-flight, the program loader of `icache.sv`, debug output, sub-word
  memory accesses and the operations listed under abstractions (the simulator's models
  have both). Words of 32 bits are modelled by words of 1 and 3 bits.
- `core_tb.sv` and `run_tests.sh` drive programs and print; they compare nothing.
- Python: reading program files and printing; the packet classes of `ooop_model.py`
  that nothing uses.
- C++: fetch, icache, decode and prf are ports of units that `Fetch`, `Decode` and
  `Prf` model, and nothing calls them; `main.cpp` needs a core that does not exist.
  In `CppRename`, looking up the sources.

## Plan

Done: the tag path, the whole core's types, tags, registers and pace, the simulator, the
Python front end, the comparison and the C++ rename stage with their proofs; every RTL unit and the core against
its ISA; the refinements `RobTags` => `RobQueue`, `CoreTop` => `RobTags`,
`DispatchFifo` => `ElasticBuffer` and `OoopSim` => `SimIsa` as theorems.

What could follow, in this order:

1. For `CoreTop`: that an operand read is the value of its producer (`Prf`, wakeup and
   `valid_bits`), with the ages of `Flying` as the order of producers.
2. The pace of a core whose ROB has no room, which `LostInRecoveriesOnly` needs for all
   sizes.
3. A back end (`Rs`, units, `Prf`, `Rob`, `RecoveryCtrl`) with a dispatch that delivers
   at any rate: in `CoreTop` fetch's pace hides most races of wakeup, hold and flush.
4. The block window of the LSU against late answers of the memory, for any timing of
   flushes.
