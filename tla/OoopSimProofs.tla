---------------------------- MODULE OoopSimProofs ---------------------------
(***************************************************************************)
(* Proofs about OoopSim, for every program and all sizes of its memories,  *)
(* register file, ROB and stations, and every width of a word; and that    *)
(* its units and those of the core agree (RtlUnits), on the words of 32    *)
(* bits of the code.                                                       *)
(***************************************************************************)
EXTENDS RtlUnits, FiniteSetTheorems, NatLemmas, TLAPS

USE ByteBitsAssumption
-----------------------------------------------------------------------------
(***************************************************************************)
(* Arithmetic.                                                             *)
(***************************************************************************)
LEMMA Moduli ==
  /\ XLEN \in Nat \ {0}
  /\ 2^XLEN \in Nat \ {0}
  /\ 2^(XLEN - 1) \in Nat \ {0}
<1>1. XLEN \in Nat \ {0} /\ XLEN - 1 \in Nat
  BY DEF XLEN
<1> QED BY <1>1, PowerPositive

\* What is cut to a word is a natural number.
LEMMA U32Type ==
  ASSUME NEW x \in Int
  PROVE  U32(x) \in Nat
  BY Moduli DEF U32

LEMMA S32Type ==
  ASSUME NEW x \in Int
  PROVE  S32(x) \in Int
<1>1. x % 2^XLEN \in Int
  BY Moduli
<1> QED BY <1>1, Moduli DEF S32

LEMMA SextType ==
  ASSUME NEW x \in Int, NEW bits \in Nat \ {0}
  PROVE  Sext(x, bits) \in Int
<1>1. 2^bits \in Nat \ {0} /\ 2^(bits - 1) \in Nat \ {0}
  BY PowerPositive
<1>2. x % 2^bits \in Int
  BY <1>1
<1> QED BY <1>1, <1>2 DEF Sext

LEMMA BitType ==
  ASSUME NEW x \in Int, NEW k \in Nat
  PROVE  Bit(x, k) \in {0, 1}
<1>1. 2^k \in Nat \ {0}
  BY PowerPositive
<1>2. x \div 2^k \in Int
  BY <1>1
<1> QED BY <1>2 DEF Bit

(***************************************************************************)
(* The word with given bits exists: the sum in Word is that of a function, *)
(* by the least length for which it would not be.                          *)
(***************************************************************************)
LEMMA WordType ==
  ASSUME NEW bit, \A k \in 0 .. XLEN - 1 : bit[k] \in {0, 1}
  PROVE  Word(bit) \in 0 .. 2^XLEN - 1
<1> DEFINE val == [k \in 0 .. XLEN - 1 |-> bit[k] * 2^k]
           Sums(f, n) == \A k \in 0 .. n : f[k] = IF k = 0 THEN 0 ELSE f[k - 1] + val[k - 1]
           Missing == {n \in 0 .. XLEN : ~ \E f \in [0 .. n -> Int] : Sums(f, n)}
<1>1. \A k \in 0 .. XLEN - 1 : val[k] \in Int
  <2>1. ASSUME NEW k \in 0 .. XLEN - 1 PROVE bit[k] * 2^k \in Int
    <3>1. k \in Nat /\ bit[k] \in Int
      BY Moduli
    <3> QED BY <3>1, PowerPositive
  <2> QED BY <2>1
<1> HIDE DEF val
<1>2. Missing = {}
  <2> SUFFICES ASSUME Missing # {} PROVE FALSE
    OBVIOUS
  <2>1. Missing \subseteq Nat
    BY Moduli
  <2>2. \E n \in Missing : \A m \in Missing : n <= m
    <3> HIDE DEF Missing
    <3> QED BY <2>1, LeastElement, Zenon
  <2>3. PICK n \in Missing : \A m \in Missing : n <= m
    BY <2>2
  <2>4. n # 0
    <3> DEFINE z == [k \in 0 .. 0 |-> 0]
    <3>1. z \in [0 .. 0 -> Int] /\ \A k \in 0 .. 0 : z[k] = 0 /\ k = 0
      OBVIOUS
    <3> HIDE DEF z
    <3>2. Sums(z, 0)
      BY <3>1
    <3> QED BY <2>3, <3>1, <3>2
  <2>5. n \in 1 .. XLEN /\ n - 1 \in 0 .. XLEN
    BY <2>3, <2>4, Moduli
  <2>6. n - 1 \notin Missing
    <3> HIDE DEF Missing
    <3> QED BY <2>3, <2>5
  <2>7. PICK f \in [0 .. n - 1 -> Int] : Sums(f, n - 1)
    BY <2>5, <2>6
  <2> DEFINE g == [k \in 0 .. n |-> IF k < n THEN f[k] ELSE f[n - 1] + val[n - 1]]
  <2>8. g \in [0 .. n -> Int]
    BY <1>1, <2>5, <2>7, Moduli
  <2>9. Sums(g, n)
    BY <2>5, <2>7, Moduli
  <2> QED BY <2>3, <2>8, <2>9
<1>3. PICK f \in [0 .. XLEN -> Int] : Sums(f, XLEN)
  BY <1>2, Moduli, SMTT(30)
<1> DEFINE term(k) == bit[k - 1] * 2^(k - 1)
           sum == CHOOSE s : s = [k \in 0 .. XLEN |-> IF k = 0 THEN 0 ELSE s[k - 1] + term(k)]
<1>4. Word(bit) = sum[XLEN]
  BY DEF Word
<1>5. \A k \in 1 .. XLEN : term(k) = val[k - 1]
  BY Moduli DEF val
<1>6. f = [k \in 0 .. XLEN |-> IF k = 0 THEN 0 ELSE f[k - 1] + term(k)]
  <2> DEFINE rhs == [k \in 0 .. XLEN |-> IF k = 0 THEN 0 ELSE f[k - 1] + term(k)]
  <2> HIDE DEF term
  <2>1. DOMAIN rhs = 0 .. XLEN /\ f \in [0 .. XLEN -> Int]
    BY <1>3
  <2>2. ASSUME NEW k \in 0 .. XLEN PROVE f[k] = rhs[k]
    <3>1. f[k] = IF k = 0 THEN 0 ELSE f[k - 1] + val[k - 1]
      BY <1>3
    <3>2. k # 0 => val[k - 1] = term(k)
      BY <1>5, Moduli
    <3>3. rhs[k] = IF k = 0 THEN 0 ELSE f[k - 1] + term(k)
      OBVIOUS
    <3> HIDE DEF rhs
    <3> QED BY <3>1, <3>2, <3>3
  <2>3. rhs = [k \in 0 .. XLEN |-> rhs[k]] /\ f = [k \in 0 .. XLEN |-> f[k]]
    BY <2>1
  <2> HIDE DEF rhs
  <2>4. f = rhs
    BY <2>1, <2>2, <2>3
  <2> QED BY <2>4 DEF rhs
<1>7. sum = [k \in 0 .. XLEN |-> IF k = 0 THEN 0 ELSE sum[k - 1] + term(k)]
  <2> HIDE DEF term
  <2> QED BY <1>6
<1> HIDE DEF sum, term
<1>8. \A k \in 0 .. XLEN : sum[k] \in 0 .. 2^k - 1
  <2> DEFINE Bad == {k \in 0 .. XLEN : sum[k] \notin 0 .. 2^k - 1}
  <2> SUFFICES ASSUME Bad # {} PROVE FALSE
    OBVIOUS
  <2>1. Bad \subseteq Nat
    BY Moduli
  <2>2. \E n \in Bad : \A m \in Bad : n <= m
    <3> HIDE DEF Bad
    <3> QED BY <2>1, LeastElement, Zenon
  <2>3. PICK n \in Bad : \A m \in Bad : n <= m
    BY <2>2
  <2>4. n # 0
    <3>1. 0 \in 0 .. XLEN
      BY Moduli
    <3>2. sum[0] = 0
      BY <1>7, <3>1
    <3>3. 0 \in 0 .. 2^0 - 1
      OBVIOUS
    <3> QED BY <2>3, <3>2, <3>3
  <2>5. n \in 1 .. XLEN /\ n - 1 \in 0 .. XLEN /\ n - 1 \in Nat
    BY <2>3, <2>4, Moduli
  <2>6. n - 1 \notin Bad
    <3> HIDE DEF Bad
    <3> QED BY <2>3, <2>5
  <2>7. sum[n - 1] \in 0 .. 2^(n - 1) - 1
    BY <2>5, <2>6
  <2>8. term(n) \in {0, 2^(n - 1)}
    <3>1. bit[n - 1] \in {0, 1}
      BY <2>5, Moduli
    <3>2. 2^(n - 1) \in Nat
      BY <2>5, PowerPositive
    <3>3. \A b \in {0, 1}, p \in Nat : b * p \in {0, p}
      OBVIOUS
    <3> QED BY <3>1, <3>2, <3>3, Zenon DEF term
  <2>9. sum[n] = sum[n - 1] + term(n)
    BY <1>7, <2>5
  <2>10. 2^n = 2 * 2^(n - 1) /\ 2^(n - 1) \in Nat
    <3>1. (n - 1) + 1 = n
      BY <2>5
    <3> QED BY <2>5, <3>1, PowerDouble, PowerPositive
  <2> HIDE DEF term, Bad
  <2>11. sum[n] \in 0 .. 2^n - 1
    BY <2>7, <2>8, <2>9, <2>10
  <2> QED BY <2>3, <2>11 DEF Bad
<1> QED BY <1>4, <1>8, Moduli

LEMMA AndOrType ==
  ASSUME NEW a \in Int, NEW b \in Int
  PROVE  And(a, b) \in Int /\ Or(a, b) \in Int
<1> DEFINE conj == [k \in 0 .. XLEN - 1 |-> Bit(a, k) * Bit(b, k)]
           disj == [k \in 0 .. XLEN - 1 |-> IF Bit(a, k) + Bit(b, k) > 0 THEN 1 ELSE 0]
<1>1. \A k \in 0 .. XLEN - 1 : Bit(a, k) \in {0, 1} /\ Bit(b, k) \in {0, 1}
  BY BitType, Moduli
<1>2. \A k \in 0 .. XLEN - 1 : conj[k] \in {0, 1} /\ disj[k] \in {0, 1}
  BY <1>1
<1> HIDE DEF conj, disj
<1>3. Word(conj) \in Int /\ Word(disj) \in Int
  BY <1>2, WordType, Moduli
<1>4. /\ And(a, b) = Word(conj) - (IF a < 0 /\ b < 0 THEN 2^XLEN ELSE 0)
      /\ Or(a, b) = Word(disj) - (IF a < 0 \/ b < 0 THEN 2^XLEN ELSE 0)
  BY DEF And, Or, conj, disj
<1> QED BY <1>3, <1>4, Moduli
-----------------------------------------------------------------------------
(***************************************************************************)
(* Decoded instructions and what the units make of them.                   *)
(***************************************************************************)
LEMMA ImmType ==
  ASSUME NEW i \in Insn
  PROVE  ImmOf(i) \in Int
<1>1. i.f7 \in Nat /\ i.rs2 \in Nat /\ i.rs1 \in Nat /\ i.f3 \in Nat /\ i.rd \in Nat
  BY DEF Insn, Field5, Field7
<1>2. SignBit(i) \in Int /\ i.rd % 2 \in Int /\ i.rd \div 2 \in Int /\ i.f7 % 64 \in Int
      /\ i.rs2 % 2 \in Int /\ i.rs2 \div 2 \in Int
  BY <1>1 DEF SignBit
<1>3. \A n \in Nat : 2^n \in Nat
  BY PowerPositive
<1>4. ImmI(i) \in Int /\ ImmS(i) \in Int
  BY <1>1, <1>3, SextType DEF ImmI, ImmS
<1>5. ImmB(i) \in Int
  <2>1. SignBit(i) * 2^12 + (i.rd % 2) * 2^11 + (i.f7 % 64) * 2^5 + (i.rd \div 2) * 2 \in Int
    BY <1>2, <1>3
  <2> QED BY <2>1, SextType DEF ImmB
<1>6. ImmJ(i) \in Int
  <2>1. (i.f7 % 64) * 2^4 + i.rs2 \div 2 \in Int
    BY <1>2, <1>3
  <2>2. SignBit(i) * 2^20 + (i.rs1 * 2^3 + i.f3) * 2^12 + (i.rs2 % 2) * 2^11 \in Int
    BY <1>1, <1>2, <1>3
  <2>3. SignBit(i) * 2^20 + (i.rs1 * 2^3 + i.f3) * 2^12 + (i.rs2 % 2) * 2^11
          + ((i.f7 % 64) * 2^4 + i.rs2 \div 2) * 2 \in Int
    BY <2>1, <2>2
  <2> QED BY <2>3, SextType DEF ImmJ
<1>7. ImmU(i) \in Int
  <2>1. i.f3 + i.rs1 * 2^3 + i.rs2 * 2^8 + i.f7 * 2^13 \in Int
    BY <1>1, <1>3
  <2>2. (i.f3 + i.rs1 * 2^3 + i.rs2 * 2^8 + i.f7 * 2^13) % 2^XLEN \in Int
    BY <2>1, Moduli
  <2> QED BY <1>3, <2>2, U32Type DEF ImmU
<1> QED BY <1>4, <1>5, <1>6, <1>7 DEF ImmOf

AluOps == {"ADD", "SUB", "AND", "OR", "SRA", "SLTIU", "LUI"}

LEMMA AluOpType ==
  ASSUME NEW i \in Insn
  PROVE  AluOpOf(i) \in AluOps
<1>1. OpImmOp(i.f3) \in AluOps /\ OpOp(i.f3, i.f7) \in AluOps
  BY DEF OpImmOp, OpOp, AluOps
<1> QED BY <1>1 DEF AluOpOf, AluOps

LEMMA AluType ==
  ASSUME NEW d, d.imm \in Int, d.alu_op \in AluOps, NEW a \in Int, NEW b \in Int
  PROVE  AluExec(d, a, b) \in Int
<1> DEFINE op_b == IF d.imm # 0 THEN d.imm ELSE b
<1>1. op_b \in Int
  OBVIOUS
<1> HIDE DEF op_b
<1>2. U32(a + op_b) \in Int /\ U32(a - op_b) \in Int
  BY <1>1, U32Type
<1>3. And(a, op_b) \in Int /\ Or(a, op_b) \in Int
  BY <1>1, AndOrType
<1>4. U32(S32(a) \div 2^(op_b % XLEN)) \in Int
  <2>1. op_b % XLEN \in Nat
    BY <1>1, Moduli
  <2>2. 2^(op_b % XLEN) \in Nat \ {0}
    BY <2>1, PowerPositive
  <2>3. S32(a) \div 2^(op_b % XLEN) \in Int
    BY <2>2, S32Type
  <2> QED BY <2>3, U32Type
<1>5. (IF a < op_b THEN 1 ELSE 0) \in Int
  OBVIOUS
<1> QED BY <1>1, <1>2, <1>3, <1>4, <1>5 DEF AluExec, AluOps, op_b

LEMMA TargetType ==
  ASSUME NEW d, d.imm \in Int, d.pc \in Int, NEW a \in Int
  PROVE  BruTarget(d, a) \in Nat
<1>1. U32(a + d.imm) \in Nat /\ U32(d.pc + d.imm) \in Nat
  BY U32Type
<1>2. \A t \in Nat : t - (t % 2) \in Nat
  OBVIOUS
<1> QED BY <1>1, <1>2 DEF BruTarget

\* Accesses to a memory of n words.
LEMMA BitsType ==
  ASSUME NEW word \in Int, NEW lo \in Nat, NEW n \in Nat, NEW data \in Int
  PROVE  GetBits(word, lo, n) \in Int /\ PutBits(word, lo, n, data) \in Int
<1>1. 2^lo \in Nat \ {0} /\ 2^n \in Nat \ {0}
  BY PowerPositive
<1>2. word \div 2^lo \in Int /\ data % 2^n \in Int
  BY <1>1
<1>3. (word \div 2^lo) % 2^n \in Int
  BY <1>1, <1>2
<1> QED BY <1>1, <1>2, <1>3 DEF GetBits, PutBits

LEMMA LaneType ==
  ASSUME NEW addr \in Nat
  PROVE  ByteLane(addr) \in Nat /\ HalfLane(addr) \in Nat
<1>1. addr % 4 \in Nat /\ (addr % 4) - (addr % 2) \in Nat
  OBVIOUS
<1>2. \A m \in Nat : m * BYTE_BITS \in Nat
  OBVIOUS
<1> QED BY <1>1, <1>2 DEF ByteLane, HalfLane

LEMMA MemoryType ==
  ASSUME NEW n \in Nat \ {0}, NEW mem \in [0 .. n - 1 -> Int], NEW addr \in Nat,
         NEW size \in {"B", "H", "W"}, NEW uns, NEW data \in Int
  PROVE  /\ MemLoad(mem, addr, size, uns) \in Int
         /\ MemStore(mem, addr, data, size) \in [0 .. n - 1 -> Int]
<1> DEFINE w == WordIndex(mem, addr)
<1>1. w \in 0 .. n - 1
  <2>1. Cardinality(DOMAIN mem) = n
    BY FS_Interval
  <2>2. addr \div 4 \in Int
    OBVIOUS
  <2> QED BY <2>1, <2>2 DEF WordIndex
<1> HIDE DEF w
<1>2. mem[w] \in Int
  BY <1>1
<1>3. 2 * BYTE_BITS \in Nat \ {0} /\ BYTE_BITS \in Nat \ {0}
  OBVIOUS
<1> DEFINE byte == GetBits(mem[w], ByteLane(addr), BYTE_BITS)
           half == GetBits(mem[w], HalfLane(addr), 2 * BYTE_BITS)
           putb == PutBits(mem[w], ByteLane(addr), BYTE_BITS, data)
           puth == PutBits(mem[w], HalfLane(addr), 2 * BYTE_BITS, data)
<1>4. byte \in Int /\ half \in Int /\ putb \in Int /\ puth \in Int
  BY <1>2, <1>3, LaneType, BitsType
<1>5. MemLoad(mem, addr, size, uns) =
        CASE size = "B" -> IF uns THEN byte ELSE Sext(byte, BYTE_BITS)
          [] size = "H" -> IF uns THEN half ELSE Sext(half, 2 * BYTE_BITS)
          [] size = "W" -> mem[w]
  BY DEF MemLoad, w
<1>6. MemStore(mem, addr, data, size) =
        [mem EXCEPT ![w] = CASE size = "B" -> putb [] size = "H" -> puth
                             [] size = "W" -> U32(data)]
  BY DEF MemStore, w
<1> HIDE DEF byte, half, putb, puth
<1>7. MemLoad(mem, addr, size, uns) \in Int
  <2>1. Sext(byte, BYTE_BITS) \in Int /\ Sext(half, 2 * BYTE_BITS) \in Int
    BY <1>3, <1>4, SextType
  <2> QED BY <1>2, <1>4, <1>5, <2>1
<1>8. MemStore(mem, addr, data, size) \in [0 .. n - 1 -> Int]
  BY <1>1, <1>4, <1>6, U32Type
<1> QED BY <1>7, <1>8
-----------------------------------------------------------------------------
(***************************************************************************)
(* The inductive invariant: the phases an instruction goes through.        *)
(***************************************************************************)
MappedIn(c) == {c.rat[r] : r \in Areg}

\* Every allocatable register is free, mapped or in old, in one of them only.
Accounted(c, old) ==
  /\ \A r, s \in Areg : c.rat[r] = c.rat[s] => r = s
  /\ c.rat[0] = 0
  /\ c.free_map \cap MappedIn(c) = {}
  /\ c.free_map \cap old = {}
  /\ MappedIn(c) \cap old = {}
  /\ Allocatable \subseteq c.free_map \cup MappedIn(c) \cup old

NoneWaiting(c) == \A fu \in FuType : DOMAIN c.rs[fu] = {}

\* There is no instruction in the core.
Idle(c) ==
  /\ c.rob_count = 0
  /\ DOMAIN c.rob = {}
  /\ c.rob_tail = c.rob_head
  /\ NoneWaiting(c)
  /\ MappedIn(c) \subseteq c.prf_valid
  /\ Accounted(c, {})

\* There is one, at the head of the ROB.
HeadOf(c) == c.rob[c.rob_head]

OldOf(c) == IF HeadOf(c).rd_used THEN {HeadOf(c).old_prd} ELSE {}

Alone(c) ==
  /\ c.rob_count = 1
  /\ DOMAIN c.rob = {c.rob_head}
  /\ c.rob_tail = IncSlot(c.rob_head)
  /\ HeadOf(c).tag = c.rob_head
  /\ Accounted(c, OldOf(c))

\* It has executed, and commits in the next tick.
Finished(c) ==
  /\ Alone(c)
  /\ HeadOf(c).done
  /\ NoneWaiting(c)
  /\ MappedIn(c) \subseteq c.prf_valid

\* The checkpoint of the instruction at the head is the present.
Checkpoints(c) ==
  /\ c.rob_head \in DOMAIN c.ckpt
  /\ c.ckpt[c.rob_head] = [rat |-> c.rat, free_map |-> c.free_map,
                           head |-> c.rob_head, tail |-> c.rob_tail]

\* What the units and the other stages rely on in a decoded instruction.
DecodedOK(d) ==
  /\ d.pc \in Nat /\ d.imm \in Int
  /\ d.alu_op \in AluOps /\ d.ls_size \in {"B", "H", "W"}
  /\ d.rs1 \in Areg /\ d.rs2 \in Areg /\ d.rd \in Areg
  /\ d.rd_used \in BOOLEAN
  /\ d.fu_type \in FuType
  /\ d.fu_type = "LSU" /\ ~d.is_load => ~d.rd_used

\* It waits at index i of the station of fu, and executes in the next tick.
WaitsAt(c, fu, i) ==
  LET e == c.rs[fu][i]
  IN  /\ DOMAIN c.rs[fu] = {i}
      /\ \A g \in FuType \ {fu} : DOMAIN c.rs[g] = {}
      /\ e.ready /\ e.rob_tag = c.rob_head /\ e.rd_used \in BOOLEAN
      /\ DecodedOK(e.d) /\ e.d.fu_type = fu /\ (e.rd_used => e.d.rd_used)
      /\ e.prs1 \in Preg /\ e.prs2 \in Preg
      /\ e.rd_used => e.prd \in Preg \ {0} /\ MappedIn(c) \subseteq c.prf_valid \cup {e.prd}
      /\ ~e.rd_used => MappedIn(c) \subseteq c.prf_valid
      /\ fu = "BRU" /\ (e.d.is_jump \/ e.d.is_branch) => Checkpoints(c)

Executing(c) ==
  /\ Alone(c)
  /\ ~HeadOf(c).done
  /\ \E fu \in FuType, i \in 0 .. RS_DEPTH - 1 : WaitsAt(c, fu, i)

\* How the phases go with fetch, and how far behind they are at most.
Phase ==
  \/ Idle(core) /\ fetch.state = "IDLE" /\ cycle <= 4 * core.commits
  \/ Idle(core) /\ fetch.state = "REQ"  /\ cycle <= 4 * core.commits + 1
  \/ Idle(core) /\ fetch.state = "HAVE" /\ cycle <= 4 * core.commits + 2
  \/ Executing(core) /\ fetch.state = "REQ" /\ cycle <= 4 * core.commits + 3
  \/ Finished(core) /\ fetch.state \in {"IDLE", "HAVE"} /\ cycle <= 4 * core.commits + 4

IInv == TypeOK /\ Phase

(***************************************************************************)
(* What the refinement of SimIsa needs besides: the data of the two        *)
(* instructions under way.                                                 *)
(***************************************************************************)
\* Where the value of register r is while e, alone in the core, waits.
SourceReg(c, e, r) ==
  IF e.rd_used /\ e.d.rd = r THEN HeadOf(c).old_prd ELSE c.rat[r]

\* The entry that waits is the instruction in memory right before the one fetch
\* is at; its sources are the registers as they were before its own rename.
RunsAt(c, f, mem, fu, i) ==
  LET e == c.rs[fu][i]
  IN  /\ e.d = DecodeInstr(e.d.pc, ICacheWord(mem, e.d.pc))
      /\ f.pc = e.d.pc + 4
      /\ e.rd_used = e.d.rd_used
      /\ e.rd_used => e.prd = c.rat[e.d.rd] /\ HeadOf(c).rd_used
      /\ e.prs1 = SourceReg(c, e, e.d.rs1)
      /\ e.prs2 = SourceReg(c, e, e.d.rs2)

Data ==
  /\ fetch.state = "HAVE" => fetch.instr = ICacheWord(imem, fetch.pc)
  /\ \A fu \in FuType, i \in 0 .. RS_DEPTH - 1 :
       WaitsAt(core, fu, i) => RunsAt(core, fetch, imem, fu, i)
-----------------------------------------------------------------------------
(***************************************************************************)
(* Cores and decoded instructions.                                         *)
(***************************************************************************)

\* The fields of a core.
LEMMA CoreFields ==
  ASSUME NEW c, DOMAIN c = DOMAIN CoreInit
  PROVE  DOMAIN c = {"rat", "free_map", "prf", "prf_valid", "rob", "rob_head",
                     "rob_tail", "rob_count", "rs", "dmem", "ckpt", "commits"}
  BY DEF CoreInit

LEMMA DecodeShape ==
  ASSUME NEW pc \in Nat, NEW i \in Insn
  PROVE  DecodedOK(DecodeInstr(pc, i))
<1> DEFINE d == DecodeInstr(pc, i)
<1>1. /\ d.rs1 = i.rs1 /\ d.rs2 = i.rs2 /\ d.rd = i.rd
      /\ d.is_load = (i.op = LOAD)
      /\ d.pc = pc /\ d.imm = ImmOf(i) /\ d.alu_op = AluOpOf(i)
      /\ d.ls_size \in {"B", "H", "W"}
  BY DEF DecodeInstr
<1>2. /\ d.rd_used \in BOOLEAN
      /\ d.rd_used => i.op \in {LUI, JAL, OP_IMM, OP, LOAD, JALR}
  BY DEF DecodeInstr
<1>3. d.fu_type = IF i.op \in {JAL, JALR, BRANCH} THEN "BRU"
                  ELSE IF i.op \in {LOAD, STORE} THEN "LSU" ELSE "ALU"
  BY DEF DecodeInstr
<1>4. /\ i.rs1 \in Areg /\ i.rs2 \in Areg /\ i.rd \in Areg
  BY ArchRegsAssumption DEF Insn, Areg, Field5
<1> HIDE DEF d
<1>5. d.fu_type = "LSU" /\ ~d.is_load => i.op = STORE
  BY <1>1, <1>3
<1>6. d.fu_type = "LSU" /\ ~d.is_load => ~d.rd_used
  BY <1>2, <1>5 DEF LUI, JAL, OP_IMM, OP, LOAD, STORE, JALR
<1>7. d.fu_type \in FuType
  BY <1>3 DEF FuType
<1> QED BY <1>1, <1>2, <1>4, <1>6, <1>7, ImmType, AluOpType DEF d, DecodedOK
-----------------------------------------------------------------------------
(***************************************************************************)
(* Commit.                                                                 *)
(***************************************************************************)

LEMMA NoCommit ==
  ASSUME NEW c, CoreTypeOK(c), Idle(c) \/ Executing(c)
  PROVE  Commit(c) = c
  BY DEF Commit, HeadDone, Idle, Executing, HeadOf

\* The instruction that has executed leaves an idle core.
LEMMA CommitFinished ==
  ASSUME NEW c, CoreTypeOK(c), Finished(c)
  PROVE  /\ CoreTypeOK(Commit(c))
         /\ Idle(Commit(c))
         /\ Commit(c).commits = c.commits + 1
         /\ Commit(c).rat = c.rat
         /\ Commit(c).prf = c.prf
         /\ Commit(c).dmem = c.dmem
<1> DEFINE e == HeadOf(c)
           freed == IF e.rd_used /\ e.old_prd # 0 THEN {e.old_prd} ELSE {}
           n == Commit(c)
<1>1. HeadDone(c)
  BY DEF HeadDone, Finished, Alone, HeadOf
<1>2. n = [c EXCEPT !.free_map = @ \cup freed,
                    !.rob = Restrict(@, DOMAIN @ \ {c.rob_head}),
                    !.rob_head = IncSlot(@),
                    !.rob_count = @ - 1,
                    !.commits = @ + 1]
  BY <1>1 DEF Commit, HeadOf
<1>3. /\ DOMAIN n = DOMAIN c
      /\ n.rat = c.rat /\ n.prf = c.prf /\ n.prf_valid = c.prf_valid
      /\ n.rs = c.rs /\ n.dmem = c.dmem /\ n.ckpt = c.ckpt
      /\ n.rob_tail = c.rob_tail
      /\ n.free_map = c.free_map \cup freed
      /\ n.rob = Restrict(c.rob, DOMAIN c.rob \ {c.rob_head})
      /\ n.rob_head = IncSlot(c.rob_head)
      /\ n.rob_count = c.rob_count - 1
      /\ n.commits = c.commits + 1
  <2> HIDE DEF n, freed
  <2> QED BY <1>2, CoreFields DEF CoreTypeOK
<1> HIDE DEF n
<1>4. DOMAIN n.rob = {} /\ n.rob_tail = n.rob_head /\ n.rob_count = 0
  BY <1>3 DEF Finished, Alone, Restrict
<1>5. e \in RobEntry
  BY DEF HeadOf, Finished, Alone, CoreTypeOK
<1>6. CoreTypeOK(n)
  <2>1. freed \subseteq Preg
    BY <1>5 DEF RobEntry
  <2>2. n.rob_head \in Slot
    BY <1>3, DepthAssumption DEF CoreTypeOK, Slot, IncSlot
  <2>3. n.free_map \subseteq Preg /\ n.rob_count \in Nat /\ n.commits \in Nat
    BY <1>3, <1>4, <2>1 DEF CoreTypeOK
  <2>4. DOMAIN n.rob \subseteq Slot /\ \A i \in DOMAIN n.rob : n.rob[i] \in RobEntry
    BY <1>4
  <2>5. n.rob_tail \in Slot
    BY <1>3 DEF CoreTypeOK
  <2> QED BY <1>3, <2>2, <2>3, <2>4, <2>5, Zenon DEF CoreTypeOK
<1>7. Accounted(n, {})
  <2>1. MappedIn(n) = MappedIn(c)
    BY <1>3 DEF MappedIn
  <2>2. Accounted(c, IF e.rd_used THEN {e.old_prd} ELSE {})
    BY DEF Finished, Alone, OldOf
  <2>3. 0 \notin Allocatable
    BY ArchRegsAssumption DEF Allocatable
  <2>4. n.free_map \cap MappedIn(n) = {}
    BY <1>3, <2>1, <2>2 DEF Accounted
  <2>5. Allocatable \subseteq n.free_map \cup MappedIn(n)
    BY <1>3, <2>1, <2>2, <2>3 DEF Accounted
  <2>6. /\ \A r, s \in Areg : n.rat[r] = n.rat[s] => r = s
        /\ n.rat[0] = 0
    BY <1>3, <2>2 DEF Accounted
  <2> QED BY <2>4, <2>5, <2>6 DEF Accounted
<1> QED BY <1>3, <1>4, <1>6, <1>7, ZenonT(60) DEF n, Idle, Finished, NoneWaiting, MappedIn
-----------------------------------------------------------------------------
(***************************************************************************)
(* Execute, writeback and wakeup.                                          *)
(***************************************************************************)

\* The fields none of these stages changes.
SameFrame(c, n) ==
  /\ DOMAIN n = DOMAIN c
  /\ n.rat = c.rat /\ n.free_map = c.free_map
  /\ n.rob_head = c.rob_head /\ n.rob_tail = c.rob_tail /\ n.rob_count = c.rob_count
  /\ n.ckpt = c.ckpt /\ n.commits = c.commits

\* The memory after the load/store unit.
StoredMem(c) ==
  LET st == IssueEntry(c, "LSU")
  IN  IF "LSU" \in Issuing(c) /\ ~st.d.is_load
      THEN MemStore(c.dmem, U32(Src1(c, st) + st.d.imm), Src2(c, st), st.d.ls_size) ELSE c.dmem

LEMMA ExecuteFields ==
  ASSUME NEW c, CoreTypeOK(c)
  PROVE  LET n == Execute(c)
         IN  /\ SameFrame(c, n)
             /\ n.prf = c.prf /\ n.prf_valid = c.prf_valid /\ n.rob = c.rob
             /\ n.dmem = StoredMem(c)
             /\ DOMAIN n.rs = FuType
             /\ \A fu \in FuType :
                  DOMAIN n.rs[fu] = IF fu \in Issuing(c)
                                    THEN DOMAIN c.rs[fu] \ {IssueIdx(c, fu)}
                                    ELSE DOMAIN c.rs[fu]
<1> DEFINE rs == [fu \in FuType |->
                    IF fu \in Issuing(c)
                    THEN Restrict(c.rs[fu], DOMAIN c.rs[fu] \ {IssueIdx(c, fu)}) ELSE c.rs[fu]]
           dmem == StoredMem(c)
           n == Execute(c)
<1>1. n = [c EXCEPT !.rs = rs, !.dmem = dmem]
  BY DEF Execute, StoredMem
<1>2. /\ DOMAIN rs = FuType
      /\ \A fu \in FuType :
           DOMAIN rs[fu] = IF fu \in Issuing(c) THEN DOMAIN c.rs[fu] \ {IssueIdx(c, fu)}
                           ELSE DOMAIN c.rs[fu]
  BY DEF Restrict
<1> HIDE DEF rs, dmem, n
<1>3. /\ SameFrame(c, n)
      /\ n.prf = c.prf /\ n.prf_valid = c.prf_valid /\ n.rob = c.rob
      /\ n.rs = rs /\ n.dmem = dmem
  BY <1>1, CoreFields DEF SameFrame, CoreTypeOK
<1> QED BY <1>2, <1>3 DEF n, dmem

\* The ROB with the entries of a tag done.
MarkDone(rob, tag) ==
  [i \in DOMAIN rob |-> IF rob[i].tag = tag THEN [rob[i] EXCEPT !.done = TRUE] ELSE rob[i]]

LEMMA WriteOneFields ==
  ASSUME NEW c, DOMAIN c = DOMAIN CoreInit, NEW wbs, NEW fu \in DOMAIN wbs
  PROVE  LET n == WriteOne(c, wbs, fu)
             wb == wbs[fu]
         IN  /\ SameFrame(c, n)
             /\ n.prf = IF Writes(wb) THEN [c.prf EXCEPT ![wb.prd] = wb.data] ELSE c.prf
             /\ n.prf_valid = c.prf_valid \cup (IF Writes(wb) THEN {wb.prd} ELSE {})
             /\ n.rob = MarkDone(c.rob, wb.rob_tag)
             /\ n.rs = c.rs /\ n.dmem = c.dmem
<1> DEFINE wb == wbs[fu]
           prf == IF Writes(wb) THEN [c.prf EXCEPT ![wb.prd] = wb.data] ELSE c.prf
           valid == IF Writes(wb) THEN c.prf_valid \cup {wb.prd} ELSE c.prf_valid
           rob == MarkDone(c.rob, wb.rob_tag)
           n == WriteOne(c, wbs, fu)
<1>1. n = [c EXCEPT !.prf = prf, !.prf_valid = valid, !.rob = rob]
  BY DEF WriteOne, MarkDone
<1>2. valid = c.prf_valid \cup (IF Writes(wb) THEN {wb.prd} ELSE {})
  OBVIOUS
<1> HIDE DEF prf, valid, rob, n
<1>3. /\ SameFrame(c, n)
      /\ n.prf = prf /\ n.prf_valid = valid /\ n.rob = rob
      /\ n.rs = c.rs /\ n.dmem = c.dmem
  BY <1>1, CoreFields DEF SameFrame
<1> QED BY <1>2, <1>3 DEF n, rob, prf

LEMMA WakeupFields ==
  ASSUME NEW c, DOMAIN c = DOMAIN CoreInit, NEW wbs
  PROVE  LET n == Wakeup(c, wbs)
         IN  /\ SameFrame(c, n)
             /\ n.prf = c.prf /\ n.prf_valid = c.prf_valid /\ n.rob = c.rob
             /\ n.dmem = c.dmem
             /\ DOMAIN n.rs = FuType
             /\ \A fu \in FuType : DOMAIN n.rs[fu] = DOMAIN c.rs[fu]
<1> DEFINE rs == [fu \in FuType |-> [i \in DOMAIN c.rs[fu] |-> Woken(c.rs[fu][i], wbs)]]
           n == Wakeup(c, wbs)
<1>1. n = [c EXCEPT !.rs = rs]
  BY DEF Wakeup
<1>2. DOMAIN rs = FuType /\ \A fu \in FuType : DOMAIN rs[fu] = DOMAIN c.rs[fu]
  OBVIOUS
<1> HIDE DEF rs, n
<1>3. /\ SameFrame(c, n)
      /\ n.prf = c.prf /\ n.prf_valid = c.prf_valid /\ n.rob = c.rob
      /\ n.dmem = c.dmem /\ n.rs = rs
  BY <1>1, CoreFields DEF SameFrame
<1> QED BY <1>2, <1>3 DEF n

\* The three stages together, as Tick composes them.
Middle(c) == Wakeup(Writeback(Execute(c), WbPkts(c)), WbPkts(c))

\* A core's type, from that of a core with the same frame.
LEMMA TypeFromFrame ==
  ASSUME NEW c, CoreTypeOK(c), NEW n, SameFrame(c, n),
         n.prf \in [Preg -> Int], n.prf_valid \subseteq Preg,
         DOMAIN n.rob \subseteq Slot, \A i \in DOMAIN n.rob : n.rob[i] \in RobEntry,
         DOMAIN n.rs = FuType,
         \A fu \in FuType : DOMAIN n.rs[fu] \subseteq 0 .. RS_DEPTH - 1,
         n.dmem \in [0 .. DMEM_WORDS - 1 -> Int]
  PROVE  CoreTypeOK(n)
<1>1. /\ DOMAIN n = DOMAIN CoreInit
      /\ n.rat \in [Areg -> Preg] /\ n.free_map \subseteq Preg
      /\ n.rob_head \in Slot /\ n.rob_tail \in Slot /\ n.rob_count \in Nat
      /\ n.commits \in Nat
  BY DEF SameFrame, CoreTypeOK
<1>2. DOMAIN n.ckpt \subseteq Slot /\ \A t \in DOMAIN n.ckpt : n.ckpt[t] \in Snapshot
  BY DEF SameFrame, CoreTypeOK
<1> QED BY <1>1, <1>2, Zenon DEF CoreTypeOK

LEMMA MiddleIdle ==
  ASSUME NEW c, CoreTypeOK(c), Idle(c)
  PROVE  /\ CoreTypeOK(Middle(c)) /\ Idle(Middle(c)) /\ SameFrame(c, Middle(c))
         /\ Middle(c).prf = c.prf /\ Middle(c).dmem = c.dmem
         /\ Redirect(c) = {}
<1> DEFINE x == Execute(c)
           n == Middle(c)
<1>1. Issuing(c) = {}
  BY DEF Issuing, ReadyIdx, Idle, NoneWaiting
<1>2. Redirect(c) = {}
  BY <1>1 DEF Redirect
<1>3. Writeback(x, WbPkts(c)) = x
  BY <1>1 DEF Writeback, WriteOne, WbPkts
<1>4. /\ SameFrame(c, x)
      /\ x.prf = c.prf /\ x.prf_valid = c.prf_valid /\ x.rob = c.rob
      /\ x.dmem = c.dmem
      /\ DOMAIN x.rs = FuType
      /\ \A fu \in FuType : DOMAIN x.rs[fu] = DOMAIN c.rs[fu]
  BY <1>1, ExecuteFields DEF StoredMem
<1>5. n = Wakeup(x, WbPkts(c))
  BY <1>3 DEF Middle
<1>6. DOMAIN x = DOMAIN CoreInit
  BY <1>4 DEF SameFrame, CoreTypeOK
<1> HIDE DEF x, n
<1>7. /\ SameFrame(x, n)
      /\ n.prf = x.prf /\ n.prf_valid = x.prf_valid /\ n.rob = x.rob
      /\ n.dmem = x.dmem
      /\ DOMAIN n.rs = FuType
      /\ \A fu \in FuType : DOMAIN n.rs[fu] = DOMAIN x.rs[fu]
  BY <1>5, <1>6, WakeupFields
<1>8. SameFrame(c, n)
  BY <1>4, <1>7 DEF SameFrame
<1>9. CoreTypeOK(n)
  <2>1. /\ n.prf \in [Preg -> Int] /\ n.prf_valid \subseteq Preg
        /\ n.dmem \in [0 .. DMEM_WORDS - 1 -> Int]
    BY <1>4, <1>7 DEF CoreTypeOK
  <2>2. DOMAIN n.rob \subseteq Slot /\ \A i \in DOMAIN n.rob : n.rob[i] \in RobEntry
    BY <1>4, <1>7 DEF CoreTypeOK
  <2>3. \A fu \in FuType : DOMAIN n.rs[fu] \subseteq 0 .. RS_DEPTH - 1
    BY <1>4, <1>7 DEF CoreTypeOK
  <2> QED BY <1>4, <1>7, <1>8, <2>1, <2>2, <2>3, TypeFromFrame
<1>10. Idle(n)
  BY <1>4, <1>7, <1>8 DEF Idle, SameFrame, NoneWaiting, MappedIn, Accounted
<1> QED BY <1>2, <1>4, <1>7, <1>8, <1>9, <1>10 DEF n

\* The unit of the station that has an entry executes that entry.
LEMMA OnlyOneIssues ==
  ASSUME NEW c, NEW fu \in FuType, NEW at \in 0 .. RS_DEPTH - 1, WaitsAt(c, fu, at)
  PROVE  Issuing(c) = {fu} /\ IssueEntry(c, fu) = c.rs[fu][at] /\ IssueIdx(c, fu) = at
<1>1. /\ ReadyIdx(c, fu) = {at}
      /\ \A g \in FuType \ {fu} : ReadyIdx(c, g) = {}
  BY DEF ReadyIdx, WaitsAt
<1> QED BY <1>1 DEF Issuing, IssueIdx, IssueEntry

\* The registers after the writeback of the unit that issues.
WrittenPrf(c, fu) ==
  LET wb == WbPkt(c, fu)
  IN  IF Writes(wb) THEN [c.prf EXCEPT ![wb.prd] = wb.data] ELSE c.prf

(***************************************************************************)
(* The waiting instruction executes; if it redirects fetch, its checkpoint *)
(* is the present.                                                         *)
(***************************************************************************)
LEMMA MiddleExecuting ==
  ASSUME NEW c, CoreTypeOK(c), Executing(c)
  PROVE  /\ Middle(c).dmem = StoredMem(c)
         /\ \A fu \in Issuing(c) : Middle(c).prf = WrittenPrf(c, fu)
         /\ CoreTypeOK(Middle(c)) /\ Finished(Middle(c)) /\ SameFrame(c, Middle(c))
         /\ DOMAIN Middle(c).rob = DOMAIN c.rob
         /\ \A r \in Redirect(c) : r.pc \in Nat /\ r.tag = c.rob_head /\ Checkpoints(c)
<1>1. PICK fu \in FuType, at \in 0 .. RS_DEPTH - 1 : WaitsAt(c, fu, at)
  BY DEF Executing
<1> DEFINE e == c.rs[fu][at]
           x == Execute(c)
           wbs == WbPkts(c)
           wb == wbs[fu]
           y == WriteOne(x, wbs, fu)
           n == Middle(c)
<1>ops. Src1(c, e) \in Int /\ Src2(c, e) \in Int
  BY <1>1 DEF WaitsAt, CoreTypeOK, Src1, Src2
<1>3. Issuing(c) = {fu} /\ IssueIdx(c, fu) = at /\ IssueEntry(c, fu) = e
  BY <1>1, OnlyOneIssues
<1>4. \A r \in Redirect(c) : r.pc \in Nat /\ r.tag = c.rob_head /\ Checkpoints(c)
  <2>1. CASE fu = "BRU"
    <3>1. BruTarget(e.d, Src1(c, e)) \in Nat
      BY <1>1, <1>ops, TargetType DEF WaitsAt, DecodedOK
    <3> QED BY <1>1, <1>3, <2>1, <3>1 DEF Redirect, WaitsAt, BruTaken
  <2>2. CASE fu # "BRU"
    BY <1>3, <2>2 DEF Redirect
  <2> QED BY <2>1, <2>2
<1>5. /\ SameFrame(c, x)
      /\ x.prf = c.prf /\ x.prf_valid = c.prf_valid /\ x.rob = c.rob
      /\ x.dmem \in [0 .. DMEM_WORDS - 1 -> Int] /\ x.dmem = StoredMem(c)
      /\ DOMAIN x.rs = FuType
      /\ \A g \in FuType : DOMAIN x.rs[g] = {}
  <2>1. \A g \in FuType : DOMAIN c.rs[g] = IF g = fu THEN {at} ELSE {}
    BY <1>1 DEF WaitsAt
  <2>2. StoredMem(c) \in [0 .. DMEM_WORDS - 1 -> Int]
    <3>1. c.dmem \in [0 .. DMEM_WORDS - 1 -> Int]
      BY DEF CoreTypeOK
    <3>2. U32(Src1(c, e) + e.d.imm) \in Nat /\ e.d.ls_size \in {"B", "H", "W"}
      BY <1>ops, <1>1, U32Type DEF WaitsAt, DecodedOK
    <3>3. MemStore(c.dmem, U32(Src1(c, e) + e.d.imm), Src2(c, e), e.d.ls_size)
            \in [0 .. DMEM_WORDS - 1 -> Int]
      BY <1>ops, <3>1, <3>2, MemoryType, MemoryAssumption
    <3> HIDE DEF e
    <3> QED BY <1>3, <3>1, <3>3 DEF StoredMem
  <2> HIDE DEF x, e
  <2> QED BY <1>3, <2>1, <2>2, ExecuteFields DEF x
<1>6. DOMAIN wbs = {fu} /\ wb = WbPkt(c, fu)
  BY <1>3 DEF WbPkts
<1>7. /\ wb.rob_tag = c.rob_head
      /\ wb.rd_used = e.rd_used
      /\ e.rd_used => wb.prd = e.prd /\ wb.data \in Int
  <2>1. fu \in {"ALU", "BRU", "LSU"}
    BY DEF FuType
  <2>entry. e.rob_tag = c.rob_head /\ e.rd_used \in BOOLEAN /\ DecodedOK(e.d)
    BY <1>1 DEF WaitsAt
  <2>2. CASE fu = "ALU"
    <3>1. AluExec(e.d, Src1(c, e), Src2(c, e)) \in Int
      BY <1>ops, <2>entry, AluType DEF DecodedOK
    <3>2. wb = [rob_tag |-> e.rob_tag, prd |-> e.prd,
                data |-> AluExec(e.d, Src1(c, e), Src2(c, e)), rd_used |-> e.rd_used]
      BY <1>3, <1>6, <2>2 DEF WbPkt
    <3> HIDE DEF wb, e
    <3> QED BY <2>entry, <3>1, <3>2
  <2>3. CASE fu = "BRU"
    <3>1. (IF e.d.is_jump THEN e.d.pc + 4 ELSE 0) \in Int
      BY <2>entry DEF DecodedOK
    <3>2. wb = [rob_tag |-> e.rob_tag, prd |-> e.prd,
                data |-> IF e.d.is_jump THEN e.d.pc + 4 ELSE 0, rd_used |-> e.rd_used]
      BY <1>3, <1>6, <2>3 DEF WbPkt
    <3> HIDE DEF wb, e
    <3> QED BY <2>entry, <3>1, <3>2
  <2>4. CASE fu = "LSU" /\ e.d.is_load
    <3> DEFINE data == MemLoad(c.dmem, U32(Src1(c, e) + e.d.imm), e.d.ls_size, e.d.unsigned_load)
    <3>1. data \in Int
      <4>1. c.dmem \in [0 .. DMEM_WORDS - 1 -> Int]
        BY DEF CoreTypeOK
      <4>2. U32(Src1(c, e) + e.d.imm) \in Nat /\ e.d.ls_size \in {"B", "H", "W"}
        BY <1>ops, <2>entry, U32Type DEF DecodedOK
      <4> QED BY <4>1, <4>2, MemoryType, MemoryAssumption
    <3>2. wb = [rob_tag |-> e.rob_tag, prd |-> e.prd, data |-> data, rd_used |-> e.rd_used]
      BY <1>3, <1>6, <2>4 DEF WbPkt
    <3> HIDE DEF wb, e, data
    <3> QED BY <2>entry, <3>1, <3>2
  <2>5. CASE fu = "LSU" /\ ~e.d.is_load
    <3>1. e.rd_used = FALSE /\ e.rob_tag = c.rob_head
      BY <1>1, <2>5 DEF WaitsAt, DecodedOK
    <3>2. wb = [rob_tag |-> e.rob_tag, prd |-> 0, data |-> 0, rd_used |-> FALSE]
      BY <1>3, <1>6, <2>5 DEF WbPkt
    <3> HIDE DEF wb, e
    <3> QED BY <3>1, <3>2
  <2> QED BY <2>1, <2>2, <2>3, <2>4, <2>5
<1>8. Writeback(x, wbs) = y
  <2>1. \A z, g : g \notin DOMAIN wbs => WriteOne(z, wbs, g) = z
    BY DEF WriteOne
  <2> QED BY <1>6, <2>1 DEF Writeback, FuType
<1>9. n = Wakeup(y, wbs)
  BY <1>8 DEF Middle
<1>10. DOMAIN x = DOMAIN CoreInit
  BY <1>5 DEF SameFrame, CoreTypeOK
<1> HIDE DEF x, y, wbs, wb, n
<1>11. /\ SameFrame(x, y)
       /\ y.prf = IF Writes(wb) THEN [x.prf EXCEPT ![wb.prd] = wb.data] ELSE x.prf
       /\ y.prf_valid = x.prf_valid \cup (IF Writes(wb) THEN {wb.prd} ELSE {})
       /\ y.rob = MarkDone(x.rob, wb.rob_tag)
       /\ y.rs = x.rs /\ y.dmem = x.dmem
  <2>1. fu \in DOMAIN wbs
    BY <1>6
  <2> QED BY <1>10, <2>1, WriteOneFields, ZenonT(60) DEF y, wb
<1>12. DOMAIN y = DOMAIN CoreInit
  BY <1>10, <1>11 DEF SameFrame
<1>13. /\ SameFrame(y, n)
       /\ n.prf = y.prf /\ n.prf_valid = y.prf_valid /\ n.rob = y.rob
       /\ n.dmem = y.dmem
       /\ DOMAIN n.rs = FuType
       /\ \A g \in FuType : DOMAIN n.rs[g] = DOMAIN y.rs[g]
  BY <1>9, <1>12, WakeupFields
<1>14. SameFrame(c, n)
  BY <1>5, <1>11, <1>13 DEF SameFrame
<1>15. /\ DOMAIN n.rob = {c.rob_head}
       /\ n.rob[c.rob_head] = [c.rob[c.rob_head] EXCEPT !.done = TRUE]
  BY <1>5, <1>7, <1>11, <1>13 DEF MarkDone, Executing, Alone, HeadOf
<1>16. c.rob[c.rob_head] \in RobEntry /\ c.rob_head \in Slot
  BY DEF CoreTypeOK, Executing, Alone
<1>17. CoreTypeOK(n)
  <2>1. n.prf \in [Preg -> Int]
    <3>1. Writes(wb) => wb.data \in Int /\ wb.prd \in Preg
      BY <1>1, <1>7 DEF Writes, WaitsAt
    <3>2. c.prf \in [Preg -> Int]
      BY DEF CoreTypeOK
    <3>3. n.prf = IF Writes(wb) THEN [c.prf EXCEPT ![wb.prd] = wb.data] ELSE c.prf
      BY <1>5, <1>11, <1>13
    <3> QED BY <3>1, <3>2, <3>3
  <2>2. n.prf_valid \subseteq Preg
    BY <1>1, <1>5, <1>7, <1>11, <1>13 DEF CoreTypeOK, Writes, WaitsAt
  <2>3. n.rob[c.rob_head] \in RobEntry
    BY <1>15, <1>16 DEF RobEntry
  <2>4. \A g \in FuType : DOMAIN n.rs[g] \subseteq 0 .. RS_DEPTH - 1
    BY <1>5, <1>11, <1>13
  <2> QED BY <1>5, <1>11, <1>13, <1>14, <1>15, <1>16, <2>1, <2>2, <2>3, <2>4, TypeFromFrame
<1>18. Alone(n) /\ HeadOf(n).done
  <2>1. /\ HeadOf(n).done /\ HeadOf(n).tag = HeadOf(c).tag
        /\ HeadOf(n).rd_used = HeadOf(c).rd_used /\ HeadOf(n).old_prd = HeadOf(c).old_prd
    BY <1>14, <1>15, <1>16 DEF HeadOf, RobEntry, SameFrame
  <2>2. OldOf(n) = OldOf(c)
    BY <2>1 DEF OldOf
  <2>3. Accounted(n, OldOf(n))
    BY <1>14, <2>2 DEF Executing, Alone, Accounted, MappedIn, SameFrame
  <2> QED BY <1>14, <1>15, <2>1, <2>3 DEF Executing, Alone, SameFrame
<1>19. MappedIn(n) \subseteq n.prf_valid
  <2>1. MappedIn(n) = MappedIn(c)
    BY <1>14 DEF MappedIn, SameFrame
  <2> QED BY <1>1, <1>5, <1>7, <1>11, <1>13, <2>1 DEF WaitsAt, Writes
<1>20. NoneWaiting(n)
  BY <1>5, <1>11, <1>13 DEF NoneWaiting
<1>21. n.dmem = StoredMem(c) /\ \A g \in Issuing(c) : n.prf = WrittenPrf(c, g)
  BY <1>3, <1>5, <1>6, <1>11, <1>13 DEF WrittenPrf
<1> QED BY <1>4, <1>14, <1>15, <1>17, <1>18, <1>19, <1>20, <1>21
        DEF n, Finished, Executing, Alone
-----------------------------------------------------------------------------
(***************************************************************************)
(* Recovery from the checkpoint of an instruction that is alone.           *)
(***************************************************************************)
LEMMA RecoveryFinished ==
  ASSUME NEW c, CoreTypeOK(c), Finished(c),
         NEW rd, \A r \in rd : r.tag = c.rob_head /\ Checkpoints(c)
  PROVE  LET n == Recovery(c, rd)
         IN  /\ CoreTypeOK(n) /\ Finished(n)
             /\ n.rat = c.rat /\ n.free_map = c.free_map /\ DOMAIN n.rob = DOMAIN c.rob
             /\ n.rob_head = c.rob_head /\ n.rob_tail = c.rob_tail
             /\ n.commits = c.commits
             /\ n.prf = c.prf /\ n.dmem = c.dmem
<1>1. CASE rd = {}
  BY <1>1 DEF Recovery
<1>2. CASE rd # {}
  <2> DEFINE tag == (CHOOSE r \in rd : TRUE).tag
             ck == Checkpoint(c, tag)
             rob == Restrict(c.rob, DOMAIN c.rob \ SlotsBetween(ck.tail, c.rob_tail))
             rs == [fu \in FuType |-> NoEntries]
             n == Recovery(c, rd)
  <2>1. tag = c.rob_head /\ Checkpoints(c)
    BY <1>2
  <2>2. ck = [rat |-> c.rat, free_map |-> c.free_map, head |-> c.rob_head, tail |-> c.rob_tail]
    <3> HIDE DEF tag
    <3> QED BY <2>1 DEF Checkpoint, Checkpoints
  <2>3. n = [c EXCEPT !.rat = ck.rat, !.free_map = ck.free_map, !.rob = rob,
                      !.rob_head = ck.head, !.rob_tail = ck.tail, !.rs = rs]
    BY <1>2 DEF Recovery, Recover
  <2> HIDE DEF tag, ck
  <2>4. SlotsBetween(ck.tail, c.rob_tail) = {}
    <3>1. ck.tail = c.rob_tail /\ c.rob_tail \in Int
      BY <2>2 DEF CoreTypeOK, Slot
    <3>2. (c.rob_tail - c.rob_tail) % ROB_DEPTH = 0
      BY <3>1, DepthAssumption
    <3> QED BY <3>1, <3>2 DEF SlotsBetween
  <2>5. /\ DOMAIN rob = DOMAIN c.rob
        /\ \A i \in DOMAIN c.rob : rob[i] = c.rob[i]
    BY <2>4 DEF Restrict
  <2>6. DOMAIN rs = FuType /\ \A fu \in FuType : DOMAIN rs[fu] = {}
    BY DEF NoEntries
  <2> HIDE DEF rob, rs, n
  <2>7. /\ SameFrame(c, n)
        /\ n.prf = c.prf /\ n.prf_valid = c.prf_valid /\ n.dmem = c.dmem
        /\ n.rob = rob /\ n.rs = rs
    BY <2>2, <2>3, CoreFields DEF SameFrame, CoreTypeOK
  <2>8. CoreTypeOK(n)
    <3>1. /\ n.prf \in [Preg -> Int] /\ n.prf_valid \subseteq Preg
          /\ n.dmem \in [0 .. DMEM_WORDS - 1 -> Int]
      BY <2>7 DEF CoreTypeOK
    <3>2. DOMAIN n.rob \subseteq Slot /\ \A i \in DOMAIN n.rob : n.rob[i] \in RobEntry
      BY <2>5, <2>7 DEF CoreTypeOK
    <3>3. \A fu \in FuType : DOMAIN n.rs[fu] \subseteq 0 .. RS_DEPTH - 1
      BY <2>6, <2>7
    <3> QED BY <2>6, <2>7, <3>1, <3>2, <3>3, TypeFromFrame
  <2>9. DOMAIN n.rob = {n.rob_head} /\ HeadOf(n) = HeadOf(c)
    BY <2>5, <2>7 DEF HeadOf, SameFrame, Finished, Alone
  <2>10. Accounted(n, OldOf(n)) /\ MappedIn(n) = MappedIn(c)
    BY <2>7, <2>9 DEF Finished, Alone, Accounted, OldOf, MappedIn, SameFrame
  <2>11. Finished(n)
    BY <2>6, <2>7, <2>9, <2>10 DEF Finished, Alone, NoneWaiting, SameFrame
  <2> QED BY <2>5, <2>7, <2>8, <2>11 DEF n, SameFrame
<1> QED BY <1>1, <1>2
-----------------------------------------------------------------------------
(***************************************************************************)
(* Rename and dispatch.                                                    *)
(***************************************************************************)

(***************************************************************************)
(* While nothing is in flight there is a free register: the registers but  *)
(* x0 take up fewer than there are.                                        *)
(***************************************************************************)
LEMMA FreeRegister ==
  ASSUME NEW c, CoreTypeOK(c), Idle(c)
  PROVE  FreePregs(c) # {}
<1> SUFFICES ASSUME FreePregs(c) = {} PROVE FALSE
  OBVIOUS
<1> DEFINE S == Allocatable
           T == 1 .. N_ARCH_REGS - 1
           f == [p \in S |-> CHOOSE r \in T : c.rat[r] = p]
<1>1. IsFiniteSet(T) /\ Cardinality(T) = N_ARCH_REGS - 1
  <2>1. \A b \in Nat : IsFiniteSet(1 .. b) /\ Cardinality(1 .. b) = b
    BY FS_Interval
  <2>2. N_ARCH_REGS - 1 \in Nat
    BY ArchRegsAssumption
  <2> QED BY <2>1, <2>2, Zenon
<1>2. IsFiniteSet(S) /\ Cardinality(S) = N_PHYS_REGS - N_ARCH_REGS
  BY FS_Interval, ArchRegsAssumption, PhysRegsAssumption DEF Allocatable
<1>3. \A p \in S : \E r \in T : c.rat[r] = p
  <2>1. S \subseteq MappedIn(c)
    BY DEF Idle, Accounted, FreePregs
  <2>2. ASSUME NEW p \in S PROVE \E r \in T : c.rat[r] = p
    <3>1. PICK r \in Areg : c.rat[r] = p
      BY <2>1 DEF MappedIn
    <3>2. c.rat[0] = 0 /\ 0 \notin S
      BY ArchRegsAssumption DEF Idle, Accounted, Allocatable
    <3> QED BY <3>1, <3>2, ArchRegsAssumption DEF Areg
  <2> QED BY <2>2
<1>4. f \in [S -> T] /\ \A p \in S : c.rat[f[p]] = p
  BY <1>3
<1>5. Cardinality(T) < Cardinality(S)
  BY <1>1, <1>2, ArchRegsAssumption, PhysRegsAssumption
<1> HIDE DEF S, T, f
<1>6. PICK p, q \in S : p # q /\ f[p] = f[q]
  BY <1>1, <1>2, <1>4, <1>5, FS_PigeonHole
<1> QED BY <1>4, <1>6

LEMMA AllocateFree ==
  ASSUME NEW c, CoreTypeOK(c), Idle(c)
  PROVE  AllocatePreg(c) \in c.free_map \cap Allocatable
<1> DEFINE F == FreePregs(c)
<1>1. F # {} /\ F \subseteq Nat
  BY FreeRegister, ArchRegsAssumption, PhysRegsAssumption DEF FreePregs, Allocatable
<1>2. AllocatePreg(c) = CHOOSE p \in F : \A q \in F : p <= q
  BY DEF AllocatePreg
<1> HIDE DEF F
<1>3. \E p \in F : \A q \in F : p <= q
  BY <1>1, LeastElement, Zenon
<1>4. AllocatePreg(c) \in F
  BY <1>2, <1>3
<1> QED BY <1>4 DEF F, FreePregs

\* d has been taken: it is in its station and in the ROB.
TakenIn(c, d) ==
  \E i \in DOMAIN c.rs[d.fu_type] :
     c.rs[d.fu_type][i].d = d /\ c.rs[d.fu_type][i].rob_tag \in DOMAIN c.rob

\* How: the core c becomes n, in which d waits with c's registers for operands.
TakenAs(c, n, d) ==
  LET e == n.rs[d.fu_type][0]
  IN  /\ WaitsAt(n, d.fu_type, 0)
      /\ e.d = d /\ e.rd_used = NeedAlloc(d)
      /\ e.rd_used => e.prd = n.rat[d.rd] /\ HeadOf(n).rd_used
      /\ e.prs1 = c.rat[d.rs1] /\ e.prs2 = c.rat[d.rs2]
      /\ \A r \in Areg : SourceReg(n, e, r) = c.rat[r]
      /\ n.prf = c.prf /\ n.dmem = c.dmem

\* An idle core takes an instruction, which can execute at once.
LEMMA DispatchIdle ==
  ASSUME NEW c, CoreTypeOK(c), Idle(c), NEW d, DecodedOK(d)
  PROVE  /\ Accepts(c, d)
         /\ CoreTypeOK(Dispatch(c, d)) /\ Executing(Dispatch(c, d))
         /\ Dispatch(c, d).commits = c.commits
         /\ TakenIn(Dispatch(c, d), d)
         /\ TakenAs(c, Dispatch(c, d), d)
<1> DEFINE need == NeedAlloc(d)
           prd == IF need THEN AllocatePreg(c) ELSE 0
           tag == c.rob_tail
           old == IF need THEN c.rat[d.rd] ELSE 0
           entry == [tag |-> tag, done |-> FALSE, rd_used |-> need, old_prd |-> old]
           rat == IF need THEN [c.rat EXCEPT ![d.rd] = prd] ELSE c.rat
           free == IF need THEN c.free_map \ {prd} ELSE c.free_map
           valid == IF need THEN c.prf_valid \ {prd} ELSE c.prf_valid
           rob == [i \in DOMAIN c.rob \cup {tag} |-> IF i = tag THEN entry ELSE c.rob[i]]
           ckpt == Checkpointed(c, d, tag, rat, free)
           e == Renamed(c, d, prd)
           rs == [c.rs EXCEPT ![d.fu_type] = Inserted(@, e)]
           n == Dispatch(c, d)
<1>1. Accepts(c, d)
  BY FreeRegister, DepthAssumption DEF Accepts, Idle
<1>2. n = [c EXCEPT !.rat = rat, !.free_map = free, !.prf_valid = valid, !.rob = rob,
                    !.rob_tail = IncSlot(tag), !.rob_count = @ + 1, !.ckpt = ckpt, !.rs = rs]
  BY DEF Dispatch
<1>3. /\ need \in BOOLEAN /\ (need => d.rd_used /\ d.rd # 0)
      /\ d.rd \in Areg /\ d.rs1 \in Areg /\ d.rs2 \in Areg /\ d.fu_type \in FuType
      /\ (d.fu_type = "LSU" /\ ~d.is_load => ~d.rd_used)
  BY DEF DecodedOK, NeedAlloc
<1>4. need => prd \in c.free_map \cap Allocatable
  BY AllocateFree
<1>5. Allocatable \subseteq Preg \ {0} /\ 0 \in Preg
  BY ArchRegsAssumption, PhysRegsAssumption DEF Allocatable, Preg
<1>6. /\ c.rat \in [Areg -> Preg] /\ c.free_map \subseteq Preg /\ c.prf_valid \subseteq Preg
      /\ tag \in Slot /\ c.rob_head = tag /\ DOMAIN c.rob = {} /\ c.rob_count = 0
      /\ MappedIn(c) \subseteq c.prf_valid /\ Accounted(c, {})
      /\ DOMAIN c.rs = FuType /\ \A fu \in FuType : DOMAIN c.rs[fu] = {}
      /\ c.commits \in Nat
  BY DEF CoreTypeOK, Idle, NoneWaiting
<1>7. rob = [i \in {tag} |-> entry]
  BY <1>6
<1>8. DOMAIN rs[d.fu_type] = {0} /\ rs[d.fu_type][0] = e
  <2>1. Inserted(c.rs[d.fu_type], e) =
          LET at == CHOOSE i \in 0 .. RS_DEPTH - 1 : \A j \in 0 .. RS_DEPTH - 1 : i <= j
          IN  [i \in {at} |-> IF i = at THEN e ELSE c.rs[d.fu_type][i]]
    BY <1>3, <1>6, DepthAssumption DEF Inserted
  <2>2. (CHOOSE i \in 0 .. RS_DEPTH - 1 : \A j \in 0 .. RS_DEPTH - 1 : i <= j) = 0
    BY DepthAssumption
  <2> HIDE DEF e
  <2>3. Inserted(c.rs[d.fu_type], e) = [i \in {0} |-> IF i = 0 THEN e ELSE c.rs[d.fu_type][i]]
    BY <2>1, <2>2
  <2>4. rs[d.fu_type] = Inserted(c.rs[d.fu_type], e)
    BY <1>3, <1>6
  <2> QED BY <2>3, <2>4
<1>9. DOMAIN rs = FuType /\ \A g \in FuType \ {d.fu_type} : DOMAIN rs[g] = {}
  BY <1>6
<1>10. rat \in [Areg -> Preg] /\ free \subseteq Preg /\ old \in Preg
  BY <1>3, <1>4, <1>5, <1>6
<1>11. entry \in RobEntry
  BY <1>3, <1>6, <1>10 DEF RobEntry
<1>12. IncSlot(tag) \in Slot
  BY <1>6, DepthAssumption DEF Slot, IncSlot
<1>13. /\ DOMAIN ckpt \subseteq Slot
       /\ \A t \in DOMAIN ckpt : ckpt[t] \in Snapshot
       /\ d.is_branch \/ d.is_jump =>
            /\ tag \in DOMAIN ckpt
            /\ ckpt[tag] = [rat |-> rat, free_map |-> free,
                            head |-> tag, tail |-> IncSlot(tag)]
  <2> DEFINE snap == [rat |-> rat, free_map |-> free, head |-> c.rob_head, tail |-> IncSlot(tag)]
  <2>1. snap \in Snapshot
    BY <1>6, <1>10, <1>12 DEF Snapshot
  <2>2. DOMAIN c.ckpt \subseteq Slot /\ \A t \in DOMAIN c.ckpt : c.ckpt[t] \in Snapshot
    BY DEF CoreTypeOK
  <2>3. CASE d.is_branch \/ d.is_jump
    <3>1. ckpt = [t \in DOMAIN c.ckpt \cup {tag} |-> IF t = tag THEN snap ELSE c.ckpt[t]]
      BY <2>3 DEF Checkpointed
    <3> HIDE DEF ckpt, rat, free
    <3> QED BY <1>6, <2>1, <2>2, <3>1
  <2>4. CASE ~(d.is_branch \/ d.is_jump)
    <3>1. ckpt = c.ckpt
      BY <2>4 DEF Checkpointed
    <3> HIDE DEF ckpt, rat, free
    <3> QED BY <2>2, <2>4, <3>1
  <2> QED BY <2>3, <2>4
<1>14. /\ e.ready /\ e.rob_tag = tag /\ e.rd_used = need /\ e.prd = prd /\ e.d = d
       /\ e.prs1 \in Preg /\ e.prs2 \in Preg
      /\ e.prs1 = c.rat[d.rs1] /\ e.prs2 = c.rat[d.rs2]
  <2>1. c.rat[d.rs1] \in valid /\ c.rat[d.rs2] \in valid
    <3>1. c.rat[d.rs1] \in MappedIn(c) /\ c.rat[d.rs2] \in MappedIn(c)
      BY <1>3 DEF MappedIn
    <3>2. need => prd \notin MappedIn(c)
      BY <1>4, <1>6 DEF Accounted
    <3> QED BY <1>6, <3>1, <3>2
  <2> QED BY <1>3, <1>6, <2>1 DEF Renamed
<1> HIDE DEF prd, entry, rat, free, valid, rob, ckpt, e, rs, n
<1>15. /\ DOMAIN n = DOMAIN c
       /\ n.rat = rat /\ n.free_map = free /\ n.prf = c.prf /\ n.prf_valid = valid
       /\ n.rob = rob /\ n.rob_head = tag /\ n.rob_tail = IncSlot(tag)
       /\ n.rob_count = 1 /\ n.rs = rs /\ n.dmem = c.dmem /\ n.ckpt = ckpt
       /\ n.commits = c.commits
  BY <1>2, <1>6, CoreFields DEF CoreTypeOK
<1>16. CoreTypeOK(n)
  <2>1. DOMAIN n = DOMAIN CoreInit /\ n.prf \in [Preg -> Int]
        /\ n.dmem \in [0 .. DMEM_WORDS - 1 -> Int]
    BY <1>15 DEF CoreTypeOK
  <2>2. n.rat \in [Areg -> Preg] /\ n.free_map \subseteq Preg /\ n.prf_valid \subseteq Preg
    BY <1>6, <1>10, <1>15 DEF valid
  <2>3. DOMAIN n.rob \subseteq Slot /\ \A i \in DOMAIN n.rob : n.rob[i] \in RobEntry
    BY <1>6, <1>7, <1>11, <1>15
  <2>4. n.rob_head \in Slot /\ n.rob_tail \in Slot /\ n.rob_count \in Nat /\ n.commits \in Nat
    BY <1>6, <1>12, <1>15
  <2>5. DOMAIN n.rs = FuType /\ \A fu \in FuType : DOMAIN n.rs[fu] \subseteq 0 .. RS_DEPTH - 1
    BY <1>8, <1>9, <1>15, DepthAssumption
  <2>6. DOMAIN n.ckpt \subseteq Slot /\ \A t \in DOMAIN n.ckpt : n.ckpt[t] \in Snapshot
    BY <1>13, <1>15
  <2> QED BY <2>1, <2>2, <2>3, <2>4, <2>5, <2>6, Zenon DEF CoreTypeOK
<1>17. HeadOf(n) = entry /\ DOMAIN n.rob = {tag}
  BY <1>7, <1>15 DEF HeadOf
<1>18. Accounted(n, OldOf(n)) /\ MappedIn(n) \subseteq valid \cup (IF need THEN {prd} ELSE {})
  <2>1. CASE need
    <3>1. n.rat = [c.rat EXCEPT ![d.rd] = prd] /\ n.free_map = c.free_map \ {prd}
      BY <1>15, <2>1 DEF rat, free
    <3>2. OldOf(n) = {c.rat[d.rd]}
      BY <1>17, <2>1 DEF OldOf, entry
    <3>3. prd \in c.free_map /\ prd \notin MappedIn(c) /\ c.rat[d.rd] \in MappedIn(c)
      BY <1>3, <1>4, <1>6, <2>1 DEF Accounted, MappedIn
    <3>4. MappedIn(n) = (MappedIn(c) \ {c.rat[d.rd]}) \cup {prd}
      BY <1>3, <1>6, <3>1 DEF MappedIn, Accounted
    <3>5. \A r, s \in Areg : n.rat[r] = n.rat[s] => r = s
      BY <1>6, <3>1, <3>3 DEF MappedIn, Accounted
    <3>6. n.rat[0] = 0
      BY <1>3, <1>6, <2>1, <3>1, ArchRegsAssumption DEF Accounted, Areg
    <3>7. /\ n.free_map \cap MappedIn(n) = {} /\ n.free_map \cap OldOf(n) = {}
          /\ MappedIn(n) \cap OldOf(n) = {}
          /\ Allocatable \subseteq n.free_map \cup MappedIn(n) \cup OldOf(n)
      BY <1>6, <3>1, <3>2, <3>3, <3>4 DEF Accounted
    <3>8. MappedIn(n) \subseteq valid \cup {prd}
      BY <1>6, <2>1, <3>4 DEF valid
    <3> QED BY <2>1, <3>5, <3>6, <3>7, <3>8 DEF Accounted
  <2>2. CASE ~need
    <3>1. n.rat = c.rat /\ n.free_map = c.free_map /\ valid = c.prf_valid
      BY <1>15, <2>2 DEF rat, free, valid
    <3>2. OldOf(n) = {}
      BY <1>17, <2>2 DEF OldOf, entry
    <3> QED BY <1>6, <2>2, <3>1, <3>2 DEF Accounted, MappedIn
  <2> QED BY <2>1, <2>2
<1>19. Alone(n) /\ ~HeadOf(n).done
  BY <1>15, <1>17, <1>18 DEF Alone, entry
<1>20. WaitsAt(n, d.fu_type, 0)
  <2>1. n.rs[d.fu_type][0] = e /\ DOMAIN n.rs[d.fu_type] = {0}
        /\ \A g \in FuType \ {d.fu_type} : DOMAIN n.rs[g] = {}
    BY <1>8, <1>9, <1>15
  <2>2. e.rd_used => e.prd \in Preg \ {0} /\ MappedIn(n) \subseteq n.prf_valid \cup {e.prd}
    BY <1>4, <1>5, <1>14, <1>15, <1>18
  <2>3. ~e.rd_used => MappedIn(n) \subseteq n.prf_valid
    BY <1>14, <1>15, <1>18
  <2>4. /\ DecodedOK(e.d) /\ e.d.fu_type = d.fu_type /\ (e.rd_used => e.d.rd_used)
        /\ e.prs1 \in Preg /\ e.prs2 \in Preg
    BY <1>3, <1>14
  <2>5. d.fu_type = "BRU" /\ (e.d.is_jump \/ e.d.is_branch) => Checkpoints(n)
    BY <1>13, <1>14, <1>15 DEF Checkpoints
  <2>6. e.ready /\ e.rob_tag = n.rob_head /\ e.rd_used \in BOOLEAN
    BY <1>3, <1>14, <1>15
  <2> QED BY <2>1, <2>2, <2>3, <2>4, <2>5, <2>6 DEF WaitsAt
<1>21. Executing(n)
  BY <1>3, <1>19, <1>20, DepthAssumption DEF Executing
<1>22. TakenIn(n, d)
  BY <1>8, <1>14, <1>15, <1>17 DEF TakenIn
<1>23. TakenAs(c, n, d)
  <2>1. n.rs[d.fu_type][0] = e
    BY <1>8, <1>15
  <2>2. HeadOf(n).rd_used = need /\ HeadOf(n).old_prd = old
    BY <1>17 DEF entry
  <2>3. e.rd_used => e.prd = n.rat[d.rd] /\ HeadOf(n).rd_used
    BY <1>3, <1>6, <1>14, <1>15, <2>2 DEF rat
  <2>4. ASSUME NEW r \in Areg PROVE SourceReg(n, e, r) = c.rat[r]
    BY <1>3, <1>6, <1>14, <1>15, <2>2 DEF SourceReg, rat
  <2> QED BY <1>14, <1>15, <1>20, <2>1, <2>3, <2>4 DEF TakenAs
<1> QED BY <1>1, <1>15, <1>16, <1>21, <1>22, <1>23 DEF n
-----------------------------------------------------------------------------
(***************************************************************************)
(* A tick.                                                                 *)
(***************************************************************************)

\* What a tick makes of a core after its commit.
AfterCommit(c, f) == Decode(Recovery(Middle(c), Redirect(c)), f, Redirect(c))

\* An idle core stays idle, or takes the instruction fetch has.
LEMMA FromIdle ==
  ASSUME NEW c, CoreTypeOK(c), Idle(c),
         NEW f, f.pc \in Nat, f.instr \in Insn
  PROVE  LET n == AfterCommit(c, f)
         IN  /\ Redirect(c) = {}
             /\ CoreTypeOK(n) /\ n.commits = c.commits
             /\ f.state = "HAVE" => /\ Executing(n)
                                    /\ TakenIn(n, DecodeInstr(f.pc, f.instr))
                                    /\ TakenAs(c, n, DecodeInstr(f.pc, f.instr))
             /\ f.state # "HAVE" => /\ Idle(n)
                                    /\ n.rat = c.rat /\ n.prf = c.prf /\ n.dmem = c.dmem
<1> DEFINE m == Middle(c)
           d == DecodeInstr(f.pc, f.instr)
           n == AfterCommit(c, f)
<1>1. /\ Redirect(c) = {} /\ CoreTypeOK(m) /\ Idle(m) /\ m.commits = c.commits
      /\ m.rat = c.rat /\ m.prf = c.prf /\ m.dmem = c.dmem
  BY MiddleIdle DEF SameFrame
<1>2. n = Decode(m, f, {})
  BY <1>1 DEF AfterCommit, Recovery
<1>3. DecodedOK(d)
  BY DecodeShape
<1> HIDE DEF m, d
<1>4. Accepts(m, d) /\ CoreTypeOK(Dispatch(m, d)) /\ Executing(Dispatch(m, d))
      /\ Dispatch(m, d).commits = m.commits /\ TakenIn(Dispatch(m, d), d)
      /\ TakenAs(c, Dispatch(m, d), d)
  BY <1>1, <1>3, DispatchIdle DEF TakenAs
<1>5. n = IF f.state = "HAVE" THEN Dispatch(m, d) ELSE m
  BY <1>2, <1>4 DEF Decode, d
<1> HIDE DEF n
<1>6. CASE f.state = "HAVE"
  BY <1>1, <1>4, <1>5, <1>6 DEF n, d
<1>7. CASE f.state # "HAVE"
  BY <1>1, <1>5, <1>7 DEF n
<1> QED BY <1>6, <1>7

\* The instruction in an executing core is finished; a redirection finds its checkpoint.
LEMMA FromExecuting ==
  ASSUME NEW c, CoreTypeOK(c), Executing(c), NEW f, f.state = "REQ"
  PROVE  LET n == AfterCommit(c, f)
         IN  /\ CoreTypeOK(n) /\ Finished(n) /\ n.commits = c.commits
             /\ n.rat = c.rat /\ n.free_map = c.free_map /\ DOMAIN n.rob = DOMAIN c.rob
             /\ n.rob_head = c.rob_head /\ n.rob_tail = c.rob_tail
             /\ n.dmem = StoredMem(c)
             /\ \A fu \in Issuing(c) : n.prf = WrittenPrf(c, fu)
             /\ \A r \in Redirect(c) : r.pc \in Nat
<1> DEFINE m == Middle(c)
           rd == Redirect(c)
           n == AfterCommit(c, f)
<1>1. /\ CoreTypeOK(m) /\ Finished(m) /\ SameFrame(c, m) /\ DOMAIN m.rob = DOMAIN c.rob
      /\ m.dmem = StoredMem(c) /\ \A fu \in Issuing(c) : m.prf = WrittenPrf(c, fu)
      /\ \A r \in rd : r.pc \in Nat /\ r.tag = c.rob_head /\ Checkpoints(c)
  BY MiddleExecuting
<1>2. n = Recovery(m, rd)
  BY DEF AfterCommit, Decode
<1> HIDE DEF m, rd
<1>3. \A r \in rd : r.tag = m.rob_head /\ Checkpoints(m)
  BY <1>1 DEF SameFrame, Checkpoints
<1>4. /\ CoreTypeOK(n) /\ Finished(n)
      /\ n.rat = m.rat /\ n.free_map = m.free_map /\ DOMAIN n.rob = DOMAIN m.rob
      /\ n.rob_head = m.rob_head /\ n.rob_tail = m.rob_tail
      /\ n.commits = m.commits
      /\ n.prf = m.prf /\ n.dmem = m.dmem
  BY <1>1, <1>2, <1>3, RecoveryFinished
<1> QED BY <1>1, <1>4 DEF SameFrame, rd

FetchOK(f) ==
  /\ DOMAIN f = DOMAIN FetchInit
  /\ f.state \in {"IDLE", "REQ", "HAVE"} /\ f.pc \in Nat /\ f.instr \in Insn

LEMMA FetchStep ==
  ASSUME NEW f, FetchOK(f), NEW mem \in [0 .. ICACHE_WORDS - 1 -> Insn],
         NEW rd, \A r \in rd : r.pc \in Nat
  PROVE  LET n == FetchTick(f, mem, rd)
         IN  /\ FetchOK(n)
             /\ rd # {} => n.state = "IDLE" /\ n.pc = (CHOOSE r \in rd : TRUE).pc
             /\ rd = {} /\ f.state = "IDLE" => n.state = "REQ" /\ n.pc = f.pc
             /\ rd = {} /\ f.state = "REQ" => /\ n.state = "HAVE" /\ n.pc = f.pc
                                              /\ n.instr = ICacheWord(mem, f.pc)
             /\ rd = {} /\ f.state = "HAVE" => n.state = "REQ" /\ n.pc = f.pc + 4
<1> DEFINE n == FetchTick(f, mem, rd)
<1>1. DOMAIN f = {"state", "pc", "instr"}
  BY DEF FetchOK, FetchInit
<1>2. CASE rd # {}
  <2> DEFINE pc == (CHOOSE r \in rd : TRUE).pc
  <2>1. n = [f EXCEPT !.state = "IDLE", !.pc = pc]
    BY <1>2 DEF FetchTick
  <2>2. pc \in Nat
    BY <1>2
  <2> HIDE DEF n, pc
  <2>3. DOMAIN n = DOMAIN f /\ n.state = "IDLE" /\ n.pc = pc /\ n.instr = f.instr
    BY <1>1, <2>1
  <2> QED BY <1>2, <2>2, <2>3 DEF n, pc, FetchOK
<1>3. CASE rd = {} /\ f.state = "IDLE"
  <2>1. n = [f EXCEPT !.state = "REQ"]
    BY <1>3 DEF FetchTick
  <2> HIDE DEF n
  <2>2. DOMAIN n = DOMAIN f /\ n.state = "REQ" /\ n.pc = f.pc /\ n.instr = f.instr
    BY <1>1, <2>1
  <2> QED BY <1>3, <2>2 DEF n, FetchOK
<1>4. CASE rd = {} /\ f.state = "REQ"
  <2> DEFINE instr == ICacheWord(mem, f.pc)
  <2>1. n = [f EXCEPT !.instr = instr, !.state = "HAVE"]
    BY <1>4 DEF FetchTick
  <2>2. instr \in Insn
    <3>1. f.pc \div 4 \in Nat
      BY DEF FetchOK
    <3> QED BY <3>1, MemoryAssumption DEF ICacheWord
  <2> HIDE DEF n, instr
  <2>3. DOMAIN n = DOMAIN f /\ n.state = "HAVE" /\ n.pc = f.pc /\ n.instr = instr
    BY <1>1, <2>1
  <2> QED BY <1>4, <2>2, <2>3 DEF n, instr, FetchOK
<1>5. CASE rd = {} /\ f.state = "HAVE"
  <2>1. n = [f EXCEPT !.pc = @ + 4, !.state = "REQ"]
    BY <1>5 DEF FetchTick
  <2> HIDE DEF n
  <2>2. DOMAIN n = DOMAIN f /\ n.state = "REQ" /\ n.pc = f.pc + 4 /\ n.instr = f.instr
    BY <1>1, <2>1
  <2> QED BY <1>5, <2>2 DEF n, FetchOK
<1> QED BY <1>2, <1>3, <1>4, <1>5 DEF FetchOK
-----------------------------------------------------------------------------
(***************************************************************************)
(* The inductive invariant, and what follows from it.                      *)
(***************************************************************************)
LEMMA InitPhase == Init => IInv
<1> SUFFICES ASSUME Init PROVE IInv
  OBVIOUS
<1>1. /\ CoreInit.rat = [r \in Areg |-> r] /\ CoreInit.free_map = Allocatable
      /\ CoreInit.prf = [p \in Preg |-> 0] /\ CoreInit.prf_valid = Preg
      /\ CoreInit.rob = NoEntries /\ CoreInit.rob_head = 0 /\ CoreInit.rob_tail = 0
      /\ CoreInit.rob_count = 0 /\ CoreInit.rs = [fu \in FuType |-> NoEntries]
      /\ CoreInit.dmem = [w \in 0 .. DMEM_WORDS - 1 |-> 0] /\ CoreInit.ckpt = NoEntries
      /\ CoreInit.commits = 0
  BY DEF CoreInit, ResetRat
<1>2. Areg \subseteq Preg /\ 0 \in Areg /\ Areg \cap Allocatable = {}
      /\ Allocatable \subseteq Preg /\ 0 \in Slot
  BY ArchRegsAssumption, PhysRegsAssumption, DepthAssumption
  DEF Areg, Preg, Allocatable, Slot
<1>3. DOMAIN NoEntries = {}
  BY DEF NoEntries
<1>4. MappedIn(CoreInit) = Areg
  BY <1>1 DEF MappedIn
<1>5. CoreTypeOK(CoreInit)
  BY <1>1, <1>2, <1>3 DEF CoreTypeOK
<1>6. Idle(CoreInit)
  BY <1>1, <1>2, <1>3, <1>4 DEF Idle, NoneWaiting, Accounted
<1>7. FetchOK(fetch) /\ fetch.state = "IDLE"
  <2>1. Nop \in Insn
    BY DEF Nop, Insn, Field5, Field7
  <2> QED BY <2>1 DEF Init, FetchOK, FetchInit
<1>8. imem \in [0 .. ICACHE_WORDS - 1 -> Insn]
  <2>1. PICK p \in Programs : imem = Load(p)
    BY DEF Init
  <2>2. p \in Seq(Insn)
    BY ProgramsAssumption
  <2>3. \A w \in 0 .. ICACHE_WORDS - 1 : w < Len(p) => p[w + 1] \in Insn
    BY <2>2
  <2>4. Nop \in Insn
    BY DEF Nop, Insn, Field5, Field7
  <2> QED BY <2>1, <2>3, <2>4 DEF Load
<1>9. TypeOK
  BY <1>5, <1>7, <1>8 DEF Init, TypeOK, FetchOK
<1>10. Phase
  BY <1>1, <1>6, <1>7 DEF Init, Phase
<1> QED BY <1>9, <1>10 DEF IInv

\* What NothingDropped and RecoveryUndoesNothing say of a step.
TakesNext ==
  fetch.state = "HAVE" /\ fetch'.state = "REQ" => Taken(DecodeInstr(fetch.pc, fetch.instr))

UndoesNothing ==
  Redirect(core) # {} =>
    /\ core'.rat = core.rat
    /\ core'.free_map = core.free_map
    /\ DOMAIN core'.rob = DOMAIN core.rob
    /\ core'.rob_head = core.rob_head /\ core'.rob_tail = core.rob_tail

LEMMA TickPhase == IInv /\ Next => IInv' /\ TakesNext /\ UndoesNothing
<1> SUFFICES ASSUME IInv, Next PROVE IInv' /\ TakesNext /\ UndoesNothing
  OBVIOUS
<1> DEFINE c == Commit(core)
<1>1. /\ core' = AfterCommit(c, fetch)
      /\ fetch' = FetchTick(fetch, imem, Redirect(c))
      /\ cycle' = cycle + 1 /\ imem' = imem
  BY DEF Next, Tick, AfterCommit, Middle
<1>2. /\ CoreTypeOK(core) /\ FetchOK(fetch)
      /\ imem \in [0 .. ICACHE_WORDS - 1 -> Insn] /\ cycle \in Nat /\ core.commits \in Nat
  BY DEF IInv, TypeOK, FetchOK, CoreTypeOK
<1>3. fetch.pc \in Nat /\ fetch.instr \in Insn
  BY <1>2 DEF FetchOK
<1>4. ASSUME CoreTypeOK(core'), FetchOK(fetch') PROVE TypeOK'
  BY <1>1, <1>2, <1>4 DEF TypeOK, FetchOK
\* From a core that is idle once it has committed.
<1>5. ASSUME CoreTypeOK(c), Idle(c), Redirect(core) = {},
             fetch.state = "IDLE" => cycle <= 4 * c.commits,
             fetch.state = "REQ" => cycle <= 4 * c.commits + 1,
             fetch.state = "HAVE" => cycle <= 4 * c.commits + 2
      PROVE  IInv' /\ TakesNext /\ UndoesNothing
  <2> HIDE DEF c
  <2>1. /\ Redirect(c) = {}
        /\ CoreTypeOK(core') /\ core'.commits = c.commits
        /\ fetch.state = "HAVE" =>
             Executing(core') /\ TakenIn(core', DecodeInstr(fetch.pc, fetch.instr))
        /\ fetch.state # "HAVE" => Idle(core')
    BY <1>1, <1>3, <1>5, FromIdle
  <2>2. /\ FetchOK(fetch')
        /\ fetch.state = "IDLE" => fetch'.state = "REQ"
        /\ fetch.state = "REQ" => fetch'.state = "HAVE"
        /\ fetch.state = "HAVE" => fetch'.state = "REQ"
    <3>1. fetch' = FetchTick(fetch, imem, {})
      BY <1>1, <2>1
    <3> QED BY <1>2, <3>1, FetchStep, ZenonT(60)
  <2>3. c.commits \in Nat
    BY <1>5 DEF CoreTypeOK
  <2>4. Phase'
    <3>1. fetch.state \in {"IDLE", "REQ", "HAVE"}
      BY <1>2 DEF FetchOK
    <3>2. CASE fetch.state = "IDLE"
      BY <1>1, <1>2, <1>5, <2>1, <2>2, <2>3, <3>2 DEF Phase
    <3>3. CASE fetch.state = "REQ"
      BY <1>1, <1>2, <1>5, <2>1, <2>2, <2>3, <3>3 DEF Phase
    <3>4. CASE fetch.state = "HAVE"
      BY <1>1, <1>2, <1>5, <2>1, <2>2, <2>3, <3>4 DEF Phase
    <3> QED BY <3>1, <3>2, <3>3, <3>4
  <2>5. TakesNext
    BY <2>1 DEF TakesNext, TakenIn, Taken
  <2>6. UndoesNothing
    BY <1>5 DEF UndoesNothing
  <2> QED BY <1>4, <2>1, <2>2, <2>4, <2>5, <2>6 DEF IInv
<1>6. CASE Idle(core)
  <2>1. c = core
    BY <1>2, <1>6, NoCommit
  <2>2. Redirect(core) = {}
    BY <1>2, <1>6, MiddleIdle
  <2>3. ~Alone(core)
    BY <1>6 DEF Idle, Alone
  <2>4. /\ fetch.state = "IDLE" => cycle <= 4 * core.commits
        /\ fetch.state = "REQ" => cycle <= 4 * core.commits + 1
        /\ fetch.state = "HAVE" => cycle <= 4 * core.commits + 2
    BY <1>2, <2>3 DEF IInv, Phase, Executing, Finished
  <2> QED BY <1>2, <1>5, <1>6, <2>1, <2>2, <2>4
<1>7. CASE Finished(core) /\ fetch.state \in {"IDLE", "HAVE"} /\ cycle <= 4 * core.commits + 4
  <2>1. CoreTypeOK(c) /\ Idle(c) /\ c.commits = core.commits + 1
    BY <1>2, <1>7, CommitFinished
  <2>2. Redirect(core) = {}
    BY <1>7 DEF Finished, NoneWaiting, Redirect, Issuing, ReadyIdx
  <2> HIDE DEF c
  <2>3. /\ fetch.state = "IDLE" => cycle <= 4 * c.commits
        /\ fetch.state = "REQ" => cycle <= 4 * c.commits + 1
        /\ fetch.state = "HAVE" => cycle <= 4 * c.commits + 2
    BY <1>2, <1>7, <2>1
  <2> QED BY <1>5, <2>1, <2>2, <2>3
<1>8. CASE Executing(core) /\ fetch.state = "REQ" /\ cycle <= 4 * core.commits + 3
  <2>1. c = core
    BY <1>2, <1>8, NoCommit
  <2> HIDE DEF c
  <2>2. /\ CoreTypeOK(core') /\ Finished(core') /\ core'.commits = core.commits
        /\ core'.rat = core.rat /\ core'.free_map = core.free_map
        /\ DOMAIN core'.rob = DOMAIN core.rob
        /\ core'.rob_head = core.rob_head /\ core'.rob_tail = core.rob_tail
        /\ \A r \in Redirect(core) : r.pc \in Nat
    BY <1>1, <1>2, <1>8, <2>1, FromExecuting
  <2>3. FetchOK(fetch') /\ fetch'.state \in {"IDLE", "HAVE"}
    BY <1>1, <1>2, <1>8, <2>1, <2>2, FetchStep
  <2>4. Phase'
    BY <1>1, <1>2, <1>8, <2>2, <2>3 DEF Phase
  <2> QED BY <1>4, <1>8, <2>2, <2>3, <2>4 DEF IInv, TakesNext, UndoesNothing
<1> QED BY <1>6, <1>7, <1>8 DEF IInv, Phase

LEMMA StutterPhase == IInv /\ UNCHANGED vars => IInv'
  BY DEF IInv, TypeOK, Phase, vars

LEMMA SpecPhase == Spec => []IInv
  BY InitPhase, TickPhase, StutterPhase, PTL DEF Spec

LEMMA PhaseOneInFlight == IInv => OneInFlight
<1> SUFFICES ASSUME IInv PROVE OneInFlight
  OBVIOUS
<1>1. CASE Idle(core)
  <2>1. Undone = {} /\ Waiting = {}
    BY <1>1 DEF Idle, NoneWaiting, Undone, Waiting
  <2> QED BY <1>1, <2>1 DEF Idle, NoneWaiting, OneInFlight
<1>2. CASE Executing(core)
  <2>1. PICK fu \in FuType, at \in 0 .. RS_DEPTH - 1 : WaitsAt(core, fu, at)
    BY <1>2 DEF Executing
  <2>2. Undone = {core.rob_head}
    BY <1>2 DEF Executing, Alone, HeadOf, Undone
  <2>3. \A g \in FuType : DOMAIN core.rs[g] = IF g = fu THEN {at} ELSE {}
    BY <2>1 DEF WaitsAt
  <2>4. Waiting = {<<fu, at>>}
    BY <2>3 DEF Waiting
  <2>5. \A g \in FuType : \A i \in DOMAIN core.rs[g] :
           core.rs[g][i].ready /\ core.rs[g][i].rob_tag \in Undone
    BY <2>1, <2>2, <2>3 DEF WaitsAt
  <2> QED BY <1>2, <2>4, <2>5 DEF Executing, Alone, OneInFlight
<1>3. CASE Finished(core)
  <2>1. Undone = {} /\ Waiting = {}
    BY <1>3 DEF Finished, Alone, HeadOf, NoneWaiting, Undone, Waiting
  <2> QED BY <1>3, <2>1 DEF Finished, Alone, NoneWaiting, OneInFlight
<1> QED BY <1>1, <1>2, <1>3 DEF IInv, Phase

LEMMA PhaseAccounted == IInv => RegistersAccounted
<1> SUFFICES ASSUME IInv PROVE RegistersAccounted
  OBVIOUS
<1>1. Mapped = MappedIn(core)
  BY DEF Mapped, MappedIn
<1>2. CASE Idle(core)
  <2>1. OldPregs = {}
    BY <1>2 DEF Idle, OldPregs
  <2> QED BY <1>1, <1>2, <2>1 DEF Idle, Accounted, RegistersAccounted
<1>3. CASE Alone(core)
  <2>1. OldPregs = OldOf(core)
    BY <1>3 DEF Alone, OldPregs, OldOf, HeadOf
  <2> QED BY <1>1, <1>3, <2>1 DEF Alone, Accounted, RegistersAccounted
<1> QED BY <1>2, <1>3 DEF IInv, Phase, Executing, Finished
-----------------------------------------------------------------------------
(***************************************************************************)
(* The refinement of SimIsa: what the mapping gives in each phase, and     *)
(* what a tick makes of it.                                                *)
(***************************************************************************)
RegistersOf(c) == [r \in Areg |-> c.prf[c.rat[r]]]

\* No instruction waits: the registers and pc are those there are.
Quiet == NoneWaiting(core) => PcOf = fetch.pc /\ XOf = RegistersOf(core)

\* One does: they are those it will find.
SeenBy(fu, i) ==
  LET e == core.rs[fu][i]
  IN  PcOf = e.d.pc /\ XOf = [r \in Areg |-> core.prf[SourceReg(core, e, r)]]

Busy == \A fu \in FuType, i \in 0 .. RS_DEPTH - 1 : WaitsAt(core, fu, i) => SeenBy(fu, i)

LEMMA QuietView == Quiet
<1> SUFFICES ASSUME NoneWaiting(core) PROVE PcOf = fetch.pc /\ XOf = RegistersOf(core)
  BY DEF Quiet
<1>1. Waiting = {}
  BY DEF NoneWaiting, Waiting
<1>2. Pending = {}
  BY <1>1 DEF Pending
<1> QED BY <1>2 DEF PcOf, XOf, RegistersOf, GetArchReg

LEMMA BusyView == Busy
<1> SUFFICES ASSUME NEW fu \in FuType, NEW i \in 0 .. RS_DEPTH - 1, WaitsAt(core, fu, i)
             PROVE  SeenBy(fu, i)
  BY DEF Busy
<1> DEFINE e == core.rs[fu][i]
<1>1. \A g \in FuType : DOMAIN core.rs[g] = IF g = fu THEN {i} ELSE {}
  BY DEF WaitsAt
<1>2. Waiting = {<<fu, i>>}
  BY <1>1 DEF Waiting
<1>3. Pending = {e}
  <2>1. (CHOOSE w \in Waiting : TRUE) = <<fu, i>> /\ Waiting # {}
    BY <1>2
  <2>2. Pending = {core.rs[<<fu, i>>[1]][<<fu, i>>[2]]}
    BY <2>1, Zenon DEF Pending
  <2> QED BY <2>2
<1> HIDE DEF e
<1>5. PcOf = e.d.pc
  BY <1>3 DEF PcOf
<1>6. XOf = [r \in Areg |-> core.prf[SourceReg(core, e, r)]]
  BY <1>3 DEF XOf, SourceReg, HeadOf, GetArchReg
<1> QED BY <1>5, <1>6 DEF SeenBy, e

\* What SimIsa relies on in a decoded instruction that writes a register.
Writing(d) ==
  d.rd_used => /\ d.rd # 0
               /\ d.fu_type = "BRU" => d.is_jump
               /\ d.fu_type = "LSU" => d.is_load

LEMMA DecodeWriting ==
  ASSUME NEW d, NEW pc, NEW i, d = DecodeInstr(pc, i)
  PROVE  d.pc = pc /\ d.rd_used \in BOOLEAN /\ Writing(d)
<1>1. /\ d.pc = pc /\ d.rd_used \in BOOLEAN
      /\ d.rd_used => d.rd # 0 /\ i.op \in {LUI, JAL, OP_IMM, OP, LOAD, JALR}
      /\ i.op \in {JAL, JALR} => d.is_jump
      /\ i.op = LOAD => d.is_load
  BY DEF DecodeInstr
<1>2. d.fu_type = IF i.op \in {JAL, JALR, BRANCH} THEN "BRU"
                  ELSE IF i.op \in {LOAD, STORE} THEN "LSU" ELSE "ALU"
  BY DEF DecodeInstr
<1>3. i.op \in {LUI, JAL, OP_IMM, OP, LOAD, JALR} =>
        /\ d.fu_type = "BRU" => i.op \in {JAL, JALR}
        /\ d.fu_type = "LSU" => i.op = LOAD
  BY <1>2 DEF LUI, JAL, OP_IMM, OP, LOAD, STORE, BRANCH, JALR
<1> QED BY <1>1, <1>3 DEF Writing

\* The packet of an instruction with a destination holds the value of SimIsa.
LEMMA PacketValue ==
  ASSUME NEW fu \in FuType, NEW i \in 0 .. RS_DEPTH - 1,
         WaitsAt(core, fu, i), RunsAt(core, fetch, imem, fu, i), SeenBy(fu, i)
  PROVE  LET e == core.rs[fu][i]
         IN  /\ ISA!D = e.d /\ ISA!A = Src1(core, e) /\ ISA!B = Src2(core, e)
             /\ WbPkt(core, fu).rd_used = e.rd_used
             /\ e.rd_used => /\ WbPkt(core, fu).prd = e.prd
                             /\ WbPkt(core, fu).data = ISA!Value
<1> DEFINE e == core.rs[fu][i]
<1>1. IssueEntry(core, fu) = e
  BY OnlyOneIssues
<1>2. e.d.rs1 \in Areg /\ e.d.rs2 \in Areg /\ e.d.fu_type = fu /\ e.rd_used \in BOOLEAN
  BY DEF WaitsAt, DecodedOK
<1>3. /\ e.d = DecodeInstr(e.d.pc, ICacheWord(imem, e.d.pc)) /\ e.rd_used = e.d.rd_used
      /\ e.prs1 = SourceReg(core, e, e.d.rs1) /\ e.prs2 = SourceReg(core, e, e.d.rs2)
  BY DEF RunsAt
<1>4. PcOf = e.d.pc /\ XOf = [r \in Areg |-> core.prf[SourceReg(core, e, r)]]
  BY DEF SeenBy
<1> HIDE DEF e
<1>w. Writing(e.d)
  BY <1>3, DecodeWriting
<1>5. e.rd_used /\ fu = "BRU" => e.d.is_jump
  BY <1>2, <1>3, <1>w DEF Writing
<1>6. e.rd_used /\ fu = "LSU" => e.d.is_load
  BY <1>2, <1>3, <1>w DEF Writing
<1>7. ISA!D = e.d
  BY <1>3, <1>4 DEF ISA!D
<1>8. ISA!A = Src1(core, e) /\ ISA!B = Src2(core, e)
  BY <1>2, <1>3, <1>4, <1>7 DEF ISA!A, ISA!B, Src1, Src2
<1>9. CASE fu = "ALU"
  <2>1. ISA!Value = AluExec(e.d, Src1(core, e), Src2(core, e))
    BY <1>2, <1>7, <1>8, <1>9 DEF ISA!Value
  <2>2. WbPkt(core, fu) = [rob_tag |-> e.rob_tag, prd |-> e.prd,
            data |-> AluExec(e.d, Src1(core, e), Src2(core, e)), rd_used |-> e.rd_used]
    BY <1>1, <1>9 DEF WbPkt
  <2> QED BY <1>7, <1>8, <2>1, <2>2 DEF e
<1>10. CASE fu = "BRU"
  <2>1. ISA!Value = e.d.pc + 4
    BY <1>2, <1>7, <1>10 DEF ISA!Value
  <2>2. WbPkt(core, fu) = [rob_tag |-> e.rob_tag, prd |-> e.prd,
            data |-> IF e.d.is_jump THEN e.d.pc + 4 ELSE 0, rd_used |-> e.rd_used]
    BY <1>1, <1>10 DEF WbPkt
  <2> QED BY <1>5, <1>7, <1>8, <1>10, <2>1, <2>2 DEF e
<1>11. CASE fu = "LSU" /\ e.d.is_load
  <2> DEFINE data == MemLoad(core.dmem, U32(Src1(core, e) + e.d.imm), e.d.ls_size,
                             e.d.unsigned_load)
  <2>1. ISA!Value = data
    BY <1>2, <1>7, <1>8, <1>11 DEF ISA!Value
  <2>2. WbPkt(core, fu) = [rob_tag |-> e.rob_tag, prd |-> e.prd, data |-> data,
                           rd_used |-> e.rd_used]
    BY <1>1, <1>11 DEF WbPkt
  <2> HIDE DEF data
  <2> QED BY <1>7, <1>8, <2>1, <2>2 DEF e
<1>12. CASE fu = "LSU" /\ ~e.d.is_load
  <2>1. ~e.rd_used
    BY <1>6, <1>12
  <2>2. WbPkt(core, fu) = [rob_tag |-> e.rob_tag, prd |-> 0, data |-> 0, rd_used |-> FALSE]
    BY <1>1, <1>12 DEF WbPkt
  <2>3. e.rd_used = FALSE
    BY <1>2, <2>1
  <2>4. WbPkt(core, fu).rd_used = FALSE
    BY <2>2
  <2>5. WbPkt(core, fu).rd_used = e.rd_used
    BY <2>3, <2>4, Zenon
  <2> QED BY <1>7, <1>8, <2>1, <2>5 DEF e
<1> QED BY <1>9, <1>10, <1>11, <1>12 DEF FuType

\* Where fetch goes on after the waiting instruction.
LEMMA NextPc ==
  ASSUME NEW fu \in FuType, NEW i \in 0 .. RS_DEPTH - 1,
         WaitsAt(core, fu, i), RunsAt(core, fetch, imem, fu, i), SeenBy(fu, i),
         FetchOK(fetch), fetch.state = "REQ", imem \in [0 .. ICACHE_WORDS - 1 -> Insn],
         \A r \in Redirect(core) : r.pc \in Nat
  PROVE  FetchTick(fetch, imem, Redirect(core)).pc =
           IF ISA!Jumps THEN BruTarget(ISA!D, ISA!A) ELSE PcOf + 4
<1> DEFINE e == core.rs[fu][i]
           n == FetchTick(fetch, imem, Redirect(core))
           br == [pc |-> BruTarget(e.d, Src1(core, e)), tag |-> e.rob_tag]
<1>1. Issuing(core) = {fu} /\ IssueEntry(core, fu) = e
  BY OnlyOneIssues
<1>2. ISA!D = e.d /\ ISA!A = Src1(core, e) /\ ISA!B = Src2(core, e)
  BY PacketValue
<1>3. e.d.fu_type = fu
  BY DEF WaitsAt
<1>4. /\ Redirect(core) # {} => n.pc = (CHOOSE r \in Redirect(core) : TRUE).pc
      /\ Redirect(core) = {} => n.pc = fetch.pc
  BY FetchStep
<1>5. fetch.pc = PcOf + 4
  BY DEF RunsAt, SeenBy
<1> HIDE DEF e, n
<1>6. Redirect(core) = IF ISA!Jumps THEN {br} ELSE {}
  BY <1>1, <1>2, <1>3 DEF Redirect, ISA!Jumps
<1>7. CASE ISA!Jumps
  <2>1. (CHOOSE r \in Redirect(core) : TRUE) = br
    BY <1>6, <1>7
  <2> QED BY <1>2, <1>4, <1>6, <1>7, <2>1 DEF n
<1>8. CASE ~ISA!Jumps
  BY <1>4, <1>5, <1>6, <1>8 DEF n
<1> QED BY <1>7, <1>8

\* The registers after the waiting instruction.
LEMMA NextRegisters ==
  ASSUME NEW fu \in FuType, NEW i \in 0 .. RS_DEPTH - 1,
         WaitsAt(core, fu, i), RunsAt(core, fetch, imem, fu, i), SeenBy(fu, i),
         CoreTypeOK(core), Alone(core),
         NEW n, n.rat = core.rat, n.prf = WrittenPrf(core, fu)
  PROVE  RegistersOf(n) = IF ISA!D.rd_used THEN [XOf EXCEPT ![ISA!D.rd] = ISA!Value] ELSE XOf
<1> DEFINE e == core.rs[fu][i]
<1>1. /\ ISA!D = e.d
      /\ WbPkt(core, fu).rd_used = e.rd_used
      /\ e.rd_used => WbPkt(core, fu).prd = e.prd /\ WbPkt(core, fu).data = ISA!Value
  BY PacketValue
<1>2. XOf = [r \in Areg |-> core.prf[SourceReg(core, e, r)]]
  BY DEF SeenBy
<1>3. e.rd_used = e.d.rd_used /\ (e.rd_used => e.prd = core.rat[e.d.rd])
  BY DEF RunsAt
<1>4. e.d.rd \in Areg /\ (e.rd_used => e.prd \in Preg \ {0})
  BY DEF WaitsAt, DecodedOK
<1>5. /\ core.prf \in [Preg -> Int] /\ core.rat \in [Areg -> Preg]
      /\ \A r, s \in Areg : core.rat[r] = core.rat[s] => r = s
  BY DEF CoreTypeOK, Alone, Accounted
<1> HIDE DEF e
<1>6. CASE e.rd_used
  <2>1. n.prf = [core.prf EXCEPT ![e.prd] = ISA!Value]
    BY <1>1, <1>4, <1>6 DEF WrittenPrf, Writes
  <2>2. ASSUME NEW r \in Areg
        PROVE  n.prf[core.rat[r]] = IF r = e.d.rd THEN ISA!Value ELSE XOf[r]
    BY <1>2, <1>3, <1>4, <1>5, <1>6, <2>1 DEF SourceReg
  <2>3. RegistersOf(n) = [r \in Areg |-> IF r = e.d.rd THEN ISA!Value ELSE XOf[r]]
    BY <2>2 DEF RegistersOf
  <2>4. DOMAIN XOf = Areg
    BY <1>2
  <2> QED BY <1>1, <1>3, <1>6, <2>3, <2>4
<1>7. CASE ~e.rd_used
  <2>1. n.prf = core.prf
    BY <1>1, <1>7 DEF WrittenPrf, Writes
  <2>2. \A r \in Areg : SourceReg(core, e, r) = core.rat[r]
    BY <1>7 DEF SourceReg
  <2>3. RegistersOf(n) = XOf
    BY <1>2, <2>1, <2>2 DEF RegistersOf
  <2> QED BY <1>1, <1>3, <1>7, <2>3
<1> QED BY <1>6, <1>7

Stutters == PcOf' = PcOf /\ XOf' = XOf /\ core'.dmem = core.dmem /\ imem' = imem

\* A tick executes one instruction of SimIsa, or none.
LEMMA DataStep == IInv /\ Data /\ Next => Data' /\ (Stutters \/ ISA!Execute)
<1> SUFFICES ASSUME IInv, Data, Next PROVE Data' /\ (Stutters \/ ISA!Execute)
  OBVIOUS
<1> DEFINE c == Commit(core)
<1>1. /\ core' = AfterCommit(c, fetch)
      /\ fetch' = FetchTick(fetch, imem, Redirect(c))
      /\ imem' = imem
  BY DEF Next, Tick, AfterCommit, Middle
<1>2. /\ CoreTypeOK(core) /\ FetchOK(fetch)
      /\ imem \in [0 .. ICACHE_WORDS - 1 -> Insn]
  BY DEF IInv, TypeOK, FetchOK
<1>3. fetch.pc \in Nat /\ fetch.instr \in Insn
  BY <1>2 DEF FetchOK
<1>q. Quiet /\ Quiet' /\ Busy /\ Busy'
  BY QuietView, BusyView, PTL
\* From a core that is idle once it has committed.
<1>4. ASSUME NoneWaiting(core), CoreTypeOK(c), Idle(c),
             c.rat = core.rat, c.prf = core.prf, c.dmem = core.dmem
      PROVE  Data' /\ Stutters
  <2> HIDE DEF c
  <2> DEFINE d == DecodeInstr(fetch.pc, fetch.instr)
  <2>1. /\ Redirect(c) = {}
        /\ fetch.state = "HAVE" => TakenAs(c, core', d)
        /\ fetch.state # "HAVE" => /\ Idle(core')
                                   /\ core'.rat = c.rat /\ core'.prf = c.prf
                                   /\ core'.dmem = c.dmem
    BY <1>1, <1>3, <1>4, FromIdle
  <2>2. PcOf = fetch.pc /\ XOf = RegistersOf(core)
    BY <1>4, <1>q DEF Quiet
  <2>3. /\ fetch.state # "HAVE" => fetch'.pc = fetch.pc
        /\ fetch.state = "HAVE" => fetch'.pc = fetch.pc + 4 /\ fetch'.state = "REQ"
        /\ fetch'.state = "HAVE" => fetch'.instr = ICacheWord(imem, fetch'.pc)
    <3>1. fetch' = FetchTick(fetch, imem, {})
      BY <1>1, <2>1
    <3>2. fetch.state \in {"IDLE", "REQ", "HAVE"}
      BY <1>2 DEF FetchOK
    <3>3. /\ fetch.state = "IDLE" => fetch'.state = "REQ" /\ fetch'.pc = fetch.pc
          /\ fetch.state = "REQ" => /\ fetch'.state = "HAVE" /\ fetch'.pc = fetch.pc
                                    /\ fetch'.instr = ICacheWord(imem, fetch.pc)
          /\ fetch.state = "HAVE" => fetch'.state = "REQ" /\ fetch'.pc = fetch.pc + 4
      <4> DEFINE n == FetchTick(fetch, imem, {})
      <4>1. /\ fetch.state = "IDLE" => n.state = "REQ" /\ n.pc = fetch.pc
            /\ fetch.state = "REQ" => /\ n.state = "HAVE" /\ n.pc = fetch.pc
                                      /\ n.instr = ICacheWord(imem, fetch.pc)
            /\ fetch.state = "HAVE" => n.state = "REQ" /\ n.pc = fetch.pc + 4
        BY <1>2, FetchStep
      <4> HIDE DEF n
      <4> QED BY <3>1, <4>1 DEF n
    <3> QED BY <3>2, <3>3
  <2>4. CASE fetch.state # "HAVE"
    <3>1. NoneWaiting(core')
      BY <2>1, <2>4 DEF Idle
    <3>2. PcOf' = fetch'.pc /\ XOf' = RegistersOf(core')
      BY <1>q, <3>1 DEF Quiet
    <3>3. RegistersOf(core') = RegistersOf(core)
      BY <1>4, <2>1, <2>4 DEF RegistersOf
    <3>4. Data'
      BY <1>1, <2>3, <3>1 DEF Data, WaitsAt, NoneWaiting
    <3> QED BY <1>1, <1>4, <2>1, <2>2, <2>3, <2>4, <3>2, <3>3, <3>4 DEF Stutters
  <2>5. CASE fetch.state = "HAVE"
    <3> DEFINE fu == d.fu_type
               e == core'.rs[fu][0]
    <3>1. /\ WaitsAt(core', fu, 0)
          /\ e.d = d /\ e.rd_used = NeedAlloc(d)
          /\ e.rd_used => e.prd = core'.rat[d.rd] /\ HeadOf(core').rd_used
          /\ e.prs1 = c.rat[d.rs1] /\ e.prs2 = c.rat[d.rs2]
          /\ \A r \in Areg : SourceReg(core', e, r) = c.rat[r]
          /\ core'.prf = c.prf /\ core'.dmem = c.dmem
      BY <2>1, <2>5 DEF TakenAs
    <3>2. d = DecodeInstr(fetch.pc, ICacheWord(imem, fetch.pc))
      BY <2>5 DEF Data
    <3>3. d.pc = fetch.pc /\ d.rd_used \in BOOLEAN /\ Writing(d)
      BY DecodeWriting
    <3>4. d.rs1 \in Areg /\ d.rs2 \in Areg /\ fu \in FuType
      BY <1>3, DecodeShape DEF DecodedOK
    <3> HIDE DEF d, e, fu
    <3>5. NeedAlloc(d) = d.rd_used
      BY <3>3 DEF NeedAlloc, Writing
    <3>6. RunsAt(core', fetch', imem', fu, 0)
      BY <1>1, <2>3, <2>5, <3>1, <3>2, <3>3, <3>4, <3>5 DEF RunsAt, e
    <3>7. \A g \in FuType, i \in 0 .. RS_DEPTH - 1 : WaitsAt(core', g, i) => g = fu /\ i = 0
      BY <3>1 DEF WaitsAt
    <3>8. Data'
      BY <2>3, <2>5, <3>6, <3>7 DEF Data
    <3>9. PcOf' = e.d.pc /\ XOf' = [r \in Areg |-> core'.prf[SourceReg(core', e, r)]]
      BY <1>q, <3>1, <3>4, DepthAssumption DEF Busy, SeenBy, e
    <3>10. XOf' = RegistersOf(core)
      BY <1>4, <3>1, <3>9 DEF RegistersOf
    <3> QED BY <1>1, <1>4, <2>2, <3>1, <3>3, <3>8, <3>9, <3>10, SMTT(30) DEF Stutters
  <2> QED BY <2>4, <2>5
<1>5. CASE Idle(core)
  <2>1. c = core
    BY <1>2, <1>5, NoCommit
  <2> QED BY <1>2, <1>4, <1>5, <2>1 DEF Idle
<1>6. CASE Finished(core)
  <2>1. /\ CoreTypeOK(c) /\ Idle(c) /\ c.rat = core.rat /\ c.prf = core.prf
        /\ c.dmem = core.dmem
    BY <1>2, <1>6, CommitFinished
  <2> QED BY <1>4, <1>6, <2>1 DEF Finished
<1>7. CASE Executing(core) /\ fetch.state = "REQ"
  <2>1. c = core
    BY <1>2, <1>7, NoCommit
  <2> HIDE DEF c
  <2>2. PICK fu \in FuType, i \in 0 .. RS_DEPTH - 1 : WaitsAt(core, fu, i)
    BY <1>7 DEF Executing
  <2>3. RunsAt(core, fetch, imem, fu, i) /\ SeenBy(fu, i)
    BY <1>q, <2>2 DEF Data, Busy
  <2>4. Issuing(core) = {fu} /\ IssueEntry(core, fu) = core.rs[fu][i]
    BY <2>2, OnlyOneIssues
  <2>5. /\ Finished(core') /\ core'.rat = core.rat
        /\ core'.dmem = StoredMem(core) /\ core'.prf = WrittenPrf(core, fu)
        /\ \A r \in Redirect(core) : r.pc \in Nat
    BY <1>1, <1>2, <1>7, <2>1, <2>4, FromExecuting
  <2>6. PcOf' = fetch'.pc /\ XOf' = RegistersOf(core')
    BY <1>q, <2>5 DEF Quiet, Finished
  <2>7. fetch'.pc = IF ISA!Jumps THEN BruTarget(ISA!D, ISA!A) ELSE PcOf + 4
    BY <1>1, <1>2, <1>7, <2>1, <2>2, <2>3, <2>5, NextPc
  <2>8. Alone(core)
    BY <1>7 DEF Executing
  <2>9. RegistersOf(core') = IF ISA!D.rd_used THEN [XOf EXCEPT ![ISA!D.rd] = ISA!Value] ELSE XOf
    BY <1>2, <2>2, <2>3, <2>5, <2>8, NextRegisters
  <2>10. core'.dmem = IF ISA!Stores
                      THEN MemStore(core.dmem, U32(ISA!A + ISA!D.imm), ISA!B, ISA!D.ls_size)
                      ELSE core.dmem
    <3> DEFINE e == core.rs[fu][i]
    <3>1. ISA!D = e.d /\ ISA!A = Src1(core, e) /\ ISA!B = Src2(core, e) /\ e.d.fu_type = fu
      BY <2>2, <2>3, PacketValue DEF WaitsAt
    <3> HIDE DEF e
    <3> QED BY <2>4, <2>5, <3>1 DEF StoredMem, ISA!Stores, e
  <2>11. ISA!Execute
    BY <1>1, <2>6, <2>7, <2>9, <2>10 DEF ISA!Execute
  <2>12. Data'
    <3>1. fetch'.state = "HAVE" => fetch'.instr = ICacheWord(imem, fetch'.pc)
      BY <1>1, <1>2, <1>7, <2>1, <2>5, FetchStep
    <3>2. NoneWaiting(core')
      BY <2>5 DEF Finished
    <3> QED BY <1>1, <3>1, <3>2 DEF Data, WaitsAt, NoneWaiting
  <2> QED BY <2>11, <2>12
<1> QED BY <1>5, <1>6, <1>7 DEF IInv, Phase

LEMMA StutterData == Data /\ UNCHANGED vars => Data' /\ Stutters
<1> SUFFICES ASSUME Data, UNCHANGED vars PROVE Data' /\ Stutters
  OBVIOUS
<1>1. Data'
  BY DEF Data, vars
<1>2. Stutters
  BY DEF Stutters, PcOf, XOf, Pending, Waiting, GetArchReg, vars
<1> QED BY <1>1, <1>2

LEMMA InitData == Init => Data /\ ISA!Init
<1> SUFFICES ASSUME Init PROVE Data /\ ISA!Init
  OBVIOUS
<1>1. NoneWaiting(core) /\ fetch.state = "IDLE" /\ fetch.pc = 0
  BY DEF Init, CoreInit, FetchInit, NoneWaiting, NoEntries
<1>2. Data
  BY <1>1 DEF Data, WaitsAt, NoneWaiting
<1>3. PcOf = 0 /\ XOf = RegistersOf(core)
  BY <1>1, QuietView DEF Quiet
<1>4. core.rat = [r \in Areg |-> r] /\ core.prf = [p \in Preg |-> 0]
      /\ core.dmem = [w \in 0 .. DMEM_WORDS - 1 |-> 0]
  BY DEF Init, CoreInit, ResetRat
<1>5. Areg \subseteq Preg
  BY ArchRegsAssumption, PhysRegsAssumption DEF Areg, Preg
<1>6. XOf = [r \in Areg |-> 0]
  BY <1>3, <1>4, <1>5 DEF RegistersOf
<1>7. XOf = [r \in DOMAIN XOf |-> 0] /\ core.dmem = [w \in DOMAIN core.dmem |-> 0]
  BY <1>4, <1>6
<1> QED BY <1>2, <1>3, <1>7 DEF ISA!Init
-----------------------------------------------------------------------------
(***************************************************************************)
(* Every field stays in its type: registers and memory hold integers, and  *)
(* fetch never has an address or an instruction that is none.              *)
(***************************************************************************)
THEOREM SimTypeCorrect == Spec => []TypeOK
<1>1. IInv => TypeOK
  BY DEF IInv
<1> QED BY <1>1, SpecPhase, PTL

(***************************************************************************)
(* There is never more than one instruction in the core, whatever the      *)
(* program and however deep the ROB and the stations are: the model of an  *)
(* out-of-order core executes in order.                                    *)
(***************************************************************************)
THEOREM NeverOutOfOrder == Spec => []OneInFlight
  BY PhaseOneInFlight, SpecPhase, PTL

(***************************************************************************)
(* No physical register is ever lost or has two uses.                      *)
(***************************************************************************)
THEOREM NoRegisterLost == Spec => []RegistersAccounted
  BY PhaseAccounted, SpecPhase, PTL

(***************************************************************************)
(* An instruction takes four cycles at most on average, from the first     *)
(* cycle to any later one.                                                 *)
(***************************************************************************)
THEOREM PaceKept == Spec => []KeepsPace
<1>1. IInv => KeepsPace
  <2> SUFFICES ASSUME IInv PROVE KeepsPace
    OBVIOUS
  <2>1. cycle \in Nat /\ core.commits \in Nat
    BY DEF IInv, TypeOK, CoreTypeOK
  <2> QED BY <2>1 DEF IInv, Phase, KeepsPace
<1> QED BY <1>1, SpecPhase, PTL

(***************************************************************************)
(* Fetch moves past no instruction the core has not taken, although it     *)
(* never asks: there is always room in the ROB and the station, and always *)
(* a free register.                                                        *)
(***************************************************************************)
THEOREM TakesEveryInstruction == Spec => NothingDropped
<1>1. IInv /\ [Next]_vars => [TakesNext]_vars
  BY TickPhase
<1> QED BY <1>1, SpecPhase, PTL DEF Spec, NothingDropped, TakesNext

(***************************************************************************)
(* A recovery restores what is there already.                              *)
(***************************************************************************)
THEOREM RecoveryIsIdle == Spec => RecoveryUndoesNothing
<1>1. IInv /\ [Next]_vars => [UndoesNothing]_vars
  BY TickPhase
<1> QED BY <1>1, SpecPhase, PTL DEF Spec, RecoveryUndoesNothing, UndoesNothing

(***************************************************************************)
(* The simulator gives the results of executing the instructions one at a  *)
(* time, for every program: each tick of the core implements one           *)
(* instruction of SimIsa on registers, memory and pc, or nothing.          *)
(***************************************************************************)
THEOREM ExecutesPrograms == Spec => ImplementsIsa
<1>1. Init => Data /\ ISA!Init
  BY InitData
<1>2. IInv /\ Data /\ [Next]_vars => Data' /\ [ISA!Execute]_ISA!isaVars
  <2>1. Stutters => UNCHANGED ISA!isaVars
    BY DEF Stutters, ISA!isaVars
  <2> QED BY <2>1, DataStep, StutterData
<1> QED BY <1>1, <1>2, SpecPhase, PTL DEF Spec, ImplementsIsa, ISA!Spec
-----------------------------------------------------------------------------
(***************************************************************************)
(* The units of the core and of the simulator.                             *)
(***************************************************************************)
\* A number and its word are the same number modulo 2^XLEN.
LEMMA WordOf ==
  ASSUME NEW x \in Int
  PROVE  /\ U32(x) \in 0 .. 2^XLEN - 1 /\ U32(x) \in Int
         /\ U32(U32(x)) = U32(x) /\ S32(U32(x)) = S32(x)
         /\ x \in 0 .. 2^XLEN - 1 => U32(x) = x
<1> DEFINE n == 2^XLEN
           u == x % n
<1>1. n \in Nat \ {0}
  BY Moduli
<1>2. u \in 0 .. n - 1
  BY <1>1, Division
<1>3. \A w \in 0 .. n - 1 : w % n = w
  <2>1. ASSUME NEW w \in 0 .. n - 1 PROVE w % n = w
    <3> HIDE DEF n
    <3>1. 0 * n + w = w /\ 0 \in Int
      BY <1>1
    <3> QED BY <1>1, <3>1, DivisionUnique
  <2> QED BY <2>1
<1>4. u % n = u
  <2> HIDE DEF u, n
  <2> QED BY <1>2, <1>3
<1>5. S32(U32(x)) = S32(x)
  BY <1>4, Zenon DEF S32, U32
<1>6. u \in Int
  <2> HIDE DEF u
  <2> QED BY <1>1, <1>2
<1> QED BY <1>2, <1>3, <1>4, <1>5, <1>6, Zenon DEF U32

\* Sums and differences of words.
LEMMA WordSum ==
  ASSUME NEW x \in Int, NEW y \in Int
  PROVE  /\ U32(U32(x) + U32(y)) = U32(x + y)
         /\ U32(x + U32(y)) = U32(x + y)
         /\ U32(U32(x) - U32(y)) = U32(x - y)
<1> DEFINE n == 2^XLEN
<1>1. n \in Nat \ {0}
  BY Moduli
<1> DEFINE xw == x % n
           yw == y % n
<1>2. xw \in Int /\ yw \in Int /\ -yw \in Int
  <2> HIDE DEF n
  <2> QED BY <1>1, Division
<1>3. \A z \in Int : U32(z) = z % n
  BY DEF U32
<1> HIDE DEF n
<1>4. \A z \in Int : (xw + z) % n = (x + z) % n /\ (yw + z) % n = (y + z) % n
  BY <1>1, ModAdd
<1> DEFINE q == y \div n
<1>5. q \in Int /\ y = q * n + yw
  BY <1>1, Division
<1> HIDE DEF xw, yw, q
<1>6. (xw + yw) % n = (x + yw) % n
  BY <1>2, <1>4
<1>7. (x + yw) % n = (x + y) % n
  <2>1. (yw + x) % n = (y + x) % n
    BY <1>4
  <2>2. yw + x = x + yw /\ y + x = x + y
    BY <1>2
  <2> QED BY <2>1, <2>2
<1>8. (xw - yw) % n = (x - y) % n
  <2>1. (xw + (-yw)) % n = (x + (-yw)) % n
    BY <1>2, <1>4
  <2> DEFINE z == x - y
             p == z \div n
             r == z % n
             s == p + q
  <2>2. z \in Int
    OBVIOUS
  <2>3. p \in Int /\ r \in 0 .. n - 1 /\ z = p * n + r
    <3> HIDE DEF z
    <3> QED BY <1>1, <2>2, Division
  <2> HIDE DEF p, r
  <2>4. x - yw = (p + q) * n + r
    BY <1>1, <1>2, <1>5, <2>3
  <2>5. s \in Int /\ x - yw = s * n + r
    BY <1>5, <2>3, <2>4
  <2> HIDE DEF s
  <2>6. (x - yw) % n = r
    <3>1. r \in 0 .. n - 1 /\ s \in Int
      BY <2>3, <2>5
    <3>2. (s * n + r) % n = r
      BY <1>1, <3>1, DivisionUnique
    <3> QED BY <2>5, <3>2
  <2>7. xw + (-yw) = xw - yw /\ x + (-yw) = x - yw
    BY <1>2
  <2> QED BY <2>1, <2>6, <2>7 DEF r
<1>9. /\ U32(x) = xw /\ U32(y) = yw /\ U32(xw + yw) = (xw + yw) % n
      /\ U32(x + yw) = (x + yw) % n /\ U32(x + y) = (x + y) % n
      /\ U32(xw - yw) = (xw - yw) % n /\ U32(x - y) = (x - y) % n
  <2>1. U32(x) = xw /\ U32(y) = yw
    BY <1>3 DEF xw, yw
  <2> QED BY <1>2, <1>3, <2>1
<1> QED BY <1>6, <1>7, <1>8, <1>9

\* A word has the bits of what it is the word of.
LEMMA WordBits ==
  ASSUME NEW x \in Int, NEW k \in 0 .. XLEN - 1
  PROVE  Bit(U32(x), k) = Bit(x, k)
<1> DEFINE n == 2^XLEN
           h == 2^k
           g == 2^(XLEN - k - 1)
           u == x % n
           q == x \div n
           e == u \div h
           f == u % h
<1>1. n \in Nat \ {0} /\ h \in Nat \ {0} /\ g \in Nat \ {0}
  BY Moduli, PowerPositive
<1>2. n = h * (2 * g)
  <2>1. k \in Nat /\ XLEN - k - 1 \in Nat /\ (XLEN - k - 1) + 1 = XLEN - k /\ XLEN - k \in Nat
        /\ k + (XLEN - k) = XLEN
    BY Moduli
  <2>2. 2^(XLEN - k) = 2 * g /\ 2^XLEN = 2^k * 2^(XLEN - k)
    BY <2>1, PowerDouble, PowerSum
  <2> QED BY <2>2
<1>3. u \in 0 .. n - 1 /\ q \in Int /\ x = q * n + u
  <2> HIDE DEF n
  <2> QED BY <1>1, Division
<1>4. Bit(U32(x), k) = e % 2 /\ Bit(x, k) = (x \div h) % 2
  BY DEF Bit, U32
<1> HIDE DEF u, q, n, g
<1>5. f \in 0 .. h - 1 /\ e \in Int /\ u = e * h + f
  <2> HIDE DEF h
  <2> QED BY <1>1, <1>3, Division
<1> HIDE DEF e, f, h
<1>6. x \div h = q * (2 * g) + e
  <2>1. x = (q * (2 * g) + e) * h + f
    <3> DEFINE c == 2 * g
    <3>1. \A a, b, d, i, j \in Int : a * (b * j) + (d * b + i) = (a * j + d) * b + i
      OBVIOUS
    <3>2. h \in Int /\ c \in Int /\ f \in Int
      BY <1>1, <1>5
    <3>3. x = q * (h * c) + (e * h + f)
      BY <1>2, <1>3, <1>5
    <3> HIDE DEF c
    <3>4. x = (q * c + e) * h + f
      BY <1>3, <1>5, <3>1, <3>2, <3>3
    <3> QED BY <3>4 DEF c
  <2>2. q * (2 * g) + e \in Int
    BY <1>1, <1>3, <1>5
  <2> QED BY <1>1, <1>5, <2>1, <2>2, DivisionUnique
<1>7. (x \div h) % 2 = e % 2
  <2>1. q * g \in Int /\ q * (2 * g) = 2 * (q * g)
    BY <1>1, <1>3
  <2> DEFINE w == q * g
  <2>2. (2 * w + e) % 2 = e % 2
    <3> HIDE DEF w
    <3>1. w \in Int
      BY <2>1 DEF w
    <3> QED BY <1>5, <3>1
  <2> QED BY <1>6, <2>1, <2>2
<1> QED BY <1>4, <1>7
\* And and Or of words.
LEMMA WordAndOr ==
  ASSUME NEW a \in Int, NEW b \in Int
  PROVE  U32(And(a, b)) = And(U32(a), U32(b)) /\ U32(Or(a, b)) = Or(U32(a), U32(b))
<1> DEFINE n == 2^XLEN
           conj == [k \in 0 .. XLEN - 1 |-> Bit(a, k) * Bit(b, k)]
           disj == [k \in 0 .. XLEN - 1 |-> IF Bit(a, k) + Bit(b, k) > 0 THEN 1 ELSE 0]
           cconj == [k \in 0 .. XLEN - 1 |-> Bit(U32(a), k) * Bit(U32(b), k)]
           cdisj == [k \in 0 .. XLEN - 1 |-> IF Bit(U32(a), k) + Bit(U32(b), k) > 0
                                              THEN 1 ELSE 0]
<1>1. \A k \in 0 .. XLEN - 1 : Bit(U32(a), k) = Bit(a, k) /\ Bit(U32(b), k) = Bit(b, k)
  BY WordBits
<1>2. cconj = conj /\ cdisj = disj
  BY <1>1
<1>3. \A k \in 0 .. XLEN - 1 : Bit(a, k) \in {0, 1} /\ Bit(b, k) \in {0, 1}
  BY BitType, Moduli
<1>4. \A k \in 0 .. XLEN - 1 : conj[k] \in {0, 1} /\ disj[k] \in {0, 1}
  BY <1>3
<1>5. n \in Nat \ {0}
  BY Moduli
<1>6. ~ (U32(a) < 0) /\ ~ (U32(b) < 0)
  BY <1>5, U32Type
<1>7. /\ And(U32(a), U32(b)) = Word(cconj) - 0 /\ Or(U32(a), U32(b)) = Word(cdisj) - 0
  BY <1>6, Zenon DEF And, Or
<1>8. /\ And(a, b) = Word(conj) - (IF a < 0 /\ b < 0 THEN n ELSE 0)
      /\ Or(a, b) = Word(disj) - (IF a < 0 \/ b < 0 THEN n ELSE 0)
  BY DEF And, Or
<1> HIDE DEF conj, disj, cconj, cdisj
<1>9. Word(conj) \in 0 .. n - 1 /\ Word(disj) \in 0 .. n - 1
  BY <1>4, WordType
<1>10. ASSUME NEW w \in 0 .. n - 1 PROVE U32(w) = w /\ U32(w - n) = w /\ w - 0 = w
  <2> HIDE DEF n
  <2>1. w = 0 * n + w /\ w - n = (-1) * n + w /\ w - 0 = w
    BY <1>5
  <2>2. (0 * n + w) % n = w /\ ((-1) * n + w) % n = w
    BY <1>5, DivisionUnique
  <2> QED BY <2>1, <2>2 DEF U32, n
<1> HIDE DEF n
<1>11. U32(And(a, b)) = Word(conj)
  BY <1>8, <1>9, <1>10
<1>12. U32(Or(a, b)) = Word(disj)
  BY <1>8, <1>9, <1>10
<1> QED BY <1>2, <1>7, <1>9, <1>10, <1>11, <1>12

(***************************************************************************)
(* Words of 32 bits.  The low bits of a word are the remainder of what it  *)
(* is the word of, as the distance of a shift, if the width is a power of  *)
(* two; and a word has room for all the bits of an upper immediate.        *)
(***************************************************************************)
WordOfTheCode == BYTE_BITS = 8

\* A negative distance is cut to a word first in the core.
LEMMA WordShift ==
  ASSUME WordOfTheCode, NEW b \in Int
  PROVE  U32(b) % XLEN = b % XLEN
<1>1. XLEN = 32
  BY DEF WordOfTheCode, XLEN
<1>2. U32(b) = b % 2^32
  BY <1>1 DEF U32
<1>3. (b % 2^32) % 32 = b % 32
  OBVIOUS
<1> QED BY <1>1, <1>2, <1>3

\* An immediate that is 0 has no rs2 in its place: what the simulator takes for
\* no immediate makes it use x0.
LEMMA NoImmediate ==
  ASSUME WordOfTheCode, NEW i \in Insn, ImmUsed(i), ImmOf(i) = 0
  PROVE  i.rs2 = 0
<1>1. /\ i.f7 \in 0 .. 127 /\ i.rs1 \in 0 .. 31 /\ i.rs2 \in 0 .. 31 /\ i.f3 \in 0 .. 7
  BY DEF Insn, Field5, Field7
<1>2. CASE i.op = OP_IMM
  <2>1. ImmI(i) = 0
    <3>1. ImmOf(i) = ImmI(i)
      BY <1>2 DEF ImmOf, LUI, JAL, OP_IMM, LOAD, JALR, STORE, BRANCH
    <3> QED BY <3>1
  <2>2. \A f \in 0 .. 127, r \in 0 .. 31 : Sext(f * 2^5 + r, 12) = 0 => r = 0
    BY DEF Sext
  <2> QED BY <1>1, <2>1, <2>2, Zenon DEF ImmI
<1>3. CASE i.op = LUI
  <2>1. ImmU(i) = 0
    <3>1. ImmOf(i) = ImmU(i)
      BY <1>3 DEF ImmOf, LUI, JAL, OP_IMM, LOAD, JALR, STORE, BRANCH
    <3> QED BY <3>1
  <2>2. XLEN = 32
    BY DEF WordOfTheCode, XLEN
  <2>3. \A k \in 0 .. 7, q, r \in 0 .. 31, f \in 0 .. 127 :
          (((k + q * 2^3 + r * 2^8 + f * 2^13) % 2^32) * 2^12) % 2^32 = 0 => r = 0
    <3>1. \A v \in 0 .. 2^20 - 1 : ((v % 2^32) * 2^12) % 2^32 = 0 => v = 0
      OBVIOUS
    <3> SUFFICES ASSUME NEW k \in 0 .. 7, NEW q \in 0 .. 31, NEW r \in 0 .. 31,
                        NEW f \in 0 .. 127
                 PROVE  (((k + q * 2^3 + r * 2^8 + f * 2^13) % 2^32) * 2^12) % 2^32 = 0 => r = 0
      BY Zenon
    <3> DEFINE v == k + q * 2^3 + r * 2^8 + f * 2^13
    <3>2. v \in 0 .. 2^20 - 1 /\ (v = 0 => r = 0)
      OBVIOUS
    <3> HIDE DEF v
    <3>3. ((v % 2^32) * 2^12) % 2^32 = 0 => r = 0
      BY <3>1, <3>2, Zenon
    <3> QED BY <3>3 DEF v
  <2>4. ImmU(i) = (((i.f3 + i.rs1 * 2^3 + i.rs2 * 2^8 + i.f7 * 2^13) % 2^32) * 2^12) % 2^32
    BY <2>2, Zenon DEF ImmU, U32
  <2> QED BY <1>1, <2>1, <2>3, <2>4, Zenon
<1> QED BY <1>2, <1>3 DEF ImmUsed

\* The second operand of the two ALUs.
LEMMA SecondOperand ==
  ASSUME WordOfTheCode, NEW i \in Insn, NEW b \in Int, i.rs2 = 0 => b = 0,
         i.op \notin {JAL, JALR, BRANCH, LOAD, STORE}
  PROVE  (IF ImmUsed(i) THEN U32(ImmOf(i)) ELSE U32(b))
           = U32(IF ImmOf(i) # 0 THEN ImmOf(i) ELSE b)
<1>1. CASE ImmUsed(i) /\ ImmOf(i) = 0
  <2>1. b = 0
    BY <1>1, NoImmediate
  <2> QED BY <1>1, <2>1
<1>2. CASE ~ ImmUsed(i)
  <2>1. ImmOf(i) = 0
    BY <1>2 DEF ImmUsed, ImmOf
  <2> QED BY <1>2, <2>1
<1> QED BY <1>1, <1>2

\* The two ALUs, operation by operation.
LEMMA SameAlu ==
  ASSUME WordOfTheCode, NEW pc, NEW i \in Insn, NEW a \in Int, NEW b \in Int,
         i.rs2 = 0 => b = 0,
         DecodeInstr(pc, i).fu_type = "ALU", DecodeInstr(pc, i).alu_op # "SLTIU"
  PROVE  U32(AluExec(DecodeInstr(pc, i), a, b)) = RtlAlu(DecodeInstr(pc, i), U32(a), U32(b))
<1> DEFINE d == DecodeInstr(pc, i)
           ob == IF d.imm # 0 THEN d.imm ELSE b
           rb == IF ImmUsed(d.instr) THEN U32(d.imm) ELSE U32(b)
<1>1. /\ d.imm = ImmOf(i) /\ d.imm \in Int /\ d.instr = i
      /\ d.alu_op = AluOpOf(i) /\ d.alu_op \in AluOps
  BY ImmType, AluOpType DEF DecodeInstr
<1>2. i.op \notin {JAL, JALR, BRANCH, LOAD, STORE}
  BY DEF DecodeInstr, JAL, JALR, BRANCH, LOAD, STORE
<1>3. rb = U32(ob)
  BY <1>1, <1>2, SecondOperand
<1>4. ob \in Int
  BY <1>1
<1>5. AluExec(d, a, b) =
        CASE d.alu_op = "ADD"   -> U32(a + ob)
          [] d.alu_op = "SUB"   -> U32(a - ob)
          [] d.alu_op = "AND"   -> And(a, ob)
          [] d.alu_op = "OR"    -> Or(a, ob)
          [] d.alu_op = "SRA"   -> U32(S32(a) \div 2^(ob % XLEN))
          [] d.alu_op = "SLTIU" -> IF a < ob THEN 1 ELSE 0
          [] d.alu_op = "LUI"   -> ob
  BY DEF AluExec
<1>6. RtlAlu(d, U32(a), U32(b)) =
        CASE d.alu_op = "ADD"   -> U32(U32(a) + rb)
          [] d.alu_op = "SUB"   -> U32(U32(a) - rb)
          [] d.alu_op = "AND"   -> And(U32(a), rb)
          [] d.alu_op = "OR"    -> Or(U32(a), rb)
          [] d.alu_op = "SRA"   -> U32(S32(U32(a)) \div 2^(rb % XLEN))
          [] d.alu_op = "SLTIU" -> IF U32(a) < rb THEN 1 ELSE 0
          [] d.alu_op = "LUI"   -> rb
  BY DEF RtlAlu
<1> SUFFICES ASSUME d.alu_op # "SLTIU" PROVE U32(AluExec(d, a, b)) = RtlAlu(d, U32(a), U32(b))
  OBVIOUS
<1> HIDE DEF d, ob, rb
<1>7. CASE d.alu_op = "ADD"
  <2>1. U32(U32(a + ob)) = U32(a + ob) /\ U32(U32(a) + U32(ob)) = U32(a + ob)
    <3>1. a + ob \in Int
      BY <1>4
    <3>2. U32(U32(a + ob)) = U32(a + ob)
      BY <3>1, WordOf
    <3>3. U32(U32(a) + U32(ob)) = U32(a + ob)
      BY <1>4, WordSum
    <3> QED BY <3>2, <3>3
  <2> QED BY <1>3, <1>5, <1>6, <1>7, <2>1
<1>8. CASE d.alu_op = "SUB"
  <2>1. U32(U32(a - ob)) = U32(a - ob) /\ U32(U32(a) - U32(ob)) = U32(a - ob)
    <3>1. a - ob \in Int
      BY <1>4
    <3>2. U32(U32(a - ob)) = U32(a - ob)
      BY <3>1, WordOf
    <3>3. U32(U32(a) - U32(ob)) = U32(a - ob)
      BY <1>4, WordSum
    <3> QED BY <3>2, <3>3
  <2> QED BY <1>3, <1>5, <1>6, <1>8, <2>1
<1>9. CASE d.alu_op \in {"AND", "OR"}
  BY <1>3, <1>4, <1>5, <1>6, <1>9, WordAndOr
<1>10. CASE d.alu_op = "SRA"
  <2>1. U32(ob) % XLEN = ob % XLEN /\ S32(U32(a)) = S32(a)
    BY <1>4, WordShift, WordOf
  <2>2. S32(a) \div 2^(ob % XLEN) \in Int
    <3>1. ob % XLEN \in Nat
      BY <1>4, Moduli
    <3>2. 2^(ob % XLEN) \in Nat \ {0}
      BY <3>1, PowerPositive
    <3> QED BY <3>2, S32Type
  <2>3. U32(U32(S32(a) \div 2^(ob % XLEN))) = U32(S32(a) \div 2^(ob % XLEN))
    BY <2>2, WordOf
  <2>4. AluExec(d, a, b) = U32(S32(a) \div 2^(ob % XLEN))
    BY <1>5, <1>10
  <2>5. RtlAlu(d, U32(a), U32(b)) = U32(S32(U32(a)) \div 2^(rb % XLEN))
    BY <1>6, <1>10
  <2> QED BY <1>3, <2>1, <2>3, <2>4, <2>5
<1>11. CASE d.alu_op = "LUI"
  BY <1>3, <1>5, <1>6, <1>11
<1> QED BY <1>1, <1>7, <1>8, <1>9, <1>10, <1>11 DEF AluOps

\* Comparison with an immediate that is not negative.
LEMMA SameCompare ==
  ASSUME WordOfTheCode, NEW pc, NEW i \in Insn, NEW a \in Int, NEW b \in Int,
         i.rs2 = 0 => b = 0,
         DecodeInstr(pc, i).alu_op = "SLTIU", DecodeInstr(pc, i).imm >= 0
  PROVE  AluExec(DecodeInstr(pc, i), a, b) = RtlAlu(DecodeInstr(pc, i), a, U32(b))
<1> DEFINE d == DecodeInstr(pc, i)
           ob == IF d.imm # 0 THEN d.imm ELSE b
           rb == IF ImmUsed(d.instr) THEN U32(d.imm) ELSE U32(b)
<1>1. d.imm = ImmOf(i) /\ d.imm \in Int /\ d.instr = i /\ d.alu_op = AluOpOf(i)
  BY ImmType DEF DecodeInstr
<1>2. i.op = OP_IMM /\ ImmUsed(i)
  <2>1. OpOp(i.f3, i.f7) # "SLTIU"
    BY DEF OpOp
  <2> QED BY <1>1, <2>1 DEF AluOpOf, ImmUsed
<1>3. rb = U32(ob)
  <2>1. i.op \notin {JAL, JALR, BRANCH, LOAD, STORE}
    BY <1>2 DEF OP_IMM, JAL, JALR, BRANCH, LOAD, STORE
  <2> QED BY <1>1, <2>1, SecondOperand
<1>4. ob \in 0 .. 2^XLEN - 1
  <2>1. ImmOf(i) = ImmI(i)
    BY <1>2 DEF ImmOf, LUI, JAL, OP_IMM, LOAD, JALR, STORE, BRANCH
  <2>2. ImmI(i) < 2^12
    <3>1. i.f7 * 2^5 + i.rs2 \in Int
      BY SMTT(30) DEF Insn, Field5, Field7
    <3>2. \A v \in Int : Sext(v, 12) < 2^12
      BY DEF Sext
    <3> QED BY <3>1, <3>2 DEF ImmI
  <2>3. 2^XLEN = 2^32
    BY DEF WordOfTheCode, XLEN
  <2>4. 2^12 < 2^32 /\ 0 < 2^32
    OBVIOUS
  <2>5. ImmOf(i) = 0 => b = 0
    BY <1>2, NoImmediate
  <2> QED BY <1>1, <2>1, <2>2, <2>3, <2>4, <2>5
<1>5. U32(ob) = ob
  BY <1>4, WordOf
<1>6. AluExec(d, a, b) = IF a < ob THEN 1 ELSE 0
  BY DEF AluExec
<1>7. RtlAlu(d, a, U32(b)) = IF a < rb THEN 1 ELSE 0
  BY DEF RtlAlu
<1> QED BY <1>3, <1>5, <1>6, <1>7

\* The two branch units.
LEMMA SameBranch ==
  ASSUME NEW pc \in Int, NEW i \in Insn, NEW a \in Int, NEW b
  PROVE  LET d == DecodeInstr(pc, i)
         IN  BruTaken(d, a, b) = RtlTaken(d, a, b) /\ BruTarget(d, a) = RtlTarget(d, U32(a))
<1> DEFINE d == DecodeInstr(pc, i)
<1>1. d.imm \in Int /\ d.pc \in Int
  BY ImmType DEF DecodeInstr
<1> HIDE DEF d
<1>2. BruTaken(d, a, b) = RtlTaken(d, a, b)
  BY DEF BruTaken, BranchCond, RtlTaken
<1>3. U32(U32(a) + U32(d.imm)) = U32(a + d.imm) /\ U32(d.pc + U32(d.imm)) = U32(d.pc + d.imm)
  BY <1>1, WordSum
<1>4. BruTarget(d, a) = RtlTarget(d, U32(a))
  BY <1>3 DEF BruTarget, RtlTarget
<1> QED BY <1>2, <1>4 DEF d

(***************************************************************************)
(* With the words of the code, the ALU of the core and that of the         *)
(* simulator give the same word, for every instruction that is fetched and *)
(* all operands; of the comparison only what SameDecision says             *)
(* (_alu_exec, alu_fu.sv).                                                 *)
(***************************************************************************)
THEOREM UnitsSameWord == WordOfTheCode => (Spec => []SameWord)
<1> SUFFICES ASSUME WordOfTheCode PROVE Spec => []SameWord
  OBVIOUS
<1>1. TypeOK => SameWord
  <2> SUFFICES ASSUME TypeOK, NEW a \in Operands, NEW b \in Operands
               PROVE  LET d == DecodeInstr(fetch.pc, fetch.instr)
                          x == IF fetch.instr.rs1 = 0 THEN 0 ELSE a
                          y == IF fetch.instr.rs2 = 0 THEN 0 ELSE b
                      IN  d.fu_type = "ALU" /\ d.alu_op # "SLTIU"
                            => U32(AluExec(d, x, y)) = RtlAlu(d, U32(x), U32(y))
    BY DEF SameWord, ForOperands
  <2>1. fetch.instr \in Insn /\ a \in Int /\ b \in Int
    BY OperandsAssumption DEF TypeOK
  <2> QED BY <2>1, SameAlu
<1> QED BY <1>1, SimTypeCorrect, PTL

(***************************************************************************)
(* With the words of the code, SLTIU with an immediate that is not         *)
(* negative and all branches decide alike in the core and in the           *)
(* simulator, and lead to the same address (_alu_exec, _bru_exec,          *)
(* branch_fu.sv).                                                          *)
(***************************************************************************)
THEOREM UnitsSameDecision == WordOfTheCode => (Spec => []SameDecision)
<1> SUFFICES ASSUME WordOfTheCode PROVE Spec => []SameDecision
  OBVIOUS
<1>1. TypeOK => SameDecision
  <2> SUFFICES ASSUME TypeOK, NEW a \in Operands, NEW b \in Operands
               PROVE  LET d == DecodeInstr(fetch.pc, fetch.instr)
                          x == IF fetch.instr.rs1 = 0 THEN 0 ELSE a
                          y == IF fetch.instr.rs2 = 0 THEN 0 ELSE b
                      IN  /\ d.alu_op = "SLTIU" /\ IsWord(x) /\ d.imm >= 0
                               => AluExec(d, x, y) = RtlAlu(d, x, U32(y))
                          /\ d.fu_type = "BRU" =>
                               /\ IsWord(x) /\ IsWord(y) => BruTaken(d, x, y) = RtlTaken(d, x, y)
                               /\ BruTarget(d, x) = RtlTarget(d, U32(x))
    BY DEF SameDecision, ForOperands
  <2>1. fetch.instr \in Insn /\ fetch.pc \in Int /\ a \in Int /\ b \in Int
    BY OperandsAssumption DEF TypeOK
  <2> DEFINE x == IF fetch.instr.rs1 = 0 THEN 0 ELSE a
             y == IF fetch.instr.rs2 = 0 THEN 0 ELSE b
  <2>2. x \in Int /\ y \in Int /\ (fetch.instr.rs2 = 0 => y = 0)
    BY <2>1
  <2> HIDE DEF x, y
  <2> DEFINE d == DecodeInstr(fetch.pc, fetch.instr)
  <2>3. d.alu_op = "SLTIU" /\ d.imm >= 0 => AluExec(d, x, y) = RtlAlu(d, x, U32(y))
    BY <2>1, <2>2, SameCompare
  <2>4. BruTaken(d, x, y) = RtlTaken(d, x, y) /\ BruTarget(d, x) = RtlTarget(d, U32(x))
    BY <2>1, <2>2, SameBranch
  <2> QED BY <2>3, <2>4 DEF x, y
<1> QED BY <1>1, SimTypeCorrect, PTL
=============================================================================
