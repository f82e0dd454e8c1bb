--------------------------- MODULE MCDispatchFifo ---------------------------
(***************************************************************************)
(* The dispatch fifo between a producer and a consumer that offer and      *)
(* stall in every possible order, with flushes.                            *)
(***************************************************************************)
EXTENDS DispatchFifo, SequenceTheorems, TLAPS

VARIABLES accepted, delivered, flushed

vars == <<storage, accepted, delivered, flushed>>

Init ==
  /\ FifoInit
  /\ accepted = NoItem
  /\ delivered = NoItem
  /\ flushed = FALSE

\* What crosses the two handshakes (valid && ready) in a cycle.
Ports(in, out_ready) ==
  /\ accepted' = IF FifoPush(in, out_ready) THEN in ELSE NoItem
  /\ delivered' = IF FifoPop(out_ready) THEN FifoOut ELSE NoItem

Cycle ==
  \E in \in Item \cup {NoItem}, out_ready \in BOOLEAN :
    Ports(in, out_ready) /\ FifoEdge(in, out_ready) /\ flushed' = FALSE

FlushCycle ==
  \E in \in Item \cup {NoItem}, out_ready \in BOOLEAN :
    Ports(in, out_ready) /\ FifoFlush /\ flushed' = TRUE

Next == Cycle \/ FlushCycle

Spec == Init /\ [][Next]_vars

Elastic == INSTANCE ElasticBuffer WITH
             Capacity <- 1,
             queue <- IF storage = NoItem THEN << >> ELSE <<storage>>

(***************************************************************************)
(* The dispatch fifo is an elastic buffer of one entry: nothing it accepts *)
(* is lost, duplicated or reordered, also when a push and a pop meet in    *)
(* one cycle (dispatch_fifo.sv, in_ready and the push/pop case).           *)
(***************************************************************************)
ImplementsElasticBuffer == Elastic!Spec
-----------------------------------------------------------------------------
\* What Append gives, and the sequences a buffer of one entry deals in.
LEMMA AppendIs ==
  ASSUME NEW S, NEW s \in Seq(S), NEW b \in S, NEW t \in Seq(S),
         Len(t) = Len(s) + 1, \A i \in 1 .. Len(s) : t[i] = s[i], t[Len(s) + 1] = b
  PROVE  Append(s, b) = t
<1>1. Append(s, b) \in Seq(S) /\ Len(Append(s, b)) = Len(s) + 1
  OBVIOUS
<1>2. /\ \A i \in 1 .. Len(s) : Append(s, b)[i] = s[i]
      /\ Append(s, b)[Len(s) + 1] = b
  BY AppendProperties
<1>3. \A i \in 1 .. Len(t) : Append(s, b)[i] = t[i]
  BY <1>2
<1> QED BY <1>1, <1>3, SeqEqual

LEMMA ShortSequences ==
  ASSUME NEW a, NEW b
  PROVE  /\ Append(<< >>, a) = <<a>>
         /\ Append(<<a>>, b) = <<a, b>>
         /\ Head(<<a>>) = a /\ Tail(<<a>>) = << >>
         /\ Head(<<a, b>>) = a /\ Tail(<<a, b>>) = <<b>>
<1>1. Append(<<a>>, b) = <<a, b>>
  <2> DEFINE S == {a, b}
             s == <<a>>
             t == <<a, b>>
  <2>1. s \in Seq(S) /\ b \in S /\ t \in Seq(S)
    OBVIOUS
  <2>2. /\ Len(t) = Len(s) + 1 /\ t[Len(s) + 1] = b
        /\ \A i \in 1 .. Len(s) : t[i] = s[i]
    OBVIOUS
  <2> HIDE DEF S, s, t
  <2>3. Append(s, b) = t
    BY <2>1, <2>2, AppendIs
  <2> QED BY <2>3 DEF s, t
<1> QED BY <1>1

\* A cycle is a transfer of the elastic buffer.
LEMMA CycleTransfers == FifoTypeOK /\ Cycle => FifoTypeOK' /\ Elastic!Transfer
<1> SUFFICES ASSUME FifoTypeOK, Cycle PROVE FifoTypeOK' /\ Elastic!Transfer
  OBVIOUS
<1>1. PICK in \in Item \cup {NoItem}, out_ready \in BOOLEAN :
        Ports(in, out_ready) /\ FifoEdge(in, out_ready) /\ flushed' = FALSE
  BY DEF Cycle
<1> DEFINE queue == IF storage = NoItem THEN << >> ELSE <<storage>>
           taken == IF FifoPush(in, out_ready) THEN in ELSE NoItem
<1>2. FifoTypeOK'
  BY <1>1 DEF FifoTypeOK, FifoEdge
<1>3. taken \in Item \cup {NoItem} /\ accepted' = taken /\ Len(queue') <= 1
  BY <1>1 DEF Ports
<1>4. Elastic!Take(Elastic!Offered(taken))
  <2>1. CASE storage = NoItem
    BY <1>1, <2>1 DEF Ports, FifoEdge, FifoPush, FifoReady, FifoPop,
                      Elastic!Take, Elastic!Offered
  <2>2. CASE storage # NoItem /\ ~out_ready
    BY <1>1, <2>2 DEF Ports, FifoEdge, FifoPush, FifoReady, FifoPop,
                      Elastic!Take, Elastic!Offered
  <2>3. CASE storage # NoItem /\ out_ready
    <3>1. /\ Elastic!Offered(taken) = IF in = NoItem THEN <<storage>> ELSE <<storage, in>>
          /\ queue' = IF in = NoItem THEN << >> ELSE <<in>>
      BY <1>1, <2>3, ShortSequences DEF FifoEdge, FifoPush, FifoReady, FifoPop, Elastic!Offered
    <3>2. delivered' = storage
      BY <1>1, <2>3 DEF Ports, FifoPop, FifoOut
    <3> HIDE DEF taken
    <3> QED BY <3>1, <3>2, ShortSequences DEF Elastic!Take
  <2> QED BY <2>1, <2>2, <2>3
<1> QED BY <1>1, <1>2, <1>3, <1>4 DEF Elastic!Transfer

\* A cycle with a flush is a flush of it: what crosses the handshakes still does.
LEMMA FlushFlushes == FifoTypeOK /\ FlushCycle => FifoTypeOK' /\ Elastic!Flush
<1> SUFFICES ASSUME FifoTypeOK, FlushCycle PROVE FifoTypeOK' /\ Elastic!Flush
  OBVIOUS
<1>1. PICK in \in Item \cup {NoItem}, out_ready \in BOOLEAN :
        Ports(in, out_ready) /\ FifoFlush /\ flushed' = TRUE
  BY DEF FlushCycle
<1> DEFINE taken == IF FifoPush(in, out_ready) THEN in ELSE NoItem
<1>2. FifoTypeOK'
  BY <1>1 DEF FifoTypeOK, FifoFlush
<1>3. taken \in Item \cup {NoItem} /\ accepted' = taken
  BY <1>1 DEF Ports
<1>4. \/ delivered' = NoItem
      \/ Elastic!Offered(taken) # << >> /\ delivered' = Head(Elastic!Offered(taken))
  <2>1. CASE FifoPop(out_ready)
    <3>1. delivered' = storage /\ storage # NoItem
      BY <1>1, <2>1 DEF Ports, FifoPop, FifoOut
    <3>2. Elastic!Offered(taken) = IF taken = NoItem THEN <<storage>> ELSE <<storage, taken>>
      BY <3>1, ShortSequences DEF Elastic!Offered
    <3> QED BY <3>1, <3>2
  <2>2. CASE ~FifoPop(out_ready)
    BY <1>1, <2>2 DEF Ports
  <2> QED BY <2>1, <2>2
<1>5. (IF storage = NoItem THEN << >> ELSE <<storage>>)' = << >>
  BY <1>1 DEF FifoFlush
<1> QED BY <1>1, <1>2, <1>3, <1>4, <1>5 DEF Elastic!Flush

(***************************************************************************)
(* The dispatch fifo is an elastic buffer whatever it carries.             *)
(***************************************************************************)
THEOREM FifoIsElastic == Spec => ImplementsElasticBuffer
<1>1. Init => FifoTypeOK /\ Elastic!Init
  BY DEF Init, FifoInit, FifoTypeOK, Elastic!Init
<1>2. FifoTypeOK /\ [Next]_vars => FifoTypeOK' /\ [Elastic!Next]_Elastic!vars
  <2>1. FifoTypeOK /\ UNCHANGED vars => FifoTypeOK' /\ UNCHANGED Elastic!vars
    BY DEF vars, Elastic!vars, FifoTypeOK
  <2> QED BY <2>1, CycleTransfers, FlushFlushes DEF Next, Elastic!Next
<1> QED BY <1>1, <1>2, PTL DEF Spec, ImplementsElasticBuffer, Elastic!Spec
=============================================================================
