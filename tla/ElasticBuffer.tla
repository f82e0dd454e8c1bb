---------------------------- MODULE ElasticBuffer ---------------------------
(***************************************************************************)
(* What a buffer with valid/ready handshakes on both sides promises: every *)
(* item accepted from the producer reaches the consumer exactly once and   *)
(* in order, unless a flush discards it.                                   *)
(*                                                                         *)
(* accepted and delivered show what crossed the two handshakes in the last *)
(* cycle (NoItem if nothing did), flushed whether that cycle was a flush;  *)
(* queue holds the items in between.                                       *)
(***************************************************************************)
EXTENDS Naturals, Sequences

CONSTANTS Item, NoItem,
          Capacity      \* how many items the buffer stores between cycles

VARIABLES queue, accepted, delivered, flushed

vars == <<queue, accepted, delivered, flushed>>

Init ==
  /\ queue = << >>
  /\ accepted = NoItem
  /\ delivered = NoItem
  /\ flushed = FALSE

\* The items on offer to the consumer: a combinational path from the
\* producer lets an item be delivered in the cycle that accepts it.
Offered(in) == IF in = NoItem THEN queue ELSE Append(queue, in)

\* The consumer takes the oldest item on offer, or nothing; the rest stays.
Take(offered) ==
  \/ delivered' = NoItem /\ queue' = offered
  \/ /\ offered # << >>
     /\ delivered' = Head(offered)
     /\ queue' = Tail(offered)

Transfer ==
  /\ ~flushed'
  /\ \E in \in Item \cup {NoItem} :
    /\ accepted' = in
    /\ Take(Offered(in))
    /\ Len(queue') <= Capacity

\* A flush empties the buffer; the handshakes of that cycle still happen.
Flush ==
  /\ flushed'
  /\ \E in \in Item \cup {NoItem} :
       /\ accepted' = in
       /\ \/ delivered' = NoItem
          \/ Offered(in) # << >> /\ delivered' = Head(Offered(in))
  /\ queue' = << >>

Next == Transfer \/ Flush

Spec == Init /\ [][Next]_vars
=============================================================================
