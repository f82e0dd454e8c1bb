------------------------------ MODULE RobQueue ------------------------------
(***************************************************************************)
(* What the reorder buffer promises: a queue of instructions in program    *)
(* order.  Instructions join at the end, are marked done in any order,     *)
(* leave only from the front and only when done, at most one a cycle; a    *)
(* recovery discards exactly the instructions younger than the branch.     *)
(***************************************************************************)
EXTENDS Naturals, Sequences

CONSTANTS Tag, Capacity

VARIABLE rob      \* the instructions in flight, oldest first

Instruction == [tag : Tag, done : BOOLEAN]

Init == rob = << >>

Tags == {rob[k].tag : k \in DOMAIN rob}

\* Some instructions write back.
MarkDone(wb) == [k \in DOMAIN rob |-> [rob[k] EXCEPT !.done = @ \/ rob[k].tag \in wb]]

\* The front leaves in the cycle after its writeback.
Retire(kept) == IF rob # << >> /\ rob[1].done THEN Tail(kept) ELSE kept

\* At most one instruction, not done and with an unused tag, joins the queue.
Join(kept) ==
  \/ rob' = kept
  \/ /\ Len(rob) < Capacity
     /\ \E t \in Tag \ Tags : rob' = Append(kept, [tag |-> t, done |-> FALSE])

Advance == \E wb \in SUBSET Tags : Join(Retire(MarkDone(wb)))

\* A branch that is done makes everything behind it disappear.
Recover ==
  \E b \in DOMAIN rob, wb \in SUBSET Tags :
    /\ rob[b].done
    /\ rob' = Retire(SubSeq(MarkDone(wb), 1, b))

Next == Advance \/ Recover

Spec == Init /\ [][Next]_rob
=============================================================================
