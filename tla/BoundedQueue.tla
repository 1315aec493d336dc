---------------------------- MODULE BoundedQueue ----------------------------
(***************************************************************************)
(* What fifo.v promises: a queue of at most DEPTH items, on which a write  *)
(* and a read may meet in one cycle.  Both are judged by the length the    *)
(* queue has before the cycle; a write to a full and a read from an empty  *)
(* queue do nothing.                                                       *)
(***************************************************************************)
EXTENDS Integers, Sequences

CONSTANTS Item, Zero, DEPTH

VARIABLES
    items,              \* the queue, oldest first
    dout                \* the item read last

queueVars == <<items, dout>>

Init == items = <<>>

Clear == items' = <<>> /\ dout' = Zero

\* One cycle that writes an item or none, and reads or not.
Write(d) == Len(items) < DEPTH /\ items' = Append(items, d) /\ UNCHANGED dout
Read     == items # <<>> /\ dout' = Head(items) /\ items' = Tail(items)
Both(d)  == /\ items # <<>> /\ Len(items) < DEPTH
            /\ dout' = Head(items) /\ items' = Append(Tail(items), d)

Next == Clear \/ Read \/ \E d \in Item : Write(d) \/ Both(d)

Spec == Init /\ [][Next]_queueVars
=============================================================================
