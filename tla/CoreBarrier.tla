---------------------------- MODULE CoreBarrier -----------------------------
(***************************************************************************)
(* What a barrier promises: a core that has arrived waits until every core *)
(* has arrived, and then all are let go at once. The promise says nothing  *)
(* of how; SenseBarrier is the code that keeps it.                         *)
(***************************************************************************)
CONSTANT Cores

VARIABLE waiting        \* the cores that may not go on

Init == waiting = {}

Arrive(w) ==
    /\ w \notin waiting
    /\ waiting' = waiting \cup {w}

LetGo ==
    /\ waiting = Cores
    /\ waiting' = {}

Next == LetGo \/ \E w \in Cores : Arrive(w)

Spec == Init /\ [][Next]_waiting
=============================================================================
