---------------------------- MODULE SenseBarrier ----------------------------
(***************************************************************************)
(* barrier() of the multi-core programs (benchmarks/common/util.h): a      *)
(* sense-reversing barrier. A core flips a sense of its own and counts     *)
(* itself in with one atomic addition; the last resets the count and gives *)
(* the shared sense the value of its own, for which the others spin.       *)
(* The same variables serve every use of the barrier, one after the other. *)
(***************************************************************************)
EXTENDS Integers, FiniteSets

CONSTANT NCores         \* at least 1

Cores == 0 .. NCores - 1

VARIABLES
    sense,          \* shared
    count,          \* shared: the cores that have arrived
    threadsense,    \* of each core
    at              \* where each core is: "out", "spin", "clear" or "release"

vars == <<sense, count, threadsense, at>>

TypeOK ==
    /\ sense \in BOOLEAN
    /\ count \in 0 .. NCores
    /\ threadsense \in [Cores -> BOOLEAN]
    /\ at \in [Cores -> {"out", "spin", "clear", "release"}]

Init ==
    /\ sense = FALSE
    /\ count = 0
    /\ threadsense = [w \in Cores |-> FALSE]
    /\ at = [w \in Cores |-> "out"]

(***************************************************************************)
(* threadsense is the core's own, so flipping it and counting in are one   *)
(* step. The value counted from tells the last core.                       *)
(***************************************************************************)
Bug_Last == count = NCores - 2
Last == count = NCores - 1

\* The sense is set, not flipped: good for one use.
Bug_Arrive(w) ==
    /\ at[w] = "out"
    /\ threadsense' = [threadsense EXCEPT ![w] = TRUE]
    /\ count' = count + 1
    /\ at' = [at EXCEPT ![w] = IF Last THEN "clear" ELSE "spin"]
    /\ UNCHANGED sense
Arrive(w) ==
    /\ at[w] = "out"
    /\ threadsense' = [threadsense EXCEPT ![w] = ~ @]
    /\ count' = count + 1
    /\ at' = [at EXCEPT ![w] = IF Last THEN "clear" ELSE "spin"]
    /\ UNCHANGED sense

Bug_Clear(w) ==
    /\ at[w] = "clear"
    /\ at' = [at EXCEPT ![w] = "release"]
    /\ UNCHANGED <<sense, count, threadsense>>
Clear(w) ==
    /\ at[w] = "clear"
    /\ count' = 0
    /\ at' = [at EXCEPT ![w] = "release"]
    /\ UNCHANGED <<sense, threadsense>>

Release(w) ==
    /\ at[w] = "release"
    /\ sense' = threadsense[w]
    /\ at' = [at EXCEPT ![w] = "out"]
    /\ UNCHANGED <<count, threadsense>>

\* while (sense != threadsense);
Leave(w) ==
    /\ at[w] = "spin"
    /\ sense = threadsense[w]
    /\ at' = [at EXCEPT ![w] = "out"]
    /\ UNCHANGED <<sense, count, threadsense>>

Next == \E w \in Cores : Arrive(w) \/ Clear(w) \/ Release(w) \/ Leave(w)

Spec == Init /\ [][Next]_vars

-----------------------------------------------------------------------------
(***************************************************************************)
(* The cores that may not go on: those that spin for a sense not yet given *)
(* and the last one, until it gives it.                                    *)
(***************************************************************************)
Waiting == {w \in Cores : \/ at[w] = "spin" /\ sense # threadsense[w]
                          \/ at[w] \in {"clear", "release"}}

CB == INSTANCE CoreBarrier WITH waiting <- Waiting

(***************************************************************************)
(* The barrier keeps the promise of CoreBarrier, however often it is used  *)
(* and however far behind a core is in leaving the use before: no core is  *)
(* let go before all have arrived.                                         *)
(***************************************************************************)
BarrierSpec == CB!Spec

(***************************************************************************)
(* Why it does: a core outside has the shared sense; the count is that of  *)
(* the cores that wait, except while the last one is resetting it, when    *)
(* all wait.                                                               *)
(***************************************************************************)
CountMeaning ==
    /\ \A w \in Cores : at[w] = "out" => threadsense[w] = sense
    /\ \A w \in Cores : at[w] \in {"clear", "release"} =>
         /\ threadsense[w] # sense
         /\ Waiting = Cores
         /\ \A v \in Cores \ {w} : at[v] = "spin"
    /\ count = IF \E w \in Cores : at[w] = "release" THEN 0 ELSE Cardinality(Waiting)
    /\ Waiting = Cores => \E w \in Cores : at[w] \in {"clear", "release"}

IInv == TypeOK /\ CountMeaning
=============================================================================
