--------------------------- MODULE BarrierProofs ----------------------------
(***************************************************************************)
(* barrier() of util.h lets no core go before all have arrived, for every  *)
(* number of cores and however often it is used. The inductive invariant   *)
(* is IInv: that the count is that of the cores that wait, and that a core *)
(* outside has the shared sense, is what lets the last one be told.        *)
(*                                                                         *)
(* A module that uses the barrier instantiates this one, so the number of  *)
(* cores is an assumption of each theorem.                                 *)
(***************************************************************************)
EXTENDS SenseBarrier, FiniteSetTheorems, TLAPS

\* What counting tells of the cores that wait.
LEMMA WaitingFinite ==
    ASSUME NCores \in Nat \ {0}
    PROVE  /\ IsFiniteSet(Cores) /\ Cardinality(Cores) = NCores
           /\ IsFiniteSet(Waiting)
           /\ Cardinality(Waiting) \in 0 .. NCores
           /\ Cardinality(Waiting) = NCores => Waiting = Cores
<1>1. IsFiniteSet(Cores) /\ Cardinality(Cores) = NCores
  BY FS_Interval DEF Cores
<1>2. Waiting \in SUBSET Cores
  BY DEF Waiting
<1>3. IsFiniteSet(Waiting) /\ Cardinality(Waiting) <= NCores
      /\ (Cardinality(Waiting) = NCores => Waiting = Cores)
  BY <1>1, <1>2, FS_Subset
<1>. QED BY <1>1, <1>3, FS_CardinalityType

\* All but one wait when the count is one less than the cores.
LEMMA AllButOne ==
    ASSUME NCores \in Nat \ {0}, NEW w \in Cores, w \notin Waiting,
           Cardinality(Waiting) = NCores - 1
    PROVE  Waiting = Cores \ {w}
<1>1. IsFiniteSet(Cores \ {w}) /\ Cardinality(Cores \ {w}) = NCores - 1
  BY WaitingFinite, FS_RemoveElement
<1>2. Waiting \in SUBSET (Cores \ {w})
  BY DEF Waiting
<1>. QED BY <1>1, <1>2, FS_Subset

\* No core waits at the start (barrier()'s static variables are zero).
THEOREM BarrierStarts ==
    ASSUME NCores \in Nat \ {0}, Init
    PROVE  IInv /\ CB!Init
<1>1. Waiting = {}
  BY DEF Init, Waiting
<1>2. 0 \in Cores
  BY DEF Cores
<1>3. TypeOK
  <2>1. /\ sense \in BOOLEAN
        /\ threadsense \in [Cores -> BOOLEAN]
        /\ at \in [Cores -> {"out", "spin", "clear", "release"}]
    BY DEF Init
  <2>2. count \in 0 .. NCores
    BY DEF Init
  <2>. QED BY <2>1, <2>2 DEF TypeOK
<1>4. CountMeaning
  BY <1>1, <1>2, FS_EmptySet DEF Init, CountMeaning
<1>. QED BY <1>1, <1>3, <1>4 DEF IInv, CB!Init

-----------------------------------------------------------------------------
\* A core that arrives waits, and the count finds the last one.
LEMMA ArriveStep ==
    ASSUME NCores \in Nat \ {0}, IInv, NEW w \in Cores, Arrive(w)
    PROVE  IInv' /\ CB!Arrive(w)
<1>. USE DEF IInv, TypeOK, CountMeaning
<1>1. w \notin Waiting /\ threadsense[w] = sense
  BY DEF Waiting, Arrive
<1>2. \A v \in Cores : at[v] \notin {"clear", "release"}
  BY <1>1
<1>3. count = Cardinality(Waiting) /\ Waiting # Cores
  BY <1>1, <1>2
<1>4. \A v \in Cores \ {w} : at'[v] = at[v] /\ threadsense'[v] = threadsense[v]
  BY DEF Arrive
<1>5. sense' = sense /\ count' = count + 1 /\ threadsense'[w] # sense
      /\ at'[w] = IF Last THEN "clear" ELSE "spin"
  <2>1. threadsense'[w] = ~ threadsense[w]
    BY DEF Arrive
  <2>2. threadsense[w] \in BOOLEAN /\ sense \in BOOLEAN
    OBVIOUS
  <2>. QED BY <1>1, <2>1, <2>2 DEF Arrive
<1>6. Waiting' = Waiting \cup {w}
  BY <1>4, <1>5 DEF Waiting
<1>7. /\ IsFiniteSet(Waiting') /\ Cardinality(Waiting') = count + 1
      /\ Cardinality(Waiting') <= NCores
      /\ Cardinality(Waiting') = NCores <=> Waiting' = Cores
  <2>1. IsFiniteSet(Waiting') /\ Cardinality(Waiting') = count + 1
    BY <1>1, <1>3, <1>6, WaitingFinite, FS_AddElement
  <2>2. Waiting' \in SUBSET Cores
    BY DEF Waiting
  <2>. QED BY <2>1, <2>2, WaitingFinite, FS_Subset
<1>8. TypeOK'
  <2>1. at' \in [Cores -> {"out", "spin", "clear", "release"}]
    BY DEF Arrive
  <2>2. threadsense' \in [Cores -> BOOLEAN]
    BY DEF Arrive
  <2>3. count' \in 0 .. NCores
    BY <1>5, <1>7
  <2>. QED BY <1>5, <2>1, <2>2, <2>3
<1>9. CASE Last
  <2>1. at'[w] = "clear" /\ Waiting' = Cores
    BY <1>5, <1>7, <1>9 DEF Last
  <2>2. Waiting = Cores \ {w}
    BY <1>1, <1>3, <1>9, AllButOne DEF Last
  <2>3. \A v \in Cores \ {w} : at[v] = "spin"
    BY <1>2, <2>2 DEF Waiting
  <2>4. \A v \in Cores \ {w} : at'[v] = "spin"
    BY <1>4, <2>3
  <2>5. \A v \in Cores : at'[v] # "out" /\ at'[v] # "release"
    BY <2>1, <2>4
  <2>. QED BY <1>1, <1>5, <1>6, <1>7, <1>8, <2>1, <2>4, <2>5 DEF CB!Arrive
<1>10. CASE ~ Last
  <2>1. at'[w] = "spin" /\ Waiting' # Cores
    BY <1>3, <1>5, <1>7, <1>10, WaitingFinite DEF Last
  <2>2. \A v \in Cores : at'[v] \notin {"clear", "release"}
    BY <1>2, <1>4, <2>1
  <2>3. \A v \in Cores : at'[v] = "out" => threadsense'[v] = sense'
    BY <1>4, <1>5, <2>1
  <2>. QED BY <1>1, <1>5, <1>6, <1>7, <1>8, <2>1, <2>2, <2>3 DEF CB!Arrive
<1>. QED BY <1>9, <1>10

\* All still wait when the last core has reset the count.
LEMMA ClearStep ==
    ASSUME NCores \in Nat \ {0}, IInv, NEW w \in Cores, Clear(w)
    PROVE  IInv' /\ Waiting' = Waiting
<1>. USE DEF IInv, TypeOK, CountMeaning
<1>1. at[w] = "clear" /\ at'[w] = "release" /\ count' = 0
      /\ sense' = sense /\ threadsense' = threadsense
  BY DEF Clear
<1>2. Waiting = Cores /\ threadsense[w] # sense
      /\ \A v \in Cores \ {w} : at[v] = "spin"
  BY <1>1
<1>3. \A v \in Cores \ {w} : at'[v] = "spin"
  BY <1>2 DEF Clear
<1>4. Waiting' = Waiting
  BY <1>1, <1>2, <1>3 DEF Waiting
<1>5. TypeOK'
  BY <1>1 DEF Clear
<1>. QED BY <1>1, <1>2, <1>3, <1>4, <1>5

\* The sense of the last core is that for which all others spin.
LEMMA ReleaseStep ==
    ASSUME NCores \in Nat \ {0}, IInv, NEW w \in Cores, Release(w)
    PROVE  IInv' /\ CB!LetGo
<1>. USE DEF IInv, TypeOK, CountMeaning
<1>1. at[w] = "release" /\ at'[w] = "out" /\ count' = count
      /\ sense' = threadsense[w] /\ threadsense' = threadsense
  BY DEF Release
<1>2. Waiting = Cores /\ threadsense[w] # sense /\ count = 0
      /\ \A v \in Cores \ {w} : at[v] = "spin"
  BY <1>1
<1>3. \A v \in Cores \ {w} : at'[v] = "spin"
  BY <1>2 DEF Release
<1>4. \A v \in Cores : threadsense[v] # sense
  BY <1>2 DEF Waiting
<1>5. \A v \in Cores : threadsense'[v] = sense'
  <2>1. \A v \in Cores : threadsense[v] \in BOOLEAN /\ sense \in BOOLEAN
    OBVIOUS
  <2>. QED BY <1>1, <1>4, <2>1
<1>6. Waiting' = {}
  BY <1>1, <1>3, <1>5 DEF Waiting
<1>7. TypeOK'
  BY <1>1 DEF Release
<1>8. CountMeaning'
  <2>1. \A v \in Cores : at'[v] \notin {"clear", "release"}
    BY <1>1, <1>3
  <2>2. count' = Cardinality(Waiting')
    BY <1>1, <1>2, <1>6, FS_EmptySet
  <2>3. Waiting' # Cores
    BY <1>6
  <2>. QED BY <1>5, <2>1, <2>2, <2>3
<1>. QED BY <1>2, <1>6, <1>7, <1>8 DEF CB!LetGo

\* Who leaves was already free to go.
LEMMA LeaveStep ==
    ASSUME NCores \in Nat \ {0}, IInv, NEW w \in Cores, Leave(w)
    PROVE  IInv' /\ Waiting' = Waiting
<1>. USE DEF IInv, TypeOK, CountMeaning
<1>1. at[w] = "spin" /\ at'[w] = "out" /\ sense = threadsense[w]
      /\ count' = count /\ sense' = sense /\ threadsense' = threadsense
  BY DEF Leave
<1>2. w \notin Waiting
  BY <1>1 DEF Waiting
<1>3. \A v \in Cores : at[v] \notin {"clear", "release"}
  BY <1>2
<1>4. \A v \in Cores \ {w} : at'[v] = at[v]
  BY DEF Leave
<1>5. Waiting' = Waiting
  BY <1>1, <1>4 DEF Waiting
<1>6. TypeOK'
  BY <1>1 DEF Leave
<1>7. \A v \in Cores : at'[v] \notin {"clear", "release"}
  BY <1>1, <1>3, <1>4
<1>8. \A v \in Cores : at'[v] = "out" => threadsense'[v] = sense'
  BY <1>1, <1>4
<1>. QED BY <1>1, <1>2, <1>3, <1>5, <1>6, <1>7, <1>8

(***************************************************************************)
(* Every step keeps the invariant and is a step CoreBarrier allows.        *)
(***************************************************************************)
THEOREM BarrierSteps ==
    ASSUME NCores \in Nat \ {0}, IInv, [Next]_vars
    PROVE  IInv' /\ [CB!Next]_Waiting
<1>1. CASE UNCHANGED vars
  BY <1>1 DEF vars, IInv, TypeOK, CountMeaning, Waiting
<1>2. ASSUME NEW w \in Cores, Arrive(w) PROVE IInv' /\ [CB!Next]_Waiting
  BY <1>2, ArriveStep DEF CB!Next
<1>3. ASSUME NEW w \in Cores, Clear(w) PROVE IInv' /\ [CB!Next]_Waiting
  BY <1>3, ClearStep
<1>4. ASSUME NEW w \in Cores, Release(w) PROVE IInv' /\ [CB!Next]_Waiting
  BY <1>4, ReleaseStep DEF CB!Next
<1>5. ASSUME NEW w \in Cores, Leave(w) PROVE IInv' /\ [CB!Next]_Waiting
  BY <1>5, LeaveStep
<1>. QED BY <1>1, <1>2, <1>3, <1>4, <1>5 DEF Next

(***************************************************************************)
(* The barrier of util.h keeps the promise of CoreBarrier.                 *)
(***************************************************************************)
THEOREM BarrierCorrect ==
    ASSUME NCores \in Nat \ {0}
    PROVE  Spec => BarrierSpec
<1>1. Init => IInv /\ CB!Init
  BY BarrierStarts
<1>2. IInv /\ [Next]_vars => IInv' /\ [CB!Next]_Waiting
  BY BarrierSteps
<1>. QED BY <1>1, <1>2, PTL DEF Spec, BarrierSpec, CB!Spec

-----------------------------------------------------------------------------
\* A core that has been let go but has yet to see it.
Free(w) == IF at[w] = "spin" /\ w \notin Waiting THEN 1 ELSE 0

\* That core v leaves the barrier in a step of core w.
Left(v, w) == IF v = w /\ at'[w] = "out" THEN 1 ELSE 0

(***************************************************************************)
(* The cores are let go together. A step lets none go, so that who leaves  *)
(* was free to; or all are in the barrier, none free, and it lets all go,  *)
(* the last one by leaving.                                                *)
(***************************************************************************)
THEOREM Together ==
    ASSUME NCores \in Nat \ {0}, IInv,
           NEW w \in Cores, Arrive(w) \/ Clear(w) \/ Release(w) \/ Leave(w)
    PROVE  \/ \A v \in Cores : Left(v, w) + Free(v)' = Free(v)
           \/ \A v \in Cores : at[v] # "out" /\ Free(v) = 0 /\ Left(v, w) + Free(v)' = 1
<1>. USE DEF IInv, TypeOK
<1>1. CASE Arrive(w)
  <2>1. at[w] = "out" /\ at'[w] \in {"spin", "clear"}
    BY <1>1 DEF Arrive
  <2>2. Waiting' = Waiting \cup {w}
    BY <1>1, ArriveStep DEF CB!Arrive
  <2>3. \A v \in Cores \ {w} : at'[v] = at[v]
    BY <1>1 DEF Arrive
  <2>4. \A v \in Cores : Free(v)' = Free(v)
    BY <2>1, <2>2, <2>3 DEF Free
  <2>. QED BY <2>1, <2>4 DEF Left, Free
<1>2. CASE Clear(w)
  <2>1. at[w] = "clear" /\ at'[w] = "release" /\ \A v \in Cores \ {w} : at'[v] = at[v]
    BY <1>2 DEF Clear
  <2>2. Waiting' = Waiting
    BY <1>2, ClearStep
  <2>3. \A v \in Cores : Free(v)' = Free(v)
    BY <2>1, <2>2 DEF Free
  <2>. QED BY <2>1, <2>3 DEF Left, Free
<1>3. CASE Release(w)
  <2>1. /\ at[w] = "release" /\ at'[w] = "out"
        /\ \A v \in Cores \ {w} : at'[v] = at[v] /\ at[v] = "spin"
    BY <1>3 DEF Release, CountMeaning
  <2>2. Waiting = Cores /\ Waiting' = {}
    BY <1>3, ReleaseStep DEF CB!LetGo
  <2>3. \A v \in Cores : Free(v) = 0 /\ Free(v)' = IF v = w THEN 0 ELSE 1
    BY <2>1, <2>2 DEF Free
  <2>. QED BY <2>1, <2>3 DEF Left
<1>4. CASE Leave(w)
  <2>1. at[w] = "spin" /\ at'[w] = "out" /\ \A v \in Cores \ {w} : at'[v] = at[v]
    BY <1>4 DEF Leave
  <2>2. w \notin Waiting /\ Waiting' = Waiting
    BY <1>4, LeaveStep DEF Leave, Waiting
  <2>3. \A v \in Cores : Free(v)' = IF v = w THEN 0 ELSE Free(v)
    BY <2>1, <2>2 DEF Free
  <2>4. Free(w) = 1
    BY <2>1, <2>2 DEF Free
  <2>. QED BY <2>1, <2>3, <2>4 DEF Left, Free
<1>. QED BY <1>1, <1>2, <1>3, <1>4

(***************************************************************************)
(* The cores keep pace: if n tells how often each has left the barrier,    *)
(* all have been let go equally often, and it stays so.                    *)
(***************************************************************************)
THEOREM KeepPace ==
    ASSUME NCores \in Nat \ {0}, IInv,
           NEW n \in [Cores -> Nat], NEW m \in [Cores -> Nat],
           \A v, u \in Cores : n[v] + Free(v) = n[u] + Free(u),
           NEW w \in Cores, Arrive(w) \/ Clear(w) \/ Release(w) \/ Leave(w),
           \A v \in Cores : m[v] = IF v = w /\ at'[w] = "out" THEN n[v] + 1 ELSE n[v]
    PROVE  \A v, u \in Cores : m[v] + Free(v)' = m[u] + Free(u)'
<1>1. \A v \in Cores : m[v] = n[v] + Left(v, w) /\ Left(v, w) \in {0, 1}
  BY DEF Left
<1>2. \A v \in Cores : Free(v) \in {0, 1} /\ Free(v)' \in {0, 1}
  BY DEF Free
<1>3. CASE \A v \in Cores : Left(v, w) + Free(v)' = Free(v)
  <2>1. \A v \in Cores : m[v] + Free(v)' = n[v] + Free(v)
    BY <1>1, <1>2, <1>3
  <2>. QED BY <2>1
<1>4. CASE \A v \in Cores : Free(v) = 0 /\ Left(v, w) + Free(v)' = 1
  <2>1. \A v \in Cores : m[v] + Free(v)' = n[v] + Free(v) + 1
    BY <1>1, <1>2, <1>4
  <2>. QED BY <2>1
<1>. QED BY <1>3, <1>4, Together
=============================================================================
