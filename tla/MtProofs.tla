------------------------------ MODULE MtProofs ------------------------------
(***************************************************************************)
(* The barriers of the multi-core programs keep their promise in the       *)
(* programs, for every number of cores and every kernel: whatever a core   *)
(* does between them leaves them alone, and what it does at one is a step  *)
(* of the barrier (BarrierProofs). So a kernel that violates its check     *)
(* does so by its shares, never by the barrier. And where the shares and   *)
(* the barriers of the programs keep conflicting steps apart, no execution *)
(* has a race. Kernels that have an outline (MtOutline) put each product   *)
(* into each cell once; eight multiplications and the five additions have  *)
(* one for every size of the data that suits them.                         *)
(***************************************************************************)
EXTENDS MtOutline, FiniteSetTheorems, SequenceTheorems, TLAPS

KP == INSTANCE BarrierProofs
DP == INSTANCE BarrierProofs
        WITH sense <- dsense, count <- dcount, threadsense <- dthreadsense, at <- dat

\* A step of the program is a step of each barrier, or leaves it alone.
LEMMA BarriersStep ==
    ASSUME [Next]_vars
    PROVE  [KB!Next]_kernelBarrier /\ [DB!Next]_driverBarrier
<1>1. CASE UNCHANGED vars
  BY <1>1 DEF vars
<1>2. ASSUME NEW w \in Cores, Load(w) \/ Store(w) \/ FillCopy(w) \/ Verify(w)
      PROVE  UNCHANGED kernelBarrier /\ UNCHANGED driverBarrier
  BY <1>2 DEF Load, Store, FillCopy, Verify
<1>3. ASSUME NEW w \in Cores, AtBarrier(w)
      PROVE  KB!Next /\ UNCHANGED driverBarrier
  BY <1>3 DEF AtBarrier, KB!Next, KB!Cores, Cores
<1>4. ASSUME NEW w \in Cores, AtSync(w)
      PROVE  DB!Next /\ UNCHANGED kernelBarrier
  BY <1>4 DEF AtSync, DB!Next, DB!Cores, Cores
<1>. QED BY <1>1, <1>2, <1>3, <1>4 DEF Next, Core

\* The barrier of the kernel's file (barrier() of util.h in XX_matmul.c).
THEOREM KernelBarrier == Spec => KernelBarrierSpec
<1>1. KP!Spec => KP!BarrierSpec
  BY JobsAssumption, KP!BarrierCorrect
<1>2. Init => KP!Init
  BY DEF Init, KB!Init, KP!Init, KB!Cores, KP!Cores
<1>3. [Next]_vars => [KP!Next]_(KP!vars)
  <2>1. [Next]_vars => [KB!Next]_kernelBarrier
    BY BarriersStep
  <2>2. KB!Next => KP!Next
    BY DEF KB!Next, KP!Next, KB!Cores, KP!Cores, KB!Last, KP!Last,
       KB!Arrive, KP!Arrive, KB!Clear, KP!Clear,
       KB!Release, KP!Release, KB!Leave, KP!Leave
  <2>. QED BY <2>1, <2>2 DEF kernelBarrier, KP!vars
<1>4. KP!CB!Init => KB!CB!Init
  BY DEF KP!CB!Init, KB!CB!Init, KP!Waiting, KB!Waiting, KP!Cores, KB!Cores
<1>5. [KP!CB!Next]_(KP!Waiting) => [KB!CB!Next]_(KB!Waiting)
  BY DEF KP!CB!Next, KB!CB!Next, KP!CB!Arrive, KB!CB!Arrive, KP!CB!LetGo, KB!CB!LetGo,
     KP!Waiting, KB!Waiting, KP!Cores, KB!Cores
<1>. QED
  BY <1>1, <1>2, <1>3, <1>4, <1>5, PTL
  DEF Spec, KP!Spec, KP!BarrierSpec, KP!CB!Spec, KernelBarrierSpec, KB!BarrierSpec, KB!CB!Spec

\* The barrier of the driver's file (mt-matmul.c, mt-vvadd.c).
THEOREM DriverBarrier == Spec => DriverBarrierSpec
<1>1. DP!Spec => DP!BarrierSpec
  BY JobsAssumption, DP!BarrierCorrect
<1>2. Init => DP!Init
  BY DEF Init, DB!Init, DP!Init, DB!Cores, DP!Cores
<1>3. [Next]_vars => [DP!Next]_(DP!vars)
  <2>1. [Next]_vars => [DB!Next]_driverBarrier
    BY BarriersStep
  <2>2. DB!Next => DP!Next
    BY DEF DB!Next, DP!Next, DB!Cores, DP!Cores, DB!Last, DP!Last,
       DB!Arrive, DP!Arrive, DB!Clear, DP!Clear,
       DB!Release, DP!Release, DB!Leave, DP!Leave
  <2>. QED BY <2>1, <2>2 DEF driverBarrier, DP!vars
<1>4. DP!CB!Init => DB!CB!Init
  BY DEF DP!CB!Init, DB!CB!Init, DP!Waiting, DB!Waiting, DP!Cores, DB!Cores
<1>5. [DP!CB!Next]_(DP!Waiting) => [DB!CB!Next]_(DB!Waiting)
  BY DEF DP!CB!Next, DB!CB!Next, DP!CB!Arrive, DB!CB!Arrive, DP!CB!LetGo, DB!CB!LetGo,
     DP!Waiting, DB!Waiting, DP!Cores, DB!Cores
<1>. QED
  BY <1>1, <1>2, <1>3, <1>4, <1>5, PTL
  DEF Spec, DP!Spec, DP!BarrierSpec, DP!CB!Spec, DriverBarrierSpec, DB!BarrierSpec, DB!CB!Spec

-----------------------------------------------------------------------------
(***************************************************************************)
(* No race, in any interleaving. Two cores that are both outside of the    *)
(* barriers have passed each barrier equally often (Even), so what they do *)
(* next lies between the same barriers; and there the programs keep apart  *)
(* what conflicts. A core in a barrier is at a step that says so (AtStep). *)
(***************************************************************************)
AtStep == \A w \in Cores :
    /\ at[w] # "out" => ~ Done(w) /\ Step(w).do = "barrier" /\ dat[w] = "out"
    /\ dat[w] # "out" => ~ Done(w) /\ Step(w).do = "sync"

Barriers(w) == Count("barrier", job, w, pc[w])
Syncs(w)    == Count("sync", job, w, pc[w])

Even == \A v, w \in Cores :
    /\ Barriers(v) + KP!Free(v) = Barriers(w) + KP!Free(w)
    /\ Syncs(v) + DP!Free(v) = Syncs(w) + DP!Free(w)

IInv == TypeOK /\ KP!IInv /\ DP!IInv /\ AtStep /\ Even

-----------------------------------------------------------------------------
\* A step of the program is a step of the barriers as BarrierProofs has them.
LEMMA BarriersNext ==
    ASSUME [Next]_vars
    PROVE  [KP!Next]_(KP!vars) /\ [DP!Next]_(DP!vars)
<1>1. [KB!Next]_kernelBarrier /\ [DB!Next]_driverBarrier
  BY BarriersStep
<1>2. KB!Next => KP!Next
  BY DEF KB!Next, KP!Next, KB!Cores, KP!Cores, KB!Last, KP!Last,
     KB!Arrive, KP!Arrive, KB!Clear, KP!Clear,
     KB!Release, KP!Release, KB!Leave, KP!Leave
<1>3. DB!Next => DP!Next
  BY DEF DB!Next, DP!Next, DB!Cores, DP!Cores, DB!Last, DP!Last,
     DB!Arrive, DP!Arrive, DB!Clear, DP!Clear,
     DB!Release, DP!Release, DB!Leave, DP!Leave
<1>. QED BY <1>1, <1>2, <1>3 DEF kernelBarrier, driverBarrier, KP!vars, DP!vars

LEMMA BarriersTyped ==
    /\ KB!TypeOK <=> KP!TypeOK
    /\ DB!TypeOK <=> DP!TypeOK
    /\ KB!Cores = Cores /\ KP!Cores = Cores /\ DB!Cores = Cores /\ DP!Cores = Cores
BY DEF KB!TypeOK, KP!TypeOK, DB!TypeOK, DP!TypeOK, KB!Cores, KP!Cores, DB!Cores, DP!Cores, Cores

\* What counting steps gives.
LEMMA CountType ==
    ASSUME NEW what, NEW j, NEW w, NEW p \in Nat
    PROVE  Count(what, j, w, p) \in Nat
<1>. DEFINE S == {q \in 1 .. p - 1 : Program[j][w][q].do = what}
<1>1. IsFiniteSet(1 .. p - 1)
  BY FS_Interval
<1>2. IsFiniteSet(S)
  BY <1>1, FS_Subset
<1>3. Cardinality(S) \in Nat
  BY <1>2, FS_CardinalityType
<1>. QED BY <1>3 DEF Count

LEMMA CountNext ==
    ASSUME NEW what, NEW j, NEW w, NEW p \in Nat \ {0}
    PROVE  Count(what, j, w, p + 1)
             = IF Program[j][w][p].do = what THEN Count(what, j, w, p) + 1 ELSE Count(what, j, w, p)
<1>. DEFINE S == {q \in 1 .. p - 1 : Program[j][w][q].do = what}
            T == {q \in 1 .. p : Program[j][w][q].do = what}
<1>1. IsFiniteSet(S)
  <2>1. IsFiniteSet(1 .. p - 1)
    BY FS_Interval
  <2>. QED BY <2>1, FS_Subset
<1>2. T = IF Program[j][w][p].do = what THEN S \cup {p} ELSE S
  OBVIOUS
<1>3. p \notin S
  OBVIOUS
<1>4. Cardinality(S \cup {p}) = Cardinality(S) + 1
  BY <1>1, <1>3, FS_AddElement
<1>5. Count(what, j, w, p) = Cardinality(S) /\ Count(what, j, w, p + 1) = Cardinality(T)
  BY DEF Count
<1>. QED BY <1>2, <1>4, <1>5

-----------------------------------------------------------------------------
\* What holds of the cores and the barriers (IInv) holds in the beginning.
LEMMA CoresStart ==
    ASSUME TypedJobs = Jobs, Init
    PROVE  IInv
<1>1. KP!IInv /\ DP!IInv
  <2>1. KP!Init /\ DP!Init
    BY DEF Init, KB!Init, KP!Init, KB!Cores, KP!Cores, DB!Init, DP!Init, DB!Cores, DP!Cores
  <2>. QED BY <2>1, JobsAssumption, KP!BarrierStarts, DP!BarrierStarts
<1>2. \A w \in Cores : at[w] = "out" /\ dat[w] = "out" /\ pc[w] = 1
  BY DEF Init, KB!Init, DB!Init, KB!Cores, DB!Cores, Cores
<1>3. TypeOK
  <2>1. KB!TypeOK /\ DB!TypeOK
    BY <1>1, BarriersTyped DEF KP!IInv, DP!IInv
  <2>2. job \in TypedJobs
    BY DEF Init
  <2>3. \A w \in Cores : Len(Program[job][w]) \in Nat
    BY <2>2 DEF TypedJobs
  <2>4. pc \in [Cores -> Nat] /\ \A w \in Cores : pc[w] \in 1 .. Len(Program[job][w]) + 1
    BY <1>2, <2>3 DEF Init
  <2>5. reg \in [Cores -> SUBSET (Int \X Int)] /\ cell = {} /\ copy = {} /\ failed = FALSE
    BY DEF Init
  <2>. QED BY <2>1, <2>2, <2>4, <2>5 DEF TypeOK
<1>4. AtStep
  BY <1>2 DEF AtStep
<1>5. Even
  <2>1. \A w \in Cores : Barriers(w) = 0 /\ Syncs(w) = 0
    <3>1. \A j, w, what : {q \in 1 .. 1 - 1 : Program[j][w][q].do = what} = {}
      OBVIOUS
    <3>. QED BY <1>2, <3>1, FS_EmptySet DEF Barriers, Syncs, Count
  <2>2. \A w \in Cores : KP!Free(w) = 0 /\ DP!Free(w) = 0
    BY <1>2 DEF KP!Free, DP!Free
  <2>. QED BY <2>1, <2>2 DEF Even
<1>. QED BY <1>1, <1>3, <1>4, <1>5 DEF IInv

-----------------------------------------------------------------------------
\* A core's next step is one of its program's.
LEMMA StepTyped ==
    ASSUME TypeOK, NEW w \in Cores, ~ Done(w)
    PROVE  /\ Program[job][w] \in Seq(Steps)
           /\ pc[w] \in 1 .. Len(Program[job][w])
           /\ Step(w) \in Steps
<1>1. Program[job][w] \in Seq(Steps)
  BY DEF TypeOK, TypedJobs
<1>2. Len(Program[job][w]) \in Nat /\ pc[w] \in 1 .. Len(Program[job][w]) + 1
  BY <1>1 DEF TypeOK
<1>3. pc[w] \in 1 .. Len(Program[job][w])
  BY <1>2 DEF Done
<1>. QED BY <1>1, <1>3 DEF Step

\* The program counters stay in the programs.
LEMMA ProceedTyped ==
    ASSUME TypeOK, NEW w \in Cores, ~ Done(w), Proceed(w), UNCHANGED job
    PROVE  /\ pc' \in [Cores -> Nat]
           /\ \A v \in Cores : pc'[v] \in 1 .. Len(Program[job][v]) + 1
           /\ pc'[w] = pc[w] + 1 /\ \A v \in Cores \ {w} : pc'[v] = pc[v]
<1>1. pc \in [Cores -> Nat] /\ \A v \in Cores : pc[v] \in 1 .. Len(Program[job][v]) + 1
  BY DEF TypeOK
<1>2. pc' = [pc EXCEPT ![w] = pc[w] + 1]
  BY DEF Proceed
<1>3. pc'[w] = pc[w] + 1 /\ \A v \in Cores \ {w} : pc'[v] = pc[v]
  BY <1>1, <1>2
<1>4. Program[job][w] \in Seq(Steps) /\ pc[w] \in 1 .. Len(Program[job][w])
  BY StepTyped
<1>5. pc'[w] \in 1 .. Len(Program[job][w]) + 1
  BY <1>3, <1>4
<1>. QED BY <1>1, <1>2, <1>3, <1>5

\* What a core does outside of the barriers moves it past none.
LEMMA PlainStep ==
    ASSUME IInv, NEW w \in Cores, ~ Done(w), Step(w).do \notin {"barrier", "sync"},
           at[w] = "out", dat[w] = "out", Proceed(w),
           UNCHANGED <<job, kernelBarrier, driverBarrier>>
    PROVE  AtStep' /\ Even'
<1>. USE DEF IInv
<1>1. pc'[w] = pc[w] + 1 /\ \A v \in Cores \ {w} : pc'[v] = pc[v]
  BY ProceedTyped
<1>2. pc[w] \in Nat \ {0}
  BY StepTyped
<1>3. job' = job /\ at' = at /\ dat' = dat
  BY DEF kernelBarrier, driverBarrier
<1>4. \A v \in Cores : KP!Free(v)' = KP!Free(v) /\ DP!Free(v)' = DP!Free(v)
  BY DEF kernelBarrier, driverBarrier, KP!Free, DP!Free, KP!Waiting, DP!Waiting
<1>5. \A v \in Cores : Barriers(v)' = Barriers(v) /\ Syncs(v)' = Syncs(v)
  <2>1. Barriers(w)' = Barriers(w) /\ Syncs(w)' = Syncs(w)
    BY <1>1, <1>2, <1>3, CountNext DEF Barriers, Syncs, Step
  <2>. QED BY <1>1, <1>3, <2>1 DEF Barriers, Syncs
<1>6. Even'
  BY <1>4, <1>5 DEF Even
<1>7. AtStep'
  <2>1. \A v \in Cores \ {w} : Done(v)' = Done(v) /\ Step(v)' = Step(v)
    BY <1>1, <1>3 DEF Done, Step
  <2>. QED BY <1>3, <2>1 DEF AtStep
<1>. QED BY <1>6, <1>7

\* A sum of products is one.
LEMMA PlusTyped ==
    ASSUME NEW sum \in SUBSET (Int \X Int), NEW ab \in SUBSET (Int \X Int)
    PROVE  Plus(sum, ab) \in SUBSET (Int \X Int)
<1>1. Twice \in Int \X Int
  BY DEF Twice
<1>. QED BY <1>1 DEF Plus

LEMMA FromCopyTyped ==
    ASSUME copy \in SUBSET (Int \X Int), NEW ab \in SUBSET (Int \X Int)
    PROVE  FromCopy(ab) \in SUBSET (Int \X Int)
<1>1. SUFFICES ASSUME NEW x \in FromCopy(ab) PROVE x \in Int \X Int
  OBVIOUS
<1>2. PICK p \in ab : x \in {<<p[1], f[2]>> : f \in {g \in copy : g[1] = p[2]}}
  BY <1>1 DEF FromCopy
<1>3. PICK f \in copy : x = <<p[1], f[2]>>
  BY <1>2
<1>. QED BY <1>3

\* The steps outside of the barriers keep the data in range.
LEMMA WorkTyped ==
    ASSUME IInv, NEW w \in Cores, Load(w) \/ Store(w) \/ FillCopy(w) \/ Verify(w)
    PROVE  /\ ~ Done(w) /\ Step(w).do \notin {"barrier", "sync"}
           /\ at[w] = "out" /\ dat[w] = "out"
           /\ Proceed(w) /\ UNCHANGED <<job, kernelBarrier, driverBarrier>>
           /\ TypeOK'
<1>1. /\ ~ Done(w) /\ Step(w).do \notin {"barrier", "sync"}
      /\ at[w] = "out" /\ dat[w] = "out"
      /\ Proceed(w) /\ UNCHANGED <<job, kernelBarrier, driverBarrier>>
  BY DEF Load, Store, FillCopy, Verify, Runs
<1>2. TypeOK /\ Step(w) \in Steps
  BY <1>1, StepTyped DEF IInv
<1>3. /\ job' \in TypedJobs
      /\ pc' \in [Cores -> Nat]
      /\ \A v \in Cores : pc'[v] \in 1 .. Len(Program[job'][v]) + 1
      /\ KB!TypeOK' /\ DB!TypeOK'
  BY <1>1, <1>2, ProceedTyped DEF TypeOK, KB!TypeOK, DB!TypeOK, kernelBarrier, driverBarrier
<1>4. /\ reg \in [Cores -> SUBSET (Int \X Int)]
      /\ cell \in SUBSET (Int \X Int) /\ copy \in SUBSET (Int \X Int)
      /\ failed \in BOOLEAN
  BY <1>2 DEF TypeOK
<1>5. /\ reg' \in [Cores -> SUBSET (Int \X Int)]
      /\ cell' \in SUBSET (Int \X Int) /\ copy' \in SUBSET (Int \X Int)
      /\ failed' \in BOOLEAN
  <2>1. CASE Load(w)
    <3>. DEFINE start == IF Step(w).old THEN cell ELSE {}
                added == Step(w).ab \cup FromCopy(Step(w).copied)
    <3>1. Step(w).ab \in SUBSET (Int \X Int) /\ Step(w).copied \in SUBSET (Int \X Int)
      BY <1>2, <2>1 DEF Load, Runs, Steps
    <3>2. start \in SUBSET (Int \X Int) /\ added \in SUBSET (Int \X Int)
      BY <1>4, <3>1, FromCopyTyped
    <3>3. Plus(start, added) \in SUBSET (Int \X Int)
      BY <3>2, PlusTyped
    <3>4. reg' = [reg EXCEPT ![w] = Plus(start, added)] /\ UNCHANGED data
      BY <2>1 DEF Load
    <3>. HIDE DEF start, added
    <3>. QED BY <1>4, <3>3, <3>4 DEF data
  <2>2. CASE Store(w)
    BY <1>4, <2>2 DEF Store
  <2>3. CASE FillCopy(w)
    <3>1. Step(w).at \in Int /\ Step(w).from \in Int
      BY <1>2, <2>3 DEF FillCopy, Runs, Steps
    <3>. QED BY <1>4, <2>3, <3>1 DEF FillCopy
  <2>4. CASE Verify(w)
    BY <1>4, <2>4 DEF Verify
  <2>. QED BY <2>1, <2>2, <2>3, <2>4
<1>. QED BY <1>1, <1>3, <1>5 DEF TypeOK

-----------------------------------------------------------------------------
\* A core in a barrier is at that barrier's step, and no step of another core's.
LEMMA InBarrier ==
    ASSUME IInv, NEW w \in Cores, AtBarrier(w)
    PROVE  /\ ~ Done(w) /\ Step(w).do = "barrier" /\ dat[w] = "out"
           /\ KP!Arrive(w) \/ KP!Clear(w) \/ KP!Release(w) \/ KP!Leave(w)
           /\ at \in [Cores -> {"out", "spin", "clear", "release"}]
           /\ at'[w] \in {"out", "spin", "clear", "release"}
           /\ \A v \in Cores \ {w} : at'[v] = at[v]
           /\ UNCHANGED <<job, reg, data, driverBarrier>>
<1>1. /\ \/ Runs(w, "barrier") /\ KB!Arrive(w)
         \/ KB!Clear(w) \/ KB!Release(w) \/ KB!Leave(w)
      /\ UNCHANGED <<job, reg, data, driverBarrier>>
  BY DEF AtBarrier
<1>2. ~ Done(w) /\ Step(w).do = "barrier" /\ dat[w] = "out"
  <2>1. CASE Runs(w, "barrier")
    BY <2>1 DEF Runs
  <2>2. CASE at[w] # "out"
    BY <2>2 DEF IInv, AtStep
  <2>. QED BY <1>1, <2>1, <2>2 DEF KB!Clear, KB!Release, KB!Leave
<1>3. at \in [Cores -> {"out", "spin", "clear", "release"}]
  BY BarriersTyped DEF IInv, TypeOK, KB!TypeOK
<1>4. \E x \in {"out", "spin", "clear", "release"} : at' = [at EXCEPT ![w] = x]
  BY <1>1 DEF KB!Arrive, KB!Clear, KB!Release, KB!Leave
<1>5. KP!Arrive(w) \/ KP!Clear(w) \/ KP!Release(w) \/ KP!Leave(w)
  BY <1>1 DEF KB!Last, KP!Last, KB!Arrive, KP!Arrive, KB!Clear, KP!Clear,
              KB!Release, KP!Release, KB!Leave, KP!Leave
<1>. QED BY <1>1, <1>2, <1>3, <1>4, <1>5

LEMMA InSync ==
    ASSUME IInv, NEW w \in Cores, AtSync(w)
    PROVE  /\ ~ Done(w) /\ Step(w).do = "sync" /\ at[w] = "out"
           /\ DP!Arrive(w) \/ DP!Clear(w) \/ DP!Release(w) \/ DP!Leave(w)
           /\ dat \in [Cores -> {"out", "spin", "clear", "release"}]
           /\ dat'[w] \in {"out", "spin", "clear", "release"}
           /\ \A v \in Cores \ {w} : dat'[v] = dat[v]
           /\ UNCHANGED <<job, reg, data, kernelBarrier>>
<1>1. /\ \/ Runs(w, "sync") /\ DB!Arrive(w)
         \/ DB!Clear(w) \/ DB!Release(w) \/ DB!Leave(w)
      /\ UNCHANGED <<job, reg, data, kernelBarrier>>
  BY DEF AtSync
<1>2. ~ Done(w) /\ Step(w).do = "sync" /\ at[w] = "out"
  <2>1. CASE Runs(w, "sync")
    BY <2>1 DEF Runs
  <2>2. CASE dat[w] # "out"
    BY <2>2 DEF IInv, AtStep
  <2>. QED BY <1>1, <2>1, <2>2 DEF DB!Clear, DB!Release, DB!Leave
<1>3. dat \in [Cores -> {"out", "spin", "clear", "release"}]
  BY BarriersTyped DEF IInv, TypeOK, DB!TypeOK
<1>4. \E x \in {"out", "spin", "clear", "release"} : dat' = [dat EXCEPT ![w] = x]
  BY <1>1 DEF DB!Arrive, DB!Clear, DB!Release, DB!Leave
<1>5. DP!Arrive(w) \/ DP!Clear(w) \/ DP!Release(w) \/ DP!Leave(w)
  BY <1>1 DEF DB!Last, DP!Last, DB!Arrive, DP!Arrive, DB!Clear, DP!Clear,
              DB!Release, DP!Release, DB!Leave, DP!Leave
<1>. QED BY <1>1, <1>2, <1>3, <1>4, <1>5

\* How a barrier step moves the program counters.
LEMMA BarrierMoves ==
    ASSUME TypeOK, NEW w \in Cores, ~ Done(w), UNCHANGED job,
           NEW gone \in BOOLEAN, IF gone THEN Proceed(w) ELSE UNCHANGED pc
    PROVE  /\ pc' \in [Cores -> Nat]
           /\ \A v \in Cores : pc'[v] \in 1 .. Len(Program[job][v]) + 1
           /\ \A v \in Cores : pc'[v] = IF v = w /\ gone THEN pc[v] + 1 ELSE pc[v]
<1>1. CASE gone
  BY <1>1, ProceedTyped
<1>2. CASE ~ gone
  BY <1>2 DEF TypeOK
<1>. QED BY <1>1, <1>2

\* How it moves the counts.
LEMMA BarrierCounts ==
    ASSUME TypeOK, NEW w \in Cores, ~ Done(w), UNCHANGED job,
           NEW gone \in BOOLEAN, IF gone THEN Proceed(w) ELSE UNCHANGED pc
    PROVE  /\ \A v \in Cores : Barriers(v) \in Nat /\ Syncs(v) \in Nat
           /\ \A v \in Cores : Barriers(v)' =
                IF v = w /\ gone /\ Step(w).do = "barrier" THEN Barriers(v) + 1 ELSE Barriers(v)
           /\ \A v \in Cores : Syncs(v)' =
                IF v = w /\ gone /\ Step(w).do = "sync" THEN Syncs(v) + 1 ELSE Syncs(v)
<1>1. \A v \in Cores : pc'[v] = IF v = w /\ gone THEN pc[v] + 1 ELSE pc[v]
  BY BarrierMoves
<1>2. pc[w] \in Nat \ {0}
  BY StepTyped
<1>3. \A v \in Cores : pc[v] \in Nat
  BY DEF TypeOK
<1>4. \A v \in Cores : Barriers(v) \in Nat /\ Syncs(v) \in Nat
  BY <1>3, CountType DEF Barriers, Syncs
<1>5. Count("barrier", job, w, pc[w] + 1) =
        IF Step(w).do = "barrier" THEN Barriers(w) + 1 ELSE Barriers(w)
  BY <1>2, CountNext DEF Barriers, Step
<1>6. Count("sync", job, w, pc[w] + 1) =
        IF Step(w).do = "sync" THEN Syncs(w) + 1 ELSE Syncs(w)
  BY <1>2, CountNext DEF Syncs, Step
<1>7. \A v \in Cores : Barriers(v)' = Count("barrier", job, v, pc'[v])
                       /\ Syncs(v)' = Count("sync", job, v, pc'[v])
  BY DEF Barriers, Syncs
<1>8. \A v \in Cores \ {w} : pc'[v] = pc[v]
  BY <1>1
<1>9. \A v \in Cores \ {w} : Barriers(v)' = Barriers(v) /\ Syncs(v)' = Syncs(v)
  BY <1>7, <1>8 DEF Barriers, Syncs
<1>10. CASE gone
  <2>1. pc'[w] = pc[w] + 1
    BY <1>1, <1>10
  <2>. QED BY <1>4, <1>5, <1>6, <1>7, <1>9, <1>10, <2>1
<1>11. CASE ~ gone
  <2>1. pc'[w] = pc[w]
    BY <1>1, <1>11
  <2>2. Barriers(w)' = Barriers(w) /\ Syncs(w)' = Syncs(w)
    BY <1>7, <2>1 DEF Barriers, Syncs
  <2>. QED BY <1>4, <1>9, <1>11, <2>2
<1>. QED BY <1>10, <1>11

LEMMA AtBarrierKeeps ==
    ASSUME IInv, NEW w \in Cores, AtBarrier(w)
    PROVE  AtStep' /\ Even'
<1>. USE DEF IInv
<1>. DEFINE gone == at'[w] = "out"
<1>1. /\ ~ Done(w) /\ Step(w).do = "barrier" /\ dat[w] = "out"
      /\ KP!Arrive(w) \/ KP!Clear(w) \/ KP!Release(w) \/ KP!Leave(w)
      /\ \A v \in Cores \ {w} : at'[v] = at[v]
      /\ UNCHANGED <<job, reg, data, driverBarrier>>
  BY InBarrier
<1>2. gone \in BOOLEAN /\ IF gone THEN Proceed(w) ELSE UNCHANGED pc
  BY DEF AtBarrier
<1>3. job' = job /\ dat' = dat /\ \A v \in Cores : DP!Free(v)' = DP!Free(v)
  BY <1>1 DEF driverBarrier, DP!Free, DP!Waiting
<1>4. \A v \in Cores : pc'[v] = IF v = w /\ gone THEN pc[v] + 1 ELSE pc[v]
  BY <1>1, <1>2, <1>3, BarrierMoves
<1>5. /\ \A v \in Cores : Barriers(v) \in Nat
      /\ \A v \in Cores : Barriers(v)' = IF v = w /\ gone THEN Barriers(v) + 1 ELSE Barriers(v)
      /\ \A v \in Cores : Syncs(v)' = Syncs(v)
  BY <1>1, <1>2, <1>3, BarrierCounts
<1>6. \A v, u \in Cores : Barriers(v)' + KP!Free(v)' = Barriers(u)' + KP!Free(u)'
  <2>. DEFINE n == [v \in Cores |-> Barriers(v)]
              m == [v \in Cores |-> Barriers(v)']
  <2>1. /\ n \in [Cores -> Nat] /\ m \in [Cores -> Nat]
        /\ \A v, u \in Cores : n[v] + KP!Free(v) = n[u] + KP!Free(u)
        /\ \A v \in Cores : m[v] = IF v = w /\ gone THEN n[v] + 1 ELSE n[v]
    BY <1>5 DEF Even
  <2>2. NCores \in Nat \ {0} /\ KP!IInv /\ KP!Cores = Cores
    BY JobsAssumption, BarriersTyped
  <2>. HIDE DEF n, m
  <2>3. \A v, u \in Cores : m[v] + KP!Free(v)' = m[u] + KP!Free(u)'
    <3>. HIDE DEF IInv
    <3>1. KP!Arrive(w) \/ KP!Clear(w) \/ KP!Release(w) \/ KP!Leave(w)
      BY <1>1
    <3>2. /\ w \in KP!Cores
          /\ n \in [KP!Cores -> Nat] /\ m \in [KP!Cores -> Nat]
          /\ \A v, u \in KP!Cores : n[v] + KP!Free(v) = n[u] + KP!Free(u)
          /\ \A v \in KP!Cores :
               m[v] = IF v = w /\ at'[w] = "out" THEN n[v] + 1 ELSE n[v]
      BY <2>1, <2>2
    <3>3. \A v, u \in KP!Cores : m[v] + KP!Free(v)' = m[u] + KP!Free(u)'
      BY <2>2, <3>1, <3>2, KP!KeepPace
    <3>. QED BY <2>2, <3>3
  <2>. QED BY <2>3 DEF m
<1>7. Even'
  BY <1>3, <1>5, <1>6 DEF Even
<1>8. AtStep'
  <2>1. \A v \in Cores \ {w} : Done(v)' = Done(v) /\ Step(v)' = Step(v)
    BY <1>3, <1>4 DEF Done, Step
  <2>2. ~ gone => Done(w)' = Done(w) /\ Step(w)' = Step(w)
    BY <1>3, <1>4 DEF Done, Step
  <2>. QED BY <1>1, <1>3, <2>1, <2>2 DEF AtStep
<1>. QED BY <1>7, <1>8

LEMMA AtSyncKeeps ==
    ASSUME IInv, NEW w \in Cores, AtSync(w)
    PROVE  AtStep' /\ Even'
<1>. USE DEF IInv
<1>. DEFINE gone == dat'[w] = "out"
<1>1. /\ ~ Done(w) /\ Step(w).do = "sync" /\ at[w] = "out"
      /\ DP!Arrive(w) \/ DP!Clear(w) \/ DP!Release(w) \/ DP!Leave(w)
      /\ \A v \in Cores \ {w} : dat'[v] = dat[v]
      /\ UNCHANGED <<job, reg, data, kernelBarrier>>
  BY InSync
<1>2. gone \in BOOLEAN /\ IF gone THEN Proceed(w) ELSE UNCHANGED pc
  BY DEF AtSync
<1>3. job' = job /\ at' = at /\ \A v \in Cores : KP!Free(v)' = KP!Free(v)
  BY <1>1 DEF kernelBarrier, KP!Free, KP!Waiting
<1>4. \A v \in Cores : pc'[v] = IF v = w /\ gone THEN pc[v] + 1 ELSE pc[v]
  BY <1>1, <1>2, <1>3, BarrierMoves
<1>5. /\ \A v \in Cores : Syncs(v) \in Nat
      /\ \A v \in Cores : Syncs(v)' = IF v = w /\ gone THEN Syncs(v) + 1 ELSE Syncs(v)
      /\ \A v \in Cores : Barriers(v)' = Barriers(v)
  BY <1>1, <1>2, <1>3, BarrierCounts
<1>6. \A v, u \in Cores : Syncs(v)' + DP!Free(v)' = Syncs(u)' + DP!Free(u)'
  <2>. DEFINE n == [v \in Cores |-> Syncs(v)]
              m == [v \in Cores |-> Syncs(v)']
  <2>1. /\ n \in [Cores -> Nat] /\ m \in [Cores -> Nat]
        /\ \A v, u \in Cores : n[v] + DP!Free(v) = n[u] + DP!Free(u)
        /\ \A v \in Cores : m[v] = IF v = w /\ gone THEN n[v] + 1 ELSE n[v]
    BY <1>5 DEF Even
  <2>2. NCores \in Nat \ {0} /\ DP!IInv /\ DP!Cores = Cores
    BY JobsAssumption, BarriersTyped
  <2>. HIDE DEF n, m
  <2>3. \A v, u \in Cores : m[v] + DP!Free(v)' = m[u] + DP!Free(u)'
    <3>. HIDE DEF IInv
    <3>1. DP!Arrive(w) \/ DP!Clear(w) \/ DP!Release(w) \/ DP!Leave(w)
      BY <1>1
    <3>2. /\ w \in DP!Cores
          /\ n \in [DP!Cores -> Nat] /\ m \in [DP!Cores -> Nat]
          /\ \A v, u \in DP!Cores : n[v] + DP!Free(v) = n[u] + DP!Free(u)
          /\ \A v \in DP!Cores :
               m[v] = IF v = w /\ dat'[w] = "out" THEN n[v] + 1 ELSE n[v]
      BY <2>1, <2>2
    <3>3. \A v, u \in DP!Cores : m[v] + DP!Free(v)' = m[u] + DP!Free(u)'
      BY <2>2, <3>1, <3>2, DP!KeepPace
    <3>. QED BY <2>2, <3>3
  <2>. QED BY <2>3 DEF m
<1>7. Even'
  BY <1>3, <1>5, <1>6 DEF Even
<1>8. AtStep'
  <2>1. \A v \in Cores \ {w} : Done(v)' = Done(v) /\ Step(v)' = Step(v)
    BY <1>3, <1>4 DEF Done, Step
  <2>2. ~ gone => Done(w)' = Done(w) /\ Step(w)' = Step(w)
    BY <1>3, <1>4 DEF Done, Step
  <2>. QED BY <1>1, <1>3, <2>1, <2>2 DEF AtStep
<1>. QED BY <1>7, <1>8

-----------------------------------------------------------------------------
\* Every step of a core keeps it.
LEMMA CoresStep ==
    ASSUME IInv, [Next]_vars
    PROVE  IInv'
<1>1. KP!IInv' /\ DP!IInv'
  BY JobsAssumption, BarriersNext, KP!BarrierSteps, DP!BarrierSteps DEF IInv
<1>2. KB!TypeOK' /\ DB!TypeOK'
  BY <1>1, BarriersTyped DEF KP!IInv, DP!IInv, KB!TypeOK, KP!TypeOK, DB!TypeOK, DP!TypeOK,
     KB!Cores, KP!Cores, DB!Cores, DP!Cores
<1>3. CASE UNCHANGED vars
  <2>1. UNCHANGED <<job, pc, reg, data, kernelBarrier, driverBarrier>>
    BY <1>3 DEF vars
  <2>2. TypeOK'
    BY <1>2, <2>1 DEF IInv, TypeOK, data
  <2>3. \A v \in Cores : KP!Free(v)' = KP!Free(v) /\ DP!Free(v)' = DP!Free(v)
    BY <2>1 DEF kernelBarrier, driverBarrier, KP!Free, DP!Free, KP!Waiting, DP!Waiting
  <2>4. Even'
    BY <2>1, <2>3 DEF IInv, Even, Barriers, Syncs
  <2>5. AtStep'
    BY <2>1 DEF IInv, AtStep, Done, Step, kernelBarrier, driverBarrier
  <2>. QED BY <1>1, <2>2, <2>4, <2>5 DEF IInv
<1>4. ASSUME NEW w \in Cores, Load(w) \/ Store(w) \/ FillCopy(w) \/ Verify(w)
      PROVE  IInv'
  BY <1>1, <1>4, WorkTyped, PlainStep DEF IInv
<1>5. ASSUME NEW w \in Cores, AtBarrier(w)
      PROVE  IInv'
  <2>1. ~ Done(w) /\ UNCHANGED <<job, reg, data>> /\ TypeOK
    BY <1>5, InBarrier DEF IInv
  <2>2. (at'[w] = "out") \in BOOLEAN /\ IF at'[w] = "out" THEN Proceed(w) ELSE UNCHANGED pc
    BY <1>5 DEF AtBarrier
  <2>3. pc' \in [Cores -> Nat] /\ \A v \in Cores : pc'[v] \in 1 .. Len(Program[job][v]) + 1
    BY <2>1, <2>2, BarrierMoves
  <2>4. TypeOK'
    BY <1>2, <2>1, <2>3 DEF TypeOK, data
  <2>. QED BY <1>1, <1>5, <2>4, AtBarrierKeeps DEF IInv
<1>6. ASSUME NEW w \in Cores, AtSync(w)
      PROVE  IInv'
  <2>1. ~ Done(w) /\ UNCHANGED <<job, reg, data>> /\ TypeOK
    BY <1>6, InSync DEF IInv
  <2>2. (dat'[w] = "out") \in BOOLEAN /\ IF dat'[w] = "out" THEN Proceed(w) ELSE UNCHANGED pc
    BY <1>6 DEF AtSync
  <2>3. pc' \in [Cores -> Nat] /\ \A v \in Cores : pc'[v] \in 1 .. Len(Program[job][v]) + 1
    BY <2>1, <2>2, BarrierMoves
  <2>4. TypeOK'
    BY <1>2, <2>1, <2>3 DEF TypeOK, data
  <2>. QED BY <1>1, <1>6, <2>4, AtSyncKeeps DEF IInv
<1>. QED BY <1>3, <1>4, <1>5, <1>6 DEF Next, Core

\* Two cores about to touch the same memory are between the same barriers.
LEMMA SamePhase ==
    ASSUME IInv, NEW v \in Cores, NEW w \in Cores, ~ Done(v), ~ Done(w),
           Step(v).do \notin {"barrier", "sync"}, Step(w).do \notin {"barrier", "sync"}
    PROVE  Phase(job, v, pc[v]) = Phase(job, w, pc[w])
<1>1. at[v] = "out" /\ at[w] = "out" /\ dat[v] = "out" /\ dat[w] = "out"
  BY DEF IInv, AtStep
<1>2. KP!Free(v) = 0 /\ KP!Free(w) = 0 /\ DP!Free(v) = 0 /\ DP!Free(w) = 0
  BY <1>1 DEF KP!Free, DP!Free
<1>3. /\ Barriers(v) \in Nat /\ Barriers(w) \in Nat
      /\ Syncs(v) \in Nat /\ Syncs(w) \in Nat
  BY CountType DEF Barriers, Syncs, IInv, TypeOK
<1>4. Barriers(v) = Barriers(w) /\ Syncs(v) = Syncs(w)
  BY <1>2, <1>3 DEF IInv, Even
<1>. QED BY <1>4 DEF Phase, Barriers, Syncs

LEMMA NoConflict ==
    ASSUME IInv, job.kernel \notin Racing => job \in SeparatedJobs
    PROVE  RaceFree
<1>1. SUFFICES ASSUME job \in SeparatedJobs, NEW v \in Cores, NEW w \in Cores,
                      v # w, ~ Done(v), ~ Done(w), Conflict(Step(v), Step(w))
               PROVE  FALSE
  BY DEF RaceFree
<1>2. Step(v).do \notin {"barrier", "sync"} /\ Step(w).do \notin {"barrier", "sync"}
  BY <1>1 DEF Conflict
<1>3. pc[v] \in Accesses(job, v) /\ pc[w] \in Accesses(job, w)
  BY <1>1, <1>2, StepTyped DEF IInv, Accesses, Step
<1>4. Phase(job, v, pc[v]) # Phase(job, w, pc[w])
  BY <1>1, <1>3 DEF SeparatedJobs, Step
<1>. QED BY <1>1, <1>2, <1>4, SamePhase

(***************************************************************************)
(* Program counters, sums and copies stay in range for every number of     *)
(* cores and whatever programs of steps the jobs have.                     *)
(***************************************************************************)
THEOREM MtTypeCorrect ==
    ASSUME TypedJobs = Jobs
    PROVE  Spec => []TypeOK
<1>1. Init => IInv
  BY CoresStart
<1>2. IInv /\ [Next]_vars => IInv'
  BY CoresStep
<1>3. IInv => TypeOK
  BY DEF IInv
<1>. QED BY <1>1, <1>2, <1>3, PTL DEF Spec

(***************************************************************************)
(* No interleaving of the cores has a race, if the shares and barriers of  *)
(* the kernels keep conflicting steps apart (SharesApart): that is a fact  *)
(* of the programs alone, and the two barriers carry it over to every      *)
(* execution on any number of cores.                                       *)
(***************************************************************************)
THEOREM RaceFreeCorrect ==
    ASSUME TypedJobs = Jobs, \A j \in Jobs : j.kernel \notin Racing => j \in SeparatedJobs
    PROVE  Spec => []RaceFree
<1>1. Init => IInv
  BY CoresStart
<1>2. IInv /\ [Next]_vars => IInv'
  BY CoresStep
<1>3. IInv => RaceFree
  <2>1. IInv => job \in Jobs
    BY DEF IInv, TypeOK, TypedJobs
  <2>. QED BY <2>1, NoConflict
<1>. QED BY <1>1, <1>2, <1>3, PTL DEF Spec

-----------------------------------------------------------------------------
(***************************************************************************)
(* Every cell gets each of its products once, in any interleaving, if the  *)
(* job has an outline. Before is the step that a core is at, or the one    *)
(* after the barrier that it is free to leave: the cores are always in the *)
(* same turn there, and what a core then relies on is what it has seen.    *)
(***************************************************************************)
Before(w) == pc[w] + KP!Free(w) + DP!Free(w)
Has(w)    == [cell |-> cell, copy |-> copy, reg |-> reg[w]]

AsOutlined(o) == \A w \in Cores :
    /\ \A v \in Cores : o.turn[v][Before(v)] = o.turn[w][Before(w)]
    /\ reg[w] = o.seen[w][Before(w)].reg
    /\ \A x \in o.relies[w][o.turn[w][Before(w)]] : Held(o.seen[w][Before(w)], x) = Held(Has(w), x)

\* Each step in one place.
LEMMA HeldPlaces ==
    ASSUME NEW d
    PROVE  /\ Held(d, Cell) = d.cell
           /\ \A e : Held(d, Entry(e)) = {f \in d.copy : f[1] = e}
           /\ \A e : Entry(e) # Cell
<1>1. \A e : Entry(e) # Cell
  BY DEF Entry, Cell
<1>2. \A e, f : Entry(e) = Entry(f) <=> e = f
  BY DEF Entry
<1>. QED BY <1>1, <1>2 DEF Held

\* A step leaves other places alone.
LEMMA EffectLeaves ==
    ASSUME NEW s \in Steps, NEW d, NEW x, x \notin Changed(s)
    PROVE  Held(Effect(s, d), x) = Held(d, x)
<1>. DEFINE e == Effect(s, d)
<1>1. CASE s.do = "write"
  <2>1. e.copy = d.copy /\ x # Cell
    BY <1>1 DEF Effect, Changed
  <2>. QED BY <2>1 DEF Held
<1>2. CASE s.do = "fill"
  <2>1. /\ e.cell = d.cell /\ x # Entry(s.at)
        /\ e.copy = {f \in d.copy : f[1] # s.at} \cup {<<s.at, s.from>>}
    BY <1>2 DEF Effect, Changed
  <2>2. {f \in e.copy : x = Entry(f[1])} = {f \in d.copy : x = Entry(f[1])}
    BY <2>1
  <2>. QED BY <2>1, <2>2 DEF Held
<1>3. CASE s.do # "write" /\ s.do # "fill"
  <2>1. e.cell = d.cell /\ e.copy = d.copy
    BY <1>3 DEF Effect
  <2>. QED BY <2>1 DEF Held
<1>. QED BY <1>1, <1>2, <1>3

\* What it does to the others and to the register depends on what it uses.
LEMMA EffectDepends ==
    ASSUME NEW s \in Steps, NEW d, NEW e, d.reg = e.reg,
           \A x \in Used(s) : Held(d, x) = Held(e, x)
    PROVE  /\ Effect(s, d).reg = Effect(s, e).reg
           /\ \A x \in Changed(s) : Held(Effect(s, d), x) = Held(Effect(s, e), x)
<1>1. CASE s.do = "read"
  <2>1. \A p \in s.copied : Held(d, Entry(p[2])) = Held(e, Entry(p[2]))
    BY <1>1 DEF Used
  <2>2. \A p \in s.copied : {f \in d.copy : f[1] = p[2]} = {f \in e.copy : f[1] = p[2]}
    BY <2>1, HeldPlaces
  <2>3. Products(s.copied, d) = Products(s.copied, e)
    BY <2>2 DEF Products
  <2>4. s.old => d.cell = e.cell
    BY <1>1, HeldPlaces DEF Used
  <2>5. Changed(s) = {}
    BY <1>1 DEF Changed
  <2>. QED BY <1>1, <2>3, <2>4, <2>5 DEF Effect
<1>2. CASE s.do = "write"
  <2>1. Changed(s) = {Cell}
    BY <1>2 DEF Changed
  <2>2. /\ Effect(s, d).reg = {} /\ Effect(s, e).reg = {}
        /\ Effect(s, d).cell = d.reg /\ Effect(s, e).cell = e.reg
    BY <1>2 DEF Effect
  <2>. QED BY <2>1, <2>2, HeldPlaces
<1>3. CASE s.do = "fill"
  <2>1. Changed(s) = {Entry(s.at)}
    BY <1>3 DEF Changed
  <2>2. ASSUME NEW c
        PROVE  /\ Effect(s, c).reg = c.reg
               /\ Held(Effect(s, c), Entry(s.at)) = {<<s.at, s.from>>}
    <3>1. Effect(s, c).copy = {f \in c.copy : f[1] # s.at} \cup {<<s.at, s.from>>}
      BY <1>3 DEF Effect
    <3>2. {f \in Effect(s, c).copy : f[1] = s.at} = {<<s.at, s.from>>}
      BY <3>1
    <3>. QED BY <1>3, <3>2, HeldPlaces DEF Effect
  <2>. QED BY <2>1, <2>2
<1>4. CASE s.do \notin {"read", "write", "fill"}
  BY <1>4 DEF Effect, Changed
<1>. QED BY <1>1, <1>2, <1>3, <1>4

\* A core's step does to what it has what the outline says of it.
LEMMA WorkEffect ==
    ASSUME NEW w \in Cores, TypeOK, Load(w) \/ Store(w) \/ FillCopy(w) \/ Verify(w)
    PROVE  /\ Has(w)' = Effect(Step(w), Has(w))
           /\ \A v \in Cores \ {w} : reg'[v] = reg[v]
<1>. USE DEF TypeOK, Has
<1>1. CASE Load(w)
  <2>1. FromCopy(Step(w).copied) = Products(Step(w).copied, Has(w))
    BY DEF FromCopy, Products
  <2>. QED BY <1>1, <2>1 DEF Load, Runs, Effect, data
<1>2. CASE Store(w)
  BY <1>2 DEF Store, Runs, Effect
<1>3. CASE FillCopy(w)
  BY <1>3 DEF FillCopy, Runs, Effect
<1>4. CASE Verify(w)
  BY <1>4 DEF Verify, Runs, Effect
<1>. QED BY <1>1, <1>2, <1>3, <1>4

\* A step outside of the barriers keeps to the outline, and finds the cell as
\* expected if it checks it.
LEMMA WorkKeeps ==
    ASSUME NEW o, Outlines(job, o), IInv, AsOutlined(o), ~ failed,
           NEW w \in Cores, Load(w) \/ Store(w) \/ FillCopy(w) \/ Verify(w)
    PROVE  AsOutlined(o)' /\ ~ failed'
<1>. DEFINE s == Step(w)
            p == pc[w]
            n == o.turn[w][p]
            d == o.seen[w][p]
<1>1. /\ ~ Done(w) /\ s.do \notin {"barrier", "sync"}
      /\ at[w] = "out" /\ dat[w] = "out"
      /\ Proceed(w) /\ UNCHANGED <<job, kernelBarrier, driverBarrier>>
  BY WorkTyped
<1>2. TypeOK /\ s \in Steps /\ p \in Nat /\ p \in DOMAIN Program[job][w]
  BY <1>1, StepTyped DEF IInv
<1>3. Follows(job, o, w, p)
  BY <1>1, <1>2 DEF Outlines, Fence, Step
<1>4. /\ Before(w) = p /\ Before(w)' = p + 1
      /\ \A v \in Cores \ {w} : Before(v)' = Before(v)
  <2>1. \A v \in Cores : KP!Free(v)' = KP!Free(v) /\ DP!Free(v)' = DP!Free(v)
    BY <1>1 DEF kernelBarrier, driverBarrier, KP!Free, DP!Free, KP!Waiting, DP!Waiting
  <2>2. KP!Free(w) = 0 /\ DP!Free(w) = 0
    BY <1>1 DEF KP!Free, DP!Free
  <2>3. pc'[w] = p + 1 /\ \A v \in Cores \ {w} : pc'[v] = pc[v]
    BY <1>1, <1>2, ProceedTyped
  <2>. QED BY <1>2, <2>1, <2>2, <2>3 DEF Before
<1>5. /\ o.turn[w][p + 1] = n
      /\ o.seen[w][p + 1] = Effect(s, d)
      /\ Used(s) \subseteq o.relies[w][n]
      /\ \A v \in Cores \ {w} : Changed(s) \cap o.relies[v][n] = {}
      /\ s.do = "check" => d.cell = Expected(job)
  BY <1>3 DEF Follows, Step
<1>6. /\ \A v \in Cores : o.turn[v][Before(v)] = n
      /\ reg[w] = d.reg
      /\ \A x \in o.relies[w][n] : Held(d, x) = Held(Has(w), x)
  BY <1>4 DEF AsOutlined
<1>7. Has(w)' = Effect(s, Has(w)) /\ \A v \in Cores \ {w} : reg'[v] = reg[v]
  BY <1>2, WorkEffect
<1>8. d.reg = Has(w).reg /\ \A x \in Used(s) : Held(d, x) = Held(Has(w), x)
  BY <1>5, <1>6 DEF Has
<1>. HIDE DEF s, p, n, d
<1>9. /\ Effect(s, d).reg = Effect(s, Has(w)).reg
      /\ \A x \in Changed(s) : Held(Effect(s, d), x) = Held(Effect(s, Has(w)), x)
  BY <1>2, <1>8, EffectDepends
<1>10. \A v \in Cores : o.turn[v][Before(v)'] = n
  BY <1>4, <1>5, <1>6
<1>11. /\ reg'[w] = o.seen[w][Before(w)'].reg
       /\ \A x \in o.relies[w][n] : Held(o.seen[w][Before(w)'], x) = Held(Has(w)', x)
  <2>1. reg'[w] = Has(w)'.reg
    BY DEF Has
  <2>2. ASSUME NEW x \in o.relies[w][n], x \notin Changed(s)
        PROVE  Held(Effect(s, d), x) = Held(Effect(s, Has(w)), x)
    BY <1>2, <1>6, <2>2, EffectLeaves
  <2>. QED BY <1>4, <1>5, <1>7, <1>9, <2>1, <2>2
<1>12. ASSUME NEW v \in Cores \ {w}
       PROVE  /\ reg'[v] = o.seen[v][Before(v)'].reg
              /\ \A x \in o.relies[v][n] : Held(o.seen[v][Before(v)'], x) = Held(Has(v)', x)
  <2>1. reg'[v] = o.seen[v][Before(v)'].reg
    BY <1>4, <1>7 DEF AsOutlined
  <2>2. ASSUME NEW x \in o.relies[v][n]
        PROVE  Held(o.seen[v][Before(v)'], x) = Held(Has(v)', x)
    <3>1. Held(o.seen[v][Before(v)], x) = Held(Has(v), x)
      BY <1>6 DEF AsOutlined
    <3>2. Held(Has(v), x) = Held(Has(w), x) /\ Held(Has(v)', x) = Held(Has(w)', x)
      BY DEF Held, Has
    <3>3. x \notin Changed(s)
      BY <1>5
    <3>4. Held(Has(w)', x) = Held(Has(w), x)
      BY <1>2, <1>7, <3>3, EffectLeaves
    <3>. QED BY <1>4, <3>1, <3>2, <3>4
  <2>. QED BY <2>1, <2>2
<1>13. AsOutlined(o)'
  BY <1>10, <1>11, <1>12 DEF AsOutlined
<1>14. ~ failed'
  <2>1. CASE Verify(w)
    <3>1. s.do = "check" /\ failed' = (cell # Expected(job))
      BY <2>1 DEF Verify, Runs, s
    <3>2. Cell \in Used(s)
      BY <3>1 DEF Used
    <3>3. d.cell = Has(w).cell
      BY <1>8, <3>2, HeldPlaces
    <3>. QED BY <1>5, <3>1, <3>3 DEF Has
  <2>2. CASE Load(w) \/ Store(w) \/ FillCopy(w)
    BY <2>2 DEF Load, Store, FillCopy, data
  <2>. QED BY <2>1, <2>2
<1>. QED BY <1>13, <1>14

\* At a barrier no core goes on, or all cores go on from it.
LEMMA FenceKeeps ==
    ASSUME NEW o, Outlines(job, o), TypeOK, AsOutlined(o), UNCHANGED <<reg, data>>,
           \/ \A v \in Cores : Before(v)' = Before(v)
           \/ \A v \in Cores : /\ Before(v) = pc[v] /\ Before(v)' = pc[v] + 1
                             /\ ~ Done(v) /\ Fence(Step(v))
    PROVE  AsOutlined(o)'
<1>1. \A d, x : \A v \in Cores : Held(d, x) = Held(Has(v)', x) <=> Held(d, x) = Held(Has(v), x)
  BY DEF Held, Has, data
<1>2. CASE \A v \in Cores : Before(v)' = Before(v)
  BY <1>1, <1>2 DEF AsOutlined
<1>3. CASE \A v \in Cores : /\ Before(v) = pc[v] /\ Before(v)' = pc[v] + 1
                            /\ ~ Done(v) /\ Fence(Step(v))
  <2>1. \A v \in Cores : Passes(job, o, v, pc[v])
    BY <1>3, StepTyped DEF Outlines, Step
  <2>2. SUFFICES ASSUME NEW w \in Cores
                 PROVE  /\ \A v \in Cores : o.turn[v][pc[v] + 1] = o.turn[w][pc[w] + 1]
                        /\ reg[w] = o.seen[w][pc[w] + 1].reg
                        /\ \A x \in o.relies[w][o.turn[w][pc[w] + 1]] :
                             Held(o.seen[w][pc[w] + 1], x) = Held(Has(w), x)
    BY <1>1, <1>3 DEF AsOutlined
  <2>. DEFINE n == o.turn[w][pc[w]]
  <2>3. \A v \in Cores : /\ o.turn[v][pc[v]] = n
                          /\ reg[v] = o.seen[v][pc[v]].reg
                          /\ \A x \in o.relies[v][n] : Held(o.seen[v][pc[v]], x) = Held(Has(v), x)
    BY <1>3 DEF AsOutlined
  <2>4. \A v \in Cores : /\ o.turn[v][pc[v] + 1] = n + 1
                          /\ o.fence[v][n] = pc[v]
                          /\ o.seen[v][pc[v] + 1].reg = o.seen[v][pc[v]].reg
    <3>. SUFFICES ASSUME NEW v \in Cores
                  PROVE  /\ o.turn[v][pc[v] + 1] = n + 1
                         /\ o.fence[v][n] = pc[v]
                         /\ o.seen[v][pc[v] + 1].reg = o.seen[v][pc[v]].reg
      OBVIOUS
    <3>1. /\ o.turn[v][pc[v] + 1] = o.turn[v][pc[v]] + 1
          /\ o.fence[v][o.turn[v][pc[v]]] = pc[v]
          /\ o.seen[v][pc[v] + 1].reg = o.seen[v][pc[v]].reg
      BY <2>1 DEF Passes
    <3>2. o.turn[v][pc[v]] = n
      BY <2>3
    <3>. HIDE DEF n
    <3>. QED BY <3>1, <3>2
  <2>5. ASSUME NEW x \in o.relies[w][n + 1]
        PROVE  Held(o.seen[w][pc[w] + 1], x) = Held(Has(w), x)
    <3>1. PICK v \in Cores : /\ x \in o.relies[v][n]
                             /\ Held(o.seen[w][pc[w] + 1], x)
                                  = Held(o.seen[v][o.fence[v][n]], x)
      BY <2>1 DEF Passes
    <3>2. Held(o.seen[v][pc[v]], x) = Held(Has(v), x)
      BY <2>3, <3>1
    <3>3. Held(Has(v), x) = Held(Has(w), x)
      BY DEF Held, Has
    <3>. QED BY <2>4, <3>1, <3>2, <3>3
  <2>. QED BY <2>3, <2>4, <2>5
<1>. QED BY <1>2, <1>3

\* What a barrier does to the cores, in the kernel's file and in the driver's.
LEMMA BarrierBefore ==
    ASSUME IInv, NEW w \in Cores, AtBarrier(w)
    PROVE  \/ \A v \in Cores : Before(v)' = Before(v)
           \/ \A v \in Cores : /\ Before(v) = pc[v] /\ Before(v)' = pc[v] + 1
                             /\ ~ Done(v) /\ Fence(Step(v))
<1>1. /\ ~ Done(w) /\ Step(w).do = "barrier"
      /\ KP!Arrive(w) \/ KP!Clear(w) \/ KP!Release(w) \/ KP!Leave(w)
      /\ UNCHANGED <<job, reg, data, driverBarrier>>
  BY InBarrier
<1>2. (at'[w] = "out") \in BOOLEAN /\ IF at'[w] = "out" THEN Proceed(w) ELSE UNCHANGED pc
  BY DEF AtBarrier
<1>3. \A v \in Cores : pc[v] \in Nat /\ pc'[v] = pc[v] + KP!Left(v, w)
  <2>1. \A v \in Cores : pc'[v] = IF v = w /\ at'[w] = "out" THEN pc[v] + 1 ELSE pc[v]
    BY <1>1, <1>2, BarrierMoves DEF IInv
  <2>. QED BY <2>1 DEF KP!Left, IInv, TypeOK
<1>4. \A v \in Cores : /\ DP!Free(v)' = DP!Free(v)
                       /\ DP!Free(v) \in {0, 1} /\ KP!Free(v) \in {0, 1} /\ KP!Free(v)' \in {0, 1}
                       /\ KP!Left(v, w) \in {0, 1}
  BY <1>1 DEF driverBarrier, DP!Free, DP!Waiting, KP!Free, KP!Left
<1>5. \/ \A v \in Cores : KP!Left(v, w) + KP!Free(v)' = KP!Free(v)
      \/ \A v \in Cores : /\ at[v] # "out" /\ KP!Free(v) = 0
                        /\ KP!Left(v, w) + KP!Free(v)' = 1
  <2>1. NCores \in Nat \ {0} /\ KP!IInv /\ KP!Cores = Cores
    BY JobsAssumption, BarriersTyped DEF IInv
  <2>. QED BY <1>1, <2>1, KP!Together
<1>6. CASE \A v \in Cores : KP!Left(v, w) + KP!Free(v)' = KP!Free(v)
  BY <1>3, <1>4, <1>6 DEF Before
<1>7. CASE \A v \in Cores : /\ at[v] # "out" /\ KP!Free(v) = 0
                            /\ KP!Left(v, w) + KP!Free(v)' = 1
  <2>1. \A v \in Cores : dat[v] = "out" /\ ~ Done(v) /\ Fence(Step(v))
    BY <1>7 DEF IInv, AtStep, Fence
  <2>2. \A v \in Cores : DP!Free(v) = 0
    BY <2>1 DEF DP!Free
  <2>3. \A v \in Cores : Before(v) = pc[v] /\ Before(v)' = pc[v] + 1
    BY <1>3, <1>4, <1>7, <2>2 DEF Before
  <2>. QED BY <2>1, <2>3
<1>. QED BY <1>5, <1>6, <1>7

LEMMA SyncBefore ==
    ASSUME IInv, NEW w \in Cores, AtSync(w)
    PROVE  \/ \A v \in Cores : Before(v)' = Before(v)
           \/ \A v \in Cores : /\ Before(v) = pc[v] /\ Before(v)' = pc[v] + 1
                             /\ ~ Done(v) /\ Fence(Step(v))
<1>1. /\ ~ Done(w) /\ Step(w).do = "sync"
      /\ DP!Arrive(w) \/ DP!Clear(w) \/ DP!Release(w) \/ DP!Leave(w)
      /\ UNCHANGED <<job, reg, data, kernelBarrier>>
  BY InSync
<1>2. (dat'[w] = "out") \in BOOLEAN /\ IF dat'[w] = "out" THEN Proceed(w) ELSE UNCHANGED pc
  BY DEF AtSync
<1>3. \A v \in Cores : pc[v] \in Nat /\ pc'[v] = pc[v] + DP!Left(v, w)
  <2>1. \A v \in Cores : pc'[v] = IF v = w /\ dat'[w] = "out" THEN pc[v] + 1 ELSE pc[v]
    BY <1>1, <1>2, BarrierMoves DEF IInv
  <2>. QED BY <2>1 DEF DP!Left, IInv, TypeOK
<1>4. \A v \in Cores : /\ KP!Free(v)' = KP!Free(v)
                       /\ KP!Free(v) \in {0, 1} /\ DP!Free(v) \in {0, 1} /\ DP!Free(v)' \in {0, 1}
                       /\ DP!Left(v, w) \in {0, 1}
  BY <1>1 DEF kernelBarrier, KP!Free, KP!Waiting, DP!Free, DP!Left
<1>5. \/ \A v \in Cores : DP!Left(v, w) + DP!Free(v)' = DP!Free(v)
      \/ \A v \in Cores : /\ dat[v] # "out" /\ DP!Free(v) = 0
                        /\ DP!Left(v, w) + DP!Free(v)' = 1
  <2>1. NCores \in Nat \ {0} /\ DP!IInv /\ DP!Cores = Cores
    BY JobsAssumption, BarriersTyped DEF IInv
  <2>. QED BY <1>1, <2>1, DP!Together
<1>6. CASE \A v \in Cores : DP!Left(v, w) + DP!Free(v)' = DP!Free(v)
  BY <1>3, <1>4, <1>6 DEF Before
<1>7. CASE \A v \in Cores : /\ dat[v] # "out" /\ DP!Free(v) = 0
                            /\ DP!Left(v, w) + DP!Free(v)' = 1
  <2>1. \A v \in Cores : at[v] = "out" /\ ~ Done(v) /\ Fence(Step(v))
    BY <1>7 DEF IInv, AtStep, Fence
  <2>2. \A v \in Cores : KP!Free(v) = 0
    BY <2>1 DEF KP!Free
  <2>3. \A v \in Cores : Before(v) = pc[v] /\ Before(v)' = pc[v] + 1
    BY <1>3, <1>4, <1>7, <2>2 DEF Before
  <2>. QED BY <2>1, <2>3
<1>. QED BY <1>5, <1>6, <1>7

\* A job's outline, where it has one, and what an execution owes to it.
OutlineOf(j) == CHOOSE o : Outlines(j, o)

KeepsOutline ==
    (\E o : Outlines(job, o)) => ~ failed /\ AsOutlined(OutlineOf(job))

LEMMA OutlineStarts ==
    ASSUME Init, IInv
    PROVE  KeepsOutline
<1>. SUFFICES ASSUME NEW o, Outlines(job, o), o = OutlineOf(job)
              PROVE  ~ failed /\ AsOutlined(o)
  BY DEF KeepsOutline, OutlineOf
<1>1. \A w \in Cores : at[w] = "out" /\ dat[w] = "out" /\ pc[w] = 1 /\ reg[w] = {}
  BY DEF Init, KB!Init, DB!Init, KB!Cores, DB!Cores, Cores
<1>2. \A w \in Cores : Before(w) = 1
  BY <1>1 DEF Before, KP!Free, DP!Free
<1>3. \A w \in Cores : o.turn[w][1] = 1 /\ o.seen[w][1] = Blank
  BY DEF Outlines
<1>4. \A w \in Cores : Has(w) = Blank
  BY <1>1 DEF Init, Has, Blank
<1>5. AsOutlined(o)
  <2>1. \A w \in Cores : o.turn[w][Before(w)] = 1 /\ o.seen[w][Before(w)] = Blank
    BY <1>2, <1>3
  <2>2. \A w \in Cores : reg[w] = Blank.reg
    BY <1>1 DEF Blank
  <2>. QED BY <1>4, <2>1, <2>2 DEF AsOutlined
<1>. QED BY <1>5 DEF Init

LEMMA OutlineStep ==
    ASSUME IInv, KeepsOutline, [Next]_vars
    PROVE  KeepsOutline'
<1>1. job' = job
  BY DEF vars, Next, Core, Load, Store, FillCopy, Verify, AtBarrier, AtSync
<1>2. SUFFICES ASSUME NEW o, Outlines(job, o), o = OutlineOf(job), ~ failed, AsOutlined(o)
               PROVE  ~ failed' /\ AsOutlined(o)'
  BY <1>1 DEF KeepsOutline, OutlineOf
<1>3. CASE UNCHANGED vars
  <2>1. UNCHANGED <<pc, reg, data, kernelBarrier, driverBarrier>>
    BY <1>3 DEF vars
  <2>2. \A v \in Cores : Before(v)' = Before(v)
    BY <2>1 DEF Before, kernelBarrier, driverBarrier, KP!Free, DP!Free, KP!Waiting, DP!Waiting
  <2>. QED BY <1>2, <2>1, <2>2, FenceKeeps DEF IInv, data
<1>4. ASSUME NEW w \in Cores, Load(w) \/ Store(w) \/ FillCopy(w) \/ Verify(w)
      PROVE  ~ failed' /\ AsOutlined(o)'
  BY <1>2, <1>4, WorkKeeps
<1>5. ASSUME NEW w \in Cores, AtBarrier(w)
      PROVE  ~ failed' /\ AsOutlined(o)'
  <2>1. UNCHANGED <<reg, data>>
    BY <1>5 DEF AtBarrier
  <2>. QED BY <1>2, <1>5, <2>1, BarrierBefore, FenceKeeps DEF IInv, data
<1>6. ASSUME NEW w \in Cores, AtSync(w)
      PROVE  ~ failed' /\ AsOutlined(o)'
  <2>1. UNCHANGED <<reg, data>>
    BY <1>6 DEF AtSync
  <2>. QED BY <1>2, <1>6, <2>1, SyncBefore, FenceKeeps DEF IInv, data
<1>. QED BY <1>3, <1>4, <1>5, <1>6 DEF Next, Core

\* Of two conflicting steps the first changes what the second uses or changes.
LEMMA ConflictPlace ==
    ASSUME NEW s \in Steps, NEW t \in Steps, Conflict(s, t)
    PROVE  \E x \in Changed(s) : x \in Used(t) \cup Changed(t)
<1>1. CASE s.do = "write"
  <2>1. Cell \in Changed(s)
    BY <1>1 DEF Changed
  <2>2. t.do \in {"write", "check"} \/ (t.do = "read" /\ t.old)
    BY <1>1 DEF Conflict
  <2>3. t.do = "write" => Cell \in Changed(t)
    BY DEF Changed
  <2>4. t.do # "write" => Cell \in Used(t)
    BY <2>2 DEF Used
  <2>. QED BY <2>1, <2>3, <2>4
<1>2. CASE s.do = "fill"
  <2>1. Entry(s.at) \in Changed(s)
    BY <1>2 DEF Changed
  <2>2. CASE t.do = "fill" /\ t.at = s.at
    <3>1. Entry(s.at) \in Changed(t)
      BY <2>2 DEF Changed
    <3>. QED BY <2>1, <3>1
  <2>3. CASE t.do = "read" /\ \E p \in t.copied : p[2] = s.at
    <3>1. Entry(s.at) \in Used(t)
      BY <2>3 DEF Used
    <3>. QED BY <2>1, <3>1
  <2>. QED BY <1>2, <2>2, <2>3 DEF Conflict
<1>. QED BY <1>1, <1>2 DEF Conflict

\* Two cores at steps of the same turn keep out of each other's way.
LEMMA OutlineApart ==
    ASSUME NEW o, Outlines(job, o), IInv, AsOutlined(o), NEW v \in Cores, NEW w \in Cores,
           v # w, ~ Done(v), ~ Done(w)
    PROVE  ~ Conflict(Step(v), Step(w))
<1>. SUFFICES ASSUME Conflict(Step(v), Step(w))
              PROVE  FALSE
  OBVIOUS
<1>1. Step(v).do \notin {"barrier", "sync"} /\ Step(w).do \notin {"barrier", "sync"}
  BY DEF Conflict
<1>2. at[v] = "out" /\ at[w] = "out" /\ dat[v] = "out" /\ dat[w] = "out"
  BY <1>1 DEF IInv, AtStep
<1>3. KP!Free(v) = 0 /\ KP!Free(w) = 0 /\ DP!Free(v) = 0 /\ DP!Free(w) = 0
  BY <1>2 DEF KP!Free, DP!Free
<1>4. ASSUME NEW u \in {v, w}
      PROVE  /\ Step(u) \in Steps /\ pc[u] \in Nat /\ Before(u) = pc[u]
             /\ Follows(job, o, u, pc[u])
  <2>1. u \in Cores /\ ~ Done(u)
    OBVIOUS
  <2>2. Step(u) \in Steps /\ pc[u] \in Nat /\ pc[u] \in DOMAIN Program[job][u]
    BY <2>1, StepTyped DEF IInv
  <2>3. Before(u) = pc[u]
    BY <1>3, <2>2 DEF Before
  <2>4. Follows(job, o, u, pc[u])
    BY <1>1, <2>1, <2>2 DEF Outlines, Fence, Step
  <2>. QED BY <2>2, <2>3, <2>4
<1>5. o.turn[v][pc[v]] = o.turn[w][pc[w]]
  BY <1>4 DEF AsOutlined
<1>6. PICK x \in Changed(Step(v)) : x \in Used(Step(w)) \cup Changed(Step(w))
  BY <1>4, ConflictPlace
<1>7. x \in o.relies[w][o.turn[w][pc[w]]]
  <2>1. Follows(job, o, w, pc[w])
    BY <1>4
  <2>. QED BY <1>6, <2>1 DEF Follows, Step
<1>8. x \notin o.relies[w][o.turn[v][pc[v]]]
  <2>1. Follows(job, o, v, pc[v])
    BY <1>4
  <2>. QED BY <1>6, <2>1 DEF Follows, Step
<1>. QED BY <1>5, <1>7, <1>8

(***************************************************************************)
(* No interleaving of the cores computes a wrong cell or has a race, if    *)
(* the job has an outline (Outlined: of the kernels of the Makefile, each  *)
(* but the racing ones has): verify() after the barrier finds each product *)
(* added once, for any number of cores.                                    *)
(***************************************************************************)
THEOREM OutlinedCorrect ==
    ASSUME TypedJobs = Jobs,
           \A j \in Jobs : j.kernel \notin Racing => \E o : Outlines(j, o)
    PROVE  Spec => [](Verified /\ RaceFree)
<1>1. Init => IInv /\ KeepsOutline
  BY CoresStart, OutlineStarts
<1>2. IInv /\ KeepsOutline /\ [Next]_vars => (IInv /\ KeepsOutline)'
  BY CoresStep, OutlineStep
<1>3. IInv /\ KeepsOutline => Verified /\ RaceFree
  <2>1. SUFFICES ASSUME IInv, KeepsOutline, job.kernel \notin Racing
                 PROVE  /\ ~ failed
                        /\ \A v, w \in Cores :
                              v # w /\ ~ Done(v) /\ ~ Done(w) => ~ Conflict(Step(v), Step(w))
    BY DEF Verified, RaceFree
  <2>2. job \in Jobs
    BY <2>1 DEF IInv, TypeOK, TypedJobs
  <2>3. \E o : Outlines(job, o)
    BY <2>1, <2>2
  <2>4. ~ failed /\ AsOutlined(OutlineOf(job)) /\ Outlines(job, OutlineOf(job))
    BY <2>1, <2>3 DEF KeepsOutline, OutlineOf
  <2>. QED BY <2>1, <2>4, OutlineApart
<1>. QED BY <1>1, <1>2, <1>3, PTL DEF Spec

-----------------------------------------------------------------------------
(***************************************************************************)
(* Kernels whose programs have an outline for every size of the data and   *)
(* every number of cores.                                                  *)
(***************************************************************************)
LEMMA Quotient ==
    ASSUME NEW a \in Int, NEW n \in Nat \ {0}
    PROVE  /\ a \div n \in Int /\ a % n \in 0 .. n - 1
           /\ a = n * (a \div n) + (a % n)
OBVIOUS

LEMMA QuotientIs ==
    ASSUME NEW a \in Int, NEW n \in Nat \ {0}, NEW q \in Int, NEW r \in 0 .. n - 1, a = n * q + r
    PROVE  a \div n = q /\ a % n = r
<1>. DEFINE d == a \div n - q
<1>1. a \div n \in Int /\ a % n \in 0 .. n - 1 /\ a = n * (a \div n) + (a % n)
  BY Quotient
<1>2. n * d = r - (a % n) /\ d \in Int
  BY <1>1
<1>. HIDE DEF d
<1>3. (d >= 1 => n * d >= n) /\ (d <= -1 => n * d <= -n)
  BY <1>2
<1>4. d = 0
  BY <1>1, <1>2, <1>3
<1>. QED BY <1>1, <1>2, <1>4 DEF d

\* What the programs of a job are.
LEMMA ProgramIs ==
    ASSUME NEW j \in Jobs, NEW w \in Cores
    PROVE  Program[j][w] = IF j.kernel \in VvaddKernels THEN VvaddProgram(j, w) ELSE MatmulProgram(j, w)
<1>. DEFINE P(i, v) == IF i.kernel \in VvaddKernels THEN VvaddProgram(i, v) ELSE MatmulProgram(i, v)
            F(i)    == [v \in Cores |-> P(i, v)]
            G       == [i \in Jobs |-> Table(F(i))]
<1>1. Program = Table(G)
  BY DEF Program
<1>. HIDE DEF P
<1>2. Table(G) = G
  BY DEF Table
<1>3. Table(F(j)) = F(j)
  BY DEF Table
<1>4. G[j] = Table(F(j)) /\ F(j)[w] = P(j, w)
  OBVIOUS
<1>5. Program[j][w] = P(j, w)
  BY <1>1, <1>2, <1>3, <1>4
<1>. QED BY <1>5 DEF P

-----------------------------------------------------------------------------
\* u is the steps of s and then those of t.
JoinOf(u, s, t) ==
    /\ u \in Seq(Steps) /\ Len(u) = Len(s) + Len(t)
    /\ \A i \in 1 .. Len(s) : u[i] = s[i]
    /\ \A i \in 1 .. Len(t) : u[Len(s) + i] = t[i]

LEMMA Joined ==
    ASSUME NEW s \in Seq(Steps), NEW t \in Seq(Steps)
    PROVE  JoinOf(s \o t, s, t)
<1>1. Len(s) \in Nat /\ Len(t) \in Nat
  OBVIOUS
<1>2. \A i \in 1 .. Len(t) : Len(s) + i \in 1 .. Len(s) + Len(t) /\ ~ (Len(s) + i <= Len(s))
                            /\ Len(s) + i - Len(s) = i
  BY <1>1
<1>3. /\ s \o t \in Seq(Steps) /\ Len(s \o t) = Len(s) + Len(t)
      /\ \A i \in 1 .. Len(s) : (s \o t)[i] = s[i]
      /\ \A i \in 1 .. Len(t) : (s \o t)[Len(s) + i] = t[i]
  BY <1>2, ConcatProperties
<1>. QED BY <1>3 DEF JoinOf

\* The steps of a core that works, if at all, between the kernel's barrier and
\* the driver's.
OwnerSteps(b, w, own, work) == When(b = 1, Barrier) \o When(w = own, work) \o Sync \o Check

LEMMA OneStep == [do |-> "barrier"] \in Steps /\ [do |-> "sync"] \in Steps /\ [do |-> "check"] \in Steps
BY DEF Steps

\* Core w does m steps of work, and then p is its program.
Works(p, b, w, own, work, m) ==
    p = OwnerSteps(b, w, own, work) /\ m = IF w = own THEN Len(work) ELSE 0
WorkAt(p, b, work, m) ==
    /\ p \in Seq(Steps) /\ Len(p) = b + m + 2
    /\ \A i \in 1 .. b : p[i] = [do |-> "barrier"]
    /\ \A i \in 1 .. m : p[b + i] = work[i]
    /\ p[b + m + 1] = [do |-> "sync"] /\ p[b + m + 2] = [do |-> "check"]

LEMMA OwnerProgram ==
    ASSUME NEW work \in Seq(Steps), NEW b \in {0, 1}, NEW w, NEW own, NEW m, NEW p,
           Works(p, b, w, own, work, m)
    PROVE  WorkAt(p, b, work, m)
<1>0. /\ p = OwnerSteps(b, w, own, work) /\ m \in Nat
      /\ (w = own => m = Len(work)) /\ (w # own => m = 0)
  BY DEF Works
<1>1. PICK pre, mid, sync, check, s, t, u :
         /\ pre = IF b = 1 THEN <<[do |-> "barrier"]>> ELSE <<>>
         /\ mid = IF w = own THEN work ELSE <<>>
         /\ sync = <<[do |-> "sync"]>> /\ check = <<[do |-> "check"]>>
         /\ s = pre \o mid /\ t = s \o sync /\ u = t \o check /\ p = u
  BY <1>0 DEF OwnerSteps, When, Barrier, Sync, Check
<1>2. /\ pre \in Seq(Steps) /\ Len(pre) = b
      /\ \A i \in 1 .. b : pre[i] = [do |-> "barrier"]
  <2>1. pre = IF b = 1 THEN <<[do |-> "barrier"]>> ELSE <<>>
    BY <1>1
  <2>. QED BY <2>1, OneStep
<1>3. /\ mid \in Seq(Steps) /\ Len(mid) = m
      /\ \A i \in 1 .. m : mid[i] = work[i]
  <2>1. mid = IF w = own THEN work ELSE <<>>
    BY <1>1
  <2>. QED BY <1>0, <2>1
<1>4. /\ sync \in Seq(Steps) /\ Len(sync) = 1 /\ sync[1] = [do |-> "sync"]
      /\ check \in Seq(Steps) /\ Len(check) = 1 /\ check[1] = [do |-> "check"]
  <2>1. sync = <<[do |-> "sync"]>> /\ check = <<[do |-> "check"]>>
    BY <1>1
  <2>. QED BY <2>1, OneStep
<1>5. /\ s \in Seq(Steps) /\ Len(s) = b + m
      /\ \A i \in 1 .. b : s[i] = pre[i]
      /\ \A i \in 1 .. m : s[b + i] = mid[i]
  <2>1. s = pre \o mid /\ pre \in Seq(Steps) /\ mid \in Seq(Steps)
    BY <1>1, <1>2, <1>3
  <2>2. JoinOf(s, pre, mid)
    BY <2>1, Joined
  <2>. QED BY <1>2, <1>3, <2>2 DEF JoinOf
<1>6. /\ t \in Seq(Steps) /\ Len(t) = Len(s) + 1
      /\ \A i \in 1 .. Len(s) : t[i] = s[i]
      /\ t[Len(s) + 1] = sync[1]
  <2>1. t = s \o sync /\ s \in Seq(Steps) /\ sync \in Seq(Steps)
    BY <1>1, <1>4, <1>5
  <2>2. JoinOf(t, s, sync)
    BY <2>1, Joined
  <2>. QED BY <1>4, <2>2 DEF JoinOf
<1>7. /\ p \in Seq(Steps) /\ Len(p) = Len(t) + 1
      /\ \A i \in 1 .. Len(t) : p[i] = t[i]
      /\ p[Len(t) + 1] = check[1]
  <2>1. p = t \o check /\ t \in Seq(Steps) /\ check \in Seq(Steps)
    BY <1>1, <1>4, <1>6
  <2>2. JoinOf(p, t, check)
    BY <2>1, Joined
  <2>. QED BY <1>4, <2>2 DEF JoinOf
<1>8. Len(t) = b + m + 1 /\ Len(p) = b + m + 2 /\ Len(t) + 1 = b + m + 2
  BY <1>0, <1>5, <1>6, <1>7
<1>9. ASSUME NEW i \in 1 .. b
      PROVE  p[i] = [do |-> "barrier"]
  <2>1. i \in 1 .. Len(s) /\ i \in 1 .. Len(t)
    BY <1>0, <1>5, <1>8
  <2>. QED BY <1>2, <1>5, <1>6, <1>7, <2>1
<1>10. ASSUME NEW i \in 1 .. m
       PROVE  p[b + i] = work[i]
  <2>1. b + i \in 1 .. Len(s) /\ b + i \in 1 .. Len(t)
    BY <1>0, <1>5, <1>8
  <2>. QED BY <1>3, <1>5, <1>6, <1>7, <2>1
<1>11. p[b + m + 1] = [do |-> "sync"]
  <2>1. b + m + 1 \in 1 .. Len(t)
    BY <1>0, <1>8
  <2>. QED BY <1>4, <1>5, <1>6, <1>7, <2>1
<1>12. p[b + m + 2] = [do |-> "check"]
  BY <1>4, <1>7, <1>8
<1>. QED BY <1>7, <1>8, <1>9, <1>10, <1>11, <1>12 DEF WorkAt

LEMMA CheckEffect ==
    ASSUME NEW x, NEW y
    PROVE  LET s == [do |-> "check"]
               d == [cell |-> x, copy |-> y, reg |-> {}]
           IN  Effect(s, d) = d /\ Used(s) = {Cell} /\ Changed(s) = {}
<1>. DEFINE s == [do |-> "check"]
            d == [cell |-> x, copy |-> y, reg |-> {}]
<1>1. s.do = "check"
  OBVIOUS
<1>. HIDE DEF s
<1>2. Effect(s, d) = [cell |-> x, copy |-> y, reg |-> {}]
  BY <1>1 DEF Effect
<1>3. Used(s) = {Cell}
  BY <1>1 DEF Used
<1>4. Changed(s) = {}
  BY <1>1 DEF Changed
<1>. QED BY <1>2, <1>3, <1>4 DEF s

LEMMA OwnerPlaces ==
    ASSUME NEW b \in {0, 1}, NEW m \in Nat, NEW p \in 1 .. b + m + 2
    PROVE  p \in 1 .. b \/ p \in b + 1 .. b + m \/ p = b + m + 1 \/ p = b + m + 2
OBVIOUS

(***************************************************************************)
(* Between its barriers the cell of job j is only worked on by core own,   *)
(* which does work; trail is what it sees before each of these steps and   *)
(* after the last. With b = 1 the kernel begins with a barrier.            *)
(***************************************************************************)
Alone(j, own, b, work, trail) ==
    /\ own \in Cores /\ b \in {0, 1} /\ work \in Seq(Steps)
    /\ \A w \in Cores :
          Program[j][w] = OwnerSteps(b, w, own, work)
    /\ \A p \in DOMAIN work :
          /\ work[p].do = "write" \/ (work[p].do = "read" /\ work[p].copied = {})
          /\ trail[p + 1] = Effect(work[p], trail[p])
    /\ trail[1] = Blank
    /\ trail[Len(work) + 1] = [cell |-> Expected(j), copy |-> {}, reg |-> {}]

LEMMA AloneOutline ==
    ASSUME NEW j \in Jobs, NEW own, NEW b, NEW work, NEW trail, Alone(j, own, b, work, trail)
    PROVE  \E o : Outlines(j, o)
<1>. b \in {0, 1} /\ own \in Cores
  BY DEF Alone
<1>. DEFINE m == [w \in Cores |-> IF w = own THEN Len(work) ELSE 0]
            last == [cell |-> Expected(j), copy |-> {}, reg |-> {}]
            o == [turn   |-> [w \in Cores |-> [p \in 1 .. b + m[w] + 3 |->
                                IF p <= b THEN 1 ELSE IF p <= b + m[w] + 1 THEN b + 1 ELSE b + 2]],
                  fence  |-> [w \in Cores |-> [n \in 1 .. b + 1 |->
                                IF n <= b THEN n ELSE b + m[w] + 1]],
                  relies |-> [w \in Cores |-> [n \in 1 .. b + 2 |->
                                IF n = b + 1 /\ w # own THEN {} ELSE {Cell}]],
                  seen   |-> [w \in Cores |-> [p \in 1 .. b + m[w] + 3 |->
                                IF p <= b THEN Blank
                                ELSE IF p <= b + m[w] + 1
                                     THEN IF w = own THEN trail[p - b] ELSE Blank
                                     ELSE last]]]
<1>1. m \in [Cores -> Nat]
  BY DEF Alone
<1>2. ASSUME NEW w \in Cores
      PROVE  /\ DOMAIN Program[j][w] = 1 .. b + m[w] + 2
             /\ \A p \in 1 .. b : Program[j][w][p] = [do |-> "barrier"]
             /\ \A p \in 1 .. m[w] : Program[j][w][b + p] = work[p]
             /\ Program[j][w][b + m[w] + 1] = [do |-> "sync"]
             /\ Program[j][w][b + m[w] + 2] = [do |-> "check"]
  <2>1. Program[j][w] = OwnerSteps(b, w, own, work) /\ work \in Seq(Steps)
    BY DEF Alone
  <2>2. m[w] \in Nat /\ (w = own => m[w] = Len(work)) /\ (w # own => m[w] = 0)
    BY <1>1
  <2>. HIDE DEF m
  <2>3. PICK n, p : n = m[w] /\ p = Program[j][w]
    OBVIOUS
  <2>4. Works(p, b, w, own, work, n) /\ b \in {0, 1} /\ work \in Seq(Steps)
    BY <2>1, <2>2, <2>3 DEF Works, Alone
  <2>5. WorkAt(p, b, work, n)
    BY <2>4, OwnerProgram
  <2>6. DOMAIN p = 1 .. b + n + 2
    BY <2>5 DEF WorkAt
  <2>. QED BY <2>3, <2>5, <2>6 DEF WorkAt
<1>3. /\ Cell \notin {} /\ Blank.cell = {} /\ Blank.reg = {} /\ last.reg = {} /\ last.cell = Expected(j)
      /\ \A d : Held(d, Cell) = d.cell
  BY HeldPlaces DEF Blank
<1>4. ASSUME NEW w \in Cores, NEW p \in 1 .. b + m[w] + 3
      PROVE  /\ o.turn[w][p] = IF p <= b THEN 1 ELSE IF p <= b + m[w] + 1 THEN b + 1 ELSE b + 2
             /\ o.seen[w][p] = IF p <= b THEN Blank
                               ELSE IF p <= b + m[w] + 1
                                    THEN IF w = own THEN trail[p - b] ELSE Blank
                                    ELSE last
  OBVIOUS
<1>5. ASSUME NEW w \in Cores
      PROVE  /\ \A n \in 1 .. b + 1 : o.fence[w][n] = IF n <= b THEN n ELSE b + m[w] + 1
             /\ \A n \in 1 .. b + 2 :
                   o.relies[w][n] = IF n = b + 1 /\ w # own THEN {} ELSE {Cell}
  OBVIOUS
<1>6. m[own] = Len(work) /\ \A w \in Cores \ {own} : m[w] = 0
  OBVIOUS
<1>14. /\ work \in Seq(Steps) /\ trail[1] = Blank
       /\ \A p \in DOMAIN work :
             /\ work[p].do = "write" \/ (work[p].do = "read" /\ work[p].copied = {})
             /\ trail[p + 1] = Effect(work[p], trail[p])
  BY DEF Alone
<1>. HIDE DEF m, last, o
<1>7. ASSUME NEW w \in Cores
      PROVE  o.turn[w][1] = 1 /\ o.seen[w][1] = Blank
  <2>1. m[w] \in Nat /\ 1 \in 1 .. b + m[w] + 3
    BY <1>1
  <2>. QED BY <1>4, <1>6, <1>14, <2>1, SMTT(30)
<1>8. ASSUME NEW w \in Cores, NEW p \in 1 .. b
      PROVE  Passes(j, o, w, p)
  <2>1. b = 1 /\ p = 1
    OBVIOUS
  <2>2. \A v \in Cores : m[v] \in Nat /\ 1 \in 1 .. b + m[v] + 3 /\ 2 \in 1 .. b + m[v] + 3
    BY <1>1, <2>1
  <2>3. o.turn[w][1] = 1 /\ o.turn[w][2] = 2
    BY <1>4, <2>1, <2>2
  <2>4. ASSUME NEW v \in Cores
        PROVE  o.seen[v][1] = Blank /\ o.seen[v][2] = Blank
    <3>1. 1 <= b /\ ~ (2 <= b) /\ 2 <= b + m[v] + 1 /\ 2 - b = 1
      BY <2>1, <2>2
    <3>2. o.seen[v][1] = Blank
      BY <1>4, <2>2, <3>1
    <3>3. o.seen[v][2] = IF v = own THEN trail[2 - b] ELSE Blank
      BY <1>4, <2>2, <3>1
    <3>. QED BY <1>14, <3>1, <3>2, <3>3
  <2>5. \A v \in Cores : o.fence[v][1] = 1
    BY <1>5, <2>1
  <2>6. o.relies[w][1] = {Cell} /\ o.relies[w][2] \subseteq {Cell}
    BY <1>5, <2>1
  <2>. QED BY <2>1, <2>3, <2>4, <2>5, <2>6 DEF Passes
<1>9. ASSUME NEW w \in Cores, NEW p \in b + 1 .. b + m[w]
      PROVE  Follows(j, o, w, p)
  <2>1. m[w] \in Nat
    BY <1>1
  <2>2. w = own
    BY <1>6, <2>1
  <2>3. p - b \in DOMAIN work /\ (p + 1) - b = (p - b) + 1
    BY <1>6, <1>14, <2>1, <2>2
  <2>4. /\ p \in 1 .. b + m[w] + 3 /\ p + 1 \in 1 .. b + m[w] + 3
        /\ p > b /\ p <= b + m[w] + 1 /\ p + 1 > b /\ p + 1 <= b + m[w] + 1
    BY <2>1
  <2>5. /\ o.turn[w][p] = b + 1 /\ o.turn[w][p + 1] = b + 1
        /\ o.seen[w][p] = trail[p - b] /\ o.seen[w][p + 1] = trail[(p + 1) - b]
    BY <1>4, <2>2, <2>4
  <2>6. o.relies[w][b + 1] = {Cell} /\ \A v \in Cores \ {w} : o.relies[v][b + 1] = {}
    BY <1>5, <2>2
  <2>7. Program[j][w][p] = work[p - b] /\ work[p - b].do # "check"
    <3>1. p - b \in 1 .. m[w] /\ p = b + (p - b)
      BY <2>1
    <3>2. work[p - b].do # "check"
      BY <1>14, <2>3
    <3>. QED BY <1>2, <3>1, <3>2
  <2>8. Used(work[p - b]) \subseteq {Cell}
    BY <1>14, <2>3 DEF Used
  <2>9. Changed(work[p - b]) \subseteq {Cell}
    BY <1>14, <2>3 DEF Changed
  <2>. QED BY <1>14, <2>3, <2>5, <2>6, <2>7, <2>8, <2>9 DEF Follows
<1>10. ASSUME NEW w \in Cores
       PROVE  LET p == b + m[w] + 1
              IN  /\ o.turn[w][p] = b + 1 /\ o.turn[w][p + 1] = b + 2 /\ o.turn[w][p + 2] = b + 2
                  /\ o.seen[w][p] = IF w = own THEN last ELSE Blank
                  /\ o.seen[w][p + 1] = last /\ o.seen[w][p + 2] = last
                  /\ o.fence[w][b + 1] = p /\ o.relies[w][b + 2] = {Cell}
  <2>. DEFINE p == b + m[w] + 1
  <2>1. /\ p \in 1 .. b + m[w] + 3 /\ p + 1 \in 1 .. b + m[w] + 3 /\ p + 2 \in 1 .. b + m[w] + 3
        /\ ~ (p <= b) /\ p <= b + m[w] + 1
        /\ ~ (p + 1 <= b + m[w] + 1) /\ ~ (p + 2 <= b + m[w] + 1)
    BY <1>1
  <2>2. ~ (p + 1 <= b) /\ ~ (p + 2 <= b)
    BY <1>1
  <2>3. w = own => trail[p - b] = last
    <3>1. w = own => p - b = Len(work) + 1
      BY <1>1, <1>6
    <3>. QED BY <3>1 DEF last, Alone
  <2>4. o.fence[w][b + 1] = p /\ o.relies[w][b + 2] = {Cell}
    BY <1>5
  <2>. HIDE DEF p
  <2>5. /\ o.turn[w][p] = b + 1 /\ o.turn[w][p + 1] = b + 2 /\ o.turn[w][p + 2] = b + 2
        /\ o.seen[w][p] = (IF w = own THEN last ELSE Blank)
        /\ o.seen[w][p + 1] = last /\ o.seen[w][p + 2] = last
    <3>1. o.turn[w][p] = b + 1 /\ o.seen[w][p] = (IF w = own THEN last ELSE Blank)
      BY <1>4, <2>1, <2>3
    <3>2. o.turn[w][p + 1] = b + 2 /\ o.seen[w][p + 1] = last
      BY <1>4, <2>1, <2>2
    <3>3. o.turn[w][p + 2] = b + 2 /\ o.seen[w][p + 2] = last
      BY <1>4, <2>1, <2>2
    <3>. QED BY <3>1, <3>2, <3>3
  <2>. QED BY <2>4, <2>5 DEF p
<1>11. ASSUME NEW w \in Cores
       PROVE  Passes(j, o, w, b + m[w] + 1)
  <2>1. o.seen[own][o.fence[own][b + 1]] = last
    BY <1>10
  <2>4. o.relies[own][b + 1] = {Cell}
    BY <1>5
  <2>2. o.seen[w][b + m[w] + 1].reg = {}
    BY <1>3, <1>10
  <2>. DEFINE p == b + m[w] + 1
  <2>3. /\ o.turn[w][p] = b + 1 /\ o.turn[w][p + 1] = b + 1 + 1 /\ o.fence[w][b + 1] = p
        /\ o.seen[w][p + 1] = last /\ last.reg = o.seen[w][p].reg /\ o.relies[w][b + 1 + 1] = {Cell}
    BY <1>3, <1>10, <2>2
  <2>. HIDE DEF p
  <2>. QED BY <2>1, <2>3, <2>4 DEF Passes, p
<1>12. ASSUME NEW w \in Cores
       PROVE  Follows(j, o, w, b + m[w] + 2)
  <2>1. Program[j][w][b + m[w] + 2] = [do |-> "check"]
    BY <1>2
  <2>2. /\ Effect([do |-> "check"], last) = last
        /\ Used([do |-> "check"]) = {Cell} /\ Changed([do |-> "check"]) = {}
    BY CheckEffect DEF last
  <2>3. (b + m[w] + 1) + 1 = b + m[w] + 2 /\ (b + m[w] + 1) + 2 = (b + m[w] + 2) + 1
    BY <1>1
  <2>. DEFINE p == b + m[w] + 2
  <2>4. /\ o.turn[w][p] = b + 2 /\ o.turn[w][p + 1] = b + 2
        /\ o.seen[w][p] = last /\ o.seen[w][p + 1] = last
    BY <1>10, <2>3
  <2>. HIDE DEF p
  <2>. QED BY <1>3, <1>10, <2>1, <2>2, <2>4 DEF Follows, p
<1>13. Outlines(j, o)
  <2>1. ASSUME NEW w \in Cores, NEW p \in DOMAIN Program[j][w]
        PROVE  IF Fence(Program[j][w][p]) THEN Passes(j, o, w, p) ELSE Follows(j, o, w, p)
    <3>1. \/ p \in 1 .. b \/ p \in b + 1 .. b + m[w]
          \/ p = b + m[w] + 1 \/ p = b + m[w] + 2
      <4>1. m[w] \in Nat /\ p \in 1 .. b + m[w] + 2
        BY <1>1, <1>2
      <4>. QED BY <4>1, OwnerPlaces
    <3>2. CASE p \in 1 .. b
      BY <1>2, <1>8, <3>2 DEF Fence
    <3>3. CASE p \in b + 1 .. b + m[w]
      <4>1. p - b \in 1 .. m[w] /\ p = b + (p - b) /\ m[w] > 0
        BY <1>1, <3>3
      <4>2. p - b \in DOMAIN work
        BY <1>6, <1>14, <4>1
      <4>3. Program[j][w][p] = work[p - b]
        BY <1>2, <4>1
      <4>. QED BY <1>9, <1>14, <3>3, <4>2, <4>3 DEF Fence
    <3>4. CASE p = b + m[w] + 1
      BY <1>2, <1>11, <3>4 DEF Fence
    <3>5. CASE p = b + m[w] + 2
      BY <1>2, <1>12, <3>5 DEF Fence
    <3>. QED BY <3>1, <3>2, <3>3, <3>4, <3>5
  <2>. QED BY <1>7, <2>1 DEF Outlines
<1>. QED BY <1>13

-----------------------------------------------------------------------------
\* A step of a core that adds the products P to the cell, or stores them there.
LEMMA WorkTrail ==
    ASSUME NEW P \in SUBSET (Int \X Int), NEW work, work = Put(P) \/ work = Add(P)
    PROVE  LET trail == <<Blank, [Blank EXCEPT !.reg = P], [cell |-> P, copy |-> {}, reg |-> {}]>>
           IN  /\ work \in Seq(Steps) /\ DOMAIN work = 1 .. 2 /\ Len(work) = 2
               /\ \A p \in DOMAIN work :
                     /\ work[p].do = "write" \/ (work[p].do = "read" /\ work[p].copied = {})
                     /\ trail[p + 1] = Effect(work[p], trail[p])
               /\ trail[1] = Blank
               /\ trail[Len(work) + 1] = [cell |-> P, copy |-> {}, reg |-> {}]
<1>. DEFINE mid   == [Blank EXCEPT !.reg = P]
            after == [cell |-> P, copy |-> {}, reg |-> {}]
            trail == <<Blank, mid, after>>
<1>1. PICK old \in BOOLEAN : work = <<Read(old, P, {}), Write>>
  BY DEF Put, Add
<1>2. Read(old, P, {}) \in Steps /\ Write \in Steps
  BY DEF Steps, Read, Write
<1>3. /\ work \in Seq(Steps) /\ DOMAIN work = 1 .. 2 /\ Len(work) = 2
      /\ work[1] = Read(old, P, {}) /\ work[2] = Write
  BY <1>1, <1>2
<1>4. mid = [cell |-> {}, copy |-> {}, reg |-> P]
  BY DEF Blank
<1>5. mid = Effect(work[1], Blank)
  <2>1. /\ work[1].do = "read" /\ work[1].old = old /\ work[1].ab = P /\ work[1].copied = {}
        /\ Blank.cell = {} /\ Blank.copy = {}
    BY <1>3 DEF Read, Blank
  <2>2. Products({}, Blank) = {}
    BY DEF Products
  <2>3. Plus({}, P) = P /\ P \cup {} = P
    BY DEF Plus
  <2>4. Plus(IF old THEN Blank.cell ELSE {}, P \cup Products({}, Blank)) = P
    BY <2>1, <2>2, <2>3
  <2>. QED BY <1>4, <2>1, <2>4 DEF Effect
<1>6. after = Effect(work[2], mid)
  <2>1. work[2].do = "write" /\ mid.reg = P /\ mid.copy = {}
    BY <1>3, <1>4 DEF Write
  <2>. QED BY <2>1 DEF Effect
<1>7. trail[1] = Blank /\ trail[2] = mid /\ trail[3] = after
  OBVIOUS
<1>8. /\ work[1].do = "read" /\ work[1].copied = {} /\ work[2].do = "write"
  BY <1>3 DEF Read, Write
<1>. HIDE DEF mid, after, trail
<1>9. ASSUME NEW p \in DOMAIN work
      PROVE  /\ work[p].do = "write" \/ (work[p].do = "read" /\ work[p].copied = {})
             /\ trail[p + 1] = Effect(work[p], trail[p])
  <2>1. p = 1 \/ p = 2
    BY <1>3
  <2>2. CASE p = 1
    BY <1>5, <1>7, <1>8, <2>2
  <2>3. CASE p = 2
    BY <1>6, <1>7, <1>8, <2>3
  <2>. QED BY <2>1, <2>2, <2>3
<1>10. trail[Len(work) + 1] = after
  BY <1>3, <1>7
<1>. QED BY <1>3, <1>7, <1>9, <1>10 DEF mid, after, trail

\* The cores of the job have programs, of steps, and an outline.
Sound(j) == (\A w \in Cores : Program[j][w] \in Seq(Steps)) /\ \E o : Outlines(j, o)

\* The kernel of job j has its cell computed by core own alone.
Given(j, own, b, work) == \A w \in Cores :
    LET mine == IF w = own THEN work ELSE <<>>
    IN  Matmul(j.kernel, w, NCores, j.size, j.cell) = IF b = 1 THEN Barrier \o mine ELSE mine

LEMMA GivenSound ==
    ASSUME NEW j \in Jobs, j.kernel \notin VvaddKernels, NEW own \in Cores, NEW b \in {0, 1},
           NEW work, NEW P \in SUBSET (Int \X Int), work = Put(P) \/ work = Add(P),
           P = Expected(j), Given(j, own, b, work)
    PROVE  Sound(j)
<1>. DEFINE trail == <<Blank, [Blank EXCEPT !.reg = P], [cell |-> P, copy |-> {}, reg |-> {}]>>
<1>1. /\ work \in Seq(Steps) /\ DOMAIN work = 1 .. 2 /\ Len(work) = 2
      /\ \A p \in DOMAIN work :
            /\ work[p].do = "write" \/ (work[p].do = "read" /\ work[p].copied = {})
            /\ trail[p + 1] = Effect(work[p], trail[p])
      /\ trail[1] = Blank
      /\ trail[Len(work) + 1] = [cell |-> P, copy |-> {}, reg |-> {}]
  BY WorkTrail
<1>. HIDE DEF trail
<1>2. ASSUME NEW w \in Cores
      PROVE  Program[j][w] = OwnerSteps(b, w, own, work)
  <2>1. PICK mine, kernel :
           /\ mine = IF w = own THEN work ELSE <<>>
           /\ kernel = IF b = 1 THEN Barrier \o mine ELSE mine
           /\ kernel = Matmul(j.kernel, w, NCores, j.size, j.cell)
    BY DEF Given
  <2>2. Program[j][w] = kernel \o Sync \o Check
    BY <2>1, ProgramIs DEF MatmulProgram
  <2>3. OwnerSteps(b, w, own, work) = (IF b = 1 THEN Barrier ELSE <<>>) \o mine \o Sync \o Check
    BY <2>1 DEF OwnerSteps, When
  <2>4. (IF b = 1 THEN Barrier ELSE <<>>) \o mine = kernel
    <3>1. CASE b = 1
      BY <2>1, <3>1
    <3>2. CASE b = 0
      <4>1. mine \in Seq(Steps)
        BY <1>1, <2>1
      <4>2. <<>> \o mine = mine
        BY <4>1, ConcatEmptySeq
      <4>. QED BY <2>1, <3>2, <4>2
    <3>. QED BY <3>1, <3>2
  <2>. QED BY <2>2, <2>3, <2>4
<1>3. Alone(j, own, b, work, trail)
  BY <1>1, <1>2 DEF Alone
<1>4. ASSUME NEW w \in Cores
      PROVE  Program[j][w] \in Seq(Steps)
  <2>1. PICK p, m : p = Program[j][w] /\ Works(p, b, w, own, work, m)
    BY <1>2 DEF Works
  <2>2. WorkAt(p, b, work, m)
    BY <1>1, <2>1, OwnerProgram
  <2>. QED BY <2>1, <2>2 DEF WorkAt
<1>5. \E o : Outlines(j, o)
  BY <1>3, AloneOutline
<1>. QED BY <1>4, <1>5 DEF Sound

-----------------------------------------------------------------------------
\* A loop from lo in steps that come to hi exactly reaches all that is below hi.
Whole(lo, hi, step) == \E q \in Int : hi = lo + step * q

LEMMA WithinIs ==
    ASSUME NEW x \in Int, NEW lo \in Int, NEW hi \in Int, NEW step \in Nat \ {0}, Whole(lo, hi, step)
    PROVE  Within(x, lo, hi, step) <=> lo <= x /\ x < hi
<1>1. PICK q \in Int : hi = lo + step * q
  BY DEF Whole
<1>2. hi - lo + step - 1 = step * q + (step - 1) /\ step - 1 \in 0 .. step - 1
  BY <1>1
<1>3. (hi - lo + step - 1) \div step = q
  BY <1>2, QuotientIs
<1>. QED BY <1>1, <1>3 DEF Within

\* h is the n-th part of L.
PartOf(h, n, L) == h \in Nat /\ L = n * h /\ (L > 0 => h > 0)
PartsFrom(h, n, L) == \A w \in Int : (w * L) \div n = w * h

LEMMA Evenly ==
    ASSUME NEW L \in Nat, NEW n \in Nat \ {0}, L % n = 0
    PROVE  PartOf(L \div n, n, L)
<1>. DEFINE h == L \div n
<1>1. h \in Int /\ L = n * h + (L % n)
  BY Quotient
<1>. HIDE DEF h
<1>2. L = n * h
  BY <1>1
<1>3. (h <= -1 => n * h <= -n) /\ (h = 0 => n * h = 0)
  BY <1>1
<1>4. PartOf(h, n, L)
  BY <1>1, <1>2, <1>3 DEF PartOf
<1>. QED BY <1>4 DEF h

LEMMA PartTimes ==
    ASSUME NEW L \in Nat, NEW n \in Nat \ {0}, NEW h, PartOf(h, n, L)
    PROVE  PartsFrom(h, n, L)
<1>1. h \in Nat /\ L = n * h
  BY DEF PartOf
<1>2. ASSUME NEW w \in Int
      PROVE  (w * L) \div n = w * h
  <2>1. w * (n * h) = n * (w * h)
    BY <1>1
  <2>2. w * L = n * (w * h) + 0 /\ w * h \in Int /\ w * L \in Int
    BY <1>1, <2>1
  <2>. QED BY <2>2, QuotientIs
<1>. QED BY <1>2 DEF PartsFrom

LEMMA Floor ==
    ASSUME NEW L \in Nat, NEW n \in Nat \ {0}
    PROVE  L \div n \in Nat /\ n * (L \div n) <= L
<1>. DEFINE h == L \div n
<1>1. h \in Int /\ L % n \in 0 .. n - 1 /\ L = n * h + (L % n)
  BY Quotient
<1>. HIDE DEF h
<1>2. h <= -1 => n * h <= -n
  BY <1>1
<1>3. n * h \in Int
  BY <1>1
<1>4. h >= 0 /\ n * h <= L
  BY <1>1, <1>2, <1>3
<1>. QED BY <1>1, <1>4 DEF h

\* Core w has row r, if each core has h rows, or if the last also has what is left of L.
HasRow(h, r, w) == w * h <= r /\ r < w * h + h
HasLast(n, h, L, r, w) == h * w <= r /\ r < (IF w # n - 1 THEN h * w + h ELSE L)
OneHasRow(n, h, r) == \E own \in 0 .. n - 1 : \A w \in 0 .. n - 1 : HasRow(h, r, w) <=> w = own
OneHasLast(n, h, L, r) ==
    \E own \in 0 .. n - 1 : \A w \in 0 .. n - 1 : HasLast(n, h, L, r, w) <=> w = own

LEMMA DealtTo ==
    ASSUME NEW n \in Nat \ {0}, NEW h \in Nat \ {0}, NEW r \in Nat, r < n * h
    PROVE  r \div h \in 0 .. n - 1 /\ OneHasRow(n, h, r)
<1>. DEFINE q == r \div h
<1>1. q \in Int /\ r % h \in 0 .. h - 1 /\ r = h * q + (r % h)
  BY Quotient
<1>2. ASSUME NEW w \in 0 .. n - 1, HasRow(h, r, w)
      PROVE  w = q
  <2>1. r = h * w + (r - h * w) /\ r - h * w \in 0 .. h - 1
    BY <1>2 DEF HasRow
  <2>. QED BY <2>1, QuotientIs
<1>. HIDE DEF q
<1>3. HasRow(h, r, q)
  BY <1>1 DEF HasRow
<1>4. q >= 0
  <2>1. q <= -1 => h * q <= -h
    BY <1>1
  <2>. QED BY <1>1, <2>1
<1>5. q <= n - 1
  <2>1. q >= n => h * q >= n * h
    BY <1>1
  <2>. QED BY <1>1, <2>1
<1>6. q \in 0 .. n - 1
  BY <1>1, <1>4, <1>5
<1>7. OneHasRow(n, h, r)
  BY <1>2, <1>3, <1>6 DEF OneHasRow
<1>. QED BY <1>6, <1>7 DEF q

LEMMA DealtLast ==
    ASSUME NEW n \in Nat \ {0}, NEW h \in Nat, NEW L \in Nat, n * h <= L, NEW r \in 0 .. L - 1
    PROVE  OneHasLast(n, h, L, r)
<1>1. CASE r < (n - 1) * h
  <2>1. h \in Nat \ {0} /\ n - 1 \in Nat \ {0} /\ r \in Nat
    <3>1. (n = 1 => (n - 1) * h = 0) /\ (h = 0 => (n - 1) * h = 0)
      OBVIOUS
    <3>. QED BY <1>1, <3>1
  <2>2. OneHasRow(n - 1, h, r)
    BY <1>1, <2>1, DealtTo
  <2>3. PICK own \in 0 .. (n - 1) - 1 : \A w \in 0 .. (n - 1) - 1 : HasRow(h, r, w) <=> w = own
    BY <2>2 DEF OneHasRow
  <2>4. own \in 0 .. n - 1 /\ own # n - 1
    OBVIOUS
  <2>5. ASSUME NEW w \in 0 .. n - 1
        PROVE  HasLast(n, h, L, r, w) <=> w = own
    <3>1. CASE w # n - 1
      <4>1. w \in 0 .. (n - 1) - 1 /\ w * h = h * w
        BY <3>1
      <4>2. HasRow(h, r, w) <=> w = own
        BY <2>3, <4>1
      <4>. QED BY <3>1, <4>1, <4>2 DEF HasLast, HasRow
    <3>2. CASE w = n - 1
      <4>1. h * w = (n - 1) * h /\ h * w \in Int
        BY <3>2
      <4>2. ~ (h * w <= r)
        BY <1>1, <4>1
      <4>. QED BY <2>4, <3>2, <4>2 DEF HasLast
    <3>. QED BY <3>1, <3>2
  <2>. QED BY <2>4, <2>5 DEF OneHasLast
<1>2. CASE ~ (r < (n - 1) * h)
  <2>1. n - 1 \in 0 .. n - 1 /\ (n - 1) * h \in Int /\ (n - 1) * h <= r
    BY <1>2
  <2>2. ASSUME NEW w \in 0 .. n - 1
        PROVE  HasLast(n, h, L, r, w) <=> w = n - 1
    <3>1. CASE w = n - 1
      <4>1. h * w = (n - 1) * h
        BY <3>1
      <4>. QED BY <2>1, <3>1, <4>1 DEF HasLast
    <3>2. CASE w # n - 1
      <4>1. w + 1 <= n - 1 /\ h * w + h = (w + 1) * h /\ (w + 1) * h \in Int
        BY <3>2
      <4>2. (w + 1) * h <= (n - 1) * h
        BY <4>1
      <4>3. ~ (r < h * w + h)
        BY <2>1, <4>1, <4>2
      <4>. QED BY <3>2, <4>3 DEF HasLast
    <3>. QED BY <3>1, <3>2
  <2>. QED BY <2>1, <2>2 DEF OneHasLast
<1>. QED BY <1>1, <1>2

\* A cell of a matrix of L by L is in one of its L rows.
LEMMA CellIn ==
    ASSUME NEW L \in Nat, NEW c \in Nat, c < L * L
    PROVE  /\ L > 0 /\ c \div L \in 0 .. L - 1 /\ c % L \in 0 .. L - 1
<1>1. L > 0
  OBVIOUS
<1>2. c % L \in 0 .. L - 1
  BY <1>1, Quotient
<1>3. c \div L \in 0 .. L - 1
  BY <1>1, DealtTo
<1>. QED BY <1>1, <1>2, <1>3

LEMMA DotTyped ==
    ASSUME NEW a \in Int, NEW b \in Int, NEW stride \in Int, NEW ks \in SUBSET Int
    PROVE  Dot(a, b, stride, ks) \in SUBSET (Int \X Int)
BY DEF Dot

\* Kernels that give every core the same number of whole rows.
LEMMA AISound ==
    ASSUME NEW j \in Jobs, j.kernel \in {"ai", "ci"}, j.cell < j.size * j.size, j.size % NCores = 0
    PROVE  Sound(j)
<1>. DEFINE n == NCores
            L == j.size
            c == j.cell
            P == Dot((c \div L) * L, c % L, L, 0 .. L - 1)
            work == Put(P)
<1>1. L \in Nat /\ c \in Nat /\ n \in Nat \ {0} /\ Cores = 0 .. n - 1
  BY JobsAssumption DEF Cores
<1>. HIDE DEF n, L, c
<1>2. L > 0 /\ c \div L \in 0 .. L - 1 /\ c % L \in 0 .. L - 1
  BY <1>1, CellIn DEF L, c
<1>3. PICK h : h = L \div n /\ PartOf(h, n, L)
  <2>1. L % n = 0
    BY DEF L, n
  <2>. QED BY <1>1, <2>1, Evenly
<1>4. h \in Nat \ {0} /\ L = n * h
  BY <1>2, <1>3 DEF PartOf
<1>5. PICK own \in 0 .. n - 1 : \A w \in 0 .. n - 1 : HasRow(h, c \div L, w) <=> w = own
  <2>1. c \div L < n * h /\ c \div L \in Nat
    BY <1>1, <1>2, <1>4
  <2>2. OneHasRow(n, h, c \div L)
    BY <1>1, <1>4, <2>1, DealtTo
  <2>. QED BY <2>2 DEF OneHasRow
<1>6. ASSUME NEW w \in Cores
      PROVE  Matmul(j.kernel, w, n, L, c) = Barrier \o (IF w = own THEN work ELSE <<>>)
  <2>1. (w * L) \div n = w * h
    <3>1. w \in Int
      BY <1>1
    <3>2. PartsFrom(h, n, L)
      BY <1>1, <1>3, PartTimes
    <3>. QED BY <3>1, <3>2 DEF PartsFrom
  <2>2. Within(c \div L, w * h, w * h + h, 1) <=> w = own
    <3>1. w * h \in Int /\ w * h + h \in Int /\ w * h + h = w * h + 1 * h
      BY <1>1, <1>4
    <3>3. Whole(w * h, w * h + h, 1)
      BY <1>4, <3>1 DEF Whole
    <3>2. Within(c \div L, w * h, w * h + h, 1) <=> w * h <= c \div L /\ c \div L < w * h + h
      BY <1>1, <1>2, <3>1, <3>3, WithinIs
    <3>. QED BY <1>1, <1>5, <3>2 DEF HasRow
  <2>3. CASE j.kernel = "ai"
    <3>1. Matmul(j.kernel, w, n, L, c) = AI(w, n, L, c)
      BY <2>3 DEF Matmul
    <3>. QED BY <2>1, <2>2, <1>3, <3>1 DEF AI, When
  <2>4. CASE j.kernel = "ci"
    <3>1. Matmul(j.kernel, w, n, L, c) = CI(w, n, L, c)
      BY <2>4 DEF Matmul
    <3>. QED BY <2>1, <2>2, <1>3, <3>1 DEF CI, When
  <2>. QED BY <2>3, <2>4
<1>7. Given(j, own, 1, work)
  BY <1>6 DEF Given, n, L, c
<1>8. P \in SUBSET (Int \X Int)
  <2>1. (c \div L) * L \in Int /\ c % L \in Int /\ 0 .. L - 1 \in SUBSET Int
    BY <1>1, <1>2
  <2>. QED BY <1>1, <2>1, DotTyped
<1>9. j.kernel \notin VvaddKernels /\ P = Expected(j)
  BY DEF VvaddKernels, Expected, L, c
<1>10. own \in Cores
  BY <1>1, <1>5
<1>. HIDE DEF P
<1>. QED BY <1>7, <1>8, <1>9, <1>10, GivenSound

LEMMA BBSound ==
    ASSUME NEW j \in Jobs, j.kernel = "bb", j.cell < j.size * j.size, j.size % (4 * NCores) = 0
    PROVE  Sound(j)
<1>. DEFINE n == NCores
            L == j.size
            c == j.cell
            P == Dot((c \div L) * L, c % L, L, 0 .. L - 1)
            work == Put(P)
<1>1. L \in Nat /\ c \in Nat /\ n \in Nat \ {0} /\ Cores = 0 .. n - 1
  BY JobsAssumption DEF Cores
<1>2. L % (4 * n) = 0
  OBVIOUS
<1>. HIDE DEF n, L, c
<1>3. L > 0 /\ c \div L \in 0 .. L - 1 /\ c % L \in 0 .. L - 1
  BY <1>1, CellIn DEF L, c
<1>4. PICK k \in Nat : k > 0 /\ L = (4 * n) * k
  <2>1. 4 * n \in Nat \ {0}
    BY <1>1
  <2>2. PartOf(L \div (4 * n), 4 * n, L)
    BY <1>1, <1>2, <2>1, Evenly
  <2>. QED BY <1>3, <2>2 DEF PartOf
<1>5. PICK h \in Nat \ {0} : h = 4 * k /\ L \div n = h /\ L = n * h
  <2>1. L = n * (4 * k) /\ L = n * (4 * k) + 0 /\ 4 * k \in Nat \ {0}
    BY <1>1, <1>4
  <2>2. L \div n = 4 * k
    BY <1>1, <2>1, QuotientIs
  <2>. QED BY <2>1, <2>2
<1>6. PICK own \in 0 .. n - 1 : \A w \in 0 .. n - 1 : HasRow(h, c \div L, w) <=> w = own
  <2>1. c \div L < n * h /\ c \div L \in Nat
    BY <1>1, <1>3, <1>5
  <2>2. OneHasRow(n, h, c \div L)
    BY <1>1, <2>1, DealtTo
  <2>. QED BY <2>2 DEF OneHasRow
<1>7. ASSUME NEW w \in Cores
      PROVE  Matmul(j.kernel, w, n, L, c) = IF w = own THEN work ELSE <<>>
  <2>1. Within(c \div L, w * h, (w + 1) * h, 4) <=> w = own
    <3>1. w * h \in Int /\ (w + 1) * h \in Int /\ (w + 1) * h = w * h + h /\ w * h + h = w * h + 4 * k
      BY <1>1, <1>5
    <3>3. Whole(w * h, (w + 1) * h, 4)
      BY <1>4, <3>1 DEF Whole
    <3>2. Within(c \div L, w * h, (w + 1) * h, 4) <=> w * h <= c \div L /\ c \div L < (w + 1) * h
      BY <1>1, <1>3, <3>1, <3>3, WithinIs
    <3>. QED BY <1>1, <1>6, <3>1, <3>2 DEF HasRow
  <2>2. Matmul(j.kernel, w, n, L, c) = BB(w, n, L, c)
    BY DEF Matmul
  <2>. QED BY <1>5, <2>1, <2>2 DEF BB, When
<1>8. Given(j, own, 0, work)
  BY <1>7 DEF Given, n, L, c
<1>9. P \in SUBSET (Int \X Int)
  <2>1. (c \div L) * L \in Int /\ c % L \in Int /\ 0 .. L - 1 \in SUBSET Int
    BY <1>1, <1>3
  <2>. QED BY <1>1, <2>1, DotTyped
<1>10. j.kernel \notin VvaddKernels /\ P = Expected(j)
  BY DEF VvaddKernels, Expected, L, c
<1>11. own \in Cores
  BY <1>1, <1>6
<1>. HIDE DEF P
<1>. QED BY <1>8, <1>9, <1>10, <1>11, GivenSound

\* The last core has the rows that the others leave.
LEMMA BMSound ==
    ASSUME NEW j \in Jobs, j.kernel = "bm", j.cell < j.size * j.size,
           j.size % 4 = 0, (j.size \div NCores) % 4 = 0
    PROVE  Sound(j)
<1>. DEFINE n == NCores
            L == j.size
            c == j.cell
            P == Dot((c \div L) * L, c % L, L, 0 .. L - 1)
            work == Add(P)
<1>1. L \in Nat /\ c \in Nat /\ n \in Nat \ {0} /\ Cores = 0 .. n - 1
      /\ L % 4 = 0 /\ (L \div n) % 4 = 0
  BY JobsAssumption DEF Cores
<1>. HIDE DEF n, L, c
<1>2. L > 0 /\ c \div L \in 0 .. L - 1 /\ c % L \in 0 .. L - 1
  BY <1>1, CellIn DEF L, c
<1>3. PICK h \in Nat, r \in 0 .. L - 1 :
         h = L \div n /\ n * h <= L /\ r = c \div L /\ h % 4 = 0
  <2>1. L \div n \in Nat /\ n * (L \div n) <= L
    BY <1>1, Floor
  <2>. QED BY <1>1, <1>2, <2>1
<1>4. PICK k \in Int, l \in Int : h = 4 * k /\ L = 4 * l
  <2>1. PartOf(h \div 4, 4, h) /\ PartOf(L \div 4, 4, L)
    BY <1>1, <1>3, Evenly
  <2>. QED BY <2>1 DEF PartOf
<1>5. PICK own \in 0 .. n - 1 : \A w \in 0 .. n - 1 : HasLast(n, h, L, r, w) <=> w = own
  <2>1. OneHasLast(n, h, L, r)
    BY <1>1, <1>3, DealtLast
  <2>. QED BY <2>1 DEF OneHasLast
<1>6. ASSUME NEW w \in Cores
      PROVE  Matmul(j.kernel, w, n, L, c) = IF w = own THEN work ELSE <<>>
  <2>1. PICK end, e \in Int :
           end = (IF w # n - 1 THEN h * w + h ELSE L) /\ end = 4 * e
    <3>1. w # n - 1 => h * w + h = 4 * (k * w + k) /\ k * w + k \in Int
      BY <1>1, <1>4
    <3>2. CASE w # n - 1
      BY <3>1, <3>2
    <3>3. CASE w = n - 1
      BY <1>4, <3>3
    <3>. QED BY <3>2, <3>3
  <2>2. (end \div 4) * 4 = end
    <3>1. end = 4 * e + 0 /\ end \in Int
      BY <2>1
    <3>2. end \div 4 = e
      BY <3>1, QuotientIs
    <3>. QED BY <3>1, <3>2
  <2>3. Within(r, h * w, end, 4) <=> w = own
    <3>1. h * w \in Int /\ end \in Int /\ e - k * w \in Int /\ h * w = 4 * (k * w)
      BY <1>1, <1>3, <1>4, <2>1
    <3>2. end = h * w + 4 * (e - k * w)
      BY <1>1, <1>4, <2>1, <3>1
    <3>4. Whole(h * w, end, 4)
      BY <3>1, <3>2 DEF Whole
    <3>3. Within(r, h * w, end, 4) <=> h * w <= r /\ r < end
      BY <1>1, <3>1, <3>4, WithinIs
    <3>. QED BY <1>1, <1>5, <2>1, <3>3 DEF HasLast
  <2>4. Matmul(j.kernel, w, n, L, c) = BM(w, n, L, c)
    BY DEF Matmul
  <2>5. BM(w, n, L, c) = IF Within(r, h * w, (end \div 4) * 4, 4) THEN work ELSE <<>>
    BY <1>3, <2>1 DEF BM, When
  <2>. QED BY <2>2, <2>3, <2>4, <2>5
<1>7. Given(j, own, 0, work)
  BY <1>6 DEF Given, n, L, c
<1>8. P \in SUBSET (Int \X Int)
  <2>1. (c \div L) * L \in Int /\ c % L \in Int /\ 0 .. L - 1 \in SUBSET Int
    BY <1>1, <1>2
  <2>. QED BY <1>1, <2>1, DotTyped
<1>9. j.kernel \notin VvaddKernels /\ P = Expected(j)
  BY DEF VvaddKernels, Expected, L, c
<1>10. own \in Cores
  BY <1>1, <1>5
<1>. HIDE DEF P
<1>. QED BY <1>7, <1>8, <1>9, <1>10, GivenSound

\* Matrices of 32 by 32: 32 \div n rows for every core.
LEMMA DOSound ==
    ASSUME NEW j \in Jobs, j.kernel = "do", j.size = 32, j.cell < 32 * 32, 32 % NCores = 0
    PROVE  Sound(j)
<1>. DEFINE n == NCores
            c == j.cell
            P == Dot((c \div 32) * 32, c % 32, 32, 0 .. 32 - 1)
            work == Put(P)
<1>1. c \in Nat /\ n \in Nat \ {0} /\ Cores = 0 .. n - 1 /\ 32 % n = 0
  BY JobsAssumption DEF Cores
<1>. HIDE DEF n, c
<1>2. c \div 32 \in 0 .. 31 /\ c % 32 \in 0 .. 31
  <2>1. c < 32 * 32
    BY DEF c
  <2>2. c \div 32 \in 0 .. 32 - 1 /\ c % 32 \in 0 .. 32 - 1
    BY <1>1, <2>1, CellIn
  <2>. QED BY <2>2
<1>3. PICK h \in Nat : h = 32 \div n /\ 32 = n * h /\ h > 0
  <2>1. PartOf(32 \div n, n, 32)
    BY <1>1, Evenly
  <2>. QED BY <2>1 DEF PartOf
<1>4. PICK own \in 0 .. n - 1 : \A w \in 0 .. n - 1 : HasRow(h, c \div 32, w) <=> w = own
  <2>1. c \div 32 < n * h /\ c \div 32 \in Nat /\ h \in Nat \ {0}
    BY <1>2, <1>3
  <2>2. OneHasRow(n, h, c \div 32)
    BY <1>1, <2>1, DealtTo, Zenon
  <2>. QED BY <2>2 DEF OneHasRow
<1>5. ASSUME NEW w \in Cores
      PROVE  Matmul(j.kernel, w, n, 32, c) = IF w = own THEN work ELSE <<>>
  <2>1. Within(c \div 32, w * h, (w + 1) * h, 1) <=> w = own
    <3>1. w * h \in Int /\ (w + 1) * h \in Int /\ (w + 1) * h = w * h + h /\ w * h + h = w * h + 1 * h
      BY <1>1, <1>3
    <3>3. Whole(w * h, (w + 1) * h, 1)
      BY <1>3, <3>1 DEF Whole
    <3>2. Within(c \div 32, w * h, (w + 1) * h, 1) <=> w * h <= c \div 32 /\ c \div 32 < (w + 1) * h
      BY <1>1, <1>2, <3>1, <3>3, WithinIs
    <3>. QED BY <1>1, <1>4, <3>1, <3>2 DEF HasRow
  <2>2. Matmul(j.kernel, w, n, 32, c) = DO(w, n, 32, c)
    BY DEF Matmul
  <2>3. c < 32 * 32 /\ 0 .. 31 = 0 .. 32 - 1
    BY DEF c
  <2>. QED BY <1>3, <2>1, <2>2, <2>3 DEF DO, When
<1>6. Given(j, own, 0, work)
  BY <1>5 DEF Given, n, c
<1>7. P \in SUBSET (Int \X Int)
  <2>1. (c \div 32) * 32 \in Int /\ c % 32 \in Int /\ 0 .. 32 - 1 \in SUBSET Int
    BY <1>1, <1>2
  <2>. QED BY <1>1, <2>1, DotTyped
<1>8. j.kernel \notin VvaddKernels /\ P = Expected(j)
  BY DEF VvaddKernels, Expected, c
<1>9. own \in Cores
  BY <1>1, <1>4
<1>. HIDE DEF P
<1>. QED BY <1>6, <1>7, <1>8, <1>9, GivenSound

\* Matrices of 32 by 32: 512 cells for cores 0 and 1, or all for the only core.
LEMMA AYSound ==
    ASSUME NEW j \in Jobs, j.kernel \in {"ay", "az", "cy"}, j.size = 32, j.cell < 32 * 32
    PROVE  Sound(j)
<1>. DEFINE n == NCores
            c == j.cell
            P == Dot(32 * (c \div 32), c % 32, 32, 0 .. 32 - 1)
            work == Put(P)
<1>1. c \in Nat /\ n \in Nat \ {0} /\ Cores = 0 .. n - 1 /\ c < 32 * 32
  BY JobsAssumption DEF Cores
<1>. HIDE DEF n, c
<1>2. c \div 32 \in 0 .. 31 /\ c % 32 \in 0 .. 31
  <2>1. c \div 32 \in 0 .. 32 - 1 /\ c % 32 \in 0 .. 32 - 1
    BY <1>1, CellIn
  <2>. QED BY <2>1
<1>3. PICK own \in 0 .. n - 1 : own = IF n = 1 \/ c < 512 THEN 0 ELSE 1
  BY <1>1
<1>4. ASSUME NEW w \in Cores
      PROVE  Matmul(j.kernel, w, n, 32, c) = IF w = own THEN work ELSE <<>>
  <2>. DEFINE mine == w <= 1 /\ Within(c, 512 * w, 512 * (IF n = 1 THEN 2 ELSE w + 1), 8)
  <2>1. mine <=> w = own
    <3>1. PICK hi \in Int, q \in Int :
             hi = 512 * (IF n = 1 THEN 2 ELSE w + 1) /\ hi = 512 * w + 8 * q
      <4>1. CASE n = 1
        <5>1. 512 * 2 = 512 * w + 8 * (128 - 64 * w)
          BY <1>1
        <5>. QED BY <1>1, <4>1, <5>1
      <4>2. CASE n # 1
        <5>1. 512 * (w + 1) = 512 * w + 8 * 64
          BY <1>1
        <5>. QED BY <1>1, <4>2, <5>1
      <4>. QED BY <4>1, <4>2
    <3>2. Within(c, 512 * w, hi, 8) <=> 512 * w <= c /\ c < hi
      <4>1. Whole(512 * w, hi, 8) /\ 512 * w \in Int
        BY <1>1, <3>1, SMTT(30) DEF Whole
      <4>. QED BY <1>1, <4>1, WithinIs
    <3>3. w <= 1 /\ 512 * w <= c /\ c < hi <=> w = own
      <4>1. CASE n = 1
        BY <1>1, <1>3, <3>1, <4>1
      <4>2. CASE n # 1
        BY <1>1, <1>3, <3>1, <4>2
      <4>. QED BY <4>1, <4>2
    <3>. QED BY <3>1, <3>2, <3>3
  <2>2. Matmul(j.kernel, w, n, 32, c) = IF mine THEN work ELSE <<>>
    <3>1. CASE j.kernel = "ay"
      <4>1. Matmul(j.kernel, w, n, 32, c) = AY(w, n, 32, c)
        BY <3>1 DEF Matmul
      <4>. QED BY <4>1 DEF AY, When
    <3>2. CASE j.kernel = "az"
      <4>1. Matmul(j.kernel, w, n, 32, c) = AZ(w, n, 32, c)
        BY <3>2 DEF Matmul
      <4>. QED BY <4>1 DEF AZ, When
    <3>3. CASE j.kernel = "cy"
      <4>1. Matmul(j.kernel, w, n, 32, c) = CY(w, n, 32, c)
        BY <3>3 DEF Matmul
      <4>. QED BY <4>1 DEF CY, When
    <3>. QED BY <3>1, <3>2, <3>3
  <2>. HIDE DEF mine
  <2>. QED BY <2>1, <2>2
<1>5. Given(j, own, 0, work)
  BY <1>4 DEF Given, n, c
<1>6. P \in SUBSET (Int \X Int)
  <2>1. 32 * (c \div 32) \in Int /\ c % 32 \in Int /\ 0 .. 32 - 1 \in SUBSET Int
    BY <1>2
  <2>. QED BY <2>1, DotTyped
<1>7. j.kernel \notin VvaddKernels /\ P = Expected(j)
  <2>1. 32 * (c \div 32) = (c \div 32) * 32
    BY <1>2
  <2>. QED BY <2>1 DEF VvaddKernels, Expected, c
<1>8. own \in Cores
  BY <1>1, <1>3
<1>. HIDE DEF P
<1>. QED BY <1>5, <1>6, <1>7, <1>8, GivenSound

-----------------------------------------------------------------------------
(***************************************************************************)
(* A program p in n turns, each some work, with no barrier in it, and then *)
(* a barrier of the driver's, which is step f[k] in turn k.                *)
(***************************************************************************)
LaidAt(p, n, work, f) ==
    /\ f \in [0 .. n -> Nat] /\ f[0] = 0
    /\ p \in Seq(Steps) /\ Len(p) = f[n]
    /\ \A k \in 1 .. n :
          /\ work[k] \in Seq(Steps) /\ f[k] = f[k - 1] + Len(work[k]) + 1
          /\ p[f[k]] = [do |-> "sync"]
          /\ \A i \in 1 .. Len(work[k]) : p[f[k - 1] + i] = work[k][i]
    /\ \A k, l \in 0 .. n : k < l => f[k] < f[l]
    /\ \A q \in 1 .. f[n] : \E k \in 1 .. n : f[k - 1] < q /\ q <= f[k]
Laid(p, n, work) == \E f : LaidAt(p, n, work, f)

LEMMA LaidFirst ==
    ASSUME NEW work, work[1] = <<>>
    PROVE  Laid(Sync, 1, work)
<1>1. PICK p, f : p = Sync /\ f = [k \in 0 .. 1 |-> k]
  OBVIOUS
<1>2. p \in Seq(Steps) /\ Len(p) = 1 /\ p[1] = [do |-> "sync"]
  BY <1>1, OneStep DEF Sync
<1>3. /\ f \in [0 .. 1 -> Nat] /\ f[0] = 0 /\ f[1] = 1
      /\ \A k, l \in 0 .. 1 : k < l => f[k] < f[l]
  BY <1>1
<1>4. work[1] \in Seq(Steps) /\ Len(work[1]) = 0
  OBVIOUS
<1>5. ASSUME NEW k \in 1 .. 1
      PROVE  /\ work[k] \in Seq(Steps) /\ f[k] = f[k - 1] + Len(work[k]) + 1
             /\ p[f[k]] = [do |-> "sync"]
             /\ \A i \in 1 .. Len(work[k]) : p[f[k - 1] + i] = work[k][i]
  <2>1. k = 1 /\ k - 1 = 0
    OBVIOUS
  <2>. QED BY <1>2, <1>3, <1>4, <2>1
<1>6. \A q \in 1 .. f[1] : \E k \in 1 .. 1 : f[k - 1] < q /\ q <= f[k]
  <2>1. ASSUME NEW q \in 1 .. f[1]
        PROVE  1 \in 1 .. 1 /\ f[1 - 1] < q /\ q <= f[1]
    BY <1>3
  <2>. QED BY <2>1
<1>7. LaidAt(p, 1, work, f)
  BY <1>2, <1>3, <1>5, <1>6 DEF LaidAt
<1>. QED BY <1>1, <1>7 DEF Laid

LEMMA LaidNext ==
    ASSUME NEW p, NEW n \in Nat, NEW work, Laid(p, n, work), work[n + 1] \in Seq(Steps)
    PROVE  Laid((p \o work[n + 1]) \o Sync, n + 1, work)
<1>1. PICK f : LaidAt(p, n, work, f)
  BY DEF Laid
<1>2. PICK t, sync, s, r, m, g :
         /\ t = work[n + 1] /\ sync = Sync /\ s = p \o t /\ r = s \o sync /\ m = Len(t)
         /\ g = [k \in 0 .. n + 1 |-> IF k <= n THEN f[k] ELSE f[n] + m + 1]
  OBVIOUS
<1>3. /\ f \in [0 .. n -> Nat] /\ f[0] = 0 /\ p \in Seq(Steps) /\ Len(p) = f[n] /\ f[n] \in Nat
      /\ t \in Seq(Steps) /\ m \in Nat /\ sync \in Seq(Steps) /\ Len(sync) = 1
      /\ sync[1] = [do |-> "sync"]
  BY <1>1, <1>2, OneStep DEF LaidAt, Sync
<1>4. /\ s \in Seq(Steps) /\ Len(s) = f[n] + m
      /\ \A i \in 1 .. f[n] : s[i] = p[i]
      /\ \A i \in 1 .. m : s[f[n] + i] = t[i]
  <2>1. p \in Seq(Steps) /\ t \in Seq(Steps) /\ s = p \o t
    BY <1>2, <1>3
  <2>2. JoinOf(s, p, t)
    BY <2>1, Joined
  <2>. QED BY <1>2, <1>3, <2>2 DEF JoinOf
<1>5. /\ r \in Seq(Steps) /\ Len(r) = f[n] + m + 1
      /\ \A i \in 1 .. f[n] + m : r[i] = s[i]
      /\ r[f[n] + m + 1] = [do |-> "sync"]
  <2>1. s \in Seq(Steps) /\ sync \in Seq(Steps) /\ r = s \o sync
    BY <1>2, <1>3, <1>4
  <2>2. JoinOf(r, s, sync)
    BY <2>1, Joined
  <2>3. /\ r \in Seq(Steps) /\ Len(r) = Len(s) + 1
        /\ \A i \in 1 .. Len(s) : r[i] = s[i]
        /\ r[Len(s) + 1] = sync[1]
    BY <1>3, <2>2 DEF JoinOf
  <2>. QED BY <1>3, <1>4, <2>3
<1>6. /\ g \in [0 .. n + 1 -> Nat] /\ \A k \in 0 .. n : g[k] = f[k]
      /\ g[n + 1] = f[n] + m + 1
  <2>1. PICK e \in Nat : e = f[n] + m + 1
    BY <1>3
  <2>2. g = [k \in 0 .. n + 1 |-> IF k <= n THEN f[k] ELSE e]
    BY <1>2, <2>1, Zenon
  <2>3. f \in [0 .. n -> Nat]
    BY <1>3, Zenon
  <2>4. /\ g \in [0 .. n + 1 -> Nat] /\ \A k \in 0 .. n : g[k] = f[k]
        /\ g[n + 1] = e
    BY <2>2, <2>3
  <2>. QED BY <2>1, <2>4
<1>7. ASSUME NEW k \in 1 .. n + 1
      PROVE  /\ work[k] \in Seq(Steps) /\ g[k] = g[k - 1] + Len(work[k]) + 1
             /\ r[g[k]] = [do |-> "sync"]
             /\ \A i \in 1 .. Len(work[k]) : r[g[k - 1] + i] = work[k][i]
  <2>1. CASE k <= n
    <3>1. k \in 1 .. n /\ k - 1 \in 0 .. n /\ k \in 0 .. n
      BY <2>1
    <3>2. /\ work[k] \in Seq(Steps) /\ f[k] = f[k - 1] + Len(work[k]) + 1
          /\ p[f[k]] = [do |-> "sync"]
          /\ \A i \in 1 .. Len(work[k]) : p[f[k - 1] + i] = work[k][i]
      BY <1>1, <3>1 DEF LaidAt
    <3>3. Len(work[k]) \in Nat /\ f[k] \in Nat /\ f[k - 1] \in Nat /\ g[k] = f[k] /\ g[k - 1] = f[k - 1]
      <4>1. g[k] = f[k] /\ g[k - 1] = f[k - 1]
        BY <1>6, <3>1, Zenon
      <4>2. f \in [0 .. n -> Nat]
        BY <1>3, Zenon
      <4>3. f[k] \in Nat /\ f[k - 1] \in Nat
        BY <3>1, <4>2
      <4>4. Len(work[k]) \in Nat
        BY <3>2
      <4>. QED BY <4>1, <4>3, <4>4, Zenon
    <3>4. f[k] <= f[n]
      <4>1. k < n => f[k] < f[n]
        BY <1>1, <3>1 DEF LaidAt
      <4>. QED BY <1>3, <2>1, <3>3, <4>1
    <3>5. \A i \in 1 .. f[n] : r[i] = p[i]
      BY <1>3, <1>4, <1>5
    <3>6. f[k] \in 1 .. f[n] /\ \A i \in 1 .. Len(work[k]) : f[k - 1] + i \in 1 .. f[n]
      <4>1. PICK a \in Nat, l \in Nat, b \in Nat, e \in Nat :
               a = f[k - 1] /\ l = Len(work[k]) /\ b = f[k] /\ e = f[n]
        BY <1>3, <3>3
      <4>2. b = a + l + 1 /\ b <= e
        BY <3>2, <3>4, <4>1
      <4>3. b \in 1 .. e /\ \A i \in 1 .. l : a + i \in 1 .. e
        BY <4>2
      <4>. QED BY <4>1, <4>3
    <3>. QED BY <3>2, <3>3, <3>5, <3>6
  <2>2. CASE k = n + 1
    <3>1. work[k] = t /\ g[k] = f[n] + m + 1 /\ g[k - 1] = f[n]
      BY <1>2, <1>6, <2>2
    <3>2. ASSUME NEW i \in 1 .. m
          PROVE  r[f[n] + i] = t[i]
      <4>1. f[n] + i \in 1 .. f[n] + m
        BY <1>3
      <4>. QED BY <1>4, <1>5, <4>1
    <3>3. work[k] \in Seq(Steps) /\ Len(work[k]) = m
      BY <1>2, <1>3, <3>1
    <3>4. g[k] = g[k - 1] + Len(work[k]) + 1 /\ r[g[k]] = [do |-> "sync"]
      BY <1>5, <3>1, <3>3
    <3>5. \A i \in 1 .. Len(work[k]) : r[g[k - 1] + i] = work[k][i]
      BY <3>1, <3>2, <3>3, Zenon
    <3>. QED BY <3>3, <3>4, <3>5, Zenon
  <2>. QED BY <2>1, <2>2
<1>8. ASSUME NEW k \in 0 .. n + 1, NEW l \in 0 .. n + 1, k < l
      PROVE  g[k] < g[l]
  <2>1. k \in 0 .. n /\ g[k] = f[k] /\ f[k] \in Nat
    BY <1>3, <1>6, <1>8
  <2>2. CASE l <= n
    <3>1. l \in 0 .. n /\ g[l] = f[l]
      BY <1>6, <2>2
    <3>. QED BY <1>1, <1>8, <2>1, <3>1 DEF LaidAt
  <2>3. CASE l = n + 1
    <3>1. k < n => f[k] < f[n]
      BY <1>1, <2>1 DEF LaidAt
    <3>. QED BY <1>3, <1>6, <2>1, <2>3, <3>1
  <2>. QED BY <2>2, <2>3
<1>9. ASSUME NEW q \in 1 .. g[n + 1]
      PROVE  \E k \in 1 .. n + 1 : g[k - 1] < q /\ q <= g[k]
  <2>1. CASE q <= f[n]
    <3>1. q \in 1 .. f[n]
      BY <1>3, <1>6, <2>1
    <3>2. PICK k \in 1 .. n : f[k - 1] < q /\ q <= f[k]
      BY <1>1, <3>1 DEF LaidAt
    <3>3. k \in 1 .. n + 1 /\ g[k - 1] = f[k - 1] /\ g[k] = f[k]
      BY <1>6
    <3>. QED BY <3>2, <3>3
  <2>2. CASE f[n] < q
    <3>1. n + 1 \in 1 .. n + 1 /\ g[(n + 1) - 1] = f[n] /\ q <= g[n + 1]
      BY <1>3, <1>6
    <3>. QED BY <2>2, <3>1
  <2>. QED BY <1>3, <1>6, <2>1, <2>2
<1>10. g[0] = 0
  BY <1>3, <1>6
<1>11. LaidAt(r, n + 1, work, g)
  BY <1>5, <1>6, <1>7, <1>8, <1>9, <1>10 DEF LaidAt
<1>. QED BY <1>2, <1>11 DEF Laid

-----------------------------------------------------------------------------
(***************************************************************************)
(* The cores of job j take turns at the cell. In turn k core w does        *)
(* work[w][k]; trail[w][k] is what it sees before each of these steps and  *)
(* after the last; value[k] is the cell when the turn begins, for the      *)
(* cores that rely on it.                                                  *)
(***************************************************************************)
Rest(v) == [cell |-> v, copy |-> {}, reg |-> {}]

TurnStep(j, w, k, s, d, e, relies) ==
    /\ ~ Fence(s) /\ e = Effect(s, d)
    /\ Used(s) \cup Changed(s) \subseteq relies[w][k]
    /\ \A v \in Cores \ {w} : Changed(s) \cap relies[v][k] = {}
    /\ s.do = "check" => d.cell = Expected(j)

Turn(j, w, k, work, trail, relies, value) ==
    /\ trail[w][k][1] = Rest(value[k])
    /\ trail[w][k][Len(work[w][k]) + 1].reg = {}
    /\ \A i \in 1 .. Len(work[w][k]) :
          TurnStep(j, w, k, work[w][k][i], trail[w][k][i], trail[w][k][i + 1], relies)

TurnEnd(w, k, work, trail, relies, value) ==
    Cell \in relies[w][k + 1] => \E v \in Cores :
        /\ Cell \in relies[v][k]
        /\ trail[v][k][Len(work[v][k]) + 1].cell = value[k + 1]

TakeTurns(j, n, work, trail, relies, value) ==
    /\ value[1] = {}
    /\ \A w \in Cores, k \in 1 .. n + 1 : relies[w][k] \subseteq {Cell}
    /\ \A w \in Cores, k \in 1 .. n :
          /\ Turn(j, w, k, work, trail, relies, value)
          /\ TurnEnd(w, k, work, trail, relies, value)
          /\ Len(work[w][k]) \in Nat

\* In what turn core w is before step q, and what it sees there.
InTurns(n, work, trail, value, f, o) == \A w \in Cores :
    /\ \A k \in 1 .. n : \A i \in 1 .. Len(work[w][k]) + 1 :
          o.turn[w][f[w][k - 1] + i] = k /\ o.seen[w][f[w][k - 1] + i] = trail[w][k][i]
    /\ o.turn[w][f[w][n] + 1] = n + 1 /\ o.seen[w][f[w][n] + 1] = Rest(value[n + 1])

\* Turn k of a program: its work, and then the barrier.
TurnAt(p, k, work, f) ==
    /\ f[k - 1] \in Nat /\ Len(work[k]) \in Nat
    /\ f[k] = f[k - 1] + Len(work[k]) + 1
    /\ p[f[k]] = [do |-> "sync"]
    /\ \A i \in 1 .. Len(work[k]) : p[f[k - 1] + i] = work[k][i]

LEMMA LaidTurn ==
    ASSUME NEW p, NEW n \in Nat, NEW work, NEW f, LaidAt(p, n, work, f), NEW k \in 1 .. n
    PROVE  TurnAt(p, k, work, f)
<1>1. k - 1 \in 0 .. n
  OBVIOUS
<1>2. f[k - 1] \in Nat
  BY <1>1 DEF LaidAt
<1>3. /\ work[k] \in Seq(Steps) /\ f[k] = f[k - 1] + Len(work[k]) + 1
      /\ p[f[k]] = [do |-> "sync"]
      /\ \A i \in 1 .. Len(work[k]) : p[f[k - 1] + i] = work[k][i]
  BY Zenon DEF LaidAt
<1>4. Len(work[k]) \in Nat
  BY <1>3
<1>. QED BY <1>2, <1>3, <1>4, Zenon DEF TurnAt

AllLaid(p, n, work, f) == \A w \in Cores : LaidAt(p[w], n, work[w], f[w])

LEMMA TurnPlaces ==
    ASSUME NEW n \in Nat \ {0}, NEW work, NEW trail, NEW value, NEW f, NEW relies, NEW p,
           AllLaid(p, n, work, f)
    PROVE  \E o : o.fence = f /\ o.relies = relies /\ InTurns(n, work, trail, value, f, o)
<1>. DEFINE In(w, q) == CHOOSE k \in 1 .. n : f[w][k - 1] < q /\ q <= f[w][k]
            T(w, q) == IF q > f[w][n] THEN n + 1 ELSE In(w, q)
            S(w, q) == IF q > f[w][n] THEN Rest(value[n + 1])
                                      ELSE trail[w][In(w, q)][q - f[w][In(w, q) - 1]]
            o == [turn   |-> [w \in Cores |-> [q \in 1 .. f[w][n] + 1 |-> T(w, q)]],
                  fence  |-> f,
                  relies |-> relies,
                  seen   |-> [w \in Cores |-> [q \in 1 .. f[w][n] + 1 |-> S(w, q)]]]
<1>0. \A w \in Cores : LaidAt(p[w], n, work[w], f[w])
  BY DEF AllLaid
<1>1. ASSUME NEW w \in Cores, NEW k \in 1 .. n, NEW q \in Nat, f[w][k - 1] < q, q <= f[w][k]
      PROVE  In(w, q) = k /\ q <= f[w][n] /\ q >= 1
  <2>1. PICK g : g = f[w]
    OBVIOUS
  <2>2. /\ g \in [0 .. n -> Nat]
        /\ \A x, y \in 0 .. n : x < y => g[x] < g[y]
    BY <1>0, <2>1 DEF LaidAt
  <2>3. ASSUME NEW l \in 1 .. n, g[l - 1] < q, q <= g[l]
        PROVE  l = k
    <3>1. /\ k \in 0 .. n /\ k - 1 \in 0 .. n /\ l \in 0 .. n /\ l - 1 \in 0 .. n
          /\ g[k] \in Nat /\ g[k - 1] \in Nat /\ g[l] \in Nat /\ g[l - 1] \in Nat
      BY <2>2
    <3>2. l < k => g[l] <= g[k - 1]
      <4>1. l < k - 1 => g[l] < g[k - 1]
        BY <2>2, <3>1
      <4>. QED BY <3>1, <4>1
    <3>3. k < l => g[k] <= g[l - 1]
      <4>1. k < l - 1 => g[k] < g[l - 1]
        BY <2>2, <3>1
      <4>. QED BY <3>1, <4>1
    <3>. QED BY <1>1, <2>1, <2>3, <3>1, <3>2, <3>3
  <2>4. In(w, q) = k
    BY <1>1, <2>1, <2>3
  <2>5. g[k] <= g[n] /\ g[k] \in Nat /\ g[n] \in Nat /\ g[k - 1] \in Nat
    <3>1. k < n => g[k] < g[n]
      BY <2>2
    <3>2. k \in 0 .. n /\ n \in 0 .. n /\ k - 1 \in 0 .. n
      OBVIOUS
    <3>. QED BY <2>2, <3>1, <3>2
  <2>. QED BY <1>1, <2>1, <2>4, <2>5
<1>2. ASSUME NEW w \in Cores
      PROVE  f[w][n] \in Nat
  BY <1>0 DEF LaidAt
<1>. HIDE DEF In
<1>3. ASSUME NEW w \in Cores, NEW k \in 1 .. n, NEW i \in 1 .. Len(work[w][k]) + 1
      PROVE  o.turn[w][f[w][k - 1] + i] = k /\ o.seen[w][f[w][k - 1] + i] = trail[w][k][i]
  <2>1. PICK q : q = f[w][k - 1] + i
    OBVIOUS
  <2>2. /\ f[w][k - 1] \in Nat /\ Len(work[w][k]) \in Nat
        /\ f[w][k] = f[w][k - 1] + Len(work[w][k]) + 1
    <3>1. LaidAt(p[w], n, work[w], f[w])
      BY <1>0, Zenon
    <3>2. TurnAt(p[w], k, work[w], f[w])
      BY <3>1, LaidTurn
    <3>. QED BY <3>2 DEF TurnAt
  <2>3. q \in Nat /\ f[w][k - 1] < q /\ q <= f[w][k] /\ q - f[w][k - 1] = i
    <3>1. PICK a \in Nat, l \in Nat : a = f[w][k - 1] /\ l = Len(work[w][k])
      BY <2>2, Zenon
    <3>2. PICK b \in Nat : b = a + l + 1
      OBVIOUS
    <3>3. b = f[w][k]
      BY <2>2, <3>1, <3>2, Zenon
    <3>4. q = a + i /\ i \in 1 .. l + 1
      BY <2>1, <3>1, Zenon
    <3>5. q \in Nat /\ a < q /\ q <= b /\ q - a = i
      BY <3>2, <3>4
    <3>. QED BY <3>1, <3>3, <3>5, Zenon
  <2>4. In(w, q) = k /\ q <= f[w][n] /\ q >= 1
    BY <1>1, <2>3
  <2>5. q \in 1 .. f[w][n] + 1 /\ ~ (q > f[w][n])
    BY <1>2, <2>3, <2>4
  <2>6. T(w, q) = k /\ S(w, q) = trail[w][k][i]
    BY <2>3, <2>4, <2>5
  <2>7. o.turn[w][q] = T(w, q) /\ o.seen[w][q] = S(w, q)
    BY <2>5
  <2>. QED BY <2>1, <2>6, <2>7
<1>4. ASSUME NEW w \in Cores
      PROVE  o.turn[w][f[w][n] + 1] = n + 1 /\ o.seen[w][f[w][n] + 1] = Rest(value[n + 1])
  <2>1. f[w][n] + 1 \in 1 .. f[w][n] + 1 /\ f[w][n] + 1 > f[w][n]
    BY <1>2
  <2>. QED BY <2>1
<1>5. InTurns(n, work, trail, value, f, o)
  BY <1>3, <1>4 DEF InTurns
<1>6. o.fence = f /\ o.relies = relies
  OBVIOUS
<1>. HIDE DEF o
<1>. QED BY <1>5, <1>6

LEMMA TurnsSound ==
    ASSUME NEW j \in Jobs, NEW n \in Nat \ {0}, NEW work, NEW trail, NEW relies, NEW value,
           TakeTurns(j, n, work, trail, relies, value),
           \A w \in Cores : Laid(Program[j][w], n, work[w])
    PROVE  Sound(j)
<1>. DEFINE f == [w \in Cores |-> CHOOSE g : LaidAt(Program[j][w], n, work[w], g)]
<1>1. \A w \in Cores : LaidAt(Program[j][w], n, work[w], f[w])
  BY DEF Laid
<1>. HIDE DEF f
<1>2. PICK o : o.fence = f /\ o.relies = relies /\ InTurns(n, work, trail, value, f, o)
  <2>1. PICK p : p = Program[j]
    OBVIOUS
  <2>2. AllLaid(p, n, work, f)
    BY <1>1, <2>1, Zenon DEF AllLaid
  <2>. QED BY <2>2, TurnPlaces, Zenon
<1>3. ASSUME NEW w \in Cores, NEW k \in 1 .. n + 1
      PROVE  o.turn[w][f[w][k - 1] + 1] = k /\ o.seen[w][f[w][k - 1] + 1] = Rest(value[k])
  <2>1. CASE k <= n
    <3>1. k \in 1 .. n /\ 1 \in 1 .. Len(work[w][k]) + 1
      BY <2>1 DEF TakeTurns
    <3>2. trail[w][k][1] = Rest(value[k])
      BY <3>1 DEF TakeTurns, Turn
    <3>. QED BY <1>2, <3>1, <3>2 DEF InTurns
  <2>2. CASE k = n + 1
    <3>1. k - 1 = n
      BY <2>2
    <3>. QED BY <1>2, <2>2, <3>1 DEF InTurns
  <2>. QED BY <2>1, <2>2
<1>4. ASSUME NEW w \in Cores, NEW k \in 1 .. n, NEW i \in 1 .. Len(work[w][k])
      PROVE  ~ Fence(Program[j][w][f[w][k - 1] + i]) /\ Follows(j, o, w, f[w][k - 1] + i)
  <2>1. PICK q, s, d, e :
           /\ q = f[w][k - 1] + i /\ s = work[w][k][i]
           /\ d = trail[w][k][i] /\ e = trail[w][k][i + 1]
    OBVIOUS
  <2>2. Program[j][w][q] = s
    BY <1>1, <2>1 DEF LaidAt
  <2>3. TurnStep(j, w, k, s, d, e, relies)
    BY <2>1 DEF TakeTurns, Turn
  <2>4. PICK a, l, h : /\ a = f[w][k - 1] /\ l = Len(work[w][k]) /\ h = i + 1
                       /\ a \in Nat /\ l \in Nat
    <3>1. TurnAt(Program[j][w], k, work[w], f[w])
      BY <1>1, LaidTurn
    <3>. QED BY <3>1 DEF TurnAt
  <2>5. q = a + i /\ i \in 1 .. l + 1 /\ h \in 1 .. l + 1 /\ q + 1 = a + h
    <3>1. a \in Nat /\ l \in Nat /\ i \in 1 .. l /\ h = i + 1 /\ q = a + i
      BY <2>1, <2>4
    <3>. QED BY <3>1
  <2>6. o.turn[w][q] = k /\ o.seen[w][q] = d
    <3>1. o.turn[w][a + i] = k /\ o.seen[w][a + i] = trail[w][k][i]
      <4>1. i \in 1 .. Len(work[w][k]) + 1
        BY <2>4, <2>5, Zenon
      <4>2. o.turn[w][f[w][k - 1] + i] = k /\ o.seen[w][f[w][k - 1] + i] = trail[w][k][i]
        BY <1>2, <4>1, Zenon DEF InTurns
      <4>. QED BY <2>4, <4>2, Zenon
    <3>. QED BY <2>1, <2>5, <3>1
  <2>7. o.turn[w][q + 1] = k /\ o.seen[w][q + 1] = e
    <3>1. o.turn[w][a + h] = k /\ o.seen[w][a + h] = trail[w][k][h]
      <4>1. h \in 1 .. Len(work[w][k]) + 1
        BY <2>4, <2>5, Zenon
      <4>2. o.turn[w][f[w][k - 1] + h] = k /\ o.seen[w][f[w][k - 1] + h] = trail[w][k][h]
        BY <1>2, <4>1, Zenon DEF InTurns
      <4>. QED BY <2>4, <4>2, Zenon
    <3>. QED BY <2>1, <2>4, <2>5, <3>1
  <2>8. Follows(j, o, w, q) /\ ~ Fence(s)
    BY <1>2, <2>2, <2>3, <2>6, <2>7 DEF Follows, TurnStep
  <2>. QED BY <2>1, <2>2, <2>8
<1>5. ASSUME NEW w \in Cores, NEW k \in 1 .. n
      PROVE  Fence(Program[j][w][f[w][k]]) /\ Passes(j, o, w, f[w][k])
  <2>1. Program[j][w][f[w][k]] = [do |-> "sync"]
    BY <1>1 DEF LaidAt
  <2>2. Fence(Program[j][w][f[w][k]])
    BY <2>1 DEF Fence
  <2>3. ASSUME NEW v \in Cores
        PROVE  /\ o.turn[v][f[v][k]] = k
               /\ o.seen[v][f[v][k]] = trail[v][k][Len(work[v][k]) + 1]
    <3>0. TurnAt(Program[j][v], k, work[v], f[v])
      BY <1>1, LaidTurn
    <3>1. PICK a, l, h, b :
             /\ a = f[v][k - 1] /\ l = Len(work[v][k]) /\ b = f[v][k] /\ h = l + 1
             /\ a \in Nat /\ l \in Nat /\ b = a + l + 1
      BY <3>0 DEF TurnAt
    <3>2. h \in 1 .. l + 1 /\ b = a + h
      <4>1. a \in Nat /\ l \in Nat /\ b = a + l + 1 /\ h = l + 1
        BY <3>1
      <4>. QED BY <4>1
    <3>3. o.turn[v][a + h] = k /\ o.seen[v][a + h] = trail[v][k][h]
      BY <1>2, <3>1, <3>2 DEF InTurns
    <3>. QED BY <3>1, <3>2, <3>3
  <2>4. o.turn[w][f[w][k] + 1] = k + 1 /\ o.seen[w][f[w][k] + 1] = Rest(value[k + 1])
    <3>1. k + 1 \in 1 .. n + 1 /\ (k + 1) - 1 = k
      OBVIOUS
    <3>. QED BY <1>3, <3>1
  <2>5. o.seen[w][f[w][k]].reg = {}
    BY <2>3 DEF TakeTurns, Turn
  <2>6. ASSUME NEW x \in relies[w][k + 1]
        PROVE  \E v \in Cores :
                  /\ x \in relies[v][k]
                  /\ Held(o.seen[w][f[w][k] + 1], x) = Held(o.seen[v][f[v][k]], x)
    <3>1. x = Cell
      <4>1. k + 1 \in 1 .. n + 1
        OBVIOUS
      <4>. QED BY <4>1 DEF TakeTurns
    <3>2. PICK v \in Cores : /\ Cell \in relies[v][k]
                            /\ trail[v][k][Len(work[v][k]) + 1].cell = value[k + 1]
      BY <3>1 DEF TakeTurns, TurnEnd
    <3>3. Held(o.seen[w][f[w][k] + 1], Cell) = value[k + 1]
      BY <2>4 DEF Held, Rest
    <3>4. Held(o.seen[v][f[v][k]], Cell) = value[k + 1]
      BY <2>3, <3>2 DEF Held
    <3>. QED BY <3>1, <3>2, <3>3, <3>4
  <2>7. Passes(j, o, w, f[w][k])
    <3>1. PICK q, e : q = f[w][k] /\ e = o.seen[w][q + 1]
      OBVIOUS
    <3>2. o.turn[w][q] = k /\ o.turn[w][q + 1] = k + 1 /\ o.fence[w][k] = q
      BY <1>2, <2>3, <2>4, <3>1
    <3>3. e.reg = o.seen[w][q].reg
      BY <2>4, <2>5, <3>1 DEF Rest
    <3>4. \A x \in o.relies[w][k + 1] : \E v \in Cores :
             /\ x \in o.relies[v][k]
             /\ Held(e, x) = Held(o.seen[v][o.fence[v][k]], x)
      BY <1>2, <2>6, <3>1
    <3>. QED BY <3>1, <3>2, <3>3, <3>4 DEF Passes
  <2>. QED BY <2>2, <2>7
<1>6. ASSUME NEW w \in Cores
      PROVE  /\ o.turn[w][1] = 1 /\ o.seen[w][1] = Blank
             /\ \A q \in DOMAIN Program[j][w] :
                   IF Fence(Program[j][w][q]) THEN Passes(j, o, w, q) ELSE Follows(j, o, w, q)
  <2>1. o.turn[w][1] = 1 /\ o.seen[w][1] = Blank
    <3>1. 1 \in 1 .. n + 1 /\ f[w][1 - 1] + 1 = 1
      BY <1>1 DEF LaidAt
    <3>2. Rest(value[1]) = Blank
      BY DEF Rest, Blank, TakeTurns
    <3>. QED BY <1>3, <3>1, <3>2
  <2>2. ASSUME NEW q \in DOMAIN Program[j][w]
        PROVE  IF Fence(Program[j][w][q]) THEN Passes(j, o, w, q) ELSE Follows(j, o, w, q)
    <3>1. q \in 1 .. f[w][n]
      BY <1>1 DEF LaidAt
    <3>2. PICK k \in 1 .. n : f[w][k - 1] < q /\ q <= f[w][k]
      BY <1>1, <3>1 DEF LaidAt
    <3>3. TurnAt(Program[j][w], k, work[w], f[w])
      BY <1>1, LaidTurn
    <3>4. PICK a, l, b, i :
             /\ a = f[w][k - 1] /\ l = Len(work[w][k]) /\ b = f[w][k] /\ i = q - a
             /\ a \in Nat /\ l \in Nat /\ b = a + l + 1
      BY <3>3 DEF TurnAt
    <3>5. CASE q = f[w][k]
      BY <1>5, <3>5
    <3>6. CASE q # f[w][k]
      <4>0. q \in Nat /\ f[w][n] \in Nat
        BY <1>1, <3>1 DEF LaidAt
      <4>1. q \in Nat /\ a < q /\ q < b /\ a \in Nat /\ l \in Nat /\ b = a + l + 1 /\ i = q - a
        BY <3>2, <3>4, <3>6, <4>0
      <4>2. i \in 1 .. l /\ q = a + i
        BY <4>1
      <4>. QED BY <1>4, <3>4, <4>2
    <3>. QED BY <3>5, <3>6
  <2>. QED BY <2>1, <2>2
<1>7. Outlines(j, o)
  BY <1>6 DEF Outlines
<1>8. \A w \in Cores : Program[j][w] \in Seq(Steps)
  BY <1>1 DEF LaidAt
<1>. QED BY <1>7, <1>8 DEF Sound

-----------------------------------------------------------------------------
(***************************************************************************)
(* The turns of a vector addition at one element, by kernel and driver     *)
(* (mt-vvadd.c): its owner stores x + y there, core 0 checks it and puts x *)
(* back, the owner adds y, core 0 checks it again.                         *)
(***************************************************************************)
\* The cell has v, and the core r in its register.
Seen(v, r) == [cell |-> v, copy |-> {}, reg |-> r]

LEMMA ReadTurn ==
    ASSUME NEW old \in BOOLEAN, NEW ab \in SUBSET (Int \X Int), NEW v, NEW r
    PROVE  /\ Read(old, ab, {}) \in Steps /\ ~ Fence(Read(old, ab, {})) /\ Read(old, ab, {}).do # "check"
           /\ Used(Read(old, ab, {})) \subseteq {Cell} /\ Changed(Read(old, ab, {})) = {}
           /\ Effect(Read(old, ab, {}), Seen(v, r)) = Seen(v, Plus(IF old THEN v ELSE {}, ab))
<1>1. PICK s, d : s = Read(old, ab, {}) /\ d = Seen(v, r)
  OBVIOUS
<1>2. s \in Steps /\ s.do = "read" /\ s.old = old /\ s.ab = ab /\ s.copied = {}
  BY <1>1 DEF Read, Steps
<1>3. ~ Fence(s) /\ s.do # "check"
  BY <1>2 DEF Fence
<1>4. Used(s) \subseteq {Cell}
  BY <1>2 DEF Used
<1>5. Changed(s) = {}
  BY <1>2 DEF Changed
<1>6. d.cell = v /\ d.copy = {}
  BY <1>1 DEF Seen
<1>7. Effect(s, d) = Seen(v, Plus(IF old THEN v ELSE {}, ab))
  <2>1. Products(s.copied, d) = {}
    BY <1>2 DEF Products
  <2>2. s.ab \cup Products(s.copied, d) = ab
    BY <1>2, <2>1
  <2>. HIDE DEF Products
  <2>3. Effect(s, d) = [cell |-> d.cell, copy |-> d.copy,
                        reg |-> Plus(IF s.old THEN d.cell ELSE {}, s.ab \cup Products(s.copied, d))]
    BY <1>2 DEF Effect
  <2>. QED BY <1>2, <1>6, <2>2, <2>3 DEF Seen
<1>. QED BY <1>1, <1>2, <1>3, <1>4, <1>5, <1>7

LEMMA WriteTurn ==
    ASSUME NEW v, NEW r
    PROVE  /\ Write \in Steps /\ ~ Fence(Write) /\ Write.do # "check"
           /\ Used(Write) = {} /\ Changed(Write) = {Cell}
           /\ Effect(Write, Seen(v, r)) = Rest(r)
<1>1. PICK s, d : s = Write /\ d = Seen(v, r)
  OBVIOUS
<1>2. s \in Steps /\ s.do = "write"
  BY <1>1 DEF Write, Steps
<1>3. ~ Fence(s) /\ s.do # "check"
  BY <1>2 DEF Fence
<1>4. Used(s) = {}
  BY <1>2 DEF Used
<1>5. Changed(s) = {Cell}
  BY <1>2 DEF Changed
<1>6. d.reg = r /\ d.copy = {}
  BY <1>1 DEF Seen
<1>7. Effect(s, d) = Rest(r)
  BY <1>2, <1>6 DEF Effect, Rest
<1>. QED BY <1>1, <1>2, <1>3, <1>4, <1>5, <1>7

LEMMA CheckTurn ==
    ASSUME NEW v
    PROVE  LET s == [do |-> "check"]
           IN  /\ s \in Steps /\ ~ Fence(s)
               /\ Used(s) \subseteq {Cell} /\ Changed(s) = {}
               /\ Effect(s, Rest(v)) = Rest(v)
<1>1. PICK s : s = [do |-> "check"]
  OBVIOUS
<1>2. s \in Steps /\ s.do = "check"
  BY <1>1 DEF Steps
<1>3. ~ Fence(s)
  BY <1>2 DEF Fence
<1>4. Used(s) \subseteq {Cell} /\ Changed(s) = {} /\ Effect(s, Rest(v)) = Rest(v)
  BY <1>1, CheckEffect DEF Rest
<1>. QED BY <1>1, <1>2, <1>3, <1>4

LEMMA PlusIs ==
    ASSUME NEW x, NEW y, x # y
    PROVE  /\ \A ab : Plus({}, ab) = ab
           /\ Plus({x}, {y}) = {x, y}
BY DEF Plus

\* What a core does in the turns of a vector addition with element c, if it adds
\* to the element (mine) or checks (first): X and Y, copy X, add Y, check.
VvWork(c, own, w) == [k \in 1 .. 5 |->
    IF k = 2 /\ w = own THEN Put({X(c), Y(c)})
    ELSE IF k = 3 /\ w = 0 THEN Check \o Put({X(c)})
    ELSE IF k = 4 /\ w = own THEN Add({Y(c)})
    ELSE IF k = 5 /\ w = 0 THEN Check
    ELSE <<>>]

VvValue(c) == [k \in 1 .. 6 |->
    IF k <= 2 THEN {} ELSE IF k = 4 THEN {X(c)} ELSE {X(c), Y(c)}]

VvTrail(c, own, w) ==
    LET Q == {X(c)}
        P == {X(c), Y(c)}
    IN  [k \in 1 .. 5 |->
            IF k = 2 /\ w = own THEN <<Rest({}), Seen({}, P), Rest(P)>>
            ELSE IF k = 3 /\ w = 0 THEN <<Rest(P), Rest(P), Seen(P, Q), Rest(Q)>>
            ELSE IF k = 4 /\ w = own THEN <<Rest(Q), Seen(Q, P), Rest(P)>>
            ELSE IF k = 5 /\ w = 0 THEN <<Rest(P), Rest(P)>>
            ELSE <<Rest(VvValue(c)[k])>>]

VvRelies(own, w) == [k \in 1 .. 6 |->
    IF (k \in {2, 4} /\ w # own) \/ (k = 3 /\ w # 0) THEN {} ELSE {Cell}]

LEMMA TwoSteps ==
    ASSUME NEW a \in Steps, NEW b \in Steps
    PROVE  <<a, b>> \in Seq(Steps) /\ Len(<<a, b>>) = 2 /\ <<a, b>>[1] = a /\ <<a, b>>[2] = b
OBVIOUS

LEMMA CheckPut ==
    ASSUME NEW ab \in SUBSET (Int \X Int)
    PROVE  LET u == Check \o Put(ab)
           IN  /\ u \in Seq(Steps) /\ Len(u) = 3
               /\ u[1] = [do |-> "check"] /\ u[2] = Read(FALSE, ab, {}) /\ u[3] = Write
<1>1. PICK s, t, u : s = Check /\ t = Put(ab) /\ u = s \o t
  OBVIOUS
<1>2. s \in Seq(Steps) /\ Len(s) = 1 /\ s[1] = [do |-> "check"]
  BY <1>1, OneStep DEF Check
<1>3. Read(FALSE, ab, {}) \in Steps /\ Write \in Steps
  BY DEF Steps, Read, Write
<1>4. t \in Seq(Steps) /\ Len(t) = 2 /\ t[1] = Read(FALSE, ab, {}) /\ t[2] = Write
  <2>1. t = <<Read(FALSE, ab, {}), Write>>
    BY <1>1 DEF Put
  <2>. QED BY <1>3, <2>1, TwoSteps
<1>5. JoinOf(u, s, t)
  BY <1>1, <1>2, <1>4, Joined
<1>6. 1 \in 1 .. 1 /\ 1 \in 1 .. 2 /\ 2 \in 1 .. 2
  OBVIOUS
<1>7. u \in Seq(Steps) /\ Len(u) = 3 /\ u[1] = s[1] /\ u[2] = t[1] /\ u[3] = t[2]
  <2>1. u \in Seq(Steps) /\ Len(u) = Len(s) + Len(t)
    BY <1>5 DEF JoinOf
  <2>2. u[1] = s[1] /\ u[Len(s) + 1] = t[1] /\ u[Len(s) + 2] = t[2]
    BY <1>2, <1>4, <1>5, <1>6 DEF JoinOf
  <2>3. Len(s) + Len(t) = 3 /\ Len(s) + 1 = 2 /\ Len(s) + 2 = 3
    <3>1. Len(s) = 1 /\ Len(t) = 2
      BY <1>2, <1>4
    <3>. QED BY <3>1
  <2>. QED BY <2>1, <2>2, <2>3
<1>. QED BY <1>1, <1>2, <1>4, <1>7

LEMMA VvTyped ==
    ASSUME NEW c \in Int, NEW own, NEW w, NEW k \in 1 .. 5
    PROVE  VvWork(c, own, w)[k] \in Seq(Steps)
<1>1. {X(c), Y(c)} \in SUBSET (Int \X Int) /\ {X(c)} \in SUBSET (Int \X Int) /\ {Y(c)} \in SUBSET (Int \X Int)
  BY DEF X, Y
<1>2. /\ \A ab \in SUBSET (Int \X Int) : Put(ab) \in Seq(Steps) /\ Add(ab) \in Seq(Steps)
  <2>1. ASSUME NEW ab \in SUBSET (Int \X Int)
        PROVE  Put(ab) \in Seq(Steps) /\ Add(ab) \in Seq(Steps)
    <3>1. Read(FALSE, ab, {}) \in Steps /\ Read(TRUE, ab, {}) \in Steps /\ Write \in Steps
      BY DEF Steps, Read, Write
    <3>2. <<Read(FALSE, ab, {}), Write>> \in Seq(Steps) /\ <<Read(TRUE, ab, {}), Write>> \in Seq(Steps)
      BY <3>1, TwoSteps
    <3>. QED BY <3>2 DEF Put, Add
  <2>. QED BY <2>1
<1>3. Check \o Put({X(c)}) \in Seq(Steps)
  BY <1>1, CheckPut
<1>4. Check \in Seq(Steps)
  BY OneStep DEF Check
<1>5. <<>> \in Seq(Steps)
  OBVIOUS
<1>. QED BY <1>1, <1>2, <1>3, <1>4, <1>5 DEF VvWork

(***************************************************************************)
(* Turn k of core w, which does the steps s from cell a to cell z and sees *)
(* t before them and after the last.                                       *)
(***************************************************************************)
TurnOf(j, w, k, s, t, relies, a, z) ==
    /\ Len(s) \in Nat /\ t[1] = Rest(a) /\ t[Len(s) + 1] = Rest(z)
    /\ \A i \in 1 .. Len(s) : TurnStep(j, w, k, s[i], t[i], t[i + 1], relies)

\* Only core w relies on the cell in turn k.
Only(w, k, relies) == relies[w][k] = {Cell} /\ \A v \in Cores \ {w} : relies[v][k] = {}

LEMMA ReadStep ==
    ASSUME NEW j, NEW w, NEW k, NEW relies, relies[w][k] = {Cell},
           NEW ab \in SUBSET (Int \X Int), NEW v, NEW r
    PROVE  /\ TurnStep(j, w, k, Read(FALSE, ab, {}), Seen(v, r), Seen(v, Plus({}, ab)), relies)
           /\ TurnStep(j, w, k, Read(TRUE, ab, {}), Seen(v, r), Seen(v, Plus(v, ab)), relies)
<1>1. PICK s, t : s = Read(FALSE, ab, {}) /\ t = Read(TRUE, ab, {})
  OBVIOUS
<1>2. /\ ~ Fence(s) /\ s.do # "check" /\ Used(s) \subseteq {Cell} /\ Changed(s) = {}
      /\ Effect(s, Seen(v, r)) = Seen(v, Plus({}, ab))
  BY <1>1, ReadTurn
<1>3. /\ ~ Fence(t) /\ t.do # "check" /\ Used(t) \subseteq {Cell} /\ Changed(t) = {}
      /\ Effect(t, Seen(v, r)) = Seen(v, Plus(v, ab))
  BY <1>1, ReadTurn
<1>4. TurnStep(j, w, k, s, Seen(v, r), Seen(v, Plus({}, ab)), relies)
  BY <1>2 DEF TurnStep
<1>5. TurnStep(j, w, k, t, Seen(v, r), Seen(v, Plus(v, ab)), relies)
  BY <1>3 DEF TurnStep
<1>. QED BY <1>1, <1>4, <1>5

LEMMA WriteStep ==
    ASSUME NEW j, NEW w, NEW k, NEW relies, Only(w, k, relies), NEW v, NEW r
    PROVE  TurnStep(j, w, k, Write, Seen(v, r), Rest(r), relies)
<1>1. PICK s : s = Write
  OBVIOUS
<1>2. /\ ~ Fence(s) /\ s.do # "check" /\ Used(s) = {} /\ Changed(s) = {Cell}
      /\ Effect(s, Seen(v, r)) = Rest(r)
  BY <1>1, WriteTurn
<1>3. relies[w][k] = {Cell} /\ \A u \in Cores \ {w} : relies[u][k] = {}
  BY DEF Only
<1>4. TurnStep(j, w, k, s, Seen(v, r), Rest(r), relies)
  BY <1>2, <1>3 DEF TurnStep
<1>. QED BY <1>1, <1>4

LEMMA CheckStep ==
    ASSUME NEW j, NEW w, NEW k, NEW relies, relies[w][k] = {Cell}
    PROVE  TurnStep(j, w, k, [do |-> "check"], Rest(Expected(j)), Rest(Expected(j)), relies)
<1>1. PICK s, v : s = [do |-> "check"] /\ v = Expected(j)
  OBVIOUS
<1>2. /\ ~ Fence(s) /\ Used(s) \subseteq {Cell} /\ Changed(s) = {}
      /\ Effect(s, Rest(v)) = Rest(v)
  BY <1>1, CheckTurn
<1>3. Rest(v).cell = Expected(j)
  BY <1>1 DEF Rest
<1>4. TurnStep(j, w, k, s, Rest(v), Rest(v), relies)
  BY <1>2, <1>3 DEF TurnStep
<1>. QED BY <1>1, <1>4

LEMMA RestIs == \A v : Rest(v) = Seen(v, {})
BY DEF Rest, Seen

LEMMA TwoTurn ==
    ASSUME NEW j, NEW w, NEW k, NEW relies, NEW a, NEW d, NEW z, NEW x, NEW y,
           TurnStep(j, w, k, x, Rest(a), d, relies), TurnStep(j, w, k, y, d, Rest(z), relies)
    PROVE  TurnOf(j, w, k, <<x, y>>, <<Rest(a), d, Rest(z)>>, relies, a, z)
<1>1. PICK s, t : s = <<x, y>> /\ t = <<Rest(a), d, Rest(z)>>
  OBVIOUS
<1>2. Len(s) = 2 /\ s[1] = x /\ s[2] = y /\ t[1] = Rest(a) /\ t[2] = d /\ t[3] = Rest(z)
  BY <1>1
<1>3. ASSUME NEW i \in 1 .. 2
      PROVE  TurnStep(j, w, k, s[i], t[i], t[i + 1], relies)
  <2>1. CASE i = 1
    <3>1. i + 1 = 2
      BY <2>1
    <3>. QED BY <1>2, <2>1, <3>1
  <2>2. CASE i = 2
    <3>1. i + 1 = 3
      BY <2>2
    <3>. QED BY <1>2, <2>2, <3>1
  <2>. QED BY <2>1, <2>2
<1>4. Len(s) + 1 = 3
  BY <1>2
<1>5. TurnOf(j, w, k, s, t, relies, a, z)
  BY <1>2, <1>3, <1>4 DEF TurnOf
<1>. QED BY <1>1, <1>5

LEMMA PutTurn ==
    ASSUME NEW j, NEW w, NEW k, NEW relies, Only(w, k, relies), NEW a, NEW ab \in SUBSET (Int \X Int)
    PROVE  TurnOf(j, w, k, Put(ab), <<Rest(a), Seen(a, ab), Rest(ab)>>, relies, a, ab)
<1>1. Plus({}, ab) = ab
  BY DEF Plus
<1>2. TurnStep(j, w, k, Read(FALSE, ab, {}), Rest(a), Seen(a, ab), relies)
  BY <1>1, ReadStep, RestIs DEF Only
<1>3. TurnStep(j, w, k, Write, Seen(a, ab), Rest(ab), relies)
  BY WriteStep
<1>. QED BY <1>2, <1>3, TwoTurn DEF Put

LEMMA AddTurn ==
    ASSUME NEW j, NEW w, NEW k, NEW relies, Only(w, k, relies), NEW a, NEW ab \in SUBSET (Int \X Int)
    PROVE  TurnOf(j, w, k, Add(ab), <<Rest(a), Seen(a, Plus(a, ab)), Rest(Plus(a, ab))>>,
                  relies, a, Plus(a, ab))
<1>1. TurnStep(j, w, k, Read(TRUE, ab, {}), Rest(a), Seen(a, Plus(a, ab)), relies)
  BY ReadStep, RestIs DEF Only
<1>2. TurnStep(j, w, k, Write, Seen(a, Plus(a, ab)), Rest(Plus(a, ab)), relies)
  BY WriteStep
<1>. QED BY <1>1, <1>2, TwoTurn DEF Add

LEMMA CheckPutTurn ==
    ASSUME NEW j, NEW w, NEW k, NEW relies, Only(w, k, relies), NEW ab \in SUBSET (Int \X Int)
    PROVE  TurnOf(j, w, k, Check \o Put(ab),
                  <<Rest(Expected(j)), Rest(Expected(j)), Seen(Expected(j), ab), Rest(ab)>>,
                  relies, Expected(j), ab)
<1>1. PICK s, t, P : /\ s = Check \o Put(ab) /\ P = Expected(j)
                     /\ t = <<Rest(P), Rest(P), Seen(P, ab), Rest(ab)>>
  OBVIOUS
<1>2. Len(s) = 3 /\ s[1] = [do |-> "check"] /\ s[2] = Read(FALSE, ab, {}) /\ s[3] = Write
  BY <1>1, CheckPut
<1>3. t[1] = Rest(P) /\ t[2] = Rest(P) /\ t[3] = Seen(P, ab) /\ t[4] = Rest(ab)
  BY <1>1
<1>4. TurnStep(j, w, k, [do |-> "check"], Rest(P), Rest(P), relies)
  BY <1>1, CheckStep DEF Only
<1>5. TurnStep(j, w, k, Read(FALSE, ab, {}), Rest(P), Seen(P, ab), relies)
  <2>1. Plus({}, ab) = ab
    BY DEF Plus
  <2>. QED BY <2>1, ReadStep, RestIs DEF Only
<1>6. TurnStep(j, w, k, Write, Seen(P, ab), Rest(ab), relies)
  BY WriteStep
<1>7. ASSUME NEW i \in 1 .. 3
      PROVE  TurnStep(j, w, k, s[i], t[i], t[i + 1], relies)
  <2>1. CASE i = 1
    <3>1. i + 1 = 2
      BY <2>1
    <3>. QED BY <1>2, <1>3, <1>4, <2>1, <3>1
  <2>2. CASE i = 2
    <3>1. i + 1 = 3
      BY <2>2
    <3>. QED BY <1>2, <1>3, <1>5, <2>2, <3>1
  <2>3. CASE i = 3
    <3>1. i + 1 = 4
      BY <2>3
    <3>. QED BY <1>2, <1>3, <1>6, <2>3, <3>1
  <2>. QED BY <2>1, <2>2, <2>3
<1>8. Len(s) + 1 = 4
  BY <1>2
<1>9. TurnOf(j, w, k, s, t, relies, P, ab)
  BY <1>2, <1>3, <1>7, <1>8 DEF TurnOf
<1>. QED BY <1>1, <1>9

LEMMA CheckOnly ==
    ASSUME NEW j, NEW w, NEW k, NEW relies, relies[w][k] = {Cell}
    PROVE  TurnOf(j, w, k, Check, <<Rest(Expected(j)), Rest(Expected(j))>>,
                  relies, Expected(j), Expected(j))
<1>1. PICK s, t, P : s = Check /\ P = Expected(j) /\ t = <<Rest(P), Rest(P)>>
  OBVIOUS
<1>2. Len(s) = 1 /\ s[1] = [do |-> "check"] /\ t[1] = Rest(P) /\ t[2] = Rest(P)
  BY <1>1 DEF Check
<1>3. TurnStep(j, w, k, [do |-> "check"], Rest(P), Rest(P), relies)
  BY <1>1, CheckStep
<1>4. ASSUME NEW i \in 1 .. 1
      PROVE  TurnStep(j, w, k, s[i], t[i], t[i + 1], relies)
  <2>1. i = 1 /\ i + 1 = 2
    OBVIOUS
  <2>. QED BY <1>2, <1>3, <2>1
<1>5. Len(s) + 1 = 2
  BY <1>2
<1>6. TurnOf(j, w, k, s, t, relies, P, P)
  BY <1>2, <1>4, <1>5 DEF TurnOf
<1>. QED BY <1>1, <1>6

LEMMA IdleTurn ==
    ASSUME NEW j, NEW w, NEW k, NEW relies, NEW a
    PROVE  TurnOf(j, w, k, <<>>, <<Rest(a)>>, relies, a, a)
<1>1. PICK s, t : s = <<>> /\ t = <<Rest(a)>>
  OBVIOUS
<1>2. Len(s) = 0 /\ Len(s) + 1 = 1 /\ t[1] = Rest(a)
  BY <1>1
<1>3. TurnOf(j, w, k, s, t, relies, a, a)
  BY <1>2 DEF TurnOf
<1>. QED BY <1>1, <1>3

-----------------------------------------------------------------------------
\* Turn k of core w: what it leaves is what the next turn begins with.
VvTurn(j, own, w, k, relies) == \E z :
    /\ TurnOf(j, w, k, VvWork(j.cell, own, w)[k], VvTrail(j.cell, own, w)[k], relies,
              VvValue(j.cell)[k], z)
    /\ Cell \in relies[w][k] => z = VvValue(j.cell)[k + 1]

LEMMA VvTurns ==
    ASSUME NEW j \in Jobs, j.kernel \in VvaddKernels, NEW own \in Cores, NEW w \in Cores,
           NEW k \in 1 .. 5, NEW relies, relies = [v \in Cores |-> VvRelies(own, v)]
    PROVE  VvTurn(j, own, w, k, relies)
<1>1. PICK c, x, y, P, Q, s, t, r, a, b :
         /\ c = j.cell /\ x = X(c) /\ y = Y(c) /\ P = {x, y} /\ Q = {x}
         /\ s = VvWork(c, own, w)[k] /\ t = VvTrail(c, own, w)[k] /\ r = relies[w][k]
         /\ a = VvValue(c)[k] /\ b = VvValue(c)[k + 1]
  OBVIOUS
<1>2. /\ P \in SUBSET (Int \X Int) /\ Q \in SUBSET (Int \X Int) /\ {y} \in SUBSET (Int \X Int)
      /\ P = Expected(j) /\ Plus(Q, {y}) = P
  <2>1. c \in Nat
    BY <1>1, JobsAssumption
  <2>2. X(c) \in Int \X Int /\ Y(c) \in Int \X Int /\ X(c) # Y(c)
    BY <2>1 DEF X, Y
  <2>3. {X(c), Y(c)} = Expected(j)
    BY <1>1 DEF Expected
  <2>4. Plus(Q, {y}) = P
    BY <1>1, <2>2, PlusIs
  <2>. QED BY <1>1, <2>2, <2>3, <2>4
<1>3. r = VvRelies(own, w)[k] /\ \A v \in Cores : relies[v] = VvRelies(own, v)
  BY <1>1
<1>4. k + 1 \in 1 .. 6 /\ k \in 1 .. 6
  OBVIOUS
<1>5. CASE k = 2 /\ w = own
  <2>1. s = Put(P) /\ t = <<Rest({}), Seen({}, P), Rest(P)>>
    BY <1>1, <1>5 DEF VvWork, VvTrail
  <2>2. a = {} /\ b = P
    BY <1>1, <1>4, <1>5 DEF VvValue
  <2>3. Only(w, k, relies)
    BY <1>3, <1>4, <1>5 DEF Only, VvRelies
  <2>4. TurnOf(j, w, k, s, t, relies, a, P)
    BY <1>2, <2>1, <2>2, <2>3, PutTurn
  <2>. QED BY <1>1, <2>2, <2>4 DEF VvTurn
<1>6. CASE k = 3 /\ w = 0
  <2>1. s = Check \o Put(Q) /\ t = <<Rest(P), Rest(P), Seen(P, Q), Rest(Q)>>
    <3>1. VvWork(c, own, w)[3] = Check \o Put({X(c)})
      BY <1>6 DEF VvWork
    <3>2. t = <<Rest(P), Rest(P), Seen(P, Q), Rest(Q)>>
      BY <1>1, <1>6 DEF VvTrail
    <3>. QED BY <1>1, <1>6, <3>1, <3>2
  <2>2. a = P /\ b = Q
    BY <1>1, <1>4, <1>6 DEF VvValue
  <2>3. Only(w, k, relies)
    BY <1>3, <1>4, <1>6 DEF Only, VvRelies
  <2>4. TurnOf(j, w, k, s, t, relies, a, Q)
    BY <1>2, <2>1, <2>2, <2>3, CheckPutTurn
  <2>. QED BY <1>1, <2>2, <2>4 DEF VvTurn
<1>7. CASE k = 4 /\ w = own
  <2>1. s = Add({y}) /\ t = <<Rest(Q), Seen(Q, P), Rest(P)>>
    BY <1>1, <1>7 DEF VvWork, VvTrail
  <2>2. a = Q /\ b = P
    BY <1>1, <1>4, <1>7 DEF VvValue
  <2>3. Only(w, k, relies)
    BY <1>3, <1>4, <1>7 DEF Only, VvRelies
  <2>4. TurnOf(j, w, k, s, t, relies, a, P)
    BY <1>2, <2>1, <2>2, <2>3, AddTurn
  <2>. QED BY <1>1, <2>2, <2>4 DEF VvTurn
<1>8. CASE k = 5 /\ w = 0
  <2>1. s = Check /\ t = <<Rest(P), Rest(P)>>
    BY <1>1, <1>8 DEF VvWork, VvTrail
  <2>2. a = P /\ b = P
    BY <1>1, <1>4, <1>8 DEF VvValue
  <2>3. relies[w][k] = {Cell}
    BY <1>3, <1>4, <1>8 DEF VvRelies
  <2>4. TurnOf(j, w, k, s, t, relies, a, P)
    BY <1>2, <2>1, <2>2, <2>3, CheckOnly
  <2>. QED BY <1>1, <2>2, <2>4 DEF VvTurn
<1>9. CASE ~ (k = 2 /\ w = own) /\ ~ (k = 3 /\ w = 0) /\ ~ (k = 4 /\ w = own) /\ ~ (k = 5 /\ w = 0)
  <2>1. s = <<>> /\ t = <<Rest(a)>>
    BY <1>1, <1>9 DEF VvWork, VvTrail
  <2>2. Cell \in r => k \in {1, 5}
    BY <1>3, <1>4, <1>9 DEF VvRelies
  <2>3. k \in {1, 5} => a = b
    BY <1>1, <1>4 DEF VvValue
  <2>4. TurnOf(j, w, k, s, t, relies, a, a)
    BY <2>1, IdleTurn
  <2>. QED BY <1>1, <2>2, <2>3, <2>4 DEF VvTurn
<1>. QED BY <1>5, <1>6, <1>7, <1>8, <1>9

\* The kernel of job j, a vector addition, has core own alone do what is to be
\* done to the element.
OneAdds(j, own) == \A w \in Cores, add \in Seq(Steps) :
    Vvadd(j.kernel, w, NCores, j.size, j.cell, add) = IF w = own THEN add ELSE <<>>

WorksAs(work, c, own, w) ==
    /\ work[1] = <<>>
    /\ work[2] = When(w = own, Put({X(c), Y(c)}))
    /\ work[3] = When(w = 0, Check \o Put({X(c)}))
    /\ work[4] = When(w = own, Add({Y(c)}))
    /\ work[5] = When(w = 0, Check)

LEMMA WorkIs ==
    ASSUME NEW c, NEW own, NEW w
    PROVE  WorksAs(VvWork(c, own, w), c, own, w)
BY DEF WorksAs, VvWork, When

LEMMA VvLaid ==
    ASSUME NEW j \in Jobs, j.kernel \in VvaddKernels, NEW own \in Cores, OneAdds(j, own), NEW w \in Cores
    PROVE  Laid(Program[j][w], 5, VvWork(j.cell, own, w))
<1>1. PICK c, work, p1, p2, p3, p4, p5 :
         /\ c = j.cell /\ work = VvWork(c, own, w)
         /\ p1 = Sync
         /\ p2 = (p1 \o work[2]) \o Sync
         /\ p3 = (p2 \o work[3]) \o Sync
         /\ p4 = (p3 \o work[4]) \o Sync
         /\ p5 = (p4 \o work[5]) \o Sync
  OBVIOUS
<1>2. c \in Int
  <2>1. j.cell \in Nat
    BY JobsAssumption
  <2>2. c = j.cell
    BY <1>1, Zenon
  <2>. QED BY <2>1, <2>2
<1>3. \A k \in 1 .. 5 : work[k] \in Seq(Steps)
  BY <1>1, <1>2, VvTyped
<1>4. WorksAs(work, c, own, w)
  BY <1>1, WorkIs, Zenon
<1>5. Laid(p1, 1, work)
  <2>1. work[1] = <<>>
    BY <1>4, Zenon DEF WorksAs
  <2>. QED BY <1>1, <2>1, LaidFirst
<1>6. Laid(p2, 2, work)
  <2>1. 1 + 1 = 2 /\ work[2] \in Seq(Steps)
    BY <1>3
  <2>. QED BY <1>1, <1>5, <2>1, LaidNext
<1>7. Laid(p3, 3, work)
  <2>1. 2 + 1 = 3 /\ work[3] \in Seq(Steps)
    BY <1>3
  <2>. QED BY <1>1, <1>6, <2>1, LaidNext
<1>8. Laid(p4, 4, work)
  <2>1. 3 + 1 = 4 /\ work[4] \in Seq(Steps)
    BY <1>3
  <2>. QED BY <1>1, <1>7, <2>1, LaidNext
<1>9. Laid(p5, 5, work)
  <2>1. 4 + 1 = 5 /\ work[5] \in Seq(Steps)
    BY <1>3
  <2>. QED BY <1>1, <1>8, <2>1, LaidNext
<1>10. VvaddProgram(j, w) = p5
  <2>1. Put({X(c), Y(c)}) \in Seq(Steps) /\ Add({Y(c)}) \in Seq(Steps)
    <3>1. VvWork(c, w, w)[2] = Put({X(c), Y(c)}) /\ VvWork(c, w, w)[4] = Add({Y(c)})
      BY DEF VvWork
    <3>. QED BY <1>2, <3>1, VvTyped
  <2>2. /\ Vvadd(j.kernel, w, NCores, j.size, c, Put({X(c), Y(c)})) = work[2]
        /\ Vvadd(j.kernel, w, NCores, j.size, c, Add({Y(c)})) = work[4]
    <3>1. /\ work[2] = When(w = own, Put({X(c), Y(c)}))
          /\ work[4] = When(w = own, Add({Y(c)}))
      BY <1>4, Zenon DEF WorksAs
    <3>2. c = j.cell /\ OneAdds(j, own)
      BY <1>1, Zenon
    <3>. QED BY <2>1, <3>1, <3>2, Zenon DEF OneAdds, When
  <2>3. /\ When(w = 0, Check \o Put({X(c)})) = work[3]
        /\ When(w = 0, Check) = work[5]
    BY <1>4, Zenon DEF WorksAs
  <2>4. VvaddProgram(j, w) =
           Sync \o Vvadd(j.kernel, w, NCores, j.size, c, Put({X(c), Y(c)})) \o Sync
           \o When(w = 0, Check \o Put({X(c)})) \o Sync
           \o Vvadd(j.kernel, w, NCores, j.size, c, Add({Y(c)})) \o Sync
           \o When(w = 0, Check) \o Sync
    BY <1>1, Zenon DEF VvaddProgram
  <2>5. VvaddProgram(j, w) = Sync \o work[2] \o Sync \o work[3] \o Sync \o work[4] \o Sync \o work[5] \o Sync
    BY <2>2, <2>3, <2>4, Zenon
  <2>. QED BY <1>1, <2>5, Zenon
<1>. QED BY <1>1, <1>9, <1>10, ProgramIs

LEMMA OneAddsSound ==
    ASSUME NEW j \in Jobs, j.kernel \in VvaddKernels, NEW own \in Cores, OneAdds(j, own)
    PROVE  Sound(j)
<1>1. PICK c, work, trail, relies, value :
         /\ c = j.cell
         /\ work = [w \in Cores |-> VvWork(c, own, w)]
         /\ trail = [w \in Cores |-> VvTrail(c, own, w)]
         /\ relies = [w \in Cores |-> VvRelies(own, w)]
         /\ value = VvValue(c)
  OBVIOUS
<1>2. 0 \in Cores
  BY JobsAssumption DEF Cores
<1>3. ASSUME NEW w \in Cores, NEW k \in 1 .. 5
      PROVE  \E z : /\ TurnOf(j, w, k, work[w][k], trail[w][k], relies, value[k], z)
                    /\ Cell \in relies[w][k] => z = value[k + 1]
  <2>1. VvTurn(j, own, w, k, relies)
    BY <1>1, VvTurns
  <2>. QED BY <1>1, <2>1 DEF VvTurn
<1>4. ASSUME NEW w \in Cores, NEW k \in 1 .. 5
      PROVE  /\ Turn(j, w, k, work, trail, relies, value)
             /\ Len(work[w][k]) \in Nat
             /\ Cell \in relies[w][k] => trail[w][k][Len(work[w][k]) + 1].cell = value[k + 1]
  <2>1. PICK z : /\ TurnOf(j, w, k, work[w][k], trail[w][k], relies, value[k], z)
                 /\ Cell \in relies[w][k] => z = value[k + 1]
    BY <1>3
  <2>2. Rest(z).reg = {} /\ Rest(z).cell = z
    BY DEF Rest
  <2>3. trail[w][k][Len(work[w][k]) + 1] = Rest(z) /\ Len(work[w][k]) \in Nat
    BY <2>1 DEF TurnOf
  <2>4. Turn(j, w, k, work, trail, relies, value)
    BY <2>1, <2>2, <2>3 DEF TurnOf, Turn
  <2>. QED BY <2>1, <2>2, <2>3, <2>4
<1>5. ASSUME NEW k \in 1 .. 5
      PROVE  \E v \in Cores : Cell \in relies[v][k]
  <2>1. k \in 1 .. 6
    OBVIOUS
  <2>2. CASE k = 3
    <3>1. relies[0][k] = {Cell}
      BY <1>1, <1>2, <2>1, <2>2 DEF VvRelies
    <3>. QED BY <1>2, <3>1
  <2>3. CASE k # 3
    <3>1. relies[own][k] = {Cell}
      BY <1>1, <2>1, <2>3 DEF VvRelies
    <3>. QED BY <3>1
  <2>. QED BY <2>2, <2>3
<1>6. ASSUME NEW w \in Cores, NEW k \in 1 .. 5
      PROVE  TurnEnd(w, k, work, trail, relies, value)
  <2>1. PICK v \in Cores : Cell \in relies[v][k]
    BY <1>5
  <2>2. trail[v][k][Len(work[v][k]) + 1].cell = value[k + 1]
    BY <1>4, <2>1
  <2>. QED BY <2>1, <2>2 DEF TurnEnd
<1>7. ASSUME NEW w \in Cores, NEW k \in 1 .. 6
      PROVE  relies[w][k] \subseteq {Cell}
  BY <1>1 DEF VvRelies
<1>8. value[1] = {}
  BY <1>1 DEF VvValue
<1>9. TakeTurns(j, 5, work, trail, relies, value)
  <2>1. 5 + 1 = 6
    OBVIOUS
  <2>. QED BY <1>4, <1>6, <1>7, <1>8, <2>1 DEF TakeTurns
<1>10. \A w \in Cores : Laid(Program[j][w], 5, work[w])
  BY <1>1, VvLaid
<1>. QED BY <1>9, <1>10, TurnsSound

-----------------------------------------------------------------------------
(***************************************************************************)
(* The shares of the vector additions: one core comes to each element, in  *)
(* one of its loops (OneAdds).                                             *)
(***************************************************************************)
\* A loop from lo comes to x, after some steps.
Reaches(x, lo, step) == \E q \in Nat : x = lo + step * q

LEMMA InUpto ==
    ASSUME NEW x \in Int, NEW lo \in Int, NEW hi \in Int, NEW step \in Nat \ {0}
    PROVE  x \in Range(Upto(lo, hi, step)) <=> Reaches(x, lo, step) /\ x < hi
<1>1. PICK N \in Int, r \in 0 .. step - 1 :
         N = (hi - lo + step - 1) \div step /\ hi - lo + step - 1 = step * N + r
  <2>1. hi - lo + step - 1 \in Int
    OBVIOUS
  <2>. QED BY <2>1, Quotient
<1>2. x \in Range(Upto(lo, hi, step)) <=> \E m \in 1 .. N : x = lo + (m - 1) * step
  BY <1>1 DEF Range, Upto
<1>3. ASSUME NEW m \in 1 .. N
      PROVE  m - 1 \in Nat /\ lo + (m - 1) * step = lo + step * (m - 1) /\ lo + step * (m - 1) < hi
  <2>1. step * (m - 1) <= step * (N - 1)
    BY <1>1
  <2>2. step * (N - 1) = step * N - step
    BY <1>1
  <2>. QED BY <1>1, <2>1, <2>2
<1>4. ASSUME NEW q \in Nat, lo + step * q < hi
      PROVE  q + 1 \in 1 .. N /\ lo + ((q + 1) - 1) * step = lo + step * q
  <2>1. q >= N => step * q >= step * N
    BY <1>1
  <2>2. q < N
    BY <1>1, <1>4, <2>1
  <2>. QED BY <1>1, <2>2
<1>5. x \in Range(Upto(lo, hi, step)) => Reaches(x, lo, step) /\ x < hi
  <2>1. SUFFICES ASSUME x \in Range(Upto(lo, hi, step))
                 PROVE  Reaches(x, lo, step) /\ x < hi
    OBVIOUS
  <2>2. PICK m \in 1 .. N : x = lo + (m - 1) * step
    BY <1>2, <2>1
  <2>3. PICK q \in Nat : q = m - 1 /\ x = lo + step * q /\ x < hi
    BY <1>3, <2>2
  <2>. QED BY <2>3 DEF Reaches
<1>6. Reaches(x, lo, step) /\ x < hi => x \in Range(Upto(lo, hi, step))
  <2>1. SUFFICES ASSUME Reaches(x, lo, step), x < hi
                 PROVE  x \in Range(Upto(lo, hi, step))
    OBVIOUS
  <2>2. PICK q \in Nat : x = lo + step * q
    BY <2>1 DEF Reaches
  <2>3. q + 1 \in 1 .. N /\ x = lo + ((q + 1) - 1) * step
    BY <1>4, <2>1, <2>2
  <2>. QED BY <1>2, <2>3
<1>. QED BY <1>5, <1>6

LEMMA EmptyJoin ==
    ASSUME NEW s \in Seq(Steps)
    PROVE  s \o <<>> = s /\ <<>> \o s = s
BY ConcatEmptySeq

\* Of two turns at the element at most one is taken.
LEMMA OneOfTwo ==
    ASSUME NEW a \in BOOLEAN, NEW b \in BOOLEAN, ~ (a /\ b), NEW add \in Seq(Steps)
    PROVE  (IF a THEN add ELSE <<>>) \o (IF b THEN add ELSE <<>>) = IF a \/ b THEN add ELSE <<>>
<1>1. add \o <<>> = add /\ <<>> \o add = add
  BY EmptyJoin
<1>2. <<>> \o <<>> = <<>>
  <2>1. <<>> \in Seq(Steps)
    OBVIOUS
  <2>. QED BY <2>1, EmptyJoin
<1>. QED BY <1>1, <1>2

\* Core w, of n, comes to x in strides of n: in an even number of them, or an odd one.
Strides(x, n, w) == Reaches(x, w, n)
Evens(x, n, w)   == Reaches(x, w, 2 * n)
Odds(x, n, w)    == Reaches(x - n, w, 2 * n)

LEMMA StridesTo ==
    ASSUME NEW n \in Nat \ {0}, NEW x \in Nat
    PROVE  /\ x % n \in 0 .. n - 1
           /\ \A w \in 0 .. n - 1 : Strides(x, n, w) <=> w = x % n
<1>1. /\ x \div n \in Int /\ x % n \in 0 .. n - 1
      /\ x = n * (x \div n) + (x % n)
  BY Quotient
<1>2. x \div n \in Nat
  BY Floor
<1>3. Strides(x, n, x % n)
  <2>1. PICK q \in Nat, r \in Int : q = x \div n /\ r = x % n /\ x = n * q + r
    BY <1>1, <1>2
  <2>2. x = r + n * q
    BY <2>1
  <2>. QED BY <2>1, <2>2 DEF Strides, Reaches
<1>4. ASSUME NEW w \in 0 .. n - 1, Strides(x, n, w)
      PROVE  w = x % n
  <2>1. PICK q \in Nat : x = w + n * q
    BY <1>4 DEF Strides, Reaches
  <2>2. x = n * q + w /\ q \in Int /\ x \in Int
    BY <2>1
  <2>. QED BY <2>2, QuotientIs
<1>. QED BY <1>1, <1>3, <1>4

LEMMA EvensOdds ==
    ASSUME NEW n \in Nat \ {0}, NEW x \in Nat, NEW w \in 0 .. n - 1
    PROVE  /\ Evens(x, n, w) \/ Odds(x, n, w) <=> Strides(x, n, w)
           /\ ~ (Evens(x, n, w) /\ Odds(x, n, w))
<1>1. ASSUME NEW q \in Nat
      PROVE  (2 * n) * q = n * (2 * q) /\ n * (2 * q + 1) = (2 * n) * q + n
  OBVIOUS
<1>2. ASSUME Evens(x, n, w)
      PROVE  \E q \in Nat : x = w + n * (2 * q)
  BY <1>1, <1>2 DEF Evens, Reaches
<1>3. ASSUME Odds(x, n, w)
      PROVE  \E q \in Nat : x = w + n * (2 * q + 1)
  <2>1. PICK q \in Nat : x - n = w + (2 * n) * q
    BY <1>3 DEF Odds, Reaches
  <2>2. x = w + n * (2 * q + 1)
    BY <1>1, <2>1
  <2>. QED BY <2>2
<1>4. Strides(x, n, w) => Evens(x, n, w) \/ Odds(x, n, w)
  <2>1. SUFFICES ASSUME Strides(x, n, w)
                 PROVE  Evens(x, n, w) \/ Odds(x, n, w)
    OBVIOUS
  <2>2. PICK q \in Nat : x = w + n * q
    BY <2>1 DEF Strides, Reaches
  <2>3. PICK m \in Nat : q = 2 * m \/ q = 2 * m + 1
    <3>1. q \div 2 \in Int /\ q % 2 \in 0 .. 2 - 1 /\ q = 2 * (q \div 2) + (q % 2)
      BY Quotient
    <3>2. PICK m \in Int, r \in 0 .. 1 : q = 2 * m + r
      BY <3>1
    <3>3. m \in Nat /\ (q = 2 * m \/ q = 2 * m + 1)
      BY <3>2
    <3>. QED BY <3>3
  <2>4. CASE q = 2 * m
    <3>1. x = w + (2 * n) * m
      BY <1>1, <2>2, <2>4
    <3>. QED BY <3>1 DEF Evens, Reaches
  <2>5. CASE q = 2 * m + 1
    <3>1. x - n = w + (2 * n) * m
      BY <1>1, <2>2, <2>5
    <3>. QED BY <3>1 DEF Odds, Reaches
  <2>. QED BY <2>3, <2>4, <2>5
<1>5. ~ (Evens(x, n, w) /\ Odds(x, n, w))
  <2>1. SUFFICES ASSUME Evens(x, n, w), Odds(x, n, w)
                 PROVE  FALSE
    OBVIOUS
  <2>2. PICK p \in Nat : x = w + n * (2 * p)
    BY <1>2, <2>1
  <2>3. PICK q \in Nat : x = w + n * (2 * q + 1)
    BY <1>3, <2>1
  <2>4. x = n * (2 * p) + w /\ 2 * p \in Int /\ x \in Int
    BY <2>2
  <2>5. x = n * (2 * q + 1) + w /\ 2 * q + 1 \in Int
    BY <2>3
  <2>6. x \div n = 2 * p
    BY <2>4, QuotientIs
  <2>7. x \div n = 2 * q + 1
    BY <2>4, <2>5, QuotientIs
  <2>. QED BY <2>6, <2>7
<1>6. Evens(x, n, w) \/ Odds(x, n, w) => Strides(x, n, w)
  <2>1. \A q \in Nat : 2 * q \in Nat /\ 2 * q + 1 \in Nat
    OBVIOUS
  <2>2. Evens(x, n, w) => Strides(x, n, w)
    BY <1>2, <2>1 DEF Strides, Reaches
  <2>3. Odds(x, n, w) => Strides(x, n, w)
    BY <1>3, <2>1 DEF Strides, Reaches
  <2>. QED BY <2>2, <2>3
<1>. QED BY <1>4, <1>5, <1>6

-----------------------------------------------------------------------------
\* The elements dealt out one by one.
LEMMA VV4Adds ==
    ASSUME NEW j \in Jobs, j.kernel = "vvadd4", j.cell < j.size
    PROVE  \E own \in Cores : OneAdds(j, own)
<1>1. PICK n \in Nat \ {0}, c \in Nat, size \in Nat :
         n = NCores /\ c = j.cell /\ size = j.size /\ c < size /\ Cores = 0 .. n - 1
  BY JobsAssumption DEF Cores
<1>2. PICK own \in Cores : \A w \in Cores : Strides(c, n, w) <=> w = own
  BY <1>1, StridesTo
<1>3. ASSUME NEW w \in Cores, NEW add \in Seq(Steps)
      PROVE  Vvadd(j.kernel, w, n, size, c, add) = IF w = own THEN add ELSE <<>>
  <2>1. c \in Range(Upto(w, size, n)) <=> w = own
    <3>1. w \in Int /\ c \in Int /\ size \in Int
      BY <1>1
    <3>2. c \in Range(Upto(w, size, n)) <=> Reaches(c, w, n) /\ c < size
      BY <3>1, InUpto
    <3>. QED BY <1>1, <1>2, <3>2 DEF Strides
  <2>2. Vvadd(j.kernel, w, n, size, c, add) = VV4(w, n, size, c, add)
    BY DEF Vvadd
  <2>3. VV4(w, n, size, c, add) = IF c \in Range(Upto(w, size, n)) THEN add ELSE <<>>
    BY DEF VV4, When
  <2>. QED BY <2>1, <2>2, <2>3
<1>4. OneAdds(j, own)
  BY <1>1, <1>3 DEF OneAdds
<1>. QED BY <1>4

\* The elements dealt out in twos that are n apart.
LEMMA VV2Adds ==
    ASSUME NEW j \in Jobs, j.kernel = "vvadd2", j.cell < j.size
    PROVE  \E own \in Cores : OneAdds(j, own)
<1>1. PICK n \in Nat \ {0}, c \in Nat, size \in Nat :
         n = NCores /\ c = j.cell /\ size = j.size /\ c < size /\ Cores = 0 .. n - 1
  BY JobsAssumption DEF Cores
<1>2. PICK own \in Cores : \A w \in Cores : Strides(c, n, w) <=> w = own
  BY <1>1, StridesTo
<1>3. ASSUME NEW w \in Cores, NEW add \in Seq(Steps)
      PROVE  Vvadd(j.kernel, w, n, size, c, add) = IF w = own THEN add ELSE <<>>
  <2>1. PICK a \in BOOLEAN, b \in BOOLEAN :
           /\ a <=> c \in Range(Upto(w, size, 2 * n))
           /\ b <=> c - n \in Range(Upto(w, size, 2 * n))
    OBVIOUS
  <2>2. (a <=> Evens(c, n, w)) /\ (b <=> Odds(c, n, w))
    <3>1. PICK m, d : m = 2 * n /\ d = c - n
      OBVIOUS
    <3>2. w \in Int /\ c \in Int /\ d \in Int /\ size \in Int /\ m \in Nat \ {0} /\ c < size /\ d < size
      BY <1>1, <3>1
    <3>3. c \in Range(Upto(w, size, m)) <=> Reaches(c, w, m) /\ c < size
      BY <3>2, InUpto
    <3>4. d \in Range(Upto(w, size, m)) <=> Reaches(d, w, m) /\ d < size
      BY <3>2, InUpto
    <3>. QED BY <2>1, <3>1, <3>2, <3>3, <3>4 DEF Evens, Odds
  <2>3. (a \/ b <=> w = own) /\ ~ (a /\ b)
    BY <1>1, <1>2, <2>2, EvensOdds
  <2>4. Vvadd(j.kernel, w, n, size, c, add) = VV2(w, n, size, c, add)
    BY DEF Vvadd
  <2>5. VV2(w, n, size, c, add) = (IF a THEN add ELSE <<>>) \o (IF b THEN add ELSE <<>>)
    BY <2>1 DEF VV2, When
  <2>6. (IF a THEN add ELSE <<>>) \o (IF b THEN add ELSE <<>>) = IF a \/ b THEN add ELSE <<>>
    BY <2>3, OneOfTwo
  <2>. QED BY <2>3, <2>4, <2>5, <2>6
<1>4. OneAdds(j, own)
  BY <1>1, <1>3 DEF OneAdds
<1>. QED BY <1>4

\* The elements dealt out in fours, eight to a turn, that are 4 * n apart.
LEMMA Fours ==
    ASSUME NEW c \in Int, NEW w \in Int, NEW m \in Nat
    PROVE  (\E k \in 0 .. 3 : Reaches(c - k, 4 * w, 8 * m)) <=> Reaches(c \div 4, w, 2 * m)
<1>1. c \div 4 \in Int /\ c % 4 \in 0 .. 4 - 1 /\ c = 4 * (c \div 4) + (c % 4)
  BY Quotient
<1>2. \A q \in Nat : (8 * m) * q = 4 * ((2 * m) * q) /\ (2 * m) * q \in Int
  OBVIOUS
<1>3. ASSUME NEW k \in 0 .. 3, Reaches(c - k, 4 * w, 8 * m)
      PROVE  Reaches(c \div 4, w, 2 * m)
  <2>1. PICK q \in Nat : c - k = 4 * w + (8 * m) * q
    BY <1>3 DEF Reaches
  <2>2. PICK e \in Int : e = w + (2 * m) * q
    BY <1>2
  <2>3. c = 4 * e + k /\ k \in 0 .. 4 - 1
    BY <1>2, <2>1, <2>2
  <2>4. c \div 4 = e
    BY <2>3, QuotientIs
  <2>. QED BY <2>2, <2>4 DEF Reaches
<1>4. ASSUME Reaches(c \div 4, w, 2 * m)
      PROVE  \E k \in 0 .. 3 : Reaches(c - k, 4 * w, 8 * m)
  <2>1. PICK q \in Nat : c \div 4 = w + (2 * m) * q
    BY <1>4 DEF Reaches
  <2>2. PICK k \in 0 .. 3, e \in Int : c = 4 * e + k /\ e = w + (2 * m) * q
    <3>1. PICK k \in 0 .. 3, e \in Int : c = 4 * e + k /\ e = c \div 4
      BY <1>1
    <3>. QED BY <2>1, <3>1
  <2>3. c - k = 4 * w + (8 * m) * q
    BY <1>2, <2>2
  <2>. QED BY <2>3 DEF Reaches
<1>. QED BY <1>3, <1>4

\* The turns of a core at eight elements: four, and the four that are 4 * n on.
LEMMA Eights ==
    ASSUME NEW n \in Nat \ {0}, NEW w \in Nat, NEW c \in Nat, NEW size \in Nat, c < size
    PROVE  /\ (\E k \in 0 .. 3 : c - k \in Range(Upto(4 * w, size, 8 * n))) <=> Evens(c \div 4, n, w)
           /\ (\E k \in 0 .. 3 : c - 4 * n - k \in Range(Upto(4 * w, size, 8 * n))) <=> Odds(c \div 4, n, w)
<1>1. PICK m, d, f, x : m = 8 * n /\ d = c - 4 * n /\ f = 4 * w /\ x = c \div 4
  OBVIOUS
<1>2. c \in Int /\ d \in Int /\ f \in Int /\ size \in Int /\ m \in Nat \ {0} /\ d < size
  BY <1>1
<1>3. PICK r \in 0 .. 4 - 1 : c = 4 * x + r /\ x \in Int
  <2>1. c \div 4 \in Int /\ c % 4 \in 0 .. 4 - 1 /\ c = 4 * (c \div 4) + (c % 4)
    BY <1>2, Quotient
  <2>. QED BY <1>1, <2>1
<1>4. d \div 4 = x - n
  <2>1. d = 4 * (x - n) + r /\ x - n \in Int
    BY <1>1, <1>3
  <2>2. 4 \in Nat \ {0}
    OBVIOUS
  <2>. QED BY <1>2, <2>1, <2>2, QuotientIs
<1>5. ASSUME NEW y \in Int, y < size
      PROVE  (\E k \in 0 .. 3 : y - k \in Range(Upto(f, size, m)))
                <=> Reaches(y \div 4, w, 2 * n)
  <2>1. ASSUME NEW k \in 0 .. 3
        PROVE  y - k \in Range(Upto(f, size, m)) <=> Reaches(y - k, f, m)
    <3>1. y - k \in Int /\ y - k < size
      BY <1>2, <1>5
    <3>. QED BY <1>2, <3>1, InUpto
  <2>2. (\E k \in 0 .. 3 : y - k \in Range(Upto(f, size, m))) <=> \E k \in 0 .. 3 : Reaches(y - k, f, m)
    BY <2>1
  <2>3. (\E k \in 0 .. 3 : Reaches(y - k, 4 * w, 8 * n)) <=> Reaches(y \div 4, w, 2 * n)
    <3>1. w \in Int /\ n \in Nat
      OBVIOUS
    <3>. QED BY <3>1, Fours
  <2>. QED BY <1>1, <2>2, <2>3
<1>6. (\E k \in 0 .. 3 : c - k \in Range(Upto(f, size, m))) <=> Reaches(x, w, 2 * n)
  BY <1>1, <1>2, <1>5
<1>7. (\E k \in 0 .. 3 : d - k \in Range(Upto(f, size, m))) <=> Reaches(x - n, w, 2 * n)
  BY <1>2, <1>4, <1>5
<1>8. (\E k \in 0 .. 3 : c - k \in Range(Upto(4 * w, size, 8 * n))) <=> Evens(c \div 4, n, w)
  BY <1>1, <1>6 DEF Evens
<1>9. (\E k \in 0 .. 3 : c - 4 * n - k \in Range(Upto(4 * w, size, 8 * n))) <=> Odds(c \div 4, n, w)
  BY <1>1, <1>7 DEF Odds
<1>. QED BY <1>8, <1>9

\* One core, of n, comes to x in strides of n.
OneStrides(x, n) == \E own \in 0 .. n - 1 : \A w \in 0 .. n - 1 : Strides(x, n, w) <=> w = own

LEMMA OneStridesTo ==
    ASSUME NEW n \in Nat \ {0}, NEW x \in Nat
    PROVE  OneStrides(x, n)
BY StridesTo DEF OneStrides

LEMMA VV1Adds ==
    ASSUME NEW j \in Jobs, j.kernel = "vvadd1", j.cell < j.size
    PROVE  \E own \in Cores : OneAdds(j, own)
<1>1. PICK n \in Nat \ {0}, c \in Nat, size \in Nat :
         n = NCores /\ c = j.cell /\ size = j.size /\ c < size /\ Cores = 0 .. n - 1
  BY JobsAssumption DEF Cores
<1>2. PICK x \in Nat : x = c \div 4
  <2>1. 4 \in Nat \ {0}
    OBVIOUS
  <2>2. c \div 4 \in Nat
    BY <1>1, <2>1, Floor
  <2>. QED BY <2>2
<1>3. OneStrides(x, n)
  BY OneStridesTo
<1>4. PICK own \in Cores : \A w \in Cores : Strides(x, n, w) <=> w = own
  BY <1>1, <1>3, Zenon DEF OneStrides
<1>5. ASSUME NEW w \in Cores, NEW add \in Seq(Steps)
      PROVE  Vvadd(j.kernel, w, n, size, c, add) = IF w = own THEN add ELSE <<>>
  <2>1. PICK a \in BOOLEAN, b \in BOOLEAN :
           /\ a <=> \E k \in 0 .. 3 : c - k \in Range(Upto(4 * w, size, 8 * n))
           /\ b <=> \E k \in 0 .. 3 : c - 4 * n - k \in Range(Upto(4 * w, size, 8 * n))
    OBVIOUS
  <2>2. w \in Nat /\ w \in 0 .. n - 1 /\ c < size
    BY <1>1
  <2>3. (a <=> Evens(x, n, w)) /\ (b <=> Odds(x, n, w))
    BY <1>2, <2>1, <2>2, Eights, Zenon
  <2>4. /\ Evens(x, n, w) \/ Odds(x, n, w) <=> Strides(x, n, w)
        /\ ~ (Evens(x, n, w) /\ Odds(x, n, w))
    BY <2>2, EvensOdds, Zenon
  <2>5. (a \/ b <=> w = own) /\ ~ (a /\ b)
    BY <1>4, <2>3, <2>4, Zenon
  <2>6. Vvadd(j.kernel, w, n, size, c, add) = VV1(w, n, size, c, add)
    BY DEF Vvadd
  <2>7. VV1(w, n, size, c, add) = (IF a THEN add ELSE <<>>) \o (IF b THEN add ELSE <<>>)
    BY <2>1 DEF VV1, When
  <2>8. (IF a THEN add ELSE <<>>) \o (IF b THEN add ELSE <<>>) = IF a \/ b THEN add ELSE <<>>
    BY <2>5, OneOfTwo
  <2>. QED BY <2>5, <2>6, <2>7, <2>8
<1>6. OneAdds(j, own)
  BY <1>1, <1>5 DEF OneAdds
<1>. QED BY <1>6

\* The elements in equal blocks, one for each of the n cores.
LEMMA EqualBlocks ==
    ASSUME NEW n \in Nat \ {0}, NEW size \in Nat, NEW c \in Nat, c < size, size % n = 0
    PROVE  size \div n \in Nat \ {0} /\ OneHasRow(n, size \div n, c)
<1>1. PICK h : h = size \div n /\ PartOf(h, n, size)
  BY Evenly
<1>2. h \in Nat /\ size = n * h /\ (size > 0 => h > 0)
  BY <1>1 DEF PartOf
<1>3. h \in Nat \ {0} /\ c < n * h
  BY <1>2
<1>. QED BY <1>1, <1>3, DealtTo

LEMMA VV3Adds ==
    ASSUME NEW j \in Jobs, j.kernel = "vvadd3", j.cell < j.size, j.size % NCores = 0
    PROVE  \E own \in Cores : OneAdds(j, own)
<1>1. j.size \in Nat /\ j.cell \in Nat /\ NCores \in Nat \ {0} /\ Cores = 0 .. NCores - 1
  BY JobsAssumption DEF Cores
<1>2. j.size \div NCores \in Nat \ {0} /\ OneHasRow(NCores, j.size \div NCores, j.cell)
  BY <1>1, EqualBlocks
<1>3. PICK n, c, size, h :
         /\ n = NCores /\ c = j.cell /\ size = j.size /\ h = size \div n
         /\ h \in Nat \ {0} /\ OneHasRow(n, h, c) /\ Cores = 0 .. n - 1
  BY <1>1, <1>2, Zenon
<1>4. PICK own \in Cores : \A w \in Cores : HasRow(h, c, w) <=> w = own
  BY <1>3, Zenon DEF OneHasRow
<1>5. ASSUME NEW w \in Cores, NEW add \in Seq(Steps)
      PROVE  Vvadd(j.kernel, w, n, size, c, add) = IF w = own THEN add ELSE <<>>
  <2>1. c \in w * h .. w * h + h - 1 <=> w = own
    <3>1. c \in Int /\ w * h \in Int /\ h \in Int
      <4>1. c \in Int /\ w \in Int /\ h \in Int
        BY <1>1, <1>3
      <4>. QED BY <4>1
    <3>2. c \in w * h .. w * h + h - 1 <=> HasRow(h, c, w)
      BY <3>1 DEF HasRow
    <3>. QED BY <1>4, <3>2, Zenon
  <2>2. Vvadd(j.kernel, w, n, size, c, add) = VV3(w, n, size, c, add)
    BY DEF Vvadd
  <2>3. VV3(w, n, size, c, add) = IF c \in w * h .. w * h + h - 1 THEN add ELSE <<>>
    BY <1>3 DEF VV3, When
  <2>. QED BY <2>1, <2>2, <2>3
<1>6. OneAdds(j, own)
  BY <1>3, <1>5 DEF OneAdds
<1>. QED BY <1>6

\* The elements in equal blocks, and those left dealt out one by one: a core
\* comes to x in its block, or in the rest, and one core does.
InBlock(size, n, x, w) == x \in w * (size \div n) .. (w + 1) * (size \div n) - 1
InRest(size, n, x, w)  == x \in Range(Upto(size - (size % (size \div n)) + w, size, n))

LEMMA BlockSize ==
    ASSUME NEW n \in Nat \ {0}, NEW size \in Nat, size % n < size \div n
    PROVE  \E h \in Nat \ {0}, r \in Nat : 
              h = size \div n /\ size = n * h + r /\ size % (size \div n) = r
<1>1. size \div n \in Int /\ size % n \in 0 .. n - 1 /\ size = n * (size \div n) + (size % n)
  BY Quotient
<1>2. PICK h \in Int, r \in 0 .. n - 1 : h = size \div n /\ r = size % n /\ size = n * h + r /\ r < h
  BY <1>1
<1>3. h \in Nat \ {0} /\ r \in Nat /\ r \in 0 .. h - 1
  BY <1>2
<1>4. size = h * n + r /\ n \in Int /\ size \in Int
  BY <1>2, <1>3
<1>5. size % h = r
  BY <1>3, <1>4, QuotientIs
<1>. QED BY <1>2, <1>3, <1>5

\* The blocks end at n * h, and the rest begins there.
LEMMA BlocksEnd ==
    ASSUME NEW n \in Nat \ {0}, NEW h \in Nat \ {0}, NEW c \in Nat, NEW w \in 0 .. n - 1
    PROVE  /\ HasRow(h, c, w) => c < n * h
           /\ Reaches(c - n * h, w, n) => c >= n * h
<1>1. ASSUME HasRow(h, c, w)
      PROVE  c < n * h
  <2>1. w * h + h = (w + 1) * h /\ w + 1 <= n /\ w + 1 \in Nat
    OBVIOUS
  <2>2. (w + 1) * h <= n * h
    BY <2>1
  <2>3. w * h \in Int /\ n * h \in Int
    OBVIOUS
  <2>. QED BY <1>1, <2>1, <2>2, <2>3 DEF HasRow
<1>2. ASSUME Reaches(c - n * h, w, n)
      PROVE  c >= n * h
  <2>1. PICK q \in Nat : c - n * h = w + n * q
    BY <1>2 DEF Reaches
  <2>2. n * q >= 0 /\ n * q \in Int /\ n * h \in Int /\ w >= 0
    OBVIOUS
  <2>. QED BY <2>1, <2>2
<1>. QED BY <1>1, <1>2

OneComes(size, n, x) ==
    \E own \in 0 .. n - 1 : \A w \in 0 .. n - 1 :
        /\ InBlock(size, n, x, w) \/ InRest(size, n, x, w) <=> w = own
        /\ ~ (InBlock(size, n, x, w) /\ InRest(size, n, x, w))

LEMMA OneComesTo ==
    ASSUME NEW n \in Nat \ {0}, NEW size \in Nat, NEW c \in Nat, c < size, size % n < size \div n
    PROVE  OneComes(size, n, c)
<1>1. PICK h \in Nat \ {0}, r \in Nat :
         h = size \div n /\ size = n * h + r /\ size % (size \div n) = r
  BY BlockSize
<1>2. PICK e \in Nat, d \in Int : e = n * h /\ d = c - n * h /\ d = c - e /\ size = e + r
  <2>1. n * h \in Nat
    OBVIOUS
  <2>. QED BY <1>1, <2>1
<1>3. ASSUME NEW w \in 0 .. n - 1
      PROVE  InBlock(size, n, c, w) <=> HasRow(h, c, w)
  <2>1. (w + 1) * h = w * h + h /\ w * h \in Int
    OBVIOUS
  <2>2. InBlock(size, n, c, w) <=> c \in w * h .. (w + 1) * h - 1
    BY <1>1, Zenon DEF InBlock
  <2>3. c \in w * h .. (w + 1) * h - 1 <=> HasRow(h, c, w)
    BY <2>1 DEF HasRow
  <2>. QED BY <2>2, <2>3
<1>4. ASSUME NEW w \in 0 .. n - 1
      PROVE  InRest(size, n, c, w) <=> Reaches(d, w, n)
  <2>1. PICK lo \in Int : lo = size - r + w /\ lo = e + w
    BY <1>2
  <2>2. InRest(size, n, c, w) <=> c \in Range(Upto(lo, size, n))
    <3>1. size - (size % (size \div n)) + w = lo
      BY <1>1, <2>1, Zenon
    <3>. QED BY <3>1 DEF InRest
  <2>3. c \in Range(Upto(lo, size, n)) <=> Reaches(c, lo, n) /\ c < size
    <3>1. c \in Int /\ size \in Int
      OBVIOUS
    <3>. QED BY <3>1, InUpto
  <2>4. ASSUME NEW q \in Nat
        PROVE  c = lo + n * q <=> d = w + n * q
    <3>1. n * q \in Int
      OBVIOUS
    <3>. QED BY <1>2, <2>1, <3>1
  <2>5. Reaches(c, lo, n) <=> Reaches(d, w, n)
    BY <2>4 DEF Reaches
  <2>. QED BY <2>2, <2>3, <2>5
<1>5. ASSUME NEW w \in 0 .. n - 1
      PROVE  (HasRow(h, c, w) => c < e) /\ (Reaches(d, w, n) => c >= e)
  BY <1>2, BlocksEnd
<1>6. CASE c < e
  <2>1. OneHasRow(n, h, c)
    BY <1>2, <1>6, DealtTo
  <2>2. PICK own \in 0 .. n - 1 : \A w \in 0 .. n - 1 : HasRow(h, c, w) <=> w = own
    BY <2>1 DEF OneHasRow
  <2>3. ~ (c >= e)
    BY <1>2, <1>6
  <2>4. \A w \in 0 .. n - 1 : /\ InBlock(size, n, c, w) \/ InRest(size, n, c, w) <=> w = own
                              /\ ~ (InBlock(size, n, c, w) /\ InRest(size, n, c, w))
    BY <1>3, <1>4, <1>5, <2>2, <2>3, Zenon
  <2>. QED BY <2>4, Zenon DEF OneComes
<1>7. CASE ~ (c < e)
  <2>1. d \in Nat
    BY <1>2, <1>7
  <2>2. OneStrides(d, n)
    BY <2>1, OneStridesTo
  <2>3. PICK own \in 0 .. n - 1 : \A w \in 0 .. n - 1 : Reaches(d, w, n) <=> w = own
    BY <2>2 DEF OneStrides, Strides
  <2>4. \A w \in 0 .. n - 1 : /\ InBlock(size, n, c, w) \/ InRest(size, n, c, w) <=> w = own
                              /\ ~ (InBlock(size, n, c, w) /\ InRest(size, n, c, w))
    BY <1>3, <1>4, <1>5, <1>7, <2>3, Zenon
  <2>. QED BY <2>4, Zenon DEF OneComes
<1>. QED BY <1>6, <1>7

LEMMA VV0Adds ==
    ASSUME NEW j \in Jobs, j.kernel = "vvadd0", j.cell < j.size, j.size % NCores < j.size \div NCores
    PROVE  \E own \in Cores : OneAdds(j, own)
<1>1. j.size \in Nat /\ j.cell \in Nat /\ NCores \in Nat \ {0} /\ Cores = 0 .. NCores - 1
  BY JobsAssumption DEF Cores
<1>2. OneComes(j.size, NCores, j.cell)
  BY <1>1, OneComesTo
<1>3. PICK n, c, size :
         n = NCores /\ c = j.cell /\ size = j.size /\ OneComes(size, n, c) /\ Cores = 0 .. n - 1
  BY <1>1, <1>2, Zenon
<1>4. PICK own \in Cores : \A w \in Cores :
         /\ InBlock(size, n, c, w) \/ InRest(size, n, c, w) <=> w = own
         /\ ~ (InBlock(size, n, c, w) /\ InRest(size, n, c, w))
  BY <1>3, Zenon DEF OneComes
<1>5. ASSUME NEW w \in Cores, NEW add \in Seq(Steps)
      PROVE  Vvadd(j.kernel, w, n, size, c, add) = IF w = own THEN add ELSE <<>>
  <2>1. PICK a \in BOOLEAN, b \in BOOLEAN :
           (a <=> InBlock(size, n, c, w)) /\ (b <=> InRest(size, n, c, w))
    OBVIOUS
  <2>2. (a \/ b <=> w = own) /\ ~ (a /\ b)
    BY <1>4, <2>1, Zenon
  <2>3. Vvadd(j.kernel, w, n, size, c, add) = VV0(w, n, size, c, add)
    BY DEF Vvadd
  <2>4. VV0(w, n, size, c, add) = (IF a THEN add ELSE <<>>) \o (IF b THEN add ELSE <<>>)
    <3>1. VV0(w, n, size, c, add) = When(InBlock(size, n, c, w), add) \o When(InRest(size, n, c, w), add)
      BY Zenon DEF VV0, InBlock, InRest
    <3>. QED BY <2>1, <3>1, Zenon DEF When
  <2>5. (IF a THEN add ELSE <<>>) \o (IF b THEN add ELSE <<>>) = IF a \/ b THEN add ELSE <<>>
    BY <2>2, OneOfTwo
  <2>. QED BY <2>2, <2>3, <2>4, <2>5
<1>6. OneAdds(j, own)
  BY <1>3, <1>5 DEF OneAdds
<1>. QED BY <1>6

-----------------------------------------------------------------------------
(***************************************************************************)
(* The conditions under which the kernels are written: ai and ci deal out  *)
(* L \div n rows to each core and the columns by fours, bb the rows by     *)
(* fours, bm both within a core's rows; do, ay, az and cy have 32 of each  *)
(* for a constant. vvadd0 takes what its equal blocks leave over to be     *)
(* less than a block (vvadd0.c:7), vvadd1 goes by eights and vvadd2 by     *)
(* twos for each core with no test for the end of z, vvadd3 leaves out     *)
(* what its equal blocks do. n is the number of cores.                     *)
(***************************************************************************)
SuitsMatmul(k, n, L) ==
    \/ k \in {"ai", "ci"} /\ L % n = 0 /\ L % 4 = 0
    \/ k = "bb" /\ L % (4 * n) = 0
    \/ k = "bm" /\ L % 4 = 0 /\ (L \div n) % 4 = 0
    \/ k = "do" /\ L = 32 /\ 32 % n = 0
    \/ k \in {"ay", "az", "cy"} /\ L = 32

SuitsVvadd(k, n, size) ==
    \/ k = "vvadd0" /\ size % n < size \div n
    \/ k = "vvadd1" /\ size % (8 * n) = 0
    \/ k = "vvadd2" /\ size % (2 * n) = 0
    \/ k = "vvadd3" /\ size % n = 0
    \/ k = "vvadd4"

Suits(j) ==
    \/ SuitsMatmul(j.kernel, NCores, j.size) /\ j.cell < j.size * j.size
    \/ SuitsVvadd(j.kernel, NCores, j.size) /\ j.cell < j.size

LEMMA MatmulSound ==
    ASSUME NEW j \in Jobs, SuitsMatmul(j.kernel, NCores, j.size), j.cell < j.size * j.size
    PROVE  Sound(j)
<1>1. CASE j.kernel \in {"ai", "ci"} /\ j.size % NCores = 0
  BY <1>1, AISound
<1>2. CASE j.kernel = "bb" /\ j.size % (4 * NCores) = 0
  BY <1>2, BBSound
<1>3. CASE j.kernel = "bm" /\ j.size % 4 = 0 /\ (j.size \div NCores) % 4 = 0
  BY <1>3, BMSound
<1>4. CASE j.kernel = "do" /\ j.size = 32 /\ 32 % NCores = 0
  BY <1>4, DOSound
<1>5. CASE j.kernel \in {"ay", "az", "cy"} /\ j.size = 32
  BY <1>5, AYSound
<1>. QED BY <1>1, <1>2, <1>3, <1>4, <1>5 DEF SuitsMatmul

LEMMA VvaddSound ==
    ASSUME NEW j \in Jobs, SuitsVvadd(j.kernel, NCores, j.size), j.cell < j.size
    PROVE  Sound(j)
<1>1. j.kernel \in VvaddKernels
  BY DEF SuitsVvadd, VvaddKernels
<1>2. \E own \in Cores : OneAdds(j, own)
  BY VV0Adds, VV1Adds, VV2Adds, VV3Adds, VV4Adds DEF SuitsVvadd
<1>. QED BY <1>1, <1>2, OneAddsSound

(***************************************************************************)
(* These kernels are right for every size of the data and every number of  *)
(* cores they suit: thread_entry's shares cover each cell and no two cores *)
(* share one, so whatever the interleaving verify() after the barrier      *)
(* finds the product or the sum in every cell (c here), and no two cores   *)
(* are ever at conflicting accesses.                                       *)
(***************************************************************************)
THEOREM SizesCorrect ==
    ASSUME \A j \in Jobs : Suits(j)
    PROVE  Spec => [](TypeOK /\ Verified /\ RaceFree)
<1>1. \A j \in Jobs : Sound(j)
  BY MatmulSound, VvaddSound DEF Suits
<1>2. TypedJobs = Jobs
  BY <1>1 DEF Sound, TypedJobs
<1>3. \A j \in Jobs : \E o : Outlines(j, o)
  BY <1>1 DEF Sound
<1>4. Spec => [](Verified /\ RaceFree)
  BY <1>2, <1>3, OutlinedCorrect
<1>5. Spec => []TypeOK
  BY <1>2, MtTypeCorrect
<1>. QED BY <1>4, <1>5, PTL
=============================================================================
