---------------------------- MODULE MtBenchmark -----------------------------
(***************************************************************************)
(* The multi-core test programs at work: every core runs thread_entry() of *)
(* mt-matmul.c or mt-vvadd.c, which runs one kernel of MtKernels on data   *)
(* all cores share, waits at barriers and checks the result. The steps of  *)
(* the cores interleave: a read-modify-write of a cell is two steps.       *)
(*                                                                         *)
(* A job is a kernel, the size of its data and the cell watched, whose     *)
(* programs MtKernels gives. barrier() is static in util.h: the kernel's   *)
(* file and the driver's each have a barrier of their own.                 *)
(***************************************************************************)
EXTENDS MtKernels, FiniteSets

CONSTANTS
    NCores,         \* cores, all running the program
    Jobs            \* records [kernel, size, cell]

ASSUME JobsAssumption ==
    /\ NCores \in Nat \ {0}
    /\ \A j \in Jobs : j.size \in Nat /\ j.cell \in Nat

Cores == 0 .. NCores - 1

VARIABLES
    job,            \* what this execution runs
    pc,             \* the step each core is at
    reg,            \* of each core: the value it is about to write
    cell,           \* the watched cell of the result
    copy,           \* the filled entries of the shared copy of B: <<at, from>>
    failed,         \* a core's check has failed
    sense, count, threadsense, at,          \* the kernel's barrier
    dsense, dcount, dthreadsense, dat       \* the driver's barrier

kernelBarrier == <<sense, count, threadsense, at>>
driverBarrier == <<dsense, dcount, dthreadsense, dat>>
data == <<cell, copy, failed>>
vars == <<job, pc, reg, data, kernelBarrier, driverBarrier>>

KB == INSTANCE SenseBarrier
DB == INSTANCE SenseBarrier
        WITH sense <- dsense, count <- dcount, threadsense <- dthreadsense, at <- dat

-----------------------------------------------------------------------------
(***************************************************************************)
(* The drivers. The operands of element c of a vector addition are X(c)    *)
(* and Y(c). The kernels never change their number of cores: nc is         *)
(* NCores everywhere.                                                      *)
(***************************************************************************)
Sync == <<[do |-> "sync"]>>
X(c) == <<1, c>>
Y(c) == <<2, c>>

VvaddKernels == {"vvadd0", "vvadd1", "vvadd2", "vvadd3", "vvadd4"}

\* The kernel stores its result and a core checks it at once.
Bug_MatmulProgram(j, w) ==
    Matmul(j.kernel, w, NCores, j.size, j.cell) \o Check
MatmulProgram(j, w) ==
    Matmul(j.kernel, w, NCores, j.size, j.cell) \o Sync \o Check

\* z = x + y; core 0 checks it and copies x to z; z = z + y; core 0 checks it.
VvaddProgram(j, w) ==
    LET c       == j.cell
        add(ab) == Vvadd(j.kernel, w, NCores, j.size, c, ab)
    IN  Sync \o add(Put({X(c), Y(c)})) \o Sync
        \o When(w = 0, Check \o Put({X(c)}))
        \o Sync \o add(Add({Y(c)})) \o Sync
        \o When(w = 0, Check) \o Sync

\* f, as a table: to compare it TLC evaluates it once and for all.
Table(f) == CHOOSE g \in {f} : g = f

Program == Table([j \in Jobs |-> Table([w \in Cores |->
    IF j.kernel \in VvaddKernels THEN VvaddProgram(j, w) ELSE MatmulProgram(j, w)])])

\* What the reference data of the benchmark has in the cell.
Expected(j) ==
    IF j.kernel \in VvaddKernels
    THEN {X(j.cell), Y(j.cell)}
    ELSE Dot((j.cell \div j.size) * j.size, j.cell % j.size, j.size, 0 .. j.size - 1)

-----------------------------------------------------------------------------
(***************************************************************************)
(* A sum is the set of its products. A product that is added again would   *)
(* be lost in the set; it leaves the mark Twice.                           *)
(***************************************************************************)
Twice == <<-1, -1>>
Plus(sum, ab) == sum \cup ab \cup {Twice : p \in sum \cap ab}

\* The products the entries ab of a matrix A and the shared copy stand for: an
\* entry that is not filled is zero.
FromCopy(ab) == UNION {{<<p[1], f[2]>> : f \in {g \in copy : g[1] = p[2]}} : p \in ab}

Init ==
    /\ job \in Jobs
    /\ pc = [w \in Cores |-> 1]
    /\ reg = [w \in Cores |-> {}]
    /\ cell = {} /\ copy = {} /\ failed = FALSE
    /\ KB!Init
    /\ DB!Init

Done(w) == pc[w] > Len(Program[job][w])
Step(w) == Program[job][w][pc[w]]

\* Core w, which is not in a barrier, does the step what.
Runs(w, what) ==
    /\ ~ failed
    /\ ~ Done(w)
    /\ Step(w).do = what
    /\ at[w] = "out" /\ dat[w] = "out"

Proceed(w) == pc' = [pc EXCEPT ![w] = @ + 1]

Load(w) ==
    /\ Runs(w, "read")
    /\ LET start == IF Step(w).old THEN cell ELSE {}
       IN  reg' = [reg EXCEPT ![w] = Plus(start, Step(w).ab \cup FromCopy(Step(w).copied))]
    /\ Proceed(w)
    /\ UNCHANGED <<job, data, kernelBarrier, driverBarrier>>

Store(w) ==
    /\ Runs(w, "write")
    /\ cell' = reg[w]
    /\ reg' = [reg EXCEPT ![w] = {}]
    /\ Proceed(w)
    /\ UNCHANGED <<job, copy, failed, kernelBarrier, driverBarrier>>

FillCopy(w) ==
    /\ Runs(w, "fill")
    /\ copy' = {f \in copy : f[1] # Step(w).at} \cup {<<Step(w).at, Step(w).from>>}
    /\ Proceed(w)
    /\ UNCHANGED <<job, reg, cell, failed, kernelBarrier, driverBarrier>>

\* exit(res) with res # 0 ends the program.
Verify(w) ==
    /\ Runs(w, "check")
    /\ failed' = (cell # Expected(job))
    /\ Proceed(w)
    /\ UNCHANGED <<job, reg, cell, copy, kernelBarrier, driverBarrier>>

\* At a barrier: enter it, be in it, and go on when out of it.
AtBarrier(w) ==
    /\ \/ Runs(w, "barrier") /\ KB!Arrive(w)
       \/ KB!Clear(w) \/ KB!Release(w) \/ KB!Leave(w)
    /\ IF at'[w] = "out" THEN Proceed(w) ELSE UNCHANGED pc
    /\ UNCHANGED <<job, reg, data, driverBarrier>>

AtSync(w) ==
    /\ \/ Runs(w, "sync") /\ DB!Arrive(w)
       \/ DB!Clear(w) \/ DB!Release(w) \/ DB!Leave(w)
    /\ IF dat'[w] = "out" THEN Proceed(w) ELSE UNCHANGED pc
    /\ UNCHANGED <<job, reg, data, kernelBarrier>>

Core(w) == Load(w) \/ Store(w) \/ FillCopy(w) \/ Verify(w) \/ AtBarrier(w) \/ AtSync(w)

Next == \E w \in Cores : Core(w)

\* Each core is a processor of its own.
Fairness == \A w \in Cores : WF_vars(Core(w))

Spec == Init /\ [][Next]_vars /\ Fairness

-----------------------------------------------------------------------------
\* Every core of the job has a sequence of steps to run.
TypedJobs == {j \in Jobs : \A w \in Cores : Program[j][w] \in Seq(Steps)}

TypeOK ==
    /\ job \in TypedJobs
    /\ pc \in [Cores -> Nat]
    /\ \A w \in Cores : pc[w] \in 1 .. Len(Program[job][w]) + 1
    /\ reg \in [Cores -> SUBSET (Int \X Int)]
    /\ cell \in SUBSET (Int \X Int) /\ copy \in SUBSET (Int \X Int)
    /\ failed \in BOOLEAN
    /\ KB!TypeOK
    /\ DB!TypeOK

(***************************************************************************)
(* The program's own claim: when the cores have done their shares and met  *)
(* at the barrier, every cell of the result is the reference's - each      *)
(* product added once, by one core or another, whatever the interleaving   *)
(* (verify() after barrier(nc) in mt-matmul.c and mt-vvadd.c). The racing  *)
(* kernels cannot promise it.                                              *)
(***************************************************************************)
Verified == failed => job.kernel \in Racing

\* A core at s writes or fills what a core at t reads, writes or fills.
Conflict(s, t) ==
    \/ /\ s.do = "write"
       /\ t.do \in {"write", "check"} \/ (t.do = "read" /\ t.old)
    \/ /\ s.do = "fill"
       /\ \/ t.do = "fill" /\ t.at = s.at
          \/ t.do = "read" /\ \E p \in t.copied : p[2] = s.at

(***************************************************************************)
(* No cell of the result and no entry of a shared copy is ever about to be *)
(* written by one core while another reads or writes it: the shares and    *)
(* the barriers keep the cores apart. C gives a program with such a race   *)
(* no meaning, so that the checks of a test run that passes prove nothing. *)
(***************************************************************************)
RaceFree == job.kernel \notin Racing => \A v, w \in Cores :
    v # w /\ ~ Done(v) /\ ~ Done(w) => ~ Conflict(Step(v), Step(w))

\* How many barriers of each kind core w of job j has before its step p, and
\* the steps that are none.
Count(what, j, w, p) == Cardinality({q \in 1 .. p - 1 : Program[j][w][q].do = what})
Phase(j, w, p)       == <<Count("barrier", j, w, p), Count("sync", j, w, p)>>
Accesses(j, w) == {p \in DOMAIN Program[j][w] : Program[j][w][p].do \notin {"barrier", "sync"}}

SeparatedJobs == {j \in Jobs : \A v, w \in Cores : v # w =>
    \A p \in Accesses(j, v), q \in Accesses(j, w) :
        Conflict(Program[j][v][p], Program[j][w][q]) => Phase(j, v, p) # Phase(j, w, q)}

(***************************************************************************)
(* Of any two conflicting steps of different cores, near each other or not,*)
(* one is before a barrier that the other is after, so that no result is   *)
(* left to the speed of the cores. It is a fact of the programs alone,     *)
(* whatever order their steps are taken in: the shares w * lda / ncores of *)
(* the kernels and the places of their barriers are written for it.        *)
(***************************************************************************)
SharesApart == job.kernel \notin Racing => job \in SeparatedJobs

(***************************************************************************)
(* Every core comes to the end of its program: the cores pass the same     *)
(* barriers the same number of times, whatever their shares, and none is   *)
(* left spinning in one the others have left for good.                     *)
(***************************************************************************)
Terminates == <>(failed \/ \A w \in Cores : Done(w))

(***************************************************************************)
(* Both barriers let no core go before all have arrived, as each is used   *)
(* again and again, with a core on its way to the next use while another   *)
(* has yet to leave the last (SenseBarrier).                               *)
(***************************************************************************)
KernelBarrierSpec == KB!BarrierSpec
DriverBarrierSpec == DB!BarrierSpec
=============================================================================
