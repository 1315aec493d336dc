------------------------------- MODULE MCMt ---------------------------------
(***************************************************************************)
(* The programs of mt/Makefile on two cores. A kernel that works for any   *)
(* size has matrices of 16 by 16, as in the repository's dataset.h; one    *)
(* with 32 written into it has matrices of 32 by 32. Vectors have 1000     *)
(* elements, as in the repository's dataset.h, and where the cores need    *)
(* not divide them also 1001, so that something is left over. The watched  *)
(* cells of a matrix are in the first, the last and the middle rows and    *)
(* columns, where shares, blocks and halves begin and end.                 *)
(***************************************************************************)
EXTENDS MtOutline

AnySize  == {"ae", "ag", "ai", "an", "ap", "aq", "ar", "bb", "bm", "bs", "cg",
             "ci", "cs", "dm", "ds", "bh", "bj"}
Size32   == {"ad", "af", "ak", "al", "am", "at", "av", "ay", "az", "bc", "bf",
             "bk", "bo", "br", "ce", "ck", "cl", "cv", "cy", "dc", "df", "do",
             "dr", "du", "dv"}
Vectors  == {"vvadd0", "vvadd2", "vvadd3", "vvadd4"}

Watched(L) == {r * L + c : <<r, c>> \in {<<0, 0>>, <<0, L \div 2>>, <<L \div 2 - 1, L - 1>>,
                  <<L \div 2 - 1, L \div 2 - 1>>, <<L \div 2, L \div 2 - 1>>, <<L - 1, L - 1>>}}

JobsOf(kernels, size, cells) ==
    {[kernel |-> k, size |-> size, cell |-> c] : k \in kernels, c \in cells}

MCJobs == JobsOf(AnySize, 16, Watched(16)) \cup JobsOf(Size32, 32, Watched(32))
          \cup JobsOf(Racing, 32, {0, 32 * 15 + 16})
          \cup JobsOf(Vectors, 1000, {0, 1, 2, 499, 500, 998, 999})
          \cup JobsOf({"vvadd0", "vvadd4"}, 1001, {0, 499, 500, 999, 1000})

-----------------------------------------------------------------------------
\* The barriers among the steps ss.
Fences(ss) == SelectSeq([p \in DOMAIN ss |-> p], LAMBDA p : Fence(ss[p]))

\* What a core that has d sees before each of the steps ss, which has no
\* barrier, and after the last.
RECURSIVE Trail(_, _)
Trail(d, ss) == IF ss = <<>> THEN <<d>> ELSE <<d>> \o Trail(Effect(Head(ss), d), Tail(ss))

\* The outline of a job whose cores run program, from running each turn of
\* each core by itself, and what they have changed put together at the barrier.
Outline(program) ==
    LET fence == Table([w \in Cores |-> Fences(program[w])])
        turns == 1 .. Len(fence[0]) + 1
        \* The steps of core w in turn n, its barrier excluded.
        first(w, n) == IF n = 1 THEN 1 ELSE fence[w][n - 1] + 1
        last(w, n)  == IF n > Len(fence[w]) THEN Len(program[w]) ELSE fence[w][n] - 1
        steps(w, n) == SubSeq(program[w], first(w, n), last(w, n))
        changed == Table([w \in Cores |-> Table([n \in turns |->
                       UNION {Changed(s) : s \in Range(steps(w, n))}])])
        places == UNION {Used(s) \cup Changed(s) : s \in UNION {Range(program[w]) : w \in Cores}}
        \* All cores found d, and e[w] is what core w leaves.
        together(d, e) ==
            LET w == {v \in Cores : e[v].cell # d.cell}
            IN  [cell |-> IF w = {} THEN d.cell ELSE e[CHOOSE v \in w : TRUE].cell,
                 copy |-> {f \in UNION {e[v].copy : v \in Cores} :
                              f \in d.copy => \A v \in Cores : f \in e[v].copy}]
        turn(t, n) ==
            LET ds == Table([w \in Cores |->
                          Trail([cell |-> t.d.cell, copy |-> t.d.copy, reg |-> t.reg[w]], steps(w, n))])
                e  == Table([w \in Cores |-> ds[w][Len(ds[w])]])
            IN  [seen |-> Table([w \in Cores |-> t.seen[w] \o ds[w]]),
                 reg  |-> Table([w \in Cores |-> e[w].reg]),
                 d    |-> together(t.d, e)]
        end == FoldLeft(turn, [seen |-> [w \in Cores |-> <<>>], reg |-> [w \in Cores |-> {}],
                               d |-> Blank], [n \in turns |-> n])
        number(w) == [p \in 1 .. Len(program[w]) + 1 |->
                         1 + Cardinality({n \in DOMAIN fence[w] : fence[w][n] < p})]
    IN  [turn   |-> Table([w \in Cores |-> number(w)]),
         fence  |-> fence,
         relies |-> Table([w \in Cores |-> Table([n \in turns |->
                        places \ UNION {changed[v][n] : v \in Cores \ {w}}])]),
         seen   |-> end.seen]

OutlinedJobs == {j \in Jobs : j.kernel \notin Racing
                       /\ \E o \in {Outline(program) : program \in {Program[j]}} : Outlines(j, o)}

\* Every program has an outline: the cores' shares add up to every product
\* of the cell, whatever the order in which they are computed.
Outlined == job.kernel \notin Racing => job \in OutlinedJobs
=============================================================================
