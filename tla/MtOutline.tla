----------------------------- MODULE MtOutline ------------------------------
(***************************************************************************)
(* Why a multi-core program computes its result in whatever order its      *)
(* cores take their steps: between two barriers nobody changes what a core *)
(* relies on, so that its steps can be followed one by one as if it were   *)
(* alone, and at a barrier it may come to rely on what another core has    *)
(* left there. An outline of a job writes that down for its programs: what *)
(* a core relies on in each turn, from one barrier to the next, and what   *)
(* it then sees before each of its steps.                                  *)
(***************************************************************************)
EXTENDS MtBenchmark

\* The places that cores share: the watched cell, the entries of the copy.
Cell     == <<>>
Entry(e) == <<e>>

\* What a core has before it: the cell, the copy, and the value in its register.
Held(d, x) == IF x = Cell THEN d.cell ELSE {f \in d.copy : x = Entry(f[1])}
Blank == [cell |-> {}, copy |-> {}, reg |-> {}]

Used(s) ==
    (IF s.do = "check" \/ (s.do = "read" /\ s.old) THEN {Cell} ELSE {})
    \cup (IF s.do = "read" THEN {Entry(p[2]) : p \in s.copied} ELSE {})
Changed(s) ==
    CASE s.do = "write" -> {Cell} [] s.do = "fill" -> {Entry(s.at)} [] OTHER -> {}

\* The products that the entries ab of A and the copy d.copy stand for.
Products(ab, d) ==
    UNION {{<<p[1], f[2]>> : f \in {g \in d.copy : g[1] = p[2]}} : p \in ab}

\* A core that has d before it does step s, which is no barrier.
Effect(s, d) ==
    [cell |-> IF s.do = "write" THEN d.reg ELSE d.cell,
     copy |-> IF s.do = "fill" THEN {f \in d.copy : f[1] # s.at} \cup {<<s.at, s.from>>}
                               ELSE d.copy,
     reg  |-> CASE s.do = "read" -> Plus(IF s.old THEN d.cell ELSE {},
                                         s.ab \cup Products(s.copied, d))
                [] s.do = "write" -> {}
                [] OTHER -> d.reg]

-----------------------------------------------------------------------------
(***************************************************************************)
(* An outline o of job j has, for core w,                                  *)
(*   o.turn[w][p]     the turn in which its step p is,                     *)
(*   o.fence[w][n]    the step, a barrier, that ends turn n,               *)
(*   o.relies[w][n]   the places that no other core changes in turn n,     *)
(*   o.seen[w][p]     what it sees before step p in these places, and has  *)
(*                    in its register.                                     *)
(***************************************************************************)
Fence(s) == s.do \in {"barrier", "sync"}

\* Step p of core w, which is no barrier.
Follows(j, o, w, p) ==
    LET s == Program[j][w][p]
        n == o.turn[w][p]
    IN  /\ o.turn[w][p + 1] = n
        /\ o.seen[w][p + 1] = Effect(s, o.seen[w][p])
        /\ Used(s) \cup Changed(s) \subseteq o.relies[w][n]
        /\ \A v \in Cores \ {w} : Changed(s) \cap o.relies[v][n] = {}
        /\ s.do = "check" => o.seen[w][p].cell = Expected(j)

\* Step p of core w, a barrier: some core has relied on what w will rely on.
Passes(j, o, w, p) ==
    LET n == o.turn[w][p]
    IN  /\ o.turn[w][p + 1] = n + 1
        /\ o.fence[w][n] = p
        /\ o.seen[w][p + 1].reg = o.seen[w][p].reg
        /\ \A x \in o.relies[w][n + 1] : \E v \in Cores :
              /\ x \in o.relies[v][n]
              /\ Held(o.seen[w][p + 1], x) = Held(o.seen[v][o.fence[v][n]], x)

Outlines(j, o) == \A w \in Cores :
    /\ o.turn[w][1] = 1 /\ o.seen[w][1] = Blank
    /\ \A p \in DOMAIN Program[j][w] :
          IF Fence(Program[j][w][p]) THEN Passes(j, o, w, p) ELSE Follows(j, o, w, p)
=============================================================================
