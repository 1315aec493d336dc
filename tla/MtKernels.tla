------------------------------ MODULE MtKernels ------------------------------
(***************************************************************************)
(* The multi-core kernels of the vendored processor tests, mt/*.c: 44      *)
(* matrix multiplications C = A * B and five vector additions z = x + y,   *)
(* each run by ncores cores at once.                                       *)
(*                                                                         *)
(* A kernel is given as the program of core w of n FOR ONE CELL c of the   *)
(* result: the steps of the core that read or write that cell, that fill   *)
(* or use a shared copy of B, and its barriers, in the order of its loops. *)
(* The steps for other cells are left out, so that a loop over the         *)
(* cells becomes a test of whether it reaches c; as nothing is assumed     *)
(* about c, what holds of the program holds of every cell. Matrices are    *)
(* flat arrays, as in C: L is lda, the length of a row, and the cell c is  *)
(* in row c \div L and column c % L. A kernel with the length 32 written   *)
(* into it has 32 where the others have L. The programs are those for one  *)
(* and two cores, the number the Makefile runs them on; ai, ay, az, bb,    *)
(* bm, ci, cy, do and the additions are those for any number.              *)
(*                                                                         *)
(* A value is the set of products <<a, b>> summed in it, a an index of A   *)
(* and b one of B.                                                         *)
(***************************************************************************)
EXTENDS Integers, Sequences, SequencesExt

(***************************************************************************)
(* The steps of a program: a core reads the cell (or starts from zero) and *)
(* adds products to it in a register of its own, from B or from a shared   *)
(* copy of B; writes the register to the cell; fills an entry of the copy; *)
(* waits at the barrier; checks the cell.                                  *)
(***************************************************************************)
Steps == [do : {"read"}, old : BOOLEAN, ab : SUBSET (Int \X Int), copied : SUBSET (Int \X Int)]
         \cup [do : {"fill"}, at : Int, from : Int]
         \cup [do : {"write", "barrier", "check", "sync"}]

Read(old, ab, copied) == [do |-> "read", old |-> old, ab |-> ab, copied |-> copied]
Write                 == [do |-> "write"]
Fill(t, b)            == <<[do |-> "fill", at |-> t, from |-> b]>>
Barrier               == <<[do |-> "barrier"]>>
Check                 == <<[do |-> "check"]>>

Add(ab)           == <<Read(TRUE, ab, {}), Write>>    \* C[c] += ...
Put(ab)           == <<Read(FALSE, ab, {}), Write>>   \* C[c] = ...
AddCopied(copied) == <<Read(TRUE, {}, copied), Write>>
PutCopied(copied) == <<Read(FALSE, {}, copied), Write>>

\* for (m = lo; m < hi; m += step), and its body.
Upto(lo, hi, step) == [m \in 1 .. (hi - lo + step - 1) \div step |-> lo + (m - 1) * step]
For(values, body(_)) == FlattenSeq([m \in DOMAIN values |-> body(values[m])])
When(cond, steps) == IF cond THEN steps ELSE <<>>

\* x is reached by a loop from lo to hi whose body does step values at a time.
Within(x, lo, hi, step) == x \in lo .. lo + step * ((hi - lo + step - 1) \div step) - 1

Least(x, y) == IF x < y THEN x ELSE y

\* The products A[a + k] * B[b + k * stride].
Dot(a, b, stride, ks) == {<<a + k, b + k * stride>> : k \in ks}

\* Core 0 has the first part, core 1 the second; the only core has both.
Parts(w, n) == When(w = 0, <<0>>) \o When(w = 1 \/ (w = 0 /\ n = 1), <<1>>)

-----------------------------------------------------------------------------
(***************************************************************************)
(* ad, an: two and one products of a row are added at a time, with a       *)
(* barrier after each; ad has the row length 32 in its shifts.             *)
(***************************************************************************)
AD(w, n, L, c) ==
    For(Upto(w * (L \div n), (w + 1) * (L \div n), 1), LAMBDA j :
      For(Upto(0, 32, 2), LAMBDA k :
        When(c \in 32 * j .. 32 * j + 31,
             Add({<<k + 32 * j, 32 * k + c - 32 * j>>}) \o
             Add({<<k + 1 + 32 * j, 32 * k + 32 + c - 32 * j>>})) \o Barrier))

AN(w, n, L, c) ==
    For(Upto(w * (L \div n), (w + 1) * (L \div n), 1), LAMBDA j :
      For(Upto(0, L, 1), LAMBDA k :
        When(j = c \div L, Add(Dot(j * L, c % L, L, {k}))) \o Barrier))

(***************************************************************************)
(* ae: B is transposed into the shared BB, a row of B and a barrier at a   *)
(* time, and multiplied from there, with a barrier after every four cells. *)
(***************************************************************************)
AE(w, n, L, c) ==
    LET own == Upto(w * (L \div n), (w + 1) * (L \div n), 1)
    IN  For(Upto(0, L, 1), LAMBDA k :
          When(c % L \in Range(own), Fill((c % L) * L + k, k * L + (c % L))) \o Barrier)
        \o For(Upto(0, L, 4), LAMBDA i : For(own, LAMBDA j :
             When(j = c \div L /\ c % L \in i .. i + 3,
                  PutCopied({<<j * L + k, (c % L) * L + k>> : k \in 0 .. L - 1}))
             \o Barrier))

(***************************************************************************)
(* af, am: two rows at a time in a local array, stored whole, no barrier.  *)
(* The rows of A and C are 32 apart; af's rows of B are lda apart, am's 32.*)
(***************************************************************************)
AF(w, n, L, c) ==
    For(Upto((w * L) \div n, (L * (1 + w)) \div n, 2), LAMBDA l :
      For(<<32 * l, 32 * (l + 1)>>, LAMBDA row :
        When(c \in row .. row + L - 1, Put(Dot(row, c - row, L, 0 .. L - 1)))))

AM(w, n, L, c) ==
    For(Upto((w * 32) \div n, (32 * (1 + w)) \div n, 2), LAMBDA l :
      For(<<32 * l, 32 * (l + 1)>>, LAMBDA row :
        When(c \in row .. row + 31, Put(Dot(row, c - row, 32, 0 .. L - 1)))))

(***************************************************************************)
(* ag: four products of a cell are summed and added at a time; a barrier   *)
(* after each four columns of A.                                           *)
(***************************************************************************)
AG(w, n, L, c) ==
    For(Upto(0, L, 2), LAMBDA i :
      For(Upto(0, L, 4), LAMBDA k :
        When(c % L \in i .. i + 1
               /\ Within(c \div L, w * (L \div n), (w + 1) * (L \div n), 4),
             Add(Dot((c \div L) * L, c % L, L, k .. k + 3))) \o Barrier))

(***************************************************************************)
(* ai, bb: whole cells, computed in local variables and stored once.       *)
(***************************************************************************)
AI(w, n, L, c) ==
    Barrier \o
    When(Within(c \div L, (w * L) \div n, (w * L) \div n + L \div n, 1),
         Put(Dot((c \div L) * L, c % L, L, 0 .. L - 1)))

BB(w, n, L, c) ==
    When(Within(c \div L, w * (L \div n), (w + 1) * (L \div n), 4),
         Put(Dot((c \div L) * L, c % L, L, 0 .. L - 1)))

(***************************************************************************)
(* ak: blocks of 16 rows dealt out to the cores, 16 columns at a time.     *)
(***************************************************************************)
AK(w, n, L, c) ==
    For(Upto(16 * w, L, 16 * n), LAMBDA jj :
      For(Upto(0, L, 16), LAMBDA ii :
        When(c \div L \in jj .. jj + 15 /\ c % L \in ii .. ii + 15,
             Add(Dot((c \div L) * L, c % L, L, 0 .. L - 1)))))

(***************************************************************************)
(* al, bf: core 0 has the columns 0 to 15 and core 1, or the only core,    *)
(* the columns 16 to 31. al adds to the cells, bf stores them.             *)
(***************************************************************************)
AL(w, n, L, c) ==
    For(Parts(w, n), LAMBDA part :
      When(c \div L < 32 /\ c % L \in 16 * part .. 16 * part + 15,
           Add(Dot((c \div L) * L, c % L, L, 0 .. 31))))

BF(w, n, L, c) ==
    For(Parts(w, n), LAMBDA part :
      When(c \div L < 32 /\ c % L \in 16 * part .. 16 * part + 15,
           Put(Dot((c \div L) * L, c % L, L, 0 .. 31))))

(***************************************************************************)
(* ap, ar: a product at a time; ar multiplies from a private transposed B. *)
(***************************************************************************)
AP(w, n, L, c) ==
    For(Upto(0, L, 1), LAMBDA k :
      When(Within(c \div L, (L \div n) * w, (L \div n) * w + L \div n, 1),
           Add(Dot((c \div L) * L, c % L, L, {k}))))

AR(w, n, L, c) ==
    For(Upto(0, L, 1), LAMBDA k :
      When(c \div L < L /\ Within(c \div L, w * (L \div n), (w + 1) * (L \div n), 1),
           Add(Dot((c \div L) * L, c % L, L, {k}))))

(***************************************************************************)
(* aq: the columns are dealt out in pairs that are ncores apart.           *)
(***************************************************************************)
AQ(w, n, L, c) ==
    For(Upto(w, L, 2 * n), LAMBDA i :
      When(c % L \in {i, i + n},
           For(Upto(0, L, 1), LAMBDA k : Add(Dot((c \div L) * L, c % L, L, {k})))))

(***************************************************************************)
(* at: the columns are shared out in blocks of 8, from a private           *)
(* transposed B of 32 columns; sixteen products in a row, each added.      *)
(***************************************************************************)
AT(w, n, L, c) ==
    For(Upto(0, L, 16), LAMBDA k : For(Upto(k, k + 16, 1), LAMBDA kk :
      When(Within(c % L, (w * L) \div n, ((w + 1) * L) \div n, 8),
           Add(Dot((c \div L) * L, c % L, L, {kk})))))

(***************************************************************************)
(* av: core 0 has the rows 0 to 15 and core 1, or the only core, the rows  *)
(* 16 to 31; eight products are added to a cell at a time.                 *)
(***************************************************************************)
AV_Upper(L, c) ==
    When(c \div L \in 0 .. 15,
         For(Upto(0, 4, 1), LAMBDA m :
           Add(Dot((c \div L) * L, c % L, L, 8 * m .. 8 * m + 7))))

AV_Lower(L, c) ==
    When(c \div L \in 16 .. 31,
         For(Upto(0, 4, 1), LAMBDA m :
           Add(Dot((c \div L) * L, c % L, L, 8 * m .. 8 * m + 7))))

AV(w, n, L, c) ==
    When(w = 1 \/ n = 1, AV_Lower(L, c)) \o When(w = 0, AV_Upper(L, c))

(***************************************************************************)
(* ay, az: core w has the cells from 512 * w, eight at a time; the only    *)
(* core has all. Shifts by 5 and 9 make the row length 32.                 *)
(***************************************************************************)
AY(w, n, L, c) ==
    When(w <= 1 /\ Within(c, 512 * w, 512 * (IF n = 1 THEN 2 ELSE w + 1), 8),
         Put(Dot(32 * (c \div 32), c % 32, 32, 0 .. L - 1)))

AZ(w, n, L, c) ==
    When(w <= 1 /\ Within(c, 512 * w, 512 * (IF n = 1 THEN 2 ELSE w + 1), 8),
         Put(Dot(32 * (c \div 32), c % 32, 32, 0 .. L - 1)))

(***************************************************************************)
(* bc: for 32 by 32 and two cores, blocks of 16 rows and 16 products; for  *)
(* any other case core 0 alone, a product at a time.                       *)
(***************************************************************************)
BC(w, n, L, c) ==
    LET start == w * 16
        end   == IF w = 1 THEN 32 ELSE (w + 1) * 16
    IN  IF n = 2 /\ L = 32
        THEN For(Upto(start, end, 16), LAMBDA jj :
               For(Upto(0, 32, 16), LAMBDA kk :
                 When(Within(c \div 32, jj, Least(end, jj + 16), 2),
                      Add(Dot((c \div 32) * 32, c % 32, 32, kk .. Least(32, kk + 16) - 1)))))
        ELSE When(w = 0,
               For(Upto(0, L, 1), LAMBDA k : Add(Dot((c \div L) * L, c % L, L, {k}))))

(***************************************************************************)
(* bh, bj: core 0 has the upper half of the rows, upwards, core 1 (or the  *)
(* only core) the lower half, downwards; half of the products at a time.   *)
(***************************************************************************)
BH(w, n, L, c) ==
    When(w = 0, For(<<0, 1>>, LAMBDA m :
      When(c \div L < L \div 2,
           Add(Dot((c \div L) * L, c % L, L, (m * L) \div 2 .. ((m + 1) * L) \div 2 - 1)))))
    \o When(w = 1 \/ (n = 1 /\ w = 0), For(<<2, 1>>, LAMBDA m :
      When(c \div L >= L \div 2,
           Add(Dot((c \div L) * L, c % L, L, ((m - 1) * L) \div 2 .. (m * L) \div 2 - 1)))))

BJ(w, n, L, c) == BH(w, n, L, c)

(***************************************************************************)
(* bk: as av, sixteen products at a time, with the row length 32.          *)
(***************************************************************************)
BK(w, n, L, c) ==
    For(Parts(w, n), LAMBDA part :
      For(Upto(0, 32, 16), LAMBDA kk :
        When(c \div 32 \in 16 * part .. 16 * part + 15,
             Add(Dot((c \div 32) * 32, c % 32, 32, kk .. Least(kk + 16, 32) - 1)))))

(***************************************************************************)
(* bm: the rows of a core, rounded down to a multiple of four; the last    *)
(* core also has the rows the others leave.                                *)
(***************************************************************************)
BM(w, n, L, c) ==
    LET space == L \div n
        end   == IF w # n - 1 THEN space * w + space ELSE L
    IN  When(Within(c \div L, space * w, (end \div 4) * 4, 4),
             Add(Dot((c \div L) * L, c % L, L, 0 .. L - 1)))

(***************************************************************************)
(* bo: a column of B is copied to a private array; two rows at a time,     *)
(* whose rows of A are 32 apart.                                           *)
(***************************************************************************)
BO(w, n, L, c) ==
    For(Parts(w, n), LAMBDA part :
      For(Upto(16 * part, 16 * part + 16, 2), LAMBDA j :
        For(<<0, 1>>, LAMBDA second :
          When(c % L < 32 /\ c \div L = j + second,
               Put(Dot(j * L + 32 * second, c % L, 32, 0 .. 31))))))

(***************************************************************************)
(* br: a core transposes its columns of B into a private array, with a     *)
(* barrier after two rows, and multiplies them in blocks, with a barrier   *)
(* after every eight cells. The columns of each of two cores are a block.  *)
(***************************************************************************)
BR(w, n, L, c) ==
    LET startInd == w * (L \div n)
        endInd   == (w + 1) * (L \div n)
    IN  For(Upto(0, L, 2), LAMBDA i : Barrier)
        \o For(Upto(0, L, 32), LAMBDA j2 : For(Upto(startInd, endInd, 16), LAMBDA i2 :
             For(Upto(j2, j2 + 32, 2), LAMBDA j : For(Upto(0, L, 32), LAMBDA k2 :
               For(Upto(i2, i2 + 16, 4), LAMBDA i :
                 When(c \div L \in j .. j + 1 /\ c % L \in i .. i + 3,
                      Add(Dot((c \div L) * L, c % L, L, k2 .. k2 + 31)))
                 \o Barrier)))))

(***************************************************************************)
(* bs: the rows are dealt out, four that are ncores apart at a time.       *)
(***************************************************************************)
BS(w, n, L, c) ==
    For(Upto(w, L, 4 * n), LAMBDA j :
      When(c \div L \in {j, j + n, j + 2 * n, j + 3 * n},
           For(Upto(0, L, 1), LAMBDA k : Add(Dot((c \div L) * L, c % L, L, {k})))))

(***************************************************************************)
(* ce: as ae, but a core adds to its cells, and has no barrier after the   *)
(* transposition.                                                          *)
(***************************************************************************)
CE(w, n, L, c) ==
    LET own == Upto(w * (L \div n), (w + 1) * (L \div n), 1)
    IN  For(Upto(0, L, 1), LAMBDA k :
          When(c % L \in Range(own), Fill((c % L) * L + k, k * L + (c % L))) \o Barrier)
        \o For(Upto(0, n, 1), LAMBDA x :
             For(Upto(x * (32 \div n), (x + 1) * (32 \div n), 8), LAMBDA i :
               When(c \div L \in Range(own) /\ c % L \in i .. i + 7,
                    AddCopied({<<(c \div L) * L + k, (c % L) * L + k>> : k \in 0 .. L - 1}))))

(***************************************************************************)
(* cf: the products are shared out, not the cells: both cores add to every *)
(* cell, core 0 from the first row down, core 1 from the last row up, and  *)
(* nothing keeps them apart.                                               *)
(***************************************************************************)
CF(w, n, L, c) ==
    For(Parts(w, n), LAMBDA part :
      Add(Dot((c \div 32) * 32, c % 32, 32, 16 * part .. 16 * part + 15)))

(***************************************************************************)
(* cg is ag and ci is ai: ci's cores go through the products in opposite   *)
(* directions, in a local variable.                                        *)
(***************************************************************************)
CG(w, n, L, c) ==
    For(Upto(0, L, 2), LAMBDA i :
      For(Upto(0, L, 4), LAMBDA k :
        When(c % L \in i .. i + 1
               /\ Within(c \div L, w * (L \div n), (w + 1) * (L \div n), 4),
             Add(Dot((c \div L) * L, c % L, L, k .. k + 3))) \o Barrier))

CI(w, n, L, c) ==
    Barrier \o
    When(Within(c \div L, (w * L) \div n, (w * L) \div n + L \div n, 1),
         Put(Dot((c \div L) * L, c % L, L, 0 .. L - 1)))

(***************************************************************************)
(* ck: as ak, a core beginning with the columns of its own number.         *)
(***************************************************************************)
Bug_CK(w, n, L, c) ==
    For(Upto(16 * w, L, 16 * n), LAMBDA jj :
      For(Upto(0, L, 16), LAMBDA off : LET ii == 16 * w + off IN
        When(c \div L \in jj .. jj + 15 /\ c % L \in ii .. ii + 15,
             Add(Dot((c \div L) * L, c % L, L, 0 .. L - 1)))))
CK(w, n, L, c) ==
    For(Upto(16 * w, L, 16 * n), LAMBDA jj :
      For(Upto(0, L, 16), LAMBDA off : LET ii == (16 * w + off) % L IN
        When(c \div L \in jj .. jj + 15 /\ c % L \in ii .. ii + 15,
             Add(Dot((c \div L) * L, c % L, L, 0 .. L - 1)))))

(***************************************************************************)
(* cl: as al; core 1 begins with the lower rows.                           *)
(***************************************************************************)
CL(w, n, L, c) ==
    When(w = 0 /\ c \div L < 32 /\ c % L \in 0 .. 15,
         Add(Dot((c \div L) * L, c % L, L, 0 .. 31)))
    \o When(w = 1 \/ n = 1,
         For(<<16 .. 31, 0 .. 15>>, LAMBDA rows :
           When(c \div L \in rows /\ c % L \in 16 .. 31,
                Add(Dot((c \div L) * L, c % L, L, 0 .. 31)))))

(***************************************************************************)
(* cm: as cf, without the check that there are at most two cores; the rows *)
(* of A and C are lda apart.                                               *)
(***************************************************************************)
CM(w, n, L, c) ==
    For(Parts(w, n), LAMBDA part :
      When(c % L < 32,
           Add(Dot((c \div L) * L, c % L, 32, 16 * part .. 16 * part + 15))))

(***************************************************************************)
(* cs: the rows are dealt out in pairs that are ncores apart, with a       *)
(* barrier after every two cells.                                          *)
(***************************************************************************)
Bug_CS(w, n, L, c) ==
    For(Upto(w, L, 2 * n), LAMBDA j : For(Upto(0, L, 1), LAMBDA i :
      When(c \div L \in {j, j + n} /\ c % L = i,
           Put(Dot((c \div L) * L, i, L, 0 .. L - 1)) \o Barrier)))
CS(w, n, L, c) ==
    For(Upto(w, L, 2 * n), LAMBDA j : For(Upto(0, L, 1), LAMBDA i :
      When(c \div L \in {j, j + n} /\ c % L = i,
           Put(Dot((c \div L) * L, i, L, 0 .. L - 1))) \o Barrier))

(***************************************************************************)
(* cv: as av, a product at a time.                                         *)
(***************************************************************************)
CV_Lower(L, c) ==
    When(c \div L \in 16 .. 31,
         For(Upto(0, 4, 1), LAMBDA m : For(Upto(0, 8, 1), LAMBDA k :
           Add(Dot((c \div L) * L, c % L, L, {8 * m + k})))))

CV_Upper(L, c) ==
    When(c \div L \in 0 .. 15,
         For(Upto(0, 4, 1), LAMBDA m : For(Upto(0, 8, 1), LAMBDA k :
           Add(Dot((c \div L) * L, c % L, L, {8 * m + k})))))

CV(w, n, L, c) ==
    When(w = 1 \/ n = 1, CV_Lower(L, c)) \o When(w = 0, CV_Upper(L, c))

(***************************************************************************)
(* cy: as ay; core 1 multiplies copies of A and B that no other core uses. *)
(***************************************************************************)
CY(w, n, L, c) ==
    When(w <= 1 /\ Within(c, 512 * w, 512 * (IF n = 1 THEN 2 ELSE w + 1), 8),
         Put(Dot(32 * (c \div 32), c % 32, 32, 0 .. L - 1)))

(***************************************************************************)
(* dc: as bc, core 0 beginning with the first half of the products and     *)
(* core 1 with the second.                                                 *)
(***************************************************************************)
DC(w, n, L, c) ==
    LET start     == w * 16
        end       == IF w = 1 THEN 32 ELSE (w + 1) * 16
        half(low) == For(Upto(start, end, 16), LAMBDA jj :
                       For(Upto(IF low THEN 0 ELSE 16, IF low THEN 16 ELSE 32, 16), LAMBDA kk :
                         When(Within(c \div 32, jj, Least(end, jj + 16), 2),
                              Add(Dot((c \div 32) * 32, c % 32, 32, kk .. Least(32, kk + 16) - 1)))))
    IN  IF n = 2 /\ L = 32
        THEN half(w = 0) \o half(w # 0)
        ELSE When(w = 0,
               For(Upto(0, L, 1), LAMBDA k : Add(Dot((c \div L) * L, c % L, L, {k}))))

(***************************************************************************)
(* df: as al, the columns of core 0 in two halves of rows as well.         *)
(***************************************************************************)
DF_Left(L, c) ==
    For(<<0 .. 15, 16 .. 31>>, LAMBDA rows :
      When(c \div L \in rows /\ c % L \in 0 .. 15,
           Add(Dot((c \div L) * L, c % L, L, 0 .. 31))))

DF_Right(L, c) ==
    For(<<16 .. 31, 0 .. 15>>, LAMBDA rows :
      When(c \div L \in rows /\ c % L \in 16 .. 31,
           Add(Dot((c \div L) * L, c % L, L, 0 .. 31))))

DF(w, n, L, c) ==
    When(w = 0, DF_Left(L, c)) \o When(w = 1 \/ n = 1, DF_Right(L, c))

(***************************************************************************)
(* dm: the last core multiplies a shared copy of B, of which it makes the  *)
(* first part and the others the rest before the barrier. The rows of a    *)
(* core are those of bm.                                                   *)
(***************************************************************************)
Bug_DM(w, n, L, c) ==
    LET space == L \div n
        last  == w = n - 1
        mine  == IF last THEN 0 .. (L * L) \div n - 1 ELSE (L * L) \div n .. L * L - 1
        end   == IF last THEN L ELSE space * w + space
    IN  For(Upto(c % L, L * L, L), LAMBDA i : When(i \in mine, Fill(i, i)))
        \o When(Within(c \div L, space * w, (end \div 4) * 4, 4) /\ c % L < (L \div 4) * 4,
                IF last
                THEN AddCopied({<<(c \div L) * L + k, (c % L) + k * L>> : k \in 0 .. L - 1})
                ELSE Add(Dot((c \div L) * L, c % L, L, 0 .. L - 1)))
DM(w, n, L, c) ==
    LET space == L \div n
        last  == w = n - 1
        mine  == IF last THEN 0 .. (L * L) \div n - 1 ELSE (L * L) \div n .. L * L - 1
        end   == IF last THEN L ELSE space * w + space
    IN  For(Upto(c % L, L * L, L), LAMBDA i : When(i \in mine, Fill(i, i)))
        \o Barrier
        \o When(Within(c \div L, space * w, (end \div 4) * 4, 4) /\ c % L < (L \div 4) * 4,
                IF last
                THEN AddCopied({<<(c \div L) * L + k, (c % L) + k * L>> : k \in 0 .. L - 1})
                ELSE Add(Dot((c \div L) * L, c % L, L, 0 .. L - 1)))

(***************************************************************************)
(* do: a core's rows of 32, a cell at a time.                              *)
(***************************************************************************)
DO(w, n, L, c) ==
    When(c < 32 * 32 /\ Within(c \div 32, w * (32 \div n), (w + 1) * (32 \div n), 1),
         Put(Dot((c \div 32) * 32, c % 32, 32, 0 .. 31)))

(***************************************************************************)
(* dr: as br, sixteen cells at a time.                                     *)
(***************************************************************************)
DR(w, n, L, c) ==
    LET startInd == w * (L \div n)
        endInd   == (w + 1) * (L \div n)
    IN  For(Upto(0, L, 2), LAMBDA i : Barrier)
        \o For(Upto(0, L, 32), LAMBDA j2 : For(Upto(startInd, endInd, 16), LAMBDA i2 :
             For(Upto(j2, j2 + 32, 2), LAMBDA j : For(Upto(0, L, 32), LAMBDA k2 :
               For(Upto(i2, i2 + 16, 8), LAMBDA i :
                 When(c \div L \in j .. j + 1 /\ c % L \in i .. i + 7,
                      Add(Dot((c \div L) * L, c % L, L, k2 .. k2 + 31)))
                 \o Barrier)))))

(***************************************************************************)
(* ds: the rows are dealt out in fours, two products at a time.            *)
(***************************************************************************)
DS(w, n, L, c) ==
    For(Upto(4 * w, L, 4 * n), LAMBDA j :
      When(c \div L \in j .. j + 3,
           For(Upto(0, L, 2), LAMBDA k : Add(Dot((c \div L) * L, c % L, L, {k}))
                                         \o Add(Dot((c \div L) * L, c % L, L, {k + 1})))))

(***************************************************************************)
(* du is am.                                                               *)
(***************************************************************************)
DU(w, n, L, c) ==
    For(Upto((w * 32) \div n, (32 * (1 + w)) \div n, 2), LAMBDA l :
      For(<<32 * l, 32 * (l + 1)>>, LAMBDA row :
        When(c \in row .. row + 31, Put(Dot(row, c - row, 32, 0 .. L - 1)))))

(***************************************************************************)
(* dv: as bk, core 1 or the only core having the upper half of the rows.   *)
(***************************************************************************)
DV(w, n, L, c) ==
    When(w = 1 \/ (w = 0 /\ n = 1), For(Upto(0, 32, 16), LAMBDA kk :
      When(c \div 32 \in 0 .. 15,
           Add(Dot((c \div 32) * 32, c % 32, 32, kk .. Least(kk + 16, 32) - 1)))))
    \o When(w = 0, For(Upto(0, 32, 16), LAMBDA kk :
      When(c \div 32 \in 16 .. 31,
           Add(Dot((c \div 32) * 32, c % 32, 32, kk .. Least(kk + 16, 32) - 1)))))

(***************************************************************************)
(* The kernels whose cores add to the same cells with nothing to keep them *)
(* apart.                                                                  *)
(***************************************************************************)
Racing == {"cf", "cm"}

-----------------------------------------------------------------------------
(***************************************************************************)
(* The vector additions: add is what a core does to an element of z that   *)
(* it has. vvadd0 has the elements in blocks and deals out those left;     *)
(* vvadd1, vvadd2 and vvadd4 deal them out in eights, twos and ones; and   *)
(* vvadd3 has them in blocks (the entry into its unrolled loop is chosen   *)
(* so that it does size \div n of them) and leaves those left undone.      *)
(***************************************************************************)
VV0(w, n, size, c, add) ==
    LET leftover == size % (size \div n)
    IN  When(c \in w * (size \div n) .. (w + 1) * (size \div n) - 1, add)
        \o When(c \in Range(Upto(size - leftover + w, size, n)), add)

VV1(w, n, size, c, add) ==
    LET i == Range(Upto(4 * w, size, 8 * n))
    IN  When(\E k \in 0 .. 3 : c - k \in i, add)
        \o When(\E k \in 0 .. 3 : c - 4 * n - k \in i, add)

VV2(w, n, size, c, add) ==
    LET i == Range(Upto(w, size, 2 * n))
    IN  When(c \in i, add) \o When(c - n \in i, add)

VV3(w, n, size, c, add) ==
    When(c \in w * (size \div n) .. w * (size \div n) + size \div n - 1, add)

VV4(w, n, size, c, add) ==
    When(c \in Range(Upto(w, size, n)), add)

(***************************************************************************)
(* The programs the Makefile builds, by name.                              *)
(***************************************************************************)
Matmul(k, w, n, L, c) ==
    CASE k = "ad" -> AD(w, n, L, c)
      [] k = "ae" -> AE(w, n, L, c)
      [] k = "af" -> AF(w, n, L, c)
      [] k = "ag" -> AG(w, n, L, c)
      [] k = "ai" -> AI(w, n, L, c)
      [] k = "ak" -> AK(w, n, L, c)
      [] k = "al" -> AL(w, n, L, c)
      [] k = "am" -> AM(w, n, L, c)
      [] k = "an" -> AN(w, n, L, c)
      [] k = "ap" -> AP(w, n, L, c)
      [] k = "aq" -> AQ(w, n, L, c)
      [] k = "ar" -> AR(w, n, L, c)
      [] k = "at" -> AT(w, n, L, c)
      [] k = "av" -> AV(w, n, L, c)
      [] k = "ay" -> AY(w, n, L, c)
      [] k = "az" -> AZ(w, n, L, c)
      [] k = "bb" -> BB(w, n, L, c)
      [] k = "bc" -> BC(w, n, L, c)
      [] k = "bf" -> BF(w, n, L, c)
      [] k = "bh" -> BH(w, n, L, c)
      [] k = "bj" -> BJ(w, n, L, c)
      [] k = "bk" -> BK(w, n, L, c)
      [] k = "bm" -> BM(w, n, L, c)
      [] k = "bo" -> BO(w, n, L, c)
      [] k = "br" -> BR(w, n, L, c)
      [] k = "bs" -> BS(w, n, L, c)
      [] k = "ce" -> CE(w, n, L, c)
      [] k = "cf" -> CF(w, n, L, c)
      [] k = "cg" -> CG(w, n, L, c)
      [] k = "ci" -> CI(w, n, L, c)
      [] k = "ck" -> CK(w, n, L, c)
      [] k = "cl" -> CL(w, n, L, c)
      [] k = "cm" -> CM(w, n, L, c)
      [] k = "cs" -> CS(w, n, L, c)
      [] k = "cv" -> CV(w, n, L, c)
      [] k = "cy" -> CY(w, n, L, c)
      [] k = "dc" -> DC(w, n, L, c)
      [] k = "df" -> DF(w, n, L, c)
      [] k = "dm" -> DM(w, n, L, c)
      [] k = "do" -> DO(w, n, L, c)
      [] k = "dr" -> DR(w, n, L, c)
      [] k = "ds" -> DS(w, n, L, c)
      [] k = "du" -> DU(w, n, L, c)
      [] k = "dv" -> DV(w, n, L, c)

Vvadd(k, w, n, size, c, add) ==
    CASE k = "vvadd0" -> VV0(w, n, size, c, add)
      [] k = "vvadd1" -> VV1(w, n, size, c, add)
      [] k = "vvadd2" -> VV2(w, n, size, c, add)
      [] k = "vvadd3" -> VV3(w, n, size, c, add)
      [] k = "vvadd4" -> VV4(w, n, size, c, add)
=============================================================================
