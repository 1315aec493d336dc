----------------------------- MODULE MCDatapath -----------------------------
(***************************************************************************)
(* The combinational blocks against the meaning of the instructions.  A    *)
(* step drives one block with one set of inputs and lets its output settle.*)
(***************************************************************************)
EXTENDS RvScaled

CONSTANT XLEN, Sample   \* width 8; the words that are tried

VARIABLES block, a, b, sel, lane, out

vars == <<block, a, b, sel, lane, out>>

D == INSTANCE Datapath

ASSUME SampleAssumption == XLEN = 8 /\ Sample \subseteq D!Words

AluOps == {<<f, 0>> : f \in 0..7} \cup {<<0, 1>>, <<5, 1>>, <<7, 1>>}

Init ==
    /\ a \in Sample /\ b \in Sample
    /\ out = <<>>
    /\ \/ block = "alu" /\ sel \in AluOps /\ lane = 0
       \/ block = "branch" /\ sel \in {0, 1, 4, 5, 6, 7} /\ lane = 0
       \/ block = "load" /\ sel \in {0, 1, 2, 4, 5} /\ lane \in 0..3 /\ b = 0
       \/ block = "store" /\ sel \in {0, 1, 2} /\ lane \in 0..3

Settle(name, value) ==
    /\ block = name /\ out = <<>>
    /\ out' = <<value>>
    /\ UNCHANGED <<block, a, b, sel, lane>>

AluSettles    == Settle("alu", D!Alu(sel, a, b))
BranchSettles == Settle("branch", D!Compare(sel, a, b))
LoadSettles   == Settle("load", D!MemData(sel, lane, a))
StoreSettles  == Settle("store", D!MemWrite(sel, lane, a, b))

Next == AluSettles \/ BranchSettles \/ LoadSettles \/ StoreSettles
Spec == Init /\ [][Next]_vars

-----------------------------------------------------------------------------
Bit(w, i) == (w \div 2 ^ i) % 2

\* Shifts and logic, bit by bit.  Bit i of the result of a shift comes from
\* bit i - shamt or i + shamt, and what is shifted in is 0 or the sign.
AluBit(op, x, y, i) ==
    LET n       == y % XLEN
        below   == i - n
        above   == i + n
        sign    == Bit(x, XLEN - 1)
    IN  CASE op = <<1, 0>> -> IF below >= 0 THEN Bit(x, below) ELSE 0
          [] op = <<5, 0>> -> IF above < XLEN THEN Bit(x, above) ELSE 0
          [] op = <<5, 1>> -> IF above < XLEN THEN Bit(x, above) ELSE sign
          [] op = <<4, 0>> -> (Bit(x, i) + Bit(y, i)) % 2
          [] op = <<6, 0>> -> IF Bit(x, i) + Bit(y, i) > 0 THEN 1 ELSE 0
          [] op = <<7, 0>> -> Bit(x, i) * Bit(y, i)

\* The ALU computes what the rv32i arithmetic instructions mean (alu.v).
AluMeaning ==
    block = "alu" /\ out # <<>> =>
        IF sel \in {<<0, 0>>, <<0, 1>>, <<2, 0>>, <<3, 0>>, <<7, 1>>}
        THEN out[1] = SAlu(sel, a, b)
        ELSE \A i \in 0..(XLEN - 1) : Bit(out[1], i) = AluBit(sel, a, b, i)

\* The six branch conditions, signed and unsigned (branch.v).
BranchMeaning == block = "branch" /\ out # <<>> => out[1] = STaken(sel, a, b)

\* An aligned access: the lane exists in full.
Aligned == \/ sel \in {0, 4}
           \/ sel \in {1, 5} /\ lane % 2 = 0
           \/ sel = 2 /\ lane = 0

Byte(w, k) == (w \div 4 ^ k) % 4

\* The bytes of the word that an access has, from its first up: all of the
\* word for a word, and of a halfword at lane 3 the half that fits.
FirstLane == IF sel = 2 THEN 0 ELSE lane
Addressed == {k \in 0..3 : k - FirstLane \in CASE sel \in {0, 4} -> {0}
                                              [] sel \in {1, 5} -> {0, 1}
                                              [] sel = 2        -> 0..3}

\* Aligned loads return the addressed bytes, extended as their type says, and
\* an aligned store changes the addressed bytes to the low bytes of its
\* operand and no other (mem_control.v, dmem.v). A misaligned access reads or
\* writes those of its bytes that are in the word, and a store no other.
LaneMeaning ==
    /\ block \in {"load", "store"} /\ out # <<>> /\ Aligned =>
          out[1] = IF block = "load" THEN SLoadLane(sel, lane, a)
                                     ELSE SStoreLane(sel, lane, a, b)
    /\ block = "load" /\ out # <<>> =>
          \A k \in Addressed : Byte(out[1], k - FirstLane) = Byte(a, k)
    /\ block = "store" /\ out # <<>> =>
          \A k \in 0..3 : Byte(out[1], k) = IF k \in Addressed THEN Byte(b, k - FirstLane)
                                                               ELSE Byte(a, k)
=============================================================================
