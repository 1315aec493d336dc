------------------------------ MODULE RvScaled ------------------------------
(***************************************************************************)
(* The scaled machine the pipeline is model-checked on: 8-bit words of     *)
(* four 2-bit "bytes", four registers, eight words in each memory.  The    *)
(* top three bits of an address choose its region and the regions have the *)
(* numbers of the real memory map:                                         *)
(*     0..31   none      32..63  dmem, imem fetch   64..95  imem write     *)
(*    96..127  both     128..159 BIOS              160..191 none           *)
(*   192..223  I/O      224..255 none                                      *)
(* An instruction word is an index into the table Code of decoded          *)
(* instructions; a word outside the table decodes as word 0 does.          *)
(***************************************************************************)
EXTENDS Integers, Sequences

SWord  == 0..255
SReg   == 0..3
SSlot  == 1..8

STop(w)   == <<0, 1, 2, 3, 4, 5, 8, 15>>[(w \div 32) + 1]
SIndex(w) == (w % 32) \div 4 + 1
SPlus4(w) == (w + 4) % 256
Signed(w) == IF w >= 128 THEN w - 256 ELSE w

\* The instruction set's own words for what an ALU operation, a branch
\* condition and a load or store lane mean.  MCDatapath shows that the
\* hardware's blocks (Datapath) compute the same.
SAlu(op, a, b) ==
    CASE op = <<0, 0>>    -> (a + b) % 256
      [] op = <<0, 1>>    -> (a - b) % 256
      [] op = <<7, 1>>    -> b
      [] op[1] = 2        -> IF Signed(a) < Signed(b) THEN 1 ELSE 0
      [] op[1] = 3        -> IF a < b THEN 1 ELSE 0
      [] OTHER            -> 0     \* shifts and logic: no program here has one

STaken(t, a, b) ==
    CASE t = 0 -> a = b
      [] t = 1 -> a # b
      [] t = 4 -> Signed(a) < Signed(b)
      [] t = 5 -> Signed(a) >= Signed(b)
      [] t = 6 -> a < b
      [] t = 7 -> a >= b
      [] OTHER -> FALSE

\* Two-bit bytes: the weight of lane n, the value w has from lane n up.
SLane(w)         == w % 4
Weight           == <<1, 4, 16, 64>>
From(w, n, size) == (w \div Weight[n + 1]) % size
SignExt(v, size) == IF 2 * v >= size THEN 256 - size + v ELSE v

SLoadLane(t, n, w) ==
    CASE t = 0 -> SignExt(From(w, n, 4), 4)
      [] t = 1 -> SignExt(From(w, n, 16), 16)
      [] t = 2 -> w
      [] t = 4 -> From(w, n, 4)
      [] t = 5 -> From(w, n, 16)
      [] OTHER -> 0

\* Replace the value old has from lane n up.
Splice(old, n, size, d) ==
    (old + Weight[n + 1] * ((d % size) - From(old, n, size))) % 256

SStoreLane(t, n, old, d) ==
    CASE t \in {0, 4} -> Splice(old, n, 4, d)
      [] t \in {1, 5} -> Splice(old, n, 16, d)
      [] t = 2        -> d
      [] OTHER        -> old

-----------------------------------------------------------------------------
\* Constructors of decoded instructions.  The last argument is what bits 24:20
\* (of an I-type) or 11:7 (of a store or a branch) of the immediate spell: a
\* register number for hazard_control, as in the 32-bit encoding.
R(f3, f7, rd, rs1, rs2) ==
    [op |-> "RTYPE", f3 |-> f3, f7 |-> f7, rd |-> rd, rs1 |-> rs1, rs2 |-> rs2,
     imm |-> 0]
I(op, f3, rd, rs1, imm, bits) ==
    [op |-> op, f3 |-> f3, f7 |-> 0, rd |-> rd, rs1 |-> rs1, rs2 |-> bits,
     imm |-> imm]
S(f3, rs1, rs2, imm, bits) ==
    [op |-> "STORE", f3 |-> f3, f7 |-> 0, rd |-> bits, rs1 |-> rs1,
     rs2 |-> rs2, imm |-> imm]
B(f3, rs1, rs2, imm, bits) ==
    [op |-> "BRANCH", f3 |-> f3, f7 |-> 0, rd |-> bits, rs1 |-> rs1,
     rs2 |-> rs2, imm |-> imm]
U(op, rd, imm, bits) ==
    [op |-> op, f3 |-> 0, f7 |-> 0, rd |-> rd, rs1 |-> bits, rs2 |-> 0,
     imm |-> imm]
C(f3, rd, rs1) ==
    [op |-> "CSR", f3 |-> f3, f7 |-> 0, rd |-> rd, rs1 |-> rs1, rs2 |-> 2,
     imm |-> 0]

\* Zero is a load byte, as an erased memory word is.
Erased == I("LOAD", 0, 0, 0, 0, 0)
=============================================================================
