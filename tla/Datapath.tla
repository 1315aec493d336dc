------------------------------ MODULE Datapath ------------------------------
(***************************************************************************)
(* The combinational blocks of the core at any width of four bytes: the    *)
(* ALU, the branch comparator and the byte lanes between the pipeline and  *)
(* the memories.  A word is a number, as the vectors of Verilog are.       *)
(*                                                                         *)
(* Definitions named Bug_... are wrong versions of the definition that     *)
(* follows them; the properties are tested by putting them in its place.   *)
(***************************************************************************)
EXTENDS Integers, Bitwise

CONSTANT XLEN           \* width of a word, 32 in the hardware

BYTE   == XLEN \div 4
HALF   == 2 * BYTE
Size   == 2 ^ XLEN
Words  == 0..(Size - 1)
Signed(w) == IF w >= Size \div 2 THEN w - Size ELSE w

\* alu.v.  op is <<op[3:1], op[0]>>.
Bug_AluLogicalShift(op, srca, srcb) ==
    LET shamt == srcb % XLEN
    IN  CASE op = <<0, 0>> -> (srca + srcb) % Size
          [] op = <<0, 1>> -> (srca - srcb) % Size
          [] op[1] = 5     -> srca \div 2 ^ shamt
          [] OTHER         -> srcb
Alu(op, srca, srcb) ==
    LET shamt == srcb % XLEN
    IN  CASE op = <<0, 0>> -> (srca + srcb) % Size
          [] op = <<0, 1>> -> (srca - srcb) % Size
          [] op[1] = 1     -> (srca * 2 ^ shamt) % Size
          [] op[1] = 2     -> IF Signed(srca) < Signed(srcb) THEN 1 ELSE 0
          [] op[1] = 3     -> IF srca < srcb THEN 1 ELSE 0
          [] op[1] = 4     -> srca ^^ srcb
          [] op = <<5, 0>> -> srca \div 2 ^ shamt
          [] op = <<5, 1>> -> (Signed(srca) \div 2 ^ shamt) % Size
          [] op[1] = 6     -> srca | srcb
          [] op = <<7, 0>> -> srca & srcb
          [] op = <<7, 1>> -> srcb

\* branch.v for a conditional branch.
Bug_CompareSigned(branch_type, rd1, rd2) ==
    CASE branch_type = 0 -> rd1 = rd2
      [] branch_type = 1 -> rd1 # rd2
      [] branch_type \in {4, 6} -> Signed(rd1) < Signed(rd2)
      [] OTHER -> ~(Signed(rd1) < Signed(rd2))
Compare(branch_type, rd1, rd2) ==
    CASE branch_type = 0 -> rd1 = rd2
      [] branch_type = 1 -> rd1 # rd2
      [] branch_type = 4 -> Signed(rd1) < Signed(rd2)
      [] branch_type = 5 -> ~(Signed(rd1) < Signed(rd2))
      [] branch_type = 6 -> rd1 < rd2
      [] branch_type = 7 -> ~(rd1 < rd2)
      [] OTHER           -> FALSE

-----------------------------------------------------------------------------
\* mem_control.v.  n is alu_addr[1:0]; index is the first bit of that byte.
Index(n) == n * BYTE

\* read_data[index +: bits], zero- or sign-extended.  Bits past the word are
\* undefined in Verilog; here they read as zero.
Select(w, n, bits)  == (w \div 2 ^ Index(n)) % 2 ^ bits
Extend(v, bits)     == IF v >= 2 ^ (bits - 1) THEN v + Size - 2 ^ bits ELSE v

MemData(mem_type, n, read_data) ==
    CASE mem_type = 0 -> Extend(Select(read_data, n, BYTE), BYTE)
      [] mem_type = 1 -> Extend(Select(read_data, n, HALF), HALF)
      [] mem_type = 2 -> read_data
      [] mem_type = 4 -> Select(read_data, n, BYTE)
      [] mem_type = 5 -> Select(read_data, n, HALF)
      [] OTHER        -> 0

\* mem_mask as the set of byte lanes; shifted-out lanes are lost.
Bug_MaskFixed(mem_type, n) ==
    CASE mem_type = 2       -> 0..3
      [] mem_type \in {1, 5} -> {0, 1}
      [] OTHER              -> {0}
MemMask(mem_type, n) ==
    CASE mem_type = 2       -> 0..3
      [] mem_type \in {1, 5} -> {n, n + 1} \cap 0..3
      [] mem_type \in {0, 4} -> {n}
      [] OTHER              -> {}

MemDin(mem_type, n, mem_win) ==
    CASE mem_type = 2             -> mem_win
      [] mem_type \in {0, 1, 4, 5} -> (mem_win * 2 ^ Index(n)) % Size
      [] OTHER                    -> 0

\* dmem.v and imem.v: each byte lane has its own write enable.
LaneOf(w, k) == Select(w, k, BYTE) * 2 ^ Index(k)
WriteLanes(mask, old, din) ==
    LET pick(k) == LaneOf(IF k \in mask THEN din ELSE old, k)
    IN  pick(0) + pick(1) + pick(2) + pick(3)

MemWrite(mem_type, n, old, mem_win) ==
    WriteLanes(MemMask(mem_type, n), old, MemDin(mem_type, n, mem_win))
=============================================================================
