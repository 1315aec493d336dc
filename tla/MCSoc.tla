-------------------------------- MODULE MCSoc --------------------------------
(***************************************************************************)
(* The board on the scaled machine, with x4 as a fifth register and the    *)
(* I/O registers at the offsets of the real ones.                          *)
(***************************************************************************)
EXTENDS Soc, RvScaled, TLC

EReg == 0..4

EIoReg(a) ==
    CASE a % 32 = 0  -> "ctrl"
      [] a % 32 = 4  -> "rx"
      [] a % 32 = 8  -> "tx"
      [] a % 32 = 16 -> "cycles"
      [] a % 32 = 20 -> "instrs"
      [] a % 32 = 24 -> "rst"
      [] OTHER       -> "none"

\* andi with 1 is the one logic operation the programs need.
EAlu(op, a, b) == IF op = <<7, 0>> /\ b = 1 THEN a % 2 ELSE SAlu(op, a, b)

Code == <<
  (*  1 nop           *) I("ITYPE", 0, 0, 0, 0, 0),
  (*  2 lw x2,0(x1)   *) I("LOAD", 2, 2, 1, 0, 0),
  (*  3 bltu x2,x4,-4 *) B(6, 2, 4, 252, 0),
  (*  4 lw x3,4(x1)   *) I("LOAD", 2, 3, 1, 4, 4),
  (*  5 andi x2,x2,1  *) I("ITYPE", 7, 2, 2, 1, 1),
  (*  6 beq x2,x0,-8  *) B(0, 2, 0, 248, 0),
  (*  7 sw x3,8(x1)   *) S(2, 1, 3, 8, 0),
  (*  8 j -28         *) U("JAL", 0, 228, 0),
  (*  9 j .           *) U("JAL", 0, 0, 0),
  (* 10 addi x2,x2,4  *) I("ITYPE", 0, 2, 2, 4, 4) >>

EFields(w) == IF w \in 1..Len(Code) THEN Code[w] ELSE Erased

Program(p) ==
    {[regs |-> (0 :> 0) @@ <<192, 0, 0, 2>>, dmem |-> [s \in SSlot |-> 0],
      imem |-> p, bios |-> [s \in SSlot |-> 0]]}

\* echo.c after its prologue: x1 holds the address of the UART and x4 the
\* number 2, below which the status word says that nothing was received.
EchoProgram == Program(<<2, 3, 4, 2, 5, 6, 7, 8>>)

\* An addition that gives 4 and then 8, 12, 16, 20, 24.
SumProgram  == Program(<<10, 10, 10, 10, 10, 10, 10, 9>>)

Never(image) == FALSE
=============================================================================
