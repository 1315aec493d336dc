-------------------------------- MODULE MCCpu --------------------------------
(***************************************************************************)
(* The pipeline on the scaled machine.  A BIOS image is a few free slots,  *)
(* each holding any instruction of a set, and then "done: j done" as in    *)
(* asm/start.s, so that every behaviour visits finitely many states.       *)
(***************************************************************************)
EXTENDS CpuIsa, RvScaled, TLC

Add(rd, rs1, rs2)     == R(0, 0, rd, rs1, rs2)
Addi(rd, rs1, imm)    == I("ITYPE", 0, rd, rs1, imm, imm % 4)
Load(f3, rd, rs1, imm) == I("LOAD", f3, rd, rs1, imm, imm % 4)
Store(f3, rs1, rs2, imm) == S(f3, rs1, rs2, imm, imm % 4)
Done == U("JAL", 0, 0, 0)

Code == <<
  (*  1 nop          *) Addi(0, 0, 0),
  (*  2 done: j done *) Done,
  (*  3 addi x1,x1,4 *) Addi(1, 1, 4),
  (*  4 jalr x1,0(x1)*) I("JALR", 0, 1, 1, 0, 0),
  (*  5 add x1,x1,x2 *) Add(1, 1, 2),
  (*  6 sub x3,x2,x1 *) R(0, 1, 3, 2, 1),
  (*  7 lw x1,0(x1)  *) Load(2, 1, 1, 0),
  (*  8 lw x2,0(x1)  *) Load(2, 2, 1, 0),
  (*  9 sw x2,0(x1)  *) Store(2, 1, 2, 0),
  (* 10 lb x2,1(x1)  *) Load(0, 2, 1, 1),
  (* 11 sb x2,0(x1)  *) Store(0, 1, 2, 0),
  (* 12 beq x1,x2,+8 *) B(0, 1, 2, 8, 0),
  (* 13 bne x2,x0,+8 *) B(1, 2, 0, 8, 0),
  (* 14 jal x1,+8    *) U("JAL", 1, 8, 0),
  (* 15 jalr x2,0(x1)*) I("JALR", 0, 2, 1, 0, 0),
  (* 16 lui x2,40    *) U("LUI", 2, 40, 1),
  (* 17 auipc x1,8   *) U("AUIPC", 1, 8, 1),
  (* 18 csrw x1      *) C(1, 0, 1),
  (* 19 csrwi 3      *) C(5, 0, 3),
  (* 20 fence        *) I("OTHER", 0, 0, 0, 0, 0),
  (* 21 slt x2,x1,x2 *) R(2, 0, 2, 1, 2),
  (* 22 sb x2,1(x1)  *) Store(0, 1, 2, 1),
  (* 23 csrrw x2,x1  *) C(1, 2, 1),
  (* 24 lhu x2,2(x1) *) Load(5, 2, 1, 2),
  (* 25 lw x1,0(x3)  *) Load(2, 1, 3, 0),
  (* 26 jalr x0,0(x3)*) I("JALR", 0, 0, 3, 0, 0),
  (* 27 sw x2,4(x1)  *) Store(2, 1, 2, 4),
  (* 28 addi x2,x0,1 *) Addi(2, 0, 1) >>

SFields(w) == IF w \in 1..Len(Code) THEN Code[w] ELSE Erased

\* Images with three or four free slots filled from a set of words.
Images3(W) == {<<a, b, c, 2, 2, 2, 2, 2>> : a \in W, b \in W, c \in W}
Images4(W) == {<<a, b, c, d, 2, 2, 2, 2>> :
                  a \in W, b \in W, c \in W, d \in W}

RegFile(a, b, c) == <<a, b, c>> @@ (0 :> 0)

-----------------------------------------------------------------------------
Board(images, rf, data, code) ==
    {[regs |-> rf, dmem |-> data, imem |-> code, bios |-> p] : p \in images}

NoData == <<0, 0, 0, 0, 0, 0, 0, 0>>

\* Register hazards: x1 points into dmem, whose words point into dmem.
HazardBoard(images) ==
    Board(images, RegFile(36, 5, 44), <<40, 53, 32, 45, 56, 37, 48, 61>>, NoData)

\* Control transfer: forward branches, calls and returns through a loaded,
\* a linked or a computed address; x3 points to a return address.
ControlBoard(images) ==
    Board(images, RegFile(148, 0, 44),
          <<140, 140, 140, 140, 140, 140, 140, 140>>, NoData)

\* Self-programming as bios.c does it: instruction words are stored into
\* imem through the write window (x1) and run from the fetch window (x3), where
\* a store and a load of the same words follow.
BootBoard(images) ==
    Board(images, RegFile(96, 28, 32), NoData, <<1, 9, 8, 26, 1, 1, 1, 1>>)

\* No store or branch immediate spells a register, no csrrw has an rd. Three
\* slots take every instruction, four those that can hold up one another.
IsaBoards ==
    HazardBoard(Images3({3, 5, 6, 7, 8, 9, 10, 11, 12, 16, 18, 19, 24})
                \cup Images4({3, 6, 7, 8, 9, 11, 12, 18}))
    \cup ControlBoard(Images3({4, 7, 12, 13, 14, 15, 17, 20, 25, 28})
                      \cup Images4({4, 7, 12, 14, 15, 25}))

\* Loads from the I/O region, of a value that is not known in advance.
IoBoard(images) ==
    Board(images, RegFile(192, 0, 44), NoData, NoData)

\* The last slot, which no program reaches, tells the images that are reset.
EndsInNop(image) == image[8] = 1
WithReset(images) == {[p EXCEPT ![8] = 1] : p \in images}

AllBoards == IsaBoards
             \cup BootBoard(WithReset(Images4({8, 9, 11, 26, 27, 28})))
             \cup IoBoard(WithReset(Images3({8, 9, 10, 13, 21})))

Never(image) == FALSE

\* The two programs of the disagreements the README reports.
MaskBoards  == HazardBoard(Images3({1, 3, 5, 22}))
ResetBoards == HazardBoard(Images3({1, 3, 7}))
=============================================================================
