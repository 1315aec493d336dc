------------------------------- MODULE CpuIsa -------------------------------
(***************************************************************************)
(* The pipeline implements the instruction set.  An instruction takes      *)
(* effect, for the instruction set, on the rising edge on which it is in   *)
(* the memory stage: memories and CSR change then, and its register result *)
(* is known from then on, first in the memory and then in the write-back   *)
(* stage.                                                                  *)
(***************************************************************************)
EXTENDS Cpu

\* The register result of the memory stage, after the rising edge.
MeResult == CASE me.c.reg_src = "alu" -> me.alu
              [] me.c.reg_src = "mem" -> MemData
              [] me.c.reg_src = "pc"  -> me.pc4

\* The register file with the result that is on its way to it.
ArchRegs == IF clk = 1 THEN Write(regs, me.c.reg_we, me.wa, MeResult)
                       ELSE Write(regs, wb.reg_we, wb.wa, WbData)

\* The oldest instruction that has not taken effect.
ArchPc == IF clk = 0 /\ me.v THEN me.pc
          ELSE IF ex.v THEN ex.pc
          ELSE IF id.v THEN id.pc
          ELSE pc_i

ISA == INSTANCE Rv32i WITH aregs <- ArchRegs, apc <- ArchPc

\* Every behaviour of the pipeline is one of the instruction set: forwarding,
\* stalls, flushed wrong-path instructions, the two clock edges, stores into
\* the instruction memory and resets never show.
IsaSpec == ISA!Spec

\* The conditions under which it is, whatever the program: hazard_control
\* misses no operand (see Masked), and the next instruction is one that the
\* decoder tells from the others: a CSR instruction or an unknown one (fence
\* included) has no destination, since csr_reg gives back what was just written and
\* every opcode but STORE and BRANCH writes rd; an unknown one does not jump; no
\* load or store has the width 7, which mem_control takes for the CSR.
Supported ==
    LET i == Fields(ISA!Fetch)
    IN  /\ i.op \in {"CSR"} \cup Unnamed => i.rd = 0
        /\ i.op # "OTHER_JUMP"
        /\ i.op \in {"LOAD", "STORE"} => i.f3 # MEM_CSR

-----------------------------------------------------------------------------
\* The decode stage is about to hand its operands to the execute stage.
Reading == clk = 1 /\ id.v /\ ~rst /\ ~PcSel /\ ~Keep

\* Bits 11:7 of a STORE or a BRANCH in execute spell ra, which the memory
\* stage is about to write: hazard_control stops looking at the first match.
Masked(ra) ==
    /\ ra # 0 /\ ex.wa = ra /\ ~ex.c.reg_we
    /\ me.wa = ra /\ me.c.reg_we

\* Neither operand that decode hands over is masked.
NoneMasked == Reading => \A ra \in {Id.rs1, Id.rs2} : ~Masked(ra)

\* The operand is the newest value of its register: the result of the
\* instruction in execute if that one writes ra, and then it is known already,
\* otherwise what the instructions ahead of it leave in ra.
Newest(ra) ==
    IF ex.c.reg_we /\ ex.wa = ra /\ ra # 0
    THEN ex.c.reg_src = "alu" /\ Forward(ra) = AluResult
    ELSE Forward(ra) = ArchRegs[ra]

\* Both operands of the instruction in decode are the newest values of their
\* registers, whatever is in flight in the execute, memory and write-back
\* stages (hazard_control.v and the multiplexers of cpu.v).
ForwardingCorrect ==
    Reading => \A ra \in {Id.rs1, Id.rs2} : Newest(ra)

\* The same, but for the one case hazard_control.v misses.
ForwardingUnlessMasked ==
    Reading => \A ra \in {Id.rs1, Id.rs2} : Masked(ra) \/ Newest(ra)

\* When a JAL or a JALR reaches the memory stage its link value cannot be
\* forwarded (rd_sel_m has no such source), which is harmless only because
\* no instruction of the program is behind it in execute or decode.
JumpShadow == me.c.reg_src = "pc" => ~ex.v /\ ~id.v

\* A stage without an instruction of the program changes nothing, although
\* the hardware has no valid bit to stop it.
BubblesInert ==
    /\ ~ex.v => ~ex.c.mem_we /\ ~PcSel /\ (ex.c.reg_we => ex.wa = 0)
    /\ ~me.v => ~me.c.mem_we /\ (me.c.reg_we => me.wa = 0)

\* Once reset is released for good, instructions keep taking effect: no
\* sequence of stalls and flushes blocks the pipeline.
Progress == <>[](~rst) => []<>(clk = 0 /\ me.v)

-----------------------------------------------------------------------------
Ctl == [srca_pc : BOOLEAN, srcb_imm : BOOLEAN, alu : Funct3 \X {0, 1},
        jump : BOOLEAN, branch : BOOLEAN, btype : Funct3,
        mem_src : {"rd1", "rd2", "uimm"}, mem_type : Funct3,
        mem_we : BOOLEAN, reg_we : BOOLEAN, reg_src : {"alu", "mem", "pc"},
        iflag : BOOLEAN]

\* Every register, memory and pipeline register holds what its width allows.
TypeOK ==
    /\ clk \in {0, 1} /\ rst \in BOOLEAN
    /\ pc \in Word /\ pc_i \in Word
    /\ id \in [v : BOOLEAN, ins : Word, pc : Word, pc4 : Word]
    /\ ex \in [v : BOOLEAN, c : Ctl, pc : Word, pc4 : Word, imm : Word,
               rd1 : Word, rd2 : Word, ra1 : Reg, wa : Reg]
    /\ me \in [v : BOOLEAN, pc : Word, p30 : BOOLEAN, c : Ctl, pc4 : Word,
               alu : Word, rd1 : Word, rd2 : Word, ra1 : Reg, wa : Reg]
    /\ wb \in [reg_we : BOOLEAN, reg_src : {"alu", "mem", "pc"}, pc4 : Word,
               alu : Word, mem : Word, wa : Reg]
    /\ regs \in [Reg -> Word] /\ csr \in Word
    /\ dmem \in [Slot -> Word] /\ imem \in [Slot -> Word]
    /\ bios \in [BSlot -> Word]
    /\ dmem_dout \in Word /\ imem_doutb \in Word
    /\ bios_douta \in Word /\ bios_doutb \in Word /\ io_dout \in IoData
=============================================================================
