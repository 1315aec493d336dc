------------------------------ MODULE CpuProofs ------------------------------
(***************************************************************************)
(* Theorems about the pipeline for every datapath, memory size, memory     *)
(* image and reset timing that RvMachine and Cpu allow.                    *)
(***************************************************************************)
EXTENDS CpuIsa, TLAPS

\* The decoder produces control signals of the declared widths (decoder.v).
LEMMA DecodeType == ASSUME NEW i \in Instr PROVE Decode(i) \in Ctl
<1>1. i.f3 \in Funct3 /\ i.f7 \in {0, 1} BY DEF Instr
<1>2. Decode(i).alu \in Funct3 \X {0, 1}
  BY <1>1 DEF Decode, ADD, SRCB, Funct3
<1>3. Decode(i).mem_type \in Funct3
  BY <1>1 DEF Decode, MEM_CSR, Funct3
<1>4. Decode(i).mem_src \in {"rd1", "rd2", "uimm"}
  BY DEF Decode
<1>5. Decode(i).reg_src \in {"alu", "mem", "pc"}
  BY DEF Decode
<1> QED BY <1>1, <1>2, <1>3, <1>4, <1>5 DEF Decode, Ctl

\* The control signals of a flushed stage are of the same kind.
LEMMA IdleType == Idle \in Ctl
BY DEF Idle, Ctl, ADD, Funct3

\* A write keeps a register file a register file.
LEMMA WriteType ==
    ASSUME NEW rf \in [Reg -> Word], NEW we, NEW r \in Reg, NEW d \in Word
    PROVE  Write(rf, we, r, d) \in [Reg -> Word]
BY DEF Write

\* What the wires carry in a well-typed state (cpu.v, hazard_control.v,
\* mem_control.v).
LEMMA WireTypes ==
    ASSUME TypeOK
    PROVE  /\ AluResult \in Word /\ MemWin \in Word /\ MemData \in Word
           /\ WbData \in Word /\ Instruction \in Word /\ PcNext \in Word
           /\ Id \in Instr /\ Decode(Id) \in Ctl
           /\ \A ra \in Reg : Forward(ra) \in Word
<1> USE DataAssumption
<1>1. Id \in Instr /\ Decode(Id) \in Ctl
  BY FieldsAssumption, DecodeType DEF TypeOK, Id
<1>2. ex.c \in Ctl /\ me.c \in Ctl BY DEF TypeOK
<1>3. AluResult \in Word
  <2>1. ex.c.alu \in Funct3 \X {0, 1} BY <1>2 DEF Ctl
  <2>2. Srca \in Word /\ Srcb \in Word BY DEF TypeOK, Srca, Srcb
  <2> QED BY <2>1, <2>2, AluAssumption DEF AluResult
<1>4. MemWin \in Word
  <2>1. me.c.mem_src \in {"rd1", "rd2", "uimm"} BY <1>2 DEF Ctl
  <2>2. me.rd1 \in Word /\ me.rd2 \in Word /\ me.ra1 \in Word BY DEF TypeOK
  <2> QED BY <2>1, <2>2 DEF MemWin
<1>5. MemData \in Word
  <2>1. me.c.mem_type \in Funct3 BY <1>2 DEF Ctl
  <2>2. me.alu \in Word /\ csr \in Word BY DEF TypeOK
  <2>3. ReadData \in Word
    BY CpuAssumption DEF TypeOK, ReadData, ReadMux
  <2> QED BY <2>1, <2>2, <2>3, LaneAssumption, AddressAssumption DEF MemData
<1>6. WbData \in Word BY DEF TypeOK, WbData
<1>7. Instruction \in Word BY DEF TypeOK, Instruction, FetchMux
<1>8. PcNext \in Word BY <1>3, AddressAssumption DEF TypeOK, PcNext
<1>9. ASSUME NEW ra \in Reg PROVE Forward(ra) \in Word
  <2>1. RdSel(ra) \in {"alu_e", "alu_m", "mem_m", "regfile"}
    BY DEF RdSel, RdSelM
  <2>2. me.alu \in Word /\ regs[ra] \in Word BY DEF TypeOK
  <2> QED BY <1>3, <1>5, <2>1, <2>2 DEF Forward
<1> QED BY <1>1, <1>3, <1>4, <1>5, <1>6, <1>7, <1>8, <1>9

\* A store changes words of a memory to words.
LEMMA StoredType ==
    ASSUME TypeOK, NEW m \in [Slot -> Word]
    PROVE  Stored(m) \in [Slot -> Word]
<1>1. me.c.mem_type \in Funct3 /\ me.alu \in Word BY DEF TypeOK, Ctl
<1>2. MemWin \in Word BY WireTypes
<1>3. Index(me.alu) \in Slot /\ Lane(me.alu) \in 0..3
  BY <1>1, AddressAssumption
<1>4. StoreLane(me.c.mem_type, Lane(me.alu), m[Index(me.alu)], MemWin) \in Word
  BY <1>1, <1>2, <1>3, LaneAssumption
<1> QED BY <1>3, <1>4 DEF Stored

-----------------------------------------------------------------------------
LEMMA TypeInit == Init => TypeOK
<1> SUFFICES ASSUME Init PROVE TypeOK OBVIOUS
<1> USE DataAssumption, CpuAssumption
<1>2. /\ id \in [v : BOOLEAN, ins : Word, pc : Word, pc4 : Word]
      /\ wb \in [reg_we : BOOLEAN, reg_src : {"alu", "mem", "pc"}, pc4 : Word,
                 alu : Word, mem : Word, wa : Reg]
  BY DEF Init, IdBubble, WbBubble
<1>3. ex \in [v : BOOLEAN, c : Ctl, pc : Word, pc4 : Word, imm : Word,
              rd1 : Word, rd2 : Word, ra1 : Reg, wa : Reg]
  BY IdleType DEF Init, ExBubble
<1>4. me \in [v : BOOLEAN, pc : Word, p30 : BOOLEAN, c : Ctl, pc4 : Word,
              alu : Word, rd1 : Word, rd2 : Word, ra1 : Reg, wa : Reg]
  BY IdleType DEF Init, MeBubble
<1> QED BY <1>2, <1>3, <1>4 DEF Init, TypeOK

LEMMA TypePosEdge == TypeOK /\ PosEdge => TypeOK'
<1> SUFFICES ASSUME TypeOK, PosEdge PROVE TypeOK' OBVIOUS
<1> USE DataAssumption, CpuAssumption
<1>1. id' = id /\ ex' = ex /\ me' = me /\ wb' = wb /\ bios' = bios /\ pc_i' = pc_i
  BY DEF PosEdge, pipeVars
<1>2. pc' \in Word BY WireTypes DEF PosEdge, PcReg, TypeOK
<1>3. regs' \in [Reg -> Word]
  <2>1. wb.wa \in Reg BY DEF TypeOK
  <2>2. Write(regs, wb.reg_we, wb.wa, WbData) \in [Reg -> Word]
    BY <2>1, WireTypes, WriteType DEF TypeOK
  <2> QED BY <2>2 DEF PosEdge, RegsNext
<1>4. dmem' \in [Slot -> Word] /\ imem' \in [Slot -> Word]
  BY StoredType DEF PosEdge, TypeOK, DmemNext, ImemNext
<1>5. csr' \in Word BY WireTypes DEF PosEdge, TypeOK, CsrNext
<1>6. me.alu \in Word /\ pc_i \in Word BY DEF TypeOK
<1>7. /\ Index(pc_i) \in Slot /\ BIndex(pc_i) \in BSlot
      /\ Index(me.alu) \in Slot /\ BIndex(me.alu) \in BSlot
  BY <1>6, AddressAssumption
<1>8. /\ dmem_dout' \in Word /\ imem_doutb' \in Word
      /\ bios_douta' \in Word /\ bios_doutb' \in Word
  BY <1>7 DEF PosEdge, BiosReads, TypeOK
<1>9. rst' \in BOOLEAN BY DEF PosEdge, RstNext, TypeOK
<1>10. io_dout' \in IoData /\ clk' \in {0, 1} BY DEF PosEdge
<1> QED BY <1>1, <1>2, <1>3, <1>4, <1>5, <1>8, <1>9, <1>10 DEF TypeOK

LEMMA TypeNegEdge == TypeOK /\ NegEdge => TypeOK'
<1> SUFFICES ASSUME TypeOK, NegEdge PROVE TypeOK' OBVIOUS
<1> USE DataAssumption, CpuAssumption
<1>1. UNCHANGED <<pc, regs, csr, dmem, imem, bios, dmem_dout, imem_doutb,
                  bios_douta, bios_doutb>>
  BY DEF NegEdge, memVars
<1>2. id' \in [v : BOOLEAN, ins : Word, pc : Word, pc4 : Word]
  <2>1. pc_i \in Word /\ Plus4(pc_i) \in Word BY AddressAssumption DEF TypeOK
  <2> QED BY <2>1, WireTypes DEF NegEdge, IdNext, IdBubble, TypeOK
<1>3. ex' \in [v : BOOLEAN, c : Ctl, pc : Word, pc4 : Word, imm : Word,
               rd1 : Word, rd2 : Word, ra1 : Reg, wa : Reg]
  <2>1. ExBubble \in [v : BOOLEAN, c : Ctl, pc : Word, pc4 : Word, imm : Word,
                      rd1 : Word, rd2 : Word, ra1 : Reg, wa : Reg]
    BY IdleType DEF ExBubble
  <2>2. Id.imm \in Word /\ Id.rs1 \in Reg /\ Id.rs2 \in Reg /\ Id.rd \in Reg
    BY WireTypes DEF Instr
  <2>3. Forward(Id.rs1) \in Word /\ Forward(Id.rs2) \in Word
    BY <2>2, WireTypes
  <2>4. id.v \in BOOLEAN /\ id.pc \in Word /\ id.pc4 \in Word BY DEF TypeOK
  <2> QED BY <2>1, <2>2, <2>3, <2>4, WireTypes DEF NegEdge, ExNext, Decoded
<1>4. me' \in [v : BOOLEAN, pc : Word, p30 : BOOLEAN, c : Ctl, pc4 : Word,
               alu : Word, rd1 : Word, rd2 : Word, ra1 : Reg, wa : Reg]
  <2>1. Bit30(ex.pc) \in BOOLEAN BY DEF Bit30
  <2>2. ex \in [v : BOOLEAN, c : Ctl, pc : Word, pc4 : Word, imm : Word,
                rd1 : Word, rd2 : Word, ra1 : Reg, wa : Reg]
    BY DEF TypeOK
  <2> QED BY <2>1, <2>2, IdleType, WireTypes DEF NegEdge, MeNext, MeBubble
<1>5. wb' \in [reg_we : BOOLEAN, reg_src : {"alu", "mem", "pc"}, pc4 : Word,
               alu : Word, mem : Word, wa : Reg]
  <2>1. /\ me.c.reg_we \in BOOLEAN /\ me.c.reg_src \in {"alu", "mem", "pc"}
        /\ me.pc4 \in Word /\ me.alu \in Word /\ me.wa \in Reg
    BY DEF TypeOK, Ctl
  <2> QED BY <2>1, WireTypes DEF NegEdge, WbNext, Accessed, WbBubble
<1>6. pc_i' \in Word /\ rst' \in BOOLEAN /\ clk' \in {0, 1} /\ io_dout' \in IoData
  BY DEF NegEdge, RstNext, TypeOK
<1> QED BY <1>1, <1>2, <1>3, <1>4, <1>5, <1>6 DEF TypeOK

\* Every register and wire of the core keeps to its width, and every memory
\* access to the memory, from reset on (cpu.v, mem_control.v).
THEOREM TypeCorrect == Spec => []TypeOK
<1>1. TypeOK /\ UNCHANGED vars => TypeOK'
  BY DEF TypeOK, vars, fetchVars, pipeVars, memVars
<1>2. TypeOK /\ [Next]_vars => TypeOK'
  BY <1>1, TypePosEdge, TypeNegEdge DEF Next
<1> QED BY TypeInit, <1>2, PTL DEF Spec

-----------------------------------------------------------------------------
\* The inductive invariant.  A link result belongs to a jump and a bubble in
\* decode is a NOP: what the hardware relies on in place of valid bits.
IInv ==
    /\ TypeOK
    /\ ex.c.reg_src = "pc" => ex.c.jump
    /\ ~id.v => id.ins = NOP
    /\ JumpShadow
    /\ BubblesInert

LEMMA NopInert ==
    /\ ~Decode(Fields(NOP)).mem_we /\ ~Decode(Fields(NOP)).jump
    /\ ~Decode(Fields(NOP)).branch /\ Fields(NOP).rd = 0
BY NopAssumption DEF Decode

LEMMA InvInit == Init => IInv
<1> SUFFICES ASSUME Init PROVE IInv OBVIOUS
<1>1. TypeOK BY TypeInit
<1>2. id = IdBubble /\ ex = ExBubble /\ me = MeBubble BY DEF Init
<1> QED BY <1>1, <1>2 DEF IInv, IdBubble, ExBubble, MeBubble, Idle,
           JumpShadow, BubblesInert, PcSel

LEMMA InvPosEdge == IInv /\ PosEdge => IInv'
<1> SUFFICES ASSUME IInv, PosEdge PROVE IInv' OBVIOUS
<1>1. TypeOK' BY TypePosEdge DEF IInv
<1>2. id' = id /\ ex' = ex /\ me' = me BY DEF PosEdge, pipeVars
<1> QED BY <1>1, <1>2 DEF IInv, JumpShadow, BubblesInert, PcSel

LEMMA InvNegEdge == IInv /\ NegEdge => IInv'
<1> SUFFICES ASSUME IInv, NegEdge PROVE IInv' OBVIOUS
<1>1. TypeOK' BY TypeNegEdge DEF IInv
<1>2. ~id'.v => id'.ins = NOP
  BY DEF IInv, NegEdge, IdNext, IdBubble
<1>3. \/ ex' = ExBubble
      \/ /\ ~rst /\ ~PcSel /\ ~Keep
         /\ ex'.v = id.v /\ ex'.c = Decode(Id) /\ ex'.wa = Id.rd
  BY DEF NegEdge, ExNext, Decoded
<1>4. ex'.c.reg_src = "pc" => ex'.c.jump
  <2>1. CASE ex' = ExBubble BY <2>1 DEF ExBubble, Idle
  <2>2. CASE ex'.c = Decode(Id)
    <3>1. Decode(Id).reg_src = "pc" => Decode(Id).jump BY DEF Decode
    <3> QED BY <2>2, <3>1
  <2> QED BY <1>3, <2>1, <2>2
<1>5. ~ex'.v => /\ ~ex'.c.mem_we /\ ~ex'.c.jump /\ ~ex'.c.branch
                /\ ex'.c.reg_we => ex'.wa = 0
  <2>1. CASE ex' = ExBubble BY <2>1 DEF ExBubble, Idle
  <2>2. CASE ex'.v = id.v /\ ex'.c = Decode(Id) /\ ex'.wa = Id.rd
    <3>1. ~id.v => Id = Fields(NOP) BY DEF IInv, Id
    <3> QED BY <2>2, <3>1, NopInert
  <2> QED BY <1>3, <2>1, <2>2
<1>6. \/ me' = MeBubble
      \/ me'.v = ex.v /\ me'.c = ex.c /\ me'.wa = ex.wa
  <2>1. CASE rst BY <2>1 DEF NegEdge, MeNext
  <2>2. CASE ~rst BY <2>2 DEF NegEdge, MeNext
  <2> QED BY <2>1, <2>2
<1>7. ~me'.v => ~me'.c.mem_we /\ (me'.c.reg_we => me'.wa = 0)
  BY <1>6 DEF IInv, BubblesInert, MeBubble, Idle
<1>8. me'.c.reg_src = "pc" => ~ex'.v /\ ~id'.v
  <2>1. CASE me' = MeBubble BY <2>1 DEF MeBubble, Idle
  <2>2. CASE me'.c = ex.c
    <3>1. me'.c.reg_src = "pc" => PcSel BY <2>2 DEF IInv, PcSel
    <3>2. PcSel => ex' = ExBubble /\ id' = IdBubble
      BY DEF NegEdge, ExNext, Decoded, IdNext
    <3> QED BY <3>1, <3>2 DEF ExBubble, IdBubble
  <2> QED BY <1>6, <2>1, <2>2
<1> QED BY <1>1, <1>2, <1>4, <1>5, <1>7, <1>8
        DEF IInv, JumpShadow, BubblesInert, PcSel

LEMMA InvStep == IInv /\ [Next]_vars => IInv'
<1>1. IInv /\ UNCHANGED vars => IInv'
  BY DEF IInv, TypeOK, JumpShadow, BubblesInert, PcSel, vars, fetchVars,
         pipeVars, memVars
<1> QED BY <1>1, InvPosEdge, InvNegEdge DEF Next

THEOREM Invariance == Spec => []IInv
BY InvInit, InvStep, PTL DEF Spec

\* A link value is never needed from the memory stage, for which
\* hazard_control.v has no forwarding source: its jump has emptied decode and
\* execute behind it.
THEOREM JumpShadowCorrect == Spec => []JumpShadow
<1>1. IInv => JumpShadow BY DEF IInv
<1> QED BY <1>1, Invariance, PTL

\* Stages without an instruction write no register, memory or CSR and do not
\* redirect pc (pipeline1.v, pipeline2.v: flushes).
THEOREM BubblesInertCorrect == Spec => []BubblesInert
<1>1. IInv => BubblesInert BY DEF IInv
<1> QED BY <1>1, Invariance, PTL

-----------------------------------------------------------------------------
\* One operand.  Either execute writes ra, or the memory stage does, or the
\* register file is up to date: write-back has written it on this clock's
\* rising edge.
LEMMA OperandNewest ==
    ASSUME IInv, Reading, NEW ra \in {Id.rs1, Id.rs2}, ~Masked(ra)
    PROVE  Newest(ra)
<1>1. ra \in Reg /\ me.wa \in Reg /\ regs \in [Reg -> Word]
  BY WireTypes DEF IInv, TypeOK, Instr
<1>2. ex.c.reg_src \in {"alu", "mem", "pc"}
      /\ me.c.reg_src \in {"alu", "mem", "pc"}
  BY DEF IInv, TypeOK, Ctl
<1>3. me.c.reg_src # "pc" BY DEF IInv, JumpShadow, Reading
<1>4. ArchRegs = Write(regs, me.c.reg_we, me.wa, MeResult)
  BY DEF Reading, ArchRegs
<1>5. CASE ex.c.reg_we /\ ex.wa = ra /\ ra # 0
  <2>1. ex.c.reg_src # "mem" BY <1>5 DEF Reading, Keep
  <2>2. ex.c.reg_src # "pc" BY DEF IInv, Reading, PcSel
  <2>3. RdSel(ra) = "alu_e" BY <1>5 DEF RdSel
  <2>4. Forward(ra) = AluResult BY <2>3 DEF Forward
  <2> QED BY <1>2, <1>5, <2>1, <2>2, <2>4 DEF Newest
<1>6. CASE ~(ex.c.reg_we /\ ex.wa = ra /\ ra # 0)
  <2>1. CASE me.c.reg_we /\ me.wa = ra /\ ra # 0
    <3>1. ex.wa # ra BY <1>6, <2>1 DEF Masked
    <3>2. RdSel(ra) = RdSelM BY <2>1, <3>1 DEF RdSel
    <3>3. Forward(ra) = MeResult
      BY <1>2, <1>3, <3>2 DEF Forward, RdSelM, MeResult
    <3>4. ArchRegs[ra] = MeResult BY <1>1, <1>4, <2>1 DEF Write
    <3> QED BY <1>6, <3>3, <3>4 DEF Newest
  <2>2. CASE ~(me.c.reg_we /\ me.wa = ra /\ ra # 0)
    <3>1. RdSel(ra) = "regfile" BY <1>6, <2>2 DEF RdSel
    <3>2. Forward(ra) = regs[ra] BY <3>1 DEF Forward
    <3>3. ArchRegs[ra] = regs[ra] BY <1>1, <1>4, <2>2 DEF Write
    <3> QED BY <1>6, <3>2, <3>3 DEF Newest
  <2> QED BY <2>1, <2>2
<1> QED BY <1>5, <1>6

\* Forwarding and the load-use stall give every instruction the newest values
\* of its operands, but for stores and branches whose immediate spells a
\* register (hazard_control.v).
THEOREM ForwardingTheorem == Spec => []ForwardingUnlessMasked
<1>1. IInv => ForwardingUnlessMasked
  BY OperandNewest DEF ForwardingUnlessMasked
<1> QED BY <1>1, Invariance, PTL

-----------------------------------------------------------------------------
(***************************************************************************)
(* The pipeline implements the instruction set, with reset changing on the *)
(* falling edge and the two conditions NoneMasked and Supported of CpuIsa. *)
(***************************************************************************)

\* The inductive invariant.

\* The instruction at p as the memories stand.
WordAt(p) == FetchMux(p, imem[Index(p)], bios[BIndex(p)])
InsAt(p)  == Fields(WordAt(p))

\* The oldest instruction behind the memory stage, and where the instruction
\* in the memory stage says that it is.
Behind == IF ex.v THEN ex.pc ELSE IF id.v THEN id.pc ELSE pc_i
After  == IF me.c.jump \/ (me.c.branch /\ Taken(me.c.btype, me.rd1, me.rd2))
          THEN me.alu ELSE Plus4(me.pc)

\* The stages hold consecutive instructions, which a jump or a branch breaks
\* only behind the memory stage.
Chained ==
    /\ ex.v => id.v /\ id.pc = Plus4(ex.pc)
    /\ id.v => pc_i = Plus4(id.pc)
    /\ me.v => Behind = After
    /\ id.v => id.pc4 = Plus4(id.pc)
    /\ ex.v => ex.pc4 = Plus4(ex.pc)
    /\ me.v => me.pc4 = Plus4(me.pc) /\ me.p30 = Bit30(me.pc)

\* pc is pc_i on the low level of the clock, and where the next falling edge
\* takes pc_i on the high one. Only a load or a CSR instruction makes decode wait.
PcSettled ==
    /\ ex.c.reg_src = "mem" => ex.v /\ ~ex.c.jump /\ ~ex.c.branch
    /\ clk = 0 => pc = pc_i
    /\ clk = 1 => pc = IF rst THEN RESET_PC ELSE IF Keep THEN pc_i ELSE PcNext

\* What is in flight is what the memories hold: no store changes an instruction
\* that has been fetched.
Current ==
    /\ clk = 1 => Instruction = WordAt(pc_i)
    /\ id.v => id.ins = WordAt(id.pc)
    /\ ex.v => LET i == InsAt(ex.pc)
               IN  ex.c = Decode(i) /\ ex.imm = i.imm /\ ex.ra1 = i.rs1 /\ ex.wa = i.rd

\* An operand in execute is the value its register will have when the
\* memory stage has taken effect.
Operand(ra, val) ==
    IF clk = 0 /\ me.c.reg_we /\ me.wa = ra /\ ra # 0
    THEN me.c.reg_src = "alu" /\ val = me.alu
    ELSE val = ArchRegs[ra]

Operands ==
    /\ regs[0] = 0
    /\ ex.v => /\ Operand(InsAt(ex.pc).rs1, ex.rd1)
               /\ Operand(InsAt(ex.pc).rs2, ex.rd2)

\* The memory stage, before it takes effect, holds the next instruction of the
\* instruction set with its operands.
Matches ==
    clk = 0 /\ me.v =>
        LET i == InsAt(me.pc)
        IN  /\ me.c = Decode(i) /\ me.ra1 = i.rs1 /\ me.wa = i.rd
            /\ me.rd1 = ArchRegs[i.rs1] /\ me.rd2 = ArchRegs[i.rs2]
            /\ me.alu = AluFn(me.c.alu, IF me.c.srca_pc THEN me.pc ELSE me.rd1,
                                        IF me.c.srcb_imm THEN i.imm ELSE me.rd2)

PipeInv == IInv /\ Chained /\ PcSettled /\ Current /\ Operands /\ Matches

-----------------------------------------------------------------------------
\* Every address holds a word, and every word is an instruction.
LEMMA AtType ==
    ASSUME TypeOK, NEW p \in Word
    PROVE  WordAt(p) \in Word /\ InsAt(p) \in Instr
<1>1. Index(p) \in Slot /\ BIndex(p) \in BSlot BY AddressAssumption
<1>2. WordAt(p) \in Word
  BY <1>1, DataAssumption DEF TypeOK, WordAt, FetchMux
<1> QED BY <1>2, FieldsAssumption DEF InsAt

\* What the decoder says of an instruction.
LEMMA Decoding ==
    ASSUME NEW i, NEW c, c = Decode(i)
    PROVE  /\ c.mem_we <=> i.op \in {"STORE", "CSR"}
           /\ c.reg_we <=> i.op \notin {"STORE", "BRANCH"}
           /\ c.jump <=> i.op \in {"JAL", "JALR", "OTHER_JUMP"}
           /\ c.branch <=> i.op = "BRANCH"
           /\ c.srca_pc <=> i.op \in PcOps
           /\ c.srcb_imm <=> i.op \notin {"RTYPE", "CSR", "OTHER_RD2"}
           /\ c.btype = i.f3
<1>1. /\ c.mem_we = (i.op \in {"STORE", "CSR"})
      /\ c.reg_we = (i.op \notin {"STORE", "BRANCH"})
      /\ c.jump = (i.op \in {"JAL", "JALR", "OTHER_JUMP"})
      /\ c.branch = (i.op = "BRANCH")
      /\ c.srca_pc = (i.op \in PcOps)
      /\ c.srcb_imm = (i.op \notin {"RTYPE", "CSR", "OTHER_RD2"})
      /\ c.btype = i.f3
  BY DEF Decode
<1> QED BY <1>1

\* The invariant holds at power up: every stage is a bubble.
LEMMA PipeInit == Init => PipeInv
<1> SUFFICES ASSUME Init PROVE PipeInv OBVIOUS
<1>1. IInv BY InvInit
<1>2. id = IdBubble /\ ex = ExBubble /\ me = MeBubble /\ clk = 0 /\ pc = pc_i
  BY DEF Init
<1>3. regs[0] = 0 BY CpuAssumption DEF Init
<1> QED BY <1>1, <1>2, <1>3 DEF PipeInv, Chained, PcSettled, Current, Operands,
           Matches, IdBubble, ExBubble, MeBubble, Idle

-----------------------------------------------------------------------------
\* The rising edge.

\* When a store changes imem, it is one of the BIOS, and what is in flight
\* behind it is no instruction of imem (mem_control.v: pc_m_30).
LEMMA StoreBehind ==
    ASSUME PipeInv, PosEdge, imem' # imem
    PROVE  /\ ex.v => Top(ex.pc) # 1
           /\ id.v => Top(id.pc) # 1
           /\ Top(pc_i) # 1
<1> DEFINE i == InsAt(me.pc)
<1>1. TypeOK /\ me.pc \in Word BY DEF PipeInv, IInv, TypeOK
<1>2. me.c.mem_we /\ ImemEna(me.alu, me.p30) /\ me.v /\ clk = 0
  BY DEF PipeInv, IInv, BubblesInert, PosEdge, ImemNext, Stored
<1>3. me.c = Decode(i) /\ me.p30 = Bit30(me.pc)
  BY <1>2 DEF PipeInv, Matches, Chained
<1>4. i.op \in {"STORE", "CSR"} BY <1>2, <1>3, Decoding
<1>5. Top(me.pc) = 4
  <2>1. Top(me.pc) # 1
    <3>1. Bit30(me.pc) BY <1>2, <1>3 DEF ImemEna
    <3> QED BY <3>1 DEF Bit30
  <2>2. WordAt(me.pc) # NOP BY <1>4, NopAssumption DEF InsAt
  <2> QED BY <2>1, <2>2 DEF WordAt, FetchMux
<1>6. Behind = Plus4(me.pc)
  <2>1. ~me.c.jump /\ ~me.c.branch BY <1>3, <1>4, Decoding
  <2> QED BY <1>2, <2>1 DEF PipeInv, Chained, After
<1>7. /\ Top(Plus4(me.pc)) # 1
      /\ Top(Plus4(Plus4(me.pc))) # 1
      /\ Top(Plus4(Plus4(Plus4(me.pc)))) # 1
  BY <1>1, <1>5, RegionAssumption
<1> QED BY <1>6, <1>7 DEF PipeInv, Chained, Behind

\* The instructions in flight, and the one just fetched, are what the memories
\* hold after the stores of the edge.
LEMMA Unchanged ==
    ASSUME PipeInv, PosEdge
    PROVE  /\ ex.v => InsAt(ex.pc)' = InsAt(ex.pc)
           /\ id.v => WordAt(id.pc)' = WordAt(id.pc)
           /\ Instruction' = WordAt(pc_i)'
<1>1. ex' = ex /\ id' = id /\ pc_i' = pc_i /\ bios' = bios
  BY DEF PosEdge, pipeVars
<1>2. ex.v => WordAt(ex.pc)' = WordAt(ex.pc)
  BY <1>1, StoreBehind DEF WordAt, FetchMux
<1>3. id.v => WordAt(id.pc)' = WordAt(id.pc)
  BY <1>1, StoreBehind DEF WordAt, FetchMux
<1>4. Instruction' = WordAt(pc_i)'
  BY <1>1, StoreBehind DEF WordAt, FetchMux, Instruction, PosEdge, BiosReads
<1> QED BY <1>2, <1>3, <1>4 DEF InsAt

\* What is written back is what was on its way.
LEMMA WrittenBack ==
    ASSUME PipeInv, PosEdge
    PROVE  /\ regs' = ArchRegs
           /\ regs'[0] = 0
           /\ ArchRegs' = Write(ArchRegs, me.c.reg_we, me.wa, MeResult')
<1>1. TypeOK /\ regs \in [Reg -> Word] /\ wb.wa \in Reg /\ 0 \in Reg /\ regs[0] = 0
  BY DataAssumption DEF PipeInv, IInv, TypeOK, Operands
<1>2. clk = 0 /\ clk' = 1 /\ me' = me BY DEF PosEdge, pipeVars
<1>3. ArchRegs = Write(regs, wb.reg_we, wb.wa, WbData) BY <1>2 DEF ArchRegs
<1>4. Write(regs, wb.reg_we, wb.wa, WbData) \in [Reg -> Word]
  BY <1>1, WireTypes, WriteType
<1>5. Write(regs, wb.reg_we, wb.wa, WbData)[0] = 0 BY <1>1 DEF Write
<1>6. regs' = ArchRegs /\ regs'[0] = 0
  BY <1>1, <1>3, <1>4, <1>5 DEF PosEdge, RegsNext
<1>7. ArchRegs' = Write(regs', me'.c.reg_we, me'.wa, MeResult')
  BY <1>2 DEF ArchRegs
<1> QED BY <1>2, <1>6, <1>7

\* The rising edge keeps the invariant.
LEMMA PipePosEdge ==
    ASSUME PipeInv, PosEdge, RstEdge = "neg"
    PROVE  PipeInv'
<1>1. IInv' BY InvPosEdge DEF PipeInv
<1>2. /\ clk = 0 /\ clk' = 1 /\ id' = id /\ ex' = ex /\ me' = me
      /\ wb' = wb /\ pc_i' = pc_i /\ bios' = bios /\ pc' = PcReg
  BY DEF PosEdge, pipeVars
<1>3. rst' = rst BY DEF PosEdge, RstNext
<1>4. Chained' BY <1>2 DEF PipeInv, Chained, Behind, After
<1>5. PcSettled'
  <2>1. Keep' = Keep /\ PcNext' = PcNext
    BY <1>2 DEF Keep, Id, PcNext, PcSel, AluResult, Srca, Srcb
  <2>2. pc = pc_i BY <1>2 DEF PipeInv, PcSettled
  <2> QED BY <1>2, <1>3, <2>1, <2>2 DEF PipeInv, PcSettled, PcReg
<1>6. Current' BY <1>2, Unchanged DEF PipeInv, Current
<1>7. Operands'
  <2>1. ASSUME NEW ra \in Reg, NEW val, Operand(ra, val)
        PROVE  val = ArchRegs'[ra]
    <3>1. regs' \in [Reg -> Word] /\ me.wa \in Reg
      BY <1>1, <1>2 DEF IInv, TypeOK
    <3>2. CASE me.c.reg_we /\ me.wa = ra /\ ra # 0
      <4>1. me.c.reg_src = "alu" /\ val = me.alu
        BY <1>2, <2>1, <3>2 DEF Operand
      <4>2. MeResult' = val BY <1>2, <4>1 DEF MeResult
      <4> QED BY <3>1, <3>2, <4>2, WrittenBack DEF Write
    <3>3. CASE ~(me.c.reg_we /\ me.wa = ra /\ ra # 0)
      <4>1. val = ArchRegs[ra] BY <2>1, <3>3 DEF Operand
      <4> QED BY <3>1, <3>3, <4>1, WrittenBack DEF Write
    <3> QED BY <3>2, <3>3
  <2>2. ASSUME ex.v
        PROVE  /\ InsAt(ex.pc).rs1 \in Reg /\ InsAt(ex.pc).rs2 \in Reg
               /\ InsAt(ex.pc)' = InsAt(ex.pc)
    <3>1. ex.pc \in Word BY DEF PipeInv, IInv, TypeOK
    <3> QED BY <2>2, <3>1, AtType, Unchanged DEF PipeInv, IInv, Instr
  <2>3. ex.v => /\ ex.rd1 = ArchRegs'[InsAt(ex.pc).rs1]
                /\ ex.rd2 = ArchRegs'[InsAt(ex.pc).rs2]
    BY <2>1, <2>2 DEF PipeInv, Operands
  <2> QED BY <1>2, <2>2, <2>3, WrittenBack DEF Operands, Operand
<1>8. Matches' BY <1>2 DEF Matches
<1> QED BY <1>1, <1>4, <1>5, <1>6, <1>7, <1>8 DEF PipeInv

-----------------------------------------------------------------------------
\* The falling edge.

\* Without a reset the result on its way stays on its way.
LEMMA OnItsWay ==
    ASSUME NegEdge, ~rst
    PROVE  ArchRegs' = ArchRegs
<1>1. clk = 1 /\ clk' = 0 /\ regs' = regs /\ wb' = Accessed
  BY DEF NegEdge, WbNext
<1>2. /\ wb'.reg_we = me.c.reg_we /\ wb'.wa = me.wa /\ wb'.reg_src = me.c.reg_src
      /\ wb'.alu = me.alu /\ wb'.mem = MemData /\ wb'.pc4 = me.pc4
  BY <1>1 DEF Accessed
<1>3. WbData' = MeResult BY <1>2 DEF WbData, MeResult
<1> QED BY <1>1, <1>2, <1>3 DEF ArchRegs

\* So does the falling edge, if no immediate masked a forward.
LEMMA PipeNegEdge ==
    ASSUME PipeInv, NegEdge, NoneMasked, RstEdge = "neg"
    PROVE  PipeInv'
<1>1. IInv' BY InvNegEdge DEF PipeInv
<1>2. /\ clk = 1 /\ clk' = 0 /\ id' = IdNext /\ ex' = ExNext /\ me' = MeNext
      /\ pc_i' = (IF rst THEN RESET_PC ELSE pc)
      /\ pc' = pc /\ regs' = regs /\ imem' = imem /\ bios' = bios
  BY DEF NegEdge, memVars
<1>3. \A p : WordAt(p)' = FetchMux(p, imem[Index(p)], bios[BIndex(p)])
  BY <1>2 DEF WordAt
<1>4. CASE rst
  <2>1. id' = IdBubble /\ ex' = ExBubble /\ me' = MeBubble
    BY <1>2, <1>4 DEF IdNext, ExNext, MeNext
  <2>2. pc' = pc_i' BY <1>2, <1>4 DEF PipeInv, PcSettled
  <2>3. regs'[0] = 0 BY <1>2 DEF PipeInv, Operands
  <2> QED BY <1>1, <1>2, <2>1, <2>2, <2>3 DEF PipeInv, Chained, PcSettled, Current,
             Operands, Matches, IdBubble, ExBubble, MeBubble, Idle
<1>5. CASE ~rst
  <2>1. /\ me'.v = ex.v /\ me'.pc = ex.pc /\ me'.p30 = Bit30(ex.pc) /\ me'.c = ex.c
        /\ me'.pc4 = ex.pc4 /\ me'.alu = AluResult /\ me'.rd1 = ex.rd1
        /\ me'.rd2 = ex.rd2 /\ me'.ra1 = ex.ra1 /\ me'.wa = ex.wa
    BY <1>2, <1>5 DEF MeNext
  <2>2. \/ PcSel /\ ~Keep /\ id' = IdBubble /\ ex' = ExBubble /\ pc_i' = AluResult
        \/ ~PcSel /\ Keep /\ id' = id /\ ex' = ExBubble /\ pc_i' = pc_i
        \/ /\ ~PcSel /\ ~Keep /\ ex' = Decoded /\ pc_i' = Plus4(pc_i)
           /\ id' = [v |-> TRUE, ins |-> Instruction, pc |-> pc_i, pc4 |-> Plus4(pc_i)]
    BY <1>2, <1>5
       DEF PipeInv, PcSettled, PcNext, PcSel, Keep, IdNext, ExNext
  <2>3. After' = (IF PcSel THEN AluResult ELSE Plus4(ex.pc))
    BY <2>1 DEF After, PcSel
  <2>4. Chained'
    <3>1. CASE PcSel
      BY <2>1, <2>2, <2>3, <3>1 DEF PipeInv, Chained, Behind, IdBubble, ExBubble
    <3>2. CASE ~PcSel /\ Keep
      BY <2>1, <2>2, <2>3, <3>2 DEF PipeInv, Chained, Behind, ExBubble
    <3>3. CASE ~PcSel /\ ~Keep
      <4>1. ex'.v = id.v /\ ex'.pc = id.pc /\ ex'.pc4 = id.pc4
        BY <2>2, <3>3 DEF Decoded
      <4>2. id'.v /\ id'.pc = pc_i /\ id'.pc4 = Plus4(pc_i) /\ pc_i' = Plus4(pc_i)
        BY <2>2, <3>3
      <4> QED BY <2>1, <2>3, <3>3, <4>1, <4>2 DEF PipeInv, Chained, Behind
    <3> QED BY <3>1, <3>2, <3>3
  <2>5. PcSettled'
    <3>1. ex'.c.reg_src = "mem" => ex'.v /\ ~ex'.c.jump /\ ~ex'.c.branch
      <4>1. CASE ex' = ExBubble BY <4>1 DEF ExBubble, Idle
      <4>2. CASE ex' = Decoded
        <5>1. ex'.v = id.v /\ ex'.c = Decode(Id) BY <4>2 DEF Decoded
        <5>2. Decode(Id).reg_src = "mem" => Id.op \in {"LOAD", "CSR"} BY DEF Decode
        <5>3. Id.op \in {"LOAD", "CSR"} => id.v
          BY NopAssumption DEF PipeInv, IInv, Id
        <5> QED BY <5>1, <5>2, <5>3, Decoding
      <4> QED BY <2>2, <4>1, <4>2
    <3> QED BY <1>2, <1>5, <3>1 DEF PcSettled
  <2>6. Current'
    <3>1. id'.v => id'.ins = WordAt(id'.pc)
      BY <1>2, <2>2 DEF PipeInv, Current, IdBubble
    <3>2. ex'.v => LET i == InsAt(ex'.pc)
                   IN  ex'.c = Decode(i) /\ ex'.imm = i.imm /\ ex'.ra1 = i.rs1 /\ ex'.wa = i.rd
      <4>1. CASE ex' = ExBubble BY <4>1 DEF ExBubble
      <4>2. CASE ex' = Decoded
        <5>1. /\ ex'.v = id.v /\ ex'.pc = id.pc /\ ex'.c = Decode(Id)
              /\ ex'.imm = Id.imm /\ ex'.ra1 = Id.rs1 /\ ex'.wa = Id.rd
          BY <4>2 DEF Decoded
        <5> QED BY <5>1 DEF PipeInv, Current, Id, InsAt
      <4> QED BY <2>2, <4>1, <4>2
    <3> QED BY <1>2, <3>1, <3>2 DEF Current, WordAt, InsAt
  <2>7. Operands'
    <3>1. regs'[0] = 0 BY <1>2 DEF PipeInv, Operands
    <3>2. ASSUME ex'.v
          PROVE  /\ Operand(InsAt(ex.pc).rs1, ex.rd1)'
                 /\ Operand(InsAt(ex.pc).rs2, ex.rd2)'
      <4>1. ex' = Decoded /\ ~PcSel /\ ~Keep BY <2>2, <3>2 DEF ExBubble
      <4>2. /\ id.v /\ ex'.pc = id.pc
            /\ ex'.rd1 = Forward(Id.rs1) /\ ex'.rd2 = Forward(Id.rs2)
        BY <3>2, <4>1 DEF Decoded
      <4>3. Reading BY <1>2, <1>5, <4>1, <4>2 DEF Reading
      <4>4. ASSUME NEW ra \in {Id.rs1, Id.rs2}
            PROVE  IF ex.c.reg_we /\ ex.wa = ra /\ ra # 0
                   THEN ex.c.reg_src = "alu" /\ Forward(ra) = AluResult
                   ELSE Forward(ra) = ArchRegs'[ra]
        <5>1. Newest(ra) BY <4>3, OperandNewest DEF NoneMasked, PipeInv
        <5> QED BY <1>5, <5>1, OnItsWay DEF Newest
      <4>5. InsAt(ex.pc)' = Id
        BY <1>2, <4>2 DEF PipeInv, Current, Id, InsAt, WordAt
      <4> QED BY <1>2, <2>1, <4>2, <4>4, <4>5 DEF Operand
    <3> QED BY <3>1, <3>2 DEF Operands
  <2>8. Matches'
    <3>1. ASSUME ex.v
          PROVE  LET i == InsAt(ex.pc)
                 IN  /\ ex.c = Decode(i) /\ ex.ra1 = i.rs1 /\ ex.wa = i.rd
                     /\ ex.rd1 = ArchRegs'[i.rs1] /\ ex.rd2 = ArchRegs'[i.rs2]
                     /\ AluResult = AluFn(ex.c.alu, IF ex.c.srca_pc THEN ex.pc ELSE ex.rd1,
                                                    IF ex.c.srcb_imm THEN i.imm ELSE ex.rd2)
      BY <1>2, <1>5, <3>1, OnItsWay
         DEF PipeInv, Current, Operands, Operand, AluResult, Srca, Srcb
    <3>2. InsAt(me.pc)' = InsAt(ex.pc) BY <1>2, <2>1 DEF InsAt, WordAt
    <3> QED BY <2>1, <3>1, <3>2 DEF Matches
  <2> QED BY <1>1, <2>4, <2>5, <2>6, <2>7, <2>8 DEF PipeInv
<1> QED BY <1>4, <1>5

\* So does every step.
LEMMA PipeStep ==
    ASSUME PipeInv, NoneMasked, [Next]_vars, RstEdge = "neg"
    PROVE  PipeInv'
<1>1. ASSUME UNCHANGED vars PROVE PipeInv'
  <2>1. IInv' BY <1>1, InvStep DEF PipeInv
  <2> QED BY <1>1, <2>1, ZenonT(40) DEF vars, fetchVars, pipeVars, memVars, PipeInv, Chained, Behind,
          After, PcSettled, Keep, Id, PcNext, PcSel, AluResult, Srca, Srcb, Current,
          Instruction, WordAt, InsAt, Operands, Operand, Matches, ArchRegs, MeResult,
          MemData, ReadData, WbData
<1> QED BY <1>1, PipePosEdge, PipeNegEdge DEF Next

-----------------------------------------------------------------------------
\* The refinement.

\* The instruction in the memory stage takes effect on the rising edge as the
\* instruction set says.
LEMMA TakesEffect ==
    ASSUME PipeInv, PosEdge, me.v, Supported
    PROVE  ISA!Execute
<1> DEFINE i == InsAt(me.pc)
           a == ArchRegs[i.rs1]
           b == ArchRegs[i.rs2]
<1>1. /\ clk = 0 /\ clk' = 1 /\ id' = id /\ ex' = ex /\ me' = me /\ pc_i' = pc_i
      /\ bios' = bios /\ dmem' = DmemNext /\ imem' = ImemNext /\ csr' = CsrNext
      /\ bios_doutb' = bios[BIndex(me.alu)]
      /\ DmemEn(me.alu) => dmem_dout' = dmem[Index(me.alu)]
      /\ io_dout' \in IoData
  BY DEF PosEdge, pipeVars, BiosReads
<1>2. ArchPc = me.pc /\ ArchPc' = After
  BY <1>1 DEF ArchPc, PipeInv, Chained, Behind
<1>3. ISA!Fetch = WordAt(me.pc) BY <1>2 DEF ISA!Fetch, ISA!FetchMux, WordAt, FetchMux
<1>4. /\ me.c = Decode(i) /\ me.ra1 = i.rs1 /\ me.wa = i.rd /\ me.rd1 = a /\ me.rd2 = b
      /\ me.alu = AluFn(me.c.alu, IF me.c.srca_pc THEN me.pc ELSE a,
                                  IF me.c.srcb_imm THEN i.imm ELSE b)
      /\ me.pc4 = Plus4(me.pc) /\ me.p30 = Bit30(me.pc)
  BY <1>1 DEF PipeInv, Matches, Chained
<1>5. ArchRegs' = Write(ArchRegs, me.c.reg_we, i.rd, MeResult')
  BY <1>4, WrittenBack
<1>6. /\ i.op \in {"CSR"} \cup Unnamed => i.rd = 0
      /\ i.op # "OTHER_JUMP"
      /\ i.op \in {"LOAD", "STORE"} => i.f3 # MEM_CSR
  BY <1>3 DEF Supported, InsAt
<1>7. i \in Instr /\ a \in Word /\ b \in Word
  <2>1. TypeOK /\ me.pc \in Word BY DEF PipeInv, IInv, TypeOK
  <2>2. i \in Instr BY <2>1, AtType
  <2>3. ArchRegs \in [Reg -> Word]
    BY <1>1, <2>1, WireTypes, WriteType, SMTT(40) DEF ArchRegs, TypeOK
  <2> QED BY <2>2, <2>3 DEF Instr
<1>8. /\ me.c.alu = (CASE i.op = "RTYPE" -> <<i.f3, i.f7>>
                       [] i.op = "ITYPE" -> <<i.f3, IF i.f3 = 5 THEN i.f7 ELSE 0>>
                       [] i.op = "LUI"   -> SRCB
                       [] OTHER          -> ADD)
      /\ me.c.mem_src = (IF i.op = "STORE" THEN "rd2"
                         ELSE IF i.f3 >= 4 THEN "uimm" ELSE "rd1")
      /\ me.c.mem_type = (IF i.op = "CSR" THEN MEM_CSR ELSE i.f3)
      /\ me.c.reg_src = (CASE i.op \in {"LOAD", "CSR"} -> "mem"
                           [] i.op \in {"JAL", "JALR"} -> "pc"
                           [] OTHER                    -> "alu")
  BY <1>4 DEF Decode
<1>9. i.op \notin {"STORE", "CSR"} => UNCHANGED <<dmem, imem, csr>>
  <2>1. i.op \notin {"STORE", "CSR"} => ~me.c.mem_we BY <1>4, Decoding
  <2> QED BY <1>1, <2>1 DEF DmemNext, ImemNext, CsrNext, Stored
<1>10. ~me.c.jump /\ ~me.c.branch => ArchPc' = Plus4(me.pc)
  BY <1>2 DEF After
<1>11. me.c.reg_src = "alu" => MeResult' = me.alu
  BY <1>1 DEF MeResult
<1>12. ASSUME i.op \notin {"STORE", "BRANCH"}
       PROVE  ISA!Result(i, MeResult', ArchPc') <=> UNCHANGED <<dmem, imem, csr>>
  <2>1. me.c.reg_we BY <1>4, <1>12, Decoding
  <2>2. ArchRegs' = ISA!Write(ArchRegs, TRUE, i.rd, MeResult')
    BY <1>5, <2>1 DEF Write, ISA!Write
  <2> QED BY <2>2 DEF ISA!Result
<1>13. CASE i.op \in {"RTYPE", "ITYPE", "LUI", "AUIPC"}
  <2>1. MeResult' = me.alu BY <1>8, <1>11, <1>13
  <2>2. ArchPc' = Plus4(ArchPc) /\ UNCHANGED <<dmem, imem, csr>>
    BY <1>2, <1>4, <1>9, <1>10, <1>13, Decoding
  <2>3. ISA!Result(i, me.alu, Plus4(ArchPc))
    BY <1>12, <1>13, <2>1, <2>2
  <2>4. CASE i.op = "RTYPE"
    <3>1. me.alu = AluFn(<<i.f3, i.f7>>, a, b)
      BY <1>4, <1>8, <2>4, Decoding DEF PcOps
    <3>2. ISA!RegReg(i, a, b) BY <2>3, <2>4, <3>1 DEF ISA!RegReg
    <3> QED BY <1>3, <3>2 DEF ISA!Execute, InsAt
  <2>5. CASE i.op = "ITYPE"
    <3>1. me.alu = AluFn(<<i.f3, IF i.f3 = 5 THEN i.f7 ELSE 0>>, a, i.imm)
      BY <1>4, <1>8, <2>5, Decoding DEF PcOps
    <3>2. ISA!RegImm(i, a) BY <2>3, <2>5, <3>1 DEF ISA!RegImm
    <3> QED BY <1>3, <3>2 DEF ISA!Execute, InsAt
  <2>6. CASE i.op = "LUI"
    <3>1. me.alu = i.imm
      <4>1. me.alu = AluFn(SRCB, me.pc, i.imm)
        BY <1>4, <1>8, <2>6, Decoding DEF PcOps
      <4> QED BY <1>7, <4>1, AluAssumption DEF PipeInv, IInv, TypeOK, Instr
    <3>2. ISA!Lui(i) BY <2>3, <2>6, <3>1 DEF ISA!Lui
    <3> QED BY <1>3, <3>2 DEF ISA!Execute, InsAt
  <2>7. CASE i.op = "AUIPC"
    <3>1. me.alu = AluFn(ISA!ADD, ArchPc, i.imm)
      BY <1>2, <1>4, <1>8, <2>7, Decoding DEF PcOps, ADD, ISA!ADD
    <3>2. ISA!Auipc(i) BY <2>3, <2>7, <3>1 DEF ISA!Auipc
    <3> QED BY <1>3, <3>2 DEF ISA!Execute, InsAt
  <2> QED BY <1>13, <2>4, <2>5, <2>6, <2>7
<1>14. CASE i.op \in {"JAL", "JALR"}
  <2>1. MeResult' = Plus4(ArchPc)
    BY <1>1, <1>2, <1>4, <1>8, <1>14 DEF MeResult
  <2>2. ArchPc' = me.alu /\ UNCHANGED <<dmem, imem, csr>>
    BY <1>2, <1>4, <1>9, <1>14, Decoding DEF After
  <2>3. ISA!Result(i, Plus4(ArchPc), me.alu)
    BY <1>12, <1>14, <2>1, <2>2
  <2>4. CASE i.op = "JAL"
    <3>1. me.alu = AluFn(ISA!ADD, ArchPc, i.imm)
      BY <1>2, <1>4, <1>8, <2>4, Decoding DEF PcOps, ADD, ISA!ADD
    <3>2. ISA!Jal(i) BY <2>3, <2>4, <3>1 DEF ISA!Jal
    <3> QED BY <1>3, <3>2 DEF ISA!Execute, InsAt
  <2>5. CASE i.op = "JALR"
    <3>1. me.alu = AluFn(ISA!ADD, a, i.imm)
      BY <1>4, <1>8, <2>5, Decoding DEF PcOps, ADD, ISA!ADD
    <3>2. ISA!Jalr(i, a) BY <2>3, <2>5, <3>1 DEF ISA!Jalr
    <3> QED BY <1>3, <3>2 DEF ISA!Execute, InsAt
  <2> QED BY <1>14, <2>4, <2>5
<1>15. CASE i.op = "BRANCH"
  <2>1. me.alu = AluFn(ISA!ADD, ArchPc, i.imm)
    BY <1>2, <1>4, <1>8, <1>15, Decoding DEF PcOps, ADD, ISA!ADD
  <2>2. ArchPc' = IF Taken(i.f3, a, b) THEN AluFn(ISA!ADD, ArchPc, i.imm) ELSE Plus4(ArchPc)
    BY <1>2, <1>4, <1>15, <2>1, Decoding DEF After
  <2>3. ArchRegs' = ArchRegs BY <1>4, <1>5, <1>15, Decoding DEF Write
  <2>4. ISA!Branch(i, a, b) BY <1>9, <1>15, <2>2, <2>3 DEF ISA!Branch
  <2> QED BY <1>3, <2>4 DEF ISA!Execute, InsAt
<1>16. CASE i.op = "LOAD"
  <2> DEFINE addr == AluFn(ISA!ADD, a, i.imm)
             got  == LoadLane(i.f3, Lane(addr),
                              ISA!ReadMux(addr, dmem[Index(addr)], bios[BIndex(addr)], io_dout'))
  <2>1. me.alu = addr
    BY <1>4, <1>8, <1>16, Decoding DEF PcOps, ADD, ISA!ADD
  <2>2. MeResult' = got
    <3>1. ReadData' = ISA!ReadMux(addr, dmem[Index(addr)], bios[BIndex(addr)], io_dout')
      BY <1>1, <2>1 DEF ReadData, ReadMux, ISA!ReadMux, DmemEn
    <3>2. MemData' = got
      BY <1>1, <1>6, <1>8, <1>16, <2>1, <3>1 DEF MemData
    <3> QED BY <1>1, <1>8, <1>16, <3>2 DEF MeResult
  <2>3. ArchPc' = Plus4(ArchPc) /\ UNCHANGED <<dmem, imem, csr>>
    BY <1>2, <1>4, <1>9, <1>10, <1>16, Decoding
  <2>4. ISA!Result(i, got, Plus4(ArchPc)) BY <1>12, <1>16, <2>2, <2>3
  <2>5. ISA!Load(i, a) BY <1>1, <1>16, <2>4 DEF ISA!Load
  <2> QED BY <1>3, <2>5 DEF ISA!Execute, InsAt
<1>17. CASE i.op = "STORE"
  <2> DEFINE addr == AluFn(ISA!ADD, a, i.imm)
             stored(m) == [m EXCEPT ![Index(addr)] = StoreLane(i.f3, Lane(addr), @, b)]
  <2>1. me.alu = addr
    BY <1>4, <1>8, <1>17, Decoding DEF PcOps, ADD, ISA!ADD
  <2>2. me.c.mem_we /\ ~me.c.reg_we /\ ~me.c.jump /\ ~me.c.branch
    BY <1>4, <1>17, Decoding
  <2>3. MemWin = b /\ me.c.mem_type = i.f3 /\ i.f3 # MEM_CSR
    BY <1>4, <1>6, <1>8, <1>17 DEF MemWin
  <2>4. \A m : Stored(m) = stored(m)
    BY <2>1, <2>2, <2>3 DEF Stored
  <2>5. /\ dmem' = IF ISA!DmemEn(addr) THEN stored(dmem) ELSE dmem
        /\ imem' = IF ISA!ImemEna(addr, ISA!Bit30(ArchPc)) THEN stored(imem) ELSE imem
    BY <1>1, <1>2, <1>4, <2>1, <2>4
       DEF DmemNext, ImemNext, DmemEn, ImemEna, Bit30, ISA!DmemEn, ISA!ImemEna, ISA!Bit30
  <2>6. csr' = csr BY <1>1, <2>3 DEF CsrNext
  <2>7. ArchRegs' = ArchRegs BY <1>5, <2>2 DEF Write
  <2>8. ArchPc' = Plus4(ArchPc) BY <1>2, <1>10, <2>2
  <2>9. ISA!Store(i, a, b) BY <1>17, <2>5, <2>6, <2>7, <2>8 DEF ISA!Store
  <2> QED BY <1>3, <2>9 DEF ISA!Execute, InsAt
<1>18. CASE i.op = "CSR"
  <2>1. me.c.mem_we /\ ~me.c.jump /\ ~me.c.branch /\ me.c.mem_type = MEM_CSR
    BY <1>4, <1>8, <1>18, Decoding
  <2>2. csr' = IF i.f3 >= 4 THEN i.rs1 ELSE a
    BY <1>1, <1>4, <1>8, <1>18, <2>1 DEF CsrNext, MemWin
  <2>3. dmem' = dmem /\ imem' = imem
    BY <1>1, <2>1 DEF DmemNext, ImemNext, Stored
  <2>4. ArchRegs' = ISA!Write(ArchRegs, TRUE, i.rd, csr)
    BY <1>5, <1>6, <1>18 DEF Write, ISA!Write
  <2>5. ISA!Csr(i, a)
    BY <1>2, <1>10, <1>18, <2>1, <2>2, <2>3, <2>4 DEF ISA!Csr
  <2> QED BY <1>3, <2>5 DEF ISA!Execute, InsAt
<1>19. CASE i.op \in Unnamed
  <2>0. i.op \in {"OTHER", "OTHER_RD2"} BY <1>6, <1>19 DEF Unnamed
  <2>1. ~me.c.jump /\ ~me.c.branch BY <1>4, <2>0, Decoding
  <2>2. ArchRegs' = ArchRegs BY <1>5, <1>6, <1>19 DEF Write
  <2>3. ISA!Other(i) BY <1>2, <1>9, <1>10, <1>19, <2>0, <2>1, <2>2 DEF ISA!Other, ISA!Unnamed, Unnamed
  <2> QED BY <1>3, <2>3 DEF ISA!Execute, InsAt
<1>20. i.op \in Opcode BY <1>7 DEF Instr
<1> QED BY <1>13, <1>14, <1>15, <1>16, <1>17, <1>18, <1>19, <1>20 DEF Opcode

\* A rising edge without an instruction in the memory stage does not show.
LEMMA NothingTakesEffect ==
    ASSUME PipeInv, PosEdge, ~me.v
    PROVE  UNCHANGED <<ArchPc, ArchRegs, dmem, imem, csr, bios>>
<1>1. /\ clk = 0 /\ clk' = 1 /\ id' = id /\ ex' = ex /\ pc_i' = pc_i /\ bios' = bios
      /\ dmem' = DmemNext /\ imem' = ImemNext /\ csr' = CsrNext
  BY DEF PosEdge, pipeVars
<1>2. ~me.c.mem_we /\ (me.c.reg_we => me.wa = 0)
  BY DEF PipeInv, IInv, BubblesInert
<1>3. dmem' = dmem /\ imem' = imem /\ csr' = csr
  BY <1>1, <1>2 DEF DmemNext, ImemNext, CsrNext, Stored
<1>4. ArchRegs' = ArchRegs BY <1>2, WrittenBack DEF Write
<1>5. ArchPc' = ArchPc BY <1>1 DEF ArchPc
<1> QED BY <1>1, <1>3, <1>4, <1>5

\* Nor does a falling edge without a reset; with one, the result on its way may
\* be lost and execution starts again.
LEMMA Falls ==
    ASSUME PipeInv, NegEdge
    PROVE  /\ UNCHANGED <<dmem, imem, csr, bios>>
           /\ ~rst => UNCHANGED <<ArchPc, ArchRegs>>
           /\ rst => ISA!Reset
<1>1. /\ clk = 1 /\ clk' = 0 /\ id' = IdNext /\ ex' = ExNext /\ me' = MeNext /\ wb' = WbNext
      /\ pc_i' = (IF rst THEN RESET_PC ELSE pc) /\ regs' = regs
      /\ dmem' = dmem /\ imem' = imem /\ csr' = csr /\ bios' = bios
  BY DEF NegEdge, memVars
<1>2. ASSUME ~rst PROVE ArchPc' = ArchPc
  <2>1. me'.v = ex.v /\ me'.pc = ex.pc BY <1>1, <1>2 DEF MeNext
  <2>2. CASE ex.v BY <1>1, <2>1, <2>2 DEF ArchPc
  <2>3. CASE ~ex.v
    <3>1. ~PcSel /\ ~Keep
      BY <2>3 DEF PipeInv, IInv, BubblesInert, PcSettled, Keep
    <3>2. ex' = Decoded /\ id'.v /\ id'.pc = pc_i
      BY <1>1, <1>2, <3>1 DEF ExNext, IdNext
    <3> QED BY <1>1, <2>1, <2>3, <3>2 DEF ArchPc, Decoded
  <2> QED BY <2>2, <2>3
<1>3. ASSUME rst PROVE ISA!Reset
  <2>1. id' = IdBubble /\ ex' = ExBubble /\ me' = MeBubble /\ wb' = WbBubble
    BY <1>1, <1>3 DEF IdNext, ExNext, MeNext, WbNext
  <2>2. ArchPc' = RESET_PC
    BY <1>1, <1>3, <2>1 DEF ArchPc, IdBubble, ExBubble, MeBubble
  <2>3. ArchRegs' = regs BY <1>1, <2>1 DEF ArchRegs, WbBubble, Write
  <2>4. ArchRegs = Write(regs, me.c.reg_we, me.wa, MeResult) BY <1>1 DEF ArchRegs
  <2>5. me.wa \in Reg /\ regs \in [Reg -> Word] BY DEF PipeInv, IInv, TypeOK
  <2>6. \A q \in Reg \ {me.wa} : ArchRegs'[q] = ArchRegs[q]
    BY <2>3, <2>4, <2>5 DEF Write
  <2> QED BY <1>1, <1>3, <2>2, <2>5, <2>6 DEF ISA!Reset
<1> QED BY <1>1, <1>2, <1>3, OnItsWay

\* Every clock edge is a step of the instruction set or does not show.
LEMMA IsaStep ==
    ASSUME PipeInv, Supported, [Next]_vars, RstEdge = "neg"
    PROVE  [ISA!Next]_(ISA!isaVars)
<1>1. CASE PosEdge
  <2>1. rst' = rst /\ rst \in BOOLEAN /\ bios' = bios
    BY <1>1 DEF PosEdge, RstNext, PipeInv, IInv, TypeOK
  <2>2. CASE me.v
    BY <1>1, <2>1, <2>2, TakesEffect DEF ISA!Next
  <2>3. CASE ~me.v
    BY <1>1, <2>1, <2>3, NothingTakesEffect DEF ISA!isaVars
  <2> QED BY <2>2, <2>3
<1>2. CASE NegEdge
  <2>1. rst' \in BOOLEAN BY <1>2 DEF NegEdge, RstNext, PipeInv, IInv, TypeOK
  <2> QED BY <1>2, <2>1, Falls DEF ISA!Next, ISA!isaVars
<1>3. CASE UNCHANGED vars
  BY <1>3 DEF vars, fetchVars, pipeVars, memVars, ISA!isaVars, ArchPc, ArchRegs,
         MeResult, MemData, ReadData, WbData
<1> QED BY <1>1, <1>2, <1>3 DEF Next

\* The pipeline implements the instruction set (cpu.v and all it instantiates)
\* when reset changes on the falling edge, no store or branch masks a forward
\* and the program keeps to instructions the decoder tells apart.
THEOREM PipelineImplementsIsa ==
    ASSUME RstEdge = "neg"
    PROVE  Spec /\ []NoneMasked /\ []Supported => IsaSpec
<1>1. Init => ISA!Init
  BY DEF Init, ISA!Init, ArchPc, IdBubble, ExBubble, MeBubble
<1>2. PipeInv /\ NoneMasked /\ [Next]_vars => PipeInv' BY PipeStep
<1>3. PipeInv /\ Supported /\ [Next]_vars => [ISA!Next]_(ISA!isaVars) BY IsaStep
<1> QED BY PipeInit, <1>1, <1>2, <1>3, PTL DEF Spec, IsaSpec, ISA!Spec
=============================================================================
