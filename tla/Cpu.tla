--------------------------------- MODULE Cpu ---------------------------------
(***************************************************************************)
(* The five stage pipeline of src/hardware/src/riscv_core.  Memories, the  *)
(* register file, the CSR and pc are clocked on the rising edge; pc_i and  *)
(* the four pipeline registers on the falling edge.  One action per edge.  *)
(* Wires are operators, evaluated in the state before the edge.            *)
(*                                                                         *)
(* Definitions named Bug_... are wrong versions of the definition that     *)
(* follows them; the properties are tested by putting them in its place.   *)
(***************************************************************************)
EXTENDS RvMachine

CONSTANTS
    IoData,             \* what io_dout may carry
    RstEdge,            \* "pos" or "neg": the edge after which rst changes
    MayReset(_),        \* of a BIOS image: may rst rise again after it fell
    Boards              \* power-up contents of registers and memories

VARIABLES
    clk,                \* level of the clock, 0 or 1
    rst,                \* the reset input
    pc,                 \* pc.v
    pc_i,               \* cpu.v, pc of the fetch stage
    id,                 \* pipeline1: the instruction in decode
    ex,                 \* pipeline2: the instruction in execute
    me,                 \* pipeline3: the instruction in memory
    wb,                 \* pipeline4: the instruction in write-back
    regs,               \* reg_file
    csr,                \* csr_reg
    dmem, imem, bios,   \* contents of the memories
    dmem_dout, imem_doutb, bios_douta, bios_doutb,  \* their output registers
    io_dout             \* what io_control drives, an input here

fetchVars == <<pc, pc_i, imem_doutb, bios_douta>>
pipeVars  == <<id, ex, me, wb>>
memVars   == <<dmem, imem, csr, dmem_dout, bios_doutb>>
vars == <<clk, rst, fetchVars, pipeVars, regs, memVars, bios, io_dout>>

ASSUME CpuAssumption ==
    /\ IoData \subseteq Word
    /\ RstEdge \in {"pos", "neg"}
    /\ \A b \in Boards :
          /\ b.regs \in [Reg -> Word] /\ b.regs[0] = 0
          /\ b.dmem \in [Slot -> Word] /\ b.imem \in [Slot -> Word]
          /\ b.bios \in [BSlot -> Word]

-----------------------------------------------------------------------------
\* decoder.v

PcOps   == {"BRANCH", "AUIPC", "LUI", "JAL"}
Decode(i) ==
    [ srca_pc  |-> i.op \in PcOps,
      srcb_imm |-> i.op \notin {"RTYPE", "CSR", "OTHER_RD2"},
      alu      |-> CASE i.op = "RTYPE" -> <<i.f3, i.f7>>
                     [] i.op = "ITYPE" -> <<i.f3, IF i.f3 = 5 THEN i.f7 ELSE 0>>
                     [] i.op = "LUI"   -> SRCB
                     [] OTHER          -> ADD,
      jump     |-> i.op \in {"JAL", "JALR", "OTHER_JUMP"},
      branch   |-> i.op = "BRANCH",
      btype    |-> i.f3,
      mem_src  |-> IF i.op = "STORE" THEN "rd2"
                   ELSE IF i.f3 >= 4 THEN "uimm" ELSE "rd1",
      mem_type |-> IF i.op = "CSR" THEN MEM_CSR ELSE i.f3,
      mem_we   |-> i.op \in {"STORE", "CSR"},
      reg_we   |-> i.op \notin {"STORE", "BRANCH"},
      reg_src  |-> CASE i.op \in {"LOAD", "CSR"} -> "mem"
                     [] i.op \in {"JAL", "JALR"} -> "pc"
                     [] OTHER                    -> "alu",
      iflag    |-> TRUE ]

\* What an all-zero pipeline2 says: add rd1 and rd2, write nothing.
Idle == [ srca_pc |-> FALSE, srcb_imm |-> FALSE, alu |-> ADD, jump |-> FALSE,
          branch |-> FALSE, btype |-> 0, mem_src |-> "rd2", mem_type |-> 0,
          mem_we |-> FALSE, reg_we |-> FALSE, reg_src |-> "alu", iflag |-> FALSE ]

\* Flushed pipeline registers.  "v" says that the stage holds an instruction
\* of the program; the hardware has no such bit, it is history.  So is "pc"
\* in the memory stage, of which the hardware keeps only bit 30.
IdBubble == [v |-> FALSE, ins |-> NOP, pc |-> 0, pc4 |-> 0]
ExBubble == [v |-> FALSE, c |-> Idle, pc |-> 0, pc4 |-> 0, imm |-> 0,
             rd1 |-> 0, rd2 |-> 0, ra1 |-> 0, wa |-> 0]
MeBubble == [v |-> FALSE, pc |-> 0, p30 |-> FALSE, c |-> Idle, pc4 |-> 0,
             alu |-> 0, rd1 |-> 0, rd2 |-> 0, ra1 |-> 0, wa |-> 0]
WbBubble == [reg_we |-> FALSE, reg_src |-> "alu", pc4 |-> 0, alu |-> 0,
             mem |-> 0, wa |-> 0]

-----------------------------------------------------------------------------
\* Wires of the execute stage

Srca      == IF ex.c.srca_pc THEN ex.pc ELSE ex.rd1
Srcb      == IF ex.c.srcb_imm THEN ex.imm ELSE ex.rd2
Bug_AluNoWrap == IF ex.c.alu = ADD THEN Srca + Srcb
                                 ELSE AluFn(ex.c.alu, Srca, Srcb)
AluResult == AluFn(ex.c.alu, Srca, Srcb)
PcSel     == ex.c.jump \/ (ex.c.branch /\ Taken(ex.c.btype, ex.rd1, ex.rd2))

\* Wires of the memory stage

MemWin == CASE me.c.mem_src = "rd2"  -> me.rd2
            [] me.c.mem_src = "rd1"  -> me.rd1
            [] me.c.mem_src = "uimm" -> me.ra1

ReadData == ReadMux(me.alu, dmem_dout, bios_doutb, io_dout)
MemData  == IF me.c.mem_type = MEM_CSR THEN csr
            ELSE LoadLane(me.c.mem_type, Lane(me.alu), ReadData)

\* Word of memory m under the byte lanes a store drives.  The CSR's mask is 0.
Stored(m) ==
    IF me.c.mem_we /\ me.c.mem_type # MEM_CSR
    THEN [m EXCEPT ![Index(me.alu)] =
             StoreLane(me.c.mem_type, Lane(me.alu), @, MemWin)]
    ELSE m

DmemNext == IF DmemEn(me.alu) THEN Stored(dmem) ELSE dmem
ImemNext == IF ImemEna(me.alu, me.p30) THEN Stored(imem) ELSE imem
CsrNext  == IF me.c.mem_type = MEM_CSR /\ me.c.mem_we THEN MemWin ELSE csr

\* Wires of the write-back stage

WbData == CASE wb.reg_src = "alu" -> wb.alu
            [] wb.reg_src = "mem" -> wb.mem
            [] wb.reg_src = "pc"  -> wb.pc4

RegsNext == [Write(regs, wb.reg_we, wb.wa, WbData) EXCEPT ![0] = 0]

-----------------------------------------------------------------------------
\* hazard_control.v and the forwarding multiplexers of the decode stage

Id   == Fields(id.ins)
Bug_KeepRs1 == ex.wa = Id.rs1 /\ ex.c.reg_src = "mem"
Bug_KeepAny == ex.wa \in {Id.rs1, Id.rs2}
Keep == ex.wa \in {Id.rs1, Id.rs2} /\ ex.c.reg_src = "mem"

Bug_RdSelM == "alu_m"
RdSelM == CASE me.c.reg_src = "alu" -> "alu_m"
            [] me.c.reg_src = "mem" -> "mem_m"
            [] OTHER                -> "regfile"

\* rd1_sel and rd2_sel: the youngest stage naming ra decides.
RdSel(ra) ==
    CASE ex.wa # 0 /\ ra = ex.wa -> IF ex.c.reg_we THEN "alu_e" ELSE "regfile"
      [] ~(ex.wa # 0 /\ ra = ex.wa) /\ me.wa # 0 /\ ra = me.wa ->
             IF me.c.reg_we THEN RdSelM ELSE "regfile"
      [] OTHER -> "regfile"

Forward(ra) ==
    CASE RdSel(ra) = "alu_e"   -> AluResult
      [] RdSel(ra) = "alu_m"   -> me.alu
      [] RdSel(ra) = "mem_m"   -> MemData
      [] RdSel(ra) = "regfile" -> regs[ra]

-----------------------------------------------------------------------------
\* Wires of the fetch stage

PcNext      == IF PcSel THEN AluResult ELSE Plus4(pc_i)
PcReg       == IF rst THEN RESET_PC ELSE IF Keep THEN pc ELSE PcNext
Instruction == FetchMux(pc_i, imem_doutb, bios_douta)

-----------------------------------------------------------------------------
\* What the falling edge loads into the pipeline registers

Bug_IdNoFlush ==
    IF rst THEN IdBubble
    ELSE IF Keep THEN id
    ELSE [v |-> TRUE, ins |-> Instruction, pc |-> pc_i, pc4 |-> Plus4(pc_i)]
Bug_IdStale ==
    IF rst \/ PcSel THEN [id EXCEPT !.v = FALSE]
    ELSE IF Keep THEN id
    ELSE [v |-> TRUE, ins |-> Instruction, pc |-> pc_i, pc4 |-> Plus4(pc_i)]
IdNext ==
    IF rst \/ PcSel THEN IdBubble
    ELSE IF Keep THEN id
    ELSE [v |-> TRUE, ins |-> Instruction, pc |-> pc_i, pc4 |-> Plus4(pc_i)]

Decoded ==
    [v |-> id.v, c |-> Decode(Id), pc |-> id.pc, pc4 |-> id.pc4,
     imm |-> Id.imm, rd1 |-> Forward(Id.rs1), rd2 |-> Forward(Id.rs2),
     ra1 |-> Id.rs1, wa |-> Id.rd]
ExNext == IF rst \/ PcSel \/ Keep THEN ExBubble ELSE Decoded

MeNext ==
    IF rst THEN MeBubble
    ELSE [v |-> ex.v, pc |-> ex.pc, p30 |-> Bit30(ex.pc), c |-> ex.c,
          pc4 |-> ex.pc4, alu |-> AluResult, rd1 |-> ex.rd1, rd2 |-> ex.rd2,
          ra1 |-> ex.ra1, wa |-> ex.wa]

Accessed ==
    [reg_we |-> me.c.reg_we, reg_src |-> me.c.reg_src, pc4 |-> me.pc4,
     alu |-> me.alu, mem |-> MemData, wa |-> me.wa]
WbNext == IF rst THEN WbBubble ELSE Accessed

-----------------------------------------------------------------------------
\* rst comes from flops (z1top) or from a testbench: it changes together
\* with one of the two edges, which still sees the old value.
RstNext(edge) ==
    IF edge # RstEdge THEN {rst}
    ELSE IF rst \/ MayReset(bios) THEN BOOLEAN
    ELSE {FALSE}

\* The machine held in reset for at least one cycle.
Init ==
    /\ clk = 0 /\ rst = TRUE
    /\ pc = RESET_PC /\ pc_i = RESET_PC
    /\ id = IdBubble /\ ex = ExBubble /\ me = MeBubble /\ wb = WbBubble
    /\ \E b \in Boards :
          regs = b.regs /\ dmem = b.dmem /\ imem = b.imem /\ bios = b.bios
    /\ csr = 0
    /\ dmem_dout = 0 /\ imem_doutb = 0 /\ bios_douta = 0 /\ bios_doutb = 0
    /\ io_dout \in IoData

\* Both ports of the BIOS memory read, for fetch and for loads.
BiosReads ==
    /\ bios_douta' = bios[BIndex(pc_i)]
    /\ bios_doutb' = bios[BIndex(me.alu)]

PosEdge ==
    /\ clk = 0 /\ clk' = 1
    /\ pc' = PcReg
    /\ imem_doutb' = imem[Index(pc_i)]
    /\ BiosReads
    /\ dmem_dout' = IF DmemEn(me.alu) THEN dmem[Index(me.alu)] ELSE dmem_dout
    /\ dmem' = DmemNext
    /\ imem' = ImemNext
    /\ csr' = CsrNext
    /\ regs' = RegsNext
    /\ rst' \in RstNext("pos")
    /\ UNCHANGED <<pc_i, pipeVars, bios>>
    /\ io_dout' \in IoData

NegEdge ==
    /\ clk = 1 /\ clk' = 0
    /\ pc_i' = IF rst THEN RESET_PC ELSE pc
    /\ id' = IdNext
    /\ ex' = ExNext
    /\ me' = MeNext
    /\ wb' = WbNext
    /\ rst' \in RstNext("neg")
    /\ UNCHANGED <<pc, imem_doutb, bios_douta, regs, memVars, bios>>
    /\ io_dout' \in IoData

Next == PosEdge \/ NegEdge

Spec == Init /\ [][Next]_vars

\* The clock does not stop.
FairSpec == Spec /\ WF_vars(PosEdge) /\ WF_vars(NegEdge)
=============================================================================
