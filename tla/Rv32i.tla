-------------------------------- MODULE Rv32i --------------------------------
(***************************************************************************)
(* What the processor promises: the rv32i instruction set executed one     *)
(* instruction at a time over the memory map of this board.  Its only      *)
(* nondeterminism is what a load from the I/O region returns and when the  *)
(* reset input is driven.  The pipeline of Cpu is shown to implement it.   *)
(***************************************************************************)
EXTENDS RvMachine

CONSTANT IoData         \* what a read of the I/O region may return

VARIABLES
    rst,                \* the reset input
    apc,                \* address of the next instruction
    aregs,              \* register file
    dmem, imem, bios,   \* the three memories
    csr                 \* tohost

isaVars == <<rst, apc, aregs, dmem, imem, bios, csr>>

Fetch == FetchMux(apc, imem[Index(apc)], bios[BIndex(apc)])

-----------------------------------------------------------------------------
\* The instruction groups of the unprivileged ISA.  i is the instruction,
\* a and b its two source operands.

Result(i, r, next) ==
    /\ aregs' = Write(aregs, TRUE, i.rd, r)
    /\ apc' = next
    /\ UNCHANGED <<dmem, imem, csr>>

RegReg(i, a, b) ==
    /\ i.op = "RTYPE"
    /\ Result(i, AluFn(<<i.f3, i.f7>>, a, b), Plus4(apc))

RegImm(i, a) ==
    /\ i.op = "ITYPE"
    /\ LET shiftRight == i.f3 = 5
       IN  Result(i, AluFn(<<i.f3, IF shiftRight THEN i.f7 ELSE 0>>, a, i.imm),
                  Plus4(apc))

Lui(i)   == i.op = "LUI" /\ Result(i, i.imm, Plus4(apc))
Auipc(i) == i.op = "AUIPC" /\ Result(i, AluFn(ADD, apc, i.imm), Plus4(apc))

Jal(i)     == i.op = "JAL" /\ Result(i, Plus4(apc), AluFn(ADD, apc, i.imm))
Jalr(i, a) == i.op = "JALR" /\ Result(i, Plus4(apc), AluFn(ADD, a, i.imm))

Branch(i, a, b) ==
    /\ i.op = "BRANCH"
    /\ apc' = IF Taken(i.f3, a, b) THEN AluFn(ADD, apc, i.imm) ELSE Plus4(apc)
    /\ UNCHANGED <<aregs, dmem, imem, csr>>

Load(i, a) ==
    /\ i.op = "LOAD"
    /\ LET addr == AluFn(ADD, a, i.imm)
       IN  \E io \in IoData :
              Result(i, LoadLane(i.f3, Lane(addr),
                                 ReadMux(addr, dmem[Index(addr)],
                                         bios[BIndex(addr)], io)),
                     Plus4(apc))

Store(i, a, b) ==
    /\ i.op = "STORE"
    /\ LET addr      == AluFn(ADD, a, i.imm)
           stored(m) == [m EXCEPT ![Index(addr)] = StoreLane(i.f3, Lane(addr), @, b)]
       IN  /\ dmem' = IF DmemEn(addr) THEN stored(dmem) ELSE dmem
           /\ imem' = IF ImemEna(addr, Bit30(apc)) THEN stored(imem) ELSE imem
    /\ apc' = Plus4(apc)
    /\ UNCHANGED <<aregs, csr>>

\* csrrw and csrrwi on the one CSR the processor has: rd gets its old value.
Csr(i, a) ==
    /\ i.op = "CSR"
    /\ csr' = IF i.f3 >= 4 THEN i.rs1 ELSE a
    /\ aregs' = Write(aregs, TRUE, i.rd, csr)
    /\ apc' = Plus4(apc)
    /\ UNCHANGED <<dmem, imem>>

\* fence and the opcodes rv32i does not define have no effect.
Other(i) ==
    /\ i.op \in Unnamed
    /\ apc' = Plus4(apc)
    /\ UNCHANGED <<aregs, dmem, imem, csr>>

Execute ==
    LET i == Fields(Fetch)
        a == aregs[i.rs1]
        b == aregs[i.rs2]
    IN  \/ RegReg(i, a, b) \/ RegImm(i, a) \/ Lui(i) \/ Auipc(i)
        \/ Jal(i) \/ Jalr(i, a) \/ Branch(i, a, b)
        \/ Load(i, a) \/ Store(i, a, b) \/ Csr(i, a) \/ Other(i)

\* While rst is high execution restarts at RESET_PC.  The register write of
\* an instruction caught in the pipeline may be lost, nothing else.
Reset ==
    /\ rst
    /\ apc' = RESET_PC
    /\ \E r \in Reg : \A q \in Reg \ {r} : aregs'[q] = aregs[q]
    /\ UNCHANGED <<dmem, imem, csr>>

\* Instructions and resets, with the reset input moving along or alone.
Next ==
    /\ \/ Execute
       \/ Reset
       \/ rst' # rst /\ UNCHANGED <<apc, aregs, dmem, imem, csr>>
    /\ rst' \in BOOLEAN
    /\ UNCHANGED bios

Init == rst = TRUE /\ apc = RESET_PC

Spec == Init /\ [][Next]_isaVars
=============================================================================
