------------------------------ MODULE RvMachine ------------------------------
(***************************************************************************)
(* The data of the rv32i machine: words, registers, instruction fields,    *)
(* the adder and the comparators, the memory map.  The datapath is a       *)
(* parameter: the pipeline (Cpu) and the instruction set (Rv32i) are       *)
(* written over the same uninterpreted operators, the 32-bit hardware is   *)
(* one instance, the scaled machine of RvScaled another.  Datapath models  *)
(* the blocks that compute the operators.                                  *)
(***************************************************************************)
EXTENDS Integers

CONSTANTS
    Word,               \* the values of a 32-bit wire
    Reg,                \* register numbers, also the 5-bit CSR immediate
    Slot,               \* word addresses of dmem and imem
    BSlot,              \* word addresses of the BIOS memory
    RESET_PC,           \* parameter of cpu and pc
    NOP,                \* the instruction word opcode.vh calls `NOP
    Fields(_),          \* instruction word -> its bit fields
    AluFn(_, _, _),     \* alu.v: <<op[3:1], op[0]>>, srca, srcb
    Taken(_, _, _),     \* branch.v: branch_type, rd1, rd2
    Plus4(_),           \* the pc + 4 adder
    Top(_),             \* bits 31:28, the region of an address
    Index(_),           \* bits 15:2, the word address in dmem and imem
    BIndex(_),          \* bits 13:2, the word address in the BIOS memory
    Lane(_),            \* bits 1:0, the byte in a word
    LoadLane(_, _, _),  \* mem_type, lane, word read -> mem_data
    StoreLane(_, _, _, _) \* mem_type, lane, old word, mem_win -> new word

\* The opcodes that decoder.v does not name, by what it takes from their bits
\* alone: 5, 4 and not 2 selects rd2 for the ALU, 6 and 2 is a jump.
Unnamed == {"OTHER", "OTHER_RD2", "OTHER_JUMP"}

Opcode == {"RTYPE", "ITYPE", "LOAD", "STORE", "BRANCH", "JAL", "JALR",
           "LUI", "AUIPC", "CSR"} \cup Unnamed

Funct3 == 0..7
Nibble == 0..15

\* Every field exists in every word: in a STORE or a BRANCH "rd" holds bits
\* 11:7 of the immediate, in an ITYPE "rs2" holds its bits 4:0.
Instr == [op : Opcode, f3 : Funct3, f7 : {0, 1}, rd : Reg, rs1 : Reg,
          rs2 : Reg, imm : Word]

\* ALU control codes of opcode.vh and mem_type of a CSR instruction.
ADD     == <<0, 0>>
SRCB    == <<7, 1>>
MEM_CSR == 7

\* Bit 30 of a pc, by which mem_control lets only BIOS code write imem.
Bit30(p) == (Top(p) \div 4) % 2 = 1

ASSUME DataAssumption ==
    /\ 0 \in Reg /\ Reg \subseteq Word
    /\ RESET_PC \in Word /\ NOP \in Word

ASSUME FieldsAssumption == \A w \in Word : Fields(w) \in Instr

\* `NOP is addi x0, x0, 0.
ASSUME NopAssumption ==
    Fields(NOP).op = "ITYPE" /\ Fields(NOP).rd = 0

ASSUME AluAssumption ==
    /\ \A op \in Funct3 \X {0, 1}, a, b \in Word : AluFn(op, a, b) \in Word
    /\ \A a, b \in Word : AluFn(SRCB, a, b) = b

ASSUME TakenAssumption ==
    \A t \in Funct3, a, b \in Word : Taken(t, a, b) \in BOOLEAN

ASSUME AddressAssumption ==
    \A w \in Word : /\ Plus4(w) \in Word /\ Top(w) \in Nibble
                    /\ Index(w) \in Slot /\ BIndex(w) \in BSlot
                    /\ Lane(w) \in 0..3

\* A program that runs on past the end of the BIOS does not get into imem
\* within the three instructions that may be in flight.
ASSUME RegionAssumption ==
    \A w \in Word : Top(w) = 4 =>
        /\ Top(Plus4(w)) # 1
        /\ Top(Plus4(Plus4(w))) # 1
        /\ Top(Plus4(Plus4(Plus4(w)))) # 1

ASSUME LaneAssumption ==
    \A t \in Funct3, n \in 0..3, w \in Word :
        /\ LoadLane(t, n, w) \in Word
        /\ \A d \in Word : StoreLane(t, n, w, d) \in Word

-----------------------------------------------------------------------------
\* Fetch multiplexer of mem_control: imem, BIOS, or a NOP elsewhere.
FetchMux(p, fromImem, fromBios) ==
    CASE Top(p) = 1 -> fromImem
      [] Top(p) = 4 -> fromBios
      [] OTHER      -> NOP

\* Read multiplexer of mem_control on the data address.
ReadMux(a, fromDmem, fromBios, fromIo) ==
    CASE Top(a) \in {1, 3} -> fromDmem
      [] Top(a) = 4        -> fromBios
      [] Top(a) = 8        -> fromIo
      [] OTHER             -> 0

\* Which memories an access at a reaches; p30 is bit 30 of its pc.
DmemEn(a)       == Top(a) \in {1, 3}
ImemEna(a, p30) == Top(a) \in {2, 3} /\ p30

\* A register file with one more write; x0 stays what it is.
Write(rf, we, r, d) == IF we /\ r # 0 THEN [rf EXCEPT ![r] = d] ELSE rf
=============================================================================
