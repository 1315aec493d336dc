\* Register, memory, CSR, I/O and control hazards and self-programming, with
\* a reset at any cycle of a program that programs itself.
SPECIFICATION FairSpec
CONSTANTS
    Word <- SWord
    Reg <- SReg
    Slot <- SSlot
    BSlot <- SSlot
    RESET_PC = 128
    NOP = 1
    Fields <- SFields
    AluFn <- SAlu
    Taken <- STaken
    Plus4 <- SPlus4
    Top <- STop
    Index <- SIndex
    BIndex <- SIndex
    Lane <- SLane
    LoadLane <- SLoadLane
    StoreLane <- SStoreLane
    IoData = {0, 9}
    RstEdge = "neg"
    MayReset <- EndsInNop
    Boards <- AllBoards
INVARIANTS
    TypeOK
    ForwardingUnlessMasked
    JumpShadow
    BubblesInert
PROPERTIES
    IsaSpec
    Progress
