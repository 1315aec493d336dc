\* echo.c on the board, with a host that pauses between characters.
SPECIFICATION FairSpec
CONSTANTS
    Word <- SWord
    Reg <- EReg
    Slot <- SSlot
    BSlot <- SSlot
    RESET_PC = 32
    NOP = 1
    Fields <- EFields
    AluFn <- EAlu
    Taken <- STaken
    Plus4 <- SPlus4
    Top <- STop
    Index <- SIndex
    BIndex <- SIndex
    Lane <- SLane
    LoadLane <- SLoadLane
    StoreLane <- SStoreLane
    RstEdge = "neg"
    MayReset <- Never
    Boards <- EchoProgram
    BITS = 2
    TX_EDGE_TIME = 4
    RX_EDGE_TIME = 4
    COUNT = 1
    IoReg <- EIoReg
    GAP = 6
INVARIANTS
    PolledFirst
PROPERTIES
    EchoSpec
    Echoed
