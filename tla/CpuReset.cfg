\* Reset released after a rising edge, as z1top releases it.
SPECIFICATION Spec
CONSTANTS
    Word <- SWord
    Reg <- SReg
    Slot <- SSlot
    BSlot <- SSlot
    RESET_PC = 128
    NOP = 1
    Fields <- SFields
    AluFn <- SAlu
    Taken <- STaken
    Plus4 <- SPlus4
    Top <- STop
    Index <- SIndex
    BIndex <- SIndex
    Lane <- SLane
    LoadLane <- SLoadLane
    StoreLane <- SStoreLane
    IoData = {0}
    RstEdge = "pos"
    MayReset <- Never
    Boards <- ResetBoards
PROPERTIES
    IsaSpec
