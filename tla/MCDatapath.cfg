\* The ALU, the comparator and the byte lanes, eight bits wide.
SPECIFICATION Spec
CONSTANTS
    XLEN = 8
    Sample = {0, 1, 2, 3, 5, 7, 8, 15, 16, 27, 63, 64, 85, 99, 126, 127, 128, 129, 130, 170, 192, 199, 228, 240, 253, 254, 255}
INVARIANTS
    AluMeaning
    BranchMeaning
    LaneMeaning
CHECK_DEADLOCK FALSE
