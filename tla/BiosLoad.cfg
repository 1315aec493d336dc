SPECIFICATION FairSpec
CONSTANTS
    BUFFER_LEN = 6
    PROMPT = 1
    ERROR = 3
    REPLY = 4
    CMD_GAP = 6
    DATA_GAP = 2
    Sessions <- LoadSessions
INVARIANTS
    TypeOK
    Patient
PROPERTIES
    NothingLost
    Executed
CHECK_DEADLOCK FALSE
