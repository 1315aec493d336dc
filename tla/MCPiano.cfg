\* Two voices, three notes besides 0, a counter that wraps after 4 cycles.
SPECIFICATION Spec
CONSTANTS
    VOICES = 2
    Fcw = {0, 1, 2}
    Level = {0, 1}
    TMAX = 3
INVARIANTS
    TypeOK
    SoundsAsPlayed
    StrayOnlyAtWrap
PROPERTIES
    NotesSpec
    Ready
CHECK_DEADLOCK FALSE
