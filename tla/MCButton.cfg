\* Two buttons that share the sample counter; a press takes 7 to 9 cycles.
SPECIFICATION Spec
CONSTANTS
    Button = {b0, b1}
    SAMPLE_CNT_MAX = 3
    PULSE_CNT_MAX = 3
    SPAN = 4
INVARIANTS
    TypeOK
PROPERTIES
    PressSpec
