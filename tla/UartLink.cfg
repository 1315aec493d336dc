\* A sender that is faster than the receiver by one cycle in nine, with the
\* shortest pause and the slowest reader that work.
SPECIFICATION FairSpec
CONSTANTS
    BITS = 2
    TX_EDGE_TIME = 8
    RX_EDGE_TIME = 9
    GAP = 8
    POLL = 4
    LATENCY = 5
INVARIANTS
    TypeOK
PROPERTIES
    ChannelSpec
    Delivered
