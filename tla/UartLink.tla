------------------------------ MODULE UartLink ------------------------------
(***************************************************************************)
(* A transmitter and a receiver joined by a line, through the two flops of *)
(* uart.v, each with the program that drives it: the sender waits for      *)
(* data_in_ready and a pause, the receiver polls data_out_valid and then   *)
(* reads, as uart.c and echo.c do.  The two ends may count different bit   *)
(* times: SYMBOL_EDGE_TIME is CLOCK_FREQ / BAUD_RATE, rounded down.        *)
(***************************************************************************)
EXTENDS UartTransmitter, UartReceiver, Sequences

CONSTANTS
    GAP,                \* cycles the sender pauses after a character
    POLL,               \* the receiver polls at least every POLL cycles
    LATENCY             \* and reads at most LATENCY cycles after a good poll

ASSUME LinkAssumption ==
    GAP \in Nat /\ POLL \in Nat \ {0} /\ LATENCY \in Nat \ {0}

VARIABLES
    serial_out_reg, serial_in_reg,  \* uart.v
    idle,               \* cycles since the transmitter became ready, up to GAP
    poll,               \* cycles since the last poll
    seen,               \* cycles since a poll found a character, 0 when none
    queue, got, popped  \* history, see SerialChannel

vars == <<txVars, rxVars, serial_out_reg, serial_in_reg, idle, poll, seen,
          queue, got, popped>>

Init ==
    /\ TxInit /\ RxInit
    /\ serial_out_reg = 1 /\ serial_in_reg = 1
    /\ idle = 0 /\ poll = 0 /\ seen = 0
    /\ queue = <<>> /\ got \in Byte /\ popped = FALSE

\* The sender's part of a cycle: what it writes, nothing or one character.
Quiet == {<<>>} \cup {<<b>> : b \in Byte}
Write(written) ==
    /\ written # <<>> => data_in_ready /\ idle = GAP
    /\ TxTick(FALSE, written # <<>>, IF written = <<>> THEN [i \in 1..BITS |-> 0]
                                                      ELSE written[1])
    /\ idle' = IF ~data_in_ready \/ written # <<>> THEN 0
               ELSE IF idle < GAP THEN idle + 1 ELSE idle

\* The receiver's part of a cycle.  A read returns what the shift register
\* holds after the edge that clears has_byte.
Poll == /\ seen = 0
        /\ seen' = (IF data_out_valid THEN 1 ELSE 0) /\ poll' = 0
Busy == \/ seen = 0 /\ poll < POLL - 1 /\ poll' = poll + 1 /\ UNCHANGED seen
        \/ seen \in 1..LATENCY - 1 /\ seen' = seen + 1 /\ UNCHANGED poll
Read == seen # 0 /\ seen' = 0 /\ poll' = 0

Line ==
    /\ serial_out_reg' = serial_out
    /\ serial_in_reg' = serial_out_reg

Tick(written, read) ==
    /\ Line
    /\ Write(written)
    /\ RxTick(FALSE, serial_in_reg, read)
    /\ IF read THEN Read ELSE Poll \/ Busy
    /\ popped' = read
    /\ queue' = SubSeq(queue, IF read THEN 2 ELSE 1, Len(queue)) \o written
    /\ got' = IF read THEN Payload(rx_shift') ELSE got

Next == \E written \in Quiet, read \in BOOLEAN : Tick(written, read)

Spec == Init /\ [][Next]_vars

\* The clock does not stop.
FairSpec == Spec /\ WF_vars(Next)

-----------------------------------------------------------------------------
\* Every character written arrives once, unchanged and in order, although
\* the receiver has one buffer, which is also its shift register.
Channel == INSTANCE SerialChannel
ChannelSpec == Channel!Spec

\* A character on its way is read in the end.
Delivered == queue # <<>> ~> popped

\* When that is so: each sample is taken while its bit is on the line, early or
\* late as the other end's clock may be; a character is there for a whole poll
\* before the next one starts the receiver, and is read before the next one's
\* start bit is sampled.
Timing ==
    /\ (BITS + 1) * (TX_EDGE_TIME - RX_EDGE_TIME) <= RX_EDGE_TIME \div 2 + 1
    /\ BITS * (RX_EDGE_TIME - TX_EDGE_TIME) + RX_EDGE_TIME \div 2 + 1 < TX_EDGE_TIME
    /\ FrameBits * RX_EDGE_TIME + POLL <= FrameBits * TX_EDGE_TIME + GAP + 1
    /\ FrameBits * RX_EDGE_TIME + POLL + LATENCY
         <= FrameBits * TX_EDGE_TIME + GAP + 1 + RX_EDGE_TIME \div 2

\* The counters of both ends stay below their limits.
TypeOK ==
    /\ tx_shifter \in Frame /\ rx_shift \in Frame
    /\ tx_bits \in 0..FrameBits /\ rx_bits \in 0..FrameBits
    /\ tx_clock \in 0..TX_EDGE_TIME - 1 /\ rx_clock \in 0..RX_EDGE_TIME - 1
    /\ has_byte \in BOOLEAN
    /\ serial_out_reg \in Bit /\ serial_in_reg \in Bit
    /\ idle \in 0..GAP /\ poll \in 0..POLL - 1 /\ seen \in 0..LATENCY
    /\ queue \in Seq(Byte) /\ got \in Byte /\ popped \in BOOLEAN
=============================================================================
