---------------------------- MODULE UartReceiver ----------------------------
(***************************************************************************)
(* io_circuits/uart_receiver.v: a low line starts a count of BITS + 2 bit  *)
(* times of RX_EDGE_TIME cycles; the line is sampled in the middle of each *)
(* and shifted in.  data_out is the shift register itself.                 *)
(***************************************************************************)
EXTENDS UartFrame

CONSTANT RX_EDGE_TIME   \* SYMBOL_EDGE_TIME, CLOCK_FREQ / BAUD_RATE

ASSUME RxAssumption == RX_EDGE_TIME \in Nat \ {0, 1}

VARIABLES
    rx_shift,           \* the frame so far; nothing resets it
    rx_bits,            \* bit_counter: bits left, 0 when idle
    rx_clock,           \* clock_counter
    has_byte            \* a frame ended and was not read since

rxVars == <<rx_shift, rx_bits, rx_clock, has_byte>>

rx_running     == rx_bits # 0
rx_symbol_edge == rx_clock = RX_EDGE_TIME - 1
Bug_sample     == rx_symbol_edge
sample         == rx_clock = RX_EDGE_TIME \div 2
data_out       == Payload(rx_shift)
data_out_valid == has_byte /\ ~rx_running

RxInit == rx_shift \in Frame /\ rx_bits = 0 /\ rx_clock = 0 /\ has_byte = FALSE

RxShift(serial_in) ==
    rx_shift' = IF sample /\ rx_running THEN ShiftIn(rx_shift, serial_in)
                                        ELSE rx_shift

\* The end of a frame wins over a read in the same cycle.
Bug_HasByteNext(reset, ready) ==
    ~reset /\ rx_bits = 1 /\ rx_symbol_edge
HasByteNext(reset, ready) ==
    /\ ~reset
    /\ (has_byte /\ ~ready) \/ (rx_bits = 1 /\ rx_symbol_edge)

RxReset(reset) == reset /\ rx_clock' = 0 /\ rx_bits' = 0

RxStart(reset, serial_in) ==
    /\ ~reset /\ serial_in = 0 /\ ~rx_running
    /\ rx_clock' = 0 /\ rx_bits' = FrameBits

RxEdge(reset, serial_in) ==
    /\ ~reset /\ ~(serial_in = 0 /\ ~rx_running) /\ rx_symbol_edge
    /\ rx_clock' = 0
    /\ rx_bits' = IF rx_running THEN rx_bits - 1 ELSE 0

RxCount(reset, serial_in) ==
    /\ ~reset /\ ~(serial_in = 0 /\ ~rx_running) /\ ~rx_symbol_edge
    /\ rx_clock' = rx_clock + 1
    /\ UNCHANGED rx_bits

\* One rising clock edge.
RxTick(reset, serial_in, ready) ==
    /\ RxReset(reset) \/ RxStart(reset, serial_in)
       \/ RxEdge(reset, serial_in) \/ RxCount(reset, serial_in)
    /\ RxShift(serial_in)
    /\ has_byte' = HasByteNext(reset, ready)
=============================================================================
