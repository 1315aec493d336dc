--------------------------- MODULE UartTransmitter ---------------------------
(***************************************************************************)
(* io_circuits/uart_transmitter.v: a frame of a start bit, BITS data bits  *)
(* (least significant first) and a stop bit is shifted out, each bit for   *)
(* TX_EDGE_TIME cycles.                                                    *)
(***************************************************************************)
EXTENDS UartFrame

CONSTANT TX_EDGE_TIME   \* SYMBOL_EDGE_TIME, CLOCK_FREQ / BAUD_RATE

ASSUME TxAssumption == TX_EDGE_TIME \in Nat \ {0, 1}

VARIABLES
    tx_shifter,         \* the frame, its next bit at index 0
    tx_bits,            \* bit_counter: bits left, 0 when idle
    tx_clock            \* clock_counter

txVars == <<tx_shifter, tx_bits, tx_clock>>

tx_running     == tx_bits # 0
Bug_tx_symbol_edge == tx_clock = TX_EDGE_TIME
tx_symbol_edge == tx_clock = TX_EDGE_TIME - 1
data_in_ready  == ~tx_running
serial_out     == IF tx_running THEN tx_shifter[0] ELSE 1

TxInit == tx_shifter = Blank /\ tx_bits = 0 /\ tx_clock = 0

TxReset(reset) ==
    /\ reset
    /\ tx_shifter' = Blank /\ tx_bits' = 0 /\ tx_clock' = 0

\* A character is taken only while nothing is being sent: a data_in_valid
\* that meets a running transmitter has no effect.
Bug_TxStart(reset, valid, data) ==
    /\ ~reset /\ valid /\ ~tx_running
    /\ tx_shifter' = FrameOf(data) /\ tx_bits' = FrameBits
    /\ tx_clock' = IF tx_symbol_edge THEN 0 ELSE tx_clock + 1
TxStart(reset, valid, data) ==
    /\ ~reset /\ valid /\ ~tx_running
    /\ tx_shifter' = FrameOf(data) /\ tx_bits' = FrameBits /\ tx_clock' = 0

TxEdge(reset, valid) ==
    /\ ~reset /\ ~(valid /\ ~tx_running) /\ tx_symbol_edge
    /\ tx_clock' = 0
    /\ IF tx_running
       THEN tx_bits' = tx_bits - 1 /\ tx_shifter' = ShiftIn(tx_shifter, 0)
       ELSE UNCHANGED <<tx_bits, tx_shifter>>

TxCount(reset, valid) ==
    /\ ~reset /\ ~(valid /\ ~tx_running) /\ ~tx_symbol_edge
    /\ tx_clock' = tx_clock + 1
    /\ UNCHANGED <<tx_bits, tx_shifter>>

\* One rising clock edge.
TxTick(reset, valid, data) ==
    \/ TxReset(reset)
    \/ TxStart(reset, valid, data)
    \/ TxEdge(reset, valid)
    \/ TxCount(reset, valid)
=============================================================================
