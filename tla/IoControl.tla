------------------------------ MODULE IoControl ------------------------------
(***************************************************************************)
(* riscv_core/io_control.v with what it contains: the two counters and     *)
(* uart.v, a transmitter and a receiver behind a flop each.  Its address   *)
(* decoder is combinational, so a register is acted on by being addressed  *)
(* while en is high: a read of "rx" takes the character, any access to     *)
(* "rst" clears the counters.                                              *)
(***************************************************************************)
EXTENDS UartTransmitter, UartReceiver

CONSTANTS
    COUNT,              \* a counter counts modulo COUNT, 2^32 in the code
    IoReg(_)            \* addr[7:0] of an address -> the register it names

ASSUME IoAssumption == COUNT \in Nat \ {0} /\ TX_EDGE_TIME = RX_EDGE_TIME

VARIABLES
    serial_out_reg, serial_in_reg,
    cycle_count, instruction_count

ioVars == <<txVars, rxVars, serial_out_reg, serial_in_reg,
            cycle_count, instruction_count>>

\* A character as the low byte of a word.
CharOf(w) == [i \in 1..BITS |-> (w \div 2 ^ (i - 1)) % 2]
WordOf(b) == CHOOSE w \in 0..(2 ^ BITS - 1) : CharOf(w) = b

-----------------------------------------------------------------------------
\* The decoder.  en, we, addr, din, rst and iflag are its inputs.

CounterRst(en, addr, rst) == en /\ (IoReg(addr) = "rst" \/ rst)

Bug_DataOutReady(en, addr) == en /\ IoReg(addr) = "ctrl"
DataOutReady(en, addr)     == en /\ IoReg(addr) = "rx"

Bug_DataInValid(en, we, addr) == en /\ IoReg(addr) = "tx" /\ ~we
DataInValid(en, we, addr)     == en /\ IoReg(addr) = "tx" /\ we

Flag(p) == IF p THEN 1 ELSE 0
Bug_Status == 2 * Flag(data_in_ready) + Flag(data_out_valid)
Status     == 2 * Flag(data_out_valid) + Flag(data_in_ready)

Dout(en, addr) ==
    CASE en /\ IoReg(addr) = "ctrl"   -> Status
      [] en /\ IoReg(addr) = "rx"     -> WordOf(data_out)
      [] en /\ IoReg(addr) = "cycles" -> cycle_count
      [] en /\ IoReg(addr) = "instrs" -> instruction_count
      [] OTHER                        -> 0

-----------------------------------------------------------------------------
IoInit ==
    /\ TxInit /\ RxInit
    /\ serial_out_reg = 1 /\ serial_in_reg = 1
    /\ cycle_count = 0 /\ instruction_count = 0

\* cycle_counter.v, instruction_counter.v
Counters(clear, iflag) ==
    /\ cycle_count' = IF clear THEN 0 ELSE (cycle_count + 1) % COUNT
    /\ instruction_count' =
          IF clear THEN 0
          ELSE (instruction_count + Flag(iflag)) % COUNT

\* uart.v
Flops(rst, serial_in) ==
    /\ serial_out_reg' = IF rst THEN 1 ELSE serial_out
    /\ serial_in_reg' = IF rst THEN 1 ELSE serial_in

\* One rising clock edge.
IoTick(rst, en, we, addr, din, iflag, serial_in) ==
    /\ Counters(CounterRst(en, addr, rst), iflag)
    /\ Flops(rst, serial_in)
    /\ TxTick(rst, DataInValid(en, we, addr), CharOf(din))
    /\ RxTick(rst, serial_in_reg, DataOutReady(en, addr))
=============================================================================
