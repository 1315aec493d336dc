--------------------------------- MODULE Soc ---------------------------------
(***************************************************************************)
(* z1top.v: the pipeline, io_control and the serial line to a host.  The   *)
(* host (a testbench or a PC) is external: a transmitter that pauses       *)
(* between characters and a receiver that takes each at once.  All flops   *)
(* of the board but the pipeline registers are clocked on the rising edge, *)
(* so PosEdge is one step of every part.                                   *)
(***************************************************************************)
EXTENDS RvMachine, IoControl, Sequences

CONSTANTS RstEdge, MayReset(_), Boards,    \* see Cpu
          GAP                           \* cycles the host pauses

VARIABLES clk, rst, pc, pc_i, id, ex, me, wb, regs, csr, dmem, imem, bios,
          dmem_dout, imem_doutb, bios_douta, bios_doutb    \* see Cpu

cpuVars == <<clk, rst, pc, pc_i, id, ex, me, wb, regs, csr, dmem, imem, bios,
             dmem_dout, imem_doutb, bios_douta, bios_doutb>>

VARIABLES
    fpga_serial_tx_iob, fpga_serial_rx_iob,     \* z1top.v
    h_shifter, h_bits, h_clock,                 \* the host's transmitter
    h_idle,                                     \* its pause so far
    h_shift, h_left, h_count, h_has,            \* the host's receiver
    queue, got, popped                          \* history, see SerialChannel

hostVars == <<h_shifter, h_bits, h_clock, h_idle, h_shift, h_left, h_count,
              h_has, queue, got, popped>>
vars == <<cpuVars, ioVars, fpga_serial_tx_iob, fpga_serial_rx_iob, hostVars>>

HostTx == INSTANCE UartTransmitter WITH
    tx_shifter <- h_shifter, tx_bits <- h_bits, tx_clock <- h_clock
HostRx == INSTANCE UartReceiver WITH
    rx_shift <- h_shift, rx_bits <- h_left, rx_clock <- h_count,
    has_byte <- h_has

-----------------------------------------------------------------------------
\* mem_control.v: io_control is enabled by the region of the ALU result of
\* whatever instruction is in the memory stage, and also in no region.
IoEn == Top(me.alu) \notin 1..4
IoWe == Top(me.alu) = 8 /\ me.c.mem_we

IoDout == Dout(IoEn, me.alu)

CPU == INSTANCE Cpu WITH IoData <- Word, io_dout <- IoDout

MemDin == CASE me.c.mem_type = MEM_CSR -> CPU!MemWin
            [] OTHER -> StoreLane(me.c.mem_type, Lane(me.alu), 0, CPU!MemWin)

-----------------------------------------------------------------------------
Init ==
    /\ IoInit /\ CPU!Init
    /\ fpga_serial_tx_iob = 1 /\ fpga_serial_rx_iob = 1
    /\ HostTx!TxInit /\ h_idle = 0
    /\ h_shift = Blank /\ h_left = 0 /\ h_count = 0 /\ h_has = FALSE
    /\ queue = <<>> /\ got = Payload(Blank) /\ popped = FALSE

IobFlops ==
    /\ fpga_serial_tx_iob' = serial_out_reg
    /\ fpga_serial_rx_iob' = HostTx!serial_out

\* The host sends a character after a pause, or waits.
Writes == {<<>>} \cup {<<b>> : b \in Byte}
HostSends(written) ==
    /\ written # <<>> => h_bits = 0 /\ h_idle = GAP /\ ~rst
    /\ HostTx!TxTick(FALSE, written # <<>>,
                     IF written = <<>> THEN Payload(Blank) ELSE written[1])
    /\ h_idle' = IF h_bits # 0 \/ written # <<>> THEN 0
                 ELSE IF h_idle < GAP THEN h_idle + 1 ELSE h_idle

\* The host takes a character as soon as it has one.
HostReceives(written) ==
    LET read == HostRx!data_out_valid
    IN  /\ HostRx!RxTick(FALSE, fpga_serial_tx_iob, read)
        /\ popped' = read
        /\ got' = IF read THEN HostRx!data_out ELSE got
        /\ queue' = SubSeq(queue, IF read THEN 2 ELSE 1, Len(queue)) \o written

PosEdge ==
    /\ clk = 0
    /\ IoTick(rst, IoEn, IoWe, me.alu, MemDin, me.c.iflag, fpga_serial_rx_iob)
    /\ CPU!PosEdge
    /\ IobFlops
    /\ \E written \in Writes : HostSends(written) /\ HostReceives(written)

NegEdge ==
    /\ UNCHANGED <<ioVars, fpga_serial_tx_iob, fpga_serial_rx_iob, hostVars>>
    /\ CPU!NegEdge

Next == PosEdge \/ NegEdge

Spec == Init /\ [][Next]_vars

\* The clock does not stop.
FairSpec == Spec /\ WF_vars(Next)

-----------------------------------------------------------------------------
\* With a program that echoes (echo.c), the whole board is a serial channel
\* from the host to itself: each character comes back once, in order, although
\* nothing but polling keeps the program, the receiver and the transmitter in
\* step.
Channel  == INSTANCE SerialChannel
EchoSpec == Channel!Spec

\* A character that was sent comes back.
Echoed == queue # <<>> ~> popped

\* The status word said "valid" for the character that a load takes now, and
\* the transmitter is idle whenever a store hands it a character.
PolledFirst ==
    clk = 0 =>
        /\ DataOutReady(IoEn, me.alu) => data_out_valid
        /\ DataInValid(IoEn, IoWe, me.alu) => data_in_ready

\* The registers with a side effect are acted on only by a load or a store of
\* the address memory_map.h and uart.h give them.
Access == /\ me.v /\ Top(me.alu) = 8 /\ me.c.mem_type # MEM_CSR
          /\ me.c.reg_src = "mem" \/ me.c.mem_we
OnlyAccessed ==
    (clk = 0 /\ ~rst
     /\ (CounterRst(IoEn, me.alu, rst) \/ DataOutReady(IoEn, me.alu))) => Access
=============================================================================
