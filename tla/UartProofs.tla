----------------------------- MODULE UartProofs -----------------------------
(***************************************************************************)
(* The serial link implements SerialChannel for every character length,    *)
(* pair of bit times, pause, polling period and latency that meet Timing.  *)
(* The inductive invariant, IInv, says where each character is: nowhere,   *)
(* on the line, in the receiver, or one in each. It relates the clocks of  *)
(* both ends by the time since a frame was begun.                          *)
(***************************************************************************)
EXTENDS UartLink, SequenceTheorems, TLAPS

-----------------------------------------------------------------------------
\* Cycles since the frame on the line was begun (no longer counted after the
\* pause), and since the receiver saw its start bit.
Sent   == FrameBits - tx_bits
TxTime == Sent * TX_EDGE_TIME + (IF tx_running THEN tx_clock ELSE idle)
Rcvd   == FrameBits - rx_bits
RxTime == Rcvd * RX_EDGE_TIME + rx_clock
Samples == Rcvd + (IF rx_clock > RX_EDGE_TIME \div 2 THEN 1 ELSE 0)

\* Cycles from one frame to the next, at least, and those of a reception.
Period == FrameBits * TX_EDGE_TIME + GAP + 1
RxFrame == FrameBits * RX_EDGE_TIME

LineBit(c, k) == IF k < 0 THEN 1 ELSE FrameOf(c)[k]

\* The transmitter sends c; the two flops follow it.
Sending(c) ==
    /\ tx_running
    /\ \A i \in 0..BITS + 1 :
          i + Sent <= BITS + 1 => tx_shifter[i] = FrameOf(c)[i + Sent]
    /\ serial_out_reg = LineBit(c, IF tx_clock >= 1 THEN Sent ELSE Sent - 1)
    /\ serial_in_reg  = LineBit(c, IF tx_clock >= 2 THEN Sent ELSE Sent - 1)

High == serial_out_reg = 1 /\ serial_in_reg = 1

\* Nothing but the end of a stop bit is on the line.
Silent == High /\ (tx_running => tx_bits = 1 /\ tx_clock >= 2 /\ tx_shifter[0] = 1)

\* The last n bits of the shift register are the first n of a frame.
Content(s, n, c) ==
    \A m \in 0..BITS : m < n => s[FrameBits - n + m] = FrameOf(c)[m]

\* The reader is in time for a character that has been there for t cycles.
InTime(t) == IF seen = 0 THEN poll >= t ELSE seen + POLL - 1 >= t

Empty ==
    queue = <<>> /\ ~has_byte /\ seen = 0 /\ ~rx_running /\ Silent

Flying(c) ==
    /\ queue = <<c>> /\ ~has_byte /\ seen = 0
    /\ \/ Sending(c) /\ ~rx_running /\ TxTime <= 2
       \/ /\ rx_running /\ Content(rx_shift, Samples, c)
          /\ \/ Sending(c) /\ RxTime = TxTime - 3
             \/ High /\ ~tx_running /\ RxTime >= TxTime - 3

Arrived(c) ==
    /\ queue = <<c>> /\ has_byte /\ ~rx_running /\ Payload(rx_shift) = c
    /\ Silent /\ InTime(TxTime - RxFrame - 3)

FlyingTwo(c, d) ==
    /\ queue = <<c, d>> /\ ~has_byte /\ seen = 0
    /\ Sending(d) /\ TxTime <= 2
    /\ rx_running /\ RxTime >= Period + TxTime - 3 /\ Content(rx_shift, Samples, c)

ArrivedTwo(c, d) ==
    /\ queue = <<c, d>> /\ has_byte /\ Payload(rx_shift) = c
    /\ Sending(d)
    /\ IF rx_running THEN RxTime = TxTime - 3 /\ Samples = 0 /\ seen # 0 ELSE TxTime <= 2
    /\ InTime(Period + TxTime - RxFrame - 3)

InTransit ==
    \/ Empty
    \/ \E c \in Byte : Flying(c) \/ Arrived(c)
    \/ \E c, d \in Byte : FlyingTwo(c, d) \/ ArrivedTwo(c, d)

IInv == TypeOK /\ InTransit

-----------------------------------------------------------------------------
\* What the SMT solver is to know of products.
LEMMA Monotone ==
    ASSUME NEW a \in Int, NEW b \in Int, NEW m \in Nat, a <= b
    PROVE  a * m <= b * m
OBVIOUS

\* The product for one bit more.
LEMMA OneMore ==
    ASSUME NEW a \in Int, NEW m \in Int
    PROVE  (a + 1) * m = a * m + m
OBVIOUS

\* The middle of a bit lies in it.
LEMMA HalfBit ==
    /\ RX_EDGE_TIME \div 2 \in Nat \ {0}
    /\ RX_EDGE_TIME \div 2 <= RX_EDGE_TIME - 1
BY RxAssumption

\* The middle of a received bit lies in the bit that was sent, for each bit of a
\* frame: the drift is largest at its end.
LEMMA BitTimes ==
    ASSUME Timing
    PROVE  /\ TX_EDGE_TIME > 2
           /\ \A j \in 0..BITS + 1 :
                 j * TX_EDGE_TIME <= j * RX_EDGE_TIME + RX_EDGE_TIME \div 2 + 1
           /\ \A j \in 0..BITS :
                 j * RX_EDGE_TIME + RX_EDGE_TIME \div 2 + 1 < (j + 1) * TX_EDGE_TIME
<1>. DEFINE h == RX_EDGE_TIME \div 2
            d == RX_EDGE_TIME - TX_EDGE_TIME
<1>. USE BitsAssumption, TxAssumption, RxAssumption
<1>1. h \in Nat /\ h >= 1 /\ h <= RX_EDGE_TIME - 1 /\ d \in Int
  BY HalfBit
<1>2. (BITS + 1) * (-d) <= h + 1 /\ BITS * d + h + 1 < TX_EDGE_TIME
  BY DEF Timing
<1>. HIDE DEF h
<1>3. ASSUME NEW j \in 0..BITS + 1 PROVE j * (-d) <= h + 1
  <2>1. CASE d <= 0 
    <3>1. -d \in Nat BY <1>1, <2>1
    <3>2. j * (-d) <= (BITS + 1) * (-d) BY <3>1, Monotone
    <3> QED BY <3>1, <3>2, <1>1, <1>2
  <2>2. CASE d > 0
    <3>1. 0 * d <= j * d BY <2>2, Monotone
    <3> QED BY <1>1, <3>1
  <2> QED BY <1>1, <2>1, <2>2
<1>4. ASSUME NEW j \in 0..BITS PROVE j * d + h + 1 < TX_EDGE_TIME
  <2>1. CASE d >= 0
    <3>1. j * d <= BITS * d BY <2>1, <1>1, Monotone
    <3> QED BY <3>1, <1>1, <1>2
  <2>2. CASE d < 0
    <3>1. -d \in Nat BY <1>1, <2>2
    <3>2. 0 * (-d) <= j * (-d) /\ 0 * (-d) <= (BITS + 1) * (-d) BY <3>1, Monotone
    <3> QED BY <3>2, <1>1, <1>2
  <2> QED BY <1>1, <2>1, <2>2
<1>5. TX_EDGE_TIME > 2 BY <1>1, <1>4
<1>6. ASSUME NEW j \in 0..BITS + 1
      PROVE  j * TX_EDGE_TIME <= j * RX_EDGE_TIME + h + 1
  BY <1>1, <1>3
<1>7. ASSUME NEW j \in 0..BITS
      PROVE  j * RX_EDGE_TIME + h + 1 < (j + 1) * TX_EDGE_TIME
  BY <1>1, <1>4
<1> QED BY <1>5, <1>6, <1>7 DEF h

-----------------------------------------------------------------------------
\* What one cycle does to a queue of at most two characters.
LEMMA Queues ==
    ASSUME NEW c \in Byte, NEW d \in Byte
    PROVE  /\ SubSeq(<<>>, 1, Len(<<>>)) \o <<>> = <<>>
           /\ SubSeq(<<>>, 1, Len(<<>>)) \o <<d>> = <<d>>
           /\ SubSeq(<<c>>, 1, Len(<<c>>)) \o <<>> = <<c>>
           /\ SubSeq(<<c>>, 1, Len(<<c>>)) \o <<d>> = <<c, d>>
           /\ SubSeq(<<c>>, 2, Len(<<c>>)) \o <<>> = <<>>
           /\ SubSeq(<<c>>, 2, Len(<<c>>)) \o <<d>> = <<d>>
           /\ SubSeq(<<c, d>>, 1, Len(<<c, d>>)) \o <<>> = <<c, d>>
           /\ SubSeq(<<c, d>>, 2, Len(<<c, d>>)) \o <<>> = <<d>>
           /\ Head(<<c>>) = c /\ Head(<<c, d>>) = c
           /\ <<c>> # <<>> /\ <<c, d>> # <<>>
           /\ <<c>> \in Seq(Byte) /\ <<c, d>> \in Seq(Byte) /\ <<>> \in Seq(Byte)
<1>1. <<c>> \in Seq(Byte) /\ <<d>> \in Seq(Byte) /\ <<c, d>> \in Seq(Byte) /\ <<>> \in Seq(Byte)
  OBVIOUS
<1>2. <<c>> \o <<d>> = <<c, d>>
  <2>1. <<c>> \o <<d>> \in Seq(Byte) /\ Len(<<c>> \o <<d>>) = 2
    BY <1>1, ConcatProperties
  <2>2. (<<c>> \o <<d>>)[1] = c /\ (<<c>> \o <<d>>)[2] = d
    BY <1>1
  <2>3. Len(<<c, d>>) = 2 /\ <<c, d>>[1] = c /\ <<c, d>>[2] = d
    OBVIOUS
  <2>4. \A i \in 1..2 : (<<c>> \o <<d>>)[i] = <<c, d>>[i]
    BY <2>2, <2>3
  <2> QED BY <2>1, <2>3, <2>4, <1>1, SeqEqual
<1>3. SubSeq(<<c, d>>, 2, Len(<<c, d>>)) = <<d>>
  <2>1. SubSeq(<<c, d>>, 2, Len(<<c, d>>)) = <<d>> \o SubSeq(<<c, d>>, 3, Len(<<c, d>>))
    BY <1>1, SubSeqRecursiveFirst
  <2>2. SubSeq(<<c, d>>, 3, Len(<<c, d>>)) = <<>>
    BY SubSeqEmpty
  <2> QED BY <1>1, <2>1, <2>2, ConcatEmptySeq
<1>4. SubSeq(<<c>>, 2, Len(<<c>>)) = <<>> BY SubSeqEmpty
<1>5. /\ SubSeq(<<>>, 1, Len(<<>>)) = <<>>
      /\ SubSeq(<<c>>, 1, Len(<<c>>)) = <<c>>
      /\ SubSeq(<<c, d>>, 1, Len(<<c, d>>)) = <<c, d>>
  BY <1>1, SubSeqFull
<1>6. \A s \in {<<>>, <<c>>, <<d>>, <<c, d>>} : s \o <<>> = s /\ <<>> \o s = s
  BY <1>1, ConcatEmptySeq
<1>7. Head(<<c>>) = c /\ Head(<<c, d>>) = c /\ <<c>> # <<>> /\ <<c, d>> # <<>>
  OBVIOUS
<1> QED BY <1>1, <1>2, <1>3, <1>4, <1>5, <1>6, <1>7

-----------------------------------------------------------------------------
\* The transmitter.

\* The bits of a frame.
LEMMA FrameFacts ==
    ASSUME NEW c \in Byte
    PROVE  /\ FrameOf(c) \in Frame
           /\ FrameOf(c)[0] = 0 /\ FrameOf(c)[BITS + 1] = 1
           /\ \A i \in 1..BITS : FrameOf(c)[i] = c[i]
<1>. USE BitsAssumption
<1>1. \A i \in 1..BITS : c[i] \in Bit BY DEF Byte
<1>2. \A i \in 0..BITS + 1 : (IF i = 0 THEN 0 ELSE IF i <= BITS THEN c[i] ELSE 1) \in Bit
  BY <1>1 DEF Bit
<1>3. FrameOf(c) \in Frame BY <1>2 DEF FrameOf, Frame
<1>4. \A i \in 0..BITS + 1 :
         FrameOf(c)[i] = IF i = 0 THEN 0 ELSE IF i <= BITS THEN c[i] ELSE 1
  BY DEF FrameOf
<1> QED BY <1>3, <1>4

\* The shift register moved one place down.
LEMMA ShiftFacts ==
    ASSUME NEW s \in Frame, NEW b \in Bit
    PROVE  /\ ShiftIn(s, b) \in Frame
           /\ ShiftIn(s, b)[BITS + 1] = b
           /\ \A i \in 0..BITS : ShiftIn(s, b)[i] = s[i + 1]
<1>. USE BitsAssumption
<1>1. \A i \in 0..BITS + 1 : (IF i = BITS + 1 THEN b ELSE s[i + 1]) \in Bit
  BY DEF Frame
<1>2. ShiftIn(s, b) \in Frame BY <1>1 DEF ShiftIn, Frame
<1>3. \A i \in 0..BITS + 1 : ShiftIn(s, b)[i] = IF i = BITS + 1 THEN b ELSE s[i + 1]
  BY DEF ShiftIn
<1> QED BY <1>2, <1>3

\* The time since a frame was begun, while it is sent and after it.
LEMMA TxTimeType ==
    ASSUME TypeOK
    PROVE  /\ TxTime \in Nat /\ Sent \in 0..FrameBits
           /\ ~tx_running => TxTime = FrameBits * TX_EDGE_TIME + idle
           /\ tx_running => TxTime = Sent * TX_EDGE_TIME + tx_clock /\ Sent \in 0..BITS + 1
<1>. USE BitsAssumption, TxAssumption, LinkAssumption DEF TypeOK, FrameBits, tx_running
<1>1. Sent \in 0..FrameBits /\ (tx_running => Sent \in 0..BITS + 1)
  BY DEF Sent
<1>2. Sent * TX_EDGE_TIME \in Nat BY <1>1
<1>3. ~tx_running => Sent = FrameBits BY DEF Sent
<1>4. (IF tx_running THEN tx_clock ELSE idle) \in Nat OBVIOUS
<1> QED BY <1>1, <1>2, <1>3, <1>4 DEF TxTime

\* A character is begun.
LEMMA Begin ==
    ASSUME TypeOK, High, NEW d \in Byte, Write(<<d>>), Line
    PROVE  /\ ~tx_running /\ TxTime = Period - 1
           /\ Sending(d)' /\ TxTime' = 0
           /\ tx_shifter' \in Frame /\ tx_bits' \in 0..FrameBits
           /\ tx_clock' \in 0..TX_EDGE_TIME - 1 /\ idle' \in 0..GAP
<1>. USE BitsAssumption, TxAssumption, LinkAssumption
<1>1. <<d>> # <<>> /\ <<d>>[1] = d OBVIOUS
<1>2. ~tx_running /\ idle = GAP /\ TxTick(FALSE, TRUE, d) /\ idle' = 0
  BY <1>1 DEF Write, data_in_ready
<1>3. tx_shifter' = FrameOf(d) /\ tx_bits' = FrameBits /\ tx_clock' = 0
  BY <1>2 DEF TxTick, TxReset, TxStart, TxEdge, TxCount
<1>4. TxTime = Period - 1 BY <1>2, TxTimeType DEF Period, TypeOK, FrameBits
<1>5. tx_running' /\ Sent' = 0 BY <1>3 DEF tx_running, Sent, FrameBits
<1>6. TxTime' = 0 BY <1>3, <1>5 DEF TxTime
<1>7. serial_out_reg' = 1 /\ serial_in_reg' = 1
  BY <1>2 DEF Line, High, serial_out
<1>8. Sending(d)'
  BY <1>3, <1>5, <1>7, FrameFacts DEF Sending, LineBit
<1> QED BY <1>2, <1>3, <1>4, <1>6, <1>8, FrameFacts DEF FrameBits

\* A cycle in which no character is begun.
LEMMA TxStep ==
    ASSUME TypeOK, Write(<<>>)
    PROVE  /\ tx_clock' = IF tx_symbol_edge THEN 0 ELSE tx_clock + 1
           /\ IF tx_symbol_edge /\ tx_running
              THEN tx_bits' = tx_bits - 1 /\ tx_shifter' = ShiftIn(tx_shifter, 0)
              ELSE tx_bits' = tx_bits /\ tx_shifter' = tx_shifter
           /\ idle' = IF tx_running THEN 0 ELSE IF idle < GAP THEN idle + 1 ELSE idle
           /\ tx_shifter' \in Frame /\ tx_bits' \in 0..FrameBits
           /\ tx_clock' \in 0..TX_EDGE_TIME - 1 /\ idle' \in 0..GAP
<1>. USE BitsAssumption, TxAssumption, LinkAssumption
<1>1. TxTick(FALSE, FALSE, [i \in 1..BITS |-> 0])
      /\ idle' = IF tx_running THEN 0 ELSE IF idle < GAP THEN idle + 1 ELSE idle
  BY DEF Write, data_in_ready
<1>2. /\ tx_clock' = IF tx_symbol_edge THEN 0 ELSE tx_clock + 1
      /\ IF tx_symbol_edge /\ tx_running
         THEN tx_bits' = tx_bits - 1 /\ tx_shifter' = ShiftIn(tx_shifter, 0)
         ELSE tx_bits' = tx_bits /\ tx_shifter' = tx_shifter
  BY <1>1 DEF TxTick, TxReset, TxStart, TxEdge, TxCount
<1>3. tx_shifter' \in Frame BY <1>2, ShiftFacts DEF TypeOK, Bit
<1>4. tx_bits' \in 0..FrameBits /\ tx_clock' \in 0..TX_EDGE_TIME - 1 /\ idle' \in 0..GAP
  BY <1>1, <1>2 DEF TypeOK, tx_running, tx_symbol_edge, FrameBits
<1> QED BY <1>1, <1>2, <1>3, <1>4

\* That time counts cycles, until it stops at the end of the pause.
LEMMA TxCounts ==
    ASSUME TypeOK, Write(<<>>)
    PROVE  /\ \E u \in Int : TxTime' = u /\ TxTime <= u /\ u <= TxTime + 1
           /\ tx_running => TxTime' = TxTime + 1
           /\ ~tx_running => ~tx_running'
<1>. USE BitsAssumption, TxAssumption, LinkAssumption DEF TypeOK, FrameBits
<1>1. CASE ~tx_running
  <2>1. tx_bits' = tx_bits /\ idle' \in {idle, idle + 1} BY <1>1, TxStep
  <2>2. ~tx_running' /\ Sent' = Sent BY <1>1, <2>1 DEF tx_running, Sent
  <2>3. TxTime = Sent * TX_EDGE_TIME + idle /\ TxTime' = Sent * TX_EDGE_TIME + idle'
    BY <1>1, <2>2 DEF TxTime
  <2>4. Sent * TX_EDGE_TIME \in Int BY TxTimeType
  <2> QED BY <1>1, <2>1, <2>2, <2>3, <2>4
<1>2. CASE tx_running /\ ~tx_symbol_edge
  <2>1. tx_bits' = tx_bits /\ tx_clock' = tx_clock + 1 BY <1>2, TxStep
  <2>2. tx_running' /\ Sent' = Sent BY <1>2, <2>1 DEF tx_running, Sent
  <2> QED BY <1>2, <2>1, <2>2, TxTimeType DEF TxTime
<1>3. CASE tx_running /\ tx_symbol_edge
  <2>1. tx_bits' = tx_bits - 1 /\ tx_clock' = 0 /\ idle' = 0 BY <1>3, TxStep
  <2>2. Sent' = Sent + 1 /\ Sent \in Int BY <2>1 DEF Sent
  <2>3. TxTime' = (Sent + 1) * TX_EDGE_TIME BY <2>1, <2>2 DEF TxTime
  <2>4. TxTime = Sent * TX_EDGE_TIME + TX_EDGE_TIME - 1
    BY <1>3, TxTimeType DEF tx_symbol_edge
  <2>5. TxTime' = TxTime + 1 BY <2>2, <2>3, <2>4, OneMore
  <2> QED BY <1>3, <2>5, TxTimeType
<1> QED BY <1>1, <1>2, <1>3

\* The frame goes on, or its stop bit is on the line and in both flops.
LEMMA SendOn ==
    ASSUME TypeOK, TX_EDGE_TIME > 2, NEW c \in Byte, Sending(c), Write(<<>>), Line
    PROVE  IF tx_running' THEN Sending(c)' ELSE High'
<1>. USE BitsAssumption, TxAssumption DEF TypeOK, FrameBits
<1>1. tx_running /\ Sent \in 0..BITS + 1 BY TxTimeType DEF Sending
<1>2. tx_shifter[0] = FrameOf(c)[Sent] BY <1>1 DEF Sending
<1>3. serial_out_reg' = FrameOf(c)[Sent] /\ serial_in_reg' = serial_out_reg
  BY <1>1, <1>2 DEF Line, serial_out
<1>4. CASE ~tx_symbol_edge
  <2>1. tx_bits' = tx_bits /\ tx_shifter' = tx_shifter /\ tx_clock' = tx_clock + 1
    BY <1>4, TxStep
  <2>2. tx_running' /\ Sent' = Sent BY <1>1, <2>1 DEF tx_running, Sent
  <2> QED BY <1>1, <1>3, <2>1, <2>2 DEF Sending, LineBit
<1>5. CASE tx_symbol_edge
  <2>1. tx_bits' = tx_bits - 1 /\ tx_shifter' = ShiftIn(tx_shifter, 0) /\ tx_clock' = 0
    BY <1>1, <1>5, TxStep
  <2>2. Sent' = Sent + 1 /\ (tx_running' <=> Sent # BITS + 1)
    BY <1>1, <2>1 DEF tx_running, Sent
  <2>3. serial_out_reg = FrameOf(c)[Sent]
    BY <1>1, <1>5 DEF Sending, LineBit, tx_symbol_edge
  <2>4. CASE Sent = BITS + 1
    BY <1>3, <2>2, <2>3, <2>4, FrameFacts DEF High
  <2>5. CASE Sent # BITS + 1
    <3>1. ASSUME NEW i \in 0..BITS + 1, i + Sent' <= BITS + 1
          PROVE  tx_shifter'[i] = FrameOf(c)[i + Sent']
      <4>1. i + 1 \in 0..BITS + 1 /\ i \in 0..BITS /\ (i + 1) + Sent <= BITS + 1
        BY <1>1, <2>2, <3>1
      <4>2. tx_shifter[i + 1] = FrameOf(c)[(i + 1) + Sent] BY <4>1 DEF Sending
      <4>3. tx_shifter'[i] = tx_shifter[i + 1] BY <2>1, <4>1, ShiftFacts DEF Bit
      <4>4. (i + 1) + Sent = i + Sent' BY <1>1, <2>2
      <4> QED BY <4>2, <4>3, <4>4
    <3> QED BY <1>1, <1>3, <2>1, <2>2, <2>3, <2>5, <3>1 DEF Sending, LineBit
  <2> QED BY <2>4, <2>5
<1> QED BY <1>4, <1>5

\* A silent line stays high until a character is begun.
LEMMA StaySilent ==
    ASSUME TypeOK, Silent, Write(<<>>), Line
    PROVE  Silent'
<1>1. serial_out = 1 BY DEF Silent, serial_out
<1>2. High' BY <1>1 DEF Line, Silent, High
<1>3. ASSUME tx_running'
      PROVE  tx_bits' = 1 /\ tx_clock' >= 2 /\ tx_shifter'[0] = 1
  <2>1. tx_running BY <1>3, TxCounts
  <2>2. tx_bits = 1 /\ tx_clock >= 2 /\ tx_shifter[0] = 1 BY <2>1 DEF Silent
  <2>3. ~tx_symbol_edge BY <1>3, <2>1, <2>2, TxStep DEF tx_running
  <2> QED BY <2>2, <2>3, TxStep DEF TypeOK
<1> QED BY <1>2, <1>3 DEF Silent

-----------------------------------------------------------------------------
\* The receiver.

\* The receiver's registers stay in range.
LEMMA RxTypes ==
    ASSUME TypeOK, NEW read \in BOOLEAN, RxTick(FALSE, serial_in_reg, read)
    PROVE  /\ rx_shift' \in Frame /\ rx_bits' \in 0..FrameBits
           /\ rx_clock' \in 0..RX_EDGE_TIME - 1 /\ has_byte' \in BOOLEAN
<1>. USE BitsAssumption, RxAssumption DEF TypeOK, FrameBits
<1>1. rx_shift' \in Frame BY ShiftFacts DEF RxTick, RxShift
<1>2. rx_bits' \in 0..FrameBits /\ rx_clock' \in 0..RX_EDGE_TIME - 1
  BY DEF RxTick, RxReset, RxStart, RxEdge, RxCount, rx_running, rx_symbol_edge
<1>3. has_byte' \in BOOLEAN BY DEF RxTick, HasByteNext
<1> QED BY <1>1, <1>2, <1>3

\* An idle receiver starts on a low line, and waits on a high one.
LEMMA RxIdle ==
    ASSUME TypeOK, ~rx_running, NEW read \in BOOLEAN, RxTick(FALSE, serial_in_reg, read)
    PROVE  /\ rx_shift' = rx_shift /\ has_byte' = (has_byte /\ ~read)
           /\ serial_in_reg = 1 => ~rx_running'
           /\ serial_in_reg = 0 => rx_running' /\ RxTime' = 0 /\ Samples' = 0
<1>. USE BitsAssumption, RxAssumption DEF TypeOK, FrameBits
<1>1. rx_bits = 0 BY DEF rx_running
<1>2. rx_shift' = rx_shift BY <1>1 DEF RxTick, RxShift, rx_running
<1>3. has_byte' = (has_byte /\ ~read)
  <2>1. rx_bits # 1 BY <1>1
  <2> QED BY <2>1 DEF RxTick, HasByteNext
<1>4. ASSUME serial_in_reg = 1 PROVE ~rx_running'
  BY <1>1, <1>4 DEF RxTick, RxReset, RxStart, RxEdge, RxCount, rx_running
<1>5. ASSUME serial_in_reg = 0 PROVE rx_running' /\ RxTime' = 0 /\ Samples' = 0
  <2>1. rx_bits' = FrameBits /\ rx_clock' = 0
    BY <1>1, <1>5 DEF RxTick, RxReset, RxStart, RxEdge, RxCount, rx_running
  <2>2. Rcvd' = 0 /\ rx_running' BY <2>1 DEF Rcvd, rx_running
  <2> QED BY <2>1, <2>2, HalfBit DEF RxTime, Samples
<1> QED BY <1>2, <1>3, <1>4, <1>5

\* The time since the receiver's start bit, and the samples taken so far.
LEMMA RxTimeType ==
    ASSUME TypeOK
    PROVE  /\ RxTime \in Nat /\ Samples \in 0..FrameBits + 1
           /\ Rcvd \in 0..FrameBits /\ RxTime = Rcvd * RX_EDGE_TIME + rx_clock
           /\ rx_running => /\ Rcvd \in 0..BITS + 1 /\ Samples \in 0..FrameBits
                            /\ RxTime <= RxFrame - 1
<1>. USE BitsAssumption, RxAssumption, HalfBit DEF TypeOK, FrameBits
<1>1. Rcvd \in 0..FrameBits /\ (rx_running => Rcvd \in 0..BITS + 1)
  BY DEF Rcvd, rx_running
<1>2. Rcvd * RX_EDGE_TIME \in Nat BY <1>1
<1>3. ASSUME rx_running PROVE RxTime <= RxFrame - 1
  <2>1. (Rcvd + 1) * RX_EDGE_TIME <= FrameBits * RX_EDGE_TIME
    BY <1>1, <1>3, Monotone
  <2>2. (Rcvd + 1) * RX_EDGE_TIME = Rcvd * RX_EDGE_TIME + RX_EDGE_TIME
    BY <1>1, OneMore
  <2>3. FrameBits * RX_EDGE_TIME \in Int OBVIOUS
  <2>4. RxFrame = FrameBits * RX_EDGE_TIME BY DEF RxFrame
  <2> HIDE DEF FrameBits
  <2> QED BY <1>2, <2>1, <2>2, <2>3, <2>4 DEF RxTime
<1> QED BY <1>1, <1>2, <1>3 DEF RxTime, Samples

\* A running receiver samples, and ends after FrameBits bit times.
LEMMA RxStep ==
    ASSUME TypeOK, rx_running, NEW read \in BOOLEAN, RxTick(FALSE, serial_in_reg, read)
    PROVE  /\ rx_shift' = IF sample THEN ShiftIn(rx_shift, serial_in_reg) ELSE rx_shift
           /\ \/ /\ rx_running' /\ RxTime' = RxTime + 1
                 /\ Samples' = Samples + (IF sample THEN 1 ELSE 0)
                 /\ has_byte' = (has_byte /\ ~read)
              \/ /\ ~rx_running' /\ RxTime = RxFrame - 1
                 /\ Samples + (IF sample THEN 1 ELSE 0) = FrameBits
                 /\ has_byte' = TRUE
<1>. USE BitsAssumption, RxAssumption, HalfBit DEF TypeOK, FrameBits
<1>1. rx_shift' = IF sample THEN ShiftIn(rx_shift, serial_in_reg) ELSE rx_shift
  BY DEF RxTick, RxShift
<1>2. CASE ~rx_symbol_edge
  <2>1. rx_bits' = rx_bits /\ rx_clock' = rx_clock + 1
    BY <1>2 DEF RxTick, RxReset, RxStart, RxEdge, RxCount
  <2>2. rx_running' /\ Rcvd' = Rcvd BY <2>1 DEF rx_running, Rcvd
  <2>3. RxTime' = RxTime + 1
    <3>1. RxTime' = Rcvd * RX_EDGE_TIME + (rx_clock + 1) BY <2>1, <2>2 DEF RxTime
    <3>2. Rcvd * RX_EDGE_TIME \in Int BY RxTimeType
    <3> QED BY <3>1, <3>2, RxTimeType, SMTT(20)
  <2>4. Samples' = Samples + (IF sample THEN 1 ELSE 0)
    BY <2>1, <2>2, RxTimeType DEF Samples, sample
  <2>5. has_byte' = (has_byte /\ ~read) BY <1>2 DEF RxTick, HasByteNext
  <2> QED BY <1>1, <2>2, <2>3, <2>4, <2>5
<1>3. CASE rx_symbol_edge
  <2>1. rx_bits' = rx_bits - 1 /\ rx_clock' = 0
    BY <1>3 DEF RxTick, RxReset, RxStart, RxEdge, RxCount
  <2>2. RxTime = Rcvd * RX_EDGE_TIME + RX_EDGE_TIME - 1 /\ Rcvd \in 0..BITS + 1
    BY <1>3, RxTimeType DEF rx_symbol_edge
  <2>3. RxTime + 1 = (Rcvd + 1) * RX_EDGE_TIME BY <2>2, OneMore
  <2>4. Samples + (IF sample THEN 1 ELSE 0) = Rcvd + 1
    BY <1>3, <2>2 DEF Samples, sample, rx_symbol_edge
  <2>5. Rcvd' = Rcvd + 1 BY <2>1 DEF Rcvd
  <2>6. CASE rx_bits = 1
    <3>1. ~rx_running' /\ Rcvd + 1 = FrameBits BY <2>1, <2>6 DEF rx_running, Rcvd
    <3>2. RxTime = RxFrame - 1
      <4>1. RxTime + 1 = RxFrame BY <2>3, <3>1 DEF RxFrame
      <4> QED BY <4>1, RxTimeType
    <3>3. has_byte' = TRUE BY <1>3, <2>6 DEF RxTick, HasByteNext
    <3> QED BY <1>1, <2>4, <3>1, <3>2, <3>3
  <2>7. CASE rx_bits # 1
    <3>1. rx_running' BY <2>1, <2>7 DEF rx_running
    <3>2. RxTime' = RxTime + 1 BY <2>1, <2>2, <2>3, <2>5 DEF RxTime
    <3>3. Samples' = Samples + (IF sample THEN 1 ELSE 0)
      BY <2>1, <2>2, <2>4, <2>5 DEF Samples
    <3>4. has_byte' = (has_byte /\ ~read) BY <2>7 DEF RxTick, HasByteNext
    <3> QED BY <1>1, <3>1, <3>2, <3>3, <3>4
  <2> QED BY <2>6, <2>7
<1> QED BY <1>2, <1>3

\* One more bit of the frame, if it was the right one.
LEMMA OneMoreBit ==
    ASSUME NEW s \in Frame, NEW n \in 0..BITS + 1, NEW c \in Byte, NEW b \in Bit,
           Content(s, n, c), n <= BITS => b = FrameOf(c)[n]
    PROVE  Content(ShiftIn(s, b), n + 1, c)
<1>. USE BitsAssumption DEF FrameBits
<1>1. ASSUME NEW m \in 0..BITS, m < n + 1
      PROVE  ShiftIn(s, b)[FrameBits - (n + 1) + m] = FrameOf(c)[m]
  <2>1. CASE m = n
    <3>1. FrameBits - (n + 1) + m = BITS + 1 BY <2>1
    <3> QED BY <2>1, <3>1, ShiftFacts
  <2>2. CASE m < n
    <3>1. FrameBits - (n + 1) + m \in 0..BITS /\ FrameBits - (n + 1) + m + 1 = FrameBits - n + m
      BY <2>2
    <3>2. ShiftIn(s, b)[FrameBits - (n + 1) + m] = s[FrameBits - n + m] BY <3>1, ShiftFacts
    <3> QED BY <2>2, <3>2 DEF Content
  <2> QED BY <1>1, <2>1, <2>2
<1> QED BY <1>1 DEF Content

\* A whole frame in the shift register is its character.
LEMMA Whole ==
    ASSUME NEW s \in Frame, NEW c \in Byte, Content(s, FrameBits, c)
    PROVE  Payload(s) = c
<1>. USE BitsAssumption DEF FrameBits
<1>1. ASSUME NEW i \in 1..BITS PROVE s[i] = c[i]
  <2>1. s[FrameBits - FrameBits + i] = FrameOf(c)[i] BY DEF Content
  <2> QED BY <2>1, FrameFacts
<1>2. c = [i \in 1..BITS |-> c[i]] BY DEF Byte
<1> QED BY <1>1, <1>2 DEF Payload

-----------------------------------------------------------------------------
\* Both ends together.

\* A sample is taken while its bit is on the line.
LEMMA SampleOnTime ==
    ASSUME TypeOK, Timing, NEW c \in Byte, Sending(c), rx_running, sample,
           RxTime = TxTime - 3, Rcvd <= BITS
    PROVE  serial_in_reg = FrameOf(c)[Rcvd]
<1>. USE BitsAssumption, TxAssumption, RxAssumption DEF TypeOK, FrameBits
<1>. DEFINE T == TX_EDGE_TIME
            j == Rcvd
            k == Sent
            a == j * T
<1>1. tx_running /\ k \in 0..BITS + 1 /\ j \in 0..BITS /\ T \in Nat /\ T > 2 /\ tx_clock \in 0..T - 1
  BY TxTimeType, RxTimeType, BitTimes DEF Sending
<1>2. TxTime = k * T + tx_clock /\ RxTime = j * RX_EDGE_TIME + RX_EDGE_TIME \div 2
  BY <1>1, TxTimeType, RxTimeType DEF sample
<1>3. /\ a <= j * RX_EDGE_TIME + RX_EDGE_TIME \div 2 + 1
      /\ j * RX_EDGE_TIME + RX_EDGE_TIME \div 2 + 1 < (j + 1) * T
      /\ (j + 1) * T = a + T
  BY <1>1, BitTimes, OneMore
<1>4. a \in Int /\ k * T \in Int /\ TxTime \in Int /\ RxTime \in Int
  BY <1>1, TxTimeType, RxTimeType
<1>5. a + 2 <= k * T + tx_clock /\ k * T + tx_clock < a + T + 2
  <2>. HIDE DEF a, k, j, T
  <2>1. TxTime = RxTime + 3 BY <1>4
  <2>2. RxTime \in Int /\ a <= RxTime + 1 /\ RxTime + 1 < a + T
    BY <1>2, <1>3, <1>4
  <2> QED BY <1>1, <1>2, <1>4, <2>1, <2>2 DEF T
<1>6. k >= j
  <2>1. SUFFICES ASSUME k + 1 <= j PROVE FALSE BY <1>1
  <2>2. (k + 1) * T <= j * T BY <1>1, <2>1, Monotone
  <2>3. (k + 1) * T = k * T + T BY <1>1, OneMore
  <2> HIDE DEF k, j, T
  <2> QED BY <1>1, <1>4, <1>5, <2>2, <2>3
<1>7. k <= j + 1
  <2>1. SUFFICES ASSUME j + 2 <= k PROVE FALSE BY <1>1
  <2>2. (j + 2) * T <= k * T BY <1>1, <2>1, Monotone
  <2>3. (j + 2) * T = a + T + T
    <3>1. (j + 2) * T = (j + 1) * T + T BY <1>1
    <3> QED BY <1>3, <3>1
  <2> HIDE DEF k, j, T, a
  <2> QED BY <1>1, <1>4, <1>5, <2>2, <2>3
<1>8. CASE k = j
  <2>1. tx_clock >= 2
    <3>1. k * T = a BY <1>8
    <3> HIDE DEF k, j, T, a
    <3> QED BY <1>1, <1>4, <1>5, <3>1
  <2> QED BY <1>1, <1>8, <2>1 DEF Sending, LineBit
<1>9. CASE k = j + 1
  <2>1. tx_clock < 2
    <3>1. k * T = a + T BY <1>3, <1>9
    <3> HIDE DEF k, j, T, a
    <3> QED BY <1>1, <1>4, <1>5, <3>1
  <2> QED BY <1>1, <1>9, <2>1 DEF Sending, LineBit
<1> QED BY <1>1, <1>6, <1>7, <1>8, <1>9

\* The data bits are in when the frame is over.
LEMMA AllSampled ==
    ASSUME TypeOK, Timing, rx_running, RxTime >= FrameBits * TX_EDGE_TIME - 3
    PROVE  Samples > BITS
<1>. USE BitsAssumption, TxAssumption, RxAssumption
<1>. DEFINE h == RX_EDGE_TIME \div 2
<1>1. Rcvd \in 0..BITS + 1 /\ RxTime = Rcvd * RX_EDGE_TIME + rx_clock /\ rx_clock \in Nat
  BY RxTimeType DEF TypeOK
<1>2. SUFFICES ASSUME Rcvd <= BITS, rx_clock <= h \/ Rcvd < BITS PROVE FALSE
  BY <1>1, HalfBit DEF Samples
<1>3. BITS * RX_EDGE_TIME + h + 1 < (BITS + 1) * TX_EDGE_TIME /\ TX_EDGE_TIME > 2
  BY BitTimes
<1>4. FrameBits * TX_EDGE_TIME = (BITS + 1) * TX_EDGE_TIME + TX_EDGE_TIME
  BY DEF FrameBits
<1>5. BITS * RX_EDGE_TIME \in Int /\ (BITS + 1) * TX_EDGE_TIME \in Int /\ h \in Nat
      /\ FrameBits * TX_EDGE_TIME \in Int /\ Rcvd * RX_EDGE_TIME \in Int
  BY <1>1, HalfBit DEF FrameBits
<1>6. RxTime > BITS * RX_EDGE_TIME + h
  <2> HIDE DEF h
  <2> QED BY <1>1, <1>3, <1>4, <1>5
<1>7. CASE Rcvd = BITS
  BY <1>1, <1>2, <1>5, <1>6, <1>7
<1>8. CASE Rcvd + 1 <= BITS
  <2>1. (Rcvd + 1) * RX_EDGE_TIME <= BITS * RX_EDGE_TIME BY <1>1, <1>8, Monotone
  <2>2. (Rcvd + 1) * RX_EDGE_TIME = Rcvd * RX_EDGE_TIME + RX_EDGE_TIME BY <1>1, OneMore
  <2>3. rx_clock < RX_EDGE_TIME BY DEF TypeOK
  <2> HIDE DEF h
  <2> QED BY <1>1, <1>5, <1>6, <2>1, <2>2, <2>3
<1> QED BY <1>1, <1>2, <1>7, <1>8

\* A cycle of the receiver, when what it samples is right.
LEMMA Receives ==
    ASSUME TypeOK, rx_running, NEW read \in BOOLEAN, RxTick(FALSE, serial_in_reg, read),
           NEW c \in Byte, Content(rx_shift, Samples, c),
           sample /\ Samples <= BITS => serial_in_reg = FrameOf(c)[Samples]
    PROVE  IF rx_running'
           THEN /\ RxTime' = RxTime + 1 /\ has_byte' = (has_byte /\ ~read)
                /\ Content(rx_shift, Samples, c)'
           ELSE RxTime = RxFrame - 1 /\ has_byte' = TRUE /\ Payload(rx_shift') = c
<1>. DEFINE n == Samples + (IF sample THEN 1 ELSE 0)
<1>. USE BitsAssumption
<1>1. Content(rx_shift', n, c)
  <2>1. CASE sample
    <3>1. Samples = Rcvd /\ Rcvd \in 0..BITS + 1
      BY <2>1, RxTimeType DEF Samples, sample
    <3>2. rx_shift' = ShiftIn(rx_shift, serial_in_reg) BY <2>1, RxStep
    <3>3. rx_shift \in Frame /\ serial_in_reg \in Bit BY DEF TypeOK
    <3>4. Content(ShiftIn(rx_shift, serial_in_reg), Samples + 1, c)
      BY <2>1, <3>1, <3>3, OneMoreBit
    <3> QED BY <2>1, <3>2, <3>4
  <2>2. CASE ~sample
    <3>1. n = Samples BY <2>2, RxTimeType
    <3> QED BY <2>2, <3>1, RxStep
  <2> QED BY <2>1, <2>2
<1>2. CASE rx_running'
  <2>1. Samples' = n BY <1>2, RxStep
  <2>2. Content(rx_shift, Samples, c)' BY <1>1, <2>1 DEF Content
  <2> QED BY <1>2, <2>2, RxStep
<1>3. CASE ~rx_running'
  <2>1. n = FrameBits BY <1>3, RxStep
  <2>2. Payload(rx_shift') = c BY <1>1, <2>1, RxTypes, Whole
  <2> QED BY <1>3, <2>2, RxStep
<1> QED BY <1>2, <1>3

\* At the beginning of a frame the receiver has not seen it for two cycles.
LEMMA Early ==
    ASSUME TypeOK, Timing, NEW c \in Byte, Sending(c), TxTime <= TX_EDGE_TIME,
           Write(<<>>), Line
    PROVE  /\ Sending(c)' /\ tx_running' /\ TxTime' = TxTime + 1
           /\ TxTime < 2 => serial_in_reg = 1
           /\ TxTime = 2 => serial_in_reg = 0
<1>. USE BitsAssumption, TxAssumption DEF FrameBits
<1>1. tx_running /\ TX_EDGE_TIME > 2 /\ TxTime' = TxTime + 1
  BY BitTimes, TxCounts DEF Sending
<1>2. TxTime = Sent * TX_EDGE_TIME + tx_clock /\ Sent \in 0..BITS + 1
      /\ tx_clock \in 0..TX_EDGE_TIME - 1
  BY <1>1, TxTimeType DEF TypeOK
<1>3. Sent <= 1 /\ (Sent = 1 => TxTime >= TX_EDGE_TIME)
  <2>1. ASSUME 2 <= Sent PROVE FALSE
    <3>1. 2 * TX_EDGE_TIME <= Sent * TX_EDGE_TIME BY <1>2, <2>1, Monotone
    <3>2. Sent * TX_EDGE_TIME \in Int BY <1>2
    <3> QED BY <1>2, <3>1, <3>2
  <2>2. Sent = 1 => TxTime >= TX_EDGE_TIME BY <1>2
  <2> QED BY <1>2, <2>1, <2>2
<1>4. tx_running'
  <2>1. tx_bits >= FrameBits - 1 BY <1>2, <1>3 DEF Sent, TypeOK
  <2>2. tx_bits' \in {tx_bits, tx_bits - 1} BY TxStep
  <2> QED BY <2>1, <2>2 DEF tx_running, TypeOK
<1>5. Sending(c)' BY <1>1, <1>4, SendOn
<1>6. TxTime <= 2 => Sent = 0 /\ tx_clock = TxTime BY <1>1, <1>2, <1>3
<1>7. TxTime < 2 => serial_in_reg = 1 BY <1>2, <1>6 DEF Sending, LineBit
<1>8. TxTime = 2 => serial_in_reg = 0
  BY <1>2, <1>6, FrameFacts DEF Sending, LineBit
<1> QED BY <1>1, <1>4, <1>5, <1>7, <1>8

\* After a reception the stop bit of its frame is on the line, or its pause.
LEMMA StopBit ==
    ASSUME TypeOK, Timing, NEW c \in Byte, Sending(c), TxTime >= RxFrame + 2
    PROVE  Silent
<1>. USE BitsAssumption, TxAssumption, RxAssumption DEF FrameBits
<1>. DEFINE h == RX_EDGE_TIME \div 2
            s == (BITS + 1) * TX_EDGE_TIME
<1>1. tx_running /\ TxTime = Sent * TX_EDGE_TIME + tx_clock /\ Sent \in 0..BITS + 1
      /\ tx_clock \in 0..TX_EDGE_TIME - 1
  BY TxTimeType DEF Sending, TypeOK
<1>2. s <= (BITS + 1) * RX_EDGE_TIME + h + 1 BY BitTimes
<1>3. RxFrame = (BITS + 1) * RX_EDGE_TIME + RX_EDGE_TIME BY DEF RxFrame
<1>4. s \in Int /\ (BITS + 1) * RX_EDGE_TIME \in Int /\ h \in Nat /\ h < RX_EDGE_TIME
      /\ Sent * TX_EDGE_TIME \in Int
  BY <1>1, HalfBit
<1>5. TxTime >= s + 2
  <2> HIDE DEF s, h
  <2>1. TxTime \in Int /\ RxFrame \in Int BY <1>1, <1>3, <1>4
  <2> QED BY <1>2, <1>3, <1>4, <2>1
<1>6. Sent = BITS + 1
  <2>1. SUFFICES ASSUME Sent + 1 <= BITS + 1 PROVE FALSE BY <1>1
  <2>2. (Sent + 1) * TX_EDGE_TIME <= s BY <1>1, <2>1, Monotone
  <2>3. (Sent + 1) * TX_EDGE_TIME = Sent * TX_EDGE_TIME + TX_EDGE_TIME BY <1>1, OneMore
  <2> HIDE DEF s
  <2> QED BY <1>1, <1>4, <1>5, <2>2, <2>3
<1>7. tx_clock >= 2
  <2>1. TxTime = s + tx_clock BY <1>1, <1>6
  <2> HIDE DEF s
  <2> QED BY <1>1, <1>4, <1>5, <2>1
<1>8. tx_bits = 1 BY <1>6 DEF Sent, TypeOK
<1>9. serial_out_reg = 1 /\ serial_in_reg = 1 /\ tx_shifter[0] = 1
  BY <1>1, <1>6, <1>7, FrameFacts DEF Sending, LineBit
<1> QED BY <1>7, <1>8, <1>9 DEF Silent, High

\* The reader's part of a cycle.
Reader(read) == IF read THEN Read ELSE Poll \/ Busy

\* The reader polls every POLL cycles and reads only after a good poll.
LEMMA Reads ==
    ASSUME TypeOK, NEW read \in BOOLEAN, Reader(read)
    PROVE  /\ seen' \in 0..LATENCY /\ poll' \in 0..POLL - 1
           /\ read => seen # 0 /\ seen' = 0
           /\ ~read /\ seen # 0 => seen' # 0
           /\ seen = 0 /\ ~has_byte => ~read /\ seen' = 0
           /\ seen = 0 /\ data_out_valid /\ poll = POLL - 1 => seen' # 0
<1>. USE LinkAssumption DEF TypeOK
<1>1. CASE read BY <1>1 DEF Reader, Read
<1>2. CASE ~read BY <1>2 DEF Reader, Poll, Busy, data_out_valid
<1> QED BY <1>1, <1>2

\* A reader that is in time stays so in a cycle in which it does not read.
LEMMA StillInTime ==
    ASSUME TypeOK, Reader(FALSE), NEW t \in Int, NEW u \in Int, u <= t + 1,
           InTime(t), seen # 0 \/ data_out_valid
    PROVE  IF seen' = 0 THEN poll' >= u ELSE seen' + POLL - 1 >= u
<1>. USE LinkAssumption DEF TypeOK
<1>1. CASE seen = 0
  <2>1. poll >= t BY <1>1 DEF InTime
  <2>2. CASE Poll BY <1>1, <2>1, <2>2 DEF Poll
  <2>3. CASE Busy BY <1>1, <2>1, <2>3 DEF Busy
  <2> QED BY <2>2, <2>3 DEF Reader
<1>2. CASE seen # 0
  <2>1. seen + POLL - 1 >= t BY <1>2 DEF InTime
  <2>2. seen' = seen + 1 BY <1>2 DEF Reader, Poll, Busy
  <2> QED BY <2>1, <2>2
<1> QED BY <1>1, <1>2

-----------------------------------------------------------------------------
\* One cycle from each state of the transit. A read gives the first character.

Cycles(written, read) ==
    /\ Line /\ Write(written) /\ RxTick(FALSE, serial_in_reg, read) /\ Reader(read)
    /\ queue' = SubSeq(queue, IF read THEN 2 ELSE 1, Len(queue)) \o written
    /\ got' = IF read THEN Payload(rx_shift') ELSE got

InOrder(read) == InTransit' /\ (read => queue # <<>> /\ got' = Head(queue))

\* A character is begun, or none.
LEMMA FromEmpty ==
    ASSUME TypeOK, Timing, Empty,
           NEW written \in Quiet, NEW read \in BOOLEAN, Cycles(written, read)
    PROVE  InOrder(read)
<1>1. ~read /\ seen' = 0 BY Reads DEF Empty, Cycles
<1>2. ~rx_running' /\ ~has_byte' BY RxIdle DEF Empty, Silent, High, Cycles
<1>3. CASE written = <<>>
  <2>1. queue' = <<>> BY <1>1, <1>3, Queues, FrameFacts DEF Empty, Cycles, Quiet, TypeOK
  <2>2. Silent' BY <1>3, StaySilent DEF Empty, Cycles
  <2> QED BY <1>1, <1>2, <2>1, <2>2 DEF InOrder, InTransit, Empty
<1>4. ASSUME NEW d \in Byte, written = <<d>> PROVE InOrder(read)
  <2>1. queue' = <<d>> BY <1>1, <1>4, Queues DEF Empty, Cycles
  <2>2. Sending(d)' /\ TxTime' = 0 BY <1>4, Begin DEF Empty, Silent, Cycles
  <2>3. Flying(d)' BY <1>1, <1>2, <2>1, <2>2 DEF Flying
  <2> QED BY <1>1, <2>3 DEF InOrder, InTransit
<1> QED BY <1>3, <1>4 DEF Quiet

\* The character goes on or arrives; the next may be begun before it does.
LEMMA FromFlying ==
    ASSUME TypeOK, Timing, NEW c \in Byte, Flying(c),
           NEW written \in Quiet, NEW read \in BOOLEAN, Cycles(written, read)
    PROVE  InOrder(read)
<1>. USE LinkAssumption
<1>1. ~read /\ seen' = 0 /\ poll' \in Int /\ poll' >= 0
  BY Reads DEF Flying, Cycles
<1>2. TxTime \in Int /\ RxTime \in Int /\ RxFrame \in Int
  BY TxTimeType, RxTimeType, BitsAssumption, RxAssumption DEF RxFrame, FrameBits
<1>3. CASE rx_running /\ ~tx_running
  <2>1. High /\ Silent /\ RxTime >= TxTime - 3 /\ Content(rx_shift, Samples, c)
    BY <1>3 DEF Flying, Sending, Silent
  <2>2. TxTime >= FrameBits * TX_EDGE_TIME /\ FrameBits * TX_EDGE_TIME \in Int
    BY <1>3, TxTimeType, BitsAssumption, TxAssumption DEF TypeOK, FrameBits
  <2>3. Samples > BITS /\ Samples \in Int
    BY <1>2, <1>3, <2>1, <2>2, AllSampled, RxTimeType
  <2>4. ~(Samples <= BITS) BY <2>3, BitsAssumption
  <2>5. IF rx_running'
        THEN RxTime' = RxTime + 1 /\ ~has_byte' /\ Content(rx_shift, Samples, c)'
        ELSE RxTime = RxFrame - 1 /\ has_byte' /\ Payload(rx_shift') = c
    BY <1>3, <2>1, <2>4, Receives DEF Flying, Cycles
  <2>6. CASE written = <<>>
    <3>1. queue' = <<c>> BY <1>1, <2>6, Queues DEF Flying, Cycles
    <3>2. Silent' /\ ~tx_running' BY <1>3, <2>1, <2>6, StaySilent, TxCounts DEF Cycles
    <3>5. PICK u \in Int : TxTime' = u /\ u <= TxTime + 1 BY <2>6, TxCounts DEF Cycles
    <3>3. CASE rx_running'
      <4>1. RxTime' >= TxTime' - 3 BY <1>2, <2>1, <2>5, <3>5, <3>3
      <4>2. Flying(c)' BY <1>1, <2>5, <3>1, <3>2, <3>3, <4>1 DEF Flying, Silent
      <4> QED BY <1>1, <4>2 DEF InOrder, InTransit
    <3>4. CASE ~rx_running'
      <4>1. TxTime' - RxFrame - 3 <= 0 BY <1>2, <2>1, <2>5, <3>4, <3>5
      <4>2. InTime(TxTime - RxFrame - 3)'
        <5>1. poll' >= TxTime' - RxFrame - 3 BY <1>1, <1>2, <3>5, <4>1
        <5> QED BY <1>1, <5>1 DEF InTime, RxFrame
      <4>3. Arrived(c)' BY <2>5, <3>1, <3>2, <3>4, <4>2 DEF Arrived
      <4> QED BY <1>1, <4>3 DEF InOrder, InTransit
    <3> QED BY <3>3, <3>4
  <2>7. ASSUME NEW d \in Byte, written = <<d>> PROVE InOrder(read)
    <3>1. queue' = <<c, d>> BY <1>1, <2>7, Queues DEF Flying, Cycles
    <3>2. Sending(d)' /\ TxTime' = 0 /\ TxTime = Period - 1
      BY <2>1, <2>7, Begin DEF Cycles
    <3>3. Period \in Int BY BitsAssumption, TxAssumption DEF Period, FrameBits
    <3>4. CASE rx_running'
      <4>1. RxTime' >= Period + TxTime' - 3 BY <1>2, <2>1, <2>5, <3>2, <3>3, <3>4
      <4>2. FlyingTwo(c, d)' BY <1>1, <2>5, <3>1, <3>2, <3>4, <4>1 DEF FlyingTwo, Period
      <4> QED BY <1>1, <4>2 DEF InOrder, InTransit
    <3>5. CASE ~rx_running'
      <4>1. Period + TxTime' - RxFrame - 3 <= 0 BY <1>2, <2>1, <2>5, <3>2, <3>3, <3>5
      <4>2. poll' >= Period + TxTime' - RxFrame - 3 BY <1>1, <1>2, <3>2, <3>3, <4>1
      <4>3. InTime(Period + TxTime - RxFrame - 3)'
        BY <1>1, <4>2 DEF InTime, RxFrame, Period
      <4>4. ArrivedTwo(c, d)' BY <2>5, <3>1, <3>2, <3>5, <4>3 DEF ArrivedTwo
      <4> QED BY <1>1, <4>4 DEF InOrder, InTransit
    <3> QED BY <3>4, <3>5
  <2> QED BY <2>6, <2>7 DEF Quiet
<1>4. CASE tx_running
  <2>1. Sending(c) BY <1>4 DEF Flying
  <2>2. written = <<>> /\ Write(<<>>) /\ Line /\ queue' = <<c>>
    <3>1. written = <<>> BY <1>4 DEF Cycles, Write, data_in_ready
    <3> QED BY <1>1, <3>1, Queues DEF Flying, Cycles
  <2>3. TxTime' = TxTime + 1 BY <1>4, <2>2, TxCounts
  <2>4. CASE ~rx_running
    <3>1. TxTime <= 2 /\ TxTime <= TX_EDGE_TIME
      BY <1>2, <2>4, BitTimes, TxAssumption DEF Flying
    <3>2. Sending(c)' /\ (TxTime < 2 => serial_in_reg = 1) /\ (TxTime = 2 => serial_in_reg = 0)
      BY <2>1, <2>2, <3>1, Early
    <3>3. ~has_byte' BY <2>4, RxIdle DEF Flying, Cycles
    <3>4. CASE TxTime < 2
      <4>1. ~rx_running' BY <2>4, <3>2, <3>4, RxIdle DEF Cycles
      <4>2. TxTime' <= 2 BY <1>2, <2>3, <3>4
      <4>3. Flying(c)' BY <1>1, <2>2, <3>2, <3>3, <4>1, <4>2 DEF Flying
      <4> QED BY <1>1, <4>3 DEF InOrder, InTransit
    <3>5. CASE TxTime = 2
      <4>1. rx_running' /\ RxTime' = 0 /\ Samples' = 0
        BY <2>4, <3>2, <3>5, RxIdle DEF Cycles
      <4>2. RxTime' = TxTime' - 3 /\ Content(rx_shift, Samples, c)'
        BY <2>3, <3>5, <4>1 DEF Content
      <4>3. Flying(c)' BY <1>1, <2>2, <3>2, <3>3, <4>1, <4>2 DEF Flying
      <4> QED BY <1>1, <4>3 DEF InOrder, InTransit
    <3> QED BY <1>2, <3>1, <3>4, <3>5
  <2>5. CASE rx_running
    <3>1. Content(rx_shift, Samples, c) /\ RxTime = TxTime - 3
      BY <1>4, <2>5 DEF Flying
    <3>2. sample /\ Samples <= BITS => serial_in_reg = FrameOf(c)[Samples]
      <4>1. sample => Samples = Rcvd BY RxTimeType DEF sample, Samples
      <4> QED BY <2>1, <2>5, <3>1, <4>1, SampleOnTime
    <3>3. IF rx_running'
          THEN RxTime' = RxTime + 1 /\ ~has_byte' /\ Content(rx_shift, Samples, c)'
          ELSE RxTime = RxFrame - 1 /\ has_byte' /\ Payload(rx_shift') = c
      BY <2>5, <3>1, <3>2, Receives DEF Flying, Cycles
    <3>4. CASE rx_running'
      <4>1. RxTime' = TxTime' - 3 BY <1>2, <2>3, <3>1, <3>3, <3>4
      <4>2. IF tx_running' THEN Sending(c)' ELSE High'
        BY <2>1, <2>2, SendOn, BitTimes
      <4>3. RxTime' >= TxTime' - 3 BY <1>2, <2>3, <4>1
      <4>4. Flying(c)' BY <1>1, <2>2, <3>3, <3>4, <4>1, <4>2, <4>3 DEF Flying
      <4> QED BY <1>1, <4>4 DEF InOrder, InTransit
    <3>5. CASE ~rx_running'
      <4>1. TxTime = RxFrame + 2 BY <1>2, <3>1, <3>3, <3>5
      <4>2. Silent' BY <1>2, <2>1, <2>2, <4>1, StopBit, StaySilent
      <4>3. TxTime' - RxFrame - 3 = 0 BY <1>2, <2>3, <4>1
      <4>4. InTime(TxTime - RxFrame - 3)' BY <1>1, <4>3 DEF InTime, RxFrame
      <4>5. Arrived(c)' BY <2>2, <3>3, <3>5, <4>2, <4>4 DEF Arrived
      <4> QED BY <1>1, <4>5 DEF InOrder, InTransit
    <3> QED BY <3>4, <3>5
  <2> QED BY <2>4, <2>5
<1>5. CASE ~rx_running /\ ~tx_running BY <1>5 DEF Flying, Sending
<1> QED BY <1>3, <1>4, <1>5

\* The character is read or waits; the next may be begun.
LEMMA FromArrived ==
    ASSUME TypeOK, Timing, NEW c \in Byte, Arrived(c),
           NEW written \in Quiet, NEW read \in BOOLEAN, Cycles(written, read)
    PROVE  InOrder(read)
<1>1. TxTime \in Int /\ RxFrame \in Int /\ Period \in Int
  BY TxTimeType, BitsAssumption, TxAssumption, RxAssumption, LinkAssumption
     DEF RxFrame, Period, FrameBits
<1>2. has_byte /\ data_out_valid /\ serial_in_reg = 1 /\ Silent /\ High
  BY DEF Arrived, data_out_valid, Silent, High
<1>3. ~rx_running' /\ rx_shift' = rx_shift /\ has_byte' = (has_byte /\ ~read)
  BY <1>2, RxIdle DEF Arrived, Cycles
<1>4. queue = <<c>> /\ Payload(rx_shift) = c BY DEF Arrived
<1>5. CASE read
  <2>1. seen' = 0 /\ got' = Head(queue) /\ queue # <<>>
    BY <1>3, <1>4, <1>5, Reads, Queues DEF Cycles
  <2>2. CASE written = <<>>
    <3>1. queue' = <<>> BY <1>4, <1>5, <2>2, Queues DEF Cycles
    <3>2. Silent' BY <1>2, <2>2, StaySilent DEF Cycles
    <3>3. Empty' BY <1>3, <1>5, <2>1, <3>1, <3>2 DEF Empty
    <3> QED BY <2>1, <3>3 DEF InOrder, InTransit
  <2>3. ASSUME NEW d \in Byte, written = <<d>> PROVE InOrder(read)
    <3>1. queue' = <<d>> BY <1>4, <1>5, <2>3, Queues DEF Cycles
    <3>2. Sending(d)' /\ TxTime' = 0 BY <1>2, <2>3, Begin DEF Cycles
    <3>3. TxTime' <= 2 BY <3>2
    <3>4. ~has_byte' BY <1>3, <1>5
    <3>5. Flying(d)' BY <1>3, <2>1, <3>1, <3>2, <3>3, <3>4 DEF Flying
    <3> QED BY <2>1, <3>5 DEF InOrder, InTransit
  <2> QED BY <2>2, <2>3 DEF Quiet
<1>6. CASE ~read
  <2>. DEFINE t == TxTime - RxFrame - 3
  <2>1. Reader(FALSE) /\ InTime(t) /\ t \in Int
    <3>1. Reader(FALSE) BY <1>6 DEF Cycles
    <3>2. InTime(t) BY DEF Arrived
    <3>3. t \in Int BY <1>1
    <3> HIDE DEF t
    <3> QED BY <3>1, <3>2, <3>3
  <2>2. CASE written = <<>>
    <3>1. queue' = <<c>> BY <1>4, <1>6, <2>2, Queues DEF Cycles
    <3>2. Silent' BY <1>2, <2>2, StaySilent DEF Cycles
    <3>3. PICK u \in Int : TxTime' = u /\ u <= TxTime + 1 BY <2>2, TxCounts DEF Cycles
    <3>4. u - RxFrame - 3 \in Int /\ u - RxFrame - 3 <= t + 1 BY <1>1, <3>3
    <3>5. IF seen' = 0 THEN poll' >= u - RxFrame - 3 ELSE seen' + POLL - 1 >= u - RxFrame - 3
      <4> HIDE DEF t
      <4> QED BY <1>2, <2>1, <3>4, StillInTime
    <3>6. InTime(TxTime - RxFrame - 3)' BY <3>3, <3>5 DEF InTime, RxFrame
    <3>7. Arrived(c)' BY <1>2, <1>3, <1>4, <1>6, <3>1, <3>2, <3>6 DEF Arrived
    <3> QED BY <1>6, <3>7 DEF InOrder, InTransit
  <2>3. ASSUME NEW d \in Byte, written = <<d>> PROVE InOrder(read)
    <3>1. queue' = <<c, d>> BY <1>4, <1>6, <2>3, Queues DEF Cycles
    <3>2. Sending(d)' /\ TxTime' = 0 /\ TxTime = Period - 1 BY <1>2, <2>3, Begin DEF Cycles
    <3>. DEFINE u == Period - RxFrame - 3
    <3>3. u \in Int /\ u <= t + 1 BY <1>1, <3>2
    <3>4. IF seen' = 0 THEN poll' >= u ELSE seen' + POLL - 1 >= u
      <4> HIDE DEF t, u
      <4> QED BY <1>2, <2>1, <3>3, StillInTime
    <3>5. Period + TxTime' - RxFrame - 3 = u BY <1>1, <3>2
    <3>6. InTime(Period + TxTime - RxFrame - 3)'
      <4> HIDE DEF u
      <4> QED BY <3>4, <3>5 DEF InTime, RxFrame, Period
    <3>7. TxTime' <= 2 BY <3>2
    <3>8. has_byte' BY <1>2, <1>3, <1>6
    <3>9. ArrivedTwo(c, d)'
      BY <1>3, <1>4, <3>1, <3>2, <3>6, <3>7, <3>8 DEF ArrivedTwo
    <3> QED BY <1>6, <3>9 DEF InOrder, InTransit
  <2> QED BY <2>2, <2>3 DEF Quiet
<1> QED BY <1>5, <1>6

\* The first of two characters arrives before the receiver sees the second.
LEMMA FromFlyingTwo ==
    ASSUME TypeOK, Timing, NEW c \in Byte, NEW d \in Byte, FlyingTwo(c, d),
           NEW written \in Quiet, NEW read \in BOOLEAN, Cycles(written, read)
    PROVE  InOrder(read)
<1>. USE LinkAssumption
<1>1. ~read /\ seen' = 0 /\ poll' \in Int /\ poll' >= 0
  BY Reads DEF FlyingTwo, Cycles
<1>2. /\ TxTime \in Nat /\ RxTime \in Int /\ RxFrame \in Int /\ Period \in Int
      /\ FrameBits * TX_EDGE_TIME \in Int /\ Period = FrameBits * TX_EDGE_TIME + GAP + 1
  BY TxTimeType, RxTimeType, BitsAssumption, TxAssumption, RxAssumption
     DEF RxFrame, Period, FrameBits
<1>3. /\ tx_running /\ rx_running /\ Sending(d) /\ TxTime <= 2
      /\ RxTime >= Period + TxTime - 3 /\ Content(rx_shift, Samples, c)
  BY DEF FlyingTwo, Sending
<1>4. written = <<>> /\ Write(<<>>) /\ Line /\ queue' = <<c, d>>
  <2>1. written = <<>> BY <1>3 DEF Cycles, Write, data_in_ready
  <2> QED BY <1>1, <2>1, Queues DEF FlyingTwo, Cycles
<1>5. TxTime < 2
  <2>1. RxTime <= RxFrame - 1 BY <1>3, RxTimeType
  <2>2. RxFrame + POLL <= Period BY <1>2 DEF Timing, RxFrame
  <2> QED BY <1>2, <1>3, <2>1, <2>2
<1>6. Samples > BITS /\ Samples \in Int
  BY <1>2, <1>3, AllSampled, RxTimeType
<1>7. ~(Samples <= BITS) BY <1>6, BitsAssumption
<1>8. IF rx_running'
      THEN RxTime' = RxTime + 1 /\ ~has_byte' /\ Content(rx_shift, Samples, c)'
      ELSE RxTime = RxFrame - 1 /\ has_byte' /\ Payload(rx_shift') = c
  BY <1>3, <1>7, Receives DEF FlyingTwo, Cycles
<1>9. Sending(d)' /\ TxTime' = TxTime + 1
  <2>1. TxTime <= TX_EDGE_TIME BY <1>2, <1>3, BitTimes, TxAssumption
  <2> QED BY <1>3, <1>4, <2>1, Early
<1>10. TxTime' <= 2 BY <1>2, <1>5, <1>9
<1>11. CASE rx_running'
  <2>1. RxTime' >= Period + TxTime' - 3 BY <1>2, <1>3, <1>8, <1>9, <1>11
  <2>2. FlyingTwo(c, d)'
    BY <1>1, <1>4, <1>8, <1>9, <1>10, <1>11, <2>1 DEF FlyingTwo, Period
  <2> QED BY <1>1, <2>2 DEF InOrder, InTransit
<1>12. CASE ~rx_running'
  <2>1. Period + TxTime' - RxFrame - 3 <= 0 BY <1>2, <1>3, <1>8, <1>9, <1>12
  <2>2. poll' >= Period + TxTime' - RxFrame - 3 BY <1>1, <1>2, <1>9, <2>1
  <2>3. InTime(Period + TxTime - RxFrame - 3)'
    BY <1>1, <2>2 DEF InTime, RxFrame, Period
  <2>4. ArrivedTwo(c, d)'
    BY <1>4, <1>8, <1>9, <1>10, <1>12, <2>3 DEF ArrivedTwo
  <2> QED BY <1>1, <2>4 DEF InOrder, InTransit
<1> QED BY <1>11, <1>12

\* The first is polled before the second starts the receiver, and read before the
\* second is sampled.
LEMMA FromArrivedTwo ==
    ASSUME TypeOK, Timing, NEW c \in Byte, NEW d \in Byte, ArrivedTwo(c, d),
           NEW written \in Quiet, NEW read \in BOOLEAN, Cycles(written, read)
    PROVE  InOrder(read)
<1>. USE LinkAssumption
<1>. DEFINE h == RX_EDGE_TIME \div 2
            t == Period + TxTime - RxFrame - 3
            u == t + 1
<1>1. /\ TxTime \in Nat /\ RxTime \in Nat /\ RxFrame \in Int /\ Period \in Int
      /\ FrameBits * TX_EDGE_TIME \in Int /\ Period = FrameBits * TX_EDGE_TIME + GAP + 1
  BY TxTimeType, RxTimeType, BitsAssumption, TxAssumption, RxAssumption
     DEF RxFrame, Period, FrameBits
<1>2. /\ tx_running /\ Sending(d) /\ has_byte /\ Payload(rx_shift) = c /\ queue = <<c, d>>
      /\ InTime(t) /\ t \in Int /\ u \in Int
  BY <1>1 DEF ArrivedTwo, Sending
<1>3. written = <<>> /\ Write(<<>>) /\ Line
      /\ queue' = (IF read THEN <<d>> ELSE <<c, d>>)
  <2>1. written = <<>> BY <1>2 DEF Cycles, Write, data_in_ready
  <2> QED BY <1>2, <2>1, Queues DEF Cycles
<1>4. RxFrame + POLL <= Period /\ RxFrame + POLL + LATENCY <= Period + h
  BY <1>1 DEF Timing, RxFrame
<1>5. h \in Nat /\ TX_EDGE_TIME > 2 /\ h + 1 < TX_EDGE_TIME /\ TX_EDGE_TIME \in Int
  <2>1. 0 * RX_EDGE_TIME + h + 1 < (0 + 1) * TX_EDGE_TIME BY BitTimes, BitsAssumption
  <2> QED BY <2>1, HalfBit, BitTimes, TxAssumption, RxAssumption
<1>6. SUFFICES ASSUME /\ rx_shift' = rx_shift /\ has_byte' = (has_byte /\ ~read)
                      /\ Sending(d)' /\ TxTime' = TxTime + 1
                      /\ \/ ~rx_running /\ ~rx_running' /\ TxTime < 2
                         \/ ~rx_running /\ rx_running' /\ TxTime = 2 /\ RxTime' = 0 /\ Samples' = 0
                         \/ /\ rx_running /\ rx_running' /\ RxTime = TxTime - 3
                            /\ RxTime' = RxTime + 1 /\ Samples' = 0 /\ seen # 0
               PROVE  InOrder(read)
  <2>1. CASE ~rx_running
    <3>1. TxTime <= 2 /\ TxTime <= TX_EDGE_TIME BY <1>1, <1>5, <2>1 DEF ArrivedTwo
    <3>2. Sending(d)' /\ TxTime' = TxTime + 1
          /\ (TxTime < 2 => serial_in_reg = 1) /\ (TxTime = 2 => serial_in_reg = 0)
      BY <1>2, <1>3, <3>1, Early
    <3>3. TxTime < 2 \/ TxTime = 2 BY <1>1, <3>1
    <3>4. /\ rx_shift' = rx_shift /\ has_byte' = (has_byte /\ ~read)
          /\ TxTime < 2 => ~rx_running'
          /\ TxTime = 2 => rx_running' /\ RxTime' = 0 /\ Samples' = 0
      BY <2>1, <3>2, RxIdle DEF Cycles
    <3> QED BY <1>6, <2>1, <3>2, <3>3, <3>4
  <2>2. CASE rx_running
    <3>1. RxTime = TxTime - 3 /\ Samples = 0 /\ seen # 0 BY <2>2 DEF ArrivedTwo
    <3>2. RxTime < h
      <4>1. seen + POLL - 1 >= t /\ seen <= LATENCY /\ seen \in Int
        BY <1>2, <3>1 DEF InTime, TypeOK
      <4>2. t = Period + RxTime - RxFrame BY <1>1, <3>1
      <4> HIDE DEF h, t
      <4> QED BY <1>1, <1>2, <1>4, <1>5, <3>1, <4>1, <4>2
    <3>3. Rcvd = 0 BY <3>1, RxTimeType DEF Samples
    <3>4. RxTime = rx_clock /\ ~sample
      <4>1. RxTime = 0 * RX_EDGE_TIME + rx_clock BY <3>3, RxTimeType
      <4>2. RxTime = rx_clock BY <4>1, RxAssumption DEF TypeOK
      <4> QED BY <1>1, <1>5, <3>2, <4>2 DEF sample
    <3>5. /\ rx_running' /\ rx_shift' = rx_shift /\ has_byte' = (has_byte /\ ~read)
          /\ RxTime' = RxTime + 1 /\ Samples' = 0
      <4>1. rx_shift' = rx_shift BY <2>2, <3>4, RxStep DEF Cycles
      <4>2. Samples + (IF sample THEN 1 ELSE 0) = 0 BY <3>1, <3>4
      <4>3. FrameBits # 0 BY BitsAssumption DEF FrameBits
      <4>4. rx_running' /\ RxTime' = RxTime + 1 /\ Samples' = 0
            /\ has_byte' = (has_byte /\ ~read)
        BY <2>2, <4>2, <4>3, RxStep DEF Cycles
      <4> QED BY <4>1, <4>4
    <3>6. TxTime <= TX_EDGE_TIME BY <1>1, <1>5, <3>1, <3>2
    <3>7. Sending(d)' /\ TxTime' = TxTime + 1 BY <1>2, <1>3, <3>6, Early
    <3> QED BY <1>6, <2>2, <3>1, <3>5, <3>7
  <2> QED BY <2>1, <2>2
<1>7. /\ TxTime < 2 => TxTime' <= 2
      /\ TxTime = 2 => TxTime' - 3 = 0
      /\ RxTime = TxTime - 3 /\ RxTime' = RxTime + 1 => RxTime' = TxTime' - 3
  BY <1>1, <1>6
<1>8. CASE read
  <2>1. seen' = 0 /\ got' = Head(queue) /\ queue # <<>>
    BY <1>2, <1>6, <1>8, Reads, Queues DEF Cycles
  <2>2. rx_running' => Content(rx_shift, Samples, d)' BY <1>6 DEF Content
  <2>3. Flying(d)' BY <1>3, <1>6, <1>7, <1>8, <2>1, <2>2 DEF Flying
  <2> QED BY <2>1, <2>3 DEF InOrder, InTransit
<1>9. CASE ~read
  <2>1. Reader(FALSE) BY <1>9 DEF Cycles
  <2>2. seen # 0 \/ data_out_valid BY <1>2, <1>6 DEF data_out_valid
  <2>3. IF seen' = 0 THEN poll' >= u ELSE seen' + POLL - 1 >= u
    <3>1. u <= t + 1 BY <1>2
    <3> HIDE DEF t, u
    <3> QED BY <1>2, <2>1, <2>2, <3>1, StillInTime
  <2>4. Period + TxTime' - RxFrame - 3 = u BY <1>1, <1>6
  <2>5. InTime(Period + TxTime - RxFrame - 3)'
    <3> HIDE DEF u
    <3> QED BY <2>3, <2>4 DEF InTime, RxFrame, Period
  <2>6. rx_running' => seen' # 0
    <3>1. CASE seen # 0 BY <1>9, <3>1, Reads DEF Cycles
    <3>2. CASE seen = 0 /\ rx_running'
      <4>1. TxTime = 2 /\ ~rx_running BY <1>6, <3>2
      <4>2. poll >= t /\ t = Period - RxFrame - 1 BY <1>1, <1>2, <3>2, <4>1 DEF InTime
      <4>3. poll = POLL - 1
        <5> HIDE DEF t
        <5> QED BY <1>1, <1>2, <1>4, <4>2 DEF TypeOK
      <4> QED BY <2>2, <3>2, <4>3, Reads DEF Cycles
    <3> QED BY <3>1, <3>2
  <2>7. ArrivedTwo(c, d)'
    BY <1>2, <1>3, <1>6, <1>7, <1>9, <2>5, <2>6 DEF ArrivedTwo
  <2> QED BY <1>9, <2>7 DEF InOrder, InTransit
<1> QED BY <1>8, <1>9

-----------------------------------------------------------------------------
\* The counters stay in range, whatever is on the line.
LEMMA TypeStep ==
    ASSUME TypeOK, NEW written \in Quiet, NEW read \in BOOLEAN, Cycles(written, read),
           popped' = read, queue' \in Seq(Byte)
    PROVE  TypeOK'
<1>. USE BitsAssumption, TxAssumption
<1>1. /\ tx_shifter' \in Frame /\ tx_bits' \in 0..FrameBits
      /\ tx_clock' \in 0..TX_EDGE_TIME - 1 /\ idle' \in 0..GAP
  <2>1. CASE written = <<>> BY <2>1, TxStep DEF Cycles
  <2>2. ASSUME NEW d \in Byte, written = <<d>>
        PROVE  /\ tx_shifter' = FrameOf(d) /\ tx_bits' = FrameBits
               /\ tx_clock' = 0 /\ idle' = 0
    <3>1. written # <<>> /\ written[1] = d BY <2>2
    <3> QED BY <3>1 DEF Cycles, Write, data_in_ready, TxTick, TxReset, TxStart, TxEdge, TxCount
  <2>3. 0 \in 0..GAP /\ 0 \in 0..TX_EDGE_TIME - 1 /\ FrameBits \in 0..FrameBits
    BY LinkAssumption DEF FrameBits
  <2> QED BY <2>1, <2>2, <2>3, FrameFacts DEF Quiet
<1>2. /\ rx_shift' \in Frame /\ rx_bits' \in 0..FrameBits
      /\ rx_clock' \in 0..RX_EDGE_TIME - 1 /\ has_byte' \in BOOLEAN
  BY RxTypes DEF Cycles
<1>3. serial_out_reg' \in Bit /\ serial_in_reg' \in Bit
  <2>1. serial_out \in Bit BY DEF serial_out, TypeOK, Frame, Bit
  <2> QED BY <2>1 DEF Cycles, Line, TypeOK
<1>4. poll' \in 0..POLL - 1 /\ seen' \in 0..LATENCY BY Reads DEF Cycles
<1>5. got' \in Byte
  <2>1. Payload(rx_shift') \in Byte BY <1>2 DEF Payload, Frame, Byte
  <2> QED BY <2>1 DEF Cycles, TypeOK
<1> QED BY <1>1, <1>2, <1>3, <1>4, <1>5 DEF TypeOK

\* The invariant holds at power up: nothing is on its way.
LEMMA LinkInit == Init => IInv
<1>. USE BitsAssumption, TxAssumption, RxAssumption, LinkAssumption
<1>. SUFFICES ASSUME Init PROVE IInv OBVIOUS
<1>1. Blank \in Frame BY DEF Blank, Frame, Bit
<1>2. TypeOK
  <2>1. tx_shifter \in Frame /\ tx_bits \in 0..FrameBits /\ tx_clock \in 0..TX_EDGE_TIME - 1
    BY <1>1 DEF Init, TxInit, FrameBits
  <2>2. /\ rx_shift \in Frame /\ rx_bits \in 0..FrameBits
        /\ rx_clock \in 0..RX_EDGE_TIME - 1 /\ has_byte \in BOOLEAN
    <3>1. rx_shift \in Frame /\ rx_bits = 0 /\ rx_clock = 0 /\ has_byte = FALSE
      BY DEF Init, RxInit
    <3>2. 0 \in 0..FrameBits /\ 0 \in 0..RX_EDGE_TIME - 1 BY DEF FrameBits
    <3> QED BY <3>1, <3>2
  <2>3. serial_out_reg \in Bit /\ serial_in_reg \in Bit BY DEF Init, Bit
  <2>4. idle \in 0..GAP /\ poll \in 0..POLL - 1 /\ seen \in 0..LATENCY BY DEF Init
  <2>5. queue \in Seq(Byte) BY EmptySeq DEF Init
  <2>6. got \in Byte /\ popped \in BOOLEAN BY DEF Init
  <2> QED BY <2>1, <2>2, <2>3, <2>4, <2>5, <2>6 DEF TypeOK
<1>3. Empty
  BY DEF Init, TxInit, RxInit, Empty, Silent, High, tx_running, rx_running
<1> QED BY <1>2, <1>3 DEF IInv, InTransit

\* Every cycle keeps the invariant and is one of the channel.
LEMMA LinkStep ==
    ASSUME Timing, IInv, [Next]_vars
    PROVE  IInv' /\ [Channel!Next]_(Channel!channelVars)
<1>1. ASSUME NEW written \in Quiet, NEW read \in BOOLEAN, Tick(written, read)
      PROVE  IInv' /\ Channel!Next
  <2>1. Cycles(written, read) /\ popped' = read BY <1>1 DEF Tick, Cycles, Reader
  <2>2. InOrder(read)
    BY <2>1, FromEmpty, FromFlying, FromArrived, FromFlyingTwo, FromArrivedTwo
       DEF IInv, InTransit
  <2>3. queue' \in Seq(Byte)
    <3>1. \/ queue' = <<>>
          \/ \E c \in Byte : queue' = <<c>>
          \/ \E c, d \in Byte : queue' = <<c, d>>
      BY <2>2 DEF InOrder, InTransit, Empty, Flying, Arrived, FlyingTwo, ArrivedTwo
    <3>2. \A c, d \in Byte : <<c>> \in Seq(Byte) /\ <<c, d>> \in Seq(Byte)
      BY Queues
    <3> QED BY <3>1, <3>2, EmptySeq, Zenon
  <2>4. TypeOK' BY <2>1, <2>3, TypeStep DEF IInv
  <2>5. Channel!Cycle(written, read) BY <2>1, <2>2 DEF Channel!Cycle, Cycles, InOrder
  <2> QED BY <2>2, <2>4, <2>5 DEF IInv, InOrder, Channel!Next, Quiet
<1>2. ASSUME UNCHANGED vars PROVE IInv' /\ UNCHANGED Channel!channelVars
  BY <1>2 DEF vars, txVars, rxVars, Channel!channelVars, IInv, TypeOK, InTransit, Empty,
     Flying, Arrived, FlyingTwo, ArrivedTwo, Silent, High, Sending, LineBit, Content, InTime,
     TxTime, Sent, RxTime, Rcvd, Samples, tx_running, rx_running, Period, RxFrame
<1> QED BY <1>1, <1>2 DEF Next

\* The counters of both ends, the polls and the queue keep their types, whenever
\* the two bit times and the pauses are near enough to one another.
THEOREM LinkTypeCorrect ==
    ASSUME Timing
    PROVE  Spec => []TypeOK
<1>1. IInv /\ [Next]_vars => IInv' BY LinkStep
<1>2. IInv => TypeOK BY DEF IInv
<1> QED BY LinkInit, <1>1, <1>2, PTL DEF Spec

\* Every character written is read once, unchanged and in order.
THEOREM LinkIsChannel ==
    ASSUME Timing
    PROVE  Spec => ChannelSpec
<1>1. Init => Channel!Init BY DEF Init, Channel!Init
<1>2. IInv /\ [Next]_vars => IInv' BY LinkStep
<1>3. IInv /\ [Next]_vars => [Channel!Next]_(Channel!channelVars) BY LinkStep
<1> QED BY LinkInit, <1>1, <1>2, <1>3, PTL DEF Spec, ChannelSpec, Channel!Spec
=============================================================================
