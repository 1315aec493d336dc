------------------------------ MODULE UartFrame ------------------------------
(***************************************************************************)
(* A character on the serial line: a start bit 0, the data bits, a stop    *)
(* bit 1, held in a shift register whose index 0 is the bit on the line.   *)
(***************************************************************************)
EXTENDS Integers

CONSTANT BITS           \* data bits, 8 in the code

ASSUME BitsAssumption == BITS \in Nat \ {0}

Bit       == {0, 1}
Byte      == [1..BITS -> Bit]
FrameBits == BITS + 2
Frame     == [0..BITS + 1 -> Bit]

Blank == [i \in 0..BITS + 1 |-> 0]

FrameOf(b) ==
    [i \in 0..BITS + 1 |-> IF i = 0 THEN 0 ELSE IF i <= BITS THEN b[i] ELSE 1]

\* The register moved one place down, with a new bit at its top.
ShiftIn(s, top) ==
    [i \in 0..BITS + 1 |-> IF i = BITS + 1 THEN top ELSE s[i + 1]]

Payload(s) == [i \in 1..BITS |-> s[i]]
=============================================================================
