---------------------------- MODULE SerialChannel ----------------------------
(***************************************************************************)
(* What a serial link promises to the programs at its ends: every          *)
(* character written arrives once, unchanged and in order.                 *)
(***************************************************************************)
EXTENDS Integers, Sequences

CONSTANT Byte

VARIABLES
    queue,              \* characters written and not yet read
    got,                \* the last character read
    popped              \* a character was read in the last cycle

channelVars == <<queue, got, popped>>

Init == queue = <<>> /\ popped = FALSE

\* In one clock cycle one end may write and the other may read.
Cycle(written, read) ==
    /\ IF read THEN queue # <<>> /\ got' = Head(queue) ELSE UNCHANGED got
    /\ queue' = SubSeq(queue, IF read THEN 2 ELSE 1, Len(queue)) \o written
    /\ popped' = read

Next == \E read \in BOOLEAN, written \in {<<>>} \cup {<<b>> : b \in Byte} :
            Cycle(written, read)

Spec == Init /\ [][Next]_channelVars
=============================================================================
