-------------------------------- MODULE Fifo --------------------------------
(***************************************************************************)
(* io_circuits/fifo.v: a ring buffer of any DEPTH.  A pointer is an index  *)
(* and a wrap bit that flips when the index returns to 0; equal indices    *)
(* mean empty or full as the wrap bits are equal or not.                   *)
(***************************************************************************)
EXTENDS Integers, Sequences

CONSTANTS Item, Zero, DEPTH

ASSUME FifoAssumption == Zero \in Item /\ DEPTH \in Nat \ {0, 1}

VARIABLES
    stack_reg,          \* the buffer; nothing resets it
    read_pointer, write_pointer,    \* [wrap, at]
    read_data           \* the output register

vars == <<stack_reg, read_pointer, write_pointer, read_data>>

Place   == 0..DEPTH - 1
Pointer == [wrap : BOOLEAN, at : Place]
Start   == [wrap |-> FALSE, at |-> 0]

empty == read_pointer = write_pointer
full  == /\ read_pointer.wrap # write_pointer.wrap
         /\ read_pointer.at = write_pointer.at

Bug_Advance(p) ==
    IF p.at = DEPTH - 1 THEN [wrap |-> p.wrap, at |-> 0]
                        ELSE [p EXCEPT !.at = @ + 1]
Advance(p) ==
    IF p.at = DEPTH - 1 THEN [wrap |-> ~p.wrap, at |-> 0]
                        ELSE [p EXCEPT !.at = @ + 1]

\* The registers before the first reset hold anything.
Init ==
    /\ stack_reg \in [Place -> Item]
    /\ read_pointer = Start /\ write_pointer = Start
    /\ read_data \in Item

Reset ==
    /\ read_pointer' = Start /\ write_pointer' = Start
    /\ read_data' = Zero
    /\ UNCHANGED stack_reg

\* The write side and the read side of one edge, both on the old pointers.
WriteSide(wr_en, din) ==
    IF wr_en /\ ~full
    THEN /\ stack_reg' = [stack_reg EXCEPT ![write_pointer.at] = din]
         /\ write_pointer' = Advance(write_pointer)
    ELSE UNCHANGED <<stack_reg, write_pointer>>

Bug_ReadSide(rd_en) ==
    IF rd_en
    THEN /\ read_data' = stack_reg[read_pointer.at]
         /\ read_pointer' = Advance(read_pointer)
    ELSE UNCHANGED <<read_data, read_pointer>>
ReadSide(rd_en) ==
    IF rd_en /\ ~empty
    THEN /\ read_data' = stack_reg[read_pointer.at]
         /\ read_pointer' = Advance(read_pointer)
    ELSE UNCHANGED <<read_data, read_pointer>>

Cycle(wr_en, din, rd_en) == WriteSide(wr_en, din) /\ ReadSide(rd_en)

Next == \/ Reset
        \/ \E wr_en, rd_en \in BOOLEAN, din \in Item : Cycle(wr_en, din, rd_en)

Spec == Init /\ [][Next]_vars

-----------------------------------------------------------------------------
\* How far the pointer w is ahead of the pointer r, the k-th place after r,
\* and the items from r on.
Ahead(r, w)   == IF r.wrap = w.wrap THEN w.at - r.at ELSE w.at - r.at + DEPTH
Spot(r, k)    == IF r.at + k < DEPTH THEN r.at + k ELSE r.at + k - DEPTH
Ring(s, r, n) == [k \in 1..n |-> s[Spot(r, k - 1)]]

Count == Ahead(read_pointer, write_pointer)

\* The buffer is the queue it is meant to be, through every wrap, with
\* reads and writes in the same cycle and at both of its limits.
Queue == INSTANCE BoundedQueue WITH
    items <- Ring(stack_reg, read_pointer, Count),
    dout  <- read_data
QueueSpec == Queue!Spec

\* The pointers agree on how many items there are: the write pointer is ahead
\* by none to DEPTH places, never behind.
TypeOK ==
    /\ stack_reg \in [Place -> Item] /\ read_data \in Item
    /\ read_pointer \in Pointer /\ write_pointer \in Pointer
    /\ Count \in 0..DEPTH
=============================================================================
