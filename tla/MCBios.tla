------------------------------- MODULE MCBios -------------------------------
(***************************************************************************)
(* Sessions with the monitor: some lines that a user types, then the       *)
(* loader, then a jump to what was loaded.                                 *)
(***************************************************************************)
EXTENDS Bios, TLC

\* A line and the bits it is meant to put at an address, least first.
Line(s, a, bits) == [chars |-> s, a |-> a, bits |-> bits]

Typed == {
    Line(<<>>, 0, <<>>),
    Line(<<"sw", "sp", "1", "0", "0", "1", "sp", "1", "0", "0", "cr">>, 4, <<1, 0, 0, 1>>),
    Line(<<"sh", "sp", "1", "0", "sp", "1", "0", "cr">>, 2, <<0, 1>>),
    Line(<<"sb", "sp", "1", "sp", "1", "1", "1", "cr">>, 7, <<1>>),
    Line(<<"lw", "sp", "1", "0", "0", "cr">>, 0, <<>>),
    Line(<<"led", "sp", "1", "cr">>, 0, <<>>),
    Line(<<"x", "lf", "cr">>, 0, <<>>),
    \* corrected on the way, at the beginning and inside a token
    Line(<<"bs", "sh", "bs", "sb", "sp", "0", "bs", "1", "sp", "1", "x", "bs", "1", "0", "cr">>,
         6, <<1>>),
    \* longer than the buffer
    Line(<<"x", "x", "x", "x", "x", "x", "x", "x", "cr">>, 0, <<>>) }

\* A token that the user began and left, for the loader's newline to clear.
\* (After "sw " the newline would be the value, and "file" the address.)
Begun == { Line(<<"x", "x">>, 0, <<>>), Line(<<"sw">>, 0, <<>>) }

Put(m, a, bits) ==
    [b \in Byte |-> IF b \in a..a + Len(bits) - 1 THEN bits[b - a + 1] ELSE m[b]]

Bits(w) == FlattenSeq([k \in 1..Len(w) |->
               [i \in 1..4 |-> (w[k] \div 2 ^ (i - 1)) % 2]])

Session(l1, l2, a, w, jump) ==
    [chars |-> Paced(l1.chars \o l2.chars, CMD_GAP) \o Loader(a, w)
                   \o IF jump THEN Paced(<<"jal", "sp">> \o Digits(a) \o <<"cr">>, CMD_GAP)
                              ELSE <<>>,
     mem |-> Put(Put(Put([b \in Byte |-> 0], l1.a, l1.bits), l2.a, l2.bits), a, Bits(w)),
     at |-> IF jump THEN <<"run", 0>> ELSE Prompted]

Programs == {<<6>>, <<9, 14>>}

LoadSessions ==
    {Session(l1, l2, a, w, j) :
        l1 \in Typed, l2 \in Typed \cup Begun, a \in {0, 8}, w \in Programs, j \in BOOLEAN}
=============================================================================
