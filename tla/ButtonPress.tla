----------------------------- MODULE ButtonPress -----------------------------
(***************************************************************************)
(* What button_parser.v promises: a press gives one pulse, one cycle long. *)
(* A press that lasts less than SHORT cycles is a bounce and gives none,   *)
(* one that lasts LONG cycles has given its own.                           *)
(***************************************************************************)
EXTENDS Integers

CONSTANTS Button, SHORT, LONG

VARIABLES
    held,               \* cycles each button is held so far, up to LONG
    pulsed,             \* the buttons whose present press gave its pulse
    pulse               \* the buttons that pulse in this cycle

pressVars == <<held, pulsed, pulse>>

Init == held = [b \in Button |-> 0] /\ pulsed = {} /\ pulse = {}

Longer(n) == IF n < LONG THEN n + 1 ELSE n

\* One cycle: the buttons in down are held, those in fired pulse.
Cycle(down, fired) ==
    /\ held' = [b \in Button |-> IF b \in down THEN Longer(held[b]) ELSE 0]
    /\ pulse' = fired
    /\ pulsed' = (pulsed \cup fired) \cap down
    /\ \A b \in fired : b \in down \ pulsed /\ held'[b] >= SHORT
    /\ \A b \in down : held'[b] = LONG => b \in pulsed \cup fired

Next == \E down, fired \in SUBSET Button : Cycle(down, fired)

Spec == Init /\ [][Next]_pressVars
=============================================================================
