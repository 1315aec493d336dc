------------------------------- MODULE Notes --------------------------------
(***************************************************************************)
(* What a keyboard with VOICES voices promises: it plays the last VOICES   *)
(* of the notes that were started and not stopped, each once. The notes    *)
(* that play are in the order in which they were started.                  *)
(***************************************************************************)
EXTENDS Integers, Sequences, SequencesExt

CONSTANTS Note, VOICES

VARIABLES
    playing,        \* the notes that play, the oldest first
    exact           \* the instrument can tell which is the oldest

Init == playing = <<>> /\ exact = TRUE

\* A new note takes the place of the oldest when there is no free voice.
Start(n) ==
    /\ n \notin Range(playing)
    /\ IF Len(playing) < VOICES
       THEN playing' = Append(playing, n)
       ELSE \E k \in IF exact' THEN {1} ELSE 1 .. VOICES :
              playing' = Append(RemoveAt(playing, k), n)

Stop(n) ==
    \E k \in DOMAIN playing :
        playing[k] = n /\ playing' = RemoveAt(playing, k)

Reset == playing' = <<>>

Next == \/ \E n \in Note : Start(n) \/ Stop(n)
        \/ Reset

Spec == Init /\ [][Next]_playing
=============================================================================
