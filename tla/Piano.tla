------------------------------- MODULE Piano --------------------------------
(***************************************************************************)
(* software/piano/piano.c: commands from the serial line start and stop    *)
(* notes on the voices of a synthesizer and set its parameters. The        *)
(* program writes the synthesizer's registers and then asks it to take     *)
(* them over, with a four-phase handshake, as it has a clock of its own.   *)
(* The synthesizer is not in the repository: what the program expects of   *)
(* it is modelled here and no more.                                        *)
(*                                                                         *)
(* A command is received whole: the program does nothing else until it has *)
(* the bytes of its argument. A note started that plays, or stopped that   *)
(* does not, is discarded. VOICES is 1 in the source.                      *)
(***************************************************************************)
EXTENDS Integers, Sequences, SequencesExt

CONSTANTS
    VOICES,
    Fcw,            \* the notes: frequency control words
    Level,          \* the values of the other parameters
    TMAX            \* the largest value of CYCLE_COUNTER, 0xFFFFFFFF

ASSUME PianoAssumption ==
    /\ VOICES \in Nat \ {0} /\ TMAX \in Nat \ {0}
    /\ 0 \in Fcw /\ 0 \in Level

Voice == 0 .. VOICES - 1
Param == {"mod_fcw", "mod_shift", "synth_shift"}

VARIABLES
    at,             \* where the program is: see Places
    active, start_time, fcw,    \* voice_active, voice_start_time, voice_fcw
    car_fcw, note_en, param,    \* the registers of the synthesizer
    req, ack,                   \* MMIO_CPU_REQ, MMIO_CPU_ACK
    led,                        \* LED_CONTROL
    heard,          \* the registers the synthesizer has taken over
    cycles,         \* CYCLE_COUNTER when a note was last started
    order, wrapped  \* history, see History

program   == <<active, start_time, fcw>>
registers == <<car_fcw, note_en, param>>
history   == <<cycles, order, wrapped>>
vars == <<at, program, registers, req, ack, led, heard, history>>

\* Waiting for a command; asking, waiting for the answer, and for its end;
\* these with the clearing of the voices to follow; the place where the code
\* has no voice and writes before its arrays.
Places == {"command", "ask", "asked", "taken", "ask_reset", "asked_reset",
           "taken_reset", "stray"}

Settings == [car_fcw |-> car_fcw, note_en |-> note_en, param |-> param]

-----------------------------------------------------------------------------
(***************************************************************************)
(* main() up to its loop, before the first handshake. The carrier words    *)
(* are not written; the voices are cleared before any command is read.     *)
(***************************************************************************)
Init ==
    /\ at = "ask"
    /\ active = {}
    /\ start_time = [v \in Voice |-> 0] /\ fcw = [v \in Voice |-> 0]
    /\ car_fcw \in [Voice -> {0}] /\ note_en = {}
    /\ param = [p \in Param |-> 0]
    /\ req = FALSE /\ ack = FALSE
    /\ led = {}
    /\ heard = Settings
    /\ cycles = 0 /\ order = <<>> /\ wrapped = {}

(***************************************************************************)
(* History, which the program does not have: the voices that play in the   *)
(* order in which their notes were started, and those whose notes were     *)
(* started before CYCLE_COUNTER last wrapped.                              *)
(***************************************************************************)
Position(v) == CHOOSE k \in DOMAIN order : order[k] = v
Without(v)  == IF v \in Range(order) THEN RemoveAt(order, Position(v)) ELSE order

\* SET_MOD_FCW, SET_MOD_SHIFT, SET_SYNTH_SHIFT
Set(p, value) ==
    /\ at = "command"
    /\ param' = [param EXCEPT ![p] = value]
    /\ at' = "ask"
    /\ UNCHANGED <<program, car_fcw, note_en, req, ack, led, heard, history>>

Playing(word) == {v \in active : fcw[v] = word}

\* The first free voice, or else the first of those with the smallest start
\* time below TMAX; there may be none.
Free == Voice \ active
Older(v, u) == start_time[v] < start_time[u] \/ (start_time[v] = start_time[u] /\ v <= u)
Bug_Oldest == IF Free # {} THEN {v \in Free : \A u \in Free : v <= u}
              ELSE {v \in Voice : start_time[v] < TMAX \div 2 /\ \A u \in Voice : Older(v, u)}
Bug_Newest == IF Free # {} THEN {v \in Free : \A u \in Free : v <= u}
              ELSE {v \in Voice : start_time[v] < TMAX /\ \A u \in Voice : Older(u, v)}
Chosen == IF Free # {} THEN {v \in Free : \A u \in Free : v <= u}
          ELSE {v \in Voice : start_time[v] < TMAX /\ \A u \in Voice : Older(v, u)}

Voiced(v, word, time) ==
    /\ active' = active \cup {v}
    /\ fcw' = [fcw EXCEPT ![v] = word]
    /\ start_time' = [start_time EXCEPT ![v] = time]
    /\ car_fcw' = [car_fcw EXCEPT ![v] = word]
    /\ note_en' = active'
    /\ at' = "ask"
    /\ UNCHANGED <<param, req, ack, led, heard>>

\* START_PLAY: delay cycles after the last note was started, at least one.
StartPlay(word, delay) ==
    LET time == (cycles + delay) % (TMAX + 1)
        past == IF cycles + delay > TMAX THEN active ELSE wrapped
    IN  /\ at = "command"
        /\ Playing(word) = {}
        /\ IF Chosen = {}
           THEN at' = "stray" /\ UNCHANGED <<program, registers, req, ack, led, heard, history>>
           ELSE \E v \in Chosen :
                  /\ Voiced(v, word, time)
                  /\ cycles' = time
                  /\ order' = Append(Without(v), v)
                  /\ wrapped' = past \ {v}

\* The start time of a voice whose note was stopped.
Bug_Stopped == TMAX + 1
Stopped == TMAX

\* STOP_PLAY, on the last voice that plays the note.
StopPlay(word) ==
    /\ at = "command"
    /\ \E v \in Playing(word) :
         /\ \A u \in Playing(word) : u <= v
         /\ active' = active \ {v}
         /\ fcw' = [fcw EXCEPT ![v] = 0]
         /\ start_time' = [start_time EXCEPT ![v] = Stopped]
         /\ order' = Without(v) /\ wrapped' = wrapped \ {v}
    /\ note_en' = active'
    /\ at' = "ask"
    /\ UNCHANGED <<car_fcw, param, req, ack, led, heard, cycles>>

\* RESET: the registers first, the program's voices after the handshake.
ResetAll ==
    /\ at = "command"
    /\ note_en' = {} /\ param' = [p \in Param |-> 0] /\ req' = FALSE
    /\ at' = "ask_reset"
    /\ UNCHANGED <<program, car_fcw, ack, led, heard, history>>

\* Any other command.
Unknown ==
    /\ at = "command"
    /\ led' = active
    /\ UNCHANGED <<at, program, registers, req, ack, heard, history>>

Command ==
    \/ \E p \in Param, value \in Level : Set(p, value)
    \/ \E word \in Fcw, delay \in 1 .. TMAX + 1 : StartPlay(word, delay)
    \/ \E word \in Fcw : StopPlay(word)
    \/ ResetAll
    \/ Unknown

-----------------------------------------------------------------------------
\* mmio_cdc(): four steps, and what follows it.
Ask ==
    /\ \/ at = "ask" /\ at' = "asked"
       \/ at = "ask_reset" /\ at' = "asked_reset"
    /\ req' = TRUE
    /\ UNCHANGED <<program, registers, ack, led, heard, history>>

\* while (!MMIO_CPU_ACK); MMIO_CPU_REQ = 0;
Bug_Answered ==
    /\ \/ at = "asked" /\ at' = "taken"
       \/ at = "asked_reset" /\ at' = "taken_reset"
    /\ ack
    /\ UNCHANGED <<program, registers, req, ack, led, heard, history>>
Answered ==
    /\ \/ at = "asked" /\ at' = "taken"
       \/ at = "asked_reset" /\ at' = "taken_reset"
    /\ ack
    /\ req' = FALSE
    /\ UNCHANGED <<program, registers, ack, led, heard, history>>

\* while (MMIO_CPU_ACK); then LED_CONTROL.
Bug_Completed ==
    /\ at = "taken"
    /\ led' = active
    /\ at' = "command"
    /\ UNCHANGED <<program, registers, req, ack, heard, history>>
Completed ==
    /\ at = "taken"
    /\ ~ ack
    /\ led' = active
    /\ at' = "command"
    /\ UNCHANGED <<program, registers, req, ack, heard, history>>

CompletedReset ==
    /\ at = "taken_reset"
    /\ ~ ack
    /\ active' = {}
    /\ start_time' = [v \in Voice |-> 0] /\ fcw' = [v \in Voice |-> 0]
    /\ led' = {}
    /\ order' = <<>> /\ wrapped' = {}
    /\ at' = "command"
    /\ UNCHANGED <<registers, req, ack, heard, cycles>>

Handshake == Ask \/ Answered \/ Completed \/ CompletedReset

\* The synthesizer, external: it takes the registers over when it is asked,
\* says so, and takes its answer back when the question is.
TakeOver ==
    /\ req /\ ~ ack
    /\ heard' = Settings
    /\ ack' = TRUE
    /\ UNCHANGED <<at, program, registers, req, led, history>>
TakeBack ==
    /\ ~ req /\ ack
    /\ ack' = FALSE
    /\ UNCHANGED <<at, program, registers, req, led, heard, history>>

Next == Command \/ Handshake \/ TakeOver \/ TakeBack

\* The processor runs and the synthesizer has a clock; nobody need play.
Spec == Init /\ [][Next]_vars /\ WF_vars(Handshake) /\ WF_vars(TakeOver \/ TakeBack)

-----------------------------------------------------------------------------
TypeOK ==
    /\ at \in Places
    /\ active \subseteq Voice /\ note_en \subseteq Voice /\ led \subseteq Voice
    /\ start_time \in [Voice -> 0 .. TMAX]
    /\ fcw \in [Voice -> Fcw] /\ car_fcw \in [Voice -> Fcw]
    /\ param \in [Param -> Level]
    /\ req \in BOOLEAN /\ ack \in BOOLEAN
    /\ heard \in [car_fcw : [Voice -> Fcw], note_en : SUBSET Voice, param : [Param -> Level]]
    /\ cycles \in 0 .. TMAX
    /\ wrapped \subseteq active

(***************************************************************************)
(* What sounds is what the program believes to be playing, whenever it is  *)
(* ready for a command: the handshake has carried over every register, and *)
(* the end of one handshake was not taken for the answer of the next       *)
(* (mmio_cdc() in piano.c).                                                *)
(***************************************************************************)
SoundsAsPlayed ==
    at = "command" =>
        /\ heard.note_en = active
        /\ \A v \in active : heard.car_fcw[v] = fcw[v]
        /\ heard.param = param
        /\ led = active

(***************************************************************************)
(* The piano plays the last VOICES notes: a note has one voice, the note   *)
(* stopped is the one meant, and the note that makes way is the oldest     *)
(* (piano.c: "we have to evict the oldest note"), as long as CYCLE_COUNTER *)
(* has not wrapped since a note that plays was started; when it has, some  *)
(* note makes way.                                                         *)
(***************************************************************************)
N == INSTANCE Notes WITH
    Note    <- Fcw,
    playing <- [k \in 1 .. Len(order) |-> fcw[order[k]]],
    exact   <- wrapped = {}
NotesSpec == N!Spec

(***************************************************************************)
(* The code finds a voice for a note, unless every voice was started at    *)
(* the very last value of the counter: oldest_start_time begins there, and *)
(* no voice is then older. It writes before its arrays.                    *)
(***************************************************************************)
StrayOnlyAtWrap == at = "stray" => active = Voice /\ \A v \in Voice : start_time[v] = TMAX

(***************************************************************************)
(* The program comes back for the next command after each, whatever        *)
(* the synthesizer's clock.                                                *)
(***************************************************************************)
Ready == []<>(at \in {"command", "stray"})
=============================================================================
