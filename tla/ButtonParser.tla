---------------------------- MODULE ButtonParser ----------------------------
(***************************************************************************)
(* io_circuits/button_parser.v: synchronizer.v, debouncer.v and            *)
(* edge_detector.v in a row, for a vector of buttons.  A vector of bits is *)
(* the set of the buttons whose bit is 1.                                  *)
(***************************************************************************)
EXTENDS Integers

CONSTANTS
    Button,             \* the WIDTH bits
    SAMPLE_CNT_MAX,     \* a sample every SAMPLE_CNT_MAX cycles
    PULSE_CNT_MAX,      \* samples in a row that make a press
    SPAN                \* 2^WRAPPING_CNT_WIDTH, WIDTH = $clog2(SAMPLE_CNT_MAX)

\* debouncer.v cuts SAMPLE_CNT_MAX to $clog2(SAMPLE_CNT_MAX) bits, which
\* makes 0 of a power of two; a power of two is excluded here.
ASSUME ButtonAssumption ==
    /\ SAMPLE_CNT_MAX \in Nat \ {0} /\ PULSE_CNT_MAX \in Nat \ {0}
    /\ SPAN \in Nat /\ SAMPLE_CNT_MAX < SPAN

VARIABLES
    next_signal, sync_signal,               \* synchronizer.v
    wrapping_counter, saturating_counter,   \* debouncer.v
    cur_signal, pre_signal,                 \* edge_detector.v
    now, held                               \* history, see History

vars == <<next_signal, sync_signal, wrapping_counter, saturating_counter,
          cur_signal, pre_signal, now, held>>

-----------------------------------------------------------------------------
\* debouncer.v.  The subtraction is done on 32 bits, so that with a
\* sample_cnt_max of 0 there is never a sample.
sample_cnt_max == SAMPLE_CNT_MAX % SPAN
sample_pluse   == wrapping_counter = sample_cnt_max - 1

WrapNext == IF sample_pluse THEN 0 ELSE (wrapping_counter + 1) % SPAN

\* A low signal clears the count in any cycle, not only in a sampled one.
Bug_SatNext(b) ==
    IF ~sample_pluse THEN saturating_counter[b]
    ELSE IF b \notin sync_signal THEN 0
    ELSE IF saturating_counter[b] < PULSE_CNT_MAX
         THEN saturating_counter[b] + 1 ELSE saturating_counter[b]
Bug_SatNoLimit(b) ==
    IF b \notin sync_signal THEN 0
    ELSE IF sample_pluse /\ saturating_counter[b] <= PULSE_CNT_MAX
         THEN saturating_counter[b] + 1
    ELSE saturating_counter[b]
SatNext(b) ==
    IF b \notin sync_signal THEN 0
    ELSE IF sample_pluse /\ saturating_counter[b] < PULSE_CNT_MAX
         THEN saturating_counter[b] + 1
    ELSE saturating_counter[b]

debounced_signal == {b \in Button : saturating_counter[b] = PULSE_CNT_MAX}

\* edge_detector.v
edge_detect_pulse == cur_signal \ pre_signal

-----------------------------------------------------------------------------
\* The registers have initial values and no reset.
Init ==
    /\ next_signal = {} /\ sync_signal = {}
    /\ wrapping_counter = 0 /\ saturating_counter = [b \in Button |-> 0]
    /\ cur_signal = {} /\ pre_signal = {}
    /\ now = [b \in Button |-> 0] /\ held = [b \in Button |-> 0]

SHORT == (PULSE_CNT_MAX - 1) * SAMPLE_CNT_MAX + 1
LONG  == PULSE_CNT_MAX * SAMPLE_CNT_MAX

Press == INSTANCE ButtonPress WITH
    pulsed <- cur_signal, pulse <- edge_detect_pulse

\* How long the debouncer has seen each button held, and the same one cycle
\* ago, when it decided on what the edge detector shows now.
History ==
    /\ now' = [b \in Button |->
                  IF b \in sync_signal THEN Press!Longer(now[b]) ELSE 0]
    /\ held' = now

\* One rising clock edge.  The buttons bounce as they like.
Tick(async_signal) ==
    /\ next_signal' = async_signal /\ sync_signal' = next_signal
    /\ wrapping_counter' = WrapNext
    /\ saturating_counter' = [b \in Button |-> SatNext(b)]
    /\ cur_signal' = debounced_signal /\ pre_signal' = cur_signal
    /\ History

Next == \E async_signal \in SUBSET Button : Tick(async_signal)

Spec == Init /\ [][Next]_vars

-----------------------------------------------------------------------------
\* A press gives one pulse, neither for a bounce nor twice nor too late,
\* wherever in the sampling period it begins, for each of the buttons that
\* share the counter.
PressSpec == Press!Spec

\* The counters stay below their limits.
TypeOK ==
    /\ next_signal \subseteq Button /\ sync_signal \subseteq Button
    /\ cur_signal \subseteq Button /\ pre_signal \subseteq Button
    /\ wrapping_counter \in 0..SAMPLE_CNT_MAX - 1
    /\ saturating_counter \in [Button -> 0..PULSE_CNT_MAX]
    /\ now \in [Button -> 0..LONG] /\ held \in [Button -> 0..LONG]
=============================================================================
