---------------------------- MODULE ButtonProofs ----------------------------
(***************************************************************************)
(* The button parser implements ButtonPress for every number of buttons,   *)
(* sampling period and press length.                                       *)
(***************************************************************************)
EXTENDS ButtonParser, TLAPS

\* The samples counted are those that fell into the time the button was held.
Counted(b) ==
    LET n == saturating_counter[b]
    IN  /\ n = 0 => now[b] <= wrapping_counter
        /\ n # 0 /\ n # PULSE_CNT_MAX =>
              /\ now[b] >= (n - 1) * SAMPLE_CNT_MAX + wrapping_counter + 1
              /\ now[b] <= n * SAMPLE_CNT_MAX + wrapping_counter
        /\ n = PULSE_CNT_MAX => now[b] >= SHORT

\* The edge detector has seen a press that is not over only if the debouncer
\* still reports it, and the two histories are one cycle apart.
Delayed(b) ==
    /\ b \in cur_signal /\ now[b] # 0 => b \in debounced_signal
    /\ now[b] # 0 => now[b] = Press!Longer(held[b])

IInv == TypeOK /\ \A b \in Button : Counted(b) /\ Delayed(b)

-----------------------------------------------------------------------------
\* The products in the bounds of a press, as the sums they are.
LEMMA Products ==
    /\ LONG = SHORT + SAMPLE_CNT_MAX - 1
    /\ LONG \in Nat \ {0} /\ SHORT \in Nat \ {0}
    /\ \A n \in 1..PULSE_CNT_MAX :
          /\ n * SAMPLE_CNT_MAX \in Nat /\ (n - 1) * SAMPLE_CNT_MAX \in Nat
          /\ n * SAMPLE_CNT_MAX = (n - 1) * SAMPLE_CNT_MAX + SAMPLE_CNT_MAX
          /\ (n - 1) * SAMPLE_CNT_MAX < SHORT
          /\ n # PULSE_CNT_MAX => n * SAMPLE_CNT_MAX < SHORT
<1> DEFINE S == SAMPLE_CNT_MAX
           P == PULSE_CNT_MAX
<1>1. S \in Nat /\ P \in Nat /\ S > 0 /\ P > 0
  BY ButtonAssumption
<1>2. ASSUME NEW n \in 1..P
      PROVE  /\ n * S \in Nat /\ (n - 1) * S \in Nat
             /\ n * S = (n - 1) * S + S
  BY <1>1
<1>3. ASSUME NEW n \in 1..P
      PROVE  (n - 1) * S <= (P - 1) * S
  <2>1. (P - 1) * S = (n - 1) * S + (P - n) * S
    BY <1>1
  <2>2. (P - n) * S \in Nat
    BY <1>1
  <2> QED
    BY <1>1, <1>2, <2>1, <2>2
<1>4. P \in 1..P
  BY <1>1
<1>5. LONG = SHORT + S - 1 /\ LONG \in Nat \ {0} /\ SHORT \in Nat \ {0}
  BY <1>1, <1>2, <1>4 DEF LONG, SHORT
<1>6. ASSUME NEW n \in 1..P, n # P
      PROVE  n * S < SHORT
  <2>1. n + 1 \in 1..P /\ (n + 1) - 1 = n
    BY <1>1, <1>6
  <2>2. ((n + 1) - 1) * S <= (P - 1) * S
    BY <1>3, <2>1
  <2> QED
    BY <1>1, <1>2, <1>4, <2>1, <2>2 DEF SHORT
<1>7. ASSUME NEW n \in 1..P
      PROVE  (n - 1) * S < SHORT
  BY <1>1, <1>2, <1>3, <1>4 DEF SHORT
<1> QED
  BY <1>2, <1>5, <1>6, <1>7

\* What the sampling counter does, the limit of its width aside.
LEMMA Sampling ==
    ASSUME wrapping_counter \in 0..SAMPLE_CNT_MAX - 1
    PROVE  /\ sample_pluse <=> wrapping_counter = SAMPLE_CNT_MAX - 1
           /\ WrapNext = IF sample_pluse THEN 0 ELSE wrapping_counter + 1
           /\ WrapNext \in 0..SAMPLE_CNT_MAX - 1
<1>1. sample_cnt_max = SAMPLE_CNT_MAX
  BY ButtonAssumption DEF sample_cnt_max
<1>2. (wrapping_counter + 1) % SPAN = wrapping_counter + 1
  BY ButtonAssumption
<1> QED
  BY <1>1, <1>2, ButtonAssumption DEF sample_pluse, WrapNext

-----------------------------------------------------------------------------
\* The bounds on a press that the debouncer has not reported yet.
LEMMA NotYet ==
    ASSUME TypeOK, NEW b \in Button, Counted(b),
           saturating_counter[b] # PULSE_CNT_MAX
    PROVE  /\ now[b] < LONG
           /\ ~sample_pluse => now[b] + 1 < LONG
<1> DEFINE n == saturating_counter[b]
<1>1. n \in 0..PULSE_CNT_MAX - 1 /\ now[b] \in 0..LONG
  BY ButtonAssumption DEF TypeOK
<1>2. wrapping_counter \in 0..SAMPLE_CNT_MAX - 1
      /\ (~sample_pluse => wrapping_counter < SAMPLE_CNT_MAX - 1)
  BY Sampling, ButtonAssumption DEF TypeOK
<1>3. CASE n = 0
  BY <1>1, <1>2, <1>3, Products, ButtonAssumption DEF Counted
<1>4. CASE n # 0
  <2>1. n \in 1..PULSE_CNT_MAX
    BY <1>1, <1>4, ButtonAssumption
  <2>2. n * SAMPLE_CNT_MAX \in Nat /\ n * SAMPLE_CNT_MAX < SHORT
    BY <2>1, Products
  <2>3. now[b] <= n * SAMPLE_CNT_MAX + wrapping_counter
    BY <1>4 DEF Counted
  <2> QED
    BY <1>1, <1>2, <2>2, <2>3, Products, ButtonAssumption
<1> QED
  BY <1>3, <1>4

LEMMA InitInvariant == Init => IInv
<1> SUFFICES ASSUME Init PROVE IInv
  OBVIOUS
<1>1. TypeOK
  BY Products, ButtonAssumption DEF Init, TypeOK
<1>2. ASSUME NEW b \in Button
      PROVE  Counted(b) /\ Delayed(b)
  <2>1. /\ saturating_counter[b] = 0 /\ now[b] = 0
        /\ wrapping_counter = 0 /\ b \notin cur_signal
    BY DEF Init
  <2> QED
    BY <2>1, ButtonAssumption DEF Counted, Delayed
<1> QED
  BY <1>1, <1>2 DEF IInv

LEMMA TypeStep == TypeOK /\ [Next]_vars => TypeOK'
<1> SUFFICES ASSUME TypeOK, [Next]_vars PROVE TypeOK'
  OBVIOUS
<1>1. ASSUME NEW async_signal \in SUBSET Button, Tick(async_signal)
      PROVE  TypeOK'
  <2>1. wrapping_counter' \in 0..SAMPLE_CNT_MAX - 1
    BY <1>1, Sampling DEF TypeOK, Tick
  <2>2. saturating_counter' \in [Button -> 0..PULSE_CNT_MAX]
    <3>1. \A b \in Button : SatNext(b) \in 0..PULSE_CNT_MAX
      BY ButtonAssumption DEF TypeOK, SatNext
    <3> QED
      BY <1>1, <3>1 DEF Tick
  <2>3. now' \in [Button -> 0..LONG] /\ held' \in [Button -> 0..LONG]
    <3>1. \A b \in Button : Press!Longer(now[b]) \in 0..LONG
      BY Products DEF TypeOK, Press!Longer
    <3> QED
      BY <1>1, <3>1, Products DEF TypeOK, Tick, History
  <2> QED
    BY <1>1, <2>1, <2>2, <2>3 DEF TypeOK, Tick, debounced_signal
<1>2. CASE UNCHANGED vars
  BY <1>2 DEF TypeOK, vars
<1> QED
  BY <1>1, <1>2 DEF Next

\* An edge keeps the bounds of one button: a low signal clears both counts,
\* a sample moves from the upper end of one period to the lower of the next.
LEMMA CountedStep ==
    ASSUME IInv, NEW b \in Button,
           NEW async_signal \in SUBSET Button, Tick(async_signal)
    PROVE  Counted(b)'
<1> DEFINE n == saturating_counter[b]
           S == SAMPLE_CNT_MAX
<1>1. /\ n \in 0..PULSE_CNT_MAX /\ now[b] \in 0..LONG
      /\ wrapping_counter \in 0..S - 1
      /\ TypeOK /\ Counted(b)
  BY DEF IInv, TypeOK
<1>2. /\ saturating_counter'[b] = SatNext(b)
      /\ wrapping_counter' = WrapNext
      /\ now'[b] = IF b \in sync_signal THEN Press!Longer(now[b]) ELSE 0
  BY DEF Tick, History
<1>3. /\ sample_pluse <=> wrapping_counter = S - 1
      /\ WrapNext = IF sample_pluse THEN 0 ELSE wrapping_counter + 1
  BY <1>1, Sampling
<1>4. CASE b \notin sync_signal
  BY <1>1, <1>2, <1>3, <1>4, ButtonAssumption DEF SatNext, Counted
<1>5. CASE b \in sync_signal /\ n = PULSE_CNT_MAX
  <2>1. saturating_counter'[b] = PULSE_CNT_MAX
    BY <1>1, <1>2, <1>5, ButtonAssumption DEF SatNext
  <2>2. now'[b] >= SHORT
    BY <1>1, <1>2, <1>5, Products, ButtonAssumption DEF Counted, Press!Longer
  <2> QED
    BY <2>1, <2>2, ButtonAssumption DEF Counted, SHORT
<1>6. CASE b \in sync_signal /\ n # PULSE_CNT_MAX /\ ~sample_pluse
  <2>1. saturating_counter'[b] = n /\ wrapping_counter' = wrapping_counter + 1
    BY <1>2, <1>3, <1>6 DEF SatNext
  <2>2. now'[b] = now[b] + 1
    BY <1>1, <1>2, <1>6, NotYet, Products DEF Press!Longer
  <2>3. CASE n = 0
    BY <1>1, <1>6, <2>1, <2>2, <2>3 DEF Counted
  <2>4. CASE n # 0
    <3>1. n \in 1..PULSE_CNT_MAX
      BY <1>1, <2>4, ButtonAssumption
    <3> QED
      BY <1>1, <1>6, <2>1, <2>2, <2>4, <3>1, Products DEF Counted
  <2> QED
    BY <2>3, <2>4
<1>7. CASE b \in sync_signal /\ n # PULSE_CNT_MAX /\ sample_pluse
  <2>1. /\ saturating_counter'[b] = n + 1 /\ wrapping_counter' = 0
        /\ wrapping_counter = S - 1
    BY <1>1, <1>2, <1>3, <1>7, ButtonAssumption DEF SatNext
  <2>2. now'[b] = now[b] + 1
    BY <1>1, <1>2, <1>7, NotYet, Products DEF Press!Longer
  <2>3. n + 1 \in 1..PULSE_CNT_MAX /\ (n + 1) - 1 = n
    BY <1>1, <1>7, ButtonAssumption
  <2>4. /\ n * S \in Nat /\ (n + 1) * S = n * S + S
        /\ n + 1 = PULSE_CNT_MAX => SHORT = n * S + 1
    BY <2>3, Products, ButtonAssumption DEF SHORT
  <2>5. now[b] >= n * S /\ now[b] <= n * S + S - 1
    <3>1. CASE n = 0
      BY <1>1, <2>1, <3>1, ButtonAssumption DEF Counted
    <3>2. CASE n # 0
      <4>1. n \in 1..PULSE_CNT_MAX
        BY <1>1, <3>2, ButtonAssumption
      <4> QED
        BY <1>1, <1>7, <2>1, <3>2, <4>1, Products, ButtonAssumption DEF Counted
    <3> QED
      BY <3>1, <3>2
  <2>6. /\ now'[b] >= ((n + 1) - 1) * S + 0 + 1
        /\ now'[b] <= (n + 1) * S + 0
    BY <1>1, <2>2, <2>3, <2>4, <2>5, ButtonAssumption
  <2> QED
    BY <1>1, <2>1, <2>2, <2>3, <2>4, <2>5, <2>6, ButtonAssumption DEF Counted
<1> QED
  BY <1>4, <1>5, <1>6, <1>7

\* A reported press is over when its count is cleared, with both histories.
LEMMA DelayedStep ==
    ASSUME IInv, NEW b \in Button,
           NEW async_signal \in SUBSET Button, Tick(async_signal)
    PROVE  Delayed(b)'
<1>1. /\ cur_signal' = debounced_signal /\ held' = now
      /\ saturating_counter'[b] = SatNext(b)
      /\ now'[b] = IF b \in sync_signal THEN Press!Longer(now[b]) ELSE 0
  BY DEF Tick, History
<1>2. b \in debounced_signal /\ b \in sync_signal => b \in debounced_signal'
  BY <1>1, ButtonAssumption DEF debounced_signal, SatNext
<1> QED
  BY <1>1, <1>2 DEF Delayed, Press!Longer

\* The inductive invariant.
THEOREM ButtonInvariance == Spec => []IInv
<1>1. IInv /\ [Next]_vars => IInv'
  <2> SUFFICES ASSUME IInv, [Next]_vars PROVE IInv'
    OBVIOUS
  <2>1. TypeOK'
    BY TypeStep DEF IInv
  <2>2. ASSUME NEW async_signal \in SUBSET Button, Tick(async_signal)
        PROVE  IInv'
    BY <2>1, <2>2, CountedStep, DelayedStep DEF IInv
  <2>3. CASE UNCHANGED vars
    BY <2>1, <2>3 DEF IInv, vars, Counted, Delayed, debounced_signal,
                      Press!Longer
  <2> QED
    BY <2>2, <2>3 DEF Next
<1> QED
  BY <1>1, InitInvariant, PTL DEF Spec

\* The counters and the registers of the button parser keep their types.
THEOREM ButtonTypeCorrect == Spec => []TypeOK
<1>1. IInv => TypeOK
  BY DEF IInv
<1> QED
  BY <1>1, ButtonInvariance, PTL

-----------------------------------------------------------------------------
\* A press held to its limit is being reported, and a reported one was long.
LEMMA Reported ==
    ASSUME IInv, NEW b \in Button
    PROVE  /\ now[b] = LONG => b \in debounced_signal
           /\ b \in debounced_signal => now[b] >= SHORT /\ now[b] # 0
<1>1. TypeOK /\ Counted(b) /\ now[b] \in 0..LONG
  BY DEF IInv, TypeOK
<1>2. now[b] = LONG => b \in debounced_signal
  BY <1>1, NotYet, Products DEF debounced_signal
<1>3. b \in debounced_signal => now[b] >= SHORT
  BY <1>1 DEF debounced_signal, Counted
<1> QED
  BY <1>1, <1>2, <1>3, Products

\* Every edge is a cycle of ButtonPress.
LEMMA PressStep == IInv /\ [Next]_vars => [Press!Next]_(Press!pressVars)
<1> SUFFICES ASSUME IInv, [Next]_vars
             PROVE  [Press!Next]_(Press!pressVars)
  OBVIOUS
<1>1. ASSUME NEW async_signal \in SUBSET Button, Tick(async_signal)
      PROVE  Press!Next
  <2> DEFINE down  == {b \in Button : now[b] # 0}
             fired == debounced_signal \ cur_signal
  <2>1. /\ cur_signal' = debounced_signal /\ pre_signal' = cur_signal
        /\ held' = now
    BY <1>1 DEF Tick, History
  <2>2. down \in SUBSET Button /\ fired \in SUBSET Button
    BY DEF debounced_signal
  <2>3. held' = [b \in Button |->
                    IF b \in down THEN Press!Longer(held[b]) ELSE 0]
    <3>1. now \in [Button -> 0..LONG]
      BY DEF IInv, TypeOK
    <3>2. \A b \in Button :
             now[b] = IF b \in down THEN Press!Longer(held[b]) ELSE 0
      BY DEF IInv, Delayed
    <3> QED
      BY <2>1, <3>1, <3>2
  <2>4. edge_detect_pulse' = fired
    BY <2>1 DEF edge_detect_pulse
  <2>5. cur_signal' = (cur_signal \cup fired) \cap down
    <3>1. ASSUME NEW b \in Button
          PROVE  /\ b \in debounced_signal => b \in down
                 /\ b \in cur_signal /\ b \in down => b \in debounced_signal
      BY Reported DEF IInv, Delayed
    <3> QED
      BY <2>1, <3>1 DEF IInv, TypeOK, debounced_signal
  <2>6. \A b \in fired : b \in down \ cur_signal /\ held'[b] >= SHORT
    BY <2>1, Reported DEF debounced_signal
  <2>7. \A b \in down : held'[b] = LONG => b \in cur_signal \cup fired
    BY <2>1, Reported
  <2>8. Press!Cycle(down, fired)
    BY <2>3, <2>4, <2>5, <2>6, <2>7 DEF Press!Cycle
  <2> QED
    BY <2>2, <2>8 DEF Press!Next
<1>2. CASE UNCHANGED vars
  BY <1>2 DEF vars, Press!pressVars, edge_detect_pulse
<1> QED
  BY <1>1, <1>2 DEF Next

\* A press gives one pulse, for every number of buttons, every sampling
\* period that is no power of two and every number of samples.
THEOREM OnePulseForAPress == Spec => PressSpec
<1>1. Init => Press!Init
  BY DEF Init, Press!Init, edge_detect_pulse
<1> QED
  BY <1>1, PressStep, ButtonInvariance, PTL DEF Spec, PressSpec, Press!Spec
=============================================================================
