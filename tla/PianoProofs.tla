----------------------------- MODULE PianoProofs ----------------------------
(***************************************************************************)
(* What sounds is what piano.c believes to be playing, and a note always   *)
(* finds a voice but at the last value of CYCLE_COUNTER, for every number  *)
(* of voices, set of notes and width of the counter, whenever the          *)
(* synthesizer answers. The inductive invariant is IInv: it says, for each *)
(* place of the program, how far the handshake has come and what the       *)
(* synthesizer has then taken over.                                        *)
(***************************************************************************)
EXTENDS Piano, FiniteSets, FiniteSetTheorems, FunctionTheorems, SequenceTheorems, WellFoundedInduction, TLAPS

Clearing == {"ask_reset", "asked_reset", "taken_reset"}

\* The handshake has its four phases, and at the last the synthesizer has
\* what was written when the question was put.
HandshakeInOrder ==
    /\ at \in {"command", "stray", "ask", "ask_reset"} => ~ req /\ ~ ack
    /\ at \in {"asked", "asked_reset"} => req /\ (ack => heard = Settings)
    /\ at \in {"taken", "taken_reset"} => ~ req /\ heard = Settings
    /\ at = "command" => heard = Settings

\* The registers agree with the program's voices, or are those of silence
\* while the voices wait to be cleared.
RegistersAgree ==
    /\ at \notin Clearing => note_en = active /\ \A v \in active : car_fcw[v] = fcw[v]
    /\ at \in Clearing => note_en = {}
    /\ at = "command" => led = active

IInv == TypeOK /\ HandshakeInOrder /\ RegistersAgree /\ StrayOnlyAtWrap

-----------------------------------------------------------------------------
LEMMA LeastNatural ==
    ASSUME NEW T \in SUBSET Nat, T # {}
    PROVE  \E m \in T : \A n \in T : m <= n
<1>. DEFINE Less == {p \in Nat \X Nat : p[1] < p[2]}
<1>1. IsWellFoundedOn(Less, Nat)
  BY NatLessThanWellFounded DEF OpToRel
<1>2. PICK m \in T : \A n \in T : <<n, m>> \notin Less
  BY <1>1, WFMin
<1>3. \A n \in T : ~ (n < m)
  BY <1>2
<1>. QED BY <1>3

\* The search for a voice finds a free one, or the oldest unless no voice was
\* started before the last value of the counter (main(), START_PLAY).
LEMMA VoiceFound ==
    ASSUME TypeOK
    PROVE  /\ Chosen \subseteq Voice
           /\ Chosen = {} => active = Voice /\ \A v \in Voice : start_time[v] = TMAX
<1>. USE PianoAssumption DEF TypeOK
<1>1. Chosen \subseteq Voice
  BY DEF Chosen, Free
<1>2. ASSUME Free # {} PROVE Chosen # {}
  <2>1. Free \in SUBSET Nat
    BY DEF Free, Voice
  <2>2. \E v \in Free : \A u \in Free : v <= u
    BY <1>2, <2>1, LeastNatural
  <2>. QED BY <1>2, <2>2 DEF Chosen
<1>3. ASSUME Free = {}, NEW w \in Voice, start_time[w] # TMAX PROVE Chosen # {}
  <2>. DEFINE Times == {start_time[v] : v \in Voice}
  <2>1. start_time[w] \in Times /\ Times \in SUBSET Nat
    OBVIOUS
  <2>2. PICK t \in Times : \A n \in Times : t <= n
    BY <2>1, LeastNatural
  <2>. DEFINE Oldest == {v \in Voice : start_time[v] = t}
  <2>3. Oldest # {} /\ Oldest \in SUBSET Nat
    <3>1. PICK u \in Voice : start_time[u] = t
      BY <2>2
    <3>2. u \in Oldest
      BY <3>1
    <3>3. Oldest \subseteq Nat
      BY DEF Voice
    <3>. QED BY <3>2, <3>3
  <2>4. PICK v \in Oldest : \A u \in Oldest : v <= u
    BY <2>3, LeastNatural
  <2>5. v \in Voice /\ start_time[v] < TMAX
    <3>1. v \in Voice /\ start_time[v] = t
      BY <2>4
    <3>2. t <= start_time[w]
      BY <2>1, <2>2
    <3>3. start_time[w] \in 0 .. TMAX /\ start_time[v] \in 0 .. TMAX
      BY <3>1
    <3>. QED BY <1>3, <3>1, <3>2, <3>3
  <2>6. \A u \in Voice : Older(v, u)
    <3>1. SUFFICES ASSUME NEW u \in Voice PROVE Older(v, u)
      OBVIOUS
    <3>2. start_time[u] \in Times /\ start_time[u] \in Nat /\ start_time[v] = t /\ t \in Nat
      BY <2>1, <2>2, <2>4
    <3>3. t <= start_time[u]
      BY <2>2, <3>2
    <3>4. start_time[u] = t => v <= u
      BY <2>4
    <3>. QED BY <3>2, <3>3, <3>4 DEF Older
  <2>. QED BY <1>3, <2>5, <2>6 DEF Chosen
<1>4. ASSUME Free = {} PROVE active = Voice
  BY <1>4 DEF Free
<1>. QED BY <1>1, <1>2, <1>3, <1>4

-----------------------------------------------------------------------------
LEMMA StartKeeps == Init => IInv
<1>. SUFFICES ASSUME Init PROVE IInv
  OBVIOUS
<1>. USE PianoAssumption DEF Init
<1>1. TypeOK
  <2>1. heard \in [car_fcw : [Voice -> Fcw], note_en : SUBSET Voice, param : [Param -> Level]]
    BY DEF Settings
  <2>2. start_time \in [Voice -> 0 .. TMAX] /\ cycles \in 0 .. TMAX
    OBVIOUS
  <2>3. /\ fcw \in [Voice -> Fcw] /\ car_fcw \in [Voice -> Fcw]
        /\ param \in [Param -> Level]
    OBVIOUS
  <2>. QED BY <2>1, <2>2, <2>3 DEF TypeOK, Places
<1>. QED BY <1>1 DEF IInv, HandshakeInOrder, RegistersAgree, StrayOnlyAtWrap, Clearing

\* What a command writes is of the declared kind.
LEMMA SetKeeps ==
    ASSUME IInv, NEW p \in Param, NEW value \in Level, Set(p, value)
    PROVE  IInv'
<1>1. TypeOK'
  BY DEF IInv, TypeOK, Set, program, history, Places
<1>. QED BY <1>1 DEF IInv, TypeOK, Set, program, history, HandshakeInOrder, RegistersAgree,
                     StrayOnlyAtWrap, Clearing

LEMMA StartPlayKeeps ==
    ASSUME IInv, NEW word \in Fcw, NEW delay \in 1 .. TMAX + 1, StartPlay(word, delay)
    PROVE  IInv'
<1>. DEFINE time == (cycles + delay) % (TMAX + 1)
<1>1. at = "command" /\ TypeOK /\ ~ req /\ ~ ack
  BY DEF StartPlay, IInv, HandshakeInOrder
<1>2. time \in 0 .. TMAX
  BY <1>1, PianoAssumption DEF TypeOK
<1>3. CASE Chosen = {}
  <2>1. at' = "stray" /\ UNCHANGED <<program, registers, req, ack, led, heard, history>>
    BY <1>3 DEF StartPlay
  <2>2. TypeOK'
    BY <1>1, <2>1 DEF TypeOK, Places, program, registers, history
  <2>3. StrayOnlyAtWrap'
    BY <1>1, <1>3, <2>1, VoiceFound DEF StrayOnlyAtWrap, program
  <2>. QED BY <1>1, <2>1, <2>2, <2>3 DEF IInv, HandshakeInOrder, RegistersAgree, Clearing,
                program, registers
<1>4. CASE Chosen # {}
  <2>1. PICK v \in Chosen :
          /\ Voiced(v, word, time) /\ cycles' = time
          /\ wrapped' = (IF cycles + delay > TMAX THEN active ELSE wrapped) \ {v}
    BY <1>4 DEF StartPlay
  <2>2. v \in Voice
    BY <1>1, <2>1, VoiceFound
  <2>3. TypeOK'
    <3>1. active' \subseteq Voice /\ note_en' \subseteq Voice /\ wrapped' \subseteq active'
      BY <1>1, <2>1, <2>2 DEF TypeOK, Voiced
    <3>2. start_time' \in [Voice -> 0 .. TMAX] /\ fcw' \in [Voice -> Fcw]
          /\ car_fcw' \in [Voice -> Fcw]
      BY <1>1, <1>2, <2>1, <2>2 DEF TypeOK, Voiced
    <3>. QED BY <1>1, <1>2, <2>1, <3>1, <3>2 DEF TypeOK, Voiced, Places
  <2>4. HandshakeInOrder'
    BY <1>1, <2>1 DEF HandshakeInOrder, Voiced
  <2>5. \A u \in active' : car_fcw'[u] = fcw'[u]
    BY <1>1, <2>1, <2>2 DEF IInv, TypeOK, RegistersAgree, Clearing, Voiced
  <2>6. RegistersAgree' /\ StrayOnlyAtWrap'
    BY <2>1, <2>5 DEF RegistersAgree, Clearing, StrayOnlyAtWrap, Voiced
  <2>. QED BY <2>3, <2>4, <2>6 DEF IInv
<1>. QED BY <1>3, <1>4

LEMMA StopPlayKeeps ==
    ASSUME IInv, NEW word \in Fcw, StopPlay(word)
    PROVE  IInv'
<1>1. at = "command" /\ TypeOK /\ ~ req /\ ~ ack
  BY DEF StopPlay, IInv, HandshakeInOrder
<1>2. PICK v \in Playing(word) :
        /\ active' = active \ {v}
        /\ fcw' = [fcw EXCEPT ![v] = 0]
        /\ start_time' = [start_time EXCEPT ![v] = Stopped]
        /\ wrapped' = wrapped \ {v}
  BY DEF StopPlay
<1>3. v \in Voice
  BY <1>1, <1>2 DEF Playing, TypeOK
<1>4. note_en' = active' /\ at' = "ask"
      /\ UNCHANGED <<car_fcw, param, req, ack, led, heard, cycles>>
  BY DEF StopPlay
<1>5. TypeOK'
  <2>1. active' \subseteq Voice /\ note_en' \subseteq Voice /\ wrapped' \subseteq active'
    BY <1>1, <1>2, <1>4 DEF TypeOK
  <2>2. start_time' \in [Voice -> 0 .. TMAX]
    BY <1>1, <1>2, <1>3, PianoAssumption DEF TypeOK, Stopped
  <2>3. fcw' \in [Voice -> Fcw]
    BY <1>1, <1>2, <1>3, PianoAssumption DEF TypeOK
  <2>. QED BY <1>1, <1>4, <2>1, <2>2, <2>3 DEF TypeOK, Places
<1>6. HandshakeInOrder'
  BY <1>1, <1>4 DEF HandshakeInOrder
<1>7. \A u \in active' : car_fcw'[u] = fcw'[u]
  BY <1>1, <1>2, <1>4 DEF IInv, TypeOK, RegistersAgree, Clearing
<1>8. RegistersAgree' /\ StrayOnlyAtWrap'
  BY <1>4, <1>7 DEF RegistersAgree, Clearing, StrayOnlyAtWrap
<1>. QED BY <1>5, <1>6, <1>8 DEF IInv

LEMMA ResetKeeps ==
    ASSUME IInv, ResetAll
    PROVE  IInv'
<1>1. TypeOK'
  BY PianoAssumption DEF IInv, TypeOK, ResetAll, program, history, Places
<1>. QED BY <1>1 DEF IInv, ResetAll, program, history, HandshakeInOrder, RegistersAgree,
                     StrayOnlyAtWrap, Clearing

LEMMA UnknownKeeps ==
    ASSUME IInv, Unknown
    PROVE  IInv'
<1>1. TypeOK'
  BY DEF IInv, TypeOK, Unknown, program, registers, history
<1>. QED BY <1>1 DEF IInv, Unknown, program, registers, history, HandshakeInOrder,
                     RegistersAgree, StrayOnlyAtWrap, Clearing, Settings

\* The steps of the handshake.
LEMMA HandshakeKeeps ==
    ASSUME IInv, Handshake
    PROVE  IInv'
<1>. USE DEF IInv, HandshakeInOrder, RegistersAgree, StrayOnlyAtWrap, Clearing,
             program, registers, history, Settings
<1>1. CASE Ask
  <2>1. TypeOK'
    BY <1>1 DEF Ask, TypeOK, Places
  <2>. QED BY <1>1, <2>1 DEF Ask
<1>2. CASE Answered
  <2>1. TypeOK'
    BY <1>2 DEF Answered, TypeOK, Places
  <2>. QED BY <1>2, <2>1 DEF Answered
<1>3. CASE Completed
  <2>1. TypeOK'
    BY <1>3 DEF Completed, TypeOK, Places
  <2>. QED BY <1>3, <2>1 DEF Completed
<1>4. CASE CompletedReset
  <2>1. TypeOK'
    BY <1>4, PianoAssumption DEF CompletedReset, TypeOK, Places
  <2>. QED BY <1>4, <2>1 DEF CompletedReset
<1>. QED BY <1>1, <1>2, <1>3, <1>4 DEF Handshake

\* The steps of the synthesizer.
LEMMA SynthesizerKeeps ==
    ASSUME IInv, TakeOver \/ TakeBack
    PROVE  IInv'
<1>. USE DEF IInv, HandshakeInOrder, RegistersAgree, StrayOnlyAtWrap, Clearing,
             program, registers, history, Settings
<1>1. CASE TakeOver
  <2>1. TypeOK'
    BY <1>1 DEF TakeOver, TypeOK
  <2>2. at \in {"asked", "asked_reset"}
    BY <1>1 DEF TakeOver, TypeOK, Places
  <2>. QED BY <1>1, <2>1, <2>2 DEF TakeOver
<1>2. CASE TakeBack
  <2>1. TypeOK'
    BY <1>2 DEF TakeBack, TypeOK
  <2>. QED BY <1>2, <2>1 DEF TakeBack
<1>. QED BY <1>1, <1>2

-----------------------------------------------------------------------------
\* One case for each action.
LEMMA StepKeeps == IInv /\ [Next]_vars => IInv'
<1>. SUFFICES ASSUME IInv, [Next]_vars PROVE IInv'
  OBVIOUS
<1>1. CASE UNCHANGED vars
  BY <1>1 DEF IInv, TypeOK, HandshakeInOrder, RegistersAgree, StrayOnlyAtWrap, Settings,
     vars, program, registers, history
<1>2. CASE Command
  BY <1>2, SetKeeps, StartPlayKeeps, StopPlayKeeps, ResetKeeps, UnknownKeeps DEF Command
<1>. QED BY <1>1, <1>2, HandshakeKeeps, SynthesizerKeeps DEF Next

THEOREM Invariant == Spec => []IInv
BY StartKeeps, StepKeeps, PTL DEF Spec

\* The program's variables and the registers stay within their widths.
THEOREM TypeCorrect == Spec => []TypeOK
<1>1. IInv => TypeOK
  BY DEF IInv
<1>. QED BY <1>1, Invariant, PTL

\* What sounds is what the program believes to be playing (mmio_cdc()).
THEOREM SoundCorrect == Spec => []SoundsAsPlayed
<1>1. IInv => SoundsAsPlayed
  <2>1. SUFFICES ASSUME IInv, at = "command" PROVE SoundsAsPlayed
    BY DEF SoundsAsPlayed
  <2>2. heard = Settings /\ note_en = active /\ led = active
        /\ \A v \in active : car_fcw[v] = fcw[v]
    BY <2>1 DEF IInv, HandshakeInOrder, RegistersAgree, Clearing
  <2>. QED BY <2>2 DEF SoundsAsPlayed, Settings
<1>. QED BY <1>1, Invariant, PTL

\* A note finds no voice at the last value of the counter only.
THEOREM StrayCorrect == Spec => []StrayOnlyAtWrap
<1>1. IInv => StrayOnlyAtWrap
  BY DEF IInv
<1>. QED BY <1>1, Invariant, PTL

-----------------------------------------------------------------------------
(***************************************************************************)
(* The piano plays its last VOICES notes. order lists the voices that      *)
(* play, each once and each with a note of its own; of two of them whose   *)
(* notes were started since the counter wrapped, the earlier has the       *)
(* smaller start time, and the others come before them.                    *)
(***************************************************************************)
Ordered ==
    /\ order \in Seq(Voice) /\ Range(order) = active
    /\ IsInjective(order)
    /\ \A u, v \in active : fcw[u] = fcw[v] => u = v

Chronological ==
    /\ \A v \in active \ wrapped : start_time[v] <= cycles
    /\ \A i, j \in DOMAIN order : i < j =>
         /\ order[j] \in wrapped => order[i] \in wrapped
         /\ order[i] \notin wrapped => start_time[order[i]] < start_time[order[j]]

OrderInv == Ordered /\ Chronological

LEMMA RemoveAtProperties ==
    ASSUME NEW S, NEW s \in Seq(S), NEW k \in 1 .. Len(s)
    PROVE  /\ RemoveAt(s, k) \in Seq(S)
           /\ Len(RemoveAt(s, k)) = Len(s) - 1
           /\ \A i \in 1 .. Len(s) - 1 : RemoveAt(s, k)[i] = IF i < k THEN s[i] ELSE s[i + 1]
<1>. DEFINE front == SubSeq(s, 1, k - 1)
            back  == SubSeq(s, k + 1, Len(s))
<1>1. front \in Seq(S) /\ Len(front) = k - 1 /\ \A i \in 1 .. k - 1 : front[i] = s[i]
  OBVIOUS
<1>2. back \in Seq(S) /\ Len(back) = Len(s) - k /\ \A i \in 1 .. Len(s) - k : back[i] = s[i + k]
  <2>1. back \in Seq(S) /\ Len(back) = Len(s) - k
    OBVIOUS
  <2>2. \A i \in 1 .. Len(s) - k : back[i] = s[(k + 1) + i - 1] /\ (k + 1) + i - 1 = i + k
    OBVIOUS
  <2>. HIDE DEF back
  <2>. QED BY <2>1, <2>2
<1>3. RemoveAt(s, k) = front \o back
  BY DEF RemoveAt
<1>. HIDE DEF front, back
<1>4. /\ front \o back \in Seq(S) /\ Len(front \o back) = Len(s) - 1
      /\ \A i \in 1 .. Len(s) - 1 :
           (front \o back)[i] = IF i < k THEN front[i] ELSE back[i - (k - 1)]
  <2>1. Len(s) \in Nat /\ k \in 1 .. Len(s)
    OBVIOUS
  <2>2. front \o back \in Seq(S) /\ Len(front \o back) = Len(s) - 1
    BY <1>1, <1>2, <2>1
  <2>3. \A i \in 1 .. Len(front) + Len(back) :
          (front \o back)[i] = IF i <= Len(front) THEN front[i] ELSE back[i - Len(front)]
    BY <1>1, <1>2
  <2>. QED BY <1>1, <1>2, <2>1, <2>2, <2>3
<1>5. ASSUME NEW i \in 1 .. Len(s) - 1
      PROVE  (front \o back)[i] = IF i < k THEN s[i] ELSE s[i + 1]
  <2>1. CASE i < k
    BY <1>1, <1>4, <2>1
  <2>2. CASE ~ (i < k)
    <3>1. i - (k - 1) \in 1 .. Len(s) - k /\ (i - (k - 1)) + k = i + 1
      BY <2>2
    <3>. QED BY <1>2, <1>4, <2>2, <3>1
  <2>. QED BY <2>1, <2>2
<1>. QED BY <1>3, <1>4, <1>5

\* A voice that plays has one place in the order.
LEMMA PositionFound ==
    ASSUME Ordered, NEW v \in active
    PROVE  Position(v) \in 1 .. Len(order) /\ order[Position(v)] = v
<1>1. \E k \in DOMAIN order : order[k] = v
  BY DEF Ordered, Range
<1>2. DOMAIN order = 1 .. Len(order)
  BY DEF Ordered
<1>. QED BY <1>1, <1>2 DEF Position

\* The order without a voice: the others, each once, as they were.
LEMMA WithoutProperties ==
    ASSUME Ordered, NEW v \in Voice
    PROVE  /\ Without(v) \in Seq(Voice)
           /\ IsInjective(Without(v))
           /\ Range(Without(v)) = active \ {v}
           /\ \A i, j \in DOMAIN Without(v) : i < j =>
                \E p, q \in DOMAIN order :
                  p < q /\ Without(v)[i] = order[p] /\ Without(v)[j] = order[q]
<1>. DEFINE rest == Without(v)
<1>1. CASE v \notin active
  BY <1>1 DEF Without, Ordered
<1>2. CASE v \in active
  <2>. DEFINE k == Position(v)
  <2>1. k \in 1 .. Len(order) /\ order[k] = v
    BY <1>2, PositionFound
  <2>2. rest = RemoveAt(order, k) /\ order \in Seq(Voice) /\ DOMAIN order = 1 .. Len(order)
    BY <1>2 DEF Without, Ordered
  <2>3. /\ rest \in Seq(Voice) /\ Len(rest) = Len(order) - 1
        /\ \A i \in 1 .. Len(order) - 1 : rest[i] = IF i < k THEN order[i] ELSE order[i + 1]
    BY <2>1, <2>2, RemoveAtProperties
  <2>4. DOMAIN rest = 1 .. Len(order) - 1
    BY <2>3
  <2>. DEFINE source(i) == IF i < k THEN i ELSE i + 1
  <2>5. \A i \in DOMAIN rest : source(i) \in (DOMAIN order) \ {k} /\ rest[i] = order[source(i)]
    BY <2>1, <2>2, <2>3, <2>4
  <2>6. \A i, j \in DOMAIN rest : i < j => source(i) < source(j)
    BY <2>1, <2>4
  <2>7. IsInjective(rest)
    <3>1. \A i, j \in DOMAIN rest : source(i) = source(j) => i = j
      BY <2>1, <2>4
    <3>. HIDE DEF source
    <3>. QED BY <2>5, <3>1 DEF IsInjective, Ordered
  <2>8. Range(rest) = active \ {v}
    <3>1. ASSUME NEW u \in Range(rest) PROVE u \in active \ {v}
      <4>1. PICK i \in DOMAIN rest : u = rest[i]
        BY <3>1 DEF Range
      <4>2. source(i) \in DOMAIN order /\ source(i) # k /\ u = order[source(i)]
        BY <2>5, <4>1
      <4>. HIDE DEF source
      <4>. QED BY <2>1, <2>2, <4>2 DEF Ordered, Range, IsInjective
    <3>2. ASSUME NEW u \in active, u # v PROVE u \in Range(rest)
      <4>1. PICK p \in DOMAIN order : order[p] = u
        BY <3>2 DEF Ordered, Range
      <4>2. p # k /\ p \in 1 .. Len(order) /\ Len(order) \in Nat
        BY <2>1, <2>2, <3>2, <4>1
      <4>3. CASE p < k
        <5>1. p \in DOMAIN rest /\ rest[p] = order[p]
          BY <2>1, <2>3, <2>4, <4>2, <4>3
        <5>. QED BY <4>1, <5>1 DEF Range
      <4>4. CASE p > k
        <5>1. p - 1 \in DOMAIN rest /\ rest[p - 1] = order[p]
          BY <2>1, <2>3, <2>4, <4>2, <4>4
        <5>. QED BY <4>1, <5>1 DEF Range
      <4>. QED BY <2>1, <4>2, <4>3, <4>4
    <3>. QED BY <3>1, <3>2
  <2>9. ASSUME NEW i \in DOMAIN rest, NEW j \in DOMAIN rest, i < j
        PROVE  \E p, q \in DOMAIN order : p < q /\ rest[i] = order[p] /\ rest[j] = order[q]
    <3>1. source(i) < source(j)
      BY <2>6, <2>9
    <3>2. /\ source(i) \in DOMAIN order /\ rest[i] = order[source(i)]
          /\ source(j) \in DOMAIN order /\ rest[j] = order[source(j)]
      BY <2>5
    <3>. HIDE DEF source
    <3>. QED BY <3>1, <3>2
  <2>. QED BY <2>3, <2>7, <2>8, <2>9
<1>. QED BY <1>1, <1>2

\* There is room in the order exactly while a voice is free.
LEMMA RoomInOrder ==
    ASSUME TypeOK, Ordered
    PROVE  Len(order) \in 0 .. VOICES /\ (Len(order) < VOICES <=> Free # {})
<1>1. IsFiniteSet(Voice) /\ Cardinality(Voice) = VOICES
  BY FS_Interval, PianoAssumption DEF Voice
<1>2. IsFiniteSet(1 .. Len(order)) /\ Cardinality(1 .. Len(order)) = Len(order)
  <2>1. Len(order) \in Nat
    BY DEF Ordered
  <2>. QED BY <2>1, FS_Interval, SMTT(40)
<1>3. order \in Injection(1 .. Len(order), Voice)
  <2>1. order \in [1 .. Len(order) -> Voice]
    BY DEF Ordered
  <2>. QED BY <2>1 DEF Ordered, Injection, IsInjective
<1>4. Len(order) <= VOICES /\ (Len(order) = VOICES <=> order \in Surjection(1 .. Len(order), Voice))
  BY <1>1, <1>2, <1>3, FS_Injection
<1>5. order \in Surjection(1 .. Len(order), Voice) <=> active = Voice
  <2>1. order \in [1 .. Len(order) -> Voice]
    BY DEF Ordered
  <2>2. order \in Surjection(1 .. Len(order), Voice)
          <=> \A v \in Voice : \E k \in 1 .. Len(order) : order[k] = v
    BY <2>1 DEF Surjection
  <2>3. active = {order[k] : k \in 1 .. Len(order)}
    BY <2>1 DEF Ordered, Range
  <2>4. active \subseteq Voice
    BY DEF TypeOK
  <2>5. active = Voice <=> \A v \in Voice : \E k \in 1 .. Len(order) : order[k] = v
    BY <2>3, <2>4
  <2>. QED BY <2>2, <2>5
<1>6. Free = {} <=> active = Voice
  BY DEF Free, TypeOK
<1>7. Len(order) \in Nat /\ VOICES \in Nat
  BY PianoAssumption DEF Ordered
<1>. QED BY <1>4, <1>5, <1>6, <1>7

\* What START_PLAY does when it finds a voice.
LEMMA StartPlayVoices ==
    ASSUME IInv, OrderInv, NEW word \in Fcw, NEW delay \in 1 .. TMAX + 1,
           StartPlay(word, delay), Chosen # {}
    PROVE  \E v \in Chosen :
             /\ v \in Voice /\ Playing(word) = {}
             /\ active' = active \cup {v}
             /\ fcw' = [fcw EXCEPT ![v] = word]
             /\ start_time' = [start_time EXCEPT ![v] = cycles']
             /\ order' = Append(Without(v), v)
             /\ cycles \in Nat /\ delay \in Nat /\ delay > 0
             /\ \/ wrapped' = active \ {v}
                \/ wrapped' = wrapped \ {v} /\ cycles' = cycles + delay
<1>. DEFINE time == (cycles + delay) % (TMAX + 1)
<1>1. PICK v \in Chosen :
        /\ Voiced(v, word, time) /\ cycles' = time
        /\ order' = Append(Without(v), v)
        /\ wrapped' = (IF cycles + delay > TMAX THEN active ELSE wrapped) \ {v}
  BY DEF StartPlay
<1>2. TypeOK
  BY DEF IInv
<1>3. v \in Voice /\ Playing(word) = {}
  BY <1>1, <1>2, VoiceFound DEF StartPlay
<1>4. cycles \in Nat /\ delay \in Nat /\ delay > 0 /\ TMAX \in Nat
  BY <1>2, PianoAssumption DEF TypeOK
<1>5. cycles + delay <= TMAX => time = cycles + delay
  BY <1>4
<1>. HIDE DEF time
<1>6. /\ active' = active \cup {v} /\ fcw' = [fcw EXCEPT ![v] = word]
      /\ start_time' = [start_time EXCEPT ![v] = cycles']
  BY <1>1 DEF Voiced
<1>7. \/ wrapped' = active \ {v}
      \/ wrapped' = wrapped \ {v} /\ cycles' = cycles + delay
  BY <1>1, <1>4, <1>5
<1>. QED BY <1>1, <1>3, <1>4, <1>6, <1>7

LEMMA StartPlayOrders ==
    ASSUME IInv, OrderInv, NEW word \in Fcw, NEW delay \in 1 .. TMAX + 1, StartPlay(word, delay)
    PROVE  OrderInv'
<1>1. CASE Chosen = {}
  <2>1. UNCHANGED <<program, history>>
    BY <1>1 DEF StartPlay
  <2>. QED BY <2>1 DEF OrderInv, Ordered, Chronological, program, history
<1>2. CASE Chosen # {}
  <2>1. PICK v \in Chosen :
          /\ v \in Voice /\ Playing(word) = {}
          /\ active' = active \cup {v}
          /\ fcw' = [fcw EXCEPT ![v] = word]
          /\ start_time' = [start_time EXCEPT ![v] = cycles']
          /\ order' = Append(Without(v), v)
          /\ cycles \in Nat /\ delay \in Nat /\ delay > 0
          /\ \/ wrapped' = active \ {v}
             \/ wrapped' = wrapped \ {v} /\ cycles' = cycles + delay
    BY <1>2, StartPlayVoices
  <2>. DEFINE rest == Without(v)
  <2>2. /\ rest \in Seq(Voice) /\ IsInjective(rest) /\ Range(rest) = active \ {v}
        /\ \A i, j \in DOMAIN rest : i < j =>
             \E p, q \in DOMAIN order : p < q /\ rest[i] = order[p] /\ rest[j] = order[q]
    BY <2>1, WithoutProperties DEF OrderInv
  <2>3. TypeOK /\ active \subseteq Voice /\ start_time \in [Voice -> 0 .. TMAX] /\ fcw \in [Voice -> Fcw]
    BY DEF IInv, TypeOK
  <2>. HIDE DEF rest
  <2>4. /\ order' \in Seq(Voice) /\ Len(rest) \in Nat
        /\ DOMAIN order' = 1 .. Len(rest) + 1 /\ DOMAIN rest = 1 .. Len(rest)
        /\ \A i \in DOMAIN rest : order'[i] = rest[i]
        /\ order'[Len(rest) + 1] = v
    BY <2>1, <2>2 DEF rest
  <2>5. \A i \in DOMAIN rest : rest[i] \in active \ {v}
    BY <2>2 DEF Range
  <2>6. Ordered'
    <3>1. Range(order') = active'
      <4>1. ASSUME NEW u \in Range(order') PROVE u \in active'
        <5>1. PICK i \in DOMAIN order' : u = order'[i]
          BY <4>1 DEF Range
        <5>2. i \in DOMAIN rest \/ i = Len(rest) + 1
          BY <2>4
        <5>. QED BY <2>1, <2>4, <2>5, <5>1, <5>2
      <4>2. ASSUME NEW u \in active' PROVE u \in Range(order')
        <5>1. CASE u = v
          BY <2>4, <5>1 DEF Range
        <5>2. CASE u # v
          <6>1. PICK i \in DOMAIN rest : rest[i] = u
            BY <2>1, <2>2, <4>2, <5>2 DEF Range
          <6>2. i \in DOMAIN order' /\ order'[i] = u
            BY <2>4, <6>1
          <6>. QED BY <6>2 DEF Range
        <5>. QED BY <5>1, <5>2
      <4>. QED BY <4>1, <4>2
    <3>2. IsInjective(order')
      <4>1. SUFFICES ASSUME NEW i \in DOMAIN order', NEW j \in DOMAIN order', order'[i] = order'[j]
                     PROVE  i = j
        BY DEF IsInjective
      <4>2. CASE i \in DOMAIN rest /\ j \in DOMAIN rest
        BY <2>2, <2>4, <4>1, <4>2 DEF IsInjective
      <4>3. CASE i = Len(rest) + 1 /\ j \in DOMAIN rest
        BY <2>4, <2>5, <4>1, <4>3
      <4>4. CASE j = Len(rest) + 1 /\ i \in DOMAIN rest
        BY <2>4, <2>5, <4>1, <4>4
      <4>5. i \in DOMAIN rest \/ i = Len(rest) + 1
        BY <2>4
      <4>6. j \in DOMAIN rest \/ j = Len(rest) + 1
        BY <2>4
      <4>. QED BY <4>2, <4>3, <4>4, <4>5, <4>6
    <3>3. ASSUME NEW x \in active', NEW y \in active', fcw'[x] = fcw'[y] PROVE x = y
      <4>1. \A u \in active : fcw[u] # word
        BY <2>1 DEF Playing
      <4>2. fcw'[v] = word /\ \A u \in Voice \ {v} : fcw'[u] = fcw[u]
        BY <2>1, <2>3
      <4>. QED BY <2>1, <2>3, <3>3, <4>1, <4>2 DEF OrderInv, Ordered
    <3>. QED BY <2>4, <3>1, <3>2, <3>3 DEF Ordered
  <2>7. /\ start_time'[v] = cycles'
        /\ \A u \in active \ {v} : start_time'[u] = start_time[u] /\ start_time[u] \in Nat
    <3>1. start_time' = [start_time EXCEPT ![v] = cycles'] /\ v \in Voice
      BY <2>1
    <3>2. \A u \in Voice : start_time[u] \in Nat
      BY <2>3
    <3>. QED BY <2>3, <3>1, <3>2
  <2>8. ASSUME NEW u \in active \ {v}, u \notin wrapped'
        PROVE  /\ wrapped' = wrapped \ {v} /\ u \notin wrapped
               /\ start_time[u] <= cycles /\ start_time[u] < cycles'
    <3>1. wrapped' = wrapped \ {v} /\ cycles' = cycles + delay
      BY <2>1, <2>8
    <3>2. u \notin wrapped
      BY <2>8, <3>1
    <3>3. start_time[u] <= cycles
      BY <3>2 DEF OrderInv, Chronological
    <3>. QED BY <2>1, <2>7, <3>1, <3>2, <3>3
  <2>9. ASSUME NEW i \in DOMAIN order', NEW j \in DOMAIN order', i < j
        PROVE  /\ order'[j] \in wrapped' => order'[i] \in wrapped'
               /\ order'[i] \notin wrapped' => start_time'[order'[i]] < start_time'[order'[j]]
    <3>1. i \in DOMAIN rest /\ order'[i] = rest[i] /\ rest[i] \in active \ {v}
      BY <2>4, <2>5, <2>9
    <3>2. CASE j = Len(rest) + 1
      <4>1. order'[j] = v /\ v \notin wrapped'
        BY <2>1, <2>4, <3>2
      <4>. QED BY <2>7, <2>8, <3>1, <4>1
    <3>3. CASE j \in DOMAIN rest
      <4>1. order'[j] = rest[j] /\ rest[j] \in active \ {v}
        BY <2>4, <2>5, <3>3
      <4>2. PICK p \in DOMAIN order, q \in DOMAIN order :
              p < q /\ rest[i] = order[p] /\ rest[j] = order[q]
        BY <2>2, <2>9, <3>1, <3>3
      <4>3. /\ rest[j] \in wrapped => rest[i] \in wrapped
            /\ rest[i] \notin wrapped => start_time[rest[i]] < start_time[rest[j]]
        BY <4>2 DEF OrderInv, Chronological
      <4>4. rest[j] \in wrapped' => rest[i] \in wrapped'
        BY <2>1, <3>1, <4>3
      <4>5. rest[i] \notin wrapped' => start_time'[rest[i]] < start_time'[rest[j]]
        BY <2>7, <2>8, <3>1, <4>1, <4>3
      <4>. QED BY <3>1, <4>1, <4>4, <4>5
    <3>. QED BY <2>4, <3>2, <3>3
  <2>10. ASSUME NEW u \in active' \ wrapped' PROVE start_time'[u] <= cycles'
    <3>1. CASE u = v
      <4>1. cycles' \in Int
        BY StartPlayKeeps DEF IInv, TypeOK
      <4>. QED BY <2>7, <3>1, <4>1
    <3>2. CASE u # v
      <4>1. start_time'[u] = start_time[u] /\ start_time[u] \in Nat /\ start_time[u] < cycles'
        BY <2>1, <2>7, <2>8, <2>10, <3>2
      <4>2. cycles' \in Int
        BY StartPlayKeeps DEF IInv, TypeOK
      <4>. QED BY <4>1, <4>2
    <3>. QED BY <3>1, <3>2
  <2>. QED BY <2>6, <2>9, <2>10 DEF OrderInv, Chronological
<1>. QED BY <1>1, <1>2

LEMMA StopPlayOrders ==
    ASSUME IInv, OrderInv, NEW word \in Fcw, StopPlay(word)
    PROVE  OrderInv'
<1>1. PICK v \in Playing(word) :
        /\ active' = active \ {v}
        /\ fcw' = [fcw EXCEPT ![v] = 0]
        /\ start_time' = [start_time EXCEPT ![v] = Stopped]
        /\ order' = Without(v) /\ wrapped' = wrapped \ {v}
  BY DEF StopPlay
<1>2. /\ v \in active /\ active \subseteq Voice /\ cycles' = cycles
      /\ start_time \in [Voice -> 0 .. TMAX] /\ fcw \in [Voice -> Fcw]
  BY <1>1 DEF IInv, TypeOK, Playing, StopPlay
<1>3. /\ order' \in Seq(Voice) /\ IsInjective(order') /\ Range(order') = active'
      /\ \A i, j \in DOMAIN order' : i < j =>
           \E p, q \in DOMAIN order : p < q /\ order'[i] = order[p] /\ order'[j] = order[q]
  BY <1>1, <1>2, WithoutProperties DEF OrderInv
<1>4. \A u \in active' : fcw'[u] = fcw[u] /\ start_time'[u] = start_time[u]
                         /\ (u \in wrapped' <=> u \in wrapped)
  BY <1>1, <1>2
<1>5. \A u \in active' : u \in active
  BY <1>1
<1>6. Ordered'
  BY <1>3, <1>4, <1>5 DEF OrderInv, Ordered
<1>7. ASSUME NEW i \in DOMAIN order', NEW j \in DOMAIN order', i < j
      PROVE  /\ order'[j] \in wrapped' => order'[i] \in wrapped'
             /\ order'[i] \notin wrapped' => start_time'[order'[i]] < start_time'[order'[j]]
  <2>1. order'[i] \in active' /\ order'[j] \in active'
    BY <1>3 DEF Range
  <2>2. PICK p \in DOMAIN order, q \in DOMAIN order :
          p < q /\ order'[i] = order[p] /\ order'[j] = order[q]
    BY <1>3, <1>7
  <2>3. /\ order[q] \in wrapped => order[p] \in wrapped
        /\ order[p] \notin wrapped => start_time[order[p]] < start_time[order[q]]
    BY <2>2 DEF OrderInv, Chronological
  <2>. QED BY <1>4, <2>1, <2>2, <2>3
<1>8. \A u \in active' \ wrapped' : start_time'[u] <= cycles'
  BY <1>2, <1>4, <1>5 DEF OrderInv, Chronological
<1>. QED BY <1>6, <1>7, <1>8 DEF OrderInv, Chronological

LEMMA ClearingOrders ==
    ASSUME IInv, OrderInv, CompletedReset
    PROVE  OrderInv'
<1>1. order' = <<>> /\ active' = {} /\ wrapped' = {}
  BY DEF CompletedReset
<1>2. order' \in Seq(Voice) /\ DOMAIN order' = {}
  BY <1>1
<1>. QED BY <1>1, <1>2 DEF OrderInv, Ordered, Chronological, Range, IsInjective

\* One case for each action that writes a voice; the others leave them alone.
LEMMA StepOrders == IInv /\ OrderInv /\ [Next]_vars => OrderInv'
<1>. SUFFICES ASSUME IInv, OrderInv, [Next]_vars PROVE OrderInv'
  OBVIOUS
<1>1. CASE UNCHANGED <<program, history>>
  BY <1>1 DEF OrderInv, Ordered, Chronological, program, history
<1>2. ASSUME \/ \E p \in Param, value \in Level : Set(p, value)
             \/ ResetAll \/ Unknown \/ Ask \/ Answered \/ Completed \/ TakeOver \/ TakeBack
             \/ UNCHANGED vars
      PROVE  UNCHANGED <<program, history>>
  BY <1>2 DEF Set, ResetAll, Unknown, Ask, Answered, Completed, TakeOver, TakeBack, vars
<1>. QED BY <1>1, <1>2, StartPlayOrders, StopPlayOrders, ClearingOrders DEF Next, Command, Handshake

LEMMA StartOrdered == Init => OrderInv
<1>. SUFFICES ASSUME Init PROVE OrderInv
  OBVIOUS
<1>1. order = <<>> /\ active = {}
  BY DEF Init
<1>2. order \in Seq(Voice) /\ DOMAIN order = {}
  BY <1>1
<1>. QED BY <1>1, <1>2 DEF OrderInv, Ordered, Chronological, Range, IsInjective

-----------------------------------------------------------------------------
\* The notes that play, as Notes sees them.
Melody == [k \in 1 .. Len(order) |-> fcw[order[k]]]

\* The oldest voice is the first in the order, if none has outlived a wrap
\* but possibly the one that makes way (main(), START_PLAY).
LEMMA OldestFirst ==
    ASSUME IInv, OrderInv, Free = {}, NEW v \in Chosen, wrapped \subseteq {v}
    PROVE  Position(v) = 1
<1>1. v \in Voice /\ \A u \in Voice : Older(v, u)
  BY DEF Chosen
<1>2. active = Voice /\ start_time \in [Voice -> 0 .. TMAX]
  BY DEF Free, IInv, TypeOK
<1>3. Position(v) \in 1 .. Len(order) /\ order[Position(v)] = v /\ DOMAIN order = 1 .. Len(order)
  BY <1>1, <1>2, PositionFound DEF OrderInv, Ordered
<1>4. ASSUME Position(v) # 1 PROVE FALSE
  <2>1. 1 \in DOMAIN order /\ Position(v) \in DOMAIN order /\ 1 < Position(v)
    BY <1>3, <1>4
  <2>. DEFINE u == order[1]
  <2>2. u \in Voice /\ u # v
    BY <1>3, <1>4, <2>1 DEF OrderInv, Ordered, IsInjective
  <2>3. u \notin wrapped
    BY <2>2
  <2>4. start_time[u] < start_time[v]
    BY <1>3, <2>1, <2>3 DEF OrderInv, Chronological
  <2>5. start_time[v] <= start_time[u]
    <3>1. start_time[u] \in Nat /\ start_time[v] \in Nat
      BY <1>1, <1>2, <2>2
    <3>. QED BY <1>1, <2>2, <3>1 DEF Older
  <2>6. start_time[u] \in Nat /\ start_time[v] \in Nat
    BY <1>1, <1>2, <2>2
  <2>. QED BY <2>4, <2>5, <2>6
<1>. QED BY <1>4

LEMMA AppendAsFunction ==
    ASSUME NEW S, NEW s \in Seq(S), NEW e \in S
    PROVE  Append(s, e) = [i \in 1 .. Len(s) + 1 |-> IF i \in 1 .. Len(s) THEN s[i] ELSE e]
<1>. DEFINE t == Append(s, e)
<1>1. /\ t \in Seq(S) /\ Len(t) = Len(s) + 1
      /\ \A i \in 1 .. Len(s) : t[i] = s[i]
      /\ t[Len(s) + 1] = e
  BY AppendProperties
<1>. HIDE DEF t
<1>2. t = [i \in 1 .. Len(s) + 1 |-> t[i]]
  BY <1>1
<1>3. ASSUME NEW i \in 1 .. Len(s) + 1
      PROVE  t[i] = IF i \in 1 .. Len(s) THEN s[i] ELSE e
  <2>1. Len(s) \in Nat
    OBVIOUS
  <2>2. i \in 1 .. Len(s) \/ i = Len(s) + 1
    BY <2>1
  <2>. QED BY <1>1, <2>1, <2>2
<1>4. t = [i \in 1 .. Len(s) + 1 |-> IF i \in 1 .. Len(s) THEN s[i] ELSE e]
  BY <1>2, <1>3
<1>. QED BY <1>4 DEF t

\* A note that starts, in the terms of this module.
LEMMA StartOfMelody ==
    ASSUME NEW word, word \notin Range(Melody),
           IF Len(Melody) < VOICES
           THEN Melody' = Append(Melody, word)
           ELSE \E k \in IF wrapped' = {} THEN {1} ELSE 1 .. VOICES :
                  Melody' = Append(RemoveAt(Melody, k), word)
    PROVE  N!Start(word)
<1>1. \A s : N!Range(s) = Range(s)
  BY DEF N!Range, Range
<1>2. \A s, k : N!RemoveAt(s, k) = RemoveAt(s, k)
  BY DEF N!RemoveAt, RemoveAt
<1>. QED BY <1>1, <1>2 DEF N!Start, Melody

LEMMA StartPlayRefines ==
    ASSUME IInv, OrderInv, NEW word \in Fcw, NEW delay \in 1 .. TMAX + 1, StartPlay(word, delay)
    PROVE  N!Start(word) \/ UNCHANGED Melody
<1>1. CASE Chosen = {}
  <2>1. UNCHANGED <<program, history>>
    BY <1>1 DEF StartPlay
  <2>. QED BY <2>1 DEF Melody, program, history
<1>2. CASE Chosen # {}
  <2>1. PICK v \in Chosen :
          /\ v \in Voice /\ Playing(word) = {}
          /\ active' = active \cup {v}
          /\ fcw' = [fcw EXCEPT ![v] = word]
          /\ start_time' = [start_time EXCEPT ![v] = cycles']
          /\ order' = Append(Without(v), v)
          /\ cycles \in Nat /\ delay \in Nat /\ delay > 0
          /\ \/ wrapped' = active \ {v}
             \/ wrapped' = wrapped \ {v} /\ cycles' = cycles + delay
    BY <1>2, StartPlayVoices
  <2>2. /\ order \in Seq(Voice) /\ Len(order) \in Nat /\ DOMAIN order = 1 .. Len(order)
        /\ \A k \in 1 .. Len(order) : order[k] \in active /\ order[k] \in Voice
        /\ fcw \in [Voice -> Fcw] /\ wrapped \subseteq active
    BY DEF OrderInv, Ordered, IInv, TypeOK, Range
  <2>3. Melody \in Seq(Fcw) /\ Len(Melody) = Len(order) /\ DOMAIN Melody = 1 .. Len(order)
    BY <2>2 DEF Melody
  <2>4. word \notin Range(Melody)
    <3>1. \A k \in 1 .. Len(order) : fcw[order[k]] # word
      BY <2>1, <2>2 DEF Playing
    <3>. QED BY <2>3, <3>1 DEF Melody, Range
  <2>5. fcw'[v] = word /\ \A u \in Voice \ {v} : fcw'[u] = fcw[u]
    BY <2>1, <2>2
  <2>6. Len(order) < VOICES <=> Free # {}
    BY RoomInOrder DEF OrderInv, IInv
  <2>7. CASE Free # {}
    <3>1. v \notin active
      BY <2>7 DEF Chosen, Free
    <3>2. Without(v) = order
      BY <3>1 DEF Without, OrderInv, Ordered
    <3>3. Melody' = Append(Melody, word)
      <4>1. /\ Len(order') = Len(order) + 1 /\ order'[Len(order) + 1] = v
            /\ \A k \in 1 .. Len(order) : order'[k] = order[k]
        BY <2>1, <2>2, <3>2
      <4>2. Append(Melody, word) = [k \in 1 .. Len(order) + 1 |->
                                      IF k \in 1 .. Len(order) THEN Melody[k] ELSE word]
        BY <2>3, AppendAsFunction
      <4>3. Melody' = [k \in 1 .. Len(order) + 1 |-> fcw'[order'[k]]]
        BY <4>1 DEF Melody
      <4>4. ASSUME NEW k \in 1 .. Len(order) + 1
            PROVE  fcw'[order'[k]] = IF k \in 1 .. Len(order) THEN Melody[k] ELSE word
        <5>1. CASE k \in 1 .. Len(order)
          BY <2>2, <2>5, <3>1, <4>1, <5>1 DEF Melody
        <5>2. CASE k = Len(order) + 1
          BY <2>2, <2>5, <4>1, <5>2
        <5>. QED BY <2>2, <5>1, <5>2
      <4>. QED BY <4>2, <4>3, <4>4
    <3>. QED BY <2>3, <2>4, <2>6, <2>7, <3>3, StartOfMelody
  <2>8. CASE Free = {}
    <3>. DEFINE k == Position(v)
    <3>1. v \in active /\ active = Voice
      BY <2>1, <2>8 DEF Free, IInv, TypeOK
    <3>2. k \in 1 .. Len(order) /\ order[k] = v
      BY <3>1, PositionFound DEF OrderInv
    <3>3. Without(v) = RemoveAt(order, k)
      BY <3>1 DEF Without, OrderInv, Ordered
    <3>. HIDE DEF k
    <3>4. /\ RemoveAt(order, k) \in Seq(Voice) /\ Len(RemoveAt(order, k)) = Len(order) - 1
          /\ \A i \in 1 .. Len(order) - 1 :
               RemoveAt(order, k)[i] = IF i < k THEN order[i] ELSE order[i + 1]
      BY <2>2, <3>2, RemoveAtProperties
    <3>5. /\ RemoveAt(Melody, k) \in Seq(Fcw) /\ Len(RemoveAt(Melody, k)) = Len(order) - 1
          /\ \A i \in 1 .. Len(order) - 1 :
               RemoveAt(Melody, k)[i] = IF i < k THEN Melody[i] ELSE Melody[i + 1]
      BY <2>3, <3>2, RemoveAtProperties
    <3>6. \A i \in 1 .. Len(order) : i # k => order[i] # v
      BY <2>2, <3>2 DEF OrderInv, Ordered, IsInjective
    <3>7. Melody' = Append(RemoveAt(Melody, k), word)
      <4>1. /\ Len(order') = Len(order) /\ order'[Len(order)] = v
            /\ \A i \in 1 .. Len(order) - 1 : order'[i] = RemoveAt(order, k)[i]
        <5>1. order' = Append(RemoveAt(order, k), v) /\ (Len(order) - 1) + 1 = Len(order)
          BY <2>1, <2>2, <3>3
        <5>2. /\ Len(order') = Len(order) /\ order'[Len(order)] = v
              /\ \A i \in 1 .. Len(RemoveAt(order, k)) : order'[i] = RemoveAt(order, k)[i]
          BY <2>1, <3>4, <5>1, AppendProperties
        <5>. QED BY <3>4, <5>2
      <4>2. Append(RemoveAt(Melody, k), word) = [i \in 1 .. Len(order) |->
              IF i \in 1 .. Len(order) - 1 THEN RemoveAt(Melody, k)[i] ELSE word]
        <5>1. (Len(order) - 1) + 1 = Len(order)
          BY <2>2
        <5>. QED BY <3>5, <5>1, AppendAsFunction
      <4>3. Melody' = [i \in 1 .. Len(order) |-> fcw'[order'[i]]]
        BY <4>1 DEF Melody
      <4>4. ASSUME NEW i \in 1 .. Len(order)
            PROVE  fcw'[order'[i]] = IF i \in 1 .. Len(order) - 1
                                     THEN RemoveAt(Melody, k)[i] ELSE word
        <5>1. CASE i \in 1 .. Len(order) - 1 /\ i < k
          <6>1. i \in 1 .. Len(order) /\ i # k
            BY <2>2, <3>2, <5>1
          <6>2. order'[i] = order[i] /\ RemoveAt(Melody, k)[i] = Melody[i]
            BY <3>4, <3>5, <4>1, <5>1
          <6>3. Melody[i] = fcw[order[i]]
            BY <6>1 DEF Melody
          <6>. QED BY <2>2, <2>5, <3>6, <5>1, <6>1, <6>2, <6>3
        <5>2. CASE i \in 1 .. Len(order) - 1 /\ ~ (i < k)
          <6>1. i + 1 \in 1 .. Len(order) /\ i + 1 # k
            BY <2>2, <3>2, <5>2
          <6>2. order'[i] = order[i + 1] /\ RemoveAt(Melody, k)[i] = Melody[i + 1]
            BY <3>4, <3>5, <4>1, <5>2
          <6>3. Melody[i + 1] = fcw[order[i + 1]]
            BY <6>1 DEF Melody
          <6>. QED BY <2>2, <2>5, <3>6, <5>2, <6>1, <6>2, <6>3
        <5>3. CASE i = Len(order)
          <6>1. i \notin 1 .. Len(order) - 1
            BY <2>2, <5>3
          <6>2. order'[i] = v
            BY <4>1, <5>3
          <6>. QED BY <2>5, <6>1, <6>2
        <5>4. i \in 1 .. Len(order) - 1 \/ i = Len(order)
          <6>1. Len(order) \in Nat
            BY <2>2
          <6>. QED BY <6>1
        <5>. QED BY <5>1, <5>2, <5>3, <5>4
      <4>. QED BY <4>2, <4>3, <4>4
    <3>8. wrapped' = {} => k = 1
      <4>1. CASE wrapped' = wrapped \ {v}
        BY <2>8, <4>1, OldestFirst DEF k
      <4>2. CASE wrapped' = active \ {v} /\ wrapped' = {}
        <5>1. wrapped \subseteq {v}
          BY <2>2, <4>2
        <5>. QED BY <2>8, <5>1, OldestFirst DEF k
      <4>. QED BY <2>1, <4>1, <4>2
    <3>9. Len(order) = VOICES
      <4>1. Len(order) \in 0 .. VOICES /\ VOICES \in Nat
        BY RoomInOrder, PianoAssumption DEF OrderInv, IInv
      <4>. QED BY <2>6, <2>8, <4>1
    <3>. QED BY <2>3, <2>4, <2>6, <2>8, <3>2, <3>7, <3>8, <3>9, StartOfMelody
  <2>. QED BY <2>7, <2>8
<1>. QED BY <1>1, <1>2

LEMMA StopPlayRefines ==
    ASSUME IInv, OrderInv, NEW word \in Fcw, StopPlay(word)
    PROVE  N!Stop(word)
<1>1. PICK v \in Playing(word) : fcw' = [fcw EXCEPT ![v] = 0] /\ order' = Without(v)
  BY DEF StopPlay
<1>2. v \in active /\ active \subseteq Voice /\ fcw \in [Voice -> Fcw] /\ fcw[v] = word
  BY <1>1 DEF IInv, TypeOK, Playing
<1>3. /\ order \in Seq(Voice) /\ Len(order) \in Nat /\ DOMAIN order = 1 .. Len(order)
      /\ \A i \in 1 .. Len(order) : order[i] \in Voice
  BY DEF OrderInv, Ordered
<1>. DEFINE k == Position(v)
<1>4. k \in 1 .. Len(order) /\ order[k] = v
  BY <1>2, PositionFound DEF OrderInv
<1>5. order' = RemoveAt(order, k)
  BY <1>1, <1>2 DEF Without, OrderInv, Ordered
<1>. HIDE DEF k
<1>6. /\ Len(order') = Len(order) - 1
      /\ \A i \in 1 .. Len(order) - 1 : order'[i] = IF i < k THEN order[i] ELSE order[i + 1]
  BY <1>3, <1>4, <1>5, RemoveAtProperties
<1>7. Melody \in Seq(Fcw) /\ Len(Melody) = Len(order) /\ DOMAIN Melody = 1 .. Len(order)
  BY <1>2, <1>3 DEF Melody
<1>8. /\ RemoveAt(Melody, k) \in Seq(Fcw) /\ Len(RemoveAt(Melody, k)) = Len(order) - 1
      /\ \A i \in 1 .. Len(order) - 1 :
           RemoveAt(Melody, k)[i] = IF i < k THEN Melody[i] ELSE Melody[i + 1]
  BY <1>4, <1>7, RemoveAtProperties
<1>9. Melody' = RemoveAt(Melody, k)
  <2>1. Melody' = [i \in 1 .. Len(order) - 1 |-> fcw'[order'[i]]]
    BY <1>6 DEF Melody
  <2>2. RemoveAt(Melody, k) = [i \in 1 .. Len(order) - 1 |-> RemoveAt(Melody, k)[i]]
    BY <1>8
  <2>3. ASSUME NEW i \in 1 .. Len(order) - 1 PROVE fcw'[order'[i]] = RemoveAt(Melody, k)[i]
    <3>. DEFINE from == IF i < k THEN i ELSE i + 1
    <3>1. from \in 1 .. Len(order) /\ from # k
      BY <1>3, <1>4
    <3>2. order'[i] = order[from] /\ RemoveAt(Melody, k)[i] = Melody[from]
      BY <1>6, <1>8
    <3>. HIDE DEF from
    <3>3. Melody[from] = fcw[order[from]] /\ order[from] # v /\ order[from] \in Voice
      BY <1>3, <1>4, <3>1 DEF Melody, OrderInv, Ordered, IsInjective
    <3>. QED BY <1>1, <1>2, <3>2, <3>3
  <2>. QED BY <2>1, <2>2, <2>3
<1>10. Melody[k] = word
  BY <1>2, <1>4 DEF Melody
<1>11. N!RemoveAt(Melody, k) = RemoveAt(Melody, k)
  BY DEF N!RemoveAt, RemoveAt
<1>. QED BY <1>4, <1>7, <1>9, <1>10, <1>11 DEF N!Stop, Melody

\* A step of the piano is a step of the keyboard, or leaves it alone.
LEMMA StepRefines == IInv /\ OrderInv /\ [Next]_vars => [N!Next]_Melody
<1>. SUFFICES ASSUME IInv, OrderInv, [Next]_vars PROVE N!Next \/ UNCHANGED Melody
  OBVIOUS
<1>1. ASSUME \/ \E p \in Param, value \in Level : Set(p, value)
             \/ ResetAll \/ Unknown \/ Ask \/ Answered \/ Completed \/ TakeOver \/ TakeBack
             \/ UNCHANGED vars
      PROVE  UNCHANGED Melody
  <2>1. UNCHANGED <<program, history>>
    BY <1>1 DEF Set, ResetAll, Unknown, Ask, Answered, Completed, TakeOver, TakeBack, vars
  <2>. QED BY <2>1 DEF Melody, program, history
<1>2. ASSUME NEW word \in Fcw, NEW delay \in 1 .. TMAX + 1, StartPlay(word, delay)
      PROVE  N!Next \/ UNCHANGED Melody
  BY <1>2, StartPlayRefines DEF N!Next
<1>3. ASSUME NEW word \in Fcw, StopPlay(word)
      PROVE  N!Next
  BY <1>3, StopPlayRefines DEF N!Next
<1>4. ASSUME CompletedReset
      PROVE  N!Next
  <2>1. order' = <<>>
    BY <1>4 DEF CompletedReset
  <2>2. Melody' = <<>>
    BY <2>1 DEF Melody
  <2>. QED BY <2>2 DEF N!Next, N!Reset, Melody
<1>. QED BY <1>1, <1>2, <1>3, <1>4 DEF Next, Command, Handshake

LEMMA StartRefines == Init => N!Init
<1>. SUFFICES ASSUME Init PROVE N!Init
  OBVIOUS
<1>1. order = <<>> /\ wrapped = {}
  BY DEF Init
<1>2. Melody = <<>>
  BY <1>1 DEF Melody
<1>. QED BY <1>1, <1>2 DEF N!Init, Melody

\* The voices that play have the last VOICES notes, in the order in which they
\* were started, and the oldest makes way while CYCLE_COUNTER has not wrapped
\* since a note that plays was started (main() of piano.c).
THEOREM PlaysTheLastNotes == Spec => NotesSpec
<1>1. Init => IInv /\ OrderInv
  BY StartKeeps, StartOrdered
<1>2. (IInv /\ OrderInv) /\ [Next]_vars => (IInv /\ OrderInv)'
  BY StepKeeps, StepOrders
<1>. QED BY <1>1, <1>2, StartRefines, StepRefines, PTL DEF Spec, NotesSpec, N!Spec, Melody
=============================================================================
