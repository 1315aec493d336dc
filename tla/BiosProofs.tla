----------------------------- MODULE BiosProofs -----------------------------
(***************************************************************************)
(* The monitor's buffers, counts and memory stay in their bounds, and a    *)
(* host whose pauses cover what the monitor has still to print loses no    *)
(* character, for every buffer length, every length of what is printed,    *)
(* every pause and whatever is sent.                                       *)
(***************************************************************************)
EXTENDS Bios, SequenceTheorems, TLAPS

-----------------------------------------------------------------------------
(***************************************************************************)
(* What a number's first characters come to. There are at most five of     *)
(* them, so the function that Ascii defines by recursion is unrolled.      *)
(***************************************************************************)
Digested(s, k, t) ==
    IF s[k] \in Digit THEN 2 * t + (IF s[k] = "1" THEN 1 ELSE 0) ELSE t

LEMMA DigestedType ==
    ASSUME NEW s, NEW k, NEW t \in Nat
    PROVE  Digested(s, k, t) \in Nat /\ Digested(s, k, t) <= 2 * t + 1
BY DEF Digested

LEMMA AsciiType ==
    ASSUME NEW s \in Seq(Char), NEW n \in 0 .. HEX + 1
    PROVE  Ascii(s, n) \in Nat /\ (n <= HEX => Ascii(s, n) \in Word)
<1>. DEFINE last == IF Len(s) < n THEN Len(s) ELSE n
            t1 == Digested(s, 1, 0)
            t2 == Digested(s, 2, t1)
            t3 == Digested(s, 3, t2)
            t4 == Digested(s, 4, t3)
            t5 == Digested(s, 5, t4)
            upto == [k \in 0 .. last |->
                       IF k = 0 THEN 0 ELSE IF k = 1 THEN t1 ELSE IF k = 2 THEN t2
                       ELSE IF k = 3 THEN t3 ELSE IF k = 4 THEN t4 ELSE t5]
            Fits(f) == f = [k \in 0 .. last |-> IF k = 0 THEN 0 ELSE Digested(s, k, f[k - 1])]
<1>1. last \in 0 .. 5 /\ (n <= HEX => last \in 0 .. 4)
  <2>1. ASSUME NEW l \in Nat, NEW m \in 0 .. 5
        PROVE  /\ (IF l < m THEN l ELSE m) \in 0 .. 5
               /\ m <= 4 => (IF l < m THEN l ELSE m) \in 0 .. 4
    OBVIOUS
  <2>2. Len(s) \in Nat /\ n \in 0 .. 5
    BY DEF HEX
  <2>. QED BY <2>1, <2>2 DEF HEX
<1>2. /\ t1 \in Nat /\ t1 <= 1 /\ t2 \in Nat /\ t2 <= 3 /\ t3 \in Nat /\ t3 <= 7
      /\ t4 \in Nat /\ t4 <= 15 /\ t5 \in Nat
  <2>1. t1 \in Nat /\ t1 <= 1
    BY DigestedType
  <2>. HIDE DEF t1
  <2>2. t2 \in Nat /\ t2 <= 3
    BY <2>1, DigestedType
  <2>. HIDE DEF t2
  <2>3. t3 \in Nat /\ t3 <= 7
    BY <2>2, DigestedType
  <2>. HIDE DEF t3
  <2>4. t4 \in Nat /\ t4 <= 15
    BY <2>3, DigestedType
  <2>. HIDE DEF t4
  <2>5. t5 \in Nat
    BY <2>4, DigestedType
  <2>. QED BY <2>1, <2>2, <2>3, <2>4, <2>5
<1>3. Fits(upto)
  <2>1. ASSUME NEW k \in 0 .. last
        PROVE  upto[k] = IF k = 0 THEN 0 ELSE Digested(s, k, upto[k - 1])
    <3>. HIDE DEF last
    <3>1. k = 0 \/ k = 1 \/ k = 2 \/ k = 3 \/ k = 4 \/ k = 5
      BY <1>1
    <3>2. k # 0 => k - 1 \in 0 .. last
      BY <1>1
    <3>. QED BY <3>1, <3>2
  <2>. QED BY <2>1
<1>4. ASSUME NEW f, Fits(f)
      PROVE  f[last] \in Nat /\ (n <= HEX => f[last] \in Word)
  <2>1. \A k \in 0 .. last : f[k] = IF k = 0 THEN 0 ELSE Digested(s, k, f[k - 1])
    BY <1>4
  <2>2. /\ 0 \in 0 .. last /\ (last >= 1 => 1 \in 0 .. last) /\ (last >= 2 => 2 \in 0 .. last)
        /\ (last >= 3 => 3 \in 0 .. last) /\ (last >= 4 => 4 \in 0 .. last)
        /\ (last >= 5 => 5 \in 0 .. last)
    BY <1>1
  <2>. HIDE DEF last, Fits
  <2>3. f[0] = 0
    BY <2>1, <2>2
  <2>4. last >= 1 => f[1] = t1
    BY <1>1, <2>1, <2>2, <2>3
  <2>5. last >= 2 => f[2] = t2
    BY <1>1, <2>1, <2>2, <2>4
  <2>6. last >= 3 => f[3] = t3
    BY <1>1, <2>1, <2>2, <2>5
  <2>7. last >= 4 => f[4] = t4
    BY <1>1, <2>1, <2>2, <2>6
  <2>8. last >= 5 => f[5] = t5
    BY <1>1, <2>1, <2>2, <2>7
  <2>9. last = 0 \/ last = 1 \/ last = 2 \/ last = 3 \/ last = 4 \/ last = 5
    BY <1>1
  <2>. HIDE DEF t1, t2, t3, t4, t5
  <2>10. f[last] \in Nat /\ (last # 5 => f[last] <= 15)
    <3>1. CASE last = 0
      BY <2>3, <3>1
    <3>2. CASE last = 1
      BY <1>2, <2>4, <3>2
    <3>3. CASE last = 2
      BY <1>2, <2>5, <3>3
    <3>4. CASE last = 3
      BY <1>2, <2>6, <3>4
    <3>5. CASE last = 4
      BY <1>2, <2>7, <3>5
    <3>6. CASE last = 5
      BY <1>2, <2>8, <3>6
    <3>. QED BY <2>9, <3>1, <3>2, <3>3, <3>4, <3>5, <3>6
  <2>11. n <= HEX => last # 5
    BY <1>1
  <2>. QED BY <2>10, <2>11 DEF Word
<1>5. Ascii(s, n) = (CHOOSE f : Fits(f))[last]
  BY DEF Ascii, Digested
<1>6. Fits(CHOOSE f : Fits(f))
  BY <1>3
<1>. HIDE DEF Fits, last
<1>. QED BY <1>4, <1>5, <1>6

\* Numbers are read into words: all of a hexadecimal one's HEX digits, and
\* what a decimal one comes to, cut to a word.
LEMMA HexType ==
    ASSUME NEW s \in Seq(Char), NEW n \in 0 .. HEX
    PROVE  AsciiHex(s, n) \in Word
<1>1. n \in 0 .. HEX + 1 /\ n <= HEX
  BY DEF HEX
<1>. QED BY <1>1, AsciiType DEF AsciiHex

LEMMA DecType ==
    ASSUME NEW s \in Seq(Char)
    PROVE  AsciiDec(s) \in 0 .. 15
<1>1. HEX + 1 \in 0 .. HEX + 1
  BY DEF HEX
<1>2. Ascii(s, HEX + 1) \in Nat
  BY <1>1, AsciiType
<1>. QED BY <1>2 DEF AsciiDec

\* A store leaves a bit in every byte.
LEMMA StoreType ==
    ASSUME mem \in [Byte -> {0, 1}], NEW k \in Stores, NEW a \in Word, NEW v \in Word
    PROVE  Store(k, a, v) \in [Byte -> {0, 1}]
<1>. DEFINE base == a - (a % 4)
            from == IF k = "sw" THEN base ELSE a
<1>1. base \in Int /\ from \in Int
  BY DEF Word
<1>2. ASSUME NEW b \in Byte
      PROVE  (IF b \in from .. from + Width[k] - 1 /\ b < base + 4
              THEN (v \div 2 ^ (b - from)) % 2 ELSE mem[b]) \in {0, 1}
  <2>. HIDE DEF base, from
  <2>1. CASE b \in from .. from + Width[k] - 1 /\ b < base + 4
    <3>1. Width[k] \in Nat
      BY DEF Width, Stores
    <3>2. b - from \in Nat
      BY <1>1, <2>1, <3>1 DEF Byte
    <3>3. ASSUME NEW e \in Nat
          PROVE  (v \div 2 ^ e) % 2 \in {0, 1}
      BY DEF Word
    <3>4. (v \div 2 ^ (b - from)) % 2 \in {0, 1}
      BY <3>2, <3>3
    <3>. QED BY <2>1, <3>4
  <2>. QED BY <2>1
<1>. QED BY <1>2 DEF Store

-----------------------------------------------------------------------------
(***************************************************************************)
(* Type correctness: the token buffer never overflows, no command counts   *)
(* beyond its bytes, and no address leaves the memory.                     *)
(***************************************************************************)
LEMMA InitType == Init => TypeOK
<1>. SUFFICES ASSUME Init PROVE TypeOK
  OBVIOUS
<1>1. PICK s \in Sessions : todo = s.chars
  BY DEF Init
<1>2. todo \in Seq([c : Char, gap : Nat])
  BY <1>1, BiosAssumption
<1>3. buf \in Seq(Char) /\ Len(buf) < BUFFER_LEN
  BY BiosAssumption DEF Init, HEX
<1>4. pending \in Nat
  BY BiosAssumption DEF Init
<1>. QED BY <1>2, <1>3, <1>4 DEF Init, TypeOK, Prompted, Word

\* What a command does with a token.
LEMMA TokenType ==
    ASSUME TypeOK, NEW tok \in Seq(Char), NEW n \in Nat, Token(tok, n)
    PROVE  /\ at' \in {Prompted, <<"run", 0>>} \cup (Command \X (1 .. 3))
           /\ arg' \in Word /\ left' \in 0 .. 15
           /\ mem' \in [Byte -> {0, 1}]
           /\ pending' \in Nat
<1>1. {PROMPT, ERROR, REPLY} \subseteq Nat
  BY BiosAssumption
<1>2. Len(tok) \in Nat
  OBVIOUS
<1>3. HEX \in 0 .. HEX /\ \A k \in Stores : Width[k] \in 0 .. HEX
  BY DEF HEX, Width, Stores
<1>4. ASSUME NEW m \in Nat, Done(m)
      PROVE  at' = Prompted /\ pending' \in Nat
  BY <1>1, <1>4 DEF Done, TypeOK
<1>5. ASSUME NEW cmd, NEW k, NEW m \in Nat, Then(cmd, k, m)
      PROVE  at' = <<cmd, k>> /\ pending' \in Nat
  BY <1>5 DEF Then, TypeOK
<1>6. CASE Dispatch(tok, n)
  <2>1. n + ERROR + Len(tok) \in Nat
    BY <1>1, <1>2
  <2>2. CASE \E c \in Command : tok = <<c>>
    <3>1. Then(tok[1], 1, n) /\ tok[1] \in Command
      BY <1>6, <2>2 DEF Dispatch
    <3>. QED BY <1>5, <1>6, <3>1 DEF Dispatch, TypeOK
  <2>3. CASE ~\E c \in Command : tok = <<c>>
    BY <1>4, <1>6, <2>1, <2>3 DEF Dispatch, TypeOK
  <2>. QED BY <2>2, <2>3
<1>7. CASE FileAddress(tok, n)
  BY <1>3, <1>5, <1>7, HexType DEF FileAddress, TypeOK, Command
<1>8. CASE FileLength(tok, n)
  BY <1>4, <1>5, <1>8, DecType DEF FileLength, TypeOK, Command
<1>9. CASE StoreValue(tok, n)
  BY <1>3, <1>5, <1>9, HexType DEF StoreValue, TypeOK, Command
<1>10. CASE StoreAddress(tok, n)
  <2>1. PICK k \in Stores : mem' = Store(k, AsciiHex(tok, HEX), arg) /\ Done(n)
    BY <1>10 DEF StoreAddress
  <2>2. AsciiHex(tok, HEX) \in Word
    BY <1>3, HexType
  <2>3. mem' \in [Byte -> {0, 1}]
    BY <2>1, <2>2, StoreType DEF TypeOK
  <2>. QED BY <1>4, <1>10, <2>1, <2>3 DEF StoreAddress, TypeOK
<1>11. CASE Load(tok, n)
  <2>1. n + REPLY \in Nat
    BY <1>1
  <2>. QED BY <1>4, <1>11, <2>1 DEF Load, TypeOK
<1>12. CASE Led(tok, n)
  BY <1>4, <1>12 DEF Led, TypeOK
<1>13. CASE Jal(tok, n)
  BY <1>3, <1>5, <1>13, HexType DEF Jal, TypeOK
<1>. QED BY <1>6, <1>7, <1>8, <1>9, <1>10, <1>11, <1>12, <1>13 DEF Token

\* What a character does to the token or word being read.
LEMMA CharacterType ==
    ASSUME TypeOK, NEW c \in Char,
           IF at = <<"file", 3>> THEN ReadWord(c) ELSE ReadToken(c)
    PROVE  /\ at' \in {Prompted, <<"run", 0>>} \cup (Command \X (1 .. 3))
           /\ buf' \in Seq(Char) /\ Len(buf') < BUFFER_LEN
           /\ arg' \in Word /\ left' \in 0 .. 15
           /\ mem' \in [Byte -> {0, 1}]
           /\ pending' \in Nat
<1>1. BUFFER_LEN \in Nat /\ BUFFER_LEN > 5 /\ HEX = 4 /\ PROMPT \in Nat
  BY BiosAssumption DEF HEX
<1>2. /\ Echo(c) \in Nat
      /\ buf \in Seq(Char) /\ Len(buf) \in Nat /\ Len(buf) < BUFFER_LEN
      /\ Append(buf, c) \in Seq(Char) /\ Len(Append(buf, c)) = Len(buf) + 1
  BY DEF Echo, TypeOK
<1>3. <<>> \in Seq(Char) /\ Len(<<>>) < BUFFER_LEN
  BY <1>1
<1>4. ASSUME NEW b \in Seq(Char), Len(b) < BUFFER_LEN, NEW n \in Nat, More(b, n)
      PROVE  /\ at' \in {Prompted, <<"run", 0>>} \cup (Command \X (1 .. 3))
             /\ buf' \in Seq(Char) /\ Len(buf') < BUFFER_LEN
             /\ arg' \in Word /\ left' \in 0 .. 15
             /\ mem' \in [Byte -> {0, 1}]
             /\ pending' \in Nat
  BY <1>4 DEF More, TypeOK
<1>5. CASE at # <<"file", 3>> /\ c = "bs"
  <2>. DEFINE b == SubSeq(buf, 1, Len(buf) - 1)
              n == IF buf = <<>> THEN 2 ELSE 3
  <2>1. More(b, n)
    BY <1>5 DEF ReadToken, Backspace
  <2>2. b \in Seq(Char) /\ Len(b) < BUFFER_LEN
    BY <1>1, <1>2, SubSeqProperties
  <2>3. n \in Nat
    OBVIOUS
  <2>. HIDE DEF b, n
  <2>. QED BY <1>4, <2>1, <2>2, <2>3
<1>6. CASE at # <<"file", 3>> /\ Token(buf, Echo(c))
  BY <1>2, <1>3, <1>6, TokenType DEF Token
<1>7. CASE /\ at # <<"file", 3>> /\ Len(buf) + 1 < BUFFER_LEN
           /\ More(Append(buf, c), Echo(c))
  BY <1>2, <1>4, <1>7
<1>8. CASE at = <<"file", 3>>
  <2>1. ReadWord(c)
    BY <1>8
  <2>2. CASE Len(buf) + 1 < HEX
    <3>1. More(Append(buf, c), Echo(c)) /\ Len(Append(buf, c)) < BUFFER_LEN
      BY <1>1, <1>2, <2>1, <2>2 DEF ReadWord
    <3>. QED BY <1>2, <1>4, <3>1
  <2>3. CASE ~(Len(buf) + 1 < HEX)
    <3>1. /\ buf' = <<>>
          /\ mem' = Store("sw", arg, AsciiHex(Append(buf, c), HEX))
          /\ arg' = (arg + 4) % 16
          /\ left' = IF left <= 4 THEN 0 ELSE left - 4
          /\ IF left' = 0 THEN Done(Echo(c)) ELSE Then("file", 3, Echo(c))
      BY <2>1, <2>3 DEF ReadWord
    <3>2. AsciiHex(Append(buf, c), HEX) \in Word
      <4>1. HEX \in 0 .. HEX
        BY <1>1
      <4>. QED BY <1>2, <4>1, HexType
    <3>3. mem' \in [Byte -> {0, 1}]
      BY <3>1, <3>2, StoreType DEF TypeOK, Stores
    <3>4. arg' \in Word /\ left' \in 0 .. 15
      BY <3>1 DEF TypeOK, Word
    <3>5. /\ at' \in {Prompted, <<"run", 0>>} \cup (Command \X (1 .. 3))
          /\ pending' \in Nat
      BY <1>1, <1>2, <3>1 DEF TypeOK, Done, Then, Command
    <3>. QED BY <1>3, <3>1, <3>3, <3>4, <3>5
  <2>. QED BY <2>2, <2>3
<1>. QED BY <1>5, <1>6, <1>7, <1>8 DEF ReadToken

LEMMA ReadType == TypeOK /\ Read => TypeOK'
<1>. SUFFICES ASSUME TypeOK, Read PROVE TypeOK'
  OBVIOUS
<1>1. rx[1] \in Char
  BY DEF TypeOK, Read
<1>2. IF at = <<"file", 3>> THEN ReadWord(rx[1]) ELSE ReadToken(rx[1])
  BY DEF Read
<1>3. rx' = <<>> /\ UNCHANGED <<line, todo, wait, goal>>
  BY DEF Read
<1>4. wait' \in Nat /\ line' \in {<<>>} \cup {<<c>> : c \in Char}
      /\ todo' \in Seq([c : Char, gap : Nat])
  BY <1>3 DEF TypeOK
<1>. QED BY <1>1, <1>2, <1>3, <1>4, CharacterType DEF TypeOK

LEMMA SendType == TypeOK /\ Send => TypeOK'
<1>. SUFFICES ASSUME TypeOK, Send PROVE TypeOK'
  OBVIOUS
<1>1. todo \in Seq([c : Char, gap : Nat]) /\ todo # <<>>
  BY DEF TypeOK, Send
<1>2. todo[1] \in [c : Char, gap : Nat] /\ Tail(todo) \in Seq([c : Char, gap : Nat])
  <2>1. Head(todo) = todo[1]
    BY <1>1
  <2>. QED BY <1>1, <2>1, HeadTailProperties
<1>3. todo[1].c \in Char /\ todo[1].gap \in Nat
  BY <1>2
<1>. QED BY <1>2, <1>3 DEF TypeOK, Send

LEMMA TimeType == TypeOK /\ Time /\ (line = <<>> \/ rx = <<>>) => TypeOK'
<1>. SUFFICES ASSUME TypeOK, Time, line = <<>> \/ rx = <<>> PROVE TypeOK'
  OBVIOUS
<1>1. rx \o line \in {<<>>} \cup {<<c>> : c \in Char}
  <2>1. ASSUME NEW q \in {<<>>} \cup {<<c>> : c \in Char}
        PROVE  q \in Seq(Char)
    <3>1. CASE q = <<>>
      BY <3>1
    <3>2. ASSUME NEW c \in Char, q = <<c>>
          PROVE  q \in Seq(Char)
      BY <3>2
    <3>. QED BY <2>1, <3>1, <3>2
  <2>2. rx \o line = rx \/ rx \o line = line
    BY <2>1, ConcatEmptySeq DEF TypeOK
  <2>. QED BY <2>2 DEF TypeOK
<1>2. wait' \in Nat /\ pending' \in Nat
  BY DEF TypeOK, Time
<1>. QED BY <1>1, <1>2 DEF TypeOK, Time

\* The receiver is empty while a frame is on the line. TypeOK needs it: of two
\* characters the receiver keeps one.
OneAtATime == line # <<>> => rx = <<>>

\* Type correctness, with what it takes to keep it.
LEMMA TypeInvariant == Spec => [](TypeOK /\ OneAtATime)
<1>1. Init => TypeOK /\ OneAtATime
  BY InitType DEF Init, OneAtATime
<1>2. TypeOK /\ OneAtATime /\ [Next]_vars => (TypeOK /\ OneAtATime)'
  <2>. SUFFICES ASSUME TypeOK, OneAtATime, [Next]_vars
                PROVE  TypeOK' /\ OneAtATime'
    OBVIOUS
  <2>1. CASE Read
    BY <2>1, ReadType DEF Read, OneAtATime
  <2>2. CASE Send
    BY <2>2, SendType DEF Send, OneAtATime
  <2>3. CASE Time
    BY <2>3, TimeType DEF Time, OneAtATime
  <2>4. CASE UNCHANGED vars
    BY <2>4 DEF vars, TypeOK, OneAtATime
  <2>. QED BY <2>1, <2>2, <2>3, <2>4 DEF Next
<1>. QED BY <1>1, <1>2, PTL DEF Spec

\* Whatever is sent, and however fast: main's buffer does not overflow, and
\* the counts, addresses and bytes of the monitor stay what they are (bios.c,
\* ascii.c).
THEOREM BiosTypeCorrect == Spec => []TypeOK
BY TypeInvariant, PTL

-----------------------------------------------------------------------------
(***************************************************************************)
(* The pause after a character outlasts what the monitor has to print      *)
(* ahead of reading it, and it is not over before the receiver is read.    *)
(***************************************************************************)
Covered ==
    /\ line # <<>> => wait >= 2
    /\ rx # <<>> => wait >= 1
    /\ line # <<>> \/ rx # <<>> => at[1] # "run" /\ pending <= wait

LEMMA CoveredStep ==
    ASSUME TypeOK, OneAtATime, Covered, Patient, [Next]_vars
    PROVE  Covered' /\ (todo' # todo => rx = <<>>)
<1>. USE DEF Covered, OneAtATime
<1>1. pending \in Nat /\ wait \in Nat
  BY DEF TypeOK
<1>2. CASE Read
  BY <1>2 DEF Read
<1>3. CASE Send
  BY <1>1, <1>3 DEF Send, Patient
<1>4. CASE Time
  <2>1. line' = <<>> /\ UNCHANGED <<at, todo>>
    BY <1>4 DEF Time
  <2>2. CASE line # <<>>
    <3>1. wait' = wait - 1 /\ pending' <= wait'
      BY <1>1, <1>4, <2>2 DEF Time
    <3>. QED BY <1>1, <2>1, <2>2, <3>1
  <2>3. CASE line = <<>> /\ rx # <<>>
    <3>1. pending >= 2
      BY <1>1, <1>4, <2>3 DEF Time, Polling
    <3>2. wait' = wait - 1 /\ pending' = pending - 1
      BY <1>1, <1>4, <2>3, <3>1 DEF Time
    <3>. QED BY <1>1, <2>1, <2>3, <3>1, <3>2
  <2>4. CASE line = <<>> /\ rx = <<>>
    <3>1. rx' = <<>>
      BY <1>4, <2>4 DEF Time
    <3>. QED BY <2>1, <3>1
  <2>. QED BY <2>2, <2>3, <2>4
<1>5. CASE UNCHANGED vars
  BY <1>5 DEF vars
<1>. QED BY <1>2, <1>3, <1>4, <1>5 DEF Next

\* What the loader relies on (hex_to_serial: it never reads the echo): if each
\* pause outlasts what the monitor then has to print, every character is read
\* before the next one's frame starts.
THEOREM PatientHostLosesNothing == Spec /\ []Patient => NothingLost
<1>1. Init => Covered
  BY DEF Init, Covered
<1>2. TypeOK /\ OneAtATime /\ Covered /\ Patient /\ [Next]_vars
        => Covered' /\ [todo' # todo => rx = <<>>]_vars
  BY CoveredStep
<1>. QED BY <1>1, <1>2, TypeInvariant, PTL DEF Spec, NothingLost

-----------------------------------------------------------------------------
(***************************************************************************)
(* How long a pause has to be, if the host knows nothing of the commands:  *)
(* longer than the monitor can print for one character, which is the       *)
(* complaint about a full buffer or the answer to a load, and the prompt.  *)
(***************************************************************************)
Covers(m) ==
    /\ m >= 1 + BUFFER_LEN + ERROR + PROMPT
    /\ m >= 2 + REPLY + PROMPT

\* No token begins with jal, the command that leaves the monitor.
Stays == Char \ {"jal"}
Slow(m) == [c : Stays, gap : {g \in Nat : g >= m}]

SlowInv(m) ==
    /\ todo \in Seq(Slow(m))
    /\ buf \in Seq(Stays)
    /\ line # <<"jal">> /\ rx # <<"jal">>
    /\ at[1] # "jal" /\ at[1] # "run"
    /\ pending <= wait + m

LEMMA SlowCharacter ==
    ASSUME TypeOK, NEW m \in Nat, Covers(m), SlowInv(m), NEW c \in Stays,
           IF at = <<"file", 3>> THEN ReadWord(c) ELSE ReadToken(c)
    PROVE  /\ buf' \in Seq(Stays)
           /\ at'[1] # "jal" /\ at'[1] # "run"
           /\ pending' <= pending + m
<1>. DEFINE Goal == /\ buf' \in Seq(Stays)
                    /\ at'[1] # "jal" /\ at'[1] # "run"
                    /\ pending' <= pending + m
<1>1. /\ BUFFER_LEN \in Nat /\ BUFFER_LEN > 5 /\ HEX = 4
      /\ PROMPT \in Nat /\ ERROR \in Nat /\ REPLY \in Nat
  BY BiosAssumption DEF HEX
<1>2. m >= 1 + BUFFER_LEN + ERROR + PROMPT /\ m >= 2 + REPLY + PROMPT
  BY DEF Covers
<1>3. /\ Echo(c) \in 1 .. 2 /\ pending \in Nat
      /\ buf \in Seq(Stays) /\ Len(buf) \in Nat /\ Len(buf) < BUFFER_LEN
      /\ Append(buf, c) \in Seq(Stays)
      /\ at[1] # "jal" /\ at[1] # "run"
  BY DEF Echo, TypeOK, SlowInv
<1>4. ASSUME NEW b \in Seq(Stays), NEW n \in 0 .. 3, More(b, n)
      PROVE  Goal
  BY <1>1, <1>2, <1>3, <1>4 DEF More
<1>5. ASSUME NEW n \in Nat, n + PROMPT <= m, Done(n), buf' = <<>>
      PROVE  Goal
  BY <1>1, <1>3, <1>5 DEF Done, Prompted
<1>6. ASSUME NEW cmd, cmd # "jal", cmd # "run", NEW k, Then(cmd, k, Echo(c)), buf' = <<>>
      PROVE  Goal
  BY <1>1, <1>2, <1>3, <1>6 DEF Then
<1>7. /\ Echo(c) \in Nat /\ Echo(c) + PROMPT <= m
      /\ Echo(c) + REPLY \in Nat /\ Echo(c) + REPLY + PROMPT <= m
      /\ Echo(c) + ERROR + Len(buf) \in Nat /\ Echo(c) + ERROR + Len(buf) + PROMPT <= m
  <2>1. Echo(c) \in 1 .. 2 /\ Len(buf) \in Nat /\ Len(buf) + 1 <= BUFFER_LEN
    BY <1>1, <1>3
  <2>. HIDE DEF Goal
  <2>2. Echo(c) \in Nat /\ Echo(c) + REPLY \in Nat /\ Echo(c) + ERROR + Len(buf) \in Nat
    BY <1>1, <2>1
  <2>3. Echo(c) + PROMPT <= m /\ Echo(c) + REPLY + PROMPT <= m
    BY <1>1, <1>2, <2>1
  <2>4. Echo(c) + ERROR + Len(buf) + PROMPT <= m
    BY <1>1, <1>2, <2>1
  <2>. QED BY <2>2, <2>3, <2>4
<1>8. CASE at # <<"file", 3>> /\ c = "bs"
  <2>. DEFINE b == SubSeq(buf, 1, Len(buf) - 1)
              n == IF buf = <<>> THEN 2 ELSE 3
  <2>1. More(b, n)
    BY <1>8 DEF ReadToken, Backspace
  <2>2. b \in Seq(Stays)
    BY <1>3, SubSeqProperties
  <2>3. n \in 0 .. 3
    OBVIOUS
  <2>. HIDE DEF b, n
  <2>. QED BY <1>4, <2>1, <2>2, <2>3
<1>9. CASE Token(buf, Echo(c))
  <2>1. buf' = <<>>
    BY <1>9 DEF Token
  <2>2. CASE Dispatch(buf, Echo(c))
    <3>1. CASE \E d \in Command : buf = <<d>>
      <4>1. buf[1] \in Stays /\ buf[1] # "run"
        BY <1>3, <3>1 DEF Command, Stays, Stores, Loads
      <4>2. Then(buf[1], 1, Echo(c))
        BY <2>2, <3>1 DEF Dispatch
      <4>. QED BY <1>6, <2>1, <4>1, <4>2 DEF Stays
    <3>2. CASE ~\E d \in Command : buf = <<d>>
      BY <1>5, <1>7, <2>1, <2>2, <3>2 DEF Dispatch
    <3>. QED BY <3>1, <3>2
  <2>3. CASE FileAddress(buf, Echo(c))
    BY <1>6, <2>1, <2>3 DEF FileAddress
  <2>4. CASE FileLength(buf, Echo(c))
    BY <1>5, <1>6, <1>7, <2>1, <2>4 DEF FileLength
  <2>5. CASE StoreValue(buf, Echo(c))
    BY <1>6, <2>1, <2>5 DEF StoreValue, Stores
  <2>6. CASE StoreAddress(buf, Echo(c))
    BY <1>5, <1>7, <2>1, <2>6 DEF StoreAddress
  <2>7. CASE Load(buf, Echo(c))
    BY <1>5, <1>7, <2>1, <2>7 DEF Load
  <2>8. CASE Led(buf, Echo(c))
    BY <1>5, <1>7, <2>1, <2>8 DEF Led
  <2>9. CASE Jal(buf, Echo(c))
    BY <1>3, <2>9 DEF Jal
  <2>. QED BY <1>9, <2>2, <2>3, <2>4, <2>5, <2>6, <2>7, <2>8, <2>9 DEF Token
<1>10. CASE More(Append(buf, c), Echo(c))
  <2>1. Echo(c) \in 0 .. 3
    BY <1>3
  <2>. QED BY <1>3, <1>4, <1>10, <2>1
<1>11. CASE at = <<"file", 3>>
  <2>1. ReadWord(c)
    BY <1>11
  <2>2. CASE Len(buf) + 1 < HEX
    BY <1>10, <2>1, <2>2 DEF ReadWord
  <2>3. CASE ~(Len(buf) + 1 < HEX)
    BY <1>5, <1>6, <1>7, <2>1, <2>3 DEF ReadWord
  <2>. QED BY <2>2, <2>3
<1>. QED BY <1>8, <1>9, <1>10, <1>11 DEF ReadToken

LEMMA SlowStep ==
    ASSUME NEW m \in Nat, Covers(m), TypeOK, OneAtATime, Covered, SlowInv(m), [Next]_vars
    PROVE  SlowInv(m)'
<1>1. /\ pending \in Nat /\ wait \in Nat /\ todo \in Seq(Slow(m))
      /\ {line, rx} \subseteq {<<>>} \cup {<<c>> : c \in Char}
  BY DEF TypeOK, SlowInv
<1>2. CASE Read
  <2>1. rx[1] \in Stays
    BY <1>1, <1>2 DEF Read, SlowInv, Stays
  <2>2. IF at = <<"file", 3>> THEN ReadWord(rx[1]) ELSE ReadToken(rx[1])
    BY <1>2 DEF Read
  <2>3. pending <= 1 /\ wait >= 1 /\ wait' = wait
    BY <1>2 DEF Read, Polling, Covered
  <2>4. rx' = <<>> /\ line' = line /\ todo' = todo
    BY <1>2 DEF Read
  <2>5. /\ buf' \in Seq(Stays)
        /\ at'[1] # "jal" /\ at'[1] # "run"
        /\ pending' <= pending + m
    BY <2>1, <2>2, SlowCharacter
  <2>6. pending' \in Nat
    <3>1. rx[1] \in Char
      BY <2>1 DEF Stays
    <3>. QED BY <2>2, <3>1, CharacterType
  <2>7. pending' <= wait' + m
    BY <1>1, <2>3, <2>5, <2>6
  <2>. QED BY <2>4, <2>5, <2>7 DEF SlowInv
<1>3. CASE Send
  <2>1. todo[1] \in Slow(m) /\ Tail(todo) \in Seq(Slow(m))
    <3>1. Head(todo) = todo[1] /\ todo # <<>>
      BY <1>1, <1>3 DEF Send
    <3>. QED BY <1>1, <3>1, HeadTailProperties
  <2>2. todo[1].c # "jal" /\ todo[1].gap \in Nat /\ todo[1].gap >= m
    BY <2>1 DEF Slow, Stays
  <2>3. pending' <= wait' + m
    BY <1>1, <1>3, <2>2 DEF Send, SlowInv
  <2>. QED BY <1>3, <2>1, <2>2, <2>3 DEF Send, SlowInv
<1>4. CASE Time
  <2>1. pending' <= wait' + m
    BY <1>1, <1>4 DEF Time, SlowInv
  <2>2. rx' # <<"jal">>
    <3>1. CASE rx = <<>>
      BY <1>1, <1>4, <3>1 DEF Time, SlowInv
    <3>2. CASE rx # <<>> /\ line = <<>>
      BY <1>1, <1>4, <3>2 DEF Time, SlowInv
    <3>. QED BY <3>1, <3>2 DEF OneAtATime
  <2>. QED BY <1>4, <2>1, <2>2 DEF Time, SlowInv
<1>5. CASE UNCHANGED vars
  BY <1>5 DEF vars, SlowInv
<1>. QED BY <1>2, <1>3, <1>4, <1>5 DEF Next

\* A host that pauses after every character for as long as the monitor can
\* print for one loses nothing, whatever it sends that the monitor returns
\* from (uart.c: uread_int8 echoes before bios.c polls again).
THEOREM SlowHostLosesNothing ==
    ASSUME NEW m \in Nat, Covers(m),
           \A s \in Sessions : s.chars \in Seq(Slow(m))
    PROVE  Spec => []Patient /\ NothingLost
<1>1. BUFFER_LEN \in Nat /\ BUFFER_LEN > 5 /\ PROMPT \in Nat /\ ERROR \in Nat
  BY BiosAssumption DEF HEX
<1>2. m >= 2 + PROMPT
  BY <1>1, BiosAssumption DEF Covers
<1>3. Init => Covered /\ SlowInv(m)
  <2>. SUFFICES ASSUME Init PROVE Covered /\ SlowInv(m)
    OBVIOUS
  <2>1. todo \in Seq(Slow(m))
    BY DEF Init
  <2>2. buf \in Seq(Stays)
    BY DEF Init
  <2>. QED BY <1>1, <1>2, <2>1, <2>2 DEF Init, Covered, SlowInv, Prompted
<1>4. TypeOK /\ SlowInv(m) => Patient
  <2>. SUFFICES ASSUME TypeOK, SlowInv(m), todo # <<>>, wait = 0
                PROVE  at[1] # "run" /\ todo[1].gap >= 2 /\ todo[1].gap >= pending
    BY DEF Patient
  <2>1. pending \in Nat /\ pending <= m /\ todo \in Seq(Slow(m)) /\ at[1] # "run"
    BY DEF TypeOK, SlowInv
  <2>2. todo[1] \in Slow(m)
    <3>1. Head(todo) = todo[1]
      BY <2>1
    <3>. QED BY <2>1, <3>1, HeadTailProperties
  <2>3. todo[1].gap \in Nat /\ todo[1].gap >= m
    BY <2>2 DEF Slow
  <2>. QED BY <1>1, <1>2, <2>1, <2>3
<1>5. TypeOK /\ OneAtATime /\ Covered /\ SlowInv(m) /\ [Next]_vars
        => Covered' /\ SlowInv(m)'
  BY <1>4, CoveredStep, SlowStep
<1>6. Spec => [](TypeOK /\ OneAtATime /\ Covered /\ SlowInv(m))
  BY <1>3, <1>5, TypeInvariant, PTL DEF Spec
<1>7. Spec => []Patient
  BY <1>4, <1>6, PTL
<1>. QED BY <1>7, PatientHostLosesNothing, PTL
=============================================================================
