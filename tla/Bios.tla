-------------------------------- MODULE Bios --------------------------------
(***************************************************************************)
(* software/bios/bios.c at the end of a serial line: the monitor reads     *)
(* tokens and words character by character, echoes each, and acts on the   *)
(* memory.  The host (a user, or scripts/hex_to_serial) does not wait for  *)
(* the echo, it pauses.  Time is counted in characters on the line: the    *)
(* monitor is busy while it prints, and the receiver holds one character.  *)
(*                                                                         *)
(* A character of a number is a bit, so that a word is four bytes of one   *)
(* bit and four digits of a number; the name of a command is one           *)
(* character, with no digit in it.                                         *)
(***************************************************************************)
EXTENDS Integers, Sequences, SequencesExt

CONSTANTS
    BUFFER_LEN,             \* of the token buffer in main
    PROMPT, ERROR, REPLY,   \* characters of "151> ", of the complaint about
                            \* a token, of the answer to a load
    CMD_GAP, DATA_GAP,      \* the loader's pauses (10 ms and 2 ms)
    Sessions                \* what the host sends: [chars, mem, at], where mem
                            \* and at are what is meant to come of it

Digit   == {"0", "1"}
Stores  == {"sw", "sh", "sb"}
Loads   == {"lw", "lhu", "lbu"}
Command == {"file", "jal", "led"} \cup Stores \cup Loads
Char    == Digit \cup Command \cup {"sp", "cr", "lf", "bs", "x"}
Word    == 0..15
Byte    == 0..15            \* addresses of bytes

\* Digits of a full word, and of the value that a store command takes.
HEX   == 4
Width == [k \in Stores |-> CASE k = "sw" -> 4 [] k = "sh" -> 2 [] k = "sb" -> 1]

ASSUME BiosAssumption ==
    /\ BUFFER_LEN \in Nat /\ BUFFER_LEN > HEX + 1
    /\ {PROMPT, ERROR, REPLY, CMD_GAP, DATA_GAP} \subseteq Nat
    /\ \A s \in Sessions : s.chars \in Seq([c : Char, gap : Nat])

VARIABLES
    at,                     \* <<command, the argument that is read now>>
    buf,                    \* the token or word so far
    arg,                    \* the first argument, converted
    left,                   \* bytes that "file" has still to store
    mem,                    \* memory, a bit in each byte
    pending,                \* characters printed but not on the line yet
    line, rx,               \* the character on the line, in the receiver, if any
    todo, wait,             \* what the host has still to send, and its pause
    goal                    \* the session's mem and at

vars == <<at, buf, arg, left, mem, pending, line, rx, todo, wait, goal>>

-----------------------------------------------------------------------------
\* ascii.c: the first n characters count, those that are no digits are skipped.
Ascii(s, n) ==
    LET last == IF Len(s) < n THEN Len(s) ELSE n
        t[k \in 0..last] ==
            IF k = 0 THEN 0
            ELSE IF s[k] \in Digit THEN 2 * t[k - 1] + (IF s[k] = "1" THEN 1 ELSE 0)
            ELSE t[k - 1]
    IN  t[last]

AsciiHex(s, n) == Ascii(s, n)
AsciiDec(s)    == Ascii(s, HEX + 1) % 16

\* A store instruction, as mem_control masks it: never beyond its word.
Store(k, a, v) ==
    LET base == a - (a % 4)
        from == IF k = "sw" THEN base ELSE a
    IN  [b \in Byte |->
            IF b \in from..from + Width[k] - 1 /\ b < base + 4
            THEN (v \div 2 ^ (b - from)) % 2 ELSE mem[b]]

-----------------------------------------------------------------------------
Prompted == <<"none", 0>>

Init ==
    /\ at = Prompted /\ buf = <<>> /\ arg = 0 /\ left = 0
    /\ mem = [b \in Byte |-> 0]
    /\ pending = 2 + PROMPT
    /\ line = <<>> /\ rx = <<>> /\ wait = 0
    /\ \E s \in Sessions :
          todo = s.chars /\ goal = [mem |-> s.mem, at |-> s.at]

\* uart.c: uread_int8 prints what it read, and \r\n for \r.
Echo(c) == IF c = "cr" THEN 2 ELSE 1

\* The command is done: back to the prompt, after printing n characters.
Done(n) == at' = Prompted /\ pending' = pending + n + PROMPT

\* Go on to the next token of the command, after printing n characters.
Then(cmd, k, n) == at' = <<cmd, k>> /\ pending' = pending + n

\* The token is a command's name, or not.
Dispatch(tok, n) ==
    /\ at = Prompted
    /\ IF \E c \in Command : tok = <<c>>
       THEN Then(tok[1], 1, n)
       ELSE Done(n + ERROR + Len(tok))
    /\ UNCHANGED <<arg, left, mem>>

FileAddress(tok, n) ==
    /\ at = <<"file", 1>>
    /\ arg' = AsciiHex(tok, HEX)
    /\ Then("file", 2, n)
    /\ UNCHANGED <<left, mem>>

FileLength(tok, n) ==
    /\ at = <<"file", 2>>
    /\ left' = AsciiDec(tok)
    /\ IF left' = 0 THEN Done(n) ELSE Then("file", 3, n)
    /\ UNCHANGED <<arg, mem>>

StoreValue(tok, n) ==
    \E k \in Stores :
        /\ at = <<k, 1>>
        /\ arg' = AsciiHex(tok, Width[k])
        /\ Then(k, 2, n)
        /\ UNCHANGED <<left, mem>>

StoreAddress(tok, n) ==
    \E k \in Stores :
        /\ at = <<k, 2>>
        /\ mem' = Store(k, AsciiHex(tok, HEX), arg)
        /\ Done(n)
        /\ UNCHANGED <<arg, left>>

Load(tok, n) ==
    /\ at \in {<<k, 1>> : k \in Loads}
    /\ Done(n + REPLY)
    /\ UNCHANGED <<arg, left, mem>>

Led(tok, n) == at = <<"led", 1>> /\ Done(n) /\ UNCHANGED <<arg, left, mem>>

\* The program that is called does not return.
Jal(tok, n) ==
    /\ at = <<"jal", 1>>
    /\ arg' = AsciiHex(tok, HEX)
    /\ Then("run", 0, n)
    /\ UNCHANGED <<left, mem>>

Token(tok, n) ==
    /\ buf' = <<>>
    /\ \/ Dispatch(tok, n) \/ FileAddress(tok, n) \/ FileLength(tok, n)
       \/ StoreValue(tok, n) \/ StoreAddress(tok, n)
       \/ Load(tok, n) \/ Led(tok, n) \/ Jal(tok, n)

\* The token or word goes on as b, after printing n characters.
More(b, n) ==
    buf' = b /\ pending' = pending + n /\ UNCHANGED <<at, arg, left, mem>>

\* A backspace takes a character off the token.
Backspace == More(SubSeq(buf, 1, Len(buf) - 1), IF buf = <<>> THEN 2 ELSE 3)

\* read_token has one more character.  The last place of a full buffer is
\* for the terminator and costs the character that filled it.
Bug_ReadToken(c) ==
    \/ c = "bs" /\ Backspace
    \/ c \in {"sp", "cr"} /\ Token(buf, Echo(c))
    \/ c \notin {"bs", "sp", "cr"} /\ More(Append(buf, c), Echo(c))
ReadToken(c) ==
    \/ c = "bs" /\ Backspace
    \/ c \in {"sp", "cr"} /\ Token(buf, Echo(c))
    \/ /\ c \notin {"bs", "sp", "cr"}
       /\ IF Len(buf) + 1 < BUFFER_LEN
          THEN More(Append(buf, c), Echo(c)) ELSE Token(buf, Echo(c))

\* store and read_n: eight characters a word, whatever they are.
Bug_ReadWord(c) ==
    IF Len(buf) + 1 < HEX
    THEN More(Append(buf, c), Echo(c))
    ELSE /\ buf' = <<>>
         /\ mem' = Store("sw", arg, AsciiHex(Append(buf, c), HEX))
         /\ arg' = (arg + 4) % 16
         /\ left' = left - 4
         /\ IF left < 4 THEN Done(Echo(c)) ELSE Then("file", 3, Echo(c))
ReadWord(c) ==
    IF Len(buf) + 1 < HEX
    THEN More(Append(buf, c), Echo(c))
    ELSE /\ buf' = <<>>
         /\ mem' = Store("sw", arg, AsciiHex(Append(buf, c), HEX))
         /\ arg' = (arg + 4) % 16
         /\ left' = IF left <= 4 THEN 0 ELSE left - 4
         /\ IF left' = 0 THEN Done(Echo(c)) ELSE Then("file", 3, Echo(c))

\* The monitor polls again once its last character is in the transmitter.
Polling == at[1] # "run" /\ pending <= 1

Read ==
    /\ rx # <<>> /\ Polling
    /\ rx' = <<>>
    /\ IF at = <<"file", 3>> THEN ReadWord(rx[1]) ELSE ReadToken(rx[1])
    /\ UNCHANGED <<line, todo, wait, goal>>

\* A frame starts: the receiver is no longer valid, read or not.
Send ==
    /\ todo # <<>> /\ wait = 0 /\ line = <<>>
    /\ line' = <<todo[1].c>> /\ rx' = <<>>
    /\ wait' = todo[1].gap /\ todo' = Tail(todo)
    /\ UNCHANGED <<at, buf, arg, left, mem, pending, goal>>

\* One character's time passes.  The monitor polls many times in it.
Time ==
    /\ wait > 0 \/ pending > 0 \/ line # <<>>
    /\ ~(rx # <<>> /\ Polling)
    /\ rx' = rx \o line /\ line' = <<>>
    /\ wait' = (IF wait = 0 THEN 0 ELSE wait - 1)
    /\ pending' = (IF pending = 0 THEN 0 ELSE pending - 1)
    /\ UNCHANGED <<at, buf, arg, left, mem, todo, goal>>

Next == Read \/ Send \/ Time

Spec == Init /\ [][Next]_vars

\* The monitor, the line and the host do not stop.
FairSpec == Spec /\ WF_vars(Next)

-----------------------------------------------------------------------------
\* scripts/hex_to_serial: the command that loads words w from address a on.

Digits(v) == [k \in 1..HEX |-> IF (v \div 2 ^ (HEX - k)) % 2 = 1 THEN "1" ELSE "0"]
Paced(s, gap) == [k \in 1..Len(s) |-> [c |-> s[k], gap |-> gap]]

Request(a, w) == <<"lf", "cr", "file", "sp">> \o Digits(a) \o <<"sp">>
                     \o Digits(4 * Len(w)) \o <<"sp">>

\* It sleeps once after each digit and once more after each word.
PacedWord(v) ==
    Paced(SubSeq(Digits(v), 1, HEX - 1), DATA_GAP)
        \o Paced(<<Digits(v)[HEX]>>, 2 * DATA_GAP)

Bug_Loader(a, w) ==
    Paced(Request(a, w), DATA_GAP) \o FlattenSeq([k \in 1..Len(w) |-> PacedWord(w[k])])
Loader(a, w) ==
    Paced(Request(a, w), CMD_GAP) \o FlattenSeq([k \in 1..Len(w) |-> PacedWord(w[k])])

-----------------------------------------------------------------------------
\* The host starts no character that it will follow with a shorter pause than
\* what the monitor has still to print, and none when the monitor is gone: the
\* one thing a host that does not look at the echo has to get right.
Patient ==
    todo # <<>> /\ wait = 0 /\ line = <<>> =>
        at[1] # "run" /\ todo[1].gap >= 2 /\ todo[1].gap >= pending

\* The pauses are long enough: no frame starts before the character ahead of
\* it was read, whatever the monitor had to print meanwhile.
NothingLost == [][todo' # todo => rx = <<>>]_vars

\* Everything the host sent has the effect it was meant to have, and the
\* monitor is where it is meant to be: tokens, backspaces, words and
\* commands stay in step with the characters.
Executed ==
    <>[](/\ todo = <<>> /\ line = <<>> /\ rx = <<>> /\ buf = <<>>
         /\ mem = goal.mem /\ at = goal.at)

\* No buffer overflows, no command counts beyond its bytes.
TypeOK ==
    /\ at \in {Prompted, <<"run", 0>>} \cup (Command \X (1..3))
    /\ buf \in Seq(Char) /\ Len(buf) < BUFFER_LEN
    /\ arg \in Word /\ left \in 0..15
    /\ mem \in [Byte -> {0, 1}]
    /\ pending \in Nat /\ wait \in Nat
    /\ {line, rx} \subseteq {<<>>} \cup {<<c>> : c \in Char}
    /\ todo \in Seq([c : Char, gap : Nat])
=============================================================================
