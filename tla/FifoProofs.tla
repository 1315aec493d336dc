----------------------------- MODULE FifoProofs -----------------------------
(***************************************************************************)
(* The ring buffer of Fifo implements BoundedQueue, for every DEPTH and    *)
(* every set of items.  The inductive invariant is TypeOK, with its last   *)
(* conjunct: the write pointer is 0 to DEPTH places ahead.  The lemmas up  *)
(* to RingRead are about pointers and rings, in no particular state.       *)
(***************************************************************************)
EXTENDS Fifo, SequenceTheorems, TLAPS

USE FifoAssumption

\* A pointer that advances stays a pointer.
LEMMA AdvanceFields ==
    ASSUME NEW p \in Pointer
    PROVE  /\ Advance(p) \in Pointer
           /\ Advance(p).at = IF p.at = DEPTH - 1 THEN 0 ELSE p.at + 1
           /\ p.at = DEPTH - 1 => Advance(p).wrap = ~p.wrap
           /\ p.at # DEPTH - 1 => Advance(p).wrap = p.wrap
BY DEF Advance, Pointer, Place

\* A step of the write pointer adds one to the distance, a step of the read
\* pointer takes one away, also where the index returns to 0.
LEMMA WriterSteps ==
    ASSUME NEW r \in Pointer, NEW w \in Pointer, Ahead(r, w) \in 0..DEPTH - 1
    PROVE  Ahead(r, Advance(w)) = Ahead(r, w) + 1
<1>1. /\ r.at \in Place /\ w.at \in Place
      /\ r.wrap \in BOOLEAN /\ w.wrap \in BOOLEAN
  BY DEF Pointer
<1>2. CASE w.at = DEPTH - 1
  <2>1. Advance(w).at = 0 /\ Advance(w).wrap = ~w.wrap
    BY <1>2, AdvanceFields
  <2>2. CASE r.wrap = w.wrap
    BY <1>1, <1>2, <2>1, <2>2 DEF Ahead, Place
  <2>3. CASE r.wrap # w.wrap
    BY <1>1, <1>2, <2>1, <2>3 DEF Ahead, Place
  <2>. QED BY <2>2, <2>3
<1>3. CASE w.at # DEPTH - 1
  <2>1. Advance(w).at = w.at + 1 /\ Advance(w).wrap = w.wrap
    BY <1>3, AdvanceFields
  <2>. QED BY <1>1, <2>1 DEF Ahead, Place
<1>. QED BY <1>2, <1>3

LEMMA ReaderSteps ==
    ASSUME NEW r \in Pointer, NEW w \in Pointer, Ahead(r, w) \in 1..DEPTH
    PROVE  Ahead(Advance(r), w) = Ahead(r, w) - 1
<1>1. /\ r.at \in Place /\ w.at \in Place
      /\ r.wrap \in BOOLEAN /\ w.wrap \in BOOLEAN
  BY DEF Pointer
<1>2. CASE r.at = DEPTH - 1
  <2>1. Advance(r).at = 0 /\ Advance(r).wrap = ~r.wrap
    BY <1>2, AdvanceFields
  <2>2. CASE r.wrap = w.wrap
    BY <1>1, <1>2, <2>1, <2>2 DEF Ahead, Place
  <2>3. CASE r.wrap # w.wrap
    BY <1>1, <1>2, <2>1, <2>3 DEF Ahead, Place
  <2>. QED BY <2>2, <2>3
<1>3. CASE r.at # DEPTH - 1
  <2>1. Advance(r).at = r.at + 1 /\ Advance(r).wrap = r.wrap
    BY <1>3, AdvanceFields
  <2>. QED BY <1>1, <2>1 DEF Ahead, Place
<1>. QED BY <1>2, <1>3

-----------------------------------------------------------------------------
LEMMA SpotType ==
    ASSUME NEW r \in Pointer, NEW k \in 0..DEPTH - 1
    PROVE  Spot(r, k) \in Place
BY DEF Spot, Pointer, Place

\* A ring is a sequence of its length.
LEMMA RingType ==
    ASSUME NEW s \in [Place -> Item], NEW r \in Pointer, NEW n \in 0..DEPTH
    PROVE  /\ Ring(s, r, n) \in Seq(Item) /\ Len(Ring(s, r, n)) = n
           /\ \A k \in 1..n : Ring(s, r, n)[k] = s[Spot(r, k - 1)]
<1>1. ASSUME NEW k \in 1..n PROVE s[Spot(r, k - 1)] \in Item
  <2>1. k - 1 \in 0..DEPTH - 1
    OBVIOUS
  <2>. QED BY <2>1, SpotType
<1>2. Ring(s, r, n) \in [1..n -> Item]
  BY <1>1 DEF Ring
<1>. QED BY <1>2 DEF Ring

\* Writing at the write pointer appends: the place is free, and it is the
\* one that comes next in the ring.
LEMMA RingWrite ==
    ASSUME NEW s \in [Place -> Item], NEW r \in Pointer, NEW w \in Pointer,
           NEW n \in 0..DEPTH - 1, n = Ahead(r, w), NEW d \in Item
    PROVE  Ring([s EXCEPT ![w.at] = d], r, n + 1) = Append(Ring(s, r, n), d)
<1> DEFINE t == [s EXCEPT ![w.at] = d]
<1>1. t \in [Place -> Item] /\ w.at \in Place /\ r.at \in Place
  BY DEF Pointer
<1>2. Spot(r, n) = w.at
  BY <1>1 DEF Ahead, Spot, Pointer, Place
<1>3. ASSUME NEW k \in 1..n PROVE t[Spot(r, k - 1)] = s[Spot(r, k - 1)]
  <2>1. Spot(r, k - 1) # Spot(r, n) /\ Spot(r, k - 1) \in Place
    BY <1>1 DEF Spot, Place
  <2>. QED BY <2>1, <1>2
<1>4. /\ Ring(t, r, n + 1) \in Seq(Item) /\ Len(Ring(t, r, n + 1)) = n + 1
      /\ \A k \in 1..n + 1 : Ring(t, r, n + 1)[k] = t[Spot(r, k - 1)]
  BY <1>1, n + 1 \in 0..DEPTH, RingType, ZenonT(40)
<1>5. /\ Ring(s, r, n) \in Seq(Item) /\ Len(Ring(s, r, n)) = n
      /\ \A k \in 1..n : Ring(s, r, n)[k] = s[Spot(r, k - 1)]
  BY n \in 0..DEPTH, RingType
<1>6. /\ Append(Ring(s, r, n), d) \in Seq(Item)
      /\ Len(Append(Ring(s, r, n), d)) = n + 1
      /\ \A k \in 1..n : Append(Ring(s, r, n), d)[k] = Ring(s, r, n)[k]
      /\ Append(Ring(s, r, n), d)[n + 1] = d
  BY <1>5, AppendProperties
<1>7. ASSUME NEW k \in 1..n + 1
      PROVE  Ring(t, r, n + 1)[k] = Append(Ring(s, r, n), d)[k]
  <2>1. CASE k = n + 1
    <3>1. Ring(t, r, n + 1)[k] = t[Spot(r, n)]
      BY <1>4, <2>1, k - 1 = n
    <3>2. t[Spot(r, n)] = d
      BY <1>1, <1>2
    <3>. QED BY <3>1, <3>2, <1>6, <2>1
  <2>2. CASE k \in 1..n
    <3>1. Ring(t, r, n + 1)[k] = s[Spot(r, k - 1)]
      BY <2>2, <1>3, <1>4
    <3>2. Append(Ring(s, r, n), d)[k] = s[Spot(r, k - 1)]
      BY <2>2, <1>5, <1>6
    <3>. QED BY <3>1, <3>2
  <2>3. k = n + 1 \/ k \in 1..n
    OBVIOUS
  <2>. QED BY <2>1, <2>2, <2>3
<1>. QED BY <1>4, <1>6, <1>7, SeqEqual

\* The read pointer is at the head, and advancing it drops the head.
LEMMA RingRead ==
    ASSUME NEW s \in [Place -> Item], NEW r \in Pointer, NEW n \in 1..DEPTH
    PROVE  /\ Ring(s, r, n) # <<>>
           /\ Head(Ring(s, r, n)) = s[r.at]
           /\ Tail(Ring(s, r, n)) = Ring(s, Advance(r), n - 1)
<1>1. Advance(r) \in Pointer /\ r.at \in Place
  BY AdvanceFields DEF Pointer
<1>2. ASSUME NEW k \in 1..n - 1 PROVE Spot(Advance(r), k - 1) = Spot(r, k)
  <2>1. Advance(r).at = IF r.at = DEPTH - 1 THEN 0 ELSE r.at + 1
    BY AdvanceFields
  <2>2. CASE r.at = DEPTH - 1
    <3>1. Spot(Advance(r), k - 1) = k - 1
      BY <1>1, <2>1, <2>2 DEF Spot, Place
    <3>2. Spot(r, k) = k - 1
      BY <1>1, <2>2 DEF Spot, Place
    <3>. QED BY <3>1, <3>2
  <2>3. CASE r.at # DEPTH - 1
    <3>1. Advance(r).at = r.at + 1
      BY <2>1, <2>3
    <3>. QED BY <1>1, <3>1, SMTT(20) DEF Spot, Place
  <2>. QED BY <2>2, <2>3
<1>3. /\ Ring(s, r, n) \in Seq(Item) /\ Len(Ring(s, r, n)) = n
      /\ \A k \in 1..n : Ring(s, r, n)[k] = s[Spot(r, k - 1)]
  BY RingType
<1>4. /\ Ring(s, Advance(r), n - 1) \in Seq(Item)
      /\ Len(Ring(s, Advance(r), n - 1)) = n - 1
      /\ \A k \in 1..n - 1 :
            Ring(s, Advance(r), n - 1)[k] = s[Spot(Advance(r), k - 1)]
  BY <1>1, n - 1 \in 0..DEPTH, RingType
<1>5. Ring(s, r, n) # <<>>
  BY <1>3
<1>6. Head(Ring(s, r, n)) = s[r.at]
  <2>1. Ring(s, r, n)[1] = s[Spot(r, 0)]
    BY <1>3
  <2>2. Spot(r, 0) = r.at
    BY <1>1 DEF Spot, Place
  <2>. QED BY <2>1, <2>2, <1>3, <1>5, HeadTailProperties
<1>7. /\ Tail(Ring(s, r, n)) \in Seq(Item)
      /\ Len(Tail(Ring(s, r, n))) = n - 1
      /\ \A k \in 1..n - 1 : Tail(Ring(s, r, n))[k] = Ring(s, r, n)[k + 1]
  BY <1>3, <1>5, HeadTailProperties
<1>8. ASSUME NEW k \in 1..n - 1
      PROVE  Tail(Ring(s, r, n))[k] = Ring(s, Advance(r), n - 1)[k]
  <2>1. Ring(s, r, n)[k + 1] = s[Spot(r, k)]
    BY <1>3
  <2>. QED BY <2>1, <1>2, <1>4, <1>7
<1>9. Tail(Ring(s, r, n)) = Ring(s, Advance(r), n - 1)
  BY <1>4, <1>7, <1>8, SeqEqual
<1>. QED BY <1>5, <1>6, <1>9

-----------------------------------------------------------------------------
\* The two flags say whether the count is at one of its limits.
LEMMA Flags ==
    ASSUME TypeOK
    PROVE  (empty <=> Count = 0) /\ (full <=> Count = DEPTH)
BY DEF TypeOK, empty, full, Count, Ahead, Pointer, Place

LEMMA TypeInit == Init => TypeOK
BY DEF Init, TypeOK, Start, Pointer, Place, Count, Ahead

\* What one cycle does, by what the two sides really do.
Stays  == UNCHANGED vars
Writes(d) ==
    /\ Count < DEPTH
    /\ stack_reg' = [stack_reg EXCEPT ![write_pointer.at] = d]
    /\ write_pointer' = Advance(write_pointer)
    /\ UNCHANGED <<read_pointer, read_data>>
Reads ==
    /\ Count > 0
    /\ read_data' = stack_reg[read_pointer.at]
    /\ read_pointer' = Advance(read_pointer)
    /\ UNCHANGED <<write_pointer, stack_reg>>
WritesAndReads(d) ==
    /\ Count > 0 /\ Count < DEPTH
    /\ stack_reg' = [stack_reg EXCEPT ![write_pointer.at] = d]
    /\ write_pointer' = Advance(write_pointer)
    /\ read_data' = stack_reg[read_pointer.at]
    /\ read_pointer' = Advance(read_pointer)

LEMMA CycleCases ==
    ASSUME TypeOK, NEW wr \in BOOLEAN, NEW rd \in BOOLEAN, NEW d \in Item,
           Cycle(wr, d, rd)
    PROVE  Stays \/ Writes(d) \/ Reads \/ WritesAndReads(d)
<1>1. Count \in 0..DEPTH /\ (empty <=> Count = 0) /\ (full <=> Count = DEPTH)
  BY Flags DEF TypeOK
<1>2. (full <=> ~(Count < DEPTH)) /\ (empty <=> ~(Count > 0))
  BY <1>1
<1>3. CASE wr /\ ~full /\ rd /\ ~empty
  BY <1>2, <1>3 DEF Cycle, WriteSide, ReadSide, WritesAndReads
<1>4. CASE wr /\ ~full /\ ~(rd /\ ~empty)
  BY <1>2, <1>4 DEF Cycle, WriteSide, ReadSide, Writes
<1>5. CASE ~(wr /\ ~full) /\ rd /\ ~empty
  BY <1>2, <1>5 DEF Cycle, WriteSide, ReadSide, Reads
<1>6. CASE ~(wr /\ ~full) /\ ~(rd /\ ~empty)
  BY <1>6 DEF Cycle, WriteSide, ReadSide, Stays, vars
<1>. QED BY <1>3, <1>4, <1>5, <1>6

\* Each case keeps the type and is a step of the queue.
QItems == Ring(stack_reg, read_pointer, Count)

LEMMA WriteStep ==
    ASSUME TypeOK, NEW d \in Item, Writes(d)
    PROVE  TypeOK' /\ Queue!Write(d)
<1>1. /\ stack_reg \in [Place -> Item] /\ read_data \in Item
      /\ read_pointer \in Pointer /\ write_pointer \in Pointer
      /\ Count \in 0..DEPTH - 1 /\ Count = Ahead(read_pointer, write_pointer)
  BY DEF TypeOK, Writes, Count
<1>2. write_pointer' \in Pointer
  BY <1>1, AdvanceFields DEF Writes
<1>3. Count' = Count + 1
  BY <1>1, WriterSteps DEF Writes, Count
<1>4. TypeOK'
  <2>1. stack_reg' \in [Place -> Item]
    BY <1>1 DEF Writes, Pointer
  <2>2. Count' \in 0..DEPTH
    BY <1>1, <1>3
  <2>. QED BY <1>1, <1>2, <2>1, <2>2 DEF TypeOK, Writes
<1>5. QItems' = Append(QItems, d)
  BY <1>1, <1>3, RingWrite, ZenonT(40) DEF Writes, QItems
<1>6. Len(QItems) < DEPTH
  BY <1>1, Count \in 0..DEPTH, RingType DEF QItems
<1>. QED BY <1>4, <1>5, <1>6 DEF Writes, QItems, Queue!Write

LEMMA ReadStep ==
    ASSUME TypeOK, Reads
    PROVE  TypeOK' /\ Queue!Read
<1>1. /\ stack_reg \in [Place -> Item] /\ read_data \in Item
      /\ read_pointer \in Pointer /\ write_pointer \in Pointer
      /\ Count \in 1..DEPTH /\ Count = Ahead(read_pointer, write_pointer)
  BY DEF TypeOK, Reads, Count
<1>2. read_pointer' \in Pointer /\ read_data' \in Item
  BY <1>1, AdvanceFields DEF Reads, Pointer
<1>3. Count' = Count - 1
  BY <1>1, ReaderSteps DEF Reads, Count
<1>4. TypeOK'
  BY <1>1, <1>2, <1>3 DEF TypeOK, Reads
<1>5. QItems # <<>> /\ read_data' = Head(QItems) /\ QItems' = Tail(QItems)
  BY <1>1, <1>3, RingRead DEF Reads, QItems
<1>. QED BY <1>4, <1>5 DEF QItems, Queue!Read

LEMMA BothStep ==
    ASSUME TypeOK, NEW d \in Item, WritesAndReads(d)
    PROVE  TypeOK' /\ Queue!Both(d)
<1>1. /\ stack_reg \in [Place -> Item] /\ read_data \in Item
      /\ read_pointer \in Pointer /\ write_pointer \in Pointer
      /\ Count \in 1..DEPTH - 1 /\ Count = Ahead(read_pointer, write_pointer)
  BY DEF TypeOK, WritesAndReads, Count
<1> DEFINE next == Advance(read_pointer)
<1>2. /\ next \in Pointer /\ write_pointer' \in Pointer
      /\ read_data' \in Item /\ stack_reg' \in [Place -> Item]
  BY <1>1, AdvanceFields DEF WritesAndReads, Pointer
<1>3. Ahead(next, write_pointer) = Count - 1
  BY <1>1, ReaderSteps
<1>4. Count' = Count
  <2>1. Ahead(next, Advance(write_pointer)) = Count - 1 + 1
    BY <1>1, <1>2, <1>3, WriterSteps
  <2>. QED BY <1>1, <2>1 DEF WritesAndReads, Count
<1>5. TypeOK'
  BY <1>1, <1>2, <1>4 DEF TypeOK, WritesAndReads
<1>6. /\ QItems # <<>> /\ read_data' = Head(QItems)
      /\ Tail(QItems) = Ring(stack_reg, next, Count - 1)
  BY <1>1, Count \in 1..DEPTH, RingRead DEF WritesAndReads, QItems
<1>7. QItems' = Append(Tail(QItems), d)
  <2>1. Count - 1 \in 0..DEPTH - 1 /\ Count - 1 + 1 = Count
    BY <1>1
  <2>2. Ring([stack_reg EXCEPT ![write_pointer.at] = d], next, Count - 1 + 1)
          = Append(Ring(stack_reg, next, Count - 1), d)
    <3>1. ASSUME NEW m \in 0..DEPTH - 1, m = Ahead(next, write_pointer)
          PROVE  Ring([stack_reg EXCEPT ![write_pointer.at] = d], next, m + 1)
                   = Append(Ring(stack_reg, next, m), d)
      <4>1. stack_reg \in [Place -> Item] /\ write_pointer \in Pointer
        BY <1>1
      <4>2. next \in Pointer
        BY <1>2
      <4>. HIDE DEF next
      <4>. QED BY <3>1, <4>1, <4>2, RingWrite, ZenonT(30)
    <3>. QED BY <1>3, <2>1, <3>1
  <2>3. Ring(stack_reg', next, Count) = Append(Tail(QItems), d)
    BY <1>6, <2>1, <2>2 DEF WritesAndReads
  <2>. QED BY <1>4, <2>3 DEF WritesAndReads, QItems
<1>8. Len(QItems) < DEPTH
  BY <1>1, Count \in 0..DEPTH, RingType DEF QItems
<1>. QED BY <1>5, <1>6, <1>7, <1>8 DEF QItems, Queue!Both

LEMMA ResetStep ==
    ASSUME TypeOK, Reset
    PROVE  TypeOK' /\ Queue!Clear
<1>1. Count' = 0
  BY DEF Reset, Count, Ahead, Start
<1>2. TypeOK'
  BY <1>1 DEF TypeOK, Reset, Start, Pointer, Place
<1>3. QItems' = <<>>
  BY <1>1 DEF QItems, Ring
<1>. QED BY <1>2, <1>3 DEF QItems, Queue!Clear, Reset

LEMMA StayStep ==
    ASSUME TypeOK, Stays
    PROVE  TypeOK' /\ UNCHANGED Queue!queueVars
BY DEF TypeOK, Stays, vars, Count, Ring, Spot, Queue!queueVars

LEMMA Step ==
    ASSUME TypeOK, [Next]_vars
    PROVE  TypeOK' /\ [Queue!Next]_(Queue!queueVars)
<1>1. CASE UNCHANGED vars
  BY <1>1, StayStep DEF Stays
<1>2. CASE Reset
  BY <1>2, ResetStep DEF Queue!Next
<1>3. ASSUME NEW wr \in BOOLEAN, NEW rd \in BOOLEAN, NEW d \in Item,
             Cycle(wr, d, rd)
      PROVE  TypeOK' /\ [Queue!Next]_(Queue!queueVars)
  <2>1. CASE Stays
    BY <2>1, StayStep
  <2>2. CASE Writes(d)
    BY <2>2, WriteStep DEF Queue!Next
  <2>3. CASE Reads
    BY <2>3, ReadStep DEF Queue!Next
  <2>4. CASE WritesAndReads(d)
    BY <2>4, BothStep DEF Queue!Next
  <2>. QED BY <1>3, <2>1, <2>2, <2>3, <2>4, CycleCases
<1>. QED BY <1>1, <1>2, <1>3 DEF Next

-----------------------------------------------------------------------------
\* The pointers of fifo.v stay in range and at most DEPTH apart, for every
\* DEPTH of at least two.
THEOREM FifoTypeCorrect == Spec => []TypeOK
<1>1. TypeOK /\ [Next]_vars => TypeOK'
  BY Step
<1>. QED BY TypeInit, <1>1, PTL DEF Spec

\* fifo.v is a first-in first-out queue of DEPTH items, for every DEPTH of at
\* least two and every kind of item: nothing is lost, repeated or overtaken
\* when a pointer wraps, when both sides act in one cycle, or at the limits.
THEOREM FifoIsQueue == Spec => QueueSpec
<1>1. Init => Queue!Init
  BY DEF Init, Queue!Init, Start, Count, Ahead, Ring
<1>2. TypeOK /\ [Next]_vars => [Queue!Next]_(Queue!queueVars)
  BY Step
<1>. QED BY <1>1, <1>2, FifoTypeCorrect, PTL DEF Spec, QueueSpec, Queue!Spec
=============================================================================
