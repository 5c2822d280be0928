--------------------------- MODULE TsdbLog_proofs ---------------------------
(***************************************************************************)
(* Proofs about TsdbLog: the ring of the log and the clock of its flusher,  *)
(* for any number of tasks, any ring size and any number of lines.          *)
(***************************************************************************)
EXTENDS TsdbLog, SequenceTheorems, TLAPS

\* One turn around the ring.
LEMMA Wrap ==
    ASSUME NEW n \in Nat \ {0}, NEW x \in 0..(2 * n - 1)
    PROVE  x % n = IF x < n THEN x ELSE x - n
<1>1. CASE x < n
  BY <1>1
<1>2. CASE x >= n
  <2>1. x - n \in 0..(n - 1)
    BY <1>2
  <2>2. x = 1 * n + (x - n)
    BY <1>2
  <2> QED
    BY <1>2, <2>1, <2>2, Z3
<1> QED
  BY <1>1, <1>2

\* The ring's own modulus.
LEMMA WrapRing ==
    \A x \in Int : x \in 0..(2 * TSDB_QUEUE_SIZE - 1) =>
        x % TSDB_QUEUE_SIZE = IF x < TSDB_QUEUE_SIZE THEN x ELSE x - TSDB_QUEUE_SIZE
<1> QED
  BY QueueAssumption, Wrap

\* The next index stays in the ring.
LEMMA NextIndexInRing == \A i \in Index : NextIndex(i) \in Index
<1> TAKE i \in Index
<1>1. i + 1 \in 0..(2 * TSDB_QUEUE_SIZE - 1)
  BY QueueAssumption DEF Index
<1> QED
  BY <1>1, WrapRing, QueueAssumption DEF Index, NextIndex

\* The indices after a put and after a take.
LEMMA HeadMoves ==
    ASSUME NEW t \in Index, NEW c \in 0..(TSDB_QUEUE_SIZE - 1)
    PROVE  /\ (t + c) % TSDB_QUEUE_SIZE \in Index
           /\ NextIndex((t + c) % TSDB_QUEUE_SIZE) = (t + (c + 1)) % TSDB_QUEUE_SIZE
<1> DEFINE N == TSDB_QUEUE_SIZE
           x == t + c
           y == t + (c + 1)
           h == x % N
           g == h + 1
<1>1. x \in 0..(2 * N - 1) /\ y \in 0..(2 * N - 1) /\ y = x + 1
  BY QueueAssumption DEF Index
<1> HIDE DEF x, y
<1>2. h = IF x < N THEN x ELSE x - N
  BY <1>1, WrapRing
<1>3. y % N = IF y < N THEN y ELSE y - N
  BY <1>1, WrapRing
<1>4. h \in Index
  BY <1>1, <1>2, QueueAssumption DEF Index
<1> HIDE DEF h
<1>5. g \in 0..(2 * N - 1)
  BY <1>4, QueueAssumption DEF Index
<1> HIDE DEF g
<1>6. g % N = IF g < N THEN g ELSE g - N
  BY <1>5, WrapRing
<1>7. g % N = y % N
  BY <1>1, <1>2, <1>3, <1>4, <1>6, QueueAssumption DEF g, Index
<1> QED
  BY <1>4, <1>7 DEF NextIndex, g, h, x, y

LEMMA TailMoves ==
    ASSUME NEW t \in Index, NEW c \in 1..TSDB_QUEUE_SIZE
    PROVE  (NextIndex(t) + (c - 1)) % TSDB_QUEUE_SIZE = (t + c) % TSDB_QUEUE_SIZE
<1> DEFINE N == TSDB_QUEUE_SIZE
           x == t + c
           y == t + 1
           u == y % N
           w == u + (c - 1)
<1>1. x \in 0..(2 * N - 1) /\ y \in 0..(2 * N - 1) /\ x = y + (c - 1)
  BY QueueAssumption DEF Index
<1> HIDE DEF x, y
<1>2. x % N = IF x < N THEN x ELSE x - N
  BY <1>1, WrapRing
<1>3. u = IF y < N THEN y ELSE y - N
  BY <1>1, WrapRing
<1>4. u \in Index
  BY <1>1, <1>3, QueueAssumption DEF Index
<1> HIDE DEF u
<1>5. w \in 0..(2 * N - 1)
  BY <1>4, QueueAssumption DEF Index
<1> HIDE DEF w
<1>6. w % N = IF w < N THEN w ELSE w - N
  BY <1>5, WrapRing
<1>7. w % N = x % N
  BY <1>1, <1>2, <1>3, <1>4, <1>6, QueueAssumption DEF w, y, Index
<1> QED
  BY <1>7 DEF NextIndex, w, u, x, y

\* What the database holds.
Record == [time : Nat, line : Lines]

LEMMA LastTimeType == ASSUME NEW log \in Seq(Record) PROVE LastTime(log) \in Nat
<1>1. CASE log = <<>>
  BY <1>1 DEF LastTime
<1>2. CASE log # <<>>
  <2>1. Len(log) \in 1..Len(log)
    BY <1>2, EmptySeq, LenProperties
  <2>2. log[Len(log)] \in Record
    BY <2>1, ElementOfSeq
  <2> QED
    BY <1>2, <2>2 DEF LastTime, Record
<1> QED
  BY <1>1, <1>2

\* What FlashDB does with a line keeps the records and their order.
LEMMA AppendKeepsType ==
    ASSUME NEW log \in Seq(Record), NEW line \in Lines, NEW t \in Nat
    PROVE  /\ AppendWithTs(log, line, t) \in Seq(Record)
           /\ LastTime(log) <= t => LastTime(AppendWithTs(log, line, t)) <= t
<1> DEFINE r == [time |-> t, line |-> line]
<1>1. r \in Record
  BY DEF Record
<1>2. CASE AppendWithTs(log, line, t) = log
  BY <1>2
<1>3. CASE AppendWithTs(log, line, t) = Append(log, r)
  <2> HIDE DEF r
  <2>1. /\ Append(log, r) \in Seq(Record)
        /\ Len(Append(log, r)) = Len(log) + 1
        /\ Append(log, r)[Len(log) + 1] = r
    BY <1>1
  <2>2. Append(log, r) # <<>>
    BY <2>1, LenProperties, EmptySeq
  <2>3. LastTime(Append(log, r)) = r.time
    BY <2>1, <2>2 DEF LastTime
  <2>4. r.time = t
    BY DEF r
  <2> QED
    BY <1>3, <2>1, <2>3, <2>4
<1> QED
  BY <1>2, <1>3 DEF AppendWithTs

\* The inductive invariant.
Inv == TypeOK /\ RingConsistent /\ ClockNotBehind

LEMMA InitInv == Init => Inv
<1> SUFFICES ASSUME Init PROVE Inv
  OBVIOUS
<1>1. TypeOK
  <2>1. 0 \in Index /\ 0 \in 0..TSDB_QUEUE_SIZE
    BY QueueAssumption DEF Index
  <2> QED
    BY <2>1, LinesAssumption, EmptySeq DEF Init, TypeOK
<1>2. RingConsistent
  BY QueueAssumption, WrapRing DEF Init, RingConsistent
<1>3. ClockNotBehind
  BY DEF Init, ClockNotBehind
<1> QED
  BY <1>1, <1>2, <1>3 DEF Inv

LEMMA NextInv == Inv /\ [Next]_vars => Inv'
<1> SUFFICES ASSUME Inv, [Next]_vars PROVE Inv'
  OBVIOUS
<1> USE DEF Inv, TypeOK, RingConsistent, ClockNotBehind, Record, ring, basic
<1>1. ASSUME NEW t \in Tasks, StartPrint(t) PROVE Inv'
  BY <1>1 DEF StartPrint
<1>2. ASSUME NEW t \in Tasks, Allocate(t) PROVE Inv'
  BY <1>2, LinesAssumption DEF Allocate
<1>3. ASSUME NEW t \in Tasks, Put(t) PROVE Inv'
  <2>1. CASE HasRoom
    <3>1. count \in 0..(TSDB_QUEUE_SIZE - 1)
      BY <2>1, QueueAssumption DEF HasRoom
    <3>2. head' \in Index /\ head' = (tail + (count + 1)) % TSDB_QUEUE_SIZE
      BY <1>3, <2>1, <3>1, NextIndexInRing, HeadMoves DEF Put
    <3>3. queue' \in [Index -> Lines] /\ count' = count + 1
      BY <1>3, <2>1 DEF Put
    <3>4. count' \in 0..TSDB_QUEUE_SIZE
      BY <3>1, <3>3, QueueAssumption
    <3>5. pc' \in [Tasks -> {"idle", "alloc", "put"}]
      BY <1>3 DEF Put
    <3>6. UNCHANGED <<allocated, tail, basic, stored, prints>>
      BY <1>3 DEF Put
    <3> QED
      BY <3>2, <3>3, <3>4, <3>5, <3>6
  <2>2. CASE ~HasRoom
    BY <1>3, <2>2 DEF Put
  <2> QED
    BY <2>1, <2>2
<1>4. CASE StartFlush
  <2>1. LastTime(stored) \in Nat
    BY LastTimeType
  <2>2. ts' = LastTime(stored) /\ LastTime(stored) <= ts'
    BY <1>4, <2>1 DEF StartFlush, StartClock
  <2> QED
    BY <1>4, <2>1, <2>2 DEF StartFlush
<1>5. CASE TakeLine
  <2>1. count \in 1..TSDB_QUEUE_SIZE
    BY <1>5, QueueAssumption DEF TakeLine, Drained
  <2>2. tail' \in Index /\ head' = (tail' + count') % TSDB_QUEUE_SIZE
    BY <1>5, <2>1, NextIndexInRing, TailMoves DEF TakeLine
  <2>3. count' \in 0..TSDB_QUEUE_SIZE
    BY <1>5, <2>1, QueueAssumption DEF TakeLine
  <2> QED
    BY <1>5, <2>2, <2>3 DEF TakeLine
<1>6. CASE AppendLine
  <2>1. LastTime(stored) <= ts + 1 /\ LastTime(stored) \in Nat
    <3>1. LastTime(stored) \in Nat
      BY LastTimeType
    <3> QED
      BY <1>6, <3>1 DEF AppendLine
  <2>2. /\ stored' \in Seq(Record)
        /\ LastTime(stored') <= ts'
    <3> HIDE DEF Record
    <3>1. stored \in Seq(Record)
      BY DEF Record
    <3>2. stored' = AppendWithTs(stored, buf, ts + 1) /\ ts' = ts + 1 /\ ts + 1 \in Nat
      BY <1>6 DEF AppendLine
    <3> QED
      BY <2>1, <3>1, <3>2, AppendKeepsType
  <2> QED
    BY <1>6, <2>2 DEF AppendLine
<1>7. CASE EndFlush
  BY <1>7 DEF EndFlush
<1>8. CASE Reboot
  <2>1. 0 % TSDB_QUEUE_SIZE = 0 /\ 0 \in Index /\ 0 \in 0..TSDB_QUEUE_SIZE
    BY QueueAssumption, WrapRing DEF Index
  <2>2. allocated' \in BOOLEAN
    BY <1>8, Zenon DEF Reboot
  <2>3. TypeOK'
    BY <1>8, <2>1, <2>2, LinesAssumption DEF Reboot
  <2>4. RingConsistent' /\ ClockNotBehind'
    BY <1>8, <2>1 DEF Reboot
  <2> QED
    BY <2>3, <2>4
<1>9. CASE UNCHANGED vars
  BY <1>9 DEF vars
<1> QED
  BY <1>1, <1>2, <1>3, <1>4, <1>5, <1>6, <1>7, <1>8, <1>9 DEF Next, Printf, Flush

\* The invariant holds in every reachable state.
THEOREM Invariance == Spec => []Inv
<1>1. Init => Inv
  BY InitInv
<1>2. Inv /\ [Next]_vars => Inv'
  BY NextInv
<1> QED
  BY <1>1, <1>2, PTL DEF Spec

\* The indices and the count of the ring stay in their ranges.
THEOREM TypeCorrect == Spec => []TypeOK
<1>1. Inv => TypeOK
  BY DEF Inv
<1> QED
  BY <1>1, Invariance, PTL

\* tsdb_queue_head, _tail and _count agree after any interleaving of printers,
\* flusher, late allocations and reboots.
THEOREM RingIsConsistent == Spec => []RingConsistent
<1>1. Inv => RingConsistent
  BY DEF Inv
<1> QED
  BY <1>1, Invariance, PTL

\* tsdb_log_flush never offers FlashDB a timestamp it has already stored.
THEOREM ClockIsNotBehind == Spec => []ClockNotBehind
<1>1. Inv => ClockNotBehind
  BY DEF Inv
<1> QED
  BY <1>1, Invariance, PTL

(***************************************************************************)
(* The ring implements the FIFO of LogFifo                                 *)
(***************************************************************************)

\* No record is younger than the last one: the flusher's next timestamp is
\* above them all.
LastIsYoungest == \A i \in 1..Len(stored) : stored[i].time <= LastTime(stored)

\* What a successful append makes of the records.
LEMMA AppendAtEnd ==
    ASSUME NEW log \in Seq(Record), NEW line \in Lines, NEW t \in Nat,
           line \notin LongLines, LastTime(log) < t,
           \A i \in 1..Len(log) : log[i].time <= LastTime(log)
    PROVE  LET r   == [time |-> t, line |-> line]
               new == AppendWithTs(log, line, t)
           IN  /\ new = Append(log, r)
               /\ Len(new) = Len(log) + 1
               /\ new[Len(log) + 1] = r
               /\ \A i \in 1..Len(log) : log[i].time < t
               /\ LastTime(new) = t
               /\ \A i \in 1..Len(new) : new[i].time <= t
<1> DEFINE r   == [time |-> t, line |-> line]
           new == Append(log, r)
<1>1. LastTime(log) \in Nat
  BY LastTimeType
<1>2. AppendWithTs(log, line, t) = new
  BY <1>1 DEF AppendWithTs
<1>3. r \in Record /\ r.time = t
  BY DEF Record
<1> HIDE DEF r
<1>4. /\ new \in Seq(Record) /\ Len(new) = Len(log) + 1 /\ Len(log) \in Nat
      /\ new[Len(log) + 1] = r
      /\ \A i \in 1..Len(log) : new[i] = log[i]
  BY <1>3
<1> HIDE DEF new
<1>5. new # <<>>
  BY <1>4, LenProperties, EmptySeq
<1>6. LastTime(new) = t
  BY <1>3, <1>4, <1>5 DEF LastTime
<1>7. \A i \in 1..Len(log) : log[i].time \in Nat /\ log[i].time < t
  <2> TAKE i \in 1..Len(log)
  <2>1. log[i] \in Record
    BY ElementOfSeq
  <2>2. log[i].time \in Nat
    BY <2>1 DEF Record
  <2> QED
    BY <1>1, <2>2
<1>8. \A i \in 1..Len(new) : new[i].time <= t
  BY <1>3, <1>4, <1>7
<1> QED
  BY <1>2, <1>4, <1>6, <1>7, <1>8 DEF r, new

LEMMA LastIsYoungestStep == Inv /\ LastIsYoungest /\ [Next]_vars => LastIsYoungest'
<1> SUFFICES ASSUME Inv, LastIsYoungest, [Next]_vars PROVE LastIsYoungest'
  OBVIOUS
<1>1. CASE stored' = stored
  BY <1>1 DEF LastIsYoungest
<1>2. CASE AppendLine
  <2>1. /\ stored \in Seq(Record) /\ buf \in Lines /\ ts \in Nat
        /\ stored' = AppendWithTs(stored, buf, ts + 1)
        /\ LastTime(stored) <= ts
    BY <1>2 DEF Inv, TypeOK, Record, ClockNotBehind, AppendLine
  <2>2. LastTime(stored) \in Nat /\ ts + 1 \in Nat /\ LastTime(stored) < ts + 1
    BY <2>1, LastTimeType
  <2>3. CASE buf \in LongLines
    BY <1>1, <2>1, <2>3 DEF AppendWithTs
  <2>4. CASE buf \notin LongLines
    <3>1. \A i \in 1..Len(stored) : stored[i].time <= LastTime(stored)
      BY DEF LastIsYoungest
    <3>2. /\ LastTime(stored') = ts + 1
          /\ \A i \in 1..Len(stored') : stored'[i].time <= ts + 1
      BY <2>1, <2>2, <2>4, <3>1, AppendAtEnd
    <3> QED
      BY <3>2 DEF LastIsYoungest
  <2> QED
    BY <2>3, <2>4
<1> QED
  BY <1>1, <1>2 DEF Next, Printf, StartPrint, Allocate, Put, Flush, StartFlush, TakeLine,
                    EndFlush, Reboot, vars

\* The c entries of a ring from index t, as a sequence.
LEMMA RingIsASeq ==
    ASSUME NEW q \in [Index -> Lines], NEW t \in Index, NEW c \in 0..TSDB_QUEUE_SIZE
    PROVE  LET s == [i \in 1..c |-> q[(t + i - 1) % TSDB_QUEUE_SIZE]]
           IN  s \in Seq(Lines) /\ Len(s) = c /\ s \in [1..Len(s) -> Lines]
<1> DEFINE s == [i \in 1..c |-> q[(t + i - 1) % TSDB_QUEUE_SIZE]]
<1>1. \A i \in 1..c : (t + i - 1) % TSDB_QUEUE_SIZE \in Index
  <2> TAKE i \in 1..c
  <2>1. i - 1 \in 0..(TSDB_QUEUE_SIZE - 1) /\ t + i - 1 = t + (i - 1)
    BY QueueAssumption DEF Index
  <2> QED
    BY <2>1, HeadMoves
<1>2. c \in Nat /\ s \in [1..c -> Lines]
  BY <1>1, QueueAssumption
<1>3. Len(s) = c /\ s \in Seq(Lines)
  BY <1>2, SeqDef
<1> QED
  BY <1>2, <1>3

\* What is pending, before and after a step.
LEMMA PendingIsASeq ==
    /\ TypeOK => /\ Pending \in Seq(Lines) /\ Len(Pending) = count
                 /\ Pending \in [1..Len(Pending) -> Lines]
                 /\ \A i \in 1..count : Pending[i] = queue[(tail + i - 1) % TSDB_QUEUE_SIZE]
    /\ TypeOK' => /\ Pending' \in Seq(Lines) /\ Len(Pending') = count'
                  /\ Pending' \in [1..Len(Pending') -> Lines]
                  /\ \A i \in 1..count' :
                        Pending'[i] = queue'[(tail' + i - 1) % TSDB_QUEUE_SIZE]
<1>1. ASSUME TypeOK
      PROVE  Pending \in Seq(Lines) /\ Len(Pending) = count /\ Pending \in [1..Len(Pending) -> Lines]
  BY <1>1, RingIsASeq DEF TypeOK, Pending
<1>2. ASSUME TypeOK'
      PROVE  /\ Pending' \in Seq(Lines) /\ Len(Pending') = count'
             /\ Pending' \in [1..Len(Pending') -> Lines]
  BY <1>2, RingIsASeq DEF TypeOK, Pending
<1> QED
  BY <1>1, <1>2 DEF Pending

\* A line that is put is appended to what is pending.
LEMMA PutAppends ==
    ASSUME Inv, HasRoom, NEW line \in Lines,
           queue' = [queue EXCEPT ![head] = line], head' = NextIndex(head),
           count' = count + 1, tail' = tail, TypeOK'
    PROVE  Pending' = Append(Pending, line)
<1> DEFINE new == Append(Pending, line)
<1>1. /\ Pending \in Seq(Lines) /\ Len(Pending) = count
      /\ \A i \in 1..count : Pending[i] = queue[(tail + i - 1) % TSDB_QUEUE_SIZE]
  BY PendingIsASeq DEF Inv
<1>2. /\ Pending' \in Seq(Lines) /\ Len(Pending') = count + 1
      /\ \A i \in 1..(count + 1) : Pending'[i] = queue'[(tail + i - 1) % TSDB_QUEUE_SIZE]
  BY PendingIsASeq
<1>3. /\ count \in 0..(TSDB_QUEUE_SIZE - 1) /\ tail \in Index /\ head \in Index
      /\ queue \in [Index -> Lines] /\ head = (tail + count) % TSDB_QUEUE_SIZE
  BY QueueAssumption DEF Inv, TypeOK, RingConsistent, HasRoom
<1>4. \A i \in 1..count : /\ (tail + i - 1) % TSDB_QUEUE_SIZE \in Index
                          /\ (tail + i - 1) % TSDB_QUEUE_SIZE # head
  <2> TAKE i \in 1..count
  <2> DEFINE x == tail + i - 1
             y == tail + count
  <2>1. x \in 0..(2 * TSDB_QUEUE_SIZE - 1) /\ y \in 0..(2 * TSDB_QUEUE_SIZE - 1)
    BY <1>3, QueueAssumption DEF Index
  <2>2. x < y /\ y - x < TSDB_QUEUE_SIZE
    BY <1>3, QueueAssumption DEF Index
  <2> HIDE DEF x, y
  <2>3. x % TSDB_QUEUE_SIZE = IF x < TSDB_QUEUE_SIZE THEN x ELSE x - TSDB_QUEUE_SIZE
    BY <2>1, WrapRing
  <2>4. y % TSDB_QUEUE_SIZE = IF y < TSDB_QUEUE_SIZE THEN y ELSE y - TSDB_QUEUE_SIZE
    BY <2>1, WrapRing
  <2>5. x % TSDB_QUEUE_SIZE \in Index /\ x % TSDB_QUEUE_SIZE # y % TSDB_QUEUE_SIZE
    BY <2>1, <2>2, <2>3, <2>4, QueueAssumption DEF Index
  <2> QED
    BY <1>3, <2>5 DEF x, y
<1>5. new \in Seq(Lines) /\ Len(new) = count + 1
  BY <1>1
<1>6. \A i \in 1..count : new[i] = Pending[i]
  BY <1>1
<1>7. new[count + 1] = line
  BY <1>1
<1> HIDE DEF new
<1>8. \A i \in 1..(count + 1) : Pending'[i] = new[i]
  <2> TAKE i \in 1..(count + 1)
  <2>1. CASE i \in 1..count
    BY <1>1, <1>2, <1>3, <1>4, <1>6, <2>1
  <2>2. CASE i = count + 1
    <3>1. tail + i - 1 = tail + count
      BY <1>3, <2>2, QueueAssumption DEF Index
    <3>2. Pending'[i] = queue'[head]
      BY <1>2, <1>3, <3>1
    <3> QED
      BY <1>3, <1>7, <2>2, <3>2
  <2> QED
    BY <1>3, <2>1, <2>2
<1>9. Pending' = new
  BY <1>2, <1>5, <1>8, SeqEqual
<1> QED
  BY <1>9 DEF new

\* The line that is taken is the oldest one, and the others stay in order.
LEMMA TakeRemovesHead ==
    ASSUME Inv, TakeLine, TypeOK'
    PROVE  Pending # <<>> /\ buf' = Head(Pending) /\ Pending' = Tail(Pending)
<1>1. /\ Pending \in Seq(Lines) /\ Len(Pending) = count
      /\ \A i \in 1..count : Pending[i] = queue[(tail + i - 1) % TSDB_QUEUE_SIZE]
  BY PendingIsASeq DEF Inv
<1>2. /\ count \in 1..TSDB_QUEUE_SIZE /\ tail \in Index
      /\ buf' = queue[tail] /\ queue' = queue
      /\ tail' = NextIndex(tail) /\ count' = count - 1
  BY QueueAssumption DEF Inv, TypeOK, TakeLine, Drained
<1>3. /\ Pending' \in Seq(Lines) /\ Len(Pending') = count - 1
      /\ \A i \in 1..(count - 1) : Pending'[i] = queue[(tail' + i - 1) % TSDB_QUEUE_SIZE]
  BY <1>2, PendingIsASeq
<1>4. Pending # <<>>
  BY <1>1, <1>2, EmptySeq
<1>5. Head(Pending) = queue[tail]
  <2>1. (tail + 1 - 1) % TSDB_QUEUE_SIZE = tail
    <3>1. tail + 1 - 1 = tail /\ tail \in 0..(2 * TSDB_QUEUE_SIZE - 1) /\ tail < TSDB_QUEUE_SIZE
      BY <1>2, QueueAssumption DEF Index
    <3> QED
      BY <3>1, WrapRing
  <2>2. Head(Pending) = Pending[1]
    BY <1>1, <1>4
  <2> QED
    BY <1>1, <1>2, <2>1, <2>2
<1>6. /\ Tail(Pending) \in Seq(Lines) /\ Len(Tail(Pending)) = count - 1
      /\ \A i \in 1..(count - 1) : Tail(Pending)[i] = Pending[i + 1]
  BY <1>1, <1>4, HeadTailProperties
<1>7. \A i \in 1..(count - 1) : Pending'[i] = Tail(Pending)[i]
  <2> TAKE i \in 1..(count - 1)
  <2>1. i \in 1..TSDB_QUEUE_SIZE /\ i + 1 \in 1..count
    BY <1>2, QueueAssumption
  <2>2. (NextIndex(tail) + (i - 1)) % TSDB_QUEUE_SIZE = (tail + i) % TSDB_QUEUE_SIZE
    BY <1>2, <2>1, TailMoves
  <2>3. NextIndex(tail) \in Index
    BY <1>2, NextIndexInRing
  <2>4. tail' + i - 1 = NextIndex(tail) + (i - 1) /\ tail + (i + 1) - 1 = tail + i
    BY <1>2, <2>3, QueueAssumption DEF Index
  <2>5. Pending'[i] = queue[(tail + i) % TSDB_QUEUE_SIZE]
    BY <1>3, <2>2, <2>4
  <2>6. Pending[i + 1] = queue[(tail + i) % TSDB_QUEUE_SIZE]
    BY <1>1, <2>1, <2>4
  <2> QED
    BY <1>6, <2>5, <2>6
<1>8. Pending' = Tail(Pending)
  BY <1>3, <1>6, <1>7, SeqEqual
<1> QED
  BY <1>2, <1>4, <1>5, <1>8

\* An empty ring.
LEMMA NothingPending ==
    /\ TypeOK /\ count = 0 => Pending = <<>>
    /\ TypeOK' /\ count' = 0 => Pending' = <<>>
<1> QED
  BY PendingIsASeq, EmptySeq

\* The printers.
LEMMA PrintImplements ==
    ASSUME Inv, Inv', NEW t \in Tasks, Printf(t)
    PROVE  [LogQueue!Next]_(LogQueue!vars)
<1> USE DEF LogQueue!vars
<1>0. Pending \in Seq(Lines) /\ Len(Pending) = count
  BY PendingIsASeq DEF Inv
<1>1. CASE StartPrint(t)
  <2>1. Settled' = Settled
    <3>1. CASE allocated
      BY <1>1, <3>1 DEF StartPrint, Settled, ring, Inv, TypeOK
    <3>2. CASE ~allocated
      BY <1>1, <3>2 DEF StartPrint, Settled, ring
    <3> QED
      BY <3>1, <3>2
  <2>2. Pending' = Pending
    BY <1>1 DEF StartPrint, ring, Pending
  <2> QED
    BY <1>1, <2>1, <2>2 DEF StartPrint, basic
<1>2. CASE Allocate(t)
  <2>1. ~Settled /\ Settled' \in BOOLEAN
    BY <1>2 DEF Allocate, Settled
  <2>2. Pending' \in [1..Len(Pending) -> Lines]
    <3>1. Pending' \in [1..Len(Pending') -> Lines] /\ Len(Pending') = count'
      BY PendingIsASeq DEF Inv
    <3> QED
      BY <1>0, <1>2, <3>1 DEF Allocate
  <2> QED
    BY <1>2, <2>1, <2>2 DEF Allocate, basic, LogQueue!Next, LogQueue!Open
<1>3. CASE Put(t)
  <2>1. Settled' = Settled
    BY <1>3 DEF Put, Settled, Inv, TypeOK
  <2>2. CASE HasRoom
    <3>1. PICK line \in Lines : queue' = [queue EXCEPT ![head] = line]
      BY <1>3, <2>2 DEF Put
    <3>2. Pending' = Append(Pending, line)
      BY <1>3, <2>2, <3>1, PutAppends DEF Put, Inv
    <3>3. Len(Pending) < TSDB_QUEUE_SIZE
      BY <1>0, <2>2 DEF HasRoom
    <3> QED
      BY <1>3, <2>1, <3>2, <3>3 DEF Put, basic, LogQueue!Next, LogQueue!Put
  <2>3. CASE ~HasRoom
    <3>1. Pending' = Pending
      BY <1>3, <2>3 DEF Put, Pending
    <3> QED
      BY <1>3, <2>1, <3>1 DEF Put, basic
  <2> QED
    BY <2>2, <2>3
<1> QED
  BY <1>1, <1>2, <1>3 DEF Printf

\* The flusher.
LEMMA FlushImplements ==
    ASSUME Inv, Inv', LastIsYoungest, Flush
    PROVE  [LogQueue!Next]_(LogQueue!vars)
<1> USE DEF LogQueue!vars
<1>1. CASE StartFlush \/ EndFlush
  BY <1>1 DEF StartFlush, EndFlush, ring, Pending, Settled
<1>2. CASE TakeLine
  <2>1. Settled' = Settled
    BY <1>2 DEF TakeLine, Settled
  <2>2. Pending # <<>> /\ buf' = Head(Pending) /\ Pending' = Tail(Pending)
    BY <1>2, TakeRemovesHead DEF Inv
  <2>3. flush # "append" /\ flush' = "append" /\ stored' = stored
    BY <1>2 DEF TakeLine
  <2> QED
    BY <2>1, <2>2, <2>3 DEF LogQueue!Next, LogQueue!Fetch
<1>3. CASE AppendLine
  <2>1. Settled' = Settled /\ Pending' = Pending
    BY <1>3 DEF AppendLine, ring, Settled, Pending
  <2>2. flush = "append" /\ flush' # "append" /\ <<buf>> # <<>> /\ <<buf>>[1] = buf
    BY <1>3 DEF AppendLine
  <2>3. /\ stored \in Seq(Record) /\ buf \in Lines /\ ts + 1 \in Nat
        /\ stored' = AppendWithTs(stored, buf, ts + 1)
        /\ LastTime(stored) < ts + 1
    <3>1. stored \in Seq(Record) /\ buf \in Lines /\ ts \in Nat
      BY DEF Inv, TypeOK, Record
    <3>2. stored' = AppendWithTs(stored, buf, ts + 1) /\ LastTime(stored) <= ts
      BY <1>3 DEF AppendLine, Inv, ClockNotBehind
    <3> QED
      BY <3>1, <3>2, LastTimeType
  <2>4. LogQueue!Store
    <3>1. CASE buf \in LongLines
      <4>1. stored' = stored
        BY <2>3, <3>1 DEF AppendWithTs
      <4> QED
        BY <2>1, <2>2, <3>1, <4>1 DEF LogQueue!Store
    <3>2. CASE buf \notin LongLines
      <4> DEFINE n == Len(stored)
                 r == [time |-> ts + 1, line |-> buf]
      <4>1. \A i \in 1..n : stored[i].time <= LastTime(stored)
        BY DEF LastIsYoungest
      <4>2. /\ stored' = Append(stored, r) /\ Len(stored') = n + 1
            /\ stored'[n + 1] = r
            /\ \A i \in 1..n : stored[i].time < ts + 1
        BY <2>3, <3>2, <4>1, AppendAtEnd
      <4>3. stored'[n + 1].time = ts + 1
        BY <4>2
      <4> QED
        BY <2>1, <2>2, <3>2, <4>2, <4>3 DEF LogQueue!Store
    <3> QED
      BY <3>1, <3>2
  <2> QED
    BY <2>4 DEF LogQueue!Next
<1> QED
  BY <1>1, <1>2, <1>3 DEF Flush

LEMMA StepImplements ==
    Inv /\ Inv' /\ LastIsYoungest /\ [Next]_vars => [LogQueue!Next]_(LogQueue!vars)
<1> SUFFICES ASSUME Inv, Inv', LastIsYoungest, [Next]_vars
             PROVE  [LogQueue!Next]_(LogQueue!vars)
  OBVIOUS
<1>1. CASE \E t \in Tasks : Printf(t)
  BY <1>1, PrintImplements
<1>2. CASE Flush
  BY <1>2, FlushImplements
<1>3. CASE Reboot
  <2>1. ~Settled' /\ flush' # "append" /\ stored' = stored /\ count' = 0
    BY <1>3 DEF Reboot, Settled
  <2>2. Pending' = <<>>
    BY <2>1, NothingPending DEF Inv
  <2> QED
    BY <2>1, <2>2 DEF LogQueue!Next, LogQueue!Reboot, LogQueue!vars
<1>4. CASE UNCHANGED vars
  BY <1>4 DEF vars, ring, basic, LogQueue!vars, Settled, Pending
<1> QED
  BY <1>1, <1>2, <1>3, <1>4 DEF Next

\* The log is the FIFO that LogFifo promises: whatever the tasks, the ring size
\* and the power cuts, once the ring is allocated for good a line is dropped
\* only by a full ring or for its length, and none is duplicated, reordered or
\* stored under a timestamp that is not above all others.
THEOREM RingImplementsFifo == Spec => ImplementsFifo
<1>1. Init => LastIsYoungest
  BY DEF Init, LastIsYoungest
<1>2. Spec => []LastIsYoungest
  BY <1>1, LastIsYoungestStep, Invariance, PTL DEF Spec
<1>3. Init => LogQueue!Init
  <2> SUFFICES ASSUME Init PROVE LogQueue!Init
    OBVIOUS
  <2>1. ~Settled /\ stored = <<>> /\ flush # "append"
    BY DEF Init, Settled
  <2>2. Pending = <<>>
    BY InitInv, NothingPending DEF Inv, Init
  <2> QED
    BY <2>1, <2>2 DEF LogQueue!Init
<1> QED
  BY <1>2, <1>3, Invariance, StepImplements, PTL DEF Spec, ImplementsFifo, LogQueue!Spec
=============================================================================
