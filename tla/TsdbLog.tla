------------------------------ MODULE TsdbLog ------------------------------
(***************************************************************************)
(* The log queue of 4-ware/Utils/tsdb_log.c: any task calls tsdb_printf,   *)
(* which puts a line into a ring of TSDB_QUEUE_SIZE entries inside a       *)
(* critical section; the Basic task calls tsdb_log_flush every 20 ms and   *)
(* appends the lines to the FlashDB time series database.                  *)
(*                                                                         *)
(* The ring is allocated by the first tsdb_printf, without protection: a    *)
(* task that is preempted between its test of tsdb_queue and the store of   *)
(* the new pointer replaces a ring others already use.  The old ring is     *)
(* lost; head, tail and count go on in the new one, whose memory is not     *)
(* initialised.                                                             *)
(*                                                                         *)
(* Simplifications: a line is a member of Lines, LongLines are those above  *)
(* the max_len of 128 given to fdb_tsdb_init (3-main/main.c), which         *)
(* fdb_tsl_append_with_ts refuses; calls from an interrupt or before        *)
(* fdb_tsdb_init return at once and are not modelled; MaxPrints bounds the  *)
(* number of calls.                                                         *)
(***************************************************************************)
EXTENDS Integers, Sequences

CONSTANTS
    Tasks,            \* the tasks that print
    Lines,            \* what can be in an entry; Junk: uninitialised memory
    LongLines,        \* the lines above max_len
    Junk,
    TSDB_QUEUE_SIZE,
    MaxPrints         \* bound on the calls of tsdb_printf

ASSUME QueueAssumption == TSDB_QUEUE_SIZE \in Nat \ {0}
ASSUME LinesAssumption == Junk \in Lines /\ LongLines \subseteq Lines
ASSUME PrintsAssumption == MaxPrints \in Nat

VARIABLES
    allocated,   \* tsdb_queue # NULL
    queue,       \* the entries of tsdb_queue
    head,        \* tsdb_queue_head
    tail,        \* tsdb_queue_tail
    count,       \* tsdb_queue_count
    pc,          \* where each task is in tsdb_printf
    flush,       \* where the Basic task is in tsdb_log_flush
    buf,         \* its local line
    ts,          \* its local timestamp
    stored,      \* the records of the database
    prints       \* calls of tsdb_printf so far

ring  == <<allocated, queue, head, tail, count>>
basic == <<flush, buf, ts>>
vars  == <<ring, pc, basic, stored, prints>>

Index == 0..(TSDB_QUEUE_SIZE - 1)

TypeOK ==
    /\ allocated \in BOOLEAN
    /\ queue \in [Index -> Lines]
    /\ head \in Index /\ tail \in Index
    /\ count \in 0..TSDB_QUEUE_SIZE
    /\ pc \in [Tasks -> {"idle", "alloc", "put"}]
    /\ flush \in {"idle", "loop", "append"}
    /\ buf \in Lines
    /\ ts \in Nat
    /\ stored \in Seq([time : Nat, line : Lines])
    /\ prints \in Nat

\* tsdb.last_time: FlashDB recovers it from the last record at start-up.
LastTime(log) == IF log = <<>> THEN 0 ELSE log[Len(log)].time

\* The clock of a flush starts from the last record.
StartClockAtZero(log) == 0   \* mutant
StartClock(log) == LastTime(log)

\* The loop of the flush ends when the ring is empty.
DrainedButOne == count <= 1   \* mutant: off by one
Drained == count = 0

\* The ring index after i.
NextIndexNoWrap(i) == IF i = TSDB_QUEUE_SIZE THEN 0 ELSE i + 1   \* mutant: off by one
NextIndex(i) == (i + 1) % TSDB_QUEUE_SIZE

\* There is room in the ring.
HasRoom == count < TSDB_QUEUE_SIZE

\* fdb_tsl_append_with_ts: refuses a long line and a timestamp that is not
\* above the last one.
AppendWithTs(log, line, t) ==
    IF line \in LongLines \/ t <= LastTime(log)
      THEN log
      ELSE Append(log, [time |-> t, line |-> line])

Init ==
    /\ allocated = FALSE
    /\ queue = [i \in Index |-> Junk]
    /\ head = 0 /\ tail = 0 /\ count = 0
    /\ pc = [t \in Tasks |-> "idle"]
    /\ flush = "idle" /\ buf = Junk /\ ts = 0
    /\ stored = <<>>
    /\ prints = 0

(***************************************************************************)
(* tsdb_printf                                                             *)
(***************************************************************************)

\* The test of tsdb_queue.
StartPrint(t) ==
    /\ pc[t] = "idle"
    /\ prints < MaxPrints
    /\ prints' = prints + 1
    /\ pc' = [pc EXCEPT ![t] = IF allocated THEN "put" ELSE "alloc"]
    /\ UNCHANGED <<ring, basic, stored>>

\* malloc_bsc, which may block, and the store of the pointer.
Allocate(t) ==
    /\ pc[t] = "alloc"
    /\ allocated' = TRUE
    /\ queue' = [i \in Index |-> Junk]
    /\ pc' = [pc EXCEPT ![t] = "put"]
    /\ UNCHANGED <<head, tail, count, basic, stored, prints>>

\* The critical section; the line is dropped if the ring is full.
Put(t) ==
    /\ pc[t] = "put"
    /\ pc' = [pc EXCEPT ![t] = "idle"]
    /\ IF HasRoom
         THEN /\ \E line \in Lines \ {Junk} : queue' = [queue EXCEPT ![head] = line]
              /\ head' = NextIndex(head)
              /\ count' = count + 1
         ELSE UNCHANGED <<queue, head, count>>
    /\ UNCHANGED <<allocated, tail, basic, stored, prints>>

(***************************************************************************)
(* tsdb_log_flush                                                          *)
(***************************************************************************)

StartFlush ==
    /\ flush = "idle" /\ allocated
    /\ ts' = StartClock(stored)
    /\ flush' = "loop"
    /\ UNCHANGED <<ring, pc, buf, stored, prints>>

\* The loop test and the critical section that takes a line out.
TakeLine ==
    /\ flush = "loop" /\ ~Drained
    /\ buf' = queue[tail]
    /\ tail' = NextIndex(tail)
    /\ count' = count - 1
    /\ flush' = "append"
    /\ UNCHANGED <<allocated, queue, head, pc, ts, stored, prints>>

\* ts++ and fdb_tsl_append_with_ts, whose result is not looked at.
AppendLineSameTs ==   \* mutant: ts is not advanced
    /\ flush = "append"
    /\ stored' = AppendWithTs(stored, buf, ts)
    /\ flush' = "loop"
    /\ UNCHANGED <<ring, pc, buf, ts, prints>>

AppendLine ==
    /\ flush = "append"
    /\ ts' = ts + 1
    /\ stored' = AppendWithTs(stored, buf, ts + 1)
    /\ flush' = "loop"
    /\ UNCHANGED <<ring, pc, buf, prints>>

EndFlush ==
    /\ flush = "loop" /\ Drained
    /\ flush' = "idle"
    /\ UNCHANGED <<ring, pc, buf, ts, stored, prints>>

\* A power cut and a restart: RAM is lost, the database is not.
Reboot ==
    /\ allocated' = FALSE
    /\ queue' = [i \in Index |-> Junk]
    /\ head' = 0 /\ tail' = 0 /\ count' = 0
    /\ pc' = [t \in Tasks |-> "idle"]
    /\ flush' = "idle" /\ buf' = Junk /\ ts' = 0
    /\ UNCHANGED <<stored, prints>>

-----------------------------------------------------------------------------
Printf(t) == StartPrint(t) \/ Allocate(t) \/ Put(t)
Flush    == StartFlush \/ TakeLine \/ AppendLine \/ EndFlush

Next == (\E t \in Tasks : Printf(t)) \/ Flush \/ Reboot

Spec == Init /\ [][Next]_vars

\* Basic_Task calls tsdb_log_flush in every turn of its loop.
LiveSpec == Spec /\ WF_vars(Flush)

(***************************************************************************)
(* Properties                                                              *)
(***************************************************************************)

\* No task is about to replace the ring.
Settled == allocated /\ \A t \in Tasks : pc[t] # "alloc"

\* The three indices agree, whatever the interleaving of printers, flusher
\* and late allocations: the next free entry is count entries after tail.
RingConsistent == head = (tail + count) % TSDB_QUEUE_SIZE

\* FlashDB never refuses a line for its timestamp: the flusher's clock is not
\* behind the last record, after a reboot neither.
ClockNotBehind == flush # "idle" => LastTime(stored) <= ts

\* The ring implements the FIFO: pending is read off the ring from tail.
Pending == [i \in 1..count |-> queue[(tail + i - 1) % TSDB_QUEUE_SIZE]]
LogQueue == INSTANCE LogFifo WITH
            Capacity <- TSDB_QUEUE_SIZE,
            settled  <- Settled,
            pending  <- Pending,
            hand     <- IF flush = "append" THEN <<buf>> ELSE <<>>
ImplementsFifo == LogQueue!Spec

\* No line is left in the ring: the oldest one is taken out, sooner or later.
OldestLineLeaves ==
    \A i \in Index : (tail = i /\ count > 0) ~> (tail # i \/ count = 0)
=============================================================================
