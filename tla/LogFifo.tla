------------------------------ MODULE LogFifo ------------------------------
(***************************************************************************)
(* What the flash log promises to the tasks that print to it               *)
(* (4-ware/Utils/tsdb_log.c): a bounded FIFO in front of a store with      *)
(* increasing timestamps.  A line that finds the FIFO full is dropped, a    *)
(* line longer than the database's max_len is dropped at the store, and     *)
(* nothing else is ever lost, duplicated or reordered - once the FIFO is    *)
(* settled, that is once its memory has been allocated for good.            *)
(***************************************************************************)
EXTENDS Naturals, Sequences

CONSTANTS Lines, LongLines, Capacity

VARIABLES
    settled,  \* the memory of the FIFO is there to stay
    pending,  \* lines waiting, oldest first
    hand,     \* the line the flusher carries, as a sequence of length 0 or 1
    stored    \* the database: a sequence of [time, line]

vars == <<settled, pending, hand, stored>>

Init ==
    /\ settled = FALSE
    /\ pending = <<>>
    /\ hand = <<>>
    /\ stored = <<>>

\* Before it is settled the FIFO may forget what its lines say.
Open ==
    /\ ~settled
    /\ settled' \in BOOLEAN
    /\ pending' \in [1..Len(pending) -> Lines]
    /\ UNCHANGED <<hand, stored>>

Put ==
    /\ Len(pending) < Capacity
    /\ \E l \in Lines : pending' = Append(pending, l)
    /\ UNCHANGED <<settled, hand, stored>>

Fetch ==
    /\ pending # <<>> /\ hand = <<>>
    /\ hand' = <<Head(pending)>>
    /\ pending' = Tail(pending)
    /\ UNCHANGED <<settled, stored>>

\* The timestamp is above all the timestamps already stored.
Store ==
    /\ hand # <<>> /\ hand' = <<>>
    /\ IF hand[1] \in LongLines
         THEN stored' = stored
         ELSE LET n == Len(stored)
              IN /\ Len(stored') = n + 1
                 /\ stored' = Append(stored, [time |-> stored'[n + 1].time, line |-> hand[1]])
                 /\ \A i \in 1..n : stored[i].time < stored'[n + 1].time
    /\ UNCHANGED <<settled, pending>>

\* A power cut empties the FIFO; the database survives.
Reboot ==
    /\ settled' = FALSE /\ pending' = <<>> /\ hand' = <<>>
    /\ UNCHANGED stored

Next == Open \/ Put \/ Fetch \/ Store \/ Reboot

Spec == Init /\ [][Next]_vars
=============================================================================
