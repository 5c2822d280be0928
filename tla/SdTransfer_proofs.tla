-------------------------- MODULE SdTransfer_proofs --------------------------
(***************************************************************************)
(* Proofs about SdTransfer.  What they say holds for every set of calls, as  *)
(* long as the card answers within the 200 ms of a wait.                     *)
(***************************************************************************)
EXTENDS SdTransfer, TLAPS

\* The card answers in time.
Prompt == "slow" \notin Faults

(***************************************************************************)
(* Type correctness                                                        *)
(***************************************************************************)

LEMMA TransfersType == \A c \in Calls : Transfers(c) \in Nat \ {0}
BY CallsAssumption DEF Transfers

\* A call that runs has a transfer left.
InProgress == pc # "idle" => n < Transfers(call)

TypeInv == TypeOK /\ InProgress

LEMMA InitType == Init => TypeInv
<1> SUFFICES ASSUME Init
             PROVE  TypeInv
  OBVIOUS
<1>1. /\ error \in BOOLEAN /\ waited \in BOOLEAN /\ failed \in BOOLEAN
      /\ gone \in BOOLEAN /\ busy \in BOOLEAN /\ complete \in BOOLEAN /\ faulty \in BOOLEAN
  BY Zenon DEF Init
<1>2. call \in Calls /\ pc = "idle" /\ n = 0 /\ sem = 0 /\ sdio = "off" /\ dma = "off"
  BY DEF Init
<1>3. 0 \in 0..Transfers(call)
  BY <1>2, TransfersType
<1> QED
  BY <1>1, <1>2, <1>3 DEF TypeInv, TypeOK, InProgress

LEMMA NextKeepsType == TypeInv /\ [Next]_vars => TypeInv'
<1> SUFFICES ASSUME TypeOK, InProgress, [Next]_vars
             PROVE  TypeOK' /\ InProgress'
  BY DEF TypeInv
<1> USE TransfersType DEF TypeOK, InProgress
<1>1. CASE UNCHANGED vars
  BY <1>1 DEF vars, hw, ghost
<1>2. CASE CommandFails
  BY <1>2 DEF CommandFails, hw
<1>3. CASE Start
  <2>1. busy' \in BOOLEAN
    BY <1>3, Zenon DEF Start
  <2> QED
    BY <1>3, <2>1 DEF Start, ghost
<1>4. CASE Take
  BY <1>4 DEF Take, AfterFirst, hw, ghost
<1>5. CASE Timeout
  BY <1>5 DEF Timeout, AfterTimeout, hw, ghost
<1>6. CASE Check
  <2>1. failed' \in BOOLEAN /\ complete' \in BOOLEAN
    BY <1>6, Zenon DEF Check, Reported, Moved
  <2> QED
    BY <1>6, <2>1 DEF Check, hw
<1>7. CASE Programmed
  BY <1>7 DEF Programmed, hw, ghost
<1>14. CASE StatusFails
  BY <1>14 DEF StatusFails, hw
<1>8. CASE NextSector
  BY <1>8 DEF NextSector, More, ghost
<1>9. CASE DataEnd
  <2>1. error' \in BOOLEAN /\ faulty' \in BOOLEAN
    BY <1>9, Zenon DEF DataEnd
  <2> QED
    BY <1>9, <2>1 DEF DataEnd, Given
<1>10. CASE DataError
  BY <1>10 DEF DataError
<1>11. CASE DmaEnd
  BY <1>11 DEF DmaEnd, Given, ghost
<1>12. CASE PullOut
  BY <1>12 DEF PullOut, ghost
<1>15. CASE Ready
  BY <1>15 DEF Ready, ghost
<1>13. ASSUME NEW c \in Calls, Call(c) PROVE TypeOK' /\ InProgress'
  <2>1. failed' \in BOOLEAN /\ complete' \in BOOLEAN /\ faulty' \in BOOLEAN
    BY <1>13, Zenon DEF Call
  <2>2. call' = c /\ n' = 0 /\ pc' = "setup" /\ sdio' = "off"
        /\ UNCHANGED <<sem, error, waited, dma, gone, busy>>
    BY <1>13 DEF Call
  <2>3. Transfers(c) \in Nat \ {0}
    OBVIOUS
  <2>4. Transfers(call') = Transfers(c)
    BY <2>2
  <2> QED
    BY <2>1, <2>2, <2>3, <2>4
<1> QED
  BY <1>1, <1>2, <1>3, <1>4, <1>5, <1>6, <1>7, <1>8, <1>9, <1>10, <1>11, <1>12,
     <1>13, <1>14, <1>15 DEF Next, Task, Hardware

(***************************************************************************)
(* The accounting of interrupts                                            *)
(***************************************************************************)

\* Interrupts of the transfer that have come.
Ended == (IF sdio = "ended" THEN 1 ELSE 0) + (IF dma = "ended" THEN 1 ELSE 0)

\* The semaphore counts those that were not taken; outside of the wait there
\* are none, and none will come.
Accounting ==
    /\ pc = "first" => sem = Ended
    /\ pc = "second" => sem + 1 = Ended
    /\ pc \notin {"first", "second"} =>
           sem = 0 /\ sdio # "running" /\ dma # "running"
    /\ dma = "running" => sdio # "off"
    /\ sdio = "running" => dma # "off"
    /\ pc = "check" /\ waited => sdio = "ended" /\ dma = "ended"

LEMMA NextKeepsAccounting ==
    Prompt /\ TypeOK /\ Accounting /\ [Next]_vars => Accounting'
<1> SUFFICES ASSUME Prompt, TypeOK, Accounting, [Next]_vars
             PROVE  Accounting'
  OBVIOUS
<1> USE DEF Accounting, Ended
<1>1. CASE UNCHANGED vars
  BY <1>1 DEF vars, hw, ghost
<1>2. CASE CommandFails
  BY <1>2 DEF CommandFails, hw
<1>3. CASE Start
  BY <1>3 DEF Start, ghost
<1>4. CASE Take
  BY <1>4 DEF Take, AfterFirst, hw, ghost, TypeOK
<1>5. CASE Timeout
  <2>1. ~waited'
    BY <1>5, Zenon DEF Timeout
  <2>2. sdio # "running" /\ dma # "running"
    BY <1>5 DEF Timeout, GivesUp, Prompt
  <2> QED
    BY <1>5, <2>1, <2>2 DEF Timeout, AfterTimeout, hw
<1>6. CASE Check
  BY <1>6 DEF Check, hw
<1>7. CASE Programmed
  BY <1>7 DEF Programmed, hw, ghost
<1>14. CASE StatusFails
  BY <1>14 DEF StatusFails, hw
<1>8. CASE NextSector
  BY <1>8 DEF NextSector, ghost
<1>9. CASE DataEnd
  BY <1>9 DEF DataEnd, Given, TypeOK
<1>10. CASE DataError
  BY <1>10 DEF DataError, TypeOK
<1>11. CASE DmaEnd
  BY <1>11 DEF DmaEnd, Given, TypeOK
<1>12. CASE PullOut
  BY <1>12 DEF PullOut, TypeOK
<1>15. CASE Ready
  BY <1>15 DEF Ready, ghost
<1>13. ASSUME NEW c \in Calls, Call(c) PROVE Accounting'
  BY <1>13 DEF Call
<1> QED
  BY <1>1, <1>2, <1>3, <1>4, <1>5, <1>6, <1>7, <1>8, <1>9, <1>10, <1>11, <1>12,
     <1>13, <1>14, <1>15 DEF Next, Task, Hardware

(***************************************************************************)
(* What the results mean                                                   *)
(***************************************************************************)

\* A path that is off has a reason, and the data of a call of one transfer is
\* complete until the check that follows its wait says otherwise.
Reason ==
    /\ pc \in {"first", "second"} /\ (sdio = "off" \/ dma = "off") => error \/ gone
    /\ pc = "check" /\ ~waited => error \/ gone

Data ==
    Transfers(call) = 1 =>
        /\ pc \in {"setup", "first", "second", "check"} => complete
        /\ pc = "program" => complete \/ gone
        /\ pc \in {"next", "idle"} /\ ~failed =>
               complete \/ (call.dir = "read" /\ Single(call) /\ gone)

\* An error that was reported is still known.
Errors ==
    Transfers(call) = 1 =>
        /\ pc \in {"setup", "program"} => ~faulty
        /\ sdio = "running" => ~faulty
        /\ pc \in {"first", "second", "check"} /\ faulty => error
        /\ pc \in {"next", "idle"} /\ faulty => failed

\* A call of one transfer does not return to its setup.
LEMMA OneTransferEnds ==
    ASSUME TypeInv, NextSector, Transfers(call) = 1
    PROVE  pc = "next" /\ pc' = "idle" /\ UNCHANGED <<call, failed, sdio, gone, ghost>>
<1>1. pc = "next" /\ n = 0
  BY DEF TypeInv, TypeOK, InProgress, NextSector
<1> QED
  BY <1>1 DEF NextSector, More, ghost

LEMMA NextKeepsReason ==
    Prompt /\ TypeOK /\ Accounting /\ Reason /\ [Next]_vars => Reason'
<1> SUFFICES ASSUME Prompt, TypeOK, Accounting, Reason, [Next]_vars
             PROVE  Reason'
  OBVIOUS
<1> USE DEF Reason
<1>1. CASE UNCHANGED vars
  BY <1>1 DEF vars, hw, ghost
<1>2. CASE CommandFails \/ StatusFails
  BY <1>2 DEF CommandFails, StatusFails, hw
<1>3. CASE Start
  BY <1>3 DEF Start, ghost
<1>4. CASE Take
  <2>1. waited'
    BY <1>4, Zenon DEF Take
  <2> QED
    BY <1>4, <2>1 DEF Take, AfterFirst, hw, ghost
<1>5. CASE Timeout
  <2>1. sdio # "running" /\ dma # "running" /\ sem = 0
    BY <1>5 DEF Timeout, GivesUp, Prompt
  <2>2. sdio = "off" \/ dma = "off"
    BY <1>5, <2>1 DEF Timeout, Accounting, Ended, TypeOK
  <2> QED
    BY <1>5, <2>2 DEF Timeout, AfterTimeout, hw, ghost
<1>6. CASE Check
  BY <1>6 DEF Check, hw
<1>7. CASE Programmed \/ NextSector
  BY <1>7 DEF Programmed, NextSector, hw, ghost
<1>8. CASE DataEnd
  <2>1. pc \in {"first", "second"} /\ dma # "off"
    BY <1>8 DEF DataEnd, Accounting
  <2> QED
    BY <1>8, <2>1 DEF DataEnd
<1>9. CASE DataError
  <2>1. error'
    BY <1>9, Zenon DEF DataError
  <2> QED
    BY <1>9, <2>1 DEF DataError
<1>10. CASE DmaEnd
  BY <1>10 DEF DmaEnd, Accounting, ghost
<1>11. CASE PullOut
  <2>1. gone'
    BY <1>11, Zenon DEF PullOut
  <2> QED
    BY <1>11, <2>1 DEF PullOut, ghost
<1>12. CASE Ready
  BY <1>12 DEF Ready, ghost
<1>13. ASSUME NEW c \in Calls, Call(c) PROVE Reason'
  BY <1>13 DEF Call
<1> QED
  BY <1>1, <1>2, <1>3, <1>4, <1>5, <1>6, <1>7, <1>8, <1>9, <1>10, <1>11, <1>12,
     <1>13 DEF Next, Task, Hardware

LEMMA NextKeepsData ==
    TypeInv /\ Accounting /\ Reason /\ Data /\ [Next]_vars => Data'
<1> SUFFICES ASSUME TypeInv, Accounting, Reason, Data, [Next]_vars,
                    Transfers(call') = 1
             PROVE  Data'
  BY DEF Data
<1> USE DEF Data
<1>0. TypeOK
  BY DEF TypeInv
<1>1. CASE UNCHANGED vars
  BY <1>1 DEF vars, hw, ghost
<1>2. CASE CommandFails
  <2>1. failed' /\ pc' = "next"
    BY <1>2, Zenon DEF CommandFails
  <2> QED
    BY <1>2, <2>1 DEF CommandFails
<1>3. CASE Start
  BY <1>3 DEF Start, ghost
<1>4. CASE Take
  BY <1>4 DEF Take, AfterFirst, hw, ghost
<1>5. CASE Timeout
  BY <1>5 DEF Timeout, AfterTimeout, hw, ghost
<1>6. CASE Check
  <2>1. pc = "check" /\ pc' \in {"program", "next"} /\ UNCHANGED <<call, error, waited, gone>>
    BY <1>6 DEF Check, hw
  <2>2. (pc' = "program") <=> (call.dir = "write" /\ ~Reported)
    BY <1>6, Zenon DEF Check
  <2>3. failed' <=> Reported
    BY <1>6, Zenon DEF Check
  <2>4. complete' <=> (complete /\ Moved)
    BY <1>6, Zenon DEF Check
  <2>5. waited => sdio = "ended" /\ dma = "ended"
    BY <2>1 DEF Accounting
  <2>6. complete
    BY <2>1
  <2>7. call.dir = "read" \/ call.dir = "write"
    BY <1>0, CallsAssumption DEF TypeOK
  <2>8. ASSUME ~Reported
        PROVE  complete' \/ (gone /\ (call.dir = "write" \/ Single(call)))
    <3>1. ~error
      BY <2>8 DEF Reported
    <3>2. CASE waited
      BY <2>4, <2>5, <2>6, <3>1, <3>2 DEF Moved
    <3>3. CASE ~waited
      <4>1. gone
        BY <2>1, <3>1, <3>3 DEF Reason
      <4>2. call.dir = "write" \/ Single(call)
        BY <2>7, <2>8, <3>3 DEF Reported
      <4> QED
        BY <4>1, <4>2
    <3> QED
      BY <3>2, <3>3
  <2> QED
    BY <2>1, <2>2, <2>3, <2>7, <2>8
<1>7. CASE Programmed
  BY <1>7 DEF Programmed, hw, ghost
<1>14. CASE StatusFails
  <2>1. failed' /\ pc' = "next"
    BY <1>14, Zenon DEF StatusFails
  <2> QED
    BY <2>1
<1>8. CASE NextSector
  <2>1. pc = "next" /\ pc' = "idle" /\ UNCHANGED <<call, failed, gone, ghost>>
    BY <1>8, OneTransferEnds DEF NextSector
  <2> QED
    BY <2>1 DEF ghost
<1>9. CASE DataEnd
  <2>1. pc \in {"first", "second"}
    BY <1>9 DEF DataEnd, Accounting
  <2> QED
    BY <1>9, <2>1 DEF DataEnd
<1>10. CASE DataError
  <2>1. pc \in {"first", "second"}
    BY <1>10 DEF DataError, Accounting
  <2> QED
    BY <1>10, <2>1 DEF DataError
<1>11. CASE DmaEnd
  BY <1>11 DEF DmaEnd, ghost
<1>12. CASE PullOut
  <2>1. gone'
    BY <1>12, Zenon DEF PullOut
  <2> QED
    BY <1>12, <2>1 DEF PullOut, ghost
<1>15. CASE Ready
  BY <1>15 DEF Ready, ghost
<1>13. ASSUME NEW c \in Calls, Call(c) PROVE Data'
  <2>1. complete'
    BY <1>13, Zenon DEF Call
  <2> QED
    BY <1>13, <2>1 DEF Call
<1> QED
  BY <1>1, <1>2, <1>3, <1>4, <1>5, <1>6, <1>7, <1>8, <1>9, <1>10, <1>11, <1>12,
     <1>13, <1>14, <1>15 DEF Next, Task, Hardware

LEMMA NextKeepsErrors ==
    TypeInv /\ Accounting /\ Errors /\ [Next]_vars => Errors'
<1> SUFFICES ASSUME TypeInv, Accounting, Errors, [Next]_vars,
                    Transfers(call') = 1
             PROVE  Errors'
  BY DEF Errors
<1> USE DEF Errors
<1>0. TypeOK
  BY DEF TypeInv
<1>1. CASE UNCHANGED vars
  BY <1>1 DEF vars, hw, ghost
<1>2. CASE CommandFails
  <2>1. failed' /\ pc' = "next" /\ sdio' = sdio /\ pc = "setup"
    BY <1>2, Zenon DEF CommandFails, hw
  <2>2. sdio # "running"
    BY <2>1 DEF Accounting
  <2> QED
    BY <2>1, <2>2
<1>3. CASE Start
  BY <1>3 DEF Start, ghost
<1>4. CASE Take
  BY <1>4 DEF Take, AfterFirst, hw, ghost
<1>5. CASE Timeout
  BY <1>5 DEF Timeout, AfterTimeout, hw, ghost
<1>6. CASE Check
  <2>1. failed' <=> Reported
    BY <1>6, Zenon DEF Check
  <2>2. pc = "check" /\ UNCHANGED <<call, sdio, faulty>>
    BY <1>6 DEF Check, hw
  <2>3. faulty => Reported
    BY <2>2 DEF Reported
  <2>4. pc' = IF call.dir = "write" /\ ~Reported THEN "program" ELSE "next"
    BY <1>6, Zenon DEF Check
  <2> QED
    BY <2>1, <2>2, <2>3, <2>4
<1>7. CASE Programmed
  <2>1. sdio # "running"
    BY <1>7 DEF Programmed, Accounting
  <2> QED
    BY <1>7, <2>1 DEF Programmed, hw, ghost
<1>14. CASE StatusFails
  <2>1. failed' /\ pc' = "next" /\ sdio' = sdio /\ pc = "program"
    BY <1>14, Zenon DEF StatusFails, hw
  <2>2. sdio # "running"
    BY <2>1 DEF Accounting
  <2> QED
    BY <2>1, <2>2
<1>8. CASE NextSector
  <2>1. pc = "next" /\ pc' = "idle" /\ UNCHANGED <<call, failed, sdio, ghost>>
    BY <1>8, OneTransferEnds DEF NextSector
  <2> QED
    BY <2>1 DEF ghost
<1>9. CASE DataEnd
  <2>1. pc \in {"first", "second"} /\ ~faulty /\ pc' = pc /\ sdio' = "ended"
    BY <1>9 DEF DataEnd, Accounting
  <2>2. faulty' => error'
    BY <1>9, <2>1, Zenon DEF DataEnd
  <2> QED
    BY <2>1, <2>2
<1>10. CASE DataError
  <2>1. pc \in {"first", "second"} /\ pc' = pc /\ sdio' = "off"
    BY <1>10 DEF DataError, Accounting
  <2>2. error'
    BY <1>10, Zenon DEF DataError
  <2> QED
    BY <2>1, <2>2
<1>11. CASE DmaEnd
  BY <1>11 DEF DmaEnd, ghost
<1>12. CASE PullOut
  BY <1>12 DEF PullOut, ghost
<1>15. CASE Ready
  BY <1>15 DEF Ready, ghost
<1>13. ASSUME NEW c \in Calls, Call(c) PROVE Errors'
  <2>1. ~faulty'
    BY <1>13, Zenon DEF Call
  <2> QED
    BY <1>13, <2>1 DEF Call
<1> QED
  BY <1>1, <1>2, <1>3, <1>4, <1>5, <1>6, <1>7, <1>8, <1>9, <1>10, <1>11, <1>12,
     <1>13, <1>14, <1>15 DEF Next, Task, Hardware

(***************************************************************************)
(* Theorems                                                                *)
(***************************************************************************)

\* Every state of the driver is of the declared type.
THEOREM TypeCorrect == Spec => []TypeOK
<1>1. TypeInv => TypeOK
  BY DEF TypeInv
<1> QED
  BY InitType, NextKeepsType, <1>1, PTL DEF Spec

\* If the card answers in time, no transfer leaves an interrupt to the next:
\* SDIO_DMA_Wait_Complete consumes what its transfer has caused, or there is
\* nothing left to come when it gives up.
THEOREM TransfersKeepTheirInterrupts == Prompt => (Spec => []NoInterruptLeft)
<1> SUFFICES ASSUME Prompt
             PROVE  Spec => []NoInterruptLeft
  OBVIOUS
<1>1. Init => Accounting
  BY DEF Init, Accounting
<1>2. TypeOK /\ Accounting /\ [Next]_vars => Accounting'
  BY NextKeepsAccounting
<1>3. Accounting => NoInterruptLeft
  BY DEF Accounting, NoInterruptLeft
<1> QED
  BY TypeCorrect, <1>1, <1>2, <1>3, PTL DEF Spec

\* If the card answers in time, an error that the hardware reports during a
\* call of one transfer reaches the caller of SD_ReadDisk or SD_WriteDisk.
THEOREM ErrorsReachTheCaller == Prompt => (Spec => []ErrorIsReturned)
<1> SUFFICES ASSUME Prompt
             PROVE  Spec => []ErrorIsReturned
  OBVIOUS
<1> DEFINE I == TypeInv /\ Accounting /\ Errors
<1>1. Init => I
  <2>1. Init => Accounting
    BY DEF Init, Accounting
  <2>2. Init => Errors
    <3>1. Init => ~faulty
      BY Zenon DEF Init
    <3> QED
      BY <3>1 DEF Errors
  <2> QED
    BY <2>1, <2>2, InitType
<1>2. I /\ [Next]_vars => I'
  BY NextKeepsType, NextKeepsAccounting, NextKeepsErrors DEF TypeInv
<1>3. I => ErrorIsReturned
  BY DEF Errors, ErrorIsReturned
<1> HIDE DEF I
<1> QED
  BY <1>1, <1>2, <1>3, PTL DEF Spec

\* If the card answers in time, SD_OK from a call of one transfer means that
\* all data was moved, except for a single sector read from a card that is
\* gone.
THEOREM OkIsComplete == Prompt => (Spec => []OkMeansComplete)
<1> SUFFICES ASSUME Prompt
             PROVE  Spec => []OkMeansComplete
  OBVIOUS
<1> DEFINE I == TypeInv /\ Accounting /\ Reason /\ Data
<1>1. Init => I
  <2>1. Init => Accounting /\ Reason
    BY DEF Init, Accounting, Reason
  <2>2. Init => Data
    <3>1. Init => complete /\ pc = "idle"
      BY Zenon DEF Init
    <3> QED
      BY <3>1 DEF Data
  <2> QED
    BY <2>1, <2>2, InitType
<1>2. I /\ [Next]_vars => I'
  BY NextKeepsType, NextKeepsAccounting, NextKeepsReason, NextKeepsData DEF TypeInv
<1>3. I => OkMeansComplete
  BY DEF Data, OkMeansComplete
<1> HIDE DEF I
<1> QED
  BY <1>1, <1>2, <1>3, PTL DEF Spec
=============================================================================
