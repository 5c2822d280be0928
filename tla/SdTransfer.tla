------------------------------ MODULE SdTransfer ------------------------------
(***************************************************************************)
(* One call after another of SD_ReadDisk and SD_WriteDisk                   *)
(* (4-ware/BSP/sdio_sdcard.c), under the mutex that serialises them.        *)
(*                                                                         *)
(* A call moves its sectors in one transfer, or in one transfer per sector  *)
(* when the buffer is not aligned.  A transfer sends its commands, starts   *)
(* the SDIO data path and the DMA stream, and takes xSDcardSemaphore twice, *)
(* once for the end of the data (SDIO_IRQHandler) and once for the end of   *)
(* the DMA (DMA2_Stream3_IRQHandler), each time for 200 ms at most.  The    *)
(* interrupts come in either order and know nothing of the call: one that   *)
(* comes after the wait has given up counts for the next transfer.          *)
(*                                                                         *)
(* A card that has received a sector is busy with it, for as long as it     *)
(* likes.  The write functions ask for its state, without a time-out, until *)
(* it is ready or a command fails; the others send their commands to a      *)
(* busy card, which does not answer.                                        *)
(*                                                                         *)
(* Simplifications: a transfer's commands succeed or fail together;         *)
(* parameter errors and a locked card are left out; after a data error the  *)
(* DMA either is finished at once or never.                                 *)
(***************************************************************************)
EXTENDS Naturals

CONSTANTS
    Calls,      \* the calls: [dir, cnt, aligned]
    Faults      \* what may go wrong, among the kinds below

FaultKinds == {"command",   \* a command is not answered or answered wrongly
               "data",      \* CRC, timeout, overrun or start bit error
               "slow",      \* the card takes more than 200 ms
               "gone"}      \* the card is pulled out

ASSUME CallsAssumption ==
    Calls \subseteq [dir : {"read", "write"}, cnt : 1..255, aligned : BOOLEAN]
ASSUME FaultsAssumption == Faults \subseteq FaultKinds

VARIABLES
    call,       \* the parameters of the last call
    pc,         \* where it is
    n,          \* sectors of an unaligned call that were moved
    sem,        \* count of xSDcardSemaphore
    error,      \* TransferError # SD_OK
    waited,     \* SDIO_DMA_Wait_Complete has returned SD_OK
    failed,     \* sta # SD_OK
    sdio,       \* the SDIO data path
    dma,        \* the DMA stream
    gone,       \* the card is out of its slot
    busy,       \* the card receives or programs a sector
    complete,   \* ghost: all data of the call so far was moved
    faulty      \* ghost: the hardware has reported an error of the call

hw    == <<sdio, dma, gone, busy>>
ghost == <<complete, faulty>>
vars  == <<call, pc, n, sem, error, waited, failed, hw, ghost>>

\* A call with an unaligned buffer moves its sectors one by one.
Single(c) == c.cnt = 1 \/ ~c.aligned
Transfers(c) == IF c.aligned THEN 1 ELSE c.cnt

TypeOK ==
    /\ call \in Calls
    /\ pc \in {"idle", "setup", "first", "second", "check", "program", "next"}
    /\ n \in 0..Transfers(call)
    /\ sem \in 0..2
    /\ error \in BOOLEAN /\ waited \in BOOLEAN /\ failed \in BOOLEAN
    /\ sdio \in {"off", "running", "ended"} /\ dma \in {"off", "running", "ended"}
    /\ gone \in BOOLEAN /\ busy \in BOOLEAN /\ complete \in BOOLEAN /\ faulty \in BOOLEAN

Init ==
    /\ call \in Calls /\ pc = "idle" /\ n = 0
    /\ sem = 0 /\ error = FALSE /\ waited = FALSE /\ failed = FALSE
    /\ sdio = "off" /\ dma = "off" /\ gone = FALSE /\ busy = FALSE
    /\ complete = TRUE /\ faulty = FALSE

(***************************************************************************)
(* The task                                                                *)
(***************************************************************************)

\* The first statement of a transfer switches the data path off.
Call(c) ==
    /\ pc = "idle"
    /\ call' = c
    /\ n' = 0 /\ failed' = FALSE
    /\ complete' = TRUE /\ faulty' = FALSE
    /\ sdio' = "off"
    /\ pc' = "setup"
    /\ UNCHANGED <<sem, error, waited, dma, gone, busy>>

\* SD_WriteBlock asks a busy card until it is ready.
Polls == call.dir = "write" /\ Single(call)

\* The card does not answer the commands of a transfer.
Refused == gone \/ (busy /\ ~Polls)

\* A command fails: the transfer is over before it has begun.
CommandFails ==
    /\ pc = "setup"
    /\ Refused \/ "command" \in Faults
    /\ failed' = TRUE /\ complete' = FALSE /\ faulty' = TRUE
    /\ pc' = "next"
    /\ UNCHANGED <<call, n, sem, error, waited, hw>>

Start ==
    /\ pc = "setup" /\ ~gone /\ ~busy
    /\ sdio' = "running" /\ dma' = "running"
    /\ busy' = (call.dir = "write")
    /\ error' = FALSE
    /\ pc' = "first"
    /\ UNCHANGED <<call, n, sem, waited, failed, gone, ghost>>

\* SDIO_DMA_Wait_Complete takes the semaphore twice.
AfterFirstOnly == "check"   \* mutant: takes it once
AfterFirst == "second"

Take ==
    /\ pc \in {"first", "second"} /\ sem > 0
    /\ sem' = sem - 1
    /\ pc' = IF pc = "first" THEN AfterFirst ELSE "check"
    /\ waited' = TRUE
    /\ UNCHANGED <<call, n, error, failed, hw, ghost>>

\* 200 ms go by without an interrupt.
GivesUp == "slow" \in Faults \/ (sdio # "running" /\ dma # "running")

WaitAgain == pc   \* mutant: waits until the interrupt comes
AfterTimeout == "check"

Timeout ==
    /\ pc \in {"first", "second"} /\ sem = 0
    /\ GivesUp
    /\ waited' = FALSE
    /\ pc' = AfterTimeout
    /\ UNCHANGED <<call, n, sem, error, failed, hw, ghost>>

\* The error that a transfer returns after its wait: SD_ReadBlock returns
\* TransferError only, SD_ReadMultiBlocks also the failure of the wait.
NotReported == ~waited   \* mutant: TransferError is not looked at
Reported == error \/ (call.dir = "read" /\ ~Single(call) /\ ~waited)

\* What the transfer was for has happened.
Moved == sdio = "ended" /\ dma = "ended" /\ ~error

Check ==
    /\ pc = "check"
    /\ failed' = Reported
    /\ complete' = (complete /\ Moved)
    /\ pc' = IF call.dir = "write" /\ ~Reported THEN "program" ELSE "next"
    /\ UNCHANGED <<call, n, sem, error, waited, hw, faulty>>

\* IsCardProgramming, again and again until the card is ready; what the wait
\* has returned is overwritten.
Programmed ==
    /\ pc = "program" /\ ~gone /\ ~busy
    /\ pc' = "next"
    /\ UNCHANGED <<call, n, sem, error, waited, failed, hw, ghost>>

StatusFails ==
    /\ pc = "program"
    /\ gone \/ "command" \in Faults
    /\ failed' = TRUE /\ faulty' = TRUE
    /\ pc' = "next"
    /\ UNCHANGED <<call, n, sem, error, waited, hw, complete>>

\* The next sector of an unaligned call, whatever became of this one.
More == n + 1 < Transfers(call)

NextSector ==
    /\ pc = "next"
    /\ n' = n + 1
    /\ pc' = IF More THEN "setup" ELSE "idle"
    /\ sdio' = IF More THEN "off" ELSE sdio
    /\ UNCHANGED <<call, sem, error, waited, failed, dma, gone, busy, ghost>>

(***************************************************************************)
(* The interrupts and the card                                             *)
(***************************************************************************)

\* xSemaphoreGiveFromISR on a counting semaphore for at most 2.
Given == IF sem < 2 THEN sem + 1 ELSE 2

\* SD_ProcessIRQSrc at the end of the data.  A transfer of several sectors is
\* stopped with a command, which may fail.
DataEnd ==
    /\ sdio = "running" /\ ~gone
    /\ sdio' = "ended"
    /\ \/ error' = FALSE /\ UNCHANGED faulty
       \/ ~Single(call) /\ "command" \in Faults /\ error' = TRUE /\ faulty' = TRUE
    /\ sem' = Given
    /\ UNCHANGED <<call, pc, n, waited, failed, dma, gone, busy, complete>>

\* SD_ProcessIRQSrc on an error of the data path gives nothing.  A DMA that
\* is not over will not be.
DataError ==
    /\ sdio = "running" /\ ~gone /\ "data" \in Faults
    /\ sdio' = "off" /\ dma' = IF dma = "running" THEN "off" ELSE dma
    /\ error' = TRUE /\ faulty' = TRUE
    /\ UNCHANGED <<call, pc, n, sem, waited, failed, gone, busy, complete>>

\* DMA2_Stream3_IRQHandler.
DmaEnd ==
    /\ dma = "running" /\ sdio # "off"
    /\ dma' = "ended"
    /\ sem' = Given
    /\ UNCHANGED <<call, pc, n, error, waited, failed, sdio, gone, busy, ghost>>

\* The card is pulled out: the data path waits for longer than the task.
PullOut ==
    /\ ~gone /\ "gone" \in Faults
    /\ gone' = TRUE
    /\ sdio' = IF sdio = "running" THEN "off" ELSE sdio
    /\ dma' = IF sdio = "running" /\ dma = "running" THEN "off" ELSE dma
    /\ UNCHANGED <<call, pc, n, sem, error, waited, failed, busy, ghost>>

\* The card has written what it has received.
Ready ==
    /\ busy /\ sdio # "running"
    /\ busy' = FALSE
    /\ UNCHANGED <<call, pc, n, sem, error, waited, failed, sdio, dma, gone, ghost>>

-----------------------------------------------------------------------------
Task ==
    \/ CommandFails \/ Start \/ Take \/ Timeout \/ Check
    \/ Programmed \/ StatusFails \/ NextSector
Hardware == DataEnd \/ DataError \/ DmaEnd

Next == Task \/ Hardware \/ PullOut \/ Ready \/ \E c \in Calls : Call(c)

Spec == Init /\ [][Next]_vars

\* The steps that the task takes whenever it gets the processor: nothing
\* obliges a command to fail, nor the card to become ready.
Proceeds ==
    \/ Start \/ Take \/ Timeout \/ Check \/ Programmed \/ NextSector
    \/ (Refused /\ CommandFails) \/ (gone /\ StatusFails)

\* The task gets the processor; a data path and a DMA that were started end,
\* with an error or without, or are stopped by the removal of the card.
LiveSpec == Spec /\ WF_vars(Proceeds) /\ WF_vars(Hardware)

(***************************************************************************)
(* Properties                                                              *)
(***************************************************************************)

\* A call that returns SD_OK has moved all of its data: the buffer holds what
\* is on the card, or the card what is in the buffer.  Not so the call that
\* moves its sectors one by one, which returns the result of the last one, and
\* SD_ReadBlock, which does not look at its wait, when the card is pulled out.
OkMeansComplete ==
    pc = "idle" /\ ~failed /\ Transfers(call) = 1 =>
        complete \/ (call.dir = "read" /\ Single(call) /\ gone)

\* An error that the hardware has reported during a call of one transfer is
\* returned by it, whatever interrupt or command has reported it.
ErrorIsReturned == pc = "idle" /\ faulty /\ Transfers(call) = 1 => failed

\* Each transfer consumes the interrupts it has caused: none is left for the
\* next one, which would return before its data has arrived.
NoInterruptLeft == pc \in {"idle", "setup"} => sem = 0

\* Every call returns, unless the card stays busy in its slot for ever: no
\* other failure holds the mutex under which every call is made.
CallsReturn ==
    []<>(~busy \/ gone) => (pc # "idle" ~> pc = "idle")
=============================================================================
