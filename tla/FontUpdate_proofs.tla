-------------------------- MODULE FontUpdate_proofs --------------------------
(***************************************************************************)
(* Proofs about FontUpdate: for every layout of the pieces in the sectors,  *)
(* accepted fonts are complete and stay so, and an update writes erased     *)
(* flash only.                                                             *)
(***************************************************************************)
EXTENDS FontUpdate, TLAPS

\* The task that updates runs only while no fonts are accepted.
UpdatesWhenNeeded ==
    /\ pc = "task" => need = ~Accepted(flash[0])
    /\ pc \in {"card", "check", "erase", "read", "write", "header", "failed"} =>
           ~Accepted(flash[0])

\* The sectors before the next one to erase are erased.
ErasedSoFar ==
    pc = "erase" => \A p \in Pieces : SectorOf[p] < sector => flash[p] = "erased"

\* The pieces before the next one to write are written, the others and the
\* header are erased.
WrittenSoFar ==
    pc \in {"read", "write", "header"} =>
        /\ flash[0] = "erased"
        /\ \A p \in Data : flash[p] = IF p < piece THEN "good" ELSE "erased"

\* There is a piece left to write, or none.
PieceLeft ==
    /\ pc = "write" => piece <= Last
    /\ pc = "header" => piece > Last
    /\ pc = "erase" => piece = 1

\* The inductive invariant.
Inv ==
    /\ TypeOK
    /\ UpdatesWhenNeeded
    /\ ErasedSoFar
    /\ WrittenSoFar
    /\ PieceLeft
    /\ AcceptedMeansComplete
    /\ NoScratch

\* The first boot finds nothing it could accept.
LEMMA InitInv == Init => Inv
<1> SUFFICES ASSUME Init PROVE Inv
  OBVIOUS
<1> USE LayoutAssumption DEF Init, Pieces, Data
<1>1. TypeOK
  <2>1. need \in BOOLEAN /\ steady \in BOOLEAN
    BY Zenon
  <2> QED
    BY <2>1 DEF TypeOK, Contents
<1>2. ~Accepted(flash[0])
  BY DEF Accepted
<1> QED
  BY <1>1, <1>2 DEF Inv, UpdatesWhenNeeded, ErasedSoFar, WrittenSoFar, PieceLeft,
     AcceptedMeansComplete, NoScratch

\* What a power cut leaves: an accepted header was already there, or was the
\* last thing to be written.
LEMMA CutInv == Inv /\ PowerCut => Inv'
<1> SUFFICES ASSUME Inv, PowerCut PROVE Inv'
  OBVIOUS
<1> USE LayoutAssumption DEF Pieces, Data
<1>1. /\ flash' \in [Pieces -> Contents] /\ pc' = "off"
      /\ sector' = 0 /\ piece' = 1 /\ need' = FALSE /\ steady' = steady
      /\ \A p \in Pieces : flash'[p] \in Interrupted(p)
  BY DEF PowerCut
<1>2. TypeOK'
  <2>1. need' \in BOOLEAN /\ steady' \in BOOLEAN
    BY <1>1, Zenon DEF Inv, TypeOK
  <2> QED
    BY <1>1, <2>1 DEF TypeOK
<1>3. AcceptedMeansComplete'
  <2> SUFFICES ASSUME Accepted(flash'[0]), NEW p \in Data
               PROVE  flash'[p] = "good"
    BY DEF AcceptedMeansComplete
  <2>1. CASE pc = "header"
    <3>1. flash[p] = "good"
      BY <2>1 DEF Inv, WrittenSoFar, PieceLeft, TypeOK
    <3>2. flash'[p] \in {flash[p]}
      BY <1>1, <2>1 DEF Interrupted
    <3> QED
      BY <3>1, <3>2
  <2>2. CASE pc # "header"
    <3>1. Accepted(flash[0])
      <4>1. flash'[0] \in {flash[0], "erased", "junk"}
        BY <1>1, <2>2 DEF Interrupted, Inv, TypeOK
      <4> QED
        BY <4>1 DEF Accepted
    <3>2. pc \notin {"erase", "write", "header"}
      BY <3>1 DEF Inv, UpdatesWhenNeeded
    <3>3. flash'[p] \in {flash[p]}
      BY <1>1, <3>2 DEF Interrupted
    <3> QED
      BY <3>1, <3>3 DEF Inv, AcceptedMeansComplete
  <2> QED
    BY <2>1, <2>2
<1> QED
  BY <1>1, <1>2, <1>3 DEF Inv, UpdatesWhenNeeded, ErasedSoFar, WrittenSoFar, PieceLeft,
     NoScratch

\* Every step of the start-up, of the task and of the power keeps it.
LEMMA NextInv == Inv /\ [Next]_vars => Inv'
<1> SUFFICES ASSUME Inv, [Next]_vars PROVE Inv'
  OBVIOUS
<1> USE LayoutAssumption
    DEF Inv, TypeOK, UpdatesWhenNeeded, ErasedSoFar, WrittenSoFar, PieceLeft,
        AcceptedMeansComplete, NoScratch, Pieces, Data
<1>1. CASE Boot
  BY <1>1 DEF Boot, FontInit
<1>2. CASE StartTask
  BY <1>2 DEF StartTask, MustUpdate
<1>3. CASE CardReady
  BY <1>3 DEF CardReady
<1>4. CASE PreCheck
  BY <1>4 DEF PreCheck
<1>5. CASE EraseSector
  <2>1. flash' \in [0..Last -> Contents]
    BY <1>5 DEF EraseSector, Contents
  <2>2. sector' \in 0..(LastSector + 1)
    BY <1>5 DEF EraseSector, AllErased
  <2>3. ~Accepted(flash'[0])
    BY <1>5 DEF EraseSector, Accepted
  <2>4. \A p \in 0..Last : SectorOf[p] < sector' => flash'[p] = "erased"
    BY <1>5 DEF EraseSector
  <2> QED
    BY <1>5, <2>1, <2>2, <2>3, <2>4 DEF EraseSector
<1>6. CASE EndErase
  <2>1. \A p \in 0..Last : flash[p] = "erased"
    BY <1>6 DEF EndErase, AllErased
  <2> QED
    BY <1>6, <2>1 DEF EndErase
<1>7. CASE ReadBuffer
  BY <1>7 DEF ReadBuffer, AllWritten
<1>8. CASE WritePiece
  <2>1. piece \in 1..Last /\ flash[piece] = "erased"
    BY <1>8 DEF WritePiece
  <2>2. /\ flash' = [flash EXCEPT ![piece] = "good"]
        /\ piece' = piece + 1
        /\ pc' \in {"read", "write"}
        /\ pc' = "write" => piece' <= Last
        /\ UNCHANGED <<need, sector, steady>>
    BY <1>8, <2>1 DEF WritePiece, NeedErase, AllWritten
  <2>3. flash' \in [0..Last -> Contents]
    BY <2>1, <2>2 DEF Contents
  <2>4. flash'[0] = "erased"
    BY <1>8, <2>1, <2>2 DEF WritePiece
  <2>5. \A p \in 1..Last : flash'[p] = IF p < piece' THEN "good" ELSE "erased"
    BY <1>8, <2>1, <2>2 DEF WritePiece
  <2> QED
    BY <2>1, <2>2, <2>3, <2>4, <2>5 DEF Accepted
<1>9. CASE WriteHeader
  <2>1. /\ flash' = [flash EXCEPT ![0] = "good"] /\ pc' = "end" /\ need' = FALSE
        /\ UNCHANGED <<sector, piece, steady>>
    BY <1>9 DEF WriteHeader, NeedErase
  <2>2. \A p \in 1..Last : flash'[p] = "good"
    BY <1>9, <2>1 DEF WriteHeader
  <2> QED
    BY <2>1, <2>2 DEF Contents
<1>10. CASE Fail
  BY <1>10 DEF Fail
<1>11. CASE PowerCut
  BY <1>11, CutInv
<1>12. CASE Settle
  BY <1>12 DEF Settle
<1>13. CASE UNCHANGED vars
  BY <1>13 DEF vars
<1> QED
  BY <1>1, <1>2, <1>3, <1>4, <1>5, <1>6, <1>7, <1>8, <1>9, <1>10, <1>11, <1>12, <1>13
  DEF Next, FontTask, Update

\* The invariant holds whatever the power and the card do.
THEOREM Invariance == Spec => []Inv
<1> QED
  BY InitInv, NextInv, PTL DEF Spec

\* The state of the update keeps its type for every layout.
THEOREM TypeCorrect == Spec => []TypeOK
<1>1. Inv => TypeOK
  BY DEF Inv
<1> QED
  BY <1>1, Invariance, PTL

\* fontupd.c: fonts that font_init accepts are complete.
THEOREM AcceptedAreComplete == Spec => []AcceptedMeansComplete
<1>1. Inv => AcceptedMeansComplete
  BY DEF Inv
<1> QED
  BY <1>1, Invariance, PTL

\* w25q128.c: the path through the scratch pool is not taken for fonts.
THEOREM NoScratchSector == Spec => []NoScratch
<1>1. Inv => NoScratch
  BY DEF Inv
<1> QED
  BY <1>1, Invariance, PTL

\* font_task.c: nothing touches fonts that were accepted.
THEOREM AcceptedStay == Spec => AcceptedIsKept
<1>1. ASSUME Inv, [Next]_vars, Accepted(flash[0])
      PROVE  flash' = flash
  <2>1. pc \notin {"card", "check", "erase", "read", "write", "header", "failed"}
    BY <1>1 DEF Inv, UpdatesWhenNeeded
  <2>2. CASE PowerCut
    <3>1. \A p \in Pieces : flash'[p] = flash[p]
      BY <2>1, <2>2 DEF PowerCut, Interrupted
    <3>2. flash \in [Pieces -> Contents] /\ flash' \in [Pieces -> Contents]
      BY <1>1, <2>2 DEF PowerCut, Inv, TypeOK
    <3> QED
      BY <3>1, <3>2
  <2>3. CASE ~PowerCut
    BY <1>1, <2>1, <2>3
    DEF Next, FontTask, Update, Boot, StartTask, CardReady, PreCheck, EraseSector, EndErase,
        ReadBuffer, WritePiece, WriteHeader, Fail, Settle, vars
  <2> QED
    BY <2>2, <2>3
<1>2. Inv /\ [Next]_vars => [Accepted(flash[0]) => flash' = flash]_vars
  BY <1>1
<1> QED
  BY <1>2, Invariance, PTL DEF Spec, AcceptedIsKept
=============================================================================
