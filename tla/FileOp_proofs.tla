--------------------------- MODULE FileOp_proofs ---------------------------
(***************************************************************************)
(* Proofs about FileOp: the handshake between the file page and FileOp_Task *)
(* for any pool of blocks.                                                 *)
(***************************************************************************)
EXTENDS FileOp, TLAPS

\* A request is notified exactly once: in the phases in which the worker can
\* wait, g_file_op_busy is up just as long as the notification is pending.
Notified ==
    IF worker \in {"waitCard", "take", "done", "cmd"}
      THEN notified = IF busy THEN 1 ELSE 0
      ELSE busy /\ notified = 0

\* While the worker executes a command, it is the command of its request.
Executing ==
    worker \in {"work", "report", "write", "free"} =>
        cmd = workCmd /\ cmd # 0 /\ paths # NULL

\* A command that has not been wiped comes with its paths.
Requested == busy /\ cmd # 0 /\ worker # "busy" => paths # NULL

\* The blocks of a request are allocated and distinct.
BlocksLive ==
    /\ paths # NULL => paths \in heap /\ paths # progress
    /\ progress # NULL => progress \in heap

\* The inductive invariant.
Inv ==
    /\ TypeOK
    /\ Notified
    /\ Executing
    /\ Requested
    /\ BlocksLive
    /\ ButtonsBlockedWhileBusy
    /\ PopupIsTracked

\* The invariant holds after start-up.
LEMMA InitInv == Init => Inv
<1> SUFFICES ASSUME Init PROVE Inv
  OBVIOUS
<1>1. ~busy /\ ~popup /\ ~page
  BY Zenon DEF Init
<1>2. TypeOK
  <2>1. /\ busy \in BOOLEAN /\ done \in BOOLEAN /\ failed \in BOOLEAN
        /\ page \in BOOLEAN /\ atRoot \in BOOLEAN
        /\ disabled \in BOOLEAN /\ wasBusy \in BOOLEAN /\ popup \in BOOLEAN
        /\ card \in BOOLEAN
    BY Zenon DEF Init
  <2> QED
    BY <2>1, WorkAssumption DEF Init, TypeOK, UiPCs, WorkerPCs, Modes
<1>3. Notified /\ Executing /\ Requested /\ BlocksLive
  BY <1>1 DEF Init, Notified, Executing, Requested, BlocksLive
<1>4. ButtonsBlockedWhileBusy /\ PopupIsTracked
  BY <1>1 DEF ButtonsBlockedWhileBusy, PopupIsTracked
<1> QED
  BY <1>2, <1>3, <1>4 DEF Inv

\* Each step preserves it.
LEMMA NextInv == Inv /\ [Next]_vars => Inv'
<1> SUFFICES ASSUME Inv, [Next]_vars PROVE Inv'
  OBVIOUS
<1> USE BlocksAssumption, WorkAssumption
    DEF Inv, TypeOK, Notified, Executing, Requested, BlocksLive, ButtonsBlockedWhileBusy,
        PopupIsTracked, Clickable, UiPCs, WorkerPCs, Modes, shared, uiOnly, workOnly
<1>1. CASE CreateFileUnit
  BY <1>1 DEF CreateFileUnit, ResetOpState
<1>2. CASE RemoveFileUnit
  <2>1. /\ ~page' /\ ~popup' /\ page' \in BOOLEAN /\ popup' \in BOOLEAN
        /\ opMode' = "idle" /\ progress' = NULL /\ ui' = "timer"
        /\ UNCHANGED <<cmd, busy, done, failed, notified, atRoot, disabled, wasBusy,
                       workOnly, card>>
    BY <1>2, Zenon DEF RemoveFileUnit
  <2>2. /\ paths' = IF busy THEN paths ELSE NULL
        /\ heap' = heap \ ({progress} \cup (IF busy THEN {} ELSE {paths}))
    BY <1>2 DEF RemoveFileUnit
  <2>3. TypeOK'
    BY <2>1, <2>2
  <2>4. Notified' /\ Executing' /\ Requested' /\ BlocksLive'
    BY <2>1, <2>2
  <2> QED
    BY <2>1, <2>3, <2>4
<1>3. CASE UpdateFileUnit
  <2> DEFINE finished == wasBusy /\ ~busy
  <2>1. /\ done' \in BOOLEAN /\ disabled' \in BOOLEAN /\ popup' \in BOOLEAN
        /\ atRoot' \in BOOLEAN /\ wasBusy' \in BOOLEAN
    BY <1>3, Zenon DEF UpdateFileUnit, PopupAfter, ButtonState
  <2>2. popup' => wasBusy' /\ page'
    BY <1>3, Zenon DEF UpdateFileUnit, PopupAfter
  <2>3. ~atRoot' /\ ~disabled' /\ page' => ~busy'
    <3>1. CASE finished
      BY <1>3, <3>1 DEF UpdateFileUnit
    <3>2. CASE ~finished
      <4>1. disabled' = disabled
        BY <1>3, <3>2, Zenon DEF UpdateFileUnit
      <4>2. ~atRoot' => ~atRoot
        BY <1>3 DEF UpdateFileUnit
      <4> QED
        BY <1>3, <4>1, <4>2 DEF UpdateFileUnit
    <3> QED
      BY <3>1, <3>2
  <2>4. TypeOK'
    BY <1>3, <2>1 DEF UpdateFileUnit
  <2>5. Notified' /\ Executing' /\ Requested' /\ BlocksLive'
    BY <1>3 DEF UpdateFileUnit
  <2> QED
    BY <2>2, <2>3, <2>4, <2>5
<1>4. CASE OtherPage
  BY <1>4 DEF OtherPage
<1>5. CASE NoClick
  BY <1>5 DEF NoClick
<1>6. CASE Navigate
  BY <1>6 DEF Navigate, ButtonState
<1>7. CASE ChooseEntry
  BY <1>7 DEF ChooseEntry, ButtonState
<1>8. CASE StartChoosing
  BY <1>8 DEF StartChoosing, ButtonState, Clickable
<1>9. CASE Cancel
  BY <1>9 DEF Cancel, ResetOpState, ButtonState, Clickable
<1>10. CASE Request
  <2>1. busy' /\ ~done'
    BY <1>10, Zenon DEF Request
  <2>2. busy' \in BOOLEAN /\ done' \in BOOLEAN
    BY <1>10, Zenon DEF Request
  <2>3. ~busy /\ notified = 0 /\ worker \in {"waitCard", "take", "done", "cmd"}
    BY <1>10 DEF Request, Clickable
  <2> QED
    BY <1>10, <2>1, <2>2, <2>3 DEF Request
<1>11. CASE AfterRequest
  BY <1>11 DEF AfterRequest, ResetOpState, ButtonState
<1>12. CASE CardReady
  BY <1>12 DEF CardReady
<1>13. CASE Take
  <2>1. failed' \in BOOLEAN
    BY <1>13, Zenon DEF Take
  <2>2. busy /\ notified = 1
    BY <1>13 DEF Take
  <2>3. TypeOK'
    <3>1. worker' \in WorkerPCs /\ notified' = 0 /\ workCmd' = cmd
      BY <1>13, Zenon DEF Take, AfterSwitch
    <3>2. /\ UNCHANGED <<cmd, busy, done, paths, progress, heap, ui, uiOnly, held, card>>
          /\ left' \in 0..WORK
      BY <1>13, Zenon DEF Take
    <3> QED
      BY <2>1, <3>1, <3>2
  <2>4. Notified' /\ Executing' /\ Requested' /\ BlocksLive'
    BY <1>13, <2>2 DEF Take, AfterSwitch
  <2>5. ButtonsBlockedWhileBusy' /\ PopupIsTracked'
    BY <1>13 DEF Take
  <2> QED
    BY <2>3, <2>4, <2>5
<1>14. CASE TestProgress
  BY <1>14 DEF TestProgress
<1>15. CASE WriteProgress
  BY <1>15 DEF WriteProgress
<1>16. CASE FinishWork
  BY <1>16 DEF FinishWork
<1>17. CASE FreePaths
  BY <1>17 DEF FreePaths
<1>18. CASE ClearBusy
  <2>1. ~busy' /\ busy' \in BOOLEAN
    BY <1>18, Zenon DEF ClearBusy
  <2> QED
    BY <1>18, <2>1 DEF ClearBusy
<1>19. CASE SetDone
  BY <1>19 DEF SetDone
<1>20. CASE ClearCmd
  BY <1>20 DEF ClearCmd
<1>21. CASE UNCHANGED vars
  BY <1>21 DEF vars
<1>22. CASE StartWrite
  BY <1>22 DEF StartWrite
<1>23. CASE EndWrite
  BY <1>23 DEF EndWrite
<1>24. CASE Card
  <2>1. card' \in BOOLEAN
    BY <1>24, Zenon DEF Card
  <2> QED
    BY <1>24, <2>1 DEF Card
<1> QED
  BY <1>1, <1>2, <1>3, <1>4, <1>5, <1>6, <1>7, <1>8, <1>9, <1>10, <1>11, <1>12, <1>13, <1>14, <1>15, <1>16, <1>17, <1>18, <1>19, <1>20, <1>21, <1>22, <1>23, <1>24
  DEF Next, Ui, UiLoop, UiClick, Worker, DoWork, EndOp

\* The invariant holds in every reachable state.
THEOREM Invariance == Spec => []Inv
<1>1. Init => Inv
  BY InitInv
<1>2. Inv /\ [Next]_vars => Inv'
  BY NextInv
<1> QED
  BY <1>1, <1>2, PTL DEF Spec

\* The globals of the hand-over keep their types; in particular no second
\* notification is ever pending (fileop_task.c:23 takes them all at once).
THEOREM TypeCorrect == Spec => []TypeOK
<1>1. Inv => TypeOK
  BY DEF Inv
<1> QED
  BY <1>1, Invariance, PTL

\* op_btn_event_cb is never reached while an operation runs: the hand-made
\* calls of update_op_buttons suffice.
THEOREM ButtonsAreBlocked == Spec => []ButtonsBlockedWhileBusy
<1>1. Inv => ButtonsBlockedWhileBusy
  BY DEF Inv
<1> QED
  BY <1>1, Invariance, PTL

\* The worker of fileop_task.c owns the paths and the command it works on.
THEOREM RequestIsOwned == Spec => []WorkerOwnsRequest
<1>1. Inv => WorkerOwnsRequest
  BY DEF Inv, Notified, Executing, BlocksLive, WorkerOwnsRequest
<1> QED
  BY <1>1, Invariance, PTL

\* op_progress never dangles, nor is it the block of the paths.
THEOREM ProgressIsLive == Spec => []ProgressPointsToLiveBlock
<1>1. Inv => ProgressPointsToLiveBlock
  BY BlocksAssumption DEF Inv, TypeOK, BlocksLive, ProgressPointsToLiveBlock
<1> QED
  BY <1>1, Invariance, PTL

\* Update_File_Unit can close every popup it has opened.
THEOREM PopupTracked == Spec => []PopupIsTracked
<1>1. Inv => PopupIsTracked
  BY DEF Inv
<1> QED
  BY <1>1, Invariance, PTL

\* The file page neither starts an operation nor touches the paths while one
\* is active.
THEOREM RequestsDoNotOverlap == Spec => NoOverlappingRequest
<1>1. ASSUME Inv, [Next]_vars, busy
      PROVE  cmd' \in {cmd, 0} /\ (paths' = paths \/ worker = "free")
  <2>1. ~Request
    BY <1>1 DEF Inv, ButtonsBlockedWhileBusy, Request
  <2> QED
    BY <1>1, <2>1
    DEF Next, Ui, UiLoop, UiClick, Worker, DoWork, EndOp, vars, shared, uiOnly, workOnly,
        CreateFileUnit, RemoveFileUnit, UpdateFileUnit, OtherPage, NoClick, Navigate,
        ChooseEntry, StartChoosing, Cancel, AfterRequest, ResetOpState, CardReady, Take,
        TestProgress, WriteProgress, StartWrite, EndWrite, Card, FinishWork, FreePaths, ClearBusy, SetDone, ClearCmd
<1>2. Inv /\ [Next]_vars =>
        [busy => cmd' \in {cmd, 0} /\ (paths' = paths \/ worker = "free")]_vars
  BY <1>1
<1> QED
  BY <1>2, Invariance, PTL DEF Spec, NoOverlappingRequest
=============================================================================
