------------------------------- MODULE FileOp -------------------------------
(***************************************************************************)
(* Background copy and delete: the file page of the LVGL task              *)
(* (4-ware/GUI_Unit/file_unit.c) hands a request to FileOp_Task            *)
(* (4-ware/Tasks/fileop_task.c) through the globals g_file_op_*, g_async_* *)
(* and a task notification.                                                *)
(*                                                                         *)
(* The worker has the lowest priority (1): the LVGL task (2) may preempt it *)
(* between any two of its statements and runs until it blocks.  The LVGL    *)
(* task is one sequential program, a pass of Page_Manager_Loop followed by  *)
(* one of lv_timer_handler (at most one click per pass); it can block, and  *)
(* the worker run, only where it takes a mutex: those are its pc values.    *)
(*                                                                         *)
(* Simplifications.                                                        *)
(*  - g_async_src and g_async_dst are allocated and freed together: they   *)
(*    are one block, paths.                                                *)
(*  - op_path is allocated exactly in the two READY modes and is folded    *)
(*    into op_mode; the current path only matters by being "" (drive list, *)
(*    where the buttons are hidden).                                       *)
(*  - do_copy and do_delete walk through at most WORK files and sectors     *)
(*    (a folder is not copied into itself, file_unit.c:202); the files      *)
(*    themselves are not modelled, but a write to the card that fails is    *)
(*    repeated until it succeeds (diskio.c:70).                             *)
(*  - A request needs two free blocks: without them malloc_bsc hangs the    *)
(*    system (malloc.c:78), which the model leaves out.                     *)
(***************************************************************************)
EXTENDS Naturals, FiniteSets

CONSTANTS
    Blocks,   \* blocks of the BSC pool
    NULL,     \* the null pointer
    WORK      \* most steps of an operation

ASSUME BlocksAssumption == NULL \notin Blocks
ASSUME WorkAssumption == WORK \in Nat

VARIABLES
    cmd,        \* g_file_op_cmd: 0 idle, 1 copy, 2 delete
    busy,       \* g_file_op_busy
    done,       \* g_file_op_done
    failed,     \* g_file_op_result # 0
    paths,      \* g_async_src, g_async_dst
    progress,   \* op_progress
    heap,       \* the blocks that are allocated
    notified,   \* value of the worker's task notification
    ui,         \* where the LVGL task is in its pass
    page,       \* the file page exists (file_unit_cont # NULL)
    atRoot,     \* current_path is ""
    opMode,     \* op_mode
    disabled,   \* LV_STATE_DISABLED of the three buttons
    wasBusy,    \* was_busy of Update_File_Unit
    popup,      \* op_win # NULL
    worker,     \* where FileOp_Task is
    workCmd,    \* the command its switch saw
    held,       \* the progress block it has tested and is about to write
    left,       \* how much work is left
    card        \* g_TFcard_inited: a card is in the slot and answers

shared   == <<cmd, busy, done, failed, paths, progress, heap, notified>>
uiOnly   == <<page, atRoot, opMode, disabled, wasBusy, popup>>
workOnly == <<worker, workCmd, held, left>>
vars == <<shared, ui, uiOnly, workOnly, card>>

Modes == {"idle", "copyWaiting", "copyReady", "delWaiting", "delReady"}

\* Which call follows: Page_Manager_Loop, lv_timer_handler, or the rest of
\* op_btn_event_cb after its xTaskNotifyGive.
UiPCs == {"loop", "timer", "reset", "refresh", "buttons"}
WorkerPCs == {"waitCard", "take", "work", "report", "write", "free", "busy", "done", "cmd"}

TypeOK ==
    /\ cmd \in 0..2 /\ workCmd \in 0..2
    /\ busy \in BOOLEAN /\ done \in BOOLEAN /\ failed \in BOOLEAN
    /\ paths \in Blocks \cup {NULL}
    /\ progress \in Blocks \cup {NULL}
    /\ held \in Blocks \cup {NULL}
    /\ heap \subseteq Blocks
    /\ notified \in 0..1
    /\ ui \in UiPCs /\ worker \in WorkerPCs
    /\ page \in BOOLEAN /\ atRoot \in BOOLEAN
    /\ opMode \in Modes
    /\ disabled \in BOOLEAN /\ wasBusy \in BOOLEAN /\ popup \in BOOLEAN
    /\ left \in 0..WORK /\ card \in BOOLEAN

Init ==
    /\ cmd = 0 /\ busy = FALSE /\ done = FALSE /\ failed = FALSE
    /\ paths = NULL /\ progress = NULL /\ heap = {} /\ notified = 0
    /\ ui = "loop"
    /\ page = FALSE /\ atRoot = TRUE /\ opMode = "idle"
    /\ disabled = FALSE /\ wasBusy = FALSE /\ popup = FALSE
    /\ worker = "waitCard" /\ workCmd = 0 /\ held = NULL /\ left = 0
    /\ card = FALSE

(***************************************************************************)
(* Helpers                                                                 *)
(***************************************************************************)

\* update_op_buttons: in the drive list the buttons are hidden and their
\* state is left alone; elsewhere it follows g_file_op_busy.
ButtonStateNoBusy(root) == IF root THEN disabled ELSE FALSE   \* mutant: busy not tested
ButtonState(root) == IF root THEN disabled ELSE busy

\* A click can reach a tool button: the page exists, the buttons are not
\* hidden and LVGL does not ignore them.
Clickable == page /\ ~atRoot /\ ~disabled

\* reset_op_state: the mode, the paths and the progress record.
\* Mutants: without the test of g_file_op_busy; pointers left dangling.
ResetOpStateAlways ==
    /\ opMode' = "idle"
    /\ paths' = NULL /\ progress' = NULL /\ heap' = heap \ {paths, progress}

ResetOpStateDangling ==
    /\ opMode' = "idle"
    /\ heap' = IF busy THEN heap ELSE heap \ {paths, progress}
    /\ UNCHANGED <<paths, progress>>

ResetOpState ==
    /\ opMode' = "idle"
    /\ IF busy
         THEN UNCHANGED <<paths, progress, heap>>
         ELSE /\ paths' = NULL
              /\ progress' = NULL
              /\ heap' = heap \ {paths, progress}

\* op_win after a pass of Update_File_Unit.
PopupNeverClosed(finished) == popup \/ (busy /\ progress # NULL)   \* mutant
PopupAfter(finished) == ~finished /\ (popup \/ (busy /\ progress # NULL))

\* What the worker does after the switch on g_file_op_cmd.
SkipUnknown(c) == IF c # 0 THEN "work" ELSE "take"   \* mutant: default: continue
AfterSwitch(c) == IF c # 0 THEN "work" ELSE "busy"

(***************************************************************************)
(* The LVGL task: Page_Manager_Loop                                        *)
(***************************************************************************)

\* Create_File_Unit: current_path comes from the request or is allocated.
CreateFileUnit ==
    /\ ui = "loop" /\ ~page
    /\ page' = TRUE
    /\ atRoot' \in BOOLEAN
    /\ ResetOpState
    /\ disabled' = (~atRoot' /\ busy)
    /\ ui' = "timer"
    /\ UNCHANGED <<cmd, busy, done, failed, notified, wasBusy, popup, workOnly, card>>

\* Remove_File_Unit: the progress record goes whatever the worker does, the
\* paths only if no operation is active.
RemoveFileUnit ==
    /\ ui = "loop" /\ page
    /\ page' = FALSE
    /\ popup' = FALSE
    /\ opMode' = "idle"
    /\ progress' = NULL
    /\ paths' = IF busy THEN paths ELSE NULL
    /\ heap' = heap \ ({progress} \cup (IF busy THEN {} ELSE {paths}))
    /\ ui' = "timer"
    /\ UNCHANGED <<cmd, busy, done, failed, notified, atRoot, disabled, wasBusy, workOnly, card>>

\* Update_File_Unit: notice that an operation has finished, show the popup of
\* the one that runs, and fall back to the drive list if the drive is gone.
UpdateFileUnit ==
    /\ ui = "loop" /\ page
    /\ LET finished == wasBusy /\ ~busy
       IN /\ done' = (done /\ ~finished)
          /\ progress' = IF finished THEN NULL ELSE progress
          /\ heap' = IF finished THEN heap \ {progress} ELSE heap
          /\ popup' = PopupAfter(finished)
          /\ atRoot' \in {atRoot, TRUE}
          /\ disabled' = IF finished THEN ButtonState(atRoot) ELSE disabled
    /\ wasBusy' = busy
    /\ ui' = "timer"
    /\ UNCHANGED <<cmd, busy, failed, paths, notified, page, opMode, workOnly, card>>

\* Page_Manager_Loop while another page is shown.
OtherPage ==
    /\ ui = "loop" /\ ~page
    /\ ui' = "timer"
    /\ UNCHANGED <<shared, uiOnly, workOnly, card>>

(***************************************************************************)
(* The LVGL task: the clicks lv_timer_handler delivers                     *)
(***************************************************************************)

NoClick ==
    /\ ui = "timer"
    /\ ui' = "loop"
    /\ UNCHANGED <<shared, uiOnly, workOnly, card>>

\* folder_click_event_cb outside the waiting modes and back_click_event_cb.
Navigate ==
    /\ ui = "timer" /\ page
    /\ atRoot' \in BOOLEAN
    /\ disabled' = ButtonState(atRoot')
    /\ ui' = "loop"
    /\ UNCHANGED <<shared, page, opMode, wasBusy, popup, workOnly, card>>

\* intercept_operation: the clicked entry becomes the object of the operation.
ChooseEntry ==
    /\ ui = "timer" /\ page
    /\ \/ opMode = "copyWaiting" /\ opMode' = "copyReady"
       \/ opMode = "delWaiting" /\ opMode' = "delReady"
    /\ disabled' = ButtonState(atRoot)
    /\ ui' = "loop"
    /\ UNCHANGED <<shared, page, atRoot, wasBusy, popup, workOnly, card>>

\* op_btn_event_cb, first click on copy or delete.
StartChoosing ==
    /\ ui = "timer" /\ Clickable
    /\ opMode = "idle"
    /\ opMode' \in {"copyWaiting", "delWaiting"}
    /\ disabled' = ButtonState(atRoot)
    /\ ui' = "loop"
    /\ UNCHANGED <<shared, page, atRoot, wasBusy, popup, workOnly, card>>

\* op_btn_event_cb, the click that cancels: copy again, delete while waiting,
\* or paste into the source itself (reset and redraw, no request).
Cancel ==
    /\ ui = "timer" /\ Clickable
    /\ opMode \in {"copyWaiting", "copyReady", "delWaiting"}
    /\ ResetOpState
    /\ disabled' = ButtonState(atRoot)
    /\ ui' = "loop"
    /\ UNCHANGED <<cmd, busy, done, failed, notified, page, atRoot, wasBusy, popup, workOnly, card>>

\* op_btn_event_cb, paste or confirmed delete, up to xTaskNotifyGive.
Request ==
    /\ ui = "timer" /\ Clickable
    /\ opMode \in {"copyReady", "delReady"}
    /\ \E p, q \in Blocks \ heap :
          /\ p # q
          /\ paths' = p /\ progress' = q
          /\ heap' = heap \cup {p, q}
    /\ cmd' = IF opMode = "copyReady" THEN 1 ELSE 2
    /\ busy' = TRUE
    /\ done' = FALSE
    /\ notified' = notified + 1
    /\ ui' = "reset"
    /\ UNCHANGED <<failed, uiOnly, workOnly, card>>

\* The rest of that handler: reset_op_state, Update_File, update_op_buttons.
\* Each may block on a mutex, and each reads g_file_op_busy again.
AfterRequest ==
    \/ /\ ui = "reset"
       /\ ResetOpState
       /\ ui' = "refresh"
       /\ UNCHANGED <<cmd, busy, done, failed, notified, page, atRoot, disabled,
                      wasBusy, popup, workOnly, card>>
    \/ /\ ui \in {"refresh", "buttons"}
       /\ disabled' = ButtonState(atRoot)
       /\ ui' = IF ui = "refresh" THEN "buttons" ELSE "loop"
       /\ UNCHANGED <<shared, page, atRoot, opMode, wasBusy, popup, workOnly, card>>

(***************************************************************************)
(* FileOp_Task                                                             *)
(***************************************************************************)

\* The Basic task initialises the card that is put into the slot, and gives it
\* up when it is pulled, whatever the worker does.
Card ==
    /\ card' = ~card
    /\ UNCHANGED <<shared, ui, uiOnly, workOnly>>

\* The loop without a time-out at the start: it ends when it sees the card.
CardReady ==
    /\ worker = "waitCard" /\ card
    /\ worker' = "take"
    /\ UNCHANGED <<shared, ui, uiOnly, workCmd, held, left, card>>

\* ulTaskNotifyTake(pdTRUE, ...) and the switch on g_file_op_cmd.
Take ==
    /\ worker = "take" /\ notified > 0
    /\ notified' = 0
    /\ workCmd' = cmd
    /\ worker' = AfterSwitch(cmd)
    /\ failed' = IF cmd # 0 THEN failed ELSE TRUE
    /\ left' \in 0..WORK
    /\ UNCHANGED <<cmd, busy, done, paths, progress, heap, ui, uiOnly, held, card>>

\* do_copy and do_delete: if (op_progress), then a write through it.
TestProgress ==
    /\ worker = "work" /\ left > 0 /\ progress # NULL
    /\ left' = left - 1
    /\ held' = progress
    /\ worker' = "report"
    /\ UNCHANGED <<shared, ui, uiOnly, workCmd, card>>

WriteProgress ==
    /\ worker = "report"
    /\ held' = NULL
    /\ worker' = "work"
    /\ UNCHANGED <<shared, ui, uiOnly, workCmd, left, card>>

\* disk_write on the card: SD_Init and SD_WriteDisk again until it succeeds.
StartWrite ==
    /\ worker = "work" /\ left > 0
    /\ left' = left - 1
    /\ worker' = "write"
    /\ UNCHANGED <<shared, ui, uiOnly, workCmd, held, card>>

EndWrite ==
    /\ worker = "write" /\ card
    /\ worker' = "work"
    /\ UNCHANGED <<shared, ui, uiOnly, workCmd, held, left, card>>

\* All is done, or something has failed.
FinishWork ==
    /\ worker = "work"
    /\ worker' = "free"
    /\ UNCHANGED <<shared, ui, uiOnly, workCmd, held, left, card>>

\* free_bsc of the paths, then g_file_op_result.
FreePaths ==
    /\ worker = "free"
    /\ heap' = heap \ {paths}
    /\ paths' = NULL
    /\ failed' \in BOOLEAN
    /\ worker' = "busy"
    /\ UNCHANGED <<cmd, busy, done, progress, notified, ui, uiOnly, workCmd, held, left, card>>

\* The three stores that end an operation, one preemption point each.
ClearBusy ==
    /\ worker = "busy"
    /\ busy' = FALSE
    /\ worker' = "done"
    /\ UNCHANGED <<cmd, done, failed, paths, progress, heap, notified, ui, uiOnly, workCmd, held, left, card>>

SetDone ==
    /\ worker = "done"
    /\ done' = TRUE
    /\ worker' = "cmd"
    /\ UNCHANGED <<cmd, busy, failed, paths, progress, heap, notified, ui, uiOnly, workCmd, held, left, card>>

ClearCmd ==
    /\ worker = "cmd"
    /\ cmd' = 0
    /\ worker' = "take"
    /\ UNCHANGED <<busy, done, failed, paths, progress, heap, notified, ui, uiOnly, workCmd, held, left, card>>

-----------------------------------------------------------------------------
UiLoop  == CreateFileUnit \/ RemoveFileUnit \/ UpdateFileUnit \/ OtherPage
UiClick == NoClick \/ Navigate \/ ChooseEntry \/ StartChoosing \/ Cancel \/ Request
Ui      == UiLoop \/ UiClick \/ AfterRequest
DoWork  == TestProgress \/ WriteProgress \/ StartWrite \/ EndWrite \/ FinishWork
EndOp   == FreePaths \/ ClearBusy \/ SetDone \/ ClearCmd
Worker  == CardReady \/ Take \/ DoWork \/ EndOp

Next == Ui \/ Worker \/ Card

Spec == Init /\ [][Next]_vars

\* The scheduler runs the LVGL task (time slice of its priority) and, when all
\* others wait, the worker.  Nothing is assumed about the card.
Fairness ==
    /\ WF_vars(Ui)
    /\ WF_vars(Worker)

LiveSpec == Spec /\ Fairness

(***************************************************************************)
(* Properties                                                              *)
(***************************************************************************)

\* The tool buttons react only when no operation is active: between passes no
\* order of clicks, page changes and worker steps leaves them enabled and
\* visible while g_file_op_busy is set (update_op_buttons is called by hand
\* after each change, not by a timer).
ButtonsBlockedWhileBusy ==
    ui \in {"loop", "timer"} /\ Clickable => ~busy

\* While the worker executes a command the globals it works on belong to it:
\* busy is up, the paths are allocated, and no second notification waits.
WorkerOwnsRequest ==
    worker \in {"work", "report", "write", "free"} =>
        /\ busy
        /\ paths \in heap
        /\ cmd = workCmd
        /\ notified = 0

\* The UI never starts an operation, nor frees or replaces the paths, while
\* one is active.
NoOverlappingRequest ==
    [][busy => cmd' \in {cmd, 0} /\ (paths' = paths \/ worker = "free")]_vars

\* What op_progress points to is allocated: no path through reset_op_state,
\* Update_File_Unit and Remove_File_Unit frees it twice or leaves it dangling.
ProgressPointsToLiveBlock == progress # NULL => progress \in heap /\ progress # paths

\* The progress popup is never orphaned: an Update_File_Unit pass has recorded
\* the operation it belongs to, so the next one can close it.
PopupIsTracked == popup => wasBusy /\ page

\* FileOp_Task waits for the card at its start (fileop_task.c:15), and disk_write
\* for a card that was pulled: both without a time-out.  What follows is
\* promised to a user who some day leaves a card in the slot, and to no other.
CardStays == <>[]card

\* A popup is eventually closed, whatever the user and the card did before.
PopupCloses == CardStays => (popup ~> ~popup)

\* An accepted request is eventually finished.
RequestsFinish == CardStays => (busy ~> ~busy)
=============================================================================
