----------------------------- MODULE PageManager -----------------------------
(***************************************************************************)
(* Page navigation: 4-ware/GUI_Page/page_manager.c and the tasks that call  *)
(* it.                                                                     *)
(*                                                                         *)
(* The LVGL task (priority 2) alternates Page_Manager_Loop and              *)
(* lv_timer_handler, whose key and click callbacks call Page_Back and       *)
(* Page_Request_Switch.  The manager's globals are not protected:           *)
(*  - the Music task (6) calls Page_Back from between any two statements of *)
(*    the others, when a song was chosen in a file page that was opened     *)
(*    from the music page;                                                  *)
(*  - an owner of the screen (Media_Task and Game_Task with the priority of *)
(*    the LVGL task, or the USB task, which is above it) suspends the LVGL  *)
(*    task wherever it is, pushes the current page, requests its own, and   *)
(*    later resumes the LVGL task and calls Page_Back.  From the click that  *)
(*    asks for it to its start the user goes on with the pages as he likes.  *)
(* The task manager has the highest priority, so a suspend or resume that   *)
(* is posted to it has happened when Taskmanager_Ctrl returns.              *)
(*                                                                         *)
(* A step is one statement that reads or writes a global of the manager.    *)
(* The Music task's Page_Back is one step, since nothing preempts it; so is  *)
(* Page_Push_History: between its test and its push only that Page_Back can  *)
(* come, which might as well have come before the test.                     *)
(*                                                                         *)
(* Simplifications: the page interfaces' update callbacks are merged with   *)
(* the clicks that follow them; the song player always plays; one owner at  *)
(* a time; the system stops with an access outside of page_history_stack.   *)
(***************************************************************************)
EXTENDS Naturals

CONSTANTS
    NONE, START, DESKTOP,     \* PAGE_NONE, PAGE_START, PAGE_DESKTOP
    MUSIC, FILE,              \* PAGE_MUSIC, PAGE_FILE
    Managed,                  \* the pages above the desktop that LVGL draws
    FullScreen,               \* PAGE_MEDIA, PAGE_GAME, PAGE_DISPLAY
    Links,                    \* <<p, q>>: a widget of p requests q
    Origin,                   \* the page where the owner of a full-screen page is started
    AboveLvgl,                \* full-screen pages whose owner is above the LVGL task
    MusicPlays,               \* the Music task may go back by itself
    PAGE_HISTORY_MAX_DEPTH

Pages == {NONE, START, DESKTOP} \cup Managed \cup FullScreen
AboveDesktop == Managed \cup FullScreen   \* id > PAGE_DESKTOP

ASSUME PagesAssumption ==
    /\ {NONE, START, DESKTOP} \cap (AboveDesktop \cup {MUSIC, FILE}) = {}
    /\ Managed \cap FullScreen = {}
    /\ NONE \notin {START, DESKTOP} /\ START # DESKTOP
    \* the lock screen leads to the desktop, and no widget leads back to it
    /\ Links \subseteq ({START} \X {DESKTOP}) \cup
                      (({DESKTOP} \cup AboveDesktop) \X ({DESKTOP} \cup Managed))
    /\ Origin \in [FullScreen -> Managed] /\ AboveLvgl \subseteq FullScreen
    /\ MusicPlays \in BOOLEAN

UINT16_MAX == 65535

\* The depth fits into the count with something to spare.
ASSUME DepthAssumption ==
    /\ PAGE_HISTORY_MAX_DEPTH \in Nat /\ UINT16_MAX \in Nat
    /\ 2 <= PAGE_HISTORY_MAX_DEPTH /\ PAGE_HISTORY_MAX_DEPTH + 2 < UINT16_MAX

VARIABLES
    current,    \* current_page_id
    next,       \* next_page_id
    stack,      \* page_history_stack
    count,      \* history_count, 16 bits
    isBack,     \* is_back_action
    fault,      \* page_history_stack was read or written outside of its bounds
    lvgl,       \* where the LVGL task is
    target,     \* target_next_id of Page_Manager_Loop
    events,     \* input events handled in this pass of lv_timer_handler
    chosen,     \* g_file_chosen, for a song
    viaMusic,   \* the current page was entered from the music page
    suspended,  \* the LVGL task is suspended
    owner,      \* the full-screen page whose owner is or will be active, or NONE
    task,       \* where that owner is
    races,      \* history variable: the races that have happened
    quiet       \* the user only presses Back from now on

nav   == <<current, next, stack, count, isBack, fault>>
loop  == <<target, events>>
music == <<chosen, viaMusic>>
own   == <<suspended, owner, task>>
ghost == <<races, quiet>>
vars  == <<nav, lvgl, loop, music, own, ghost>>

LvglSteps == {"loop", "flag", "history", "push", "clear", "commit",
              "timer", "pop", "read", "home", "mark", "unback"}
BackSteps == {"resumed", "pop", "read", "home", "mark"}   \* resume and Page_Back of an owner
OwnerSteps == {"none", "posted", "cover", "request", "unback", "active"} \cup BackSteps

Remembers == {DESKTOP} \cup AboveDesktop   \* never the lock screen

TypeOK ==
    /\ current \in Pages /\ next \in Pages /\ target \in Pages
    /\ stack \in [0..(PAGE_HISTORY_MAX_DEPTH - 1) -> {NONE} \cup Remembers]
    /\ count \in 0..UINT16_MAX /\ isBack \in BOOLEAN
    /\ fault \in {"none", "read", "write"}
    /\ lvgl \in LvglSteps /\ events \in 0..2
    /\ chosen \in BOOLEAN /\ viaMusic \in BOOLEAN
    /\ suspended \in BOOLEAN
    /\ owner \in FullScreen \cup {NONE}
    /\ task \in OwnerSteps
    /\ races \subseteq {"flag", "pop"} /\ quiet \in BOOLEAN

Init ==
    /\ current = NONE /\ next = START     \* Page_Manager_Init
    /\ stack = [i \in 0..(PAGE_HISTORY_MAX_DEPTH - 1) |-> NONE] /\ count = 0
    /\ isBack = FALSE /\ fault = "none"
    /\ lvgl = "loop" /\ target = NONE /\ events = 0
    /\ chosen = FALSE /\ viaMusic = FALSE
    /\ suspended = FALSE /\ owner = NONE /\ task = "none"
    /\ races = {} /\ quiet = FALSE

(***************************************************************************)
(* The operations on the history                                           *)
(***************************************************************************)

\* There is room for another page.
RoomForOneMore == count <= PAGE_HISTORY_MAX_DEPTH   \* mutant: off by one
Room == count < PAGE_HISTORY_MAX_DEPTH

\* A page worth remembering.
Everything(p) == TRUE   \* mutant
Remembered(p) == p \in AboveDesktop

\* page_history_stack[history_count++] = p
Push(p) ==
    IF count < PAGE_HISTORY_MAX_DEPTH
      THEN /\ stack' = [stack EXCEPT ![count] = p]
           /\ count' = count + 1
           /\ UNCHANGED fault
      ELSE fault' = "write" /\ UNCHANGED <<stack, count>>

\* history_count--, in 16 bits
Decrement(n) == IF n = 0 THEN UINT16_MAX ELSE n - 1

\* next_page_id = page_history_stack[history_count]
ReadEntry(n) ==
    IF n < PAGE_HISTORY_MAX_DEPTH
      THEN next' = stack[n] /\ UNCHANGED fault
      ELSE fault' = "read" /\ UNCHANGED next

\* Where Page_Back goes on after its tests: it pops, or asks for the desktop.
BackTestMissing == IF count > 0 THEN {"pop"} ELSE {}   \* mutant: the branch for an empty history is missing
BackNotTested == IF count >= 0 THEN {"pop"} ELSE {"home"}   \* mutant: off by one
BackTest ==
    IF count > 0 THEN {"pop"} ELSE IF current \in AboveDesktop THEN {"home"} ELSE {}

\* The statements of Page_Back after the tests, by a task at location at.
BackStatement(at, then) ==
    \/ /\ at = "pop" /\ then = "read"
       /\ count' = Decrement(count)
       /\ UNCHANGED <<current, next, stack, isBack, fault>>
    \/ /\ at = "read" /\ then = "mark"
       /\ ReadEntry(count)
       /\ UNCHANGED <<current, stack, count, isBack>>
    \/ /\ at = "home" /\ then = "mark"
       /\ next' = DESKTOP
       /\ UNCHANGED <<current, stack, count, isBack, fault>>

\* Page_Back as one step.
PageBack ==
    IF count > 0
      THEN /\ count' = Decrement(count)
           /\ ReadEntry(Decrement(count))
           /\ isBack' = TRUE
           /\ UNCHANGED <<current, stack>>
      ELSE /\ next' = IF current \in AboveDesktop THEN DESKTOP ELSE next
           /\ isBack' = (isBack \/ current \in AboveDesktop)
           /\ UNCHANGED <<current, stack, count, fault>>

(***************************************************************************)
(* Page_Manager_Loop                                                       *)
(***************************************************************************)

ReadNext ==
    /\ lvgl = "loop"
    /\ target' = next
    /\ lvgl' = "flag"
    /\ UNCHANGED <<nav, events, music, own, ghost>>

\* current_is_back only decides the way through the switch.  The flag is that
\* of another request if next_page_id has changed since it was read.
ReadFlag ==
    /\ lvgl = "flag"
    /\ lvgl' = IF current = target THEN "timer" ELSE IF isBack THEN "clear" ELSE "history"
    /\ races' = races \cup (IF target # next THEN {"flag"} ELSE {})
    /\ UNCHANGED <<nav, loop, music, own, quiet>>

CheckHistoryRefuse ==   \* mutant: no switch without room
    /\ lvgl = "history"
    /\ IF Remembered(target)
         THEN lvgl' = (IF Room THEN "push" ELSE "timer") /\ UNCHANGED count
         ELSE count' = 0 /\ lvgl' = "clear"
    /\ UNCHANGED <<current, next, stack, isBack, fault, loop, music, own, ghost>>

CheckHistoryKeep ==   \* mutant: the history is not reset
    /\ lvgl = "history"
    /\ lvgl' = IF Remembered(target) /\ current # NONE /\ Room THEN "push" ELSE "clear"
    /\ UNCHANGED <<nav, loop, music, own, ghost>>

\* A forward switch: remember the page that is left, or forget all of them.
CheckHistory ==
    /\ lvgl = "history"
    /\ IF Remembered(target)
         THEN lvgl' = (IF current # NONE /\ Room THEN "push" ELSE "clear") /\ UNCHANGED count
         ELSE count' = 0 /\ lvgl' = "clear"
    /\ UNCHANGED <<current, next, stack, isBack, fault, loop, music, own, ghost>>

PushHistory ==
    /\ lvgl = "push"
    /\ Push(current)
    /\ lvgl' = "clear"
    /\ UNCHANGED <<current, next, isBack, loop, music, own, ghost>>

ClearFlag ==
    /\ lvgl = "clear"
    /\ isBack' = FALSE
    /\ lvgl' = "commit"
    /\ UNCHANGED <<current, next, stack, count, fault, loop, music, own, ghost>>

\* exit() of the old page, init() of the new one (Create_File_Unit clears
\* g_file_chosen), and current_page_id.
Commit ==
    /\ lvgl = "commit"
    /\ current' = target
    /\ viaMusic' = (current = MUSIC)
    /\ chosen' = (chosen /\ target # FILE)
    /\ lvgl' = "timer"
    /\ UNCHANGED <<next, stack, count, isBack, fault, loop, own, ghost>>

(***************************************************************************)
(* lv_timer_handler: at most two of the Back key and clicks                 *)
(***************************************************************************)

Acts == lvgl = "timer" /\ events < 2 /\ events' = events + 1

EndPass ==
    /\ lvgl = "timer"
    /\ lvgl' = "loop" /\ events' = 0
    /\ UNCHANGED <<nav, target, music, own, ghost>>

\* The Back key, on whatever page: Page_Back up to its tests.
Back ==
    /\ Acts
    /\ lvgl' \in BackTest
    /\ UNCHANGED <<nav, target, music, own, ghost>>

FinishBack ==
    \/ /\ BackStatement(lvgl, lvgl')
       /\ UNCHANGED <<loop, music, own, ghost>>
    \/ /\ lvgl = "mark"
       /\ isBack' = TRUE
       /\ lvgl' = "timer"
       /\ UNCHANGED <<current, next, stack, count, fault, loop, music, own, ghost>>

\* Page_Request_Switch: next_page_id, then the flag.
Request ==
    /\ Acts /\ ~quiet
    /\ \E q \in Pages : <<current, q>> \in Links /\ next' = q
    /\ lvgl' = "unback"
    /\ UNCHANGED <<current, stack, count, isBack, fault, target, music, own, ghost>>

FinishRequest ==
    /\ lvgl = "unback"
    /\ isBack' = FALSE
    /\ lvgl' = "timer"
    /\ UNCHANGED <<current, next, stack, count, fault, loop, music, own, ghost>>

\* file_click_event_cb on a song.
ChooseSong ==
    /\ Acts /\ ~quiet /\ MusicPlays
    /\ current = FILE
    /\ chosen' = TRUE
    /\ UNCHANGED <<nav, lvgl, target, viaMusic, own, ghost>>

\* A film, a game or the USB display is chosen; its owner will start soon.
\* While there is one, the task manager creates no second.
Post ==
    /\ Acts /\ ~quiet
    /\ task = "none"
    /\ \E f \in FullScreen : Origin[f] = current /\ owner' = f
    /\ task' = "posted"
    /\ UNCHANGED <<nav, lvgl, target, music, suspended, ghost>>

\* Another USB function, or none, is chosen before USB_Task has seen the first.
Cancel ==
    /\ Acts /\ ~quiet
    /\ task = "posted" /\ owner \in AboveLvgl /\ Origin[owner] = current
    /\ task' = "none" /\ owner' = NONE
    /\ UNCHANGED <<nav, lvgl, target, music, suspended, ghost>>

GoQuiet ==
    /\ ~quiet
    /\ quiet' = TRUE
    /\ UNCHANGED <<nav, lvgl, loop, music, own, races>>

(***************************************************************************)
(* The other tasks                                                         *)
(***************************************************************************)

\* Music_Task: "from the music page into the file page", and a song chosen.
\* Its Page_Back may come between the test and the decrement of another.
MusicBack ==
    /\ chosen /\ current = FILE /\ viaMusic
    /\ PageBack
    /\ chosen' = FALSE
    /\ races' = races \cup (IF "pop" \in {lvgl, task} THEN {"pop"} ELSE {})
    /\ UNCHANGED <<lvgl, loop, viaMusic, own, quiet>>

\* The owner suspends the LVGL task.
TakeScreen ==
    /\ task = "posted"
    /\ suspended' = TRUE
    /\ task' = "cover"
    /\ UNCHANGED <<nav, lvgl, loop, music, owner, ghost>>

\* Page_Push_History(Page_Get_Current()), then Page_Request_Switch.
Cover ==
    \/ /\ task = "cover"
       /\ task' = "request"
       /\ IF Remembered(current) /\ Room THEN Push(current) ELSE UNCHANGED <<stack, count, fault>>
       /\ UNCHANGED <<current, next, isBack, lvgl, loop, music, suspended, owner, ghost>>
    \/ /\ task = "request"
       /\ next' = owner
       /\ task' = "unback"
       /\ UNCHANGED <<current, stack, count, isBack, fault, lvgl, loop, music,
                      suspended, owner, ghost>>
    \/ /\ task = "unback"
       /\ isBack' = FALSE
       /\ task' = "active"
       /\ UNCHANGED <<current, next, stack, count, fault, lvgl, loop, music,
                      suspended, owner, ghost>>

\* The owner resumes the LVGL task, which may run at once if it has the same
\* priority.
Resume ==
    /\ task = "active"
    /\ suspended' = FALSE
    /\ task' = "resumed"
    /\ UNCHANGED <<nav, lvgl, loop, music, owner, ghost>>

\* Its Page_Back.
OwnerBack ==
    \/ /\ task = "resumed"
       /\ task' \in BackTest
       /\ UNCHANGED <<nav, lvgl, loop, music, suspended, owner, ghost>>
    \/ /\ BackStatement(task, task')
       /\ UNCHANGED <<lvgl, loop, music, suspended, owner, ghost>>

\* Page_Back is over: at once on the desktop, else with the flag.
OwnerEnds ==
    /\ \/ task = "resumed" /\ BackTest = {} /\ UNCHANGED nav
       \/ /\ task = "mark"
          /\ isBack' = TRUE
          /\ UNCHANGED <<current, next, stack, count, fault>>
    /\ task' = "none" /\ owner' = NONE
    /\ UNCHANGED <<lvgl, loop, music, suspended, ghost>>

-----------------------------------------------------------------------------
PageLoop == ReadNext \/ ReadFlag \/ CheckHistory \/ PushHistory \/ ClearFlag \/ Commit
Input    == Back \/ Request \/ ChooseSong \/ Post \/ Cancel
Own      == EndPass \/ FinishBack \/ FinishRequest
Owner    == TakeScreen \/ Cover \/ Resume \/ OwnerBack \/ OwnerEnds

\* The LVGL task has the processor: it is not suspended, and no owner above it
\* is on its way out.
LvglMayRun == ~suspended /\ (owner \in AboveLvgl => task \notin BackSteps)

Next ==
    /\ fault = "none"
    /\ \/ LvglMayRun /\ (PageLoop \/ Own \/ Input)
       \/ MusicBack \/ Owner \/ GoQuiet

Spec == Init /\ [][Next]_vars

\* Every task gets its share of the processor, owners end (the user leaves
\* the film), and a user who only wants to get home presses Back again and
\* again, once the page he sees is the one he asked for.
LiveSpec ==
    /\ Spec
    /\ WF_vars(fault = "none" /\ LvglMayRun /\ (PageLoop \/ Own))
    /\ WF_vars(fault = "none" /\ Owner)
    /\ SF_vars(fault = "none" /\ LvglMayRun /\ quiet /\ next = current /\ events = 0 /\ Back)

(***************************************************************************)
(* Properties                                                              *)
(***************************************************************************)

\* Nothing is written past the end of page_history_stack, although the room is
\* tested before the push and an owner of the screen pushes in between: only
\* an owner with the priority of the LVGL task lets that task push before its
\* own Page_Back.
NoOverrun == fault = "write" => task \in BackSteps /\ owner \notin AboveLvgl

\* history_count is not decremented below 0, unless the Music task has gone back
\* between the test and the decrement of another, or the loop has once taken
\* the flag of another request.
NoUnderrun == fault = "read" => races # {}

\* The way back does not lead through the desktop: it is remembered at the bottom
\* only, since the history is empty whenever it is shown, unless the loop has
\* once taken the flag of another request.
DesktopOnlyAtBottom ==
    "flag" \in races \/ \A i \in 1..(PAGE_HISTORY_MAX_DEPTH - 1) : stack[i] # DESKTOP

\* A requested page is shown, unless another one is requested meanwhile or the
\* system stops.
RequestIsShown == \A p \in Pages : next = p ~> (current = p \/ next # p \/ fault # "none")

\* A user who only presses Back gets to the desktop or the lock screen.
BackLeadsHome == quiet ~> (current \in {START, DESKTOP} \/ fault # "none")
=============================================================================
