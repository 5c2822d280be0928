--------------------------- MODULE PageUsb_proofs ---------------------------
(***************************************************************************)
(* Proofs about PageManager and UsbTask, the page manager and the task that  *)
(* takes the screen from it for the USB display.                            *)
(*                                                                         *)
(* PageManager, for every graph of pages, every depth of the history and a   *)
(* user who never waits: types, and who may write past page_history_stack,   *)
(* for owners of every priority; for owners above the LVGL task, as that of   *)
(* the USB display is, also that two races are the only way to an underrun,   *)
(* and one of them the only way to a desktop in the middle of the history.   *)
(*                                                                         *)
(* UsbTask, for every set of functions: types, no function left behind, that *)
(* every step of the switch is a step of UsbSlot or leaves it alone, and what *)
(* it takes to run a function that was not initialised.                      *)
(***************************************************************************)
EXTENDS PageManager, UsbTask, TLAPS

-----------------------------------------------------------------------------
(* Types                                                                    *)

LEMMA PageFacts ==
    /\ NONE \notin Remembers /\ START \notin Remembers /\ NONE # START
    /\ {NONE, START} \cap {FILE, MUSIC, DESKTOP} = {}
    /\ DESKTOP \in Remembers /\ DESKTOP \notin AboveDesktop \cup {FILE, MUSIC}
    /\ \A p : p \in Remembers <=> p = DESKTOP \/ p \in AboveDesktop
    /\ \A p : p \in Pages <=> p \in {NONE, START} \/ p \in Remembers
    /\ \A f \in FullScreen : f \in AboveDesktop /\ Origin[f] \in AboveDesktop
    /\ \A p, q : <<p, q>> \in Links =>
          \/ p = START /\ q = DESKTOP
          \/ p \in Remembers /\ q \in Remembers
  BY PagesAssumption DEF Remembers, Pages, AboveDesktop

\* Where Page_Manager_Loop is once it has read next_page_id.
Switching == {"flag", "history", "push", "clear", "commit"}

\* The lock screen is shown, or going to be.
Locked == START \in {current, next} \/ (lvgl \in Switching /\ target = START)

\* Behind the lock screen nothing is remembered, nobody but the loop and the
\* click that unlocks moves, and a switch goes where next_page_id points.  An
\* owner keeps the LVGL task suspended until it resumes it.
Entry ==
    /\ Locked =>
          /\ task = "none" /\ ~chosen /\ count = 0
          /\ current \in {NONE, START} /\ next \in {START, DESKTOP}
          /\ current = NONE => next = START
          /\ lvgl \notin {"push", "pop", "read", "home", "mark"}
          /\ lvgl \in Switching => target = next
    /\ lvgl = "push" => current # NONE /\ target \in AboveDesktop
    /\ task # "none" => owner \in FullScreen
    /\ suspended <=> task \in {"cover", "request", "unback", "active"}

TypeInv == TypeOK /\ Entry

LEMMA InitType == Init => TypeInv
  <1> SUFFICES ASSUME Init PROVE TypeInv
    OBVIOUS
  <1>1. TypeOK
    <2>1. /\ isBack \in BOOLEAN /\ chosen \in BOOLEAN /\ viaMusic \in BOOLEAN
          /\ suspended \in BOOLEAN /\ quiet \in BOOLEAN
      BY Zenon DEF Init
    <2> QED
      BY <2>1, DepthAssumption DEF Init, TypeOK, Pages, LvglSteps, OwnerSteps
  <1>2. Entry
    BY PageFacts DEF Init, Entry, Locked, Switching
  <1> QED BY <1>1, <1>2 DEF TypeInv

\* A push and a decrement, in 16 bits.
LEMMA PushType ==
    ASSUME TypeOK, NEW p \in Remembers, Push(p)
    PROVE  /\ stack' \in [0..(PAGE_HISTORY_MAX_DEPTH - 1) -> {NONE} \cup Remembers]
           /\ count' \in 0..UINT16_MAX /\ fault' \in {"none", "read", "write"}
  BY DepthAssumption DEF TypeOK, Push

LEMMA DecrementType ==
    ASSUME TypeOK, count' = Decrement(count), stack' = stack
    PROVE  /\ count' \in 0..UINT16_MAX
           /\ count # 0 => count' = count - 1
  BY DepthAssumption DEF TypeOK, Decrement

\* What is read from the history is a page, and not the lock screen.
LEMMA ReadType ==
    ASSUME TypeOK, NEW n \in 0..UINT16_MAX, ReadEntry(n)
    PROVE  /\ next' \in Pages /\ (next' = next \/ next' # START)
           /\ fault' \in {"none", "read", "write"}
  BY DepthAssumption, PageFacts DEF TypeOK, ReadEntry

\* The statements of Page_Back after its tests.
LEMMA StatementType ==
    ASSUME TypeOK, NEW at, NEW then, BackStatement(at, then)
    PROVE  /\ next' \in Pages /\ (next' = next \/ next' # START)
           /\ count' \in 0..UINT16_MAX /\ fault' \in {"none", "read", "write"}
           /\ UNCHANGED <<current, stack, isBack>>
           /\ at \in {"pop", "read", "home"} /\ then \in {"read", "mark"}
  <1>1. CASE at = "pop" /\ then = "read"
    BY <1>1, DecrementType DEF BackStatement, TypeOK
  <1>2. CASE at = "read" /\ then = "mark"
    <2>1. ReadEntry(count) /\ count \in 0..UINT16_MAX
      BY <1>2 DEF BackStatement, TypeOK
    <2> QED BY <1>2, <2>1, ReadType DEF BackStatement, TypeOK
  <1>3. CASE at = "home" /\ then = "mark"
    BY <1>3, PageFacts DEF BackStatement, TypeOK
  <1> QED BY <1>1, <1>2, <1>3 DEF BackStatement

\* Page_Back as one step.
LEMMA PageBackType ==
    ASSUME TypeOK, PageBack
    PROVE  /\ next' \in Pages /\ (next' = next \/ next' # START)
           /\ count' \in 0..UINT16_MAX /\ fault' \in {"none", "read", "write"}
           /\ isBack' \in BOOLEAN /\ UNCHANGED <<current, stack>>
  <1>1. isBack' \in BOOLEAN
    BY Zenon DEF PageBack, TypeOK
  <1>2. CASE count > 0
    <2>1. count' = Decrement(count) /\ ReadEntry(Decrement(count)) /\ UNCHANGED <<current, stack>>
      BY <1>2 DEF PageBack
    <2>2. Decrement(count) \in 0..UINT16_MAX
      BY <1>2, DepthAssumption DEF TypeOK, Decrement
    <2> QED BY <1>1, <2>1, <2>2, DecrementType, ReadType
  <1>3. CASE ~(count > 0)
    BY <1>1, <1>3, PageFacts DEF PageBack, TypeOK
  <1> QED BY <1>2, <1>3

\* The steps of Page_Manager_Loop.
LEMMA PageLoopType ==
    ASSUME TypeInv, ~suspended, PageLoop
    PROVE  TypeInv'
  <1> USE DEF TypeInv, nav, loop, music, own, ghost, LvglSteps
  <1>1. CASE ReadNext
    <2>1. TypeOK'
      BY <1>1 DEF ReadNext, TypeOK
    <2>2. Entry'
      BY <1>1 DEF ReadNext, Entry, Locked, Switching
    <2> QED BY <2>1, <2>2
  <1>2. CASE ReadFlag
    <2>1. races' \subseteq {"flag", "pop"}
      BY <1>2 DEF ReadFlag, TypeOK
    <2>2. /\ lvgl' \in {"timer", "clear", "history"}
          /\ UNCHANGED <<current, next, stack, count, isBack, fault, target, events>>
          /\ UNCHANGED <<chosen, viaMusic, suspended, owner, task, quiet>>
      BY <1>2 DEF ReadFlag
    <2>3. TypeOK'
      BY <2>1, <2>2 DEF TypeOK
    <2>4. Entry'
      BY <1>2, <2>2 DEF ReadFlag, Entry, Locked, Switching
    <2> QED BY <2>3, <2>4
  <1>3. CASE CheckHistory
    <2>1. /\ lvgl' \in {"push", "clear"} /\ count' \in {count, 0}
          /\ lvgl' = "push" => current # NONE /\ Remembered(target)
      BY <1>3 DEF CheckHistory
    <2>2. UNCHANGED <<current, next, stack, isBack, fault, loop, music, own, ghost>>
      BY <1>3 DEF CheckHistory
    <2>3. TypeOK'
      BY <2>1, <2>2, DepthAssumption DEF TypeOK
    <2>4. Entry'
      BY <1>3, <2>1, <2>2, PageFacts DEF Entry, Locked, Switching, CheckHistory, Remembered
    <2> QED BY <2>3, <2>4
  <1>4. CASE PushHistory
    <2>1. current \in Remembers
      BY <1>4, PageFacts DEF PushHistory, Entry, Locked, TypeOK
    <2>2. TypeOK'
      BY <1>4, <2>1, PushType DEF PushHistory, TypeOK
    <2>3. Entry'
      BY <1>4, <2>1 DEF PushHistory, Entry, Locked, Switching
    <2> QED BY <2>2, <2>3
  <1>5. CASE ClearFlag
    <2>1. isBack' \in BOOLEAN
      BY <1>5, Zenon DEF ClearFlag
    <2>2. TypeOK'
      BY <1>5, <2>1 DEF ClearFlag, TypeOK
    <2>3. Entry'
      BY <1>5 DEF ClearFlag, Entry, Locked, Switching
    <2> QED BY <2>2, <2>3
  <1>6. CASE Commit
    <2>1. viaMusic' \in BOOLEAN /\ chosen' \in BOOLEAN
      BY <1>6, Zenon DEF Commit
    <2>2. TypeOK'
      BY <1>6, <2>1 DEF Commit, TypeOK
    <2>3. Entry'
      BY <1>6, PageFacts DEF Commit, Entry, Locked, Switching, TypeOK
    <2> QED BY <2>2, <2>3
  <1> QED BY <1>1, <1>2, <1>3, <1>4, <1>5, <1>6 DEF PageLoop

\* The steps of lv_timer_handler, and the user who stops asking for pages.
LEMMA TimerType ==
    ASSUME TypeInv, Own \/ Input \/ GoQuiet
    PROVE  TypeInv'
  <1> USE DEF TypeInv, nav, loop, music, own, ghost, LvglSteps
  <1>1. CASE EndPass
    <2>1. TypeOK'
      BY <1>1 DEF EndPass, TypeOK
    <2>2. Entry'
      BY <1>1 DEF EndPass, Entry, Locked, Switching
    <2> QED BY <2>1, <2>2
  <1>2. CASE Back
    <2>1. /\ events' \in 0..2 /\ lvgl' \in {"pop", "home"}
          /\ count > 0 \/ current \in AboveDesktop
          /\ UNCHANGED <<nav, target, music, own, ghost>>
      BY <1>2 DEF Back, Acts, BackTest, TypeOK
    <2>2. TypeOK'
      BY <2>1 DEF TypeOK
    <2>3. Entry'
      BY <2>1, PageFacts DEF Entry, Locked, Switching, TypeOK
    <2> QED BY <2>2, <2>3
  <1>3. CASE BackStatement(lvgl, lvgl') /\ UNCHANGED <<loop, music, own, ghost>>
    <2>1. TypeOK'
      BY <1>3, StatementType DEF TypeOK
    <2>2. Entry'
      BY <1>3, StatementType DEF Entry, Locked, Switching
    <2> QED BY <2>1, <2>2
  <1>4. CASE /\ lvgl = "mark" /\ isBack' = TRUE /\ lvgl' = "timer"
             /\ UNCHANGED <<current, next, stack, count, fault, loop, music, own, ghost>>
    <2>1. isBack' \in BOOLEAN
      BY <1>4, Zenon
    <2>2. TypeOK'
      BY <1>4, <2>1 DEF TypeOK
    <2>3. Entry'
      BY <1>4 DEF Entry, Locked, Switching
    <2> QED BY <2>2, <2>3
  <1>5. CASE Request
    <2>1. PICK q \in Pages : <<current, q>> \in Links /\ next' = q
      BY <1>5 DEF Request
    <2>2. /\ lvgl = "timer" /\ lvgl' = "unback" /\ events' \in 0..2
          /\ UNCHANGED <<current, stack, count, isBack, fault, target, music, own, ghost>>
      BY <1>5 DEF Request, Acts, TypeOK
    <2>3. TypeOK'
      BY <2>1, <2>2 DEF TypeOK
    <2>4. Entry'
      BY <2>1, <2>2, PageFacts DEF Entry, Locked, Switching
    <2> QED BY <2>3, <2>4
  <1>6. CASE FinishRequest
    <2>1. isBack' \in BOOLEAN
      BY <1>6, Zenon DEF FinishRequest
    <2>2. TypeOK'
      BY <1>6, <2>1 DEF FinishRequest, TypeOK
    <2>3. Entry'
      BY <1>6 DEF FinishRequest, Entry, Locked, Switching
    <2> QED BY <2>2, <2>3
  <1>7. CASE ChooseSong
    <2>1. chosen' \in BOOLEAN
      BY <1>7, Zenon DEF ChooseSong
    <2>2. events' \in 0..2 /\ lvgl = "timer"
      BY <1>7 DEF ChooseSong, Acts, TypeOK
    <2>3. TypeOK'
      BY <1>7, <2>1, <2>2 DEF ChooseSong, TypeOK
    <2>4. Entry'
      BY <1>7, <2>2, PageFacts DEF ChooseSong, Entry, Locked, Switching
    <2> QED BY <2>3, <2>4
  <1>8. CASE Post
    <2>1. PICK f \in FullScreen : Origin[f] = current /\ owner' = f
      BY <1>8 DEF Post
    <2>2. events' \in 0..2 /\ lvgl = "timer"
      BY <1>8 DEF Post, Acts, TypeOK
    <2>3. TypeOK'
      BY <1>8, <2>1, <2>2 DEF Post, TypeOK, OwnerSteps
    <2>4. Entry'
      BY <1>8, <2>1, <2>2, PageFacts DEF Post, Entry, Locked, Switching
    <2> QED BY <2>3, <2>4
  <1>9. CASE Cancel
    <2>1. events' \in 0..2 /\ lvgl = "timer"
      BY <1>9 DEF Cancel, Acts, TypeOK
    <2>2. TypeOK'
      BY <1>9, <2>1 DEF Cancel, TypeOK, OwnerSteps
    <2>3. Entry'
      BY <1>9, <2>1 DEF Cancel, Entry, Locked, Switching
    <2> QED BY <2>2, <2>3
  <1>10. CASE GoQuiet
    <2>1. quiet' \in BOOLEAN
      BY <1>10, Zenon DEF GoQuiet
    <2>2. TypeOK'
      BY <1>10, <2>1 DEF GoQuiet, TypeOK
    <2>3. Entry'
      BY <1>10 DEF GoQuiet, Entry, Locked, Switching
    <2> QED BY <2>2, <2>3
  <1> QED
    BY <1>1, <1>2, <1>3, <1>4, <1>5, <1>6, <1>7, <1>8, <1>9, <1>10 DEF Own, Input, FinishBack

\* The steps of the Music task and of the owner of the screen.
LEMMA OthersType ==
    ASSUME TypeInv, MusicBack \/ Owner
    PROVE  TypeInv'
  <1> USE DEF TypeInv, nav, loop, music, own, ghost, OwnerSteps, BackSteps
  <1>1. CASE MusicBack
    <2>1. chosen' \in BOOLEAN /\ ~chosen' /\ chosen
      BY <1>1, Zenon DEF MusicBack, TypeOK
    <2>2. races' \subseteq {"flag", "pop"}
      BY <1>1 DEF MusicBack, TypeOK
    <2>3. PageBack /\ UNCHANGED <<lvgl, loop, viaMusic, own, quiet>>
      BY <1>1 DEF MusicBack
    <2>4. TypeOK'
      BY <2>1, <2>2, <2>3, PageBackType DEF TypeOK
    <2>5. Entry'
      BY <2>1, <2>3, PageBackType DEF Entry, Locked
    <2> QED BY <2>4, <2>5
  <1>2. CASE TakeScreen
    <2>1. suspended' \in BOOLEAN /\ suspended'
      BY <1>2, Zenon DEF TakeScreen
    <2>2. TypeOK'
      BY <1>2, <2>1 DEF TakeScreen, TypeOK
    <2>3. Entry'
      BY <1>2, <2>1 DEF TakeScreen, Entry, Locked, Switching
    <2> QED BY <2>2, <2>3
  <1>3. CASE Cover
    <2>1. CASE task = "cover"
      <3>1. CASE Remembered(current) /\ Room
        <4>1. current \in Remembers /\ Push(current)
          BY <1>3, <2>1, <3>1, PageFacts DEF Cover, Remembered
        <4>2. /\ task' = "request"
              /\ UNCHANGED <<current, next, isBack, lvgl, loop, music, suspended, owner, ghost>>
          BY <1>3, <2>1 DEF Cover
        <4>3. TypeOK'
          BY <4>1, <4>2, PushType DEF TypeOK
        <4>4. Entry'
          BY <2>1, <4>2 DEF Entry, Locked, Switching
        <4> QED BY <4>3, <4>4
      <3>2. CASE ~(Remembered(current) /\ Room)
        <4>1. task' = "request" /\ UNCHANGED <<nav, lvgl, loop, music, suspended, owner, ghost>>
          BY <1>3, <2>1, <3>2 DEF Cover
        <4>2. TypeOK'
          BY <4>1 DEF TypeOK
        <4>3. Entry'
          BY <2>1, <4>1 DEF Entry, Locked, Switching
        <4> QED BY <4>2, <4>3
      <3> QED BY <3>1, <3>2
    <2>2. CASE task = "request"
      <3>1. /\ next' = owner /\ owner \in FullScreen /\ task' = "unback"
            /\ UNCHANGED <<current, stack, count, isBack, fault, lvgl, loop, music,
                           suspended, owner, ghost>>
        BY <1>3, <2>2 DEF Cover, Entry
      <3>2. TypeOK'
        BY <3>1, PageFacts DEF TypeOK
      <3>3. Entry'
        BY <2>2, <3>1, PageFacts DEF Entry, Locked, Switching
      <3> QED BY <3>2, <3>3
    <2>3. CASE task = "unback"
      <3>1. isBack' \in BOOLEAN
        BY <1>3, <2>3, Zenon DEF Cover
      <3>2. /\ task' = "active"
            /\ UNCHANGED <<current, next, stack, count, fault, lvgl, loop, music,
                           suspended, owner, ghost>>
        BY <1>3, <2>3 DEF Cover
      <3>3. TypeOK'
        BY <3>1, <3>2 DEF TypeOK
      <3>4. Entry'
        BY <2>3, <3>2 DEF Entry, Locked, Switching
      <3> QED BY <3>3, <3>4
    <2> QED BY <1>3, <2>1, <2>2, <2>3 DEF Cover
  <1>4. CASE Resume
    <2>1. suspended' \in BOOLEAN /\ ~suspended'
      BY <1>4, Zenon DEF Resume
    <2>2. TypeOK'
      BY <1>4, <2>1 DEF Resume, TypeOK
    <2>3. Entry'
      BY <1>4, <2>1 DEF Resume, Entry, Locked, Switching
    <2> QED BY <2>2, <2>3
  <1>5. CASE task = "resumed" /\ task' \in BackTest
             /\ UNCHANGED <<nav, lvgl, loop, music, suspended, owner, ghost>>
    <2>1. task' \in {"pop", "home"}
      BY <1>5 DEF BackTest
    <2>2. TypeOK'
      BY <1>5, <2>1 DEF TypeOK
    <2>3. Entry'
      BY <1>5, <2>1 DEF Entry, Locked, Switching
    <2> QED BY <2>2, <2>3
  <1>6. CASE BackStatement(task, task')
             /\ UNCHANGED <<lvgl, loop, music, suspended, owner, ghost>>
    <2>1. TypeOK'
      BY <1>6, StatementType DEF TypeOK
    <2>2. Entry'
      BY <1>6, StatementType DEF Entry, Locked, Switching
    <2> QED BY <2>1, <2>2
  <1>7. CASE OwnerEnds
    <2>1. isBack' \in BOOLEAN
      BY <1>7, Zenon DEF OwnerEnds, TypeOK
    <2>2. /\ UNCHANGED <<current, next, stack, count, fault, lvgl, loop, music, suspended, ghost>>
          /\ task \in {"resumed", "mark"} /\ task' = "none" /\ owner' = NONE
      BY <1>7 DEF OwnerEnds
    <2>3. TypeOK'
      BY <2>1, <2>2 DEF TypeOK
    <2>4. Entry'
      BY <2>2 DEF Entry, Locked, Switching
    <2> QED BY <2>3, <2>4
  <1> QED BY <1>1, <1>2, <1>3, <1>4, <1>5, <1>6, <1>7 DEF Owner, OwnerBack

LEMMA TypeStep == TypeInv /\ [Next]_vars => TypeInv'
  <1>1. TypeInv /\ Next => TypeInv'
    BY PageLoopType, TimerType, OthersType DEF Next, LvglMayRun
  <1>2. TypeInv /\ UNCHANGED vars => TypeInv'
    BY DEF vars, nav, loop, music, own, ghost, TypeInv, TypeOK, Entry, Locked
  <1> QED BY <1>1, <1>2

LEMMA TypeAlways == Spec => []TypeInv
  BY InitType, TypeStep, PTL DEF Spec

\* The variables of the page manager keep their types, for every graph of pages
\* and every owner; in particular the lock screen is never remembered
\* (page_manager.c).
THEOREM TypeCorrect == Spec => []TypeOK
  BY TypeAlways, PTL DEF TypeInv

-----------------------------------------------------------------------------
(* Writes past the end of the history                                       *)

\* The locations of an owner that may have remembered a page, until its pop.
Covering == {"request", "unback", "active", "resumed", "pop"}

\* Whoever is about to push has room, unless an owner has pushed since the test
\* and not gone back yet; what an owner reads without a fault lies inside.
RoomToPush ==
    /\ NoOverrun
    /\ fault = "none" /\ lvgl = "push" /\ task \notin Covering \cup {"read"}
          => count < PAGE_HISTORY_MAX_DEPTH

\* Page_Back lowers the count, if it does anything to it.
LEMMA PageBackCount ==
    ASSUME TypeInv, PageBack
    PROVE  /\ count' <= count
           /\ fault' # "write" \/ fault' = fault
           /\ UNCHANGED <<current, stack>>
  <1>1. CASE count > 0
    BY <1>1, DepthAssumption DEF PageBack, Decrement, ReadEntry, TypeInv, TypeOK
  <1>2. CASE ~(count > 0)
    BY <1>2 DEF PageBack, TypeInv, TypeOK
  <1> QED BY <1>1, <1>2

LEMMA RoomStep ==
    ASSUME TypeInv, RoomToPush, [Next]_vars
    PROVE  RoomToPush'
  <1> USE DEF RoomToPush, NoOverrun, nav, loop, music, own, ghost, Covering, BackSteps
  <1>1. CASE UNCHANGED vars
    BY <1>1 DEF vars
  <1>2. CASE fault = "none" /\ LvglMayRun /\ (PageLoop \/ Own \/ Input)
    <2>1. CASE PushHistory
      <3>1. ~suspended /\ (owner \in AboveLvgl => task \notin BackSteps)
        BY <1>2 DEF LvglMayRun
      <3>2. fault' = "write" => task \in BackSteps /\ owner \notin AboveLvgl
        BY <1>2, <2>1, <3>1 DEF PushHistory, Push, TypeInv, TypeOK, OwnerSteps, Entry
      <3> QED BY <2>1, <3>2 DEF PushHistory
    <2>2. CASE CheckHistory
      BY <1>2, <2>2 DEF CheckHistory, Room
    <2>3. CASE BackStatement(lvgl, lvgl')
              /\ UNCHANGED <<loop, music, own, ghost>>
      BY <1>2, <2>3 DEF BackStatement, ReadEntry
    <2>4. CASE ReadNext \/ ReadFlag \/ ClearFlag \/ Commit
      BY <1>2, <2>4 DEF ReadNext, ReadFlag, ClearFlag, Commit
    <2>5. CASE Back
      BY <1>2, <2>5 DEF Back, BackTest
    <2>6. CASE \/ EndPass \/ Request \/ FinishRequest \/ ChooseSong \/ Post \/ Cancel
               \/ /\ lvgl = "mark" /\ isBack' = TRUE /\ lvgl' = "timer"
                  /\ UNCHANGED <<current, next, stack, count, fault, loop, music, own, ghost>>
      BY <1>2, <2>6 DEF EndPass, Request, FinishRequest, ChooseSong, Post, Cancel, Acts
    <2> QED
      BY <1>2, <2>1, <2>2, <2>3, <2>4, <2>5, <2>6 DEF PageLoop, Own, Input, FinishBack
  <1>3. CASE fault = "none" /\ MusicBack
    <2>1. PageBack /\ UNCHANGED <<lvgl, loop, viaMusic, own, quiet>>
      BY <1>3 DEF MusicBack
    <2>2. count' <= count /\ (fault' # "write" \/ fault' = fault)
      BY <2>1, PageBackCount
    <2>3. count' \in Nat /\ count \in Nat
      BY <2>1, PageBackType, DepthAssumption DEF TypeInv, TypeOK
    <2> QED BY <1>3, <2>1, <2>2, <2>3, DepthAssumption
  <1>4. CASE fault = "none" /\ Owner
    <2>1. CASE TakeScreen
      BY <1>4, <2>1 DEF TakeScreen
    <2>2. CASE Cover
      BY <1>4, <2>2 DEF Cover, Push, Room
    <2>3. CASE Resume
      BY <1>4, <2>3 DEF Resume
    <2>4. CASE task = "resumed" /\ task' \in BackTest
               /\ UNCHANGED <<nav, lvgl, loop, music, suspended, owner, ghost>>
      BY <1>4, <2>4, DepthAssumption DEF BackTest, TypeInv, TypeOK
    <2>5. CASE BackStatement(task, task')
               /\ UNCHANGED <<lvgl, loop, music, suspended, owner, ghost>>
      BY <1>4, <2>5 DEF BackStatement, ReadEntry
    <2>6. CASE OwnerEnds
      BY <1>4, <2>6, DepthAssumption DEF OwnerEnds, BackTest, TypeInv, TypeOK
    <2> QED BY <1>4, <2>1, <2>2, <2>3, <2>4, <2>5, <2>6 DEF Owner, OwnerBack
  <1>5. CASE fault = "none" /\ GoQuiet
    BY <1>5 DEF GoQuiet
  <1> QED BY <1>1, <1>2, <1>3, <1>4, <1>5 DEF Next

LEMMA RoomAlways == Spec => []RoomToPush
  <1>1. Init => RoomToPush
    BY DEF Init, RoomToPush, NoOverrun
  <1> QED BY <1>1, TypeAlways, RoomStep, PTL DEF Spec

\* Only an owner with the priority of the LVGL task lets that task write past
\* the end of page_history_stack, and only between its resume and the end of
\* its Page_Back: the display never does, whatever the user and the Music task do.
THEOREM NeverOverruns == Spec => []NoOverrun
  BY RoomAlways, PTL DEF RoomToPush


-----------------------------------------------------------------------------
(* The desktop, and reads outside of the history: owners above LVGL         *)

Bottom == \A i \in 1..(PAGE_HISTORY_MAX_DEPTH - 1) : stack[i] # DESKTOP

\* The page an owner has remembered and not yet taken back.
Held == IF task \in Covering THEN 1 ELSE 0

\* Below 0 the count leads at once to a read outside.  In the array, nothing is
\* remembered while the desktop is shown or asked for, but the page an owner is
\* about to take back.
TrailCount ==
    /\ \/ count <= PAGE_HISTORY_MAX_DEPTH
       \/ count = UINT16_MAX /\ lvgl = "read"
       \/ count >= UINT16_MAX - 1 /\ task = "read"
    /\ count <= PAGE_HISTORY_MAX_DEPTH =>
          /\ current = DESKTOP /\ lvgl \notin {"clear", "commit"} => count = 0
          /\ target = DESKTOP /\ lvgl \in {"clear", "commit"} => count <= Held
          /\ next = DESKTOP /\ (\/ lvgl = "mark"
                                \/ isBack /\ lvgl \notin {"history", "push", "clear", "unback"})
                => count <= Held
          /\ lvgl = "home" => count <= Held
          /\ task = "home" => count = 0
          /\ task = "mark" /\ next = DESKTOP => count = 0

Trail == "flag" \notin races => Bottom /\ (fault = "none" => TrailCount)

\* Without a race, a task that has tested the count still finds a page, and what it
\* reads was pushed.
Enough ==
    races = {} =>
        /\ fault # "read"
        /\ fault = "none" =>
              /\ count <= PAGE_HISTORY_MAX_DEPTH
              /\ lvgl = "pop" => count >= 1 + Held
              /\ task = "pop" => count >= 1
              /\ lvgl = "read" => count < PAGE_HISTORY_MAX_DEPTH + Held
              /\ task = "read" => count < PAGE_HISTORY_MAX_DEPTH

\* Without a race, every page below the count was pushed, so what is shown is one
\* of the pages.
Pushed ==
    /\ \A i \in 0..(PAGE_HISTORY_MAX_DEPTH - 1) : i < count => stack[i] # NONE
    /\ lvgl \in {"pop", "read"} => stack[0] # NONE
    /\ lvgl = "read" /\ count >= Held => stack[count - Held] # NONE
    /\ task = "read" => stack[count] # NONE

Known ==
    races = {} /\ fault = "none" =>
        /\ Pushed
        /\ next # NONE
        /\ lvgl \in Switching => target # NONE
        /\ current = NONE => Locked

\* The LVGL task does not run from the suspend to the end of the owner's Page_Back.
LEMMA LvglAlone ==
    ASSUME AboveLvgl = FullScreen, TypeInv, LvglMayRun
    PROVE  task \in {"none", "posted"}
  BY DEF TypeInv, TypeOK, Entry, LvglMayRun, OwnerSteps, BackSteps

\* The steps of Page_Manager_Loop.
LEMMA PageLoopTrail ==
    ASSUME AboveLvgl = FullScreen, TypeInv, RoomToPush, Trail, Enough,
           fault = "none", LvglMayRun, PageLoop
    PROVE  Trail' /\ Enough'
  <1>1. task \in {"none", "posted"} /\ task' = task
    BY LvglAlone DEF PageLoop, ReadNext, ReadFlag, CheckHistory, PushHistory,
                     ClearFlag, Commit, own
  <1>2. Held = 0 /\ Held' = 0
    BY <1>1 DEF Held, Covering
  <1> USE <1>1, <1>2, DepthAssumption DEF nav, loop, music, own, ghost, TypeInv, TypeOK
  <1>3. CASE ReadNext
    BY <1>3 DEF ReadNext, Trail, TrailCount, Enough, Bottom
  <1>4. CASE ReadFlag
    <2>1. "flag" \notin races' => "flag" \notin races /\ target = next
      BY <1>4 DEF ReadFlag
    <2>2. races' = {} => races = {}
      BY <1>4 DEF ReadFlag
    <2>3. /\ lvgl = "flag" /\ lvgl' \in {"timer", "clear", "history"}
          /\ lvgl' = "timer" => current = target
          /\ lvgl' = "clear" => isBack
          /\ UNCHANGED <<nav, loop, music, own, quiet>>
      BY <1>4 DEF ReadFlag
    <2>4. Trail'
      BY <2>1, <2>3 DEF Trail, TrailCount, Bottom
    <2>5. Enough'
      BY <2>2, <2>3 DEF Enough
    <2> QED BY <2>4, <2>5
  <1>5. CASE CheckHistory
    <2>1. Trail'
      BY <1>5, PageFacts DEF CheckHistory, Remembered, Room, Trail, TrailCount, Bottom
    <2>2. Enough'
      BY <1>5 DEF CheckHistory, Enough
    <2> QED BY <2>1, <2>2
  <1>6. CASE PushHistory
    <2>1. count < PAGE_HISTORY_MAX_DEPTH /\ Entry
      BY <1>6 DEF PushHistory, RoomToPush, Covering
    <2>2. /\ lvgl = "push" /\ lvgl' = "clear" /\ target \in AboveDesktop
          /\ stack' = [stack EXCEPT ![count] = current] /\ count' = count + 1
          /\ UNCHANGED <<current, next, isBack, fault, loop, music, own, ghost>>
      BY <1>6, <2>1 DEF PushHistory, Push, Entry
    <2>3. "flag" \notin races => count = 0 \/ current # DESKTOP
      BY <2>1, <2>2 DEF Trail, TrailCount
    <2>4. "flag" \notin races => Bottom'
      BY <2>1, <2>2, <2>3 DEF Trail, Bottom
    <2>5. Trail'
      BY <2>1, <2>2, <2>4, PageFacts DEF Trail, TrailCount
    <2>6. Enough'
      BY <2>1, <2>2 DEF Enough
    <2> QED BY <2>5, <2>6
  <1>7. CASE ClearFlag
    <2>1. ~isBack'
      BY <1>7, Zenon DEF ClearFlag
    <2>2. Trail'
      BY <1>7, <2>1 DEF ClearFlag, Trail, TrailCount, Bottom
    <2>3. Enough'
      BY <1>7 DEF ClearFlag, Enough
    <2> QED BY <2>2, <2>3
  <1>8. CASE Commit
    <2>1. Trail'
      BY <1>8 DEF Commit, Trail, TrailCount, Bottom
    <2>2. Enough'
      BY <1>8 DEF Commit, Enough
    <2> QED BY <2>1, <2>2
  <1> QED BY <1>3, <1>4, <1>5, <1>6, <1>7, <1>8 DEF PageLoop

\* The steps of lv_timer_handler, and the user who stops asking for pages.
LEMMA TimerTrail ==
    ASSUME AboveLvgl = FullScreen, TypeInv, Trail, Enough, fault = "none",
           GoQuiet \/ (LvglMayRun /\ (Own \/ Input))
    PROVE  Trail' /\ Enough'
  <1> USE DepthAssumption DEF nav, loop, music, own, ghost, TypeInv, TypeOK
  <1>1. CASE GoQuiet
    BY <1>1 DEF GoQuiet, Trail, TrailCount, Enough, Bottom, Held
  <1>2. CASE LvglMayRun /\ (Own \/ Input)
    <2>1. task \in {"none", "posted"} /\ Held = 0
      BY <1>2, LvglAlone DEF Held, Covering
    <2> USE <2>1
    <2>2. CASE EndPass
      BY <2>2 DEF EndPass, Trail, TrailCount, Enough, Bottom, Held, Covering
    <2>3. CASE Back
      <3>1. /\ lvgl = "timer" /\ lvgl' = (IF count > 0 THEN "pop" ELSE "home")
            /\ UNCHANGED <<nav, target, music, own, ghost>>
        BY <2>3 DEF Back, Acts, BackTest
      <3>2. Trail' /\ Enough'
        BY <3>1 DEF Trail, TrailCount, Enough, Bottom, Held, Covering
      <3> QED BY <3>2
    <2>4. CASE BackStatement(lvgl, lvgl') /\ UNCHANGED <<loop, music, own, ghost>>
      <3>1. CASE lvgl = "pop"
        BY <2>4, <3>1 DEF BackStatement, Decrement, Trail, TrailCount, Enough, Bottom, Held, Covering
      <3>2. CASE lvgl = "read"
        <4>1. /\ lvgl' = "mark" /\ ReadEntry(count)
              /\ UNCHANGED <<current, stack, count, isBack, loop, music, own, ghost>>
          BY <2>4, <3>2 DEF BackStatement
        <4>2. CASE count < PAGE_HISTORY_MAX_DEPTH
          <5>1. next' = stack[count] /\ fault' = "none"
            BY <4>1, <4>2 DEF ReadEntry
          <5>2. Trail'
            BY <3>2, <4>1, <4>2, <5>1 DEF Trail, TrailCount, Bottom, Held, Covering
          <5>3. Enough'
            BY <3>2, <4>1, <4>2, <5>1 DEF Enough, Held, Covering
          <5> QED BY <5>2, <5>3
        <4>3. CASE ~(count < PAGE_HISTORY_MAX_DEPTH)
          <5>1. fault' = "read"
            BY <4>1, <4>3 DEF ReadEntry
          <5> QED BY <3>2, <4>1, <4>3, <5>1 DEF Trail, Enough, Bottom
        <4> QED BY <4>2, <4>3
      <3>3. CASE lvgl = "home"
        BY <2>4, <3>3 DEF BackStatement, Trail, TrailCount, Enough, Bottom, Held, Covering
      <3> QED BY <2>4, <3>1, <3>2, <3>3 DEF BackStatement
    <2>5. CASE /\ lvgl = "mark" /\ isBack' = TRUE /\ lvgl' = "timer"
               /\ UNCHANGED <<current, next, stack, count, fault, loop, music, own, ghost>>
      BY <2>5 DEF Trail, TrailCount, Enough, Bottom, Held, Covering
    <2>6. CASE Request
      BY <2>6 DEF Request, Acts, Trail, TrailCount, Enough, Bottom, Held, Covering
    <2>7. CASE FinishRequest
      <3>1. ~isBack'
        BY <2>7, Zenon DEF FinishRequest
      <3> QED
        BY <2>7, <3>1 DEF FinishRequest, Trail, TrailCount, Enough, Bottom, Held, Covering
    <2>8. CASE ChooseSong
      BY <2>8 DEF ChooseSong, Acts, Trail, TrailCount, Enough, Bottom, Held, Covering
    <2>9. CASE Post \/ Cancel
      BY <2>9 DEF Post, Cancel, Acts, Trail, TrailCount, Enough, Bottom, Held, Covering
    <2> QED
      BY <1>2, <2>2, <2>3, <2>4, <2>5, <2>6, <2>7, <2>8, <2>9 DEF Own, Input, FinishBack
  <1> QED BY <1>1, <1>2

\* The Page_Back of the Music task: between the test and the decrement of another,

\* The Page_Back of the Music task is a race if it comes between the test and the
\* decrement of another; else the other finds what it has tested.
LEMMA MusicTrail ==
    ASSUME TypeInv, Trail, Enough, Known, fault = "none", MusicBack
    PROVE  Trail' /\ Enough' /\ Known'
  <1> USE DepthAssumption DEF nav, loop, music, own, ghost, TypeInv, TypeOK
  <1>1. /\ current = FILE /\ PageBack /\ chosen
        /\ UNCHANGED <<lvgl, loop, viaMusic, own, quiet>>
        /\ races \subseteq races'
        /\ races' = {} => races = {} /\ lvgl # "pop" /\ task # "pop"
    BY DEF MusicBack
  <1>2. FILE \notin {NONE, START, DESKTOP}
    BY PageFacts
  <1>3. Held' = Held /\ Held \in {0, 1} /\ ~Locked
    BY <1>1 DEF Held, Entry
  <1>4. CASE count = 0
    <2>1. /\ next' \in {next, DESKTOP}
          /\ UNCHANGED <<current, stack, count, fault>>
      BY <1>1, <1>4 DEF PageBack
    <2>2. Trail'
      BY <1>1, <1>2, <1>3, <1>4, <2>1 DEF Trail, TrailCount, Bottom
    <2>3. Enough'
      BY <1>1, <1>3, <1>4, <2>1 DEF Enough
    <2>4. Known'
      BY <1>1, <1>2, <1>3, <2>1, PageFacts DEF Known, Pushed, Locked
    <2> QED BY <2>2, <2>3, <2>4
  <1>5. CASE count # 0 /\ count <= PAGE_HISTORY_MAX_DEPTH
    <2>1. /\ count' = count - 1 /\ next' = stack[count - 1]
          /\ UNCHANGED <<current, stack, fault>>
      BY <1>1, <1>5 DEF PageBack, Decrement, ReadEntry
    <2>2. Trail'
      BY <1>1, <1>2, <1>3, <1>5, <2>1 DEF Trail, TrailCount, Bottom
    <2>3. Enough'
      BY <1>1, <1>3, <1>5, <2>1 DEF Enough
    <2>4. races' = {} => /\ Pushed /\ lvgl \notin {"pop"}
                         /\ lvgl \in Switching => target # NONE
      BY <1>1 DEF Known
    <2>5. races' = {} => Pushed'
      BY <1>1, <1>3, <1>5, <2>1, <2>4 DEF Pushed
    <2>6. races' = {} => next' # NONE
      BY <1>5, <2>1, <2>4 DEF Pushed
    <2>7. Known'
      BY <1>1, <1>2, <2>1, <2>4, <2>5, <2>6 DEF Known
    <2> QED BY <2>2, <2>3, <2>7
  <1>6. CASE count > PAGE_HISTORY_MAX_DEPTH
    <2>1. races' # {}
      BY <1>1, <1>6 DEF Enough
    <2>2. "flag" \notin races' => count >= UINT16_MAX - 1
      BY <1>1, <1>6 DEF Trail, TrailCount
    <2>3. "flag" \notin races' => fault' = "read"
      BY <1>1, <1>6, <2>2 DEF PageBack, Decrement, ReadEntry
    <2>4. UNCHANGED stack
      BY <1>1 DEF PageBack
    <2> QED BY <1>1, <2>1, <2>3, <2>4 DEF Trail, Enough, Known, Bottom
  <1> QED BY <1>4, <1>5, <1>6

\* The owner covers the page that is shown, and takes the screen.
LEMMA CoverTrail ==
    ASSUME TypeInv, Trail, Enough, Known, fault = "none", TakeScreen \/ Cover \/ Resume
    PROVE  Trail' /\ Enough' /\ Known'
  <1> USE DepthAssumption DEF nav, loop, music, own, ghost, TypeInv, TypeOK
  <1>1. CASE TakeScreen \/ Resume
    <2>1. /\ <<task, task'>> \in {<<"posted", "cover">>, <<"active", "resumed">>}
          /\ UNCHANGED <<nav, lvgl, loop, music, owner, ghost>>
      BY <1>1 DEF TakeScreen, Resume
    <2>2. Held' = Held
      BY <2>1 DEF Held, Covering
    <2> QED
      BY <2>1, <2>2 DEF Trail, TrailCount, Bottom, Enough, Known, Pushed, Locked
  <1>2. CASE Cover /\ task = "cover"
    <2>1. /\ task' = "request"
          /\ UNCHANGED <<current, next, isBack, lvgl, loop, music, suspended, owner, ghost>>
      BY <1>2 DEF Cover
    <2>2. Held = 0 /\ Held' = 1 /\ (Locked' <=> Locked) /\ ~Locked
      BY <1>2, <2>1 DEF Held, Covering, Locked, Entry
    <2>3. races = {} /\ lvgl = "pop" => current \in AboveDesktop
      BY <1>2, <2>2, PageFacts DEF Known, Enough, Trail, TrailCount, Locked
    <2>4. CASE Remembered(current) /\ Room
      <3>1. /\ current \in AboveDesktop /\ count < PAGE_HISTORY_MAX_DEPTH
            /\ stack' = [stack EXCEPT ![count] = current] /\ count' = count + 1
            /\ UNCHANGED fault
        BY <1>2, <2>4 DEF Cover, Push, Remembered, Room
      <3>2. current \notin {NONE, DESKTOP}
        BY <3>1, PageFacts
      <3>3. Trail'
        BY <2>1, <2>2, <3>1, <3>2 DEF Trail, TrailCount, Bottom
      <3>4. Enough'
        BY <2>1, <2>2, <3>1 DEF Enough
      <3>5. races = {} => Pushed'
        BY <2>1, <2>2, <3>1, <3>2 DEF Known, Pushed
      <3>6. Known'
        BY <2>1, <2>2, <3>1, <3>5 DEF Known
      <3> QED BY <3>3, <3>4, <3>6
    <2>5. CASE ~(Remembered(current) /\ Room)
      <3>1. UNCHANGED <<stack, count, fault>>
        BY <1>2, <2>5 DEF Cover
      <3>2. Trail'
        BY <1>2, <2>1, <2>2, <3>1 DEF Trail, TrailCount, Bottom
      <3>3. Enough'
        BY <2>1, <2>2, <2>3, <2>5, <3>1 DEF Enough, Remembered, Room
      <3>4. races = {} => Pushed'
        BY <1>2, <2>1, <2>2, <3>1 DEF Known, Pushed, Enough
      <3>5. Known'
        BY <2>1, <2>2, <3>1, <3>4 DEF Known
      <3> QED BY <3>2, <3>3, <3>5
    <2> QED BY <2>4, <2>5
  <1>3. CASE Cover /\ task = "request"
    <2>1. /\ task' = "unback" /\ next' = owner
          /\ UNCHANGED <<current, stack, count, isBack, fault, lvgl, loop, music,
                         suspended, owner, ghost>>
      BY <1>3 DEF Cover
    <2>2. Held' = Held /\ next' \in AboveDesktop /\ ~Locked
      BY <1>3, <2>1, PageFacts DEF Held, Covering, Entry
    <2>3. next' \notin {NONE, START, DESKTOP}
      BY <2>2, PageFacts
    <2>4. Trail' /\ Enough'
      BY <1>3, <2>1, <2>2, <2>3 DEF Trail, TrailCount, Bottom, Enough
    <2>5. Known'
      BY <2>1, <2>2, <2>3 DEF Known, Pushed, Locked
    <2> QED BY <2>4, <2>5
  <1>4. CASE Cover /\ task = "unback"
    <2>1. ~isBack'
      BY <1>4, Zenon DEF Cover
    <2>2. /\ task' = "active"
          /\ UNCHANGED <<current, next, stack, count, fault, lvgl, loop, music,
                         suspended, owner, ghost>>
      BY <1>4 DEF Cover
    <2>3. Held' = Held /\ (Locked' <=> Locked)
      BY <1>4, <2>2 DEF Held, Covering, Locked
    <2> QED
      BY <1>4, <2>1, <2>2, <2>3 DEF Trail, TrailCount, Bottom, Enough, Known, Pushed
  <1> QED BY <1>1, <1>2, <1>3, <1>4 DEF Cover

\* The owner's Page_Back takes the page back that it has remembered.
LEMMA OwnerBackTrail ==
    ASSUME TypeInv, Trail, Enough, Known, fault = "none", OwnerBack \/ OwnerEnds
    PROVE  Trail' /\ Enough' /\ Known'
  <1> USE DepthAssumption DEF nav, loop, music, own, ghost, TypeInv, TypeOK
  <1>1. ~Locked
    <2>1. task # "none"
      BY DEF OwnerBack, OwnerEnds, BackStatement
    <2> QED BY <2>1 DEF Entry
  <1>2. CASE task = "resumed" /\ task' \in BackTest
             /\ UNCHANGED <<nav, lvgl, loop, music, suspended, owner, ghost>>
    <2>1. /\ (count > 0 /\ task' = "pop") \/ (count = 0 /\ task' = "home")
          /\ Held = 1 /\ (task' = "pop" => Held' = 1) /\ (task' = "home" => Held' = 0)
      BY <1>2 DEF BackTest, Held, Covering
    <2>2. Trail' /\ Enough'
      BY <1>2, <2>1 DEF Trail, TrailCount, Bottom, Enough
    <2>3. races = {} => Pushed'
      BY <1>2, <2>1 DEF Known, Pushed
    <2>4. Known'
      BY <1>1, <1>2, <2>3 DEF Known, Locked
    <2> QED BY <2>2, <2>4
  <1>3. CASE BackStatement(task, task')
             /\ UNCHANGED <<lvgl, loop, music, suspended, owner, ghost>>
    <2>1. CASE task = "pop"
      <3>1. /\ task' = "read" /\ count' = Decrement(count) /\ Held = 1 /\ Held' = 0
            /\ UNCHANGED <<current, next, stack, isBack, fault, lvgl, loop, music,
                           suspended, owner, ghost>>
        BY <1>3, <2>1 DEF BackStatement, Held, Covering
      <3>2. Trail'
        BY <2>1, <3>1 DEF Decrement, Trail, TrailCount, Bottom
      <3>3. Enough'
        BY <2>1, <3>1 DEF Decrement, Enough
      <3>4. races = {} => count >= 1 /\ count' = count - 1 /\ Pushed
        BY <2>1, <3>1 DEF Decrement, Enough, Known
      <3>5. races = {} => Pushed'
        BY <2>1, <3>1, <3>4 DEF Pushed, Enough
      <3>6. Known'
        BY <1>1, <3>1, <3>5 DEF Known, Locked
      <3> QED BY <3>2, <3>3, <3>6
    <2>2. CASE task = "read"
      <3>1. /\ task' = "mark" /\ ReadEntry(count) /\ Held = 0 /\ Held' = 0
            /\ UNCHANGED <<current, stack, count, isBack, lvgl, loop, music,
                           suspended, owner, ghost>>
        BY <1>3, <2>2 DEF BackStatement, Held, Covering
      <3>2. CASE count < PAGE_HISTORY_MAX_DEPTH
        <4>1. next' = stack[count] /\ fault' = "none"
          BY <3>1, <3>2 DEF ReadEntry
        <4>2. Trail'
          BY <2>2, <3>1, <3>2, <4>1 DEF Trail, TrailCount, Bottom
        <4>3. Enough'
          BY <2>2, <3>1, <3>2, <4>1 DEF Enough
        <4>4. races = {} => next' # NONE /\ Pushed'
          BY <2>2, <3>1, <3>2, <4>1 DEF Known, Pushed
        <4>5. Known'
          BY <1>1, <3>1, <4>1, <4>4 DEF Known, Locked
        <4> QED BY <4>2, <4>3, <4>5
      <3>3. CASE ~(count < PAGE_HISTORY_MAX_DEPTH)
        <4>1. fault' = "read" /\ races # {}
          BY <2>2, <3>1, <3>3 DEF ReadEntry, Enough
        <4> QED BY <3>1, <4>1 DEF Trail, Bottom, Enough, Known
      <3> QED BY <3>2, <3>3
    <2>3. CASE task = "home"
      <3>1. /\ task' = "mark" /\ next' = DESKTOP /\ Held = 0 /\ Held' = 0
            /\ UNCHANGED <<current, stack, count, isBack, fault, lvgl, loop, music,
                           suspended, owner, ghost>>
        BY <1>3, <2>3 DEF BackStatement, Held, Covering
      <3>2. Trail' /\ Enough'
        BY <2>3, <3>1 DEF Trail, TrailCount, Bottom, Enough
      <3>3. Known'
        BY <1>1, <2>3, <3>1, PageFacts DEF Known, Pushed, Locked
      <3> QED BY <3>2, <3>3
    <2> QED BY <1>3, <2>1, <2>2, <2>3 DEF BackStatement
  <1>4. CASE OwnerEnds
    <2>1. /\ UNCHANGED <<current, next, stack, count, fault, lvgl, loop, music, suspended, ghost>>
          /\ task' = "none" /\ Held' = 0 /\ Held \in {0, 1}
          /\ \/ task = "resumed" /\ count = 0 /\ isBack' = isBack
             \/ task = "mark" /\ Held = 0
      BY <1>4 DEF OwnerEnds, BackTest, Held, Covering
    <2>2. Trail' /\ Enough'
      BY <2>1 DEF Trail, TrailCount, Bottom, Enough
    <2>3. Known'
      BY <1>1, <2>1 DEF Known, Pushed, Locked
    <2> QED BY <2>2, <2>3
  <1> QED BY <1>2, <1>3, <1>4 DEF OwnerBack

\* What the LVGL task shows and reads is known, as long as there was no race.
LEMMA LvglKnown ==
    ASSUME AboveLvgl = FullScreen, TypeInv, RoomToPush, Trail, Enough, Known,
           fault = "none", GoQuiet \/ (LvglMayRun /\ (PageLoop \/ Own \/ Input))
    PROVE  Known'
  <1> USE DepthAssumption DEF nav, loop, music, own, ghost, TypeInv, TypeOK
  <1>1. CASE GoQuiet
    BY <1>1 DEF GoQuiet, Known, Pushed, Locked, Held
  <1>2. CASE LvglMayRun /\ (PageLoop \/ Own \/ Input)
    <2>1. task \in {"none", "posted"} /\ Held = 0
      BY <1>2, LvglAlone DEF Held, Covering
    <2> USE <2>1 DEF Held, Covering, Switching
    <2>2. CASE ReadNext \/ ReadFlag
      BY <2>2, PageFacts DEF ReadNext, ReadFlag, Known, Pushed, Locked, Entry
    <2>3. CASE CheckHistory
      BY <2>3, PageFacts DEF CheckHistory, Known, Pushed, Locked, Entry
    <2>4. CASE PushHistory
      <3>1. count < PAGE_HISTORY_MAX_DEPTH /\ current # NONE
        BY <1>2, <2>4 DEF PushHistory, RoomToPush, Entry
      <3>2. /\ lvgl = "push" /\ lvgl' = "clear" /\ target \in AboveDesktop
            /\ stack' = [stack EXCEPT ![count] = current] /\ count' = count + 1
            /\ UNCHANGED <<current, next, isBack, fault, loop, music, own, ghost>>
        BY <2>4, <3>1 DEF PushHistory, Push, Entry
      <3>3. races = {} => Pushed'
        BY <3>1, <3>2 DEF Known, Pushed
      <3> QED BY <3>2, <3>3 DEF Known, Locked
    <2>5. CASE ClearFlag
      BY <2>5 DEF ClearFlag, Known, Pushed, Locked
    <2>6. CASE Commit
      BY <2>6 DEF Commit, Known, Pushed, Locked
    <2>7. CASE EndPass \/ FinishRequest
      BY <2>7 DEF EndPass, FinishRequest, Known, Pushed, Locked
    <2>8. CASE Back
      BY <2>8, PageFacts DEF Back, Acts, BackTest, Known, Pushed, Locked
    <2>9. CASE BackStatement(lvgl, lvgl') /\ UNCHANGED <<loop, music, own, ghost>>
      <3>1. ~Locked
        BY <2>9 DEF BackStatement, Entry
      <3>2. CASE lvgl = "pop"
        <4>1. /\ lvgl' = "read" /\ count' = Decrement(count)
              /\ UNCHANGED <<current, next, stack, isBack, fault, loop, music, own, ghost>>
          BY <2>9, <3>2 DEF BackStatement
        <4>2. races = {} => Pushed'
          BY <3>2, <4>1 DEF Decrement, Enough, Known, Pushed
        <4> QED BY <3>1, <4>1, <4>2 DEF Known, Locked
      <3>3. CASE lvgl = "read"
        <4>1. /\ lvgl' = "mark" /\ ReadEntry(count)
              /\ UNCHANGED <<current, stack, count, isBack, loop, music, own, ghost>>
          BY <2>9, <3>3 DEF BackStatement
        <4>2. races = {} => next' = stack[count] /\ next' # NONE /\ Pushed'
          BY <3>3, <4>1 DEF ReadEntry, Enough, Known, Pushed
        <4> QED BY <3>1, <4>1, <4>2 DEF Known, Locked
      <3>4. CASE lvgl = "home"
        BY <2>9, <3>1, <3>4, PageFacts DEF BackStatement, Known, Pushed, Locked
      <3> QED BY <2>9, <3>2, <3>3, <3>4 DEF BackStatement
    <2>10. CASE /\ lvgl = "mark" /\ isBack' = TRUE /\ lvgl' = "timer"
                /\ UNCHANGED <<current, next, stack, count, fault, loop, music, own, ghost>>
      BY <2>10 DEF Known, Pushed, Locked
    <2>11. CASE Request
      <3>1. PICK q \in Pages : <<current, q>> \in Links /\ next' = q
        BY <2>11 DEF Request
      <3>2. /\ lvgl = "timer" /\ lvgl' = "unback"
            /\ UNCHANGED <<current, stack, count, isBack, fault, target, music, own, ghost>>
        BY <2>11 DEF Request, Acts
      <3>3. next' # NONE /\ current # NONE
        BY <3>1, PageFacts
      <3> QED BY <3>2, <3>3 DEF Known, Pushed
    <2>12. CASE ChooseSong \/ Post \/ Cancel
      BY <2>12 DEF ChooseSong, Post, Cancel, Acts, Known, Pushed, Locked
    <2> QED
      BY <1>2, <2>2, <2>3, <2>4, <2>5, <2>6, <2>7, <2>8, <2>9, <2>10, <2>11, <2>12
         DEF PageLoop, Own, Input, FinishBack
  <1> QED BY <1>1, <1>2

TrailInv == Trail /\ Enough /\ Known

LEMMA TrailStep ==
    ASSUME AboveLvgl = FullScreen, TypeInv, RoomToPush, TrailInv, [Next]_vars
    PROVE  TrailInv'
  <1>1. CASE UNCHANGED vars
    BY <1>1 DEF vars, nav, loop, music, own, ghost, TrailInv, Trail, TrailCount, Bottom,
                Enough, Known, Pushed, Locked, Held
  <1>2. CASE fault = "none" /\ (GoQuiet \/ (LvglMayRun /\ (PageLoop \/ Own \/ Input)))
    BY <1>2, PageLoopTrail, TimerTrail, LvglKnown DEF TrailInv
  <1>3. CASE fault = "none" /\ (MusicBack \/ Owner)
    BY <1>3, MusicTrail, CoverTrail, OwnerBackTrail DEF TrailInv, Owner
  <1> QED BY <1>1, <1>2, <1>3 DEF Next

LEMMA TrailAlways ==
    ASSUME AboveLvgl = FullScreen
    PROVE  Spec => []TrailInv
  <1>1. Init => TrailInv
    <2> SUFFICES ASSUME Init PROVE TrailInv
      OBVIOUS
    <2>1. Trail /\ Enough
      BY PageFacts, DepthAssumption
         DEF Init, Trail, TrailCount, Bottom, Enough, Held, Covering
    <2>2. Known
      BY PageFacts, DepthAssumption DEF Init, Known, Pushed, Locked, Switching
    <2> QED BY <2>1, <2>2 DEF TrailInv
  <1>2. TypeInv /\ RoomToPush /\ TrailInv /\ [Next]_vars => TrailInv'
    BY TrailStep
  <1> QED BY <1>1, <1>2, TypeAlways, RoomAlways, PTL DEF Spec

\* Where every owner of the screen is above the LVGL task, history_count is never
\* decremented below 0, and never leads outside of page_history_stack, but
\* after one of the two races: a Page_Back of the Music task between the test and
\* the decrement of another, and the flag of another request (page_manager.c:136).
THEOREM NeverUnderruns ==
    ASSUME AboveLvgl = FullScreen
    PROVE  Spec => []NoUnderrun
  <1>1. TrailInv => NoUnderrun
    BY DEF TrailInv, Enough, NoUnderrun
  <1> QED BY <1>1, TrailAlways, PTL

\* Under the same hypothesis the desktop is at most at the bottom of the history, as
\* long as the loop has not taken the flag of another request: Back leads to it
\* once (page_manager.c:177).
THEOREM DesktopStaysAtBottom ==
    ASSUME AboveLvgl = FullScreen
    PROVE  Spec => []DesktopOnlyAtBottom
  <1>1. TrailInv => DesktopOnlyAtBottom
    BY DEF TrailInv, Trail, Bottom, DesktopOnlyAtBottom
  <1> QED BY <1>1, TrailAlways, PTL

-----------------------------------------------------------------------------
(* The USB function switch                                                  *)

\* Where the card is while no mass storage is open, and what is open where
\* USB_Task blocks between two functions.
CardIsBack ==
    /\ pc \in {"mount", "pause"} => open = "none"
    /\ ~mounted => open = "USBD_MSC" \/ pc = "mount"

UsbInv == UsbTypeOK /\ NothingStranded /\ CardIsBack

\* Those who only write g_usb_function, g_usb_status or the page leave the switch alone.
Write ==
    /\ requested' \in Choices
    /\ plug' \in {"none", "device", "host"} /\ shown' \in {"none", "device", "host"}
    /\ UNCHANGED <<seen, switch>>

\* What the LVGL task, a function and the cable can do to the variables.
LEMMA WritersWrite ==
    ASSUME UsbTypeOK, UsbWidgets \/ FunctionEnds \/ Cable
    PROVE  Write
  <1> USE DEF Write, UsbTypeOK, Choices
  <1>1. CASE \E f \in Functions : Start(f)
    BY <1>1 DEF Start, Ask
  <1>2. CASE UpdatePage
    BY <1>2 DEF UpdatePage, Ask
  <1>3. CASE StartLog
    BY <1>3 DEF StartLog, Ask
  <1>4. CASE StartCmd
    BY <1>4 DEF StartCmd, Ask
  <1>5. CASE UserEnds
    BY <1>5 DEF UserEnds, Ask
  <1>6. CASE FunctionEnds
    BY <1>6 DEF FunctionEnds, Ask
  <1>7. CASE Cable
    BY <1>7 DEF Cable
  <1> QED
    BY <1>1, <1>2, <1>3, <1>4, <1>5, <1>6, <1>7 DEF UsbWidgets

LEMMA UsbInvInit == UsbInit => UsbInv
  BY DEF UsbInit, UsbInv, UsbTypeOK, NothingStranded, CardIsBack, Choices

\* Every step of USB_Task, every writer and every stutter keeps the invariant.
LEMMA UsbInvStep ==
    ASSUME UsbInv, [UsbNext]_usbVars
    PROVE  UsbInv'
  <1> USE DEF UsbInv, NothingStranded, CardIsBack
  <1>1. CASE Begin
    <2>1. UsbTypeOK' BY <1>1 DEF Begin, Changes, Wanted, Initialise, Run, Unmounted, UsbTypeOK, Choices
    <2>2. NothingStranded' /\ CardIsBack'
      BY <1>1 DEF Begin, Initialise, Run, Unmounted, UsbTypeOK
    <2> QED BY <2>1, <2>2
  <1>2. CASE End
    <2>1. UsbTypeOK' BY <1>2 DEF End, Changes, Wanted, Proceed, Run, UsbTypeOK, Choices
    <2>2. NothingStranded' /\ CardIsBack'
      BY <1>2 DEF End, Proceed, Run, Waits, UsbTypeOK
    <2> QED BY <2>1, <2>2
  <1>3. CASE Stay
    BY <1>3 DEF Stay, Wanted, Changes, UsbTypeOK, Choices, switch
  <1>4. CASE Hang
    BY <1>4 DEF Hang, UsbTypeOK
  <1>5. CASE Close
    <2>1. UsbTypeOK' BY <1>5 DEF Close, Proceed, Run, UsbTypeOK, Choices
    <2>2. NothingStranded' /\ CardIsBack'
      BY <1>5 DEF Close, Proceed, Run, UsbTypeOK
    <2> QED BY <2>1, <2>2
  <1>6. CASE Mount
    <2>1. UsbTypeOK' BY <1>6 DEF Mount, Proceed, Run, UsbTypeOK, Choices
    <2>2. NothingStranded' /\ CardIsBack'
      BY <1>6 DEF Mount, Proceed, Run, UsbTypeOK
    <2> QED BY <2>1, <2>2
  <1>7. CASE Restart
    <2>1. UsbTypeOK' BY <1>7 DEF Restart, Restarted, Initialise, Run, Unmounted, UsbTypeOK, Choices
    <2>2. NothingStranded' /\ CardIsBack'
      BY <1>7 DEF Restart, Initialise, Run, Unmounted, UsbTypeOK
    <2> QED BY <2>1, <2>2
  <1>8. CASE UsbWidgets \/ FunctionEnds \/ Cable
    <2>1. Write BY <1>8, WritersWrite
    <2> QED BY <2>1 DEF Write, UsbTypeOK, switch
  <1>9. CASE UNCHANGED usbVars
    BY <1>9 DEF usbVars, switch, UsbTypeOK
  <1> QED
    BY <1>1, <1>2, <1>3, <1>4, <1>5, <1>6, <1>7, <1>8, <1>9 DEF UsbNext, UsbTask

LEMMA UsbInvAlways == UsbSpec => []UsbInv
  BY UsbInvInit, UsbInvStep, PTL DEF UsbSpec

\* The variables of the switch keep their types (usb_task.c, usb_ctrl_unit.c).
THEOREM UsbTypeCorrect == UsbSpec => []UsbTypeOK
  BY UsbInvAlways, PTL DEF UsbInv

\* Whatever is requested while USB_Task waits in a deinitialisation, a mount or
\* Delay_ms, the function that is initialised is the one that the next change
\* deinitialises.
THEOREM NoFunctionStranded == UsbSpec => []NothingStranded
  BY UsbInvAlways, PTL DEF UsbInv

\* Every step of USB_Task and of its callers is a step of UsbSlot, or none:
\* one function at a time, and the card is mounted again before the next one.
LEMMA SlotStep ==
    ASSUME UsbInv, [UsbNext]_usbVars
    PROVE  [Slot!Next]_(Slot!vars)
  <1> USE DEF UsbInv, NothingStranded, CardIsBack, Slot!vars
  <1>1. CASE Begin
    <2>1. Wanted \in Functions
      BY <1>1 DEF Begin, Changes, Wanted, UsbTypeOK, Choices
    <2>2. Slot!Fill(Wanted)
      BY <1>1, <2>1 DEF Begin, Initialise, Run, Unmounted, UsbTypeOK, Slot!Fill
    <2> QED BY <2>1, <2>2 DEF Slot!Next
  <1>2. CASE End
    <2>1. open' \in {open, "none"} /\ mounted' = mounted
      BY <1>2 DEF End, Proceed, Run
    <2> QED BY <2>1 DEF Slot!Next, Slot!Empty
  <1>3. CASE Stay \/ Hang
    BY <1>3 DEF Stay, Hang, switch
  <1>4. CASE Close
    <2>1. open' = "none" /\ mounted' = mounted
      BY <1>4 DEF Close, Proceed, Run
    <2> QED BY <2>1 DEF Slot!Next, Slot!Empty
  <1>5. CASE Mount
    <2>1. open = "none" /\ open' = "none" /\ mounted'
      BY <1>5 DEF Mount, Proceed, Run
    <2> QED BY <2>1 DEF Slot!Next, Slot!Return
  <1>6. CASE Restart /\ Restarted(requested)
    <2>1. requested \in Functions
      BY <1>6 DEF Restarted, UsbTypeOK, Choices, Device, Host
    <2>2. Slot!Fill(requested)
      BY <1>6, <2>1 DEF Restart, Initialise, Run, Unmounted, UsbTypeOK, Slot!Fill
    <2> QED BY <2>1, <2>2 DEF Slot!Next
  <1>7. CASE Restart /\ ~Restarted(requested)
    BY <1>7 DEF Restart, Run
  <1>8. CASE UsbWidgets \/ FunctionEnds \/ Cable
    <2>1. Write BY <1>8, WritersWrite
    <2> QED BY <2>1 DEF Write, switch
  <1>9. CASE UNCHANGED usbVars
    BY <1>9 DEF usbVars, switch
  <1> QED
    BY <1>1, <1>2, <1>3, <1>4, <1>5, <1>6, <1>7, <1>8, <1>9 DEF UsbNext, UsbTask

\* USB_Task implements one slot for one function and one card, but for the
\* fairness of the abstract specification, which the model checker shows.
THEOREM UsbImplementsSlot == UsbSpec => Slot!Init /\ [][Slot!Next]_(Slot!vars)
  <1>1. UsbInit => Slot!Init
    BY DEF UsbInit, Slot!Init
  <1> QED
    BY <1>1, UsbInvAlways, SlotStep, PTL DEF UsbSpec

\* Until USB_Task loses track, what runs is what is open, and what it goes back
\* to from a deinitialisation is what was requested there.
LEMMA TrackStep ==
    ASSUME UsbInv, [UsbNext]_usbVars, ~misused, misused'
    PROVE  \/ pc \in {"close", "mount"} /\ ~again /\ requested # "none"
           \/ pc = "pause" /\ requested = "USBH_MSC"
  <1>1. CASE Begin \/ Stay \/ Hang
    BY <1>1 DEF Begin, Initialise, Run, Stay, Hang, switch
  <1>2. CASE End
    BY <1>2 DEF End, Proceed, Run
  <1>3. CASE Close \/ Mount
    BY <1>3 DEF Close, Mount, Proceed, Run
  <1>4. CASE Restart
    <2>1. ~Restarted(requested) /\ requested # "none"
      BY <1>4 DEF Restart, Initialise, Run
    <2>2. requested = "USBH_MSC"
      BY <2>1, FunctionsAssumption DEF Restarted, UsbInv, UsbTypeOK, Choices
    <2>3. pc = "pause"
      BY <1>4 DEF Restart
    <2> QED BY <2>2, <2>3
  <1>5. CASE UsbWidgets \/ FunctionEnds \/ Cable
    <2>1. Write BY <1>5, WritersWrite DEF UsbInv
    <2> QED BY <2>1 DEF Write, switch
  <1>6. CASE UNCHANGED usbVars
    BY <1>6 DEF usbVars, switch
  <1> QED BY <1>1, <1>2, <1>3, <1>4, <1>5, <1>6 DEF UsbNext, UsbTask

\* Whatever functions there are and whenever they are requested, a function that was
\* not initialised is run for the first time after a request during the waiting
\* deinitialisation of the last one, or by case 3 with USBH_MSC (usb_task.c:90).
THEOREM TrackIsLostTwice == UsbSpec => LosesTrackTwice
  <1>1. UsbInv /\ [UsbNext]_usbVars
           => [~misused /\ misused' =>
                  \/ pc \in {"close", "mount"} /\ ~again /\ requested # "none"
                  \/ pc = "pause" /\ requested = "USBH_MSC"]_usbVars
    BY TrackStep
  <1> QED BY <1>1, UsbInvAlways, PTL DEF UsbSpec, LosesTrackTwice
=============================================================================
