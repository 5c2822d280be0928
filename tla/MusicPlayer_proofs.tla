-------------------------- MODULE MusicPlayer_proofs --------------------------
(***************************************************************************)
(* Proofs about MusicPlayer, for any number of songs, whether or not the      *)
(* songs on the card change: types, no leak, and what the DMA sends; and, if   *)
(* they do not change, that the next song is found.                          *)
(***************************************************************************)
EXTENDS MusicPlayer, TLAPS

\* What may be in Music_Status where Music_Task blocks, or at the head.
StatusAt ==
    /\ pc = "delay" => status \in {"Music_None", "Song_Next", "Song_Previous", "Song_Error"}
    /\ pc \in {"wait", "fill"} => status \in {"Song_Playing", "Song_Next", "Song_Previous", "Song_Error"}
    /\ pc = "close" => status \notin {"Music_None", "Music_Init", "Song_Prepare", "Song_Playing"}

\* The song is allocated from the preparation to the cleanup.
Ownership ==
    /\ blocks = IF owned THEN 1 ELSE 0
    /\ pc \in {"open", "wait", "fill"} => owned
    /\ pc \in {"delay", "scan", "clear", "switch", "find", "spin"} => ~owned
    /\ pc = "top" /\ status \in {"Music_None", "Music_Init", "Music_Exit", "Song_Prepare"} => ~owned
    /\ pc = "top" /\ status = "Song_Playing" => owned

\* The list is filled while a song is chosen, and empty when the player is off.
ListFilled ==
    /\ list.name => list.total > 0
    /\ list.format /\ pc # "switch" => list.index < Songs
    /\ owned \/ pc = "close" => list.name /\ list.format
    /\ pc = "delay" \/ (pc = "top" /\ status \in {"Music_None", "Music_Init"}) => ~list.name

\* The stream stops before the buffers go, and runs where Music_Task waits or
\* is about to.
Stream ==
    /\ dma.runs => owned /\ pc \notin {"open", "close"}
    /\ pc \in {"wait", "fill"} => dma.runs
    /\ pc = "top" /\ status = "Song_Playing" => dma.runs

\* Once Music_Task waited for an interrupt, the buffer that was sent is the one
\* it has been or will be told to fill, and only that one may be stale if it
\* waited for the interrupt after that too.
InStep ==
    /\ paced # 0 => /\ done = 1 - dma.buffer
                    /\ (given \/ pc = "fill" \/ done \in fresh)
                    /\ (pc = "fill" => filling = done)
    /\ paced = 2 => dma.buffer \in fresh
    /\ ~dma.runs => paced = 0

\* The inductive invariant.
Inv == TypeOK /\ StatusAt /\ Ownership /\ ListFilled /\ Stream /\ InStep

LEMMA InvInit == Init => Inv
  <1> SUFFICES ASSUME Init PROVE Inv
    OBVIOUS
  <1> USE SongsAssumption DEF Init, NoList, Off
  <1>1. TypeOK
    <2>1. /\ status \in Running \cup {"Music_None", "Music_Init", "Music_Exit"}
          /\ pc \in {"top", "delay", "scan", "clear", "open", "wait", "fill", "close", "switch", "find", "spin"}
          /\ page \in Pages /\ next \in Pages
          /\ seen \in [last : Pages \cup {"none"}, current : Pages \cup {"none"}]
      BY DEF Pages
    <2>2. files \in 0..Songs /\ chosen \in BOOLEAN /\ suspend \in BOOLEAN /\ centre \in BOOLEAN
      OBVIOUS
    <2>3. list \in [name : BOOLEAN, format : BOOLEAN, index : 0..Songs, total : 0..Songs]
      OBVIOUS
    <2>4. dma \in [runs : BOOLEAN, clock : BOOLEAN, buffer : {0, 1}]
      OBVIOUS
    <2>5. blocks \in 0..2 /\ done \in {0, 1} /\ filling \in {0, 1} /\ fresh \subseteq {0, 1} /\ paced \in 0..2
      OBVIOUS
    <2>6. owned \in BOOLEAN /\ given \in BOOLEAN
      OBVIOUS
    <2> HIDE DEF Init
    <2> QED
      BY <2>1, <2>2, <2>3, <2>4, <2>5, <2>6 DEF TypeOK
  <1>2. StatusAt /\ Ownership /\ ListFilled /\ Stream /\ InStep
    BY DEF StatusAt, Ownership, ListFilled, Stream, InStep
  <1> QED
    BY <1>1, <1>2 DEF Inv

\* The user and the card change nothing of the player but its status, and that
\* only where Music_Task blocks.
Command ==
    /\ UNCHANGED <<pc, list, buffers>>
    /\ \/ UNCHANGED status
       \/ pc \notin {"top", "spin"} /\ status' \in {"Song_Next", "Song_Previous", "Song_Error"}

LEMMA UserCommands ==
    ASSUME TypeOK, User
    PROVE  TypeOK' /\ Command
  <1> USE SongsAssumption DEF Command, TypeOK, Blocked, Pages
  <1>1. CASE \E p \in Pages : RequestPage(p)
    BY <1>1 DEF RequestPage, buffers
  <1>2. CASE TurnPage
    BY <1>2 DEF TurnPage, buffers
  <1>3. CASE Skip
    BY <1>3 DEF Skip, user, buffers, Running
  <1>4. CASE Pause
    BY <1>4 DEF Pause, buffers
  <1>5. CASE OpenCentre
    <2>1. centre' \in BOOLEAN
      BY <1>5 DEF OpenCentre
    <2>2. UNCHANGED <<status, pc, page, next, seen, chosen, suspend, files, list, buffers>>
      BY <1>5 DEF OpenCentre
    <2> QED
      BY <2>1, <2>2 DEF buffers
  <1>6. CASE Stop
    <2>1. centre' \in BOOLEAN
      BY <1>6 DEF Stop
    <2>2. /\ pc \notin {"top", "spin"} /\ status' = "Song_Error" /\ next' \in Pages
          /\ UNCHANGED <<pc, page, seen, chosen, suspend, files, list, buffers>>
      BY <1>6 DEF Stop
    <2> QED
      BY <2>1, <2>2 DEF buffers, Running
  <1>7. CASE ChooseFile
    BY <1>7 DEF ChooseFile, buffers
  <1>8. CASE Card
    BY <1>8 DEF Card, buffers
  <1> QED
    BY <1>1, <1>2, <1>3, <1>4, <1>5, <1>6, <1>7, <1>8 DEF User

\* Where a status that the page calls for differs from the one before.
LEMMA PageStatusIs == PageStatus \in {"Song_File", "Music_Exit", status}
  BY DEF PageStatus

LEMMA SeenType == TypeOK => Seen \in [last : Pages \cup {"none"}, current : Pages \cup {"none"}]
  BY DEF TypeOK, Seen

\* The list of a player that is off.
LEMMA NoListIs == /\ NoList \in [name : BOOLEAN, format : BOOLEAN, index : 0..Songs, total : 0..Songs]
                  /\ ~NoList.name /\ ~NoList.format
  BY SongsAssumption DEF NoList

\* The head of the loop keeps the invariant.
LEMMA HeadStep ==
    ASSUME Inv, Head
    PROVE  Inv'
  <1> USE SongsAssumption DEF Inv
  <1>1. CASE TopNone
    BY <1>1 DEF TopNone, TypeOK, StatusAt, Ownership, ListFilled, Stream, InStep, user, buffers
  <1>2. CASE TopInit
    <2> USE DEF TypeOK, StatusAt, Ownership, ListFilled, Stream, InStep, user, buffers
    <2>1. CASE pc' = "scan" /\ UNCHANGED <<status, list>>
      BY <1>2, <2>1 DEF TopInit
    <2>2. CASE status' = "Music_Exit" /\ list' = NoList /\ pc' = pc
      BY <1>2, <2>2, NoListIs DEF TopInit
    <2> QED
      BY <1>2, <2>1, <2>2 DEF TopInit
  <1>3. CASE TopExit
    <2> USE DEF TypeOK, StatusAt, Ownership, ListFilled, Stream, InStep, user, buffers
    <2>1. CASE list.name
      BY <1>3, <2>1 DEF TopExit
    <2>2. CASE ~list.name
      BY <1>3, <2>2, NoListIs DEF TopExit
    <2> QED BY <2>1, <2>2
  <1>4. CASE TopSong
    <2> DEFINE st == PageStatus
    <2>1. st \in {"Song_File", "Music_Exit", status} /\ status' = st /\ status \in Running
      BY <1>4, PageStatusIs DEF TopSong
    <2>2. /\ seen' \in [last : Pages \cup {"none"}, current : Pages \cup {"none"}]
          /\ chosen' \in BOOLEAN /\ next' \in Pages
      BY <1>4, SeenType DEF TopSong, TypeOK, Chosen, Pages
    <2>3. UNCHANGED <<page, suspend, centre, files, list>> /\ pc = "top"
      BY <1>4 DEF TopSong
    <2>4. st = "Music_Exit" => status = "Music_Exit" \/ st # status
      OBVIOUS
    <2> HIDE DEF st
    <2>5. CASE ~Playable
      <3>1. ~owned /\ ~dma.runs
        BY <2>5 DEF Playable, ListFilled, Stream
      <3>2. pc' = (IF st = "Music_Exit" THEN "top" ELSE "spin") /\ UNCHANGED buffers
        BY <1>4, <2>5 DEF TopSong, st
      <3> QED
        BY <2>1, <2>2, <2>3, <3>1, <3>2
        DEF TypeOK, StatusAt, Ownership, ListFilled, Stream, InStep, Running, buffers
    <2>6. CASE Playable
      <3> USE <2>1, <2>2, <2>3, <2>6
          DEF TypeOK, StatusAt, Ownership, ListFilled, Stream, InStep, Running, Playable
      <3>1. Decode(st)
        BY <1>4, <2>6 DEF TopSong, st
      <3>2. CASE st = "Song_Prepare"
        <4>1. /\ pc' = "open" /\ blocks' = blocks + 1 /\ owned' = TRUE
              /\ dma' = [runs |-> FALSE, clock |-> FALSE, buffer |-> 0]
              /\ UNCHANGED <<given, done, filling, fresh, paced>>
          BY <3>1, <3>2 DEF Decode, Off
        <4>2. ~owned /\ ~dma.runs /\ paced = 0
          BY <3>2
        <4> QED
          BY <3>2, <4>1, <4>2
      <3>3. CASE st = "Song_Playing"
        <4>1. pc' = "wait" /\ UNCHANGED buffers
          BY <3>1, <3>3 DEF Decode
        <4> QED
          BY <3>3, <4>1 DEF buffers
      <3>4. CASE st \notin {"Song_Prepare", "Song_Playing"}
        <4>1. /\ pc' = "close" /\ UNCHANGED <<blocks, owned, filling>>
              /\ dma' = [runs |-> FALSE, clock |-> FALSE, buffer |-> 0]
              /\ fresh' = {} /\ paced' = 0
          BY <3>1, <3>4 DEF Decode, Stopped, StopDma, Off
        <4>2. given' \in BOOLEAN /\ done' \in {0, 1}
          BY <3>1, <3>4 DEF Decode, Stopped, FreeBuffer
        <4> QED
          BY <3>4, <4>1, <4>2
      <3> QED BY <3>2, <3>3, <3>4
    <2> QED BY <2>5, <2>6
  <1> QED
    BY <1>1, <1>2, <1>3, <1>4 DEF Head

\* The next song is one of the list, if the list is not empty and the current
\* song is one of the card.
LEMMA FollowingIsASong ==
    ASSUME TypeOK, list.total > 0, list.index < Songs, NEW i \in Following
    PROVE  i \in 0..Songs
  BY SongsAssumption DEF TypeOK, Following, Last

\* The end of each call in which Music_Task blocks keeps the invariant.
LEMMA BlockStep ==
    ASSUME Inv, Block
    PROVE  Inv'
  <1> USE SongsAssumption DEF Inv, TypeOK, StatusAt, Ownership, ListFilled, Stream, InStep, user, buffers
  <1>1. CASE Delay
    BY <1>1 DEF Delay
  <1>2. CASE Scan
    <2>1. /\ list' \in [name : BOOLEAN, format : BOOLEAN, index : 0..Songs, total : 0..Songs]
          /\ list'.name => list'.total > 0
          /\ list'.format => list'.index < Songs
          /\ status' = "Song_Prepare" => list'.name /\ list'.format
          /\ status' \in {"Music_Exit", "Song_Prepare"}
      BY <1>2, NoListIs DEF Scan, AfterScan
    <2> QED
      BY <1>2, <2>1 DEF Scan, Running
  <1>3. CASE Clear
    BY <1>3, NoListIs DEF Clear
  <1>4. CASE Open
    <2>1. /\ pc = "open" /\ pc' = "top" /\ paced' = 0
          /\ status' \in {"Song_Playing", "Song_End", "Song_Next"}
          /\ UNCHANGED <<user, list, blocks, owned, given, done, filling>>
      BY <1>4 DEF Open, Opened, Unopened
    <2>2. /\ dma' \in [runs : BOOLEAN, clock : BOOLEAN, buffer : {0, 1}] /\ fresh' \subseteq {0, 1}
          /\ status' = "Song_Playing" => dma'.runs
      BY <1>4 DEF Open, Started
    <2> QED
      BY <2>1, <2>2 DEF Running
  <1>5. CASE TakeBuffer
    <2>1. /\ pc = "wait" /\ given /\ UNCHANGED <<status, user, list, blocks, owned, dma, done, paced>>
          /\ \/ fresh' = fresh \cup {done} /\ pc' = "top" /\ UNCHANGED filling
             \/ filling' = done /\ pc' = "fill" /\ UNCHANGED fresh
      BY <1>5 DEF TakeBuffer
    <2>2. given' \in BOOLEAN
      BY <1>5 DEF TakeBuffer
    <2>11. TypeOK'
      BY <2>1, <2>2
    <2>12. StatusAt' /\ Ownership' /\ ListFilled'
      BY <2>1, <2>2
    <2>13. Stream' /\ InStep'
      BY <2>1, <2>2
    <2> QED
      BY <2>11, <2>12, <2>13
  <1>6. CASE Fill
    BY <1>6 DEF Fill, Running
  <1>7. CASE Close
    <2>1. /\ pc = "close" /\ blocks' = 0
          /\ UNCHANGED <<user, dma, given, done, filling, fresh, paced>>
      BY <1>7 DEF Close
    <2>2. owned' = FALSE
      BY <1>7 DEF Close
    <2> DEFINE rest == /\ page' \in Pages /\ next' \in Pages
                       /\ seen' \in [last : Pages \cup {"none"}, current : Pages \cup {"none"}]
                       /\ chosen' \in BOOLEAN /\ suspend' \in BOOLEAN /\ centre' \in BOOLEAN
                       /\ files' \in 0..Songs /\ blocks' \in 0..2 /\ owned' \in BOOLEAN
                       /\ dma' \in [runs : BOOLEAN, clock : BOOLEAN, buffer : {0, 1}]
                       /\ given' \in BOOLEAN /\ done' \in {0, 1} /\ filling' \in {0, 1}
                       /\ fresh' \subseteq {0, 1} /\ paced' \in 0..2
    <2>7. rest
      <3>1. owned' \in BOOLEAN
        BY <2>2
      <3> QED
        BY <2>1, <3>1
    <2>3. CASE status' \in {"Song_Prepare", "Music_Exit"} /\ pc' = "top" /\ UNCHANGED list
      <3>1. TypeOK'
        BY <2>1, <2>7, <2>3 DEF Running
      <3>2. StatusAt' /\ Ownership' /\ ListFilled'
        BY <2>1, <2>2, <2>3 DEF Running
      <3>3. Stream' /\ InStep'
        BY <2>1, <2>2, <2>3 DEF Running
      <3> QED
        BY <3>1, <3>2, <3>3
    <2>4. CASE pc' = "switch" /\ UNCHANGED status /\ \E i \in Following : list' = [list EXCEPT !.index = i]
      <3>1. PICK i \in Following : list' = [list EXCEPT !.index = i]
        BY <2>4
      <3>2. i \in 0..Songs
        BY <2>1, <3>1, FollowingIsASong
      <3>3. list' \in [name : BOOLEAN, format : BOOLEAN, index : 0..Songs, total : 0..Songs]
            /\ list'.total = list.total /\ list'.name = list.name /\ list'.format = list.format
        BY <3>1, <3>2
      <3>11. TypeOK'
        BY <2>1, <2>7, <2>4, <3>3 DEF Running
      <3>12. StatusAt' /\ Ownership' /\ ListFilled'
        BY <2>1, <2>2, <2>4, <3>3 DEF Running
      <3>13. Stream' /\ InStep'
        BY <2>1, <2>2, <2>4, <3>3 DEF Running
      <3> QED
        BY <3>11, <3>12, <3>13
    <2>5. CASE pc' = "find" /\ UNCHANGED <<status, list>>
      <3>1. TypeOK'
        BY <2>1, <2>7, <2>5 DEF Running
      <3>2. StatusAt' /\ Ownership' /\ ListFilled'
        BY <2>1, <2>2, <2>5 DEF Running
      <3>3. Stream' /\ InStep'
        BY <2>1, <2>2, <2>5 DEF Running
      <3> QED
        BY <3>1, <3>2, <3>3
    <2>6. CASE pc' = "top" /\ status = "Music_Exit" /\ UNCHANGED <<status, list>>
      <3>1. TypeOK'
        BY <2>1, <2>7, <2>6 DEF Running
      <3>2. StatusAt' /\ Ownership' /\ ListFilled'
        BY <2>1, <2>2, <2>6 DEF Running
      <3>3. Stream' /\ InStep'
        BY <2>1, <2>2, <2>6 DEF Running
      <3> QED
        BY <3>1, <3>2, <3>3
    <2> QED
      BY <1>7, <2>3, <2>4, <2>5, <2>6 DEF Close
  <1>8. CASE Switch
    <2>1. list' = [list EXCEPT !.format = list.index < files] /\ status' = "Song_Prepare" /\ pc' = "top"
      BY <1>8 DEF Switch
    <2>2. list' \in [name : BOOLEAN, format : BOOLEAN, index : 0..Songs, total : 0..Songs]
          /\ list'.total = list.total /\ list'.name = list.name
          /\ (list'.format => list'.index < Songs)
      <3>1. /\ list \in [name : BOOLEAN, format : BOOLEAN, index : 0..Songs, total : 0..Songs]
            /\ files \in 0..Songs
        OBVIOUS
      <3> DEFINE b == list.index < files
      <3>2. b \in BOOLEAN /\ (b => list.index < Songs)
        BY <3>1
      <3>3. list' = [list EXCEPT !.format = b]
        BY <2>1
      <3> HIDE DEF b
      <3> QED
        BY <3>1, <3>2, <3>3
    <2>3. pc = "switch" /\ UNCHANGED <<user, buffers>>
      BY <1>8 DEF Switch
    <2> QED
      BY <2>1, <2>2, <2>3 DEF Running
  <1>9. CASE Find
    <2>1. pc = "find" /\ status' = "Song_Prepare" /\ pc' = "top" /\ UNCHANGED <<user, buffers>>
      BY <1>9 DEF Find
    <2>2. CASE UNCHANGED list
      BY <2>1, <2>2 DEF Running
    <2>3. CASE \E i \in 0..(files - 1) : list' = [list EXCEPT !.index = i, !.format = TRUE]
      <3>1. list' \in [name : BOOLEAN, format : BOOLEAN, index : 0..Songs, total : 0..Songs]
            /\ list'.total = list.total /\ list'.name = list.name /\ list'.index < Songs
        <4>1. PICK i \in 0..(files - 1) : list' = [list EXCEPT !.index = i, !.format = TRUE]
          BY <2>3
        <4>2. i \in 0..Songs /\ i < Songs
          BY <4>1
        <4> QED
          BY <4>1, <4>2
      <3> QED
        BY <2>1, <3>1 DEF Running
    <2> QED
      BY <1>9, <2>2, <2>3 DEF Find
  <1> QED
    BY <1>1, <1>2, <1>3, <1>4, <1>5, <1>6, <1>7, <1>8, <1>9 DEF Block

\* Every step keeps the invariant.
LEMMA InvStep ==
    ASSUME Inv, [Next]_vars
    PROVE  Inv'
  <1>1. CASE Head
    BY <1>1, HeadStep
  <1>2. CASE Block
    BY <1>2, BlockStep
  <1>3. CASE DmaInterrupt
    <2>1. /\ dma' = [dma EXCEPT !.buffer = 1 - @] /\ dma.runs
          /\ done' = dma.buffer /\ fresh' = fresh \ {dma.buffer}
          /\ UNCHANGED <<status, pc, user, list, blocks, owned, filling>>
      BY <1>3 DEF DmaInterrupt, FreeBuffer
    <2>2. /\ paced' \in {0, 1, 2}
          /\ paced' # 0 => pc = "wait" /\ ~given
          /\ paced' = 2 => paced # 0
      BY <1>3 DEF DmaInterrupt, Inv, TypeOK
    <2>3. given' \in BOOLEAN
      BY <1>3 DEF DmaInterrupt
    <2>4. given' = TRUE
      BY <1>3 DEF DmaInterrupt
    <2>5. TypeOK'
      BY <2>1, <2>2, <2>3 DEF Inv, TypeOK, user
    <2>6. (StatusAt /\ Ownership /\ ListFilled /\ Stream)'
      BY <2>1 DEF Inv, TypeOK, StatusAt, Ownership, ListFilled, Stream
    <2>7. InStep'
      BY <2>1, <2>2, <2>4 DEF Inv, TypeOK, InStep
    <2> QED
      BY <2>5, <2>6, <2>7 DEF Inv
  <1>4. CASE User
    <2>1. TypeOK' /\ Command
      BY <1>4, UserCommands DEF Inv
    <2> QED
      BY <2>1 DEF Command, Inv, StatusAt, Ownership, ListFilled, Stream, InStep, buffers
  <1>5. CASE Spin \/ UNCHANGED vars
    <2>1. UNCHANGED vars
      BY <1>5 DEF Spin
    <2>2. UNCHANGED <<status, pc, user, list, buffers>>
      BY <2>1 DEF vars
    <2>3. TypeOK'
      BY <2>2 DEF Inv, TypeOK, user, buffers
    <2> QED
      BY <2>2, <2>3 DEF Inv, StatusAt, Ownership, ListFilled, Stream, InStep, buffers
  <1> QED
    BY <1>1, <1>2, <1>3, <1>4, <1>5 DEF Next

LEMMA InvAlways == Spec => []Inv
  BY InvInit, InvStep, PTL DEF Spec

\* The variables of the player keep their types, the index of the song among
\* them, even when songs are added and deleted (music.c).
THEOREM TypeCorrect == Spec => []TypeOK
  BY InvAlways, PTL DEF Inv

\* Whatever commands come in between, the file and the buffers are allocated
\* once and freed once, and nothing is left when the player is off.
THEOREM NothingIsLeaked == Spec => []NothingLeaks
  <1>1. Inv => NothingLeaks
    BY DEF Inv, TypeOK, Ownership, ListFilled, Stream, NothingLeaks
  <1> QED
    BY <1>1, InvAlways, PTL

\* The DMA runs on allocated buffers only, and Music_Task waits for it only
\* while it runs.
THEOREM DmaOwnsBuffers == Spec => []DmaHasBuffers
  <1>1. Inv => DmaHasBuffers
    BY DEF Inv, Stream, DmaHasBuffers
  <1> QED
    BY <1>1, InvAlways, PTL

\* Whatever the song before left in the semaphore, and however often the DMA has
\* overtaken the task: after two interrupts that Music_Task waited for, the
\* buffer that is sent was filled, and it is not the one that is written.
THEOREM GetsBackInStep == Spec => []BackInStep
  <1>1. Inv => BackInStep
    BY DEF Inv, TypeOK, InStep, BackInStep
  <1> QED
    BY <1>1, InvAlways, PTL

(***************************************************************************)
(* The decoder of the next song is found, if the songs stay the same.        *)
(***************************************************************************)

\* The list is that of the card, and the song is one of it.
Settled ==
    /\ list.name => list.format /\ list.total = files /\ list.index < list.total
    /\ pc = "spin" => ~list.name

LEMMA FollowingIsListed ==
    ASSUME TypeOK, list.index < list.total, NEW i \in Following
    PROVE  i \in 0..(list.total - 1)
  BY DEF TypeOK, Following, Last

LEMMA SettledStep ==
    ASSUME Changes = FALSE, Inv, Settled, [Next]_vars
    PROVE  Settled'
  <1> USE SongsAssumption DEF Inv, Settled, TypeOK, user
  <1>1. CASE TopNone
    BY <1>1 DEF TopNone
  <1>2. CASE TopInit
    BY <1>2, NoListIs DEF TopInit
  <1>3. CASE TopExit
    BY <1>3, NoListIs DEF TopExit
  <1>4. CASE TopSong
    <2>1. list' = list /\ files' = files
      BY <1>4 DEF TopSong
    <2>2. Playable => pc' # "spin"
      BY <1>4 DEF TopSong, Decode
    <2>3. list.name => Playable
      BY DEF Playable
    <2> QED
      BY <2>1, <2>2, <2>3
  <1>5. CASE Delay
    BY <1>5 DEF Delay
  <1>6. CASE Scan
    BY <1>6, NoListIs DEF Scan
  <1>7. CASE Clear
    BY <1>7, NoListIs DEF Clear
  <1>8. CASE Open \/ TakeBuffer \/ Fill
    BY <1>8 DEF Open, TakeBuffer, Fill
  <1>9. CASE Close
    <2>1. CASE UNCHANGED list
      BY <1>9, <2>1 DEF Close
    <2>2. CASE pc' = "switch" /\ \E i \in Following : list' = [list EXCEPT !.index = i]
      <3>1. PICK i \in Following : list' = [list EXCEPT !.index = i]
        BY <2>2
      <3>2. list.name /\ i \in 0..(list.total - 1)
        BY <1>9, <3>1, FollowingIsListed DEF Close, ListFilled
      <3> QED
        BY <1>9, <2>2, <3>1, <3>2 DEF Close
    <2> QED
      BY <1>9, <2>1, <2>2 DEF Close
  <1>10. CASE Switch
    <2>1. pc' = "top" /\ files' = files
      BY <1>10 DEF Switch
    <2>2. /\ list'.name = list.name /\ list'.total = list.total /\ list'.index = list.index
          /\ list'.format = (list.index < files)
      BY <1>10 DEF Switch
    <2> QED
      BY <2>1, <2>2
  <1>11. CASE Find
    <2>1. CASE UNCHANGED list
      BY <1>11, <2>1 DEF Find
    <2>2. CASE \E i \in 0..(files - 1) : list' = [list EXCEPT !.index = i, !.format = TRUE]
      <3>1. PICK i \in 0..(files - 1) : list' = [list EXCEPT !.index = i, !.format = TRUE]
        BY <2>2
      <3>2. /\ list'.name = list.name /\ list'.total = list.total
            /\ list'.format = TRUE /\ list'.index = i /\ i < files
        BY <3>1
      <3>3. pc' = "top" /\ files' = files
        BY <1>11 DEF Find
      <3> QED
        BY <3>2, <3>3
    <2> QED
      BY <1>11, <2>1, <2>2 DEF Find
  <1>12. CASE DmaInterrupt
    BY <1>12 DEF DmaInterrupt
  <1>13. CASE User
    <2>1. pc' = pc /\ list' = list
      BY <1>13, UserCommands DEF Command
    <2>2. files' = files \/ ~list.name
      BY <1>13 DEF User, RequestPage, TurnPage, Skip, Pause, OpenCentre, Stop, ChooseFile, Card, ListFilled
    <2> QED
      BY <2>1, <2>2
  <1>14. CASE Spin \/ UNCHANGED vars
    BY <1>14 DEF Spin, vars
  <1> QED
    BY <1>1, <1>2, <1>3, <1>4, <1>5, <1>6, <1>7, <1>8, <1>9, <1>10, <1>11, <1>12, <1>13, <1>14
    DEF Next, Head, Block

\* If no song is added or deleted while the player is on, Music_Task finds the
\* decoder of the next song for every command and every way to switch songs; it
\* runs round its loop without blocking only when it has no list at all.
THEOREM FindsTheDecoder == Changes = FALSE => (Spec => []DecoderIsFound)
  <1> SUFFICES ASSUME Changes = FALSE PROVE Spec => []DecoderIsFound
    OBVIOUS
  <1>1. Init => Settled
    BY DEF Init, NoList, Settled
  <1>2. Inv /\ Settled /\ [Next]_vars => Settled'
    BY SettledStep
  <1>3. Settled => DecoderIsFound
    BY DEF Settled, DecoderIsFound
  <1> QED
    BY <1>1, <1>2, <1>3, InvAlways, PTL DEF Spec
=============================================================================
