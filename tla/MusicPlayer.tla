----------------------------- MODULE MusicPlayer -----------------------------
(***************************************************************************)
(* The music player: Music_Task (4-ware/Tasks/music_task.c), the list of     *)
(* songs (4-ware/Apps_Music/music.c), the state machine every decoder has,    *)
(* here that of wav_play_song_task (4-ware/Apps_Music/wav.c), the double       *)
(* buffer of the I2S DMA (4-ware/BSP/i2s.c), and the callbacks of the pages    *)
(* that write Music_Status (music_unit.c, control_center.c).                 *)
(*                                                                         *)
(* Music_Task has the highest priority of the tasks involved: the LVGL task   *)
(* runs only where Music_Task blocks.  pc names the call it may block in; it   *)
(* is "top" at the head of the loop, from where no other task runs before the  *)
(* next such call, and "spin" if the loop comes back to where it was without   *)
(* any.  The interrupt of the DMA comes whenever it runs.                      *)
(*                                                                         *)
(* Simplifications: malloc_bsc does not fail (it would stop the device); the  *)
(* progress slider, the FFT and the display of the song are left out.         *)
(***************************************************************************)
EXTENDS Naturals

CONSTANTS
    Songs,     \* the number of songs that fit on the card
    Changes    \* whether the songs on the card may change while the player is on

ASSUME SongsAssumption == Songs \in Nat \ {0} /\ Changes \in BOOLEAN

VARIABLES
    status,     \* Music_Status
    pc,         \* the call in which Music_Task blocks
    page,       \* current_page_id of the page manager
    next,       \* next_page_id
    seen,       \* last_page and current_page of Music_Task
    chosen,     \* g_file_chosen
    suspend,    \* Music_Suspend_Flag
    centre,     \* the control centre shows its button to stop the music
    files,      \* how many songs are on the card
    list,       \* pname, current_format, current_index and total_files
    blocks,     \* how often the file and the buffers are allocated
    owned,      \* music_ctrl.file and the buffers are not NULL
    dma,        \* the I2S stream: does it run, has I2S a clock, and which buffer is being sent
    given,      \* xI2SSemaphore
    done,       \* I2SdmaBuff, the buffer that was sent
    filling,    \* the buffer that wav_buffill was called with
    fresh,      \* ghost: the buffers that were filled and not yet sent
    paced       \* ghost: interrupts of the song in a row, up to 2, that Music_Task waited for

buffers == <<blocks, owned, dma, given, done, filling, fresh, paced>>
user    == <<page, next, seen, chosen, suspend, centre, files>>
vars    == <<status, pc, user, list, buffers>>

\* Any other page is a file page where no file is chosen.
Pages   == {"desktop", "music", "file"}
Running == {"Song_Prepare", "Song_Playing", "Song_End", "Song_Next", "Song_Previous", "Song_File", "Song_Error"}

TypeOK ==
    /\ status \in Running \cup {"Music_None", "Music_Init", "Music_Exit"}
    /\ pc \in {"top", "delay", "scan", "clear", "open", "wait", "fill", "close", "switch", "find", "spin"}
    /\ page \in Pages /\ next \in Pages
    /\ seen \in [last : Pages \cup {"none"}, current : Pages \cup {"none"}]
    /\ chosen \in BOOLEAN /\ suspend \in BOOLEAN /\ centre \in BOOLEAN
    /\ files \in 0..Songs
    /\ list \in [name : BOOLEAN, format : BOOLEAN, index : 0..Songs, total : 0..Songs]
    /\ blocks \in 0..2 /\ owned \in BOOLEAN
    /\ dma \in [runs : BOOLEAN, clock : BOOLEAN, buffer : {0, 1}]
    /\ given \in BOOLEAN /\ done \in {0, 1} /\ filling \in {0, 1}
    /\ fresh \subseteq {0, 1} /\ paced \in 0..2

NoList == [name |-> FALSE, format |-> FALSE, index |-> 0, total |-> 0]

\* The stream while it does not run; I2S2_TX_DMA_Init starts it with the first
\* buffer.
Off == [runs |-> FALSE, clock |-> FALSE, buffer |-> 0]

Init ==
    /\ status = "Music_None" /\ pc = "delay"
    /\ page = "desktop" /\ next = "desktop"
    /\ seen = [last |-> "none", current |-> "none"]
    /\ chosen = FALSE /\ suspend = FALSE /\ centre = FALSE
    /\ files \in 0..Songs
    /\ list = NoList
    /\ blocks = 0 /\ owned = FALSE
    /\ dma = Off
    /\ given = FALSE /\ done = 0 /\ filling = 0 /\ fresh = {} /\ paced = 0

(***************************************************************************)
(* The head of the loop                                                    *)
(***************************************************************************)

TopNone ==
    /\ pc = "top" /\ status = "Music_None"
    /\ IF page = "music" /\ next = "music"
         THEN status' = "Music_Init" /\ UNCHANGED pc
         ELSE pc' = "delay" /\ UNCHANGED status
    /\ UNCHANGED <<user, list, buffers>>

\* audio_play_prepare; without a mounted card it comes back at once.
TopInit ==
    /\ pc = "top" /\ status = "Music_Init"
    /\ \/ pc' = "scan" /\ UNCHANGED <<status, list>>
       \/ files = 0 /\ status' = "Music_Exit" /\ list' = NoList /\ UNCHANGED pc
    /\ UNCHANGED <<user, buffers>>

\* audio_play_clear, which blocks only if there is a name to free.
TopExit ==
    /\ pc = "top" /\ status = "Music_Exit"
    /\ IF list.name THEN pc' = "clear" /\ UNCHANGED <<status, list>>
                    ELSE status' = "Music_None" /\ list' = NoList /\ UNCHANGED pc
    /\ UNCHANGED <<user, buffers>>

\* last_page and current_page after a look at the page.
Seen == IF page = seen.current THEN seen ELSE [last |-> seen.current, current |-> page]

\* From the desktop to a page that is not the music page.
LeftToDesktop == Seen.current = "desktop" /\ Seen.last = "music"   \* mutant: the wrong way round
Left == Seen.current # "music" /\ Seen.last = "desktop"

\* A file was chosen on the file page of the music page.
Chosen == Seen.current = "file" /\ Seen.last = "music" /\ chosen

PageStatus == IF Chosen THEN "Song_File" ELSE IF Left THEN "Music_Exit" ELSE status

\* audio_play_task returns at once without a name or a format.
Playable == list.name /\ list.format

\* I2S_Play_Stop
StopForgotten == dma   \* mutant: the call is missing
StopDma == Off

\* DMA1_Stream4_IRQHandler sets I2SdmaBuff to the buffer that was sent.
SwappedBuffer(buffer) == 1 - buffer   \* mutant: the test of CR is inverted
FreeBuffer(buffer) == buffer

\* The stream is stopped; that it has stopped is one more interrupt.
Stopped ==
    /\ dma' = StopDma
    /\ fresh' = {} /\ paced' = 0
    /\ \/ UNCHANGED <<given, done>>
       \/ dma.runs /\ given' = TRUE /\ done' = FreeBuffer(dma.buffer)

\* The decoder is called with the status st: it allocates and opens the song,
\* waits for the DMA, or stops the DMA and frees the song.
Decode(st) ==
    \/ /\ st = "Song_Prepare" /\ pc' = "open"
       /\ blocks' = blocks + 1 /\ owned' = TRUE
       /\ dma' = Off
       /\ UNCHANGED <<given, done, filling, fresh, paced>>
    \/ /\ st = "Song_Playing" /\ pc' = "wait"
       /\ UNCHANGED buffers
    \/ /\ st \notin {"Song_Prepare", "Song_Playing"} /\ pc' = "close"
       /\ Stopped
       /\ UNCHANGED <<blocks, owned, filling>>

TopSong ==
    /\ pc = "top" /\ status \in Running
    /\ seen' = Seen
    /\ chosen' = (chosen /\ ~Chosen)
    /\ next' = IF Chosen THEN "music" ELSE next   \* Page_Back
    /\ status' = PageStatus
    /\ \/ Playable /\ Decode(PageStatus)
       \/ /\ ~Playable
          /\ pc' = IF PageStatus = "Music_Exit" THEN "top" ELSE "spin"
          /\ UNCHANGED buffers
    /\ UNCHANGED <<page, suspend, centre, files, list>>

\* Nothing changes for the loop any more, and no other task runs.
Spin == pc = "spin" /\ UNCHANGED vars

(***************************************************************************)
(* Where Music_Task blocks                                                 *)
(***************************************************************************)

\* Delay_ms(20)
Delay ==
    /\ pc = "delay"
    /\ pc' = "top"
    /\ UNCHANGED <<status, user, list, buffers>>

\* audio_play_prepare: count the songs and take the first.
AfterScan == IF files = 0 THEN "Music_Exit" ELSE "Song_Prepare"

Scan ==
    /\ pc = "scan"
    /\ list' = IF files = 0 THEN NoList
               ELSE [name |-> TRUE, format |-> TRUE, index |-> 0, total |-> files]
    /\ status' = AfterScan
    /\ pc' = "top"
    /\ UNCHANGED <<user, buffers>>

\* audio_play_clear
Clear ==
    /\ pc = "clear"
    /\ list' = NoList
    /\ status' = "Music_None"
    /\ pc' = "top"
    /\ UNCHANGED <<user, buffers>>

\* Status after the two buffers were filled for the first time.
Opened == {"Song_Playing", "Song_End"}
\* wav_play_song_prepare fails; the other decoders go to Song_End.
RetryOpen == {"Song_Prepare"}   \* mutant: try again
Unopened == {"Song_Next", "Song_End"}

\* The DMA is started, in a pause as well: it then sends zeros.
Started(st) == st = "Song_Playing"

\* wav_play_song_prepare and the first two buffers.  I2S2_SampleRate_Set leaves
\* I2S without its clock if the song has a rate that it does not know.
Open ==
    /\ pc = "open"
    /\ \/ files > list.index /\ status' \in Opened
       \/ status' \in Unopened
    /\ \/ /\ Started(status') /\ fresh' = {0, 1}
          /\ \E clock \in BOOLEAN : dma' = [dma EXCEPT !.runs = TRUE, !.clock = clock]
       \/ ~Started(status') /\ UNCHANGED <<dma, fresh>>
    /\ paced' = 0
    /\ pc' = "top"
    /\ UNCHANGED <<user, list, blocks, owned, given, done, filling>>

\* xSemaphoreTake; in a pause the buffer is filled with zeros at once.
TakeBuffer ==
    /\ pc = "wait" /\ given
    /\ given' = FALSE
    /\ IF suspend THEN fresh' = fresh \cup {done} /\ pc' = "top" /\ UNCHANGED filling
                  ELSE filling' = done /\ pc' = "fill" /\ UNCHANGED fresh
    /\ UNCHANGED <<status, user, list, blocks, owned, dma, done, paced>>

\* wav_buffill: the buffer is written when the file was read.
Fill ==
    /\ pc = "fill"
    /\ fresh' = fresh \cup {filling}
    /\ \E short \in BOOLEAN :
         /\ files <= list.index => short
         /\ status' = IF short /\ ~suspend THEN "Song_End" ELSE status
    /\ filling' = 0 /\ pc' = "top"
    /\ UNCHANGED <<user, list, blocks, owned, dma, given, done, paced>>

\* The index of the last song.
PastLast == list.total   \* mutant: off by one
Last == list.total - 1

\* kv_music_switch_method and the command decide on the next song.
Following ==
    LET i == list.index IN
      CASE status = "Song_Previous" -> {IF i = 0 THEN Last ELSE i - 1}
        [] status = "Song_Next"     -> {IF i = Last THEN 0 ELSE i + 1}
        [] OTHER                    -> IF Last = 0 THEN {0} ELSE 0..Last \ {i}

\* f_close and the frees, then the tests of the status.
Close ==
    /\ pc = "close"
    /\ owned' = FALSE
    /\ blocks' = IF owned THEN blocks - 1 ELSE blocks
    /\ \/ status = "Song_Error" /\ status' = "Music_Exit" /\ pc' = "top" /\ UNCHANGED list
       \/ status = "Song_End" /\ status' = "Song_Prepare" /\ pc' = "top" /\ UNCHANGED list   \* repeat
       \/ /\ status \in {"Song_End", "Song_Next", "Song_Previous"}
          /\ \E i \in Following : list' = [list EXCEPT !.index = i]
          /\ pc' = "switch" /\ UNCHANGED status
       \/ status = "Song_File" /\ pc' = "find" /\ UNCHANGED <<status, list>>
       \/ status = "Music_Exit" /\ pc' = "top" /\ UNCHANGED <<status, list>>
    /\ UNCHANGED <<user, dma, given, done, filling, fresh, paced>>

\* update_current_song_info
Switch ==
    /\ pc = "switch"
    /\ list' = [list EXCEPT !.format = list.index < files]
    /\ status' = "Song_Prepare"
    /\ pc' = "top"
    /\ UNCHANGED <<user, buffers>>

\* play_specific_song: another song, or the same one if it is not found.
Find ==
    /\ pc = "find"
    /\ \/ UNCHANGED list
       \/ \E i \in 0..(files - 1) : list' = [list EXCEPT !.index = i, !.format = TRUE]
    /\ status' = "Song_Prepare"
    /\ pc' = "top"
    /\ UNCHANGED <<user, buffers>>

\* DMA1_Stream4_IRQHandler: a buffer was sent, the other one follows.
DmaInterrupt ==
    /\ dma.runs /\ dma.clock
    /\ fresh' = fresh \ {dma.buffer}
    /\ dma' = [dma EXCEPT !.buffer = 1 - @]
    /\ done' = FreeBuffer(dma.buffer)
    /\ given' = TRUE
    /\ paced' = IF pc = "wait" /\ ~given THEN (IF paced = 0 THEN 1 ELSE 2) ELSE 0
    /\ UNCHANGED <<status, pc, user, list, blocks, owned, filling>>

(***************************************************************************)
(* The LVGL task, and the card                                             *)
(***************************************************************************)

\* Music_Task blocks, so that the LVGL task gets the processor.
Blocked == pc \notin {"top", "spin"}

\* Page_Request_Switch and Page_Back
RequestPage(p) ==
    /\ Blocked
    /\ next' = p
    /\ UNCHANGED <<status, pc, page, seen, chosen, suspend, centre, files, list, buffers>>

\* Page_Manager_Loop
TurnPage ==
    /\ Blocked /\ page # next
    /\ page' = next
    /\ UNCHANGED <<status, pc, next, seen, chosen, suspend, centre, files, list, buffers>>

\* The buttons of the music page.
Skip ==
    /\ Blocked /\ page = "music"
    /\ status' \in {"Song_Next", "Song_Previous"}
    /\ UNCHANGED <<pc, user, list, buffers>>

Pause ==
    /\ Blocked /\ page = "music"
    /\ suspend' = ~suspend
    /\ UNCHANGED <<status, pc, page, next, seen, chosen, centre, files, list, buffers>>

\* Create_Control_Center shows the button if the player is on, and nothing
\* takes it away again before Remove_Control_Center.
OpenCentre ==
    /\ Blocked
    /\ centre' \in {FALSE, status # "Music_None"}
    /\ UNCHANGED <<status, pc, page, next, seen, chosen, suspend, files, list, buffers>>

\* btn_music_close_event_cb
Stop ==
    /\ Blocked /\ centre
    /\ status' = "Song_Error"
    /\ next' = IF page = "music" THEN "desktop" ELSE next
    /\ centre' = FALSE
    /\ UNCHANGED <<pc, page, seen, chosen, suspend, files, list, buffers>>

\* file_click_event_cb, and Update_File_Unit when it takes the file itself.
ChooseFile ==
    /\ Blocked /\ page = "file"
    /\ chosen' = ~chosen
    /\ UNCHANGED <<status, pc, page, next, seen, suspend, centre, files, list, buffers>>

\* Songs are copied to the card or deleted, or the card is pulled; the player is
\* off where pc is "delay".
Card ==
    /\ Blocked /\ (pc = "delay" \/ Changes)
    /\ files' \in 0..Songs
    /\ UNCHANGED <<status, pc, page, next, seen, chosen, suspend, centre, list, buffers>>

-----------------------------------------------------------------------------
Head  == TopNone \/ TopInit \/ TopExit \/ TopSong
Block == Delay \/ Scan \/ Clear \/ Open \/ TakeBuffer \/ Fill \/ Close \/ Switch \/ Find
User  ==
    \/ \E p \in Pages : RequestPage(p)
    \/ TurnPage \/ Skip \/ Pause \/ OpenCentre \/ Stop \/ ChooseFile \/ Card

Next == Head \/ Spin \/ Block \/ DmaInterrupt \/ User

Spec == Init /\ [][Next]_vars

\* Every call returns and a DMA with a clock runs; the user need not do anything.
LiveSpec == Spec /\ WF_vars(Head \/ Block) /\ WF_vars(DmaInterrupt)

(***************************************************************************)
(* Properties                                                              *)
(***************************************************************************)

\* The file and the buffers of one song are freed before those of the next
\* are allocated, and when the player is off nothing is left of it, whatever
\* commands came in between (the decoders' cleanup, audio_play_clear).
NothingLeaks ==
    /\ blocks = IF owned THEN 1 ELSE 0
    /\ pc = "delay" => ~owned /\ ~list.name /\ ~dma.runs

\* The DMA never sends from buffers that are freed (I2S_Play_Stop before
\* free_bsc, I2S_Play_Start after malloc_bsc); and Music_Task, which waits for it
\* without a time-out, never waits for a DMA that has not been started or has
\* been stopped, whatever was written to Music_Status since.
DmaHasBuffers ==
    /\ dma.runs => owned
    /\ pc \in {"wait", "fill"} => dma.runs

\* The DMA may overtake the task that reads the file, and an interrupt of the
\* song before may be left in the semaphore: then a buffer is sent again, or
\* written while it is sent.  But two interrupts that Music_Task waits for put
\* the player in step again: as long as it keeps up, only what was filled is
\* sent and only the other buffer is written (I2SdmaBuff, xI2SSemaphore).
BackInStep ==
    dma.runs /\ paced = 2 =>
        dma.buffer \in fresh /\ (pc = "fill" => filling # dma.buffer)

\* As long as there is a list of songs, the task finds the decoder of the next
\* one, which blocks: it does not run round its loop, above the LVGL task.
DecoderIsFound == pc = "spin" => ~list.name

\* Music that plays stops when the user goes from the desktop to another page
\* and stays there, if I2S has its clock.
LeavingStops ==
    [](dma.runs => dma.clock) =>
        ((seen.current = "desktop" /\ page \notin {"desktop", "music"}) ~>
            (pc = "delay" \/ page \in {"desktop", "music"}))
=============================================================================
