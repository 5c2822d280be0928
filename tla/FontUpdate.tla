----------------------------- MODULE FontUpdate -----------------------------
(***************************************************************************)
(* Installing the fonts in the external flash: font_init and update_font    *)
(* (4-ware/Utils/fontupd.c), Font_Task (4-ware/Tasks/font_task.c) and the   *)
(* way W25QXX_Write and W25QXX_Erase_Sector (4-ware/BSP/w25q128.c) treat    *)
(* the flash, with a power cut at every step.                              *)
(*                                                                         *)
(* The region at FONTINFOADDR is a row of pieces, in the order of their     *)
(* addresses: piece 0 is the header, the others are what one turn of the    *)
(* loop of W25QXX_Write_Internal writes, the part of a 4 KB buffer that      *)
(* lies in one sector.  The header shares its sector with the first of       *)
(* them, and most buffers lie in two sectors.                              *)
(*                                                                         *)
(* Simplifications: the files hold what belongs into the flash, and a read  *)
(* that fails says so (SD_ReadBlock does not if the card is pulled out,     *)
(* sdio_sdcard.c:638); font_init reads the header without glitches; files   *)
(* fit into the region of 7 MB (those of TFcard_files/FONT have 2.3 MB);     *)
(* the progress bar is left out.                                           *)
(***************************************************************************)
EXTENDS Naturals

CONSTANTS
    Last,         \* the last piece
    SectorOf,     \* the sector of each piece
    LastSector,   \* the last sector of the region
    Reads         \* the pieces that begin a buffer of 4 KB

Pieces == 0..Last
Data   == 1..Last

ASSUME LayoutAssumption ==
    /\ Last \in Nat \ {0} /\ LastSector \in Nat
    /\ SectorOf \in [Pieces -> 0..LastSector]
ASSUME ReadsAssumption == Reads \subseteq Data /\ 1 \in Reads

VARIABLES
    flash,      \* the contents of each piece
    need,       \* g_font_need_update
    pc,         \* where the start-up or Font_Task is
    sector,     \* the next sector to erase
    piece,      \* the next piece to write
    steady      \* the power stays on and the card can be read from now on

vars == <<flash, need, pc, sector, piece, steady>>

\* "torn": fontok is written, the addresses behind it are not.
Contents == {"erased", "junk", "good", "torn"}

TypeOK ==
    /\ flash \in [Pieces -> Contents]
    /\ need \in BOOLEAN /\ steady \in BOOLEAN
    /\ pc \in {"off", "task", "card", "check", "erase", "read", "write", "header",
               "scratch", "end", "failed"}
    /\ sector \in 0..(LastSector + 1)
    /\ piece \in 1..(Last + 1)

\* fontok = Checksum
Accepted(contents) == contents \in {"good", "torn"}

\* A new device, with anything but fonts in its flash.
Init ==
    /\ flash \in [Pieces -> {"erased", "junk"}]
    /\ need = FALSE
    /\ pc = "off" /\ sector = 0 /\ piece = 1
    /\ steady = FALSE

(***************************************************************************)
(* Helpers                                                                 *)
(***************************************************************************)

\* Font_Task returns at once unless fonts are needed.
AlwaysUpdate == TRUE   \* mutant: the test is missing
MustUpdate == need

\* for (addr = FONTINFOADDR; addr < FONTINFOADDR + FONTSECSIZE; ...)
ErasedButOne == sector >= LastSector   \* mutant: off by one
AllErased == sector > LastSector

\* The loops over the fonts and their buffers are over.
WrittenButOne == piece >= Last   \* mutant: the last piece is forgotten
AllWritten == piece > Last

\* W25QXX_Write_Internal: a byte of the piece is not 0xFF.
NeedErase(p) == flash[p] # "erased"

\* What font_init leaves in g_font_need_update.
InvertedTest == Accepted(flash[0])   \* mutant
FontInit == ~Accepted(flash[0])

(***************************************************************************)
(* Start-up and Font_Task                                                  *)
(***************************************************************************)

Boot ==
    /\ pc = "off"
    /\ need' = FontInit
    /\ pc' = "task"
    /\ UNCHANGED <<flash, sector, piece, steady>>

StartTask ==
    /\ pc = "task"
    /\ pc' = IF MustUpdate THEN "card" ELSE "end"
    /\ UNCHANGED <<flash, need, sector, piece, steady>>

\* g_TFcard_inited
CardReady ==
    /\ pc = "card"
    /\ pc' = "check"
    /\ UNCHANGED <<flash, need, sector, piece, steady>>

\* All files are there, or nothing is erased.
PreCheck ==
    /\ pc = "check"
    /\ sector' = 0 /\ piece' = 1
    /\ pc' = "erase"
    /\ UNCHANGED <<flash, need, steady>>

EraseSector ==
    /\ pc = "erase" /\ ~AllErased
    /\ flash' = [p \in Pieces |-> IF SectorOf[p] = sector THEN "erased" ELSE flash[p]]
    /\ sector' = sector + 1
    /\ UNCHANGED <<need, pc, piece, steady>>

EndErase ==
    /\ pc = "erase" /\ AllErased
    /\ pc' = "read"
    /\ UNCHANGED <<flash, need, sector, piece, steady>>

\* f_read of the next buffer, or the end of the last file.
ReadBuffer ==
    /\ pc = "read"
    /\ pc' = IF AllWritten THEN "header" ELSE "write"
    /\ UNCHANGED <<flash, need, sector, piece, steady>>

\* W25QXX_Write_Internal on a piece that is not erased goes through a scratch
\* sector; that path is not modelled, an update should not take it.
WritePiece ==
    /\ pc = "write"
    /\ IF NeedErase(piece)
         THEN pc' = "scratch" /\ UNCHANGED <<flash, piece>>
         ELSE /\ flash' = [flash EXCEPT ![piece] = "good"]
              /\ piece' = piece + 1
              /\ pc' = IF AllWritten' \/ piece + 1 \in Reads THEN "read" ELSE "write"
    /\ UNCHANGED <<need, sector, steady>>

\* The header, and the end of the task: g_font_need_update = 0.
WriteHeader ==
    /\ pc = "header"
    /\ IF NeedErase(0)
         THEN pc' = "scratch" /\ UNCHANGED <<flash, need>>
         ELSE /\ flash' = [flash EXCEPT ![0] = "good"]
              /\ need' = FALSE
              /\ pc' = "end"
    /\ UNCHANGED <<sector, piece, steady>>

\* A file cannot be opened or read: update_font returns an error, the task
\* ends and the page shows the error until the user restarts the device.
Fail ==
    /\ ~steady
    /\ pc \in {"check", "read"} /\ ~(pc = "read" /\ AllWritten)
    /\ pc' = "failed"
    /\ UNCHANGED <<flash, need, sector, piece, steady>>

(***************************************************************************)
(* The power                                                               *)
(***************************************************************************)

\* What is left of the piece that was being erased or written.
Interrupted(p) ==
    CASE pc = "erase" /\ SectorOf[p] = sector -> {flash[p], "erased", "junk"}
      [] pc = "write" /\ p = piece /\ ~NeedErase(p) -> {"erased", "junk", "good"}
      [] pc = "header" /\ p = 0 /\ ~NeedErase(p) -> {"erased", "junk", "torn", "good"}
      [] OTHER -> {flash[p]}

PowerCut ==
    /\ pc # "off"
    /\ ~steady \/ pc = "failed"
    /\ flash' \in {f \in [Pieces -> Contents] : \A p \in Pieces : f[p] \in Interrupted(p)}
    /\ need' = FALSE
    /\ pc' = "off" /\ sector' = 0 /\ piece' = 1
    /\ UNCHANGED steady

Settle ==
    /\ ~steady
    /\ steady' = TRUE
    /\ UNCHANGED <<flash, need, pc, sector, piece>>

-----------------------------------------------------------------------------
Update   == PreCheck \/ EraseSector \/ EndErase \/ ReadBuffer \/ WritePiece \/ WriteHeader
FontTask == StartTask \/ CardReady \/ Update \/ Fail

Next == Boot \/ FontTask \/ PowerCut \/ Settle

Spec == Init /\ [][Next]_vars

\* Font_Task gets the processor, the card is put in some day, the user
\* switches a device on that is off or shows an error.
LiveSpec ==
    /\ Spec
    /\ WF_vars(Boot \/ StartTask \/ CardReady \/ Update)
    /\ WF_vars(pc = "failed" /\ PowerCut)

(***************************************************************************)
(* Properties                                                              *)
(***************************************************************************)

\* font_init accepts the fonts only if all of them are in the flash, at
\* whatever step of whatever attempt the power was cut.
AcceptedMeansComplete == Accepted(flash[0]) => \A p \in Data : flash[p] = "good"

\* update_font writes erased flash only: W25QXX_Write never copies a sector
\* through the scratch pool, in which a power cut would lose the sector.
NoScratch == pc # "scratch"

\* Fonts that were accepted once are never touched again.
AcceptedIsKept == [][Accepted(flash[0]) => flash' = flash]_vars

\* Once the power stays on and the card can be read the fonts get installed,
\* whatever earlier attempts have left in the flash.
FontsArrive == steady ~> Accepted(flash[0]) /\ pc = "end"

=============================================================================
