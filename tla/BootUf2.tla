------------------------------ MODULE BootUf2 -------------------------------
(***************************************************************************)
(* The UF2 boot loader: main, Jump_To_Main and Task                         *)
(* (bootloader/3-main/bootloader.c), the block accounting and the cache of   *)
(* bootuf2.c, and bootuf2_flash_write (chip_rom.c).                         *)
(*                                                                         *)
(* The host copies .uf2 files to the drive.  The mass storage thread hands   *)
(* each block to bootuf2_write_sector; Task, which has the lower priority,   *)
(* polls bootuf2_is_write_done and resets the chip.  The thread does not      *)
(* block in bootuf2_write_sector: for Task that call is one step, and it     *)
(* may come between any two steps of Task.                                  *)
(*                                                                         *)
(* Block i of a file belongs at the i-th slot of 256 bytes above             *)
(* APP_START_ADDRESS (uf2conv.py), so that the contents of a slot are named   *)
(* by the file they come from.  Slots are grouped in erase sectors.          *)
(*                                                                         *)
(* Simplifications: sectors without the UF2 magic or with another family     *)
(* change nothing and are left out, so are the FAT the host reads and the     *)
(* progress bar; USBD_EVENT_CONFIGURED comes between two blocks; all files    *)
(* have different numbers of blocks.                                         *)
(***************************************************************************)
EXTENDS Naturals

CONSTANTS
    Files,       \* the files the host has
    Count,       \* NumberOfBlock of each file
    Last,        \* the last slot of the flash
    SectorOf,    \* the erase sector of each slot
    Chunk,       \* CONFIG_BOOTUF2_CACHE_SIZE, in slots
    BlocksMax,   \* BOOTUF2_BLOCKSMAX
    Faults       \* what may go wrong, see FaultsAssumption

Slots == 0..Last
Sectors == {SectorOf[s] : s \in Slots}

\* NumberOfBlock after blocks of two files: 0xffffffff, above every count.
Never == Last + 2

ASSUME FilesAssumption ==
    /\ Last \in Nat /\ BlocksMax \in Nat \ {0}
    /\ Count \in [Files -> 1..(Last + 1)]
    /\ \A f, g \in Files : Count[f] = Count[g] => f = g
    /\ Files \cap {"erased", "junk"} = {}

\* Flash sectors are multiples of the cache: an aligned chunk lies in one.
Aligned(a) == \E k \in 0..a : a = k * Chunk

ASSUME LayoutAssumption ==
    /\ Chunk \in Nat \ {0}
    /\ \A a \in Slots : Aligned(a) =>
         \A k \in 0..(Chunk - 1) : a + k \in Slots => SectorOf[a + k] = SectorOf[a]

\* "reorder": blocks arrive in any order; "configured": the host enumerates
\* the device again with blocks in the cache; "program": a word cannot be
\* programmed; "second": a block of another file arrives in the few
\* instructions in which Task calls bootuf2_flash_write.
ASSUME FaultsAssumption == Faults \subseteq {"reorder", "configured", "program", "second"}

VARIABLES
    power,      \* what the chip does
    total,      \* bootuf2_STATE.NumberOfBlock
    mask,       \* bootuf2_STATE.Mask
    written,    \* bootuf2_STATE.NumberOfWritten
    address,    \* cached_address, as a slot
    bytes,      \* cached_bytes, in slots
    cache,      \* bootuf2_disk_cache
    erased,     \* erased_sectors_bitmap
    flash,      \* the contents of the slots
    unlocked,   \* FLASH_Unlock
    task,       \* where Task is
    call,       \* the arguments of Task's bootuf2_flash_write
    sent,       \* how many blocks of each file the host has got to
    only        \* the file of an undisturbed copy, or "any"

ram  == <<total, mask, written, address, bytes, cache, erased, unlocked, task, call, sent>>
vars == <<power, ram, flash, only>>

Contents == Files \cup {"erased", "junk"}

TypeOK ==
    /\ power \in {"off", "boot", "reset", "main", "hang"}
    /\ total \in 0..Never
    /\ mask \subseteq Slots
    /\ written \in 0..(Last + 1)
    /\ address \in Slots
    /\ bytes \in 0..Chunk
    /\ cache \in [0..(Chunk - 1) -> Contents]
    /\ erased \subseteq Sectors
    /\ flash \in [Slots -> Contents]
    /\ unlocked \in BOOLEAN
    /\ task \in {"poll", "flush", "call", "program", "end"}
    /\ call \in [address : Slots, size : 0..Chunk]
    /\ sent \in [Files -> 0..(Last + 1)]
    /\ only \in Files \cup {"any"}

\* The RAM after a start: bootuf2_STATE, bootuf2_disk, erased_sectors_bitmap.
FreshRam ==
    /\ total = 0 /\ mask = {} /\ written = 0
    /\ address = 0 /\ bytes = 0 /\ cache = [k \in 0..(Chunk - 1) |-> "junk"]
    /\ erased = {} /\ unlocked = FALSE
    /\ task = "poll" /\ call = [address |-> 0, size |-> 0]
    /\ sent = [f \in Files |-> 0]

LoseRam ==
    /\ total' = 0 /\ mask' = {} /\ written' = 0
    /\ address' = 0 /\ bytes' = 0 /\ cache' = [k \in 0..(Chunk - 1) |-> "junk"]
    /\ erased' = {} /\ unlocked' = FALSE
    /\ task' = "poll" /\ call' = [address |-> 0, size |-> 0]
    /\ sent' = [f \in Files |-> 0]

Init ==
    /\ power = "off" /\ only = "any"
    /\ flash = [s \in Slots |-> "junk"]
    /\ FreshRam

(***************************************************************************)
(* chip_rom.c                                                              *)
(***************************************************************************)

\* FLASH_EraseSector, unless the sector has been erased since the start.
EraseAlways(fl, er, sector) == [s \in Slots |-> IF SectorOf[s] = sector THEN "erased" ELSE fl[s]]   \* mutant
Erased(fl, er, sector) ==
    [s \in Slots |-> IF SectorOf[s] = sector /\ sector \notin er THEN "erased" ELSE fl[s]]

\* FLASH_ProgramWord clears bits only.
Programmed(old, new) == IF old \in {"erased", new} THEN new ELSE "junk"

\* The first n slots of the cache programmed from slot a on.
Program(fl, a, n) ==
    [s \in Slots |-> IF s >= a /\ s < a + n THEN Programmed(fl[s], cache[s - a]) ELSE fl[s]]

(***************************************************************************)
(* bootuf2.c                                                               *)
(***************************************************************************)

\* bootuf2block_check_writable
AlwaysWritable(i) == TRUE   \* mutant: a block the host repeats is taken again
Writable(i) == i \notin mask

\* bootuf2block_state_update: NumberOfBlock
TotalAfter(n) ==
    IF total = n THEN n
    ELSE IF n >= BlocksMax \/ total # 0 THEN Never ELSE n

\* bootuf2block_state_check
DoneTooLate == total \notin {0, Never} /\ written > total   \* mutant: off by one
Done == total \notin {0, Never} /\ written >= total

\* The cache must be flushed before block i goes into it.
FlushFirst(i) == (bytes # 0 /\ address + bytes # i) \/ bytes = Chunk

\* bootuf2_flash_flush, all of the cache programmed.
Flush ==
    /\ flash' = Program(Erased(flash, erased, SectorOf[address]), address, bytes)
    /\ erased' = erased \cup {SectorOf[address]}
    /\ unlocked' = FALSE

\* memcpy into the cache that holds n slots.
Insert(f, i, n) ==
    /\ cache' = [cache EXCEPT ![n] = f]
    /\ address' = i - n
    /\ bytes' = n + 1

\* bootuf2_flash_write_internal
Store(f, i) ==
    IF FlushFirst(i) THEN Flush /\ Insert(f, i, 0)
                     ELSE Insert(f, i, bytes) /\ UNCHANGED <<flash, erased, unlocked>>

\* A word fails: what was before it is programmed, the block is dropped.
StoreFails(i) ==
    /\ "program" \in Faults /\ only = "any"
    /\ FlushFirst(i)
    /\ \E n \in 0..(bytes - 1) : flash' = Program(Erased(flash, erased, SectorOf[address]), address, n)
    /\ erased' = erased \cup {SectorOf[address]}
    /\ unlocked' = FALSE
    /\ UNCHANGED <<cache, address, bytes>>

\* bootuf2block_state_update: the block is counted whether or not it was stored.
Account(f, i) ==
    /\ total' = TotalAfter(Count[f])
    /\ mask' = mask \cup {i}
    /\ written' = written + 1

\* The host goes through its files in order, any number of times.
InOrder(f, i) == i <= sent[f] \/ "reorder" \in Faults

Disturbs(f) == total # Count[f] /\ task = "call"

\* bootuf2_write_sector for block i of file f.
WriteSector(f, i) ==
    /\ power = "boot"
    /\ i < Count[f] /\ InOrder(f, i)
    /\ only \in {"any", f}
    /\ Disturbs(f) => "second" \in Faults
    /\ sent' = [sent EXCEPT ![f] = IF i < @ THEN @ ELSE i + 1]
    /\ IF Writable(i)
         THEN Account(f, i) /\ (Store(f, i) \/ StoreFails(i))
         ELSE UNCHANGED <<total, mask, written, cache, address, bytes, flash, erased, unlocked>>
    /\ UNCHANGED <<power, task, call, only>>

\* USBD_EVENT_CONFIGURED: bootuf2_init.
Configured ==
    /\ power = "boot"
    /\ (bytes = 0 /\ task = "poll") \/ ("configured" \in Faults /\ only = "any")
    /\ bytes' = 0 /\ address' = 0
    /\ UNCHANGED <<power, total, mask, written, cache, erased, unlocked, task, call, sent, flash, only>>

(***************************************************************************)
(* Task                                                                    *)
(***************************************************************************)

\* bootuf2_is_write_done
TaskPoll ==
    /\ power = "boot" /\ task = "poll" /\ Done
    /\ task' = "flush"
    /\ UNCHANGED <<power, total, mask, written, address, bytes, cache, erased, unlocked, call, sent, flash, only>>

\* bootuf2_flash_flush: the arguments of bootuf2_flash_write are loaded.
ForgetRest == "end"   \* mutant: the rest of the cache is not written
AfterFlushTest == IF bytes = 0 THEN "end" ELSE "call"

TaskFlush ==
    /\ power = "boot" /\ task = "flush"
    /\ task' = AfterFlushTest
    /\ call' = [address |-> address, size |-> bytes]
    /\ UNCHANGED <<power, total, mask, written, address, bytes, cache, erased, unlocked, sent, flash, only>>

\* FLASH_Unlock and the erase.
TaskErase ==
    /\ power = "boot" /\ task = "call"
    /\ LET sector == SectorOf[call.address] IN
         /\ flash' = Erased(flash, erased, sector)
         /\ erased' = erased \cup {sector}
    /\ unlocked' = TRUE
    /\ task' = "program"
    /\ UNCHANGED <<power, total, mask, written, address, bytes, cache, call, sent, only>>

\* The words, then cached_bytes = 0 and FLASH_Lock.  A flush by the mass
\* storage thread in between has locked the flash: every word fails.
TaskProgram ==
    /\ power = "boot" /\ task = "program"
    /\ \/ /\ unlocked
          /\ flash' = Program(flash, call.address, call.size)
          /\ bytes' = 0
       \/ /\ unlocked /\ "program" \in Faults /\ only = "any"
          /\ \E n \in 0..(call.size - 1) : flash' = Program(flash, call.address, n)
          /\ UNCHANGED bytes
       \/ /\ ~unlocked
          /\ UNCHANGED <<flash, bytes>>
    /\ unlocked' = FALSE
    /\ task' = "end"
    /\ UNCHANGED <<power, total, mask, written, address, cache, erased, call, sent, only>>

\* NVIC_SystemReset
TaskReset ==
    /\ power = "boot" /\ task = "end"
    /\ power' = "reset"
    /\ LoseRam
    /\ UNCHANGED <<flash, only>>

(***************************************************************************)
(* Start                                                                   *)
(***************************************************************************)

\* The button is held: msc_bootuf2_init.  From some time on the user lets one
\* copy of one file finish, and lets the button go.
Enter ==
    /\ power = "off" \/ (power = "reset" /\ only = "any")
    /\ power' = "boot"
    /\ \/ UNCHANGED only
       \/ only = "any" /\ only' \in Files
    /\ UNCHANGED <<ram, flash>>

\* Jump_To_Main looks at the first word of the program only.
StackPointer(contents) == CASE contents = "erased" -> {FALSE} [] contents = "junk" -> BOOLEAN [] OTHER -> {TRUE}

JumpToMain ==
    /\ power = "reset" \/ (power = "off" /\ only = "any")
    /\ \E ok \in StackPointer(flash[0]) : power' = IF ok THEN "main" ELSE "hang"
    /\ UNCHANGED <<ram, flash, only>>

\* The slots that a flush interrupted by the power cut may have damaged.
InFlush ==
    {s \in Slots : /\ bytes # 0 \/ task = "program"
                   /\ \/ s >= address /\ s < address + bytes
                      \/ task = "program" /\ s >= call.address /\ s < call.address + call.size
                      \/ SectorOf[s] = SectorOf[address] /\ SectorOf[address] \notin erased}

PowerCut ==
    /\ power # "off" /\ only = "any"
    /\ power' = "off"
    /\ \E damaged \in {{}, InFlush} :
         flash' = [s \in Slots |-> IF s \in damaged THEN "junk" ELSE flash[s]]
    /\ LoseRam
    /\ UNCHANGED only

-----------------------------------------------------------------------------
MscThread == \E f \in Files : \E i \in 0..(Count[f] - 1) : WriteSector(f, i)
Task == TaskPoll \/ TaskFlush \/ TaskErase \/ TaskProgram \/ TaskReset

Next == Enter \/ MscThread \/ Configured \/ Task \/ JumpToMain \/ PowerCut

Spec == Init /\ [][Next]_vars

\* The host goes on with the file of the undisturbed copy, and Task runs.
HostGoesOn == \E f \in Files : sent[f] < Count[f] /\ only = f /\ WriteSector(f, sent[f])

LiveSpec ==
    /\ Spec
    /\ WF_vars(HostGoesOn)
    /\ WF_vars(Task)
    /\ WF_vars(power = "reset" /\ JumpToMain)
    /\ WF_vars(only # "any" /\ Enter)

(***************************************************************************)
(* Properties                                                              *)
(***************************************************************************)

Installed(f) == \A i \in 0..(Count[f] - 1) : flash[i] = f

\* When the boot loader resets the chip, a whole file is in the flash: the
\* blocks were counted once each, none was left in the cache, none was
\* programmed over something else, and none is of another file
\* (bootuf2_is_write_done, bootuf2_flash_flush).
ResetMeansInstalled == power = "reset" => \E f \in Files : Installed(f)

InCache(f, i) == i >= address /\ i < address + bytes /\ cache[i - address] = f

\* As long as one file is being copied, every block that was counted is in
\* the flash or in the cache (bootuf2block_state_update against
\* bootuf2_flash_write_internal, whose result is ignored).
CountedIsKept ==
    \A f \in Files : total = Count[f] =>
        \A i \in mask : flash[i] = f \/ InCache(f, i)

\* As long as one file is being copied, words are programmed only where the
\* flash is erased, and a sector is never erased under blocks of the file
\* (bootuf2_flash_write erases the sector of the first address only).
FileIsNotDamaged ==
    [][\A f \in Files : total = Count[f] /\ total' = total =>
         \A i \in mask : flash[i] = f /\ ~InCache(f, i) => flash'[i] = f]_vars

\* Whatever earlier attempts, other files and power cuts have left behind: one
\* undisturbed copy of a file ends with the reset and the file installed.
CopyInstalls == \A f \in Files : Count[f] < BlocksMax => (only = f ~> power = "main" /\ Installed(f))
=============================================================================
