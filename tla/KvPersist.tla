------------------------------ MODULE KvPersist ------------------------------
(***************************************************************************)
(* The persistent settings: kvdb_persist_mark, kvdb_persist_flush and      *)
(* kvdb_persist_load of 4-ware/Utils/kvdb_ctrl.c with the callers that      *)
(* change the kv_ variables, and the power cut.                             *)
(*                                                                         *)
(* The pages of the LVGL task (priority 2) change a variable and mark it    *)
(* afterwards, the sliders only when the control centre closes; the Basic   *)
(* task (3) flushes every 20 ms and waits for the flash inside each write,   *)
(* so the LVGL task runs in the middle of a flush.  fdb_kv_set_blob gets a   *)
(* pointer to the variable: it reads it once for the CRC of the record and  *)
(* once more when it writes the record.                                     *)
(*                                                                         *)
(* Simplifications: Torn stands for what a variable holds in the middle of  *)
(* a change (music_unit.c steps kv_music_switch_method to 3 and back to 0,   *)
(* kv_es9018_cfg is a structure); FlashDB replaces a record atomically and   *)
(* falls back to the compile-time default when its CRC is wrong.            *)
(***************************************************************************)
EXTENDS FiniteSets, Naturals

CONSTANTS
    Entries,    \* persist_entries
    Values,     \* settings the user can choose
    Default,    \* the initialisers in variables.c, one of Values
    Torn,       \* a variable in the middle of a change
    Corrupt     \* a record whose CRC does not match, or no record

ASSUME ValuesAssumption ==
    /\ Default \in Values
    /\ Torn \notin Values /\ Corrupt \notin Values /\ Torn # Corrupt

VARIABLES
    ram,        \* the kv_ variables
    dirty,      \* persist_dirty
    flash,      \* the records of kvdb
    owed,       \* entries changed and not yet marked
    changing,   \* entries in the middle of a change
    quiet,      \* the user has stopped changing settings
    basic,      \* where the Basic task is in kvdb_persist_flush
    snap,       \* its local copy of persist_dirty, less what it has written
    entry,      \* the entry it writes
    crc         \* the value the CRC of the record was computed from

ui  == <<owed, changing, quiet>>
bt  == <<basic, snap, entry, crc>>
vars == <<ram, dirty, flash, ui, bt>>

TypeOK ==
    /\ ram \in [Entries -> Values \cup {Torn}]
    /\ flash \in [Entries -> Values \cup {Torn, Corrupt}]
    /\ dirty \subseteq Entries /\ owed \subseteq Entries /\ changing \subseteq owed
    /\ quiet \in BOOLEAN
    /\ basic \in {"idle", "loop", "write"}
    /\ snap \subseteq Entries
    /\ entry \in Entries
    /\ crc \in Values \cup {Torn}

\* What kvdb_persist_load leaves in a variable.
Restored(record) == IF record = Corrupt THEN Default ELSE record

\* The record fdb_kv_set_blob makes of a variable read twice.
Record(first, second) == IF first = second THEN second ELSE Corrupt

\* The bits after kvdb_persist_mark.
MarkUnlessWriting(e) ==   \* mutant: an entry that is being written is not marked
    IF basic = "write" /\ entry = e THEN dirty ELSE dirty \cup {e}
Marked(e) == dirty \cup {e}

\* The LVGL task is between two changes: a page marks a setting afterwards.
AfterChange == changing = {}

\* A failed write marks the entry again.
ForgetFailed(e) == dirty   \* mutant: the result is not looked at
MarkAgain(e) == dirty \cup {e}

Init ==
    /\ flash \in [Entries -> Values \cup {Corrupt}]
    /\ ram = [e \in Entries |-> Restored(flash[e])]
    /\ dirty = {} /\ owed = {} /\ changing = {} /\ quiet = FALSE
    /\ basic = "idle" /\ snap = {} /\ entry \in Entries /\ crc = Default

(***************************************************************************)
(* The LVGL task                                                           *)
(***************************************************************************)

\* The first store of a change made of several.
BeginChange(e) ==
    /\ ~quiet /\ changing = {}
    /\ ram' = [ram EXCEPT ![e] = Torn]
    /\ changing' = {e}
    /\ owed' = owed \cup {e}
    /\ UNCHANGED <<dirty, flash, quiet, bt>>

EndChange(e) ==
    /\ e \in changing
    /\ \E v \in Values : ram' = [ram EXCEPT ![e] = v]
    /\ changing' = {}
    /\ UNCHANGED <<dirty, flash, owed, quiet, bt>>

\* A setting that is one byte and is stored once.
Change(e) ==
    /\ ~quiet /\ changing = {}
    /\ \E v \in Values : ram' = [ram EXCEPT ![e] = v]
    /\ owed' = owed \cup {e}
    /\ UNCHANGED <<dirty, flash, changing, quiet, bt>>

\* kvdb_persist_mark.  Remove_Control_Center marks its three sliders whether
\* they moved or not.
Mark(e) ==
    /\ AfterChange
    /\ dirty' = Marked(e)
    /\ owed' = owed \ {e}
    /\ UNCHANGED <<ram, flash, changing, quiet, bt>>

\* The user leaves the settings alone; the pages have marked what they changed.
StopChanging ==
    /\ owed = {} /\ ~quiet
    /\ quiet' = TRUE
    /\ UNCHANGED <<ram, dirty, flash, owed, changing, bt>>

(***************************************************************************)
(* kvdb_persist_flush                                                      *)
(***************************************************************************)

StartFlush ==
    /\ basic = "idle"
    /\ snap' = dirty
    /\ dirty' = {}
    /\ basic' = "loop"
    /\ UNCHANGED <<ram, flash, ui, entry, crc>>

\* fdb_kv_set_blob up to the CRC of the record.
BeginWrite ==
    /\ basic = "loop"
    /\ \E e \in snap :
          /\ entry' = e
          /\ crc' = ram[e]
          /\ snap' = snap \ {e}
    /\ basic' = "write"
    /\ UNCHANGED <<ram, dirty, flash, ui>>

\* The record is written and replaces the old one.
EndWrite ==
    /\ basic = "write"
    /\ flash' = [flash EXCEPT ![entry] = Record(crc, ram[entry])]
    /\ basic' = "loop"
    /\ UNCHANGED <<ram, dirty, ui, snap, entry, crc>>

\* FlashDB reports an error (no room); the old record stays.
FailWrite ==
    /\ basic = "write"
    /\ dirty' = MarkAgain(entry)
    /\ basic' = "loop"
    /\ UNCHANGED <<ram, flash, ui, snap, entry, crc>>

EndFlush ==
    /\ basic = "loop" /\ snap = {}
    /\ basic' = "idle"
    /\ UNCHANGED <<ram, dirty, flash, ui, snap, entry, crc>>

\* A power cut, and kvdb_persist_load in Start_Task.
Reboot ==
    /\ ram' = [e \in Entries |-> Restored(flash[e])]
    /\ dirty' = {} /\ owed' = {} /\ changing' = {}
    /\ basic' = "idle" /\ snap' = {}
    /\ UNCHANGED <<flash, quiet, entry, crc>>

-----------------------------------------------------------------------------
Pages(e) == BeginChange(e) \/ EndChange(e) \/ Change(e) \/ Mark(e)
Flush    == StartFlush \/ BeginWrite \/ EndWrite \/ FailWrite \/ EndFlush

Next ==
    \/ \E e \in Entries : Pages(e)
    \/ StopChanging
    \/ Flush
    \/ Reboot

Spec == Init /\ [][Next]_vars

\* Basic_Task flushes in every turn of its loop, and FlashDB does not fail for
\* ever (its garbage collection makes room).
LiveSpec == Spec /\ WF_vars(Flush) /\ \A e \in Entries : SF_vars(EndWrite /\ entry = e)

(***************************************************************************)
(* Properties                                                              *)
(***************************************************************************)

\* The flush is about to write the entry, or will write it again.
InFlight(e) == e \in dirty \cup snap \/ (basic = "write" /\ entry = e)

\* No setting is forgotten: what a power cut would bring back differs from
\* what the user sees only for entries that are still on their way to the
\* flash, or whose page has not marked them yet.
NothingForgotten ==
    \A e \in Entries :
        ram[e] # Restored(flash[e]) => e \in owed \/ InFlight(e)

\* A record spoilt by a change in the middle of its write is written again.
\* Torn values that did reach the flash likewise.
SpoiltIsRewritten ==
    [][\A e \in Entries :
          flash'[e] \notin Values /\ flash'[e] # flash[e]
            => e \in owed' \/ InFlight(e)' ]_vars

\* Once the user is quiet the settings reach the flash and stay there.
SettingsReachFlash ==
    quiet ~> [](\A e \in Entries : Restored(flash[e]) = ram[e])
=============================================================================
