-------------------------- MODULE KvPersist_proofs --------------------------
(***************************************************************************)
(* Proofs about KvPersist: type correctness, that no setting is forgotten,  *)
(* and that a spoilt record is written again, for any set of settings.      *)
(***************************************************************************)
EXTENDS KvPersist, TLAPS

\* Outside a flush nothing is left of the copy of persist_dirty.
SnapshotUsed == basic = "idle" => snap = {}

\* While an entry is written, a variable that no longer is what the CRC was
\* computed from has been changed since: it is owed or marked.
ChangeSeen ==
    basic = "write" /\ ram[entry] # crc => entry \in owed \cup dirty \cup snap

\* A torn variable is being changed, or was restored from a torn record, and
\* then the record written from it is torn as a whole.
TornExplained ==
    \A e \in Entries : ram[e] = Torn /\ e \notin changing =>
        /\ flash[e] = Torn
        /\ basic = "write" /\ entry = e => crc = Torn

\* The LVGL task changes one variable at a time.
OneChange == \A e, f \in changing : e = f

Auxiliary == SnapshotUsed /\ ChangeSeen /\ TornExplained /\ OneChange

\* The inductive invariant.
Inv == TypeOK /\ Auxiliary /\ NothingForgotten

LEMMA RestoredIdempotent ==
    ASSUME NEW r
    PROVE  Restored(r) # Corrupt /\ Restored(Restored(r)) = Restored(r)
BY ValuesAssumption DEF Restored

\* The invariant holds after start-up.
LEMMA InitInv == Init => Inv
<1> SUFFICES ASSUME Init PROVE Inv
  OBVIOUS
<1>1. TypeOK
  BY ValuesAssumption DEF Init, TypeOK, Restored
<1>2. SnapshotUsed /\ ChangeSeen /\ OneChange
  BY DEF Init, SnapshotUsed, ChangeSeen, OneChange
<1>3. TornExplained
  BY ValuesAssumption DEF Init, TornExplained, Restored
<1>4. NothingForgotten
  BY DEF Init, NothingForgotten
<1> QED
  BY <1>1, <1>2, <1>3, <1>4 DEF Inv, Auxiliary

\* Type correctness is inductive by itself.
LEMMA NextTypeOK == TypeOK /\ [Next]_vars => TypeOK'
<1> SUFFICES ASSUME TypeOK, [Next]_vars PROVE TypeOK'
  OBVIOUS
<1> USE ValuesAssumption DEF TypeOK
<1>1. ASSUME NEW e \in Entries, BeginChange(e) PROVE TypeOK'
  BY <1>1 DEF BeginChange, bt
<1>2. ASSUME NEW e \in Entries, EndChange(e) PROVE TypeOK'
  BY <1>2 DEF EndChange, bt
<1>3. ASSUME NEW e \in Entries, Change(e) PROVE TypeOK'
  BY <1>3 DEF Change, bt
<1>4. ASSUME NEW e \in Entries, Mark(e) PROVE TypeOK'
  BY <1>4 DEF Mark, Marked, AfterChange, bt
<1>5. CASE StopChanging
  BY <1>5 DEF StopChanging, bt
<1>6. CASE StartFlush
  BY <1>6 DEF StartFlush, ui
<1>7. CASE BeginWrite
  BY <1>7 DEF BeginWrite, ui
<1>8. CASE EndWrite
  BY <1>8 DEF EndWrite, Record, ui
<1>9. CASE FailWrite
  BY <1>9 DEF FailWrite, MarkAgain, ui
<1>10. CASE EndFlush
  BY <1>10 DEF EndFlush, ui
<1>11. CASE Reboot
  BY <1>11 DEF Reboot, Restored
<1>12. CASE UNCHANGED vars
  BY <1>12 DEF vars, ui, bt
<1> QED
  BY <1>1, <1>2, <1>3, <1>4, <1>5, <1>6, <1>7, <1>8, <1>9, <1>10, <1>11, <1>12
  DEF Next, Pages, Flush

\* The auxiliary parts.
LEMMA NextAuxiliary == Inv /\ [Next]_vars => Auxiliary'
<1> SUFFICES ASSUME Inv, [Next]_vars PROVE Auxiliary'
  OBVIOUS
<1> USE ValuesAssumption DEF TypeOK, SnapshotUsed, ChangeSeen, TornExplained, OneChange
<1>1. ASSUME NEW e \in Entries, BeginChange(e) PROVE Auxiliary'
  BY <1>1 DEF Inv, Auxiliary, BeginChange, bt
<1>2. ASSUME NEW e \in Entries, EndChange(e) PROVE Auxiliary'
  BY <1>2 DEF Inv, Auxiliary, EndChange, bt
<1>3. ASSUME NEW e \in Entries, Change(e) PROVE Auxiliary'
  BY <1>3 DEF Inv, Auxiliary, Change, bt
<1>4. ASSUME NEW e \in Entries, Mark(e) PROVE Auxiliary'
  BY <1>4 DEF Inv, Auxiliary, Mark, Marked, AfterChange, bt
<1>5. CASE StopChanging
  BY <1>5 DEF Inv, Auxiliary, StopChanging, bt
<1>6. CASE StartFlush
  BY <1>6 DEF Inv, Auxiliary, StartFlush, ui
<1>7. CASE BeginWrite
  BY <1>7 DEF Inv, Auxiliary, BeginWrite, ui
<1>8. CASE EndWrite
  BY <1>8 DEF Inv, Auxiliary, EndWrite, Record, ui
<1>9. CASE FailWrite
  BY <1>9 DEF Inv, Auxiliary, FailWrite, MarkAgain, ui
<1>10. CASE EndFlush
  BY <1>10 DEF Inv, Auxiliary, EndFlush, ui
<1>11. CASE Reboot
  BY <1>11 DEF Inv, Auxiliary, Reboot, Restored
<1>12. CASE UNCHANGED vars
  BY <1>12 DEF Inv, Auxiliary, vars, ui, bt
<1> QED
  BY <1>1, <1>2, <1>3, <1>4, <1>5, <1>6, <1>7, <1>8, <1>9, <1>10, <1>11, <1>12
  DEF Next, Pages, Flush

\* The safety property itself: only the end of a write and a reboot need more
\* than the way an entry takes from owed over dirty and snap to the write.
LEMMA NextForgets == Inv /\ [Next]_vars => NothingForgotten'
<1> SUFFICES ASSUME Inv, [Next]_vars PROVE NothingForgotten'
  OBVIOUS
<1> USE DEF Inv, TypeOK, NothingForgotten, InFlight
<1>1. ASSUME NEW e \in Entries, BeginChange(e) PROVE NothingForgotten'
  BY <1>1 DEF BeginChange, bt
<1>2. ASSUME NEW e \in Entries, EndChange(e) PROVE NothingForgotten'
  BY <1>2 DEF EndChange, bt
<1>3. ASSUME NEW e \in Entries, Change(e) PROVE NothingForgotten'
  BY <1>3 DEF Change, bt
<1>4. ASSUME NEW e \in Entries, Mark(e) PROVE NothingForgotten'
  BY <1>4 DEF Mark, Marked, bt
<1>5. CASE StopChanging
  BY <1>5 DEF StopChanging, bt
<1>6. CASE StartFlush
  BY <1>6 DEF StartFlush, Auxiliary, SnapshotUsed, ui
<1>7. CASE BeginWrite
  BY <1>7 DEF BeginWrite, ui
<1>8. CASE EndWrite
  <2>1. ASSUME NEW e \in Entries, e # entry, ram'[e] # Restored(flash'[e])
        PROVE  e \in owed' \/ InFlight(e)'
    BY <1>8, <2>1 DEF EndWrite, ui
  <2>2. CASE crc = ram[entry]
    <3>1. ram'[entry] = Restored(flash'[entry])
      BY <1>8, <2>2, ValuesAssumption DEF EndWrite, Record, Restored
    <3> QED
      BY <2>1, <3>1
  <2>3. CASE crc # ram[entry]
    <3>1. entry \in owed' \/ InFlight(entry)'
      BY <1>8, <2>3 DEF EndWrite, Auxiliary, ChangeSeen, ui
    <3> QED
      BY <1>8, <2>1, <3>1 DEF EndWrite
  <2> QED
    BY <2>2, <2>3
<1>9. CASE FailWrite
  BY <1>9 DEF FailWrite, MarkAgain, ui
<1>10. CASE EndFlush
  BY <1>10 DEF EndFlush, ui
<1>11. CASE Reboot
  BY <1>11 DEF Reboot, Restored
<1>12. CASE UNCHANGED vars
  BY <1>12 DEF vars, ui, bt
<1> QED
  BY <1>1, <1>2, <1>3, <1>4, <1>5, <1>6, <1>7, <1>8, <1>9, <1>10, <1>11, <1>12
  DEF Next, Pages, Flush

\* The invariant holds in every reachable state.
THEOREM Invariance == Spec => []Inv
<1>1. Init => Inv
  BY InitInv
<1>2. Inv /\ [Next]_vars => Inv'
  BY NextTypeOK, NextAuxiliary, NextForgets DEF Inv
<1> QED
  BY <1>1, <1>2, PTL DEF Spec

\* The variables keep their types (kvdb_ctrl.c: the dirty bits are those of
\* persist_entries, what a flush writes is a value of the variable).
THEOREM TypeCorrect == Spec => []TypeOK
<1>1. Inv => TypeOK
  BY DEF Inv
<1> QED
  BY <1>1, Invariance, PTL

\* kvdb_persist_mark and kvdb_persist_flush never forget a changed setting,
\* whatever the interleaving of pages, flush, errors and power cuts.
THEOREM NoSettingForgotten == Spec => []NothingForgotten
<1>1. Inv => NothingForgotten
  BY DEF Inv
<1> QED
  BY <1>1, Invariance, PTL

\* A record that a change in the middle of fdb_kv_set_blob has spoilt belongs
\* to an entry that is still to be marked or written.
THEOREM SpoiltRecordsRewritten == Spec => SpoiltIsRewritten
<1>1. ASSUME Inv, [Next]_vars, NEW e \in Entries,
             flash'[e] \notin Values, flash'[e] # flash[e]
      PROVE  e \in owed' \/ InFlight(e)'
  <2>1. EndWrite /\ e = entry
    BY <1>1 DEF Next, Pages, Flush, BeginChange, EndChange, Change, Mark, StopChanging,
       StartFlush, BeginWrite, EndWrite, FailWrite, EndFlush, Reboot, vars, Inv, TypeOK
  <2>2. CASE ram[e] # crc
    BY <1>1, <2>1, <2>2 DEF EndWrite, Inv, Auxiliary, ChangeSeen, InFlight, ui
  <2>3. CASE ram[e] = crc
    <3>1. ram[e] = Torn
      BY <1>1, <2>1, <2>3 DEF EndWrite, Record, Inv, TypeOK
    <3>2. e \in changing
      BY <1>1, <2>1, <2>3, <3>1 DEF EndWrite, Record, Inv, Auxiliary, TypeOK, TornExplained
    <3> QED
      BY <1>1, <2>1, <3>2 DEF EndWrite, Inv, TypeOK, ui
  <2> QED
    BY <2>2, <2>3
<1>2. Inv /\ [Next]_vars =>
        [\A e \in Entries :
            flash'[e] \notin Values /\ flash'[e] # flash[e]
              => e \in owed' \/ InFlight(e)']_vars
  BY <1>1
<1> QED
  BY <1>2, Invariance, PTL DEF Spec, SpoiltIsRewritten
=============================================================================
