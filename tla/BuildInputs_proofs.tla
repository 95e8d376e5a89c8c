------------------------- MODULE BuildInputs_proofs -------------------------
(***************************************************************************)
(* What holds of BuildInputs for any number of targets, faults, edits and  *)
(* sessions: types, no file of anyone else is lost, a running worker never *)
(* sees a half-restored project, and what nobody edited comes back.        *)
(***************************************************************************)
EXTENDS BuildInputs, TLAPS

-----------------------------------------------------------------------------
(* Helpers.                                                                *)

LEMMA BlankType == Blank \in Memory
  BY DEF Blank, Memory, Row, Rows, Nothing, File, Objects, Own

\* A row replaced by a typed row keeps the memory typed.
LEMMA RowUpdate ==
  ASSUME NEW m \in Memory, NEW i \in Targets, NEW r \in Rows
  PROVE  [m EXCEPT !.rows[i] = r] \in Memory
  BY DEF Memory

LEMMA ConflictType ==
  ASSUME NEW m \in Memory, NEW i \in Targets
  PROVE  Conflict(m, i) \in Memory
<1>1. [m.rows[i] EXCEPT !.conflict = "yes"] \in Rows
  BY DEF Memory, Rows
<1>2. Conflict(m, i) = [m EXCEPT !.rows[i] = [m.rows[i] EXCEPT !.conflict = "yes"]]
  BY DEF Conflict
<1> QED BY <1>1, <1>2, RowUpdate

\* What an error does to the process.
LEMMA UnsavedTypes ==
  ASSUME ProcType, NEW m \in Memory, Refuse(m), failed' \in {"no",
           "yes"} \/ phase \notin {"build", "restore"}, pc # "done"
  PROVE  ProcType'
<1>1. CASE phase = "restore"
  <2>1. k \in Targets
    BY <1>1 DEF ProcType
  <2>2. mem' = Conflict(m, k)
    BY <1>1 DEF Refuse, Conflict
  <2>3. mem' \in Memory
    BY <2>1, <2>2, ConflictType
  <2> QED BY <1>1, <2>1, <2>3 DEF ProcType, Refuse, Labels, AtRow, Targets
<1>2. CASE phase = "build"
  BY <1>2 DEF ProcType, Refuse, Labels, AtRow
<1>3. CASE phase \notin {"build", "restore"}
  BY <1>3, BlankType, BatchAssumption DEF ProcType, Refuse, End, Labels, AtRow
<1> QED BY <1>1, <1>2, <1>3

LEMMA EndTypes == ASSUME ProcType, End PROVE ProcType'
  BY BlankType, BatchAssumption DEF ProcType, End, Labels, AtRow

LEMMA SaveTypes ==
  ASSUME DiskType, ProcType, NEW m \in Memory, NEW l \in Labels, Save(m, l), pc # "done",
         l \in AtRow => k \in Targets, l \in {"stage", "forward", "done"} => k > 0,
         phase = "restore" => l \in AtRow \cup {"done"}, faults \in 0 .. MaxFaults
  PROVE  /\ ProcType' /\ log' \in Memory /\ seq' \in Nat /\ stray' \subseteq {"control", "probe"}
         /\ faults' \in 0 .. MaxFaults
<1>1. CASE /\ log' = m /\ seq' = seq + 1 /\ mem' = m /\ pc' = l
           /\ UNCHANGED <<mode, phase, k, job, failed, raising, errs, stray, faults>>
  BY <1>1 DEF ProcType, DiskType
<1>2. CASE Unsaved(m) /\ UNCHANGED <<log, seq, stray, faults>>
  <2>1. ProcType'
    BY <1>2, UnsavedTypes DEF Unsaved, ProcType
  <2> QED BY <1>2, <2>1 DEF DiskType
<1>3. CASE /\ faults < MaxFaults /\ faults' = faults + 1
           /\ Refuse(m) /\ (phase \in {"build", "restore"} => failed' = "yes")
           /\ \/ UNCHANGED <<log, seq, stray>>
              \/ stray' = stray \cup {"control"} /\ UNCHANGED <<log, seq>>
              \/ log' = m /\ seq' = seq + 1 /\ UNCHANGED stray
  <2>0. failed' \in {"no", "yes"} \/ phase \notin {"build", "restore"}
    BY <1>3
  <2>1. Refuse(m)
    BY <1>3
  <2>3. ProcType'
    BY <2>0, <2>1, UnsavedTypes
  <2>2. log' \in Memory /\ seq' \in Nat /\ stray' \subseteq {"control", "probe"}
    <3>1. CASE UNCHANGED <<log, seq, stray>>
      BY <3>1 DEF DiskType
    <3>2. CASE stray' = stray \cup {"control"} /\ UNCHANGED <<log, seq>>
      BY <3>2 DEF DiskType
    <3>3. CASE log' = m /\ seq' = seq + 1 /\ UNCHANGED stray
      BY <3>3 DEF DiskType
    <3> QED BY <1>3, <3>1, <3>2, <3>3
  <2> QED BY <1>3, <2>3, <2>2, BoundAssumption
<1> QED BY <1>1, <1>2, <1>3 DEF Save

\* A settled row is a row.
LEMMA SettledType ==
  ASSUME FileType, NEW i \in Targets, NEW r \in Rows
  PROVE  Settled(i, r) \in Rows
<1>1. \A m \in Moves : Dest(m) \in Places /\ Field(m) \in {"original", "new"}
  BY DEF Moves, Dest, Field, Places
<1>2. \A p \in Places : file[i][p] \in File
  BY DEF FileType
<1> QED BY <1>1, <1>2 DEF Settled, Rows

LEMMA NothingFile == Nothing \in File
  BY DEF Nothing, File, Objects, Own

-----------------------------------------------------------------------------
(* Types.                                                                  *)

LEMMA TypeInit == Init => TypeOK
<1> SUFFICES ASSUME Init PROVE TypeOK
  OBVIOUS
<1>1. FileType
  BY NothingFile DEF Init, FileType, Fresh, File, Objects, Own
<1>2. DiskType
  BY BlankType DEF Init, DiskType
<1>3. ProcType
  BY BlankType, BatchAssumption DEF Init, ProcType, Labels, AtRow
<1>4. kept \in [Targets -> SUBSET Objects]
  BY DEF Init, Objects, Own
<1>5. RestType
  BY <1>4, BoundAssumption DEF Init, RestType
<1> QED BY <1>1, <1>2, <1>3, <1>5 DEF TypeOK

\* Every step keeps the types.
LEMMA TypeStep ==
  TypeOK /\ [Next]_vars => TypeOK'
<1> SUFFICES ASSUME TypeOK, [Next]_vars PROVE TypeOK'
  OBVIOUS
<1> USE DEF TypeOK
<1>1. ASSUME MoveBegin PROVE TypeOK'
  <2> DEFINE can == /\ file[k][Source(job)] = mem.rows[k][Field(job)]
                    /\ file[k][Source(job)] # Nothing /\ file[k][Dest(job)] = Nothing
  <2>1. CASE can
    <3>1. Save([mem EXCEPT !.rows[k].move = job], "rename")
      BY <1>1, <2>1 DEF MoveBegin, Kept
    <3>2. k \in Targets
      BY <1>1 DEF MoveBegin, ProcType, AtRow
    <3>3. [mem.rows[k] EXCEPT !.move = job] \in Rows
      BY <3>2 DEF ProcType, Memory, Rows
    <3>4. [mem EXCEPT !.rows[k].move = job] \in Memory
      BY <3>2, <3>3, RowUpdate DEF ProcType
    <3>5. pc # "done"
      BY <1>1 DEF MoveBegin
    <3>8. ProcType' /\ log' \in Memory /\ seq' \in Nat /\ stray' \subseteq {"control",
             "probe"} /\ faults' \in 0 .. MaxFaults
      BY <1>1, <2>1, <3>1, <3>2, <3>4, <3>5, SaveTypes DEF MoveBegin, RestType, Labels, AtRow,
        Targets
    <3> QED BY <1>1, <2>1, <3>8 DEF MoveBegin, Kept, Outside, ghost, RestType, FileType, DiskType
  <2>2. CASE ~(can)
    <3>9. ProcType'
      BY <1>1, <2>2, UnsavedTypes DEF MoveBegin, Raise, Unsaved, ProcType
    <3> QED BY <1>1, <2>2, <3>9 DEF MoveBegin, Outside, ghost, disk, RestType, FileType, DiskType
  <2> QED BY <2>1, <2>2
<1>2. ASSUME MoveRename PROVE TypeOK'
  <2>1. k \in Targets
    BY <1>2 DEF MoveRename, ProcType, AtRow
  <2>2. Source(job) \in Places
    BY DEF Source, Places
  <2>3. [file[k][Source(job)] EXCEPT !.t = @ + 1] \in File
    BY <2>1, <2>2 DEF FileType, File
  <2>4. FileType'
    <3>1. CASE Shift(k, job)
      BY <2>1, <2>3, <3>1, NothingFile DEF Shift, FileType
    <3>2. CASE UNCHANGED file
      BY <3>2 DEF FileType
    <3> QED BY <1>2, <3>1, <3>2 DEF MoveRename
  <2> QED BY <1>2, <2>1, <2>4, BoundAssumption DEF MoveRename, Outside, ghost, disk, DiskType,
      ProcType, RestType, Labels, AtRow
<1>3. ASSUME MoveSettle PROVE TypeOK'
  <2>1. CASE Settleable(k, mem.rows[k])
    <3>1. Save([mem EXCEPT !.rows[k] = Settled(k, mem.rows[k])], "moved")
      BY <1>3, <2>1 DEF MoveSettle, Kept
    <3>2. k \in Targets
      BY <1>3 DEF MoveSettle, ProcType, AtRow
    <3>3. Settled(k, mem.rows[k]) \in Rows
      BY <3>2, SettledType DEF ProcType, Memory
    <3>4. [mem EXCEPT !.rows[k] = Settled(k, mem.rows[k])] \in Memory
      BY <3>2, <3>3, RowUpdate DEF ProcType
    <3>8. ProcType' /\ log' \in Memory /\ seq' \in Nat /\ stray' \subseteq {"control",
             "probe"} /\ faults' \in 0 .. MaxFaults
      BY <1>3, <2>1, <3>1, <3>2, <3>4, SaveTypes DEF MoveSettle, RestType, Labels, AtRow,
        Targets
    <3> QED BY <1>3, <2>1, <3>8 DEF MoveSettle, Kept, Outside, ghost, RestType, FileType, DiskType
  <2>2. CASE ~(Settleable(k, mem.rows[k]))
    <3>1. k \in Targets
      BY <1>3 DEF MoveSettle, ProcType, AtRow
    <3>2. Conflict(mem, k) \in Memory
      BY <3>1, ConflictType DEF ProcType
    <3>9. ProcType'
      BY <1>3, <2>2, <3>2, UnsavedTypes DEF MoveSettle, Unsaved, ProcType
    <3> QED BY <1>3, <2>2, <3>9 DEF MoveSettle, Outside, ghost, disk, RestType, FileType, DiskType
  <2> QED BY <2>1, <2>2
<1>4. ASSUME Moved PROVE TypeOK'
  <2>1. CASE raising = "yes"
    <3>1. ProcType'
      BY <1>4, <2>1, UnsavedTypes DEF Moved, Raise, Unsaved, ProcType
    <3> QED BY <1>4, <2>1, <3>1 DEF Moved, Outside, ghost, disk, FileType, DiskType, RestType
  <2>2. CASE raising # "yes"
    BY <1>4, <2>2, BatchAssumption DEF Moved, Goto, Moves, Targets, Outside, ghost, disk,
      counts, proc, FileType, DiskType, ProcType, RestType, Labels, AtRow
  <2> QED BY <2>1, <2>2
<1>5. ASSUME Mkdir PROVE TypeOK'
  BY <1>5, BatchAssumption, BoundAssumption DEF Mkdir, Goto, Moves, Targets, Outside, ghost,
    disk, counts, proc, FileType, DiskType, ProcType, RestType, Labels, AtRow
<1>6. ASSUME MakeScratch PROVE TypeOK'
  BY <1>6, BatchAssumption, BoundAssumption DEF MakeScratch, Goto, Moves, Targets, Outside,
    ghost, disk, counts, proc, FileType, DiskType, ProcType, RestType, Labels, AtRow
<1>7. ASSUME PublishHeader PROVE TypeOK'
  BY <1>7, BatchAssumption, BoundAssumption DEF PublishHeader, Goto, Moves, Targets, Outside,
    ghost, disk, counts, proc, FileType, DiskType, ProcType, RestType, Labels, AtRow
<1>8. ASSUME FirstCheckpoint PROVE TypeOK'
  <2>1. Save(mem, "plan")
    BY <1>8 DEF FirstCheckpoint, Kept
  <2>2. phase # "restore" /\ mem \in Memory
    BY <1>8 DEF FirstCheckpoint, ProcType, AtRow
  <2>8. ProcType' /\ log' \in Memory /\ seq' \in Nat /\ stray' \subseteq {"control",
           "probe"} /\ faults' \in 0 .. MaxFaults
    BY <1>8, <2>1, <2>2, SaveTypes DEF FirstCheckpoint, RestType, Labels, AtRow, Targets
  <2> QED BY <1>8, <2>8 DEF FirstCheckpoint, Kept, Outside, ghost, RestType, FileType, DiskType
<1>9. ASSUME Plan PROVE TypeOK'
  <2> DEFINE rows == [i \in Targets |-> [Row EXCEPT !.original = file[i]["target"]]]
  <2>1. rows \in [Targets -> Rows]
    BY DEF FileType, Row, Rows, Nothing, File, Objects, Own, Places
  <2> HIDE DEF rows
  <2>2. mem' \in Memory
    BY <1>9, <2>1 DEF Plan, ProcType, Memory, rows
  <2> QED BY <1>9, <2>2 DEF Plan, Outside, ghost, disk, counts, proc, FileType, DiskType, ProcType,
      RestType, Labels, AtRow
<1>10. ASSUME ProbeStart PROVE TypeOK'
  BY <1>10, BatchAssumption, BoundAssumption DEF ProbeStart, Goto, Moves, Targets, Outside,
    ghost, disk, counts, proc, FileType, DiskType, ProcType, RestType, Labels, AtRow
<1>11. ASSUME ProbeEnd PROVE TypeOK'
  BY <1>11, BatchAssumption, BoundAssumption DEF ProbeEnd, Goto, Moves, Targets, Outside, ghost,
    disk, counts, proc, FileType, DiskType, ProcType, RestType, Labels, AtRow
<1>12. ASSUME Stage PROVE TypeOK'
  <2>1. k \in Targets
    BY <1>12 DEF Stage, ProcType, Targets
  <2>2. Fresh("new") \in File
    BY DEF Fresh, File, Objects, Own
  <2>3. [mem.rows[k] EXCEPT !.new = Fresh("new")] \in Rows
    BY <2>1, <2>2 DEF ProcType, Memory, Rows
  <2>4. mem' \in Memory
    BY <1>12, <2>1, <2>3, RowUpdate DEF Stage, ProcType
  <2>5. FileType'
    BY <1>12, <2>1, <2>2 DEF Stage, FileType
  <2> QED BY <1>12, <2>1, <2>4, <2>5, BatchAssumption DEF Stage, Targets, Outside, ghost, disk,
      DiskType, ProcType, RestType, Labels, AtRow
<1>13. ASSUME PublishIntent PROVE TypeOK'
  BY <1>13, BatchAssumption, BoundAssumption DEF PublishIntent, Goto, Moves, Targets, Outside,
    ghost, disk, counts, proc, FileType, DiskType, ProcType, RestType, Labels, AtRow
<1>14. ASSUME Prepare PROVE TypeOK'
  <2>1. Save([mem EXCEPT !.prepared = "yes"], "verify")
    BY <1>14 DEF Prepare, Kept
  <2>2. phase # "restore" /\ [mem EXCEPT !.prepared = "yes"] \in Memory
    BY <1>14 DEF Prepare, ProcType, AtRow, Memory
  <2>8. ProcType' /\ log' \in Memory /\ seq' \in Nat /\ stray' \subseteq {"control",
           "probe"} /\ faults' \in 0 .. MaxFaults
    BY <1>14, <2>1, <2>2, SaveTypes DEF Prepare, RestType, Labels, AtRow, Targets
  <2> QED BY <1>14, <2>8 DEF Prepare, Kept, Outside, ghost, RestType, FileType, DiskType
<1>15. ASSUME Verify PROVE TypeOK'
  <2>1. CASE \A i \in Targets : file[i]["target"] = mem.rows[i].original
    BY <1>15, <2>1, BatchAssumption DEF Verify, Moves, Targets, Outside, ghost, disk, counts,
      proc, FileType, DiskType, ProcType, RestType, Labels, AtRow
  <2>2. CASE ~ \A i \in Targets : file[i]["target"] = mem.rows[i].original
    <3>1. ProcType'
      BY <1>15, <2>2, UnsavedTypes DEF Verify, Raise, Unsaved, ProcType
    <3> QED BY <1>15, <2>2, <3>1 DEF Verify, Outside, ghost, disk, FileType, DiskType, RestType
  <2> QED BY <2>1, <2>2
<1>16. ASSUME Forward PROVE TypeOK'
  BY <1>16, BatchAssumption, BoundAssumption DEF Forward, Goto, Moves, Targets, Outside, ghost,
    disk, counts, proc, FileType, DiskType, ProcType, RestType, Labels, AtRow
<1>17. ASSUME LeaveBody PROVE TypeOK'
  BY <1>17, BatchAssumption, BoundAssumption DEF LeaveBody, Goto, Moves, Targets, Outside,
    ghost, disk, counts, proc, FileType, DiskType, ProcType, RestType, Labels, AtRow
<1>18. ASSUME Finish PROVE TypeOK'
  <2>1. CASE dir = "yes" /\ header = "yes" /\ failed = "no" /\ worker = "idle"
    <3>1. Save([mem EXCEPT !.quiescence = "original"], "enter")
      BY <1>18, <2>1 DEF Finish, Kept
    <3>2. phase # "restore" /\ [mem EXCEPT !.quiescence = "original"] \in Memory
      BY <1>18 DEF Finish, ProcType, AtRow, Memory
    <3>8. ProcType' /\ log' \in Memory /\ seq' \in Nat /\ stray' \subseteq {"control",
             "probe"} /\ faults' \in 0 .. MaxFaults
      BY <1>18, <2>1, <3>1, <3>2, SaveTypes DEF Finish, RestType, Labels, AtRow, Targets
    <3> QED BY <1>18, <2>1, <3>8 DEF Finish, Kept, Outside, ghost, RestType, FileType, DiskType
  <2>2. CASE ~(dir = "yes" /\ header = "yes" /\ failed = "no" /\ worker = "idle")
    <3>9. ProcType'
      BY <1>18, <2>2, EndTypes DEF Finish
    <3> QED BY <1>18, <2>2, <3>9 DEF Finish, Outside, ghost, disk, RestType, FileType, DiskType
  <2> QED BY <2>1, <2>2
<1>19. ASSUME Enter PROVE TypeOK'
  <2>1. Cleared(mem) \in Memory
    <3>1. \A i \in Targets : [mem.rows[i] EXCEPT !.conflict = "no"] \in Rows
      BY DEF ProcType, Memory, Rows
    <3> QED BY <3>1 DEF ProcType, Memory, Cleared
  <2> QED BY <1>19, <2>1, BatchAssumption DEF Enter, Outside, ghost, disk, counts, proc, FileType,
      DiskType, ProcType, RestType, Labels, AtRow
<1>20. ASSUME NextRow PROVE TypeOK'
  BY <1>20, BatchAssumption, BoundAssumption DEF NextRow, Goto, Moves, Targets, Outside, ghost,
    disk, counts, proc, FileType, DiskType, ProcType, RestType, Labels, AtRow
<1>21. ASSUME Restore PROVE TypeOK'
  <2> DEFINE r == Settled(k, mem.rows[k])
             m == [mem EXCEPT !.rows[k] = r]
  <2>1. k \in Targets
    BY <1>21 DEF Restore, ProcType, AtRow
  <2>2. r \in Rows
    BY <2>1, SettledType DEF ProcType, Memory
  <2>3. m \in Memory
    BY <2>1, <2>2, RowUpdate DEF ProcType
  <2>4. Step(k, r) \in Moves \cup {"unstage", "none"}
    BY DEF Step, Moves
  <2> HIDE DEF m
  <2>5. CASE Raise
    BY <1>21, <2>5, UnsavedTypes DEF Restore, Raise, Unsaved, Outside, ghost, disk, FileType,
      DiskType, ProcType, RestType
  <2>6. CASE Unsaved(m)
    BY <1>21, <2>3, <2>6, UnsavedTypes DEF Restore, Unsaved, Outside, ghost, disk, FileType,
      DiskType, ProcType, RestType
  <2>7. CASE /\ mem' = m
             /\ IF Step(k, r) = "unstage" THEN pc' = "unstage" /\ UNCHANGED job
                ELSE pc' = "begin" /\ job' = Step(k, r)
             /\ UNCHANGED <<mode, phase, k, failed, raising, errs>>
    <3>1. Step(k, r) # "none" \/ pc' = "begin"
      BY <2>7
    <3>2. CASE Step(k, r) = "none"
      BY <1>21, <2>1, <2>3, <2>7, <3>2 DEF Restore, Outside, ghost, disk, FileType, DiskType,
        ProcType, RestType, Labels, AtRow
    <3>3. CASE Step(k, r) # "none"
      BY <1>21, <2>1, <2>3, <2>4, <2>7, <3>3 DEF Restore, Outside, ghost, disk, FileType,
        DiskType, ProcType, RestType, Labels, AtRow
    <3> QED BY <3>2, <3>3
  <2> QED BY <1>21, <2>5, <2>6, <2>7 DEF Restore, m
<1>22. ASSUME Unstage PROVE TypeOK'
  <2>1. k \in Targets
    BY <1>22 DEF Unstage, ProcType, AtRow
  <2>2. CASE Raise
    <3>1. ProcType'
      BY <1>22, <2>2, UnsavedTypes DEF Unstage, Raise, Unsaved, ProcType
    <3>2. FileType'
      BY <1>22, <2>1, NothingFile DEF Unstage, FileType
    <3> QED BY <1>22, <3>1, <3>2 DEF Unstage, Outside, ghost, disk, DiskType, RestType
  <2>3. CASE Goto("mark")
    <3>2. FileType'
      BY <1>22, <2>1, NothingFile DEF Unstage, FileType
    <3> QED BY <1>22, <2>1, <2>3, <3>2 DEF Unstage, Goto, Outside, ghost, disk, DiskType, ProcType,
        RestType, Labels, AtRow
  <2> QED BY <1>22, <2>2, <2>3 DEF Unstage
<1>23. ASSUME Mark PROVE TypeOK'
  <2>1. Save([mem EXCEPT !.rows[k].restored = "yes"], "done")
    BY <1>23 DEF Mark, Kept
  <2>2. k \in Targets
    BY <1>23 DEF Mark, ProcType, AtRow
  <2>3. [mem.rows[k] EXCEPT !.restored = "yes"] \in Rows
    BY <2>2 DEF ProcType, Memory, Rows
  <2>4. [mem EXCEPT !.rows[k].restored = "yes"] \in Memory
    BY <2>2, <2>3, RowUpdate DEF ProcType
  <2>8. ProcType' /\ log' \in Memory /\ seq' \in Nat /\ stray' \subseteq {"control",
           "probe"} /\ faults' \in 0 .. MaxFaults
    BY <1>23, <2>1, <2>2, <2>4, SaveTypes DEF Mark, RestType, Labels, AtRow, Targets
  <2> QED BY <1>23, <2>8 DEF Mark, Kept, Outside, ghost, RestType, FileType, DiskType
<1>24. ASSUME Dispose PROVE TypeOK'
  BY <1>24, BatchAssumption, BoundAssumption DEF Dispose, Goto, Moves, Targets, Outside, ghost,
    disk, counts, proc, FileType, DiskType, ProcType, RestType, Labels, AtRow
<1>25. ASSUME Stop PROVE TypeOK'
  BY <1>25, EndTypes, BatchAssumption, BoundAssumption DEF Stop, Goto, Outside, ghost, disk,
    counts, proc, FileType, DiskType, ProcType, RestType, Labels, AtRow
<1>26. ASSUME FinishFailed PROVE TypeOK'
  <2>1. CASE failed = "no"
    <3>1. Save(mem, "stop")
      BY <1>26, <2>1 DEF FinishFailed, Kept
    <3>2. phase # "restore" /\ mem \in Memory
      BY <1>26 DEF FinishFailed, ProcType, AtRow
    <3>8. ProcType' /\ log' \in Memory /\ seq' \in Nat /\ stray' \subseteq {"control",
             "probe"} /\ faults' \in 0 .. MaxFaults
      BY <1>26, <2>1, <3>1, <3>2, SaveTypes DEF FinishFailed, RestType, Labels, AtRow, Targets
    <3> QED BY <1>26, <2>1, <3>8 DEF FinishFailed, Kept, Outside, ghost, RestType, FileType, DiskType
  <2>2. CASE ~(failed = "no")
    <3>9. ProcType'
      BY <1>26, <2>2, EndTypes DEF FinishFailed
    <3> QED BY <1>26, <2>2, <3>9 DEF FinishFailed, Outside, ghost, disk, RestType, FileType, DiskType
  <2> QED BY <2>1, <2>2
<1>27. ASSUME FinishDone PROVE TypeOK'
  BY <1>27, EndTypes, BatchAssumption, BoundAssumption DEF FinishDone, Goto, Outside, ghost,
    disk, counts, proc, FileType, DiskType, ProcType, RestType, Labels, AtRow
<1>28. ASSUME Publish PROVE TypeOK'
  BY <1>28, BatchAssumption, BoundAssumption DEF Publish, Goto, Moves, Targets, Outside, ghost,
    disk, counts, proc, FileType, DiskType, ProcType, RestType, Labels, AtRow
<1>29. ASSUME RetirePending PROVE TypeOK'
  BY <1>29, BlankType DEF RetirePending, Goto, Outside, ghost, disk, counts, proc, FileType,
    DiskType, ProcType, RestType, Labels, AtRow
<1>30. ASSUME RetireTerminal PROVE TypeOK'
  BY <1>30, EndTypes, BatchAssumption, BoundAssumption DEF RetireTerminal, Goto, Outside, ghost,
    disk, counts, proc, FileType, DiskType, ProcType, RestType, Labels, AtRow
<1>31. ASSUME Confirm PROVE TypeOK'
  <2>1. Save([mem EXCEPT !.quiescence = "operator"], "enter")
    BY <1>31 DEF Confirm, Kept
  <2>2. phase # "restore" /\ [mem EXCEPT !.quiescence = "operator"] \in Memory
    BY <1>31 DEF Confirm, ProcType, AtRow, Memory
  <2>8. ProcType' /\ log' \in Memory /\ seq' \in Nat /\ stray' \subseteq {"control",
           "probe"} /\ faults' \in 0 .. MaxFaults
    BY <1>31, <2>1, <2>2, SaveTypes DEF Confirm, RestType, Labels, AtRow, Targets
  <2> QED BY <1>31, <2>8 DEF Confirm, Kept, Outside, ghost, RestType, FileType, DiskType
<1>32. ASSUME StartBuild PROVE TypeOK'
  BY <1>32, BatchAssumption, BoundAssumption DEF StartBuild, Goto, Moves, Targets, Outside,
    ghost, disk, counts, proc, FileType, DiskType, ProcType, RestType, Labels, AtRow
<1>33. ASSUME StartWorker PROVE TypeOK'
  BY <1>33, BatchAssumption, BoundAssumption DEF StartWorker, Goto, Moves, Targets, Outside,
    ghost, disk, counts, proc, FileType, DiskType, ProcType, RestType, Labels, AtRow
<1>34. ASSUME WorkerEnds PROVE TypeOK'
  BY <1>34, BatchAssumption, BoundAssumption DEF WorkerEnds, Goto, Moves, Targets, Outside,
    ghost, disk, counts, proc, FileType, DiskType, ProcType, RestType, Labels, AtRow
<1>35. ASSUME Recover PROVE TypeOK'
  BY <1>35, BatchAssumption, BoundAssumption DEF Recover, Goto, Moves, Targets, Outside, ghost,
    disk, counts, proc, FileType, DiskType, ProcType, RestType, Labels, AtRow
<1>36. ASSUME Fail PROVE TypeOK'
  <2>1. ProcType'
    BY <1>36, UnsavedTypes DEF Fail, Raise, Unsaved, ProcType
  <2>2. FileType'
    <3>1. CASE UNCHANGED file
      BY <3>1 DEF FileType
    <3>2. CASE pc = "stage" /\ k <= N /\ file' = [file EXCEPT ![k]["stage"] = Fresh("new")]
      <4>1. k \in Targets
        BY <3>2 DEF ProcType, Targets
      <4>2. Fresh("new") \in File
        BY DEF Fresh, File, Objects, Own
      <4> QED BY <3>2, <4>1, <4>2 DEF FileType
    <3> QED BY <1>36, <3>1, <3>2 DEF Fail
  <2> QED BY <1>36, <2>1, <2>2, BoundAssumption DEF Fail, Outside, ghost, DiskType, RestType
<1>37. ASSUME Edit PROVE TypeOK'
  <2>1. PICK i \in Targets, p \in {"target", "backup"}, x \in Edits \cup {"none"} :
         /\ edits < MaxEdits /\ edits' = edits + 1 /\ touched' = touched \cup {i}
         /\ file' = [file EXCEPT ![i][p] = Fresh(x)]
         /\ kept' = [kept EXCEPT ![i] = (@ \ {file[i][p].obj}) \cup ({x} \ {"none"})]
         /\ UNCHANGED <<disk, proc, worker, start, faults, sessions>>
    BY <1>37 DEF Edit
  <2>2. Fresh(x) \in File /\ x \in Objects
    BY DEF Fresh, File, Objects, Own
  <2>3. FileType'
    BY <2>1, <2>2 DEF FileType
  <2>4. kept' \in [Targets -> SUBSET Objects]
    BY <2>1, <2>2 DEF RestType
  <2>5. edits' \in 0 .. MaxEdits
    BY <2>1, BoundAssumption DEF RestType
  <2>6. DiskType' /\ ProcType'
    BY <2>1 DEF disk, proc, DiskType, ProcType
  <2>7. RestType'
    BY <2>1, <2>4, <2>5 DEF RestType
  <2> QED BY <2>3, <2>6, <2>7
<1>38. ASSUME Crash PROVE TypeOK'
  <2>1. ProcType'
    BY <1>38, EndTypes DEF Crash
  <2>2. FileType' /\ DiskType'
    BY <1>38 DEF Crash, FileType, DiskType
  <2>3. RestType'
    BY <1>38, BoundAssumption DEF Crash, Outside, ghost, RestType
  <2> QED BY <2>1, <2>2, <2>3
<1>39. ASSUME UNCHANGED vars PROVE TypeOK'
  BY <1>39 DEF vars, disk, proc, ghost, counts, FileType, DiskType, ProcType, RestType
<1> QED BY <1>1, <1>2, <1>3, <1>4, <1>5, <1>6, <1>7, <1>8, <1>9, <1>10, <1>11, <1>12, <1>13, <1>14,
    <1>15, <1>16, <1>17, <1>18, <1>19, <1>20, <1>21, <1>22, <1>23, <1>24, <1>25, <1>26, <1>27,
    <1>28, <1>29, <1>30, <1>31, <1>32, <1>33, <1>34, <1>35, <1>36, <1>37, <1>38, <1>39 DEF Next,
    Catchable, Work, Moving, Building, Finishing

\* The variables of BuildInputs keep their types and a row that is worked on exists.
THEOREM TypeCorrect == Spec => []TypeOK
  BY TypeInit, TypeStep, PTL DEF Spec

-----------------------------------------------------------------------------
(* Nothing is lost: what the toolkit deletes is its own replacement.       *)

OwnRows(m) == \A i \in Targets : m.rows[i].new.obj \in {"none", "new"}

OwnInv ==
  /\ OwnRows(mem) /\ OwnRows(log)
  /\ \A i \in Targets : kept[i] \cap {"none", "new"} = {}

LEMMA OwnInit == Init => OwnInv
  BY DEF Init, OwnInv, OwnRows, Blank, Row, Nothing

LEMMA OwnBlank == OwnRows(Blank)
  BY DEF OwnRows, Blank, Row, Nothing

\* Settling a move renames an object and never exchanges it.
LEMMA SettledOwn ==
  ASSUME NEW i \in Targets, NEW r \in Rows, r.new.obj \in {"none", "new"}, Settleable(i, r)
  PROVE  Settled(i, r).new.obj \in {"none", "new"}
<1>1. CASE r.move = "none"
  BY <1>1 DEF Settled
<1>2. CASE r.move # "none" /\ NoEffect(i, r)
  BY <1>2 DEF Settled, Rows
<1>3. CASE r.move # "none" /\ ~NoEffect(i, r) /\ r.move \in {"hide", "restore"}
  <2>1. Settled(i, r) = [r EXCEPT !["original"] = file[i][Dest(r.move)], !.move = "none"]
    BY <1>3 DEF Settled, Field
  <2> QED BY <2>1 DEF Rows
<1>4. CASE r.move # "none" /\ ~NoEffect(i, r) /\ r.move \notin {"hide", "restore"}
  <2>1. Settled(i, r) = [r EXCEPT !["new"] = file[i][Dest(r.move)], !.move = "none"]
    BY <1>4 DEF Settled, Field
  <2>2. file[i][Dest(r.move)].obj = r.new.obj
    BY <1>4 DEF Settleable, Effect, SameObject, Field
  <2> QED BY <2>1, <2>2 DEF Rows
<1> QED BY <1>1, <1>2, <1>3, <1>4


LEMMA RefuseOwn ==
  ASSUME NEW m \in Memory, OwnRows(m), Refuse(m)
  PROVE  OwnRows(mem')
<1>1. CASE phase = "restore"
  <2>1. mem' = [m EXCEPT !.rows[k].conflict = "yes"]
    BY <1>1 DEF Refuse
  <2>2. \A i \in Targets : mem'.rows[i].new = m.rows[i].new
    BY <2>1 DEF Memory, Rows
  <2> QED BY <2>2 DEF OwnRows
<1>2. CASE phase = "build"
  BY <1>2 DEF Refuse
<1>3. CASE phase \notin {"build", "restore"}
  BY <1>3, OwnBlank DEF Refuse, End
<1> QED BY <1>1, <1>2, <1>3

LEMMA SaveOwn ==
  ASSUME NEW m \in Memory, OwnRows(m), OwnRows(log), NEW l, Save(m, l)
  PROVE  OwnRows(mem') /\ OwnRows(log')
<1>1. OwnRows(log')
  BY DEF Save
<1>2. mem' = m \/ Refuse(m)
  BY DEF Save, Unsaved
<1> QED BY <1>1, <1>2, RefuseOwn

\* Every step keeps it: the replacement's object is never exchanged for another.
LEMMA OwnStep ==
  TypeOK /\ OwnInv /\ [Next]_vars => OwnInv'
<1> SUFFICES ASSUME TypeOK /\ OwnInv, [Next]_vars PROVE OwnInv'
  OBVIOUS
<1> USE DEF TypeOK
<1>1. ASSUME MoveBegin PROVE OwnInv'
  <2> DEFINE can == /\ file[k][Source(job)] = mem.rows[k][Field(job)]
                    /\ file[k][Source(job)] # Nothing /\ file[k][Dest(job)] = Nothing
  <2>0. k \in Targets
    BY <1>1 DEF MoveBegin, ProcType, AtRow
  <2>1. CASE can
    <3> DEFINE r == [mem.rows[k] EXCEPT !.move = job]
               m == [mem EXCEPT !.rows[k] = r]
    <3>3. m = [mem EXCEPT !.rows[k].move = job]
      OBVIOUS
    <3>4. r \in Rows /\ r.new = mem.rows[k].new
      BY <1>1, <2>1, <2>0 DEF ProcType, Memory, Rows, Source, Field
    <3>5. m \in Memory /\ m.rows[k] = r /\ \A i \in Targets \ {k} : m.rows[i] = mem.rows[i]
      BY <2>0, <3>4, RowUpdate DEF ProcType, Memory
    <3>6. OwnRows(m)
      BY <2>0, <3>4, <3>5 DEF OwnInv, OwnRows
    <3>1. [mem EXCEPT !.rows[k].move = job] \in Memory /\
             OwnRows([mem EXCEPT !.rows[k].move = job])
      BY <3>3, <3>5, <3>6
    <3>2. Save([mem EXCEPT !.rows[k].move = job], "rename")
      BY <1>1, <2>1 DEF MoveBegin, Kept
    <3> QED BY <1>1, <2>1, <3>1, <3>2, SaveOwn DEF MoveBegin, Kept, Outside, ghost, OwnInv
  <2>2. CASE ~(can)
    BY <1>1, <2>2, RefuseOwn DEF MoveBegin, Raise, Unsaved, Outside, ghost, disk, OwnInv,
      ProcType
  <2> QED BY <2>1, <2>2
<1>2. ASSUME MoveRename PROVE OwnInv'
  BY <1>2, OwnBlank DEF MoveRename, OwnInv, End, Goto, Outside, ghost, disk, proc
<1>3. ASSUME MoveSettle PROVE OwnInv'
  <2> DEFINE r == Settled(k, mem.rows[k])
             m == [mem EXCEPT !.rows[k] = r]
  <2>0. k \in Targets /\ mem.rows[k] \in Rows
    BY <1>3 DEF MoveSettle, ProcType, AtRow, Memory
  <2>3. m \in Memory
    BY <2>0, SettledType, RowUpdate DEF ProcType
  <2>4. Settleable(k, mem.rows[k]) => OwnRows(m)
    <3>1. Settleable(k, mem.rows[k]) => r.new.obj \in {"none", "new"}
      BY <2>0, SettledOwn DEF OwnInv, OwnRows
    <3>2. m.rows[k] = r /\ \A i \in Targets \ {k} : m.rows[i] = mem.rows[i]
      BY <2>0 DEF ProcType, Memory
    <3> QED BY <3>1, <3>2 DEF OwnInv, OwnRows
  <2>1. CASE Settleable(k, mem.rows[k])
    <3>2. Save(m, "moved")
      BY <1>3, <2>1 DEF MoveSettle, Kept
    <3> QED BY <1>3, <2>1, <2>3, <2>4, <3>2, SaveOwn DEF MoveSettle, Kept, Outside, ghost, OwnInv
  <2>2. CASE ~Settleable(k, mem.rows[k])
    <3>2. Conflict(mem, k) \in Memory
      BY <2>0, ConflictType DEF ProcType
    <3>3. \A i \in Targets : Conflict(mem, k).rows[i].new = mem.rows[i].new
      BY <2>0 DEF Conflict, ProcType, Memory, Rows
    <3>1. Conflict(mem, k) \in Memory /\ OwnRows(Conflict(mem, k))
      BY <3>2, <3>3 DEF OwnInv, OwnRows
    <3> QED BY <1>3, <2>2, <3>1, RefuseOwn DEF MoveSettle, Unsaved, Outside, ghost, disk, OwnInv
  <2> QED BY <2>1, <2>2
<1>4. ASSUME Moved PROVE OwnInv'
  <2>1. mem' = mem \/ Refuse(mem)
    BY <1>4 DEF Moved, Raise, Unsaved, Goto
  <2>2. OwnRows(mem')
    BY <2>1, RefuseOwn DEF OwnInv, ProcType
  <2> QED BY <1>4, <2>2 DEF Moved, OwnInv, Outside, ghost, disk
<1>5. ASSUME Mkdir PROVE OwnInv'
  BY <1>5, OwnBlank DEF Mkdir, OwnInv, End, Goto, Outside, ghost, disk, proc
<1>6. ASSUME MakeScratch PROVE OwnInv'
  BY <1>6, OwnBlank DEF MakeScratch, OwnInv, End, Goto, Outside, ghost, disk, proc
<1>7. ASSUME PublishHeader PROVE OwnInv'
  BY <1>7, OwnBlank DEF PublishHeader, OwnInv, End, Goto, Outside, ghost, disk, proc
<1>8. ASSUME FirstCheckpoint PROVE OwnInv'
  <2>1. mem \in Memory /\ OwnRows(mem)
    BY <1>8 DEF FirstCheckpoint, OwnInv, OwnRows, ProcType, Memory
  <2>2. Save(mem, "plan")
    BY <1>8 DEF FirstCheckpoint, Kept
  <2> QED BY <1>8, <2>1, <2>2, SaveOwn DEF FirstCheckpoint, Kept, Outside, ghost, OwnInv
<1>9. ASSUME Plan PROVE OwnInv'
  <2>1. \A i \in Targets : mem'.rows[i].new = Nothing
    BY <1>9 DEF Plan, ProcType, Memory, Row
  <2> QED BY <1>9, <2>1 DEF Plan, Nothing, OwnInv, OwnRows, Outside, ghost, disk
<1>10. ASSUME ProbeStart PROVE OwnInv'
  BY <1>10, OwnBlank DEF ProbeStart, OwnInv, End, Goto, Outside, ghost, disk, proc
<1>11. ASSUME ProbeEnd PROVE OwnInv'
  BY <1>11, OwnBlank DEF ProbeEnd, OwnInv, End, Goto, Outside, ghost, disk, proc
<1>12. ASSUME Stage PROVE OwnInv'
  <2>1. k \in Targets
    BY <1>12 DEF Stage, ProcType, Targets
  <2>2. \A i \in Targets : mem'.rows[i].new.obj \in {"none", "new"}
    BY <1>12, <2>1 DEF Stage, ProcType, Memory, Rows, OwnInv, OwnRows, Fresh
  <2> QED BY <1>12, <2>2 DEF Stage, OwnInv, OwnRows, Outside, ghost, disk
<1>13. ASSUME PublishIntent PROVE OwnInv'
  BY <1>13, OwnBlank DEF PublishIntent, OwnInv, End, Goto, Outside, ghost, disk, proc
<1>14. ASSUME Prepare PROVE OwnInv'
  <2>1. [mem EXCEPT !.prepared = "yes"] \in Memory /\ OwnRows([mem EXCEPT !.prepared = "yes"])
    BY <1>14 DEF Prepare, OwnInv, OwnRows, ProcType, Memory
  <2>2. Save([mem EXCEPT !.prepared = "yes"], "verify")
    BY <1>14 DEF Prepare, Kept
  <2> QED BY <1>14, <2>1, <2>2, SaveOwn DEF Prepare, Kept, Outside, ghost, OwnInv
<1>15. ASSUME Verify PROVE OwnInv'
  <2>1. mem' = mem \/ Refuse(mem)
    BY <1>15 DEF Verify, Raise, Unsaved, Goto
  <2>2. OwnRows(mem')
    BY <2>1, RefuseOwn DEF OwnInv, ProcType
  <2> QED BY <1>15, <2>2 DEF Verify, OwnInv, Outside, ghost, disk
<1>16. ASSUME Forward PROVE OwnInv'
  BY <1>16, OwnBlank DEF Forward, OwnInv, End, Goto, Outside, ghost, disk, proc
<1>17. ASSUME LeaveBody PROVE OwnInv'
  BY <1>17, OwnBlank DEF LeaveBody, OwnInv, End, Goto, Outside, ghost, disk, proc
<1>18. ASSUME Finish PROVE OwnInv'
  <2>1. CASE dir = "yes" /\ header = "yes" /\ failed = "no" /\ worker = "idle"
    <3>1. [mem EXCEPT !.quiescence = "original"] \in Memory /\
             OwnRows([mem EXCEPT !.quiescence = "original"])
      BY <1>18, <2>1 DEF OwnInv, OwnRows, ProcType, Memory
    <3>2. Save([mem EXCEPT !.quiescence = "original"], "enter")
      BY <1>18, <2>1 DEF Finish, Kept
    <3> QED BY <1>18, <2>1, <3>1, <3>2, SaveOwn DEF Finish, Kept, Outside, ghost, OwnInv
  <2>2. CASE ~(dir = "yes" /\ header = "yes" /\ failed = "no" /\ worker = "idle")
    BY <1>18, <2>2, OwnBlank DEF Finish, End, Outside, ghost, disk, OwnInv
  <2> QED BY <2>1, <2>2
<1>19. ASSUME Enter PROVE OwnInv'
  <2>1. \A i \in Targets : mem'.rows[i].new = mem.rows[i].new
    BY <1>19 DEF Enter, Cleared, ProcType, Memory, Rows
  <2> QED BY <1>19, <2>1 DEF Enter, OwnInv, OwnRows, Outside, ghost, disk
<1>20. ASSUME NextRow PROVE OwnInv'
  BY <1>20, OwnBlank DEF NextRow, OwnInv, End, Goto, Outside, ghost, disk, proc
<1>21. ASSUME Restore PROVE OwnInv'
  <2> DEFINE r == Settled(k, mem.rows[k])
             m == [mem EXCEPT !.rows[k] = r]
  <2>0. k \in Targets /\ mem.rows[k] \in Rows
    BY <1>21 DEF Restore, ProcType, AtRow, Memory
  <2>3. m \in Memory
    BY <2>0, SettledType, RowUpdate DEF ProcType
  <2>4. Settleable(k, mem.rows[k]) => OwnRows(m)
    <3>1. Settleable(k, mem.rows[k]) => r.new.obj \in {"none", "new"}
      BY <2>0, SettledOwn DEF OwnInv, OwnRows
    <3>2. m.rows[k] = r /\ \A i \in Targets \ {k} : m.rows[i] = mem.rows[i]
      BY <2>0 DEF ProcType, Memory
    <3> QED BY <3>1, <3>2 DEF OwnInv, OwnRows
  <2>1. CASE mem.rows[k].conflict = "yes" \/ ~Settleable(k, mem.rows[k])
    BY <1>21, <2>1, RefuseOwn DEF Restore, Raise, Unsaved, Outside, ghost, disk, OwnInv,
      ProcType
  <2>2. CASE ~(mem.rows[k].conflict = "yes" \/ ~Settleable(k, mem.rows[k]))
    <3>1. mem' = m \/ Refuse(m)
      BY <1>21, <2>2 DEF Restore, Unsaved
    <3>2. OwnRows(mem')
      BY <2>2, <2>3, <2>4, <3>1, RefuseOwn
    <3> QED BY <1>21, <3>2 DEF Restore, Outside, ghost, disk, OwnInv
  <2> QED BY <2>1, <2>2
<1>22. ASSUME Unstage PROVE OwnInv'
  <2>1. mem' = mem \/ Refuse(mem)
    BY <1>22 DEF Unstage, Raise, Unsaved, Goto
  <2>2. OwnRows(mem')
    BY <2>1, RefuseOwn DEF OwnInv, ProcType
  <2> QED BY <1>22, <2>2 DEF Unstage, OwnInv, Outside, ghost, disk
<1>23. ASSUME Mark PROVE OwnInv'
  <2> DEFINE m == [mem EXCEPT !.rows[k].restored = "yes"]
  <2>0. k \in Targets
    BY <1>23 DEF Mark, ProcType, AtRow
  <2>3. m \in Memory
    <3>1. [mem.rows[k] EXCEPT !.restored = "yes"] \in Rows
      BY <2>0 DEF ProcType, Memory, Rows
    <3> QED BY <2>0, <3>1, RowUpdate DEF ProcType
  <2>4. \A i \in Targets : m.rows[i].new = mem.rows[i].new
    BY <2>0 DEF ProcType, Memory, Rows
  <2>1. m \in Memory /\ OwnRows(m)
    BY <2>3, <2>4 DEF OwnInv, OwnRows
  <2>2. Save(m, "done")
    BY <1>23 DEF Mark, Kept
  <2> QED BY <1>23, <2>1, <2>2, SaveOwn DEF Mark, Kept, Outside, ghost, OwnInv
<1>24. ASSUME Dispose PROVE OwnInv'
  BY <1>24, OwnBlank DEF Dispose, OwnInv, End, Goto, Outside, ghost, disk, proc
<1>25. ASSUME Stop PROVE OwnInv'
  BY <1>25, OwnBlank DEF Stop, OwnInv, End, Goto, Outside, ghost, disk, proc
<1>26. ASSUME FinishFailed PROVE OwnInv'
  <2>1. CASE failed = "no"
    <3>1. mem \in Memory /\ OwnRows(mem)
      BY <1>26, <2>1 DEF OwnInv, ProcType
    <3>2. Save(mem, "stop")
      BY <1>26, <2>1 DEF FinishFailed, Kept
    <3> QED BY <1>26, <2>1, <3>1, <3>2, SaveOwn DEF FinishFailed, Kept, Outside, ghost, OwnInv
  <2>2. CASE ~(failed = "no")
    BY <1>26, <2>2, OwnBlank DEF FinishFailed, End, Outside, ghost, disk, OwnInv
  <2> QED BY <2>1, <2>2
<1>27. ASSUME FinishDone PROVE OwnInv'
  BY <1>27, OwnBlank DEF FinishDone, OwnInv, End, Goto, Outside, ghost, disk, proc
<1>28. ASSUME Publish PROVE OwnInv'
  BY <1>28, OwnBlank DEF Publish, OwnInv, End, Goto, Outside, ghost, disk, proc
<1>29. ASSUME RetirePending PROVE OwnInv'
  BY <1>29, OwnBlank DEF RetirePending, OwnInv, End, Goto, Outside, ghost, disk, proc
<1>30. ASSUME RetireTerminal PROVE OwnInv'
  BY <1>30, OwnBlank DEF RetireTerminal, OwnInv, End, Goto, Outside, ghost, disk, proc
<1>31. ASSUME Confirm PROVE OwnInv'
  <2>1. [mem EXCEPT !.quiescence = "operator"] \in Memory /\
           OwnRows([mem EXCEPT !.quiescence = "operator"])
    BY <1>31 DEF Confirm, OwnInv, OwnRows, ProcType, Memory
  <2>2. Save([mem EXCEPT !.quiescence = "operator"], "enter")
    BY <1>31 DEF Confirm, Kept
  <2> QED BY <1>31, <2>1, <2>2, SaveOwn DEF Confirm, Kept, Outside, ghost, OwnInv
<1>32. ASSUME StartBuild PROVE OwnInv'
  BY <1>32, OwnBlank DEF StartBuild, OwnInv, End, Goto, Outside, ghost, disk, proc
<1>33. ASSUME StartWorker PROVE OwnInv'
  BY <1>33, OwnBlank DEF StartWorker, OwnInv, End, Goto, Outside, ghost, disk, proc
<1>34. ASSUME WorkerEnds PROVE OwnInv'
  BY <1>34, OwnBlank DEF WorkerEnds, OwnInv, End, Goto, Outside, ghost, disk, proc
<1>35. ASSUME Recover PROVE OwnInv'
  BY <1>35, OwnBlank DEF Recover, OwnInv, End, Goto, Outside, ghost, disk, proc
<1>36. ASSUME Fail PROVE OwnInv'
  <2>1. mem' = mem \/ Refuse(mem)
    BY <1>36 DEF Fail, Raise, Unsaved, Goto
  <2>2. OwnRows(mem')
    BY <2>1, RefuseOwn DEF OwnInv, ProcType
  <2> QED BY <1>36, <2>2 DEF Fail, OwnInv, Outside, ghost, disk
<1>37. ASSUME Edit PROVE OwnInv'
  <2>1. PICK i \in Targets, p \in {"target", "backup"}, x \in Edits \cup {"none"} :
         /\ kept' = [kept EXCEPT ![i] = (@ \ {file[i][p].obj}) \cup ({x} \ {"none"})]
         /\ UNCHANGED <<disk, proc>>
    BY <1>37 DEF Edit
  <2>2. \A j \in Targets : kept'[j] \cap {"none", "new"} = {}
    BY <2>1, EditAssumption DEF RestType, OwnInv, Own
  <2> QED BY <2>1, <2>2 DEF OwnInv, disk, proc
<1>38. ASSUME Crash PROVE OwnInv'
  BY <1>38, OwnBlank DEF Crash, OwnInv, End, Goto, Outside, ghost, disk, proc
<1>39. ASSUME UNCHANGED vars PROVE OwnInv'
  BY <1>39 DEF vars, disk, proc, ghost, counts, OwnInv
<1> QED BY <1>1, <1>2, <1>3, <1>4, <1>5, <1>6, <1>7, <1>8, <1>9, <1>10, <1>11, <1>12, <1>13, <1>14,
    <1>15, <1>16, <1>17, <1>18, <1>19, <1>20, <1>21, <1>22, <1>23, <1>24, <1>25, <1>26, <1>27,
    <1>28, <1>29, <1>30, <1>31, <1>32, <1>33, <1>34, <1>35, <1>36, <1>37, <1>38, <1>39 DEF Next,
    Catchable, Work, Moving, Building, Finishing

LEMMA OwnHolds == Spec => []OwnInv
<1>1. TypeOK /\ OwnInv /\ [Next]_vars => OwnInv'
  BY OwnStep
<1> QED BY <1>1, TypeCorrect, OwnInit, PTL DEF Spec

LEMMA LostInit == Init => NothingLost
<1> SUFFICES ASSUME Init, NEW i \in Targets, NEW x \in kept[i]
             PROVE  \E p \in Places : file[i][p].obj = x
  BY DEF NothingLost
<1>1. file[i]["target"].obj = x
  BY DEF Init, Fresh, Places
<1> QED BY <1>1 DEF Places

\* A step that leaves a file's place alone, or only touches files of the toolkit's
\* own, loses nothing.
LEMMA LostIfMoved ==
  ASSUME NothingLost, OwnInv, UNCHANGED kept,
         \A i \in Targets : \A p \in Places : file[i][p].obj \in {"none", "new"}
                                              \/ \E q \in Places : file'[i][q].obj = file[i][p].obj
  PROVE  NothingLost'
<1> SUFFICES ASSUME NEW i \in Targets, NEW x \in kept[i]
             PROVE  \E q \in Places : file'[i][q].obj = x
  BY DEF NothingLost
<1>1. x \notin {"none", "new"}
  BY DEF OwnInv
<1>2. PICK p \in Places : file[i][p].obj = x
  BY DEF NothingLost
<1> QED BY <1>1, <1>2

\* Every step keeps every file that is not the toolkit's.
LEMMA LostStep ==
  TypeOK /\ OwnInv /\ NothingLost /\ [Next]_vars => NothingLost'
<1> SUFFICES ASSUME TypeOK /\ OwnInv /\ NothingLost, [Next]_vars PROVE NothingLost'
  OBVIOUS
<1> USE DEF TypeOK
<1>1. ASSUME MoveBegin PROVE NothingLost'
  BY <1>1 DEF MoveBegin, Kept, disk, proc, Outside, ghost, NothingLost
<1>2. ASSUME MoveRename PROVE NothingLost'
  <2>1. k \in Targets /\ Source(job) \in Places /\ Dest(job) \in Places
    BY <1>2 DEF MoveRename, ProcType, AtRow, Source, Dest, Places
  <2>2. \A i \in Targets : \A p \in Places : file[i][p].obj \in {"none", "new"}
                                              \/ \E q \in Places : file'[i][q].obj = file[i][p].obj
    <3>1. CASE UNCHANGED file
      BY <3>1
    <3>2. CASE Shift(k, job) /\ Renamable(k, job)
      <4>1. file[k][Dest(job)].obj = "none"
        BY <3>2 DEF Renamable, Nothing
      <4>0. Source(job) # Dest(job)
        BY <3>2 DEF Renamable
      <4>2. file'[k][Dest(job)].obj = file[k][Source(job)].obj
        BY <2>1, <3>2, <4>0 DEF Shift, FileType, File
      <4>3. \A i \in Targets : \A p \in Places :
              file'[i][p] = file[i][p] \/ (i = k /\ p \in {Source(job), Dest(job)})
        BY <2>1, <3>2 DEF Shift, FileType
      <4> QED BY <2>1, <4>1, <4>2, <4>3
    <3> QED BY <1>2, <3>1, <3>2 DEF MoveRename
  <2>3. UNCHANGED kept
    BY <1>2 DEF MoveRename, Outside, ghost
  <2> QED BY <2>2, <2>3, LostIfMoved
<1>3. ASSUME MoveSettle PROVE NothingLost'
  BY <1>3 DEF MoveSettle, Kept, disk, proc, Outside, ghost, NothingLost
<1>4. ASSUME Moved PROVE NothingLost'
  BY <1>4 DEF Moved, Kept, disk, proc, Outside, ghost, NothingLost
<1>5. ASSUME Mkdir PROVE NothingLost'
  BY <1>5 DEF Mkdir, Kept, disk, proc, Outside, ghost, NothingLost
<1>6. ASSUME MakeScratch PROVE NothingLost'
  BY <1>6 DEF MakeScratch, Kept, disk, proc, Outside, ghost, NothingLost
<1>7. ASSUME PublishHeader PROVE NothingLost'
  BY <1>7 DEF PublishHeader, Kept, disk, proc, Outside, ghost, NothingLost
<1>8. ASSUME FirstCheckpoint PROVE NothingLost'
  BY <1>8 DEF FirstCheckpoint, Kept, disk, proc, Outside, ghost, NothingLost
<1>9. ASSUME Plan PROVE NothingLost'
  BY <1>9 DEF Plan, Kept, disk, proc, Outside, ghost, NothingLost
<1>10. ASSUME ProbeStart PROVE NothingLost'
  BY <1>10 DEF ProbeStart, Kept, disk, proc, Outside, ghost, NothingLost
<1>11. ASSUME ProbeEnd PROVE NothingLost'
  BY <1>11 DEF ProbeEnd, Kept, disk, proc, Outside, ghost, NothingLost
<1>12. ASSUME Stage PROVE NothingLost'
  <2>1. k \in Targets
    BY <1>12 DEF Stage, ProcType, Targets
  <2>2. \A i \in Targets : \A p \in Places : file[i][p].obj = "none" \/ file'[i][p] = file[i][p]
    BY <1>12, <2>1 DEF Stage, FileType, Nothing
  <2>3. UNCHANGED kept
    BY <1>12 DEF Stage, Outside, ghost
  <2> QED BY <2>2, <2>3, LostIfMoved
<1>13. ASSUME PublishIntent PROVE NothingLost'
  BY <1>13 DEF PublishIntent, Kept, disk, proc, Outside, ghost, NothingLost
<1>14. ASSUME Prepare PROVE NothingLost'
  BY <1>14 DEF Prepare, Kept, disk, proc, Outside, ghost, NothingLost
<1>15. ASSUME Verify PROVE NothingLost'
  BY <1>15 DEF Verify, Kept, disk, proc, Outside, ghost, NothingLost
<1>16. ASSUME Forward PROVE NothingLost'
  BY <1>16 DEF Forward, Kept, disk, proc, Outside, ghost, NothingLost
<1>17. ASSUME LeaveBody PROVE NothingLost'
  BY <1>17 DEF LeaveBody, Kept, disk, proc, Outside, ghost, NothingLost
<1>18. ASSUME Finish PROVE NothingLost'
  BY <1>18 DEF Finish, Kept, disk, proc, Outside, ghost, NothingLost
<1>19. ASSUME Enter PROVE NothingLost'
  BY <1>19 DEF Enter, Kept, disk, proc, Outside, ghost, NothingLost
<1>20. ASSUME NextRow PROVE NothingLost'
  BY <1>20 DEF NextRow, Kept, disk, proc, Outside, ghost, NothingLost
<1>21. ASSUME Restore PROVE NothingLost'
  BY <1>21 DEF Restore, Kept, disk, proc, Outside, ghost, NothingLost
<1>22. ASSUME Unstage PROVE NothingLost'
  <2>1. k \in Targets
    BY <1>22 DEF Unstage, ProcType, AtRow
  <2>2. \A i \in Targets : \A p \in Places :
          file[i][p].obj \in {"none", "new"} \/ file'[i][p] = file[i][p]
    <3>1. CASE UNCHANGED file
      BY <3>1
    <3>2. CASE /\ \A p \in {"stage", "retired"} : file[k][p] \in {Nothing, mem.rows[k].new}
               /\ file' = [file EXCEPT ![k]["stage"] = Nothing, ![k]["retired"] = Nothing]
      <4>1. \A p \in {"stage", "retired"} : file[k][p].obj \in {"none", "new"}
        BY <2>1, <3>2 DEF Nothing, OwnInv, OwnRows
      <4>2. \A i \in Targets : \A p \in Places :
              file'[i][p] = file[i][p] \/ (i = k /\ p \in {"stage", "retired"})
        BY <2>1, <3>2 DEF FileType
      <4> QED BY <4>1, <4>2
    <3> QED BY <1>22, <3>1, <3>2 DEF Unstage
  <2>3. UNCHANGED kept
    BY <1>22 DEF Unstage, Outside, ghost
  <2> QED BY <2>2, <2>3, LostIfMoved
<1>23. ASSUME Mark PROVE NothingLost'
  BY <1>23 DEF Mark, Kept, disk, proc, Outside, ghost, NothingLost
<1>24. ASSUME Dispose PROVE NothingLost'
  BY <1>24 DEF Dispose, Kept, disk, proc, Outside, ghost, NothingLost
<1>25. ASSUME Stop PROVE NothingLost'
  BY <1>25 DEF Stop, Kept, disk, proc, Outside, ghost, NothingLost
<1>26. ASSUME FinishFailed PROVE NothingLost'
  BY <1>26 DEF FinishFailed, Kept, disk, proc, Outside, ghost, NothingLost
<1>27. ASSUME FinishDone PROVE NothingLost'
  BY <1>27 DEF FinishDone, Kept, disk, proc, Outside, ghost, NothingLost
<1>28. ASSUME Publish PROVE NothingLost'
  BY <1>28 DEF Publish, Kept, disk, proc, Outside, ghost, NothingLost
<1>29. ASSUME RetirePending PROVE NothingLost'
  BY <1>29 DEF RetirePending, Kept, disk, proc, Outside, ghost, NothingLost
<1>30. ASSUME RetireTerminal PROVE NothingLost'
  BY <1>30 DEF RetireTerminal, Kept, disk, proc, Outside, ghost, NothingLost
<1>31. ASSUME Confirm PROVE NothingLost'
  BY <1>31 DEF Confirm, Kept, disk, proc, Outside, ghost, NothingLost
<1>32. ASSUME StartBuild PROVE NothingLost'
  BY <1>32 DEF StartBuild, Kept, disk, proc, Outside, ghost, NothingLost
<1>33. ASSUME StartWorker PROVE NothingLost'
  BY <1>33 DEF StartWorker, Kept, disk, proc, Outside, ghost, NothingLost
<1>34. ASSUME WorkerEnds PROVE NothingLost'
  BY <1>34 DEF WorkerEnds, Kept, disk, proc, Outside, ghost, NothingLost
<1>35. ASSUME Recover PROVE NothingLost'
  BY <1>35 DEF Recover, Kept, disk, proc, Outside, ghost, NothingLost
<1>36. ASSUME Fail PROVE NothingLost'
  <2>1. \A i \in Targets : \A p \in Places : file[i][p].obj = "none" \/ file'[i][p] = file[i][p]
    <3>1. CASE UNCHANGED file
      BY <3>1
    <3>2. CASE /\ pc = "stage" /\ k <= N /\ file[k]["stage"] = Nothing
               /\ file' = [file EXCEPT ![k]["stage"] = Fresh("new")]
      BY <3>2 DEF ProcType, Targets, FileType, Nothing
    <3> QED BY <1>36, <3>1, <3>2 DEF Fail
  <2>3. UNCHANGED kept
    BY <1>36 DEF Fail, Outside, ghost
  <2> QED BY <2>1, <2>3, LostIfMoved
<1>37. ASSUME Edit PROVE NothingLost'
  <2>1. PICK i \in Targets, p \in {"target", "backup"}, x \in Edits \cup {"none"} :
         /\ file' = [file EXCEPT ![i][p] = Fresh(x)]
         /\ kept' = [kept EXCEPT ![i] = (@ \ {file[i][p].obj}) \cup ({x} \ {"none"})]
    BY <1>37 DEF Edit
  <2>2. SUFFICES ASSUME NEW j \in Targets, NEW y \in kept'[j]
                 PROVE  \E q \in Places : file'[j][q].obj = y
    BY DEF NothingLost
  <2>3. CASE j # i
    BY <2>1, <2>3 DEF NothingLost, FileType, RestType
  <2>4. CASE j = i /\ y = x
    BY <2>1, <2>4 DEF FileType, Fresh, Places
  <2>5. CASE j = i /\ y # x
    <3>1. y \in kept[i] /\ y # file[i][p].obj
      BY <2>1, <2>5 DEF RestType
    <3>2. PICK q \in Places : file[i][q].obj = y
      BY <3>1 DEF NothingLost
    <3>3. file'[i][q] = file[i][q]
      BY <2>1, <3>1, <3>2 DEF FileType, Places
    <3> QED BY <2>5, <3>2, <3>3
  <2> QED BY <2>3, <2>4, <2>5
<1>38. ASSUME Crash PROVE NothingLost'
  BY <1>38 DEF Crash, Kept, disk, proc, Outside, ghost, NothingLost
<1>39. ASSUME UNCHANGED vars PROVE NothingLost'
  BY <1>39 DEF vars, disk, proc, ghost, counts, NothingLost
<1> QED BY <1>1, <1>2, <1>3, <1>4, <1>5, <1>6, <1>7, <1>8, <1>9, <1>10, <1>11, <1>12, <1>13, <1>14,
    <1>15, <1>16, <1>17, <1>18, <1>19, <1>20, <1>21, <1>22, <1>23, <1>24, <1>25, <1>26, <1>27,
    <1>28, <1>29, <1>30, <1>31, <1>32, <1>33, <1>34, <1>35, <1>36, <1>37, <1>38, <1>39 DEF Next,
    Catchable, Work, Moving, Building, Finishing

\* No file of anyone else is lost, for any number of targets, faults and edits: the
\* renames are exclusive and only recorded replacements are deleted (_move, _restore).
THEOREM ForeignFilesSurvive == Spec => []NothingLost
<1>1. TypeOK /\ OwnInv /\ NothingLost /\ [Next]_vars => NothingLost'
  BY LostStep
<1> QED BY <1>1, TypeCorrect, OwnHolds, LostInit, PTL DEF Spec

-----------------------------------------------------------------------------
(* A running worker sees the replacements: phases, then the forward moves. *)

BuildOnly == {"mkdir", "scratch", "header", "first", "plan", "probe", "probed", "stage",
              "prepare", "verify", "forward", "run"}
AtMove == {"begin", "rename", "settle", "moved"}

PhaseInv ==
  /\ phase = "build" => pc \in BuildOnly \cup AtMove
  /\ pc \in BuildOnly => phase = "build"
  /\ pc \in AtMove => phase \in {"build", "restore"}
  /\ pc \in {"done", "restore", "unstage", "mark"} => phase = "restore"
  /\ pc = "idle" => mem.quiescence = "none"
  /\ phase = "build" => terminal = "none" /\ mem.quiescence = "none" /\ log.quiescence = "none"
  /\ dir = "no" => log.quiescence = "none"
  /\ pc \notin {"idle", "mkdir", "finish", "retire", "unlink"} => dir = "yes"

LEMMA PhaseInit == Init => PhaseInv
  BY DEF Init, PhaseInv, Blank, BuildOnly, AtMove

\* What an error and a checkpoint leave, as far as phases go.
LEMMA RefusePhase ==
  ASSUME NEW m \in Memory, Refuse(m)
  PROVE  /\ phase = "build" => pc' = "finish" /\ phase' = "finish"
         /\ phase = "restore" => pc' = "done" /\ phase' = "restore"
         /\ phase \notin {"build", "restore"} => pc' = "idle" /\ phase' = "none" /\ mem' = Blank
  BY DEF Refuse, End

LEMMA SavePhase ==
  ASSUME NEW m \in Memory, NEW l, Save(m, l)
  PROVE  /\ log' \in {log, m}
         /\ \/ pc' = l /\ mem' = m /\ UNCHANGED <<phase, k, job, raising>>
            \/ phase = "build" /\ pc' = "finish" /\ phase' = "finish"
            \/ phase = "restore" /\ pc' = "done" /\ phase' = "restore"
            \/ phase \notin {"build", "restore"} /\ pc' = "idle" /\ phase' = "none" /\
                     mem' = Blank
<1>1. Refuse(m) \/ (pc' = l /\ mem' = m /\ UNCHANGED <<phase, k, job, raising>>)
  BY DEF Save, Unsaved
<1>2. log' \in {log, m}
  BY DEF Save
<1> QED BY <1>1, <1>2, RefusePhase

\* Every step keeps the phases.
LEMMA PhaseStep ==
  TypeOK /\ PhaseInv /\ [Next]_vars => PhaseInv'
<1> SUFFICES ASSUME TypeOK /\ PhaseInv, [Next]_vars PROVE PhaseInv'
  OBVIOUS
<1> USE DEF TypeOK
<1>1. ASSUME MoveBegin PROVE PhaseInv'
  <2> DEFINE m == [mem EXCEPT !.rows[k].move = job]
             can == /\ file[k][Source(job)] = mem.rows[k][Field(job)]
                    /\ file[k][Source(job)] # Nothing /\ file[k][Dest(job)] = Nothing
  <2>0. k \in Targets
    BY <1>1 DEF MoveBegin, ProcType, AtRow
  <2>1. m \in Memory
    <3>1. [mem.rows[k] EXCEPT !.move = job] \in Rows
      BY <2>0 DEF ProcType, Memory, Rows
    <3> QED BY <2>0, <3>1, RowUpdate DEF ProcType
  <2>2. m.quiescence = mem.quiescence
    BY DEF ProcType, Memory
  <2>3. can => Save(m, "rename")
    BY <1>1 DEF MoveBegin, Kept
  <2>4. ~can => Refuse(mem)
    BY <1>1 DEF MoveBegin, Raise, Unsaved
  <2> HIDE DEF m, can
  <2>5. phase \in {"build", "restore"} => PhaseInv'
    BY <1>1, <2>1, <2>2, <2>3, <2>4, SavePhase, RefusePhase DEF MoveBegin, Kept, disk, Outside,
      PhaseInv, BuildOnly, AtMove, AtRow, ProcType, Blank
  <2> QED BY <1>1, <2>1, <2>2, <2>3, <2>4, <2>5, SavePhase, RefusePhase DEF MoveBegin, Kept, disk,
      Outside, PhaseInv, BuildOnly, AtMove, AtRow, ProcType, Blank
<1>2. ASSUME MoveRename PROVE PhaseInv'
  BY <1>2 DEF MoveRename, PhaseInv, BuildOnly, AtMove, End, Goto, Outside, ghost, disk, proc,
    ProcType, AtRow, Blank, Cleared, Loadable
<1>3. ASSUME MoveSettle PROVE PhaseInv'
  <2> DEFINE m == [mem EXCEPT !.rows[k] = Settled(k, mem.rows[k])]
             can == Settleable(k, mem.rows[k])
  <2>0. k \in Targets /\ mem.rows[k] \in Rows
    BY <1>3 DEF MoveSettle, ProcType, AtRow, Memory
  <2>1. m \in Memory
    BY <2>0, SettledType, RowUpdate DEF ProcType
  <2>2. m.quiescence = mem.quiescence
    BY DEF ProcType, Memory
  <2>3. can => Save(m, "moved")
    BY <1>3 DEF MoveSettle, Kept
  <2>4. ~can => Refuse(Conflict(mem, k)) /\ Conflict(mem, k) \in Memory
    BY <1>3, <2>0, ConflictType DEF MoveSettle, Unsaved, ProcType
  <2> HIDE DEF m, can
  <2>5. phase \in {"build", "restore"} => PhaseInv'
    BY <1>3, <2>1, <2>2, <2>3, <2>4, SavePhase, RefusePhase DEF MoveSettle, Kept, disk, Outside,
      PhaseInv, BuildOnly, AtMove, AtRow, ProcType, Blank
  <2> QED BY <1>3, <2>1, <2>2, <2>3, <2>4, <2>5, SavePhase, RefusePhase DEF MoveSettle, Kept, disk,
      Outside, PhaseInv, BuildOnly, AtMove, AtRow, ProcType, Blank
<1>4. ASSUME Moved PROVE PhaseInv'
  <2>1. CASE raising = "yes"
    <3>1. Refuse(mem) /\ mem \in Memory /\ phase \in {"build", "restore", "finish", "none"}
      BY <1>4, <2>1 DEF Moved, Raise, Unsaved, ProcType
    <3> QED BY <1>4, <2>1, <3>1, RefusePhase DEF Moved, Outside, disk, PhaseInv, BuildOnly, AtMove,
        Blank
  <2>2. CASE raising # "yes" /\ phase = "restore"
    <3>1. pc = "moved" /\ pc' = "restore" /\ phase' = "restore"
      BY <1>4, <2>2 DEF Moved, Goto
    <3>2. dir' = dir /\ log' = log
      BY <1>4 DEF Moved, disk
    <3>3. dir = "yes"
      BY <3>1 DEF PhaseInv
    <3> QED BY <3>1, <3>2, <3>3 DEF PhaseInv, BuildOnly, AtMove
  <2>3. CASE raising # "yes" /\ phase # "restore"
    BY <1>4, <2>3 DEF Moved, Outside, disk, PhaseInv, BuildOnly, AtMove, AtRow, ProcType
  <2> QED BY <2>1, <2>2, <2>3
<1>5. ASSUME Mkdir PROVE PhaseInv'
  BY <1>5 DEF Mkdir, PhaseInv, BuildOnly, AtMove, End, Goto, Outside, ghost, disk, proc,
    ProcType, AtRow, Blank, Cleared, Loadable
<1>6. ASSUME MakeScratch PROVE PhaseInv'
  BY <1>6 DEF MakeScratch, PhaseInv, BuildOnly, AtMove, End, Goto, Outside, ghost, disk, proc,
    ProcType, AtRow, Blank, Cleared, Loadable
<1>7. ASSUME PublishHeader PROVE PhaseInv'
  BY <1>7 DEF PublishHeader, PhaseInv, BuildOnly, AtMove, End, Goto, Outside, ghost, disk, proc,
    ProcType, AtRow, Blank, Cleared, Loadable
<1>8. ASSUME FirstCheckpoint PROVE PhaseInv'
  <2> DEFINE m == mem
  <2>1. m \in Memory /\ m.quiescence = mem.quiescence
    BY <1>8 DEF FirstCheckpoint, ProcType, Memory
  <2>2. Save(m, "plan") /\ UNCHANGED <<dir, terminal>>
    BY <1>8 DEF FirstCheckpoint, Kept
  <2>3. phase = "build" /\ dir = "yes"
    BY <1>8 DEF FirstCheckpoint, PhaseInv, BuildOnly, AtMove
  <2> HIDE DEF m
  <2> QED BY <2>1, <2>2, <2>3, SavePhase DEF PhaseInv, BuildOnly, AtMove
<1>9. ASSUME Plan PROVE PhaseInv'
  BY <1>9 DEF Plan, PhaseInv, BuildOnly, AtMove, End, Goto, Outside, ghost, disk, proc,
    ProcType, AtRow, Blank, Cleared, Loadable
<1>10. ASSUME ProbeStart PROVE PhaseInv'
  BY <1>10 DEF ProbeStart, PhaseInv, BuildOnly, AtMove, End, Goto, Outside, ghost, disk, proc,
    ProcType, AtRow, Blank, Cleared, Loadable
<1>11. ASSUME ProbeEnd PROVE PhaseInv'
  BY <1>11 DEF ProbeEnd, PhaseInv, BuildOnly, AtMove, End, Goto, Outside, ghost, disk, proc,
    ProcType, AtRow, Blank, Cleared, Loadable
<1>12. ASSUME Stage PROVE PhaseInv'
  BY <1>12 DEF Stage, PhaseInv, BuildOnly, AtMove, End, Goto, Outside, ghost, disk, proc,
    ProcType, AtRow, Blank, Cleared, Loadable
<1>13. ASSUME PublishIntent PROVE PhaseInv'
  BY <1>13 DEF PublishIntent, PhaseInv, BuildOnly, AtMove, End, Goto, Outside, ghost, disk,
    proc, ProcType, AtRow, Blank, Cleared, Loadable
<1>14. ASSUME Prepare PROVE PhaseInv'
  <2> DEFINE m == [mem EXCEPT !.prepared = "yes"]
  <2>1. m \in Memory /\ m.quiescence = mem.quiescence
    BY <1>14 DEF Prepare, ProcType, Memory
  <2>2. Save(m, "verify") /\ UNCHANGED <<dir, terminal>>
    BY <1>14 DEF Prepare, Kept
  <2>3. phase = "build" /\ dir = "yes"
    BY <1>14 DEF Prepare, PhaseInv, BuildOnly, AtMove
  <2> HIDE DEF m
  <2> QED BY <2>1, <2>2, <2>3, SavePhase DEF PhaseInv, BuildOnly, AtMove
<1>15. ASSUME Verify PROVE PhaseInv'
  <2>1. mem \in Memory
    BY DEF ProcType
  <2> QED BY <1>15, <2>1, RefusePhase DEF Verify, Raise, Unsaved, Goto, Outside, disk, PhaseInv,
      BuildOnly, AtMove, AtRow, ProcType, Blank
<1>16. ASSUME Forward PROVE PhaseInv'
  BY <1>16 DEF Forward, PhaseInv, BuildOnly, AtMove, End, Goto, Outside, ghost, disk, proc,
    ProcType, AtRow, Blank, Cleared, Loadable
<1>17. ASSUME LeaveBody PROVE PhaseInv'
  BY <1>17 DEF LeaveBody, PhaseInv, BuildOnly, AtMove, End, Goto, Outside, ghost, disk, proc,
    ProcType, AtRow, Blank, Cleared, Loadable
<1>18. ASSUME Finish PROVE PhaseInv'
  <2>1. [mem EXCEPT !.quiescence = "original"] \in Memory /\ phase \notin {"build", "restore"}
    BY <1>18 DEF Finish, ProcType, Memory, AtRow, PhaseInv, BuildOnly, AtMove
  <2>2. CASE dir = "yes" /\ header = "yes" /\ failed = "no" /\ worker = "idle"
    BY <1>18, <2>1, <2>2, SavePhase DEF Finish, Kept, Outside, PhaseInv, BuildOnly, AtMove,
      ProcType, Blank
  <2>3. CASE ~(dir = "yes" /\ header = "yes" /\ failed = "no" /\ worker = "idle")
    BY <1>18, <2>1, <2>3 DEF Finish, End, Outside, disk, PhaseInv, BuildOnly, AtMove, ProcType,
      Blank
  <2> QED BY <2>2, <2>3
<1>19. ASSUME Enter PROVE PhaseInv'
  BY <1>19 DEF Enter, PhaseInv, BuildOnly, AtMove, End, Goto, Outside, ghost, disk, proc,
    ProcType, AtRow, Blank, Cleared, Loadable
<1>20. ASSUME NextRow PROVE PhaseInv'
  BY <1>20 DEF NextRow, PhaseInv, BuildOnly, AtMove, End, Goto, Outside, ghost, disk, proc,
    ProcType, AtRow, Blank, Cleared, Loadable
<1>21. ASSUME Restore PROVE PhaseInv'
  <2> DEFINE m == [mem EXCEPT !.rows[k] = Settled(k, mem.rows[k])]
  <2>0. k \in Targets /\ mem.rows[k] \in Rows /\ phase # "build"
    BY <1>21 DEF Restore, ProcType, AtRow, Memory, PhaseInv, BuildOnly, AtMove
  <2>1. m \in Memory /\ mem \in Memory
    BY <2>0, SettledType, RowUpdate DEF ProcType
  <2>2. \/ Refuse(mem) \/ Refuse(m)
        \/ pc' \in {"unstage", "begin"} /\ UNCHANGED phase
    BY <1>21 DEF Restore, Raise, Unsaved
  <2> HIDE DEF m
  <2> QED BY <1>21, <2>0, <2>1, <2>2, RefusePhase DEF Restore, Outside, disk, PhaseInv, BuildOnly,
      AtMove, AtRow, ProcType, Blank
<1>22. ASSUME Unstage PROVE PhaseInv'
  <2>1. mem \in Memory
    BY DEF ProcType
  <2> QED BY <1>22, <2>1, RefusePhase DEF Unstage, Raise, Unsaved, Goto, Outside, disk, PhaseInv,
      BuildOnly, AtMove, AtRow, ProcType, Blank
<1>23. ASSUME Mark PROVE PhaseInv'
  <2>0. k \in Targets
    BY <1>23 DEF Mark, ProcType, AtRow
  <2>1. [mem EXCEPT !.rows[k].restored = "yes"] \in Memory /\
           [mem EXCEPT !.rows[k].restored = "yes"].quiescence = mem.quiescence
    <3>1. [mem.rows[k] EXCEPT !.restored = "yes"] \in Rows
      BY <2>0 DEF ProcType, Memory, Rows
    <3>2. [mem EXCEPT !.rows[k].restored = "yes"] \in Memory
      BY <2>0, <3>1, RowUpdate DEF ProcType
    <3> QED BY <3>2 DEF ProcType, Memory
  <2>2. Save([mem EXCEPT !.rows[k].restored = "yes"], "done")
    BY <1>23 DEF Mark, Kept
  <2> QED BY <1>23, <2>1, <2>2, SavePhase DEF Mark, Kept, Outside, PhaseInv, BuildOnly, AtMove, AtRow,
      ProcType, Blank
<1>24. ASSUME Dispose PROVE PhaseInv'
  BY <1>24 DEF Dispose, PhaseInv, BuildOnly, AtMove, End, Goto, Outside, ghost, disk, proc,
    ProcType, AtRow, Blank, Cleared, Loadable
<1>25. ASSUME Stop PROVE PhaseInv'
  BY <1>25 DEF Stop, PhaseInv, BuildOnly, AtMove, End, Goto, Outside, ghost, disk, proc,
    ProcType, AtRow, Blank, Cleared, Loadable
<1>26. ASSUME FinishFailed PROVE PhaseInv'
  <2>1. mem \in Memory /\ phase \notin {"build", "restore"}
    BY <1>26 DEF FinishFailed, ProcType, Memory, AtRow, PhaseInv, BuildOnly, AtMove
  <2>2. CASE failed = "no"
    BY <1>26, <2>1, <2>2, SavePhase DEF FinishFailed, Kept, Outside, PhaseInv, BuildOnly,
      AtMove, ProcType, Blank
  <2>3. CASE ~(failed = "no")
    BY <1>26, <2>1, <2>3 DEF FinishFailed, End, Outside, disk, PhaseInv, BuildOnly, AtMove,
      ProcType, Blank
  <2> QED BY <2>2, <2>3
<1>27. ASSUME FinishDone PROVE PhaseInv'
  BY <1>27 DEF FinishDone, PhaseInv, BuildOnly, AtMove, End, Goto, Outside, ghost, disk, proc,
    ProcType, AtRow, Blank, Cleared, Loadable
<1>28. ASSUME Publish PROVE PhaseInv'
  BY <1>28 DEF Publish, PhaseInv, BuildOnly, AtMove, End, Goto, Outside, ghost, disk, proc,
    ProcType, AtRow, Blank, Cleared, Loadable
<1>29. ASSUME RetirePending PROVE PhaseInv'
  BY <1>29 DEF RetirePending, PhaseInv, BuildOnly, AtMove, End, Goto, Outside, ghost, disk,
    proc, ProcType, AtRow, Blank, Cleared, Loadable
<1>30. ASSUME RetireTerminal PROVE PhaseInv'
  BY <1>30 DEF RetireTerminal, PhaseInv, BuildOnly, AtMove, End, Goto, Outside, ghost, disk,
    proc, ProcType, AtRow, Blank, Cleared, Loadable
<1>31. ASSUME Confirm PROVE PhaseInv'
  <2>1. [mem EXCEPT !.quiescence = "operator"] \in Memory
    BY <1>31 DEF Confirm, ProcType, Memory
  <2>2. Save([mem EXCEPT !.quiescence = "operator"], "enter")
    BY <1>31 DEF Confirm, Kept
  <2> QED BY <1>31, <2>1, <2>2, SavePhase DEF Confirm, Kept, Outside, PhaseInv, BuildOnly, AtMove,
      AtRow, ProcType, Blank
<1>32. ASSUME StartBuild PROVE PhaseInv'
  BY <1>32 DEF StartBuild, PhaseInv, BuildOnly, AtMove, End, Goto, Outside, ghost, disk, proc,
    ProcType, AtRow, Blank, Cleared, Loadable
<1>33. ASSUME StartWorker PROVE PhaseInv'
  BY <1>33 DEF StartWorker, PhaseInv, BuildOnly, AtMove, End, Goto, Outside, ghost, disk, proc,
    ProcType, AtRow, Blank, Cleared, Loadable
<1>34. ASSUME WorkerEnds PROVE PhaseInv'
  BY <1>34 DEF WorkerEnds, PhaseInv, BuildOnly, AtMove, End, Goto, Outside, ghost, disk, proc,
    ProcType, AtRow, Blank, Cleared, Loadable
<1>35. ASSUME Recover PROVE PhaseInv'
  BY <1>35 DEF Recover, PhaseInv, BuildOnly, AtMove, End, Goto, Outside, ghost, disk, proc,
    ProcType, AtRow, Blank, Cleared, Loadable
<1>36. ASSUME Fail PROVE PhaseInv'
  <2>1. mem \in Memory
    BY DEF ProcType
  <2> QED BY <1>36, <2>1, RefusePhase DEF Fail, Raise, Unsaved, Goto, Outside, disk, PhaseInv,
      BuildOnly, AtMove, AtRow, ProcType, Blank
<1>37. ASSUME Edit PROVE PhaseInv'
  BY <1>37 DEF Edit, PhaseInv, BuildOnly, AtMove, End, Goto, Outside, ghost, disk, proc,
    ProcType, AtRow, Blank, Cleared, Loadable
<1>38. ASSUME Crash PROVE PhaseInv'
  BY <1>38 DEF Crash, PhaseInv, BuildOnly, AtMove, End, Goto, Outside, ghost, disk, proc,
    ProcType, AtRow, Blank, Cleared, Loadable
<1>39. ASSUME UNCHANGED vars PROVE PhaseInv'
  BY <1>39 DEF vars, disk, proc, ghost, counts, PhaseInv
<1> QED BY <1>1, <1>2, <1>3, <1>4, <1>5, <1>6, <1>7, <1>8, <1>9, <1>10, <1>11, <1>12, <1>13, <1>14,
    <1>15, <1>16, <1>17, <1>18, <1>19, <1>20, <1>21, <1>22, <1>23, <1>24, <1>25, <1>26, <1>27,
    <1>28, <1>29, <1>30, <1>31, <1>32, <1>33, <1>34, <1>35, <1>36, <1>37, <1>38, <1>39 DEF Next,
    Catchable, Work, Moving, Building, Finishing

LEMMA PhaseHolds == Spec => []PhaseInv
<1>1. TypeOK /\ PhaseInv /\ [Next]_vars => PhaseInv'
  BY PhaseStep
<1> QED BY <1>1, TypeCorrect, PhaseInit, PTL DEF Spec

\* There is no trace of an absent file, and the staged replacement is the recorded one.
NoneInv == \A i \in Targets : \A p \in Places : file[i][p].obj = "none" => file[i][p] = Nothing

LEMMA NoneInit == Init => NoneInv
  BY DEF Init, NoneInv, Fresh, Nothing

\* Every step keeps it.
LEMMA NoneStep ==
  TypeOK /\ NoneInv /\ [Next]_vars => NoneInv'
<1> SUFFICES ASSUME TypeOK /\ NoneInv, [Next]_vars PROVE NoneInv'
  OBVIOUS
<1> USE DEF TypeOK
<1>1. ASSUME MoveBegin PROVE NoneInv'
  BY <1>1 DEF MoveBegin, Kept, disk, proc, Outside, ghost, NoneInv
<1>2. ASSUME MoveRename PROVE NoneInv'
  <2>1. k \in Targets /\ Source(job) \in Places /\ Dest(job) \in Places
    BY <1>2 DEF MoveRename, ProcType, AtRow, Source, Dest, Places
  <2>2. CASE UNCHANGED file
    BY <2>2 DEF NoneInv
  <2>3. CASE Shift(k, job) /\ Renamable(k, job)
    <3>1. file[k][Source(job)].obj # "none"
      BY <2>1, <2>3 DEF NoneInv, Renamable
    <3>2. [file[k][Source(job)] EXCEPT !.t = @ + 1].obj # "none"
      BY <2>1, <3>1 DEF FileType, File
    <3>3. \A i \in Targets : \A p \in Places :
            file'[i][p] \in {file[i][p], Nothing, [file[k][Source(job)] EXCEPT !.t = @ + 1]}
      BY <2>1, <2>3 DEF Shift, FileType
    <3> QED BY <3>2, <3>3 DEF NoneInv
  <2> QED BY <1>2, <2>2, <2>3 DEF MoveRename
<1>3. ASSUME MoveSettle PROVE NoneInv'
  BY <1>3 DEF MoveSettle, Kept, disk, proc, Outside, ghost, NoneInv
<1>4. ASSUME Moved PROVE NoneInv'
  BY <1>4 DEF Moved, Kept, disk, proc, Outside, ghost, NoneInv
<1>5. ASSUME Mkdir PROVE NoneInv'
  BY <1>5 DEF Mkdir, Kept, disk, proc, Outside, ghost, NoneInv
<1>6. ASSUME MakeScratch PROVE NoneInv'
  BY <1>6 DEF MakeScratch, Kept, disk, proc, Outside, ghost, NoneInv
<1>7. ASSUME PublishHeader PROVE NoneInv'
  BY <1>7 DEF PublishHeader, Kept, disk, proc, Outside, ghost, NoneInv
<1>8. ASSUME FirstCheckpoint PROVE NoneInv'
  BY <1>8 DEF FirstCheckpoint, Kept, disk, proc, Outside, ghost, NoneInv
<1>9. ASSUME Plan PROVE NoneInv'
  BY <1>9 DEF Plan, Kept, disk, proc, Outside, ghost, NoneInv
<1>10. ASSUME ProbeStart PROVE NoneInv'
  BY <1>10 DEF ProbeStart, Kept, disk, proc, Outside, ghost, NoneInv
<1>11. ASSUME ProbeEnd PROVE NoneInv'
  BY <1>11 DEF ProbeEnd, Kept, disk, proc, Outside, ghost, NoneInv
<1>12. ASSUME Stage PROVE NoneInv'
  <2>1. k \in Targets
    BY <1>12 DEF Stage, ProcType, Targets
  <2> QED BY <1>12, <2>1 DEF Stage, NoneInv, FileType, Fresh
<1>13. ASSUME PublishIntent PROVE NoneInv'
  BY <1>13 DEF PublishIntent, Kept, disk, proc, Outside, ghost, NoneInv
<1>14. ASSUME Prepare PROVE NoneInv'
  BY <1>14 DEF Prepare, Kept, disk, proc, Outside, ghost, NoneInv
<1>15. ASSUME Verify PROVE NoneInv'
  BY <1>15 DEF Verify, Kept, disk, proc, Outside, ghost, NoneInv
<1>16. ASSUME Forward PROVE NoneInv'
  BY <1>16 DEF Forward, Kept, disk, proc, Outside, ghost, NoneInv
<1>17. ASSUME LeaveBody PROVE NoneInv'
  BY <1>17 DEF LeaveBody, Kept, disk, proc, Outside, ghost, NoneInv
<1>18. ASSUME Finish PROVE NoneInv'
  BY <1>18 DEF Finish, Kept, disk, proc, Outside, ghost, NoneInv
<1>19. ASSUME Enter PROVE NoneInv'
  BY <1>19 DEF Enter, Kept, disk, proc, Outside, ghost, NoneInv
<1>20. ASSUME NextRow PROVE NoneInv'
  BY <1>20 DEF NextRow, Kept, disk, proc, Outside, ghost, NoneInv
<1>21. ASSUME Restore PROVE NoneInv'
  BY <1>21 DEF Restore, Kept, disk, proc, Outside, ghost, NoneInv
<1>22. ASSUME Unstage PROVE NoneInv'
  <2>1. k \in Targets
    BY <1>22 DEF Unstage, ProcType, AtRow
  <2>2. CASE UNCHANGED file
    BY <2>2 DEF NoneInv
  <2>3. CASE file' = [file EXCEPT ![k]["stage"] = Nothing, ![k]["retired"] = Nothing]
    BY <2>1, <2>3 DEF NoneInv, FileType
  <2> QED BY <1>22, <2>2, <2>3 DEF Unstage
<1>23. ASSUME Mark PROVE NoneInv'
  BY <1>23 DEF Mark, Kept, disk, proc, Outside, ghost, NoneInv
<1>24. ASSUME Dispose PROVE NoneInv'
  BY <1>24 DEF Dispose, Kept, disk, proc, Outside, ghost, NoneInv
<1>25. ASSUME Stop PROVE NoneInv'
  BY <1>25 DEF Stop, Kept, disk, proc, Outside, ghost, NoneInv
<1>26. ASSUME FinishFailed PROVE NoneInv'
  BY <1>26 DEF FinishFailed, Kept, disk, proc, Outside, ghost, NoneInv
<1>27. ASSUME FinishDone PROVE NoneInv'
  BY <1>27 DEF FinishDone, Kept, disk, proc, Outside, ghost, NoneInv
<1>28. ASSUME Publish PROVE NoneInv'
  BY <1>28 DEF Publish, Kept, disk, proc, Outside, ghost, NoneInv
<1>29. ASSUME RetirePending PROVE NoneInv'
  BY <1>29 DEF RetirePending, Kept, disk, proc, Outside, ghost, NoneInv
<1>30. ASSUME RetireTerminal PROVE NoneInv'
  BY <1>30 DEF RetireTerminal, Kept, disk, proc, Outside, ghost, NoneInv
<1>31. ASSUME Confirm PROVE NoneInv'
  BY <1>31 DEF Confirm, Kept, disk, proc, Outside, ghost, NoneInv
<1>32. ASSUME StartBuild PROVE NoneInv'
  BY <1>32 DEF StartBuild, Kept, disk, proc, Outside, ghost, NoneInv
<1>33. ASSUME StartWorker PROVE NoneInv'
  BY <1>33 DEF StartWorker, Kept, disk, proc, Outside, ghost, NoneInv
<1>34. ASSUME WorkerEnds PROVE NoneInv'
  BY <1>34 DEF WorkerEnds, Kept, disk, proc, Outside, ghost, NoneInv
<1>35. ASSUME Recover PROVE NoneInv'
  BY <1>35 DEF Recover, Kept, disk, proc, Outside, ghost, NoneInv
<1>36. ASSUME Fail PROVE NoneInv'
  <2>1. CASE UNCHANGED file
    BY <2>1 DEF NoneInv
  <2>2. CASE pc = "stage" /\ k <= N /\ file' = [file EXCEPT ![k]["stage"] = Fresh("new")]
    <3>1. k \in Targets
      BY <2>2 DEF ProcType, Targets
    <3> QED BY <2>2, <3>1 DEF NoneInv, FileType, Fresh
  <2> QED BY <1>36, <2>1, <2>2 DEF Fail
<1>37. ASSUME Edit PROVE NoneInv'
  <2>1. PICK i \in Targets, p \in {"target", "backup"}, x \in Edits \cup {"none"} :
         file' = [file EXCEPT ![i][p] = Fresh(x)]
    BY <1>37 DEF Edit
  <2> QED BY <2>1 DEF NoneInv, FileType, Fresh, Nothing
<1>38. ASSUME Crash PROVE NoneInv'
  BY <1>38 DEF Crash, Kept, disk, proc, Outside, ghost, NoneInv
<1>39. ASSUME UNCHANGED vars PROVE NoneInv'
  BY <1>39 DEF vars, disk, proc, ghost, counts, NoneInv
<1> QED BY <1>1, <1>2, <1>3, <1>4, <1>5, <1>6, <1>7, <1>8, <1>9, <1>10, <1>11, <1>12, <1>13, <1>14,
    <1>15, <1>16, <1>17, <1>18, <1>19, <1>20, <1>21, <1>22, <1>23, <1>24, <1>25, <1>26, <1>27,
    <1>28, <1>29, <1>30, <1>31, <1>32, <1>33, <1>34, <1>35, <1>36, <1>37, <1>38, <1>39 DEF Next,
    Catchable, Work, Moving, Building, Finishing

LEMMA NoneHolds == Spec => []NoneInv
<1>1. TypeOK /\ NoneInv /\ [Next]_vars => NoneInv'
  BY NoneStep
<1> QED BY <1>1, TypeCorrect, NoneInit, PTL DEF Spec

IsNew(i) == i \in touched \/ file[i]["target"].obj = "new"

\* Behind the current target every target is replaced, or somebody edited it.
ForwardInv ==
  phase = "build" =>
    /\ pc \in AtMove \cup {"forward"} => job \in {"hide", "install"}
    /\ pc \in AtMove \cup {"forward"} => \A i \in Targets : i < k => IsNew(i)
    /\ pc = "run" => \A i \in Targets : IsNew(i)
    /\ pc = "rename" /\ job = "install" => file[k]["stage"].obj = "new"
    /\ pc \in {"settle", "moved"} /\ job = "install" /\ raising = "no" => IsNew(k)

LEMMA ForwardInit == Init => ForwardInv
  BY DEF Init, ForwardInv

\* Every step keeps the forward invariant.
LEMMA ForwardStep ==
  TypeOK /\ OwnInv /\ NoneInv /\ PhaseInv /\ ForwardInv /\ [Next]_vars => ForwardInv'
<1> SUFFICES ASSUME TypeOK /\ OwnInv /\ NoneInv /\ PhaseInv /\ ForwardInv, [Next]_vars
         PROVE ForwardInv'
  OBVIOUS
<1> USE DEF TypeOK
<1>1. ASSUME MoveBegin PROVE ForwardInv'
  <2> DEFINE m == [mem EXCEPT !.rows[k].move = job]
             can == /\ file[k][Source(job)] = mem.rows[k][Field(job)]
                    /\ file[k][Source(job)] # Nothing /\ file[k][Dest(job)] = Nothing
  <2>0. k \in Targets
    BY <1>1 DEF MoveBegin, ProcType, AtRow
  <2>1. m \in Memory
    <3>1. [mem.rows[k] EXCEPT !.move = job] \in Rows
      BY <2>0 DEF ProcType, Memory, Rows
    <3> QED BY <2>0, <3>1, RowUpdate DEF ProcType
  <2>2. m.quiescence = mem.quiescence
    BY DEF ProcType, Memory
  <2>3. can => Save(m, "rename")
    BY <1>1 DEF MoveBegin, Kept
  <2>4. ~can => Refuse(mem)
    BY <1>1 DEF MoveBegin, Raise, Unsaved
  <2>5. CASE phase # "build"
    BY <2>1, <2>3, <2>4, <2>5, SavePhase, RefusePhase DEF ForwardInv, ProcType
  <2>6. CASE phase = "build" /\ ~can
    BY <2>4, <2>6, RefusePhase DEF ForwardInv, ProcType
  <2>7. CASE phase = "build" /\ can
    <3>1. job = "install" => file[k]["stage"].obj = "new"
      BY <2>0, <2>7 DEF Source, Field, OwnInv, OwnRows, NoneInv, Places
    <3>2. UNCHANGED <<file, touched>>
      BY <1>1, <2>7 DEF MoveBegin, Kept, Outside, ghost
    <3> HIDE DEF m, can
    <3>3. \/ pc' = "rename" /\ UNCHANGED <<phase, k, job>>
          \/ phase' = "finish"
      BY <2>1, <2>3, <2>7, SavePhase
    <3> QED BY <1>1, <2>7, <3>1, <3>2, <3>3 DEF MoveBegin, ForwardInv, IsNew, AtMove
  <2> QED BY <2>5, <2>6, <2>7
<1>2. ASSUME MoveRename PROVE ForwardInv'
  <2>1. k \in Targets
    BY <1>2 DEF MoveRename, ProcType, AtRow
  <2>2. pc' = "settle" /\ UNCHANGED <<phase, k, job, touched>> /\ pc = "rename"
    BY <1>2 DEF MoveRename, Outside, ghost
  <2>3. \A i \in Targets : i # k => file'[i] = file[i]
    BY <1>2, <2>1 DEF MoveRename, Shift, FileType
  <2>4. ASSUME phase = "build", job = "install", raising' = "no"
           PROVE file'[k]["target"].obj = "new"
    <3>1. Shift(k, job)
      BY <1>2, <2>4 DEF MoveRename
    <3>2. file'[k]["target"] = [file[k]["stage"] EXCEPT !.t = @ + 1]
      BY <2>1, <2>4, <3>1 DEF Shift, Source, Dest, FileType, Places
    <3>3. file[k]["stage"].obj = "new" /\ file[k]["stage"] \in File
      BY <2>1, <2>2, <2>4 DEF ForwardInv, FileType, Places
    <3> QED BY <3>2, <3>3 DEF File
  <2> QED BY <2>1, <2>2, <2>3, <2>4 DEF ForwardInv, IsNew, AtMove, Targets
<1>3. ASSUME MoveSettle PROVE ForwardInv'
  <2> DEFINE m == [mem EXCEPT !.rows[k] = Settled(k, mem.rows[k])]
             can == Settleable(k, mem.rows[k])
  <2>0. k \in Targets /\ mem.rows[k] \in Rows
    BY <1>3 DEF MoveSettle, ProcType, AtRow, Memory
  <2>1. m \in Memory
    BY <2>0, SettledType, RowUpdate DEF ProcType
  <2>2. m.quiescence = mem.quiescence
    BY DEF ProcType, Memory
  <2>3. can => Save(m, "moved")
    BY <1>3 DEF MoveSettle, Kept
  <2>4. ~can => Refuse(Conflict(mem, k)) /\ Conflict(mem, k) \in Memory
    BY <1>3, <2>0, ConflictType DEF MoveSettle, Unsaved, ProcType
  <2>5. CASE phase # "build"
    BY <2>1, <2>3, <2>4, <2>5, SavePhase, RefusePhase DEF ForwardInv, ProcType
  <2>6. CASE phase = "build" /\ ~can
    BY <2>4, <2>6, RefusePhase DEF ForwardInv, ProcType
  <2>7. CASE phase = "build" /\ can
    <3>2. UNCHANGED <<file, touched>>
      BY <1>3, <2>7 DEF MoveSettle, Kept, Outside, ghost
    <3> HIDE DEF m, can
    <3>3. \/ pc' = "moved" /\ UNCHANGED <<phase, k, job, raising>>
          \/ phase' = "finish"
      BY <2>1, <2>3, <2>7, SavePhase
    <3> QED BY <1>3, <2>7, <3>2, <3>3 DEF MoveSettle, ForwardInv, IsNew, AtMove
  <2> QED BY <2>5, <2>6, <2>7
<1>4. ASSUME Moved PROVE ForwardInv'
  <2>1. CASE raising = "yes"
    <3>1. Refuse(mem) /\ mem \in Memory
      BY <1>4, <2>1 DEF Moved, Raise, Unsaved, ProcType
    <3> QED BY <3>1, RefusePhase DEF ForwardInv, ProcType
  <2>2. CASE raising # "yes" /\ phase # "build"
    BY <1>4, <2>2 DEF Moved, Goto, ForwardInv
  <2>3. CASE raising # "yes" /\ phase = "build" /\ job = "hide"
    BY <1>4, <2>3 DEF Moved, ForwardInv, IsNew, AtMove, Outside, ghost
  <2>4. CASE raising # "yes" /\ phase = "build" /\ job # "hide"
    <3>1. job = "install" /\ raising = "no" /\ k \in Targets
      BY <1>4, <2>4 DEF Moved, ForwardInv, AtMove, ProcType, AtRow
    <3>2. pc' = "forward" /\ job' = "hide" /\ k' = k + 1 /\ UNCHANGED <<file, touched, phase>>
      BY <1>4, <2>4 DEF Moved, Outside, ghost
    <3>3. \A i \in Targets : i < k + 1 => i < k \/ i = k
      BY <3>1 DEF Targets
    <3>4. IsNew(k) /\ \A i \in Targets : i < k => IsNew(i)
      BY <1>4, <2>4, <3>1 DEF Moved, ForwardInv, AtMove
    <3> QED BY <3>2, <3>3, <3>4 DEF ForwardInv, IsNew, AtMove
  <2> QED BY <2>1, <2>2, <2>3, <2>4
<1>5. ASSUME Mkdir PROVE ForwardInv'
  BY <1>5 DEF Mkdir, ForwardInv, IsNew, PhaseInv, BuildOnly, AtMove, AtRow, End, Goto, Outside,
    ghost, disk, proc, ProcType
<1>6. ASSUME MakeScratch PROVE ForwardInv'
  BY <1>6 DEF MakeScratch, ForwardInv, IsNew, PhaseInv, BuildOnly, AtMove, AtRow, End, Goto,
    Outside, ghost, disk, proc, ProcType
<1>7. ASSUME PublishHeader PROVE ForwardInv'
  BY <1>7 DEF PublishHeader, ForwardInv, IsNew, PhaseInv, BuildOnly, AtMove, AtRow, End, Goto,
    Outside, ghost, disk, proc, ProcType
<1>8. ASSUME FirstCheckpoint PROVE ForwardInv'
  <2>1. Save(mem, "plan") /\ mem \in Memory /\ phase = "build"
    BY <1>8 DEF FirstCheckpoint, Kept, ProcType, PhaseInv, BuildOnly
  <2> QED BY <2>1, SavePhase DEF ForwardInv, AtMove
<1>9. ASSUME Plan PROVE ForwardInv'
  BY <1>9 DEF Plan, ForwardInv, IsNew, PhaseInv, BuildOnly, AtMove, AtRow, End, Goto, Outside,
    ghost, disk, proc, ProcType
<1>10. ASSUME ProbeStart PROVE ForwardInv'
  BY <1>10 DEF ProbeStart, ForwardInv, IsNew, PhaseInv, BuildOnly, AtMove, AtRow, End, Goto,
    Outside, ghost, disk, proc, ProcType
<1>11. ASSUME ProbeEnd PROVE ForwardInv'
  BY <1>11 DEF ProbeEnd, ForwardInv, IsNew, PhaseInv, BuildOnly, AtMove, AtRow, End, Goto,
    Outside, ghost, disk, proc, ProcType
<1>12. ASSUME Stage PROVE ForwardInv'
  <2>1. pc' = "stage"
    BY <1>12 DEF Stage
  <2> QED BY <2>1 DEF ForwardInv, AtMove
<1>13. ASSUME PublishIntent PROVE ForwardInv'
  BY <1>13 DEF PublishIntent, ForwardInv, IsNew, PhaseInv, BuildOnly, AtMove, AtRow, End, Goto,
    Outside, ghost, disk, proc, ProcType
<1>14. ASSUME Prepare PROVE ForwardInv'
  <2>1. Save([mem EXCEPT !.prepared = "yes"], "verify") /\ phase = "build"
    BY <1>14 DEF Prepare, Kept, PhaseInv, BuildOnly
  <2>2. [mem EXCEPT !.prepared = "yes"] \in Memory
    BY DEF ProcType, Memory
  <2> QED BY <2>1, <2>2, SavePhase DEF ForwardInv, AtMove
<1>15. ASSUME Verify PROVE ForwardInv'
  <2>1. pc' \in {"forward", "finish", "done", "idle"} /\ (pc' = "forward" => k' = 1 /\
           job' = "hide")
    BY <1>15 DEF Verify, Raise, Unsaved, Refuse, End
  <2>2. \A i \in Targets : ~(i < 1)
    BY DEF Targets
  <2> QED BY <2>1, <2>2 DEF ForwardInv, AtMove
<1>16. ASSUME Forward PROVE ForwardInv'
  <2>1. phase = "build" /\ UNCHANGED <<phase, file, touched, k>>
    BY <1>16 DEF Forward, PhaseInv, BuildOnly, Goto, Outside, ghost
  <2>2. CASE k > N
    <3>1. \A i \in Targets : i < k
      BY <2>2, BatchAssumption DEF Targets, ProcType
    <3> QED BY <1>16, <2>1, <2>2, <3>1 DEF Forward, Goto, ForwardInv, IsNew, AtMove
  <2>3. CASE ~(k > N)
    BY <1>16, <2>1, <2>3 DEF Forward, Goto, ForwardInv, IsNew, AtMove
  <2> QED BY <2>2, <2>3
<1>17. ASSUME LeaveBody PROVE ForwardInv'
  BY <1>17 DEF LeaveBody, ForwardInv, IsNew, PhaseInv, BuildOnly, AtMove, AtRow, End, Goto,
    Outside, ghost, disk, proc, ProcType
<1>18. ASSUME Finish PROVE ForwardInv'
  <2>1. phase # "build"
    BY <1>18 DEF Finish, PhaseInv, BuildOnly, AtMove
  <2>2. phase' # "build"
    BY <1>18, <2>1 DEF Finish, Kept, Save, Unsaved, Refuse, End
  <2> QED BY <2>2 DEF ForwardInv
<1>19. ASSUME Enter PROVE ForwardInv'
  BY <1>19 DEF Enter, ForwardInv, IsNew, PhaseInv, BuildOnly, AtMove, AtRow, End, Goto, Outside,
    ghost, disk, proc, ProcType
<1>20. ASSUME NextRow PROVE ForwardInv'
  BY <1>20 DEF NextRow, ForwardInv, IsNew, PhaseInv, BuildOnly, AtMove, AtRow, End, Goto,
    Outside, ghost, disk, proc, ProcType
<1>21. ASSUME Restore PROVE ForwardInv'
  <2> DEFINE m == [mem EXCEPT !.rows[k] = Settled(k, mem.rows[k])]
  <2>0. k \in Targets /\ mem.rows[k] \in Rows /\ phase # "build"
    BY <1>21 DEF Restore, ProcType, AtRow, Memory, PhaseInv, BuildOnly, AtMove
  <2>1. m \in Memory /\ mem \in Memory
    BY <2>0, SettledType, RowUpdate DEF ProcType
  <2>2. \/ Refuse(mem) \/ Refuse(m)
        \/ pc' \in {"unstage", "begin"} /\ UNCHANGED phase
    BY <1>21 DEF Restore, Raise, Unsaved
  <2> HIDE DEF m
  <2> QED BY <2>0, <2>1, <2>2, RefusePhase DEF ForwardInv, ProcType
<1>22. ASSUME Unstage PROVE ForwardInv'
  <2>1. phase' # "build"
    BY <1>22 DEF Unstage, Raise, Unsaved, Refuse, End, Goto, PhaseInv, BuildOnly, AtMove
  <2> QED BY <2>1 DEF ForwardInv
<1>23. ASSUME Mark PROVE ForwardInv'
  <2>1. phase # "build"
    BY <1>23 DEF Mark, PhaseInv, BuildOnly, AtMove
  <2>2. phase' # "build"
    BY <1>23, <2>1 DEF Mark, Kept, Save, Unsaved, Refuse, End
  <2> QED BY <2>2 DEF ForwardInv
<1>24. ASSUME Dispose PROVE ForwardInv'
  BY <1>24 DEF Dispose, ForwardInv, IsNew, PhaseInv, BuildOnly, AtMove, AtRow, End, Goto,
    Outside, ghost, disk, proc, ProcType
<1>25. ASSUME Stop PROVE ForwardInv'
  BY <1>25 DEF Stop, ForwardInv, IsNew, PhaseInv, BuildOnly, AtMove, AtRow, End, Goto, Outside,
    ghost, disk, proc, ProcType
<1>26. ASSUME FinishFailed PROVE ForwardInv'
  <2>1. phase # "build"
    BY <1>26 DEF FinishFailed, PhaseInv, BuildOnly, AtMove
  <2>2. phase' # "build"
    BY <1>26, <2>1 DEF FinishFailed, Kept, Save, Unsaved, Refuse, End
  <2> QED BY <2>2 DEF ForwardInv
<1>27. ASSUME FinishDone PROVE ForwardInv'
  BY <1>27 DEF FinishDone, ForwardInv, IsNew, PhaseInv, BuildOnly, AtMove, AtRow, End, Goto,
    Outside, ghost, disk, proc, ProcType
<1>28. ASSUME Publish PROVE ForwardInv'
  BY <1>28 DEF Publish, ForwardInv, IsNew, PhaseInv, BuildOnly, AtMove, AtRow, End, Goto,
    Outside, ghost, disk, proc, ProcType
<1>29. ASSUME RetirePending PROVE ForwardInv'
  BY <1>29 DEF RetirePending, ForwardInv, IsNew, PhaseInv, BuildOnly, AtMove, AtRow, End, Goto,
    Outside, ghost, disk, proc, ProcType
<1>30. ASSUME RetireTerminal PROVE ForwardInv'
  BY <1>30 DEF RetireTerminal, ForwardInv, IsNew, PhaseInv, BuildOnly, AtMove, AtRow, End, Goto,
    Outside, ghost, disk, proc, ProcType
<1>31. ASSUME Confirm PROVE ForwardInv'
  <2>1. phase # "build"
    BY <1>31 DEF Confirm, PhaseInv, BuildOnly, AtMove
  <2>2. phase' # "build"
    BY <1>31, <2>1 DEF Confirm, Kept, Save, Unsaved, Refuse, End
  <2> QED BY <2>2 DEF ForwardInv
<1>32. ASSUME StartBuild PROVE ForwardInv'
  BY <1>32 DEF StartBuild, ForwardInv, IsNew, PhaseInv, BuildOnly, AtMove, AtRow, End, Goto,
    Outside, ghost, disk, proc, ProcType
<1>33. ASSUME StartWorker PROVE ForwardInv'
  BY <1>33 DEF StartWorker, ForwardInv, IsNew, PhaseInv, BuildOnly, AtMove, AtRow, End, Goto,
    Outside, ghost, disk, proc, ProcType
<1>34. ASSUME WorkerEnds PROVE ForwardInv'
  BY <1>34 DEF WorkerEnds, ForwardInv, IsNew, PhaseInv, BuildOnly, AtMove, AtRow, End, Goto,
    Outside, ghost, disk, proc, ProcType
<1>35. ASSUME Recover PROVE ForwardInv'
  BY <1>35 DEF Recover, ForwardInv, IsNew, PhaseInv, BuildOnly, AtMove, AtRow, End, Goto,
    Outside, ghost, disk, proc, ProcType
<1>36. ASSUME Fail PROVE ForwardInv'
  <2>1. phase' # "build"
    BY <1>36 DEF Fail, Raise, Unsaved, Refuse, End, Goto, PhaseInv, BuildOnly, AtMove
  <2> QED BY <2>1 DEF ForwardInv
<1>37. ASSUME Edit PROVE ForwardInv'
  <2>1. PICK i \in Targets, p \in {"target", "backup"}, x \in Edits \cup {"none"} :
         /\ touched' = touched \cup {i} /\ file' = [file EXCEPT ![i][p] = Fresh(x)]
         /\ UNCHANGED proc
    BY <1>37 DEF Edit
  <2>2. \A j \in Targets : IsNew(j) => IsNew(j)'
    BY <2>1 DEF IsNew, FileType, RestType, Places
  <2>3. \A j \in Targets : file'[j]["stage"] = file[j]["stage"]
    BY <2>1 DEF FileType, Places
  <2>4. pc \in AtRow => k \in Targets
    BY DEF ProcType
  <2> QED BY <2>1, <2>2, <2>3, <2>4 DEF ForwardInv, proc, AtMove, AtRow
<1>38. ASSUME Crash PROVE ForwardInv'
  BY <1>38 DEF Crash, ForwardInv, IsNew, PhaseInv, BuildOnly, AtMove, AtRow, End, Goto, Outside,
    ghost, disk, proc, ProcType
<1>39. ASSUME UNCHANGED vars PROVE ForwardInv'
  BY <1>39 DEF vars, disk, proc, ghost, counts, ForwardInv, IsNew
<1> QED BY <1>1, <1>2, <1>3, <1>4, <1>5, <1>6, <1>7, <1>8, <1>9, <1>10, <1>11, <1>12, <1>13, <1>14,
    <1>15, <1>16, <1>17, <1>18, <1>19, <1>20, <1>21, <1>22, <1>23, <1>24, <1>25, <1>26, <1>27,
    <1>28, <1>29, <1>30, <1>31, <1>32, <1>33, <1>34, <1>35, <1>36, <1>37, <1>38, <1>39 DEF Next,
    Catchable, Work, Moving, Building, Finishing

LEMMA ForwardHolds == Spec => []ForwardInv
<1>1. TypeOK /\ OwnInv /\ NoneInv /\ PhaseInv /\ ForwardInv /\ [Next]_vars => ForwardInv'
  BY ForwardStep
<1> QED BY <1>1, TypeCorrect, OwnHolds, NoneHolds, PhaseHolds, ForwardInit, PTL DEF Spec

\* While a worker runs nothing but an editor or a confirmation follows.
WorkerInv ==
  worker = "running" =>
    /\ terminal = "none" /\ dir = "yes" /\ log.quiescence = "none"
    /\ pc \in {"run", "finish", "idle", "confirm"} /\ phase # "restore"
    /\ \A i \in Targets : IsNew(i)

LEMMA WorkerInit == Init => WorkerInv
  BY DEF Init, WorkerInv

\* Every step keeps it: whoever starts a worker has replaced everything.
LEMMA WorkerStep ==
  TypeOK /\ PhaseInv /\ ForwardInv /\ WorkerInv /\ [Next]_vars => WorkerInv'
<1> SUFFICES ASSUME TypeOK /\ PhaseInv /\ ForwardInv /\ WorkerInv, [Next]_vars PROVE WorkerInv'
  OBVIOUS
<1> USE DEF TypeOK
<1>1. ASSUME MoveBegin PROVE WorkerInv'
  <2>1. worker # "running" /\ UNCHANGED worker
    BY <1>1 DEF MoveBegin, WorkerInv, Kept, Outside
  <2> QED BY <2>1 DEF WorkerInv
<1>2. ASSUME MoveRename PROVE WorkerInv'
  <2>1. worker # "running" /\ UNCHANGED worker
    BY <1>2 DEF MoveRename, WorkerInv, Kept, Outside
  <2> QED BY <2>1 DEF WorkerInv
<1>3. ASSUME MoveSettle PROVE WorkerInv'
  <2>1. worker # "running" /\ UNCHANGED worker
    BY <1>3 DEF MoveSettle, WorkerInv, Kept, Outside
  <2> QED BY <2>1 DEF WorkerInv
<1>4. ASSUME Moved PROVE WorkerInv'
  <2>1. worker # "running" /\ UNCHANGED worker
    BY <1>4 DEF Moved, WorkerInv, Kept, Outside
  <2> QED BY <2>1 DEF WorkerInv
<1>5. ASSUME Mkdir PROVE WorkerInv'
  <2>1. worker # "running" /\ UNCHANGED worker
    BY <1>5 DEF Mkdir, WorkerInv, Kept, Outside
  <2> QED BY <2>1 DEF WorkerInv
<1>6. ASSUME MakeScratch PROVE WorkerInv'
  <2>1. worker # "running" /\ UNCHANGED worker
    BY <1>6 DEF MakeScratch, WorkerInv, Kept, Outside
  <2> QED BY <2>1 DEF WorkerInv
<1>7. ASSUME PublishHeader PROVE WorkerInv'
  <2>1. worker # "running" /\ UNCHANGED worker
    BY <1>7 DEF PublishHeader, WorkerInv, Kept, Outside
  <2> QED BY <2>1 DEF WorkerInv
<1>8. ASSUME FirstCheckpoint PROVE WorkerInv'
  <2>1. worker # "running" /\ UNCHANGED worker
    BY <1>8 DEF FirstCheckpoint, WorkerInv, Kept, Outside
  <2> QED BY <2>1 DEF WorkerInv
<1>9. ASSUME Plan PROVE WorkerInv'
  <2>1. worker # "running" /\ UNCHANGED worker
    BY <1>9 DEF Plan, WorkerInv, Kept, Outside
  <2> QED BY <2>1 DEF WorkerInv
<1>10. ASSUME ProbeStart PROVE WorkerInv'
  <2>1. worker # "running" /\ UNCHANGED worker
    BY <1>10 DEF ProbeStart, WorkerInv, Kept, Outside
  <2> QED BY <2>1 DEF WorkerInv
<1>11. ASSUME ProbeEnd PROVE WorkerInv'
  <2>1. worker # "running" /\ UNCHANGED worker
    BY <1>11 DEF ProbeEnd, WorkerInv, Kept, Outside
  <2> QED BY <2>1 DEF WorkerInv
<1>12. ASSUME Stage PROVE WorkerInv'
  <2>1. worker # "running" /\ UNCHANGED worker
    BY <1>12 DEF Stage, WorkerInv, Kept, Outside
  <2> QED BY <2>1 DEF WorkerInv
<1>13. ASSUME PublishIntent PROVE WorkerInv'
  <2>1. worker # "running" /\ UNCHANGED worker
    BY <1>13 DEF PublishIntent, WorkerInv, Kept, Outside
  <2> QED BY <2>1 DEF WorkerInv
<1>14. ASSUME Prepare PROVE WorkerInv'
  <2>1. worker # "running" /\ UNCHANGED worker
    BY <1>14 DEF Prepare, WorkerInv, Kept, Outside
  <2> QED BY <2>1 DEF WorkerInv
<1>15. ASSUME Verify PROVE WorkerInv'
  <2>1. worker # "running" /\ UNCHANGED worker
    BY <1>15 DEF Verify, WorkerInv, Kept, Outside
  <2> QED BY <2>1 DEF WorkerInv
<1>16. ASSUME Forward PROVE WorkerInv'
  <2>1. worker # "running" /\ UNCHANGED worker
    BY <1>16 DEF Forward, WorkerInv, Kept, Outside
  <2> QED BY <2>1 DEF WorkerInv
<1>17. ASSUME LeaveBody PROVE WorkerInv'
  BY <1>17 DEF LeaveBody, WorkerInv, IsNew, End, Outside, ghost, disk, proc
<1>18. ASSUME Finish PROVE WorkerInv'
  <2>1. CASE worker = "running"
    BY <1>18, <2>1 DEF Finish, WorkerInv, IsNew, End, Outside, ghost, disk
  <2>2. CASE worker # "running"
    BY <1>18, <2>2 DEF Finish, WorkerInv, Kept, Outside
  <2> QED BY <2>1, <2>2
<1>19. ASSUME Enter PROVE WorkerInv'
  <2>1. worker # "running" /\ UNCHANGED worker
    BY <1>19 DEF Enter, WorkerInv, Kept, Outside
  <2> QED BY <2>1 DEF WorkerInv
<1>20. ASSUME NextRow PROVE WorkerInv'
  <2>1. worker # "running" /\ UNCHANGED worker
    BY <1>20 DEF NextRow, WorkerInv, Kept, Outside
  <2> QED BY <2>1 DEF WorkerInv
<1>21. ASSUME Restore PROVE WorkerInv'
  <2>1. worker # "running" /\ UNCHANGED worker
    BY <1>21 DEF Restore, WorkerInv, Kept, Outside
  <2> QED BY <2>1 DEF WorkerInv
<1>22. ASSUME Unstage PROVE WorkerInv'
  <2>1. worker # "running" /\ UNCHANGED worker
    BY <1>22 DEF Unstage, WorkerInv, Kept, Outside
  <2> QED BY <2>1 DEF WorkerInv
<1>23. ASSUME Mark PROVE WorkerInv'
  <2>1. worker # "running" /\ UNCHANGED worker
    BY <1>23 DEF Mark, WorkerInv, Kept, Outside
  <2> QED BY <2>1 DEF WorkerInv
<1>24. ASSUME Dispose PROVE WorkerInv'
  <2>1. worker # "running" /\ UNCHANGED worker
    BY <1>24 DEF Dispose, WorkerInv, Kept, Outside
  <2> QED BY <2>1 DEF WorkerInv
<1>25. ASSUME Stop PROVE WorkerInv'
  <2>1. worker # "running" /\ UNCHANGED worker
    BY <1>25 DEF Stop, WorkerInv, Kept, Outside
  <2> QED BY <2>1 DEF WorkerInv
<1>26. ASSUME FinishFailed PROVE WorkerInv'
  <2>1. worker # "running" /\ UNCHANGED worker
    BY <1>26 DEF FinishFailed, WorkerInv, Kept, Outside
  <2> QED BY <2>1 DEF WorkerInv
<1>27. ASSUME FinishDone PROVE WorkerInv'
  <2>1. worker # "running" /\ UNCHANGED worker
    BY <1>27 DEF FinishDone, WorkerInv, Kept, Outside
  <2> QED BY <2>1 DEF WorkerInv
<1>28. ASSUME Publish PROVE WorkerInv'
  <2>1. worker # "running" /\ UNCHANGED worker
    BY <1>28 DEF Publish, WorkerInv, Kept, Outside
  <2> QED BY <2>1 DEF WorkerInv
<1>29. ASSUME RetirePending PROVE WorkerInv'
  <2>1. worker # "running" /\ UNCHANGED worker
    BY <1>29 DEF RetirePending, WorkerInv, Kept, Outside
  <2> QED BY <2>1 DEF WorkerInv
<1>30. ASSUME RetireTerminal PROVE WorkerInv'
  <2>1. worker # "running" /\ UNCHANGED worker
    BY <1>30 DEF RetireTerminal, WorkerInv, Kept, Outside
  <2> QED BY <2>1 DEF WorkerInv
<1>31. ASSUME Confirm PROVE WorkerInv'
  <2> QED BY <1>31 DEF Confirm, WorkerInv, Kept, Outside
<1>32. ASSUME StartBuild PROVE WorkerInv'
  BY <1>32 DEF StartBuild, WorkerInv, IsNew, End, Outside, ghost, disk, proc
<1>33. ASSUME StartWorker PROVE WorkerInv'
  <2>1. phase = "build" /\ \A i \in Targets : IsNew(i)
    BY <1>33 DEF StartWorker, PhaseInv, BuildOnly, ForwardInv
  <2> QED BY <1>33, <2>1 DEF StartWorker, WorkerInv, IsNew, PhaseInv, disk, proc, ghost
<1>34. ASSUME WorkerEnds PROVE WorkerInv'
  BY <1>34 DEF WorkerEnds, WorkerInv, IsNew, End, Outside, ghost, disk, proc
<1>35. ASSUME Recover PROVE WorkerInv'
  BY <1>35 DEF Recover, WorkerInv, IsNew, End, Outside, ghost, disk, proc
<1>36. ASSUME Fail PROVE WorkerInv'
  <2>1. CASE worker = "running"
    <3>1. pc = "run" /\ phase = "build"
      BY <1>36, <2>1 DEF Fail, WorkerInv, PhaseInv, BuildOnly, AtMove
    <3>2. pc' = "finish" /\ phase' = "finish" /\ UNCHANGED <<file, touched, terminal, dir, log>>
      BY <1>36, <3>1 DEF Fail, Raise, Unsaved, Refuse, Outside, ghost
    <3> QED BY <2>1, <3>2 DEF WorkerInv, IsNew
  <2>2. CASE worker # "running"
    BY <1>36, <2>2 DEF Fail, WorkerInv, Outside
  <2> QED BY <2>1, <2>2
<1>37. ASSUME Edit PROVE WorkerInv'
  <2>1. PICK i \in Targets, p \in {"target", "backup"}, x \in Edits \cup {"none"} :
         /\ touched' = touched \cup {i} /\ file' = [file EXCEPT ![i][p] = Fresh(x)]
         /\ UNCHANGED <<disk, proc, worker>>
    BY <1>37 DEF Edit
  <2>2. \A j \in Targets : IsNew(j) => IsNew(j)'
    BY <2>1 DEF IsNew, FileType, RestType, Places
  <2> QED BY <2>1, <2>2 DEF WorkerInv, disk, proc
<1>38. ASSUME Crash PROVE WorkerInv'
  BY <1>38 DEF Crash, WorkerInv, IsNew, End, Outside, ghost, disk, proc
<1>39. ASSUME UNCHANGED vars PROVE WorkerInv'
  BY <1>39 DEF vars, disk, proc, ghost, counts, WorkerInv, IsNew
<1> QED BY <1>1, <1>2, <1>3, <1>4, <1>5, <1>6, <1>7, <1>8, <1>9, <1>10, <1>11, <1>12, <1>13, <1>14,
    <1>15, <1>16, <1>17, <1>18, <1>19, <1>20, <1>21, <1>22, <1>23, <1>24, <1>25, <1>26, <1>27,
    <1>28, <1>29, <1>30, <1>31, <1>32, <1>33, <1>34, <1>35, <1>36, <1>37, <1>38, <1>39 DEF Next,
    Catchable, Work, Moving, Building, Finishing

\* A running worker reads replaced files only, in whatever order deaths and recoveries
\* come (the idle check of _finish and the confirmation of recover_build_inputs).
THEOREM WorkersSeeInputs == Spec => []WorkerSeesInputs
<1>1. TypeOK /\ PhaseInv /\ ForwardInv /\ WorkerInv /\ [Next]_vars => WorkerInv'
  BY WorkerStep
<1>2. WorkerInv => WorkerSeesInputs
  BY DEF WorkerInv, WorkerSeesInputs, IsNew
<1> QED BY <1>1, <1>2, TypeCorrect, PhaseHolds, ForwardHolds, WorkerInit, PTL DEF Spec

-----------------------------------------------------------------------------
(* What nobody else edited comes back: the stages of an invocation, then   *)
(* what its memory and the last checkpoint say of each target.             *)

Started == {"mkdir", "scratch", "header", "first", "plan"}
Planned == {"probe", "probed", "stage", "prepare", "verify", "forward", "begin", "rename",
            "settle", "moved", "run", "restore", "unstage", "mark"}
Retiring == {"publish", "retire", "unlink"}

StageInv ==
  /\ pc = "idle" => mem = Blank
  /\ pc \in Started => mem.prepared = "no"
  /\ pc \in Planned => mem.prepared # "no"
  /\ pc = "done" /\ mem.prepared = "no" => k = 1
  /\ pc \in Retiring => terminal # "none"
  /\ pc = "unlink" => dir = "no"
  /\ pc \notin Retiring \cup {"idle"} => terminal = "none"

LEMMA StageInit == Init => StageInv
  BY DEF Init, StageInv, Started, Planned, Retiring

\* What an error leaves of the memory m.
LEMMA RefuseStage ==
  ASSUME NEW m \in Memory, Refuse(m), phase = "restore" => k \in Targets
  PROVE  \/ pc' = "finish" /\ phase' = "finish" /\ mem' = m
         \/ /\ phase = "restore" /\ pc' = "done" /\ phase' = "restore" /\ k' = k
            /\ mem' = Conflict(m, k) /\ mem' \in Memory /\ mem'.prepared = m.prepared
         \/ pc' = "idle" /\ phase' = "none" /\ mem' = Blank
<1>1. CASE phase = "restore"
  <2>1. mem' = Conflict(m, k) /\ k \in Targets
    BY <1>1 DEF Refuse, Conflict
  <2>2. mem' \in Memory /\ mem'.prepared = m.prepared
    BY <2>1, ConflictType DEF Conflict, Memory
  <2> QED BY <1>1, <2>1, <2>2 DEF Refuse
<1>2. CASE phase # "restore"
  BY <1>2 DEF Refuse, End
<1> QED BY <1>1, <1>2

\* What a checkpoint leaves, published or not.
LEMMA SaveStage ==
  ASSUME NEW m, NEW l, Save(m, l)
  PROVE  \/ pc' = l /\ mem' = m /\ log' = m /\ UNCHANGED <<phase, k, job>>
         \/ Refuse(m) /\ log' \in {log, m}
  BY DEF Save, Unsaved

\* Every step keeps the stages.
LEMMA StageStep ==
  TypeOK /\ PhaseInv /\ StageInv /\ [Next]_vars
    => StageInv'
<1> SUFFICES ASSUME TypeOK /\ PhaseInv /\ StageInv, [Next]_vars
             PROVE  StageInv'
  OBVIOUS
<1> USE DEF TypeOK
<1>1. ASSUME MoveBegin PROVE StageInv'
  <2> DEFINE m == [mem EXCEPT !.rows[k].move = job]
             can == /\ file[k][Source(job)] = mem.rows[k][Field(job)]
                    /\ file[k][Source(job)] # Nothing /\ file[k][Dest(job)] = Nothing
  <2>0. k \in Targets
    BY <1>1 DEF MoveBegin, ProcType, AtRow
  <2>1. m \in Memory /\ m.prepared = mem.prepared
    <3>1. [mem.rows[k] EXCEPT !.move = job] \in Rows
      BY <1>1, <2>0 DEF ProcType, Memory, Rows
    <3>2. m = [mem EXCEPT !.rows[k] = [mem.rows[k] EXCEPT !.move = job]]
      OBVIOUS
    <3> QED BY <2>0, <3>1, <3>2, RowUpdate DEF ProcType, Memory
  <2>2. can => Save(m, "rename")
    BY <1>1 DEF MoveBegin, Kept
  <2>3. ~can => Refuse(mem) /\ mem \in Memory
    BY <1>1 DEF MoveBegin, Raise, Unsaved, ProcType
  <2>4. UNCHANGED <<dir, terminal>> /\ pc \notin Retiring \cup {"idle", "done"}
    BY <1>1 DEF MoveBegin, Kept, disk, Retiring
  <2> HIDE DEF m, can
  <2>5. mem.prepared # "no" /\ terminal = "none"
    BY <1>1, <2>4 DEF MoveBegin, StageInv, Started, Planned, Retiring
  <2> QED BY <2>0, <2>1, <2>2, <2>3, <2>4, <2>5, SaveStage, RefuseStage DEF StageInv, Started,
      Planned, Retiring, Blank
<1>2. ASSUME MoveRename PROVE StageInv'
  BY <1>2 DEF MoveRename, StageInv, Started, Planned, Retiring, PhaseInv, BuildOnly, AtMove,
    End, Goto, disk, proc, Blank
<1>3. ASSUME MoveSettle PROVE StageInv'
  <2> DEFINE m == [mem EXCEPT !.rows[k] = Settled(k, mem.rows[k])]
             can == Settleable(k, mem.rows[k])
  <2>0. k \in Targets /\ mem.rows[k] \in Rows
    BY <1>3 DEF MoveSettle, ProcType, AtRow, Memory
  <2>1. m \in Memory /\ m.prepared = mem.prepared
    BY <2>0, SettledType, RowUpdate DEF ProcType, Memory
  <2>2. can => Save(m, "moved")
    BY <1>3 DEF MoveSettle, Kept
  <2>3. ~can => Refuse(Conflict(mem, k)) /\ Conflict(mem, k) \in Memory
    BY <1>3, <2>0, ConflictType DEF MoveSettle, Raise, Unsaved, ProcType
  <2>4. UNCHANGED <<dir, terminal>> /\ pc \notin Retiring \cup {"idle", "done"}
    BY <1>3 DEF MoveSettle, Kept, disk, Retiring
  <2>6. Conflict(mem, k).prepared = mem.prepared
    BY DEF ProcType, Memory, Conflict
  <2> HIDE DEF m, can
  <2>5. mem.prepared # "no" /\ terminal = "none"
    BY <1>3, <2>4 DEF MoveSettle, StageInv, Started, Planned, Retiring
  <2> QED BY <2>0, <2>1, <2>2, <2>3, <2>4, <2>5, <2>6, SaveStage, RefuseStage DEF StageInv, Started,
      Planned, Retiring, Blank
<1>4. ASSUME Moved PROVE StageInv'
  <2>1. mem \in Memory /\ (phase = "restore" => k \in Targets)
    BY <1>4 DEF Moved, ProcType, AtRow
  <2>2. UNCHANGED <<dir, terminal>> /\ pc \notin Retiring \cup {"idle", "done"}
    BY <1>4 DEF Moved, disk, Retiring, PhaseInv, BuildOnly, AtMove
  <2>3. CASE Refuse(mem)
    BY <2>1, <2>2, <2>3, RefuseStage DEF StageInv, Started, Planned, Retiring, PhaseInv,
      BuildOnly, AtMove, ProcType, AtRow, Blank
  <2>4. CASE ~Refuse(mem)
    BY <1>4, <2>4 DEF Moved, Raise, Unsaved, Goto, StageInv, Started, Planned, Retiring, disk
  <2> QED BY <2>3, <2>4
<1>5. ASSUME Mkdir PROVE StageInv'
  BY <1>5 DEF Mkdir, StageInv, Started, Planned, Retiring, PhaseInv, BuildOnly, AtMove, End,
    Goto, disk, proc, Blank
<1>6. ASSUME MakeScratch PROVE StageInv'
  BY <1>6 DEF MakeScratch, StageInv, Started, Planned, Retiring, PhaseInv, BuildOnly, AtMove,
    End, Goto, disk, proc, Blank
<1>7. ASSUME PublishHeader PROVE StageInv'
  BY <1>7 DEF PublishHeader, StageInv, Started, Planned, Retiring, PhaseInv, BuildOnly, AtMove,
    End, Goto, disk, proc, Blank
<1>8. ASSUME FirstCheckpoint PROVE StageInv'
  <2> DEFINE m == mem
  <2>1. m \in Memory /\ m.prepared = mem.prepared
    BY <1>8 DEF FirstCheckpoint, ProcType, Memory
  <2>2. Save(m, "plan") /\ UNCHANGED <<dir, terminal>>
    BY <1>8 DEF FirstCheckpoint, Kept
  <2> HIDE DEF m
  <2> QED BY <1>8, <2>1, <2>2, SaveStage, RefuseStage DEF FirstCheckpoint, StageInv, Started, Planned,
      Retiring, ProcType, AtRow, Blank
<1>9. ASSUME Plan PROVE StageInv'
  <2>1. mem'.prepared = "planned"
    BY <1>9 DEF Plan, ProcType, Memory
  <2> QED BY <1>9, <2>1 DEF Plan, StageInv, Started, Planned, Retiring, disk
<1>10. ASSUME ProbeStart PROVE StageInv'
  BY <1>10 DEF ProbeStart, StageInv, Started, Planned, Retiring, PhaseInv, BuildOnly, AtMove,
    End, Goto, disk, proc, Blank
<1>11. ASSUME ProbeEnd PROVE StageInv'
  BY <1>11 DEF ProbeEnd, StageInv, Started, Planned, Retiring, PhaseInv, BuildOnly, AtMove, End,
    Goto, disk, proc, Blank
<1>12. ASSUME Stage PROVE StageInv'
  <2>1. mem'.prepared = mem.prepared
    BY <1>12 DEF Stage, ProcType, Memory
  <2> QED BY <1>12, <2>1 DEF Stage, StageInv, Started, Planned, Retiring, disk
<1>13. ASSUME PublishIntent PROVE StageInv'
  BY <1>13 DEF PublishIntent, StageInv, Started, Planned, Retiring, PhaseInv, BuildOnly, AtMove,
    End, Goto, disk, proc, Blank
<1>14. ASSUME Prepare PROVE StageInv'
  <2> DEFINE m == [mem EXCEPT !.prepared = "yes"]
  <2>1. m \in Memory /\ m.prepared = "yes"
    BY <1>14 DEF Prepare, ProcType, Memory
  <2>2. Save(m, "verify") /\ UNCHANGED <<dir, terminal>>
    BY <1>14 DEF Prepare, Kept
  <2> HIDE DEF m
  <2> QED BY <1>14, <2>1, <2>2, SaveStage, RefuseStage DEF Prepare, StageInv, Started, Planned,
      Retiring, ProcType, AtRow, Blank
<1>15. ASSUME Verify PROVE StageInv'
  <2>1. mem \in Memory /\ (phase = "restore" => k \in Targets)
    BY <1>15 DEF Verify, ProcType, AtRow
  <2>2. UNCHANGED <<dir, terminal>> /\ pc \notin Retiring \cup {"idle", "done"}
    BY <1>15 DEF Verify, disk, Retiring, PhaseInv, BuildOnly, AtMove
  <2>3. CASE Refuse(mem)
    BY <2>1, <2>2, <2>3, RefuseStage DEF StageInv, Started, Planned, Retiring, PhaseInv,
      BuildOnly, AtMove, ProcType, AtRow, Blank
  <2>4. CASE ~Refuse(mem)
    BY <1>15, <2>4 DEF Verify, Raise, Unsaved, Goto, StageInv, Started, Planned, Retiring, disk
  <2> QED BY <2>3, <2>4
<1>16. ASSUME Forward PROVE StageInv'
  BY <1>16 DEF Forward, StageInv, Started, Planned, Retiring, PhaseInv, BuildOnly, AtMove, End,
    Goto, disk, proc, Blank
<1>17. ASSUME LeaveBody PROVE StageInv'
  BY <1>17 DEF LeaveBody, StageInv, Started, Planned, Retiring, PhaseInv, BuildOnly, AtMove,
    End, Goto, disk, proc, Blank
<1>18. ASSUME Finish PROVE StageInv'
  <2> DEFINE m == [mem EXCEPT !.quiescence = "original"]
  <2>1. m \in Memory /\ m.prepared = mem.prepared
    BY <1>18 DEF Finish, ProcType, Memory
  <2>2. (dir = "yes" /\ header = "yes" /\ failed = "no" /\ worker = "idle") => Save(m, "enter")
    BY <1>18 DEF Finish, Kept
  <2>3. ~(dir = "yes" /\ header = "yes" /\ failed = "no" /\ worker = "idle") => End
    BY <1>18 DEF Finish
  <2>4. UNCHANGED <<dir, terminal>> /\ phase # "restore"
    BY <1>18 DEF Finish, Kept, disk, ProcType, AtRow
  <2> HIDE DEF m
  <2> QED BY <1>18, <2>1, <2>2, <2>3, <2>4, SaveStage, RefuseStage DEF Finish, End, StageInv, Started,
      Planned, Retiring, Blank
<1>19. ASSUME Enter PROVE StageInv'
  <2>1. mem'.prepared = mem.prepared
    BY <1>19 DEF Enter, Cleared, ProcType, Memory
  <2> QED BY <1>19, <2>1 DEF Enter, StageInv, Started, Planned, Retiring, disk
<1>20. ASSUME NextRow PROVE StageInv'
  BY <1>20 DEF NextRow, StageInv, Started, Planned, Retiring, PhaseInv, BuildOnly, AtMove, End,
    Goto, disk, proc, Blank
<1>21. ASSUME Restore PROVE StageInv'
  <2> DEFINE r == Settled(k, mem.rows[k])
             m == [mem EXCEPT !.rows[k] = r]
  <2>0. k \in Targets /\ mem.rows[k] \in Rows /\ mem \in Memory
    BY <1>21 DEF Restore, ProcType, AtRow, Memory
  <2>1. m \in Memory /\ m.prepared = mem.prepared
    BY <2>0, SettledType, RowUpdate DEF Memory
  <2>2. \/ Refuse(mem) \/ Refuse(m)
        \/ pc' \in {"unstage", "begin"} /\ mem' = m
    BY <1>21 DEF Restore, Raise, Unsaved
  <2>3. UNCHANGED <<dir, terminal>> /\ terminal = "none" /\ mem.prepared # "no"
    BY <1>21 DEF Restore, disk, StageInv, Started, Planned, Retiring
  <2> HIDE DEF m, r
  <2> QED BY <2>0, <2>1, <2>2, <2>3, RefuseStage DEF StageInv, Started, Planned, Retiring, Blank
<1>22. ASSUME Unstage PROVE StageInv'
  <2>1. mem \in Memory /\ (phase = "restore" => k \in Targets)
    BY <1>22 DEF Unstage, ProcType, AtRow
  <2>2. UNCHANGED <<dir, terminal>> /\ pc \notin Retiring \cup {"idle", "done"}
    BY <1>22 DEF Unstage, disk, Retiring, PhaseInv, BuildOnly, AtMove
  <2>3. CASE Refuse(mem)
    BY <2>1, <2>2, <2>3, RefuseStage DEF StageInv, Started, Planned, Retiring, PhaseInv,
      BuildOnly, AtMove, ProcType, AtRow, Blank
  <2>4. CASE ~Refuse(mem)
    BY <1>22, <2>4 DEF Unstage, Raise, Unsaved, Goto, Outside, StageInv, Started, Planned,
      Retiring, disk
  <2> QED BY <2>3, <2>4
<1>23. ASSUME Mark PROVE StageInv'
  <2> DEFINE m == [mem EXCEPT !.rows[k].restored = "yes"]
             r == [mem.rows[k] EXCEPT !.restored = "yes"]
  <2>0. k \in Targets /\ r \in Rows
    BY <1>23 DEF Mark, ProcType, AtRow, Memory, Rows
  <2>1. m = [mem EXCEPT !.rows[k] = r] /\ m \in Memory /\ m.prepared = mem.prepared
    <3>1. m = [mem EXCEPT !.rows[k] = r]
      OBVIOUS
    <3> QED BY <2>0, <3>1, RowUpdate DEF ProcType, Memory
  <2>2. Save(m, "done") /\ UNCHANGED <<dir, terminal>>
    BY <1>23 DEF Mark, Kept
  <2> HIDE DEF m, r
  <2> QED BY <1>23, <2>0, <2>1, <2>2, SaveStage, RefuseStage DEF Mark, StageInv, Started, Planned,
      Retiring, Blank
<1>24. ASSUME Dispose PROVE StageInv'
  BY <1>24 DEF Dispose, StageInv, Started, Planned, Retiring, PhaseInv, BuildOnly, AtMove, End,
    Goto, disk, proc, Blank
<1>25. ASSUME Stop PROVE StageInv'
  BY <1>25 DEF Stop, StageInv, Started, Planned, Retiring, PhaseInv, BuildOnly, AtMove, End,
    Goto, disk, proc, Blank
<1>26. ASSUME FinishFailed PROVE StageInv'
  <2> DEFINE m == mem
  <2>1. m \in Memory /\ m.prepared = mem.prepared
    BY <1>26 DEF FinishFailed, ProcType, Memory
  <2>2. (failed = "no") => Save(m, "stop")
    BY <1>26 DEF FinishFailed, Kept
  <2>3. ~(failed = "no") => End
    BY <1>26 DEF FinishFailed
  <2>4. UNCHANGED <<dir, terminal>> /\ phase # "restore"
    BY <1>26 DEF FinishFailed, Kept, disk, ProcType, AtRow
  <2> HIDE DEF m
  <2> QED BY <1>26, <2>1, <2>2, <2>3, <2>4, SaveStage, RefuseStage DEF FinishFailed, End, StageInv,
      Started, Planned, Retiring, Blank
<1>27. ASSUME FinishDone PROVE StageInv'
  BY <1>27 DEF FinishDone, StageInv, Started, Planned, Retiring, PhaseInv, BuildOnly, AtMove,
    End, Goto, disk, proc, Blank
<1>28. ASSUME Publish PROVE StageInv'
  BY <1>28 DEF Publish, StageInv, Started, Planned, Retiring, PhaseInv, BuildOnly, AtMove, End,
    Goto, disk, proc, Blank
<1>29. ASSUME RetirePending PROVE StageInv'
  BY <1>29 DEF RetirePending, StageInv, Started, Planned, Retiring, PhaseInv, BuildOnly, AtMove,
    End, Goto, disk, proc, Blank
<1>30. ASSUME RetireTerminal PROVE StageInv'
  BY <1>30 DEF RetireTerminal, StageInv, Started, Planned, Retiring, PhaseInv, BuildOnly,
    AtMove, End, Goto, disk, proc, Blank
<1>31. ASSUME Confirm PROVE StageInv'
  <2> DEFINE m == [mem EXCEPT !.quiescence = "operator"]
  <2>1. m \in Memory /\ m.prepared = mem.prepared
    BY <1>31 DEF Confirm, ProcType, Memory
  <2>2. Save(m, "enter") /\ UNCHANGED <<dir, terminal>>
    BY <1>31 DEF Confirm, Kept
  <2> HIDE DEF m
  <2> QED BY <1>31, <2>1, <2>2, SaveStage, RefuseStage DEF Confirm, StageInv, Started, Planned,
      Retiring, ProcType, AtRow, Blank
<1>32. ASSUME StartBuild PROVE StageInv'
  BY <1>32 DEF StartBuild, StageInv, Started, Planned, Retiring, PhaseInv, BuildOnly, AtMove,
    End, Goto, disk, proc, Blank
<1>33. ASSUME StartWorker PROVE StageInv'
  BY <1>33 DEF StartWorker, StageInv, Started, Planned, Retiring, PhaseInv, BuildOnly, AtMove,
    End, Goto, disk, proc, Blank
<1>34. ASSUME WorkerEnds PROVE StageInv'
  BY <1>34 DEF WorkerEnds, StageInv, Started, Planned, Retiring, PhaseInv, BuildOnly, AtMove,
    End, Goto, disk, proc, Blank
<1>35. ASSUME Recover PROVE StageInv'
  <2>1. CASE terminal = "published" /\ pc' = "retire" /\ UNCHANGED <<dir, terminal>>
    BY <2>1 DEF StageInv, Started, Planned, Retiring
  <2>2. CASE terminal = "none" /\ pc' \in {"confirm", "enter"} /\ UNCHANGED <<dir, terminal>>
    BY <2>2 DEF StageInv, Started, Planned, Retiring
  <2> QED BY <1>35, <2>1, <2>2 DEF Recover, disk
<1>36. ASSUME Fail PROVE StageInv'
  <2>1. mem \in Memory /\ (phase = "restore" => k \in Targets)
    BY <1>36 DEF Fail, ProcType, AtRow
  <2>2. UNCHANGED <<dir, terminal>> /\ pc \notin Retiring \cup {"idle", "done"}
    BY <1>36 DEF Fail, Retiring, PhaseInv, BuildOnly, AtMove, ProcType, AtRow
  <2>3. Refuse(mem)
    BY <1>36 DEF Fail, Raise, Unsaved
  <2>4. phase = "restore" => pc \in Planned
    BY <1>36 DEF Fail, ProcType, AtRow, Planned
  <2> QED BY <2>1, <2>2, <2>3, <2>4, RefuseStage DEF StageInv, Started, Planned, Retiring, Blank
<1>37. ASSUME Edit PROVE StageInv'
  BY <1>37 DEF Edit, StageInv, Started, Planned, Retiring, PhaseInv, BuildOnly, AtMove, End,
    Goto, disk, proc, Blank
<1>38. ASSUME Crash PROVE StageInv'
  BY <1>38 DEF Crash, StageInv, Started, Planned, Retiring, PhaseInv, BuildOnly, AtMove, End,
    Goto, disk, proc, Blank
<1>39. ASSUME UNCHANGED vars PROVE StageInv'
  BY <1>39 DEF vars, disk, proc, ghost, counts, StageInv, Started, Planned, Retiring
<1> QED BY <1>1, <1>2, <1>3, <1>4, <1>5, <1>6, <1>7, <1>8, <1>9, <1>10, <1>11, <1>12, <1>13, <1>14,
    <1>15, <1>16, <1>17, <1>18, <1>19, <1>20, <1>21, <1>22, <1>23, <1>24, <1>25, <1>26, <1>27,
    <1>28, <1>29, <1>30, <1>31, <1>32, <1>33, <1>34, <1>35, <1>36, <1>37, <1>38, <1>39 DEF Next,
    Catchable, Work, Moving, Building, Finishing

LEMMA StageHolds == Spec => []StageInv
<1>1. TypeOK /\ PhaseInv /\ StageInv /\ [Next]_vars => StageInv'
  BY StageStep
<1> QED BY <1>1, TypeCorrect, PhaseHolds, StageInit, PTL DEF Spec

\* What the memory m says of the targets f that started as s and are not in t is true:
\* before the plan nothing was moved, the plan holds the originals, and a row that is
\* marked restored has its original in place.
Recorded(m, f, s, t) ==
  \A i \in Targets \ t :
    /\ m.prepared = "no" => f[i]["target"].obj = s[i]
    /\ m.prepared # "no" => m.rows[i].original.obj = s[i]
    /\ m.rows[i].restored = "yes" =>
         /\ f[i]["target"] = m.rows[i].original /\ f[i]["target"].obj = s[i]
         /\ m.rows[i].move = "none"

RowInv ==
  /\ Recorded(log, file, start, touched)
  /\ pc # "idle" => Recorded(mem, file, start, touched)
  /\ pc = "rename" => log = mem
  /\ phase = "build" => \A i \in Targets : mem.rows[i].restored = "no"
  /\ pc \in {"begin", "rename"} /\ k \notin touched => mem.rows[k].restored = "no"
  /\ pc \in {"unstage", "mark"} /\ k \notin touched =>
       file[k]["target"] = mem.rows[k].original /\ mem.rows[k].move = "none"

\* Nothing but the targets matters, and a target that is edited is exempt.
LEMMA RecordedFrame ==
  ASSUME NEW m, NEW f, NEW g, NEW s, NEW t, NEW u, t \subseteq u, Recorded(m, f, s, t),
         \A i \in Targets \ u : g[i]["target"] = f[i]["target"]
  PROVE  Recorded(m, g, s, u)
  BY DEF Recorded

LEMMA RecordedBlank ==
  ASSUME NEW f, NEW s, NEW t, \A i \in Targets \ t : f[i]["target"].obj = s[i]
  PROVE  Recorded(Blank, f, s, t)
  BY DEF Recorded, Blank, Row

\* A row is replaced by one that is true as well.
LEMMA RecordedRow ==
  ASSUME NEW m \in Memory, NEW i \in Targets, NEW r \in Rows, NEW f, NEW s, NEW t,
         Recorded(m, f, s, t),
         i \notin t /\ m.prepared # "no" => r.original.obj = s[i],
         i \notin t /\ r.restored = "yes" =>
           f[i]["target"] = r.original /\ f[i]["target"].obj = s[i] /\ r.move = "none"
  PROVE  Recorded([m EXCEPT !.rows[i] = r], f, s, t)
<1> DEFINE n == [m EXCEPT !.rows[i] = r]
<1>1. n.prepared = m.prepared /\ n.rows[i] = r /\ \A j \in Targets \ {i} : n.rows[j] = m.rows[j]
  BY DEF Memory
<1> HIDE DEF n
<1>2. Recorded(n, f, s, t)
  BY <1>1 DEF Recorded
<1> QED BY <1>2 DEF n

LEMMA RecordedConflict ==
  ASSUME NEW m \in Memory, NEW i \in Targets, NEW f, NEW s, NEW t, Recorded(m, f, s, t)
  PROVE  Recorded(Conflict(m, i), f, s, t)
<1> DEFINE r == [m.rows[i] EXCEPT !.conflict = "yes"]
<1>1. /\ r \in Rows /\ r.original = m.rows[i].original /\ r.restored = m.rows[i].restored
      /\ r.move = m.rows[i].move
  BY DEF Memory, Rows
<1>2. Conflict(m, i) = [m EXCEPT !.rows[i] = r]
  BY DEF Conflict
<1>3. /\ i \notin t /\ m.prepared # "no" => r.original.obj = s[i]
      /\ i \notin t /\ r.restored = "yes" =>
           f[i]["target"] = r.original /\ f[i]["target"].obj = s[i] /\ r.move = "none"
  BY <1>1 DEF Recorded
<1> HIDE DEF r
<1> QED BY <1>1, <1>2, <1>3, RecordedRow

\* Settling a move renames the original and never exchanges it.
LEMMA SettledOriginal ==
  ASSUME NEW i \in Targets, NEW r \in Rows, Settleable(i, r)
  PROVE  /\ Settled(i, r).original.obj = r.original.obj /\ Settled(i, r).move = "none"
         /\ Settled(i, r).restored = r.restored /\ (r.move = "none" => Settled(i, r) = r)
<1>1. CASE r.move = "none"
  BY <1>1 DEF Settled
<1>2. CASE r.move # "none" /\ NoEffect(i, r)
  BY <1>2 DEF Settled, Rows
<1>3. CASE r.move # "none" /\ ~NoEffect(i, r) /\ r.move \in {"hide", "restore"}
  <2>1. Settled(i, r) = [r EXCEPT !["original"] = file[i][Dest(r.move)], !.move = "none"]
    BY <1>3 DEF Settled, Field
  <2>2. file[i][Dest(r.move)].obj = r.original.obj
    BY <1>3 DEF Settleable, Effect, SameObject, Field
  <2> QED BY <1>3, <2>1, <2>2 DEF Rows
<1>4. CASE r.move # "none" /\ ~NoEffect(i, r) /\ r.move \notin {"hide", "restore"}
  <2>1. Settled(i, r) = [r EXCEPT !["new"] = file[i][Dest(r.move)], !.move = "none"]
    BY <1>4 DEF Settled, Field
  <2> QED BY <1>4, <2>1 DEF Rows
<1> QED BY <1>1, <1>2, <1>3, <1>4

LEMMA RecordedSettled ==
  ASSUME NEW m \in Memory, NEW i \in Targets, NEW s, NEW t, FileType, Settleable(i, m.rows[i]),
         Recorded(m, file, s, t)
  PROVE  Recorded([m EXCEPT !.rows[i] = Settled(i, m.rows[i])], file, s, t)
<1> DEFINE r == Settled(i, m.rows[i])
<1>1. m.rows[i] \in Rows
  BY DEF Memory
<1>2. r \in Rows
  BY <1>1, SettledType
<1>3. /\ r.original.obj = m.rows[i].original.obj /\ r.restored = m.rows[i].restored
      /\ r.move = "none" /\ (m.rows[i].move = "none" => r = m.rows[i])
  BY <1>1, SettledOriginal
<1> HIDE DEF r
<1>4. /\ i \notin t /\ m.prepared # "no" => r.original.obj = s[i]
      /\ i \notin t /\ r.restored = "yes" =>
           file[i]["target"] = r.original /\ file[i]["target"].obj = s[i] /\ r.move = "none"
  BY <1>3 DEF Recorded
<1>5. Recorded([m EXCEPT !.rows[i] = r], file, s, t)
  BY <1>2, <1>4, RecordedRow
<1> QED BY <1>5 DEF r

\* An error leaves a true memory.
LEMMA RefuseRows ==
  ASSUME NEW m \in Memory, Refuse(m), phase = "restore" => k \in Targets,
         Recorded(m, file', start', touched'), Recorded(log', file', start', touched')
  PROVE  RowInv'
<1>1. CASE pc' = "finish" /\ phase' = "finish" /\ mem' = m
  BY <1>1 DEF RowInv
<1>2. CASE /\ phase = "restore" /\ pc' = "done" /\ phase' = "restore"
           /\ mem' = Conflict(m, k)
  <2>1. Recorded(mem', file', start', touched')
    BY <1>2, RecordedConflict
  <2> QED BY <1>2, <2>1 DEF RowInv
<1>3. CASE pc' = "idle" /\ phase' = "none"
  BY <1>3 DEF RowInv
<1> QED BY <1>1, <1>2, <1>3, RefuseStage

\* So does a checkpoint of a true memory.
LEMMA SaveRows ==
  ASSUME NEW m \in Memory, NEW l, Save(m, l), phase = "restore" => k \in Targets,
         l \notin {"idle", "begin", "unstage", "mark"}, UNCHANGED <<file, start, touched>>,
         Recorded(m, file, start, touched), Recorded(log, file, start, touched),
         phase = "build" => \A i \in Targets : m.rows[i].restored = "no",
         l = "rename" /\ k \notin touched => m.rows[k].restored = "no"
  PROVE  RowInv'
<1>1. CASE pc' = l /\ mem' = m /\ log' = m /\ UNCHANGED <<phase, k, job>>
  BY <1>1 DEF RowInv
<1>2. CASE Refuse(m) /\ log' \in {log, m}
  <2>1. Recorded(m, file', start', touched') /\ Recorded(log', file', start', touched')
    BY <1>2
  <2> QED BY <1>2, <2>1, RefuseRows
<1> QED BY <1>1, <1>2, SaveStage

LEMMA RowInit == Init => RowInv
<1> SUFFICES ASSUME Init PROVE RowInv
  OBVIOUS
<1>1. \A i \in Targets \ touched : file[i]["target"].obj = start[i]
  BY DEF Init, Fresh, Places
<1>2. Recorded(Blank, file, start, touched)
  BY <1>1, RecordedBlank
<1> QED BY <1>2 DEF Init, RowInv

\* Every step keeps the records true: a checkpoint holds what the memory holds.
LEMMA RowStep ==
  TypeOK /\ PhaseInv /\ StageInv /\ RowInv /\ RestoredAtRest /\ [Next]_vars
    => RowInv'
<1> SUFFICES ASSUME TypeOK /\ PhaseInv /\ StageInv /\ RowInv /\ RestoredAtRest, [Next]_vars
             PROVE  RowInv'
  OBVIOUS
<1> USE DEF TypeOK
<1>1. ASSUME MoveBegin PROVE RowInv'
  <2> DEFINE m == [mem EXCEPT !.rows[k].move = job]
             can == /\ file[k][Source(job)] = mem.rows[k][Field(job)]
                    /\ file[k][Source(job)] # Nothing /\ file[k][Dest(job)] = Nothing
  <2>0. k \in Targets
    BY <1>1 DEF MoveBegin, ProcType, AtRow
  <2>1. m \in Memory /\ m.prepared = mem.prepared
    <3>1. [mem.rows[k] EXCEPT !.move = job] \in Rows
      BY <1>1, <2>0 DEF ProcType, Memory, Rows
    <3>2. m = [mem EXCEPT !.rows[k] = [mem.rows[k] EXCEPT !.move = job]]
      OBVIOUS
    <3> QED BY <2>0, <3>1, <3>2, RowUpdate DEF ProcType, Memory
  <2>2. can => Save(m, "rename")
    BY <1>1 DEF MoveBegin, Kept
  <2>3. ~can => Refuse(mem) /\ mem \in Memory
    BY <1>1 DEF MoveBegin, Raise, Unsaved, ProcType
  <2>4. UNCHANGED <<dir, terminal>> /\ pc \notin Retiring \cup {"idle", "done"}
    BY <1>1 DEF MoveBegin, Kept, disk, Retiring
  <2>5. UNCHANGED <<file, start, touched>>
    BY <1>1 DEF MoveBegin, Kept, Outside, ghost
  <2>6. /\ Recorded(mem, file, start, touched) /\ Recorded(log, file, start, touched)
        /\ (k \notin touched => mem.rows[k].restored = "no") /\ mem \in Memory
    BY <1>1 DEF MoveBegin, RowInv, ProcType
  <2>7. /\ \A i \in Targets : m.rows[i].restored = mem.rows[i].restored
        /\ \A i \in Targets : m.rows[i].original = mem.rows[i].original
        /\ \A i \in Targets \ {k} : m.rows[i] = mem.rows[i]
    BY <2>0 DEF ProcType, Memory, Rows
  <2>9. ~can => log' = log
    BY <1>1 DEF MoveBegin, disk
  <2> HIDE DEF m, can
  <2>8. Recorded(m, file, start, touched)
    BY <2>1, <2>6, <2>7 DEF Recorded
  <2>10. CASE can
    BY <2>0, <2>1, <2>2, <2>5, <2>6, <2>7, <2>8, <2>10, SaveRows DEF RowInv
  <2>11. CASE ~can
    BY <2>0, <2>3, <2>5, <2>6, <2>9, <2>11, RefuseRows
  <2> QED BY <2>10, <2>11
<1>2. ASSUME MoveRename PROVE RowInv'
  <2>1. /\ k \in Targets /\ mem.prepared # "no" /\ log = mem
        /\ k \notin touched => mem.rows[k].restored = "no"
    BY <1>2 DEF MoveRename, ProcType, AtRow, StageInv, Planned, RowInv
  <2>2. \A i \in Targets \ {k} : file'[i] = file[i]
    BY <1>2, <2>1 DEF MoveRename, Shift, FileType
  <2>3. UNCHANGED <<start, touched, log, mem, phase, k>> /\ pc = "rename" /\ pc' = "settle"
    BY <1>2 DEF MoveRename, Outside, ghost, disk
  <2>4. Recorded(mem, file, start, touched)
    BY <2>3 DEF RowInv
  <2>5. Recorded(mem, file', start, touched)
    BY <2>1, <2>2, <2>4 DEF Recorded
  <2> QED BY <2>1, <2>3, <2>5 DEF RowInv
<1>3. ASSUME MoveSettle PROVE RowInv'
  <2> DEFINE m == [mem EXCEPT !.rows[k] = Settled(k, mem.rows[k])]
             can == Settleable(k, mem.rows[k])
  <2>0. k \in Targets /\ mem.rows[k] \in Rows
    BY <1>3 DEF MoveSettle, ProcType, AtRow, Memory
  <2>1. m \in Memory /\ m.prepared = mem.prepared
    BY <2>0, SettledType, RowUpdate DEF ProcType, Memory
  <2>2. can => Save(m, "moved")
    BY <1>3 DEF MoveSettle, Kept
  <2>3. ~can => Refuse(Conflict(mem, k)) /\ Conflict(mem, k) \in Memory
    BY <1>3, <2>0, ConflictType DEF MoveSettle, Raise, Unsaved, ProcType
  <2>4. UNCHANGED <<dir, terminal>> /\ pc \notin Retiring \cup {"idle", "done"}
    BY <1>3 DEF MoveSettle, Kept, disk, Retiring
  <2>5. UNCHANGED <<file, start, touched>>
    BY <1>3 DEF MoveSettle, Kept, Outside, ghost
  <2>6. /\ Recorded(mem, file, start, touched) /\ Recorded(log, file, start, touched)
        /\ mem \in Memory
    BY <1>3 DEF MoveSettle, RowInv, ProcType
  <2>7. can => \A i \in Targets : m.rows[i].restored = mem.rows[i].restored
    BY <2>0, <2>6, SettledOriginal DEF Memory
  <2>8. can => Recorded(m, file, start, touched)
    BY <2>0, <2>6, RecordedSettled
  <2>9. ~can => log' = log /\ Recorded(Conflict(mem, k), file, start, touched)
    BY <1>3, <2>0, <2>6, RecordedConflict DEF MoveSettle, disk
  <2> HIDE DEF m, can
  <2>10. CASE can
    BY <2>0, <2>1, <2>2, <2>5, <2>6, <2>7, <2>8, <2>10, SaveRows DEF RowInv
  <2>11. CASE ~can
    BY <2>0, <2>3, <2>5, <2>9, <2>11, RefuseRows, <2>6
  <2> QED BY <2>10, <2>11
<1>4. ASSUME Moved PROVE RowInv'
  <2>1. mem \in Memory /\ (phase = "restore" => k \in Targets)
    BY <1>4 DEF Moved, ProcType, AtRow
  <2>2. UNCHANGED <<log, start, touched>>
    BY <1>4 DEF Moved, disk, Outside, ghost
  <2>3. \A i \in Targets : file'[i]["target"] = file[i]["target"]
    BY <1>4 DEF Moved, FileType, Places
  <2>4. Recorded(mem, file, start, touched) /\ Recorded(log, file, start, touched)
    BY <1>4 DEF Moved, RowInv
  <2>5. Recorded(mem, file', start, touched) /\ Recorded(log, file', start, touched)
    BY <2>3, <2>4, RecordedFrame
  <2>6. CASE Refuse(mem)
    BY <2>1, <2>2, <2>5, <2>6, RefuseRows
  <2>7. CASE ~Refuse(mem)
    BY <1>4, <2>2, <2>3, <2>5, <2>7 DEF Moved, Raise, Unsaved, Goto, RowInv, PhaseInv, AtMove,
      ProcType, AtRow
  <2> QED BY <2>6, <2>7
<1>5. ASSUME Mkdir PROVE RowInv'
  BY <1>5 DEF Mkdir, RowInv, PhaseInv, BuildOnly, AtMove, End, Goto, Outside, ghost, disk, proc,
    ProcType, AtRow
<1>6. ASSUME MakeScratch PROVE RowInv'
  BY <1>6 DEF MakeScratch, RowInv, PhaseInv, BuildOnly, AtMove, End, Goto, Outside, ghost, disk,
    proc, ProcType, AtRow
<1>7. ASSUME PublishHeader PROVE RowInv'
  BY <1>7 DEF PublishHeader, RowInv, PhaseInv, BuildOnly, AtMove, End, Goto, Outside, ghost,
    disk, proc, ProcType, AtRow
<1>8. ASSUME FirstCheckpoint PROVE RowInv'
  <2> DEFINE m == mem
  <2>1. m \in Memory /\ m.prepared = mem.prepared
    BY <1>8 DEF FirstCheckpoint, ProcType, Memory
  <2>2. Save(m, "plan") /\ UNCHANGED <<dir, terminal>>
    BY <1>8 DEF FirstCheckpoint, Kept
  <2>3. UNCHANGED <<file, start, touched>> /\ mem \in Memory /\ phase # "restore"
    BY <1>8 DEF FirstCheckpoint, Kept, Outside, ghost, ProcType, AtRow
  <2>4. Recorded(mem, file, start, touched) /\ Recorded(log, file, start, touched)
    BY <1>8 DEF FirstCheckpoint, RowInv
  <2>5. \A i \in Targets : m.rows[i] = mem.rows[i]
    BY <2>3 DEF Memory
  <2>6. mem.prepared = "no" <=> m.prepared = "no"
    BY <1>8, <2>1 DEF FirstCheckpoint, StageInv, Planned
  <2> HIDE DEF m
  <2>7. Recorded(m, file, start, touched)
    BY <2>4, <2>5, <2>6 DEF Recorded
  <2> QED BY <2>1, <2>2, <2>3, <2>4, <2>5, <2>7, SaveRows DEF RowInv
<1>9. ASSUME Plan PROVE RowInv'
  <2>1. UNCHANGED <<file, log, start, touched, phase>>
    BY <1>9 DEF Plan, disk, Outside, ghost
  <2>2. /\ mem'.prepared = "planned" /\ \A i \in Targets : mem'.rows[i].restored = "no"
        /\ \A i \in Targets : mem'.rows[i].original = file[i]["target"]
    BY <1>9 DEF Plan, ProcType, Memory, Row
  <2>3. Recorded(mem, file, start, touched) /\ mem.prepared = "no"
    BY <1>9 DEF Plan, RowInv, StageInv, Started
  <2>4. Recorded(mem', file, start, touched)
    BY <2>2, <2>3 DEF Recorded
  <2> QED BY <1>9, <2>1, <2>2, <2>4 DEF Plan, RowInv
<1>10. ASSUME ProbeStart PROVE RowInv'
  BY <1>10 DEF ProbeStart, RowInv, PhaseInv, BuildOnly, AtMove, End, Goto, Outside, ghost, disk,
    proc, ProcType, AtRow
<1>11. ASSUME ProbeEnd PROVE RowInv'
  BY <1>11 DEF ProbeEnd, RowInv, PhaseInv, BuildOnly, AtMove, End, Goto, Outside, ghost, disk,
    proc, ProcType, AtRow
<1>12. ASSUME Stage PROVE RowInv'
  <2>1. k \in Targets
    BY <1>12 DEF Stage, ProcType, Targets
  <2>2. UNCHANGED <<log, start, touched, phase, pc>> /\ pc = "stage"
    BY <1>12 DEF Stage, disk, Outside, ghost
  <2>3. \A i \in Targets : file'[i]["target"] = file[i]["target"]
    BY <1>12, <2>1 DEF Stage, FileType, Places
  <2>4. /\ mem'.prepared = mem.prepared
        /\ \A i \in Targets : /\ mem'.rows[i].restored = mem.rows[i].restored
                              /\ mem'.rows[i].original = mem.rows[i].original
                              /\ mem'.rows[i].move = mem.rows[i].move
    BY <1>12, <2>1 DEF Stage, ProcType, Memory, Rows
  <2>5. Recorded(mem, file, start, touched) /\ Recorded(log, file, start, touched)
    BY <2>2 DEF RowInv
  <2>6. Recorded(log, file', start, touched)
    BY <2>3, <2>5, RecordedFrame
  <2>7. Recorded(mem', file', start, touched)
    BY <2>3, <2>4, <2>5 DEF Recorded
  <2> QED BY <2>2, <2>4, <2>6, <2>7 DEF RowInv
<1>13. ASSUME PublishIntent PROVE RowInv'
  BY <1>13 DEF PublishIntent, RowInv, PhaseInv, BuildOnly, AtMove, End, Goto, Outside, ghost,
    disk, proc, ProcType, AtRow
<1>14. ASSUME Prepare PROVE RowInv'
  <2> DEFINE m == [mem EXCEPT !.prepared = "yes"]
  <2>1. m \in Memory /\ m.prepared = "yes"
    BY <1>14 DEF Prepare, ProcType, Memory
  <2>2. Save(m, "verify") /\ UNCHANGED <<dir, terminal>>
    BY <1>14 DEF Prepare, Kept
  <2>3. UNCHANGED <<file, start, touched>> /\ mem \in Memory /\ phase # "restore"
    BY <1>14 DEF Prepare, Kept, Outside, ghost, ProcType, AtRow
  <2>4. Recorded(mem, file, start, touched) /\ Recorded(log, file, start, touched)
    BY <1>14 DEF Prepare, RowInv
  <2>5. \A i \in Targets : m.rows[i] = mem.rows[i]
    BY <2>3 DEF Memory
  <2>6. mem.prepared = "no" <=> m.prepared = "no"
    BY <1>14, <2>1 DEF Prepare, StageInv, Planned
  <2> HIDE DEF m
  <2>7. Recorded(m, file, start, touched)
    BY <2>4, <2>5, <2>6 DEF Recorded
  <2> QED BY <2>1, <2>2, <2>3, <2>4, <2>5, <2>7, SaveRows DEF RowInv
<1>15. ASSUME Verify PROVE RowInv'
  <2>1. mem \in Memory /\ (phase = "restore" => k \in Targets)
    BY <1>15 DEF Verify, ProcType, AtRow
  <2>2. UNCHANGED <<log, start, touched>>
    BY <1>15 DEF Verify, disk, Outside, ghost
  <2>3. \A i \in Targets : file'[i]["target"] = file[i]["target"]
    BY <1>15 DEF Verify, FileType, Places
  <2>4. Recorded(mem, file, start, touched) /\ Recorded(log, file, start, touched)
    BY <1>15 DEF Verify, RowInv
  <2>5. Recorded(mem, file', start, touched) /\ Recorded(log, file', start, touched)
    BY <2>3, <2>4, RecordedFrame
  <2>6. CASE Refuse(mem)
    BY <2>1, <2>2, <2>5, <2>6, RefuseRows
  <2>7. CASE ~Refuse(mem)
    BY <1>15, <2>2, <2>3, <2>5, <2>7 DEF Verify, Raise, Unsaved, Goto, RowInv, PhaseInv, AtMove,
      ProcType, AtRow
  <2> QED BY <2>6, <2>7
<1>16. ASSUME Forward PROVE RowInv'
  <2>1. phase = "build" /\ k > 0 /\ k \in 0 .. N + 1
    BY <1>16 DEF Forward, PhaseInv, BuildOnly, ProcType
  <2>2. pc' = "begin" => k \in Targets
    BY <1>16, <2>1, BatchAssumption DEF Forward, Goto, Targets
  <2>3. pc' \in {"run", "begin"} /\ UNCHANGED <<mem, log, file, start, touched, phase, k>>
    BY <1>16 DEF Forward, Goto, Outside, ghost, disk
  <2>4. pc' = "begin" => mem.rows[k].restored = "no"
    BY <2>1, <2>2 DEF RowInv
  <2>5. /\ UNCHANGED Recorded(mem, file, start, touched)
        /\ UNCHANGED Recorded(log, file, start, touched)
    BY <2>3 DEF Recorded
  <2> QED BY <1>16, <2>1, <2>3, <2>4, <2>5 DEF Forward, RowInv
<1>17. ASSUME LeaveBody PROVE RowInv'
  BY <1>17 DEF LeaveBody, RowInv, PhaseInv, BuildOnly, AtMove, End, Goto, Outside, ghost, disk,
    proc, ProcType, AtRow
<1>18. ASSUME Finish PROVE RowInv'
  <2> DEFINE m == [mem EXCEPT !.quiescence = "original"]
  <2>1. m \in Memory /\ m.prepared = mem.prepared
    BY <1>18 DEF Finish, ProcType, Memory
  <2>2. (dir = "yes" /\ header = "yes" /\ failed = "no" /\ worker = "idle") => Save(m, "enter")
    BY <1>18 DEF Finish, Kept
  <2>3. ~(dir = "yes" /\ header = "yes" /\ failed = "no" /\ worker = "idle") => End
    BY <1>18 DEF Finish
  <2>4. UNCHANGED <<dir, terminal>> /\ phase # "restore"
    BY <1>18 DEF Finish, Kept, disk, ProcType, AtRow
  <2>5. UNCHANGED <<file, start, touched>> /\ mem \in Memory
    BY <1>18 DEF Finish, Kept, Outside, ghost, ProcType
  <2>6. Recorded(mem, file, start, touched) /\ Recorded(log, file, start, touched)
    BY <1>18 DEF Finish, RowInv
  <2>7. \A i \in Targets : m.rows[i] = mem.rows[i]
    BY <2>5 DEF Memory
  <2> HIDE DEF m
  <2>8. Recorded(m, file, start, touched)
    BY <2>1, <2>6, <2>7 DEF Recorded
  <2>9. CASE dir = "yes" /\ header = "yes" /\ failed = "no" /\ worker = "idle"
    BY <2>1, <2>2, <2>4, <2>5, <2>6, <2>7, <2>8, <2>9, SaveRows DEF RowInv
  <2>10. CASE ~(dir = "yes" /\ header = "yes" /\ failed = "no" /\ worker = "idle")
    BY <1>18, <2>3, <2>5, <2>6, <2>10 DEF Finish, End, disk, RowInv
  <2> QED BY <2>9, <2>10
<1>19. ASSUME Enter PROVE RowInv'
  <2>1. /\ UNCHANGED <<file, log, start, touched>>
        /\ pc = "enter" /\ pc' = "done" /\ phase' = "restore"
    BY <1>19 DEF Enter, disk, Outside, ghost
  <2>2. /\ mem'.prepared = mem.prepared
        /\ \A i \in Targets : /\ mem'.rows[i].restored = mem.rows[i].restored
                              /\ mem'.rows[i].original = mem.rows[i].original
                              /\ mem'.rows[i].move = mem.rows[i].move
    BY <1>19 DEF Enter, Cleared, ProcType, Memory, Rows
  <2>3. Recorded(mem, file, start, touched)
    BY <2>1 DEF RowInv
  <2>4. Recorded(mem', file, start, touched)
    BY <2>2, <2>3 DEF Recorded
  <2> QED BY <2>1, <2>4 DEF RowInv
<1>20. ASSUME NextRow PROVE RowInv'
  BY <1>20 DEF NextRow, RowInv, PhaseInv, BuildOnly, AtMove, End, Goto, Outside, ghost, disk,
    proc, ProcType, AtRow
<1>21. ASSUME Restore PROVE RowInv'
  <2> DEFINE r == Settled(k, mem.rows[k])
             m == [mem EXCEPT !.rows[k] = r]
  <2>0. k \in Targets /\ mem.rows[k] \in Rows /\ mem \in Memory
    BY <1>21 DEF Restore, ProcType, AtRow, Memory
  <2>1. m \in Memory /\ m.prepared = mem.prepared
    BY <2>0, SettledType, RowUpdate DEF Memory
  <2>2. UNCHANGED <<file, log, start, touched>> /\ phase = "restore"
    BY <1>21 DEF Restore, disk, Outside, ghost, PhaseInv
  <2>3. Recorded(mem, file, start, touched) /\ Recorded(log, file, start, touched)
    BY <1>21 DEF Restore, RowInv
  <2>4. CASE mem.rows[k].conflict = "yes" \/ ~Settleable(k, mem.rows[k])
    <3>1. Refuse(mem)
      BY <1>21, <2>4 DEF Restore, Raise, Unsaved
    <3> QED BY <2>0, <2>2, <2>3, <3>1, RefuseRows
  <2>5. CASE ~(mem.rows[k].conflict = "yes" \/ ~Settleable(k, mem.rows[k]))
    <3>1. Recorded(m, file, start, touched)
      BY <2>0, <2>3, <2>5, RecordedSettled
    <3>2. CASE Step(k, r) = "none"
      <4>1. Refuse(m)
        BY <1>21, <2>5, <3>2 DEF Restore, Unsaved
      <4> QED BY <2>0, <2>1, <2>2, <2>3, <3>1, <4>1, RefuseRows
    <3>3. CASE Step(k, r) # "none"
      <4>1. mem' = m /\ UNCHANGED <<phase, k>> /\ m.rows[k] = r
        BY <1>21, <2>0, <2>5, <3>3 DEF Restore, Memory
      <4>2. IF Step(k, r) = "unstage" THEN pc' = "unstage" ELSE pc' = "begin"
        BY <1>21, <2>5, <3>3 DEF Restore
      <4>3. r.move = "none" /\ (Step(k, r) = "unstage" <=> file[k]["target"] = r.original)
        BY <2>0, <2>5, <3>3, SettledOriginal DEF Step
      <4>4. r \in Rows
        BY <2>0, SettledType
      <4> HIDE DEF r, m
      <4>5. k \notin touched /\ r.restored # "no" => file[k]["target"] = r.original
        BY <2>0, <3>1, <4>1, <4>4 DEF Recorded, Rows
      <4> QED BY <2>2, <2>3, <3>1, <4>1, <4>2, <4>3, <4>5 DEF RowInv
    <3> QED BY <3>2, <3>3
  <2> QED BY <2>4, <2>5
<1>22. ASSUME Unstage PROVE RowInv'
  <2>1. mem \in Memory /\ (phase = "restore" => k \in Targets)
    BY <1>22 DEF Unstage, ProcType, AtRow
  <2>2. UNCHANGED <<log, start, touched>>
    BY <1>22 DEF Unstage, disk, Outside, ghost
  <2>3. \A i \in Targets : file'[i]["target"] = file[i]["target"]
    BY <1>22, <2>1 DEF Unstage, FileType, Places, PhaseInv
  <2>4. Recorded(mem, file, start, touched) /\ Recorded(log, file, start, touched)
    BY <1>22 DEF Unstage, RowInv
  <2>5. Recorded(mem, file', start, touched) /\ Recorded(log, file', start, touched)
    BY <2>3, <2>4, RecordedFrame
  <2>6. CASE Refuse(mem)
    BY <2>1, <2>2, <2>5, <2>6, RefuseRows
  <2>7. CASE ~Refuse(mem)
    BY <1>22, <2>2, <2>3, <2>5, <2>7 DEF Unstage, Raise, Unsaved, Goto, RowInv, PhaseInv,
      AtMove, ProcType, AtRow
  <2> QED BY <2>6, <2>7
<1>23. ASSUME Mark PROVE RowInv'
  <2> DEFINE m == [mem EXCEPT !.rows[k].restored = "yes"]
             r == [mem.rows[k] EXCEPT !.restored = "yes"]
  <2>0. k \in Targets /\ r \in Rows
    BY <1>23 DEF Mark, ProcType, AtRow, Memory, Rows
  <2>1. m = [mem EXCEPT !.rows[k] = r] /\ m \in Memory /\ m.prepared = mem.prepared
    <3>1. m = [mem EXCEPT !.rows[k] = r]
      OBVIOUS
    <3> QED BY <2>0, <3>1, RowUpdate DEF ProcType, Memory
  <2>2. Save(m, "done") /\ UNCHANGED <<dir, terminal>>
    BY <1>23 DEF Mark, Kept
  <2>3. /\ UNCHANGED <<file, start, touched>> /\ mem \in Memory /\ phase = "restore"
        /\ mem.prepared # "no"
    BY <1>23 DEF Mark, Kept, Outside, ghost, ProcType, PhaseInv, StageInv, Planned
  <2>4. Recorded(mem, file, start, touched) /\ Recorded(log, file, start, touched)
    BY <1>23 DEF Mark, RowInv
  <2>5. /\ r.original = mem.rows[k].original /\ r.move = mem.rows[k].move
        /\ (k \notin touched => file[k]["target"] = r.original /\ r.move = "none")
    BY <1>23, <2>0 DEF Mark, RowInv, ProcType, Memory, Rows
  <2> HIDE DEF m, r
  <2>6. k \notin touched => r.original.obj = start[k]
    BY <2>0, <2>3, <2>4, <2>5 DEF Recorded
  <2>7. Recorded(m, file, start, touched)
    BY <2>0, <2>1, <2>3, <2>4, <2>5, <2>6, RecordedRow
  <2> QED BY <2>0, <2>1, <2>2, <2>3, <2>4, <2>7, SaveRows
<1>24. ASSUME Dispose PROVE RowInv'
  BY <1>24 DEF Dispose, RowInv, PhaseInv, BuildOnly, AtMove, End, Goto, Outside, ghost, disk,
    proc, ProcType, AtRow
<1>25. ASSUME Stop PROVE RowInv'
  BY <1>25 DEF Stop, RowInv, PhaseInv, BuildOnly, AtMove, End, Goto, Outside, ghost, disk, proc,
    ProcType, AtRow
<1>26. ASSUME FinishFailed PROVE RowInv'
  <2> DEFINE m == mem
  <2>1. m \in Memory /\ m.prepared = mem.prepared
    BY <1>26 DEF FinishFailed, ProcType, Memory
  <2>2. (failed = "no") => Save(m, "stop")
    BY <1>26 DEF FinishFailed, Kept
  <2>3. ~(failed = "no") => End
    BY <1>26 DEF FinishFailed
  <2>4. UNCHANGED <<dir, terminal>> /\ phase # "restore"
    BY <1>26 DEF FinishFailed, Kept, disk, ProcType, AtRow
  <2>5. UNCHANGED <<file, start, touched>> /\ mem \in Memory
    BY <1>26 DEF FinishFailed, Kept, Outside, ghost, ProcType
  <2>6. Recorded(mem, file, start, touched) /\ Recorded(log, file, start, touched)
    BY <1>26 DEF FinishFailed, RowInv
  <2>7. \A i \in Targets : m.rows[i] = mem.rows[i]
    BY <2>5 DEF Memory
  <2> HIDE DEF m
  <2>8. Recorded(m, file, start, touched)
    BY <2>1, <2>6, <2>7 DEF Recorded
  <2>9. CASE failed = "no"
    BY <2>1, <2>2, <2>4, <2>5, <2>6, <2>7, <2>8, <2>9, SaveRows DEF RowInv
  <2>10. CASE ~(failed = "no")
    BY <1>26, <2>3, <2>5, <2>6, <2>10 DEF FinishFailed, End, disk, RowInv
  <2> QED BY <2>9, <2>10
<1>27. ASSUME FinishDone PROVE RowInv'
  BY <1>27 DEF FinishDone, RowInv, PhaseInv, BuildOnly, AtMove, End, Goto, Outside, ghost, disk,
    proc, ProcType, AtRow
<1>28. ASSUME Publish PROVE RowInv'
  BY <1>28 DEF Publish, RowInv, PhaseInv, BuildOnly, AtMove, End, Goto, Outside, ghost, disk,
    proc, ProcType, AtRow
<1>29. ASSUME RetirePending PROVE RowInv'
  <2>1. UNCHANGED <<file, mem, start, touched, phase>> /\ log' = Blank /\ terminal # "none"
    BY <1>29 DEF RetirePending, Goto, Outside, ghost, StageInv, Retiring
  <2>2. Recorded(Blank, file, start, touched)
    BY <2>1, RecordedBlank DEF RestoredAtRest
  <2> QED BY <1>29, <2>1, <2>2 DEF RetirePending, Goto, RowInv
<1>30. ASSUME RetireTerminal PROVE RowInv'
  BY <1>30 DEF RetireTerminal, RowInv, PhaseInv, BuildOnly, AtMove, End, Goto, Outside, ghost,
    disk, proc, ProcType, AtRow
<1>31. ASSUME Confirm PROVE RowInv'
  <2> DEFINE m == [mem EXCEPT !.quiescence = "operator"]
  <2>1. m \in Memory /\ m.prepared = mem.prepared
    BY <1>31 DEF Confirm, ProcType, Memory
  <2>2. Save(m, "enter") /\ UNCHANGED <<dir, terminal>>
    BY <1>31 DEF Confirm, Kept
  <2>3. UNCHANGED <<file, start, touched>> /\ mem \in Memory /\ phase # "restore"
    BY <1>31 DEF Confirm, Kept, Outside, ghost, ProcType, AtRow
  <2>4. Recorded(mem, file, start, touched) /\ Recorded(log, file, start, touched)
    BY <1>31 DEF Confirm, RowInv
  <2>5. \A i \in Targets : m.rows[i] = mem.rows[i]
    BY <2>3 DEF Memory
  <2>6. mem.prepared = "no" <=> m.prepared = "no"
    BY <1>31, <2>1 DEF Confirm, StageInv, Planned
  <2> HIDE DEF m
  <2>7. Recorded(m, file, start, touched)
    BY <2>4, <2>5, <2>6 DEF Recorded
  <2> QED BY <2>1, <2>2, <2>3, <2>4, <2>5, <2>7, SaveRows DEF RowInv
<1>32. ASSUME StartBuild PROVE RowInv'
  <2>1. UNCHANGED <<file, log, mem, start, touched>> /\ mem = Blank /\ dir = "no"
    BY <1>32 DEF StartBuild, disk, ghost, StageInv
  <2>2. Recorded(Blank, file, start, touched)
    BY <2>1, RecordedBlank DEF RestoredAtRest
  <2>3. \A i \in Targets : Blank.rows[i].restored = "no"
    BY DEF Blank, Row
  <2> QED BY <1>32, <2>1, <2>2, <2>3 DEF StartBuild, RowInv
<1>33. ASSUME StartWorker PROVE RowInv'
  BY <1>33 DEF StartWorker, RowInv, PhaseInv, BuildOnly, AtMove, End, Goto, Outside, ghost,
    disk, proc, ProcType, AtRow
<1>34. ASSUME WorkerEnds PROVE RowInv'
  BY <1>34 DEF WorkerEnds, RowInv, PhaseInv, BuildOnly, AtMove, End, Goto, Outside, ghost, disk,
    proc, ProcType, AtRow
<1>35. ASSUME Recover PROVE RowInv'
  <2>1. UNCHANGED <<file, log, start, touched>> /\ phase' = "finish" /\ pc = "idle"
    BY <1>35 DEF Recover, disk, Outside, ghost
  <2>2. CASE terminal = "published" /\ pc' = "retire" /\ UNCHANGED mem
    <3>1. Recorded(Blank, file, start, touched)
      BY <2>2, RecordedBlank DEF RestoredAtRest
    <3>2. mem = Blank
      BY <2>1 DEF StageInv
    <3> QED BY <2>1, <2>2, <3>1, <3>2 DEF RowInv
  <2>3. CASE mem' = log /\ pc' \in {"confirm", "enter"}
    BY <2>1, <2>3 DEF RowInv
  <2> QED BY <1>35, <2>2, <2>3 DEF Recover
<1>36. ASSUME Fail PROVE RowInv'
  <2>1. mem \in Memory /\ (phase = "restore" => k \in Targets)
    BY <1>36 DEF Fail, ProcType, AtRow
  <2>2. UNCHANGED <<log, start, touched>>
    BY <1>36 DEF Fail, Outside, ghost
  <2>3. \A i \in Targets : file'[i]["target"] = file[i]["target"]
    BY <1>36 DEF Fail, FileType, Places, ProcType, Targets
  <2>4. Recorded(mem, file, start, touched) /\ Recorded(log, file, start, touched)
    BY <1>36 DEF Fail, RowInv, PhaseInv, BuildOnly, AtMove, ProcType, AtRow
  <2>5. Recorded(mem, file', start, touched) /\ Recorded(log, file', start, touched)
    BY <2>3, <2>4, RecordedFrame
  <2>6. Refuse(mem)
    BY <1>36 DEF Fail, Raise, Unsaved
  <2> QED BY <2>1, <2>2, <2>5, <2>6, RefuseRows
<1>37. ASSUME Edit PROVE RowInv'
  <2>1. PICK i \in Targets, p \in {"target", "backup"}, x \in Edits \cup {"none"} :
         /\ touched' = touched \cup {i} /\ file' = [file EXCEPT ![i][p] = Fresh(x)]
         /\ UNCHANGED <<disk, proc, start>>
    BY <1>37 DEF Edit
  <2>2. touched \subseteq touched' /\ \A j \in Targets \ touched' : file'[j] = file[j]
    BY <2>1 DEF FileType
  <2>3. /\ Recorded(log, file', start, touched')
        /\ pc # "idle" => Recorded(mem, file', start, touched')
    BY <2>2, RecordedFrame DEF RowInv
  <2>4. pc \in AtRow => k \in Targets
    BY DEF ProcType
  <2> QED BY <2>1, <2>2, <2>3, <2>4 DEF RowInv, disk, proc, AtRow
<1>38. ASSUME Crash PROVE RowInv'
  BY <1>38 DEF Crash, RowInv, PhaseInv, BuildOnly, AtMove, End, Goto, Outside, ghost, disk,
    proc, ProcType, AtRow
<1>39. ASSUME UNCHANGED vars PROVE RowInv'
  BY <1>39 DEF vars, disk, proc, ghost, counts, RowInv
<1> QED BY <1>1, <1>2, <1>3, <1>4, <1>5, <1>6, <1>7, <1>8, <1>9, <1>10, <1>11, <1>12, <1>13, <1>14,
    <1>15, <1>16, <1>17, <1>18, <1>19, <1>20, <1>21, <1>22, <1>23, <1>24, <1>25, <1>26, <1>27,
    <1>28, <1>29, <1>30, <1>31, <1>32, <1>33, <1>34, <1>35, <1>36, <1>37, <1>38, <1>39 DEF Next,
    Catchable, Work, Moving, Building, Finishing

LEMMA RestInit == Init => RestoredAtRest
  BY DEF Init, RestoredAtRest, Fresh, Places

\* The terminal control is written when every row is restored and no copy is left.
LEMMA RestStep ==
  TypeOK /\ PhaseInv /\ StageInv /\ RowInv /\ RestoredAtRest /\ [Next]_vars
    => RestoredAtRest'
<1> SUFFICES ASSUME TypeOK /\ PhaseInv /\ StageInv /\ RowInv /\ RestoredAtRest, [Next]_vars
             PROVE  RestoredAtRest'
  OBVIOUS
<1> USE DEF TypeOK
<1>1. ASSUME MoveBegin PROVE RestoredAtRest'
  BY <1>1 DEF MoveBegin, Kept, disk, Outside, ghost, RestoredAtRest
<1>2. ASSUME MoveRename PROVE RestoredAtRest'
  <2>1. dir = "yes" /\ terminal = "none"
    BY <1>2 DEF MoveRename, PhaseInv, StageInv, Retiring
  <2> QED BY <1>2, <2>1 DEF MoveRename, disk, RestoredAtRest
<1>3. ASSUME MoveSettle PROVE RestoredAtRest'
  BY <1>3 DEF MoveSettle, Kept, disk, Outside, ghost, RestoredAtRest
<1>4. ASSUME Moved PROVE RestoredAtRest'
  BY <1>4 DEF Moved, Kept, disk, Outside, ghost, RestoredAtRest
<1>5. ASSUME Mkdir PROVE RestoredAtRest'
  <2>1. terminal' = "none" /\ dir' = "yes"
    BY <1>5 DEF Mkdir, StageInv, Retiring
  <2> QED BY <2>1 DEF RestoredAtRest
<1>6. ASSUME MakeScratch PROVE RestoredAtRest'
  BY <1>6 DEF MakeScratch, Kept, disk, Outside, ghost, RestoredAtRest
<1>7. ASSUME PublishHeader PROVE RestoredAtRest'
  BY <1>7 DEF PublishHeader, Kept, disk, Outside, ghost, RestoredAtRest
<1>8. ASSUME FirstCheckpoint PROVE RestoredAtRest'
  BY <1>8 DEF FirstCheckpoint, Kept, disk, Outside, ghost, RestoredAtRest
<1>9. ASSUME Plan PROVE RestoredAtRest'
  BY <1>9 DEF Plan, Kept, disk, Outside, ghost, RestoredAtRest
<1>10. ASSUME ProbeStart PROVE RestoredAtRest'
  BY <1>10 DEF ProbeStart, Kept, disk, Outside, ghost, RestoredAtRest
<1>11. ASSUME ProbeEnd PROVE RestoredAtRest'
  BY <1>11 DEF ProbeEnd, Kept, disk, Outside, ghost, RestoredAtRest
<1>12. ASSUME Stage PROVE RestoredAtRest'
  <2>1. dir = "yes" /\ terminal = "none"
    BY <1>12 DEF Stage, PhaseInv, StageInv, Retiring
  <2> QED BY <1>12, <2>1 DEF Stage, disk, RestoredAtRest
<1>13. ASSUME PublishIntent PROVE RestoredAtRest'
  BY <1>13 DEF PublishIntent, Kept, disk, Outside, ghost, RestoredAtRest
<1>14. ASSUME Prepare PROVE RestoredAtRest'
  BY <1>14 DEF Prepare, Kept, disk, Outside, ghost, RestoredAtRest
<1>15. ASSUME Verify PROVE RestoredAtRest'
  BY <1>15 DEF Verify, Kept, disk, Outside, ghost, RestoredAtRest
<1>16. ASSUME Forward PROVE RestoredAtRest'
  BY <1>16 DEF Forward, Kept, disk, Outside, ghost, RestoredAtRest
<1>17. ASSUME LeaveBody PROVE RestoredAtRest'
  BY <1>17 DEF LeaveBody, Kept, disk, Outside, ghost, RestoredAtRest
<1>18. ASSUME Finish PROVE RestoredAtRest'
  BY <1>18 DEF Finish, Kept, disk, Outside, ghost, RestoredAtRest
<1>19. ASSUME Enter PROVE RestoredAtRest'
  BY <1>19 DEF Enter, Kept, disk, Outside, ghost, RestoredAtRest
<1>20. ASSUME NextRow PROVE RestoredAtRest'
  BY <1>20 DEF NextRow, Kept, disk, Outside, ghost, RestoredAtRest
<1>21. ASSUME Restore PROVE RestoredAtRest'
  BY <1>21 DEF Restore, Kept, disk, Outside, ghost, RestoredAtRest
<1>22. ASSUME Unstage PROVE RestoredAtRest'
  <2>1. dir = "yes" /\ terminal = "none"
    BY <1>22 DEF Unstage, PhaseInv, StageInv, Retiring
  <2> QED BY <1>22, <2>1 DEF Unstage, disk, RestoredAtRest
<1>23. ASSUME Mark PROVE RestoredAtRest'
  BY <1>23 DEF Mark, Kept, disk, Outside, ghost, RestoredAtRest
<1>24. ASSUME Dispose PROVE RestoredAtRest'
  BY <1>24 DEF Dispose, Kept, disk, Outside, ghost, RestoredAtRest
<1>25. ASSUME Stop PROVE RestoredAtRest'
  BY <1>25 DEF Stop, Kept, disk, Outside, ghost, RestoredAtRest
<1>26. ASSUME FinishFailed PROVE RestoredAtRest'
  BY <1>26 DEF FinishFailed, Kept, disk, Outside, ghost, RestoredAtRest
<1>27. ASSUME FinishDone PROVE RestoredAtRest'
  <2>1. UNCHANGED <<file, dir, start, touched>> /\ Recorded(mem, file, start, touched)
    BY <1>27 DEF FinishDone, Outside, ghost, RowInv
  <2>2. CASE /\ mem.prepared # "no" => \A i \in Targets : mem.rows[i].restored = "yes"
             /\ Emptied
    <3>1. \A i \in Targets \ touched : file[i]["target"].obj = start[i]
      BY <2>1, <2>2 DEF Recorded
    <3>2. \A i \in Targets : \A p \in Places \ {"target"} : file[i][p] = Nothing
      BY <2>2 DEF Emptied
    <3> QED BY <2>1, <3>1, <3>2 DEF RestoredAtRest
  <2>3. CASE UNCHANGED terminal
    BY <2>1, <2>3 DEF RestoredAtRest
  <2> QED BY <1>27, <2>2, <2>3 DEF FinishDone
<1>28. ASSUME Publish PROVE RestoredAtRest'
  <2>1. terminal # "none" /\ UNCHANGED <<file, start, touched>>
    BY <1>28 DEF Publish, Outside, ghost, StageInv, Retiring
  <2> QED BY <2>1 DEF RestoredAtRest
<1>29. ASSUME RetirePending PROVE RestoredAtRest'
  <2>1. terminal # "none" /\ UNCHANGED <<file, start, touched>>
    BY <1>29 DEF RetirePending, Outside, ghost, StageInv, Retiring
  <2> QED BY <2>1 DEF RestoredAtRest
<1>30. ASSUME RetireTerminal PROVE RestoredAtRest'
  <2>1. dir = "no" /\ UNCHANGED <<file, start, touched>>
    BY <1>30 DEF RetireTerminal, Outside, ghost, StageInv
  <2> QED BY <2>1 DEF RestoredAtRest
<1>31. ASSUME Confirm PROVE RestoredAtRest'
  BY <1>31 DEF Confirm, Kept, disk, Outside, ghost, RestoredAtRest
<1>32. ASSUME StartBuild PROVE RestoredAtRest'
  BY <1>32 DEF StartBuild, Kept, disk, Outside, ghost, RestoredAtRest
<1>33. ASSUME StartWorker PROVE RestoredAtRest'
  BY <1>33 DEF StartWorker, Kept, disk, Outside, ghost, RestoredAtRest
<1>34. ASSUME WorkerEnds PROVE RestoredAtRest'
  BY <1>34 DEF WorkerEnds, Kept, disk, Outside, ghost, RestoredAtRest
<1>35. ASSUME Recover PROVE RestoredAtRest'
  BY <1>35 DEF Recover, Kept, disk, Outside, ghost, RestoredAtRest
<1>36. ASSUME Fail PROVE RestoredAtRest'
  <2>1. UNCHANGED <<dir, terminal, start, touched>>
    BY <1>36 DEF Fail, Outside, ghost
  <2>2. CASE UNCHANGED file
    BY <2>1, <2>2 DEF RestoredAtRest
  <2>3. CASE pc = "stage"
    <3>1. dir = "yes" /\ terminal = "none"
      BY <2>3 DEF PhaseInv, StageInv, Retiring
    <3> QED BY <2>1, <3>1 DEF RestoredAtRest
  <2> QED BY <1>36, <2>2, <2>3 DEF Fail
<1>37. ASSUME Edit PROVE RestoredAtRest'
  <2>1. PICK i \in Targets, p \in {"target", "backup"}, x \in Edits \cup {"none"} :
         /\ touched' = touched \cup {i} /\ file' = [file EXCEPT ![i][p] = Fresh(x)]
         /\ UNCHANGED <<disk, proc, start>>
    BY <1>37 DEF Edit
  <2>2. touched \subseteq touched' /\ \A j \in Targets \ touched' : file'[j] = file[j]
    BY <2>1 DEF FileType
  <2> QED BY <2>1, <2>2 DEF RestoredAtRest, disk
<1>38. ASSUME Crash PROVE RestoredAtRest'
  BY <1>38 DEF Crash, Kept, disk, Outside, ghost, RestoredAtRest
<1>39. ASSUME UNCHANGED vars PROVE RestoredAtRest'
  BY <1>39 DEF vars, disk, proc, ghost, counts, RestoredAtRest
<1> QED BY <1>1, <1>2, <1>3, <1>4, <1>5, <1>6, <1>7, <1>8, <1>9, <1>10, <1>11, <1>12, <1>13, <1>14,
    <1>15, <1>16, <1>17, <1>18, <1>19, <1>20, <1>21, <1>22, <1>23, <1>24, <1>25, <1>26, <1>27,
    <1>28, <1>29, <1>30, <1>31, <1>32, <1>33, <1>34, <1>35, <1>36, <1>37, <1>38, <1>39 DEF Next,
    Catchable, Work, Moving, Building, Finishing

LEMMA RowsHold == Spec => [](RowInv /\ RestoredAtRest)
<1>1. /\ TypeOK /\ PhaseInv /\ StageInv /\ (RowInv /\ RestoredAtRest) /\ [Next]_vars
      => (RowInv /\ RestoredAtRest)'
  BY RowStep, RestStep
<1> QED BY <1>1, TypeCorrect, PhaseHolds, StageHolds, RowInit, RestInit, PTL DEF Spec

\* When nothing is pending, or the terminal control says so, every target nobody else
\* edited holds its original and no copy of it is left, whatever failed or died before
\* (_finish, _retire_terminal, recover_build_inputs).
THEOREM OriginalsComeBack == Spec => []RestoredAtRest
  BY RowsHold, PTL

=============================================================================
