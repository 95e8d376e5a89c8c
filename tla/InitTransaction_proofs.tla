------------------------ MODULE InitTransaction_proofs ------------------------
(***************************************************************************)
(* Theorems about InitTransaction, for every number and layout of planned  *)
(* paths, every set of objects and every bound on faults, edits and        *)
(* invocations.                                                            *)
(***************************************************************************)
EXTENDS InitTransaction, TLAPS

USE DEF Item, Files

-----------------------------------------------------------------------------
(* Type correctness, the index and the counters apart from the rest.        *)

\* A running move works on a planned path that has a payload.
IndexInv ==
  /\ k \in 0 .. N + 1
  /\ pc \in {"check", "rename", "settle"} => k \in Item /\ Created(k)
  /\ faults \in 0 .. MaxFaults /\ edits \in 0 .. MaxEdits /\ applies \in 0 .. MaxApplies

ValueInv ==
  /\ dest \in [Item -> Obj \cup {NoObj}] /\ new \in [Item -> Obj \cup {NoObj}]
  /\ old \in [Item -> Obj \cup {NoObj}] /\ stray \subseteq Dirs
  /\ jdir \in Phases /\ ctl \subseteq Controls \cup {"probe"}
  /\ before \in [Item -> Obj \cup {NoObj}] /\ after \in [Item -> Obj \cup {NoObj}]
  /\ mode \in {"none", "apply", "handler", "recover"}
  /\ pc \in PCs /\ mv \in Moves
  /\ known \subseteq Dirs /\ seen \in {"no", "yes"}
  /\ fate \in {"open", "committed", "rolledback", "abandoned"}
  /\ touched \subseteq Item /\ tampered \subseteq Item
  /\ report \in {"running", "crashed", "applied", "restored", "committed",
                 "incomplete", "conflict", "recovered"}

LEMMA TypeInit == Init => IndexInv /\ ValueInv
  BY LayoutAssumption, BoundAssumption DEF Init, IndexInv, ValueInv, Phases, PCs, Moves

LEMMA IndexNext == IndexInv /\ [Next]_vars => IndexInv'
<1> USE LayoutAssumption, BoundAssumption
<1> USE DEF IndexInv, Created, Goto, Exit, Raise, RaiseConflict, Check, StateMove
<1>1. ASSUME IndexInv, StartApply PROVE IndexInv'
  BY <1>1 DEF StartApply, plan, proc
<1>2. ASSUME IndexInv, MakePreparing PROVE IndexInv'
  BY <1>2 DEF MakePreparing, plan, env
<1>3. ASSUME IndexInv, PrepareControls PROVE IndexInv'
  BY <1>3 DEF PrepareControls, Journal, plan, ghost, env
<1>4. ASSUME IndexInv, Stage PROVE IndexInv'
  BY <1>4 DEF Stage, plan, ghost, env
<1>5. ASSUME IndexInv, VerifyPrepared PROVE IndexInv'
  BY <1>5 DEF VerifyPrepared, fs, plan, env
<1>6. ASSUME IndexInv, PublishReady PROVE IndexInv'
  BY <1>6 DEF PublishReady, plan, env
<1>7. ASSUME IndexInv, BeginInstall PROVE IndexInv'
  BY <1>7 DEF BeginInstall, fs, plan, env
<1>8. ASSUME IndexInv, InstallNext PROVE IndexInv'
  BY <1>8 DEF InstallNext, BeginMove, SkipTo, fs, plan, env
<1>9. ASSUME IndexInv, RollbackNext PROVE IndexInv'
  BY <1>9 DEF RollbackNext, BeginMove, SkipTo, fs, plan, env
<1>10. ASSUME IndexInv, MoveCheck PROVE IndexInv'
  BY <1>10 DEF MoveCheck, fs, plan, env
<1>11. ASSUME IndexInv, MoveRename PROVE IndexInv'
  BY <1>11 DEF MoveRename, Shift, Source, plan, env
<1>12. ASSUME IndexInv, MoveUndo PROVE IndexInv'
  BY <1>12 DEF MoveUndo, Shift, plan, env
<1>13. ASSUME IndexInv, MoveSettle PROVE IndexInv'
  BY <1>13 DEF MoveSettle, fs, plan, env
<1>14. ASSUME IndexInv, FinishMoves PROVE IndexInv'
  BY <1>14 DEF FinishMoves, Installed, fs, plan, env
<1>15. ASSUME IndexInv, PublishTerminal PROVE IndexInv'
  BY <1>15 DEF PublishTerminal, plan, env
<1>16. ASSUME IndexInv, Published PROVE IndexInv'
  BY <1>16 DEF Published, fs, plan, env
<1>17. ASSUME IndexInv, StartRecover PROVE IndexInv'
  BY <1>17 DEF StartRecover, fs, plan, env
<1>18. ASSUME IndexInv, Handler PROVE IndexInv'
  BY <1>18 DEF Handler, fs, plan, env
<1>19. ASSUME IndexInv, RecoverByPhase PROVE IndexInv'
  BY <1>19 DEF RecoverByPhase, fs, plan, env
<1>20. ASSUME IndexInv, BeginRollback PROVE IndexInv'
  BY <1>20 DEF BeginRollback, Installed, fs, plan, env
<1>21. ASSUME IndexInv, Retire PROVE IndexInv'
  BY <1>21 DEF Retire, plan, env
<1>22. ASSUME IndexInv, AcceptCleanup PROVE IndexInv'
  BY <1>22 DEF AcceptCleanup, fs, plan, env
<1>23. ASSUME IndexInv, NEW i \in Item, DeleteNew(i) PROVE IndexInv'
  BY <1>23 DEF DeleteNew, plan, proc, env
<1>24. ASSUME IndexInv, NEW i \in Item, DeleteOld(i) PROVE IndexInv'
  BY <1>24 DEF DeleteOld, plan, proc, env
<1>25. ASSUME IndexInv, DeleteProbe \/ DeleteControl PROVE IndexInv'
  BY <1>25 DEF DeleteProbe, DeleteControl, plan, proc, ghost, env
<1>26. ASSUME IndexInv, RemoveJournal PROVE IndexInv'
  BY <1>26 DEF RemoveJournal, plan, ghost, env
<1>27. ASSUME IndexInv, Done PROVE IndexInv'
  BY <1>27 DEF Done, fs, plan, env
<1>28. ASSUME IndexInv, Fail PROVE IndexInv'
  BY <1>28 DEF Fail, fs, plan
<1>29. ASSUME IndexInv, Crash PROVE IndexInv'
  BY <1>29 DEF Crash, fs, plan
<1>30. ASSUME IndexInv, NEW i \in Item, EditPath(i) PROVE IndexInv'
  <2>1. edits < MaxEdits /\ edits' = edits + 1 /\ UNCHANGED <<k, pc, after, faults, applies>>
    BY <1>30 DEF EditPath, plan, proc
  <2> QED BY <1>30, <2>1
<1>31. ASSUME IndexInv, NEW i \in Item, AddStray(i) PROVE IndexInv'
  BY <1>31 DEF AddStray, plan, proc
<1>32. ASSUME IndexInv, NEW i \in Item, WriteThroughHandle(i) PROVE IndexInv'
  BY <1>32 DEF WriteThroughHandle, Fresh, plan, proc
<1>33. ASSUME IndexInv, UNCHANGED vars PROVE IndexInv'
  BY <1>33 DEF vars, fs, plan, proc, ghost, env
<1> QED BY <1>1, <1>2, <1>3, <1>4, <1>5, <1>6, <1>7, <1>8, <1>9, <1>10, <1>11, <1>12,
     <1>13, <1>14, <1>15, <1>16, <1>17, <1>18, <1>19, <1>20, <1>21, <1>22, <1>23,
     <1>24, <1>25, <1>26, <1>27, <1>28, <1>29, <1>30, <1>31, <1>32, <1>33
  DEF Next, Work, Apply, Move, Recover, Cleanup, Editor

LEMMA ValueNext == ValueInv /\ [Next]_vars => ValueInv'
<1> USE DEF ValueInv, Phases, Controls, Markers, Moves, PCs,
            Goto, Exit, Raise, RaiseConflict, Check, StateMove
<1>1. ASSUME ValueInv, StartApply PROVE ValueInv'
  BY <1>1 DEF StartApply, plan, proc
<1>2. ASSUME ValueInv, MakePreparing PROVE ValueInv'
  BY <1>2 DEF MakePreparing, plan, env
<1>3. ASSUME ValueInv, PrepareControls PROVE ValueInv'
  <2>1. UNCHANGED <<dest, new, old, stray, jdir, before, after, mode, mv, known, seen,
                    fate, touched, tampered, report>>
    BY <1>3 DEF PrepareControls, Journal, plan, ghost
  <2>2. ctl' \subseteq Controls \cup {"probe"}
    BY <1>3 DEF PrepareControls, Journal
  <2>3. pc' \in PCs
    BY <1>3 DEF PrepareControls, Journal
  <2> QED BY <1>3, <2>1, <2>2, <2>3
<1>4. ASSUME ValueInv, Stage PROVE ValueInv'
  BY <1>4 DEF Stage, plan, ghost, env
<1>5. ASSUME ValueInv, VerifyPrepared PROVE ValueInv'
  BY <1>5 DEF VerifyPrepared, fs, plan, env
<1>6. ASSUME ValueInv, PublishReady PROVE ValueInv'
  BY <1>6 DEF PublishReady, plan, env
<1>7. ASSUME ValueInv, BeginInstall PROVE ValueInv'
  BY <1>7 DEF BeginInstall, fs, plan, env
<1>8. ASSUME ValueInv, InstallNext PROVE ValueInv'
  BY <1>8 DEF InstallNext, BeginMove, SkipTo, fs, plan, env
<1>9. ASSUME ValueInv, RollbackNext PROVE ValueInv'
  BY <1>9 DEF RollbackNext, BeginMove, SkipTo, fs, plan, env
<1>10. ASSUME ValueInv, MoveCheck PROVE ValueInv'
  BY <1>10 DEF MoveCheck, fs, plan, env
<1>11. ASSUME ValueInv, MoveRename PROVE ValueInv'
  BY <1>11 DEF MoveRename, Shift, Source, plan, env
<1>12. ASSUME ValueInv, MoveUndo PROVE ValueInv'
  BY <1>12 DEF MoveUndo, Shift, plan, env
<1>13. ASSUME ValueInv, MoveSettle PROVE ValueInv'
  BY <1>13 DEF MoveSettle, fs, plan, env
<1>14. ASSUME ValueInv, FinishMoves PROVE ValueInv'
  BY <1>14 DEF FinishMoves, Installed, fs, plan, env
<1>15. ASSUME ValueInv, PublishTerminal PROVE ValueInv'
  <2>1. UNCHANGED <<dest, new, old, stray, jdir, before, after, touched, tampered>>
    BY <1>15 DEF PublishTerminal, plan
  <2>2. ctl' \subseteq Controls \cup {"probe"}
    BY <1>15 DEF PublishTerminal
  <2>3. fate' \in {"open", "committed", "rolledback", "abandoned"}
    BY <1>15 DEF PublishTerminal
  <2>4. /\ pc' \in PCs /\ mv' \in Moves /\ known' \subseteq Dirs /\ seen' \in {"no", "yes"}
        /\ mode' \in {"none", "apply", "handler", "recover"}
        /\ report' \in {"running", "crashed", "applied", "restored", "committed",
                        "incomplete", "conflict", "recovered"}
    BY <1>15 DEF PublishTerminal
  <2> QED BY <1>15, <2>1, <2>2, <2>3, <2>4
<1>16. ASSUME ValueInv, Published PROVE ValueInv'
  BY <1>16 DEF Published, fs, plan, env
<1>17. ASSUME ValueInv, StartRecover PROVE ValueInv'
  BY <1>17 DEF StartRecover, fs, plan, env
<1>18. ASSUME ValueInv, Handler PROVE ValueInv'
  BY <1>18 DEF Handler, fs, plan, env
<1>19. ASSUME ValueInv, RecoverByPhase PROVE ValueInv'
  BY <1>19 DEF RecoverByPhase, fs, plan, env
<1>20. ASSUME ValueInv, BeginRollback PROVE ValueInv'
  BY <1>20 DEF BeginRollback, Installed, fs, plan, env
<1>21. ASSUME ValueInv, Retire PROVE ValueInv'
  <2>1. CASE StateMove("retire", "READY", "CLEANUP", "accept") /\ UNCHANGED fate
    BY <1>21, <2>1 DEF plan
  <2>2. CASE StateMove("retire", "PREPARING", "CLEANUP", "accept") /\ fate' = "abandoned"
    BY <1>21, <2>2 DEF plan
  <2> QED BY <1>21, <2>1, <2>2 DEF Retire
<1>22. ASSUME ValueInv, AcceptCleanup PROVE ValueInv'
  BY <1>22 DEF AcceptCleanup, fs, plan, env
<1>23. ASSUME ValueInv, NEW i \in Item, DeleteNew(i) PROVE ValueInv'
  BY <1>23 DEF DeleteNew, plan, proc, env
<1>24. ASSUME ValueInv, NEW i \in Item, DeleteOld(i) PROVE ValueInv'
  BY <1>24 DEF DeleteOld, plan, proc, env
<1>25. ASSUME ValueInv, DeleteProbe \/ DeleteControl PROVE ValueInv'
  <2>1. /\ ctl' \subseteq ctl
        /\ UNCHANGED <<dest, new, old, stray, jdir, plan, proc, ghost>>
    BY <1>25 DEF DeleteProbe, DeleteControl
  <2> QED BY <1>25, <2>1 DEF plan, proc, ghost
<1>26. ASSUME ValueInv, RemoveJournal PROVE ValueInv'
  BY <1>26 DEF RemoveJournal, plan, ghost, env
<1>27. ASSUME ValueInv, Done PROVE ValueInv'
  BY <1>27 DEF Done, fs, plan, env
<1>28. ASSUME ValueInv, Fail PROVE ValueInv'
  BY <1>28 DEF Fail, fs, plan
<1>29. ASSUME ValueInv, Crash PROVE ValueInv'
  BY <1>29 DEF Crash, fs, plan
<1>30. ASSUME ValueInv, NEW i \in Item, EditPath(i) PROVE ValueInv'
  BY <1>30 DEF EditPath, Fresh, plan, proc
<1>31. ASSUME ValueInv, NEW i \in Item, AddStray(i) PROVE ValueInv'
  BY <1>31 DEF AddStray, plan, proc
<1>32. ASSUME ValueInv, NEW i \in Item, WriteThroughHandle(i) PROVE ValueInv'
  BY <1>32 DEF WriteThroughHandle, Fresh, plan, proc
<1>33. ASSUME ValueInv, UNCHANGED vars PROVE ValueInv'
  BY <1>33 DEF vars, fs, plan, proc, ghost, env
<1> QED BY <1>1, <1>2, <1>3, <1>4, <1>5, <1>6, <1>7, <1>8, <1>9, <1>10, <1>11, <1>12,
     <1>13, <1>14, <1>15, <1>16, <1>17, <1>18, <1>19, <1>20, <1>21, <1>22, <1>23,
     <1>24, <1>25, <1>26, <1>27, <1>28, <1>29, <1>30, <1>31, <1>32, <1>33
  DEF Next, Work, Apply, Move, Recover, Cleanup, Editor

\* Every variable keeps its type whatever the layout, the faults and the edits.
THEOREM TypeCorrect == Spec => []TypeOK
<1>1. IndexInv /\ ValueInv => TypeOK
  BY DEF IndexInv, ValueInv, TypeOK
<1> QED BY <1>1, TypeInit, IndexNext, ValueNext, PTL DEF Spec

-----------------------------------------------------------------------------
(* Where an invocation may be in each phase of the journal.                 *)

Preparing == {"header", "publishHeader", "probe", "unprobe", "stage", "plan", "publishPlan",
              "commitPending", "rollbackPending", "verify", "ready"}
Moving == {"install", "next", "check", "rename", "settle", "finish", "publish"}

PhaseInv ==
  /\ pc = "prepare" => jdir = "none" /\ fate = "open"
  /\ pc \in Preparing => jdir = "PREPARING"
  /\ pc \in Moving => jdir = "READY" /\ fate = "open"
  /\ pc = "published" => jdir = "READY" /\ fate # "open"
  /\ pc = "rollback" => jdir = "READY"
  /\ pc = "retire" => jdir = "PREPARING" \/ (jdir = "READY" /\ fate # "open")
  /\ pc \in {"accept", "delete"} => jdir = "CLEANUP"
  /\ pc = "done" => jdir = "none"
  /\ jdir = "none" => ctl = {}
  /\ jdir = "PREPARING" => fate = "open" /\ "COMMITTED" \notin ctl /\ "ROLLED_BACK" \notin ctl
  /\ jdir = "CLEANUP" => fate # "open"
  /\ jdir = "READY" => /\ fate # "abandoned"
                       /\ "COMMITTED" \in ctl <=> fate = "committed"
                       /\ "ROLLED_BACK" \in ctl <=> fate = "rolledback"

LEMMA PhaseInit == Init => PhaseInv
  BY DEF Init, PhaseInv, Preparing, Moving

LEMMA PhaseNext == ValueInv /\ PhaseInv /\ [Next]_vars => PhaseInv'
<1> USE DEF PhaseInv, Preparing, Moving, Goto, Exit, Raise, RaiseConflict, Check, StateMove,
         Terminal
<1>1. ASSUME ValueInv, PhaseInv, StartApply PROVE PhaseInv'
  BY <1>1 DEF StartApply, plan, proc
<1>2. ASSUME ValueInv, PhaseInv, MakePreparing PROVE PhaseInv'
  BY <1>2 DEF MakePreparing, plan, env
<1>3. ASSUME ValueInv, PhaseInv, PrepareControls PROVE PhaseInv'
  BY <1>3 DEF PrepareControls, Journal, plan, ghost, env
<1>4. ASSUME ValueInv, PhaseInv, Stage PROVE PhaseInv'
  BY <1>4 DEF Stage, plan, ghost, env
<1>5. ASSUME ValueInv, PhaseInv, VerifyPrepared PROVE PhaseInv'
  BY <1>5 DEF VerifyPrepared, fs, plan, env
<1>6. ASSUME ValueInv, PhaseInv, PublishReady PROVE PhaseInv'
  BY <1>6 DEF PublishReady, plan, env
<1>7. ASSUME ValueInv, PhaseInv, BeginInstall PROVE PhaseInv'
  BY <1>7 DEF BeginInstall, fs, plan, env
<1>8. ASSUME ValueInv, PhaseInv, InstallNext PROVE PhaseInv'
  BY <1>8 DEF InstallNext, BeginMove, SkipTo, fs, plan, env
<1>9. ASSUME ValueInv, PhaseInv, RollbackNext PROVE PhaseInv'
  BY <1>9 DEF RollbackNext, BeginMove, SkipTo, fs, plan, env
<1>10. ASSUME ValueInv, PhaseInv, MoveCheck PROVE PhaseInv'
  BY <1>10 DEF MoveCheck, fs, plan, env
<1>11. ASSUME ValueInv, PhaseInv, MoveRename PROVE PhaseInv'
  BY <1>11 DEF MoveRename, Shift, Source, plan, env
<1>12. ASSUME ValueInv, PhaseInv, MoveUndo PROVE PhaseInv'
  BY <1>12 DEF MoveUndo, Shift, plan, env
<1>13. ASSUME ValueInv, PhaseInv, MoveSettle PROVE PhaseInv'
  BY <1>13 DEF MoveSettle, fs, plan, env
<1>14. ASSUME ValueInv, PhaseInv, FinishMoves PROVE PhaseInv'
  BY <1>14 DEF FinishMoves, Installed, fs, plan, env
<1>15. ASSUME ValueInv, PhaseInv, PublishTerminal PROVE PhaseInv'
  BY <1>15 DEF PublishTerminal, plan, env
<1>16. ASSUME ValueInv, PhaseInv, Published PROVE PhaseInv'
  BY <1>16 DEF Published, fs, plan, env
<1>17. ASSUME ValueInv, PhaseInv, StartRecover PROVE PhaseInv'
  BY <1>17 DEF StartRecover, fs, plan, env
<1>18. ASSUME ValueInv, PhaseInv, Handler PROVE PhaseInv'
  BY <1>18 DEF Handler, fs, plan, env
<1>19. ASSUME ValueInv, PhaseInv, RecoverByPhase PROVE PhaseInv'
  <2>1. UNCHANGED <<jdir, ctl, fate>>
    BY <1>19 DEF RecoverByPhase, fs
  <2>2. \/ pc' \in {"handler", "idle"}
        \/ pc' = IF jdir = "none" THEN "done" ELSE IF jdir = "PREPARING" THEN "retire"
                 ELSE IF jdir = "READY" THEN IF Terminal = "none" THEN "rollback" ELSE "retire"
                 ELSE "accept"
    BY <1>19, Zenon DEF RecoverByPhase
  <2>3. jdir \in Phases
    BY <1>19 DEF ValueInv
  <2> QED BY <1>19, <2>1, <2>2, <2>3 DEF Phases
<1>20. ASSUME ValueInv, PhaseInv, BeginRollback PROVE PhaseInv'
  <2>1. UNCHANGED <<jdir, ctl, fate>>
    BY <1>20 DEF BeginRollback, fs
  <2>2. pc' \in {"handler", "idle"} \/ (pc' = "next" /\ Terminal = "none" /\ jdir = "READY")
    BY <1>20, Zenon DEF BeginRollback
  <2>3. fate \in {"open", "committed", "rolledback", "abandoned"}
    BY <1>20 DEF ValueInv
  <2> QED BY <1>20, <2>1, <2>2, <2>3
<1>21. ASSUME ValueInv, PhaseInv, Retire PROVE PhaseInv'
  BY <1>21 DEF Retire, plan, env
<1>22. ASSUME ValueInv, PhaseInv, AcceptCleanup PROVE PhaseInv'
  BY <1>22 DEF AcceptCleanup, fs, plan, env
<1>23. ASSUME ValueInv, PhaseInv, NEW i \in Item, DeleteNew(i) PROVE PhaseInv'
  BY <1>23 DEF DeleteNew, plan, proc, env
<1>24. ASSUME ValueInv, PhaseInv, NEW i \in Item, DeleteOld(i) PROVE PhaseInv'
  BY <1>24 DEF DeleteOld, plan, proc, env
<1>25. ASSUME ValueInv, PhaseInv, DeleteProbe \/ DeleteControl PROVE PhaseInv'
  BY <1>25 DEF DeleteProbe, DeleteControl, plan, proc, ghost, env
<1>26. ASSUME ValueInv, PhaseInv, RemoveJournal PROVE PhaseInv'
  BY <1>26 DEF RemoveJournal, plan, ghost, env
<1>27. ASSUME ValueInv, PhaseInv, Done PROVE PhaseInv'
  BY <1>27 DEF Done, fs, plan, env
<1>28. ASSUME ValueInv, PhaseInv, Fail PROVE PhaseInv'
  BY <1>28 DEF Fail, fs, plan
<1>29. ASSUME ValueInv, PhaseInv, Crash PROVE PhaseInv'
  BY <1>29 DEF Crash, fs, plan
<1>30. ASSUME ValueInv, PhaseInv, NEW i \in Item, EditPath(i) PROVE PhaseInv'
  BY <1>30 DEF EditPath, Fresh, plan, proc
<1>31. ASSUME ValueInv, PhaseInv, NEW i \in Item, AddStray(i) PROVE PhaseInv'
  BY <1>31 DEF AddStray, plan, proc
<1>32. ASSUME ValueInv, PhaseInv, NEW i \in Item, WriteThroughHandle(i) PROVE PhaseInv'
  BY <1>32 DEF WriteThroughHandle, Fresh, plan, proc
<1>33. ASSUME ValueInv, PhaseInv, UNCHANGED vars PROVE PhaseInv'
  BY <1>33 DEF vars, fs, plan, proc, ghost, env
<1> QED BY <1>1, <1>2, <1>3, <1>4, <1>5, <1>6, <1>7, <1>8, <1>9, <1>10, <1>11, <1>12,
     <1>13, <1>14, <1>15, <1>16, <1>17, <1>18, <1>19, <1>20, <1>21, <1>22, <1>23,
     <1>24, <1>25, <1>26, <1>27, <1>28, <1>29, <1>30, <1>31, <1>32, <1>33
  DEF Next, Work, Apply, Move, Recover, Cleanup, Editor

-----------------------------------------------------------------------------
(* Where the objects of a path no editor interfered with are.               *)

Explained(i) ==
  IF Created(i) THEN IsOld(i) \/ IsBetween(i) \/ IsNew(i) ELSE dest[i] = before[i]

Final(i) == IF mode = "apply" /\ Created(i) THEN after[i] ELSE before[i]

\* The checks of a move still hold while it runs, unless an editor interfered,
\* and the last pass over the paths holds until the marker is published.
PlaceInv ==
  /\ jdir # "READY" \/ fate # "open" => \A i \in Untouched : dest[i] = Result(i)
  /\ jdir = "READY" /\ fate = "open" => \A i \in Untouched \ tampered : Explained(i)
  /\ pc = "ready" => \A i \in Untouched \ tampered : Created(i) => IsOld(i)
  /\ pc = "rename" /\ k \in Untouched \ tampered => Source = Binding /\ Target = NoObj
  /\ pc = "settle" /\ k \in Untouched \ tampered => Target = Binding /\ Source = NoObj
  /\ pc = "publish" => \A i \in Untouched : dest[i] = Final(i)

LEMMA PlaceInit == Init => PlaceInv
  BY DEF Init, PlaceInv, Untouched, Result, Created

\* A step that moves no object, decides nothing and enters no checked place.
LEMMA PlaceFrame ==
  /\ PlaceInv
  /\ UNCHANGED <<dest, new, old, plan, touched, tampered, jdir, fate>>
  /\ pc' \notin {"ready", "rename", "settle", "publish"}
  => PlaceInv'
  BY DEF PlaceInv, plan, Explained, IsOld, IsBetween, IsNew, Created, Untouched, Result

\* What MoveCheck establishes of move m on path i.
Movable(m, i) ==
  /\ m = "backup"  => dest[i] = before[i] /\ old[i] = NoObj /\ before[i] # NoObj
  /\ m = "restore" => old[i] = before[i] /\ dest[i] = NoObj /\ before[i] # NoObj
  /\ m = "place"   => new[i] = after[i] /\ dest[i] = NoObj
  /\ m = "unplace" => dest[i] = after[i] /\ new[i] = NoObj

LEMMA ShiftExplained ==
  ASSUME ValueInv, NEW m \in Moves, NEW i \in Item, Created(i), Explained(i), Movable(m, i),
         Shift(m, i), UNCHANGED <<before, after>>
  PROVE  Explained(i)'
<1> USE DEF ValueInv, Created, Explained, IsOld, IsBetween, IsNew, Movable, Shift
<1>1. CASE m = "backup"
  BY <1>1
<1>2. CASE m = "restore"
  BY <1>2
<1>3. CASE m = "place"
  BY <1>3
<1>4. CASE m = "unplace"
  BY <1>4
<1> QED BY <1>1, <1>2, <1>3, <1>4 DEF Moves

LEMMA ShiftElsewhere ==
  ASSUME ValueInv, NEW m \in Moves, NEW i \in Item, NEW j \in Item, j # i, Explained(j),
         Shift(m, i), UNCHANGED <<before, after>>
  PROVE  Explained(j)'
  BY DEF ValueInv, Created, Explained, IsOld, IsBetween, IsNew, Shift

LEMMA PlaceNext == IndexInv /\ ValueInv /\ PhaseInv /\ PlaceInv /\ [Next]_vars => PlaceInv'
<1> USE DEF Goto, Exit, Raise, RaiseConflict, Check, StateMove
<1>1. ASSUME IndexInv, ValueInv, PhaseInv, PlaceInv, StartApply PROVE PlaceInv'
  BY <1>1 DEF StartApply, PlaceInv, Untouched, Result, Created
<1>2. ASSUME IndexInv, ValueInv, PhaseInv, PlaceInv, MakePreparing PROVE PlaceInv'
  <2>1. /\ jdir # "READY" /\ jdir' # "READY" /\ pc' \notin {"ready", "rename", "settle",
           "publish"}
        /\ UNCHANGED <<dest, before, after, touched, fate>>
    BY <1>2 DEF MakePreparing, PhaseInv, Preparing, plan
  <2> QED BY <1>2, <2>1 DEF PlaceInv, Untouched, Result, Created
<1>3. ASSUME IndexInv, ValueInv, PhaseInv, PlaceInv, PrepareControls PROVE PlaceInv'
  <2>1. UNCHANGED <<dest, new, old, plan, touched, tampered, jdir, fate>>
    BY <1>3 DEF PrepareControls, Journal, plan, ghost, env
  <2>2. pc' \notin {"ready", "rename", "settle", "publish"}
    BY <1>3 DEF PrepareControls, Journal, plan, ghost, env
  <2> QED BY <1>3, <2>1, <2>2, PlaceFrame
<1>4. ASSUME IndexInv, ValueInv, PhaseInv, PlaceInv, Stage PROVE PlaceInv'
  <2>1. /\ jdir # "READY" /\ jdir' # "READY" /\ pc' \notin {"ready", "rename", "settle",
           "publish"}
        /\ UNCHANGED <<dest, before, after, touched, fate>>
    BY <1>4 DEF Stage, PhaseInv, Preparing, ghost, plan
  <2> QED BY <1>4, <2>1 DEF PlaceInv, Untouched, Result, Created
<1>5. ASSUME IndexInv, ValueInv, PhaseInv, PlaceInv, VerifyPrepared PROVE PlaceInv'
  <2>1. UNCHANGED <<dest, new, old, before, after, touched, tampered, jdir, fate>>
    BY <1>5 DEF VerifyPrepared, fs, plan
  <2>2. pc = "verify" /\ ((pc' = "ready" /\ Locations("old")) \/ pc' \in {"handler", "idle"})
    BY <1>5 DEF VerifyPrepared
  <2>3. jdir = "PREPARING"
    BY <1>5, <2>2 DEF PhaseInv, Preparing
  <2>4. Locations("old") => \A i \in Item : Created(i) => IsOld(i)
    BY DEF Locations, Located
  <2> QED BY <1>5, <2>1, <2>2, <2>3, <2>4 DEF PlaceInv, Explained, IsOld, IsBetween, IsNew,
             Created, Untouched, Result
<1>6. ASSUME IndexInv, ValueInv, PhaseInv, PlaceInv, PublishReady PROVE PlaceInv'
  <2>1. /\ pc = "ready" /\ pc' = "install" /\ jdir = "PREPARING" /\ jdir' = "READY"
        /\ UNCHANGED <<dest, new, old, before, after, touched, tampered, fate>>
    BY <1>6 DEF PublishReady, plan
  <2>2. fate = "open"
    BY <1>6, <2>1 DEF PhaseInv
  <2> QED BY <1>6, <2>1, <2>2 DEF PlaceInv, Explained, IsOld, IsBetween, IsNew, Created, Untouched,
             Result
<1>7. ASSUME IndexInv, ValueInv, PhaseInv, PlaceInv, BeginInstall PROVE PlaceInv'
  <2>1. UNCHANGED <<dest, new, old, plan, touched, tampered, jdir, fate>>
    BY <1>7 DEF BeginInstall, fs, plan, env, ghost
  <2>2. pc' \notin {"ready", "rename", "settle", "publish"}
    BY <1>7 DEF BeginInstall, fs, plan, env
  <2> QED BY <1>7, <2>1, <2>2, PlaceFrame
<1>8. ASSUME IndexInv, ValueInv, PhaseInv, PlaceInv, InstallNext PROVE PlaceInv'
  <2>1. UNCHANGED <<dest, new, old, plan, touched, tampered, jdir, fate>>
    BY <1>8 DEF InstallNext, BeginMove, SkipTo, fs, plan, env, ghost
  <2>2. pc' \notin {"ready", "rename", "settle", "publish"}
    BY <1>8 DEF InstallNext, BeginMove, SkipTo, fs, plan, env
  <2> QED BY <1>8, <2>1, <2>2, PlaceFrame
<1>9. ASSUME IndexInv, ValueInv, PhaseInv, PlaceInv, RollbackNext PROVE PlaceInv'
  <2>1. UNCHANGED <<dest, new, old, plan, touched, tampered, jdir, fate>>
    BY <1>9 DEF RollbackNext, BeginMove, SkipTo, fs, plan, env, ghost
  <2>2. pc' \notin {"ready", "rename", "settle", "publish"}
    BY <1>9 DEF RollbackNext, BeginMove, SkipTo, fs, plan, env
  <2> QED BY <1>9, <2>1, <2>2, PlaceFrame
<1>10. ASSUME IndexInv, ValueInv, PhaseInv, PlaceInv, MoveCheck PROVE PlaceInv'
  <2>1. CASE pc' = "rename"
    <3>1. UNCHANGED <<dest, new, old, before, after, touched, tampered, jdir, fate, k, mv>>
      BY <1>10, <2>1 DEF MoveCheck, fs, plan
    <3>2. Source = Binding /\ Target = NoObj
      BY <1>10, <2>1 DEF MoveCheck
    <3> QED BY <1>10, <2>1, <3>1, <3>2 DEF PlaceInv, Explained, IsOld, IsBetween, IsNew, Created,
               Untouched, Result,
         Source, Target, Binding
  <2>2. CASE pc' # "rename"
    <3>1. UNCHANGED <<dest, new, old, plan, touched, tampered, jdir, fate>>
      BY <1>10 DEF MoveCheck, fs
    <3>2. pc' \in {"handler", "idle"}
      BY <1>10, <2>2 DEF MoveCheck
    <3> QED BY <1>10, <3>1, <3>2, PlaceFrame
  <2> QED BY <2>1, <2>2
<1>11. ASSUME IndexInv, ValueInv, PhaseInv, PlaceInv, MoveRename PROVE PlaceInv'
  <2>1. CASE ~(Source # NoObj /\ Target = NoObj /\ ParentHeld(k))
    <3>1. UNCHANGED <<dest, new, old, plan, touched, tampered, jdir, fate>>
      BY <1>11, <2>1 DEF MoveRename
    <3>2. pc' \notin {"ready", "rename", "settle", "publish"}
      BY <1>11, <2>1 DEF MoveRename
    <3> QED BY <1>11, <3>1, <3>2, PlaceFrame
  <2>2. CASE Source # NoObj /\ Target = NoObj /\ ParentHeld(k)
    <3>1. /\ Shift(mv, k) /\ pc = "rename" /\ pc' = "settle"
          /\ UNCHANGED <<mode, k, mv, jdir, fate, before, after, touched, tampered>>
      BY <1>11, <2>2 DEF MoveRename, plan
    <3>2. k \in Item /\ Created(k) /\ mv \in Moves /\ jdir = "READY" /\ fate = "open"
      BY <1>11, <3>1 DEF IndexInv, ValueInv, PhaseInv, Moving
    <3>3. ASSUME NEW i \in Untouched \ tampered PROVE Explained(i)'
      <4>1. CASE i = k
        <5>1. Source = Binding
          BY <1>11, <3>1, <3>3, <4>1 DEF PlaceInv
        <5>2. Explained(k)
          BY <1>11, <3>2, <3>3, <4>1 DEF PlaceInv
        <5> QED BY <1>11, <2>2, <3>1, <3>2, <4>1, <5>1, <5>2, ShiftExplained
          DEF Movable, Source, Target, Binding, ValueInv
      <4>2. CASE i # k
        BY <1>11, <3>1, <3>2, <3>3, <4>2, ShiftElsewhere DEF PlaceInv, Untouched
      <4> QED BY <4>1, <4>2
    <3>4. k \in Untouched \ tampered => (Target = Binding /\ Source = NoObj)'
      BY <1>11, <2>2, <3>1, <3>2 DEF PlaceInv, ValueInv, Shift, Source, Target, Binding, Moves
    <3> QED BY <1>11, <3>1, <3>2, <3>3, <3>4 DEF PlaceInv, Untouched
  <2> QED BY <2>1, <2>2
<1>12. ASSUME IndexInv, ValueInv, PhaseInv, PlaceInv, MoveUndo PROVE PlaceInv'
  <2>1. pc = "settle" /\ Captured /\ pc' \notin {"ready", "rename", "settle", "publish"}
    BY <1>12 DEF MoveUndo
  <2>2. UNCHANGED <<jdir, fate, before, after, touched, tampered>>
    BY <1>12 DEF MoveUndo, plan
  <2>3. CASE UNCHANGED <<dest, new, old>>
    BY <1>12, <2>1, <2>2, <2>3, PlaceFrame DEF plan
  <2>4. CASE Shift(Undoing(mv), k)
    <3>1. k \in Item /\ Created(k) /\ jdir = "READY" /\ fate = "open"
      BY <1>12, <2>1 DEF IndexInv, PhaseInv, Moving
    <3>2. Undoing(mv) \in Moves
      BY <1>12 DEF ValueInv, Undoing, Moves
    <3>3. ASSUME NEW i \in Untouched \ tampered PROVE Explained(i)'
      <4>1. CASE i = k
        <5>1. Target = Binding /\ Source = NoObj /\ Target # NoObj
          BY <1>12, <2>1, <3>3, <4>1 DEF PlaceInv, Captured
        <5>2. Explained(k)
          BY <1>12, <3>1, <3>3, <4>1 DEF PlaceInv
        <5>3. Movable(Undoing(mv), k)
          BY <1>12, <5>1 DEF Movable, Source, Target, Binding, ValueInv, Undoing, Moves
        <5> QED BY <1>12, <2>2, <2>4, <3>1, <3>2, <4>1, <5>2, <5>3, ShiftExplained
      <4>2. CASE i # k
        BY <1>12, <2>2, <2>4, <3>1, <3>2, <3>3, <4>2, ShiftElsewhere DEF PlaceInv, Untouched
      <4> QED BY <4>1, <4>2
    <3> QED BY <1>12, <2>1, <2>2, <3>1, <3>3 DEF PlaceInv, Untouched
  <2> QED BY <1>12, <2>3, <2>4 DEF MoveUndo
<1>13. ASSUME IndexInv, ValueInv, PhaseInv, PlaceInv, MoveSettle PROVE PlaceInv'
  <2>1. UNCHANGED <<dest, new, old, plan, touched, tampered, jdir, fate>>
    BY <1>13 DEF MoveSettle, fs, plan, env, ghost
  <2>2. pc' \notin {"ready", "rename", "settle", "publish"}
    BY <1>13 DEF MoveSettle, fs, plan, env
  <2> QED BY <1>13, <2>1, <2>2, PlaceFrame
<1>14. ASSUME IndexInv, ValueInv, PhaseInv, PlaceInv, FinishMoves PROVE PlaceInv'
  <2>1. CASE pc' # "publish"
    <3>1. UNCHANGED <<dest, new, old, plan, touched, tampered, jdir, fate>>
      BY <1>14 DEF FinishMoves, fs
    <3>2. pc' \in {"handler", "idle"}
      BY <1>14, <2>1 DEF FinishMoves
    <3> QED BY <1>14, <3>1, <3>2, PlaceFrame
  <2>2. CASE pc' = "publish"
    <3>1. UNCHANGED <<dest, new, old, before, after, touched, tampered, jdir, fate, mode>>
      BY <1>14, <2>2 DEF FinishMoves, fs, plan
    <3>2. Locations(IF mode = "apply" THEN "new" ELSE "old")
      BY <1>14, <2>2 DEF FinishMoves
    <3>3. \A i \in Item : dest[i] = Final(i)
      BY <1>14, <3>2 DEF Locations, Located, Final, IsOld, IsNew, ValueInv
    <3> QED BY <1>14, <2>2, <3>1, <3>3 DEF PlaceInv, Explained, IsOld, IsBetween, IsNew, Created,
               Untouched, Result, Final
  <2> QED BY <2>1, <2>2
<1>15. ASSUME IndexInv, ValueInv, PhaseInv, PlaceInv, PublishTerminal PROVE PlaceInv'
  <2>1. CASE pc' # "published"
    <3>1. UNCHANGED <<dest, new, old, plan, touched, tampered, jdir, fate>>
      BY <1>15, <2>1 DEF PublishTerminal
    <3>2. pc' \in {"handler", "idle"}
      BY <1>15, <2>1 DEF PublishTerminal
    <3> QED BY <1>15, <3>1, <3>2, PlaceFrame
  <2>2. CASE pc' = "published"
    <3>1. pc = "publish" /\ UNCHANGED <<dest, new, old, before, after, touched, tampered, jdir>>
      BY <1>15, <2>2 DEF PublishTerminal, plan
    <3>2. fate' = IF mode = "apply" THEN "committed" ELSE "rolledback"
      BY <1>15, <2>2 DEF PublishTerminal
    <3> QED BY <1>15, <2>2, <3>1, <3>2 DEF PlaceInv, Created, Untouched, Result, Final
  <2> QED BY <2>1, <2>2
<1>16. ASSUME IndexInv, ValueInv, PhaseInv, PlaceInv, Published PROVE PlaceInv'
  <2>1. UNCHANGED <<dest, new, old, plan, touched, tampered, jdir, fate>>
    BY <1>16 DEF Published, fs, plan, env, ghost
  <2>2. pc' \notin {"ready", "rename", "settle", "publish"}
    BY <1>16 DEF Published, fs, plan, env
  <2> QED BY <1>16, <2>1, <2>2, PlaceFrame
<1>17. ASSUME IndexInv, ValueInv, PhaseInv, PlaceInv, StartRecover PROVE PlaceInv'
  <2>1. UNCHANGED <<dest, new, old, plan, touched, tampered, jdir, fate>>
    BY <1>17 DEF StartRecover, fs, plan, env, ghost
  <2>2. pc' \notin {"ready", "rename", "settle", "publish"}
    BY <1>17 DEF StartRecover, fs, plan, env
  <2> QED BY <1>17, <2>1, <2>2, PlaceFrame
<1>18. ASSUME IndexInv, ValueInv, PhaseInv, PlaceInv, Handler PROVE PlaceInv'
  <2>1. UNCHANGED <<dest, new, old, plan, touched, tampered, jdir, fate>>
    BY <1>18 DEF Handler, fs, plan, env, ghost
  <2>2. pc' \notin {"ready", "rename", "settle", "publish"}
    BY <1>18 DEF Handler, fs, plan, env
  <2> QED BY <1>18, <2>1, <2>2, PlaceFrame
<1>19. ASSUME IndexInv, ValueInv, PhaseInv, PlaceInv, RecoverByPhase PROVE PlaceInv'
  <2>1. UNCHANGED <<dest, new, old, plan, touched, tampered, jdir, fate>>
    BY <1>19 DEF RecoverByPhase, fs, plan, env, ghost
  <2>2. pc' \notin {"ready", "rename", "settle", "publish"}
    BY <1>19 DEF RecoverByPhase, fs, plan, env
  <2> QED BY <1>19, <2>1, <2>2, PlaceFrame
<1>20. ASSUME IndexInv, ValueInv, PhaseInv, PlaceInv, BeginRollback PROVE PlaceInv'
  <2>1. UNCHANGED <<dest, new, old, plan, touched, tampered, jdir, fate>>
    BY <1>20 DEF BeginRollback, Installed, fs, plan, env, ghost
  <2>2. pc' \notin {"ready", "rename", "settle", "publish"}
    BY <1>20 DEF BeginRollback, Installed, fs, plan, env
  <2> QED BY <1>20, <2>1, <2>2, PlaceFrame
<1>21. ASSUME IndexInv, ValueInv, PhaseInv, PlaceInv, Retire PROVE PlaceInv'
  <2>1. /\ jdir' = "CLEANUP" /\ pc' = "accept" /\ UNCHANGED <<dest, before, after, touched>>
        /\ \/ jdir = "PREPARING" /\ fate = "open" /\ fate' = "abandoned"
           \/ jdir = "READY" /\ fate # "open" /\ fate' = fate
    BY <1>21 DEF Retire, PhaseInv, plan
  <2> QED BY <1>21, <2>1 DEF PlaceInv, Created, Untouched, Result
<1>22. ASSUME IndexInv, ValueInv, PhaseInv, PlaceInv, AcceptCleanup PROVE PlaceInv'
  <2>1. UNCHANGED <<dest, new, old, plan, touched, tampered, jdir, fate>>
    BY <1>22 DEF AcceptCleanup, fs, plan, env, ghost
  <2>2. pc' \notin {"ready", "rename", "settle", "publish"}
    BY <1>22 DEF AcceptCleanup, fs, plan, env
  <2> QED BY <1>22, <2>1, <2>2, PlaceFrame
<1>23. ASSUME IndexInv, ValueInv, PhaseInv, PlaceInv, NEW i \in Item, DeleteNew(i) PROVE PlaceInv'
  <2>1. /\ jdir = "CLEANUP" /\ jdir' = jdir /\ pc' \notin {"ready", "rename", "settle", "publish"}
        /\ UNCHANGED <<dest, before, after, touched, fate>>
    BY <1>23 DEF DeleteNew, PhaseInv, plan, proc
  <2> QED BY <1>23, <2>1 DEF PlaceInv, Untouched, Result, Created
<1>24. ASSUME IndexInv, ValueInv, PhaseInv, PlaceInv, NEW i \in Item, DeleteOld(i) PROVE PlaceInv'
  <2>1. /\ jdir = "CLEANUP" /\ jdir' = jdir /\ pc' \notin {"ready", "rename", "settle", "publish"}
        /\ UNCHANGED <<dest, before, after, touched, fate>>
    BY <1>24 DEF DeleteOld, PhaseInv, plan, proc
  <2> QED BY <1>24, <2>1 DEF PlaceInv, Untouched, Result, Created
<1>25. ASSUME IndexInv, ValueInv, PhaseInv, PlaceInv, DeleteProbe \/ DeleteControl PROVE PlaceInv'
  <2>1. UNCHANGED <<dest, new, old, plan, touched, tampered, jdir, fate>>
    BY <1>25 DEF DeleteProbe, DeleteControl, proc, ghost
  <2>2. pc' \notin {"ready", "rename", "settle", "publish"}
    BY <1>25 DEF DeleteProbe, DeleteControl, plan, proc, ghost, env
  <2> QED BY <1>25, <2>1, <2>2, PlaceFrame
<1>26. ASSUME IndexInv, ValueInv, PhaseInv, PlaceInv, RemoveJournal PROVE PlaceInv'
  <2>1. /\ jdir # "READY" /\ jdir' # "READY" /\ pc' \notin {"ready", "rename", "settle",
           "publish"}
        /\ UNCHANGED <<dest, before, after, touched, fate>>
    BY <1>26 DEF RemoveJournal, PhaseInv, Preparing, ghost, plan
  <2> QED BY <1>26, <2>1 DEF PlaceInv, Untouched, Result, Created
<1>27. ASSUME IndexInv, ValueInv, PhaseInv, PlaceInv, Done PROVE PlaceInv'
  <2>1. /\ jdir = "none" /\ jdir' = "none" /\ pc' = "idle" /\ UNCHANGED <<dest, before,
           after, touched>>
        /\ fate' = IF fate = "open" THEN "abandoned" ELSE fate
    BY <1>27 DEF Done, PhaseInv, fs, plan
  <2> QED BY <1>27, <2>1 DEF PlaceInv, Created, Untouched, Result
<1>28. ASSUME IndexInv, ValueInv, PhaseInv, PlaceInv, Fail PROVE PlaceInv'
  <2>1. UNCHANGED <<dest, new, old, plan, touched, tampered, jdir, fate>>
    BY <1>28 DEF Fail, fs, plan, ghost
  <2>2. pc' \notin {"ready", "rename", "settle", "publish"}
    BY <1>28 DEF Fail, fs, plan
  <2> QED BY <1>28, <2>1, <2>2, PlaceFrame
<1>29. ASSUME IndexInv, ValueInv, PhaseInv, PlaceInv, Crash PROVE PlaceInv'
  <2>1. UNCHANGED <<dest, new, old, plan, touched, tampered, jdir, fate>>
    BY <1>29 DEF Crash, fs, plan, ghost
  <2>2. pc' \notin {"ready", "rename", "settle", "publish"}
    BY <1>29 DEF Crash, fs, plan
  <2> QED BY <1>29, <2>1, <2>2, PlaceFrame
<1>30. ASSUME IndexInv, ValueInv, PhaseInv, PlaceInv, NEW i \in Item, EditPath(i) PROVE PlaceInv'
  <2>1. /\ UNCHANGED <<before, after, jdir, fate, pc, k, mv, mode>>
        /\ touched' = touched \cup {i} /\ tampered' = tampered /\ new' = new /\ old' = old
        /\ \A j \in Item \ {i} : dest'[j] = dest[j]
    BY <1>30 DEF EditPath, plan, proc, ValueInv
  <2>2. pc \in {"rename", "settle"} => k \in Item
    BY <1>30 DEF IndexInv
  <2>3. \A j \in Item \ {i} : Explained(j)' <=> Explained(j)
    BY <2>1 DEF Explained, IsOld, IsBetween, IsNew, Created
  <2>4. k \in Item \ {i} => /\ Source' = Source /\ Target' = Target /\ Binding' = Binding
    BY <2>1 DEF Source, Target, Binding
  <2> QED BY <1>30, <2>1, <2>2, <2>3, <2>4 DEF PlaceInv, IsOld, Created, Untouched, Result, Final
<1>31. ASSUME IndexInv, ValueInv, PhaseInv, PlaceInv, NEW i \in Item, AddStray(i) PROVE PlaceInv'
  <2>1. /\ UNCHANGED <<before, after, jdir, fate, pc, k, mv, mode>>
        /\ touched' = touched \cup {i} /\ UNCHANGED <<tampered, dest, new, old>>
    BY <1>31 DEF AddStray, plan, proc, ValueInv
  <2>2. pc \in {"rename", "settle"} => k \in Item
    BY <1>31 DEF IndexInv
  <2>3. \A j \in Item \ {i} : Explained(j)' <=> Explained(j)
    BY <2>1 DEF Explained, IsOld, IsBetween, IsNew, Created
  <2>4. k \in Item \ {i} => /\ Source' = Source /\ Target' = Target /\ Binding' = Binding
    BY <2>1 DEF Source, Target, Binding
  <2> QED BY <1>31, <2>1, <2>2, <2>3, <2>4 DEF PlaceInv, IsOld, Created, Untouched, Result, Final
<1>32. ASSUME IndexInv, ValueInv, PhaseInv, PlaceInv, NEW i \in Item,
         WriteThroughHandle(i) PROVE PlaceInv'
  <2>1. /\ UNCHANGED <<before, after, jdir, fate, pc, k, mv, mode>>
        /\ tampered' = tampered \cup {i} /\ touched' = touched /\ dest' = dest
        /\ \A j \in Item \ {i} : new'[j] = new[j] /\ old'[j] = old[j]
    BY <1>32 DEF WriteThroughHandle, plan, proc, ValueInv
  <2>2. pc \in {"rename", "settle"} => k \in Item
    BY <1>32 DEF IndexInv
  <2>3. \A j \in Item \ {i} : Explained(j)' <=> Explained(j)
    BY <2>1 DEF Explained, IsOld, IsBetween, IsNew, Created
  <2>4. k \in Item \ {i} => /\ Source' = Source /\ Target' = Target /\ Binding' = Binding
    BY <2>1 DEF Source, Target, Binding
  <2> QED BY <1>32, <2>1, <2>2, <2>3, <2>4 DEF PlaceInv, IsOld, Created, Untouched, Result, Final
<1>33. ASSUME IndexInv, ValueInv, PhaseInv, PlaceInv, UNCHANGED vars PROVE PlaceInv'
  BY <1>33 DEF vars, fs, plan, proc, ghost, env, PlaceInv, Explained, IsOld, IsBetween,
           IsNew, Created, Untouched, Result, Final, Source, Target, Binding
<1> QED BY <1>1, <1>2, <1>3, <1>4, <1>5, <1>6, <1>7, <1>8, <1>9, <1>10, <1>11, <1>12,
     <1>13, <1>14, <1>15, <1>16, <1>17, <1>18, <1>19, <1>20, <1>21, <1>22, <1>23,
     <1>24, <1>25, <1>26, <1>27, <1>28, <1>29, <1>30, <1>31, <1>32, <1>33
  DEF Next, Work, Apply, Move, Recover, Cleanup, Editor

-----------------------------------------------------------------------------
LEMMA Invariant == Spec => [](IndexInv /\ ValueInv /\ PhaseInv /\ PlaceInv)
<1>1. Init => IndexInv /\ ValueInv /\ PhaseInv /\ PlaceInv
  BY TypeInit, PhaseInit, PlaceInit
<1>2. IndexInv /\ ValueInv /\ PhaseInv /\ PlaceInv /\ [Next]_vars
        => (IndexInv /\ ValueInv /\ PhaseInv /\ PlaceInv)'
  BY IndexNext, ValueNext, PhaseNext, PlaceNext
<1> QED BY <1>1, <1>2, PTL DEF Spec

\* While the outcome is open, an untouched path is in a place the journal explains.
THEOREM OriginalsAreSafe == Spec => []OriginalSafe
<1>1. PlaceInv => OriginalSafe
  BY DEF PlaceInv, OriginalSafe, Explained
<1> QED BY <1>1, Invariant, PTL

\* Without a journal the project is all new or all original.
THEOREM InstallIsAtomic == Spec => []AtomicAtRest
<1>1. PlaceInv => AtomicAtRest
  BY DEF PlaceInv, AtomicAtRest
<1> QED BY <1>1, Invariant, PTL

\* Once a marker is published the toolkit writes to the project no more.
THEOREM DecidedIsFinal == Spec => TerminalFreezesProject
<1> DEFINE Frozen == (fate # "open" \/ jdir = "CLEANUP") /\ edits' = edits => dest' = dest
<1>1. PhaseInv /\ IndexInv /\ [Next]_vars => [Frozen]_vars
  <2>1. ASSUME PhaseInv, IndexInv, StartApply PROVE Frozen
    BY <2>1 DEF StartApply, Check, StateMove
  <2>2. ASSUME PhaseInv, IndexInv, MakePreparing PROVE Frozen
    BY <2>2 DEF MakePreparing, Check, StateMove
  <2>3. ASSUME PhaseInv, IndexInv, PrepareControls PROVE Frozen
    BY <2>3 DEF PrepareControls, Journal, Check, StateMove
  <2>4. ASSUME PhaseInv, IndexInv, Stage PROVE Frozen
    BY <2>4 DEF Stage, Check, StateMove
  <2>5. ASSUME PhaseInv, IndexInv, VerifyPrepared PROVE Frozen
    BY <2>5 DEF VerifyPrepared, Check, StateMove, fs
  <2>6. ASSUME PhaseInv, IndexInv, PublishReady PROVE Frozen
    BY <2>6 DEF PublishReady, Check, StateMove
  <2>7. ASSUME PhaseInv, IndexInv, BeginInstall PROVE Frozen
    BY <2>7 DEF BeginInstall, Check, StateMove, fs
  <2>8. ASSUME PhaseInv, IndexInv, InstallNext PROVE Frozen
    BY <2>8 DEF InstallNext, Check, StateMove, fs
  <2>9. ASSUME PhaseInv, IndexInv, RollbackNext PROVE Frozen
    BY <2>9 DEF RollbackNext, Check, StateMove, fs
  <2>10. ASSUME PhaseInv, IndexInv, MoveCheck PROVE Frozen
    BY <2>10 DEF MoveCheck, Check, StateMove, fs
  <2>11. ASSUME PhaseInv, IndexInv, MoveRename PROVE Frozen
    BY <2>11 DEF MoveRename, PhaseInv, Moving
  <2>12. ASSUME PhaseInv, IndexInv, MoveUndo PROVE Frozen
    BY <2>12 DEF MoveUndo, PhaseInv, Moving
  <2>13. ASSUME PhaseInv, IndexInv, MoveSettle PROVE Frozen
    BY <2>13 DEF MoveSettle, Check, StateMove, fs
  <2>14. ASSUME PhaseInv, IndexInv, FinishMoves PROVE Frozen
    BY <2>14 DEF FinishMoves, Check, StateMove, fs
  <2>15. ASSUME PhaseInv, IndexInv, PublishTerminal PROVE Frozen
    BY <2>15 DEF PublishTerminal, Check, StateMove
  <2>16. ASSUME PhaseInv, IndexInv, Published PROVE Frozen
    BY <2>16 DEF Published, Check, StateMove, fs
  <2>17. ASSUME PhaseInv, IndexInv, StartRecover PROVE Frozen
    BY <2>17 DEF StartRecover, Check, StateMove, fs
  <2>18. ASSUME PhaseInv, IndexInv, Handler PROVE Frozen
    BY <2>18 DEF Handler, Check, StateMove, fs
  <2>19. ASSUME PhaseInv, IndexInv, RecoverByPhase PROVE Frozen
    BY <2>19 DEF RecoverByPhase, Check, StateMove, fs
  <2>20. ASSUME PhaseInv, IndexInv, BeginRollback PROVE Frozen
    BY <2>20 DEF BeginRollback, Check, StateMove, fs
  <2>21. ASSUME PhaseInv, IndexInv, Retire PROVE Frozen
    BY <2>21 DEF Retire, Check, StateMove
  <2>22. ASSUME PhaseInv, IndexInv, AcceptCleanup PROVE Frozen
    BY <2>22 DEF AcceptCleanup, Check, StateMove, fs
  <2>23. ASSUME PhaseInv, IndexInv, NEW i \in Item, DeleteNew(i) PROVE Frozen
    BY <2>23 DEF DeleteNew, Check, StateMove
  <2>24. ASSUME PhaseInv, IndexInv, NEW i \in Item, DeleteOld(i) PROVE Frozen
    BY <2>24 DEF DeleteOld, Check, StateMove
  <2>25. ASSUME PhaseInv, IndexInv, DeleteProbe \/ DeleteControl PROVE Frozen
    BY <2>25 DEF DeleteProbe, DeleteControl, Check, StateMove
  <2>26. ASSUME PhaseInv, IndexInv, RemoveJournal PROVE Frozen
    BY <2>26 DEF RemoveJournal, Check, StateMove
  <2>27. ASSUME PhaseInv, IndexInv, Done PROVE Frozen
    BY <2>27 DEF Done, Check, StateMove, fs
  <2>28. ASSUME PhaseInv, IndexInv, Fail PROVE Frozen
    BY <2>28 DEF Fail, Check, StateMove, fs
  <2>29. ASSUME PhaseInv, IndexInv, Crash PROVE Frozen
    BY <2>29 DEF Crash, Check, StateMove, fs
  <2>30. ASSUME PhaseInv, IndexInv, NEW i \in Item, EditPath(i) PROVE Frozen
    BY <2>30, BoundAssumption DEF EditPath, IndexInv
  <2>31. ASSUME PhaseInv, IndexInv, NEW i \in Item, AddStray(i) PROVE Frozen
    BY <2>31 DEF AddStray, Check, StateMove
  <2>32. ASSUME PhaseInv, IndexInv, NEW i \in Item, WriteThroughHandle(i) PROVE Frozen
    BY <2>32 DEF WriteThroughHandle, Check, StateMove
  <2>33. ASSUME PhaseInv, IndexInv, UNCHANGED vars PROVE Frozen
    BY <2>33 DEF vars, fs
  <2> QED BY <2>1, <2>2, <2>3, <2>4, <2>5, <2>6, <2>7, <2>8, <2>9, <2>10, <2>11, <2>12,
       <2>13, <2>14, <2>15, <2>16, <2>17, <2>18, <2>19, <2>20, <2>21, <2>22, <2>23,
       <2>24, <2>25, <2>26, <2>27, <2>28, <2>29, <2>30, <2>31, <2>32, <2>33
    DEF Next, Work, Apply, Move, Recover, Cleanup, Editor
<1> QED BY <1>1, Invariant, PTL DEF Spec, TerminalFreezesProject
-----------------------------------------------------------------------------
(* The refinement of AtomicInstall.                                         *)

\* In every reachable state the view of an untouched path is the result so far.
Settled(i) == IF i \in touched \cup tampered THEN NoObj ELSE Result(i)

LEMMA ViewSettled == PlaceInv /\ ValueInv => \A i \in Item : View(i) = Settled(i)
  BY DEF PlaceInv, ValueInv, View, Settled, Result, Untouched, Explained, IsOld, IsBetween,
         IsNew, Created

\* What the abstract state depends on.
abstract == <<before, after, fate, touched, tampered>>

\* Only planning, the markers, retirement and editors are seen from outside.
LEMMA Invisible ==
  ASSUME ValueInv, PlaceInv, ValueInv', PlaceInv', UNCHANGED abstract
  PROVE  UNCHANGED Atomic!avars
<1>1. \A i \in Item : View(i) = Settled(i) /\ View(i)' = Settled(i)'
  <2>1. \A i \in Item : View(i) = Settled(i)
    BY ViewSettled
  <2>2. (\A i \in Item : View(i) = Settled(i))'
    <3>1. (PlaceInv /\ ValueInv)' => (\A i \in Item : View(i) = Settled(i))'
      BY ViewSettled, PTL
    <3> QED BY <3>1
  <2> QED BY <2>1, <2>2
<1>2. \A i \in Item : Settled(i)' = Settled(i)
  BY DEF abstract, Settled, Result, Created
<1> QED BY <1>1, <1>2 DEF Atomic!avars, abstract

Inv == IndexInv /\ ValueInv /\ PhaseInv /\ PlaceInv

LEMMA ViewInit == Init => Atomic!AInit
  BY DEF Init, Atomic!AInit, View

LEMMA ViewStep ==
  ASSUME Inv, Inv', [Next]_vars
  PROVE  [Atomic!ANext]_(Atomic!avars)
<1> DEFINE Abs == [i \in Item |-> View(i)]
<1>a. \A i \in Item : View(i) = Settled(i)
  BY ViewSettled DEF Inv
<1>b. (\A i \in Item : View(i) = Settled(i))'
  <2>1. (PlaceInv /\ ValueInv)' => (\A i \in Item : View(i) = Settled(i))'
    BY ViewSettled, PTL
  <2> QED BY <2>1 DEF Inv
<1>c. Abs = [i \in Item |-> Settled(i)] /\ Abs' = [i \in Item |-> Settled(i)']
  BY <1>a, <1>b
<1>d. UNCHANGED abstract => UNCHANGED Atomic!avars
  BY Invisible DEF Inv
<1> HIDE DEF Abs
<1>1. ASSUME StartApply PROVE [Atomic!ANext]_(Atomic!avars)
  <2>1. /\ jdir = "none" /\ before' = dest /\ fate' = "open" /\ touched' = {} /\ tampered' = {}
        /\ after' \in [Item -> Obj \cup {NoObj}] /\ dest \in [Item -> Obj \cup {NoObj}]
    BY <1>1 DEF StartApply, Inv, ValueInv
  <2>2. \A i \in Item : Settled(i)' = dest[i]
    BY <2>1 DEF Settled, Result
  <2>3. \A i \in Item \ (touched \cup tampered) : Settled(i) = dest[i]
    BY <2>1 DEF Settled, Inv, PlaceInv, Untouched
  <2>4. Atomic!Plan
    BY <1>c, <2>1, <2>2, <2>3 DEF Atomic!Plan, Abs
  <2> QED BY <2>4 DEF Atomic!ANext
<1>2. ASSUME MakePreparing PROVE [Atomic!ANext]_(Atomic!avars)
  BY <1>2, <1>d DEF abstract, MakePreparing, plan, ghost
<1>3. ASSUME PrepareControls PROVE [Atomic!ANext]_(Atomic!avars)
  BY <1>3, <1>d DEF abstract, PrepareControls, Journal, plan, ghost
<1>4. ASSUME Stage PROVE [Atomic!ANext]_(Atomic!avars)
  BY <1>4, <1>d DEF abstract, Stage, plan, ghost
<1>5. ASSUME VerifyPrepared PROVE [Atomic!ANext]_(Atomic!avars)
  BY <1>5, <1>d DEF abstract, VerifyPrepared, plan, ghost, Check
<1>6. ASSUME PublishReady PROVE [Atomic!ANext]_(Atomic!avars)
  BY <1>6, <1>d DEF abstract, PublishReady, plan, ghost, StateMove
<1>7. ASSUME BeginInstall PROVE [Atomic!ANext]_(Atomic!avars)
  BY <1>7, <1>d DEF abstract, BeginInstall, plan, ghost
<1>8. ASSUME InstallNext PROVE [Atomic!ANext]_(Atomic!avars)
  BY <1>8, <1>d DEF abstract, InstallNext, plan, ghost
<1>9. ASSUME RollbackNext PROVE [Atomic!ANext]_(Atomic!avars)
  BY <1>9, <1>d DEF abstract, RollbackNext, plan, ghost
<1>10. ASSUME MoveCheck PROVE [Atomic!ANext]_(Atomic!avars)
  BY <1>10, <1>d DEF abstract, MoveCheck, plan, ghost, Check
<1>11. ASSUME MoveRename PROVE [Atomic!ANext]_(Atomic!avars)
  BY <1>11, <1>d DEF abstract, MoveRename, plan, ghost
<1>12. ASSUME MoveUndo PROVE [Atomic!ANext]_(Atomic!avars)
  BY <1>12, <1>d DEF abstract, MoveUndo, plan, ghost
<1>13. ASSUME MoveSettle PROVE [Atomic!ANext]_(Atomic!avars)
  BY <1>13, <1>d DEF abstract, MoveSettle, plan, ghost
<1>14. ASSUME FinishMoves PROVE [Atomic!ANext]_(Atomic!avars)
  BY <1>14, <1>d DEF abstract, FinishMoves, plan, ghost
<1>15. ASSUME PublishTerminal PROVE [Atomic!ANext]_(Atomic!avars)
  <2>1. UNCHANGED <<before, after, touched, tampered>>
    BY <1>15 DEF PublishTerminal, plan
  <2>2. CASE fate' = fate
    BY <1>d, <2>1, <2>2 DEF abstract
  <2>3. CASE fate' # fate
    <3>1. fate = "open" /\ fate' \in {"committed", "rolledback"}
      BY <1>15, <2>3 DEF PublishTerminal, Inv, PhaseInv, Moving
    <3>2. CASE fate' = "committed"
      <4>1. \A i \in Item : Settled(i)' = IF i \in touched \cup tampered \/ after[i] = NoObj
                                          THEN Settled(i) ELSE after[i]
        BY <2>1, <3>1, <3>2 DEF Settled, Result, Created
      <4>2. Atomic!Commit
        BY <1>c, <2>1, <3>1, <3>2, <4>1 DEF Atomic!Commit, Abs
      <4> QED BY <4>2 DEF Atomic!ANext
    <3>3. CASE fate' = "rolledback"
      <4>1. \A i \in Item : Settled(i)' = Settled(i)
        BY <2>1, <3>1, <3>3 DEF Settled, Result, Created
      <4>2. Atomic!Abort
        BY <1>c, <2>1, <3>1, <3>3, <4>1 DEF Atomic!Abort, Abs
      <4> QED BY <4>2 DEF Atomic!ANext
    <3> QED BY <3>1, <3>2, <3>3
  <2> QED BY <2>2, <2>3
<1>16. ASSUME Published PROVE [Atomic!ANext]_(Atomic!avars)
  BY <1>16, <1>d DEF abstract, Published, plan, ghost
<1>17. ASSUME StartRecover PROVE [Atomic!ANext]_(Atomic!avars)
  BY <1>17, <1>d DEF abstract, StartRecover, plan, ghost
<1>18. ASSUME Handler PROVE [Atomic!ANext]_(Atomic!avars)
  BY <1>18, <1>d DEF abstract, Handler, plan, ghost
<1>19. ASSUME RecoverByPhase PROVE [Atomic!ANext]_(Atomic!avars)
  BY <1>19, <1>d DEF abstract, RecoverByPhase, plan, ghost, Check
<1>20. ASSUME BeginRollback PROVE [Atomic!ANext]_(Atomic!avars)
  BY <1>20, <1>d DEF abstract, BeginRollback, plan, ghost
<1>21. ASSUME Retire PROVE [Atomic!ANext]_(Atomic!avars)
  <2>1. UNCHANGED <<before, after, touched, tampered>>
    BY <1>21 DEF Retire, StateMove, plan
  <2>2. CASE fate' = fate
    BY <1>d, <2>1, <2>2 DEF abstract
  <2>3. CASE fate' # fate
    <3>1. fate = "open" /\ fate' = "abandoned"
      BY <1>21, <2>3 DEF Retire, StateMove, Inv, PhaseInv
    <3>2. \A i \in Item : Settled(i)' = Settled(i)
      BY <2>1, <3>1 DEF Settled, Result, Created
    <3>3. Atomic!Abort
      BY <1>c, <2>1, <3>1, <3>2 DEF Atomic!Abort, Abs
    <3> QED BY <3>3 DEF Atomic!ANext
  <2> QED BY <2>2, <2>3
<1>22. ASSUME AcceptCleanup PROVE [Atomic!ANext]_(Atomic!avars)
  BY <1>22, <1>d DEF abstract, AcceptCleanup, plan, ghost, Check
<1>23. ASSUME NEW i \in Item, DeleteNew(i) PROVE [Atomic!ANext]_(Atomic!avars)
  BY <1>23, <1>d DEF abstract, DeleteNew, plan, ghost
<1>24. ASSUME NEW i \in Item, DeleteOld(i) PROVE [Atomic!ANext]_(Atomic!avars)
  BY <1>24, <1>d DEF abstract, DeleteOld, plan, ghost
<1>25. ASSUME DeleteProbe \/ DeleteControl PROVE [Atomic!ANext]_(Atomic!avars)
  BY <1>25, <1>d DEF abstract, DeleteProbe, DeleteControl, plan, ghost
<1>26. ASSUME RemoveJournal PROVE [Atomic!ANext]_(Atomic!avars)
  BY <1>26, <1>d DEF abstract, RemoveJournal, plan, ghost
<1>27. ASSUME Done PROVE [Atomic!ANext]_(Atomic!avars)
  <2>1. UNCHANGED <<before, after, touched, tampered>>
    BY <1>27 DEF Done, fs, plan
  <2>2. CASE fate' = fate
    BY <1>d, <2>1, <2>2 DEF abstract
  <2>3. CASE fate' # fate
    <3>1. fate = "open" /\ fate' = "abandoned"
      BY <1>27, <2>3 DEF Done, Inv, PhaseInv
    <3>2. \A i \in Item : Settled(i)' = Settled(i)
      BY <2>1, <3>1 DEF Settled, Result, Created
    <3>3. Atomic!Abort
      BY <1>c, <2>1, <3>1, <3>2 DEF Atomic!Abort, Abs
    <3> QED BY <3>3 DEF Atomic!ANext
  <2> QED BY <2>2, <2>3
<1>28. ASSUME Fail PROVE [Atomic!ANext]_(Atomic!avars)
  BY <1>28, <1>d DEF abstract, Fail, plan, ghost
<1>29. ASSUME Crash PROVE [Atomic!ANext]_(Atomic!avars)
  BY <1>29, <1>d DEF abstract, Crash, plan, ghost
<1>30. ASSUME NEW i \in Item, EditPath(i) PROVE [Atomic!ANext]_(Atomic!avars)
  <2>1. /\ UNCHANGED <<before, after, fate>>
        /\ touched' \cup tampered' = touched \cup tampered \cup {i}
    BY <1>30 DEF EditPath, plan
  <2>2. \A j \in Item : Settled(j)' = IF j = i THEN NoObj ELSE Settled(j)
    BY <2>1 DEF Settled, Result, Created
  <2>3. Atomic!Interfere(i)
    BY <1>c, <2>1, <2>2 DEF Atomic!Interfere, Abs
  <2> QED BY <2>3 DEF Atomic!ANext
<1>31. ASSUME NEW i \in Item, AddStray(i) PROVE [Atomic!ANext]_(Atomic!avars)
  <2>1. /\ UNCHANGED <<before, after, fate>>
        /\ touched' \cup tampered' = touched \cup tampered \cup {i}
    BY <1>31 DEF AddStray, plan
  <2>2. \A j \in Item : Settled(j)' = IF j = i THEN NoObj ELSE Settled(j)
    BY <2>1 DEF Settled, Result, Created
  <2>3. Atomic!Interfere(i)
    BY <1>c, <2>1, <2>2 DEF Atomic!Interfere, Abs
  <2> QED BY <2>3 DEF Atomic!ANext
<1>32. ASSUME NEW i \in Item, WriteThroughHandle(i) PROVE [Atomic!ANext]_(Atomic!avars)
  <2>1. /\ UNCHANGED <<before, after, fate>>
        /\ touched' \cup tampered' = touched \cup tampered \cup {i}
    BY <1>32 DEF WriteThroughHandle, plan
  <2>2. \A j \in Item : Settled(j)' = IF j = i THEN NoObj ELSE Settled(j)
    BY <2>1 DEF Settled, Result, Created
  <2>3. Atomic!Interfere(i)
    BY <1>c, <2>1, <2>2 DEF Atomic!Interfere, Abs
  <2> QED BY <2>3 DEF Atomic!ANext
<1>33. ASSUME UNCHANGED vars PROVE [Atomic!ANext]_(Atomic!avars)
  BY <1>33, <1>d DEF abstract, vars, plan, ghost
<1> QED BY <1>1, <1>2, <1>3, <1>4, <1>5, <1>6, <1>7, <1>8, <1>9, <1>10, <1>11, <1>12,
     <1>13, <1>14, <1>15, <1>16, <1>17, <1>18, <1>19, <1>20, <1>21, <1>22, <1>23,
     <1>24, <1>25, <1>26, <1>27, <1>28, <1>29, <1>30, <1>31, <1>32, <1>33
  DEF Next, Work, Apply, Move, Recover, Cleanup, Editor

\* The journalled protocol implements the all-or-nothing install.
THEOREM Refinement == Spec => ImplementsAtomicInstall
<1>1. Spec => []Inv
  BY Invariant, PTL DEF Inv
<1>2. Inv /\ Inv' /\ [Next]_vars => [Atomic!ANext]_(Atomic!avars)
  BY ViewStep
<1> QED BY <1>1, <1>2, ViewInit, PTL DEF Spec, ImplementsAtomicInstall, Atomic!ASpec

-----------------------------------------------------------------------------
(* What an invocation believes of the outcome, and what it says of it.      *)

AfterMarker == {"published", "recover", "retire", "accept", "delete", "done"}

\* An apply that is past its marker has committed; terminal_seen is never set too
\* early, and the handler has read it again before it goes on.
BeliefInv ==
  /\ pc = "idle" <=> mode = "none"
  /\ pc # "idle" => report = "running"
  /\ mode = "apply" => pc # "rollback" /\ (pc \in AfterMarker => fate = "committed")
  /\ mode = "apply" /\ jdir = "CLEANUP" => fate = "committed"
  /\ mode = "apply" /\ fate = "committed" /\ seen = "no"
       => jdir = "READY" /\ pc \in {"published", "handler"}
  /\ mode \in {"apply", "handler"} /\ seen = "yes" => fate = "committed"
  /\ mode = "handler" => pc # "handler" /\ (fate = "committed" => seen = "yes")
  /\ pc = "handler" => mode = "apply"

LEMMA BeliefInit == Init => BeliefInv
<1>1. Init => pc = "idle" /\ mode = "none" /\ fate = "open" /\ jdir = "none"
  BY Zenon DEF Init
<1> QED BY <1>1 DEF BeliefInv, AfterMarker

LEMMA BeliefNext == ValueInv /\ PhaseInv /\ BeliefInv /\ [Next]_vars => BeliefInv'
<1> USE DEF ValueInv, PhaseInv, Preparing, Moving, BeliefInv, AfterMarker, Goto, Exit, Raise,
    RaiseConflict, Check, StateMove, Terminal
<1>1. ASSUME ValueInv, PhaseInv, BeliefInv, StartApply PROVE BeliefInv'
  BY <1>1 DEF StartApply, fs, plan, proc, ghost, env
<1>2. ASSUME ValueInv, PhaseInv, BeliefInv, MakePreparing PROVE BeliefInv'
  BY <1>2 DEF MakePreparing, fs, plan, proc, ghost, env
<1>3. ASSUME ValueInv, PhaseInv, BeliefInv, PrepareControls PROVE BeliefInv'
  BY <1>3 DEF PrepareControls, Journal, fs, plan, proc, ghost, env
<1>4. ASSUME ValueInv, PhaseInv, BeliefInv, Stage PROVE BeliefInv'
  BY <1>4 DEF Stage, fs, plan, proc, ghost, env
<1>5. ASSUME ValueInv, PhaseInv, BeliefInv, VerifyPrepared PROVE BeliefInv'
  BY <1>5 DEF VerifyPrepared, fs, plan, proc, ghost, env
<1>6. ASSUME ValueInv, PhaseInv, BeliefInv, PublishReady PROVE BeliefInv'
  BY <1>6 DEF PublishReady, fs, plan, proc, ghost, env
<1>7. ASSUME ValueInv, PhaseInv, BeliefInv, BeginInstall PROVE BeliefInv'
  BY <1>7 DEF BeginInstall, fs, plan, proc, ghost, env
<1>8. ASSUME ValueInv, PhaseInv, BeliefInv, InstallNext PROVE BeliefInv'
  BY <1>8 DEF InstallNext, BeginMove, SkipTo, fs, plan, proc, ghost, env
<1>9. ASSUME ValueInv, PhaseInv, BeliefInv, RollbackNext PROVE BeliefInv'
  BY <1>9 DEF RollbackNext, BeginMove, SkipTo, fs, plan, proc, ghost, env
<1>10. ASSUME ValueInv, PhaseInv, BeliefInv, MoveCheck PROVE BeliefInv'
  BY <1>10 DEF MoveCheck, fs, plan, proc, ghost, env
<1>11. ASSUME ValueInv, PhaseInv, BeliefInv, MoveRename PROVE BeliefInv'
  BY <1>11 DEF MoveRename, fs, plan, proc, ghost, env
<1>12. ASSUME ValueInv, PhaseInv, BeliefInv, MoveUndo PROVE BeliefInv'
  BY <1>12 DEF MoveUndo, fs, plan, proc, ghost, env
<1>13. ASSUME ValueInv, PhaseInv, BeliefInv, MoveSettle PROVE BeliefInv'
  BY <1>13 DEF MoveSettle, fs, plan, proc, ghost, env
<1>14. ASSUME ValueInv, PhaseInv, BeliefInv, FinishMoves PROVE BeliefInv'
  BY <1>14 DEF FinishMoves, fs, plan, proc, ghost, env
<1>15. ASSUME ValueInv, PhaseInv, BeliefInv, PublishTerminal PROVE BeliefInv'
  BY <1>15 DEF PublishTerminal, fs, plan, proc, ghost, env
<1>16. ASSUME ValueInv, PhaseInv, BeliefInv, Published PROVE BeliefInv'
  BY <1>16 DEF Published, fs, plan, proc, ghost, env
<1>17. ASSUME ValueInv, PhaseInv, BeliefInv, StartRecover PROVE BeliefInv'
  BY <1>17 DEF StartRecover, fs, plan, proc, ghost, env
<1>18. ASSUME ValueInv, PhaseInv, BeliefInv, Handler PROVE BeliefInv'
  BY <1>18 DEF Handler, fs, plan, proc, ghost, env
<1>19. ASSUME ValueInv, PhaseInv, BeliefInv, RecoverByPhase PROVE BeliefInv'
  BY <1>19 DEF RecoverByPhase, fs, plan, proc, ghost, env
<1>20. ASSUME ValueInv, PhaseInv, BeliefInv, BeginRollback PROVE BeliefInv'
  <2>1. UNCHANGED <<jdir, fate>> /\ pc = "rollback"
    BY <1>20 DEF BeginRollback, fs
  <2>2. \/ pc' = "next" /\ UNCHANGED <<mode, seen, report>>
        \/ mode = "apply" /\ pc' = "handler" /\ UNCHANGED <<mode, seen, report>>
        \/ mode # "apply" /\ Exit("incomplete")
    BY <1>20, Zenon DEF BeginRollback
  <2>3. mode # "apply" /\ mode # "none"
    BY <1>20, <2>1
  <2>4. CASE pc' = "next" /\ UNCHANGED <<mode, seen, report>>
    BY <1>20, <2>1, <2>3, <2>4
  <2>5. CASE Exit("incomplete")
    BY <2>1, <2>5
  <2> HIDE DEF BeliefInv, ValueInv, PhaseInv, Exit
  <2> QED BY <2>2, <2>3, <2>4, <2>5
<1>21. ASSUME ValueInv, PhaseInv, BeliefInv, Retire PROVE BeliefInv'
  BY <1>21 DEF Retire, fs, plan, proc, ghost, env
<1>22. ASSUME ValueInv, PhaseInv, BeliefInv, AcceptCleanup PROVE BeliefInv'
  BY <1>22 DEF AcceptCleanup, fs, plan, proc, ghost, env
<1>23. ASSUME ValueInv, PhaseInv, BeliefInv, NEW i \in Item, DeleteNew(i) PROVE BeliefInv'
  BY <1>23 DEF DeleteNew, fs, plan, proc, ghost, env
<1>24. ASSUME ValueInv, PhaseInv, BeliefInv, NEW i \in Item, DeleteOld(i) PROVE BeliefInv'
  BY <1>24 DEF DeleteOld, fs, plan, proc, ghost, env
<1>25. ASSUME ValueInv, PhaseInv, BeliefInv, DeleteProbe \/ DeleteControl PROVE BeliefInv'
  BY <1>25 DEF DeleteProbe, DeleteControl, fs, plan, proc, ghost, env
<1>26. ASSUME ValueInv, PhaseInv, BeliefInv, RemoveJournal PROVE BeliefInv'
  BY <1>26 DEF RemoveJournal, fs, plan, proc, ghost, env
<1>27. ASSUME ValueInv, PhaseInv, BeliefInv, Done PROVE BeliefInv'
  BY <1>27 DEF Done, fs, plan, proc, ghost, env
<1>28. ASSUME ValueInv, PhaseInv, BeliefInv, Fail PROVE BeliefInv'
  BY <1>28 DEF Fail, fs, plan, proc, ghost, env
<1>29. ASSUME ValueInv, PhaseInv, BeliefInv, Crash PROVE BeliefInv'
  BY <1>29 DEF Crash, fs, plan, proc, ghost, env
<1>30. ASSUME ValueInv, PhaseInv, BeliefInv, NEW i \in Item, EditPath(i) PROVE BeliefInv'
  BY <1>30 DEF EditPath, fs, plan, proc, ghost, env
<1>31. ASSUME ValueInv, PhaseInv, BeliefInv, NEW i \in Item, AddStray(i) PROVE BeliefInv'
  BY <1>31 DEF AddStray, fs, plan, proc, ghost, env
<1>32. ASSUME ValueInv, PhaseInv, BeliefInv,
             NEW i \in Item, WriteThroughHandle(i)
      PROVE  BeliefInv'
  BY <1>32 DEF WriteThroughHandle, fs, plan, proc, ghost, env
<1>33. ASSUME ValueInv, PhaseInv, BeliefInv, UNCHANGED vars PROVE BeliefInv'
  BY <1>33 DEF vars, fs, plan, proc, ghost, env
<1> QED BY <1>1, <1>2, <1>3, <1>4, <1>5, <1>6, <1>7, <1>8, <1>9, <1>10, <1>11, <1>12, <1>13, <1>14,
    <1>15, <1>16, <1>17, <1>18, <1>19, <1>20, <1>21, <1>22, <1>23, <1>24, <1>25, <1>26, <1>27,
    <1>28, <1>29, <1>30, <1>31, <1>32, <1>33
  DEF Next, Work, Apply, Move, Recover, Cleanup, Editor

LEMMA ReportInit == Init => ReportTruthful
  BY DEF Init, ReportTruthful

LEMMA ReportNext == ValueInv /\ PhaseInv /\ PlaceInv /\ BeliefInv /\ ReportTruthful /\ [Next]_vars
  => ReportTruthful'
<1> USE DEF Goto, Exit, Raise, RaiseConflict, Check, StateMove
<1>1. ASSUME ValueInv, PhaseInv, PlaceInv, BeliefInv, ReportTruthful, StartApply
      PROVE  ReportTruthful'
  BY <1>1 DEF StartApply, BeliefInv, ReportTruthful, fs, plan, proc, ghost, env
<1>2. ASSUME ValueInv, PhaseInv, PlaceInv, BeliefInv, ReportTruthful, MakePreparing
      PROVE  ReportTruthful'
  BY <1>2 DEF MakePreparing, BeliefInv, ReportTruthful, fs, plan, proc, ghost, env
<1>3. ASSUME ValueInv, PhaseInv, PlaceInv, BeliefInv, ReportTruthful, PrepareControls
      PROVE  ReportTruthful'
  BY <1>3 DEF PrepareControls, Journal, BeliefInv, ReportTruthful, fs, plan, proc, ghost, env
<1>4. ASSUME ValueInv, PhaseInv, PlaceInv, BeliefInv, ReportTruthful, Stage PROVE ReportTruthful'
  BY <1>4 DEF Stage, BeliefInv, ReportTruthful, fs, plan, proc, ghost, env
<1>5. ASSUME ValueInv, PhaseInv, PlaceInv, BeliefInv, ReportTruthful, VerifyPrepared
      PROVE  ReportTruthful'
  BY <1>5 DEF VerifyPrepared, BeliefInv, ReportTruthful, fs, plan, proc, ghost, env
<1>6. ASSUME ValueInv, PhaseInv, PlaceInv, BeliefInv, ReportTruthful, PublishReady
      PROVE  ReportTruthful'
  BY <1>6 DEF PublishReady, BeliefInv, ReportTruthful, fs, plan, proc, ghost, env
<1>7. ASSUME ValueInv, PhaseInv, PlaceInv, BeliefInv, ReportTruthful, BeginInstall
      PROVE  ReportTruthful'
  BY <1>7 DEF BeginInstall, BeliefInv, ReportTruthful, fs, plan, proc, ghost, env
<1>8. ASSUME ValueInv, PhaseInv, PlaceInv, BeliefInv, ReportTruthful, InstallNext
      PROVE  ReportTruthful'
  BY <1>8 DEF InstallNext, BeginMove, SkipTo, BeliefInv, ReportTruthful, fs, plan, proc, ghost,
    env
<1>9. ASSUME ValueInv, PhaseInv, PlaceInv, BeliefInv, ReportTruthful, RollbackNext
      PROVE  ReportTruthful'
  BY <1>9 DEF RollbackNext, BeginMove, SkipTo, BeliefInv, ReportTruthful, fs, plan, proc, ghost,
    env
<1>10. ASSUME ValueInv, PhaseInv, PlaceInv, BeliefInv, ReportTruthful, MoveCheck
      PROVE  ReportTruthful'
  BY <1>10 DEF MoveCheck, BeliefInv, ReportTruthful, fs, plan, proc, ghost, env
<1>11. ASSUME ValueInv, PhaseInv, PlaceInv, BeliefInv, ReportTruthful, MoveRename
      PROVE  ReportTruthful'
  BY <1>11 DEF MoveRename, BeliefInv, ReportTruthful, fs, plan, proc, ghost, env
<1>12. ASSUME ValueInv, PhaseInv, PlaceInv, BeliefInv, ReportTruthful, MoveUndo
      PROVE  ReportTruthful'
  BY <1>12 DEF MoveUndo, BeliefInv, ReportTruthful, fs, plan, proc, ghost, env
<1>13. ASSUME ValueInv, PhaseInv, PlaceInv, BeliefInv, ReportTruthful, MoveSettle
      PROVE  ReportTruthful'
  BY <1>13 DEF MoveSettle, BeliefInv, ReportTruthful, fs, plan, proc, ghost, env
<1>14. ASSUME ValueInv, PhaseInv, PlaceInv, BeliefInv, ReportTruthful, FinishMoves
      PROVE  ReportTruthful'
  BY <1>14 DEF FinishMoves, BeliefInv, ReportTruthful, fs, plan, proc, ghost, env
<1>15. ASSUME ValueInv, PhaseInv, PlaceInv, BeliefInv, ReportTruthful, PublishTerminal
      PROVE  ReportTruthful'
  BY <1>15 DEF PublishTerminal, BeliefInv, ReportTruthful, fs, plan, proc, ghost, env
<1>16. ASSUME ValueInv, PhaseInv, PlaceInv, BeliefInv, ReportTruthful, Published
      PROVE  ReportTruthful'
  BY <1>16 DEF Published, BeliefInv, ReportTruthful, fs, plan, proc, ghost, env
<1>17. ASSUME ValueInv, PhaseInv, PlaceInv, BeliefInv, ReportTruthful, StartRecover
      PROVE  ReportTruthful'
  BY <1>17 DEF StartRecover, BeliefInv, ReportTruthful, fs, plan, proc, ghost, env
<1>18. ASSUME ValueInv, PhaseInv, PlaceInv, BeliefInv, ReportTruthful, Handler
      PROVE  ReportTruthful'
  BY <1>18 DEF Handler, BeliefInv, ReportTruthful, fs, plan, proc, ghost, env
<1>19. ASSUME ValueInv, PhaseInv, PlaceInv, BeliefInv, ReportTruthful, RecoverByPhase
      PROVE  ReportTruthful'
  BY <1>19 DEF RecoverByPhase, BeliefInv, ReportTruthful, fs, plan, proc, ghost, env
<1>20. ASSUME ValueInv, PhaseInv, PlaceInv, BeliefInv, ReportTruthful, BeginRollback
      PROVE  ReportTruthful'
  BY <1>20 DEF BeginRollback, BeliefInv, ReportTruthful, fs, plan, proc, ghost, env
<1>21. ASSUME ValueInv, PhaseInv, PlaceInv, BeliefInv, ReportTruthful, Retire
      PROVE  ReportTruthful'
  BY <1>21 DEF Retire, BeliefInv, ReportTruthful, fs, plan, proc, ghost, env
<1>22. ASSUME ValueInv, PhaseInv, PlaceInv, BeliefInv, ReportTruthful, AcceptCleanup
      PROVE  ReportTruthful'
  BY <1>22 DEF AcceptCleanup, BeliefInv, ReportTruthful, fs, plan, proc, ghost, env
<1>23. ASSUME ValueInv, PhaseInv, PlaceInv, BeliefInv, ReportTruthful, NEW i \in Item, DeleteNew(i)
      PROVE  ReportTruthful'
  BY <1>23 DEF DeleteNew, BeliefInv, ReportTruthful, fs, plan, proc, ghost, env
<1>24. ASSUME ValueInv, PhaseInv, PlaceInv, BeliefInv, ReportTruthful, NEW i \in Item, DeleteOld(i)
      PROVE  ReportTruthful'
  BY <1>24 DEF DeleteOld, BeliefInv, ReportTruthful, fs, plan, proc, ghost, env
<1>25. ASSUME ValueInv, PhaseInv, PlaceInv, BeliefInv, ReportTruthful, DeleteProbe \/ DeleteControl
      PROVE  ReportTruthful'
  BY <1>25 DEF DeleteProbe, DeleteControl, BeliefInv, ReportTruthful, fs, plan, proc, ghost, env
<1>26. ASSUME ValueInv, PhaseInv, PlaceInv, BeliefInv, ReportTruthful, RemoveJournal
      PROVE  ReportTruthful'
  BY <1>26 DEF RemoveJournal, BeliefInv, ReportTruthful, fs, plan, proc, ghost, env
<1>27. ASSUME ValueInv, PhaseInv, PlaceInv, BeliefInv, ReportTruthful, Done PROVE ReportTruthful'
  <2>1. UNCHANGED <<jdir, before, dest, touched>> /\ jdir = "none"
    BY <1>27 DEF Done, PhaseInv, fs, plan
  <2>2. \A i \in Untouched : dest[i] = Result(i)
    BY <1>27, <2>1 DEF PlaceInv
  <2>3. fate # "committed" => \A i \in Untouched : dest[i] = before[i]
    BY <2>2 DEF Result
  <2>4. /\ mode = "apply" => fate = "committed"
        /\ mode = "handler" => (seen = "yes" <=> fate = "committed")
        /\ mode \in {"apply", "handler", "recover"} /\ seen \in {"no", "yes"}
    BY <1>27 DEF Done, BeliefInv, AfterMarker, ValueInv
  <2>5. fate' = "committed" <=> fate = "committed"
    BY <1>27 DEF Done
  <2> QED BY <1>27, <2>1, <2>3, <2>4, <2>5 DEF Done, ReportTruthful, Untouched
<1>28. ASSUME ValueInv, PhaseInv, PlaceInv, BeliefInv, ReportTruthful, Fail PROVE ReportTruthful'
  BY <1>28 DEF Fail, BeliefInv, ReportTruthful, fs, plan, proc, ghost, env
<1>29. ASSUME ValueInv, PhaseInv, PlaceInv, BeliefInv, ReportTruthful, Crash PROVE ReportTruthful'
  BY <1>29 DEF Crash, BeliefInv, ReportTruthful, fs, plan, proc, ghost, env
<1>30. ASSUME ValueInv, PhaseInv, PlaceInv, BeliefInv, ReportTruthful, NEW i \in Item, EditPath(i)
      PROVE  ReportTruthful'
  <2>1. /\ UNCHANGED <<report, fate, jdir, before>> /\ touched \subseteq touched'
        /\ \A j \in Item \ touched' : dest'[j] = dest[j]
    BY <1>30 DEF EditPath, ValueInv, plan
  <2> QED BY <1>30, <2>1 DEF ReportTruthful, Untouched
<1>31. ASSUME ValueInv, PhaseInv, PlaceInv, BeliefInv, ReportTruthful, NEW i \in Item, AddStray(i)
      PROVE  ReportTruthful'
  <2>1. /\ UNCHANGED <<report, fate, jdir, before>> /\ touched \subseteq touched'
        /\ \A j \in Item \ touched' : dest'[j] = dest[j]
    BY <1>31 DEF AddStray, ValueInv, plan
  <2> QED BY <1>31, <2>1 DEF ReportTruthful, Untouched
<1>32. ASSUME ValueInv, PhaseInv, PlaceInv, BeliefInv, ReportTruthful,
             NEW i \in Item, WriteThroughHandle(i)
      PROVE  ReportTruthful'
  <2>1. /\ UNCHANGED <<report, fate, jdir, before>> /\ touched \subseteq touched'
        /\ \A j \in Item \ touched' : dest'[j] = dest[j]
    BY <1>32 DEF WriteThroughHandle, ValueInv, plan
  <2> QED BY <1>32, <2>1 DEF ReportTruthful, Untouched
<1>33. ASSUME ValueInv, PhaseInv, PlaceInv, BeliefInv, ReportTruthful, UNCHANGED vars
      PROVE  ReportTruthful'
  BY <1>33 DEF vars, fs, plan, ghost, ReportTruthful, Untouched
<1> QED BY <1>1, <1>2, <1>3, <1>4, <1>5, <1>6, <1>7, <1>8, <1>9, <1>10, <1>11, <1>12, <1>13, <1>14,
    <1>15, <1>16, <1>17, <1>18, <1>19, <1>20, <1>21, <1>22, <1>23, <1>24, <1>25, <1>26, <1>27,
    <1>28, <1>29, <1>30, <1>31, <1>32, <1>33
  DEF Next, Work, Apply, Move, Recover, Cleanup, Editor

\* What init says of the project is true, whatever failed and was recovered before.
THEOREM ReportIsTrue == Spec => []ReportTruthful
<1>1. Init => BeliefInv /\ ReportTruthful
  BY BeliefInit, ReportInit
<1>2. /\ ValueInv /\ PhaseInv /\ PlaceInv /\ BeliefInv /\ ReportTruthful /\ [Next]_vars
      => (BeliefInv /\ ReportTruthful)'
  BY BeliefNext, ReportNext
<1> QED BY <1>1, <1>2, Invariant, PTL DEF Spec

-----------------------------------------------------------------------------
(* What lies in the slots of the journal, and that nothing else is dropped.  *)

\* A path without a payload has no slots; a slot is filled once; when the marker is
\* published, and from then on, one side of every path is empty.
SlotInv ==
  /\ \A i \in Item : ~Created(i) => new[i] = NoObj /\ old[i] = NoObj
  /\ jdir = "none" => \A i \in Item : new[i] = NoObj /\ old[i] = NoObj
  /\ jdir = "PREPARING" \/ fate \in {"rolledback", "abandoned"} => \A i \in Item : old[i] = NoObj
  /\ fate = "committed" => \A i \in Item : new[i] = NoObj
  /\ pc \in {"header", "publishHeader", "probe", "unprobe"} => \A i \in Item : new[i] = NoObj
  /\ pc = "stage" => \A i \in Item : i >= k => new[i] = NoObj
  /\ pc = "publish" =>
       \A i \in Item : IF mode = "apply" THEN new[i] = NoObj ELSE old[i] = NoObj

LEMMA SlotInit == Init => SlotInv
<1>1. Init => /\ pc = "idle" /\ fate = "open" /\ jdir = "none"
              /\ new = [i \in Item |-> NoObj] /\ old = new /\ after = new
  BY Zenon DEF Init
<1> QED BY <1>1 DEF SlotInv, Created

LEMMA SlotFrame ==
  /\ SlotInv
  /\ UNCHANGED <<new, old, after, jdir, fate>>
  /\ pc' \notin {"header", "publishHeader", "probe", "unprobe", "stage", "publish"}
  => SlotInv'
  BY DEF SlotInv, Created

\* A move keeps both slots of a path without a payload as they are, and a rename to a
\* free place keeps every object.
Free(m, i) ==
  /\ m \in {"place", "restore"} => dest[i] = NoObj
  /\ m = "unplace" => new[i] = NoObj
  /\ m = "backup" => old[i] = NoObj

LEMMA ShiftHolds ==
  ASSUME ValueInv, NEW m \in Moves, NEW i \in Item, Shift(m, i), Free(m, i)
  PROVE  \A j \in Item : Holds(j) \subseteq Holds(j)' \cup {NoObj}
<1> USE DEF ValueInv, Shift, Free, Holds
<1>1. CASE m = "backup"
  BY <1>1
<1>2. CASE m = "restore"
  BY <1>2
<1>3. CASE m = "place"
  BY <1>3
<1>4. CASE m = "unplace"
  BY <1>4
<1> QED BY <1>1, <1>2, <1>3, <1>4 DEF Moves

LEMMA ShiftSlots ==
  ASSUME ValueInv, SlotInv, NEW m, NEW i \in Item, Created(i), Shift(m, i), jdir = "READY",
         fate = "open", UNCHANGED <<after, jdir, fate>>,
         pc' \notin {"header", "publishHeader", "probe", "unprobe", "stage", "publish"}
  PROVE  SlotInv'
<1>1. \A j \in Item \ {i} : new'[j] = new[j] /\ old'[j] = old[j]
  BY DEF Shift, ValueInv
<1> QED BY <1>1 DEF SlotInv, Created

LEMMA SlotNext == IndexInv /\ ValueInv /\ PhaseInv /\ SlotInv /\ [Next]_vars => SlotInv'
<1> USE DEF Goto, Exit, Raise, RaiseConflict, Check, StateMove
<1>1. ASSUME IndexInv, ValueInv, PhaseInv, SlotInv, StartApply PROVE SlotInv'
  BY <1>1 DEF StartApply, SlotInv, PhaseInv, Preparing, Moving, ValueInv, Created, fs, plan,
    proc, ghost, env
<1>2. ASSUME IndexInv, ValueInv, PhaseInv, SlotInv, MakePreparing PROVE SlotInv'
  BY <1>2 DEF MakePreparing, SlotInv, PhaseInv, Preparing, Moving, ValueInv, Created, fs, plan,
    proc, ghost, env
<1>3. ASSUME IndexInv, ValueInv, PhaseInv, SlotInv, PrepareControls PROVE SlotInv'
  BY <1>3 DEF PrepareControls, Journal, SlotInv, PhaseInv, Preparing, Moving, ValueInv, Created,
    fs, plan, proc, ghost, env
<1>4. ASSUME IndexInv, ValueInv, PhaseInv, SlotInv, Stage PROVE SlotInv'
  <2>1. CASE k \in Item
    <3>1. /\ UNCHANGED <<old, after, jdir, fate, pc>> /\ pc = "stage" /\ k' = k + 1
          /\ new' = [new EXCEPT ![k] = after[k]]
      BY <1>4, <2>1 DEF Stage, plan, ghost
    <3>2. \A i \in Item : new'[i] = IF i = k THEN after[k] ELSE new[i]
      BY <1>4, <3>1 DEF ValueInv
    <3>3. jdir = "PREPARING" /\ fate = "open"
      BY <1>4, <3>1 DEF PhaseInv, Preparing
    <3>4. \A i \in Item : i >= k' => i >= k /\ i # k
      BY <2>1, <3>1, LayoutAssumption
    <3> QED BY <1>4, <3>1, <3>2, <3>3, <3>4 DEF SlotInv, Created
  <2>2. CASE k \notin Item
    <3>1. UNCHANGED <<new, old, after, jdir, fate>> /\ pc' = "plan"
      BY <1>4, <2>2 DEF Stage, plan, ghost
    <3> QED BY <1>4, <3>1, SlotFrame
  <2> QED BY <2>1, <2>2
<1>5. ASSUME IndexInv, ValueInv, PhaseInv, SlotInv, VerifyPrepared PROVE SlotInv'
  <2>1. UNCHANGED <<new, old, after, jdir, fate>>
    BY <1>5 DEF VerifyPrepared, fs, plan, proc, ghost, env
  <2>2. pc' \notin {"header", "publishHeader", "probe", "unprobe", "stage", "publish"}
    BY <1>5 DEF VerifyPrepared, fs, plan, proc, ghost, env
  <2> QED BY <1>5, <2>1, <2>2, SlotFrame
<1>6. ASSUME IndexInv, ValueInv, PhaseInv, SlotInv, PublishReady PROVE SlotInv'
  BY <1>6 DEF PublishReady, SlotInv, PhaseInv, Preparing, Moving, ValueInv, Created, fs, plan,
    proc, ghost, env
<1>7. ASSUME IndexInv, ValueInv, PhaseInv, SlotInv, BeginInstall PROVE SlotInv'
  <2>1. UNCHANGED <<new, old, after, jdir, fate>>
    BY <1>7 DEF BeginInstall, fs, plan, proc, ghost, env
  <2>2. pc' \notin {"header", "publishHeader", "probe", "unprobe", "stage", "publish"}
    BY <1>7 DEF BeginInstall, fs, plan, proc, ghost, env
  <2> QED BY <1>7, <2>1, <2>2, SlotFrame
<1>8. ASSUME IndexInv, ValueInv, PhaseInv, SlotInv, InstallNext PROVE SlotInv'
  <2>1. UNCHANGED <<new, old, after, jdir, fate>>
    BY <1>8 DEF InstallNext, BeginMove, SkipTo, fs, plan, proc, ghost, env
  <2>2. pc' \notin {"header", "publishHeader", "probe", "unprobe", "stage", "publish"}
    BY <1>8 DEF InstallNext, BeginMove, SkipTo, fs, plan, proc, ghost, env
  <2> QED BY <1>8, <2>1, <2>2, SlotFrame
<1>9. ASSUME IndexInv, ValueInv, PhaseInv, SlotInv, RollbackNext PROVE SlotInv'
  <2>1. UNCHANGED <<new, old, after, jdir, fate>>
    BY <1>9 DEF RollbackNext, BeginMove, SkipTo, fs, plan, proc, ghost, env
  <2>2. pc' \notin {"header", "publishHeader", "probe", "unprobe", "stage", "publish"}
    BY <1>9 DEF RollbackNext, BeginMove, SkipTo, fs, plan, proc, ghost, env
  <2> QED BY <1>9, <2>1, <2>2, SlotFrame
<1>10. ASSUME IndexInv, ValueInv, PhaseInv, SlotInv, MoveCheck PROVE SlotInv'
  <2>1. UNCHANGED <<new, old, after, jdir, fate>>
    BY <1>10 DEF MoveCheck, fs, plan, proc, ghost, env
  <2>2. pc' \notin {"header", "publishHeader", "probe", "unprobe", "stage", "publish"}
    BY <1>10 DEF MoveCheck, fs, plan, proc, ghost, env
  <2> QED BY <1>10, <2>1, <2>2, SlotFrame
<1>11. ASSUME IndexInv, ValueInv, PhaseInv, SlotInv, MoveRename PROVE SlotInv'
  <2>1. CASE Source # NoObj /\ Target = NoObj /\ ParentHeld(k)
    <3>1. Shift(mv, k) /\ pc' = "settle" /\ pc = "rename" /\ UNCHANGED <<after, jdir, fate>>
      BY <1>11, <2>1 DEF MoveRename, plan
    <3>2. k \in Item /\ Created(k) /\ jdir = "READY" /\ fate = "open"
      BY <1>11, <3>1 DEF IndexInv, PhaseInv, Moving
    <3> QED BY <1>11, <3>1, <3>2, ShiftSlots
  <2>2. CASE ~(Source # NoObj /\ Target = NoObj /\ ParentHeld(k))
    <3>1. UNCHANGED <<new, old, after, jdir, fate>> /\ pc' \in {"handler", "idle"}
      BY <1>11, <2>2 DEF MoveRename, plan
    <3> QED BY <1>11, <3>1, SlotFrame
  <2> QED BY <2>1, <2>2
<1>12. ASSUME IndexInv, ValueInv, PhaseInv, SlotInv, MoveUndo PROVE SlotInv'
  <2>1. pc = "settle" /\ pc' \in {"handler", "idle"} /\ UNCHANGED <<after, jdir, fate>>
    BY <1>12 DEF MoveUndo, plan
  <2>2. k \in Item /\ Created(k) /\ jdir = "READY" /\ fate = "open"
    BY <1>12, <2>1 DEF IndexInv, PhaseInv, Moving
  <2>3. CASE Shift(Undoing(mv), k)
    BY <1>12, <2>1, <2>2, <2>3, ShiftSlots
  <2>4. CASE UNCHANGED <<dest, new, old>>
    BY <1>12, <2>1, <2>4, SlotFrame
  <2> QED BY <1>12, <2>3, <2>4 DEF MoveUndo
<1>13. ASSUME IndexInv, ValueInv, PhaseInv, SlotInv, MoveSettle PROVE SlotInv'
  <2>1. UNCHANGED <<new, old, after, jdir, fate>>
    BY <1>13 DEF MoveSettle, fs, plan, proc, ghost, env
  <2>2. pc' \notin {"header", "publishHeader", "probe", "unprobe", "stage", "publish"}
    BY <1>13 DEF MoveSettle, fs, plan, proc, ghost, env
  <2> QED BY <1>13, <2>1, <2>2, SlotFrame
<1>14. ASSUME IndexInv, ValueInv, PhaseInv, SlotInv, FinishMoves PROVE SlotInv'
  <2>1. UNCHANGED <<new, old, after, jdir, fate>>
    BY <1>14 DEF FinishMoves, fs, plan
  <2>2. CASE pc' # "publish"
    <3>1. pc' \in {"handler", "idle"}
      BY <1>14, <2>2 DEF FinishMoves
    <3> QED BY <1>14, <2>1, <3>1, SlotFrame
  <2>3. CASE pc' = "publish"
    <3>1. mode' = mode /\ Locations(IF mode = "apply" THEN "new" ELSE "old")
      BY <1>14, <2>3 DEF FinishMoves
    <3>2. \A i \in Item : Created(i) => IF mode = "apply" THEN IsNew(i) ELSE IsOld(i)
      BY <3>1 DEF Locations, Located
    <3> QED BY <1>14, <2>1, <2>3, <3>1, <3>2 DEF SlotInv, IsNew, IsOld, Created
  <2> QED BY <2>2, <2>3
<1>15. ASSUME IndexInv, ValueInv, PhaseInv, SlotInv, PublishTerminal PROVE SlotInv'
  BY <1>15 DEF PublishTerminal, SlotInv, PhaseInv, Preparing, Moving, ValueInv, Created, fs,
    plan, proc, ghost, env
<1>16. ASSUME IndexInv, ValueInv, PhaseInv, SlotInv, Published PROVE SlotInv'
  <2>1. UNCHANGED <<new, old, after, jdir, fate>>
    BY <1>16 DEF Published, fs, plan, proc, ghost, env
  <2>2. pc' \notin {"header", "publishHeader", "probe", "unprobe", "stage", "publish"}
    BY <1>16 DEF Published, fs, plan, proc, ghost, env
  <2> QED BY <1>16, <2>1, <2>2, SlotFrame
<1>17. ASSUME IndexInv, ValueInv, PhaseInv, SlotInv, StartRecover PROVE SlotInv'
  <2>1. UNCHANGED <<new, old, after, jdir, fate>>
    BY <1>17 DEF StartRecover, fs, plan, proc, ghost, env
  <2>2. pc' \notin {"header", "publishHeader", "probe", "unprobe", "stage", "publish"}
    BY <1>17 DEF StartRecover, fs, plan, proc, ghost, env
  <2> QED BY <1>17, <2>1, <2>2, SlotFrame
<1>18. ASSUME IndexInv, ValueInv, PhaseInv, SlotInv, Handler PROVE SlotInv'
  <2>1. UNCHANGED <<new, old, after, jdir, fate>>
    BY <1>18 DEF Handler, fs, plan, proc, ghost, env
  <2>2. pc' \notin {"header", "publishHeader", "probe", "unprobe", "stage", "publish"}
    BY <1>18 DEF Handler, fs, plan, proc, ghost, env
  <2> QED BY <1>18, <2>1, <2>2, SlotFrame
<1>19. ASSUME IndexInv, ValueInv, PhaseInv, SlotInv, RecoverByPhase PROVE SlotInv'
  <2>1. UNCHANGED <<new, old, after, jdir, fate>>
    BY <1>19 DEF RecoverByPhase, fs, plan, proc, ghost, env
  <2>2. pc' \notin {"header", "publishHeader", "probe", "unprobe", "stage", "publish"}
    BY <1>19 DEF RecoverByPhase, fs, plan, proc, ghost, env
  <2> QED BY <1>19, <2>1, <2>2, SlotFrame
<1>20. ASSUME IndexInv, ValueInv, PhaseInv, SlotInv, BeginRollback PROVE SlotInv'
  <2>1. UNCHANGED <<new, old, after, jdir, fate>>
    BY <1>20 DEF BeginRollback, fs, plan, proc, ghost, env
  <2>2. pc' \notin {"header", "publishHeader", "probe", "unprobe", "stage", "publish"}
    BY <1>20 DEF BeginRollback, fs, plan, proc, ghost, env
  <2> QED BY <1>20, <2>1, <2>2, SlotFrame
<1>21. ASSUME IndexInv, ValueInv, PhaseInv, SlotInv, Retire PROVE SlotInv'
  BY <1>21 DEF Retire, SlotInv, PhaseInv, Preparing, Moving, ValueInv, Created, fs, plan, proc,
    ghost, env
<1>22. ASSUME IndexInv, ValueInv, PhaseInv, SlotInv, AcceptCleanup PROVE SlotInv'
  <2>1. UNCHANGED <<new, old, after, jdir, fate>>
    BY <1>22 DEF AcceptCleanup, fs, plan, proc, ghost, env
  <2>2. pc' \notin {"header", "publishHeader", "probe", "unprobe", "stage", "publish"}
    BY <1>22 DEF AcceptCleanup, fs, plan, proc, ghost, env
  <2> QED BY <1>22, <2>1, <2>2, SlotFrame
<1>23. ASSUME IndexInv, ValueInv, PhaseInv, SlotInv, NEW i \in Item, DeleteNew(i) PROVE SlotInv'
  BY <1>23 DEF DeleteNew, SlotInv, ValueInv, Created, plan, proc
<1>24. ASSUME IndexInv, ValueInv, PhaseInv, SlotInv, NEW i \in Item, DeleteOld(i) PROVE SlotInv'
  BY <1>24 DEF DeleteOld, SlotInv, ValueInv, Created, plan, proc
<1>25. ASSUME IndexInv, ValueInv, PhaseInv, SlotInv, DeleteProbe \/ DeleteControl PROVE SlotInv'
  <2>1. UNCHANGED <<new, old, after, jdir, fate>>
    BY <1>25 DEF DeleteProbe, DeleteControl, fs, plan, proc, ghost, env
  <2>2. pc' \notin {"header", "publishHeader", "probe", "unprobe", "stage", "publish"}
    BY <1>25 DEF DeleteProbe, DeleteControl, fs, plan, proc, ghost, env
  <2> QED BY <1>25, <2>1, <2>2, SlotFrame
<1>26. ASSUME IndexInv, ValueInv, PhaseInv, SlotInv, RemoveJournal PROVE SlotInv'
  BY <1>26 DEF RemoveJournal, NoData, SlotInv, Created, plan, ghost
<1>27. ASSUME IndexInv, ValueInv, PhaseInv, SlotInv, Done PROVE SlotInv'
  BY <1>27 DEF Done, SlotInv, PhaseInv, Preparing, Moving, ValueInv, Created, fs, plan, proc,
    ghost, env
<1>28. ASSUME IndexInv, ValueInv, PhaseInv, SlotInv, Fail PROVE SlotInv'
  <2>1. UNCHANGED <<new, old, after, jdir, fate>>
    BY <1>28 DEF Fail, fs, plan, proc, ghost, env
  <2>2. pc' \notin {"header", "publishHeader", "probe", "unprobe", "stage", "publish"}
    BY <1>28 DEF Fail, fs, plan, proc, ghost, env
  <2> QED BY <1>28, <2>1, <2>2, SlotFrame
<1>29. ASSUME IndexInv, ValueInv, PhaseInv, SlotInv, Crash PROVE SlotInv'
  <2>1. UNCHANGED <<new, old, after, jdir, fate>>
    BY <1>29 DEF Crash, fs, plan, proc, ghost, env
  <2>2. pc' \notin {"header", "publishHeader", "probe", "unprobe", "stage", "publish"}
    BY <1>29 DEF Crash, fs, plan, proc, ghost, env
  <2> QED BY <1>29, <2>1, <2>2, SlotFrame
<1>30. ASSUME IndexInv, ValueInv, PhaseInv, SlotInv, NEW i \in Item, EditPath(i) PROVE SlotInv'
  BY <1>30 DEF EditPath, SlotInv, ValueInv, Created, plan, proc
<1>31. ASSUME IndexInv, ValueInv, PhaseInv, SlotInv, NEW i \in Item, AddStray(i) PROVE SlotInv'
  BY <1>31 DEF AddStray, SlotInv, ValueInv, Created, plan, proc
<1>32. ASSUME IndexInv, ValueInv, PhaseInv, SlotInv,
             NEW i \in Item, WriteThroughHandle(i)
      PROVE  SlotInv'
  BY <1>32 DEF WriteThroughHandle, SlotInv, ValueInv, Created, plan, proc
<1>33. ASSUME IndexInv, ValueInv, PhaseInv, SlotInv, UNCHANGED vars PROVE SlotInv'
  BY <1>33 DEF vars, SlotInv, PhaseInv, Preparing, Moving, ValueInv, Created, fs, plan, proc,
    ghost, env
<1> QED BY <1>1, <1>2, <1>3, <1>4, <1>5, <1>6, <1>7, <1>8, <1>9, <1>10, <1>11, <1>12, <1>13, <1>14,
    <1>15, <1>16, <1>17, <1>18, <1>19, <1>20, <1>21, <1>22, <1>23, <1>24, <1>25, <1>26, <1>27,
    <1>28, <1>29, <1>30, <1>31, <1>32, <1>33
  DEF Next, Work, Apply, Move, Recover, Cleanup, Editor

\* Only cleanup drops an object, and which: the property of one step.
Drops ==
  edits' = edits => \A i \in Item : \A o \in Holds(i) \ (Holds(i)' \cup {NoObj}) :
    /\ jdir = "CLEANUP"
    /\ \/ fate = "committed" /\ o = before[i]
       \/ fate # "committed" /\ o = after[i] /\ (i \in Dirs => StagedEmpty(i))

LEMMA DropsNext == IndexInv /\ ValueInv /\ PhaseInv /\ SlotInv /\ [Next]_vars => Drops
<1> USE DEF Goto, Exit, Raise, RaiseConflict, Check, StateMove
<1>1. ASSUME IndexInv, ValueInv, PhaseInv, SlotInv, StartApply PROVE Drops
  BY <1>1 DEF StartApply, Drops, Holds, fs, plan, proc, ghost, env
<1>2. ASSUME IndexInv, ValueInv, PhaseInv, SlotInv, MakePreparing PROVE Drops
  BY <1>2 DEF MakePreparing, Drops, Holds, fs, plan, proc, ghost, env
<1>3. ASSUME IndexInv, ValueInv, PhaseInv, SlotInv, PrepareControls PROVE Drops
  BY <1>3 DEF PrepareControls, Journal, Drops, Holds, fs, plan, proc, ghost, env
<1>4. ASSUME IndexInv, ValueInv, PhaseInv, SlotInv, Stage PROVE Drops
  <2>1. CASE UNCHANGED <<dest, new, old>>
    BY <2>1 DEF Drops, Holds
  <2>2. CASE k \in Item /\ new' = [new EXCEPT ![k] = after[k]] /\ UNCHANGED <<dest, old>>
    <3>1. new[k] = NoObj
      BY <1>4, <2>2, LayoutAssumption DEF Stage, SlotInv
    <3>2. \A i \in Item : new'[i] = new[i] \/ new[i] = NoObj
      BY <1>4, <2>2, <3>1 DEF ValueInv
    <3> QED BY <2>2, <3>2 DEF Drops, Holds
  <2> QED BY <1>4, <2>1, <2>2 DEF Stage
<1>5. ASSUME IndexInv, ValueInv, PhaseInv, SlotInv, VerifyPrepared PROVE Drops
  BY <1>5 DEF VerifyPrepared, Drops, Holds, fs, plan, proc, ghost, env
<1>6. ASSUME IndexInv, ValueInv, PhaseInv, SlotInv, PublishReady PROVE Drops
  BY <1>6 DEF PublishReady, Drops, Holds, fs, plan, proc, ghost, env
<1>7. ASSUME IndexInv, ValueInv, PhaseInv, SlotInv, BeginInstall PROVE Drops
  BY <1>7 DEF BeginInstall, Drops, Holds, fs, plan, proc, ghost, env
<1>8. ASSUME IndexInv, ValueInv, PhaseInv, SlotInv, InstallNext PROVE Drops
  BY <1>8 DEF InstallNext, BeginMove, SkipTo, Drops, Holds, fs, plan, proc, ghost, env
<1>9. ASSUME IndexInv, ValueInv, PhaseInv, SlotInv, RollbackNext PROVE Drops
  BY <1>9 DEF RollbackNext, BeginMove, SkipTo, Drops, Holds, fs, plan, proc, ghost, env
<1>10. ASSUME IndexInv, ValueInv, PhaseInv, SlotInv, MoveCheck PROVE Drops
  BY <1>10 DEF MoveCheck, Drops, Holds, fs, plan, proc, ghost, env
<1>11. ASSUME IndexInv, ValueInv, PhaseInv, SlotInv, MoveRename PROVE Drops
  <2>1. CASE UNCHANGED <<dest, new, old>>
    BY <2>1 DEF Drops, Holds
  <2>2. CASE Shift(mv, k) /\ Target = NoObj
    <3>1. Free(mv, k) /\ mv \in Moves
      BY <1>11, <2>2 DEF Free, Target, ValueInv
    <3>2. k \in Item
      BY <1>11 DEF MoveRename, IndexInv
    <3> QED BY <1>11, <2>2, <3>1, <3>2, ShiftHolds DEF Drops
  <2> QED BY <1>11, <2>1, <2>2 DEF MoveRename
<1>12. ASSUME IndexInv, ValueInv, PhaseInv, SlotInv, MoveUndo PROVE Drops
  <2>1. CASE UNCHANGED <<dest, new, old>>
    BY <2>1 DEF Drops, Holds
  <2>2. CASE Shift(Undoing(mv), k)
    <3>1. Undoing(mv) \in Moves /\ Free(Undoing(mv), k)
      BY <1>12 DEF MoveUndo, Captured, Undoing, Moves, Free, Source, ValueInv
    <3>2. k \in Item
      BY <1>12 DEF MoveUndo, IndexInv
    <3> QED BY <1>12, <2>2, <3>1, <3>2, ShiftHolds DEF Drops
  <2> QED BY <1>12, <2>1, <2>2 DEF MoveUndo
<1>13. ASSUME IndexInv, ValueInv, PhaseInv, SlotInv, MoveSettle PROVE Drops
  BY <1>13 DEF MoveSettle, Drops, Holds, fs, plan, proc, ghost, env
<1>14. ASSUME IndexInv, ValueInv, PhaseInv, SlotInv, FinishMoves PROVE Drops
  BY <1>14 DEF FinishMoves, Drops, Holds, fs, plan, proc, ghost, env
<1>15. ASSUME IndexInv, ValueInv, PhaseInv, SlotInv, PublishTerminal PROVE Drops
  BY <1>15 DEF PublishTerminal, Drops, Holds, fs, plan, proc, ghost, env
<1>16. ASSUME IndexInv, ValueInv, PhaseInv, SlotInv, Published PROVE Drops
  BY <1>16 DEF Published, Drops, Holds, fs, plan, proc, ghost, env
<1>17. ASSUME IndexInv, ValueInv, PhaseInv, SlotInv, StartRecover PROVE Drops
  BY <1>17 DEF StartRecover, Drops, Holds, fs, plan, proc, ghost, env
<1>18. ASSUME IndexInv, ValueInv, PhaseInv, SlotInv, Handler PROVE Drops
  BY <1>18 DEF Handler, Drops, Holds, fs, plan, proc, ghost, env
<1>19. ASSUME IndexInv, ValueInv, PhaseInv, SlotInv, RecoverByPhase PROVE Drops
  BY <1>19 DEF RecoverByPhase, Drops, Holds, fs, plan, proc, ghost, env
<1>20. ASSUME IndexInv, ValueInv, PhaseInv, SlotInv, BeginRollback PROVE Drops
  BY <1>20 DEF BeginRollback, Drops, Holds, fs, plan, proc, ghost, env
<1>21. ASSUME IndexInv, ValueInv, PhaseInv, SlotInv, Retire PROVE Drops
  BY <1>21 DEF Retire, Drops, Holds, fs, plan, proc, ghost, env
<1>22. ASSUME IndexInv, ValueInv, PhaseInv, SlotInv, AcceptCleanup PROVE Drops
  BY <1>22 DEF AcceptCleanup, Drops, Holds, fs, plan, proc, ghost, env
<1>23. ASSUME IndexInv, ValueInv, PhaseInv, SlotInv, NEW i \in Item, DeleteNew(i) PROVE Drops
  <2>1. CASE UNCHANGED <<dest, new, old>>
    BY <2>1 DEF Drops, Holds
  <2>2. CASE ~UNCHANGED <<dest, new, old>>
    <3>1. /\ new[i] # NoObj /\ jdir = "CLEANUP" /\ new' = [new EXCEPT ![i] = NoObj]
          /\ UNCHANGED <<dest, old>> /\ new[i] = after[i]
          /\ i \in Dirs => StagedEmpty(i)
      BY <1>23, <2>2 DEF DeleteNew, PhaseInv
    <3>2. fate # "committed"
      BY <1>23, <3>1 DEF SlotInv, PhaseInv, ValueInv
    <3>3. \A j \in Item : new'[j] = IF j = i THEN NoObj ELSE new[j]
      BY <1>23, <3>1 DEF ValueInv
    <3> QED BY <3>1, <3>2, <3>3 DEF Drops, Holds
  <2> QED BY <2>1, <2>2
<1>24. ASSUME IndexInv, ValueInv, PhaseInv, SlotInv, NEW i \in Item, DeleteOld(i) PROVE Drops
  <2>1. CASE UNCHANGED <<dest, new, old>>
    BY <2>1 DEF Drops, Holds
  <2>2. CASE ~UNCHANGED <<dest, new, old>>
    <3>1. /\ old[i] # NoObj /\ jdir = "CLEANUP" /\ old' = [old EXCEPT ![i] = NoObj]
          /\ UNCHANGED <<dest, new>> /\ old[i] = before[i]
      BY <1>24, <2>2 DEF DeleteOld, PhaseInv
    <3>2. fate = "committed"
      BY <1>24, <3>1 DEF SlotInv, PhaseInv, ValueInv
    <3>3. \A j \in Item : old'[j] = IF j = i THEN NoObj ELSE old[j]
      BY <1>24, <3>1 DEF ValueInv
    <3> QED BY <3>1, <3>2, <3>3 DEF Drops, Holds
  <2> QED BY <2>1, <2>2
<1>25. ASSUME IndexInv, ValueInv, PhaseInv, SlotInv, DeleteProbe \/ DeleteControl PROVE Drops
  BY <1>25 DEF DeleteProbe, DeleteControl, Drops, Holds, fs, plan, proc, ghost, env
<1>26. ASSUME IndexInv, ValueInv, PhaseInv, SlotInv, RemoveJournal PROVE Drops
  BY <1>26 DEF RemoveJournal, Drops, Holds, fs, plan, proc, ghost, env
<1>27. ASSUME IndexInv, ValueInv, PhaseInv, SlotInv, Done PROVE Drops
  BY <1>27 DEF Done, Drops, Holds, fs, plan, proc, ghost, env
<1>28. ASSUME IndexInv, ValueInv, PhaseInv, SlotInv, Fail PROVE Drops
  BY <1>28 DEF Fail, Drops, Holds, fs, plan, proc, ghost, env
<1>29. ASSUME IndexInv, ValueInv, PhaseInv, SlotInv, Crash PROVE Drops
  BY <1>29 DEF Crash, Drops, Holds, fs, plan, proc, ghost, env
<1>30. ASSUME IndexInv, ValueInv, PhaseInv, SlotInv, NEW i \in Item, EditPath(i) PROVE Drops
  BY <1>30, BoundAssumption DEF EditPath, Drops, IndexInv
<1>31. ASSUME IndexInv, ValueInv, PhaseInv, SlotInv, NEW i \in Item, AddStray(i) PROVE Drops
  BY <1>31, BoundAssumption DEF AddStray, Drops, IndexInv
<1>32. ASSUME IndexInv, ValueInv, PhaseInv, SlotInv,
             NEW i \in Item, WriteThroughHandle(i)
      PROVE  Drops
  BY <1>32, BoundAssumption DEF WriteThroughHandle, Drops, IndexInv
<1>33. ASSUME IndexInv, ValueInv, PhaseInv, SlotInv, UNCHANGED vars PROVE Drops
  BY <1>33 DEF vars, Drops, Holds, fs, plan, proc, ghost, env
<1> QED BY <1>1, <1>2, <1>3, <1>4, <1>5, <1>6, <1>7, <1>8, <1>9, <1>10, <1>11, <1>12, <1>13, <1>14,
    <1>15, <1>16, <1>17, <1>18, <1>19, <1>20, <1>21, <1>22, <1>23, <1>24, <1>25, <1>26, <1>27,
    <1>28, <1>29, <1>30, <1>31, <1>32, <1>33
  DEF Next, Work, Apply, Move, Recover, Cleanup, Editor

\* Whatever the moves capture, and whoever wrote it, stays in one of the three places.
THEOREM NothingIsLost == Spec => NoObjectLost
<1>1. IndexInv /\ ValueInv /\ PhaseInv /\ SlotInv /\ [Next]_vars => SlotInv'
  BY SlotNext
<1>2. IndexInv /\ ValueInv /\ PhaseInv /\ SlotInv /\ [Next]_vars => [Drops]_vars
  BY DropsNext
<1> QED BY <1>1, <1>2, SlotInit, Invariant, PTL DEF Spec, NoObjectLost, Drops
=============================================================================
