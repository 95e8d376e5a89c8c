----------------------------- MODULE BuildInputs -----------------------------
(***************************************************************************)
(* BuildInputs and recover_build_inputs (src/mobile_release/build_inputs.py): *)
(* project files are replaced for the time of a build and the originals    *)
(* come back afterwards.                                                   *)
(*                                                                         *)
(* Original and replacement live in one private directory on the project's *)
(* file system: stage-i, backup-i, retired-i.  Every move is written to a  *)
(* checkpoint first, made by an exclusive rename, observed and written to  *)
(* a checkpoint again.  Anything unexpected is preserved and refused.      *)
(*                                                                         *)
(* A file is its content and inode (obj) and its change time (t), which    *)
(* every rename advances: the code's binding.  The project lock admits one *)
(* process, so there is one program counter; metadata reaches the disk in  *)
(* program order.                                                          *)
(***************************************************************************)
EXTENDS Naturals

CONSTANTS
  N,               \* the number of targets of the batch
  Edits,           \* what other programs write into targets
  MaxCheckpoints,  \* _MAX_CHECKPOINTS
  MaxFaults, MaxEdits, MaxSessions   \* bounds

Own == {"none", "orig", "new"}
Targets == 1 .. N

ASSUME BatchAssumption == N \in Nat /\ MaxCheckpoints \in Nat
ASSUME EditAssumption == Edits \cap Own = {}
ASSUME BoundAssumption == MaxFaults \in Nat /\ MaxEdits \in Nat /\ MaxSessions \in Nat

VARIABLES
  file,                    \* the file at each place of each target
  dir, scratch, header, intent,  \* the pending directory and what is in it
  stray,                   \* entries no checkpoint explains
  log, seq,                \* the last checkpoint and how many there are
  terminal,                \* the terminal control beside the directory
  mode, phase, pc, k, job, \* the running process: where it is
  mem, failed, raising, errs,    \* and what it remembers
  worker,                  \* the build that reads the replaced files
  start, kept, touched,    \* observers, read by no action
  faults, edits, sessions  \* bound counters

disk   == <<dir, scratch, header, intent, stray, log, seq, terminal>>
proc   == <<mode, phase, pc, k, job, mem, failed, raising, errs>>
ghost  == <<start, kept, touched>>
counts == <<faults, edits, sessions>>
vars   == <<file, disk, proc, worker, ghost, counts>>

Objects == Own \cup Edits
Places  == {"target", "stage", "backup", "retired"}
Moves   == {"hide", "install", "retire", "restore"}

Nothing == [obj |-> "none", t |-> 0]
Fresh(o) == [obj |-> o, t |-> 0]
SameObject(f, g) == f.obj = g.obj

Source(m) == IF m = "install" THEN "stage" ELSE IF m = "restore" THEN "backup" ELSE "target"
Dest(m)   == IF m = "hide" THEN "backup" ELSE IF m = "retire" THEN "retired" ELSE "target"
Field(m)  == IF m \in {"hide", "restore"} THEN "original" ELSE "new"

Row == [original |-> Nothing, new |-> Nothing, move |-> "none",
        restored |-> "no", conflict |-> "no"]
Blank == [prepared |-> "no", quiescence |-> "none", rows |-> [i \in Targets |-> Row]]

Init ==
  /\ start \in [Targets -> {"none", "orig"}]
  /\ file = [i \in Targets |-> [p \in Places |-> IF p = "target" THEN Fresh(start[i]) ELSE Nothing]]
  /\ dir = "no" /\ scratch = "no" /\ header = "no" /\ intent = "no" /\ stray = {}
  /\ log = Blank /\ seq = 0 /\ terminal = "none"
  /\ mode = "none" /\ phase = "none" /\ pc = "idle" /\ k = 0 /\ job = "none"
  /\ mem = Blank /\ failed = "no" /\ raising = "no" /\ errs = "no"
  /\ worker = "idle"
  /\ kept = [i \in Targets |-> {start[i]} \ {"none"}] /\ touched = {}
  /\ faults = 0 /\ edits = 0 /\ sessions = 0

-----------------------------------------------------------------------------
(* How an invocation ends and how an error travels.                        *)

\* The invocation is over and its memory with it.
End ==
  /\ mode' = "none" /\ phase' = "none" /\ pc' = "idle" /\ k' = 0 /\ job' = "none"
  /\ mem' = Blank /\ failed' = "no" /\ raising' = "no" /\ errs' = "no"

\* An error: materialization is cleaned up, a row of the restoration is marked and
\* the next one tried (_attempt_all), anything else ends the invocation.
Refuse(m) ==
  IF phase = "build"
  THEN /\ pc' = "finish" /\ phase' = "finish" /\ mem' = m /\ raising' = "no"
       /\ UNCHANGED <<mode, k, job, errs>>
  ELSE IF phase = "restore"
  THEN /\ pc' = "done" /\ mem' = [m EXCEPT !.rows[k].conflict = "yes"] /\ errs' = "yes"
       /\ raising' = "no" /\ UNCHANGED <<mode, phase, k, job>>
  ELSE End

\* An error that is not the checkpoints': failed keeps its value.
Unsaved(m) == Refuse(m) /\ (phase \in {"build", "restore"} => UNCHANGED failed)
Goto(l) == pc' = l /\ UNCHANGED <<mode, phase, k, job, mem, failed, raising, errs>>
Raise   == Unsaved(mem)

Outside == UNCHANGED <<worker, ghost, edits, sessions>>

\* _checkpoint: staged, renamed, observed.  A fault leaves nothing, a staged
\* control that nobody will accept, or the published checkpoint; the process
\* never writes another one.
Save(m, l) ==
  \/ /\ failed = "no" /\ seq < MaxCheckpoints
     /\ log' = m /\ seq' = seq + 1 /\ mem' = m /\ pc' = l
     /\ UNCHANGED <<mode, phase, k, job, failed, raising, errs, stray, faults>>
  \/ /\ failed = "yes" \/ seq >= MaxCheckpoints
     /\ Unsaved(m) /\ UNCHANGED <<log, seq, stray, faults>>
  \/ /\ failed = "no" /\ seq < MaxCheckpoints /\ faults < MaxFaults /\ faults' = faults + 1
     /\ Refuse(m) /\ (phase \in {"build", "restore"} => failed' = "yes")
     /\ \/ UNCHANGED <<log, seq, stray>>
        \/ stray' = stray \cup {"control"} /\ UNCHANGED <<log, seq>>
        \/ log' = m /\ seq' = seq + 1 /\ UNCHANGED stray

Kept(x) == UNCHANGED <<file, dir, scratch, header, intent, terminal>> /\ Outside /\ x

-----------------------------------------------------------------------------
(* acquire and replace_all.                                                *)

\* _Project refuses pending or terminal state; one materialization.
StartBuild ==
  /\ pc = "idle" /\ dir = "no" /\ terminal = "none"
  /\ sessions < MaxSessions /\ sessions' = sessions + 1
  /\ mode' = "build" /\ phase' = "build" /\ pc' = "mkdir"
  /\ UNCHANGED <<file, disk, k, job, mem, failed, raising, errs, worker, ghost, faults, edits>>

Mkdir ==
  /\ pc = "mkdir" /\ dir' = "yes" /\ Goto("scratch")
  /\ UNCHANGED <<file, scratch, header, intent, stray, log, seq, terminal, faults>> /\ Outside

MakeScratch ==
  /\ pc = "scratch" /\ scratch' = "yes" /\ Goto("header")
  /\ UNCHANGED <<file, dir, header, intent, stray, log, seq, terminal, faults>> /\ Outside

PublishHeader ==
  /\ pc = "header" /\ header' = "yes" /\ Goto("first")
  /\ UNCHANGED <<file, dir, scratch, intent, stray, log, seq, terminal, faults>> /\ Outside

FirstCheckpoint == pc = "first" /\ Kept(Save(mem, "plan"))

\* Every original is observed before anything is staged or moved.
Plan ==
  /\ pc = "plan" /\ pc' = "probe"
  /\ mem' = [mem EXCEPT !.prepared = "planned",
           !.rows = [i \in Targets |-> [Row EXCEPT !.original = file[i]["target"]]]]
  /\ UNCHANGED <<file, disk, mode, phase, k, job, failed, raising, errs, faults>> /\ Outside

\* The file system's exclusive rename is tried on two private files.
ProbeStart ==
  /\ pc = "probe" /\ stray' = stray \cup {"probe"} /\ Goto("probed")
  /\ UNCHANGED <<file, dir, scratch, header, intent, log, seq, terminal, faults>> /\ Outside
ProbeEnd ==
  /\ pc = "probed" /\ stray' = stray \ {"probe"} /\ pc' = "stage" /\ k' = 1
  /\ UNCHANGED <<mode, phase, job, mem, failed, raising, errs>>
  /\ UNCHANGED <<file, dir, scratch, header, intent, log, seq, terminal, faults>> /\ Outside

Stage ==
  /\ pc = "stage" /\ k <= N /\ file[k]["stage"] = Nothing
  /\ file' = [file EXCEPT ![k]["stage"] = Fresh("new")]
  /\ mem' = [mem EXCEPT !.rows[k].new = Fresh("new")] /\ k' = k + 1
  /\ UNCHANGED <<disk, mode, phase, pc, job, failed, raising, errs, faults>> /\ Outside

PublishIntent ==
  /\ pc = "stage" /\ k > N /\ intent' = "yes" /\ Goto("prepare")
  /\ UNCHANGED <<file, dir, scratch, header, stray, log, seq, terminal, faults>> /\ Outside

Prepare == pc = "prepare" /\ Kept(Save([mem EXCEPT !.prepared = "yes"], "verify"))

\* No target changed after it was planned; then target by target.
Verify ==
  /\ pc = "verify"
  /\ IF \A i \in Targets : file[i]["target"] = mem.rows[i].original
     THEN /\ pc' = "forward" /\ k' = 1 /\ job' = "hide"
          /\ UNCHANGED <<mode, phase, mem, failed, raising, errs>>
     ELSE Raise
  /\ UNCHANGED <<file, disk, faults>> /\ Outside

Forward ==
  /\ pc = "forward"
  /\ IF k > N THEN Goto("run")
     ELSE IF job = "hide" /\ mem.rows[k].original = Nothing
     THEN pc' = "begin" /\ job' = "install" /\ UNCHANGED <<mode, phase, k, mem, failed,
              raising, errs>>
     ELSE Goto("begin")
  /\ UNCHANGED <<file, disk, faults>> /\ Outside

-----------------------------------------------------------------------------
(* _move and _settle_move.                                                 *)

\* The source must be the recorded file and the destination free; write before move.
MoveBegin ==
  /\ pc = "begin"
  /\ IF /\ file[k][Source(job)] = mem.rows[k][Field(job)]
        /\ file[k][Source(job)] # Nothing /\ file[k][Dest(job)] = Nothing
     THEN Kept(Save([mem EXCEPT !.rows[k].move = job], "rename"))
     ELSE Raise /\ UNCHANGED <<file, disk, faults>> /\ Outside

Shift(i, m) ==
  file' = [file EXCEPT ![i][Source(m)] = Nothing,
                       ![i][Dest(m)] = [file[i][Source(m)] EXCEPT !.t = @ + 1]]

\* Mutant: a rename that replaces its destination.
Renamable_Always(i, m) == file[i][Source(m)] # Nothing

\* The rename is exclusive and needs something to move.
Renamable(i, m) == file[i][Source(m)] # Nothing /\ file[i][Dest(m)] = Nothing

\* It may fail, or take effect and raise; settlement follows in any case.
MoveRename ==
  /\ pc = "rename" /\ pc' = "settle"
  /\ IF Renamable(k, job)
     THEN \/ Shift(k, job) /\ UNCHANGED <<raising, faults>>
          \/ /\ faults < MaxFaults /\ faults' = faults + 1 /\ raising' = "yes"
             /\ Shift(k, job) \/ UNCHANGED file
     ELSE raising' = "yes" /\ UNCHANGED <<file, faults>>
  /\ UNCHANGED <<disk, mode, phase, k, job, mem, failed, errs>> /\ Outside

\* What became of the move in row r: no effect, done, or a conflict.
NoEffect(i, r) == file[i][Source(r.move)] = r[Field(r.move)] /\ file[i][Dest(r.move)] = Nothing
Effect(i, r) ==
  /\ file[i][Source(r.move)] = Nothing /\ file[i][Dest(r.move)] # Nothing
  /\ SameObject(file[i][Dest(r.move)], r[Field(r.move)])
Settleable(i, r) == r.move = "none" \/ NoEffect(i, r) \/ Effect(i, r)

\* Mutant: a move that was written is taken for done.
Settled_Assumed(i, r) ==
  IF r.move = "none" THEN r
  ELSE [r EXCEPT ![Field(r.move)] = file[i][Dest(r.move)], !.move = "none"]

Settled(i, r) ==
  IF r.move = "none" THEN r
  ELSE IF NoEffect(i, r) THEN [r EXCEPT !.move = "none"]
  ELSE [r EXCEPT ![Field(r.move)] = file[i][Dest(r.move)], !.move = "none"]

Conflict(m, i) == [m EXCEPT !.rows[i].conflict = "yes"]

MoveSettle ==
  /\ pc = "settle"
  /\ IF Settleable(k, mem.rows[k])
     THEN Kept(Save([mem EXCEPT !.rows[k] = Settled(k, mem.rows[k])], "moved"))
     ELSE Unsaved(Conflict(mem, k)) /\ UNCHANGED <<file, disk, faults>> /\ Outside

\* An error of the rename is raised after settlement.
Moved ==
  /\ pc = "moved"
  /\ IF raising = "yes" THEN Raise
     ELSE IF phase = "restore" THEN Goto("restore")
     ELSE /\ pc' = IF job = "hide" THEN "begin" ELSE "forward"
          /\ job' = IF job = "hide" THEN "install" ELSE "hide"
          /\ k' = IF job = "hide" THEN k ELSE k + 1
          /\ UNCHANGED <<mode, phase, mem, failed, raising, errs>>
  /\ UNCHANGED <<file, disk, faults>> /\ Outside

-----------------------------------------------------------------------------
(* The build reads the replaced files.                                     *)

StartWorker ==
  /\ pc = "run" /\ worker = "idle" /\ worker' = "running"
  /\ UNCHANGED <<file, disk, proc, ghost, counts>>

\* A worker may outlive the process that started it.
WorkerEnds ==
  worker = "running" /\ worker' = "idle" /\ UNCHANGED <<file, disk, proc, ghost, counts>>

LeaveBody ==
  /\ pc = "run" /\ worker = "idle" /\ pc' = "finish" /\ phase' = "finish"
  /\ UNCHANGED <<file, disk, mode, k, job, mem, failed, raising, errs, worker, ghost, counts>>

-----------------------------------------------------------------------------
(* _finish.                                                                *)

\* Mutant: the consumers are not asked for.
Finish_NotIdle ==
  /\ pc = "finish"
  /\ IF dir = "yes" /\ header = "yes" /\ failed = "no"
     THEN Kept(Save([mem EXCEPT !.quiescence = "original"], "enter"))
     ELSE End /\ UNCHANGED <<file, disk, faults>> /\ Outside

\* Nothing is touched unless the lifetime ledger says that the consumers are gone.
Finish ==
  /\ pc = "finish"
  /\ IF dir = "yes" /\ header = "yes" /\ failed = "no" /\ worker = "idle"
     THEN Kept(Save([mem EXCEPT !.quiescence = "original"], "enter"))
     ELSE End /\ UNCHANGED <<file, disk, faults>> /\ Outside

Cleared(m) == [m EXCEPT !.rows = [i \in Targets |-> [m.rows[i] EXCEPT !.conflict = "no"]]]

\* The rows in reverse order; a recovery tries the rows in conflict again.
Enter ==
  /\ pc = "enter" /\ phase' = "restore" /\ pc' = "done"
  /\ mem' = IF mode = "recover" THEN Cleared(mem) ELSE mem
  /\ k' = IF mem.prepared = "no" THEN 1 ELSE N + 1
  /\ UNCHANGED <<file, disk, mode, job, failed, raising, errs, faults>> /\ Outside

NextRow ==
  /\ pc = "done"
  /\ IF k = 1 THEN pc' = "dispose" /\ phase' = "finish" /\ k' = 0
     ELSE pc' = "restore" /\ k' = k - 1 /\ UNCHANGED phase
  /\ UNCHANGED <<file, disk, mode, job, mem, failed, raising, errs, faults>> /\ Outside

\* What _restore does next with the settled row r: the move to make, "unstage"
\* when the original is in place, or "none" when someone else's file is in the way.
Step(i, r) ==
  LET cur == file[i]["target"] IN
  IF cur = r.original THEN (IF file[i]["backup"] = Nothing THEN "unstage" ELSE "none")
  ELSE IF cur # Nothing THEN (IF cur = r.new THEN "retire" ELSE "none")
  ELSE IF file[i]["backup"] = r.original THEN "restore" ELSE "none"

Restore ==
  /\ pc = "restore"
  /\ LET r == Settled(k, mem.rows[k]) IN
     IF mem.rows[k].conflict = "yes" \/ ~Settleable(k, mem.rows[k]) THEN Raise
     ELSE IF Step(k, r) = "none" THEN Unsaved([mem EXCEPT !.rows[k] = r])
     ELSE /\ mem' = [mem EXCEPT !.rows[k] = r]
          /\ IF Step(k, r) = "unstage" THEN pc' = "unstage" /\ UNCHANGED job
             ELSE pc' = "begin" /\ job' = Step(k, r)
          /\ UNCHANGED <<mode, phase, k, failed, raising, errs>>
  /\ UNCHANGED <<file, disk, faults>> /\ Outside

\* The replacement is deleted, in the one place where it is.
Unstage ==
  /\ pc = "unstage"
  /\ IF \A p \in {"stage", "retired"} : file[k][p] \in {Nothing, mem.rows[k].new}
     THEN /\ file' = [file EXCEPT ![k]["stage"] = Nothing, ![k]["retired"] = Nothing]
          /\ Goto("mark")
     ELSE Raise /\ UNCHANGED file
  /\ UNCHANGED <<disk, faults>> /\ Outside

Mark == pc = "mark" /\ Kept(Save([mem EXCEPT !.rows[k].restored = "yes"], "done"))

\* The scratch directory goes last; that can fail like a row.
Dispose ==
  /\ pc = "dispose" /\ pc' = "settled"
  /\ \/ scratch' = "no" /\ UNCHANGED <<errs, faults>>
     \/ faults < MaxFaults /\ faults' = faults + 1 /\ errs' = "yes" /\ UNCHANGED scratch
  /\ UNCHANGED <<file, dir, header, intent, stray, log, seq, terminal>>
  /\ UNCHANGED <<mode, phase, k, job, mem, failed, raising>> /\ Outside

Stop == pc = "stop" /\ End /\ UNCHANGED <<file, disk, faults>> /\ Outside

\* After an error the settlement is written down, if checkpoints still can be.
FinishFailed ==
  /\ pc = "settled" /\ errs = "yes"
  /\ IF failed = "no" THEN Kept(Save(mem, "stop"))
     ELSE End /\ UNCHANGED <<file, disk, faults>> /\ Outside

Emptied == \A i \in Targets, p \in Places \ {"target"} : file[i][p] = Nothing

\* Mutant: errors of single rows are forgotten.
FinishDone_Unchecked ==
  /\ pc = "settled"
  /\ terminal' = "staged" /\ Goto("publish")
  /\ UNCHANGED <<file, dir, scratch, header, intent, stray, log, seq, faults>> /\ Outside

\* Every row is restored and nothing unknown is left: the terminal control.
FinishDone ==
  /\ pc = "settled" /\ errs = "no"
  /\ IF /\ mem.prepared # "no" => \A i \in Targets : mem.rows[i].restored = "yes"
        /\ stray = {} /\ Emptied
     THEN terminal' = "staged" /\ Goto("publish")
     ELSE End /\ UNCHANGED terminal
  /\ UNCHANGED <<file, dir, scratch, header, intent, stray, log, seq, faults>> /\ Outside

Publish ==
  /\ pc = "publish" /\ terminal' = "published" /\ Goto("retire")
  /\ UNCHANGED <<file, dir, scratch, header, intent, stray, log, seq, faults>> /\ Outside

\* _retire_terminal: metadata only, the terminal control last.
RetirePending ==
  /\ pc = "retire" /\ Goto("unlink")
  /\ dir' = "no" /\ header' = "no" /\ intent' = "no" /\ log' = Blank /\ seq' = 0
  /\ UNCHANGED <<file, scratch, stray, terminal, faults>> /\ Outside
RetireTerminal ==
  /\ pc = "unlink" /\ terminal' = "none" /\ End
  /\ UNCHANGED <<file, dir, scratch, header, intent, stray, log, seq, faults>> /\ Outside

-----------------------------------------------------------------------------
(* recover_build_inputs.                                                   *)

\* What _load_pending accepts.
Loadable ==
  /\ header = "yes" /\ seq > 0 /\ stray = {}
  /\ \/ log.prepared = "no" /\ intent = "no" /\ Emptied
     \/ log.prepared = "yes" /\ intent = "yes"
  /\ scratch = "yes" \/ log.quiescence # "none"

Recover ==
  /\ pc = "idle" /\ mode' = "recover" /\ phase' = "finish"
  /\ \/ terminal = "published" /\ pc' = "retire" /\ UNCHANGED mem
     \/ /\ terminal = "none" /\ dir = "yes" /\ Loadable /\ mem' = log
        /\ pc' = IF log.quiescence = "none" THEN "confirm" ELSE "enter"
  /\ UNCHANGED <<file, disk, k, job, failed, raising, errs, faults>> /\ Outside

\* The operator confirms when the workers are in fact gone.
Confirm ==
  /\ pc = "confirm" /\ worker = "idle"
  /\ Kept(Save([mem EXCEPT !.quiescence = "operator"], "enter"))

-----------------------------------------------------------------------------
(* Faults and other programs.                                              *)

\* An operation raises.  Nothing, a control or an unrecorded stage file stays behind.
Fail ==
  /\ phase \in {"build", "restore"} /\ pc # "done"
  /\ faults < MaxFaults /\ faults' = faults + 1 /\ Raise
  /\ \/ UNCHANGED <<file, stray>>
     \/ pc \in {"header", "stage"} /\ stray' = stray \cup {"control"} /\ UNCHANGED file
     \/ /\ pc = "stage" /\ k <= N /\ file[k]["stage"] = Nothing
        /\ file' = [file EXCEPT ![k]["stage"] = Fresh("new")]
        /\ UNCHANGED stray
  /\ UNCHANGED <<dir, scratch, header, intent, log, seq, terminal>> /\ Outside

\* The process dies, perhaps between the two halves of a publication.
Writing == {"header", "first", "stage", "prepare", "begin", "settle", "finish", "mark", "confirm"}
Crash ==
  /\ pc # "idle" /\ faults < MaxFaults /\ faults' = faults + 1 /\ End
  /\ \/ UNCHANGED stray
     \/ pc \in Writing /\ stray' = stray \cup {"control"}
  /\ UNCHANGED <<file, dir, scratch, header, intent, log, seq, terminal>> /\ Outside

\* Another program replaces or rewrites a target, or writes through a handle it
\* held on the original before that was moved; or it removes a target.
Edit ==
  \E i \in Targets, p \in {"target", "backup"}, x \in Edits \cup {"none"} :
    /\ edits < MaxEdits /\ edits' = edits + 1 /\ touched' = touched \cup {i}
    /\ file[i][p].obj # x /\ (p = "backup" => x # "none" /\ file[i][p] # Nothing)
    /\ file' = [file EXCEPT ![i][p] = Fresh(x)]
    /\ kept' = [kept EXCEPT ![i] = (@ \ {file[i][p].obj}) \cup ({x} \ {"none"})]
    /\ UNCHANGED <<disk, proc, worker, start, faults, sessions>>

Moving == MoveBegin \/ MoveRename \/ MoveSettle \/ Moved
Building ==
  \/ Mkdir \/ MakeScratch \/ PublishHeader \/ FirstCheckpoint \/ Plan \/ ProbeStart \/ ProbeEnd
  \/ Stage \/ PublishIntent \/ Prepare \/ Verify \/ Forward \/ LeaveBody
Finishing ==
  \/ Finish \/ Enter \/ NextRow \/ Restore \/ Unstage \/ Mark \/ Dispose \/ Stop
  \/ FinishFailed \/ FinishDone \/ Publish \/ RetirePending \/ RetireTerminal
Work == Moving \/ Building \/ Finishing \/ Confirm

Catchable == Work \/ StartBuild \/ StartWorker \/ WorkerEnds \/ Recover \/ Fail \/ Edit
Next == Catchable \/ Crash

Spec == Init /\ [][Next]_vars

\* The process runs, the workers end, the operator repeats the recovery.
Fairness == WF_vars(Work) /\ WF_vars(WorkerEnds) /\ WF_vars(Recover)
FairSpec == Spec /\ Fairness

\* The same without process deaths: every fault is an error the program catches.
CatchableSpec == Init /\ [][Catchable]_vars /\ Fairness

-----------------------------------------------------------------------------
(* Properties.                                                             *)

File == [obj : Objects, t : Nat]
Rows == [original : File, new : File, move : Moves \cup {"none"},
         restored : {"no", "yes"}, conflict : {"no", "yes"}]
Memory == [prepared : {"no", "planned", "yes"}, quiescence : {"none", "original", "operator"},
           rows : [Targets -> Rows]]
Labels == {"idle", "mkdir", "scratch", "header", "first", "plan", "probe", "probed", "stage",
  "prepare", "verify", "forward", "begin", "rename", "settle", "moved", "run", "finish", "enter",
  "done", "restore", "unstage", "mark", "dispose", "settled", "stop", "publish", "retire",
  "unlink", "confirm"}
AtRow == {"begin", "rename", "settle", "moved", "restore", "unstage", "mark"}

FileType == file \in [Targets -> [Places -> File]]
DiskType ==
  /\ dir \in {"no", "yes"} /\ scratch \in {"no", "yes"} /\ header \in {"no", "yes"}
  /\ intent \in {"no", "yes"} /\ stray \subseteq {"control", "probe"}
  /\ log \in Memory /\ seq \in Nat /\ terminal \in {"none", "staged", "published"}
ProcType ==
  /\ mode \in {"none", "build", "recover"} /\ phase \in {"none", "build", "finish", "restore"}
  /\ pc \in Labels /\ k \in 0 .. N + 1 /\ job \in Moves \cup {"none"} /\ mem \in Memory
  /\ failed \in {"no", "yes"} /\ raising \in {"no", "yes"} /\ errs \in {"no", "yes"}
  /\ (pc \in AtRow => k \in Targets) /\ (pc \in {"stage", "forward", "done"} => k > 0)
  /\ phase = "restore" => pc \in AtRow \cup {"done"}
RestType ==
  /\ worker \in {"idle", "running"} /\ start \in [Targets -> {"none", "orig"}]
  /\ kept \in [Targets -> SUBSET Objects] /\ touched \subseteq Targets
  /\ faults \in 0 .. MaxFaults /\ edits \in 0 .. MaxEdits /\ sessions \in 0 .. MaxSessions

\* Types of the state; a row is worked on only if the batch has it.
TypeOK == FileType /\ DiskType /\ ProcType /\ RestType

\* No file that is not the toolkit's is ever lost: whatever dies, fails or is edited
\* in whatever order, it is still in one of the four places (docs/build-inputs-recovery.md,
\* "Recovery never overwrites a foreign current service file").
NothingLost ==
  \A i \in Targets : \A x \in kept[i] : \E p \in Places : file[i][p].obj = x

\* Once the terminal control exists, or nothing is pending, every target that
\* nobody else edited is what it was before the build and no copy is left.
RestoredAtRest ==
  dir = "no" \/ terminal # "none" =>
    \A i \in Targets \ touched :
      /\ file[i]["target"].obj = start[i]
      /\ \A p \in Places \ {"target"} : file[i][p] = Nothing

\* A worker never reads a half-restored project: while it runs, even when its
\* parent died and somebody recovers, the replacements are in place.
WorkerSeesInputs ==
  worker = "running" => \A i \in Targets \ touched : file[i]["target"].obj = "new"

\* A transaction that recovery accepts is retired in the end, unless a fault leaves a
\* half-published control that is preserved by rule, or somebody edited a target, whose
\* change is kept for the operator's decision.
RecoveryEnds ==
  (pc = "idle" /\ dir = "yes" /\ Loadable)
    ~> ((pc = "idle" /\ dir = "no" /\ terminal = "none") \/ terminal = "staged" \/ stray # {}
        \/ touched # {})
=============================================================================
