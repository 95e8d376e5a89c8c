---------------------------- MODULE InitTransaction ----------------------------
(***************************************************************************)
(* The recoverable project transaction behind `mobile-release init`        *)
(* (init_transaction.py).  A set of project files is installed all or      *)
(* nothing by exclusive renames between the project and a private journal  *)
(* directory, whose own name (PREPARING, READY, CLEANUP) is the phase.     *)
(*                                                                         *)
(* An object is what the code calls a binding: inode, mode, size and       *)
(* digest.  Two places hold the same object exactly when their bindings    *)
(* compare equal.  Objects are compared only within one planned path.      *)
(*                                                                         *)
(* Simplifications.  The advisory lock (InitWorkspace.__enter__) admits    *)
(* one process, so there is one program counter and pc = "idle" when the   *)
(* lock is free.  Metadata operations reach the disk in order, which makes *)
(* a power loss the same as a process death at an earlier step.  Mounts,   *)
(* aliases, byte bounds and forged journals are left out.  An editor is    *)
(* not synchronised with any of this: its steps interleave everywhere.     *)
(***************************************************************************)
EXTENDS Naturals, Sequences

CONSTANTS
  N,          \* number of planned paths: directories by depth, then files
  Dirs,       \* the planned paths that are directories (all file ancestors)
  Parent,     \* the planned directory that holds a path, 0 for the root
  Obj,        \* objects that can be found at a path
  NoObj,      \* nothing is there
  MaxFaults,  \* bound: process deaths, errors and interrupts
  MaxEdits,   \* bound: steps of unrelated editors
  MaxApplies  \* bound: init --apply invocations

Item == 1 .. N
Files == Item \ Dirs

ASSUME LayoutAssumption ==
  /\ N \in Nat /\ Dirs \subseteq Item /\ Files # {}
  /\ Parent \in [Item -> {0} \cup Dirs]
  /\ \A i \in Item : Parent[i] < i
ASSUME ObjAssumption == NoObj \notin Obj
ASSUME BoundAssumption ==
  MaxFaults \in Nat /\ MaxEdits \in Nat /\ MaxApplies \in Nat

VARIABLES
  dest, new, old,  \* the object at a path, in its new-i / directory-i slot, in old-i
  stray,           \* created directories that hold an unplanned entry
  jdir,            \* which journal directory exists
  ctl,             \* its control entries (and "probe", the probe directories)
  before, after,   \* the plan: observed objects and staged replacements
  mode,            \* who runs: apply, its failure handler, init --recover
  pc, k, mv,       \* where it is, at which path, in which move
  known,           \* created directories it believes installed (self.parents)
  seen,            \* apply's terminal_seen
  fate, touched, tampered, report,   \* observers, read by no action
  faults, edits, applies             \* bound counters

fs    == <<dest, new, old, stray, jdir, ctl>>
plan  == <<before, after>>
proc  == <<mode, pc, k, mv, known, seen>>
ghost == <<fate, touched, tampered, report>>
env   == <<faults, edits, applies>>
vars  == <<fs, plan, proc, ghost, env>>

Phases   == {"none", "PREPARING", "READY", "CLEANUP"}
Markers  == {"COMMITTED", "ROLLED_BACK"}
Controls == {"header.tmp", "header.json", "plan.tmp", "plan.json",
             "commit.pending", "rollback.pending"} \cup Markers
Moves    == {"backup", "place", "unplace", "restore"}
PCs      == {"idle", "prepare", "header", "publishHeader", "probe", "unprobe",
             "stage", "plan", "publishPlan", "commitPending",
             "rollbackPending", "verify", "ready", "install", "next", "check",
             "rename", "settle", "finish", "publish", "published", "handler",
             "recover", "rollback", "retire", "accept", "delete", "done"}

TypeOK ==
  /\ dest \in [Item -> Obj \cup {NoObj}] /\ new \in [Item -> Obj \cup {NoObj}]
  /\ old \in [Item -> Obj \cup {NoObj}] /\ stray \subseteq Dirs
  /\ jdir \in Phases /\ ctl \subseteq Controls \cup {"probe"}
  /\ before \in [Item -> Obj \cup {NoObj}] /\ after \in [Item -> Obj \cup {NoObj}]
  /\ mode \in {"none", "apply", "handler", "recover"}
  /\ pc \in PCs /\ k \in 0 .. N + 1 /\ mv \in Moves
  /\ known \subseteq Dirs /\ seen \in {"no", "yes"}
  /\ fate \in {"open", "committed", "rolledback", "abandoned"}
  /\ touched \subseteq Item /\ tampered \subseteq Item
  /\ report \in {"running", "crashed", "applied", "restored", "committed",
                 "incomplete", "conflict", "recovered"}
  /\ faults \in 0 .. MaxFaults /\ edits \in 0 .. MaxEdits
  /\ applies \in 0 .. MaxApplies

-----------------------------------------------------------------------------
(* What the code reads before it acts.                                     *)

Ancestors[i \in Item] ==
  IF Parent[i] = 0 THEN {} ELSE {Parent[i]} \cup Ancestors[Parent[i]]

Created(i) == after[i] # NoObj

\* self.parents: what the process expects at a planned directory.
Expected(d) == IF before[d] # NoObj THEN before[d]
               ELSE IF d \in known THEN after[d] ELSE NoObj

NamespaceCheck(changing) ==
  \A d \in Dirs : changing \notin {d} \cup Ancestors[d] => dest[d] = Expected(d)

\* Planned children travel with the directory object: they are in the one at
\* its path, or in the staged one when nothing is at the path.
Childless(d) == \A i \in Item : Parent[i] = d => dest[i] = NoObj
Empty(d) == d \notin stray /\ Childless(d)
StagedEmpty(d) == d \notin stray /\ (dest[d] = NoObj => Childless(d))

IsOld(i)     == dest[i] = before[i] /\ new[i] = after[i] /\ old[i] = NoObj
IsBetween(i) == /\ before[i] # NoObj /\ dest[i] = NoObj
                /\ new[i] = after[i] /\ old[i] = before[i]
IsNew(i)     == dest[i] = after[i] /\ new[i] = NoObj /\ old[i] = before[i]

Located(i, final) ==
  IF ~Created(i) THEN dest[i] = before[i]
  ELSE /\ \/ final \in {"any", "old"} /\ IsOld(i) /\ (i \in Dirs => StagedEmpty(i))
          \/ final = "any" /\ IsBetween(i)
          \/ final \in {"any", "new"} /\ IsNew(i)
       /\ i \notin stray

Locations(final) == \A i \in Item : Located(i, final)

\* _terminal: each marker is in exactly one of its two places.
Terminal == IF "COMMITTED" \in ctl THEN "COMMITTED"
            ELSE IF "ROLLED_BACK" \in ctl THEN "ROLLED_BACK" ELSE "none"

NoData == "probe" \notin ctl /\ \A i \in Item : new[i] = NoObj /\ old[i] = NoObj

PreparingInventory ==
  /\ "header.json" \in ctl \/ (ctl \subseteq {"header.tmp"} /\ NoData)
  /\ \A i \in Item : old[i] = NoObj
  /\ \A d \in Dirs : new[d] # NoObj => StagedEmpty(d)

\* _cleanup accepts only a suffix of its own deletion order.
CleanupAccepts ==
  IF ctl \cap Markers = {} THEN PreparingInventory
  ELSE /\ ~(Markers \subseteq ctl) /\ "header.json" \in ctl
       /\ IF "plan.json" \in ctl
          THEN /\ ctl \cap {"header.tmp", "plan.tmp", "probe"} = {}
               /\ ~({"COMMITTED", "commit.pending"} \subseteq ctl)
               /\ ~({"ROLLED_BACK", "rollback.pending"} \subseteq ctl)
               /\ NoData \/ ctl \cap {"commit.pending", "rollback.pending"} # {}
               /\ \A i \in Item : /\ new[i] \in {NoObj, after[i]}
                                  /\ old[i] \in {NoObj, before[i]}
               /\ \A d \in Dirs : new[d] # NoObj => StagedEmpty(d)
          ELSE NoData /\ ctl \subseteq Markers \cup {"header.json"}

CleanupOrder == <<"header.tmp", "plan.tmp", "commit.pending", "rollback.pending",
                  "plan.json", "COMMITTED", "ROLLED_BACK", "header.json">>

-----------------------------------------------------------------------------
Init ==
  /\ dest \in [Item -> Obj \cup {NoObj}]
  /\ \A i \in Item : Parent[i] # 0 /\ dest[Parent[i]] = NoObj => dest[i] = NoObj
  /\ new = [i \in Item |-> NoObj] /\ old = new
  /\ stray = {} /\ jdir = "none" /\ ctl = {}
  /\ before = dest /\ after = new
  /\ mode = "none" /\ pc = "idle" /\ k = 0 /\ mv = "place"
  /\ known = {} /\ seen = "no"
  /\ fate = "open" /\ touched = {} /\ tampered = {} /\ report = "recovered"
  /\ faults = 0 /\ edits = 0 /\ applies = 0

Goto(l) == pc' = l /\ UNCHANGED <<mode, k, mv, known, seen>>

\* The process lets go of the lock.
Exit(r) ==
  /\ pc' = "idle" /\ mode' = "none" /\ k' = 0 /\ mv' = "place"
  /\ known' = {} /\ seen' = "no" /\ report' = r

\* An exception: apply goes to its handler; a handler or a recovery gives up.
Raise ==
  IF mode = "apply" THEN Goto("handler") /\ UNCHANGED report
  ELSE Exit("incomplete")

\* InitConflict is not followed by automatic recovery.
RaiseConflict == Exit(IF mode = "apply" THEN "conflict" ELSE "incomplete")

\* A check of the running process: go on at l, or raise.
Check(at, ok, l) ==
  /\ pc = at
  /\ IF ok THEN Goto(l) /\ UNCHANGED report ELSE Raise
  /\ UNCHANGED <<fs, plan, fate, touched, tampered, env>>

-----------------------------------------------------------------------------
(* init --apply: observe, prepare the journal, install.                    *)

StartApply ==
  /\ pc = "idle" /\ jdir = "none" /\ applies < MaxApplies
  /\ applies' = applies + 1
  /\ before' = dest
  /\ \E a \in [Item -> Obj \cup {NoObj}] :
       /\ \A i \in Item : a[i] # NoObj => a[i] # dest[i]
       /\ \A d \in Dirs : (a[d] # NoObj) <=> (dest[d] = NoObj)
       /\ \A f \in Files : dest[f] = NoObj => a[f] # NoObj
       /\ \E f \in Files : a[f] # NoObj
       /\ after' = a
  /\ mode' = "apply" /\ pc' = "prepare" /\ k' = 0 /\ mv' = "place"
  /\ known' = {} /\ seen' = "no" /\ stray' = {}
  /\ fate' = "open" /\ touched' = {} /\ tampered' = {} /\ report' = "running"
  /\ UNCHANGED <<dest, new, old, jdir, ctl, faults, edits>>

MakePreparing ==
  /\ pc = "prepare"
  /\ IF (\A f \in Files : dest[f] = before[f]) /\ NamespaceCheck(0)
     THEN jdir' = "PREPARING" /\ Goto("header") /\ UNCHANGED report
     ELSE Raise /\ UNCHANGED jdir
  /\ UNCHANGED <<dest, new, old, stray, ctl, plan, fate, touched, tampered, env>>

\* One journal entry written, renamed or removed, then the next step.
Journal(at, entries, l) ==
  /\ pc = at /\ ctl' = entries /\ pc' = l
  /\ k' = IF l = "stage" THEN 1 ELSE k
  /\ UNCHANGED <<dest, new, old, stray, jdir, plan, mode, mv, known, seen, ghost, env>>

PrepareControls ==
  \/ Journal("header", {"header.tmp"}, "publishHeader")
  \/ Journal("publishHeader", {"header.json"}, "probe")
  \/ Journal("probe", ctl \cup {"probe"}, "unprobe")
  \/ Journal("unprobe", ctl \ {"probe"}, "stage")
  \/ Journal("plan", ctl \cup {"plan.tmp"}, "publishPlan")
  \/ Journal("publishPlan", (ctl \ {"plan.tmp"}) \cup {"plan.json"}, "commitPending")
  \/ Journal("commitPending", ctl \cup {"commit.pending"}, "rollbackPending")
  \/ Journal("rollbackPending", ctl \cup {"rollback.pending"}, "verify")

Stage ==
  /\ pc = "stage"
  /\ IF k \in Item
     THEN new' = [new EXCEPT ![k] = after[k]] /\ k' = k + 1 /\ pc' = pc
     ELSE pc' = "plan" /\ UNCHANGED <<new, k>>
  /\ UNCHANGED <<dest, old, stray, jdir, ctl, plan, mode, mv, known, seen, ghost, env>>

VerifyPrepared == Check("verify", Locations("old") /\ Terminal = "none", "ready")

StateMove(at, from, to, l) ==
  /\ pc = at /\ jdir = from /\ jdir' = to /\ Goto(l)
  /\ UNCHANGED <<dest, new, old, stray, ctl, plan, touched, tampered, report, env>>

PublishReady == StateMove("ready", "PREPARING", "READY", "install") /\ UNCHANGED fate

BeginInstall ==
  /\ pc = "install"
  /\ IF Locations("old") THEN pc' = "next" /\ k' = 1 /\ UNCHANGED <<mode, mv, known, seen, report>>
     ELSE Raise
  /\ UNCHANGED <<fs, plan, fate, touched, tampered, env>>

-----------------------------------------------------------------------------
(* One exclusive move between a path and its slots: checked, renamed and   *)
(* settled in three steps that an editor or a death can separate.          *)

Source == IF mv \in {"backup", "unplace"} THEN dest[k]
          ELSE IF mv = "place" THEN new[k] ELSE old[k]
Target == IF mv \in {"place", "restore"} THEN dest[k]
          ELSE IF mv = "unplace" THEN new[k] ELSE old[k]
Binding == IF mv \in {"backup", "restore"} THEN before[k] ELSE after[k]

\* The parent directory the process opened is still the one at its path.
ParentHeld(i) == Parent[i] = 0 \/ (dest[Parent[i]] = Expected(Parent[i]) /\ dest[Parent[i]] # NoObj)

\* Mutant: the original is unlinked instead of captured.
Shift_UnlinksOriginal(m, i) ==
  \/ m = "backup"  /\ dest' = [dest EXCEPT ![i] = NoObj] /\ UNCHANGED <<new, old>>
  \/ m = "restore" /\ dest' = [dest EXCEPT ![i] = old[i]]
                   /\ old' = [old EXCEPT ![i] = NoObj] /\ UNCHANGED new
  \/ m = "place"   /\ dest' = [dest EXCEPT ![i] = new[i]]
                   /\ new' = [new EXCEPT ![i] = NoObj] /\ UNCHANGED old
  \/ m = "unplace" /\ new' = [new EXCEPT ![i] = dest[i]]
                   /\ dest' = [dest EXCEPT ![i] = NoObj] /\ UNCHANGED old

\* A rename that moves whatever object is at its source.
Shift(m, i) ==
  \/ m = "backup"  /\ old' = [old EXCEPT ![i] = dest[i]]
                   /\ dest' = [dest EXCEPT ![i] = NoObj] /\ UNCHANGED new
  \/ m = "restore" /\ dest' = [dest EXCEPT ![i] = old[i]]
                   /\ old' = [old EXCEPT ![i] = NoObj] /\ UNCHANGED new
  \/ m = "place"   /\ dest' = [dest EXCEPT ![i] = new[i]]
                   /\ new' = [new EXCEPT ![i] = NoObj] /\ UNCHANGED old
  \/ m = "unplace" /\ new' = [new EXCEPT ![i] = dest[i]]
                   /\ dest' = [dest EXCEPT ![i] = NoObj] /\ UNCHANGED old

Undoing(m) == IF m = "backup" THEN "restore" ELSE IF m = "restore" THEN "backup"
              ELSE IF m = "place" THEN "unplace" ELSE "place"

BeginMove(m) == mv' = m /\ pc' = "check" /\ UNCHANGED <<mode, k, known, seen, report>>

SkipTo(i) == k' = i /\ UNCHANGED <<mode, pc, mv, known, seen, report>>

InstallNext ==
  /\ pc = "next" /\ mode = "apply"
  /\ IF k \notin Item THEN Goto("finish") /\ UNCHANGED report
     ELSE IF ~Created(k) THEN SkipTo(k + 1)
     ELSE IF ~ParentHeld(k) \/ (k \in Files /\ dest[k] # before[k]) THEN Raise
     ELSE BeginMove(IF k \in Files /\ before[k] # NoObj THEN "backup" ELSE "place")
  /\ UNCHANGED <<fs, plan, fate, touched, tampered, env>>

\* Mutant: rollback takes the files back but leaves the directories it created.
RollbackNext_FilesOnly ==
  /\ pc = "next" /\ mode # "apply"
  /\ IF k \notin Files THEN Goto("finish") /\ UNCHANGED report
     ELSE IF ~Created(k) \/ (Parent[k] # 0 /\ Expected(Parent[k]) = NoObj)
          THEN SkipTo(k - 1)
     ELSE IF ~ParentHeld(k) THEN Raise
     ELSE IF dest[k] = after[k] THEN BeginMove("unplace")
     ELSE IF old[k] # NoObj THEN BeginMove("restore")
     ELSE SkipTo(k - 1)
  /\ UNCHANGED <<fs, plan, fate, touched, tampered, env>>

RollbackNext ==
  /\ pc = "next" /\ mode # "apply"
  /\ IF k \notin Item THEN Goto("finish") /\ UNCHANGED report
     ELSE IF ~Created(k) \/ (k \in Dirs /\ k \notin known)
             \/ (Parent[k] # 0 /\ dest[Parent[k]] = NoObj /\ Expected(Parent[k]) = NoObj)
          THEN SkipTo(k - 1)
     ELSE IF ~ParentHeld(k) THEN Raise
     ELSE IF k \in Dirs \/ dest[k] = after[k] THEN BeginMove("unplace")
     ELSE IF old[k] # NoObj THEN BeginMove("restore")
     ELSE SkipTo(k - 1)
  /\ UNCHANGED <<fs, plan, fate, touched, tampered, env>>

MoveCheck ==
  Check("check", NamespaceCheck(0) /\ Source = Binding /\ Target = NoObj, "rename")

\* Mutant: a plain rename, which replaces what is at its target.
MoveRename_Replaces ==
  /\ pc = "rename"
  /\ IF Source # NoObj /\ ParentHeld(k)
     THEN Shift(mv, k) /\ Goto("settle") /\ UNCHANGED report
     ELSE Raise /\ UNCHANGED <<dest, new, old>>
  /\ UNCHANGED <<stray, jdir, ctl, plan, fate, touched, tampered, env>>

MoveRename ==
  /\ pc = "rename"
  /\ IF Source # NoObj /\ Target = NoObj /\ ParentHeld(k)
     THEN Shift(mv, k) /\ Goto("settle") /\ UNCHANGED report
     ELSE Raise /\ UNCHANGED <<dest, new, old>>
  /\ UNCHANGED <<stray, jdir, ctl, plan, fate, touched, tampered, env>>

\* The move captured something else, or a directory that is in use.
Captured == /\ Target # NoObj /\ Source = NoObj
            /\ Target # Binding \/ (k \in Dirs /\ ~Empty(k))

MoveUndo ==
  /\ pc = "settle" /\ Captured
  /\ IF NamespaceCheck(IF k \in Dirs THEN k ELSE 0) /\ ParentHeld(k)
     THEN Shift(Undoing(mv), k) ELSE UNCHANGED <<dest, new, old>>
  /\ Raise
  /\ UNCHANGED <<stray, jdir, ctl, plan, fate, touched, tampered, env>>

MoveSettle ==
  /\ pc = "settle" /\ ~Captured
  /\ IF Target = Binding /\ NamespaceCheck(IF k \in Dirs THEN k ELSE 0)
     THEN /\ IF mv = "backup" THEN mv' = "place" /\ pc' = "check" /\ k' = k
             ELSE IF mv = "place" THEN mv' = mv /\ pc' = "next" /\ k' = k + 1
             ELSE IF mv = "unplace" /\ old[k] # NoObj
                  THEN mv' = "restore" /\ pc' = "check" /\ k' = k
             ELSE mv' = mv /\ pc' = "next" /\ k' = k - 1
          /\ known' = IF k \notin Dirs THEN known
                      ELSE IF mv = "place" THEN known \cup {k} ELSE known \ {k}
          /\ UNCHANGED <<mode, seen, report>>
     ELSE Raise
  /\ UNCHANGED <<fs, plan, fate, touched, tampered, env>>

\* What a _locations pass leaves in self.parents.
Installed == {d \in Dirs : Created(d) /\ dest[d] = after[d]}

FinishMoves ==
  /\ pc = "finish"
  /\ IF Locations(IF mode = "apply" THEN "new" ELSE "old")
     THEN known' = Installed /\ pc' = "publish" /\ UNCHANGED <<mode, k, mv, seen, report>>
     ELSE Raise
  /\ UNCHANGED <<fs, plan, fate, touched, tampered, env>>

PublishTerminal ==
  /\ pc = "publish"
  /\ IF NamespaceCheck(0) /\ Terminal = "none"
     THEN /\ IF mode = "apply"
             THEN ctl' = (ctl \ {"commit.pending"}) \cup {"COMMITTED"} /\ fate' = "committed"
             ELSE ctl' = (ctl \ {"rollback.pending"}) \cup {"ROLLED_BACK"} /\ fate' = "rolledback"
          /\ Goto("published") /\ UNCHANGED report
     ELSE Raise /\ UNCHANGED <<ctl, fate>>
  /\ UNCHANGED <<dest, new, old, stray, jdir, plan, touched, tampered, env>>

\* The move's closing namespace check; only then does apply set terminal_seen.
Published ==
  /\ pc = "published"
  /\ IF NamespaceCheck(0)
     THEN /\ seen' = IF mode = "apply" THEN "yes" ELSE seen
          /\ pc' = IF mode = "apply" THEN "recover" ELSE "retire"
          /\ UNCHANGED <<mode, k, mv, known, report>>
     ELSE Raise
  /\ UNCHANGED <<fs, plan, fate, touched, tampered, env>>

-----------------------------------------------------------------------------
(* Recovery, run by init --recover, by apply's handler and by apply itself *)
(* after the commit.                                                       *)

StartRecover ==
  /\ pc = "idle"
  /\ mode' = "recover" /\ pc' = "recover" /\ report' = "running"
  /\ UNCHANGED <<fs, plan, k, mv, known, seen, fate, touched, tampered, env>>

\* Mutant: the handler trusts terminal_seen, which the interrupt may have skipped.
Handler_TrustsMemory ==
  /\ pc = "handler"
  /\ mode' = "handler" /\ pc' = "recover"
  /\ UNCHANGED <<fs, plan, k, mv, known, seen, fate, touched, tampered, report, env>>

\* apply's handler re-reads the marker before it chooses its words.
Handler ==
  /\ pc = "handler"
  /\ seen' = IF jdir = "CLEANUP" \/ (jdir = "READY" /\ Terminal = "COMMITTED")
             THEN "yes" ELSE seen
  /\ mode' = "handler" /\ pc' = "recover"
  /\ UNCHANGED <<fs, plan, k, mv, known, fate, touched, tampered, report, env>>

\* Mutant: READY is taken for a finished transaction.
RecoverByPhase_AssumesTerminal ==
  Check("recover",
        jdir = "PREPARING" => PreparingInventory,
        IF jdir = "none" THEN "done"
        ELSE IF jdir = "CLEANUP" THEN "accept" ELSE "retire")

RecoverByPhase ==
  Check("recover",
        jdir = "PREPARING" => PreparingInventory,
        IF jdir = "none" THEN "done"
        ELSE IF jdir = "PREPARING" THEN "retire"
        ELSE IF jdir = "READY" THEN IF Terminal = "none" THEN "rollback" ELSE "retire"
        ELSE "accept")

BeginRollback ==
  /\ pc = "rollback"
  /\ IF Terminal = "none" /\ Locations("any")
     THEN pc' = "next" /\ k' = N /\ known' = Installed /\ UNCHANGED <<mode, mv, seen, report>>
     ELSE Raise
  /\ UNCHANGED <<fs, plan, fate, touched, tampered, env>>

\* PREPARING or READY becomes CLEANUP, which is never left but by removal.
Retire ==
  \/ StateMove("retire", "READY", "CLEANUP", "accept") /\ UNCHANGED fate
  \/ StateMove("retire", "PREPARING", "CLEANUP", "accept") /\ fate' = "abandoned"

AcceptCleanup == Check("accept", CleanupAccepts, "delete")

\* Every entry is verified against its captured binding just before removal.
DeleteNew(i) ==
  /\ pc = "delete" /\ new[i] # NoObj
  /\ IF new[i] # after[i] THEN RaiseConflict /\ UNCHANGED new
     ELSE IF i \in Dirs /\ ~StagedEmpty(i) THEN Raise /\ UNCHANGED new
     ELSE new' = [new EXCEPT ![i] = NoObj] /\ UNCHANGED <<proc, report>>
  /\ UNCHANGED <<dest, old, stray, jdir, ctl, plan, fate, touched, tampered, env>>

DeleteOld(i) ==
  /\ pc = "delete" /\ old[i] # NoObj
  /\ IF old[i] # before[i] THEN RaiseConflict /\ UNCHANGED old
     ELSE old' = [old EXCEPT ![i] = NoObj] /\ UNCHANGED <<proc, report>>
  /\ UNCHANGED <<dest, new, stray, jdir, ctl, plan, fate, touched, tampered, env>>

DeleteProbe ==
  /\ pc = "delete" /\ "probe" \in ctl /\ ctl' = ctl \ {"probe"}
  /\ UNCHANGED <<dest, new, old, stray, jdir, plan, proc, ghost, env>>

DeleteControl ==
  /\ pc = "delete" /\ NoData
  /\ \E n \in 1 .. Len(CleanupOrder) :
       /\ CleanupOrder[n] \in ctl
       /\ \A m \in 1 .. n - 1 : CleanupOrder[m] \notin ctl
       /\ ctl' = ctl \ {CleanupOrder[n]}
  /\ UNCHANGED <<dest, new, old, stray, jdir, plan, proc, ghost, env>>

RemoveJournal ==
  /\ pc = "delete" /\ NoData /\ ctl = {}
  /\ jdir' = "none" /\ Goto("done")
  /\ UNCHANGED <<dest, new, old, stray, ctl, plan, ghost, env>>

Done ==
  /\ pc = "done"
  /\ fate' = IF fate = "open" THEN "abandoned" ELSE fate
  /\ Exit(IF mode = "apply" THEN "applied" ELSE IF mode = "recover" THEN "recovered"
          ELSE IF seen = "yes" THEN "committed" ELSE "restored")
  /\ UNCHANGED <<fs, plan, touched, tampered, env>>

-----------------------------------------------------------------------------
(* Faults and the unsynchronised editor.                                   *)

\* An error or interrupt at any point of a running invocation, before or
\* after the effect of the step it interrupts.
Fail ==
  /\ pc # "idle" /\ faults < MaxFaults /\ faults' = faults + 1
  /\ IF mode = "apply" /\ pc # "handler" THEN Raise ELSE Exit("incomplete")
  /\ UNCHANGED <<fs, plan, fate, touched, tampered, edits, applies>>

\* The process dies: only the file system and the observers survive.
Crash ==
  /\ pc # "idle" /\ faults < MaxFaults /\ faults' = faults + 1
  /\ Exit("crashed")
  /\ UNCHANGED <<fs, plan, fate, touched, tampered, edits, applies>>

Reachable(i) == \A d \in Ancestors[i] : dest[d] # NoObj

Fresh(i) == Obj \ {dest[i], new[i], old[i], before[i], after[i]}

\* An editor writes, creates or removes a planned path.
EditPath(i) ==
  /\ edits < MaxEdits /\ edits' = edits + 1
  /\ Reachable(i)
  /\ i \in Dirs => Childless(i) /\ (dest[i] # NoObj => i \notin stray)
  /\ \E o \in IF i \in Dirs /\ dest[i] # NoObj THEN {NoObj} ELSE Fresh(i) \cup {NoObj} :
       o # dest[i] /\ dest' = [dest EXCEPT ![i] = o]
  /\ touched' = touched \cup {i}
  /\ UNCHANGED <<new, old, stray, jdir, ctl, plan, proc, fate, tampered, report, faults, applies>>

\* An editor adds its own file to a directory the transaction created.
AddStray(d) ==
  /\ edits < MaxEdits /\ edits' = edits + 1
  /\ d \in Dirs \ stray /\ Created(d)
  /\ jdir \in {"READY", "CLEANUP"} /\ fate # "abandoned"
  /\ after[d] \in {dest[d], new[d]}
  /\ stray' = stray \cup {d} /\ touched' = touched \cup {d}
  /\ UNCHANGED <<dest, new, old, jdir, ctl, plan, proc, fate, tampered, report, faults, applies>>

\* A handle opened before a file was moved writes into the journal slot.
WriteThroughHandle(i) ==
  /\ edits < MaxEdits /\ edits' = edits + 1
  /\ i \in Files /\ jdir \in {"READY", "CLEANUP"} /\ fate # "abandoned"
  /\ \E o \in Fresh(i) :
       \/ old[i] # NoObj /\ old' = [old EXCEPT ![i] = o] /\ UNCHANGED new
       \/ new[i] # NoObj /\ new' = [new EXCEPT ![i] = o] /\ UNCHANGED old
  /\ tampered' = tampered \cup {i}
  /\ UNCHANGED <<dest, stray, jdir, ctl, plan, proc, fate, touched, report, faults, applies>>

-----------------------------------------------------------------------------
Apply == MakePreparing \/ PrepareControls \/ Stage \/ VerifyPrepared
           \/ PublishReady \/ BeginInstall \/ InstallNext
Move == MoveCheck \/ MoveRename \/ MoveUndo \/ MoveSettle \/ FinishMoves
          \/ PublishTerminal \/ Published
Recover == \/ Handler \/ RecoverByPhase \/ BeginRollback
           \/ RollbackNext \/ Retire \/ AcceptCleanup
Cleanup == \/ \E i \in Item : DeleteNew(i) \/ DeleteOld(i)
           \/ DeleteProbe \/ DeleteControl \/ RemoveJournal \/ Done
Editor == \E i \in Item : EditPath(i) \/ AddStray(i) \/ WriteThroughHandle(i)

\* What a running invocation does by itself.
Work == Apply \/ Move \/ Recover \/ Cleanup

Next == StartApply \/ StartRecover \/ Work \/ Fail \/ Crash \/ Editor

Spec == Init /\ [][Next]_vars

\* A running invocation is not suspended for ever, and the maintainer follows
\* the message every refusal ends with: run init --recover.
FairSpec == Spec /\ WF_vars(Work) /\ WF_vars(StartRecover)

-----------------------------------------------------------------------------
(* Correctness.                                                            *)

Untouched == Item \ touched
Result(i) == IF fate = "committed" /\ Created(i) THEN after[i] ELSE before[i]

\* While an installation is undecided, whatever step it was cut at, every path
\* no editor interfered with is in one of the three places the journal can
\* explain: not begun, original captured, or installed (_locations).
OriginalSafe ==
  jdir = "READY" /\ fate = "open" =>
    \A i \in Untouched \ tampered :
      IF Created(i) THEN IsOld(i) \/ IsBetween(i) \/ IsNew(i) ELSE dest[i] = before[i]

\* When no journal is left the project is all new or all original, however many
\* faults, recoveries and edits of other paths came before (docs/init-recovery.md).
AtomicAtRest == jdir = "none" => \A i \in Untouched : dest[i] = Result(i)

\* Recovery never refuses a state the toolkit made itself: at every crash point
\* the checks of recover and _cleanup accept.  Once the outcome is decided, even
\* edits of the project do not make them refuse.
RecoveryAccepts ==
  /\ jdir = "PREPARING" => PreparingInventory
  /\ jdir = "READY" /\ Terminal = "none" /\ touched \cup tampered = {} => Locations("any")
  /\ jdir = "CLEANUP" /\ tampered = {} /\ (\A d \in stray : new[d] = NoObj) => CleanupAccepts

\* What init tells its user is true of the project: a success or "committed"
\* only after the commit and with nothing left to do, "restored" only with the
\* originals back (the messages of apply).
ReportTruthful ==
  /\ report \in {"applied", "committed"} => fate = "committed" /\ jdir = "none"
  /\ report = "restored" => /\ fate # "committed" /\ jdir = "none"
                            /\ \A i \in Untouched : dest[i] = before[i]

\* The toolkit drops an object only in cleanup: a replaced original after the
\* commit, or its own staged payload when there was none.  Everything an editor
\* wrote, wherever the moves have taken it, stays somewhere.
Holds(i) == {dest[i], new[i], old[i]}
NoObjectLost ==
  [][edits' = edits => \A i \in Item : \A o \in Holds(i) \ (Holds(i)' \cup {NoObj}) :
       /\ jdir = "CLEANUP"
       /\ \/ fate = "committed" /\ o = before[i]
          \/ fate # "committed" /\ o = after[i] /\ (i \in Dirs => StagedEmpty(i))]_vars

\* After either marker, and from CLEANUP on, the toolkit never writes to the
\* project again: a commit is not rolled back, a rollback is not resumed.
TerminalFreezesProject ==
  [][(fate # "open" \/ jdir = "CLEANUP") /\ edits' = edits => dest' = dest]_vars

\* Once decided, retirement ends whatever editors do to the project itself; only
\* writing into the private journal stops it.
Interfered == tampered # {} \/ \E d \in stray : new[d] # NoObj
RetirementEnds == fate # "open" ~> (jdir = "none" \/ Interfered)

\* With finitely many faults every transaction ends, unless somebody edited a
\* planned path or wrote into the private journal: the only things recovery refuses.
TransactionEnds == jdir # "none" ~> (jdir = "none" \/ touched # {} \/ Interfered)

\* The project as a reader of the journal sees it: a captured or installed path
\* of an undecided transaction still counts as its original.
View(i) ==
  IF i \in touched \cup tampered THEN NoObj
  ELSE IF jdir = "READY" /\ fate = "open" /\ Created(i) /\ (IsBetween(i) \/ IsNew(i))
       THEN before[i] ELSE dest[i]

Atomic == INSTANCE AtomicInstall WITH
  tree <- [i \in Item |-> View(i)],
  goal <- after,
  theirs <- touched \cup tampered,
  fate <- IF fate \in {"rolledback", "abandoned"} THEN "aborted" ELSE fate

\* The journalled protocol implements the all-or-nothing install.
ImplementsAtomicInstall == Atomic!ASpec
=============================================================================
