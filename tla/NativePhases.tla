----------------------------- MODULE NativePhases -----------------------------
(***************************************************************************)
(* The two native authority phases of the macOS verification and the       *)
(* checked files their commands read (prepare_native_authority,            *)
(* _native_request, _native_finish_run, prepare_checked_files,             *)
(* verify_checked_files and the two parts of close() in ci_sandbox.py).    *)
(*                                                                         *)
(* A phase has one attempt: it is prepared under its own controls, runs    *)
(* one command and gives its descriptors up.  The checked files are made   *)
(* by the controller in the source phase, must still be the originals      *)
(* after every ordinary command, and are removed when the session closes.  *)
(* The finite lists of controls, pins and files are one value each.        *)
(***************************************************************************)
EXTENDS SandboxSession

VARIABLES
  n,           \* the native authority phases
  f            \* the checked files: custody, phases, observations, the tree

nativeVars == <<n, f>>

Phases == {"source", "wheel"}
NoPhase == [made |-> FALSE, ready |-> FALSE, started |-> FALSE, done |-> FALSE, closed |-> FALSE,
            controls |-> FALSE]

NativeInit ==
  /\ n = [x \in Phases |-> NoPhase]
  /\ f = [held |-> FALSE, closed |-> FALSE, prepared |-> FALSE, phases |-> {}, seen |-> {},
          tree |-> "none"]

Phase == IF at.ctx = "gate" /\ job.gates[at.gate] = "native-profile-wheel" THEN "wheel" ELSE "source"

\* A phase that still holds its descriptors.
Holding == n[Phase].made /\ ~n[Phase].closed

-----------------------------------------------------------------------------
(* The phases.                                                             *)

\* An ordinary command runs only when no phase is unresolved.
OrdinaryCapture ==
  /\ Capture /\ \A x \in Phases : n[x].made => n[x].closed
  /\ UNCHANGED nativeVars

\* The attempt is recorded before its first effect.
Prepare ==
  /\ Doing("prepare") /\ CanIdle /\ ~n[Phase].made /\ job.platform = "darwin"
  /\ Phase = "wheel" => n["source"].done /\ n["source"].closed /\ n["source"].controls
  /\ \/ Free /\ BecomeIdle /\ Goto("next") /\ n' = [n EXCEPT ![Phase].made = TRUE]
     \/ Charge /\ s' = Failed(s) /\ Raise
        /\ n' = [n EXCEPT ![Phase] = [@ EXCEPT !.made = TRUE, !.closed = TRUE]]
  /\ UNCHANGED <<job, b, r, w, seen, f>>

Control ==
  /\ Doing("control") /\ CanIdle /\ Holding /\ ~n[Phase].ready /\ ~n[Phase].started
  /\ Begin /\ UNCHANGED <<job, b, w, seen, events, nativeVars>>

\* The outside sentinel is the active child, the signalling case a helper.
SignalControl ==
  /\ Doing("signal-control") /\ CanIdle /\ Free /\ Goto("small")
  /\ s' = [s EXCEPT !.pending = TRUE, !.idle = FALSE, !.active = TRUE]
  /\ w' = [w EXCEPT !.helper = "subject"] /\ UNCHANGED <<job, b, r, seen, nativeVars>>

Prepared ==
  /\ Doing("prepared") /\ CanIdle /\ Free /\ BecomeIdle /\ Goto("next")
  /\ n' = [n EXCEPT ![Phase] = [@ EXCEPT !.ready = TRUE, !.controls = TRUE]]
  /\ UNCHANGED <<job, b, r, w, seen, f>>

NativeCapture ==
  /\ Doing("native") /\ CanIdle /\ n[Phase].ready /\ Holding
  /\ ~n[Phase].started /\ ~n[Phase].done
  /\ n' = [n EXCEPT ![Phase].started = TRUE]
  /\ Begin /\ UNCHANGED <<job, b, w, seen, events, f>>

\* The postconditions: idle again, the inputs unchanged, the descriptors closed.
NativeFinish ==
  /\ at.pc = "captured" /\ at.op = "native" /\ r' = NoRun /\ UNCHANGED <<job, b, w, seen, f>>
  /\ \/ /\ RunOk /\ CanIdle /\ Free /\ BecomeIdle
        /\ n' = [n EXCEPT ![Phase] = [@ EXCEPT !.done = TRUE, !.closed = TRUE]]
        /\ Goto(IF r.code = "ok" THEN "next" ELSE "raised")
     \/ /\ IF RunOk /\ CanIdle THEN Charge ELSE Free
        /\ s' = IF RunOk THEN Unfinished ELSE Failed(s)
        /\ n' = [n EXCEPT ![Phase].closed = TRUE] /\ Raise

Unresolved == at.op \in {"control", "signal-control", "prepared", "native"} /\ Holding

\* An exception out of the preparation or of the run closes the attempt.
PhaseRaised ==
  /\ at.pc = "raised" /\ Unresolved
  /\ n' = [n EXCEPT ![Phase] = [@ EXCEPT !.ready = FALSE, !.closed = TRUE]]
  /\ s' = Failed(s) /\ UNCHANGED <<job, at, b, r, w, seen, events, f>>

-----------------------------------------------------------------------------
(* The checked files.                                                      *)

CreateFiles ==
  /\ Doing("fixtures") /\ Phase = "source" /\ CanIdle /\ ~f.held
  /\ \/ /\ Free /\ BecomeIdle /\ Goto("next")
        /\ f' = [f EXCEPT !.held = TRUE, !.prepared = TRUE, !.tree = "ours", !.phases = {"source"}]
     \/ /\ Charge /\ s' = Failed(s) /\ Raise
        /\ f' = [f EXCEPT !.held = TRUE, !.closed = TRUE, !.tree = "partial"]
  /\ UNCHANGED <<job, b, r, w, seen, n>>

ReuseFiles ==
  /\ Doing("fixtures") /\ Phase = "wheel" /\ CanIdle /\ f.held /\ ~f.closed
  /\ \/ /\ f.prepared /\ f.phases = {"source"} /\ "source" \in f.seen /\ f.tree = "ours"
        /\ Free /\ BecomeIdle /\ Goto("next") /\ f' = [f EXCEPT !.phases = Phases]
     \/ /\ f.tree # "ours" /\ Free /\ s' = Failed(s) /\ Raise /\ f' = [f EXCEPT !.closed = TRUE]
  /\ UNCHANGED <<job, b, r, w, seen, n>>

Originals == Guarded /\ f.prepared /\ ~f.closed /\ Phase \in f.phases /\ s.idle /\ ~Owned
             /\ f.tree = "ours"

VerifyFiles ==
  /\ Doing("verify") /\ UNCHANGED <<job, b, r, w, seen, n>>
  /\ \/ Originals /\ Free /\ Goto("next") /\ f' = [f EXCEPT !.seen = @ \cup {Phase}] /\ UNCHANGED s
     \/ (IF Originals THEN Charge ELSE Free) /\ s' = Failed(s) /\ Raise /\ UNCHANGED f

\* A command writes to a file it was given.
SubjectMeddles ==
  /\ w.leader = "live" \/ w.kin # "none"
  /\ f.tree = "ours" /\ Charge /\ f' = [f EXCEPT !.tree = "changed"]
  /\ UNCHANGED <<job, at, s, b, r, w, seen, n>>

-----------------------------------------------------------------------------
(* The two parts of close().                                               *)

CloseNative ==
  /\ at.pc = "c_native" /\ Goto("c_files") /\ UNCHANGED <<job, b, r, w, seen, f>>
  /\ n' = [x \in Phases |-> [n[x] EXCEPT !.closed = @ \/ n[x].made]]
  /\ LET left == \E x \in Phases : n[x].made /\ ~n[x].done
     IN \/ Free /\ s' = IF left THEN Failed(s) ELSE s
        \/ (\E x \in Phases : n[x].made) /\ Charge /\ s' = Unfinished

Disposable == s.idle /\ ~Owned /\ f.prepared /\ f.phases = Phases /\ f.seen = Phases
              /\ f.tree = "ours" /\ ~w.late

CloseFiles ==
  /\ at.pc = "c_files" /\ Goto("c_ns") /\ UNCHANGED <<job, b, r, w, seen, n>>
  /\ \/ (~f.held \/ f.closed) /\ Free /\ UNCHANGED <<s, f>>
     \/ /\ f.held /\ ~f.closed /\ s.failure /\ Free /\ UNCHANGED s
        /\ f' = [f EXCEPT !.closed = TRUE]
     \/ /\ f.held /\ ~f.closed /\ ~s.failure /\ Disposable /\ Free /\ UNCHANGED s
        /\ f' = [f EXCEPT !.closed = TRUE, !.tree = "removed"]
     \/ /\ f.held /\ ~f.closed /\ ~s.failure /\ (IF Disposable THEN Charge ELSE Free)
        /\ s' = Unfinished /\ f' = [f EXCEPT !.closed = TRUE]

NativeController ==
  \/ OrdinaryCapture \/ Prepare \/ Control \/ SignalControl \/ Prepared \/ NativeCapture
  \/ NativeFinish \/ PhaseRaised \/ CreateFiles \/ ReuseFiles \/ VerifyFiles
  \/ CloseNative \/ CloseFiles

=============================================================================
