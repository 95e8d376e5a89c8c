------------------------------- MODULE StoreLane -------------------------------
(***************************************************************************)
(* The calls of `mobile-release ci` that run a Store lane (stores.py,      *)
(* _store_lane_evidence.py, _store_lane_files.py, cli._ci): a call takes   *)
(* custody of its private inputs, leaves a pending marker on the disk,     *)
(* runs the Ruby lane as one owned command, reads the lane's terminal,     *)
(* disposes of what it made and only then retires the marker and accepts   *)
(* the receipt.  Calls may run one after the other or at once, in one      *)
(* working copy; the marker's name is the intent, the authority and the    *)
(* lane, so two calls of one run attempt meet in it.                       *)
(*                                                                         *)
(* The owned command is abstract here: it says that the lane is over, or   *)
(* that it does not know.  The lane starts native uploads in process       *)
(* groups of their own, which that word does not cover: only the lane's    *)
(* terminal does.  A call may be interrupted, or die, at any step.         *)
(***************************************************************************)
EXTENDS Naturals, LaneClaims

CONSTANTS
  MaxEvents    \* bound: failed steps, signals, broken lanes, deaths, together

VARIABLES
  events       \* bound counter

disk == <<markers, dirs, inputs>>
vars == <<call, lane, disk, outputs, evidence, events>>

Outs == {r.out : r \in Requests}

\* A fresh evidence record with the owners bound to it, under its own guard.
Fresh(r) ==
  [pc |-> "idle", req |-> r, raised |-> "none", exit |-> "none",
   sealed |-> FALSE, attempted |-> FALSE, finished |-> FALSE, failed |-> FALSE,
   primary |-> "none", outcome |-> "none", terminal |-> "none",
   cancelled |-> FALSE, fatal |-> FALSE, contained |-> TRUE, handlers |-> "none",
   files |-> "none", fence |-> "none", custody |-> "none",
   snapshot |-> "none", selection |-> "none"]

NoLane == [at |-> "none", nested |-> FALSE, wrote |-> FALSE, error |-> FALSE,
           terminal |-> "none", code |-> "none"]

Init ==
  /\ call \in [Calls -> {Fresh(r) : r \in Requests}] /\ lane = [c \in Calls |-> NoLane]
  /\ markers = {} /\ dirs = {} /\ inputs = {} /\ evidence = {}
  /\ outputs = [o \in Outs |-> {}] /\ events = 0

-----------------------------------------------------------------------------
(* The record, the guard and the verdicts over them.                       *)

Charge == events < MaxEvents /\ events' = events + 1

\* A signal delivered in a step leaves its latch behind.
Latched(s, k) == IF k = "interrupt" THEN [s EXCEPT !.cancelled = TRUE] ELSE s

Remember(s, k) == IF s.primary = "none" THEN [s EXCEPT !.primary = k] ELSE s

Abort(s) == [s EXCEPT !.fatal = TRUE]

RecordFailure(s, k) == Abort(Remember([s EXCEPT !.failed = TRUE], k))

\* The first exception on its way out stays.
Raise(s, k, next) ==
  [Latched(s, k) EXCEPT !.raised = IF @ = "none" THEN k ELSE @, !.pc = next]

\* DefaultCancellation.check.
Clear(s) == ~s.fatal /\ ~s.cancelled /\ s.handlers # "unknown"
CheckError(s) == IF s.fatal \/ s.handlers = "unknown" THEN "lifetime" ELSE "interrupt"

\* settled_store_lane: the original command's outcome, once it is final.
HasOutcome(s) == s.outcome \notin {"none", "unknown", "dirty"}

Complete(s) ==
  s.finished /\ (s.attempted => HasOutcome(s) /\ (s.outcome = "refused" \/ s.terminal # "none"))

DependentsSettled(s) == ~s.failed /\ Complete(s) /\ s.contained

Acceptable(s) ==
  /\ DependentsSettled(s) /\ s.attempted /\ s.outcome = "ok" /\ s.terminal = "receipt"
  /\ s.files = "disposed" /\ s.fence = "retired"
  /\ ~s.fatal /\ s.primary = "none" /\ ~s.cancelled /\ s.handlers # "unknown"

\* Admission closes once; what is missing then is a failure.
Finish(s, k) ==
  LET r == IF k = "none" THEN s ELSE Remember(s, k)
      f == [r EXCEPT !.finished = TRUE]
  IN IF r.finished THEN r
     ELSE IF ~f.failed /\ Complete(f) THEN f
     ELSE RecordFailure(f, "lifetime")

\* _raise_lane_primary.
Projected(s, k) ==
  IF s.primary = "interrupt" THEN "interrupt"
  ELSE IF ~DependentsSettled(s) \/ s.fatal THEN "lifetime" ELSE k

\* A failure while the encompassing resources close.
CloseError(s, k) ==
  LET r == Abort(Remember(s, k))
  IN [r EXCEPT !.raised = IF @ = "none" THEN Projected(r, k) ELSE @]

At(c, p) == call[c].pc = p
Becomes(c, s) == call' = [call EXCEPT ![c] = s]
Goes(c, s, next) == Becomes(c, [s EXCEPT !.pc = next])

\* What a step may fail with: an error, or the signal that interrupts it.
Errors == {"ordinary", "interrupt"}

\* The step of an owner failed: that is a failure of the record.
OwnerFails(c, s, k) == Becomes(c, RecordFailure(Raise(s, k, "finish"), k))

Kept == UNCHANGED <<lane, outputs, evidence>>

\* What a failed creation, or a failed removal, may leave.
MayExist(S, x) == {S, S \cup {x}}
MayRemain(S, x) == {S, S \ {x}}

-----------------------------------------------------------------------------
(* Before the lane.                                                        *)

\* Handlers first; the record exists before any private effect.
Start(c) ==
  /\ At(c, "idle") /\ UNCHANGED disk /\ Kept
  /\ \/ Goes(c, [call[c] EXCEPT !.handlers = "active"], "custody") /\ UNCHANGED events
     \/ /\ Charge
        /\ Becomes(c, Abort([call[c] EXCEPT !.handlers = "unknown", !.pc = "done", !.exit = "fatal"]))

\* A failed entry closes its own owner, after it has closed admission.
Custody(c) ==
  LET s == call[c] IN
  /\ At(c, "custody") /\ UNCHANGED disk /\ Kept
  /\ \/ Clear(s) /\ Goes(c, [s EXCEPT !.custody = "held"], "inputs") /\ UNCHANGED events
     \/ /\ ~Clear(s) /\ UNCHANGED events
        /\ Becomes(c, [Finish(Raise(s, CheckError(s), "close"), CheckError(s)) EXCEPT !.custody = "closed"])
     \/ /\ Charge
        /\ \E k \in Errors :
             LET r == Finish(Raise(s, k, "close"), k)
             IN \/ Becomes(c, [r EXCEPT !.custody = "closed"])
                \/ Becomes(c, Abort([r EXCEPT !.custody = "broken"]))

\* A scratch: bound to the record, made, published.
Makes(c, role, next, handler) ==
  LET s == call[c]
      fails(k, left) == [Finish(Raise(s, k, handler), k) EXCEPT ![role] = left]
  IN \/ /\ Clear(s) /\ inputs' = inputs \cup {<<c, role>>} /\ UNCHANGED <<markers, dirs, events>>
        /\ Goes(c, [s EXCEPT ![role] = "made"], next)
     \/ ~Clear(s) /\ Becomes(c, fails(CheckError(s), "closed")) /\ UNCHANGED <<disk, events>>
     \/ /\ Charge /\ \E k \in Errors : Becomes(c, fails(k, "closed"))
        /\ UNCHANGED disk
     \/ /\ Charge /\ \E k \in Errors : Becomes(c, Abort(fails(k, "kept")))
        /\ inputs' \in MayExist(inputs, <<c, role>>) /\ UNCHANGED <<markers, dirs>>

Inputs(c) == At(c, "inputs") /\ Makes(c, "snapshot", "enter", "close") /\ Kept

\* An output of an earlier lane is read back, never replaced.
Enter(c) ==
  LET s == call[c] IN
  /\ At(c, "enter") /\ UNCHANGED <<disk, events>> /\ Kept
  /\ \/ outputs[s.req.out] = {} /\ Goes(c, s, "selection")
     \/ outputs[s.req.out] # {} /\ s.req.mode = "prepare" /\ Becomes(c, Raise(s, "ordinary", "inner"))
     \/ outputs[s.req.out] # {} /\ s.req.mode = "execute" /\ Goes(c, s, "probe")

\* Raw evidence without its own lane: refused, whether its marker is gone or not.
Probe(c) ==
  LET s == call[c] IN
  /\ At(c, "probe") /\ UNCHANGED <<disk, events>> /\ Kept
  /\ \/ /\ \E w \in outputs[s.req.out] : Marker(w) \in markers
        /\ Becomes(c, RecordFailure(Raise([s EXCEPT !.fence = "probing"], "lifetime", "inner"), "lifetime"))
     \/ /\ \A w \in outputs[s.req.out] : Marker(w) \notin markers
        /\ Becomes(c, Raise([s EXCEPT !.fence = "absent"], "ordinary", "inner"))

Selection(c) == At(c, "selection") /\ Makes(c, "selection", "validate", "inner") /\ Kept

\* One validation of the selected material; a finding refuses the lane.
Validate(c) ==
  /\ At(c, "validate") /\ UNCHANGED disk /\ Kept
  /\ \/ Clear(call[c]) /\ Goes(c, call[c], "reserve") /\ UNCHANGED events
     \/ ~Clear(call[c]) /\ Becomes(c, Raise(call[c], CheckError(call[c]), "inner")) /\ UNCHANGED events
     \/ Charge /\ \E k \in Errors : Becomes(c, Raise(call[c], k, "inner"))

Reserve(c) ==
  LET s == call[c] IN
  /\ At(c, "reserve") /\ UNCHANGED disk /\ Kept
  /\ \/ /\ outputs[s.req.out] = {} /\ UNCHANGED events
        /\ Goes(c, [s EXCEPT !.files = "new", !.fence = "new"], "acquire")
     \/ outputs[s.req.out] # {} /\ Becomes(c, Raise(s, "ordinary", "inner")) /\ UNCHANGED events
     \/ Charge /\ \E k \in Errors : Becomes(c, Raise(s, k, "inner"))

-----------------------------------------------------------------------------
(* The lane's files, the marker, the command.                              *)

\* StoreLaneFiles.acquire: the directory of this call's nonce.
Acquire(c) ==
  LET s == [call[c] EXCEPT !.files = "acquiring"] IN
  /\ At(c, "acquire") /\ UNCHANGED <<markers, inputs>> /\ Kept
  /\ \/ /\ Clear(s) /\ dirs' = dirs \cup {c} /\ UNCHANGED events
        /\ Goes(c, [s EXCEPT !.files = "acquired"], "fence")
     \/ ~Clear(s) /\ OwnerFails(c, s, CheckError(s)) /\ UNCHANGED <<dirs, events>>
     \/ /\ Charge /\ \E k \in Errors : OwnerFails(c, s, k)
        /\ dirs' \in MayExist(dirs, c)

\* StoreLaneAttempt.acquire: the exclusive marker, written, synced and read back.
Fence(c) ==
  LET s == [call[c] EXCEPT !.fence = "acquiring"]
      free == Clear(s) /\ Marker(c) \notin markers
  IN
  /\ At(c, "fence") /\ UNCHANGED <<dirs, inputs>> /\ Kept
  /\ \/ /\ free /\ markers' = markers \cup {Marker(c)} /\ UNCHANGED events
        /\ Goes(c, [s EXCEPT !.fence = "pending"], "environment")
     \/ /\ ~free /\ UNCHANGED <<markers, events>>
        /\ OwnerFails(c, s, IF Clear(s) THEN "lifetime" ELSE CheckError(s))
     \/ /\ free /\ Charge /\ \E k \in Errors : OwnerFails(c, s, k)
        /\ markers' \in MayExist(markers, Marker(c))

Environment(c) ==
  LET s == [call[c] EXCEPT !.files = "sealing"] IN
  /\ At(c, "environment") /\ UNCHANGED disk /\ Kept
  /\ \/ Clear(s) /\ Goes(c, [s EXCEPT !.files = "prepared"], "admit") /\ UNCHANGED events
     \/ ~Clear(s) /\ OwnerFails(c, s, CheckError(s)) /\ UNCHANGED events
     \/ Charge /\ \E k \in Errors : OwnerFails(c, s, k)

\* The snapshot is checked once more; a changed one is an ordinary refusal.
Admit(c) ==
  /\ At(c, "admit") /\ UNCHANGED disk /\ Kept
  /\ \/ Goes(c, call[c], "seal") /\ UNCHANGED events
     \/ Charge /\ \E k \in Errors : Becomes(c, Raise(call[c], k, "finish"))

AdmittedOwner(s) == s.fence = "pending" /\ s.files = "prepared"

\* seal_command and the engine's admission: one use, nothing failed before.
Seal(c) ==
  LET s == [call[c] EXCEPT !.sealed = TRUE]
      admitted == Clear(s) /\ ~s.failed /\ ~s.finished /\ AdmittedOwner(s)
  IN
  /\ At(c, "seal") /\ UNCHANGED disk /\ Kept
  /\ \/ admitted /\ Goes(c, [s EXCEPT !.attempted = TRUE], "running") /\ UNCHANGED events
     \/ ~admitted /\ OwnerFails(c, s, CheckError(s)) /\ UNCHANGED events
     \/ Charge /\ \E k \in Errors : OwnerFails(c, s, k)

-----------------------------------------------------------------------------
(* The lane and the owned command that runs it.                            *)

LaneIs(c, l) == lane' = [lane EXCEPT ![c] = l]
Unmoved == UNCHANGED <<call, disk, evidence>>

EngineStarts(c) ==
  /\ At(c, "running") /\ lane[c].at = "none" /\ LaneIs(c, [NoLane EXCEPT !.at = "running"])
  /\ Unmoved /\ UNCHANGED <<outputs, events>>

LaneSpawns(c) ==
  /\ lane[c].at = "running" /\ ~lane[c].nested /\ ~lane[c].wrote /\ ~lane[c].error
  /\ lane[c].terminal = "none" /\ LaneIs(c, [lane[c] EXCEPT !.nested = TRUE])
  /\ Unmoved /\ UNCHANGED <<outputs, events>>

NestedEnds(c) ==
  /\ lane[c].nested /\ LaneIs(c, [lane[c] EXCEPT !.nested = FALSE])
  /\ Unmoved /\ UNCHANGED <<outputs, events>>

\* The document is created exclusively.
LaneWrites(c) ==
  /\ lane[c].at = "running" /\ ~lane[c].nested /\ ~lane[c].error /\ ~lane[c].wrote
  /\ outputs[call[c].req.out] = {}
  /\ outputs' = [outputs EXCEPT ![call[c].req.out] = {c}]
  /\ LaneIs(c, [lane[c] EXCEPT !.wrote = TRUE])
  /\ Unmoved /\ UNCHANGED events

\* An ordinary error of the lane.
LaneErrs(c) ==
  /\ lane[c].at = "running" /\ lane[c].terminal = "none" /\ ~lane[c].error
  /\ LaneIs(c, [lane[c] EXCEPT !.error = TRUE]) /\ Unmoved /\ UNCHANGED <<outputs, events>>

\* The terminal: nothing nested is left, no launch can follow.
LaneReports(c) ==
  LET l == lane[c] IN
  /\ l.at = "running" /\ ~l.nested /\ l.terminal = "none" /\ (l.wrote \/ l.error)
  /\ LaneIs(c, [l EXCEPT !.terminal = IF l.error THEN "failed" ELSE "receipt"])
  /\ Unmoved /\ UNCHANGED <<outputs, events>>

LaneExits(c) ==
  LET l == lane[c] IN
  /\ l.at = "running" /\ l.terminal # "none"
  /\ LaneIs(c, [l EXCEPT !.at = "gone", !.code = IF l.terminal = "receipt" THEN "ok" ELSE "settled"])
  /\ Unmoved /\ UNCHANGED <<outputs, events>>

\* Exit 76, a crash, or the engine's own kill: the native upload may go on.
LaneBreaks(c) ==
  LET l == lane[c] IN
  /\ l.at = "running" /\ (Charge \/ (call[c].cancelled /\ UNCHANGED events))
  /\ \E code \in {"other", "signal"} : LaneIs(c, [l EXCEPT !.at = "gone", !.code = code])
  /\ Unmoved /\ UNCHANGED outputs

\* run_owned ends; its error is remembered before the terminal is looked at.
EngineEnds(c, s, k) ==
  Goes(c, IF k = "none" THEN s ELSE Remember([s EXCEPT !.raised = k], k), "terminal")

EngineReturns(c) ==
  LET s == [call[c] EXCEPT !.outcome = lane[c].code] IN
  /\ At(c, "running") /\ lane[c].at = "gone" /\ UNCHANGED <<disk, events>> /\ Kept
  /\ EngineEnds(c, s, IF s.cancelled THEN "interrupt"
                      ELSE IF s.outcome = "signal" THEN "ordinary" ELSE "none")

\* No target was ever started.
EngineRefuses(c) ==
  LET s == [call[c] EXCEPT !.outcome = "refused"] IN
  /\ At(c, "running") /\ lane[c].at = "none" /\ UNCHANGED disk /\ Kept
  /\ \/ s.cancelled /\ UNCHANGED events /\ EngineEnds(c, s, "interrupt")
     \/ Charge /\ EngineEnds(c, s, "ordinary")

\* The command cannot say that its group is gone, or its own cleanup failed.
EngineLoses(c) ==
  LET s == Abort(call[c]) IN
  /\ At(c, "running") /\ Charge /\ UNCHANGED disk /\ Kept
  /\ \/ EngineEnds(c, [s EXCEPT !.outcome = "unknown", !.contained = FALSE], "lifetime")
     \/ lane[c].at = "gone" /\ EngineEnds(c, [s EXCEPT !.outcome = "dirty"], "lifetime")

-----------------------------------------------------------------------------
(* After the lane.                                                         *)

\* Mutant: any other exit is taken for a settled failure.
SeenTerminal_ByExit(c) == IF call[c].outcome = "ok" THEN lane[c].terminal ELSE "failed"

\* Only the original 0 or 75 binds a terminal, and it must say the same.
SeenTerminal(c) == IF call[c].outcome \in {"ok", "settled"} THEN lane[c].terminal ELSE "none"

Terminal(c) ==
  LET s == [call[c] EXCEPT !.files = "reading"]
      seen == SeenTerminal(c)
      late == IF s.outcome = "ok" THEN "none" ELSE "ordinary"
      raised(r) == [r EXCEPT !.raised = IF @ = "none" THEN late ELSE @]
  IN
  /\ At(c, "terminal") /\ UNCHANGED disk /\ Kept
  /\ \/ /\ s.outcome = "refused" /\ UNCHANGED events
        /\ Goes(c, raised([s EXCEPT !.files = "no_target"]), "finish")
     \/ /\ seen # "none" /\ ~s.failed /\ UNCHANGED events
        /\ Goes(c, raised([s EXCEPT !.files = "observed", !.terminal = seen]), "finish")
     \/ /\ s.outcome # "refused" /\ (seen = "none" \/ s.failed) /\ UNCHANGED events
        /\ OwnerFails(c, s, "lifetime")
     \/ Charge /\ \E k \in Errors : OwnerFails(c, s, k)

FinishLane(c) ==
  /\ At(c, "finish") /\ Goes(c, Finish(call[c], call[c].raised), "dispose")
  /\ UNCHANGED <<disk, events>> /\ Kept

\* dispose: nothing is deleted while a dependent may live.
Dispose(c) ==
  LET s == call[c]
      admitted == DependentsSettled(s) /\ s.files \in {"acquired", "prepared", "no_target", "observed"}
      fails(k) == Becomes(c, RecordFailure(Raise(s, k, "release"), k))
  IN
  /\ At(c, "dispose") /\ UNCHANGED <<markers, inputs>> /\ Kept
  /\ \/ /\ admitted /\ dirs' = dirs \ {c} /\ UNCHANGED events
        /\ Goes(c, [s EXCEPT !.files = "disposed"], "release")
     \/ ~admitted /\ fails("lifetime") /\ UNCHANGED <<dirs, events>>
     \/ admitted /\ Charge /\ (\E k \in Errors : fails(k)) /\ dirs' \in MayRemain(dirs, c)

Release(c) ==
  LET s == call[c]
      leaves(r) == Goes(c, [r EXCEPT !.raised = IF @ = "none" THEN @ ELSE Projected(r, @)], "inner")
  IN
  /\ At(c, "release") /\ UNCHANGED disk /\ Kept
  /\ \/ leaves(s) /\ UNCHANGED events
     \/ Charge /\ \E k \in Errors : leaves(Remember(Raise(s, k, "inner"), k))

\* Where the scope of a private input leads to.
OutOf(role, s) ==
  [s EXCEPT !.pc = IF role = "snapshot" THEN "custody-close"
                   ELSE IF s.raised = "none" THEN "policy" ELSE "close"]

\* FiniteScratch.cleanup under its scope, and the check behind it.
Closes(c, role) ==
  LET s == Finish(call[c], call[c].raised)
      out(r) == IF Clear(r) THEN r ELSE CloseError(r, CheckError(r))
      kept == Abort([s EXCEPT ![role] = "kept"])
  IN \/ /\ s[role] # "made" /\ Becomes(c, OutOf(role, s)) /\ UNCHANGED <<disk, events>>
     \/ /\ s[role] = "made" /\ DependentsSettled(s) /\ inputs' = inputs \ {<<c, role>>}
        /\ Becomes(c, OutOf(role, out([s EXCEPT ![role] = "closed"]))) /\ UNCHANGED <<markers, dirs, events>>
     \/ /\ s[role] = "made" /\ ~DependentsSettled(s)
        /\ Becomes(c, OutOf(role, CloseError(kept, "lifetime"))) /\ UNCHANGED <<disk, events>>
     \/ /\ s[role] = "made" /\ DependentsSettled(s) /\ Charge
        /\ inputs' \in MayRemain(inputs, <<c, role>>) /\ UNCHANGED <<markers, dirs>>
        /\ \E k \in Errors : Becomes(c, OutOf(role, CloseError(Latched(kept, k), k)))

\* The scope of _store_operation: the selected material, never the marker.
Inner(c) == At(c, "inner") /\ Closes(c, "selection") /\ Kept

\* What the stage checks of the provisional document before it is final.
Policy(c) ==
  /\ At(c, "policy") /\ UNCHANGED disk /\ Kept
  /\ \/ Goes(c, call[c], "close") /\ UNCHANGED events
     \/ Charge /\ \E k \in Errors : Becomes(c, Raise(call[c], k, "close"))

CloseInputs(c) == At(c, "close") /\ Closes(c, "snapshot") /\ Kept

CloseCustody(c) ==
  LET s == Finish(call[c], call[c].raised)
      out(r) == IF Clear(r) THEN r ELSE CloseError(r, CheckError(r))
  IN
  /\ At(c, "custody-close") /\ UNCHANGED disk /\ Kept
  /\ \/ s.custody # "held" /\ Goes(c, s, "settle") /\ UNCHANGED events
     \/ s.custody = "held" /\ Goes(c, out([s EXCEPT !.custody = "closed"]), "settle") /\ UNCHANGED events
     \/ /\ s.custody = "held" /\ Charge
        /\ \E k \in Errors : Goes(c, CloseError(Latched([s EXCEPT !.custody = "broken"], k), k), "settle")

CustodyClosed(s) == s.custody = "closed"
RoleClosed(s, role) == s[role] \in {"none", "closed"}

\* settle_store_operation: the marker goes last.
Settleable(s) ==
  /\ CustodyClosed(s) /\ \A role \in Roles : RoleClosed(s, role)
  /\ DependentsSettled(s) /\ ~s.fatal /\ s.files \in {"none", "disposed"}
  /\ s.fence \in {"pending", "none"} \/ (~s.attempted /\ s.fence \in {"new", "absent"})

SettleFails(s, k) == CloseError(RecordFailure(Latched(s, k), k), k)

\* Mutant: a marker that could not be removed passes for a retired one.
RetireFails_Ignored(s, k) == [s EXCEPT !.fence = "retired"]

\* The lost removal of a marker is never repeated.
RetireFails(s, k) == SettleFails([s EXCEPT !.fence = "retiring"], k)

Settle(c) ==
  LET s == call[c]
      ends(r) == [r EXCEPT !.pc = IF r.raised = "none" THEN "accept" ELSE "restore"]
  IN
  /\ At(c, "settle") /\ UNCHANGED <<dirs, inputs>> /\ Kept
  /\ \/ /\ Settleable(s) /\ s.fence = "pending" /\ markers' = markers \ {Marker(c)} /\ UNCHANGED events
        /\ Becomes(c, ends([s EXCEPT !.fence = "retired"]))
     \/ /\ Settleable(s) /\ s.fence # "pending"
        /\ Becomes(c, ends(s)) /\ UNCHANGED <<markers, events>>
     \/ ~Settleable(s) /\ Becomes(c, ends(SettleFails(s, "lifetime"))) /\ UNCHANGED <<markers, events>>
     \/ /\ Settleable(s) /\ s.fence = "pending" /\ Charge
        /\ markers' \in MayRemain(markers, Marker(c))
        /\ \E k \in Errors : Becomes(c, ends(RetireFails(s, k)))

\* complete_store_operation: require_receipt, then the guard's own check.
Accept(c) ==
  LET s == call[c] IN
  /\ At(c, "accept") /\ UNCHANGED <<disk, events>> /\ Kept
  /\ \/ Acceptable(s) /\ Clear(s) /\ Goes(c, s, "publish")
     \/ /\ ~(Acceptable(s) /\ Clear(s))
        /\ Becomes(c, Raise(s, IF Clear(s) THEN "lifetime" ELSE CheckError(s), "restore"))

Publish(c) ==
  LET s == call[c] IN
  /\ At(c, "publish") /\ UNCHANGED <<disk, lane, outputs>>
  /\ \/ /\ Clear(s) /\ evidence' = evidence \cup {c} /\ Goes(c, s, "restore") /\ UNCHANGED events
     \/ ~Clear(s) /\ Becomes(c, Raise(s, CheckError(s), "restore")) /\ UNCHANGED <<evidence, events>>
     \/ Charge /\ (\E k \in Errors : Becomes(c, Raise(s, k, "restore"))) /\ UNCHANGED evidence

\* Mutant: the error that left decides, not what the ledger knows.
Verdict_ByError(s) ==
  IF s.raised = "interrupt" \/ (s.raised = "none" /\ s.cancelled) THEN "interrupt"
  ELSE IF s.raised = "lifetime" THEN "fatal" ELSE IF s.raised = "none" THEN "ok" ELSE "ordinary"

\* The handlers go back; what leaves the process is the first interruption, or
\* the ledger's fatal fact, or the first error.
Verdict(s) ==
  IF s.raised = "interrupt" \/ (s.raised = "none" /\ s.cancelled) THEN "interrupt"
  ELSE IF s.fatal \/ s.raised = "lifetime" THEN "fatal"
  ELSE IF s.raised = "none" THEN "ok" ELSE "ordinary"

Restore(c) ==
  LET ends(s) == Becomes(c, [s EXCEPT !.pc = "done", !.exit = Verdict(s)])
      unknown == [call[c] EXCEPT !.handlers = "unknown"]
  IN
  /\ At(c, "restore") /\ UNCHANGED disk /\ Kept
  /\ \/ ends([call[c] EXCEPT !.handlers = "restored"]) /\ UNCHANGED events
     \/ Charge /\ \E k \in Errors : ends(Abort(Raise(unknown, k, "restore")))

-----------------------------------------------------------------------------
(* Signals and deaths.                                                     *)

Runs(c) == call[c].pc \notin {"idle", "done", "dead"}

\* A signal that comes while delivery is deferred.
Signal(c) ==
  /\ Runs(c) /\ ~call[c].cancelled /\ Charge
  /\ Becomes(c, [call[c] EXCEPT !.cancelled = TRUE]) /\ UNCHANGED disk /\ Kept

Kill(c) ==
  /\ Runs(c) /\ Charge
  /\ Becomes(c, [call[c] EXCEPT !.pc = "dead", !.exit = "killed"]) /\ UNCHANGED disk /\ Kept

Step(c) ==
  \/ Start(c) \/ Custody(c) \/ Inputs(c) \/ Enter(c) \/ Probe(c) \/ Selection(c) \/ Validate(c) \/ Reserve(c)
  \/ Acquire(c) \/ Fence(c) \/ Environment(c) \/ Admit(c) \/ Seal(c)
  \/ EngineReturns(c) \/ EngineRefuses(c) \/ EngineLoses(c)
  \/ Terminal(c) \/ FinishLane(c) \/ Dispose(c) \/ Release(c) \/ Inner(c) \/ Policy(c)
  \/ CloseInputs(c) \/ CloseCustody(c) \/ Settle(c) \/ Accept(c) \/ Publish(c) \/ Restore(c)

LaneStep(c) ==
  \/ EngineStarts(c) \/ LaneSpawns(c) \/ NestedEnds(c) \/ LaneWrites(c) \/ LaneErrs(c)
  \/ LaneReports(c) \/ LaneExits(c) \/ LaneBreaks(c)

Next == \E c \in Calls : Step(c) \/ LaneStep(c) \/ Signal(c) \/ Kill(c)

Spec == Init /\ [][Next]_vars

=============================================================================
