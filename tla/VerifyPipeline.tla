---------------------------- MODULE VerifyPipeline ----------------------------
(***************************************************************************)
(* The verification of one commit (main, execute_pipeline, the perform_*   *)
(* gates and finalize_report in .github/scripts/verify_ci.py): inputs,     *)
(* admission of the session, a fixed list of gates, the disposal of the    *)
(* work, the close of the session, the published summary and the exit.     *)
(*                                                                         *)
(* A gate is the list of its parts; a part is an operation of              *)
(* SandboxSession or NativePhases.  Commands that are run alike are one    *)
(* part, gates that have the same parts and sit side by side one gate.     *)
(***************************************************************************)
EXTENDS NativePhases

CONSTANTS
  Verifications   \* the platforms and gate lists that are looked at

ASSUME VerificationsAssumption ==
  \A v \in Verifications : v.platform \in Platforms /\ v.gates \in Seq(STRING)

VARIABLES
  out          \* the report: gates passed, the proof, the verdicts, the exit

vars == <<sessionVars, nativeVars, out>>

-----------------------------------------------------------------------------
(* The parts of admission and of every gate.                               *)

Command == <<"touch", "capture">>
Inspection == <<"touch">>
NativeABI == <<"touch", "capture", "touch", "capture", "touch", "capture">>
NativeABIWheel == <<"touch", "capture">>
Compatibility == <<"touch", "capture", "capture">>
PythonGate == <<"touch", "singleton", "capture">>
PartitionedRuby == <<"touch", "capture", "singleton">>
PackagedRuby == <<"touch", "capture", "touch", "capture", "touch">>
StoreLane == <<"touch", "capture", "touch", "touch", "capture", "touch">>
Matrix == <<"touch", "capture", "touch", "capture", "touch", "idle", "proof">>
SigningAdapter == <<"touch", "capture", "touch", "capture", "touch", "idle">>
BoundaryControls == <<"control", "signal-control">>
ServiceControls == <<"control">>
NativeProfile(controls) ==
  <<"touch", "prepare">> \o BoundaryControls \o controls
    \o <<"prepared", "fixtures", "native", "capture", "verify", "singleton", "verify">>

GateParts(gate) ==
  CASE gate = "abi-source" -> NativeABI
    [] gate = "abi-wheel" -> NativeABIWheel
    [] gate = "compat-source" -> Compatibility
    [] gate = "python-full" -> PythonGate
    [] gate = "ruby-native-capture" -> PartitionedRuby
    [] gate = "packaged-wheel" -> PackagedRuby
    [] gate \in {"store-source", "store-wheel"} -> StoreLane
    [] gate = "local-signing-matrix" -> Matrix
    [] gate = "local-signing-adapter" -> SigningAdapter
    [] gate = "native-profile-source" -> NativeProfile(ServiceControls)
    [] gate = "native-profile-wheel" -> NativeProfile(<<>>)
    [] gate \in {"source-copy", "source-integrity"} -> Inspection
    [] OTHER -> Command

LinuxBoundary == <<"ns-open", "ns-write", "ns-verify", "provider", "check">>
MacBoundary == <<"home-pin", "canary", "sibling", "socket", "home-positive">>
Isolation == <<"write-positive", "probe">>
Signals == <<"sentinel", "signal">>
Collector == <<"passing", "nonzero", "timeout", "cancel", "held-pipe">>
Retained == <<"retained">>
OwnerLoss == <<"owner-loss">>
Observer == <<"observer", "idle">>

AdmissionPlan ==
  IF job.platform = "linux"
    THEN <<"check">> \o LinuxBoundary \o Isolation \o Collector \o Retained \o OwnerLoss \o <<"idle">>
    ELSE <<"check">> \o MacBoundary \o Isolation \o Signals \o Collector \o Retained \o OwnerLoss
           \o <<"idle">> \o Observer

Parts ==
  CASE at.ctx = "inputs" -> <<"check">>
    [] at.ctx = "admit" -> AdmissionPlan
    [] at.ctx = "tools" -> <<"touch", "capture">>
    [] at.ctx = "gate" -> GateParts(job.gates[at.gate])
    [] at.ctx = "end" -> <<"touch">>

\* The gates of a phase refuse to run without what an earlier one retained.
Needs(gate) ==
  CASE gate \in {"abi-wheel", "compat-source", "ruby-native-capture", "store-source"} -> {"abi-source"}
    [] gate = "store-wheel" -> {"abi-wheel", "store-source"}
    [] OTHER -> {}

Init ==
  /\ job \in Verifications /\ SessionInit /\ NativeInit
  /\ job.platform = "linux" => w.mode0 = "narrow"
  /\ job.platform = "darwin" => w.ns0 = "on"
  /\ out = [passed |-> {}, ok |-> FALSE, published |-> "none", exit |-> "none", proof |-> FALSE]

-----------------------------------------------------------------------------
(* main                                                                    *)

Begins(ctx, gate, op) == [pc |-> "do", ctx |-> ctx, gate |-> gate, part |-> 1, op |-> op]

\* The constructor arms the alarm of the whole verification.
OpenSession ==
  /\ at.pc = "open" /\ Free /\ w' = [w EXCEPT !.alarm = "armed"]
  /\ at' = Begins("inputs", 0, "check")
  /\ UNCHANGED <<job, s, b, r, seen, nativeVars, out>>

OpenFails ==
  /\ at.pc = "open" /\ Charge /\ Goto("done") /\ out' = [out EXCEPT !.exit = "red"]
  /\ UNCHANGED <<job, s, b, r, w, seen, nativeVars>>

\* A statement that launches nothing of the reserved identity, or a trusted one.
Check ==
  /\ Doing("check") /\ UNCHANGED <<job, s, b, r, w, seen, nativeVars, out>>
  /\ \/ Free /\ Goto("next")
     \/ Charge /\ Raise

Ended == at.pc = "next" /\ at.part = Len(Parts)

Advance ==
  /\ at.pc = "next" /\ at.part < Len(Parts) /\ Free
  /\ at' = [at EXCEPT !.pc = "do", !.part = @ + 1, !.op = Parts[at.part + 1]]
  /\ UNCHANGED <<job, s, b, r, w, seen, nativeVars, out>>

InputsDone ==
  /\ at.ctx = "inputs" /\ Ended /\ UNCHANGED <<job, b, r, w, seen, events, nativeVars, out>>
  /\ \/ Guarded /\ at' = Begins("admit", 0, AdmissionPlan[1]) /\ UNCHANGED s
     \/ ~Guarded /\ s' = Failed(s) /\ Raise

Admitted ==
  /\ at.ctx = "admit" /\ Ended /\ Free /\ at' = Begins("tools", 0, "touch")
  /\ s' = [s EXCEPT !.admitted = TRUE]
  /\ UNCHANGED <<job, b, r, w, seen, nativeVars, out>>

ToolsDone ==
  /\ at.ctx = "tools" /\ Ended /\ Free
  /\ at' = Begins("gate", 1, GateParts(job.gates[1])[1])
  /\ seen' = [seen EXCEPT !.stained = FALSE]
  /\ UNCHANGED <<job, s, b, r, w, nativeVars, out>>

\* execute_pipeline: the gate has a result and the next one is performed.
GatePass ==
  /\ at.ctx = "gate" /\ Ended /\ Free /\ UNCHANGED <<job, s, b, r, w, nativeVars>>
  /\ out' = [out EXCEPT !.passed = @ \cup {job.gates[at.gate]}]
  /\ seen' = [seen EXCEPT !.stained = FALSE]
  /\ LET next == at.gate + 1 IN
       IF at.gate = Len(job.gates)
         THEN at' = Begins("end", 0, "touch")
         ELSE /\ Needs(job.gates[next]) \subseteq out'.passed
              /\ at' = Begins("gate", next, GateParts(job.gates[next])[1])

\* publish_matrix_proof: the proof may exist although its publication failed.
Proof ==
  /\ Doing("proof") /\ UNCHANGED <<job, s, b, r, w, seen, nativeVars>>
  /\ \/ ~w.late /\ Free /\ out' = [out EXCEPT !.proof = TRUE] /\ Goto("next")
     \/ (IF w.late THEN Free ELSE Charge) /\ Raise
        /\ \E made \in BOOLEAN : out' = [out EXCEPT !.proof = made]

\* Work and inputs are gone.
AllRemoved ==
  /\ at.ctx = "end" /\ Ended /\ Free /\ UNCHANGED <<job, s, b, r, w, seen, nativeVars>>
  /\ IF w.late THEN Raise /\ UNCHANGED out
               ELSE Goto("close") /\ out' = [out EXCEPT !.ok = TRUE]

\* The except clauses of admit and of a native phase run before main's own.
Raised ==
  /\ at.pc = "raised" /\ ~Unresolved /\ Free /\ Goto("caught")
  /\ s' = IF at.ctx = "admit" THEN [s EXCEPT !.failure = TRUE, !.admitted = FALSE] ELSE s
  /\ UNCHANGED <<job, b, r, w, seen, nativeVars, out>>

Caught ==
  /\ at.pc = "caught" /\ Free /\ Goto("close") /\ s' = Failed(s)
  /\ out' = [out EXCEPT !.ok = FALSE] /\ seen' = [seen EXCEPT !.stained = FALSE]
  /\ UNCHANGED <<job, b, r, w, nativeVars>>

\* The deadline surfaced in main's except clause: nothing is closed.
Escaped ==
  /\ at.pc = "escaped" /\ Free /\ Goto("done") /\ out' = [out EXCEPT !.exit = "red"]
  /\ UNCHANGED <<job, s, b, r, w, seen, nativeVars>>

-----------------------------------------------------------------------------
(* finalize_report                                                         *)

Verdict == out.ok /\ s.idle /\ ~s.failure /\ ~s.errors

\* The verdict after the close, and the summary that names it.
Publish ==
  /\ at.pc = "publish" /\ Goto("finish") /\ UNCHANGED <<job, s, b, r, w, seen, nativeVars>>
  /\ LET colour == IF Verdict THEN "green" ELSE "red" IN
     \/ ~w.late /\ Free /\ out' = [out EXCEPT !.ok = Verdict, !.published = colour]
     \/ (IF w.late THEN Free ELSE Charge)
        /\ \E text \in {"none", colour} : out' = [out EXCEPT !.ok = FALSE, !.published = text]

\* Mutant: the exit is the verdict that was published.
Exit_Published(faulty) == IF out.ok THEN "green" ELSE "red"

Exit(faulty) == IF out.ok /\ ~s.failure /\ ~s.errors /\ ~w.late /\ ~faulty THEN "green" ELSE "red"

\* The timer and the signal handlers are given back, then the exit is decided.
Finish ==
  /\ at.pc = "finish" /\ Goto("done") /\ UNCHANGED <<job, b, r, w, seen, nativeVars>>
  /\ \E faulty \in BOOLEAN :
       /\ IF faulty THEN Charge ELSE Free
       /\ s' = [s EXCEPT !.finished = TRUE, !.errors = @ \/ faulty, !.failure = @ \/ faulty \/ w.late]
       /\ out' = [out EXCEPT !.exit = Exit(faulty)]

Terminated == at.pc = "done" /\ UNCHANGED vars

Main ==
  \/ OpenSession \/ OpenFails \/ Check \/ Advance \/ InputsDone \/ Admitted \/ ToolsDone
  \/ GatePass \/ Proof \/ AllRemoved \/ Raised \/ Caught \/ Escaped \/ Publish \/ Finish

Session == Controller /\ UNCHANGED <<nativeVars, out>>
Native == NativeController /\ UNCHANGED out
Others == \/ Machine /\ UNCHANGED <<nativeVars, out>>
          \/ SubjectMeddles /\ UNCHANGED out

Next == Main \/ Session \/ Native \/ Others \/ Terminated

Spec == Init /\ [][Next]_vars

Apart == UNCHANGED <<nativeVars, out>>

\* The controller runs; a killed child, helpers and namespaces end; the clock
\* goes on.
FairSpec ==
  /\ Spec /\ WF_vars(Main \/ Session \/ Native)
  /\ WF_vars(SubjectEnds /\ r.kill /\ Apart) /\ WF_vars(NamespaceEnds /\ Apart)
  /\ WF_vars(HelperEnds /\ Apart) /\ WF_vars(RunClock /\ Apart)

-----------------------------------------------------------------------------
(* Properties                                                              *)

TypeOK ==
  /\ job \in Verifications
  /\ s \in [DOMAIN NewSession -> BOOLEAN] /\ events \in 0..MaxEvents
  /\ out.passed \subseteq {job.gates[i] : i \in DOMAIN job.gates}
  /\ out.exit \in {"none", "green", "red"} /\ out.published \in {"none", "green", "red"}
  /\ f.tree \in {"none", "ours", "partial", "changed", "removed"}

Gates == {job.gates[i] : i \in DOMAIN job.gates}

\* A green exit is earned: every gate passed, no process can still write, and
\* nothing the session changed or made is left behind (finalize_report, close).
GreenIsTrue ==
  out.exit = "green" =>
    /\ out.passed = Gates /\ out.published = "green" /\ ~s.cancelled /\ ~CouldWrite
    /\ w.ns0 = "on" => w.ns # "zero"
    /\ w.mode0 = "narrow" => w.mode # "search"
    /\ \A x \in Nodes : w.node[x] # "ours"
    /\ f.tree \in {"none", "removed"}
    /\ "local-signing-matrix" \in Gates => out.proof

\* On linux no process of the reserved identity runs while user namespaces
\* are allowed as they were (ci_sandbox: _assert_userns, _close_userns_boundary),
\* and no produced tree is copied, hashed, frozen or removed while one may still
\* write it (ensure_idle).
ProcessesStayConfined ==
  /\ job.platform = "linux" /\ w.ns0 = "on" /\ Domain => w.ns # "on"
  /\ ~seen.touched

\* A gate passes, and the proof appears, only when every process the gate ran
\* succeeded, none is left, and the files a native phase checked are still the
\* controller's own (the perform_* gates).
PassIsTrue ==
  [][ out'.passed # out.passed \/ (out'.proof /\ ~out.proof)
        => /\ ~seen.stained /\ ~CouldWrite
           /\ at.op = "verify" => f.tree = "ours" ]_vars

\* What others put in place of the session's own is never undone: a foreign
\* node, a drifted limit, a changed file (the two boundaries, checked files).
ForeignStays ==
  [][ /\ \A x \in Nodes : w.node[x] = "foreign" => w'.node[x] = "foreign"
      /\ at.pc = "c_ns" /\ w.ns = "drift" => w'.ns = "drift"
      /\ at.pc = "c_home" /\ w.mode = "drift" => w'.mode = "drift"
      /\ f.tree \in {"changed", "partial"} => f'.tree # "removed" ]_vars

\* Every verification ends with an exit, whatever its commands do.
VerificationEnds == <>(at.pc = "done")

=============================================================================
