------------------------ MODULE VerifyPipeline_proofs ------------------------
(***************************************************************************)
(* What holds of every verification, whatever its gates: processes stay    *)
(* confined, a gate passes only on what it ran, what others put in place   *)
(* stays, and a green exit is earned.                                      *)
(*                                                                         *)
(* The argument follows the controller.  Planned ties every operation to   *)
(* its place in the plan; Quiet and Child say which processes there can be *)
(* at each place; Stained, Fenced, Recorded and Undone say what is known   *)
(* of the gate, of the limit on namespaces, of the custody and of the      *)
(* machine; Reported says that the report repeats it.                      *)
(***************************************************************************)
EXTENDS VerifyPipeline, TLAPS

\* The operations of the gates and those of the admission.
GateOps == {"touch", "capture", "singleton", "idle", "proof", "control", "signal-control",
            "prepare", "prepared", "fixtures", "native", "verify"}
LinuxOps == {"check", "ns-open", "ns-write", "ns-verify", "provider", "write-positive", "probe",
             "passing", "nonzero", "timeout", "cancel", "held-pipe", "retained", "owner-loss",
             "idle"}
MacOps == {"check", "home-pin", "canary", "sibling", "socket", "home-positive", "write-positive",
           "probe", "sentinel", "signal", "passing", "nonzero", "timeout", "cancel", "held-pipe",
           "retained", "owner-loss", "idle", "observer"}
Ops == GateOps \cup LinuxOps \cup MacOps \cup {"none"}

Contexts == {"open", "inputs", "admit", "tools", "gate", "end"}

\* Where the controller is: between parts and in one, in a capture, after a
\* failure, in close() and after it.
Working == {"do", "next", "touching"}
Helping == {"small", "lost"}
InRun == {"r_setup", "r_spawn", "r_own", "r_loop", "r_stop", "r_wait", "r_dispose", "r_settle",
            "r_end", "captured"}
Beaten == {"raised", "caught", "escaped"}
Closing == {"close", "c_census", "c_native", "c_files", "c_ns", "c_home"}
Ending == {"publish", "finish", "done"}

PCs == {"open"} \cup Working \cup Helping \cup InRun \cup Beaten \cup Closing \cup Ending

Places == [pc : PCs, ctx : Contexts, gate : Nat, part : Nat, op : Ops]
Sessions ==
  [failure : BOOLEAN, cancelled : BOOLEAN, closed : BOOLEAN, busy : BOOLEAN, active : BOOLEAN,
   pending : BOOLEAN, idle : BOOLEAN, admitted : BOOLEAN, errors : BOOLEAN, finished : BOOLEAN]
Limits == [made : BOOLEAN, fd : BOOLEAN, known : BOOLEAN, tried : BOOLEAN, ready : BOOLEAN,
           closed : BOOLEAN]
Homes == [made : BOOLEAN, pin : BOOLEAN, tried : BOOLEAN, ready : BOOLEAN, closed : BOOLEAN,
          node : [Nodes -> {"no", "tried", "owned"}]]
Custodies == [ns : Limits, home : Homes]
Watches == [stained : BOOLEAN, touched : BOOLEAN]
Runs == [held : BOOLEAN, waited : BOOLEAN, code : {"none", "ok", "short", "bad"}, eof : BOOLEAN,
         fail : BOOLEAN, errs : BOOLEAN, over : BOOLEAN, cut : BOOLEAN, grace : 0..2,
         kill : BOOLEAN, swept : BOOLEAN]
Worlds ==
  [leader : {"none", "live", "zombie"}, exit : {"ok", "short", "bad"},
   kin : {"none", "quiet", "holding"}, helper : {"none", "subject", "owner"},
   ns : {"on", "zero", "drift"}, ns0 : {"on", "zero"}, mode : {"narrow", "search", "drift"},
   mode0 : {"narrow", "search"}, node : [Nodes -> {"none", "ours", "foreign"}],
   late : BOOLEAN, alarm : {"none", "armed", "fired"}]
Files == [held : BOOLEAN, closed : BOOLEAN, prepared : BOOLEAN, phases : SUBSET Phases,
          seen : SUBSET Phases, tree : {"none", "ours", "partial", "changed", "removed"}]
Reports == [passed : SUBSET {job.gates[i] : i \in Nat}, ok : BOOLEAN,
            published : {"none", "green", "red"}, exit : {"none", "green", "red"}, proof : BOOLEAN]

Types ==
  /\ job \in Verifications /\ at \in Places /\ s \in Sessions /\ r \in Runs /\ w \in Worlds
  /\ b \in Custodies /\ seen \in Watches
  /\ f \in Files /\ out \in Reports

\* The part that is executed is the one the plan of its context names.
Planned ==
  /\ at.ctx = "open" => at.pc \in {"open", "done"}
  /\ at.pc = "open" => at.ctx = "open"
  /\ at.ctx # "open" => at.part \in 1..Len(Parts) /\ at.op = Parts[at.part]
  /\ at.pc \in InRun => at.op \in Captures
  /\ at.pc = "touching" => at.op \in {"touch", "provider"}
  /\ at.pc = "small" => at.op \in {"home-positive", "write-positive", "owner-loss", "signal",
                                   "signal-control"}
  /\ at.pc = "lost" => at.op = "owner-loss"

\* What may be executed in a context.
OpsHere ==
  /\ at.ctx = "inputs" => at.op = "check"
  /\ at.ctx = "tools" => at.op \in {"touch", "capture"}
  /\ at.ctx = "end" => at.op = "touch"
  /\ at.ctx = "gate" => at.op \in GateOps
  /\ at.ctx = "admit" /\ job.platform = "linux" => at.op \in LinuxOps
  /\ at.ctx = "admit" /\ job.platform # "linux" => at.op \in MacOps

\* Before the constructor of the session nothing has been changed.
Opening ==
  at.ctx = "open" =>
    /\ f.tree = "none" /\ out.exit # "green" /\ \A x \in Nodes : w.node[x] = "none"
    /\ w.ns0 = "on" => w.ns # "zero"
    /\ w.mode0 = "narrow" => w.mode # "search"

\* No process is left between two parts, but for the sentinel of the signal
\* controls; an owner of a child exists only in its own control, in custody.
Quiet ==
  /\ at.pc \in {"open"} \cup Working =>
       /\ w.leader = "none" /\ w.kin = "none"
       /\ w.helper # "none" => \/ at.pc = "next" /\ at.op = "sentinel"
                               \/ at.pc = "do" /\ at.op = "signal"
  /\ at.pc = "small" => w.leader = "none" /\ (at.op # "owner-loss" => w.kin = "none")
  /\ at.pc = "lost" => w.leader = "none" /\ w.helper = "none"
  /\ w.helper = "owner" => at.op = "owner-loss" /\ s.pending /\ at.pc \notin InRun

\* The capture knows of its child what is true of it.
Child ==
  /\ at.pc \in {"r_setup", "r_spawn"} => w.leader = "none"
  /\ at.pc \in {"r_setup", "r_spawn", "r_own"} => ~r.waited
  /\ at.pc \in InRun /\ r.waited => w.leader = "none"

\* A subject that did not succeed is seen, or is about to be, by the capture
\* that ran it: no gate goes on after it.
Stained ==
  at.ctx = "gate" /\ seen.stained =>
    /\ at.pc \notin Working \cup Helping
    /\ at.pc \in InRun => IF r.waited THEN r.code \in {"short", "bad"}
                                        ELSE w.leader = "zombie" /\ w.exit # "ok"

\* The limit has not been written yet.
Early ==
  \/ at.ctx \in {"open", "inputs"}
  \/ at.ctx = "admit" /\ at.part <= 3 /\ ~(at.part = 3 /\ at.pc = "next")

\* The limit on user namespaces is as it was only before the first process and
\* after the last one.
Fenced ==
  job.platform = "linux" /\ w.ns0 = "on" /\ w.ns = "on" =>
    /\ ~Domain /\ w.helper = "none"
    /\ at.pc \in {"c_home"} \cup Ending \/ Early

\* The boundary of the machine has been opened, in this admission.
Bounded ==
  /\ at.ctx = "admit" /\ at.pc \notin Beaten \cup Closing \cup Ending
  /\ at.part >= 3 \/ (at.part = 2 /\ at.pc = "next")

\* What was changed on the machine is recorded in the custody.
Recorded ==
  /\ Bounded /\ job.platform = "linux" => b.ns.made
  /\ Bounded /\ job.platform = "darwin" => b.home.made
  /\ w.ns = "zero" /\ w.ns0 = "on" => b.ns.made /\ b.ns.tried
  /\ w.mode = "search" /\ w.mode0 = "narrow" => b.home.made
  /\ \A x \in Nodes : w.node[x] = "ours" => b.home.made /\ b.home.node[x] \in {"tried", "owned"}

\* A session without a failure has put back and removed what it had to.
Undone ==
  /\ s.cancelled => s.failure
  /\ at.pc = "escaped" => s.failure
  /\ ~f.held => f.tree = "none" /\ ~f.closed
  /\ f.closed /\ at.pc \notin {"c_ns", "c_home"} \cup Ending => s.failure
  /\ ~s.failure =>
       /\ at.pc \in {"c_ns", "c_home"} \cup Ending => f.tree \in {"none", "removed"}
       /\ at.pc \in {"c_home"} \cup Ending => (w.ns0 = "on" => w.ns # "zero")
       /\ at.pc \in Ending => /\ w.mode0 = "narrow" => w.mode # "search"
                              /\ \A x \in Nodes : w.node[x] # "ours"

\* The gates that passed are those before the current one.
Counted ==
  /\ at.ctx \in {"open", "inputs", "admit", "tools"} => out.passed = {}
  /\ at.ctx = "gate" => at.gate >= 1 /\ out.passed = {job.gates[i] : i \in 1..(at.gate - 1)}
  /\ at.ctx = "end" => out.passed = Gates

\* The proof and the checked files were there when their part passed.
Earned ==
  /\ at.pc = "next" /\ at.op = "proof" => out.proof
  /\ at.pc \in Working \cup Helping \cup InRun /\ "local-signing-matrix" \in out.passed
       => out.proof
  /\ at.pc = "next" /\ at.op = "verify" => f.tree = "ours"

\* The report says what happened.
Reported ==
  /\ out.ok =>
       /\ at.ctx = "end" /\ at.pc \in Closing \cup Ending /\ ~CouldWrite
       /\ "local-signing-matrix" \in out.passed => out.proof
       /\ at.pc \in {"finish", "done"} => out.published = "green"
  /\ out.exit = "green" => at.pc = "done" /\ out.ok /\ ~s.failure

IInv ==
  /\ Types /\ Planned /\ Opening /\ Quiet /\ Child /\ Stained /\ Fenced /\ Recorded
  /\ Undone /\ Counted /\ Earned /\ Reported /\ ~seen.touched
-----------------------------------------------------------------------------
(* The plans: which operations they hold, and where.                       *)

\* The parts of any gate are operations of gates, and the first is a touch.
LEMMA GateShape ==
  ASSUME NEW gate
  PROVE  /\ Len(GateParts(gate)) \in Nat \ {0} /\ GateParts(gate)[1] = "touch"
         /\ \A i \in 1..Len(GateParts(gate)) : GateParts(gate)[i] \in GateOps
<1> DEFINE Shaped(p) == Len(p) \in Nat \ {0} /\ p[1] = "touch"
                        /\ \A i \in 1..Len(p) : p[i] \in GateOps
<1>1. /\ Shaped(NativeABI) /\ Shaped(NativeABIWheel)
      /\ Shaped(Compatibility) /\ Shaped(PythonGate) /\ Shaped(PartitionedRuby)
  BY DEF NativeABI, NativeABIWheel, Compatibility, PythonGate, PartitionedRuby, GateOps
<1>2. Shaped(PackagedRuby) /\ Shaped(StoreLane) /\ Shaped(Matrix) /\ Shaped(SigningAdapter)
  BY DEF PackagedRuby, StoreLane, Matrix, SigningAdapter, GateOps
<1>3. Shaped(Inspection) /\ Shaped(Command)
  BY DEF Inspection, Command, GateOps
<1>4. Shaped(NativeProfile(ServiceControls))
  <2> DEFINE p == NativeProfile(ServiceControls)
  <2>1. Len(p) = 12 /\ p[1] = "touch"
    BY SMTT(60) DEF NativeProfile, BoundaryControls, ServiceControls
  <2>2. \A i \in 1..12 : p[i] \in GateOps
    BY SMTT(60) DEF NativeProfile, BoundaryControls, ServiceControls, GateOps
  <2> HIDE DEF p
  <2>3. Shaped(p)
    BY <2>1, <2>2
  <2> QED BY <2>3 DEF p
<1>5. Shaped(NativeProfile(<<>>))
  <2> DEFINE p == NativeProfile(<<>>)
  <2>1. Len(p) = 11 /\ p[1] = "touch"
    BY SMTT(60) DEF NativeProfile, BoundaryControls
  <2>2. \A i \in 1..11 : p[i] \in GateOps
    BY SMTT(60) DEF NativeProfile, BoundaryControls, GateOps
  <2> HIDE DEF p
  <2>3. Shaped(p)
    BY <2>1, <2>2
  <2> QED BY <2>3 DEF p
<1>6. \/ GateParts(gate) \in {NativeABI, Compatibility, PythonGate, PartitionedRuby, PackagedRuby}
      \/ GateParts(gate) \in {StoreLane, Matrix, SigningAdapter, Inspection, Command}
      \/ GateParts(gate) \in {NativeProfile(ServiceControls), NativeProfile(<<>>), NativeABIWheel}
  BY Zenon DEF GateParts
<1> HIDE DEF Shaped
<1>7. Shaped(GateParts(gate))
  BY <1>1, <1>2, <1>3, <1>4, <1>5, <1>6
<1> QED BY <1>7 DEF Shaped

\* The proof is the last part of the signing matrix.
LEMMA MatrixShape ==
  LET p == GateParts("local-signing-matrix") IN Len(p) = 7 /\ p[7] = "proof"
<1>1. GateParts("local-signing-matrix") = Matrix
  BY DEF GateParts
<1> QED BY <1>1 DEF Matrix

LEMMA LinuxShape ==
  ASSUME job.platform = "linux"
  PROVE  /\ Len(AdmissionPlan) = 16 /\ AdmissionPlan[1] = "check" /\ AdmissionPlan[2] = "ns-open"
         /\ AdmissionPlan[3] = "ns-write" /\ AdmissionPlan[16] = "idle"
         /\ \A i \in 4..16 : AdmissionPlan[i] \in LinuxOps \ {"ns-open", "ns-write"}
<1> USE DEF AdmissionPlan, LinuxBoundary, Isolation, Collector, Retained, OwnerLoss
<1>1. /\ Len(AdmissionPlan) = 16 /\ AdmissionPlan[1] = "check" /\ AdmissionPlan[2] = "ns-open"
      /\ AdmissionPlan[3] = "ns-write" /\ AdmissionPlan[16] = "idle"
  BY SMTT(60)
<1>2. \A i \in 4..16 : AdmissionPlan[i] \in LinuxOps \ {"ns-open", "ns-write"}
  BY SMTT(60) DEF LinuxOps
<1> QED BY <1>1, <1>2

LEMMA MacShape ==
  ASSUME job.platform # "linux"
  PROVE  /\ Len(AdmissionPlan) = 20 /\ AdmissionPlan[1] = "check" /\ AdmissionPlan[2] = "home-pin"
         /\ AdmissionPlan[9] = "sentinel" /\ AdmissionPlan[10] = "signal"
         /\ AdmissionPlan[20] = "idle"
         /\ \A i \in 3..20 : AdmissionPlan[i] \in MacOps \ {"home-pin"}
         /\ \A i \in (3..20) \ {9} : AdmissionPlan[i] # "sentinel"
<1> USE DEF AdmissionPlan, MacBoundary, Isolation, Signals, Collector, Retained, OwnerLoss,
    Observer
<1>1. /\ Len(AdmissionPlan) = 20 /\ AdmissionPlan[1] = "check" /\ AdmissionPlan[2] = "home-pin"
      /\ AdmissionPlan[9] = "sentinel" /\ AdmissionPlan[10] = "signal"
      /\ AdmissionPlan[20] = "idle"
  BY SMTT(60)
<1>2. \A i \in 3..20 : AdmissionPlan[i] \in MacOps \ {"home-pin"}
  BY SMTT(60) DEF MacOps
<1>3. \A i \in (3..20) \ {9} : AdmissionPlan[i] # "sentinel"
  BY SMTT(60)
<1> QED BY <1>1, <1>2, <1>3

\* What stands where in the plan of the context.
LEMMA PartsShape ==
  ASSUME at.ctx \in Contexts \ {"open"}
  PROVE  /\ Len(Parts) \in Nat \ {0} /\ \A i \in 1..Len(Parts) : Parts[i] \in Ops
         /\ at.ctx = "inputs" => \A i \in 1..Len(Parts) : Parts[i] = "check"
         /\ at.ctx = "tools" => \A i \in 1..Len(Parts) : Parts[i] \in {"touch", "capture"}
         /\ at.ctx = "end" => \A i \in 1..Len(Parts) : Parts[i] = "touch"
         /\ at.ctx = "gate" => \A i \in 1..Len(Parts) : Parts[i] \in GateOps
         /\ at.ctx = "admit" /\ job.platform = "linux" =>
              \A i \in 1..Len(Parts) : Parts[i] \in LinuxOps
         /\ at.ctx = "admit" /\ job.platform # "linux" =>
              \A i \in 1..Len(Parts) : Parts[i] \in MacOps
<1>1. CASE at.ctx = "inputs"
  BY <1>1 DEF Parts, Ops, LinuxOps
<1>2. CASE at.ctx = "tools"
  BY <1>2 DEF Parts, Ops, GateOps
<1>3. CASE at.ctx = "end"
  BY <1>3 DEF Parts, Ops, GateOps
<1>4. CASE at.ctx = "gate"
  <2>1. Parts = GateParts(job.gates[at.gate])
    BY <1>4 DEF Parts
  <2> QED BY <1>4, <2>1, GateShape DEF Ops
<1>5. CASE at.ctx = "admit" /\ job.platform = "linux"
  <2>1. Parts = AdmissionPlan
    BY <1>5 DEF Parts
  <2>2. \A i \in 1..16 : i = 1 \/ i = 2 \/ i = 3 \/ i \in 4..16
    OBVIOUS
  <2>3. LinuxOps \subseteq Ops /\ {"check", "ns-open", "ns-write"} \subseteq LinuxOps
    BY DEF Ops, LinuxOps
  <2>4. \A i \in 1..16 : AdmissionPlan[i] \in LinuxOps
    BY <1>5, <2>2, <2>3, LinuxShape
  <2>5. Len(Parts) = 16 /\ \A i \in 1..16 : Parts[i] \in LinuxOps
    BY <1>5, <2>1, <2>4, LinuxShape
  <2> QED BY <1>5, <2>3, <2>5
<1>6. CASE at.ctx = "admit" /\ job.platform # "linux"
  <2>1. Parts = AdmissionPlan
    BY <1>6 DEF Parts
  <2>2. \A i \in 1..20 : i = 1 \/ i = 2 \/ i \in 3..20
    OBVIOUS
  <2>3. MacOps \subseteq Ops /\ {"check", "home-pin"} \subseteq MacOps
    BY DEF Ops, MacOps
  <2>4. \A i \in 1..20 : AdmissionPlan[i] \in MacOps
    BY <1>6, <2>2, <2>3, MacShape
  <2>5. Len(Parts) = 20 /\ \A i \in 1..20 : Parts[i] \in MacOps
    BY <1>6, <2>1, <2>4, MacShape
  <2> QED BY <1>6, <2>3, <2>5
<1> QED BY <1>1, <1>2, <1>3, <1>4, <1>5, <1>6 DEF Contexts

\* A part of the same context of the same verification has the same plan.
LEMMA SamePlan ==
  ASSUME job' = job, at'.ctx = at.ctx, at'.gate = at.gate
  PROVE  Parts' = Parts
  BY DEF Parts, AdmissionPlan

-----------------------------------------------------------------------------
(* What the steps leave alone, and the types.                              *)

\* The steps that may change the verification: none.
LEMMA KeepsJob ==
  ASSUME [Next]_vars
  PROVE  job' = job
<1> USE DEF sessionVars, nativeVars
<1>1. CASE UNCHANGED vars
  BY <1>1 DEF vars
<1>2. CASE Refused \/ Setup \/ Spawn \/ Own
  BY <1>2 DEF Own, Refused, Setup, Spawn
<1>3. CASE Reap \/ LoopStops \/ LoopKills \/ ReadsEof
  BY <1>3 DEF LoopKills, LoopStops, ReadsEof, Reap
<1>4. CASE LoopSweeps \/ LoopEnds \/ RunStop \/ RunWait
  BY <1>4 DEF LoopEnds, LoopSweeps, RunStop, RunWait, Sweeps
<1>5. CASE RunDispose \/ RunEnd \/ Judge \/ Touch
  BY <1>5 DEF Judge, RunDispose, RunEnd, Sweeps, Touch
<1>6. CASE Touched \/ EnsureIdle \/ Provider \/ Sentinel
  BY <1>6 DEF EnsureIdle, Provider, Sentinel, Touched
<1>7. CASE Small \/ SmallReturns \/ SmallRaises \/ Lost
  BY <1>7 DEF Lost, Small, SmallRaises, SmallReturns
<1>8. CASE NsWrite \/ NsVerify \/ HomePin \/ MakeNode
  BY <1>8 DEF HomePin, MakeNode, NsVerify, NsWrite
<1>9. CASE CloseBegin \/ CloseCensus \/ CloseNs
  BY <1>9 DEF CloseBegin, CloseCensus, CloseNs
<1>10. CASE RunSettle
  BY <1>10 DEF RunSettle
<1>11. CASE NsOpen
  BY Zenon, <1>11 DEF NsOpen
<1>12. CASE CloseHome
  BY <1>12 DEF CloseHome
<1>13. CASE OrdinaryCapture \/ Prepare \/ Control \/ SignalControl
  BY <1>13 DEF Capture, Control, OrdinaryCapture, Prepare, SignalControl
<1>14. CASE Prepared \/ NativeCapture \/ NativeFinish \/ PhaseRaised
  BY <1>14 DEF NativeCapture, NativeFinish, PhaseRaised, Prepared
<1>15. CASE CreateFiles \/ ReuseFiles \/ VerifyFiles \/ CloseFiles
  BY <1>15 DEF CloseFiles, CreateFiles, ReuseFiles, VerifyFiles
<1>16. CASE CloseNative
  BY <1>16 DEF CloseNative
<1>17. CASE OpenSession \/ OpenFails \/ Check \/ Advance
  BY <1>17 DEF Advance, Check, OpenFails, OpenSession
<1>18. CASE InputsDone \/ Admitted \/ ToolsDone \/ GatePass
  BY <1>18 DEF Admitted, GatePass, InputsDone, ToolsDone
<1>19. CASE AllRemoved \/ Raised \/ Caught \/ Escaped
  BY <1>19 DEF AllRemoved, Caught, Escaped, Raised
<1>20. CASE Proof
  BY <1>20 DEF Proof
<1>21. CASE Publish
  BY <1>21 DEF Publish
<1>22. CASE Finish
  BY <1>22 DEF Finish
<1>23. CASE NamespaceEnds \/ KinEnds \/ OwnerLaunches \/ HelperEnds
  BY <1>23 DEF HelperEnds, KinEnds, NamespaceEnds, OwnerLaunches
<1>24. CASE RunClock \/ RunRaises \/ Late \/ Cancel
  BY <1>24 DEF Cancel, Late, RunClock, RunRaises
<1>25. CASE Alarm \/ SubjectMeddles
  BY <1>25 DEF Alarm, SubjectMeddles
<1>26. CASE SubjectEnds
  BY <1>26 DEF SubjectEnds
<1>27. CASE SubjectForks
  BY <1>27 DEF SubjectForks
<1>28. CASE Drift
  BY <1>28 DEF Drift
<1> QED BY <1>1, <1>2, <1>3, <1>4, <1>5, <1>6, <1>7, <1>8, <1>9, <1>10, <1>11, <1>12, <1>13, <1>14,
      <1>15, <1>16, <1>17, <1>18, <1>19, <1>20, <1>21, <1>22, <1>23, <1>24, <1>25, <1>26, <1>27,
      <1>28 DEF Next, Session, Native, Others, Controller, NativeController, Main, Machine,
      Terminated

\* The steps that may change the session.
LEMMA KeepsSession ==
  ASSUME [Next]_vars
  PROVE  s' = s \/ Refused \/ Setup \/ Own \/ Reap \/ LoopStops \/ LoopSweeps \/ RunDispose \/
    RunSettle \/ RunEnd \/ Judge \/ Touch \/ EnsureIdle \/ Provider \/ Sentinel \/ Small \/
    SmallReturns \/ SmallRaises \/ Lost \/ NsOpen \/ NsWrite \/ NsVerify \/ HomePin \/
    CloseBegin \/ CloseCensus \/ CloseNs \/ CloseHome \/ OrdinaryCapture \/ Prepare \/ Control
    \/ SignalControl \/ Prepared \/ NativeCapture \/ NativeFinish \/ PhaseRaised \/ CreateFiles
    \/ ReuseFiles \/ VerifyFiles \/ CloseNative \/ CloseFiles \/ InputsDone \/ Admitted \/
    Raised \/ Caught \/ Finish \/ RunRaises \/ Cancel \/ Alarm
<1> USE DEF sessionVars, nativeVars
<1>1. CASE UNCHANGED vars
  BY <1>1 DEF vars
<1>2. CASE Spawn \/ LoopKills \/ ReadsEof \/ LoopEnds
  BY <1>2 DEF LoopEnds, LoopKills, ReadsEof, Spawn
<1>3. CASE RunStop \/ RunWait \/ Touched \/ MakeNode
  BY <1>3 DEF MakeNode, RunStop, RunWait, Touched
<1>4. CASE OpenSession \/ OpenFails \/ Check \/ Advance
  BY <1>4 DEF Advance, Check, OpenFails, OpenSession
<1>5. CASE ToolsDone \/ GatePass \/ AllRemoved \/ Escaped
  BY <1>5 DEF AllRemoved, Escaped, GatePass, ToolsDone
<1>6. CASE Proof
  BY <1>6 DEF Proof
<1>7. CASE Publish
  BY <1>7 DEF Publish
<1>8. CASE NamespaceEnds \/ KinEnds \/ OwnerLaunches \/ HelperEnds
  BY <1>8 DEF HelperEnds, KinEnds, NamespaceEnds, OwnerLaunches
<1>9. CASE RunClock \/ Late \/ SubjectMeddles
  BY <1>9 DEF Late, RunClock, SubjectMeddles
<1>10. CASE SubjectEnds
  BY <1>10 DEF SubjectEnds
<1>11. CASE SubjectForks
  BY <1>11 DEF SubjectForks
<1>12. CASE Drift
  BY <1>12 DEF Drift
<1> QED BY <1>1, <1>2, <1>3, <1>4, <1>5, <1>6, <1>7, <1>8, <1>9, <1>10, <1>11, <1>12 DEF Next, Session,
      Native, Others, Controller, NativeController, Main, Machine, Terminated

\* The steps that may change the custody.
LEMMA KeepsCustody ==
  ASSUME [Next]_vars
  PROVE  b' = b \/ NsOpen \/ NsWrite \/ NsVerify \/ HomePin \/ MakeNode \/ CloseNs \/ CloseHome
<1> USE DEF sessionVars, nativeVars
<1>1. CASE UNCHANGED vars
  BY <1>1 DEF vars
<1>2. CASE Refused \/ Setup \/ Spawn \/ Own
  BY <1>2 DEF Own, Refused, Setup, Spawn
<1>3. CASE Reap \/ LoopStops \/ LoopKills \/ ReadsEof
  BY <1>3 DEF LoopKills, LoopStops, ReadsEof, Reap
<1>4. CASE LoopSweeps \/ LoopEnds \/ RunStop \/ RunWait
  BY <1>4 DEF LoopEnds, LoopSweeps, RunStop, RunWait, Sweeps
<1>5. CASE RunDispose \/ RunEnd \/ Judge \/ Touch
  BY <1>5 DEF Judge, RunDispose, RunEnd, Touch
<1>6. CASE Touched \/ EnsureIdle \/ Provider \/ Sentinel
  BY <1>6 DEF EnsureIdle, Provider, Sentinel, Touched
<1>7. CASE Small \/ SmallReturns \/ SmallRaises \/ Lost
  BY <1>7 DEF Lost, Small, SmallRaises, SmallReturns
<1>8. CASE CloseBegin \/ CloseCensus
  BY <1>8 DEF CloseBegin, CloseCensus
<1>9. CASE RunSettle
  BY <1>9 DEF RunSettle
<1>10. CASE OrdinaryCapture \/ Prepare \/ Control \/ SignalControl
  BY <1>10 DEF Capture, Control, OrdinaryCapture, Prepare, SignalControl
<1>11. CASE Prepared \/ NativeCapture \/ NativeFinish \/ PhaseRaised
  BY <1>11 DEF NativeCapture, NativeFinish, PhaseRaised, Prepared
<1>12. CASE CreateFiles \/ ReuseFiles \/ VerifyFiles \/ CloseFiles
  BY <1>12 DEF CloseFiles, CreateFiles, ReuseFiles, VerifyFiles
<1>13. CASE CloseNative
  BY <1>13 DEF CloseNative
<1>14. CASE OpenSession \/ OpenFails \/ Check \/ Advance
  BY <1>14 DEF Advance, Check, OpenFails, OpenSession
<1>15. CASE InputsDone \/ Admitted \/ ToolsDone \/ GatePass
  BY <1>15 DEF Admitted, GatePass, InputsDone, ToolsDone
<1>16. CASE AllRemoved \/ Raised \/ Caught \/ Escaped
  BY <1>16 DEF AllRemoved, Caught, Escaped, Raised
<1>17. CASE Proof
  BY <1>17 DEF Proof
<1>18. CASE Publish
  BY <1>18 DEF Publish
<1>19. CASE Finish
  BY <1>19 DEF Finish
<1>20. CASE NamespaceEnds \/ KinEnds \/ OwnerLaunches \/ HelperEnds
  BY <1>20 DEF HelperEnds, KinEnds, NamespaceEnds, OwnerLaunches
<1>21. CASE RunClock \/ RunRaises \/ Late \/ Cancel
  BY <1>21 DEF Cancel, Late, RunClock, RunRaises
<1>22. CASE Alarm \/ SubjectMeddles
  BY <1>22 DEF Alarm, SubjectMeddles
<1>23. CASE SubjectEnds
  BY <1>23 DEF SubjectEnds
<1>24. CASE SubjectForks
  BY <1>24 DEF SubjectForks
<1>25. CASE Drift
  BY <1>25 DEF Drift
<1> QED BY <1>1, <1>2, <1>3, <1>4, <1>5, <1>6, <1>7, <1>8, <1>9, <1>10, <1>11, <1>12, <1>13, <1>14,
      <1>15, <1>16, <1>17, <1>18, <1>19, <1>20, <1>21, <1>22, <1>23, <1>24, <1>25 DEF Next,
      Session, Native, Others, Controller, NativeController, Main, Machine, Terminated

\* The steps that may change the capture.
LEMMA KeepsCapture ==
  ASSUME [Next]_vars
  PROVE  r' = r \/ Setup \/ Own \/ Reap \/ LoopStops \/ LoopKills \/ ReadsEof \/ LoopSweeps \/
    LoopEnds \/ RunStop \/ RunWait \/ RunDispose \/ RunSettle \/ RunEnd \/ Judge \/
    OrdinaryCapture \/ Control \/ NativeCapture \/ NativeFinish \/ RunClock \/ RunRaises \/
    Alarm
<1> USE DEF sessionVars, nativeVars
<1>1. CASE UNCHANGED vars
  BY <1>1 DEF vars
<1>2. CASE Refused \/ Spawn \/ Touch \/ Touched
  BY <1>2 DEF Refused, Spawn, Touch, Touched
<1>3. CASE EnsureIdle \/ Provider \/ Sentinel \/ Small
  BY <1>3 DEF EnsureIdle, Provider, Sentinel, Small
<1>4. CASE SmallReturns \/ SmallRaises \/ Lost \/ NsWrite
  BY <1>4 DEF Lost, NsWrite, SmallRaises, SmallReturns
<1>5. CASE NsVerify \/ HomePin \/ MakeNode \/ CloseBegin
  BY <1>5 DEF CloseBegin, HomePin, MakeNode, NsVerify
<1>6. CASE CloseCensus \/ CloseNs
  BY <1>6 DEF CloseCensus, CloseNs
<1>7. CASE NsOpen
  BY Zenon, <1>7 DEF NsOpen
<1>8. CASE CloseHome
  BY <1>8 DEF CloseHome
<1>9. CASE Prepare \/ SignalControl \/ Prepared \/ PhaseRaised
  BY <1>9 DEF PhaseRaised, Prepare, Prepared, SignalControl
<1>10. CASE CreateFiles \/ ReuseFiles \/ VerifyFiles \/ CloseFiles
  BY <1>10 DEF CloseFiles, CreateFiles, ReuseFiles, VerifyFiles
<1>11. CASE CloseNative
  BY <1>11 DEF CloseNative
<1>12. CASE OpenSession \/ OpenFails \/ Check \/ Advance
  BY <1>12 DEF Advance, Check, OpenFails, OpenSession
<1>13. CASE InputsDone \/ Admitted \/ ToolsDone \/ GatePass
  BY <1>13 DEF Admitted, GatePass, InputsDone, ToolsDone
<1>14. CASE AllRemoved \/ Raised \/ Caught \/ Escaped
  BY <1>14 DEF AllRemoved, Caught, Escaped, Raised
<1>15. CASE Proof
  BY <1>15 DEF Proof
<1>16. CASE Publish
  BY <1>16 DEF Publish
<1>17. CASE Finish
  BY <1>17 DEF Finish
<1>18. CASE NamespaceEnds \/ KinEnds \/ OwnerLaunches \/ HelperEnds
  BY <1>18 DEF HelperEnds, KinEnds, NamespaceEnds, OwnerLaunches
<1>19. CASE Late \/ Cancel \/ SubjectMeddles
  BY <1>19 DEF Cancel, Late, SubjectMeddles
<1>20. CASE SubjectEnds
  BY <1>20 DEF SubjectEnds
<1>21. CASE SubjectForks
  BY <1>21 DEF SubjectForks
<1>22. CASE Drift
  BY <1>22 DEF Drift
<1> QED BY <1>1, <1>2, <1>3, <1>4, <1>5, <1>6, <1>7, <1>8, <1>9, <1>10, <1>11, <1>12, <1>13, <1>14,
      <1>15, <1>16, <1>17, <1>18, <1>19, <1>20, <1>21, <1>22 DEF Next, Session, Native, Others,
      Controller, NativeController, Main, Machine, Terminated

\* The steps that may change the machine.
LEMMA KeepsWorld ==
  ASSUME [Next]_vars
  PROVE  w' = w \/ Spawn \/ Reap \/ LoopSweeps \/ RunWait \/ RunDispose \/ Sentinel \/ Small \/
    SmallRaises \/ Lost \/ NsWrite \/ HomePin \/ MakeNode \/ CloseBegin \/ CloseNs \/ CloseHome
    \/ SignalControl \/ OpenSession \/ SubjectEnds \/ SubjectForks \/ NamespaceEnds \/ KinEnds
    \/ OwnerLaunches \/ HelperEnds \/ Late \/ Drift \/ Alarm
<1> USE DEF sessionVars, nativeVars
<1>1. CASE UNCHANGED vars
  BY <1>1 DEF vars
<1>2. CASE Refused \/ Setup \/ Own \/ LoopStops
  BY <1>2 DEF LoopStops, Own, Refused, Setup
<1>3. CASE LoopKills \/ ReadsEof \/ LoopEnds \/ RunStop
  BY <1>3 DEF LoopEnds, LoopKills, ReadsEof, RunStop
<1>4. CASE RunEnd \/ Judge \/ Touch \/ Touched
  BY <1>4 DEF Judge, RunEnd, Touch, Touched
<1>5. CASE EnsureIdle \/ Provider \/ SmallReturns \/ NsVerify
  BY <1>5 DEF EnsureIdle, NsVerify, Provider, SmallReturns
<1>6. CASE CloseCensus
  BY <1>6 DEF CloseCensus
<1>7. CASE RunSettle
  BY <1>7 DEF RunSettle
<1>8. CASE NsOpen
  BY Zenon, <1>8 DEF NsOpen
<1>9. CASE OrdinaryCapture \/ Prepare \/ Control \/ Prepared
  BY <1>9 DEF Capture, Control, OrdinaryCapture, Prepare, Prepared
<1>10. CASE NativeCapture \/ NativeFinish \/ PhaseRaised \/ CreateFiles
  BY <1>10 DEF CreateFiles, NativeCapture, NativeFinish, PhaseRaised
<1>11. CASE ReuseFiles \/ VerifyFiles \/ CloseFiles
  BY <1>11 DEF CloseFiles, ReuseFiles, VerifyFiles
<1>12. CASE CloseNative
  BY <1>12 DEF CloseNative
<1>13. CASE OpenFails \/ Check \/ Advance \/ InputsDone
  BY <1>13 DEF Advance, Check, InputsDone, OpenFails
<1>14. CASE Admitted \/ ToolsDone \/ GatePass \/ AllRemoved
  BY <1>14 DEF Admitted, AllRemoved, GatePass, ToolsDone
<1>15. CASE Raised \/ Caught \/ Escaped
  BY <1>15 DEF Caught, Escaped, Raised
<1>16. CASE Proof
  BY <1>16 DEF Proof
<1>17. CASE Publish
  BY <1>17 DEF Publish
<1>18. CASE Finish
  BY <1>18 DEF Finish
<1>19. CASE RunClock \/ RunRaises \/ Cancel \/ SubjectMeddles
  BY <1>19 DEF Cancel, RunClock, RunRaises, SubjectMeddles
<1> QED BY <1>1, <1>2, <1>3, <1>4, <1>5, <1>6, <1>7, <1>8, <1>9, <1>10, <1>11, <1>12, <1>13, <1>14,
      <1>15, <1>16, <1>17, <1>18, <1>19 DEF Next, Session, Native, Others, Controller,
      NativeController, Main, Machine, Terminated

\* The steps that may change the observers.
LEMMA KeepsWatch ==
  ASSUME [Next]_vars
  PROVE  seen' = seen \/ Touched \/ ToolsDone \/ GatePass \/ Caught \/ SubjectEnds
<1> USE DEF sessionVars, nativeVars
<1>1. CASE UNCHANGED vars
  BY <1>1 DEF vars
<1>2. CASE Refused \/ Setup \/ Spawn \/ Own
  BY <1>2 DEF Own, Refused, Setup, Spawn
<1>3. CASE Reap \/ LoopStops \/ LoopKills \/ ReadsEof
  BY <1>3 DEF LoopKills, LoopStops, ReadsEof, Reap
<1>4. CASE LoopSweeps \/ LoopEnds \/ RunStop \/ RunWait
  BY <1>4 DEF LoopEnds, LoopSweeps, RunStop, RunWait, Sweeps
<1>5. CASE RunDispose \/ RunEnd \/ Judge \/ Touch
  BY <1>5 DEF Judge, RunDispose, RunEnd, Touch
<1>6. CASE EnsureIdle \/ Provider \/ Sentinel \/ Small
  BY <1>6 DEF EnsureIdle, Provider, Sentinel, Small
<1>7. CASE SmallReturns \/ SmallRaises \/ Lost \/ NsWrite
  BY <1>7 DEF Lost, NsWrite, SmallRaises, SmallReturns
<1>8. CASE NsVerify \/ HomePin \/ MakeNode \/ CloseBegin
  BY <1>8 DEF CloseBegin, HomePin, MakeNode, NsVerify
<1>9. CASE CloseCensus \/ CloseNs
  BY <1>9 DEF CloseCensus, CloseNs
<1>10. CASE RunSettle
  BY <1>10 DEF RunSettle
<1>11. CASE NsOpen
  BY Zenon, <1>11 DEF NsOpen
<1>12. CASE CloseHome
  BY <1>12 DEF CloseHome
<1>13. CASE OrdinaryCapture \/ Prepare \/ Control \/ SignalControl
  BY <1>13 DEF Capture, Control, OrdinaryCapture, Prepare, SignalControl
<1>14. CASE Prepared \/ NativeCapture \/ NativeFinish \/ PhaseRaised
  BY <1>14 DEF NativeCapture, NativeFinish, PhaseRaised, Prepared
<1>15. CASE CreateFiles \/ ReuseFiles \/ VerifyFiles \/ CloseFiles
  BY <1>15 DEF CloseFiles, CreateFiles, ReuseFiles, VerifyFiles
<1>16. CASE CloseNative
  BY <1>16 DEF CloseNative
<1>17. CASE OpenSession \/ OpenFails \/ Check \/ Advance
  BY <1>17 DEF Advance, Check, OpenFails, OpenSession
<1>18. CASE InputsDone \/ Admitted \/ AllRemoved \/ Raised
  BY <1>18 DEF Admitted, AllRemoved, InputsDone, Raised
<1>19. CASE Escaped
  BY <1>19 DEF Escaped
<1>20. CASE Proof
  BY <1>20 DEF Proof
<1>21. CASE Publish
  BY <1>21 DEF Publish
<1>22. CASE Finish
  BY <1>22 DEF Finish
<1>23. CASE NamespaceEnds \/ KinEnds \/ OwnerLaunches \/ HelperEnds
  BY <1>23 DEF HelperEnds, KinEnds, NamespaceEnds, OwnerLaunches
<1>24. CASE RunClock \/ RunRaises \/ Late \/ Cancel
  BY <1>24 DEF Cancel, Late, RunClock, RunRaises
<1>25. CASE Alarm \/ SubjectMeddles
  BY <1>25 DEF Alarm, SubjectMeddles
<1>26. CASE SubjectForks
  BY <1>26 DEF SubjectForks
<1>27. CASE Drift
  BY <1>27 DEF Drift
<1> QED BY <1>1, <1>2, <1>3, <1>4, <1>5, <1>6, <1>7, <1>8, <1>9, <1>10, <1>11, <1>12, <1>13, <1>14,
      <1>15, <1>16, <1>17, <1>18, <1>19, <1>20, <1>21, <1>22, <1>23, <1>24, <1>25, <1>26, <1>27
      DEF Next, Session, Native, Others, Controller, NativeController, Main, Machine, Terminated

\* The steps that may change the checked files.
LEMMA KeepsFiles ==
  ASSUME [Next]_vars
  PROVE  f' = f \/ CreateFiles \/ ReuseFiles \/ VerifyFiles \/ CloseFiles \/ SubjectMeddles
<1> USE DEF sessionVars, nativeVars
<1>1. CASE UNCHANGED vars
  BY <1>1 DEF vars
<1>2. CASE Session
  BY <1>2 DEF Session
<1>3. CASE OrdinaryCapture \/ Prepare \/ Control \/ SignalControl
  BY <1>3 DEF Control, OrdinaryCapture, Prepare, SignalControl
<1>4. CASE Prepared \/ NativeCapture \/ NativeFinish \/ PhaseRaised
  BY <1>4 DEF NativeCapture, NativeFinish, PhaseRaised, Prepared
<1>5. CASE CloseNative
  BY <1>5 DEF CloseNative
<1>6. CASE OpenSession \/ OpenFails \/ Check \/ Advance
  BY <1>6 DEF Advance, Check, OpenFails, OpenSession
<1>7. CASE InputsDone \/ Admitted \/ ToolsDone \/ GatePass
  BY <1>7 DEF Admitted, GatePass, InputsDone, ToolsDone
<1>8. CASE AllRemoved \/ Raised \/ Caught \/ Escaped
  BY <1>8 DEF AllRemoved, Caught, Escaped, Raised
<1>9. CASE Proof
  BY <1>9 DEF Proof
<1>10. CASE Publish
  BY <1>10 DEF Publish
<1>11. CASE Finish
  BY <1>11 DEF Finish
<1>12. CASE Others
  BY <1>12 DEF Others, SubjectMeddles
<1> QED BY <1>1, <1>2, <1>3, <1>4, <1>5, <1>6, <1>7, <1>8, <1>9, <1>10, <1>11, <1>12 DEF Next, Session,
      Native, Others, Controller, NativeController, Main, Machine, Terminated

\* The steps that may change the report.
LEMMA KeepsReport ==
  ASSUME [Next]_vars
  PROVE  out' = out \/ OpenFails \/ GatePass \/ Proof \/ AllRemoved \/ Caught \/ Escaped \/
    Publish \/ Finish
<1> USE DEF sessionVars, nativeVars
<1>1. CASE UNCHANGED vars
  BY <1>1 DEF vars
<1>2. CASE Session
  BY <1>2 DEF Session
<1>3. CASE Native
  BY <1>3 DEF Native
<1>4. CASE OpenSession \/ Check \/ Advance \/ InputsDone
  BY <1>4 DEF Advance, Check, InputsDone, OpenSession
<1>5. CASE Admitted \/ ToolsDone \/ Raised
  BY <1>5 DEF Admitted, Raised, ToolsDone
<1>6. CASE Others
  BY <1>6 DEF Others
<1> QED BY <1>1, <1>2, <1>3, <1>4, <1>5, <1>6 DEF Next, Session, Native, Others, Controller,
      NativeController, Main, Machine, Terminated

\* The forms the updates have.
LEMMA PhaseType == Phase \in Phases
  BY DEF Phase, Phases

LEMMA LimitForm ==
  ASSUME b \in Custodies, NEW v \in Limits
  PROVE  [b EXCEPT !.ns = v] \in Custodies
  BY DEF Custodies

LEMMA HomeForm ==
  ASSUME b \in Custodies, NEW v \in Homes
  PROVE  [b EXCEPT !.home = v] \in Custodies
  BY DEF Custodies

LEMMA CollectedForm ==
  ASSUME w \in Worlds
  PROVE  Collected \in Worlds
  BY DEF Collected, Worlds

LEMMA FailingForm ==
  ASSUME NEW x \in Runs
  PROVE  /\ Failing(x) \in Runs /\ Failing(x).waited = x.waited /\ Failing(x).code = x.code
         /\ Failing(x).held = x.held
  BY DEF Failing, Runs

\* A session keeps its shape.
LEMMA SessionType ==
  ASSUME s \in Sessions, [Next]_vars
  PROVE  s' \in Sessions
<1> USE DEF Sessions
<1>1. CASE s' = s
  BY <1>1
<1>2. CASE Refused
  BY <1>2 DEF Refused, Failed, NotIdle
<1>3. CASE Setup
  BY <1>3 DEF Setup, Failed, Latched
<1>4. CASE Own
  BY <1>4 DEF Own
<1>5. CASE Reap
  BY <1>5 DEF Reap, Failed, Latched
<1>6. CASE LoopStops
  BY <1>6 DEF LoopStops, Failed, Latched
<1>7. CASE LoopSweeps
  BY <1>7 DEF LoopSweeps, Failed, Latched, Sweeps
<1>8. CASE RunDispose
  BY <1>8 DEF RunDispose, Failed, Latched, Sweeps
<1>9. CASE RunSettle
  BY <1>9 DEF RunSettle
<1>10. CASE RunEnd
  BY <1>10 DEF RunEnd
<1>11. CASE Judge
  BY <1>11 DEF Judge, BecomeIdle, Failed, NotIdle
<1>12. CASE Touch
  BY <1>12 DEF Touch, BecomeIdle
<1>13. CASE EnsureIdle
  BY <1>13 DEF EnsureIdle, BecomeIdle
<1>14. CASE Provider
  BY <1>14 DEF Provider, BecomeIdle
<1>15. CASE Sentinel
  BY <1>15 DEF Sentinel, BecomeIdle
<1>16. CASE Small
  BY <1>16 DEF Small, Failed, SmallHelper
<1>17. CASE SmallReturns
  BY <1>17 DEF SmallReturns
<1>18. CASE SmallRaises
  BY <1>18 DEF SmallRaises
<1>19. CASE Lost
  BY <1>19 DEF Lost
<1>20. CASE NsOpen
  <2>1. s' = [s EXCEPT !.idle = TRUE] \/ s' = Failed(s)
    BY Zenon, <1>20 DEF NsOpen, BecomeIdle, NsRaises
  <2> QED BY <2>1 DEF Failed
<1>21. CASE NsWrite
  BY <1>21 DEF NsWrite, Failed, NsRaises
<1>22. CASE NsVerify
  BY <1>22 DEF NsVerify, Failed, NsRaises
<1>23. CASE HomePin
  BY <1>23 DEF HomePin, BecomeIdle
<1>24. CASE CloseBegin
  BY <1>24 DEF CloseBegin
<1>25. CASE CloseCensus
  BY <1>25 DEF CloseCensus
<1>26. CASE CloseNs
  BY <1>26 DEF CloseNs, Unfinished
<1>27. CASE CloseHome
  BY <1>27 DEF CloseHome, Unfinished
<1>28. CASE OrdinaryCapture
  BY <1>28 DEF OrdinaryCapture, Capture, Begin
<1>29. CASE Prepare
  BY <1>29 DEF Prepare, BecomeIdle, Failed
<1>30. CASE Control
  BY <1>30 DEF Control, Begin
<1>31. CASE SignalControl
  BY <1>31 DEF SignalControl
<1>32. CASE Prepared
  BY <1>32 DEF Prepared, BecomeIdle
<1>33. CASE NativeCapture
  BY <1>33 DEF NativeCapture, Begin
<1>34. CASE NativeFinish
  BY <1>34 DEF NativeFinish, BecomeIdle, Failed, Unfinished
<1>35. CASE PhaseRaised
  BY <1>35 DEF PhaseRaised, Failed
<1>36. CASE CreateFiles
  BY <1>36 DEF CreateFiles, BecomeIdle, Failed
<1>37. CASE ReuseFiles
  BY <1>37 DEF ReuseFiles, BecomeIdle, Failed
<1>38. CASE VerifyFiles
  BY <1>38 DEF VerifyFiles, Failed
<1>39. CASE CloseNative
  BY <1>39 DEF CloseNative, Failed, Unfinished
<1>40. CASE CloseFiles
  BY <1>40 DEF CloseFiles, Unfinished
<1>41. CASE InputsDone
  BY <1>41 DEF InputsDone, Failed
<1>42. CASE Admitted
  BY <1>42 DEF Admitted
<1>43. CASE Raised
  BY <1>43 DEF Raised
<1>44. CASE Caught
  BY <1>44 DEF Caught, Failed
<1>45. CASE Finish
  BY <1>45 DEF Finish
<1>46. CASE RunRaises
  BY <1>46 DEF RunRaises, Failed, Latched
<1>47. CASE Cancel
  BY <1>47 DEF Cancel
<1>48. CASE Alarm
  BY <1>48 DEF Alarm, Failed, Unfinished
<1> QED BY <1>1, <1>2, <1>3, <1>4, <1>5, <1>6, <1>7, <1>8, <1>9, <1>10, <1>11, <1>12, <1>13, <1>14,
      <1>15, <1>16, <1>17, <1>18, <1>19, <1>20, <1>21, <1>22, <1>23, <1>24, <1>25, <1>26, <1>27,
      <1>28, <1>29, <1>30, <1>31, <1>32, <1>33, <1>34, <1>35, <1>36, <1>37, <1>38, <1>39, <1>40,
      <1>41, <1>42, <1>43, <1>44, <1>45, <1>46, <1>47, <1>48, KeepsSession

\* So does the custody.
LEMMA CustodyType ==
  ASSUME b \in Custodies, w \in Worlds, [Next]_vars
  PROVE  b' \in Custodies
<1> USE DEF Custodies, Limits, Homes
<1>1. CASE b' = b
  BY <1>1
<1>2. CASE NsOpen
  <2>1. \E v \in Limits : b' = [b EXCEPT !.ns = v]
    <3>1. CASE b' = [b EXCEPT !.ns = [@ EXCEPT !.made = TRUE, !.fd = TRUE, !.known = TRUE]]
      <4>1. [b.ns EXCEPT !.made = TRUE, !.fd = TRUE, !.known = TRUE] \in Limits
        BY DEF Limits
      <4> QED BY <3>1, <4>1
    <3>2. ASSUME NEW fd \in BOOLEAN, b' = [b EXCEPT !.ns = [@ EXCEPT !.made = TRUE, !.fd = fd]]
          PROVE  \E v \in Limits : b' = [b EXCEPT !.ns = v]
      <4>1. [b.ns EXCEPT !.made = TRUE, !.fd = fd] \in Limits
        BY DEF Limits
      <4> QED BY <3>2, <4>1
    <3> QED BY Zenon, <1>2, <3>1, <3>2 DEF NsOpen
  <2> QED BY <2>1, LimitForm
<1>3. CASE NsWrite
  <2> DEFINE v == [b.ns EXCEPT !.tried = TRUE]
  <2>1. v \in Limits
    BY DEF Limits
  <2>2. b' = [b EXCEPT !.ns = v] \/ b' = b
    BY <1>3 DEF NsWrite
  <2> QED BY <2>1, <2>2, LimitForm
<1>4. CASE NsVerify
  <2> DEFINE v == [b.ns EXCEPT !.ready = TRUE]
  <2>1. v \in Limits
    BY DEF Limits
  <2>2. b' = [b EXCEPT !.ns = v] \/ b' = b
    BY <1>4 DEF NsVerify
  <2> QED BY <2>1, <2>2, LimitForm
<1>5. CASE HomePin
  <2> DEFINE tried == w.mode0 = "narrow"
  <2> DEFINE open == [b.home EXCEPT !.made = TRUE, !.pin = TRUE, !.tried = tried]
  <2> DEFINE shut == [b.home EXCEPT !.made = TRUE, !.pin = TRUE]
  <2>1. open \in Homes /\ [open EXCEPT !.ready = TRUE] \in Homes /\ shut \in Homes
    BY DEF Homes
  <2>2. [[b EXCEPT !.home = open] EXCEPT !.home.ready = TRUE]
          = [b EXCEPT !.home = [open EXCEPT !.ready = TRUE]]
    BY <2>1
  <2>3. \/ b' = [[b EXCEPT !.home = open] EXCEPT !.home.ready = TRUE]
        \/ b' = [b EXCEPT !.home = open] \/ b' = [b EXCEPT !.home = shut]
    BY Zenon, <1>5 DEF HomePin
  <2> HIDE DEF open, shut, Custodies, Homes
  <2>4. /\ [b EXCEPT !.home = open] \in Custodies /\ [b EXCEPT !.home = shut] \in Custodies
        /\ [b EXCEPT !.home = [open EXCEPT !.ready = TRUE]] \in Custodies
    BY <2>1, HomeForm
  <2> QED BY <2>2, <2>3, <2>4
<1>6. CASE MakeNode
  BY <1>6 DEF MakeNode
<1>7. CASE CloseNs
  <2> DEFINE v == [b.ns EXCEPT !.closed = TRUE, !.fd = FALSE]
  <2>1. v \in Limits
    BY DEF Limits
  <2>2. b' = [b EXCEPT !.ns = v] \/ b' = b
    BY <1>7 DEF CloseNs, NsOver
  <2> QED BY <2>1, <2>2, LimitForm
<1>8. CASE CloseHome
  <2> DEFINE v == [b.home EXCEPT !.closed = TRUE, !.pin = FALSE]
  <2>1. v \in Homes
    BY DEF Homes
  <2>2. b' = [b EXCEPT !.home = v] \/ b' = b
    BY <1>8 DEF CloseHome
  <2> QED BY <2>1, <2>2, HomeForm
<1> QED BY <1>1, <1>2, <1>3, <1>4, <1>5, <1>6, <1>7, <1>8, KeepsCustody

\* So does a capture.
LEMMA CaptureType ==
  ASSUME r \in Runs, s \in Sessions, w \in Worlds, [Next]_vars
  PROVE  r' \in Runs
<1> USE DEF Runs
<1>1. CASE r' = r
  BY <1>1
<1>2. CASE Setup
  <2>1. r' = r \/ r' = [Failing(r) EXCEPT !.cut = s.cancelled] \/ r' = Failing(r)
    BY Zenon, <1>2 DEF Setup
  <2>2. [Failing(r) EXCEPT !.cut = s.cancelled] \in Runs
    <3>1. Failing(r) \in Runs /\ s.cancelled \in BOOLEAN
      BY FailingForm DEF Sessions
    <3> QED BY <3>1
  <2> QED BY <2>1, <2>2, FailingForm
<1>3. CASE Own
  BY <1>3 DEF Own, Failing
<1>4. CASE Reap
  <2>1. w.exit \in {"ok", "short", "bad"}
    BY DEF Worlds
  <2>2. Reaped \in Runs
    BY <2>1 DEF Reaped
  <2>3. r' = Failing(Reaped) \/ r' = Reaped
    BY <1>4 DEF Reap
  <2> QED BY <2>2, <2>3, FailingForm
<1>5. CASE LoopStops
  BY <1>5 DEF LoopStops, Failing
<1>6. CASE LoopKills
  BY <1>6 DEF LoopKills
<1>7. CASE ReadsEof
  BY <1>7 DEF ReadsEof
<1>8. CASE LoopSweeps
  <2>1. \/ r' = [r EXCEPT !.swept = TRUE]
        \/ r' = [r EXCEPT !.swept = TRUE, !.errs = TRUE, !.fail = TRUE]
    BY Zenon, <1>8 DEF LoopSweeps, Sweeps
  <2> QED BY <2>1
<1>9. CASE LoopEnds
  BY <1>9 DEF LoopEnds
<1>10. CASE RunStop
  BY <1>10 DEF RunStop
<1>11. CASE RunWait
  <2>1. w.exit \in {"ok", "short", "bad"}
    BY DEF Worlds
  <2>2. Reaped \in Runs
    BY <2>1 DEF Reaped
  <2>3. r' = r \/ r' = Reaped \/ r' = [r EXCEPT !.errs = TRUE]
    BY <1>11 DEF RunWait
  <2> QED BY <2>2, <2>3
<1>12. CASE RunDispose
  BY <1>12 DEF RunDispose, Sweeps
<1>13. CASE RunSettle
  BY <1>13 DEF RunSettle
<1>14. CASE RunEnd
  <2> DEFINE cut == IF s.cancelled THEN [Failing(r) EXCEPT !.cut = TRUE] ELSE r
  <2> DEFINE over == IF (r.over \/ w.late) /\ ~cut.fail THEN Failing(cut) ELSE cut
  <2> DEFINE eof == IF ~r.waited \/ ~r.eof THEN Failing(over) ELSE over
  <2> DEFINE end == IF eof.errs THEN [eof EXCEPT !.fail = TRUE] ELSE eof
  <2>1. cut \in Runs
    <3>1. [Failing(r) EXCEPT !.cut = TRUE] \in Runs
      BY FailingForm
    <3> QED BY <3>1
  <2> HIDE DEF cut
  <2>2. over \in Runs
    BY <2>1, FailingForm
  <2> HIDE DEF over
  <2>3. eof \in Runs
    BY <2>2, FailingForm
  <2> HIDE DEF eof
  <2>4. end \in Runs
    BY <2>3
  <2>5. r' = end
    BY Zenon, <1>14 DEF RunEnd, end, eof, over, cut
  <2> QED BY <2>4, <2>5
<1>15. CASE Judge
  BY <1>15 DEF Judge, NoRun
<1>16. CASE OrdinaryCapture
  BY <1>16 DEF OrdinaryCapture, Capture, Begin, NoRun
<1>17. CASE Control
  BY <1>17 DEF Control, Begin, NoRun
<1>18. CASE NativeCapture
  BY <1>18 DEF NativeCapture, Begin, NoRun
<1>19. CASE NativeFinish
  BY <1>19 DEF NativeFinish, NoRun
<1>20. CASE RunClock
  <2>1. r' = [r EXCEPT !.over = TRUE] \/ (r.grace < 2 /\ r' = [r EXCEPT !.grace = @ + 1])
    BY <1>20 DEF RunClock
  <2>2. r.grace < 2 => r.grace + 1 \in 0..2
    BY SMT
  <2> QED BY <2>1, <2>2
<1>21. CASE RunRaises
  BY <1>21 DEF RunRaises, Failing
<1>22. CASE Alarm
  <2>1. r' = NoRun \/ r' = Failing(r) \/ r' = [r EXCEPT !.errs = TRUE] \/ r' = r
    BY Zenon, <1>22 DEF Alarm
  <2>2. NoRun \in Runs
    BY DEF NoRun
  <2> QED BY <2>1, <2>2, FailingForm
<1> QED BY <1>1, <1>2, <1>3, <1>4, <1>5, <1>6, <1>7, <1>8, <1>9, <1>10, <1>11, <1>12, <1>13, <1>14,
      <1>15, <1>16, <1>17, <1>18, <1>19, <1>20, <1>21, <1>22, KeepsCapture

\* So does the machine.
LEMMA WorldType ==
  ASSUME w \in Worlds, [Next]_vars
  PROVE  w' \in Worlds
<1> USE DEF Worlds
<1>1. CASE w' = w
  BY <1>1
<1>2. CASE Spawn
  BY <1>2 DEF Spawn
<1>3. CASE Reap
  BY <1>3 DEF Reap, Collected
<1>4. CASE LoopSweeps
  BY <1>4 DEF LoopSweeps, Sweeps
<1>5. CASE RunWait
  <2>1. w' = w \/ w' = Collected
    BY Zenon, <1>5 DEF RunWait
  <2> QED BY <2>1, CollectedForm
<1>6. CASE RunDispose
  BY <1>6 DEF RunDispose, Sweeps
<1>7. CASE Sentinel
  BY <1>7 DEF Sentinel
<1>8. CASE Small
  BY <1>8 DEF Small, SmallHelper
<1>9. CASE SmallRaises
  BY <1>9 DEF SmallRaises
<1>10. CASE Lost
  BY <1>10 DEF Lost
<1>11. CASE NsWrite
  BY <1>11 DEF NsWrite
<1>12. CASE HomePin
  BY <1>12 DEF HomePin
<1>13. CASE MakeNode
  BY <1>13 DEF MakeNode
<1>14. CASE CloseBegin
  <2>1. w' = w \/ w' = Collected
    BY Zenon, <1>14 DEF CloseBegin
  <2> QED BY <2>1, CollectedForm
<1>15. CASE CloseNs
  BY <1>15 DEF CloseNs
<1>16. CASE CloseHome
  <2> DEFINE left == [x \in Nodes |-> IF Removable(x) THEN "none" ELSE w.node[x]]
  <2>1. left \in [Nodes -> {"none", "ours", "foreign"}]
    OBVIOUS
  <2> HIDE DEF left
  <2>2. \/ w' = w \/ w' = [w EXCEPT !.mode = w.mode0]
        \/ w' = [w EXCEPT !.mode = w.mode0, !.node = left]
    BY Zenon, <1>16 DEF CloseHome, left
  <2>3. [w EXCEPT !.mode = w.mode0] \in Worlds
    OBVIOUS
  <2>4. [w EXCEPT !.mode = w.mode0, !.node = left] \in Worlds
    BY <2>1
  <2> QED BY <2>2, <2>3, <2>4
<1>17. CASE SignalControl
  BY <1>17 DEF SignalControl
<1>18. CASE OpenSession
  BY <1>18 DEF OpenSession
<1>19. CASE SubjectEnds
  <2>1. PICK exit \in {"ok", "short", "bad"} :
          w' = [w EXCEPT !.leader = "zombie", !.exit = exit]
    BY Zenon, <1>19 DEF SubjectEnds
  <2> QED BY <2>1
<1>20. CASE SubjectForks
  BY <1>20 DEF SubjectForks
<1>21. CASE NamespaceEnds
  BY <1>21 DEF NamespaceEnds
<1>22. CASE KinEnds
  BY <1>22 DEF KinEnds
<1>23. CASE OwnerLaunches
  BY <1>23 DEF OwnerLaunches
<1>24. CASE HelperEnds
  BY <1>24 DEF HelperEnds
<1>25. CASE Late
  BY <1>25 DEF Late
<1>26. CASE Drift
  BY <1>26 DEF Drift
<1>27. CASE Alarm
  BY <1>27 DEF Alarm
<1> QED BY <1>1, <1>2, <1>3, <1>4, <1>5, <1>6, <1>7, <1>8, <1>9, <1>10, <1>11, <1>12, <1>13, <1>14,
      <1>15, <1>16, <1>17, <1>18, <1>19, <1>20, <1>21, <1>22, <1>23, <1>24, <1>25, <1>26, <1>27,
      KeepsWorld

\* So do the observers.
LEMMA WatchType ==
  ASSUME seen \in Watches, w \in Worlds, [Next]_vars
  PROVE  seen' \in Watches
<1> USE DEF Watches
<1>1. CASE seen' = seen
  BY <1>1
<1>2. CASE Touched
  BY <1>2 DEF Touched
<1>3. CASE ToolsDone
  BY <1>3 DEF ToolsDone
<1>4. CASE GatePass
  BY <1>4 DEF GatePass
<1>5. CASE Caught
  BY <1>5 DEF Caught
<1>6. CASE SubjectEnds
  BY <1>6 DEF SubjectEnds
<1> QED BY <1>1, <1>2, <1>3, <1>4, <1>5, <1>6, KeepsWatch

\* So do the checked files.
LEMMA FilesType ==
  ASSUME f \in Files, [Next]_vars
  PROVE  f' \in Files
<1> USE DEF Files
<1>1. CASE f' = f
  BY <1>1
<1>2. CASE CreateFiles
  <2>1. \/ f' = [f EXCEPT !.held = TRUE, !.prepared = TRUE, !.tree = "ours", !.phases = {"source"}]
        \/ f' = [f EXCEPT !.held = TRUE, !.closed = TRUE, !.tree = "partial"]
    BY Zenon, <1>2 DEF CreateFiles
  <2>2. {"source"} \in SUBSET Phases
    BY DEF Phases
  <2> QED BY <2>1, <2>2
<1>3. CASE ReuseFiles
  BY <1>3 DEF ReuseFiles
<1>4. CASE VerifyFiles
  <2>1. f' = f \/ f' = [f EXCEPT !.seen = @ \cup {Phase}]
    BY Zenon, <1>4 DEF VerifyFiles
  <2>2. f.seen \cup {Phase} \in SUBSET Phases
    BY PhaseType
  <2> QED BY <2>1, <2>2
<1>5. CASE CloseFiles
  BY <1>5 DEF CloseFiles
<1>6. CASE SubjectMeddles
  BY <1>6 DEF SubjectMeddles
<1> QED BY <1>1, <1>2, <1>3, <1>4, <1>5, <1>6, KeepsFiles

\* So does the report.
LEMMA ReportType ==
  ASSUME out \in Reports, at \in Places, s \in Sessions, [Next]_vars
  PROVE  out' \in Reports
<1> USE DEF Reports
<1>1. CASE out' = out
  BY <1>1
<1>2. CASE OpenFails
  BY <1>2 DEF OpenFails
<1>3. CASE GatePass
  <2>1. out' = [out EXCEPT !.passed = @ \cup {job.gates[at.gate]}]
    BY <1>3 DEF GatePass
  <2>2. at.gate \in Nat /\ job' = job
    BY <1>3 DEF GatePass, Places
  <2>3. out.passed \cup {job.gates[at.gate]} \in SUBSET {job.gates[i] : i \in Nat}
    BY <2>2
  <2> QED BY <2>1, <2>2, <2>3
<1>4. CASE Proof
  BY <1>4 DEF Proof
<1>5. CASE AllRemoved
  BY <1>5 DEF AllRemoved
<1>6. CASE Caught
  BY <1>6 DEF Caught
<1>7. CASE Escaped
  BY <1>7 DEF Escaped
<1>8. CASE Publish
  <2> DEFINE colour == IF Verdict THEN "green" ELSE "red"
  <2>1. Verdict \in BOOLEAN
    BY DEF Verdict, Sessions
  <2>2. colour \in {"none", "green", "red"} /\ job' = job
    BY <1>8 DEF Publish
  <2> HIDE DEF colour
  <2>3. \/ out' = [out EXCEPT !.ok = Verdict, !.published = colour]
        \/ \E text \in {"none", colour} : out' = [out EXCEPT !.ok = FALSE, !.published = text]
    BY Zenon, <1>8 DEF Publish, colour
  <2> QED BY <2>1, <2>2, <2>3
<1>9. CASE Finish
  <2>1. \/ out' = [out EXCEPT !.exit = "green"] \/ out' = [out EXCEPT !.exit = "red"]
    BY Zenon, <1>9 DEF Finish, Exit
  <2>2. job' = job
    BY <1>9 DEF Finish
  <2> QED BY <2>1, <2>2
<1> QED BY <1>1, <1>2, <1>3, <1>4, <1>5, <1>6, <1>7, <1>8, <1>9, KeepsReport

-----------------------------------------------------------------------------
(* What the larger steps come to, field by field.                          *)

SamePart == at'.ctx = at.ctx /\ at'.gate = at.gate /\ at'.part = at.part /\ at'.op = at.op
SameProcesses == /\ w'.leader = w.leader /\ w'.exit = w.exit /\ w'.kin = w.kin
                 /\ w'.helper = w.helper
SameMachine == /\ w'.ns = w.ns /\ w'.ns0 = w.ns0 /\ w'.mode = w.mode /\ w'.mode0 = w.mode0
               /\ w'.node = w.node
Grows == s'.pending = s.pending /\ s'.cancelled = s.cancelled /\ (s.failure => s'.failure)

LEMMA GotoPart ==
  ASSUME Types, NEW p, Goto(p)
  PROVE  SamePart /\ at'.pc = p
  BY DEF Types, Places, Goto, SamePart

LEMMA AlarmForm ==
  ASSUME Types, Alarm
  PROVE  /\ SamePart /\ SameProcesses /\ SameMachine /\ Grows /\ s'.failure
         /\ w'.late = w.late /\ UNCHANGED <<b, seen>>
         /\ \/ at.pc \in Working \cup Helping \cup {"captured", "r_settle", "r_end"}
               /\ at'.pc = "raised"
            \/ /\ at.pc \in InRun /\ at'.pc \in {"r_stop", "r_dispose", "r_settle"}
               /\ r'.waited = r.waited /\ r'.code = r.code
            \/ at.pc \in Closing \cup {"publish"} /\ at' = at
            \/ at.pc = "caught" /\ at'.pc = "escaped"
<1>1. SameProcesses /\ SameMachine /\ w'.late = w.late
  <2>1. w' = [w EXCEPT !.alarm = "fired"]
    BY DEF Alarm
  <2> QED BY <2>1 DEF Types, Worlds, SameProcesses, SameMachine
<1>2. Grows /\ s'.failure
  <2>1. s' = Failed(s) \/ s' = Unfinished
    BY Zenon DEF Alarm
  <2> QED BY <2>1 DEF Failed, Unfinished, Grows, Types, Sessions
<1>3. \/ at.pc \in {"do", "next", "touching", "small", "lost", "captured"} /\ Goto("raised")
      \/ /\ at.pc \in {"r_setup", "r_spawn", "r_own", "r_loop"} /\ r' = Failing(r)
         /\ Goto("r_stop")
      \/ /\ at.pc \in {"r_stop", "r_wait"} /\ r' = [r EXCEPT !.errs = TRUE]
         /\ Goto(IF r.held THEN "r_dispose" ELSE "r_settle")
      \/ /\ at.pc \in {"r_dispose", "r_settle"} /\ r' = [r EXCEPT !.errs = TRUE]
         /\ Goto("r_settle")
      \/ at.pc \in {"r_settle", "r_end"} /\ Goto("raised")
      \/ at.pc \in {"close", "c_census", "c_native", "c_files", "c_ns", "c_home", "publish"}
         /\ at' = at
      \/ at.pc = "caught" /\ Goto("escaped")
  BY Zenon DEF Alarm, Raise
<1>4. r \in Runs
  BY DEF Types
<1>5. r' = [r EXCEPT !.errs = TRUE] => r'.waited = r.waited /\ r'.code = r.code
  BY <1>4 DEF Runs
<1>6. SamePart
  BY <1>3, GotoPart DEF SamePart
<1>7. \/ at.pc \in Working \cup Helping \cup {"captured", "r_settle", "r_end"} /\ at'.pc = "raised"
      \/ /\ at.pc \in InRun /\ at'.pc \in {"r_stop", "r_dispose", "r_settle"}
         /\ r'.waited = r.waited /\ r'.code = r.code
      \/ at.pc \in Closing \cup {"publish"} /\ at' = at
      \/ at.pc = "caught" /\ at'.pc = "escaped"
  BY <1>3, <1>4, <1>5, GotoPart, FailingForm DEF Working, Helping, InRun, Closing
<1> QED BY <1>1, <1>2, <1>6, <1>7 DEF Alarm

LEMMA InputsForm ==
  ASSUME Types, InputsDone
  PROVE  /\ at.pc = "next" /\ at.ctx = "inputs" /\ Grows /\ UNCHANGED <<b, r, w, seen, n, f, out>>
         /\ \/ SamePart /\ at'.pc = "raised" /\ s'.failure
            \/ at' = [pc |-> "do", ctx |-> "admit", gate |-> 0, part |-> 1, op |-> "check"]
<1>1. AdmissionPlan[1] = "check"
  BY LinuxShape, MacShape
<1>2. s' = s \/ s' = Failed(s)
  BY DEF InputsDone
<1>3. Grows
  BY <1>2 DEF Failed, Grows, Types, Sessions
<1>4. CASE s' = Failed(s) /\ Raise
  BY <1>3, <1>4, GotoPart DEF InputsDone, Ended, Raise, Failed, Types, Sessions, nativeVars
<1>5. CASE at' = Begins("admit", 0, AdmissionPlan[1])
  BY <1>1, <1>3, <1>5 DEF InputsDone, Ended, Begins, nativeVars
<1> QED BY <1>4, <1>5 DEF InputsDone

LEMMA AdmittedForm ==
  ASSUME Types, Admitted
  PROVE  /\ at.pc = "next" /\ at.ctx = "admit" /\ at.part = Len(Parts) /\ Grows
         /\ UNCHANGED <<b, r, w, seen, n, f, out>>
         /\ at' = [pc |-> "do", ctx |-> "tools", gate |-> 0, part |-> 1, op |-> "touch"]
<1>1. Grows
  BY DEF Admitted, Grows, Types, Sessions
<1> QED BY <1>1 DEF Admitted, Ended, Begins, nativeVars

LEMMA ToolsForm ==
  ASSUME Types, ToolsDone
  PROVE  /\ at.pc = "next" /\ at.ctx = "tools" /\ UNCHANGED <<s, b, r, w, n, f, out>>
         /\ ~seen'.stained /\ seen'.touched = seen.touched
         /\ at' = [pc |-> "do", ctx |-> "gate", gate |-> 1, part |-> 1, op |-> "touch"]
<1>1. GateParts(job.gates[1])[1] = "touch"
  BY GateShape
<1> QED BY <1>1 DEF ToolsDone, Ended, Begins, Types, Watches, nativeVars

LEMMA GateForm ==
  ASSUME Types, GatePass
  PROVE  /\ at.pc = "next" /\ at.ctx = "gate" /\ at.part = Len(Parts)
         /\ UNCHANGED <<s, b, r, w, n, f>>
         /\ ~seen'.stained /\ seen'.touched = seen.touched
         /\ out' = [out EXCEPT !.passed = @ \cup {job.gates[at.gate]}]
         /\ \/ /\ at.gate = Len(job.gates)
               /\ at' = [pc |-> "do", ctx |-> "end", gate |-> 0, part |-> 1, op |-> "touch"]
            \/ at' = [pc |-> "do", ctx |-> "gate", gate |-> at.gate + 1, part |-> 1, op |-> "touch"]
<1> DEFINE g == at.gate + 1
<1>1. GateParts(job.gates[g])[1] = "touch"
  BY GateShape
<1> QED BY <1>1 DEF GatePass, Ended, Begins, Types, Watches, nativeVars

LEMMA NsOpenForm ==
  ASSUME Types, NsOpen
  PROVE  /\ at.pc = "do" /\ at.op = "ns-open" /\ CanIdle /\ SamePart /\ Grows
         /\ UNCHANGED <<job, r, w, seen>>
         /\ b'.home = b.home /\ b'.ns.made /\ b'.ns.tried = b.ns.tried
         /\ (at'.pc = "next" \/ (at'.pc = "raised" /\ s'.failure))
<1>1. \/ /\ b' = [b EXCEPT !.ns = [@ EXCEPT !.made = TRUE, !.fd = TRUE, !.known = TRUE]]
         /\ s' = [s EXCEPT !.idle = TRUE] /\ Goto("next")
      \/ /\ \E fd \in BOOLEAN : b' = [b EXCEPT !.ns = [@ EXCEPT !.made = TRUE, !.fd = fd]]
         /\ s' = Failed(s) /\ Goto("raised")
  BY Zenon DEF NsOpen, BecomeIdle, NsRaises, Raise
<1>2. at.pc = "do" /\ at.op = "ns-open" /\ CanIdle /\ UNCHANGED <<job, r, w, seen>>
  BY Zenon DEF NsOpen, Doing
<1>3. b \in Custodies /\ b.ns \in Limits /\ s \in Sessions
  BY DEF Types, Custodies
<1>4. \E v \in Limits : b' = [b EXCEPT !.ns = v] /\ v.made /\ v.tried = b.ns.tried
  <2>1. CASE b' = [b EXCEPT !.ns = [@ EXCEPT !.made = TRUE, !.fd = TRUE, !.known = TRUE]]
    <3> DEFINE v == [b.ns EXCEPT !.made = TRUE, !.fd = TRUE, !.known = TRUE]
    <3>1. v \in Limits /\ v.made /\ v.tried = b.ns.tried
      BY <1>3 DEF Limits
    <3> QED BY <2>1, <3>1
  <2>2. ASSUME NEW fd \in BOOLEAN, b' = [b EXCEPT !.ns = [@ EXCEPT !.made = TRUE, !.fd = fd]]
        PROVE  \E v \in Limits : b' = [b EXCEPT !.ns = v] /\ v.made /\ v.tried = b.ns.tried
    <3> DEFINE v == [b.ns EXCEPT !.made = TRUE, !.fd = fd]
    <3>1. v \in Limits /\ v.made /\ v.tried = b.ns.tried
      BY <1>3 DEF Limits
    <3> QED BY <2>2, <3>1
  <2> QED BY Zenon, <1>1, <2>1, <2>2
<1>5. b'.home = b.home /\ b'.ns.made /\ b'.ns.tried = b.ns.tried
  BY <1>3, <1>4 DEF Custodies
<1>6. (s' = [s EXCEPT !.idle = TRUE] /\ Goto("next")) \/ (s' = Failed(s) /\ Goto("raised"))
  BY Zenon, <1>1
<1>7. Grows /\ (s' = Failed(s) => s'.failure)
  BY <1>3, <1>6 DEF Sessions, Failed, Grows
<1> QED BY <1>2, <1>5, <1>6, <1>7, GotoPart

LEMMA NodeForm ==
  ASSUME Types, MakeNode
  PROVE  /\ at.pc = "do" /\ at.op \in Nodes /\ SamePart /\ SameProcesses
         /\ at'.pc \in {"next", "raised"} /\ UNCHANGED <<job, s, r, seen>>
         /\ w'.ns = w.ns /\ w'.ns0 = w.ns0 /\ w'.mode = w.mode /\ w'.mode0 = w.mode0
         /\ w'.late = w.late /\ w'.alarm = w.alarm
         /\ \A x \in Nodes : w'.node[x] = w.node[x] \/ (x = at.op /\ w.node[x] = "none")
         /\ b'.ns = b.ns /\ b'.home.made = b.home.made
         /\ \A x \in Nodes : x # at.op => b'.home.node[x] = b.home.node[x]
         /\ b'.home.node[at.op] \in {"tried", "owned"}
<1>1. at.pc = "do" /\ at.op \in Nodes /\ UNCHANGED <<job, s, r, seen>>
  BY Zenon DEF MakeNode
<1>2. (Goto("next") \/ Goto("raised"))
      /\ (w' = w \/ (w.node[at.op] = "none" /\ w' = [w EXCEPT !.node[at.op] = "ours"]))
  BY Zenon DEF MakeNode, Raise
<1>3. \E v \in {"tried", "owned"} : b' = [b EXCEPT !.home.node[at.op] = v]
  BY Zenon DEF MakeNode
<1>4. /\ b'.ns = b.ns /\ b'.home.made = b.home.made
      /\ \A x \in Nodes : x # at.op => b'.home.node[x] = b.home.node[x]
      /\ b'.home.node[at.op] \in {"tried", "owned"}
  BY <1>1, <1>3 DEF Types, Custodies, Homes
<1>5. /\ SameProcesses /\ w'.ns = w.ns /\ w'.ns0 = w.ns0 /\ w'.mode = w.mode
      /\ w'.mode0 = w.mode0 /\ w'.late = w.late /\ w'.alarm = w.alarm
      /\ \A x \in Nodes : w'.node[x] = w.node[x] \/ (x = at.op /\ w.node[x] = "none")
  BY <1>1, <1>2 DEF Types, Worlds, SameProcesses
<1> QED BY <1>1, <1>2, <1>4, <1>5, GotoPart

LEMMA BeginForm ==
  ASSUME Types, CloseBegin
  PROVE  /\ at.pc = "close" /\ at'.pc = "c_census" /\ SamePart /\ Grows /\ SameMachine
         /\ w'.leader \in {w.leader, "none"} /\ w'.kin = w.kin /\ w'.helper = w.helper
         /\ UNCHANGED <<job, b, r, seen>>
<1>1. w' = w \/ w' = Collected
  BY Zenon DEF CloseBegin
<1>2. /\ SameMachine /\ w'.leader \in {w.leader, "none"} /\ w'.kin = w.kin
      /\ w'.helper = w.helper
  <2>1. CASE w' = w
    BY <2>1 DEF SameMachine
  <2>2. CASE w' = Collected
    BY <2>2 DEF Collected, Types, Worlds, SameMachine
  <2> QED BY <1>1, <2>1, <2>2
<1> DEFINE t == [s EXCEPT !.failure = @ \/ w.late \/ Owned]
<1>3. s' = t \/ s' = [t EXCEPT !.active = FALSE] \/ s' = [t EXCEPT !.errors = TRUE]
  BY Zenon DEF CloseBegin
<1>6. t \in Sessions /\ t.pending = s.pending /\ t.cancelled = s.cancelled
      /\ (s.failure => t.failure)
  BY DEF Types, Sessions
<1> HIDE DEF t
<1>4. Grows
  BY <1>3, <1>6 DEF Sessions, Grows
<1>5. at.pc = "close" /\ Goto("c_census") /\ UNCHANGED <<job, b, r, seen>>
  BY Zenon DEF CloseBegin
<1> QED BY <1>2, <1>4, <1>5, GotoPart

LEMMA NsForm ==
  ASSUME Types, CloseNs
  PROVE  /\ at.pc = "c_ns" /\ at'.pc = "c_home" /\ SamePart /\ Grows /\ SameProcesses
         /\ w'.ns0 = w.ns0 /\ w'.mode = w.mode /\ w'.mode0 = w.mode0 /\ w'.node = w.node
         /\ b'.ns.made = b.ns.made /\ b'.ns.tried = b.ns.tried /\ b'.home = b.home
         /\ w'.ns = w.ns \/ (w'.ns = w.ns0 /\ w.ns = "zero" /\ Finality)
         /\ ~s'.failure => ~b.ns.made \/ ~b.ns.tried \/ w'.ns = w.ns0
         /\ UNCHANGED <<job, r, seen>>
<1>1. at.pc = "c_ns" /\ Goto("c_home") /\ UNCHANGED <<job, r, seen>>
  BY Zenon DEF CloseNs
<1>2. \/ w' = w /\ s' = s /\ (~b.ns.made \/ ~b.ns.tried)
      \/ w' = [w EXCEPT !.ns = w.ns0] /\ s' = s /\ Finality /\ w.ns = "zero"
      \/ w' \in {w, [w EXCEPT !.ns = w.ns0]} /\ s' = Unfinished /\ Finality /\ w.ns = "zero"
      \/ w' = w /\ s' = Unfinished
  BY Zenon DEF CloseNs
<1>3. /\ SameProcesses /\ w'.ns0 = w.ns0 /\ w'.mode = w.mode /\ w'.mode0 = w.mode0
      /\ w'.node = w.node /\ w'.ns \in {w.ns, w.ns0}
  BY <1>2 DEF Types, Worlds, SameProcesses
<1>4. w' = [w EXCEPT !.ns = w.ns0] => w'.ns = w.ns0
  BY DEF Types, Worlds
<1>5. Grows /\ (s' = Unfinished => s'.failure)
  BY <1>2 DEF Types, Sessions, Unfinished, Grows
<1>6. b'.ns.made = b.ns.made /\ b'.ns.tried = b.ns.tried /\ b'.home = b.home
  <2> DEFINE v == [b.ns EXCEPT !.closed = TRUE, !.fd = FALSE]
  <2>1. b' = b \/ b' = [b EXCEPT !.ns = v]
    BY Zenon DEF CloseNs, NsOver
  <2>2. v.made = b.ns.made /\ v.tried = b.ns.tried
    BY DEF Types, Custodies, Limits
  <2> HIDE DEF v
  <2> QED BY <2>1, <2>2 DEF Types, Custodies
<1> QED BY <1>1, <1>2, <1>3, <1>4, <1>5, <1>6, GotoPart

LEMMA HomeStepForm ==
  ASSUME Types, CloseHome
  PROVE  /\ at.pc = "c_home" /\ at'.pc = "publish" /\ SamePart /\ Grows /\ SameProcesses
         /\ w'.ns0 = w.ns0 /\ w'.ns = w.ns /\ w'.mode0 = w.mode0
         /\ b'.ns = b.ns /\ b'.home.made = b.home.made /\ b'.home.node = b.home.node
         /\ w'.mode = w.mode \/ (w'.mode = w.mode0 /\ w.mode = "search")
         /\ \A x \in Nodes : \/ w'.node[x] = w.node[x]
                             \/ w'.node[x] = "none" /\ w.node[x] = "ours"
         /\ ~s'.failure => \/ ~b.home.made /\ w' = w
                           \/ /\ w'.mode = w.mode0
                              /\ \A x \in Nodes :
                                   w'.node[x] = "ours" => b.home.node[x] \notin {"tried", "owned"}
         /\ UNCHANGED <<job, r, seen>>
<1> DEFINE left == [x \in Nodes |-> IF Removable(x) THEN "none" ELSE w.node[x]]
<1> DEFINE kept == \E x \in Nodes :
      b.home.node[x] = "tried" \/ (b.home.node[x] = "owned" /\ ~Removable(x))
<1> DEFINE restored == [w EXCEPT !.mode = w.mode0, !.node = left]
<1>1. at.pc = "c_home" /\ Goto("publish") /\ UNCHANGED <<job, r, seen>>
  BY Zenon DEF CloseHome
<1>2. \/ w' = w /\ s' = [s EXCEPT !.closed = TRUE] /\ ~b.home.made
      \/ /\ w' = restored /\ w.mode = "search"
         /\ \/ kept /\ s' = [Unfinished EXCEPT !.closed = TRUE]
            \/ ~kept /\ s' = [s EXCEPT !.closed = TRUE]
      \/ /\ w' \in {w, [w EXCEPT !.mode = w.mode0]} /\ w.mode = "search"
         /\ s' = [Unfinished EXCEPT !.closed = TRUE]
      \/ w' = w /\ s' = [Unfinished EXCEPT !.closed = TRUE]
  BY Zenon DEF CloseHome
<1>3. b'.ns = b.ns /\ b'.home.made = b.home.made /\ b'.home.node = b.home.node
  <2> DEFINE v == [b.home EXCEPT !.closed = TRUE, !.pin = FALSE]
  <2>1. b' = b \/ b' = [b EXCEPT !.home = v]
    BY Zenon DEF CloseHome
  <2>2. v.made = b.home.made /\ v.node = b.home.node
    BY DEF Types, Custodies, Homes
  <2> HIDE DEF v
  <2> QED BY <2>1, <2>2 DEF Types, Custodies
<1>4. \A x \in Nodes : \/ left[x] = w.node[x]
                       \/ left[x] = "none" /\ w.node[x] = "ours"
  BY DEF Removable
<1>5. ~kept => \A x \in Nodes : left[x] = "ours" => b.home.node[x] \notin {"tried", "owned"}
  BY DEF Removable
<1>6. Grows /\ (s' = [Unfinished EXCEPT !.closed = TRUE] => s'.failure)
  <2>1. s' = [s EXCEPT !.closed = TRUE] \/ s' = [Unfinished EXCEPT !.closed = TRUE]
    BY Zenon, <1>2
  <2> QED BY <2>1 DEF Types, Sessions, Unfinished, Grows
<1> HIDE DEF left, kept
<1>7. /\ SameProcesses /\ w'.ns0 = w.ns0 /\ w'.ns = w.ns /\ w'.mode0 = w.mode0
      /\ w'.mode = w.mode \/ (w'.mode = w.mode0 /\ w.mode = "search")
      /\ w'.node \in {w.node, left}
  <2>1. w' = w \/ (w' = [w EXCEPT !.mode = w.mode0] /\ w.mode = "search")
        \/ (w' = restored /\ w.mode = "search")
    BY Zenon, <1>2
  <2>2. CASE w' = w
    BY <2>2 DEF SameProcesses
  <2>3. CASE w' = [w EXCEPT !.mode = w.mode0] /\ w.mode = "search"
    BY <2>3 DEF Types, Worlds, SameProcesses
  <2>4. CASE w' = restored /\ w.mode = "search"
    BY <2>4 DEF Types, Worlds, SameProcesses
  <2> QED BY Zenon, <2>1, <2>2, <2>3, <2>4
<1>8. w' = restored => w'.mode = w.mode0 /\ w'.node = left
  BY DEF Types, Worlds
<1>9. \A x \in Nodes : \/ w'.node[x] = w.node[x]
                       \/ w'.node[x] = "none" /\ w.node[x] = "ours"
  BY <1>4, <1>7
<1>10. ~s'.failure => \/ ~b.home.made /\ w' = w
                      \/ /\ w'.mode = w.mode0
                         /\ \A x \in Nodes :
                              w'.node[x] = "ours" => b.home.node[x] \notin {"tried", "owned"}
  BY <1>2, <1>5, <1>6, <1>8
<1> QED BY <1>1, <1>3, <1>6, <1>7, <1>9, <1>10, GotoPart

LEMMA FilesForm ==
  ASSUME Types, CloseFiles
  PROVE  /\ at.pc = "c_files" /\ at'.pc = "c_ns" /\ SamePart /\ Grows
         /\ ~s'.failure => \/ (~f.held \/ f.closed) /\ f' = f
                           \/ f'.tree = "removed" /\ f'.held /\ f'.closed
         /\ f.tree \in {"changed", "partial"} => f'.tree # "removed"
         /\ f'.held = f.held /\ (~f.held => f' = f)
         /\ f'.closed => f.closed \/ f.held
         /\ f'.tree \in {f.tree, "removed"}
         /\ UNCHANGED <<job, b, r, w, seen, n>>
<1>1. at.pc = "c_files" /\ Goto("c_ns") /\ UNCHANGED <<job, b, r, w, seen, n>>
  BY Zenon DEF CloseFiles
<1>2. \/ (~f.held \/ f.closed) /\ s' = s /\ f' = f
      \/ f.held /\ s.failure /\ s' = s /\ f' = [f EXCEPT !.closed = TRUE]
      \/ f.held /\ f.tree = "ours" /\ s' = s /\ f' = [f EXCEPT !.closed = TRUE, !.tree = "removed"]
      \/ f.held /\ s' = Unfinished /\ f' = [f EXCEPT !.closed = TRUE]
  BY Zenon DEF CloseFiles, Disposable
<1>3. Grows /\ (s' = Unfinished => s'.failure)
  BY <1>2 DEF Types, Sessions, Unfinished, Grows
<1>4. /\ f' = [f EXCEPT !.closed = TRUE] => f'.tree = f.tree /\ f'.held = f.held
      /\ f' = [f EXCEPT !.closed = TRUE, !.tree = "removed"]
           => f'.tree = "removed" /\ f'.held = f.held /\ f'.closed
  BY DEF Types, Files
<1>5. f.tree \in {"changed", "partial"} => f'.tree # "removed"
  BY <1>2, <1>4
<1> QED BY <1>1, <1>2, <1>3, <1>4, <1>5, GotoPart

LEMMA WaitForm ==
  ASSUME Types, RunWait
  PROVE  /\ at.pc = "r_wait" /\ at'.pc = "r_dispose" /\ SamePart /\ SameMachine
         /\ w'.kin = w.kin /\ w'.helper = w.helper /\ UNCHANGED <<job, s, b, seen>>
         /\ \/ r.waited /\ r' = r /\ w' = w
            \/ ~r.waited /\ w.leader = "zombie" /\ r'.waited /\ r'.code = w.exit /\ w'.leader = "none"
            \/ ~r.waited /\ w.leader = "live" /\ ~r'.waited /\ w' = w
<1>1. at.pc = "r_wait" /\ Goto("r_dispose") /\ UNCHANGED <<job, s, b, seen>>
  BY Zenon DEF RunWait
<1>2. \/ r.waited /\ r' = r /\ w' = w
      \/ ~r.waited /\ w.leader = "zombie" /\ r' = Reaped /\ w' = Collected
      \/ ~r.waited /\ w.leader = "live" /\ r' = [r EXCEPT !.errs = TRUE] /\ w' = w
  BY Zenon DEF RunWait
<1>3. Reaped.waited /\ Reaped.code = w.exit
  BY DEF Reaped, Types, Runs
<1>4. [r EXCEPT !.errs = TRUE].waited = r.waited
  BY DEF Types, Runs
<1>5. /\ Collected.leader = "none" /\ Collected.kin = w.kin /\ Collected.helper = w.helper
      /\ Collected.ns = w.ns /\ Collected.ns0 = w.ns0 /\ Collected.mode = w.mode
      /\ Collected.mode0 = w.mode0 /\ Collected.node = w.node
  BY DEF Collected, Types, Worlds
<1>6. SameMachine /\ w'.kin = w.kin /\ w'.helper = w.helper
  BY <1>2, <1>5 DEF SameMachine
<1>7. \/ r.waited /\ r' = r /\ w' = w
      \/ ~r.waited /\ w.leader = "zombie" /\ r'.waited /\ r'.code = w.exit /\ w'.leader = "none"
      \/ ~r.waited /\ w.leader = "live" /\ ~r'.waited /\ w' = w
  BY <1>2, <1>3, <1>4, <1>5
<1> QED BY <1>1, <1>6, <1>7, GotoPart

LEMMA SmallForm ==
  ASSUME Types, Small
  PROVE  /\ at.pc = "do" /\ at.op \in {"home-positive", "write-positive", "owner-loss", "signal"}
         /\ at.op # "signal" => CanIdle
         /\ SamePart /\ SameMachine /\ UNCHANGED <<job, b, r, seen>>
         /\ w'.leader = w.leader /\ w'.kin = w.kin /\ s'.cancelled = s.cancelled
         /\ (s.failure => s'.failure)
         /\ \/ at'.pc = "raised" /\ w' = w /\ s'.failure /\ s'.pending = s.pending
            \/ /\ at'.pc = "small" /\ s'.pending
               /\ w'.helper = IF at.op = "owner-loss" THEN "owner" ELSE "subject"
               /\ Asserted => Assertable
<1>1. /\ at.pc = "do" /\ at.op \in {"home-positive", "write-positive", "owner-loss", "signal"}
      /\ (at.op # "signal" => CanIdle)
      /\ UNCHANGED <<job, b, r, seen>>
  BY Zenon DEF Small
<1> DEFINE who == IF at.op = "owner-loss" THEN "owner" ELSE "subject"
<1>2. \/ Asserted /\ ~Assertable /\ s' = Failed(s) /\ w' = w /\ Goto("raised")
      \/ /\ ~(Asserted /\ ~Assertable) /\ s' = [s EXCEPT !.pending = TRUE, !.idle = FALSE]
         /\ w' = [w EXCEPT !.helper = who] /\ Goto("small")
  BY Zenon DEF Small, SmallHelper, Raise
<1>3. CASE Asserted /\ ~Assertable /\ s' = Failed(s) /\ w' = w /\ Goto("raised")
  BY <1>1, <1>3, GotoPart DEF Failed, Types, Sessions, SameMachine
<1>4. CASE /\ ~(Asserted /\ ~Assertable) /\ s' = [s EXCEPT !.pending = TRUE, !.idle = FALSE]
           /\ w' = [w EXCEPT !.helper = who] /\ Goto("small")
  <2>1. s'.pending /\ s'.cancelled = s.cancelled /\ s'.failure = s.failure
    BY <1>4 DEF Types, Sessions
  <2>2. w'.helper = who /\ w'.leader = w.leader /\ w'.kin = w.kin /\ SameMachine
    BY <1>4 DEF Types, Worlds, SameMachine
  <2> QED BY <1>1, <1>4, <2>1, <2>2, GotoPart
<1> QED BY <1>2, <1>3, <1>4

LEMMA CensusForm ==
  ASSUME Types, CloseCensus
  PROVE  /\ at.pc = "c_census" /\ at'.pc = "c_native" /\ SamePart /\ Grows
         /\ ~s'.failure => ~CouldWrite \/ w.helper = "owner"
         /\ ~s'.failure => ~Owned
         /\ UNCHANGED <<job, b, r, w, seen>>
<1> DEFINE veto == [s EXCEPT !.idle = FALSE, !.errors = TRUE, !.failure = TRUE]
<1>1. at.pc = "c_census" /\ Goto("c_native") /\ UNCHANGED <<job, b, r, w, seen>>
  BY Zenon DEF CloseCensus
<1>2. (~Owned /\ ~Domain /\ s' = [s EXCEPT !.idle = TRUE]) \/ s' = veto
  BY Zenon DEF CloseCensus
<1>3. Grows /\ (s' = veto => s'.failure)
  BY <1>2 DEF Types, Sessions, Grows
<1>4. ~Domain => ~CouldWrite \/ w.helper = "owner"
  BY DEF Domain, CouldWrite, Types, Worlds
<1> QED BY <1>1, <1>2, <1>3, <1>4, GotoPart

LEMMA NativeForm ==
  ASSUME Types, CloseNative
  PROVE  /\ at.pc = "c_native" /\ at'.pc = "c_files" /\ SamePart /\ Grows
         /\ UNCHANGED <<job, b, r, w, seen, f>>
<1>1. at.pc = "c_native" /\ Goto("c_files") /\ UNCHANGED <<job, b, r, w, seen, f>>
  BY Zenon DEF CloseNative
<1>2. s' = Failed(s) \/ s' = s \/ s' = Unfinished
  BY DEF CloseNative
<1>3. Grows
  BY <1>2 DEF Types, Sessions, Failed, Unfinished, Grows
<1> QED BY <1>1, <1>3, GotoPart

LEMMA StopsForm ==
  ASSUME Types, LoopStops
  PROVE  /\ at.pc = "r_loop" /\ at' = at /\ (s' = s \/ s' = Failed(s))
         /\ r'.waited = r.waited /\ r'.code = r.code /\ UNCHANGED <<job, b, w, seen>>
<1>1. at.pc = "r_loop" /\ s' = Latched /\ UNCHANGED <<job, at, b, w, seen>>
  BY Zenon DEF LoopStops
<1>2. r' = Failing(r) \/ r' = [Failing(r) EXCEPT !.cut = TRUE]
  BY Zenon DEF LoopStops
<1>3. Failing(r) \in Runs /\ Failing(r).waited = r.waited /\ Failing(r).code = r.code
  BY DEF Failing, Types, Runs
<1>4. r'.waited = r.waited /\ r'.code = r.code
  BY <1>2, <1>3 DEF Runs
<1> QED BY <1>1, <1>4 DEF Latched

LEMMA SweepForm ==
  ASSUME Types, NEW then, Sweeps(then)
  PROVE  /\ then /\ r'.waited = r.waited /\ r'.code = r.code /\ (s' = s \/ s' = Failed(s))
         /\ \/ w' = w
            \/ /\ job.platform = "darwin" /\ w.leader = "none"
               /\ \/ w' = [w EXCEPT !.kin = "none"] /\ w.helper = "none"
                  \/ w' = [w EXCEPT !.helper = "subject"]
<1>1. /\ then /\ (s' = s \/ s' = Latched)
      /\ \/ r' = [r EXCEPT !.swept = TRUE]
         \/ r' = [r EXCEPT !.swept = TRUE, !.errs = TRUE, !.fail = TRUE]
  BY Zenon DEF Sweeps
<1>2. \/ w' = w
      \/ /\ job.platform = "darwin" /\ w.leader = "none"
         /\ \/ w' = [w EXCEPT !.kin = "none"] /\ w.helper = "none"
            \/ w' = [w EXCEPT !.helper = "subject"]
  BY DEF Sweeps
<1>3. r'.waited = r.waited /\ r'.code = r.code
  BY <1>1 DEF Types, Runs
<1> QED BY <1>1, <1>2, <1>3 DEF Latched

LEMMA DisposeForm ==
  ASSUME Types, RunDispose
  PROVE  /\ at.pc = "r_dispose" /\ at'.pc = "r_settle" /\ SamePart
         /\ UNCHANGED <<job, b, seen>> /\ (s' = s \/ s' = Failed(s))
         /\ r'.waited = r.waited /\ r'.code = r.code
         /\ \/ w' = w
            \/ /\ job.platform = "darwin" /\ w.leader = "none"
               /\ \/ w' = [w EXCEPT !.kin = "none"] /\ w.helper = "none"
                  \/ w' = [w EXCEPT !.helper = "subject"]
<1>1. at.pc = "r_dispose" /\ UNCHANGED <<job, b, seen>>
  BY Zenon DEF RunDispose
<1>2. CASE Sweeps(Goto("r_settle"))
  BY <1>1, <1>2, SweepForm, GotoPart
<1>3. CASE Goto("r_settle") /\ UNCHANGED <<s, r, w>>
  BY <1>1, <1>3, GotoPart
<1> QED BY Zenon, <1>2, <1>3 DEF RunDispose

LEMMA LoopSweepsForm ==
  ASSUME Types, LoopSweeps
  PROVE  /\ at.pc = "r_loop" /\ at' = at /\ UNCHANGED <<job, b, seen>>
         /\ (s' = s \/ s' = Failed(s)) /\ r'.waited = r.waited /\ r'.code = r.code
         /\ \/ w' = w
            \/ /\ job.platform = "darwin" /\ w.leader = "none"
               /\ \/ w' = [w EXCEPT !.kin = "none"] /\ w.helper = "none"
                  \/ w' = [w EXCEPT !.helper = "subject"]
  BY SweepForm DEF LoopSweeps

LEMMA ReapForm ==
  ASSUME Types, Reap
  PROVE  /\ at.pc = "r_loop" /\ at' = at /\ UNCHANGED <<job, b, seen>>
         /\ (s' = s \/ s' = Failed(s)) /\ SameMachine
         /\ w.leader = "zombie" /\ w'.leader = "none" /\ w'.kin = w.kin /\ w'.helper = w.helper
         /\ r'.waited /\ r'.code = w.exit
<1>1. /\ at.pc = "r_loop" /\ w.leader = "zombie" /\ w' = Collected
      /\ (s' = s \/ s' = Latched) /\ UNCHANGED <<job, at, b, seen>>
      /\ (r' = Failing(Reaped) \/ r' = Reaped)
  BY Zenon DEF Reap
<1>2. Reaped \in Runs /\ Reaped.waited /\ Reaped.code = w.exit
  BY DEF Reaped, Types, Runs, Worlds
<1>3. /\ Collected.leader = "none" /\ Collected.kin = w.kin /\ Collected.helper = w.helper
      /\ Collected.ns = w.ns /\ Collected.ns0 = w.ns0 /\ Collected.mode = w.mode
      /\ Collected.mode0 = w.mode0 /\ Collected.node = w.node
  BY DEF Collected, Types, Worlds
<1>4. r'.waited /\ r'.code = w.exit
  BY <1>1, <1>2, FailingForm
<1> QED BY <1>1, <1>3, <1>4 DEF Latched, SameMachine

LEMMA WriteForm ==
  ASSUME Types, NsWrite
  PROVE  /\ at.pc = "do" /\ at.op = "ns-write" /\ at'.pc \in {"next", "raised"} /\ SamePart
         /\ Grows /\ SameProcesses /\ UNCHANGED <<job, r, seen>>
         /\ w'.ns0 = w.ns0 /\ w'.mode = w.mode /\ w'.mode0 = w.mode0 /\ w'.node = w.node
         /\ b'.home = b.home /\ b'.ns.made = b.ns.made
         /\ w'.ns = w.ns \/ (w'.ns = "zero" /\ w.ns0 # "zero")
         /\ b'.ns.tried = b.ns.tried \/ b'.ns.tried
         /\ w.ns0 = "zero" \/ b'.ns.tried
<1>1. at.pc = "do" /\ at.op = "ns-write" /\ UNCHANGED <<job, r, seen>>
  BY Zenon DEF NsWrite, Doing
<1>2. /\ Goto("next") \/ Goto("raised")
      /\ s' = s \/ s' = Failed(s)
      /\ \/ w.ns0 = "zero" /\ b' = b /\ w' = w
         \/ /\ w.ns0 # "zero" /\ b' = [b EXCEPT !.ns.tried = TRUE]
            /\ w' = w \/ w' = [w EXCEPT !.ns = "zero"]
  BY DEF NsWrite, NsRaises, Raise
<1>3. b.ns \in Limits /\ b \in Custodies
  BY DEF Types, Custodies
<1>4. b' = [b EXCEPT !.ns.tried = TRUE]
        => b'.home = b.home /\ b'.ns.made = b.ns.made /\ b'.ns.tried
  BY <1>3 DEF Custodies, Limits
<1>5. Grows
  BY <1>2 DEF Types, Sessions, Failed, Grows
<1>6. /\ SameProcesses /\ w'.ns0 = w.ns0 /\ w'.mode = w.mode /\ w'.mode0 = w.mode0
      /\ w'.node = w.node /\ (w'.ns = w.ns \/ (w'.ns = "zero" /\ w.ns0 # "zero"))
  BY <1>2 DEF Types, Worlds, SameProcesses
<1> QED BY <1>1, <1>2, <1>4, <1>5, <1>6, GotoPart

LEMMA PinForm ==
  ASSUME Types, HomePin
  PROVE  /\ at.pc = "do" /\ at.op = "home-pin" /\ at'.pc \in {"next", "raised"} /\ SamePart
         /\ Grows /\ SameProcesses /\ UNCHANGED <<job, r, seen>>
         /\ w'.ns0 = w.ns0 /\ w'.ns = w.ns /\ w'.mode0 = w.mode0 /\ w'.node = w.node
         /\ b'.ns = b.ns /\ b'.home.made /\ b'.home.node = b.home.node
<1> DEFINE tried == w.mode0 = "narrow"
<1> DEFINE open == [b.home EXCEPT !.made = TRUE, !.pin = TRUE, !.tried = tried]
<1> DEFINE shut == [b.home EXCEPT !.made = TRUE, !.pin = TRUE]
<1>1. at.pc = "do" /\ at.op = "home-pin" /\ UNCHANGED <<job, r, seen>> /\ s' = [s EXCEPT !.idle = TRUE]
  BY Zenon DEF HomePin, Doing, BecomeIdle
<1>2. /\ Goto("next") \/ Goto("raised")
      /\ w' = w \/ w' = [w EXCEPT !.mode = "search"]
  BY Zenon DEF HomePin, Raise
<1>3. \/ b' = [[b EXCEPT !.home = open] EXCEPT !.home.ready = TRUE]
      \/ b' = [b EXCEPT !.home = open] \/ b' = [b EXCEPT !.home = shut]
  BY Zenon DEF HomePin
<1>4. /\ open \in Homes /\ open.made /\ open.node = b.home.node
      /\ shut.made /\ shut.node = b.home.node
      /\ [open EXCEPT !.ready = TRUE].made /\ [open EXCEPT !.ready = TRUE].node = b.home.node
  BY DEF Types, Custodies, Homes
<1>5. [[b EXCEPT !.home = open] EXCEPT !.home.ready = TRUE]
        = [b EXCEPT !.home = [open EXCEPT !.ready = TRUE]]
  BY <1>4 DEF Types, Custodies
<1> DEFINE ready == [open EXCEPT !.ready = TRUE]
<1>6. b' = [b EXCEPT !.home = ready] \/ b' = [b EXCEPT !.home = open] \/ b' = [b EXCEPT !.home = shut]
  BY <1>3, <1>5
<1>7. ready.made /\ ready.node = b.home.node
  BY <1>4
<1> HIDE DEF open, shut, ready
<1>8. b'.ns = b.ns /\ b'.home.made /\ b'.home.node = b.home.node
  BY <1>4, <1>6, <1>7 DEF Types, Custodies
<1>9. Grows
  BY <1>1 DEF Types, Sessions, Grows
<1>10. /\ SameProcesses /\ w'.ns0 = w.ns0 /\ w'.ns = w.ns /\ w'.mode0 = w.mode0
       /\ w'.node = w.node
  BY <1>2 DEF Types, Worlds, SameProcesses
<1> QED BY <1>1, <1>2, <1>8, <1>9, <1>10, GotoPart

LEMMA DriftForm ==
  ASSUME Types, Drift
  PROVE  /\ Opened /\ Looks /\ UNCHANGED <<job, at, s, b, r, seen>> /\ SameProcesses
         /\ w'.ns0 = w.ns0 /\ w'.mode0 = w.mode0 /\ w'.late = w.late /\ w'.alarm = w.alarm
         /\ w'.ns \in {w.ns, "drift"} /\ w'.mode \in {w.mode, "drift"}
         /\ \A x \in Nodes : w'.node[x] \in {w.node[x], "foreign"}
<1>1. Opened /\ Looks /\ UNCHANGED <<job, at, s, b, r, seen>>
  BY Zenon DEF Drift
<1>2. \/ w' = [w EXCEPT !.ns = "drift"]
      \/ w' = [w EXCEPT !.mode = "drift"]
      \/ \E x \in Nodes : w' = [w EXCEPT !.node[x] = "foreign"]
  BY Zenon DEF Drift
<1>3. CASE w' = [w EXCEPT !.ns = "drift"]
  BY <1>1, <1>3 DEF Types, Worlds, SameProcesses
<1>4. CASE w' = [w EXCEPT !.mode = "drift"]
  BY <1>1, <1>4 DEF Types, Worlds, SameProcesses
<1>5. ASSUME NEW x \in Nodes, w' = [w EXCEPT !.node[x] = "foreign"]
      PROVE  /\ SameProcesses
             /\ w'.ns0 = w.ns0 /\ w'.mode0 = w.mode0 /\ w'.late = w.late /\ w'.alarm = w.alarm
             /\ w'.ns \in {w.ns, "drift"} /\ w'.mode \in {w.mode, "drift"}
             /\ \A y \in Nodes : w'.node[y] \in {w.node[y], "foreign"}
  BY <1>5 DEF Types, Worlds, SameProcesses
<1> QED BY <1>1, <1>2, <1>3, <1>4, <1>5

LEMMA PhaseForm ==
  ASSUME Types, NativeFinish
  PROVE  /\ at.pc = "captured" /\ at.op = "native" /\ at'.pc \in {"next", "raised"} /\ SamePart
         /\ Grows /\ UNCHANGED <<job, b, w, seen, f>>
<1>1. at.pc = "captured" /\ at.op = "native" /\ UNCHANGED <<job, b, w, seen, f>>
  BY Zenon DEF NativeFinish
<1>2. /\ Goto("next") \/ Goto("raised")
      /\ s' = [s EXCEPT !.idle = TRUE] \/ s' = Unfinished \/ s' = Failed(s)
  BY DEF NativeFinish, BecomeIdle, Raise
<1>3. Grows
  BY <1>2 DEF Types, Sessions, Unfinished, Failed, Grows
<1> QED BY <1>1, <1>2, <1>3, GotoPart

LEMMA PublishForm ==
  ASSUME Types, Publish
  PROVE  /\ at.pc = "publish" /\ Goto("finish") /\ UNCHANGED <<job, s, b, r, w, seen, n, f>>
         /\ out'.ok => Verdict /\ out'.published = "green"
         /\ out'.exit = out.exit /\ out'.proof = out.proof /\ out'.passed = out.passed
<1>1. at.pc = "publish" /\ Goto("finish") /\ UNCHANGED <<job, s, b, r, w, seen, n, f>>
  BY Zenon DEF Publish, nativeVars
<1>2. \/ out' = [out EXCEPT !.ok = Verdict, !.published = IF Verdict THEN "green" ELSE "red"]
      \/ \E text \in {"none", IF Verdict THEN "green" ELSE "red"} :
           out' = [out EXCEPT !.ok = FALSE, !.published = text]
  BY Zenon DEF Publish
<1>3. /\ out'.ok => Verdict /\ out'.published = "green"
      /\ out'.exit = out.exit /\ out'.proof = out.proof /\ out'.passed = out.passed
  BY <1>2 DEF Types, Reports, Verdict
<1> QED BY <1>1, <1>3

\* The steps that leave the gates and the proof of the report alone.
LEMMA SameReport ==
  ASSUME Types, OpenFails \/ AllRemoved \/ Caught \/ Escaped \/ Finish
  PROVE  out'.passed = out.passed /\ out'.proof = out.proof
<1>1. CASE OpenFails \/ Escaped \/ Caught
  BY <1>1 DEF Types, Reports, OpenFails, Escaped, Caught
<1>2. CASE AllRemoved
  BY <1>2 DEF Types, Reports, AllRemoved
<1>3. CASE Finish
  <2>1. \E faulty \in BOOLEAN : out' = [out EXCEPT !.exit = Exit(faulty)]
    BY Zenon, <1>3 DEF Finish
  <2> QED BY <2>1 DEF Types, Reports
<1> QED BY <1>1, <1>2, <1>3

\* The steps that may move the controller.
LEMMA KeepsPlace ==
  ASSUME [Next]_vars
  PROVE  at' = at \/ Refused \/ Setup \/ Spawn \/ Own \/ LoopEnds \/ RunStop \/ RunWait \/
    RunDispose \/ RunSettle \/ RunEnd \/ Judge \/ Touch \/ Touched \/ EnsureIdle \/ Provider \/
    Sentinel \/ Small \/ SmallReturns \/ SmallRaises \/ Lost \/ NsOpen \/ NsWrite \/ NsVerify \/
    HomePin \/ MakeNode \/ CloseBegin \/ CloseCensus \/ CloseNs \/ CloseHome \/ OrdinaryCapture
    \/ Prepare \/ Control \/ SignalControl \/ Prepared \/ NativeCapture \/ NativeFinish \/
    CreateFiles \/ ReuseFiles \/ VerifyFiles \/ CloseNative \/ CloseFiles \/ OpenSession \/
    OpenFails \/ Check \/ Advance \/ InputsDone \/ Admitted \/ ToolsDone \/ GatePass \/ Proof \/
    AllRemoved \/ Raised \/ Caught \/ Escaped \/ Publish \/ Finish \/ RunRaises \/ Alarm
<1> USE DEF sessionVars, nativeVars
<1>1. CASE UNCHANGED vars
  BY <1>1 DEF vars
<1>2. CASE Reap \/ LoopStops \/ LoopKills \/ ReadsEof
  BY <1>2 DEF LoopKills, LoopStops, ReadsEof, Reap
<1>3. CASE LoopSweeps
  BY <1>3 DEF LoopSweeps, Sweeps
<1>4. CASE PhaseRaised
  BY <1>4 DEF PhaseRaised
<1>5. CASE NamespaceEnds \/ KinEnds \/ OwnerLaunches \/ HelperEnds
  BY <1>5 DEF HelperEnds, KinEnds, NamespaceEnds, OwnerLaunches
<1>6. CASE RunClock \/ Late \/ Cancel \/ SubjectMeddles
  BY <1>6 DEF Cancel, Late, RunClock, SubjectMeddles
<1>7. CASE SubjectEnds
  BY <1>7 DEF SubjectEnds
<1>8. CASE SubjectForks
  BY <1>8 DEF SubjectForks
<1>9. CASE Drift
  BY <1>9 DEF Drift
<1> QED BY <1>1, <1>2, <1>3, <1>4, <1>5, <1>6, <1>7, <1>8, <1>9 DEF Next, Session, Native, Others,
      Controller, NativeController, Main, Machine, Terminated

-----------------------------------------------------------------------------
(* Where the controller is.                                                *)

\* A step to another place of the same part keeps the plan.
LEMMA GotoForm ==
  ASSUME at \in Places, Planned, job' = job, NEW p \in PCs \ {"open"}, Goto(p), at.ctx # "open" \/ p = "done",
         p \in InRun => at.op \in Captures,
         p = "touching" => at.op \in {"touch", "provider"},
         p = "small" => at.op \in {"home-positive", "write-positive", "owner-loss", "signal",
                                    "signal-control"},
         p = "lost" => at.op = "owner-loss"
  PROVE  at' \in Places /\ Planned'
<1>1. at' = [at EXCEPT !.pc = p]
  BY DEF Goto
<1>2. at' \in Places /\ at'.pc = p /\ at'.ctx = at.ctx /\ at'.gate = at.gate /\ at'.part = at.part
      /\ at'.op = at.op
  BY <1>1 DEF Places
<1>3. Parts' = Parts
  BY <1>2, SamePlan
<1> QED BY <1>2, <1>3 DEF Planned

\* The controller stays at a place of its plan.
LEMMA PlaceStep ==
  ASSUME at \in Places, Planned, [Next]_vars
  PROVE  at' \in Places /\ Planned'
<1> USE KeepsJob DEF PCs, Working, Helping, InRun, Beaten, Closing, Ending
<1>1. CASE at' = at
  <2>1. Parts' = Parts
    BY <1>1, SamePlan
  <2> QED BY <1>1, <2>1 DEF Planned
<1>2. CASE Refused
  BY <1>2, GotoForm DEF Refused, Raise, Planned, Captures
<1>3. CASE Setup
  BY <1>3, GotoForm DEF Setup, Planned, Captures
<1>4. CASE Spawn
  BY <1>4, GotoForm DEF Spawn, Planned, Captures
<1>5. CASE Own
  BY <1>5, GotoForm DEF Own, Planned, Captures
<1>6. CASE LoopEnds
  BY <1>6, GotoForm DEF LoopEnds, Planned, Captures
<1>7. CASE RunStop
  BY <1>7, GotoForm DEF RunStop, Planned, Captures
<1>8. CASE RunWait
  BY <1>8, GotoForm DEF RunWait, Planned, Captures
<1>9. CASE RunDispose
  <2>1. Goto("r_settle")
    BY Zenon, <1>9 DEF RunDispose, Sweeps
  <2>2. at.pc = "r_dispose"
    BY Zenon, <1>9 DEF RunDispose
  <2> QED BY <2>1, <2>2, GotoForm DEF Planned
<1>10. CASE RunSettle
  BY <1>10, GotoForm DEF RunSettle, Planned, Captures
<1>11. CASE RunEnd
  BY <1>11, GotoForm DEF RunEnd, Planned, Captures
<1>12. CASE Judge
  BY <1>12, GotoForm DEF Judge, Judged, Raise, Planned, Captures
<1>13. CASE Touch
  BY <1>13, GotoForm DEF Touch, Doing, Planned, Captures
<1>14. CASE Touched
  BY <1>14, GotoForm DEF Touched, Raise, Planned, Captures
<1>15. CASE EnsureIdle
  BY <1>15, GotoForm DEF EnsureIdle, Doing, Planned, Captures
<1>16. CASE Provider
  BY <1>16, GotoForm DEF Provider, Doing, Planned, Captures
<1>17. CASE Sentinel
  BY <1>17, GotoForm DEF Sentinel, Doing, Planned, Captures
<1>18. CASE Small
  BY <1>18, GotoForm DEF Small, Asserted, Raise, SmallHelper, Planned, Captures
<1>19. CASE SmallReturns
  BY <1>19, GotoForm DEF SmallReturns, Planned, Captures
<1>20. CASE SmallRaises
  BY <1>20, GotoForm DEF SmallRaises, Raise, Planned, Captures
<1>21. CASE Lost
  BY <1>21, GotoForm DEF Lost, Raise, Planned, Captures
<1>22. CASE NsOpen
  <2>1. Goto("next") \/ Goto("raised")
    BY Zenon, <1>22 DEF NsOpen, NsRaises, Raise
  <2>2. at.pc = "do"
    BY Zenon, <1>22 DEF NsOpen, Doing
  <2> QED BY <2>1, <2>2, GotoForm DEF Planned
<1>23. CASE NsWrite
  BY <1>23, GotoForm DEF NsWrite, Doing, NsRaises, Raise, Planned, Captures
<1>24. CASE NsVerify
  BY <1>24, GotoForm DEF NsVerify, Doing, NsRaises, Raise, Planned, Captures
<1>25. CASE HomePin
  BY <1>25, GotoForm DEF HomePin, Doing, Raise, Planned, Captures
<1>26. CASE MakeNode
  BY <1>26, GotoForm DEF MakeNode, Raise, Planned, Captures
<1>27. CASE CloseBegin
  BY <1>27, GotoForm DEF CloseBegin, Planned, Captures
<1>28. CASE CloseCensus
  BY <1>28, GotoForm DEF CloseCensus, Planned, Captures
<1>29. CASE CloseNs
  BY <1>29, GotoForm DEF CloseNs, Planned, Captures
<1>30. CASE CloseHome
  BY <1>30, GotoForm DEF CloseHome, Planned, Captures
<1>31. CASE OrdinaryCapture
  BY <1>31, GotoForm DEF OrdinaryCapture, Begin, Capture, Planned, Captures
<1>32. CASE Prepare
  BY <1>32, GotoForm DEF Prepare, Doing, Raise, Planned, Captures
<1>33. CASE Control
  BY <1>33, GotoForm DEF Control, Begin, Doing, Planned, Captures
<1>34. CASE SignalControl
  BY <1>34, GotoForm DEF SignalControl, Doing, Planned, Captures
<1>35. CASE Prepared
  BY <1>35, GotoForm DEF Prepared, Doing, Planned, Captures
<1>36. CASE NativeCapture
  BY <1>36, GotoForm DEF NativeCapture, Begin, Doing, Planned, Captures
<1>37. CASE NativeFinish
  BY <1>37, GotoForm DEF NativeFinish, Raise, Planned, Captures
<1>38. CASE CreateFiles
  BY <1>38, GotoForm DEF CreateFiles, Doing, Raise, Planned, Captures
<1>39. CASE ReuseFiles
  BY <1>39, GotoForm DEF ReuseFiles, Doing, Raise, Planned, Captures
<1>40. CASE VerifyFiles
  BY <1>40, GotoForm DEF VerifyFiles, Doing, Raise, Planned, Captures
<1>41. CASE CloseNative
  BY <1>41, GotoForm DEF CloseNative, Planned, Captures
<1>42. CASE CloseFiles
  BY <1>42, GotoForm DEF CloseFiles, Planned, Captures
<1>43. CASE OpenSession
  <2>1. at' = [pc |-> "do", ctx |-> "inputs", gate |-> 0, part |-> 1, op |-> "check"]
    BY <1>43 DEF OpenSession, Begins
  <2>2. Parts' = <<"check">>
    BY <2>1 DEF Parts
  <2> QED BY <2>1, <2>2 DEF Places, Planned, PCs, Working, Contexts, InRun, Ops, LinuxOps
<1>44. CASE OpenFails
  BY <1>44, GotoForm DEF OpenFails, Planned, Captures
<1>45. CASE Check
  BY <1>45, GotoForm DEF Check, Doing, Raise, Planned, Captures
<1>46. CASE Advance
  <2>1. at.ctx \in Contexts \ {"open"} /\ at.part \in Nat /\ job' = job
    BY <1>46 DEF Advance, Planned, Places, Working
  <2>2. at.part + 1 \in 1..Len(Parts)
    BY <2>1, PartsShape, <1>46 DEF Advance, Planned
  <2>3. Parts[at.part + 1] \in Ops
    BY <2>1, <2>2, PartsShape
  <2>4. at' = [at EXCEPT !.pc = "do", !.part = at.part + 1, !.op = Parts[at.part + 1]]
    BY <1>46 DEF Advance
  <2>5. at' \in Places
    <3> DEFINE o == Parts[at.part + 1]
    <3>1. o \in Ops /\ at.part + 1 \in Nat
      BY <2>1, <2>3
    <3>2. at' = [at EXCEPT !.pc = "do", !.part = at.part + 1, !.op = o]
      BY <2>4
    <3> HIDE DEF o
    <3> QED BY <3>1, <3>2 DEF Places
  <2>6. at'.pc = "do" /\ at'.part = at.part + 1 /\ at'.op = Parts[at.part + 1] /\ at'.ctx = at.ctx
        /\ at'.gate = at.gate
    BY <2>4 DEF Places
  <2>7. Parts' = Parts
    BY <2>1, <2>6, SamePlan
  <2> QED BY <2>1, <2>2, <2>5, <2>6, <2>7 DEF Planned, InRun
<1>47. CASE InputsDone
  <2>1. CASE Raise
    BY <2>1, <1>47, KeepsJob, SamePlan DEF InputsDone, Raise, Goto, Planned, Places, PCs, Beaten, InRun, Ended
  <2>2. CASE at' = Begins("admit", 0, AdmissionPlan[1])
    <3>1. AdmissionPlan[1] = "check" /\ Len(AdmissionPlan) \in Nat \ {0}
      BY LinuxShape, MacShape
    <3>2. at' = [pc |-> "do", ctx |-> "admit", gate |-> 0, part |-> 1, op |-> "check"]
      BY <2>2, <3>1 DEF Begins
    <3>3. job' = job
      BY KeepsJob
    <3>4. Parts' = AdmissionPlan
      BY <3>2, <3>3 DEF Parts, AdmissionPlan
    <3> QED BY <3>1, <3>2, <3>4 DEF Places, Planned, PCs, Working, Contexts, InRun, Ops, LinuxOps
  <2> QED BY <1>47, <2>1, <2>2 DEF InputsDone
<1>48. CASE Admitted
  <2>1. at' = [pc |-> "do", ctx |-> "tools", gate |-> 0, part |-> 1, op |-> "touch"]
    BY <1>48 DEF Admitted, Begins
  <2>2. Parts' = <<"touch", "capture">>
    BY <2>1 DEF Parts
  <2> QED BY <2>1, <2>2 DEF Places, Planned, PCs, Working, Contexts, InRun, Ops, GateOps
<1>49. CASE ToolsDone
  <2> DEFINE g == 1
  <2>1. g \in Nat /\ job' = job
    BY <1>49, KeepsJob DEF GatePass, Places
  <2>2. GateParts(job.gates[g])[1] = "touch" /\ Len(GateParts(job.gates[g])) \in Nat \ {0}
    BY GateShape
  <2>3. at' = [pc |-> "do", ctx |-> "gate", gate |-> g, part |-> 1, op |-> "touch"]
    BY <1>49, <2>2 DEF ToolsDone, Begins
  <2>4. CASE at' = [pc |-> "do", ctx |-> "gate", gate |-> g, part |-> 1, op |-> "touch"]
    <3> HIDE DEF g
    <3>1. Parts' = GateParts(job.gates[g])
      BY <2>1, <2>4 DEF Parts
    <3> QED BY <2>1, <2>2, <2>4, <3>1 DEF Places, Planned, PCs, Working, Contexts, InRun, Ops, GateOps
  <2> QED BY <2>3, <2>4
<1>50. CASE GatePass
  <2> DEFINE g == at.gate + 1
  <2>1. g \in Nat /\ job' = job
    BY <1>50, KeepsJob DEF GatePass, Places
  <2>2. GateParts(job.gates[g])[1] = "touch" /\ Len(GateParts(job.gates[g])) \in Nat \ {0}
    BY GateShape
  <2>3. \/ at' = [pc |-> "do", ctx |-> "gate", gate |-> g, part |-> 1, op |-> "touch"]
        \/ at' = [pc |-> "do", ctx |-> "end", gate |-> 0, part |-> 1, op |-> "touch"]
    BY <1>50, <2>2 DEF GatePass, Begins
  <2>5. CASE at' = [pc |-> "do", ctx |-> "end", gate |-> 0, part |-> 1, op |-> "touch"]
    <3>1. Parts' = <<"touch">>
      BY <2>5 DEF Parts
    <3> QED BY <2>5, <3>1 DEF Places, Planned, PCs, Working, Contexts, InRun, Ops, GateOps
  <2>4. CASE at' = [pc |-> "do", ctx |-> "gate", gate |-> g, part |-> 1, op |-> "touch"]
    <3> HIDE DEF g
    <3>1. Parts' = GateParts(job.gates[g])
      BY <2>1, <2>4 DEF Parts
    <3> QED BY <2>1, <2>2, <2>4, <3>1 DEF Places, Planned, PCs, Working, Contexts, InRun, Ops, GateOps
  <2> QED BY <2>3, <2>4, <2>5
<1>51. CASE Proof
  BY <1>51, GotoForm DEF Proof, Doing, Raise, Planned, Captures
<1>52. CASE AllRemoved
  BY <1>52, GotoForm DEF AllRemoved, Ended, Raise, Planned, Captures
<1>53. CASE Raised
  BY <1>53, GotoForm DEF Raised, Planned, Captures
<1>54. CASE Caught
  BY <1>54, GotoForm DEF Caught, Planned, Captures
<1>55. CASE Escaped
  BY <1>55, GotoForm DEF Escaped, Planned, Captures
<1>56. CASE Publish
  BY <1>56, GotoForm DEF Publish, Planned, Captures
<1>57. CASE Finish
  BY <1>57, GotoForm DEF Finish, Planned, Captures
<1>58. CASE RunRaises
  BY <1>58, GotoForm DEF RunRaises, Planned, Captures
<1>59. CASE Alarm
  <2>1. at.pc # "open" /\ at.pc # "done"
    BY <1>59 DEF Alarm, Opened
  <2>2. \/ at' = at \/ Goto("raised") \/ Goto("escaped")
        \/ at.pc \in InRun /\ (Goto("r_stop") \/ Goto("r_settle"))
        \/ at.pc \in InRun /\ Goto(IF r.held THEN "r_dispose" ELSE "r_settle")
    BY <1>59 DEF Alarm, Raise
  <2>3. CASE at' = at
    BY <2>3, <1>1
  <2>4. CASE Goto("raised") \/ Goto("escaped")
    BY <2>1, <2>4, GotoForm DEF Planned
  <2>5. CASE at.pc \in InRun /\ (Goto("r_stop") \/ Goto("r_settle"))
    BY <2>1, <2>5, GotoForm DEF Planned
  <2>6. CASE at.pc \in InRun /\ Goto(IF r.held THEN "r_dispose" ELSE "r_settle")
    <3>1. Goto("r_dispose") \/ Goto("r_settle")
      BY <2>6 DEF Goto
    <3> QED BY <2>1, <2>6, <3>1, GotoForm DEF Planned
  <2> QED BY <2>2, <2>3, <2>4, <2>5, <2>6
<1> QED BY <1>1, <1>2, <1>3, <1>4, <1>5, <1>6, <1>7, <1>8, <1>9, <1>10, <1>11, <1>12, <1>13, <1>14,
      <1>15, <1>16, <1>17, <1>18, <1>19, <1>20, <1>21, <1>22, <1>23, <1>24, <1>25, <1>26, <1>27,
      <1>28, <1>29, <1>30, <1>31, <1>32, <1>33, <1>34, <1>35, <1>36, <1>37, <1>38, <1>39, <1>40,
      <1>41, <1>42, <1>43, <1>44, <1>45, <1>46, <1>47, <1>48, <1>49, <1>50, <1>51, <1>52, <1>53,
      <1>54, <1>55, <1>56, <1>57, <1>58, <1>59, KeepsPlace

-----------------------------------------------------------------------------
(* Shapes and places together.                                             *)

LEMMA ShapeStep ==
  ASSUME Types, Planned, [Next]_vars
  PROVE  Types' /\ Planned'
<1>1. at' \in Places /\ Planned'
  BY PlaceStep DEF Types
<1>2. job' \in Verifications
  BY KeepsJob DEF Types
<1>3. s' \in Sessions /\ r' \in Runs /\ w' \in Worlds /\ b' \in Custodies
  BY SessionType, CaptureType, WorldType, CustodyType DEF Types
<1>4. seen' \in Watches /\ f' \in Files /\ out' \in Reports
  BY WatchType, FilesType, ReportType DEF Types
<1>5. Reports' = Reports
  BY KeepsJob DEF Reports
<1>6. Types'
  BY <1>1, <1>2, <1>3, <1>4, <1>5 DEF Types
<1> QED BY <1>1, <1>6

LEMMA OpsOfPlan ==
  ASSUME Types, Planned
  PROVE  OpsHere
<1>1. CASE at.ctx = "open"
  BY <1>1 DEF OpsHere
<1>2. CASE at.ctx # "open"
  <2>1. at.ctx \in Contexts \ {"open"}
    BY <1>2 DEF Types, Places
  <2> QED BY <2>1, <1>2, PartsShape DEF Planned, OpsHere
<1> QED BY <1>1, <1>2

\* After the sentinel comes its signal.
LEMMA SentinelNext ==
  ASSUME Types, Planned, at.op = "sentinel", at.ctx # "open", Advance
  PROVE  at'.op = "signal"
<1>1. at.ctx = "admit" /\ job.platform # "linux"
  BY OpsOfPlan DEF OpsHere, GateOps, LinuxOps, Types, Places, Contexts
<1>2. Parts = AdmissionPlan
  BY <1>1 DEF Parts
<1>3. at.part \in 1..20 /\ AdmissionPlan[at.part] = "sentinel"
  BY <1>1, <1>2, MacShape DEF Planned
<1>4. at.part = 9
  <2>1. at.part \in (3..20) \ {9} \/ at.part \in {1, 2, 9}
    BY <1>3
  <2> QED BY <1>1, <1>3, <2>1, MacShape
<1>5. at'.op = AdmissionPlan[10]
  BY <1>2, <1>4 DEF Advance, Types, Places
<1> QED BY <1>1, <1>5, MacShape

\* The admission ends with an idle check.
LEMMA LastIdle ==
  ASSUME Planned, at.ctx = "admit", at.part = Len(Parts)
  PROVE  at.op = "idle"
<1>1. Parts = AdmissionPlan
  BY DEF Parts
<1> QED BY <1>1, LinuxShape, MacShape DEF Planned

-----------------------------------------------------------------------------
(* Which processes there are at each place.                                *)

\* Which processes there are: the session.
LEMMA QuietSession ==
  ASSUME Types, Planned, OpsHere, Quiet, Session
  PROVE  Quiet'
<1> USE DEF Goto, Raise, Doing, Failed, Charge, Free, Working, Helping, InRun, Beaten, Closing,
    Ending, Quiet, OpsHere, GateOps, LinuxOps, MacOps, Nodes, Session, nativeVars
<1>1. CASE Refused
  BY <1>1 DEF Refused, CanIdle, Domain, Guarded, NotIdle, Owned, Types, Places, Worlds, Sessions
<1>2. CASE Setup
  BY <1>2 DEF Setup, Assertable, Failing, Latched, Latching, Types, Places, Worlds, Sessions
<1>3. CASE Spawn
  BY <1>3 DEF Spawn, Types, Places, Worlds, Sessions
<1>4. CASE Own
  BY <1>4 DEF Own, Failing, Types, Places, Worlds, Sessions
<1>5. CASE Reap
  BY <1>5 DEF Reap, Collected, Failing, Latched, Latching, Reaped, Types, Places, Worlds, Sessions
<1>6. CASE LoopStops
  BY <1>6 DEF LoopStops, Failing, Latched, Latching, Types, Places, Worlds, Sessions
<1>7. CASE LoopKills
  BY <1>7 DEF LoopKills, Types, Places, Worlds, Sessions
<1>8. CASE ReadsEof
  BY <1>8 DEF ReadsEof, Types, Places, Worlds, Sessions
<1>9. CASE LoopSweeps
  BY <1>9 DEF LoopSweeps, Latched, Latching, Sweeps, Types, Places, Worlds, Sessions
<1>10. CASE LoopEnds
  BY <1>10 DEF LoopEnds, Types, Places, Worlds, Sessions
<1>11. CASE RunStop
  BY <1>11 DEF RunStop, Types, Places, Worlds, Sessions
<1>12. CASE RunWait
  BY <1>12, WaitForm DEF SamePart, SameProcesses, SameMachine, Grows
<1>13. CASE RunDispose
  BY <1>13 DEF RunDispose, Disposes, Disposing, Latched, Latching, Sweeps, Types, Places, Worlds,
      Sessions
<1>14. CASE RunSettle
  BY <1>14 DEF RunSettle, Domain, Final, Types, Places, Worlds, Sessions
<1>15. CASE RunEnd
  BY <1>15 DEF RunEnd, Failing, Latching, Types, Places, Worlds, Sessions
<1>16. CASE Judge
  BY <1>16 DEF Judge, BecomeIdle, CanIdle, Domain, Guarded, Judged, NoRun, NotIdle, Owned, RunOk,
      Types, Places, Worlds, Sessions
<1>17. CASE Touch
  BY <1>17 DEF Touch, BecomeIdle, CanIdle, Domain, Guarded, Owned, Types, Places, Worlds, Sessions
<1>18. CASE Touched
  BY <1>18 DEF Touched, CouldWrite, Types, Places, Worlds, Sessions
<1>19. CASE EnsureIdle
  BY <1>19 DEF EnsureIdle, BecomeIdle, CanIdle, Domain, Guarded, Owned, Types, Places, Worlds,
      Sessions
<1>20. CASE Provider
  BY <1>20 DEF Provider, BecomeIdle, CanIdle, Domain, Guarded, Owned, Types, Places, Worlds,
      Sessions
<1>21. CASE Sentinel
  BY <1>21 DEF Sentinel, BecomeIdle, CanIdle, Domain, Guarded, Owned, Types, Places, Worlds,
      Sessions
<1>22. CASE Small
  BY <1>22, SmallForm DEF SamePart, SameMachine, CanIdle, Guarded, Owned, Domain
<1>23. CASE SmallReturns
  BY <1>23 DEF SmallReturns, Types, Places, Worlds, Sessions
<1>24. CASE SmallRaises
  BY <1>24 DEF SmallRaises, Types, Places, Worlds, Sessions
<1>25. CASE Lost
  BY <1>25 DEF Lost, Domain, Types, Places, Worlds, Sessions
<1>26. CASE NsOpen
  BY <1>26, NsOpenForm DEF SamePart, Grows
<1>27. CASE NsWrite
  BY <1>27 DEF NsWrite, NsRaises, Types, Places, Worlds, Sessions
<1>28. CASE NsVerify
  BY <1>28 DEF NsVerify, NsRaises, Types, Places, Worlds, Sessions
<1>29. CASE HomePin
  BY <1>29 DEF HomePin, BecomeIdle, CanIdle, Domain, Guarded, Owned, Types, Places, Worlds,
      Sessions
<1>30. CASE MakeNode
  BY <1>30, NodeForm DEF SamePart, SameProcesses, SameMachine, Grows
<1>31. CASE CloseBegin
  BY <1>31, BeginForm DEF SamePart, SameProcesses, SameMachine, Grows
<1>32. CASE CloseCensus
  BY <1>32, CensusForm DEF SamePart, SameProcesses, SameMachine, Grows
<1>33. CASE CloseNs
  BY <1>33, NsForm DEF SamePart, SameProcesses, SameMachine, Grows
<1>34. CASE CloseHome
  BY <1>34, HomeStepForm DEF SamePart, SameProcesses, SameMachine, Grows
<1> QED BY <1>1, <1>2, <1>3, <1>4, <1>5, <1>6, <1>7, <1>8, <1>9, <1>10, <1>11, <1>12, <1>13, <1>14,
      <1>15, <1>16, <1>17, <1>18, <1>19, <1>20, <1>21, <1>22, <1>23, <1>24, <1>25, <1>26, <1>27,
      <1>28, <1>29, <1>30, <1>31, <1>32, <1>33, <1>34 DEF Controller

\* Which processes there are: the native phases and the checked files.
LEMMA QuietNative ==
  ASSUME Types, Planned, OpsHere, Quiet, Native
  PROVE  Quiet'
<1> USE DEF Goto, Raise, Doing, Failed, Charge, Free, Working, Helping, InRun, Beaten, Closing,
    Ending, Quiet, OpsHere, GateOps, LinuxOps, MacOps, Nodes, Native, nativeVars
<1>1. CASE OrdinaryCapture
  BY <1>1 DEF OrdinaryCapture, Begin, CanIdle, Capture, Domain, Guarded, NoRun, Owned, Phases,
      Types, Places, Worlds, Sessions
<1>2. CASE Prepare
  BY <1>2 DEF Prepare, BecomeIdle, CanIdle, Domain, Guarded, Owned, Phase, Types, Places, Worlds,
      Sessions
<1>3. CASE Control
  BY <1>3 DEF Control, Begin, CanIdle, Domain, Guarded, Holding, NoRun, Owned, Phase, Types,
      Places, Worlds, Sessions
<1>4. CASE SignalControl
  BY <1>4 DEF SignalControl, CanIdle, Domain, Guarded, Owned, Types, Places, Worlds, Sessions
<1>5. CASE Prepared
  BY <1>5 DEF Prepared, BecomeIdle, CanIdle, Domain, Guarded, Owned, Phase, Types, Places, Worlds,
      Sessions
<1>6. CASE NativeCapture
  BY <1>6 DEF NativeCapture, Begin, CanIdle, Domain, Guarded, Holding, NoRun, Owned, Phase, Types,
      Places, Worlds, Sessions
<1>7. CASE NativeFinish
  BY <1>7 DEF NativeFinish, BecomeIdle, CanIdle, Domain, Guarded, NoRun, Owned, Phase, RunOk,
      Unfinished, Types, Places, Worlds, Sessions
<1>8. CASE PhaseRaised
  BY <1>8 DEF PhaseRaised, Holding, Phase, Unresolved, Types, Places, Worlds, Sessions
<1>9. CASE CreateFiles
  BY <1>9 DEF CreateFiles, BecomeIdle, CanIdle, Domain, Guarded, Owned, Phase, Types, Places,
      Worlds, Sessions
<1>10. CASE ReuseFiles
  BY <1>10 DEF ReuseFiles, BecomeIdle, CanIdle, Domain, Guarded, Owned, Phase, Phases, Types,
      Places, Worlds, Sessions
<1>11. CASE VerifyFiles
  BY <1>11 DEF VerifyFiles, Guarded, Originals, Owned, Phase, Types, Places, Worlds, Sessions
<1>12. CASE CloseNative
  BY <1>12, NativeForm DEF SamePart, SameProcesses, SameMachine, Grows
<1>13. CASE CloseFiles
  BY <1>13, FilesForm DEF SamePart, SameProcesses, SameMachine, Grows
<1> QED BY <1>1, <1>2, <1>3, <1>4, <1>5, <1>6, <1>7, <1>8, <1>9, <1>10, <1>11, <1>12, <1>13 DEF
      NativeController

\* Which processes there are: the controller.
LEMMA QuietMain ==
  ASSUME Types, Planned, OpsHere, Quiet, Main
  PROVE  Quiet'
<1> USE DEF Goto, Raise, Doing, Failed, Charge, Free, Working, Helping, InRun, Beaten, Closing,
    Ending, Quiet, OpsHere, GateOps, LinuxOps, MacOps, Nodes, nativeVars
<1>1. CASE OpenSession
  BY <1>1 DEF OpenSession, Begins, Types, Places, Worlds, Sessions
<1>2. CASE OpenFails
  BY <1>2 DEF OpenFails, Types, Places, Worlds, Sessions
<1>3. CASE Check
  BY <1>3 DEF Check, Types, Places, Worlds, Sessions
<1>4. CASE Advance
  BY <1>4, SentinelNext DEF Advance, Planned, Types, Places, Worlds, Sessions
<1>5. CASE InputsDone
  BY <1>5, InputsForm DEF SamePart, SameProcesses, SameMachine, Grows
<1>6. CASE Admitted
  BY <1>6, AdmittedForm, LastIdle DEF Grows
<1>7. CASE ToolsDone
  BY <1>7, ToolsForm DEF SamePart, SameProcesses, SameMachine, Grows
<1>8. CASE GatePass
  BY <1>8, GateForm DEF SamePart, SameProcesses, SameMachine, Grows
<1>9. CASE Proof
  BY <1>9 DEF Proof, Types, Places, Worlds, Sessions
<1>10. CASE AllRemoved
  BY <1>10 DEF AllRemoved, Ended, Types, Places, Worlds, Sessions
<1>11. CASE Raised
  BY <1>11 DEF Raised, Holding, Phase, Unresolved, Types, Places, Worlds, Sessions
<1>12. CASE Caught
  BY <1>12 DEF Caught, Types, Places, Worlds, Sessions
<1>13. CASE Escaped
  BY <1>13 DEF Escaped, Types, Places, Worlds, Sessions
<1>14. CASE Publish
  BY <1>14 DEF Publish, Verdict, Types, Places, Worlds, Sessions
<1>15. CASE Finish
  BY <1>15 DEF Finish, Exit, Types, Places, Worlds, Sessions
<1> QED BY <1>1, <1>2, <1>3, <1>4, <1>5, <1>6, <1>7, <1>8, <1>9, <1>10, <1>11, <1>12, <1>13, <1>14,
      <1>15 DEF Main

\* Which processes there are: the machine.
LEMMA QuietOthers ==
  ASSUME Types, Planned, OpsHere, Quiet, Others
  PROVE  Quiet'
<1> USE DEF Goto, Raise, Doing, Failed, Charge, Free, Working, Helping, InRun, Beaten, Closing,
    Ending, Quiet, OpsHere, GateOps, LinuxOps, MacOps, Nodes, Apart, nativeVars
<1>1. CASE SubjectEnds /\ Apart
  BY <1>1 DEF SubjectEnds, Types, Places, Worlds, Sessions
<1>2. CASE SubjectForks /\ Apart
  BY <1>2 DEF SubjectForks, Types, Places, Worlds, Sessions
<1>3. CASE NamespaceEnds /\ Apart
  BY <1>3 DEF NamespaceEnds, Types, Places, Worlds, Sessions
<1>4. CASE KinEnds /\ Apart
  BY <1>4 DEF KinEnds, Types, Places, Worlds, Sessions
<1>5. CASE OwnerLaunches /\ Apart
  BY <1>5 DEF OwnerLaunches, Types, Places, Worlds, Sessions
<1>6. CASE HelperEnds /\ Apart
  BY <1>6 DEF HelperEnds, Types, Places, Worlds, Sessions
<1>7. CASE RunClock /\ Apart
  BY <1>7 DEF RunClock, Types, Places, Worlds, Sessions
<1>8. CASE RunRaises /\ Apart
  BY <1>8 DEF RunRaises, Failing, Latched, Latching, Types, Places, Worlds, Sessions
<1>9. CASE Late /\ Apart
  BY <1>9 DEF Late, Opened, Types, Places, Worlds, Sessions
<1>10. CASE Cancel /\ Apart
  BY <1>10 DEF Cancel, Opened, Types, Places, Worlds, Sessions
<1>11. CASE Drift /\ Apart
  BY <1>11 DEF Drift, Looks, Opened, Types, Places, Worlds, Sessions
<1>12. CASE Alarm /\ Apart
  BY <1>12, AlarmForm DEF SamePart, SameProcesses, SameMachine, Grows
<1>13. CASE SubjectMeddles /\ UNCHANGED out
  BY <1>13 DEF SubjectMeddles, Types, Places, Worlds, Sessions
<1> QED BY <1>1, <1>2, <1>3, <1>4, <1>5, <1>6, <1>7, <1>8, <1>9, <1>10, <1>11, <1>12, <1>13 DEF Others,
      Machine

LEMMA QuietStep ==
  ASSUME Types, Planned, OpsHere, Quiet, [Next]_vars
  PROVE  Quiet'
<1>1. CASE UNCHANGED vars
  BY <1>1 DEF Working, Helping, InRun, Beaten, Closing, Ending, Quiet, OpsHere, GateOps, LinuxOps,
      MacOps, Nodes, Types, Places, Worlds, Sessions, vars, sessionVars, nativeVars, Parts,
      AdmissionPlan
<1> QED BY <1>1, QuietSession, QuietNative, QuietMain, QuietOthers DEF Next, Terminated

-----------------------------------------------------------------------------
(* The first parts of the admission.                                       *)

LEMMA AdmitOps ==
  ASSUME Types, Planned
  PROVE  /\ job.platform \in {"linux", "darwin"}
         /\ at.part \in Nat
         /\ at.ctx = "admit" =>
              /\ at.part >= 1
              /\ at.part = 1 => at.op = "check"
              /\ at.part = 2 => at.op = IF job.platform = "linux" THEN "ns-open" ELSE "home-pin"
              /\ at.part = 3 /\ job.platform = "linux" => at.op = "ns-write"
              /\ at.part > 3 /\ job.platform = "linux" => at.op \notin {"ns-open", "ns-write"}
              /\ at.part > 2 /\ job.platform # "linux" => at.op # "home-pin"
<1>1. job.platform \in {"linux", "darwin"}
  BY VerificationsAssumption DEF Types, Platforms
<1>2. at.part \in Nat
  BY DEF Types, Places
<1>3. ASSUME at.ctx = "admit"
      PROVE  /\ at.part >= 1
             /\ at.part = 1 => at.op = "check"
             /\ at.part = 2 => at.op = IF job.platform = "linux" THEN "ns-open" ELSE "home-pin"
             /\ at.part = 3 /\ job.platform = "linux" => at.op = "ns-write"
             /\ at.part > 3 /\ job.platform = "linux" => at.op \notin {"ns-open", "ns-write"}
             /\ at.part > 2 /\ job.platform # "linux" => at.op # "home-pin"
  <2>1. Parts = AdmissionPlan
    BY <1>3 DEF Parts
  <2>2. at.part \in 1..Len(AdmissionPlan) /\ at.op = AdmissionPlan[at.part]
    BY <1>3, <2>1 DEF Planned
  <2>3. CASE job.platform = "linux"
    <3>1. Len(AdmissionPlan) = 16 /\ \A i \in 4..16 : AdmissionPlan[i] \notin {"ns-open", "ns-write"}
      BY <2>3, LinuxShape DEF LinuxOps
    <3>2. at.part \in 1..16
      BY <2>2, <3>1
    <3>3. at.part > 3 => at.part \in 4..16
      BY <3>2
    <3>4. at.part > 3 => at.op \notin {"ns-open", "ns-write"}
      BY <2>2, <3>1, <3>3
    <3>5. /\ at.part = 1 => at.op = "check"
          /\ at.part = 2 => at.op = "ns-open"
          /\ at.part = 3 => at.op = "ns-write"
      BY <2>2, <2>3, LinuxShape
    <3> QED BY <2>3, <3>2, <3>4, <3>5
  <2>4. CASE job.platform # "linux"
    <3>1. Len(AdmissionPlan) = 20 /\ \A i \in 3..20 : AdmissionPlan[i] # "home-pin"
      BY <2>4, MacShape
    <3>2. at.part \in 1..20
      BY <2>2, <3>1
    <3>3. at.part > 2 => at.part \in 3..20
      BY <3>2
    <3>4. at.part > 2 => at.op # "home-pin"
      BY <2>2, <3>1, <3>3
    <3>5. /\ at.part = 1 => at.op = "check"
          /\ at.part = 2 => at.op = "home-pin"
      BY <2>2, <2>4, MacShape
    <3> QED BY <2>4, <3>2, <3>4, <3>5
  <2> QED BY <2>3, <2>4
<1> QED BY <1>1, <1>2, <1>3

\* Before the limit is written nothing of the reserved identity is launched.
LEMMA EarlyOps ==
  ASSUME Types, Planned, Early, job.platform = "linux"
  PROVE  /\ at.ctx = "open" \/ at.op \in {"check", "ns-open", "ns-write"}
         /\ at.pc \notin InRun \cup Helping \cup {"touching"}
<1>1. at.ctx = "open" \/ at.op \in {"check", "ns-open", "ns-write"}
  <2>1. CASE at.ctx = "inputs"
    BY <2>1, OpsOfPlan DEF OpsHere
  <2>2. CASE at.ctx = "admit" /\ at.part <= 3
    <3>1. at.part \in {1, 2, 3}
      BY <2>2, AdmitOps
    <3> QED BY <2>2, <3>1, AdmitOps
  <2> QED BY <2>1, <2>2 DEF Early
<1> QED BY <1>1 DEF Planned, Captures, InRun, Helping

\* The nodes and the limit are made and written after the boundary is opened.
LEMMA BoundaryOps ==
  ASSUME Types, Planned, OpsHere, at.pc = "do"
  PROVE  /\ at.op \in Nodes => at.ctx = "admit" /\ job.platform = "darwin" /\ at.part >= 3
         /\ at.op = "ns-write" => at.ctx = "admit" /\ job.platform = "linux" /\ at.part >= 3
<1>1. at.ctx \in {"inputs", "admit", "tools", "gate", "end"}
  BY DEF Types, Places, Contexts, Planned
<1>2. ASSUME at.op \in Nodes \cup {"ns-write"}
      PROVE  at.ctx = "admit" /\ at.op \notin {"check", "ns-open", "home-pin"}
  BY <1>1, <1>2 DEF OpsHere, GateOps, Nodes
<1>3. ASSUME at.op \in Nodes \cup {"ns-write"}
      PROVE  at.part >= 3
  <2>1. at.part \in Nat /\ at.part >= 1 /\ at.part # 1 /\ at.part # 2
    BY <1>2, <1>3, AdmitOps
  <2> QED BY <2>1
<1>4. at.op \in Nodes => job.platform = "darwin"
  BY <1>2, AdmitOps DEF OpsHere, LinuxOps, Nodes
<1>5. at.op = "ns-write" => job.platform = "linux"
  BY <1>2 DEF OpsHere, MacOps
<1> QED BY <1>2, <1>3, <1>4, <1>5

-----------------------------------------------------------------------------
\* Towards the limit: the session.
LEMMA EarlySession ==
  ASSUME Types, Planned, Early, job.platform = "linux", Session
  PROVE  Early' \/ (at.op = "ns-write" /\ at'.pc = "next")
<1> USE DEF Goto, Raise, Doing, Failed, Charge, Free, Working, Helping, InRun, Beaten, Closing,
    Ending, Early, Session, nativeVars
<1>0. /\ at.ctx = "open" \/ at.op \in {"check", "ns-open", "ns-write"}
      /\ at.pc \notin InRun \cup Helping \cup {"touching"}
      /\ at.part \in Nat /\ (at.ctx = "admit" /\ at.part = 3 => at.op = "ns-write")
  BY EarlyOps, AdmitOps
<1>1. CASE Refused
  BY <1>1, <1>0 DEF Refused, CanIdle, Domain, Guarded, NotIdle, Owned, Types, Places
<1>2. CASE Setup
  BY <1>2, <1>0 DEF Setup, Assertable, Failing, Latched, Latching, Types, Places
<1>3. CASE Spawn
  BY <1>3, <1>0 DEF Spawn, Types, Places
<1>4. CASE Own
  BY <1>4, <1>0 DEF Own, Failing, Types, Places
<1>5. CASE Reap
  BY <1>5, <1>0, ReapForm DEF SamePart, SameMachine, Failed, Types, Worlds, Sessions
<1>6. CASE LoopStops
  BY <1>6, <1>0, StopsForm DEF SamePart, SameMachine, Failed, Types, Worlds, Sessions
<1>7. CASE LoopKills
  BY <1>7, <1>0 DEF LoopKills, Types, Places
<1>8. CASE ReadsEof
  BY <1>8, <1>0 DEF ReadsEof, Types, Places
<1>9. CASE LoopSweeps
  BY <1>9, <1>0, LoopSweepsForm DEF SamePart, SameMachine, Failed, Types, Worlds, Sessions
<1>10. CASE LoopEnds
  BY <1>10, <1>0 DEF LoopEnds, Types, Places
<1>11. CASE RunStop
  BY <1>11, <1>0 DEF RunStop, Types, Places
<1>12. CASE RunWait
  BY <1>12, <1>0, WaitForm DEF SamePart, SameMachine, Types, Worlds
<1>13. CASE RunDispose
  BY <1>13, <1>0, DisposeForm DEF SamePart, SameMachine, Failed, Types, Worlds, Sessions
<1>14. CASE RunSettle
  BY <1>14, <1>0 DEF RunSettle, Domain, Final, Types, Places
<1>15. CASE RunEnd
  BY <1>15, <1>0 DEF RunEnd, Failing, Latching, Types, Places
<1>16. CASE Judge
  BY <1>16, <1>0 DEF Judge, BecomeIdle, CanIdle, Domain, Guarded, Judged, NoRun, NotIdle, Owned,
      RunOk, Types, Places
<1>17. CASE Touch
  BY <1>17, <1>0 DEF Touch, BecomeIdle, CanIdle, Domain, Guarded, Owned, Types, Places
<1>18. CASE Touched
  BY <1>18, <1>0 DEF Touched, CouldWrite, Types, Places
<1>19. CASE EnsureIdle
  BY <1>19, <1>0 DEF EnsureIdle, BecomeIdle, CanIdle, Domain, Guarded, Owned, Types, Places
<1>20. CASE Provider
  BY <1>20, <1>0 DEF Provider, BecomeIdle, CanIdle, Domain, Guarded, Owned, Types, Places
<1>21. CASE Sentinel
  BY <1>21, <1>0 DEF Sentinel, BecomeIdle, CanIdle, Domain, Guarded, Owned, Types, Places
<1>22. CASE Small
  BY <1>22, <1>0, SmallForm DEF SamePart, SameProcesses, SameMachine, Grows, Planned
<1>23. CASE SmallReturns
  BY <1>23, <1>0 DEF SmallReturns, Types, Places
<1>24. CASE SmallRaises
  BY <1>24, <1>0 DEF SmallRaises, Types, Places
<1>25. CASE Lost
  BY <1>25, <1>0 DEF Lost, Domain, Types, Places
<1>26. CASE NsOpen
  BY <1>26, <1>0, NsOpenForm DEF SamePart, SameProcesses, SameMachine, Grows, Planned
<1>27. CASE NsWrite
  BY <1>27, <1>0 DEF NsWrite, NsRaises, Types, Places
<1>28. CASE NsVerify
  BY <1>28, <1>0 DEF NsVerify, NsRaises, Types, Places
<1>29. CASE HomePin
  BY <1>29, <1>0 DEF HomePin, BecomeIdle, CanIdle, Domain, Guarded, Owned, Types, Places
<1>30. CASE MakeNode
  BY <1>30, <1>0, NodeForm DEF SamePart, SameProcesses, SameMachine, Grows, Planned
<1>31. CASE CloseBegin
  BY <1>31, <1>0, BeginForm DEF SamePart, SameProcesses, SameMachine, Grows, Planned
<1>32. CASE CloseCensus
  BY <1>32, <1>0, CensusForm DEF SamePart, SameProcesses, SameMachine, Grows, Planned
<1>33. CASE CloseNs
  BY <1>33, <1>0, NsForm DEF SamePart, SameProcesses, SameMachine, Grows, Planned
<1>34. CASE CloseHome
  BY <1>34, <1>0, HomeStepForm DEF SamePart, SameProcesses, SameMachine, Grows, Planned
<1> QED BY <1>1, <1>2, <1>3, <1>4, <1>5, <1>6, <1>7, <1>8, <1>9, <1>10, <1>11, <1>12, <1>13, <1>14,
      <1>15, <1>16, <1>17, <1>18, <1>19, <1>20, <1>21, <1>22, <1>23, <1>24, <1>25, <1>26, <1>27,
      <1>28, <1>29, <1>30, <1>31, <1>32, <1>33, <1>34 DEF Controller

\* Towards the limit: the native phases and the checked files.
LEMMA EarlyNative ==
  ASSUME Types, Planned, Early, job.platform = "linux", Native
  PROVE  Early' \/ (at.op = "ns-write" /\ at'.pc = "next")
<1> USE DEF Goto, Raise, Doing, Failed, Charge, Free, Working, Helping, InRun, Beaten, Closing,
    Ending, Early, Native, nativeVars
<1>0. /\ at.ctx = "open" \/ at.op \in {"check", "ns-open", "ns-write"}
      /\ at.pc \notin InRun \cup Helping \cup {"touching"}
      /\ at.part \in Nat /\ (at.ctx = "admit" /\ at.part = 3 => at.op = "ns-write")
  BY EarlyOps, AdmitOps
<1>1. CASE OrdinaryCapture
  BY <1>1, <1>0 DEF OrdinaryCapture, Begin, CanIdle, Capture, Domain, Guarded, NoRun, Owned,
      Phases, Types, Places
<1>2. CASE Prepare
  BY <1>2, <1>0 DEF Prepare, BecomeIdle, CanIdle, Domain, Guarded, Owned, Phase, Types, Places
<1>3. CASE Control
  BY <1>3, <1>0 DEF Control, Begin, CanIdle, Domain, Guarded, Holding, NoRun, Owned, Phase, Types,
      Places
<1>4. CASE SignalControl
  BY <1>4, <1>0 DEF SignalControl, CanIdle, Domain, Guarded, Owned, Types, Places
<1>5. CASE Prepared
  BY <1>5, <1>0 DEF Prepared, BecomeIdle, CanIdle, Domain, Guarded, Owned, Phase, Types, Places
<1>6. CASE NativeCapture
  BY <1>6, <1>0 DEF NativeCapture, Begin, CanIdle, Domain, Guarded, Holding, NoRun, Owned, Phase,
      Types, Places
<1>7. CASE NativeFinish
  BY <1>7, <1>0 DEF NativeFinish, BecomeIdle, CanIdle, Domain, Guarded, NoRun, Owned, Phase,
      RunOk, Unfinished, Types, Places
<1>8. CASE PhaseRaised
  BY <1>8, <1>0 DEF PhaseRaised, Holding, Phase, Unresolved, Types, Places
<1>9. CASE CreateFiles
  BY <1>9, <1>0 DEF CreateFiles, BecomeIdle, CanIdle, Domain, Guarded, Owned, Phase, Types, Places
<1>10. CASE ReuseFiles
  BY <1>10, <1>0 DEF ReuseFiles, BecomeIdle, CanIdle, Domain, Guarded, Owned, Phase, Phases,
      Types, Places
<1>11. CASE VerifyFiles
  BY <1>11, <1>0 DEF VerifyFiles, Guarded, Originals, Owned, Phase, Types, Places
<1>12. CASE CloseNative
  BY <1>12, <1>0, NativeForm DEF SamePart, SameProcesses, SameMachine, Grows, Planned
<1>13. CASE CloseFiles
  BY <1>13, <1>0, FilesForm DEF SamePart, SameProcesses, SameMachine, Grows, Planned
<1> QED BY <1>1, <1>2, <1>3, <1>4, <1>5, <1>6, <1>7, <1>8, <1>9, <1>10, <1>11, <1>12, <1>13 DEF
      NativeController

\* Towards the limit: the controller.
LEMMA EarlyMain ==
  ASSUME Types, Planned, Early, job.platform = "linux", Main
  PROVE  Early' \/ (at.op = "ns-write" /\ at'.pc = "next")
<1> USE DEF Goto, Raise, Doing, Failed, Charge, Free, Working, Helping, InRun, Beaten, Closing,
    Ending, Early, nativeVars
<1>0. /\ at.ctx = "open" \/ at.op \in {"check", "ns-open", "ns-write"}
      /\ at.pc \notin InRun \cup Helping \cup {"touching"}
      /\ at.part \in Nat /\ (at.ctx = "admit" /\ at.part = 3 => at.op = "ns-write")
  BY EarlyOps, AdmitOps
<1>1. CASE OpenSession
  BY <1>1, <1>0 DEF OpenSession, Begins, Types, Places
<1>2. CASE OpenFails
  BY <1>2, <1>0 DEF OpenFails, Types, Places
<1>3. CASE Check
  BY <1>3, <1>0 DEF Check, Types, Places
<1>4. CASE Advance
  BY <1>4, <1>0 DEF Advance, Types, Places
<1>5. CASE InputsDone
  BY <1>5, <1>0, InputsForm DEF SamePart, SameProcesses, SameMachine, Grows, Planned
<1>6. CASE Admitted
  <2>1. Parts = AdmissionPlan /\ Len(AdmissionPlan) = 16
    BY <1>6, <1>0, LinuxShape DEF Parts, Admitted
  <2> QED BY <1>6, <1>0, <2>1, AdmittedForm
<1>7. CASE ToolsDone
  BY <1>7, <1>0, ToolsForm DEF SamePart, SameProcesses, SameMachine, Grows, Planned
<1>8. CASE GatePass
  BY <1>8, <1>0, GateForm DEF SamePart, SameProcesses, SameMachine, Grows, Planned
<1>9. CASE Proof
  BY <1>9, <1>0 DEF Proof, Types, Places
<1>10. CASE AllRemoved
  BY <1>10, <1>0 DEF AllRemoved, Ended, Types, Places
<1>11. CASE Raised
  BY <1>11, <1>0 DEF Raised, Holding, Phase, Unresolved, Types, Places
<1>12. CASE Caught
  BY <1>12, <1>0 DEF Caught, Types, Places
<1>13. CASE Escaped
  BY <1>13, <1>0 DEF Escaped, Types, Places
<1>14. CASE Publish
  BY <1>14, <1>0 DEF Publish, Verdict, Types, Places
<1>15. CASE Finish
  BY <1>15, <1>0 DEF Finish, Exit, Types, Places
<1> QED BY <1>1, <1>2, <1>3, <1>4, <1>5, <1>6, <1>7, <1>8, <1>9, <1>10, <1>11, <1>12, <1>13, <1>14,
      <1>15 DEF Main

\* Towards the limit: the machine.
LEMMA EarlyOthers ==
  ASSUME Types, Planned, Early, job.platform = "linux", Others
  PROVE  Early' \/ (at.op = "ns-write" /\ at'.pc = "next")
<1> USE DEF Goto, Raise, Doing, Failed, Charge, Free, Working, Helping, InRun, Beaten, Closing,
    Ending, Early, Apart, nativeVars
<1>0. /\ at.ctx = "open" \/ at.op \in {"check", "ns-open", "ns-write"}
      /\ at.pc \notin InRun \cup Helping \cup {"touching"}
      /\ at.part \in Nat /\ (at.ctx = "admit" /\ at.part = 3 => at.op = "ns-write")
  BY EarlyOps, AdmitOps
<1>1. CASE SubjectEnds /\ Apart
  BY <1>1, <1>0 DEF SubjectEnds, Types, Places
<1>2. CASE SubjectForks /\ Apart
  BY <1>2, <1>0 DEF SubjectForks, Types, Places
<1>3. CASE NamespaceEnds /\ Apart
  BY <1>3, <1>0 DEF NamespaceEnds, Types, Places
<1>4. CASE KinEnds /\ Apart
  BY <1>4, <1>0 DEF KinEnds, Types, Places
<1>5. CASE OwnerLaunches /\ Apart
  BY <1>5, <1>0 DEF OwnerLaunches, Types, Places
<1>6. CASE HelperEnds /\ Apart
  BY <1>6, <1>0 DEF HelperEnds, Types, Places
<1>7. CASE RunClock /\ Apart
  BY <1>7, <1>0 DEF RunClock, Types, Places
<1>8. CASE RunRaises /\ Apart
  BY <1>8, <1>0 DEF RunRaises, Failing, Latched, Latching, Types, Places
<1>9. CASE Late /\ Apart
  BY <1>9, <1>0 DEF Late, Opened, Types, Places
<1>10. CASE Cancel /\ Apart
  BY <1>10, <1>0 DEF Cancel, Opened, Types, Places
<1>11. CASE Drift /\ Apart
  BY <1>11, <1>0 DEF Drift, Looks, Opened, Types, Places
<1>12. CASE Alarm /\ Apart
  BY <1>12, <1>0, AlarmForm DEF SamePart, SameProcesses, SameMachine, Grows, Planned
<1>13. CASE SubjectMeddles /\ UNCHANGED out
  BY <1>13, <1>0 DEF SubjectMeddles, Types, Places
<1> QED BY <1>1, <1>2, <1>3, <1>4, <1>5, <1>6, <1>7, <1>8, <1>9, <1>10, <1>11, <1>12, <1>13 DEF Others,
      Machine

LEMMA EarlyStep ==
  ASSUME Types, Planned, Early, job.platform = "linux", [Next]_vars
  PROVE  Early' \/ (at.op = "ns-write" /\ at'.pc = "next")
<1>0. /\ at.ctx = "open" \/ at.op \in {"check", "ns-open", "ns-write"}
      /\ at.pc \notin InRun \cup Helping \cup {"touching"}
      /\ at.part \in Nat /\ (at.ctx = "admit" /\ at.part = 3 => at.op = "ns-write")
  BY EarlyOps, AdmitOps
<1>1. CASE UNCHANGED vars
  BY <1>1, <1>0 DEF Working, Helping, InRun, Beaten, Closing, Ending, Early, Types, Places, vars,
      sessionVars, nativeVars, Parts, AdmissionPlan
<1> QED BY <1>1, EarlySession, EarlyNative, EarlyMain, EarlyOthers DEF Next, Terminated

-----------------------------------------------------------------------------
\* Before the session is opened: the session.
LEMMA OpeningSession ==
  ASSUME Types, Planned, OpsHere, Opening, Session
  PROVE  Opening'
<1> USE DEF Goto, Raise, Doing, Failed, Charge, Free, Working, Helping, InRun, Beaten, Closing,
    Ending, Opening, Nodes, Session, nativeVars
<1>1. CASE Refused
  BY <1>1 DEF Refused, CanIdle, Domain, Guarded, NotIdle, Owned, Types, Places, Planned, Worlds,
      Files, Reports
<1>2. CASE Setup
  BY <1>2 DEF Setup, Assertable, Failing, Latched, Latching, Types, Places, Planned, Worlds,
      Files, Reports
<1>3. CASE Spawn
  BY <1>3 DEF Spawn, Types, Places, Planned, Worlds, Files, Reports
<1>4. CASE Own
  BY <1>4 DEF Own, Failing, Types, Places, Planned, Worlds, Files, Reports
<1>5. CASE Reap
  BY <1>5, ReapForm DEF SamePart, SameMachine, Failed, Types, Worlds, Sessions
<1>6. CASE LoopStops
  BY <1>6, StopsForm DEF SamePart, SameMachine, Failed, Types, Worlds, Sessions
<1>7. CASE LoopKills
  BY <1>7 DEF LoopKills, Types, Places, Planned, Worlds, Files, Reports
<1>8. CASE ReadsEof
  BY <1>8 DEF ReadsEof, Types, Places, Planned, Worlds, Files, Reports
<1>9. CASE LoopSweeps
  BY <1>9, LoopSweepsForm DEF SamePart, SameMachine, Failed, Types, Worlds, Sessions
<1>10. CASE LoopEnds
  BY <1>10 DEF LoopEnds, Types, Places, Planned, Worlds, Files, Reports
<1>11. CASE RunStop
  BY <1>11 DEF RunStop, Types, Places, Planned, Worlds, Files, Reports
<1>12. CASE RunWait
  BY <1>12, WaitForm DEF SamePart, SameMachine, Types, Worlds
<1>13. CASE RunDispose
  BY <1>13, DisposeForm DEF SamePart, SameMachine, Failed, Types, Worlds, Sessions
<1>14. CASE RunSettle
  BY <1>14 DEF RunSettle, Domain, Final, Types, Places, Planned, Worlds, Files, Reports
<1>15. CASE RunEnd
  BY <1>15 DEF RunEnd, Failing, Latching, Types, Places, Planned, Worlds, Files, Reports
<1>16. CASE Judge
  BY <1>16 DEF Judge, BecomeIdle, CanIdle, Domain, Guarded, Judged, NoRun, NotIdle, Owned, RunOk,
      Types, Places, Planned, Worlds, Files, Reports
<1>17. CASE Touch
  BY <1>17 DEF Touch, BecomeIdle, CanIdle, Domain, Guarded, Owned, Types, Places, Planned, Worlds,
      Files, Reports
<1>18. CASE Touched
  BY <1>18 DEF Touched, CouldWrite, Types, Places, Planned, Worlds, Files, Reports
<1>19. CASE EnsureIdle
  BY <1>19 DEF EnsureIdle, BecomeIdle, CanIdle, Domain, Guarded, Owned, Types, Places, Planned,
      Worlds, Files, Reports
<1>20. CASE Provider
  BY <1>20 DEF Provider, BecomeIdle, CanIdle, Domain, Guarded, Owned, Types, Places, Planned,
      Worlds, Files, Reports
<1>21. CASE Sentinel
  BY <1>21 DEF Sentinel, BecomeIdle, CanIdle, Domain, Guarded, Owned, Types, Places, Planned,
      Worlds, Files, Reports
<1>22. CASE Small
  BY <1>22, SmallForm DEF SamePart, SameProcesses, SameMachine, Grows, Planned
<1>23. CASE SmallReturns
  BY <1>23 DEF SmallReturns, Types, Places, Planned, Worlds, Files, Reports
<1>24. CASE SmallRaises
  BY <1>24 DEF SmallRaises, Types, Places, Planned, Worlds, Files, Reports
<1>25. CASE Lost
  BY <1>25 DEF Lost, Domain, Types, Places, Planned, Worlds, Files, Reports
<1>26. CASE NsOpen
  BY <1>26, NsOpenForm DEF SamePart, SameProcesses, SameMachine, Grows, Planned
<1>27. CASE NsWrite
  BY <1>27 DEF NsWrite, NsRaises, Types, Places, Planned, Worlds, Files, Reports
<1>28. CASE NsVerify
  BY <1>28 DEF NsVerify, NsRaises, Types, Places, Planned, Worlds, Files, Reports
<1>29. CASE HomePin
  BY <1>29 DEF HomePin, BecomeIdle, CanIdle, Domain, Guarded, Owned, Types, Places, Planned,
      Worlds, Files, Reports
<1>30. CASE MakeNode
  BY <1>30, NodeForm DEF SamePart, SameProcesses, SameMachine, Grows, Planned
<1>31. CASE CloseBegin
  BY <1>31, BeginForm DEF SamePart, SameProcesses, SameMachine, Grows, Planned
<1>32. CASE CloseCensus
  BY <1>32, CensusForm DEF SamePart, SameProcesses, SameMachine, Grows, Planned
<1>33. CASE CloseNs
  BY <1>33, NsForm DEF SamePart, SameProcesses, SameMachine, Grows, Planned
<1>34. CASE CloseHome
  BY <1>34, HomeStepForm DEF SamePart, SameProcesses, SameMachine, Grows, Planned
<1> QED BY <1>1, <1>2, <1>3, <1>4, <1>5, <1>6, <1>7, <1>8, <1>9, <1>10, <1>11, <1>12, <1>13, <1>14,
      <1>15, <1>16, <1>17, <1>18, <1>19, <1>20, <1>21, <1>22, <1>23, <1>24, <1>25, <1>26, <1>27,
      <1>28, <1>29, <1>30, <1>31, <1>32, <1>33, <1>34 DEF Controller

\* Before the session is opened: the native phases and the checked files.
LEMMA OpeningNative ==
  ASSUME Types, Planned, OpsHere, Opening, Native
  PROVE  Opening'
<1> USE DEF Goto, Raise, Doing, Failed, Charge, Free, Working, Helping, InRun, Beaten, Closing,
    Ending, Opening, Nodes, Native, nativeVars
<1>1. CASE OrdinaryCapture
  BY <1>1 DEF OrdinaryCapture, Begin, CanIdle, Capture, Domain, Guarded, NoRun, Owned, Phases,
      Types, Places, Planned, Worlds, Files, Reports
<1>2. CASE Prepare
  BY <1>2 DEF Prepare, BecomeIdle, CanIdle, Domain, Guarded, Owned, Phase, Types, Places, Planned,
      Worlds, Files, Reports
<1>3. CASE Control
  BY <1>3 DEF Control, Begin, CanIdle, Domain, Guarded, Holding, NoRun, Owned, Phase, Types,
      Places, Planned, Worlds, Files, Reports
<1>4. CASE SignalControl
  BY <1>4 DEF SignalControl, CanIdle, Domain, Guarded, Owned, Types, Places, Planned, Worlds,
      Files, Reports
<1>5. CASE Prepared
  BY <1>5 DEF Prepared, BecomeIdle, CanIdle, Domain, Guarded, Owned, Phase, Types, Places,
      Planned, Worlds, Files, Reports
<1>6. CASE NativeCapture
  BY <1>6 DEF NativeCapture, Begin, CanIdle, Domain, Guarded, Holding, NoRun, Owned, Phase, Types,
      Places, Planned, Worlds, Files, Reports
<1>7. CASE NativeFinish
  BY <1>7 DEF NativeFinish, BecomeIdle, CanIdle, Domain, Guarded, NoRun, Owned, Phase, RunOk,
      Unfinished, Types, Places, Planned, Worlds, Files, Reports
<1>8. CASE PhaseRaised
  BY <1>8 DEF PhaseRaised, Holding, Phase, Unresolved, Types, Places, Planned, Worlds, Files,
      Reports
<1>9. CASE CreateFiles
  BY <1>9 DEF CreateFiles, BecomeIdle, CanIdle, Domain, Guarded, Owned, Phase, Types, Places,
      Planned, Worlds, Files, Reports
<1>10. CASE ReuseFiles
  BY <1>10 DEF ReuseFiles, BecomeIdle, CanIdle, Domain, Guarded, Owned, Phase, Phases, Types,
      Places, Planned, Worlds, Files, Reports
<1>11. CASE VerifyFiles
  BY <1>11 DEF VerifyFiles, Guarded, Originals, Owned, Phase, Types, Places, Planned, Worlds,
      Files, Reports
<1>12. CASE CloseNative
  BY <1>12, NativeForm DEF SamePart, SameProcesses, SameMachine, Grows, Planned
<1>13. CASE CloseFiles
  BY <1>13, FilesForm DEF SamePart, SameProcesses, SameMachine, Grows, Planned
<1> QED BY <1>1, <1>2, <1>3, <1>4, <1>5, <1>6, <1>7, <1>8, <1>9, <1>10, <1>11, <1>12, <1>13 DEF
      NativeController

\* Before the session is opened: the controller.
LEMMA OpeningMain ==
  ASSUME Types, Planned, OpsHere, Opening, Main
  PROVE  Opening'
<1> USE DEF Goto, Raise, Doing, Failed, Charge, Free, Working, Helping, InRun, Beaten, Closing,
    Ending, Opening, Nodes, nativeVars
<1>1. CASE OpenSession
  BY <1>1 DEF OpenSession, Begins, Types, Places, Planned, Worlds, Files, Reports
<1>2. CASE OpenFails
  BY <1>2 DEF OpenFails, Types, Places, Planned, Worlds, Files, Reports
<1>3. CASE Check
  BY <1>3 DEF Check, Types, Places, Planned, Worlds, Files, Reports
<1>4. CASE Advance
  BY <1>4 DEF Advance, Planned, Types, Places, Planned, Worlds, Files, Reports
<1>5. CASE InputsDone
  BY <1>5, InputsForm DEF SamePart, SameProcesses, SameMachine, Grows, Planned
<1>6. CASE Admitted
  BY <1>6, AdmittedForm, LastIdle DEF Grows
<1>7. CASE ToolsDone
  BY <1>7, ToolsForm DEF SamePart, SameProcesses, SameMachine, Grows, Planned
<1>8. CASE GatePass
  BY <1>8, GateForm DEF SamePart, SameProcesses, SameMachine, Grows, Planned
<1>9. CASE Proof
  BY <1>9 DEF Proof, Types, Places, Planned, Worlds, Files, Reports
<1>10. CASE AllRemoved
  BY <1>10 DEF AllRemoved, Ended, Types, Places, Planned, Worlds, Files, Reports
<1>11. CASE Raised
  BY <1>11 DEF Raised, Holding, Phase, Unresolved, Types, Places, Planned, Worlds, Files, Reports
<1>12. CASE Caught
  BY <1>12 DEF Caught, Types, Places, Planned, Worlds, Files, Reports
<1>13. CASE Escaped
  BY <1>13 DEF Escaped, Types, Places, Planned, Worlds, Files, Reports
<1>14. CASE Publish
  BY <1>14 DEF Publish, Verdict, Types, Places, Planned, Worlds, Files, Reports
<1>15. CASE Finish
  BY <1>15 DEF Finish, Exit, Types, Places, Planned, Worlds, Files, Reports
<1> QED BY <1>1, <1>2, <1>3, <1>4, <1>5, <1>6, <1>7, <1>8, <1>9, <1>10, <1>11, <1>12, <1>13, <1>14,
      <1>15 DEF Main

\* Before the session is opened: the machine.
LEMMA OpeningOthers ==
  ASSUME Types, Planned, OpsHere, Opening, Others
  PROVE  Opening'
<1> USE DEF Goto, Raise, Doing, Failed, Charge, Free, Working, Helping, InRun, Beaten, Closing,
    Ending, Opening, Nodes, Apart, nativeVars
<1>1. CASE SubjectEnds /\ Apart
  BY <1>1 DEF SubjectEnds, Types, Places, Planned, Worlds, Files, Reports
<1>2. CASE SubjectForks /\ Apart
  BY <1>2 DEF SubjectForks, Types, Places, Planned, Worlds, Files, Reports
<1>3. CASE NamespaceEnds /\ Apart
  BY <1>3 DEF NamespaceEnds, Types, Places, Planned, Worlds, Files, Reports
<1>4. CASE KinEnds /\ Apart
  BY <1>4 DEF KinEnds, Types, Places, Planned, Worlds, Files, Reports
<1>5. CASE OwnerLaunches /\ Apart
  BY <1>5 DEF OwnerLaunches, Types, Places, Planned, Worlds, Files, Reports
<1>6. CASE HelperEnds /\ Apart
  BY <1>6 DEF HelperEnds, Types, Places, Planned, Worlds, Files, Reports
<1>7. CASE RunClock /\ Apart
  BY <1>7 DEF RunClock, Types, Places, Planned, Worlds, Files, Reports
<1>8. CASE RunRaises /\ Apart
  BY <1>8 DEF RunRaises, Failing, Latched, Latching, Types, Places, Planned, Worlds, Files,
      Reports
<1>9. CASE Late /\ Apart
  BY <1>9 DEF Late, Opened, Types, Places, Planned, Worlds, Files, Reports
<1>10. CASE Cancel /\ Apart
  BY <1>10 DEF Cancel, Opened, Types, Places, Planned, Worlds, Files, Reports
<1>11. CASE Drift /\ Apart
  BY <1>11 DEF Drift, Looks, Opened, Types, Places, Planned, Worlds, Files, Reports
<1>12. CASE Alarm /\ Apart
  BY <1>12, AlarmForm DEF SamePart, SameProcesses, SameMachine, Grows, Planned
<1>13. CASE SubjectMeddles /\ UNCHANGED out
  BY <1>13 DEF SubjectMeddles, Types, Places, Planned, Worlds, Files, Reports
<1> QED BY <1>1, <1>2, <1>3, <1>4, <1>5, <1>6, <1>7, <1>8, <1>9, <1>10, <1>11, <1>12, <1>13 DEF Others,
      Machine

LEMMA OpeningStep ==
  ASSUME Types, Planned, OpsHere, Opening, [Next]_vars
  PROVE  Opening'
<1>1. CASE UNCHANGED vars
  BY <1>1 DEF Working, Helping, InRun, Beaten, Closing, Ending, Opening, Nodes, Types, Places,
      Planned, Worlds, Files, Reports, vars, sessionVars, nativeVars, Parts, AdmissionPlan
<1> QED BY <1>1, OpeningSession, OpeningNative, OpeningMain, OpeningOthers DEF Next, Terminated

-----------------------------------------------------------------------------
\* What the capture knows of its child: the session.
LEMMA ChildSession ==
  ASSUME Types, Planned, OpsHere, Quiet, Child, Session
  PROVE  Child'
<1> USE DEF Goto, Raise, Doing, Failed, Charge, Free, Working, Helping, InRun, Beaten, Closing,
    Ending, Child, Session, nativeVars
<1>1. CASE Refused
  BY <1>1 DEF Refused, CanIdle, Domain, Guarded, NotIdle, Owned, Types, Places, Worlds, Runs,
      Quiet
<1>2. CASE Setup
  BY <1>2 DEF Setup, Assertable, Failing, Latched, Latching, Types, Places, Worlds, Runs, Quiet
<1>3. CASE Spawn
  BY <1>3 DEF Spawn, Types, Places, Worlds, Runs, Quiet
<1>4. CASE Own
  BY <1>4 DEF Own, Failing, Types, Places, Worlds, Runs, Quiet
<1>5. CASE Reap
  BY <1>5, ReapForm DEF SamePart, SameMachine, Failed, Types, Worlds, Sessions
<1>6. CASE LoopStops
  BY <1>6, StopsForm DEF SamePart, SameMachine, Failed, Types, Worlds, Sessions
<1>7. CASE LoopKills
  BY <1>7 DEF LoopKills, Types, Places, Worlds, Runs, Quiet
<1>8. CASE ReadsEof
  BY <1>8 DEF ReadsEof, Types, Places, Worlds, Runs, Quiet
<1>9. CASE LoopSweeps
  BY <1>9, LoopSweepsForm DEF SamePart, SameMachine, Failed, Types, Worlds, Sessions
<1>10. CASE LoopEnds
  BY <1>10 DEF LoopEnds, Types, Places, Worlds, Runs, Quiet
<1>11. CASE RunStop
  BY <1>11 DEF RunStop, Types, Places, Worlds, Runs, Quiet
<1>12. CASE RunWait
  BY <1>12, WaitForm DEF SamePart, SameMachine, Types, Worlds
<1>13. CASE RunDispose
  BY <1>13, DisposeForm DEF SamePart, SameMachine, Failed, Types, Worlds, Sessions
<1>14. CASE RunSettle
  BY <1>14 DEF RunSettle, Domain, Final, Types, Places, Worlds, Runs, Quiet
<1>15. CASE RunEnd
  BY <1>15 DEF RunEnd, Failing, Latching, Types, Places, Worlds, Runs, Quiet
<1>16. CASE Judge
  BY <1>16 DEF Judge, BecomeIdle, CanIdle, Domain, Guarded, Judged, NoRun, NotIdle, Owned, RunOk,
      Types, Places, Worlds, Runs, Quiet
<1>17. CASE Touch
  BY <1>17 DEF Touch, BecomeIdle, CanIdle, Domain, Guarded, Owned, Types, Places, Worlds, Runs,
      Quiet
<1>18. CASE Touched
  BY <1>18 DEF Touched, CouldWrite, Types, Places, Worlds, Runs, Quiet
<1>19. CASE EnsureIdle
  BY <1>19 DEF EnsureIdle, BecomeIdle, CanIdle, Domain, Guarded, Owned, Types, Places, Worlds,
      Runs, Quiet
<1>20. CASE Provider
  BY <1>20 DEF Provider, BecomeIdle, CanIdle, Domain, Guarded, Owned, Types, Places, Worlds, Runs,
      Quiet
<1>21. CASE Sentinel
  BY <1>21 DEF Sentinel, BecomeIdle, CanIdle, Domain, Guarded, Owned, Types, Places, Worlds, Runs,
      Quiet
<1>22. CASE Small
  BY <1>22, SmallForm DEF SamePart, SameProcesses, SameMachine, Grows, Planned
<1>23. CASE SmallReturns
  BY <1>23 DEF SmallReturns, Types, Places, Worlds, Runs, Quiet
<1>24. CASE SmallRaises
  BY <1>24 DEF SmallRaises, Types, Places, Worlds, Runs, Quiet
<1>25. CASE Lost
  BY <1>25 DEF Lost, Domain, Types, Places, Worlds, Runs, Quiet
<1>26. CASE NsOpen
  BY <1>26, NsOpenForm DEF SamePart, SameProcesses, SameMachine, Grows, Planned
<1>27. CASE NsWrite
  BY <1>27 DEF NsWrite, NsRaises, Types, Places, Worlds, Runs, Quiet
<1>28. CASE NsVerify
  BY <1>28 DEF NsVerify, NsRaises, Types, Places, Worlds, Runs, Quiet
<1>29. CASE HomePin
  BY <1>29 DEF HomePin, BecomeIdle, CanIdle, Domain, Guarded, Owned, Types, Places, Worlds, Runs,
      Quiet
<1>30. CASE MakeNode
  BY <1>30, NodeForm DEF SamePart, SameProcesses, SameMachine, Grows, Planned
<1>31. CASE CloseBegin
  BY <1>31, BeginForm DEF SamePart, SameProcesses, SameMachine, Grows, Planned
<1>32. CASE CloseCensus
  BY <1>32, CensusForm DEF SamePart, SameProcesses, SameMachine, Grows, Planned
<1>33. CASE CloseNs
  BY <1>33, NsForm DEF SamePart, SameProcesses, SameMachine, Grows, Planned
<1>34. CASE CloseHome
  BY <1>34, HomeStepForm DEF SamePart, SameProcesses, SameMachine, Grows, Planned
<1> QED BY <1>1, <1>2, <1>3, <1>4, <1>5, <1>6, <1>7, <1>8, <1>9, <1>10, <1>11, <1>12, <1>13, <1>14,
      <1>15, <1>16, <1>17, <1>18, <1>19, <1>20, <1>21, <1>22, <1>23, <1>24, <1>25, <1>26, <1>27,
      <1>28, <1>29, <1>30, <1>31, <1>32, <1>33, <1>34 DEF Controller

\* What the capture knows of its child: the native phases and the checked files.
LEMMA ChildNative ==
  ASSUME Types, Planned, OpsHere, Quiet, Child, Native
  PROVE  Child'
<1> USE DEF Goto, Raise, Doing, Failed, Charge, Free, Working, Helping, InRun, Beaten, Closing,
    Ending, Child, Native, nativeVars
<1>1. CASE OrdinaryCapture
  BY <1>1 DEF OrdinaryCapture, Begin, CanIdle, Capture, Domain, Guarded, NoRun, Owned, Phases,
      Types, Places, Worlds, Runs, Quiet
<1>2. CASE Prepare
  BY <1>2 DEF Prepare, BecomeIdle, CanIdle, Domain, Guarded, Owned, Phase, Types, Places, Worlds,
      Runs, Quiet
<1>3. CASE Control
  BY <1>3 DEF Control, Begin, CanIdle, Domain, Guarded, Holding, NoRun, Owned, Phase, Types,
      Places, Worlds, Runs, Quiet
<1>4. CASE SignalControl
  BY <1>4 DEF SignalControl, CanIdle, Domain, Guarded, Owned, Types, Places, Worlds, Runs, Quiet
<1>5. CASE Prepared
  BY <1>5 DEF Prepared, BecomeIdle, CanIdle, Domain, Guarded, Owned, Phase, Types, Places, Worlds,
      Runs, Quiet
<1>6. CASE NativeCapture
  BY <1>6 DEF NativeCapture, Begin, CanIdle, Domain, Guarded, Holding, NoRun, Owned, Phase, Types,
      Places, Worlds, Runs, Quiet
<1>7. CASE NativeFinish
  BY <1>7 DEF NativeFinish, BecomeIdle, CanIdle, Domain, Guarded, NoRun, Owned, Phase, RunOk,
      Unfinished, Types, Places, Worlds, Runs, Quiet
<1>8. CASE PhaseRaised
  BY <1>8 DEF PhaseRaised, Holding, Phase, Unresolved, Types, Places, Worlds, Runs, Quiet
<1>9. CASE CreateFiles
  BY <1>9 DEF CreateFiles, BecomeIdle, CanIdle, Domain, Guarded, Owned, Phase, Types, Places,
      Worlds, Runs, Quiet
<1>10. CASE ReuseFiles
  BY <1>10 DEF ReuseFiles, BecomeIdle, CanIdle, Domain, Guarded, Owned, Phase, Phases, Types,
      Places, Worlds, Runs, Quiet
<1>11. CASE VerifyFiles
  BY <1>11 DEF VerifyFiles, Guarded, Originals, Owned, Phase, Types, Places, Worlds, Runs, Quiet
<1>12. CASE CloseNative
  BY <1>12, NativeForm DEF SamePart, SameProcesses, SameMachine, Grows, Planned
<1>13. CASE CloseFiles
  BY <1>13, FilesForm DEF SamePart, SameProcesses, SameMachine, Grows, Planned
<1> QED BY <1>1, <1>2, <1>3, <1>4, <1>5, <1>6, <1>7, <1>8, <1>9, <1>10, <1>11, <1>12, <1>13 DEF
      NativeController

\* What the capture knows of its child: the controller.
LEMMA ChildMain ==
  ASSUME Types, Planned, OpsHere, Quiet, Child, Main
  PROVE  Child'
<1> USE DEF Goto, Raise, Doing, Failed, Charge, Free, Working, Helping, InRun, Beaten, Closing,
    Ending, Child, nativeVars
<1>1. CASE OpenSession
  BY <1>1 DEF OpenSession, Begins, Types, Places, Worlds, Runs, Quiet
<1>2. CASE OpenFails
  BY <1>2 DEF OpenFails, Types, Places, Worlds, Runs, Quiet
<1>3. CASE Check
  BY <1>3 DEF Check, Types, Places, Worlds, Runs, Quiet
<1>4. CASE Advance
  BY <1>4 DEF Advance, Planned, Types, Places, Worlds, Runs, Quiet
<1>5. CASE InputsDone
  BY <1>5, InputsForm DEF SamePart, SameProcesses, SameMachine, Grows, Planned
<1>6. CASE Admitted
  BY <1>6, AdmittedForm, LastIdle DEF Grows
<1>7. CASE ToolsDone
  BY <1>7, ToolsForm DEF SamePart, SameProcesses, SameMachine, Grows, Planned
<1>8. CASE GatePass
  BY <1>8, GateForm DEF SamePart, SameProcesses, SameMachine, Grows, Planned
<1>9. CASE Proof
  BY <1>9 DEF Proof, Types, Places, Worlds, Runs, Quiet
<1>10. CASE AllRemoved
  BY <1>10 DEF AllRemoved, Ended, Types, Places, Worlds, Runs, Quiet
<1>11. CASE Raised
  BY <1>11 DEF Raised, Holding, Phase, Unresolved, Types, Places, Worlds, Runs, Quiet
<1>12. CASE Caught
  BY <1>12 DEF Caught, Types, Places, Worlds, Runs, Quiet
<1>13. CASE Escaped
  BY <1>13 DEF Escaped, Types, Places, Worlds, Runs, Quiet
<1>14. CASE Publish
  BY <1>14 DEF Publish, Verdict, Types, Places, Worlds, Runs, Quiet
<1>15. CASE Finish
  BY <1>15 DEF Finish, Exit, Types, Places, Worlds, Runs, Quiet
<1> QED BY <1>1, <1>2, <1>3, <1>4, <1>5, <1>6, <1>7, <1>8, <1>9, <1>10, <1>11, <1>12, <1>13, <1>14,
      <1>15 DEF Main

\* What the capture knows of its child: the machine.
LEMMA ChildOthers ==
  ASSUME Types, Planned, OpsHere, Quiet, Child, Others
  PROVE  Child'
<1> USE DEF Goto, Raise, Doing, Failed, Charge, Free, Working, Helping, InRun, Beaten, Closing,
    Ending, Child, Apart, nativeVars
<1>1. CASE SubjectEnds /\ Apart
  BY <1>1 DEF SubjectEnds, Types, Places, Worlds, Runs, Quiet
<1>2. CASE SubjectForks /\ Apart
  BY <1>2 DEF SubjectForks, Types, Places, Worlds, Runs, Quiet
<1>3. CASE NamespaceEnds /\ Apart
  BY <1>3 DEF NamespaceEnds, Types, Places, Worlds, Runs, Quiet
<1>4. CASE KinEnds /\ Apart
  BY <1>4 DEF KinEnds, Types, Places, Worlds, Runs, Quiet
<1>5. CASE OwnerLaunches /\ Apart
  BY <1>5 DEF OwnerLaunches, Types, Places, Worlds, Runs, Quiet
<1>6. CASE HelperEnds /\ Apart
  BY <1>6 DEF HelperEnds, Types, Places, Worlds, Runs, Quiet
<1>7. CASE RunClock /\ Apart
  BY <1>7 DEF RunClock, Types, Places, Worlds, Runs, Quiet
<1>8. CASE RunRaises /\ Apart
  BY <1>8 DEF RunRaises, Failing, Latched, Latching, Types, Places, Worlds, Runs, Quiet
<1>9. CASE Late /\ Apart
  BY <1>9 DEF Late, Opened, Types, Places, Worlds, Runs, Quiet
<1>10. CASE Cancel /\ Apart
  BY <1>10 DEF Cancel, Opened, Types, Places, Worlds, Runs, Quiet
<1>11. CASE Drift /\ Apart
  BY <1>11 DEF Drift, Looks, Opened, Types, Places, Worlds, Runs, Quiet
<1>12. CASE Alarm /\ Apart
  BY <1>12, AlarmForm DEF SamePart, SameProcesses, SameMachine, Grows, Planned
<1>13. CASE SubjectMeddles /\ UNCHANGED out
  BY <1>13 DEF SubjectMeddles, Types, Places, Worlds, Runs, Quiet
<1> QED BY <1>1, <1>2, <1>3, <1>4, <1>5, <1>6, <1>7, <1>8, <1>9, <1>10, <1>11, <1>12, <1>13 DEF Others,
      Machine

LEMMA ChildStep ==
  ASSUME Types, Planned, OpsHere, Quiet, Child, [Next]_vars
  PROVE  Child'
<1>1. CASE UNCHANGED vars
  BY <1>1 DEF Working, Helping, InRun, Beaten, Closing, Ending, Child, Types, Places, Worlds,
      Runs, Quiet, vars, sessionVars, nativeVars, Parts, AdmissionPlan
<1> QED BY <1>1, ChildSession, ChildNative, ChildMain, ChildOthers DEF Next, Terminated

-----------------------------------------------------------------------------
\* A subject that did not succeed: the session.
LEMMA StainedSession ==
  ASSUME Types, Planned, OpsHere, Quiet, Child, Stained, Session
  PROVE  Stained'
<1> USE DEF Goto, Raise, Doing, Failed, Charge, Free, Working, Helping, InRun, Beaten, Closing,
    Ending, OpsHere, GateOps, LinuxOps, MacOps, Nodes, Child, Quiet, Stained, Session, nativeVars
<1>1. CASE Refused
  BY <1>1 DEF Refused, CanIdle, Domain, Guarded, NotIdle, Owned, Types, Places, Worlds, Runs,
      Watches
<1>2. CASE Setup
  BY <1>2 DEF Setup, Assertable, Failing, Latched, Latching, Types, Places, Worlds, Runs, Watches
<1>3. CASE Spawn
  BY <1>3 DEF Spawn, Types, Places, Worlds, Runs, Watches
<1>4. CASE Own
  BY <1>4 DEF Own, Failing, Types, Places, Worlds, Runs, Watches
<1>5. CASE Reap
  BY <1>5, ReapForm DEF SamePart, SameMachine, Failed, Types, Worlds, Sessions
<1>6. CASE LoopStops
  BY <1>6, StopsForm DEF SamePart, SameMachine, Failed, Types, Worlds, Sessions
<1>7. CASE LoopKills
  BY <1>7 DEF LoopKills, Types, Places, Worlds, Runs, Watches
<1>8. CASE ReadsEof
  BY <1>8 DEF ReadsEof, Types, Places, Worlds, Runs, Watches
<1>9. CASE LoopSweeps
  BY <1>9, LoopSweepsForm DEF SamePart, SameMachine, Failed, Types, Worlds, Sessions
<1>10. CASE LoopEnds
  BY <1>10 DEF LoopEnds, Types, Places, Worlds, Runs, Watches
<1>11. CASE RunStop
  BY <1>11 DEF RunStop, Types, Places, Worlds, Runs, Watches
<1>12. CASE RunWait
  BY <1>12, WaitForm DEF SamePart, SameMachine, Types, Worlds
<1>13. CASE RunDispose
  BY <1>13, DisposeForm DEF SamePart, SameMachine, Failed, Types, Worlds, Sessions
<1>14. CASE RunSettle
  BY <1>14 DEF RunSettle, Domain, Final, Types, Places, Worlds, Runs, Watches
<1>15. CASE RunEnd
  BY <1>15 DEF RunEnd, Failing, Latching, Types, Places, Worlds, Runs, Watches
<1>16. CASE Judge
  BY <1>16 DEF Judge, BecomeIdle, CanIdle, Domain, Guarded, Judged, NoRun, NotIdle, Owned, RunOk,
      Types, Places, Worlds, Runs, Watches
<1>17. CASE Touch
  BY <1>17 DEF Touch, BecomeIdle, CanIdle, Domain, Guarded, Owned, Types, Places, Worlds, Runs,
      Watches
<1>18. CASE Touched
  BY <1>18 DEF Touched, CouldWrite, Types, Places, Worlds, Runs, Watches
<1>19. CASE EnsureIdle
  BY <1>19 DEF EnsureIdle, BecomeIdle, CanIdle, Domain, Guarded, Owned, Types, Places, Worlds,
      Runs, Watches
<1>20. CASE Provider
  BY <1>20 DEF Provider, BecomeIdle, CanIdle, Domain, Guarded, Owned, Types, Places, Worlds, Runs,
      Watches
<1>21. CASE Sentinel
  BY <1>21 DEF Sentinel, BecomeIdle, CanIdle, Domain, Guarded, Owned, Types, Places, Worlds, Runs,
      Watches
<1>22. CASE Small
  BY <1>22, SmallForm DEF SamePart, SameProcesses, SameMachine, Grows, Planned
<1>23. CASE SmallReturns
  BY <1>23 DEF SmallReturns, Types, Places, Worlds, Runs, Watches
<1>24. CASE SmallRaises
  BY <1>24 DEF SmallRaises, Types, Places, Worlds, Runs, Watches
<1>25. CASE Lost
  BY <1>25 DEF Lost, Domain, Types, Places, Worlds, Runs, Watches
<1>26. CASE NsOpen
  BY <1>26, NsOpenForm DEF SamePart, SameProcesses, SameMachine, Grows, Planned
<1>27. CASE NsWrite
  BY <1>27 DEF NsWrite, NsRaises, Types, Places, Worlds, Runs, Watches
<1>28. CASE NsVerify
  BY <1>28 DEF NsVerify, NsRaises, Types, Places, Worlds, Runs, Watches
<1>29. CASE HomePin
  BY <1>29 DEF HomePin, BecomeIdle, CanIdle, Domain, Guarded, Owned, Types, Places, Worlds, Runs,
      Watches
<1>30. CASE MakeNode
  BY <1>30, NodeForm DEF SamePart, SameProcesses, SameMachine, Grows, Planned
<1>31. CASE CloseBegin
  BY <1>31, BeginForm DEF SamePart, SameProcesses, SameMachine, Grows, Planned
<1>32. CASE CloseCensus
  BY <1>32, CensusForm DEF SamePart, SameProcesses, SameMachine, Grows, Planned
<1>33. CASE CloseNs
  BY <1>33, NsForm DEF SamePart, SameProcesses, SameMachine, Grows, Planned
<1>34. CASE CloseHome
  BY <1>34, HomeStepForm DEF SamePart, SameProcesses, SameMachine, Grows, Planned
<1> QED BY <1>1, <1>2, <1>3, <1>4, <1>5, <1>6, <1>7, <1>8, <1>9, <1>10, <1>11, <1>12, <1>13, <1>14,
      <1>15, <1>16, <1>17, <1>18, <1>19, <1>20, <1>21, <1>22, <1>23, <1>24, <1>25, <1>26, <1>27,
      <1>28, <1>29, <1>30, <1>31, <1>32, <1>33, <1>34 DEF Controller

\* A subject that did not succeed: the native phases and the checked files.
LEMMA StainedNative ==
  ASSUME Types, Planned, OpsHere, Quiet, Child, Stained, Native
  PROVE  Stained'
<1> USE DEF Goto, Raise, Doing, Failed, Charge, Free, Working, Helping, InRun, Beaten, Closing,
    Ending, OpsHere, GateOps, LinuxOps, MacOps, Nodes, Child, Quiet, Stained, Native, nativeVars
<1>1. CASE OrdinaryCapture
  BY <1>1 DEF OrdinaryCapture, Begin, CanIdle, Capture, Domain, Guarded, NoRun, Owned, Phases,
      Types, Places, Worlds, Runs, Watches
<1>2. CASE Prepare
  BY <1>2 DEF Prepare, BecomeIdle, CanIdle, Domain, Guarded, Owned, Phase, Types, Places, Worlds,
      Runs, Watches
<1>3. CASE Control
  BY <1>3 DEF Control, Begin, CanIdle, Domain, Guarded, Holding, NoRun, Owned, Phase, Types,
      Places, Worlds, Runs, Watches
<1>4. CASE SignalControl
  BY <1>4 DEF SignalControl, CanIdle, Domain, Guarded, Owned, Types, Places, Worlds, Runs, Watches
<1>5. CASE Prepared
  BY <1>5 DEF Prepared, BecomeIdle, CanIdle, Domain, Guarded, Owned, Phase, Types, Places, Worlds,
      Runs, Watches
<1>6. CASE NativeCapture
  BY <1>6 DEF NativeCapture, Begin, CanIdle, Domain, Guarded, Holding, NoRun, Owned, Phase, Types,
      Places, Worlds, Runs, Watches
<1>7. CASE NativeFinish
  BY <1>7 DEF NativeFinish, BecomeIdle, CanIdle, Domain, Guarded, NoRun, Owned, Phase, RunOk,
      Unfinished, Types, Places, Worlds, Runs, Watches
<1>8. CASE PhaseRaised
  BY <1>8 DEF PhaseRaised, Holding, Phase, Unresolved, Types, Places, Worlds, Runs, Watches
<1>9. CASE CreateFiles
  BY <1>9 DEF CreateFiles, BecomeIdle, CanIdle, Domain, Guarded, Owned, Phase, Types, Places,
      Worlds, Runs, Watches
<1>10. CASE ReuseFiles
  BY <1>10 DEF ReuseFiles, BecomeIdle, CanIdle, Domain, Guarded, Owned, Phase, Phases, Types,
      Places, Worlds, Runs, Watches
<1>11. CASE VerifyFiles
  BY <1>11 DEF VerifyFiles, Guarded, Originals, Owned, Phase, Types, Places, Worlds, Runs, Watches
<1>12. CASE CloseNative
  BY <1>12, NativeForm DEF SamePart, SameProcesses, SameMachine, Grows, Planned
<1>13. CASE CloseFiles
  BY <1>13, FilesForm DEF SamePart, SameProcesses, SameMachine, Grows, Planned
<1> QED BY <1>1, <1>2, <1>3, <1>4, <1>5, <1>6, <1>7, <1>8, <1>9, <1>10, <1>11, <1>12, <1>13 DEF
      NativeController

\* A subject that did not succeed: the controller.
LEMMA StainedMain ==
  ASSUME Types, Planned, OpsHere, Quiet, Child, Stained, Main
  PROVE  Stained'
<1> USE DEF Goto, Raise, Doing, Failed, Charge, Free, Working, Helping, InRun, Beaten, Closing,
    Ending, OpsHere, GateOps, LinuxOps, MacOps, Nodes, Child, Quiet, Stained, nativeVars
<1>1. CASE OpenSession
  BY <1>1 DEF OpenSession, Begins, Types, Places, Worlds, Runs, Watches
<1>2. CASE OpenFails
  BY <1>2 DEF OpenFails, Types, Places, Worlds, Runs, Watches
<1>3. CASE Check
  BY <1>3 DEF Check, Types, Places, Worlds, Runs, Watches
<1>4. CASE Advance
  BY <1>4 DEF Advance, Planned, Types, Places, Worlds, Runs, Watches
<1>5. CASE InputsDone
  BY <1>5, InputsForm DEF SamePart, SameProcesses, SameMachine, Grows, Planned
<1>6. CASE Admitted
  BY <1>6, AdmittedForm, LastIdle DEF Grows
<1>7. CASE ToolsDone
  BY <1>7, ToolsForm DEF SamePart, SameProcesses, SameMachine, Grows, Planned
<1>8. CASE GatePass
  BY <1>8, GateForm DEF SamePart, SameProcesses, SameMachine, Grows, Planned
<1>9. CASE Proof
  BY <1>9 DEF Proof, Types, Places, Worlds, Runs, Watches
<1>10. CASE AllRemoved
  BY <1>10 DEF AllRemoved, Ended, Types, Places, Worlds, Runs, Watches
<1>11. CASE Raised
  BY <1>11 DEF Raised, Holding, Phase, Unresolved, Types, Places, Worlds, Runs, Watches
<1>12. CASE Caught
  BY <1>12 DEF Caught, Types, Places, Worlds, Runs, Watches
<1>13. CASE Escaped
  BY <1>13 DEF Escaped, Types, Places, Worlds, Runs, Watches
<1>14. CASE Publish
  BY <1>14 DEF Publish, Verdict, Types, Places, Worlds, Runs, Watches
<1>15. CASE Finish
  BY <1>15 DEF Finish, Exit, Types, Places, Worlds, Runs, Watches
<1> QED BY <1>1, <1>2, <1>3, <1>4, <1>5, <1>6, <1>7, <1>8, <1>9, <1>10, <1>11, <1>12, <1>13, <1>14,
      <1>15 DEF Main

\* A subject that did not succeed: the machine.
LEMMA StainedOthers ==
  ASSUME Types, Planned, OpsHere, Quiet, Child, Stained, Others
  PROVE  Stained'
<1> USE DEF Goto, Raise, Doing, Failed, Charge, Free, Working, Helping, InRun, Beaten, Closing,
    Ending, OpsHere, GateOps, LinuxOps, MacOps, Nodes, Child, Quiet, Stained, Apart, nativeVars
<1>1. CASE SubjectEnds /\ Apart
  BY <1>1 DEF SubjectEnds, Types, Places, Worlds, Runs, Watches
<1>2. CASE SubjectForks /\ Apart
  BY <1>2 DEF SubjectForks, Types, Places, Worlds, Runs, Watches
<1>3. CASE NamespaceEnds /\ Apart
  BY <1>3 DEF NamespaceEnds, Types, Places, Worlds, Runs, Watches
<1>4. CASE KinEnds /\ Apart
  BY <1>4 DEF KinEnds, Types, Places, Worlds, Runs, Watches
<1>5. CASE OwnerLaunches /\ Apart
  BY <1>5 DEF OwnerLaunches, Types, Places, Worlds, Runs, Watches
<1>6. CASE HelperEnds /\ Apart
  BY <1>6 DEF HelperEnds, Types, Places, Worlds, Runs, Watches
<1>7. CASE RunClock /\ Apart
  BY <1>7 DEF RunClock, Types, Places, Worlds, Runs, Watches
<1>8. CASE RunRaises /\ Apart
  BY <1>8 DEF RunRaises, Failing, Latched, Latching, Types, Places, Worlds, Runs, Watches
<1>9. CASE Late /\ Apart
  BY <1>9 DEF Late, Opened, Types, Places, Worlds, Runs, Watches
<1>10. CASE Cancel /\ Apart
  BY <1>10 DEF Cancel, Opened, Types, Places, Worlds, Runs, Watches
<1>11. CASE Drift /\ Apart
  BY <1>11 DEF Drift, Looks, Opened, Types, Places, Worlds, Runs, Watches
<1>12. CASE Alarm /\ Apart
  BY <1>12, AlarmForm DEF SamePart, SameProcesses, SameMachine, Grows, Planned
<1>13. CASE SubjectMeddles /\ UNCHANGED out
  BY <1>13 DEF SubjectMeddles, Types, Places, Worlds, Runs, Watches
<1> QED BY <1>1, <1>2, <1>3, <1>4, <1>5, <1>6, <1>7, <1>8, <1>9, <1>10, <1>11, <1>12, <1>13 DEF Others,
      Machine

LEMMA StainedStep ==
  ASSUME Types, Planned, OpsHere, Quiet, Child, Stained, [Next]_vars
  PROVE  Stained'
<1>1. CASE UNCHANGED vars
  BY <1>1 DEF Working, Helping, InRun, Beaten, Closing, Ending, OpsHere, GateOps, LinuxOps,
      MacOps, Nodes, Child, Quiet, Stained, Types, Places, Worlds, Runs, Watches, vars,
      sessionVars, nativeVars, Parts, AdmissionPlan
<1> QED BY <1>1, StainedSession, StainedNative, StainedMain, StainedOthers DEF Next, Terminated

-----------------------------------------------------------------------------
\* The fence: the session.
LEMMA FencedSession ==
  ASSUME Types, Planned, OpsHere, Quiet, Fenced, Session
  PROVE  Fenced'
<1> USE DEF Goto, Raise, Doing, Failed, Charge, Free, Working, Helping, InRun, Beaten, Closing,
    Ending, Quiet, Fenced, Domain, GateOps, Nodes, Session, nativeVars
<1>a. Early /\ job.platform = "linux" =>
        /\ at.ctx = "open" \/ at.op \in {"check", "ns-open", "ns-write"}
        /\ at.pc \notin InRun \cup Helping \cup {"touching"}
  BY EarlyOps
<1>b. Early /\ job.platform = "linux" => Early' \/ (at.op = "ns-write" /\ at'.pc = "next")
  BY EarlyStep DEF Next
<1>c. at.ctx = "open" => at.pc \in {"open", "done"}
  BY DEF Planned
<1>d. job' = job
  BY KeepsJob DEF Next
<1>e. at' = at /\ Early => Early'
  BY DEF Early
<1>1. CASE Refused
  BY <1>1, <1>a, <1>b, <1>c, <1>d, <1>e DEF Refused, CanIdle, Guarded, NotIdle, Owned, Types,
      Places, Worlds
<1>2. CASE Setup
  BY <1>2, <1>a, <1>b, <1>c, <1>d, <1>e DEF Setup, Assertable, Failing, Latched, Latching, Types,
      Places, Worlds
<1>3. CASE Spawn
  BY <1>3, <1>a, <1>b, <1>c, <1>d, <1>e DEF Spawn, Types, Places, Worlds
<1>4. CASE Own
  BY <1>4, <1>a, <1>b, <1>c, <1>d, <1>e DEF Own, Failing, Types, Places, Worlds
<1>5. CASE Reap
  BY <1>5, <1>a, <1>b, <1>c, <1>d, <1>e, ReapForm DEF SamePart, SameMachine, Failed, Types, Worlds, Sessions
<1>6. CASE LoopStops
  BY <1>6, <1>a, <1>b, <1>c, <1>d, <1>e, StopsForm DEF SamePart, SameMachine, Failed, Types, Worlds, Sessions
<1>7. CASE LoopKills
  BY <1>7, <1>a, <1>b, <1>c, <1>d, <1>e DEF LoopKills, Types, Places, Worlds
<1>8. CASE ReadsEof
  BY <1>8, <1>a, <1>b, <1>c, <1>d, <1>e DEF ReadsEof, Types, Places, Worlds
<1>9. CASE LoopSweeps
  BY <1>9, <1>a, <1>b, <1>c, <1>d, <1>e, LoopSweepsForm DEF SamePart, SameMachine, Failed, Types, Worlds, Sessions
<1>10. CASE LoopEnds
  BY <1>10, <1>a, <1>b, <1>c, <1>d, <1>e DEF LoopEnds, Types, Places, Worlds
<1>11. CASE RunStop
  BY <1>11, <1>a, <1>b, <1>c, <1>d, <1>e DEF RunStop, Types, Places, Worlds
<1>12. CASE RunWait
  BY <1>12, <1>a, <1>b, <1>c, <1>d, <1>e, WaitForm DEF SamePart, SameMachine, Types, Worlds
<1>13. CASE RunDispose
  BY <1>13, <1>a, <1>b, <1>c, <1>d, <1>e, DisposeForm DEF SamePart, SameMachine, Failed, Types, Worlds, Sessions
<1>14. CASE RunSettle
  BY <1>14, <1>a, <1>b, <1>c, <1>d, <1>e DEF RunSettle, Final, Types, Places, Worlds
<1>15. CASE RunEnd
  BY <1>15, <1>a, <1>b, <1>c, <1>d, <1>e DEF RunEnd, Failing, Latching, Types, Places, Worlds
<1>16. CASE Judge
  BY <1>16, <1>a, <1>b, <1>c, <1>d, <1>e DEF Judge, BecomeIdle, CanIdle, Guarded, Judged, NoRun,
      NotIdle, Owned, RunOk, Types, Places, Worlds
<1>17. CASE Touch
  BY <1>17, <1>a, <1>b, <1>c, <1>d, <1>e DEF Touch, BecomeIdle, CanIdle, Guarded, Owned, Types,
      Places, Worlds
<1>18. CASE Touched
  BY <1>18, <1>a, <1>b, <1>c, <1>d, <1>e DEF Touched, CouldWrite, Types, Places, Worlds
<1>19. CASE EnsureIdle
  BY <1>19, <1>a, <1>b, <1>c, <1>d, <1>e DEF EnsureIdle, BecomeIdle, CanIdle, Guarded, Owned,
      Types, Places, Worlds
<1>20. CASE Provider
  BY <1>20, <1>a, <1>b, <1>c, <1>d, <1>e DEF Provider, BecomeIdle, CanIdle, Guarded, Owned, Types,
      Places, Worlds
<1>21. CASE Sentinel
  BY <1>21, <1>a, <1>b, <1>c, <1>d, <1>e DEF Sentinel, BecomeIdle, CanIdle, Guarded, Owned, Types,
      Places, Worlds
<1>22. CASE Small
  BY <1>22, <1>a, <1>b, <1>c, <1>d, <1>e, SmallForm DEF SamePart, SameProcesses, SameMachine, Grows, Planned
<1>23. CASE SmallReturns
  BY <1>23, <1>a, <1>b, <1>c, <1>d, <1>e DEF SmallReturns, Types, Places, Worlds
<1>24. CASE SmallRaises
  BY <1>24, <1>a, <1>b, <1>c, <1>d, <1>e DEF SmallRaises, Types, Places, Worlds
<1>25. CASE Lost
  BY <1>25, <1>a, <1>b, <1>c, <1>d, <1>e DEF Lost, Types, Places, Worlds
<1>26. CASE NsOpen
  BY <1>26, <1>a, <1>b, <1>c, <1>d, <1>e, NsOpenForm DEF SamePart, SameProcesses, SameMachine, Grows, Planned
<1>27. CASE NsWrite
  BY <1>27, <1>a, <1>b, <1>c, <1>d, <1>e DEF NsWrite, NsRaises, Types, Places, Worlds
<1>28. CASE NsVerify
  BY <1>28, <1>a, <1>b, <1>c, <1>d, <1>e DEF NsVerify, NsRaises, Types, Places, Worlds
<1>29. CASE HomePin
  BY <1>29, <1>a, <1>b, <1>c, <1>d, <1>e DEF HomePin, BecomeIdle, CanIdle, Guarded, Owned, Types,
      Places, Worlds
<1>30. CASE MakeNode
  BY <1>30, <1>a, <1>b, <1>c, <1>d, <1>e, NodeForm DEF SamePart, SameProcesses, SameMachine, Grows, Planned
<1>31. CASE CloseBegin
  BY <1>31, <1>a, <1>b, <1>c, <1>d, <1>e, BeginForm DEF SamePart, SameProcesses, SameMachine, Grows, Planned
<1>32. CASE CloseCensus
  BY <1>32, <1>a, <1>b, <1>c, <1>d, <1>e, CensusForm DEF SamePart, SameProcesses, SameMachine, Grows, Planned
<1>33. CASE CloseNs
  BY <1>33, <1>a, <1>b, <1>c, <1>d, <1>e, NsForm DEF SamePart, SameProcesses, Finality, Owned, Types, Worlds
<1>34. CASE CloseHome
  BY <1>34, <1>a, <1>b, <1>c, <1>d, <1>e, HomeStepForm DEF SamePart, SameProcesses, SameMachine, Grows, Planned
<1> QED BY <1>1, <1>2, <1>3, <1>4, <1>5, <1>6, <1>7, <1>8, <1>9, <1>10, <1>11, <1>12, <1>13, <1>14,
      <1>15, <1>16, <1>17, <1>18, <1>19, <1>20, <1>21, <1>22, <1>23, <1>24, <1>25, <1>26, <1>27,
      <1>28, <1>29, <1>30, <1>31, <1>32, <1>33, <1>34 DEF Controller

\* The fence: the native phases and the checked files.
LEMMA FencedNative ==
  ASSUME Types, Planned, OpsHere, Quiet, Fenced, Native
  PROVE  Fenced'
<1> USE DEF Goto, Raise, Doing, Failed, Charge, Free, Working, Helping, InRun, Beaten, Closing,
    Ending, Quiet, Fenced, Domain, GateOps, Nodes, Native, nativeVars
<1>a. Early /\ job.platform = "linux" =>
        /\ at.ctx = "open" \/ at.op \in {"check", "ns-open", "ns-write"}
        /\ at.pc \notin InRun \cup Helping \cup {"touching"}
  BY EarlyOps
<1>b. Early /\ job.platform = "linux" => Early' \/ (at.op = "ns-write" /\ at'.pc = "next")
  BY EarlyStep DEF Next
<1>c. at.ctx = "open" => at.pc \in {"open", "done"}
  BY DEF Planned
<1>d. job' = job
  BY KeepsJob DEF Next
<1>e. at' = at /\ Early => Early'
  BY DEF Early
<1>1. CASE OrdinaryCapture
  BY <1>1, <1>a, <1>b, <1>c, <1>d, <1>e DEF OrdinaryCapture, Begin, CanIdle, Capture, Guarded,
      NoRun, Owned, Phases, Types, Places, Worlds
<1>2. CASE Prepare
  BY <1>2, <1>a, <1>b, <1>c, <1>d, <1>e DEF Prepare, BecomeIdle, CanIdle, Guarded, Owned, Phase,
      Types, Places, Worlds
<1>3. CASE Control
  BY <1>3, <1>a, <1>b, <1>c, <1>d, <1>e DEF Control, Begin, CanIdle, Guarded, Holding, NoRun,
      Owned, Phase, Types, Places, Worlds
<1>4. CASE SignalControl
  BY <1>4, <1>a, <1>b, <1>c, <1>d, <1>e DEF SignalControl, CanIdle, Guarded, Owned, Types, Places,
      Worlds
<1>5. CASE Prepared
  BY <1>5, <1>a, <1>b, <1>c, <1>d, <1>e DEF Prepared, BecomeIdle, CanIdle, Guarded, Owned, Phase,
      Types, Places, Worlds
<1>6. CASE NativeCapture
  BY <1>6, <1>a, <1>b, <1>c, <1>d, <1>e DEF NativeCapture, Begin, CanIdle, Guarded, Holding,
      NoRun, Owned, Phase, Types, Places, Worlds
<1>7. CASE NativeFinish
  BY <1>7, <1>a, <1>b, <1>c, <1>d, <1>e DEF NativeFinish, BecomeIdle, CanIdle, Guarded, NoRun,
      Owned, Phase, RunOk, Unfinished, Types, Places, Worlds
<1>8. CASE PhaseRaised
  BY <1>8, <1>a, <1>b, <1>c, <1>d, <1>e DEF PhaseRaised, Holding, Phase, Unresolved, Types,
      Places, Worlds
<1>9. CASE CreateFiles
  BY <1>9, <1>a, <1>b, <1>c, <1>d, <1>e DEF CreateFiles, BecomeIdle, CanIdle, Guarded, Owned,
      Phase, Types, Places, Worlds
<1>10. CASE ReuseFiles
  BY <1>10, <1>a, <1>b, <1>c, <1>d, <1>e DEF ReuseFiles, BecomeIdle, CanIdle, Guarded, Owned,
      Phase, Phases, Types, Places, Worlds
<1>11. CASE VerifyFiles
  BY <1>11, <1>a, <1>b, <1>c, <1>d, <1>e DEF VerifyFiles, Guarded, Originals, Owned, Phase, Types,
      Places, Worlds
<1>12. CASE CloseNative
  BY <1>12, <1>a, <1>b, <1>c, <1>d, <1>e, NativeForm DEF SamePart, SameProcesses, SameMachine, Grows, Planned
<1>13. CASE CloseFiles
  BY <1>13, <1>a, <1>b, <1>c, <1>d, <1>e, FilesForm DEF SamePart, SameProcesses, SameMachine, Grows, Planned
<1> QED BY <1>1, <1>2, <1>3, <1>4, <1>5, <1>6, <1>7, <1>8, <1>9, <1>10, <1>11, <1>12, <1>13 DEF
      NativeController

\* The fence: the controller.
LEMMA FencedMain ==
  ASSUME Types, Planned, OpsHere, Quiet, Fenced, Main
  PROVE  Fenced'
<1> USE DEF Goto, Raise, Doing, Failed, Charge, Free, Working, Helping, InRun, Beaten, Closing,
    Ending, Quiet, Fenced, Domain, GateOps, Nodes, nativeVars
<1>a. Early /\ job.platform = "linux" =>
        /\ at.ctx = "open" \/ at.op \in {"check", "ns-open", "ns-write"}
        /\ at.pc \notin InRun \cup Helping \cup {"touching"}
  BY EarlyOps
<1>b. Early /\ job.platform = "linux" => Early' \/ (at.op = "ns-write" /\ at'.pc = "next")
  BY EarlyStep DEF Next
<1>c. at.ctx = "open" => at.pc \in {"open", "done"}
  BY DEF Planned
<1>d. job' = job
  BY KeepsJob DEF Next
<1>e. at' = at /\ Early => Early'
  BY DEF Early
<1>1. CASE OpenSession
  BY <1>1, <1>a, <1>b, <1>c, <1>d, <1>e DEF OpenSession, Begins, Types, Places, Worlds
<1>2. CASE OpenFails
  BY <1>2, <1>a, <1>b, <1>c, <1>d, <1>e DEF OpenFails, Types, Places, Worlds
<1>3. CASE Check
  BY <1>3, <1>a, <1>b, <1>c, <1>d, <1>e DEF Check, Types, Places, Worlds
<1>4. CASE Advance
  BY <1>4, <1>a, <1>b, <1>c, <1>d, <1>e DEF Advance, Planned, Types, Places, Worlds
<1>5. CASE InputsDone
  BY <1>5, <1>a, <1>b, <1>c, <1>d, <1>e, InputsForm DEF SamePart, SameProcesses, SameMachine, Grows, Planned
<1>6. CASE Admitted
  BY <1>6, <1>a, <1>b, <1>c, <1>d, <1>e, AdmittedForm, LastIdle DEF Grows
<1>7. CASE ToolsDone
  BY <1>7, <1>a, <1>b, <1>c, <1>d, <1>e, ToolsForm DEF SamePart, SameProcesses, SameMachine, Grows, Planned
<1>8. CASE GatePass
  BY <1>8, <1>a, <1>b, <1>c, <1>d, <1>e, GateForm DEF SamePart, SameProcesses, SameMachine, Grows, Planned
<1>9. CASE Proof
  BY <1>9, <1>a, <1>b, <1>c, <1>d, <1>e DEF Proof, Types, Places, Worlds
<1>10. CASE AllRemoved
  BY <1>10, <1>a, <1>b, <1>c, <1>d, <1>e DEF AllRemoved, Ended, Types, Places, Worlds
<1>11. CASE Raised
  BY <1>11, <1>a, <1>b, <1>c, <1>d, <1>e DEF Raised, Holding, Phase, Unresolved, Types, Places,
      Worlds
<1>12. CASE Caught
  BY <1>12, <1>a, <1>b, <1>c, <1>d, <1>e DEF Caught, Types, Places, Worlds
<1>13. CASE Escaped
  BY <1>13, <1>a, <1>b, <1>c, <1>d, <1>e DEF Escaped, Types, Places, Worlds
<1>14. CASE Publish
  BY <1>14, <1>a, <1>b, <1>c, <1>d, <1>e DEF Publish, Verdict, Types, Places, Worlds
<1>15. CASE Finish
  BY <1>15, <1>a, <1>b, <1>c, <1>d, <1>e DEF Finish, Exit, Types, Places, Worlds
<1> QED BY <1>1, <1>2, <1>3, <1>4, <1>5, <1>6, <1>7, <1>8, <1>9, <1>10, <1>11, <1>12, <1>13, <1>14,
      <1>15 DEF Main

\* The fence: the machine.
LEMMA FencedOthers ==
  ASSUME Types, Planned, OpsHere, Quiet, Fenced, Others
  PROVE  Fenced'
<1> USE DEF Goto, Raise, Doing, Failed, Charge, Free, Working, Helping, InRun, Beaten, Closing,
    Ending, Quiet, Fenced, Domain, GateOps, Nodes, Apart, nativeVars
<1>a. Early /\ job.platform = "linux" =>
        /\ at.ctx = "open" \/ at.op \in {"check", "ns-open", "ns-write"}
        /\ at.pc \notin InRun \cup Helping \cup {"touching"}
  BY EarlyOps
<1>b. Early /\ job.platform = "linux" => Early' \/ (at.op = "ns-write" /\ at'.pc = "next")
  BY EarlyStep DEF Next
<1>c. at.ctx = "open" => at.pc \in {"open", "done"}
  BY DEF Planned
<1>d. job' = job
  BY KeepsJob DEF Next
<1>e. at' = at /\ Early => Early'
  BY DEF Early
<1>1. CASE SubjectEnds /\ Apart
  BY <1>1, <1>a, <1>b, <1>c, <1>d, <1>e DEF SubjectEnds, Types, Places, Worlds
<1>2. CASE SubjectForks /\ Apart
  BY <1>2, <1>a, <1>b, <1>c, <1>d, <1>e DEF SubjectForks, Types, Places, Worlds
<1>3. CASE NamespaceEnds /\ Apart
  BY <1>3, <1>a, <1>b, <1>c, <1>d, <1>e DEF NamespaceEnds, Types, Places, Worlds
<1>4. CASE KinEnds /\ Apart
  BY <1>4, <1>a, <1>b, <1>c, <1>d, <1>e DEF KinEnds, Types, Places, Worlds
<1>5. CASE OwnerLaunches /\ Apart
  BY <1>5, <1>a, <1>b, <1>c, <1>d, <1>e DEF OwnerLaunches, Types, Places, Worlds
<1>6. CASE HelperEnds /\ Apart
  BY <1>6, <1>a, <1>b, <1>c, <1>d, <1>e DEF HelperEnds, Types, Places, Worlds
<1>7. CASE RunClock /\ Apart
  BY <1>7, <1>a, <1>b, <1>c, <1>d, <1>e DEF RunClock, Types, Places, Worlds
<1>8. CASE RunRaises /\ Apart
  BY <1>8, <1>a, <1>b, <1>c, <1>d, <1>e DEF RunRaises, Failing, Latched, Latching, Types, Places,
      Worlds
<1>9. CASE Late /\ Apart
  BY <1>9, <1>a, <1>b, <1>c, <1>d, <1>e DEF Late, Opened, Types, Places, Worlds
<1>10. CASE Cancel /\ Apart
  BY <1>10, <1>a, <1>b, <1>c, <1>d, <1>e DEF Cancel, Opened, Types, Places, Worlds
<1>11. CASE Drift /\ Apart
  BY <1>11, <1>a, <1>b, <1>c, <1>d, <1>e DEF Drift, Looks, Opened, Types, Places, Worlds
<1>12. CASE Alarm /\ Apart
  BY <1>12, <1>a, <1>b, <1>c, <1>d, <1>e, AlarmForm DEF SamePart, SameProcesses, SameMachine, Grows, Planned
<1>13. CASE SubjectMeddles /\ UNCHANGED out
  BY <1>13, <1>a, <1>b, <1>c, <1>d, <1>e DEF SubjectMeddles, Types, Places, Worlds
<1> QED BY <1>1, <1>2, <1>3, <1>4, <1>5, <1>6, <1>7, <1>8, <1>9, <1>10, <1>11, <1>12, <1>13 DEF Others,
      Machine

LEMMA FencedStep ==
  ASSUME Types, Planned, OpsHere, Quiet, Fenced, [Next]_vars
  PROVE  Fenced'
<1>a. Early /\ job.platform = "linux" =>
        /\ at.ctx = "open" \/ at.op \in {"check", "ns-open", "ns-write"}
        /\ at.pc \notin InRun \cup Helping \cup {"touching"}
  BY EarlyOps
<1>b. Early /\ job.platform = "linux" => Early' \/ (at.op = "ns-write" /\ at'.pc = "next")
  BY EarlyStep DEF Next
<1>c. at.ctx = "open" => at.pc \in {"open", "done"}
  BY DEF Planned
<1>d. job' = job
  BY KeepsJob DEF Next
<1>e. at' = at /\ Early => Early'
  BY DEF Early
<1>1. CASE UNCHANGED vars
  BY <1>1, <1>a, <1>b, <1>c, <1>d, <1>e DEF Working, Helping, InRun, Beaten, Closing, Ending,
      Quiet, Fenced, Domain, GateOps, Nodes, Types, Places, Worlds, vars, sessionVars, nativeVars,
      Parts, AdmissionPlan
<1> QED BY <1>1, FencedSession, FencedNative, FencedMain, FencedOthers DEF Next, Terminated

-----------------------------------------------------------------------------
\* The records: the session.
LEMMA RecordedSession ==
  ASSUME Types, Planned, OpsHere, Recorded, Session
  PROVE  Recorded'
<1> USE DEF Goto, Raise, Doing, Failed, Charge, Free, Working, Helping, InRun, Beaten, Closing,
    Ending, Recorded, Bounded, Nodes, Session, nativeVars
<1>a. /\ job.platform \in {"linux", "darwin"} /\ at.part \in Nat
      /\ at.ctx = "admit" =>
           /\ at.part = 2 => at.op = IF job.platform = "linux" THEN "ns-open" ELSE "home-pin"
           /\ at.part = 1 => at.op = "check"
           /\ at.part >= 1
  BY AdmitOps
<1>b. at.ctx = "open" => at.pc \in {"open", "done"}
  BY DEF Planned
<1>c. at.pc \in InRun \cup Helping \cup {"touching"} => at.op \notin {"check", "ns-open", "home-pin"}
  BY DEF Planned, Captures, InRun, Helping
<1>d. at.pc = "do" =>
        /\ at.op \in Nodes => at.ctx = "admit" /\ job.platform = "darwin" /\ at.part >= 3
        /\ at.op = "ns-write" => at.ctx = "admit" /\ job.platform = "linux" /\ at.part >= 3
  BY BoundaryOps
<1>e. job' = job
  BY KeepsJob DEF Next
<1>1. CASE Refused
  BY <1>1, <1>a, <1>b, <1>c, <1>d, <1>e DEF Refused, CanIdle, Domain, Guarded, NotIdle, Owned,
      Types, Places, Worlds, Custodies, Limits, Homes
<1>2. CASE Setup
  BY <1>2, <1>a, <1>b, <1>c, <1>d, <1>e DEF Setup, Assertable, Failing, Latched, Latching, Types,
      Places, Worlds, Custodies, Limits, Homes
<1>3. CASE Spawn
  BY <1>3, <1>a, <1>b, <1>c, <1>d, <1>e DEF Spawn, Types, Places, Worlds, Custodies, Limits, Homes
<1>4. CASE Own
  BY <1>4, <1>a, <1>b, <1>c, <1>d, <1>e DEF Own, Failing, Types, Places, Worlds, Custodies,
      Limits, Homes
<1>5. CASE Reap
  BY <1>5, <1>a, <1>b, <1>c, <1>d, <1>e, ReapForm DEF SamePart, SameMachine, Failed, Types, Worlds, Sessions
<1>6. CASE LoopStops
  BY <1>6, <1>a, <1>b, <1>c, <1>d, <1>e, StopsForm DEF SamePart, SameMachine, Failed, Types, Worlds, Sessions
<1>7. CASE LoopKills
  BY <1>7, <1>a, <1>b, <1>c, <1>d, <1>e DEF LoopKills, Types, Places, Worlds, Custodies, Limits,
      Homes
<1>8. CASE ReadsEof
  BY <1>8, <1>a, <1>b, <1>c, <1>d, <1>e DEF ReadsEof, Types, Places, Worlds, Custodies, Limits,
      Homes
<1>9. CASE LoopSweeps
  BY <1>9, <1>a, <1>b, <1>c, <1>d, <1>e, LoopSweepsForm DEF SamePart, SameMachine, Failed, Types, Worlds, Sessions
<1>10. CASE LoopEnds
  BY <1>10, <1>a, <1>b, <1>c, <1>d, <1>e DEF LoopEnds, Types, Places, Worlds, Custodies, Limits,
      Homes
<1>11. CASE RunStop
  BY <1>11, <1>a, <1>b, <1>c, <1>d, <1>e DEF RunStop, Types, Places, Worlds, Custodies, Limits,
      Homes
<1>12. CASE RunWait
  BY <1>12, <1>a, <1>b, <1>c, <1>d, <1>e, WaitForm DEF SamePart, SameMachine, Types, Worlds
<1>13. CASE RunDispose
  BY <1>13, <1>a, <1>b, <1>c, <1>d, <1>e, DisposeForm DEF SamePart, SameMachine, Failed, Types, Worlds, Sessions
<1>14. CASE RunSettle
  BY <1>14, <1>a, <1>b, <1>c, <1>d, <1>e DEF RunSettle, Domain, Final, Types, Places, Worlds,
      Custodies, Limits, Homes
<1>15. CASE RunEnd
  BY <1>15, <1>a, <1>b, <1>c, <1>d, <1>e DEF RunEnd, Failing, Latching, Types, Places, Worlds,
      Custodies, Limits, Homes
<1>16. CASE Judge
  BY <1>16, <1>a, <1>b, <1>c, <1>d, <1>e DEF Judge, BecomeIdle, CanIdle, Domain, Guarded, Judged,
      NoRun, NotIdle, Owned, RunOk, Types, Places, Worlds, Custodies, Limits, Homes
<1>17. CASE Touch
  BY <1>17, <1>a, <1>b, <1>c, <1>d, <1>e DEF Touch, BecomeIdle, CanIdle, Domain, Guarded, Owned,
      Types, Places, Worlds, Custodies, Limits, Homes
<1>18. CASE Touched
  BY <1>18, <1>a, <1>b, <1>c, <1>d, <1>e DEF Touched, CouldWrite, Types, Places, Worlds,
      Custodies, Limits, Homes
<1>19. CASE EnsureIdle
  BY <1>19, <1>a, <1>b, <1>c, <1>d, <1>e DEF EnsureIdle, BecomeIdle, CanIdle, Domain, Guarded,
      Owned, Types, Places, Worlds, Custodies, Limits, Homes
<1>20. CASE Provider
  BY <1>20, <1>a, <1>b, <1>c, <1>d, <1>e DEF Provider, BecomeIdle, CanIdle, Domain, Guarded,
      Owned, Types, Places, Worlds, Custodies, Limits, Homes
<1>21. CASE Sentinel
  BY <1>21, <1>a, <1>b, <1>c, <1>d, <1>e DEF Sentinel, BecomeIdle, CanIdle, Domain, Guarded,
      Owned, Types, Places, Worlds, Custodies, Limits, Homes
<1>22. CASE Small
  BY <1>22, <1>a, <1>b, <1>c, <1>d, <1>e, SmallForm DEF SamePart, SameProcesses, SameMachine, Grows, Planned
<1>23. CASE SmallReturns
  BY <1>23, <1>a, <1>b, <1>c, <1>d, <1>e DEF SmallReturns, Types, Places, Worlds, Custodies,
      Limits, Homes
<1>24. CASE SmallRaises
  BY <1>24, <1>a, <1>b, <1>c, <1>d, <1>e DEF SmallRaises, Types, Places, Worlds, Custodies,
      Limits, Homes
<1>25. CASE Lost
  BY <1>25, <1>a, <1>b, <1>c, <1>d, <1>e DEF Lost, Domain, Types, Places, Worlds, Custodies,
      Limits, Homes
<1>26. CASE NsOpen
  BY <1>26, <1>a, <1>b, <1>c, <1>d, <1>e, NsOpenForm DEF SamePart, SameProcesses, SameMachine, Grows, Planned
<1>27. CASE NsWrite
  BY <1>27, <1>a, <1>b, <1>c, <1>d, <1>e, WriteForm DEF SamePart
<1>28. CASE NsVerify
  BY <1>28, <1>a, <1>b, <1>c, <1>d, <1>e DEF NsVerify, NsRaises, Types, Places, Worlds, Custodies,
      Limits, Homes
<1>29. CASE HomePin
  BY <1>29, <1>a, <1>b, <1>c, <1>d, <1>e, PinForm DEF SamePart
<1>30. CASE MakeNode
  BY <1>30, <1>a, <1>b, <1>c, <1>d, <1>e, NodeForm DEF SamePart
<1>31. CASE CloseBegin
  BY <1>31, <1>a, <1>b, <1>c, <1>d, <1>e, BeginForm DEF SamePart, SameProcesses, SameMachine, Grows, Planned
<1>32. CASE CloseCensus
  BY <1>32, <1>a, <1>b, <1>c, <1>d, <1>e, CensusForm DEF SamePart, SameProcesses, SameMachine, Grows, Planned
<1>33. CASE CloseNs
  BY <1>33, <1>a, <1>b, <1>c, <1>d, <1>e, NsForm DEF SamePart, SameProcesses, SameMachine, Grows, Planned
<1>34. CASE CloseHome
  BY <1>34, <1>a, <1>b, <1>c, <1>d, <1>e, HomeStepForm DEF SamePart, SameProcesses, SameMachine, Grows, Planned
<1> QED BY <1>1, <1>2, <1>3, <1>4, <1>5, <1>6, <1>7, <1>8, <1>9, <1>10, <1>11, <1>12, <1>13, <1>14,
      <1>15, <1>16, <1>17, <1>18, <1>19, <1>20, <1>21, <1>22, <1>23, <1>24, <1>25, <1>26, <1>27,
      <1>28, <1>29, <1>30, <1>31, <1>32, <1>33, <1>34 DEF Controller

\* The records: the native phases and the checked files.
LEMMA RecordedNative ==
  ASSUME Types, Planned, OpsHere, Recorded, Native
  PROVE  Recorded'
<1> USE DEF Goto, Raise, Doing, Failed, Charge, Free, Working, Helping, InRun, Beaten, Closing,
    Ending, Recorded, Bounded, Nodes, Native, nativeVars
<1>a. /\ job.platform \in {"linux", "darwin"} /\ at.part \in Nat
      /\ at.ctx = "admit" =>
           /\ at.part = 2 => at.op = IF job.platform = "linux" THEN "ns-open" ELSE "home-pin"
           /\ at.part = 1 => at.op = "check"
           /\ at.part >= 1
  BY AdmitOps
<1>b. at.ctx = "open" => at.pc \in {"open", "done"}
  BY DEF Planned
<1>c. at.pc \in InRun \cup Helping \cup {"touching"} => at.op \notin {"check", "ns-open", "home-pin"}
  BY DEF Planned, Captures, InRun, Helping
<1>d. at.pc = "do" =>
        /\ at.op \in Nodes => at.ctx = "admit" /\ job.platform = "darwin" /\ at.part >= 3
        /\ at.op = "ns-write" => at.ctx = "admit" /\ job.platform = "linux" /\ at.part >= 3
  BY BoundaryOps
<1>e. job' = job
  BY KeepsJob DEF Next
<1>1. CASE OrdinaryCapture
  BY <1>1, <1>a, <1>b, <1>c, <1>d, <1>e DEF OrdinaryCapture, Begin, CanIdle, Capture, Domain,
      Guarded, NoRun, Owned, Phases, Types, Places, Worlds, Custodies, Limits, Homes
<1>2. CASE Prepare
  BY <1>2, <1>a, <1>b, <1>c, <1>d, <1>e DEF Prepare, BecomeIdle, CanIdle, Domain, Guarded, Owned,
      Phase, Types, Places, Worlds, Custodies, Limits, Homes
<1>3. CASE Control
  BY <1>3, <1>a, <1>b, <1>c, <1>d, <1>e DEF Control, Begin, CanIdle, Domain, Guarded, Holding,
      NoRun, Owned, Phase, Types, Places, Worlds, Custodies, Limits, Homes
<1>4. CASE SignalControl
  BY <1>4, <1>a, <1>b, <1>c, <1>d, <1>e DEF SignalControl, CanIdle, Domain, Guarded, Owned, Types,
      Places, Worlds, Custodies, Limits, Homes
<1>5. CASE Prepared
  BY <1>5, <1>a, <1>b, <1>c, <1>d, <1>e DEF Prepared, BecomeIdle, CanIdle, Domain, Guarded, Owned,
      Phase, Types, Places, Worlds, Custodies, Limits, Homes
<1>6. CASE NativeCapture
  BY <1>6, <1>a, <1>b, <1>c, <1>d, <1>e DEF NativeCapture, Begin, CanIdle, Domain, Guarded,
      Holding, NoRun, Owned, Phase, Types, Places, Worlds, Custodies, Limits, Homes
<1>7. CASE NativeFinish
  BY <1>7, <1>a, <1>b, <1>c, <1>d, <1>e DEF NativeFinish, BecomeIdle, CanIdle, Domain, Guarded,
      NoRun, Owned, Phase, RunOk, Unfinished, Types, Places, Worlds, Custodies, Limits, Homes
<1>8. CASE PhaseRaised
  BY <1>8, <1>a, <1>b, <1>c, <1>d, <1>e DEF PhaseRaised, Holding, Phase, Unresolved, Types,
      Places, Worlds, Custodies, Limits, Homes
<1>9. CASE CreateFiles
  BY <1>9, <1>a, <1>b, <1>c, <1>d, <1>e DEF CreateFiles, BecomeIdle, CanIdle, Domain, Guarded,
      Owned, Phase, Types, Places, Worlds, Custodies, Limits, Homes
<1>10. CASE ReuseFiles
  BY <1>10, <1>a, <1>b, <1>c, <1>d, <1>e DEF ReuseFiles, BecomeIdle, CanIdle, Domain, Guarded,
      Owned, Phase, Phases, Types, Places, Worlds, Custodies, Limits, Homes
<1>11. CASE VerifyFiles
  BY <1>11, <1>a, <1>b, <1>c, <1>d, <1>e DEF VerifyFiles, Guarded, Originals, Owned, Phase, Types,
      Places, Worlds, Custodies, Limits, Homes
<1>12. CASE CloseNative
  BY <1>12, <1>a, <1>b, <1>c, <1>d, <1>e, NativeForm DEF SamePart, SameProcesses, SameMachine, Grows, Planned
<1>13. CASE CloseFiles
  BY <1>13, <1>a, <1>b, <1>c, <1>d, <1>e, FilesForm DEF SamePart, SameProcesses, SameMachine, Grows, Planned
<1> QED BY <1>1, <1>2, <1>3, <1>4, <1>5, <1>6, <1>7, <1>8, <1>9, <1>10, <1>11, <1>12, <1>13 DEF
      NativeController

\* The records: the controller.
LEMMA RecordedMain ==
  ASSUME Types, Planned, OpsHere, Recorded, Main
  PROVE  Recorded'
<1> USE DEF Goto, Raise, Doing, Failed, Charge, Free, Working, Helping, InRun, Beaten, Closing,
    Ending, Recorded, Bounded, Nodes, nativeVars
<1>a. /\ job.platform \in {"linux", "darwin"} /\ at.part \in Nat
      /\ at.ctx = "admit" =>
           /\ at.part = 2 => at.op = IF job.platform = "linux" THEN "ns-open" ELSE "home-pin"
           /\ at.part = 1 => at.op = "check"
           /\ at.part >= 1
  BY AdmitOps
<1>b. at.ctx = "open" => at.pc \in {"open", "done"}
  BY DEF Planned
<1>c. at.pc \in InRun \cup Helping \cup {"touching"} => at.op \notin {"check", "ns-open", "home-pin"}
  BY DEF Planned, Captures, InRun, Helping
<1>d. at.pc = "do" =>
        /\ at.op \in Nodes => at.ctx = "admit" /\ job.platform = "darwin" /\ at.part >= 3
        /\ at.op = "ns-write" => at.ctx = "admit" /\ job.platform = "linux" /\ at.part >= 3
  BY BoundaryOps
<1>e. job' = job
  BY KeepsJob DEF Next
<1>1. CASE OpenSession
  BY <1>1, <1>a, <1>b, <1>c, <1>d, <1>e DEF OpenSession, Begins, Types, Places, Worlds, Custodies,
      Limits, Homes
<1>2. CASE OpenFails
  BY <1>2, <1>a, <1>b, <1>c, <1>d, <1>e DEF OpenFails, Types, Places, Worlds, Custodies, Limits,
      Homes
<1>3. CASE Check
  BY <1>3, <1>a, <1>b, <1>c, <1>d, <1>e DEF Check, Types, Places, Worlds, Custodies, Limits, Homes
<1>4. CASE Advance
  BY <1>4, <1>a, <1>b, <1>c, <1>d, <1>e DEF Advance, Planned, Types, Places, Worlds, Custodies,
      Limits, Homes
<1>5. CASE InputsDone
  BY <1>5, <1>a, <1>b, <1>c, <1>d, <1>e, InputsForm DEF SamePart, SameProcesses, SameMachine, Grows, Planned
<1>6. CASE Admitted
  BY <1>6, <1>a, <1>b, <1>c, <1>d, <1>e, AdmittedForm, LastIdle DEF Grows
<1>7. CASE ToolsDone
  BY <1>7, <1>a, <1>b, <1>c, <1>d, <1>e, ToolsForm DEF SamePart, SameProcesses, SameMachine, Grows, Planned
<1>8. CASE GatePass
  BY <1>8, <1>a, <1>b, <1>c, <1>d, <1>e, GateForm DEF SamePart, SameProcesses, SameMachine, Grows, Planned
<1>9. CASE Proof
  BY <1>9, <1>a, <1>b, <1>c, <1>d, <1>e DEF Proof, Types, Places, Worlds, Custodies, Limits, Homes
<1>10. CASE AllRemoved
  BY <1>10, <1>a, <1>b, <1>c, <1>d, <1>e DEF AllRemoved, Ended, Types, Places, Worlds, Custodies,
      Limits, Homes
<1>11. CASE Raised
  BY <1>11, <1>a, <1>b, <1>c, <1>d, <1>e DEF Raised, Holding, Phase, Unresolved, Types, Places,
      Worlds, Custodies, Limits, Homes
<1>12. CASE Caught
  BY <1>12, <1>a, <1>b, <1>c, <1>d, <1>e DEF Caught, Types, Places, Worlds, Custodies, Limits,
      Homes
<1>13. CASE Escaped
  BY <1>13, <1>a, <1>b, <1>c, <1>d, <1>e DEF Escaped, Types, Places, Worlds, Custodies, Limits,
      Homes
<1>14. CASE Publish
  BY <1>14, <1>a, <1>b, <1>c, <1>d, <1>e DEF Publish, Verdict, Types, Places, Worlds, Custodies,
      Limits, Homes
<1>15. CASE Finish
  BY <1>15, <1>a, <1>b, <1>c, <1>d, <1>e DEF Finish, Exit, Types, Places, Worlds, Custodies,
      Limits, Homes
<1> QED BY <1>1, <1>2, <1>3, <1>4, <1>5, <1>6, <1>7, <1>8, <1>9, <1>10, <1>11, <1>12, <1>13, <1>14,
      <1>15 DEF Main

\* The records: the machine.
LEMMA RecordedOthers ==
  ASSUME Types, Planned, OpsHere, Recorded, Others
  PROVE  Recorded'
<1> USE DEF Goto, Raise, Doing, Failed, Charge, Free, Working, Helping, InRun, Beaten, Closing,
    Ending, Recorded, Bounded, Nodes, Apart, nativeVars
<1>a. /\ job.platform \in {"linux", "darwin"} /\ at.part \in Nat
      /\ at.ctx = "admit" =>
           /\ at.part = 2 => at.op = IF job.platform = "linux" THEN "ns-open" ELSE "home-pin"
           /\ at.part = 1 => at.op = "check"
           /\ at.part >= 1
  BY AdmitOps
<1>b. at.ctx = "open" => at.pc \in {"open", "done"}
  BY DEF Planned
<1>c. at.pc \in InRun \cup Helping \cup {"touching"} => at.op \notin {"check", "ns-open", "home-pin"}
  BY DEF Planned, Captures, InRun, Helping
<1>d. at.pc = "do" =>
        /\ at.op \in Nodes => at.ctx = "admit" /\ job.platform = "darwin" /\ at.part >= 3
        /\ at.op = "ns-write" => at.ctx = "admit" /\ job.platform = "linux" /\ at.part >= 3
  BY BoundaryOps
<1>e. job' = job
  BY KeepsJob DEF Next
<1>1. CASE SubjectEnds /\ Apart
  BY <1>1, <1>a, <1>b, <1>c, <1>d, <1>e DEF SubjectEnds, Types, Places, Worlds, Custodies, Limits,
      Homes
<1>2. CASE SubjectForks /\ Apart
  BY <1>2, <1>a, <1>b, <1>c, <1>d, <1>e DEF SubjectForks, Types, Places, Worlds, Custodies,
      Limits, Homes
<1>3. CASE NamespaceEnds /\ Apart
  BY <1>3, <1>a, <1>b, <1>c, <1>d, <1>e DEF NamespaceEnds, Types, Places, Worlds, Custodies,
      Limits, Homes
<1>4. CASE KinEnds /\ Apart
  BY <1>4, <1>a, <1>b, <1>c, <1>d, <1>e DEF KinEnds, Types, Places, Worlds, Custodies, Limits,
      Homes
<1>5. CASE OwnerLaunches /\ Apart
  BY <1>5, <1>a, <1>b, <1>c, <1>d, <1>e DEF OwnerLaunches, Types, Places, Worlds, Custodies,
      Limits, Homes
<1>6. CASE HelperEnds /\ Apart
  BY <1>6, <1>a, <1>b, <1>c, <1>d, <1>e DEF HelperEnds, Types, Places, Worlds, Custodies, Limits,
      Homes
<1>7. CASE RunClock /\ Apart
  BY <1>7, <1>a, <1>b, <1>c, <1>d, <1>e DEF RunClock, Types, Places, Worlds, Custodies, Limits,
      Homes
<1>8. CASE RunRaises /\ Apart
  BY <1>8, <1>a, <1>b, <1>c, <1>d, <1>e DEF RunRaises, Failing, Latched, Latching, Types, Places,
      Worlds, Custodies, Limits, Homes
<1>9. CASE Late /\ Apart
  BY <1>9, <1>a, <1>b, <1>c, <1>d, <1>e DEF Late, Opened, Types, Places, Worlds, Custodies,
      Limits, Homes
<1>10. CASE Cancel /\ Apart
  BY <1>10, <1>a, <1>b, <1>c, <1>d, <1>e DEF Cancel, Opened, Types, Places, Worlds, Custodies,
      Limits, Homes
<1>11. CASE Drift /\ Apart
  BY <1>11, <1>a, <1>b, <1>c, <1>d, <1>e DEF Drift, Looks, Opened, Types, Places, Worlds,
      Custodies, Limits, Homes
<1>12. CASE Alarm /\ Apart
  BY <1>12, <1>a, <1>b, <1>c, <1>d, <1>e, AlarmForm DEF SamePart, SameProcesses, SameMachine, Grows, Planned
<1>13. CASE SubjectMeddles /\ UNCHANGED out
  BY <1>13, <1>a, <1>b, <1>c, <1>d, <1>e DEF SubjectMeddles, Types, Places, Worlds, Custodies,
      Limits, Homes
<1> QED BY <1>1, <1>2, <1>3, <1>4, <1>5, <1>6, <1>7, <1>8, <1>9, <1>10, <1>11, <1>12, <1>13 DEF Others,
      Machine

LEMMA RecordedStep ==
  ASSUME Types, Planned, OpsHere, Recorded, [Next]_vars
  PROVE  Recorded'
<1>a. /\ job.platform \in {"linux", "darwin"} /\ at.part \in Nat
      /\ at.ctx = "admit" =>
           /\ at.part = 2 => at.op = IF job.platform = "linux" THEN "ns-open" ELSE "home-pin"
           /\ at.part = 1 => at.op = "check"
           /\ at.part >= 1
  BY AdmitOps
<1>b. at.ctx = "open" => at.pc \in {"open", "done"}
  BY DEF Planned
<1>c. at.pc \in InRun \cup Helping \cup {"touching"} => at.op \notin {"check", "ns-open", "home-pin"}
  BY DEF Planned, Captures, InRun, Helping
<1>d. at.pc = "do" =>
        /\ at.op \in Nodes => at.ctx = "admit" /\ job.platform = "darwin" /\ at.part >= 3
        /\ at.op = "ns-write" => at.ctx = "admit" /\ job.platform = "linux" /\ at.part >= 3
  BY BoundaryOps
<1>e. job' = job
  BY KeepsJob DEF Next
<1>1. CASE UNCHANGED vars
  BY <1>1, <1>a, <1>b, <1>c, <1>d, <1>e DEF Working, Helping, InRun, Beaten, Closing, Ending,
      Recorded, Bounded, Nodes, Types, Places, Worlds, Custodies, Limits, Homes, vars,
      sessionVars, nativeVars, Parts, AdmissionPlan
<1> QED BY <1>1, RecordedSession, RecordedNative, RecordedMain, RecordedOthers DEF Next, Terminated

-----------------------------------------------------------------------------
\* What a session without a failure has undone: the session.
LEMMA UndoneSession ==
  ASSUME Types, Planned, OpsHere, Opening, Recorded, Undone, Session
  PROVE  Undone'
<1> USE DEF Goto, Raise, Doing, Failed, Charge, Free, Working, Helping, InRun, Beaten, Closing,
    Ending, Undone, Session, nativeVars
<1>a. at.ctx = "open" => at.pc \in {"open", "done"}
  BY DEF Planned
<1>1. CASE Refused
  BY <1>1, <1>a DEF Refused, CanIdle, Domain, Guarded, NotIdle, Owned, Types, Places, Sessions,
      Files
<1>2. CASE Setup
  BY <1>2, <1>a DEF Setup, Assertable, Failing, Latched, Latching, Types, Places, Sessions, Files
<1>3. CASE Spawn
  BY <1>3, <1>a DEF Spawn, Types, Places, Sessions, Files
<1>4. CASE Own
  BY <1>4, <1>a DEF Own, Failing, Types, Places, Sessions, Files
<1>5. CASE Reap
  BY <1>5, <1>a, ReapForm DEF SamePart, SameMachine, Failed, Types, Worlds, Sessions
<1>6. CASE LoopStops
  BY <1>6, <1>a, StopsForm DEF SamePart, SameMachine, Failed, Types, Worlds, Sessions
<1>7. CASE LoopKills
  BY <1>7, <1>a DEF LoopKills, Types, Places, Sessions, Files
<1>8. CASE ReadsEof
  BY <1>8, <1>a DEF ReadsEof, Types, Places, Sessions, Files
<1>9. CASE LoopSweeps
  BY <1>9, <1>a, LoopSweepsForm DEF SamePart, SameMachine, Failed, Types, Worlds, Sessions
<1>10. CASE LoopEnds
  BY <1>10, <1>a DEF LoopEnds, Types, Places, Sessions, Files
<1>11. CASE RunStop
  BY <1>11, <1>a DEF RunStop, Types, Places, Sessions, Files
<1>12. CASE RunWait
  BY <1>12, <1>a, WaitForm DEF SamePart, SameMachine, Types, Worlds
<1>13. CASE RunDispose
  BY <1>13, <1>a, DisposeForm DEF SamePart, SameMachine, Failed, Types, Worlds, Sessions
<1>14. CASE RunSettle
  BY <1>14, <1>a DEF RunSettle, Domain, Final, Types, Places, Sessions, Files
<1>15. CASE RunEnd
  BY <1>15, <1>a DEF RunEnd, Failing, Latching, Types, Places, Sessions, Files
<1>16. CASE Judge
  BY <1>16, <1>a DEF Judge, BecomeIdle, CanIdle, Domain, Guarded, Judged, NoRun, NotIdle, Owned,
      RunOk, Types, Places, Sessions, Files
<1>17. CASE Touch
  BY <1>17, <1>a DEF Touch, BecomeIdle, CanIdle, Domain, Guarded, Owned, Types, Places, Sessions,
      Files
<1>18. CASE Touched
  BY <1>18, <1>a DEF Touched, CouldWrite, Types, Places, Sessions, Files
<1>19. CASE EnsureIdle
  BY <1>19, <1>a DEF EnsureIdle, BecomeIdle, CanIdle, Domain, Guarded, Owned, Types, Places,
      Sessions, Files
<1>20. CASE Provider
  BY <1>20, <1>a DEF Provider, BecomeIdle, CanIdle, Domain, Guarded, Owned, Types, Places,
      Sessions, Files
<1>21. CASE Sentinel
  BY <1>21, <1>a DEF Sentinel, BecomeIdle, CanIdle, Domain, Guarded, Owned, Types, Places,
      Sessions, Files
<1>22. CASE Small
  BY <1>22, <1>a, SmallForm DEF SamePart, SameProcesses, SameMachine, Grows, Planned
<1>23. CASE SmallReturns
  BY <1>23, <1>a DEF SmallReturns, Types, Places, Sessions, Files
<1>24. CASE SmallRaises
  BY <1>24, <1>a DEF SmallRaises, Types, Places, Sessions, Files
<1>25. CASE Lost
  BY <1>25, <1>a DEF Lost, Domain, Types, Places, Sessions, Files
<1>26. CASE NsOpen
  BY <1>26, <1>a, NsOpenForm DEF SamePart, SameProcesses, SameMachine, Grows, Planned
<1>27. CASE NsWrite
  BY <1>27, <1>a, WriteForm DEF SamePart, Grows
<1>28. CASE NsVerify
  BY <1>28, <1>a DEF NsVerify, NsRaises, Types, Places, Sessions, Files
<1>29. CASE HomePin
  BY <1>29, <1>a, PinForm DEF SamePart, Grows
<1>30. CASE MakeNode
  BY <1>30, <1>a, NodeForm DEF SamePart, SameProcesses, SameMachine, Grows, Planned
<1>31. CASE CloseBegin
  BY <1>31, <1>a, BeginForm DEF SamePart, SameProcesses, SameMachine, Grows, Planned
<1>32. CASE CloseCensus
  BY <1>32, <1>a, CensusForm DEF SamePart, SameProcesses, SameMachine, Grows, Planned
<1>33. CASE CloseNs
  BY <1>33, <1>a, NsForm DEF SamePart, Grows, SameProcesses, Recorded
<1>34. CASE CloseHome
  BY <1>34, <1>a, HomeStepForm DEF SamePart, Grows, SameProcesses, Recorded
<1> QED BY <1>1, <1>2, <1>3, <1>4, <1>5, <1>6, <1>7, <1>8, <1>9, <1>10, <1>11, <1>12, <1>13, <1>14,
      <1>15, <1>16, <1>17, <1>18, <1>19, <1>20, <1>21, <1>22, <1>23, <1>24, <1>25, <1>26, <1>27,
      <1>28, <1>29, <1>30, <1>31, <1>32, <1>33, <1>34 DEF Controller

\* What a session without a failure has undone: the native phases and the checked files.
LEMMA UndoneNative ==
  ASSUME Types, Planned, OpsHere, Opening, Recorded, Undone, Native
  PROVE  Undone'
<1> USE DEF Goto, Raise, Doing, Failed, Charge, Free, Working, Helping, InRun, Beaten, Closing,
    Ending, Undone, Native, nativeVars
<1>a. at.ctx = "open" => at.pc \in {"open", "done"}
  BY DEF Planned
<1>1. CASE OrdinaryCapture
  BY <1>1, <1>a DEF OrdinaryCapture, Begin, CanIdle, Capture, Domain, Guarded, NoRun, Owned,
      Phases, Types, Places, Sessions, Files
<1>2. CASE Prepare
  BY <1>2, <1>a DEF Prepare, BecomeIdle, CanIdle, Domain, Guarded, Owned, Phase, Types, Places,
      Sessions, Files
<1>3. CASE Control
  BY <1>3, <1>a DEF Control, Begin, CanIdle, Domain, Guarded, Holding, NoRun, Owned, Phase, Types,
      Places, Sessions, Files
<1>4. CASE SignalControl
  BY <1>4, <1>a DEF SignalControl, CanIdle, Domain, Guarded, Owned, Types, Places, Sessions, Files
<1>5. CASE Prepared
  BY <1>5, <1>a DEF Prepared, BecomeIdle, CanIdle, Domain, Guarded, Owned, Phase, Types, Places,
      Sessions, Files
<1>6. CASE NativeCapture
  BY <1>6, <1>a DEF NativeCapture, Begin, CanIdle, Domain, Guarded, Holding, NoRun, Owned, Phase,
      Types, Places, Sessions, Files
<1>7. CASE NativeFinish
  BY <1>7, <1>a, PhaseForm DEF SamePart, Grows
<1>8. CASE PhaseRaised
  BY <1>8, <1>a DEF PhaseRaised, Holding, Phase, Unresolved, Types, Places, Sessions, Files
<1>9. CASE CreateFiles
  BY <1>9, <1>a DEF CreateFiles, BecomeIdle, CanIdle, Domain, Guarded, Owned, Phase, Types,
      Places, Sessions, Files
<1>10. CASE ReuseFiles
  BY <1>10, <1>a DEF ReuseFiles, BecomeIdle, CanIdle, Domain, Guarded, Owned, Phase, Phases,
      Types, Places, Sessions, Files
<1>11. CASE VerifyFiles
  BY <1>11, <1>a DEF VerifyFiles, Guarded, Originals, Owned, Phase, Types, Places, Sessions, Files
<1>12. CASE CloseNative
  BY <1>12, <1>a, NativeForm DEF SamePart, SameProcesses, SameMachine, Grows, Planned
<1>13. CASE CloseFiles
  BY <1>13, <1>a, FilesForm DEF SamePart, SameProcesses, SameMachine, Grows, Planned
<1> QED BY <1>1, <1>2, <1>3, <1>4, <1>5, <1>6, <1>7, <1>8, <1>9, <1>10, <1>11, <1>12, <1>13 DEF
      NativeController

\* What a session without a failure has undone: the controller.
LEMMA UndoneMain ==
  ASSUME Types, Planned, OpsHere, Opening, Recorded, Undone, Main
  PROVE  Undone'
<1> USE DEF Goto, Raise, Doing, Failed, Charge, Free, Working, Helping, InRun, Beaten, Closing,
    Ending, Undone, nativeVars
<1>a. at.ctx = "open" => at.pc \in {"open", "done"}
  BY DEF Planned
<1>1. CASE OpenSession
  BY <1>1, <1>a DEF OpenSession, Begins, Types, Places, Sessions, Files
<1>2. CASE OpenFails
  BY <1>2, <1>a DEF OpenFails, Opening, Planned, Types, Places, Sessions, Files
<1>3. CASE Check
  BY <1>3, <1>a DEF Check, Types, Places, Sessions, Files
<1>4. CASE Advance
  BY <1>4, <1>a DEF Advance, Planned, Types, Places, Sessions, Files
<1>5. CASE InputsDone
  BY <1>5, <1>a, InputsForm DEF SamePart, SameProcesses, SameMachine, Grows, Planned
<1>6. CASE Admitted
  BY <1>6, <1>a, AdmittedForm, LastIdle DEF Grows
<1>7. CASE ToolsDone
  BY <1>7, <1>a, ToolsForm DEF SamePart, SameProcesses, SameMachine, Grows, Planned
<1>8. CASE GatePass
  BY <1>8, <1>a, GateForm DEF SamePart, SameProcesses, SameMachine, Grows, Planned
<1>9. CASE Proof
  BY <1>9, <1>a DEF Proof, Types, Places, Sessions, Files
<1>10. CASE AllRemoved
  BY <1>10, <1>a DEF AllRemoved, Ended, Types, Places, Sessions, Files
<1>11. CASE Raised
  BY <1>11, <1>a DEF Raised, Holding, Phase, Unresolved, Types, Places, Sessions, Files
<1>12. CASE Caught
  BY <1>12, <1>a DEF Caught, Types, Places, Sessions, Files
<1>13. CASE Escaped
  BY <1>13, <1>a DEF Escaped, Types, Places, Sessions, Files
<1>14. CASE Publish
  BY <1>14, <1>a DEF Publish, Verdict, Types, Places, Sessions, Files
<1>15. CASE Finish
  BY <1>15, <1>a DEF Finish, Exit, Types, Places, Sessions, Files
<1> QED BY <1>1, <1>2, <1>3, <1>4, <1>5, <1>6, <1>7, <1>8, <1>9, <1>10, <1>11, <1>12, <1>13, <1>14,
      <1>15 DEF Main

\* What a session without a failure has undone: the machine.
LEMMA UndoneOthers ==
  ASSUME Types, Planned, OpsHere, Opening, Recorded, Undone, Others
  PROVE  Undone'
<1> USE DEF Goto, Raise, Doing, Failed, Charge, Free, Working, Helping, InRun, Beaten, Closing,
    Ending, Undone, Apart, nativeVars
<1>a. at.ctx = "open" => at.pc \in {"open", "done"}
  BY DEF Planned
<1>1. CASE SubjectEnds /\ Apart
  BY <1>1, <1>a DEF SubjectEnds, Types, Places, Sessions, Files
<1>2. CASE SubjectForks /\ Apart
  BY <1>2, <1>a DEF SubjectForks, Types, Places, Sessions, Files
<1>3. CASE NamespaceEnds /\ Apart
  BY <1>3, <1>a DEF NamespaceEnds, Types, Places, Sessions, Files
<1>4. CASE KinEnds /\ Apart
  BY <1>4, <1>a DEF KinEnds, Types, Places, Sessions, Files
<1>5. CASE OwnerLaunches /\ Apart
  BY <1>5, <1>a DEF OwnerLaunches, Types, Places, Sessions, Files
<1>6. CASE HelperEnds /\ Apart
  BY <1>6, <1>a DEF HelperEnds, Types, Places, Sessions, Files
<1>7. CASE RunClock /\ Apart
  BY <1>7, <1>a DEF RunClock, Types, Places, Sessions, Files
<1>8. CASE RunRaises /\ Apart
  BY <1>8, <1>a DEF RunRaises, Failing, Latched, Latching, Types, Places, Sessions, Files
<1>9. CASE Late /\ Apart
  BY <1>9, <1>a DEF Late, Opened, Types, Places, Sessions, Files
<1>10. CASE Cancel /\ Apart
  BY <1>10, <1>a DEF Cancel, Opened, Types, Places, Sessions, Files
<1>11. CASE Drift /\ Apart
  BY <1>11, <1>a, DriftForm DEF SamePart, SameProcesses
<1>12. CASE Alarm /\ Apart
  BY <1>12, <1>a, AlarmForm DEF SamePart, SameProcesses, SameMachine, Grows, Planned
<1>13. CASE SubjectMeddles /\ UNCHANGED out
  BY <1>13, <1>a DEF SubjectMeddles, Types, Places, Sessions, Files
<1> QED BY <1>1, <1>2, <1>3, <1>4, <1>5, <1>6, <1>7, <1>8, <1>9, <1>10, <1>11, <1>12, <1>13 DEF Others,
      Machine

LEMMA UndoneStep ==
  ASSUME Types, Planned, OpsHere, Opening, Recorded, Undone, [Next]_vars
  PROVE  Undone'
<1>a. at.ctx = "open" => at.pc \in {"open", "done"}
  BY DEF Planned
<1>1. CASE UNCHANGED vars
  BY <1>1, <1>a DEF Working, Helping, InRun, Beaten, Closing, Ending, Undone, Types, Places,
      Sessions, Files, vars, sessionVars, nativeVars, Parts, AdmissionPlan
<1> QED BY <1>1, UndoneSession, UndoneNative, UndoneMain, UndoneOthers DEF Next, Terminated

-----------------------------------------------------------------------------
\* Which gate is performed: the session.
LEMMA ContextSession ==
  ASSUME Types, Session
  PROVE  (at'.ctx = at.ctx /\ at'.gate = at.gate) \/ OpenSession \/ InputsDone \/ Admitted \/ ToolsDone
         \/ GatePass
<1> USE DEF Goto, Raise, Doing, Failed, Charge, Free, SamePart, Session, nativeVars
<1>1. CASE Refused
  BY <1>1 DEF Refused, CanIdle, Domain, Guarded, NotIdle, Owned, Types, Places
<1>2. CASE Setup
  BY <1>2 DEF Setup, Assertable, Failing, Latched, Latching, Types, Places
<1>3. CASE Spawn
  BY <1>3 DEF Spawn, Types, Places
<1>4. CASE Own
  BY <1>4 DEF Own, Failing, Types, Places
<1>5. CASE Reap
  BY <1>5, ReapForm DEF SamePart, SameMachine, Failed, Types, Worlds, Sessions
<1>6. CASE LoopStops
  BY <1>6, StopsForm DEF SamePart, SameMachine, Failed, Types, Worlds, Sessions
<1>7. CASE LoopKills
  BY <1>7 DEF LoopKills, Types, Places
<1>8. CASE ReadsEof
  BY <1>8 DEF ReadsEof, Types, Places
<1>9. CASE LoopSweeps
  BY <1>9, LoopSweepsForm DEF SamePart, SameMachine, Failed, Types, Worlds, Sessions
<1>10. CASE LoopEnds
  BY <1>10 DEF LoopEnds, Types, Places
<1>11. CASE RunStop
  BY <1>11 DEF RunStop, Types, Places
<1>12. CASE RunWait
  BY <1>12, WaitForm DEF SamePart, SameMachine, Types, Worlds
<1>13. CASE RunDispose
  BY <1>13, DisposeForm DEF SamePart, SameMachine, Failed, Types, Worlds, Sessions
<1>14. CASE RunSettle
  BY <1>14 DEF RunSettle, Domain, Final, Types, Places
<1>15. CASE RunEnd
  BY <1>15 DEF RunEnd, Failing, Latching, Types, Places
<1>16. CASE Judge
  BY <1>16 DEF Judge, BecomeIdle, CanIdle, Domain, Guarded, Judged, NoRun, NotIdle, Owned, RunOk,
      Types, Places
<1>17. CASE Touch
  BY <1>17 DEF Touch, BecomeIdle, CanIdle, Domain, Guarded, Owned, Types, Places
<1>18. CASE Touched
  BY <1>18 DEF Touched, CouldWrite, Types, Places
<1>19. CASE EnsureIdle
  BY <1>19 DEF EnsureIdle, BecomeIdle, CanIdle, Domain, Guarded, Owned, Types, Places
<1>20. CASE Provider
  BY <1>20 DEF Provider, BecomeIdle, CanIdle, Domain, Guarded, Owned, Types, Places
<1>21. CASE Sentinel
  BY <1>21 DEF Sentinel, BecomeIdle, CanIdle, Domain, Guarded, Owned, Types, Places
<1>22. CASE Small
  BY <1>22, SmallForm DEF SamePart, SameProcesses, SameMachine, Grows, Planned
<1>23. CASE SmallReturns
  BY <1>23 DEF SmallReturns, Types, Places
<1>24. CASE SmallRaises
  BY <1>24 DEF SmallRaises, Types, Places
<1>25. CASE Lost
  BY <1>25 DEF Lost, Domain, Types, Places
<1>26. CASE NsOpen
  BY <1>26, NsOpenForm DEF SamePart, SameProcesses, SameMachine, Grows, Planned
<1>27. CASE NsWrite
  BY <1>27, WriteForm
<1>28. CASE NsVerify
  BY <1>28 DEF NsVerify, NsRaises, Types, Places
<1>29. CASE HomePin
  BY <1>29, PinForm
<1>30. CASE MakeNode
  BY <1>30, NodeForm DEF SamePart, SameProcesses, SameMachine, Grows, Planned
<1>31. CASE CloseBegin
  BY <1>31, BeginForm DEF SamePart, SameProcesses, SameMachine, Grows, Planned
<1>32. CASE CloseCensus
  BY <1>32, CensusForm DEF SamePart, SameProcesses, SameMachine, Grows, Planned
<1>33. CASE CloseNs
  BY <1>33, NsForm DEF SamePart, SameProcesses, SameMachine, Grows, Planned
<1>34. CASE CloseHome
  BY <1>34, HomeStepForm DEF SamePart, SameProcesses, SameMachine, Grows, Planned
<1> QED BY <1>1, <1>2, <1>3, <1>4, <1>5, <1>6, <1>7, <1>8, <1>9, <1>10, <1>11, <1>12, <1>13, <1>14,
      <1>15, <1>16, <1>17, <1>18, <1>19, <1>20, <1>21, <1>22, <1>23, <1>24, <1>25, <1>26, <1>27,
      <1>28, <1>29, <1>30, <1>31, <1>32, <1>33, <1>34 DEF Controller

\* Which gate is performed: the native phases and the checked files.
LEMMA ContextNative ==
  ASSUME Types, Native
  PROVE  (at'.ctx = at.ctx /\ at'.gate = at.gate) \/ OpenSession \/ InputsDone \/ Admitted \/ ToolsDone
         \/ GatePass
<1> USE DEF Goto, Raise, Doing, Failed, Charge, Free, SamePart, Native, nativeVars
<1>1. CASE OrdinaryCapture
  BY <1>1 DEF OrdinaryCapture, Begin, CanIdle, Capture, Domain, Guarded, NoRun, Owned, Phases,
      Types, Places
<1>2. CASE Prepare
  BY <1>2 DEF Prepare, BecomeIdle, CanIdle, Domain, Guarded, Owned, Phase, Types, Places
<1>3. CASE Control
  BY <1>3 DEF Control, Begin, CanIdle, Domain, Guarded, Holding, NoRun, Owned, Phase, Types,
      Places
<1>4. CASE SignalControl
  BY <1>4 DEF SignalControl, CanIdle, Domain, Guarded, Owned, Types, Places
<1>5. CASE Prepared
  BY <1>5 DEF Prepared, BecomeIdle, CanIdle, Domain, Guarded, Owned, Phase, Types, Places
<1>6. CASE NativeCapture
  BY <1>6 DEF NativeCapture, Begin, CanIdle, Domain, Guarded, Holding, NoRun, Owned, Phase, Types,
      Places
<1>7. CASE NativeFinish
  BY <1>7, PhaseForm
<1>8. CASE PhaseRaised
  BY <1>8 DEF PhaseRaised, Holding, Phase, Unresolved, Types, Places
<1>9. CASE CreateFiles
  BY <1>9 DEF CreateFiles, BecomeIdle, CanIdle, Domain, Guarded, Owned, Phase, Types, Places
<1>10. CASE ReuseFiles
  BY <1>10 DEF ReuseFiles, BecomeIdle, CanIdle, Domain, Guarded, Owned, Phase, Phases, Types,
      Places
<1>11. CASE VerifyFiles
  BY <1>11 DEF VerifyFiles, Guarded, Originals, Owned, Phase, Types, Places
<1>12. CASE CloseNative
  BY <1>12, NativeForm DEF SamePart, SameProcesses, SameMachine, Grows, Planned
<1>13. CASE CloseFiles
  BY <1>13, FilesForm DEF SamePart, SameProcesses, SameMachine, Grows, Planned
<1> QED BY <1>1, <1>2, <1>3, <1>4, <1>5, <1>6, <1>7, <1>8, <1>9, <1>10, <1>11, <1>12, <1>13 DEF
      NativeController

\* Which gate is performed: the controller.
LEMMA ContextMain ==
  ASSUME Types, Main
  PROVE  (at'.ctx = at.ctx /\ at'.gate = at.gate) \/ OpenSession \/ InputsDone \/ Admitted \/ ToolsDone
         \/ GatePass
<1> USE DEF Goto, Raise, Doing, Failed, Charge, Free, SamePart, nativeVars
<1>1. CASE OpenSession
  BY <1>1
<1>2. CASE OpenFails
  BY <1>2 DEF OpenFails, Types, Places
<1>3. CASE Check
  BY <1>3 DEF Check, Types, Places
<1>4. CASE Advance
  BY <1>4 DEF Advance, Planned, Types, Places
<1>5. CASE InputsDone
  BY <1>5
<1>6. CASE Admitted
  BY <1>6
<1>7. CASE ToolsDone
  BY <1>7
<1>8. CASE GatePass
  BY <1>8
<1>9. CASE Proof
  BY <1>9 DEF Proof, Types, Places
<1>10. CASE AllRemoved
  BY <1>10 DEF AllRemoved, Ended, Types, Places
<1>11. CASE Raised
  BY <1>11 DEF Raised, Holding, Phase, Unresolved, Types, Places
<1>12. CASE Caught
  BY <1>12 DEF Caught, Types, Places
<1>13. CASE Escaped
  BY <1>13 DEF Escaped, Types, Places
<1>14. CASE Publish
  BY <1>14 DEF Publish, Verdict, Types, Places
<1>15. CASE Finish
  BY <1>15 DEF Finish, Exit, Types, Places
<1> QED BY <1>1, <1>2, <1>3, <1>4, <1>5, <1>6, <1>7, <1>8, <1>9, <1>10, <1>11, <1>12, <1>13, <1>14,
      <1>15 DEF Main

\* Which gate is performed: the machine.
LEMMA ContextOthers ==
  ASSUME Types, Others
  PROVE  (at'.ctx = at.ctx /\ at'.gate = at.gate) \/ OpenSession \/ InputsDone \/ Admitted \/ ToolsDone
         \/ GatePass
<1> USE DEF Goto, Raise, Doing, Failed, Charge, Free, SamePart, Apart, nativeVars
<1>1. CASE SubjectEnds /\ Apart
  BY <1>1 DEF SubjectEnds, Types, Places
<1>2. CASE SubjectForks /\ Apart
  BY <1>2 DEF SubjectForks, Types, Places
<1>3. CASE NamespaceEnds /\ Apart
  BY <1>3 DEF NamespaceEnds, Types, Places
<1>4. CASE KinEnds /\ Apart
  BY <1>4 DEF KinEnds, Types, Places
<1>5. CASE OwnerLaunches /\ Apart
  BY <1>5 DEF OwnerLaunches, Types, Places
<1>6. CASE HelperEnds /\ Apart
  BY <1>6 DEF HelperEnds, Types, Places
<1>7. CASE RunClock /\ Apart
  BY <1>7 DEF RunClock, Types, Places
<1>8. CASE RunRaises /\ Apart
  BY <1>8 DEF RunRaises, Failing, Latched, Latching, Types, Places
<1>9. CASE Late /\ Apart
  BY <1>9 DEF Late, Opened, Types, Places
<1>10. CASE Cancel /\ Apart
  BY <1>10 DEF Cancel, Opened, Types, Places
<1>11. CASE Drift /\ Apart
  BY <1>11, DriftForm
<1>12. CASE Alarm /\ Apart
  BY <1>12, AlarmForm DEF SamePart, SameProcesses, SameMachine, Grows, Planned
<1>13. CASE SubjectMeddles /\ UNCHANGED out
  BY <1>13 DEF SubjectMeddles, Types, Places
<1> QED BY <1>1, <1>2, <1>3, <1>4, <1>5, <1>6, <1>7, <1>8, <1>9, <1>10, <1>11, <1>12, <1>13 DEF Others,
      Machine

LEMMA ContextStep ==
  ASSUME Types, [Next]_vars
  PROVE  (at'.ctx = at.ctx /\ at'.gate = at.gate) \/ OpenSession \/ InputsDone \/ Admitted \/ ToolsDone
         \/ GatePass
<1>1. CASE UNCHANGED vars
  BY <1>1 DEF SamePart, Types, Places, vars, sessionVars, nativeVars, Parts, AdmissionPlan
<1> QED BY <1>1, ContextSession, ContextNative, ContextMain, ContextOthers DEF Next, Terminated

-----------------------------------------------------------------------------
(* The gates that passed.                                                  *)

LEMMA CountedStep ==
  ASSUME Types, Planned, Counted, [Next]_vars
  PROVE  Counted'
<1>1. job' = job /\ at.gate \in Nat
  BY KeepsJob DEF Types, Places
<1>2. at.ctx = "open" => at.pc \in {"open", "done"}
  BY DEF Planned
<1>3. CASE GatePass
  <2>1. /\ out'.passed = out.passed \cup {job.gates[at.gate]} /\ at.ctx = "gate"
        /\ \/ at.gate = Len(job.gates) /\ at'.ctx = "end"
           \/ at'.ctx = "gate" /\ at'.gate = at.gate + 1
    BY <1>3, GateForm DEF Types, Reports
  <2>2. at.gate >= 1 /\ out.passed = {job.gates[i] : i \in 1..(at.gate - 1)}
    BY <2>1 DEF Counted
  <2>3. 1..at.gate = (1..(at.gate - 1)) \cup {at.gate}
    BY <1>1, <2>2
  <2>4. out'.passed = {job.gates[i] : i \in 1..at.gate}
    BY <2>1, <2>2, <2>3
  <2>5. CASE at.gate = Len(job.gates) /\ at'.ctx = "end"
    <3>1. DOMAIN job.gates = 1..at.gate
      BY <2>5, VerificationsAssumption DEF Types
    <3>2. Gates' = {job.gates[i] : i \in 1..at.gate}
      BY <1>1, <3>1 DEF Gates
    <3> QED BY <2>4, <2>5, <3>2 DEF Counted
  <2>6. CASE at'.ctx = "gate" /\ at'.gate = at.gate + 1
    <3>1. at'.gate - 1 = at.gate /\ at'.gate >= 1
      BY <1>1, <2>6
    <3>2. out'.passed = {job'.gates[i] : i \in 1..(at'.gate - 1)}
      BY <1>1, <2>4, <3>1
    <3> QED BY <2>6, <3>1, <3>2 DEF Counted
  <2> QED BY <2>1, <2>5, <2>6
<1>4. CASE ToolsDone
  <2>1. out.passed = {} /\ out' = out /\ at'.ctx = "gate" /\ at'.gate = 1
    BY <1>4, ToolsForm DEF Counted
  <2>2. out'.passed = {job'.gates[i] : i \in 1..(at'.gate - 1)}
    <3>1. 1..(at'.gate - 1) = {}
      BY <2>1
    <3> QED BY <2>1, <3>1
  <2> QED BY <2>1, <2>2 DEF Counted
<1>5. CASE OpenSession \/ InputsDone \/ Admitted
  <2>1. out.passed = {} /\ out' = out /\ at'.ctx \in {"inputs", "admit", "tools"}
    <3>1. CASE OpenSession
      BY <3>1, <1>2 DEF OpenSession, Begins, Counted, Planned
    <3>2. CASE InputsDone
      BY <3>2, InputsForm DEF Counted, SamePart
    <3>3. CASE Admitted
      BY <3>3, AdmittedForm DEF Counted
    <3> QED BY <1>5, <3>1, <3>2, <3>3
  <2> QED BY <2>1 DEF Counted
<1>6. CASE ~GatePass /\ at'.ctx = at.ctx /\ at'.gate = at.gate
  <2>1. out'.passed = out.passed
    <3>1. CASE Publish
      BY <3>1, PublishForm
    <3>2. CASE Proof
      BY <3>2 DEF Types, Reports, Proof
    <3>3. CASE OpenFails \/ AllRemoved \/ Caught \/ Escaped \/ Finish
      BY <3>3, SameReport
    <3> QED BY <1>6, <3>1, <3>2, <3>3, KeepsReport
  <2>2. Gates' = Gates
    BY <1>1 DEF Gates
  <2>3. {job.gates[i] : i \in 1..(at.gate - 1)}' = {job.gates[i] : i \in 1..(at.gate - 1)}
    BY <1>1, <1>6
  <2> QED BY <1>6, <2>1, <2>2, <2>3 DEF Counted
<1> QED BY <1>3, <1>4, <1>5, <1>6, ContextStep

\* Nothing is touched while a process could write it.
LEMMA TouchedStep ==
  ASSUME Types, Planned, Quiet, ~seen.touched, [Next]_vars
  PROVE  ~seen'.touched
<1>1. CASE Touched
  <2>1. ~CouldWrite
    BY <1>1 DEF Touched, Quiet, Working, CouldWrite
  <2> QED BY <1>1, <2>1 DEF Touched, Types, Watches
<1>2. CASE ToolsDone
  BY <1>2, ToolsForm
<1>3. CASE GatePass
  BY <1>3, GateForm
<1>4. CASE Caught
  BY <1>4 DEF Caught, Types, Watches
<1>5. CASE SubjectEnds
  BY <1>5 DEF SubjectEnds, Types, Watches
<1> QED BY <1>1, <1>2, <1>3, <1>4, <1>5, KeepsWatch

-----------------------------------------------------------------------------
\* The proof and the checked files: the session.
LEMMA EarnedSession ==
  ASSUME Types, Planned, OpsHere, Quiet, Counted, Earned, Session
  PROVE  Earned'
<1> USE DEF Goto, Raise, Doing, Failed, Charge, Free, Working, Helping, InRun, Beaten, Closing,
    Ending, Earned, Quiet, Nodes, Session, nativeVars
<1>a. at.pc \in InRun \cup Helping \cup {"touching"} => at.op \notin {"proof", "verify"}
  BY DEF Planned, Captures, InRun, Helping
<1>1. CASE Refused
  BY <1>1, <1>a DEF Refused, CanIdle, Domain, Guarded, NotIdle, Owned, Types, Places, Reports,
      Files
<1>2. CASE Setup
  BY <1>2, <1>a DEF Setup, Assertable, Failing, Latched, Latching, Types, Places, Reports, Files
<1>3. CASE Spawn
  BY <1>3, <1>a DEF Spawn, Types, Places, Reports, Files
<1>4. CASE Own
  BY <1>4, <1>a DEF Own, Failing, Types, Places, Reports, Files
<1>5. CASE Reap
  BY <1>5, <1>a, ReapForm DEF SamePart, SameMachine, Failed, Types, Worlds, Sessions
<1>6. CASE LoopStops
  BY <1>6, <1>a, StopsForm DEF SamePart, SameMachine, Failed, Types, Worlds, Sessions
<1>7. CASE LoopKills
  BY <1>7, <1>a DEF LoopKills, Types, Places, Reports, Files
<1>8. CASE ReadsEof
  BY <1>8, <1>a DEF ReadsEof, Types, Places, Reports, Files
<1>9. CASE LoopSweeps
  BY <1>9, <1>a, LoopSweepsForm DEF SamePart, SameMachine, Failed, Types, Worlds, Sessions
<1>10. CASE LoopEnds
  BY <1>10, <1>a DEF LoopEnds, Types, Places, Reports, Files
<1>11. CASE RunStop
  BY <1>11, <1>a DEF RunStop, Types, Places, Reports, Files
<1>12. CASE RunWait
  BY <1>12, <1>a, WaitForm DEF SamePart, SameMachine, Types, Worlds
<1>13. CASE RunDispose
  BY <1>13, <1>a, DisposeForm DEF SamePart, SameMachine, Failed, Types, Worlds, Sessions
<1>14. CASE RunSettle
  BY <1>14, <1>a DEF RunSettle, Domain, Final, Types, Places, Reports, Files
<1>15. CASE RunEnd
  BY <1>15, <1>a DEF RunEnd, Failing, Latching, Types, Places, Reports, Files
<1>16. CASE Judge
  BY <1>16, <1>a DEF Judge, BecomeIdle, CanIdle, Domain, Guarded, Judged, NoRun, NotIdle, Owned,
      RunOk, Types, Places, Reports, Files
<1>17. CASE Touch
  BY <1>17, <1>a DEF Touch, BecomeIdle, CanIdle, Domain, Guarded, Owned, Types, Places, Reports,
      Files
<1>18. CASE Touched
  BY <1>18, <1>a DEF Touched, CouldWrite, Types, Places, Reports, Files
<1>19. CASE EnsureIdle
  BY <1>19, <1>a DEF EnsureIdle, BecomeIdle, CanIdle, Domain, Guarded, Owned, Types, Places,
      Reports, Files
<1>20. CASE Provider
  BY <1>20, <1>a DEF Provider, BecomeIdle, CanIdle, Domain, Guarded, Owned, Types, Places,
      Reports, Files
<1>21. CASE Sentinel
  BY <1>21, <1>a DEF Sentinel, BecomeIdle, CanIdle, Domain, Guarded, Owned, Types, Places,
      Reports, Files
<1>22. CASE Small
  BY <1>22, <1>a, SmallForm DEF SamePart, SameProcesses, SameMachine, Grows, Planned
<1>23. CASE SmallReturns
  BY <1>23, <1>a DEF SmallReturns, Types, Places, Reports, Files
<1>24. CASE SmallRaises
  BY <1>24, <1>a DEF SmallRaises, Types, Places, Reports, Files
<1>25. CASE Lost
  BY <1>25, <1>a DEF Lost, Domain, Types, Places, Reports, Files
<1>26. CASE NsOpen
  BY <1>26, <1>a, NsOpenForm DEF SamePart, SameProcesses, SameMachine, Grows, Planned
<1>27. CASE NsWrite
  BY <1>27, <1>a DEF NsWrite, NsRaises, Types, Places, Reports, Files
<1>28. CASE NsVerify
  BY <1>28, <1>a DEF NsVerify, NsRaises, Types, Places, Reports, Files
<1>29. CASE HomePin
  BY <1>29, <1>a DEF HomePin, BecomeIdle, CanIdle, Domain, Guarded, Owned, Types, Places, Reports,
      Files
<1>30. CASE MakeNode
  BY <1>30, <1>a, NodeForm DEF SamePart, SameProcesses, SameMachine, Grows, Planned
<1>31. CASE CloseBegin
  BY <1>31, <1>a, BeginForm DEF SamePart, SameProcesses, SameMachine, Grows, Planned
<1>32. CASE CloseCensus
  BY <1>32, <1>a, CensusForm DEF SamePart, SameProcesses, SameMachine, Grows, Planned
<1>33. CASE CloseNs
  BY <1>33, <1>a, NsForm DEF SamePart, SameProcesses, SameMachine, Grows, Planned
<1>34. CASE CloseHome
  BY <1>34, <1>a, HomeStepForm DEF SamePart, SameProcesses, SameMachine, Grows, Planned
<1> QED BY <1>1, <1>2, <1>3, <1>4, <1>5, <1>6, <1>7, <1>8, <1>9, <1>10, <1>11, <1>12, <1>13, <1>14,
      <1>15, <1>16, <1>17, <1>18, <1>19, <1>20, <1>21, <1>22, <1>23, <1>24, <1>25, <1>26, <1>27,
      <1>28, <1>29, <1>30, <1>31, <1>32, <1>33, <1>34 DEF Controller

\* The proof and the checked files: the native phases and the checked files.
LEMMA EarnedNative ==
  ASSUME Types, Planned, OpsHere, Quiet, Counted, Earned, Native
  PROVE  Earned'
<1> USE DEF Goto, Raise, Doing, Failed, Charge, Free, Working, Helping, InRun, Beaten, Closing,
    Ending, Earned, Quiet, Nodes, Native, nativeVars
<1>a. at.pc \in InRun \cup Helping \cup {"touching"} => at.op \notin {"proof", "verify"}
  BY DEF Planned, Captures, InRun, Helping
<1>1. CASE OrdinaryCapture
  BY <1>1, <1>a DEF OrdinaryCapture, Begin, CanIdle, Capture, Domain, Guarded, NoRun, Owned,
      Phases, Types, Places, Reports, Files
<1>2. CASE Prepare
  BY <1>2, <1>a DEF Prepare, BecomeIdle, CanIdle, Domain, Guarded, Owned, Phase, Types, Places,
      Reports, Files
<1>3. CASE Control
  BY <1>3, <1>a DEF Control, Begin, CanIdle, Domain, Guarded, Holding, NoRun, Owned, Phase, Types,
      Places, Reports, Files
<1>4. CASE SignalControl
  BY <1>4, <1>a DEF SignalControl, CanIdle, Domain, Guarded, Owned, Types, Places, Reports, Files
<1>5. CASE Prepared
  BY <1>5, <1>a DEF Prepared, BecomeIdle, CanIdle, Domain, Guarded, Owned, Phase, Types, Places,
      Reports, Files
<1>6. CASE NativeCapture
  BY <1>6, <1>a DEF NativeCapture, Begin, CanIdle, Domain, Guarded, Holding, NoRun, Owned, Phase,
      Types, Places, Reports, Files
<1>7. CASE NativeFinish
  BY <1>7, <1>a DEF NativeFinish, BecomeIdle, CanIdle, Domain, Guarded, NoRun, Owned, Phase,
      RunOk, Unfinished, Types, Places, Reports, Files
<1>8. CASE PhaseRaised
  BY <1>8, <1>a DEF PhaseRaised, Holding, Phase, Unresolved, Types, Places, Reports, Files
<1>9. CASE CreateFiles
  BY <1>9, <1>a DEF CreateFiles, BecomeIdle, CanIdle, Domain, Guarded, Owned, Phase, Types,
      Places, Reports, Files
<1>10. CASE ReuseFiles
  BY <1>10, <1>a DEF ReuseFiles, BecomeIdle, CanIdle, Domain, Guarded, Owned, Phase, Phases,
      Types, Places, Reports, Files
<1>11. CASE VerifyFiles
  BY <1>11, <1>a DEF VerifyFiles, Guarded, Originals, Owned, Phase, Types, Places, Reports, Files
<1>12. CASE CloseNative
  BY <1>12, <1>a, NativeForm DEF SamePart, SameProcesses, SameMachine, Grows, Planned
<1>13. CASE CloseFiles
  BY <1>13, <1>a, FilesForm DEF SamePart, SameProcesses, SameMachine, Grows, Planned
<1> QED BY <1>1, <1>2, <1>3, <1>4, <1>5, <1>6, <1>7, <1>8, <1>9, <1>10, <1>11, <1>12, <1>13 DEF
      NativeController

\* The proof and the checked files: the controller.
LEMMA EarnedMain ==
  ASSUME Types, Planned, OpsHere, Quiet, Counted, Earned, Main
  PROVE  Earned'
<1> USE DEF Goto, Raise, Doing, Failed, Charge, Free, Working, Helping, InRun, Beaten, Closing,
    Ending, Earned, Quiet, Nodes, nativeVars
<1>a. at.pc \in InRun \cup Helping \cup {"touching"} => at.op \notin {"proof", "verify"}
  BY DEF Planned, Captures, InRun, Helping
<1>1. CASE OpenSession
  BY <1>1, <1>a DEF OpenSession, Begins, Counted, Planned, Types, Places, Reports, Files
<1>2. CASE OpenFails
  BY <1>2, <1>a DEF OpenFails, Types, Places, Reports, Files
<1>3. CASE Check
  BY <1>3, <1>a DEF Check, Types, Places, Reports, Files
<1>4. CASE Advance
  BY <1>4, <1>a DEF Advance, Planned, Types, Places, Reports, Files
<1>5. CASE InputsDone
  BY <1>5, <1>a, InputsForm DEF SamePart, SameProcesses, SameMachine, Grows, Planned
<1>6. CASE Admitted
  BY <1>6, <1>a, AdmittedForm, LastIdle DEF Grows
<1>7. CASE ToolsDone
  BY <1>7, <1>a, ToolsForm DEF SamePart, SameProcesses, SameMachine, Grows, Planned
<1>8. CASE GatePass
  <2>1. "local-signing-matrix" = job.gates[at.gate] => out.proof
    <3>1. ASSUME "local-signing-matrix" = job.gates[at.gate]  PROVE  at.op = "proof"
      BY <3>1, <1>8, <1>a, GateForm, MatrixShape DEF Planned, Parts
    <3> QED BY <3>1, <1>8, <1>a, GateForm
  <2>2. out'.passed = out.passed \cup {job.gates[at.gate]} /\ out'.proof = out.proof
    BY <1>8, <1>a, GateForm DEF Types, Reports
  <2> QED BY <2>1, <2>2, <1>8, <1>a, GateForm
<1>9. CASE Proof
  BY <1>9, <1>a DEF Proof, Types, Places, Reports, Files
<1>10. CASE AllRemoved
  BY <1>10, <1>a DEF AllRemoved, Ended, Types, Places, Reports, Files
<1>11. CASE Raised
  BY <1>11, <1>a DEF Raised, Holding, Phase, Unresolved, Types, Places, Reports, Files
<1>12. CASE Caught
  BY <1>12, <1>a DEF Caught, Types, Places, Reports, Files
<1>13. CASE Escaped
  BY <1>13, <1>a DEF Escaped, Types, Places, Reports, Files
<1>14. CASE Publish
  BY <1>14, <1>a DEF Publish, Verdict, Types, Places, Reports, Files
<1>15. CASE Finish
  BY <1>15, <1>a DEF Finish, Exit, Types, Places, Reports, Files
<1> QED BY <1>1, <1>2, <1>3, <1>4, <1>5, <1>6, <1>7, <1>8, <1>9, <1>10, <1>11, <1>12, <1>13, <1>14,
      <1>15 DEF Main

\* The proof and the checked files: the machine.
LEMMA EarnedOthers ==
  ASSUME Types, Planned, OpsHere, Quiet, Counted, Earned, Others
  PROVE  Earned'
<1> USE DEF Goto, Raise, Doing, Failed, Charge, Free, Working, Helping, InRun, Beaten, Closing,
    Ending, Earned, Quiet, Nodes, Apart, nativeVars
<1>a. at.pc \in InRun \cup Helping \cup {"touching"} => at.op \notin {"proof", "verify"}
  BY DEF Planned, Captures, InRun, Helping
<1>1. CASE SubjectEnds /\ Apart
  BY <1>1, <1>a DEF SubjectEnds, Types, Places, Reports, Files
<1>2. CASE SubjectForks /\ Apart
  BY <1>2, <1>a DEF SubjectForks, Types, Places, Reports, Files
<1>3. CASE NamespaceEnds /\ Apart
  BY <1>3, <1>a DEF NamespaceEnds, Types, Places, Reports, Files
<1>4. CASE KinEnds /\ Apart
  BY <1>4, <1>a DEF KinEnds, Types, Places, Reports, Files
<1>5. CASE OwnerLaunches /\ Apart
  BY <1>5, <1>a DEF OwnerLaunches, Types, Places, Reports, Files
<1>6. CASE HelperEnds /\ Apart
  BY <1>6, <1>a DEF HelperEnds, Types, Places, Reports, Files
<1>7. CASE RunClock /\ Apart
  BY <1>7, <1>a DEF RunClock, Types, Places, Reports, Files
<1>8. CASE RunRaises /\ Apart
  BY <1>8, <1>a DEF RunRaises, Failing, Latched, Latching, Types, Places, Reports, Files
<1>9. CASE Late /\ Apart
  BY <1>9, <1>a DEF Late, Opened, Types, Places, Reports, Files
<1>10. CASE Cancel /\ Apart
  BY <1>10, <1>a DEF Cancel, Opened, Types, Places, Reports, Files
<1>11. CASE Drift /\ Apart
  BY <1>11, <1>a DEF Drift, Looks, Opened, Types, Places, Reports, Files
<1>12. CASE Alarm /\ Apart
  BY <1>12, <1>a, AlarmForm DEF SamePart, SameProcesses, SameMachine, Grows, Planned
<1>13. CASE SubjectMeddles /\ UNCHANGED out
  BY <1>13, <1>a DEF SubjectMeddles, Types, Places, Reports, Files
<1> QED BY <1>1, <1>2, <1>3, <1>4, <1>5, <1>6, <1>7, <1>8, <1>9, <1>10, <1>11, <1>12, <1>13 DEF Others,
      Machine

LEMMA EarnedStep ==
  ASSUME Types, Planned, OpsHere, Quiet, Counted, Earned, [Next]_vars
  PROVE  Earned'
<1>a. at.pc \in InRun \cup Helping \cup {"touching"} => at.op \notin {"proof", "verify"}
  BY DEF Planned, Captures, InRun, Helping
<1>1. CASE UNCHANGED vars
  BY <1>1, <1>a DEF Working, Helping, InRun, Beaten, Closing, Ending, Earned, Quiet, Nodes, Types,
      Places, Reports, Files, vars, sessionVars, nativeVars, Parts, AdmissionPlan
<1> QED BY <1>1, EarnedSession, EarnedNative, EarnedMain, EarnedOthers DEF Next, Terminated

-----------------------------------------------------------------------------
\* The report: the session.
LEMMA ReportedSession ==
  ASSUME Types, Planned, OpsHere, Quiet, Undone, Earned, Reported, Session
  PROVE  Reported'
<1> USE DEF Goto, Raise, Doing, Failed, Charge, Free, Working, Helping, InRun, Beaten, Closing,
    Ending, Reported, CouldWrite, Quiet, Session, nativeVars
<1>1. CASE Refused
  BY <1>1 DEF Refused, CanIdle, Domain, Guarded, NotIdle, Owned, Types, Places, Reports, Sessions,
      Worlds
<1>2. CASE Setup
  BY <1>2 DEF Setup, Assertable, Failing, Latched, Latching, Types, Places, Reports, Sessions,
      Worlds
<1>3. CASE Spawn
  BY <1>3 DEF Spawn, Types, Places, Reports, Sessions, Worlds
<1>4. CASE Own
  BY <1>4 DEF Own, Failing, Types, Places, Reports, Sessions, Worlds
<1>5. CASE Reap
  BY <1>5, ReapForm DEF SamePart, SameMachine, Failed, Types, Worlds, Sessions
<1>6. CASE LoopStops
  BY <1>6, StopsForm DEF SamePart, SameMachine, Failed, Types, Worlds, Sessions
<1>7. CASE LoopKills
  BY <1>7 DEF LoopKills, Types, Places, Reports, Sessions, Worlds
<1>8. CASE ReadsEof
  BY <1>8 DEF ReadsEof, Types, Places, Reports, Sessions, Worlds
<1>9. CASE LoopSweeps
  BY <1>9, LoopSweepsForm DEF SamePart, SameMachine, Failed, Types, Worlds, Sessions
<1>10. CASE LoopEnds
  BY <1>10 DEF LoopEnds, Types, Places, Reports, Sessions, Worlds
<1>11. CASE RunStop
  BY <1>11 DEF RunStop, Types, Places, Reports, Sessions, Worlds
<1>12. CASE RunWait
  BY <1>12, WaitForm DEF SamePart, SameMachine, Types, Worlds
<1>13. CASE RunDispose
  BY <1>13, DisposeForm DEF SamePart, SameMachine, Failed, Types, Worlds, Sessions
<1>14. CASE RunSettle
  BY <1>14 DEF RunSettle, Domain, Final, Types, Places, Reports, Sessions, Worlds
<1>15. CASE RunEnd
  BY <1>15 DEF RunEnd, Failing, Latching, Types, Places, Reports, Sessions, Worlds
<1>16. CASE Judge
  BY <1>16 DEF Judge, BecomeIdle, CanIdle, Domain, Guarded, Judged, NoRun, NotIdle, Owned, RunOk,
      Types, Places, Reports, Sessions, Worlds
<1>17. CASE Touch
  BY <1>17 DEF Touch, BecomeIdle, CanIdle, Domain, Guarded, Owned, Types, Places, Reports,
      Sessions, Worlds
<1>18. CASE Touched
  BY <1>18 DEF Touched, Types, Places, Reports, Sessions, Worlds
<1>19. CASE EnsureIdle
  BY <1>19 DEF EnsureIdle, BecomeIdle, CanIdle, Domain, Guarded, Owned, Types, Places, Reports,
      Sessions, Worlds
<1>20. CASE Provider
  BY <1>20 DEF Provider, BecomeIdle, CanIdle, Domain, Guarded, Owned, Types, Places, Reports,
      Sessions, Worlds
<1>21. CASE Sentinel
  BY <1>21 DEF Sentinel, BecomeIdle, CanIdle, Domain, Guarded, Owned, Types, Places, Reports,
      Sessions, Worlds
<1>22. CASE Small
  BY <1>22, SmallForm DEF SamePart, SameProcesses, SameMachine, Grows, Planned
<1>23. CASE SmallReturns
  BY <1>23 DEF SmallReturns, Types, Places, Reports, Sessions, Worlds
<1>24. CASE SmallRaises
  BY <1>24 DEF SmallRaises, Types, Places, Reports, Sessions, Worlds
<1>25. CASE Lost
  BY <1>25 DEF Lost, Domain, Types, Places, Reports, Sessions, Worlds
<1>26. CASE NsOpen
  BY <1>26, NsOpenForm DEF SamePart, SameProcesses, SameMachine, Grows, Planned
<1>27. CASE NsWrite
  BY <1>27 DEF NsWrite, NsRaises, Types, Places, Reports, Sessions, Worlds
<1>28. CASE NsVerify
  BY <1>28 DEF NsVerify, NsRaises, Types, Places, Reports, Sessions, Worlds
<1>29. CASE HomePin
  BY <1>29 DEF HomePin, BecomeIdle, CanIdle, Domain, Guarded, Owned, Types, Places, Reports,
      Sessions, Worlds
<1>30. CASE MakeNode
  BY <1>30, NodeForm DEF SamePart, SameProcesses, SameMachine, Grows, Planned
<1>31. CASE CloseBegin
  BY <1>31, BeginForm DEF SamePart, SameProcesses, SameMachine, Grows, Planned
<1>32. CASE CloseCensus
  BY <1>32, CensusForm DEF SamePart, SameProcesses, SameMachine, Grows, Planned
<1>33. CASE CloseNs
  BY <1>33, NsForm DEF SamePart, SameProcesses, SameMachine, Grows, Planned
<1>34. CASE CloseHome
  BY <1>34, HomeStepForm DEF SamePart, SameProcesses, SameMachine, Grows, Planned
<1> QED BY <1>1, <1>2, <1>3, <1>4, <1>5, <1>6, <1>7, <1>8, <1>9, <1>10, <1>11, <1>12, <1>13, <1>14,
      <1>15, <1>16, <1>17, <1>18, <1>19, <1>20, <1>21, <1>22, <1>23, <1>24, <1>25, <1>26, <1>27,
      <1>28, <1>29, <1>30, <1>31, <1>32, <1>33, <1>34 DEF Controller

\* The report: the native phases and the checked files.
LEMMA ReportedNative ==
  ASSUME Types, Planned, OpsHere, Quiet, Undone, Earned, Reported, Native
  PROVE  Reported'
<1> USE DEF Goto, Raise, Doing, Failed, Charge, Free, Working, Helping, InRun, Beaten, Closing,
    Ending, Reported, CouldWrite, Quiet, Native, nativeVars
<1>1. CASE OrdinaryCapture
  BY <1>1 DEF OrdinaryCapture, Begin, CanIdle, Capture, Domain, Guarded, NoRun, Owned, Phases,
      Types, Places, Reports, Sessions, Worlds
<1>2. CASE Prepare
  BY <1>2 DEF Prepare, BecomeIdle, CanIdle, Domain, Guarded, Owned, Phase, Types, Places, Reports,
      Sessions, Worlds
<1>3. CASE Control
  BY <1>3 DEF Control, Begin, CanIdle, Domain, Guarded, Holding, NoRun, Owned, Phase, Types,
      Places, Reports, Sessions, Worlds
<1>4. CASE SignalControl
  BY <1>4 DEF SignalControl, CanIdle, Domain, Guarded, Owned, Types, Places, Reports, Sessions,
      Worlds
<1>5. CASE Prepared
  BY <1>5 DEF Prepared, BecomeIdle, CanIdle, Domain, Guarded, Owned, Phase, Types, Places,
      Reports, Sessions, Worlds
<1>6. CASE NativeCapture
  BY <1>6 DEF NativeCapture, Begin, CanIdle, Domain, Guarded, Holding, NoRun, Owned, Phase, Types,
      Places, Reports, Sessions, Worlds
<1>7. CASE NativeFinish
  BY <1>7 DEF NativeFinish, BecomeIdle, CanIdle, Domain, Guarded, NoRun, Owned, Phase, RunOk,
      Unfinished, Types, Places, Reports, Sessions, Worlds
<1>8. CASE PhaseRaised
  BY <1>8 DEF PhaseRaised, Holding, Phase, Unresolved, Types, Places, Reports, Sessions, Worlds
<1>9. CASE CreateFiles
  BY <1>9 DEF CreateFiles, BecomeIdle, CanIdle, Domain, Guarded, Owned, Phase, Types, Places,
      Reports, Sessions, Worlds
<1>10. CASE ReuseFiles
  BY <1>10 DEF ReuseFiles, BecomeIdle, CanIdle, Domain, Guarded, Owned, Phase, Phases, Types,
      Places, Reports, Sessions, Worlds
<1>11. CASE VerifyFiles
  BY <1>11 DEF VerifyFiles, Guarded, Originals, Owned, Phase, Types, Places, Reports, Sessions,
      Worlds
<1>12. CASE CloseNative
  BY <1>12, NativeForm DEF SamePart, SameProcesses, SameMachine, Grows, Planned
<1>13. CASE CloseFiles
  BY <1>13, FilesForm DEF SamePart, SameProcesses, SameMachine, Grows, Planned
<1> QED BY <1>1, <1>2, <1>3, <1>4, <1>5, <1>6, <1>7, <1>8, <1>9, <1>10, <1>11, <1>12, <1>13 DEF
      NativeController

\* The report: the controller.
LEMMA ReportedMain ==
  ASSUME Types, Planned, OpsHere, Quiet, Undone, Earned, Reported, Main
  PROVE  Reported'
<1> USE DEF Goto, Raise, Doing, Failed, Charge, Free, Working, Helping, InRun, Beaten, Closing,
    Ending, Reported, CouldWrite, Quiet, nativeVars
<1>1. CASE OpenSession
  BY <1>1 DEF OpenSession, Begins, Types, Places, Reports, Sessions, Worlds
<1>2. CASE OpenFails
  BY <1>2 DEF OpenFails, Types, Places, Reports, Sessions, Worlds
<1>3. CASE Check
  BY <1>3 DEF Check, Types, Places, Reports, Sessions, Worlds
<1>4. CASE Advance
  BY <1>4 DEF Advance, Planned, Types, Places, Reports, Sessions, Worlds
<1>5. CASE InputsDone
  BY <1>5, InputsForm DEF SamePart, SameProcesses, SameMachine, Grows, Planned
<1>6. CASE Admitted
  BY <1>6, AdmittedForm, LastIdle DEF Grows
<1>7. CASE ToolsDone
  BY <1>7, ToolsForm DEF SamePart, SameProcesses, SameMachine, Grows, Planned
<1>8. CASE GatePass
  <2>1. out'.ok = out.ok /\ out'.exit = out.exit /\ out'.published = out.published
    BY <1>8, GateForm DEF Types, Reports
  <2> QED BY <2>1, <1>8, GateForm
<1>9. CASE Proof
  BY <1>9 DEF Proof, Types, Places, Reports, Sessions, Worlds
<1>10. CASE AllRemoved
  BY <1>10 DEF AllRemoved, Ended, Earned, OpsHere, Types, Places, Reports, Sessions, Worlds
<1>11. CASE Raised
  BY <1>11 DEF Raised, Holding, Phase, Unresolved, Types, Places, Reports, Sessions, Worlds
<1>12. CASE Caught
  BY <1>12 DEF Caught, Types, Places, Reports, Sessions, Worlds
<1>13. CASE Escaped
  BY <1>13 DEF Escaped, Types, Places, Reports, Sessions, Worlds
<1>14. CASE Publish
  BY <1>14, PublishForm, GotoPart DEF SamePart, Verdict
<1>15. CASE Finish
  BY <1>15 DEF Finish, Exit, Types, Places, Reports, Sessions, Worlds
<1> QED BY <1>1, <1>2, <1>3, <1>4, <1>5, <1>6, <1>7, <1>8, <1>9, <1>10, <1>11, <1>12, <1>13, <1>14,
      <1>15 DEF Main

\* The report: the machine.
LEMMA ReportedOthers ==
  ASSUME Types, Planned, OpsHere, Quiet, Undone, Earned, Reported, Others
  PROVE  Reported'
<1> USE DEF Goto, Raise, Doing, Failed, Charge, Free, Working, Helping, InRun, Beaten, Closing,
    Ending, Reported, CouldWrite, Quiet, Apart, nativeVars
<1>1. CASE SubjectEnds /\ Apart
  BY <1>1 DEF SubjectEnds, Types, Places, Reports, Sessions, Worlds
<1>2. CASE SubjectForks /\ Apart
  BY <1>2 DEF SubjectForks, Types, Places, Reports, Sessions, Worlds
<1>3. CASE NamespaceEnds /\ Apart
  BY <1>3 DEF NamespaceEnds, Types, Places, Reports, Sessions, Worlds
<1>4. CASE KinEnds /\ Apart
  BY <1>4 DEF KinEnds, Types, Places, Reports, Sessions, Worlds
<1>5. CASE OwnerLaunches /\ Apart
  BY <1>5 DEF OwnerLaunches, Types, Places, Reports, Sessions, Worlds
<1>6. CASE HelperEnds /\ Apart
  BY <1>6 DEF HelperEnds, Types, Places, Reports, Sessions, Worlds
<1>7. CASE RunClock /\ Apart
  BY <1>7 DEF RunClock, Types, Places, Reports, Sessions, Worlds
<1>8. CASE RunRaises /\ Apart
  BY <1>8 DEF RunRaises, Failing, Latched, Latching, Types, Places, Reports, Sessions, Worlds
<1>9. CASE Late /\ Apart
  BY <1>9 DEF Late, Opened, Types, Places, Reports, Sessions, Worlds
<1>10. CASE Cancel /\ Apart
  BY <1>10 DEF Cancel, Opened, Types, Places, Reports, Sessions, Worlds
<1>11. CASE Drift /\ Apart
  BY <1>11 DEF Drift, Looks, Opened, Types, Places, Reports, Sessions, Worlds
<1>12. CASE Alarm /\ Apart
  BY <1>12, AlarmForm DEF SamePart, SameProcesses, SameMachine, Grows, Planned
<1>13. CASE SubjectMeddles /\ UNCHANGED out
  BY <1>13 DEF SubjectMeddles, Types, Places, Reports, Sessions, Worlds
<1> QED BY <1>1, <1>2, <1>3, <1>4, <1>5, <1>6, <1>7, <1>8, <1>9, <1>10, <1>11, <1>12, <1>13 DEF Others,
      Machine

LEMMA ReportedStep ==
  ASSUME Types, Planned, OpsHere, Quiet, Undone, Earned, Reported, [Next]_vars
  PROVE  Reported'
<1>1. CASE UNCHANGED vars
  BY <1>1 DEF Working, Helping, InRun, Beaten, Closing, Ending, Reported, CouldWrite, Quiet,
      Types, Places, Reports, Sessions, Worlds, vars, sessionVars, nativeVars, Parts,
      AdmissionPlan
<1> QED BY <1>1, ReportedSession, ReportedNative, ReportedMain, ReportedOthers DEF Next, Terminated

-----------------------------------------------------------------------------
(* The invariant.                                                          *)

LEMMA Initially ==
  ASSUME Init
  PROVE  IInv
<1> USE DEF Init, SessionInit, NativeInit
<1>1. Types
  <2>1. w \in Worlds
    <3>1. /\ w \in Machines
          /\ [Nodes -> {"none"}] \subseteq [Nodes -> {"none", "ours", "foreign"}]
      OBVIOUS
    <3> QED BY <3>1 DEF Machines, Worlds
  <2>2. at \in Places
    BY DEF Places, PCs, Contexts, Ops
  <2>3. s \in Sessions /\ r \in Runs
    BY DEF Sessions, NewSession, Runs, NoRun
  <2>4. b \in Custodies
    BY DEF Custodies, NoBoundary, Limits, Homes
  <2>5. seen \in Watches /\ f \in Files
    BY DEF Watches, Files
  <2>6. out \in Reports
    BY DEF Reports
  <2> QED BY <2>1, <2>2, <2>3, <2>4, <2>5, <2>6 DEF Types
<1>2. /\ w.leader = "none" /\ w.kin = "none" /\ w.helper = "none" /\ w.ns = w.ns0
      /\ w.mode = w.mode0 /\ \A x \in Nodes : w.node[x] = "none"
  BY DEF Machines
<1>3. at.pc = "open" /\ at.ctx = "open" /\ at.op = "none" /\ ~s.failure /\ ~s.cancelled
  BY DEF NewSession
<1>4. /\ out.passed = {} /\ ~out.ok /\ out.exit = "none" /\ f.tree = "none" /\ ~f.closed
      /\ ~seen.stained /\ ~seen.touched /\ ~r.waited
  BY DEF NoRun
<1> USE DEF Working, Helping, InRun, Beaten, Closing, Ending
<1>5. Planned /\ Opening /\ Quiet /\ Child /\ Stained
  BY <1>2, <1>3, <1>4 DEF Planned, Opening, Quiet, Child, Stained
<1>6. Fenced
  BY <1>2, <1>3 DEF Fenced, Early, Domain
<1>7. Recorded
  <2>1. ~Bounded
    BY <1>3 DEF Bounded
  <2>2. w.ns = "zero" /\ w.ns0 = "on" => FALSE
    BY <1>2
  <2>3. w.mode = "search" /\ w.mode0 = "narrow" => FALSE
    BY <1>2
  <2> QED BY <1>2, <2>1, <2>2, <2>3 DEF Recorded
<1>8. Undone /\ Counted /\ Earned /\ Reported
  BY <1>3, <1>4 DEF Undone, Counted, Earned, Reported
<1> QED BY <1>1, <1>4, <1>5, <1>6, <1>7, <1>8 DEF IInv

LEMMA Inductive ==
  ASSUME IInv, [Next]_vars
  PROVE  IInv'
<1>1. /\ Types /\ Planned /\ Opening /\ Quiet /\ Child /\ Stained /\ Fenced /\ Recorded
      /\ Undone /\ Counted /\ Earned /\ Reported /\ ~seen.touched
  BY DEF IInv
<1>2. OpsHere
  BY <1>1, OpsOfPlan
<1>3. Types' /\ Planned' /\ Opening' /\ Quiet'
  BY <1>1, <1>2, ShapeStep, OpeningStep, QuietStep
<1>4. Child' /\ Stained' /\ Fenced' /\ Recorded'
  BY <1>1, <1>2, ChildStep, StainedStep, FencedStep, RecordedStep
<1>5. Undone' /\ Counted' /\ Earned' /\ Reported' /\ ~seen'.touched
  BY <1>1, <1>2, UndoneStep, CountedStep, EarnedStep, ReportedStep, TouchedStep
<1> QED BY <1>3, <1>4, <1>5 DEF IInv

\* In every reachable state of a verification, whatever its gates, its commands
\* and the others on the machine do, the parts are those of the plan, processes
\* are where the capture and the session know of them, the limits and the nodes
\* are recorded, and the report follows what happened (main, _run, close).
THEOREM Invariant == Spec => []IInv
<1>1. Init => IInv
  BY Initially
<1>2. IInv /\ [Next]_vars => IInv'
  BY Inductive
<1> QED BY <1>1, <1>2, PTL DEF Spec

\* A green exit is earned, for every list of gates: all of them passed, nothing
\* can still write, the limits and the nodes are as before, no file is left and
\* the matrix has its proof (finalize_report, close, publish_matrix_proof).
THEOREM GreenExit == Spec => []GreenIsTrue
<1>1. IInv => GreenIsTrue
  <2> SUFFICES ASSUME IInv, out.exit = "green"
               PROVE  /\ out.passed = Gates /\ out.published = "green" /\ ~s.cancelled /\ ~CouldWrite
                      /\ w.ns0 = "on" => w.ns # "zero"
                      /\ w.mode0 = "narrow" => w.mode # "search"
                      /\ \A x \in Nodes : w.node[x] # "ours"
                      /\ f.tree \in {"none", "removed"}
                      /\ "local-signing-matrix" \in Gates => out.proof
    BY DEF GreenIsTrue
  <2>1. at.pc = "done" /\ out.ok /\ ~s.failure
    BY DEF IInv, Reported
  <2>2. /\ at.ctx = "end" /\ ~CouldWrite /\ out.published = "green"
        /\ "local-signing-matrix" \in out.passed => out.proof
    BY <2>1 DEF IInv, Reported
  <2>3. out.passed = Gates
    BY <2>2 DEF IInv, Counted
  <2>4. /\ ~s.cancelled /\ f.tree \in {"none", "removed"}
        /\ w.ns0 = "on" => w.ns # "zero"
        /\ w.mode0 = "narrow" => w.mode # "search"
        /\ \A x \in Nodes : w.node[x] # "ours"
    BY <2>1 DEF IInv, Undone, Ending
  <2> QED BY <2>2, <2>3, <2>4
<1> QED BY <1>1, Invariant, PTL

\* On linux no process of the reserved identity ever runs while user namespaces
\* are allowed, and no produced tree is touched while one may write it, for
\* every verification (_assert_userns, _close_userns_boundary, ensure_idle).
THEOREM Confinement == Spec => []ProcessesStayConfined
<1>1. IInv => ProcessesStayConfined
  BY DEF IInv, Fenced, ProcessesStayConfined
<1> QED BY <1>1, Invariant, PTL

\* A gate passes and the proof appears only after processes that succeeded, with
\* none left, and with checked files that are still the controller's own: at
\* every step of every verification (execute_pipeline, publish_matrix_proof).
THEOREM Passes == Spec => PassIsTrue
<1> DEFINE Step == out'.passed # out.passed \/ (out'.proof /\ ~out.proof)
                     => /\ ~seen.stained /\ ~CouldWrite
                        /\ at.op = "verify" => f.tree = "ours"
<1>1. ASSUME IInv, [Next]_vars
      PROVE  Step
  <2>1. /\ Types /\ Planned /\ Quiet /\ Stained /\ Earned
    BY <1>1 DEF IInv
  <2>2. OpsHere
    BY <2>1, OpsOfPlan
  <2>3. CASE GatePass
    <3>1. at.pc = "next" /\ at.ctx = "gate"
      BY <2>1, <2>3, GateForm
    <3> QED BY <2>1, <2>2, <3>1 DEF Quiet, Stained, Earned, OpsHere, GateOps, Working, CouldWrite
  <2>4. CASE Proof
    <3>1. at.pc = "do" /\ at.op = "proof"
      BY <2>4 DEF Proof, Doing
    <3>2. at.ctx = "gate"
      BY <2>1, <2>2, <3>1 DEF Types, Places, Contexts, Planned, OpsHere, LinuxOps, MacOps
    <3> QED BY <2>1, <3>1, <3>2 DEF Quiet, Stained, Working, CouldWrite
  <2>5. CASE Publish
    BY <2>1, <2>5, PublishForm
  <2>6. CASE OpenFails \/ AllRemoved \/ Caught \/ Escaped \/ Finish
    BY <2>1, <2>6, SameReport
  <2> QED BY <1>1, <2>3, <2>4, <2>5, <2>6, KeepsReport
<1>2. IInv /\ [Next]_vars => [Step]_vars
  BY <1>1
<1> QED BY <1>2, Invariant, PTL DEF Spec, PassIsTrue

\* What others put in place of the session's own is left alone by every step: a
\* foreign node, a drifted limit or mode, a changed file (CloseNs, CloseHome and
\* CloseFiles: _close_userns_boundary, _close_home_boundary, the checked files).
THEOREM Foreign == Spec => ForeignStays
<1> DEFINE Left ==
      /\ \A x \in Nodes : w.node[x] = "foreign" => w'.node[x] = "foreign"
      /\ at.pc = "c_ns" /\ w.ns = "drift" => w'.ns = "drift"
      /\ at.pc = "c_home" /\ w.mode = "drift" => w'.mode = "drift"
<1> DEFINE Kept == f.tree \in {"changed", "partial"} => f'.tree # "removed"
<1>1. ASSUME IInv, [Next]_vars
      PROVE  Left
  <2>1. Types
    BY <1>1 DEF IInv
  <2>2. CASE MakeNode
    BY <2>1, <2>2, NodeForm
  <2>3. CASE CloseNs
    BY <2>1, <2>3, NsForm
  <2>4. CASE CloseHome
    BY <2>1, <2>4, HomeStepForm
  <2>5. CASE Drift
    BY <2>1, <2>5, DriftForm
  <2>6. CASE NsWrite
    BY <2>1, <2>6, WriteForm
  <2>7. CASE HomePin
    BY <2>1, <2>7, PinForm
  <2>8. CASE Reap
    BY <2>1, <2>8, ReapForm DEF SameMachine
  <2>9. CASE LoopSweeps
    BY <2>1, <2>9, LoopSweepsForm DEF Types, Worlds
  <2>10. CASE RunWait
    BY <2>1, <2>10, WaitForm DEF SameMachine
  <2>11. CASE RunDispose
    BY <2>1, <2>11, DisposeForm DEF Types, Worlds
  <2>12. CASE Small
    BY <2>1, <2>12, SmallForm DEF SameMachine
  <2>13. CASE CloseBegin
    BY <2>1, <2>13, BeginForm DEF SameMachine
  <2>14. CASE Alarm
    BY <2>1, <2>14, AlarmForm DEF SameMachine
  <2>15. CASE Spawn \/ Sentinel \/ SignalControl \/ OpenSession
    BY <2>1, <2>15 DEF Types, Worlds, Spawn, Sentinel, SignalControl, OpenSession
  <2>16. CASE SmallRaises
    BY <2>1, <2>16 DEF Types, Worlds, SmallRaises
  <2>17. CASE Lost
    BY <2>1, <2>17 DEF Types, Worlds, Lost
  <2>18. CASE SubjectEnds
    BY <2>1, <2>18 DEF Types, Worlds, SubjectEnds
  <2>19. CASE SubjectForks
    BY <2>1, <2>19 DEF Types, Worlds, SubjectForks
  <2>20. CASE NamespaceEnds \/ KinEnds \/ OwnerLaunches \/ HelperEnds \/ Late
    BY <2>1, <2>20 DEF Types, Worlds, NamespaceEnds, KinEnds, OwnerLaunches, HelperEnds, Late
  <2>21. CASE w' = w
    BY <2>21
  <2> QED BY <1>1, <2>2, <2>3, <2>4, <2>5, <2>6, <2>7, <2>8, <2>9, <2>10, <2>11, <2>12, <2>13, <2>14,
       <2>15, <2>16, <2>17, <2>18, <2>19, <2>20, <2>21, KeepsWorld
<1>2. ASSUME IInv, [Next]_vars
      PROVE  Kept
  <2>1. Types
    BY <1>2 DEF IInv
  <2>2. CASE CreateFiles
    BY <2>1, <2>2 DEF Types, Files, CreateFiles
  <2>3. CASE ReuseFiles
    BY <2>1, <2>3 DEF Types, Files, ReuseFiles
  <2>4. CASE VerifyFiles
    BY <2>1, <2>4 DEF Types, Files, VerifyFiles
  <2>5. CASE CloseFiles
    BY <2>1, <2>5, FilesForm
  <2>6. CASE SubjectMeddles
    BY <2>1, <2>6 DEF Types, Files, SubjectMeddles
  <2> QED BY <1>2, <2>2, <2>3, <2>4, <2>5, <2>6, KeepsFiles
<1>3. IInv /\ [Next]_vars => [Left /\ Kept]_vars
  BY <1>1, <1>2
<1> QED BY <1>3, Invariant, PTL DEF Spec, ForeignStays

=============================================================================
