--------------------------- MODULE ReleaseLifecycle ---------------------------
(***************************************************************************)
(* One application version on its way through the Stores: workflow runs    *)
(* that create a candidate, promote it to external testers and submit it   *)
(* to production, the evidence they leave behind (workflow.py,             *)
(* provenance.py), and the guards with which a later attempt or a recovery *)
(* run decides whether work remains (cli.py, stores.py, the lanes).        *)
(*                                                                         *)
(* A document is the record of what the code binds into it: where the code *)
(* compares digests of documents, the model compares the documents.  An    *)
(* authority is a run and an attempt.  A binary is named by the attempt    *)
(* that built it.                                                          *)
(*                                                                         *)
(* External: GitHub runs one attempt at a time (the concurrency group of   *)
(* the workflows), a finished run can be re-run as a whole or from its     *)
(* failed jobs, a name can be uploaded once in a run, an artifact can be   *)
(* deleted or expire, and an attempt can lose its job at any step.  The    *)
(* Stores keep what they accepted; what Apple accepted is not visible at   *)
(* once; Apple's reviewers decide when external testers get a build.       *)
(*                                                                         *)
(* A promotion on Google Play is one edit.  To Apple it is many requests:  *)
(* the creates, which an attempt may send only once, stand here for one,   *)
(* and the changes of what exists, which any attempt may send again, for   *)
(* another.  The time of an upload is its number in the order of uploads.  *)
(***************************************************************************)
EXTENDS Naturals, Sequences

CONSTANTS
  Commits,     \* the commits of the application
  Branch,      \* for each stage, the heads its configured branch has had
  Tree,        \* the tree of a commit
  Ahead,       \* pairs of a commit and a descendant of it
  MaxAttempts, \* bound: attempts of all runs together
  MaxFaults,   \* bound: steps that fail and jobs that are lost
  MaxLost,     \* bound: artifacts deleted or expired
  MaxStray     \* bound: dispatches that cannot resolve, re-runs of a success

ASSUME BoundAssumption ==
  {MaxAttempts, MaxFaults, MaxLost, MaxStray} \subseteq Nat

VARIABLES
  platform,    \* the platform of the release
  runs,        \* the dispatches: stage, head, selectors, recovery grant
  attempts,    \* for each run, what its attempts came to
  artifacts,   \* the artifacts of all runs
  active,      \* the run whose attempt is running, or 0
  job,         \* the phase of its job and the documents on its runner
  store,       \* the Store's state of this version: its build, of which upload;
               \* the uploads so far, those on their way; the promotions whose
               \* creates are pending, visible, whose changes are made; the review
  sends, issued, persisted,   \* observers: mutations, finals and intents ever
  total, faults, lost, stray  \* bound counters

ghost == <<sends, issued, persisted>>
counters == <<total, faults, lost, stray>>
vars == <<platform, runs, attempts, artifacts, active, job, store, ghost, counters>>

\* No document, no binary.
None == [none |-> TRUE]

Stages == {"candidate", "external", "production"}

ASSUME BranchAssumption == \A stage \in Stages : Branch[stage] \subseteq Commits

Authority == [run : 1 .. MaxAttempts, attempt : 1 .. MaxAttempts]
Outcomes == {"mutated", "reconciled", "already-present", "operator"}
Grants == {"none", "recover", "retry"}
Phases == {"idle", "resolve", "build", "store", "prepare", "persist", "execute",
           "settle", "package"}

Idle == [phase |-> "idle", intent |-> None, outcome |-> "none"]

(***************************************************************************)
(* Documents and artifacts.                                                *)
(***************************************************************************)
Found(r, kind) == {a \in artifacts : a.run = r /\ a.kind = kind}
Has(r, kind) == Found(r, kind) # {}
Unexpired(r, kind) == \E a \in Found(r, kind) : ~a.expired
Doc(r, kind) == (CHOOSE a \in Found(r, kind) : TRUE).doc
Expired(r, kind) == \E a \in Found(r, kind) : a.expired

\* An artifact is created once in a run; a second upload of the name is refused.
Uploaded(r, kind, doc) ==
  artifacts' = artifacts \cup {[run |-> r, kind |-> kind, doc |-> doc, expired |-> FALSE]}

\* The structure of an intent and of a final; predecessors by stage.
IntentType(i) ==
  /\ DOMAIN i = {"stage", "by", "source", "binary", "cand", "ext", "seen", "present"}
  /\ i.stage \in Stages /\ i.by \in Authority /\ i.source \in Commits
  /\ i.binary \in Authority /\ i.present \in BOOLEAN
  /\ i.seen \in [uploads : Nat, created : BOOLEAN, patched : BOOLEAN]
  /\ (i.cand = None) = (i.stage = "candidate")
  /\ (i.ext = None) = (i.stage # "production")

FinalType(f) ==
  /\ DOMAIN f = {"intent", "by", "outcome", "ready"}
  /\ IntentType(f.intent) /\ f.by \in Authority /\ f.outcome \in Outcomes
  /\ f.ready \in BOOLEAN

\* Only a promotion may find its target in the Store already, and a Play
\* production draft may not: the intent cannot adopt what it did not authorize.
PresentAllowed(i) ==
  i.present => i.stage = "external" \/ (platform = "ios" /\ i.stage = "production")

OutcomeAllowed(f) ==
  f.outcome = "already-present" =>
    f.intent.stage = "external" \/ (platform = "ios" /\ f.intent.stage = "production")

\* A Play receipt proves that the release is available to its testers (or a
\* draft); an Apple receipt may say that the review is still pending.
StateAllowed(f) == platform = "android" => f.ready

CandidateSource(i) == IF i.stage = "candidate" THEN i.source ELSE i.cand.intent.source

SourcePolicy(stage, candidate, operation) ==
  IF stage = "production"
  THEN <<candidate, operation>> \in Ahead \/ Tree[candidate] = Tree[operation]
  ELSE candidate = operation

\* A retained intent must agree with the original artifact while that exists.
Standalone(i) ==
  \A a \in Found(i.by.run, "intent") : a.expired \/ a.doc = i

Eligible(f) ==
  IF platform = "android" THEN f.outcome \in {"mutated", "reconciled"} ELSE f.ready

BoundIntent(i) ==
  /\ PresentAllowed(i) /\ SourcePolicy(i.stage, CandidateSource(i), i.source)
  /\ Standalone(i)

\* What an outcome says about who executed the operation.
RecoveryOutcome(f) ==
  /\ f.outcome = "operator" => platform = "ios" /\ f.by.run # f.intent.by.run
  /\ platform = "ios" /\ f.intent.stage = "candidate" /\ f.outcome \in {"mutated", "reconciled"}
       => f.by = f.intent.by

\* Nobody executes before the authorization.
ExecutedAfter(f) == f.by.run = f.intent.by.run => f.by.attempt >= f.intent.by.attempt

BoundFinal(f) ==
  /\ BoundIntent(f.intent) /\ ExecutedAfter(f)
  /\ OutcomeAllowed(f) /\ StateAllowed(f) /\ RecoveryOutcome(f)

Chain(i) ==
  /\ i.cand # None => BoundFinal(i.cand)
  /\ i.ext # None => /\ BoundFinal(i.ext) /\ i.ext.intent.cand = i.cand
                     /\ Eligible(i.ext)

VerifiedIntent(i) == BoundIntent(i) /\ Chain(i)
VerifiedFinal(f) == BoundFinal(f) /\ Chain(f.intent)

(***************************************************************************)
(* The resolver: what attempt n of run r, dispatched as d, may do.  The    *)
(* candidate workflow resolves twice, in a job of its own and again in the *)
(* Store job, which knows the digest of the build.                         *)
(***************************************************************************)
Lookups(r, d) == {r} \cup IF d.recovery = 0 THEN {} ELSE {d.recovery}
Original(r, d) == IF d.recovery = 0 THEN r ELSE d.recovery
Finals(r, d) == {q \in Lookups(r, d) : Has(q, "evidence")}

RecoveryContext(r, d, n, i) ==
  IF i.by.run = r THEN d.recovery = 0 /\ n >= i.by.attempt ELSE d.recovery = i.by.run

CompleteContext(r, d, n, f) ==
  IF f.by.run = r
  THEN RecoveryContext(r, d, n, f.intent) /\ n >= f.by.attempt
  ELSE d.recovery = f.by.run /\ f.intent.by.run # r

Hints(d, i) ==
  /\ d.cand # 0 => i.cand # None /\ i.cand.by.run = d.cand
  /\ d.ext # 0 => i.ext # None /\ i.ext.by.run = d.ext

NoReplacement(r, d) == d.recovery # 0 => ~Unexpired(r, "intent")

\* Final evidence exists in this run or in the run it recovers, not in both.
Complete(r, d, n) ==
  \E q \in Lookups(r, d) :
    /\ Finals(r, d) = {q} /\ Unexpired(q, "evidence")
    /\ LET f == Doc(q, "evidence") IN
         /\ f.intent.stage = d.stage /\ VerifiedFinal(f)
         /\ CompleteContext(r, d, n, f) /\ Hints(d, f.intent)
    /\ q # r => NoReplacement(r, d)

\* The original authorization survives: continue exactly that operation.
Resume(r, d, n) ==
  LET o == Original(r, d) IN
    /\ Finals(r, d) = {} /\ Unexpired(o, "intent") /\ NoReplacement(r, d)
    /\ LET i == Doc(o, "intent") IN
         /\ i.stage = d.stage /\ VerifiedIntent(i)
         /\ RecoveryContext(r, d, n, i) /\ Hints(d, i)
         /\ d.stage = "candidate" =>
              Unexpired(i.by.run, "handoff") /\ Doc(i.by.run, "handoff") = i.binary

Unauthorized(r, d) ==
  Finals(r, d) = {} /\ ~Has(Original(r, d), "intent") /\ d.recovery = 0

\* Mutant: any failed Store job counts as one that executed nothing.
NoPriorExecution_AnyFailure(r, n) == \A m \in 1 .. n - 1 : attempts[r][m].store = "failure"

\* Every earlier attempt failed in one of the gates before the execution, and
\* its execution is recorded as skipped (a cancelled job is no such evidence).
NoPriorExecution(r, n) ==
  \A m \in 1 .. n - 1 : attempts[r][m].store = "failure" /\ attempts[r][m].gate

BuildHandoffJob(r, binary) ==
  binary.run = r /\ attempts[r][binary.attempt].build = "ok"

PrepareCandidate(r, d, n, digest) ==
  /\ Unauthorized(r, d) /\ Unexpired(r, "handoff")
  /\ digest # None /\ Doc(r, "handoff") = digest
  /\ NoPriorExecution(r, n) /\ BuildHandoffJob(r, digest)

Fresh(r, d, n) ==
  d.stage = "candidate" /\ Unauthorized(r, d) /\ ~Has(r, "handoff") /\ n = 1

PreparePromotion(r, d, n) ==
  /\ d.stage # "candidate" /\ Unauthorized(r, d) /\ n = 1
  /\ d.cand # 0 /\ Unexpired(d.cand, "evidence")
  /\ LET c == Doc(d.cand, "evidence") IN
       /\ c.intent.stage = "candidate" /\ VerifiedFinal(c)
       /\ SourcePolicy(d.stage, c.intent.source, d.head)
       /\ d.stage = "production" =>
            /\ d.ext # 0 /\ Unexpired(d.ext, "evidence")
            /\ LET x == Doc(d.ext, "evidence") IN
                 /\ x.intent.stage = "external" /\ VerifiedFinal(x)
                 /\ x.intent.cand = c /\ Eligible(x)

\* The resolver's decision in a Store job; in the resolve job of a candidate
\* a handoff without an intent is an error and only there a build may start.
Resolution(r, d, n, digest) ==
  IF Complete(r, d, n) THEN "complete"
  ELSE IF Resume(r, d, n) THEN "resume"
  ELSE IF (IF d.stage = "candidate" THEN PrepareCandidate(r, d, n, digest)
                                    ELSE PreparePromotion(r, d, n)) THEN "prepare"
  ELSE "error"

ResolveJob(r, d, n) ==
  IF Complete(r, d, n) THEN "complete"
  ELSE IF Resume(r, d, n) THEN "resume"
  ELSE IF Fresh(r, d, n) THEN "fresh"
  ELSE "error"

First(r, d) == IF d.stage = "candidate" THEN ResolveJob(r, d, 1) ELSE Resolution(r, d, 1, None)

(***************************************************************************)
(* Dispatch, re-runs, and the end of an attempt.                           *)
(***************************************************************************)
Dispatch == [stage : Stages, head : Commits, recovery : 0 .. MaxAttempts, cand : 0 .. MaxAttempts,
             ext : 0 .. MaxAttempts, grant : Grants]
NewAttempt == [resolve |-> "none", build |-> "none", digest |-> None, store |-> "none",
               gate |-> FALSE]
FirstPhase(d) == IF d.stage = "candidate" THEN "resolve" ELSE "store"

Init ==
  /\ platform \in {"android", "ios"}
  /\ runs = <<>> /\ attempts = <<>> /\ artifacts = {} /\ active = 0 /\ job = Idle
  /\ store = [build |-> None, uploaded |-> 0, uploads |-> 0, arriving |-> {}, pending |-> {},
              created |-> {}, patched |-> {}, approved |-> FALSE]
  /\ sends = {} /\ issued = {} /\ persisted = {} /\ total = 0 /\ faults = 0 /\ lost = 0 /\ stray = 0

Start(r, phase) == active' = r /\ job' = [Idle EXCEPT !.phase = phase]

\* The inputs the workflow of a stage has, with the runs there are to name.
Inputs(stage) ==
  [stage : {stage}, head : Branch[stage], recovery : 0 .. Len(runs),
   cand : IF stage = "candidate" THEN {0} ELSE 0 .. Len(runs),
   ext : IF stage = "production" THEN 0 .. Len(runs) ELSE {0},
   grant : IF platform = "android" THEN {"none"}
           ELSE IF stage = "candidate" THEN Grants ELSE {"none", "retry"}]

\* A grant is typed by the operator after an earlier attempt has printed what
\* it names: the intent, and the build to adopt if there is one.
Granted(d) ==
  d.grant # "none" =>
    /\ d.recovery # 0 /\ Has(d.recovery, "intent") /\ ~Has(d.recovery, "evidence")
    /\ d.grant = "recover" => store.build # None

DispatchRun(d) ==
  LET r == Len(runs) + 1 IN
    /\ Granted(d)
    /\ First(r, d) = "error" => stray < MaxStray
    /\ stray' = IF First(r, d) = "error" THEN stray + 1 ELSE stray
    /\ runs' = Append(runs, d) /\ attempts' = Append(attempts, <<NewAttempt>>)
    /\ Start(r, FirstPhase(d))
    /\ total' = total + 1
    /\ UNCHANGED <<platform, artifacts, store, ghost, faults, lost>>

CanRerun(r) == active = 0 /\ r \in DOMAIN runs /\ total < MaxAttempts

\* Every job runs again, and none sees an output of the earlier attempts.
RerunAll(r) ==
  /\ CanRerun(r)
  /\ attempts[r][Len(attempts[r])].store = "success" => stray < MaxStray
  /\ stray' = IF attempts[r][Len(attempts[r])].store = "success" THEN stray + 1 ELSE stray
  /\ attempts' = [attempts EXCEPT ![r] = Append(@, NewAttempt)]
  /\ Start(r, FirstPhase(runs[r]))
  /\ total' = total + 1
  /\ UNCHANGED <<platform, runs, artifacts, store, ghost, faults, lost>>

\* The failed jobs run again with the outputs of the jobs that succeeded.
RerunFailed(r) ==
  LET last == attempts[r][Len(attempts[r])]
      kept == [NewAttempt EXCEPT !.resolve = last.resolve, !.digest = last.digest]
  IN
    /\ CanRerun(r) /\ runs[r].stage = "candidate" /\ last.resolve \notin {"none", "error"}
    /\ \/ /\ last.resolve = "fresh" /\ last.digest = None
          /\ Start(r, "build")
       \/ /\ last.resolve = "fresh" => last.digest # None
          /\ last.store = "failure" /\ Start(r, "store")
    /\ attempts' = [attempts EXCEPT ![r] = Append(@, kept)]
    /\ total' = total + 1
    /\ UNCHANGED <<platform, runs, artifacts, store, ghost, faults, lost, stray>>

N == Len(attempts[active])
Now == attempts[active][N]
D == runs[active]
Me == [run |-> active, attempt |-> N]
Set(changed) == attempts' = [attempts EXCEPT ![active][N] = changed]

Stop == active' = 0 /\ job' = Idle
To(phase) == job' = [job EXCEPT !.phase = phase] /\ UNCHANGED active

\* A step fails and the rest of the job is skipped.  A failed gate before the
\* execution leaves evidence that nothing was executed.
Fail ==
  LET gate == job.phase \in {"prepare", "persist"} IN
    CASE job.phase = "resolve" -> Set([Now EXCEPT !.resolve = "error"])
      [] job.phase = "build" -> Set([Now EXCEPT !.build = "failed"])
      [] OTHER -> Set([Now EXCEPT !.store = "failure", !.gate = gate])

StepFails ==
  /\ active # 0 /\ faults < MaxFaults /\ faults' = faults + 1
  /\ Fail /\ Stop
  /\ UNCHANGED <<platform, runs, artifacts, store, ghost, total, lost, stray>>

\* The runner is lost or the attempt is cancelled: no such evidence.
JobLost ==
  /\ active # 0 /\ faults < MaxFaults /\ faults' = faults + 1
  /\ Set(CASE job.phase = "resolve" -> [Now EXCEPT !.resolve = "error"]
           [] job.phase = "build" -> [Now EXCEPT !.build = "failed"]
           [] OTHER -> [Now EXCEPT !.store = "failure"])
  /\ Stop
  /\ UNCHANGED <<platform, runs, artifacts, store, ghost, total, lost, stray>>

(***************************************************************************)
(* The jobs of an attempt.                                                 *)
(***************************************************************************)
\* The resolve job of a candidate: its mode decides whether a build starts.
RunResolveJob ==
  LET mode == ResolveJob(active, D, N) IN
    /\ job.phase = "resolve" /\ Set([Now EXCEPT !.resolve = mode])
    /\ IF mode = "error" THEN Stop ELSE To(IF mode = "fresh" THEN "build" ELSE "store")
    /\ UNCHANGED <<platform, runs, artifacts, store, ghost, counters>>

\* The build job: a new signed binary, uploaded as the run's handoff.  Its
\* digest is an output of the job, which exists only if the job succeeds.
Build ==
  /\ job.phase = "build"
  /\ IF Has(active, "handoff")
     THEN Set([Now EXCEPT !.build = "failed"]) /\ Stop /\ UNCHANGED <<artifacts, faults>>
     ELSE /\ Uploaded(active, "handoff", Me)
          /\ \/ Set([Now EXCEPT !.build = "ok", !.digest = Me]) /\ To("store")
                /\ UNCHANGED faults
             \/ /\ faults < MaxFaults /\ faults' = faults + 1
                /\ Set([Now EXCEPT !.build = "failed"]) /\ Stop
  /\ UNCHANGED <<platform, runs, store, ghost, total, lost, stray>>

\* What the preparation observes of the Store, with the Store's time.
Snapshot(stage) ==
  [uploads |-> store.uploads, created |-> stage \in store.created,
   patched |-> stage \in store.patched]

\* The documents a new intent is built from, as the resolver downloaded them;
\* the preparation fills in what it observes.
Draft ==
  LET c == IF D.cand = 0 THEN None ELSE Doc(D.cand, "evidence")
      x == IF D.ext = 0 THEN None ELSE Doc(D.ext, "evidence")
  IN [stage |-> D.stage, by |-> Me, source |-> D.head,
      binary |-> IF D.stage = "candidate" THEN Doc(active, "handoff") ELSE c.intent.binary,
      cand |-> c, ext |-> x, seen |-> Snapshot(D.stage), present |-> FALSE]

\* The Store job resolves again, and stages what it found.
RunStoreJob ==
  LET mode == Resolution(active, D, N, Now.digest) IN
    /\ job.phase = "store"
    /\ CASE mode = "error" -> Set([Now EXCEPT !.store = "failure"]) /\ Stop
         [] mode = "complete" -> Set([Now EXCEPT !.store = "success"]) /\ Stop
         [] mode = "prepare" ->
              /\ job' = [job EXCEPT !.phase = "prepare", !.intent = Draft]
              /\ UNCHANGED <<attempts, active>>
         [] OTHER ->
              /\ job' = [job EXCEPT !.phase = "execute",
                                    !.intent = Doc(Original(active, D), "intent")]
              /\ UNCHANGED <<attempts, active>>
    /\ UNCHANGED <<platform, runs, artifacts, store, ghost, counters>>

(***************************************************************************)
(* Preparation: observe the Store, build the intent, persist it.           *)
(***************************************************************************)
Final(stage) == stage \in store.created /\ stage \in store.patched
Target(i) == IF i.stage = "candidate" THEN store.build # None ELSE Final(i.stage)

\* What the preparation refuses to authorize: also a part of an App Store
\* version, which belongs to the intent that began it.
Admissible(i) ==
  CASE i.stage = "candidate" -> store.build = None
    [] i.stage = "external" -> store.build # None
    [] OTHER -> /\ platform = "android" => Final("external") /\ ~Final("production")
                /\ platform = "ios" /\ "production" \in store.created => Final("production")
                /\ store.build # None

\* Mutant: the version in the Store is compared, not the binary.
SameBuild_ByVersion(i) == i.stage # "candidate" => store.build # None

\* An Android lane finds the binary it works on by its digest in the Store.
SameBuild(i) == platform = "android" => store.build = i.binary

Prepare ==
  /\ job.phase = "prepare" /\ D.recovery = 0
  /\ IF Admissible(job.intent)
     THEN /\ job' = [job EXCEPT !.phase = "persist", !.intent.present = Target(job.intent),
                                !.intent.seen = Snapshot(job.intent.stage)]
          /\ UNCHANGED <<active, attempts>>
     ELSE Fail /\ Stop
  /\ UNCHANGED <<platform, runs, artifacts, store, ghost, counters>>

\* Seal, attest and upload the intent.  A step that uploads and then fails
\* leaves the artifact to the attempts that follow.
Persist ==
  /\ job.phase = "persist"
  /\ IF ~VerifiedIntent(job.intent) \/ Has(active, "intent")
     THEN Fail /\ Stop /\ UNCHANGED <<artifacts, persisted, faults>>
     ELSE /\ Uploaded(active, "intent", job.intent)
          /\ persisted' = persisted \cup {job.intent}
          /\ \/ To("execute") /\ UNCHANGED <<attempts, faults>>
             \/ faults < MaxFaults /\ faults' = faults + 1 /\ Fail /\ Stop
  /\ UNCHANGED <<platform, runs, store, sends, issued, total, lost, stray>>

(***************************************************************************)
(* Execution.                                                              *)
(***************************************************************************)
\* Some other attempt may have sent this operation before.
Prior(i, me) == me # i.by

\* A candidate additionally needs its durable original at this very moment.
Authenticated(i) ==
  i.stage = "candidate" =>
    /\ Unexpired(i.by.run, "intent") /\ Doc(i.by.run, "intent") = i /\ VerifiedIntent(i)

ValidContext(i, me, d) ==
  IF i.by.run = me.run THEN d.recovery = 0 /\ me.attempt >= i.by.attempt
                       ELSE d.recovery = i.by.run

\* The target of the operation is in the Store already.
AdoptAs(i) ==
  IF i.present THEN "already-present"
  ELSE IF platform = "ios" /\ i.stage = "candidate" THEN "operator" ELSE "reconciled"

\* Mutant: the window begins with this readback.
InWindow_Now(i) == platform = "ios" /\ i.stage = "candidate" => store.uploaded > store.uploads

\* Of the builds of its version and number an iOS candidate accepts one that
\* was uploaded after its preparation (and not after this readback).
InWindow(i) == platform = "ios" /\ i.stage = "candidate" => store.uploaded > i.seen.uploads

MayAdopt(i, me, d) ==
  /\ Target(i) /\ SameBuild(i) /\ InWindow(i)
  /\ IF platform = "ios" /\ i.stage = "candidate"
     THEN d.recovery # 0 /\ d.grant = "recover"
     ELSE i.present \/ Prior(i, me)

\* Apple may still be working on what an earlier attempt sent: only a fresh
\* recovery with a grant of its own may send it again.
FreshGrant(i, me, d) == d.grant = "retry" /\ me.attempt = 1 /\ d.recovery = i.by.run

\* The promotions that take Apple several requests.
Promoting(i) == platform = "ios" /\ i.stage # "candidate"

\* The target of an upload or of a Play edit is absent.
MaySend(i, me, d) ==
  /\ ~Promoting(i) /\ ~Target(i)
  /\ i.stage # "candidate" => SameBuild(i)
  /\ i.stage = "production" /\ platform = "android" => Final("external")
  /\ platform = "ios" /\ Prior(i, me) => FreshGrant(i, me, d)

\* Mutant: a recovery creates what is missing without asking.
MayWrite_Ungranted(i, me, d) ==
  Promoting(i) /\ ~Target(i) /\ (~Prior(i, me) => Snapshot(i.stage) = i.seen)

\* The first execution of an Apple promotion wants the state it was prepared
\* on.  A later one wants a grant if a create is missing, and none otherwise.
MayWrite(i, me, d) ==
  /\ Promoting(i) /\ ~Target(i)
  /\ IF Prior(i, me) THEN i.stage \in store.created \/ FreshGrant(i, me, d)
                     ELSE Snapshot(i.stage) = i.seen

Guarded(i, me, d) == Authenticated(i) /\ ValidContext(i, me, d) /\ VerifiedIntent(i)

\* Apple numbers and shows an upload later; Google Play commits the edit.
Send(i) ==
  store' = CASE i.stage # "candidate" ->
                  [store EXCEPT !.created = @ \cup {i.stage}, !.patched = @ \cup {i.stage}]
             [] i.stage = "candidate" /\ platform = "ios" ->
                  [store EXCEPT !.uploads = @ + 1,
                                !.arriving = @ \cup {[binary |-> i.binary, at |-> store.uploads + 1]}]
             [] OTHER -> [store EXCEPT !.build = i.binary]

Sent(i, kind) == sends' = sends \cup {[intent |-> i, by |-> Me, kind |-> kind]}

\* The outcome of an attempt that created what it was to create.
Made(i) == IF platform = "ios" /\ Prior(i, Me) THEN "operator" ELSE "mutated"

\* Adopt, or send, or arm the creates of a promotion, or refuse.
Execute ==
  LET i == job.intent IN
    /\ job.phase = "execute"
    /\ \/ /\ Guarded(i, Me, D) /\ MayAdopt(i, Me, D)
          /\ job' = [job EXCEPT !.phase = "package", !.outcome = AdoptAs(i)]
          /\ UNCHANGED <<active, attempts, store, sends>>
       \/ /\ Guarded(i, Me, D) /\ MaySend(i, Me, D)
          /\ Send(i) /\ Sent(i, "create")
          /\ job' = [job EXCEPT !.phase = "settle", !.outcome = Made(i)]
          /\ UNCHANGED <<active, attempts>>
       \/ /\ Guarded(i, Me, D) /\ MayWrite(i, Me, D)
          /\ To("settle") /\ UNCHANGED <<attempts, store, sends>>
       \/ /\ ~(Guarded(i, Me, D) /\ (MayAdopt(i, Me, D) \/ MaySend(i, Me, D) \/ MayWrite(i, Me, D)))
          /\ Fail /\ Stop /\ UNCHANGED <<store, sends>>
    /\ UNCHANGED <<platform, runs, artifacts, issued, persisted, counters>>

\* This attempt waits for a create of its own.
Created(i) == [intent |-> i, by |-> Me, kind |-> "create"] \in sends
Awaited(i) == Created(i) /\ i.stage \notin store.created

\* A create that is missing is sent once by an attempt.
Create ==
  LET i == job.intent IN
    /\ job.phase = "settle" /\ Promoting(i) /\ i.stage \notin store.created /\ ~Created(i)
    /\ store' = [store EXCEPT !.pending = @ \cup {i.stage}]
    /\ Sent(i, "create") /\ job' = [job EXCEPT !.outcome = Made(i)]
    /\ UNCHANGED <<platform, runs, attempts, artifacts, active, issued, persisted, counters>>

\* A change of what exists needs no grant; the last one of a production
\* submits what was created.
Patch ==
  LET i == job.intent IN
    /\ job.phase = "settle" /\ Promoting(i) /\ i.stage \notin store.patched /\ ~Awaited(i)
    /\ i.stage = "production" => i.stage \in store.created
    /\ store' = [store EXCEPT !.patched = @ \cup {i.stage}]
    /\ Sent(i, "patch")
    /\ job' = [job EXCEPT !.outcome = IF @ = "none" THEN "mutated" ELSE @]
    /\ UNCHANGED <<platform, runs, attempts, artifacts, active, issued, persisted, counters>>

\* Read the Store back after the mutation.
Settle ==
  LET i == job.intent IN
    /\ job.phase = "settle" /\ Target(i) /\ InWindow(i)
    /\ job' = [job EXCEPT !.phase = "package",
                          !.outcome = IF @ = "none" THEN AdoptAs(i) ELSE @]
    /\ UNCHANGED <<platform, runs, attempts, artifacts, active, store, ghost, counters>>

\* The readback gives up: what was sent is still not visible, or the build
\* that is was uploaded before this operation was prepared.
SettleTimeout ==
  /\ job.phase = "settle" /\ ~(Target(job.intent) /\ InWindow(job.intent))
  /\ Promoting(job.intent) => Awaited(job.intent)
  /\ Fail /\ Stop
  /\ UNCHANGED <<platform, runs, artifacts, store, ghost, counters>>

\* The receipt, bound to the operation and to the attempt that executed it.
Receipt ==
  [intent |-> job.intent, by |-> Me, outcome |-> job.outcome,
   ready |-> platform = "android" \/ job.intent.stage # "external" \/ store.approved]

\* The raw receipt of the lane names the executor: another run than the
\* authorizing one must be dispatched as its recovery.
RawReceipt(f, d) ==
  /\ f.by.run # f.intent.by.run => d.recovery = f.intent.by.run
  /\ f.by.run = f.intent.by.run => d.recovery = 0
  /\ ExecutedAfter(f) /\ RecoveryOutcome(f) /\ OutcomeAllowed(f)

Package ==
  /\ job.phase = "package"
  /\ IF ~RawReceipt(Receipt, D) \/ ~VerifiedFinal(Receipt) \/ Has(active, "evidence")
     THEN Set([Now EXCEPT !.store = "failure"]) /\ UNCHANGED <<artifacts, issued, faults>>
     ELSE /\ Uploaded(active, "evidence", Receipt) /\ issued' = issued \cup {Receipt}
          /\ \/ Set([Now EXCEPT !.store = "success"]) /\ UNCHANGED faults
             \/ /\ faults < MaxFaults /\ faults' = faults + 1
                /\ Set([Now EXCEPT !.store = "failure"])
  /\ Stop
  /\ UNCHANGED <<platform, runs, store, sends, persisted, total, lost, stray>>

(***************************************************************************)
(* The environment.  It acts at rest, up to the last attempt, and before   *)
(* the steps that observe it: at the other moments of an attempt nothing   *)
(* does, and its steps commute with those of the job.                      *)
(***************************************************************************)
\* The App Store shows an accepted binary; it keeps the first of a version.
Arrive(u) ==
  /\ u \in store.arriving /\ job.phase \in {"idle", "prepare", "execute", "settle"}
  /\ store' = IF store.build = None
              THEN [store EXCEPT !.arriving = @ \ {u}, !.build = u.binary, !.uploaded = u.at]
              ELSE [store EXCEPT !.arriving = @ \ {u}]
  /\ UNCHANGED <<platform, runs, attempts, artifacts, active, job, ghost, counters>>

\* A create that was accepted becomes visible.
Appear(stage) ==
  /\ stage \in store.pending /\ job.phase \in {"idle", "prepare", "execute", "settle"}
  /\ store' = [store EXCEPT !.pending = @ \ {stage}, !.created = @ \cup {stage}]
  /\ UNCHANGED <<platform, runs, attempts, artifacts, active, job, ghost, counters>>

Approve ==
  /\ platform = "ios" /\ Final("external") /\ ~store.approved
  /\ job.phase \in {"idle", "package"}
  /\ store' = [store EXCEPT !.approved = TRUE]
  /\ UNCHANGED <<platform, runs, attempts, artifacts, active, job, ghost, counters>>

\* The execution of an operation reads intents only.
Observed(a) ==
  active = 0 \/ (job.phase = "execute" /\ a.kind = "intent")

Expire(a) ==
  /\ Observed(a) /\ lost < MaxLost /\ lost' = lost + 1 /\ a \in artifacts /\ ~a.expired
  /\ artifacts' = (artifacts \ {a}) \cup {[a EXCEPT !.expired = TRUE]}
  /\ UNCHANGED <<platform, runs, attempts, active, job, store, ghost, total, faults, stray>>

Delete(a) ==
  /\ Observed(a) /\ lost < MaxLost /\ lost' = lost + 1 /\ a \in artifacts
  /\ artifacts' = artifacts \ {a}
  /\ UNCHANGED <<platform, runs, attempts, active, job, store, ghost, total, faults, stray>>

Next ==
  \/ /\ active = 0 /\ total < MaxAttempts
     /\ \E stage \in Stages : \E d \in Inputs(stage) : DispatchRun(d)
  \/ \E r \in 1 .. MaxAttempts : RerunAll(r) \/ RerunFailed(r)
  \/ StepFails \/ JobLost
  \/ RunResolveJob \/ Build \/ RunStoreJob
  \/ Prepare \/ Persist \/ Execute \/ Create \/ Patch \/ Settle \/ SettleTimeout \/ Package
  \/ /\ active # 0 \/ total < MaxAttempts
     /\ \/ \E u \in store.arriving : Arrive(u)
        \/ \E stage \in store.pending : Appear(stage)
        \/ Approve
        \/ \E a \in artifacts : Expire(a) \/ Delete(a)

Spec == Init /\ [][Next]_vars

(***************************************************************************)
(* Properties.                                                             *)
(***************************************************************************)
\* Runs, artifacts and documents have their types; the job exists while active.
TypeOK ==
  /\ runs \in Seq(Dispatch) /\ Len(runs) = Len(attempts) /\ Len(runs) <= MaxAttempts
  /\ active \in 0 .. Len(runs)
  /\ job.phase \in Phases /\ (job.phase = "idle") = (active = 0)
  /\ \A i \in persisted : IntentType(i)
  /\ \A f \in issued : FinalType(f)
  /\ \A a \in artifacts : a.kind = "intent" => a.doc \in persisted
  /\ \A a \in artifacts : a.kind = "evidence" => a.doc \in issued

\* Every Store mutation was authorized by an intent that had been persisted
\* before, and was made by the authorizing run or by a recovery that names it.
AuthorizedMutation ==
  \A s \in sends :
    /\ s.intent \in persisted
    /\ s.by.run # s.intent.by.run => runs[s.by.run].recovery = s.intent.by.run

\* Whatever evidence is deleted or expires, a run never executes two intents:
\* a deleted intent must not look like a safe failure before the mutation.
\* Without recoveries by other runs that is so.
RunExecutesOneIntent ==
  \A s, t \in sends :
    s.by.run = s.intent.by.run /\ t.by.run = s.by.run => s.intent = t.intent

\* The same of every operation a run authorized, whoever executes it.
DeletedIntentIsSafe ==
  \A s, t \in sends : s.intent.by.run = t.intent.by.run => s.intent = t.intent

\* No attempt of a run builds a second binary after one was handed over.
BuiltOnce ==
  \A r \in DOMAIN attempts :
    \A m, n \in DOMAIN attempts[r] :
      attempts[r][m].build = "ok" /\ attempts[r][n].build = "ok" => m = n

\* Nothing reaches production that external testers could not install.
TestedBeforeProduction ==
  Final("production") => Final("external") /\ (platform = "ios" => store.approved)

\* On Google Play the evidence of a candidate names the bundle the Store has.
EvidenceMatchesStore ==
  platform = "android" => \A f \in issued : store.build = f.intent.binary

\* The binary of an iOS candidate, and what a promotion creates at Apple, is
\* sent a second time only with a grant of its own.  (Changes of what exists
\* are sent again without one.)
SentOnceUnlessGranted ==
  platform = "ios" =>
    \A s, t \in sends :
      s.kind = "create" /\ t.kind = "create" /\ s.intent = t.intent /\ s # t =>
        \E u \in {s, t} : runs[u.by.run].grant = "retry" /\ u.by.attempt = 1

\* Apple took the binary of another authorization under this version and
\* build number.
Overtaken(i) ==
  /\ platform = "ios" /\ i.stage = "candidate" /\ store.build # None
  /\ \E s \in sends : s.intent # i /\ s.intent.stage = "candidate" /\ s.intent.binary = store.build

\* As long as the intent of an operation that was sent survives (and the binary
\* of a candidate, and Apple did not take another one in its place), a new
\* recovery run continues it, and can adopt what was sent, or send the rest:
\* the window of upload dates never refuses the operation its own late build.
SentIsRecoverable ==
  active = 0 =>
    \A s \in sends :
      LET i == s.intent
          r == Len(runs) + 1
          d == [stage |-> i.stage, head |-> i.source, recovery |-> i.by.run,
                cand |-> 0, ext |-> 0, grant |-> "none"]
          kept == /\ Unexpired(i.by.run, "intent") /\ Doc(i.by.run, "intent") = i
                  /\ ~Has(i.by.run, "evidence")
                  /\ i.stage = "candidate" => Unexpired(i.by.run, "handoff")
      IN kept /\ ~Overtaken(i) =>
           /\ Resume(r, d, 1)
           /\ \E g \in Grants :
                LET me == [run |-> r, attempt |-> 1]
                    dg == [d EXCEPT !.grant = g]
                IN /\ Guarded(i, me, dg)
                   /\ MayAdopt(i, me, dg) \/ MaySend(i, me, dg) \/ MayWrite(i, me, dg)

\* An operation is never sent again once its final evidence was issued.
EvidencedNeverSent ==
  [][\A s \in sends' \ sends : \A f \in issued : f.intent # s.intent]_vars
=============================================================================
