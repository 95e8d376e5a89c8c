------------------------ MODULE ReleaseLifecycle_proofs ------------------------
(***************************************************************************)
(* Proofs about ReleaseLifecycle, for all constants.  The inductive        *)
(* invariant is built in layers: the shapes of runs, attempts, artifacts   *)
(* and documents first, then what the documents say of the Store.          *)
(***************************************************************************)
EXTENDS ReleaseLifecycle, SequenceTheorems, TLAPS

Attempt ==
  [resolve : {"none", "error", "complete", "resume", "fresh"},
   build : {"none", "ok", "failed"}, digest : Authority \cup {None},
   store : {"none", "success", "failure"}, gate : BOOLEAN]

\* Runs and attempts.
RunsType ==
  /\ runs \in Seq(Dispatch) /\ attempts \in Seq(Seq(Attempt))
  /\ Len(attempts) = Len(runs) /\ total \in 0 .. MaxAttempts /\ Len(runs) <= total
  /\ \A r \in 1 .. Len(runs) : Len(attempts[r]) \in 1 .. total
  /\ active \in 0 .. Len(runs)

Selected(d) ==
  /\ d.stage = "candidate" => d.cand = 0
  /\ d.stage # "production" => d.ext = 0

\* A promotion names a candidate run once it has been authorized to prepare.
Selectors == \A r \in 1 .. Len(runs) : Selected(runs[r])

Working == {"prepare", "persist", "execute", "settle", "package"}

JobType ==
  /\ job = [phase |-> job.phase, intent |-> job.intent, outcome |-> job.outcome]
  /\ job.phase \in Phases /\ (job.phase = "idle") = (active = 0)
  /\ job.phase \in Working => IntentType(job.intent)
  /\ job.outcome \in Outcomes \cup {"none"} /\ (job.phase = "package" => job.outcome # "none")
  /\ job.phase \in {"resolve", "build"} => runs[active].stage = "candidate"

Kinds == {"handoff", "intent", "evidence"}

DocsType ==
  /\ \A i \in persisted : IntentType(i)
  /\ \A f \in issued : FinalType(f)
  /\ \A a \in artifacts :
       /\ a = [run |-> a.run, kind |-> a.kind, doc |-> a.doc, expired |-> a.expired]
       /\ a.run \in 1 .. Len(runs) /\ a.kind \in Kinds /\ a.expired \in BOOLEAN
       /\ a.kind = "handoff" => a.doc \in Authority
       /\ a.kind = "intent" => a.doc \in persisted
       /\ a.kind = "evidence" => a.doc \in issued

StoreType ==
  /\ platform \in {"android", "ios"}
  /\ store \in [build : Authority \cup {None}, uploaded : Nat, uploads : Nat,
                arriving : SUBSET [binary : Authority, at : Nat], pending : SUBSET Stages,
                created : SUBSET Stages, patched : SUBSET Stages, approved : BOOLEAN]

TInv == RunsType /\ Selectors /\ JobType /\ DocsType /\ StoreType

(***************************************************************************)
(* Lemmas about documents.                                                 *)
(***************************************************************************)
\* None is neither a final nor an authority.
LEMMA NoneIsNoDocument ==
  /\ \A f : FinalType(f) => f # None
  /\ None \notin Authority
<1>1. DOMAIN None = {"none"}
  BY DEF None
<1>2. ASSUME NEW f, FinalType(f) PROVE f # None
  BY <1>1, <1>2 DEF FinalType
<1>3. None \notin Authority
  BY <1>1 DEF Authority
<1> QED BY <1>2, <1>3

\* The document of an artifact that is there is the document of one of them.
LEMMA DocIsFound ==
  ASSUME NEW r, NEW kind, Has(r, kind)
  PROVE \E a \in artifacts : a.run = r /\ a.kind = kind /\ Doc(r, kind) = a.doc
<1>1. PICK a \in Found(r, kind) : TRUE
  BY DEF Has
<1>2. (CHOOSE b \in Found(r, kind) : TRUE) \in Found(r, kind)
  BY <1>1
<1> QED BY <1>2 DEF Doc, Found

LEMMA UnexpiredIsThere ==
  ASSUME NEW r, NEW kind, Unexpired(r, kind) PROVE Has(r, kind)
BY DEF Unexpired, Has

\* What a resumed job continues, and what a prepared one drafts.
LEMMA ResumedIntent ==
  ASSUME TInv, NEW r, NEW d, NEW n, Resume(r, d, n)
  PROVE /\ Has(Original(r, d), "intent")
        /\ Doc(Original(r, d), "intent") \in persisted
        /\ IntentType(Doc(Original(r, d), "intent"))
<1>1. Has(Original(r, d), "intent")
  BY UnexpiredIsThere DEF Resume
<1>2. Doc(Original(r, d), "intent") \in persisted
  BY <1>1, DocIsFound DEF TInv, DocsType
<1> QED BY <1>1, <1>2 DEF TInv, DocsType

LEMMA Current ==
  ASSUME TInv, active # 0
  PROVE /\ active \in 1 .. Len(runs) /\ active \in 1 .. MaxAttempts
        /\ N \in 1 .. Len(attempts[active]) /\ N \in 1 .. MaxAttempts
        /\ D \in Dispatch /\ Selected(D) /\ Now \in Attempt /\ Me \in Authority
        /\ attempts[active] \in Seq(Attempt)
<1>1. active \in 1 .. Len(runs) /\ Len(runs) \in 0 .. MaxAttempts
  BY BoundAssumption DEF TInv, RunsType
<1>2. attempts[active] \in Seq(Attempt)
  BY <1>1 DEF TInv, RunsType
<1>3. N \in 1 .. Len(attempts[active]) /\ N \in 1 .. MaxAttempts
  BY <1>1, <1>2, BoundAssumption DEF TInv, RunsType, N
<1>4. Now \in Attempt
  BY <1>2, <1>3 DEF Now
<1>5. D \in Dispatch /\ Selected(D)
  BY <1>1 DEF TInv, RunsType, Selectors, D
<1>6. Me \in Authority
  BY <1>1, <1>3, BoundAssumption DEF Me, Authority
<1> QED BY <1>1, <1>2, <1>3, <1>4, <1>5, <1>6, BoundAssumption

LEMMA SnapshotIsTyped ==
  ASSUME TInv, NEW stage
  PROVE Snapshot(stage) \in [uploads : Nat, created : BOOLEAN, patched : BOOLEAN]
BY DEF TInv, StoreType, Snapshot

LEMMA DraftIsTyped ==
  ASSUME TInv, active # 0, Resolution(active, D, N, Now.digest) = "prepare"
  PROVE IntentType(Draft) /\ Draft.by = Me /\ Draft.stage = D.stage
<1> DEFINE c == IF D.cand = 0 THEN None ELSE Doc(D.cand, "evidence")
           x == IF D.ext = 0 THEN None ELSE Doc(D.ext, "evidence")
           b == IF D.stage = "candidate" THEN Doc(active, "handoff") ELSE c.intent.binary
<1>0. Draft = [stage |-> D.stage, by |-> Me, source |-> D.head, binary |-> b,
               cand |-> c, ext |-> x, seen |-> Snapshot(D.stage), present |-> FALSE]
  BY DEF Draft
<1>1. D.stage \in Stages /\ Me \in Authority /\ D.head \in Commits
  BY Current DEF Dispatch
<1>2. b \in Authority /\ (c = None) = (D.stage = "candidate") /\ (x = None) = (D.stage # "production")
  <2>1. CASE D.stage = "candidate"
    <3>1. c = None /\ x = None
      BY <2>1, Current DEF Selected
    <3>2. PrepareCandidate(active, D, N, Now.digest)
      BY <2>1 DEF Resolution
    <3>3. Has(active, "handoff")
      BY <3>2, UnexpiredIsThere DEF PrepareCandidate
    <3> QED BY <2>1, <3>1, <3>3, DocIsFound DEF TInv, DocsType
  <2>2. CASE D.stage # "candidate"
    <3>1. PreparePromotion(active, D, N)
      BY <2>2 DEF Resolution
    <3>2. D.cand # 0 /\ Has(D.cand, "evidence")
      BY <3>1, UnexpiredIsThere DEF PreparePromotion
    <3>3. FinalType(c)
      BY <3>2, DocIsFound DEF TInv, DocsType
    <3>4. c # None /\ b \in Authority
      BY <2>2, <3>3, NoneIsNoDocument DEF FinalType, IntentType
    <3>5. CASE D.stage = "production"
      <4>1. D.ext # 0 /\ Has(D.ext, "evidence")
        BY <3>1, <3>5, UnexpiredIsThere DEF PreparePromotion
      <4>2. FinalType(x)
        BY <4>1, DocIsFound DEF TInv, DocsType
      <4> QED BY <2>2, <3>4, <3>5, <4>2, NoneIsNoDocument
    <3>6. CASE D.stage # "production"
      BY <2>2, <3>4, <3>6, Current DEF Selected
    <3> QED BY <3>5, <3>6
  <2> QED BY <2>1, <2>2
<1> HIDE DEF b, c, x
<1> QED BY <1>0, <1>1, <1>2, SnapshotIsTyped DEF IntentType

(***************************************************************************)
(* Types are preserved.                                                    *)
(***************************************************************************)
LEMMA SetAttempt ==
  ASSUME TInv, active # 0, NEW changed \in Attempt, Set(changed)
  PROVE /\ attempts' \in Seq(Seq(Attempt)) /\ Len(attempts') = Len(attempts)
        /\ \A r \in 1 .. Len(runs) : Len(attempts'[r]) = Len(attempts[r])
        /\ \A r \in 1 .. Len(runs) : \A m \in 1 .. Len(attempts[r]) :
             attempts'[r][m] = IF r = active /\ m = N THEN changed ELSE attempts[r][m]
<1>1. /\ active \in 1 .. Len(attempts) /\ N \in 1 .. Len(attempts[active])
      /\ attempts \in Seq(Seq(Attempt)) /\ attempts[active] \in Seq(Attempt)
      /\ Len(attempts) = Len(runs)
  BY Current DEF TInv, RunsType
<1> DEFINE row == [attempts[active] EXCEPT ![N] = changed]
<1>2. row \in Seq(Attempt) /\ Len(row) = Len(attempts[active])
      /\ \A m \in 1 .. Len(attempts[active]) :
            row[m] = IF m = N THEN changed ELSE attempts[active][m]
  BY <1>1
<1>3. attempts' = [attempts EXCEPT ![active] = row]
  BY DEF Set
<1> HIDE DEF row
<1>4. attempts' \in Seq(Seq(Attempt)) /\ Len(attempts') = Len(attempts)
      /\ \A r \in 1 .. Len(attempts) : attempts'[r] = IF r = active THEN row ELSE attempts[r]
  BY <1>1, <1>2, <1>3
<1> QED BY <1>1, <1>2, <1>4

\* A step that fails the job: only the field of its phase changes.
LEMMA FailedAttempt ==
  ASSUME TInv, active # 0, Fail
  PROVE \E changed \in Attempt :
          /\ Set(changed)
          /\ \/ job.phase = "resolve" /\ changed = [Now EXCEPT !.resolve = "error"]
             \/ job.phase = "build" /\ changed = [Now EXCEPT !.build = "failed"]
             \/ /\ job.phase \notin {"resolve", "build"}
                /\ changed = [Now EXCEPT !.store = "failure",
                                        !.gate = job.phase \in {"prepare", "persist"}]
<1>1. Now \in Attempt
  BY Current
<1>2. /\ [Now EXCEPT !.resolve = "error"] \in Attempt
      /\ [Now EXCEPT !.build = "failed"] \in Attempt
      /\ \A g \in BOOLEAN : [Now EXCEPT !.store = "failure", !.gate = g] \in Attempt
  BY <1>1 DEF Attempt
<1>3. CASE job.phase = "resolve"
  <2>1. Set([Now EXCEPT !.resolve = "error"])
    BY <1>3 DEF Fail
  <2> QED BY <1>2, <1>3, <2>1
<1>4. CASE job.phase = "build"
  <2>1. Set([Now EXCEPT !.build = "failed"])
    BY <1>4 DEF Fail
  <2> QED BY <1>2, <1>4, <2>1
<1>5. CASE job.phase \notin {"resolve", "build"}
  <2> DEFINE g == job.phase \in {"prepare", "persist"}
  <2>1. Set([Now EXCEPT !.store = "failure", !.gate = g])
    BY <1>5 DEF Fail
  <2>2. g \in BOOLEAN
    OBVIOUS
  <2>3. [Now EXCEPT !.store = "failure", !.gate = g] \in Attempt
    BY <1>2, <2>2
  <2> QED BY <1>5, <2>1, <2>3
<1> QED BY <1>3, <1>4, <1>5

\* The types of what a step of the job leaves behind, when runs and total stay.
LEMMA JobStep ==
  ASSUME TInv, active # 0, UNCHANGED <<runs, total>>,
         \/ UNCHANGED attempts
         \/ \E changed \in Attempt : Set(changed),
         active' \in {active, 0}
  PROVE RunsType' /\ Selectors'
<1>1. CASE UNCHANGED attempts
  BY <1>1, Current DEF TInv, RunsType, Selectors, Selected
<1>2. ASSUME NEW changed \in Attempt, Set(changed) PROVE RunsType' /\ Selectors'
  BY SMTT(60), <1>2, SetAttempt, Current DEF TInv, RunsType, Selectors, Selected
<1> QED BY <1>1, <1>2

LEMMA Stopped == ASSUME Stop PROVE JobType'
BY DEF Stop, Idle, JobType, Phases, Working

LEMMA WentTo ==
  ASSUME TInv, active # 0, UNCHANGED runs, NEW phase \in Phases \ {"idle", "resolve", "build"},
         To(phase), phase \in Working => IntentType(job.intent),
         phase = "package" => job.outcome \in Outcomes
  PROVE JobType'
<1>1. job' = [phase |-> phase, intent |-> job.intent, outcome |-> job.outcome] /\ active' = active
  BY DEF TInv, JobType, To
<1>2. job'.phase = phase /\ job'.intent = job.intent /\ job'.outcome = job.outcome
  BY <1>1
<1>3. job' = [phase |-> job'.phase, intent |-> job'.intent, outcome |-> job'.outcome]
  BY <1>1, <1>2
<1>4. job.outcome \in Outcomes \cup {"none"} /\ active' = active
      /\ (phase = "package" => job.outcome # "none")
  BY <1>1 DEF TInv, JobType, Outcomes
<1> QED BY <1>2, <1>3, <1>4 DEF JobType, Working, Phases

LEMMA DocsKept ==
  ASSUME TInv, UNCHANGED <<artifacts, persisted, issued>>, Len(runs') >= Len(runs),
         Len(runs) \in Nat, Len(runs') \in Nat
  PROVE DocsType'
BY DEF TInv, DocsType

\* A new artifact of the running job.
LEMMA DocsUploaded ==
  ASSUME TInv, active # 0, UNCHANGED runs, NEW kind \in Kinds, NEW doc,
         Uploaded(active, kind, doc),
         persisted \subseteq persisted', issued \subseteq issued',
         \A i \in persisted' : IntentType(i), \A f \in issued' : FinalType(f),
         kind = "handoff" => doc \in Authority,
         kind = "intent" => doc \in persisted', kind = "evidence" => doc \in issued'
  PROVE DocsType'
<1> DEFINE new == [run |-> active, kind |-> kind, doc |-> doc, expired |-> FALSE]
<1>1. artifacts' = artifacts \cup {new}
  BY DEF Uploaded
<1>2. active \in 1 .. Len(runs)
  BY Current
<1>3. ASSUME NEW a \in artifacts'
      PROVE /\ a = [run |-> a.run, kind |-> a.kind, doc |-> a.doc, expired |-> a.expired]
            /\ a.run \in 1 .. Len(runs') /\ a.kind \in Kinds /\ a.expired \in BOOLEAN
            /\ a.kind = "handoff" => a.doc \in Authority
            /\ a.kind = "intent" => a.doc \in persisted'
            /\ a.kind = "evidence" => a.doc \in issued'
  <2>1. CASE a = new
    BY <1>2, <2>1
  <2>2. CASE a \in artifacts
    BY <2>2 DEF TInv, DocsType
  <2> QED BY <1>1, <2>1, <2>2
<1> QED BY <1>3 DEF DocsType

\* A dispatch, or a re-run of a run.
LEMMA StartedTypes ==
  ASSUME TInv, NEW r, NEW phase \in {"resolve", "build", "store"}, Start(r, phase),
         runs' \in Seq(Dispatch), attempts' \in Seq(Seq(Attempt)),
         Len(attempts') = Len(runs'), total' = total + 1, total < MaxAttempts,
         Len(runs') \in Len(runs) .. total', r \in 1 .. Len(runs'),
         \A q \in 1 .. Len(runs') : Len(attempts'[q]) \in 1 .. total',
         \A q \in 1 .. Len(runs') : Selected(runs'[q]),
         phase \in {"resolve", "build"} => runs'[r].stage = "candidate",
         UNCHANGED <<artifacts, persisted, issued, store, platform>>
  PROVE TInv'
<1>1. RunsType'
  BY BoundAssumption DEF TInv, RunsType, Start
<1>2. Selectors'
  BY DEF Selectors
<1>3. JobType'
  <2>1. active' = r /\ job' = [phase |-> phase, intent |-> None, outcome |-> "none"] /\ r # 0
    BY DEF Start, Idle
  <2> QED BY <2>1 DEF JobType, Phases, Working
<1>4. DocsType'
  BY DocsKept DEF TInv, RunsType
<1>5. StoreType'
  BY DEF TInv, StoreType
<1> QED BY <1>1, <1>2, <1>3, <1>4, <1>5 DEF TInv

LEMMA NewAttemptType == NewAttempt \in Attempt
BY DEF NewAttempt, Attempt

\* Appending an attempt to a run.
LEMMA AnotherAttempt ==
  ASSUME TInv, NEW r \in DOMAIN runs, NEW new \in Attempt, total < MaxAttempts,
         attempts' = [attempts EXCEPT ![r] = Append(@, new)]
  PROVE /\ attempts' \in Seq(Seq(Attempt)) /\ Len(attempts') = Len(attempts)
        /\ \A q \in 1 .. Len(runs) :
             attempts'[q] = IF q = r THEN Append(attempts[r], new) ELSE attempts[q]
        /\ \A q \in 1 .. Len(runs) : Len(attempts'[q]) \in 1 .. total + 1
<1>1. r \in 1 .. Len(runs) /\ attempts \in Seq(Seq(Attempt)) /\ Len(attempts) = Len(runs)
  BY DEF TInv, RunsType
<1>2. attempts[r] \in Seq(Attempt) /\ Len(attempts[r]) \in 1 .. total
  BY <1>1 DEF TInv, RunsType
<1>3. Append(attempts[r], new) \in Seq(Attempt) /\ Len(Append(attempts[r], new)) = Len(attempts[r]) + 1
  BY <1>2
<1>4. attempts' = [attempts EXCEPT ![r] = Append(attempts[r], new)]
  OBVIOUS
<1>5. \A q \in 1 .. Len(runs) :
        attempts'[q] = IF q = r THEN Append(attempts[r], new) ELSE attempts[q]
  BY <1>1, <1>4
<1>6. attempts' \in Seq(Seq(Attempt)) /\ Len(attempts') = Len(attempts)
  BY <1>1, <1>3, <1>4
<1> QED BY SMTT(60), <1>1, <1>2, <1>3, <1>5, <1>6, BoundAssumption DEF TInv, RunsType

LEMMA DispatchTypes ==
  ASSUME TInv, total < MaxAttempts, NEW stage \in Stages, NEW d \in Inputs(stage), DispatchRun(d)
  PROVE TInv'
<1>1. d \in Dispatch /\ Selected(d) /\ d.stage = stage
  <2>1. Len(runs) \in 0 .. MaxAttempts /\ Branch[stage] \subseteq Commits
    BY BoundAssumption, BranchAssumption DEF TInv, RunsType
  <2>2. /\ d = [stage |-> d.stage, head |-> d.head, recovery |-> d.recovery, cand |-> d.cand,
                ext |-> d.ext, grant |-> d.grant]
        /\ d.stage = stage /\ d.head \in Branch[stage] /\ d.recovery \in 0 .. Len(runs)
        /\ d.cand \in 0 .. Len(runs) /\ (stage = "candidate" => d.cand = 0)
        /\ d.ext \in 0 .. Len(runs) /\ (stage # "production" => d.ext = 0)
        /\ d.grant \in Grants
    BY <2>1 DEF Inputs, Grants
  <2>3. 0 .. Len(runs) \subseteq 0 .. MaxAttempts
    BY <2>1, BoundAssumption
  <2> HIDE DEF Inputs
  <2> QED BY <2>1, <2>2, <2>3 DEF Dispatch, Selected
<1>2. runs' = Append(runs, d) /\ attempts' = Append(attempts, <<NewAttempt>>)
      /\ Start(Len(runs) + 1, FirstPhase(d)) /\ total' = total + 1
  BY DEF DispatchRun
<1>3. <<NewAttempt>> \in Seq(Attempt) /\ Len(<<NewAttempt>>) = 1
  BY NewAttemptType
<1>4. runs' \in Seq(Dispatch) /\ Len(runs') = Len(runs) + 1
      /\ \A q \in 1 .. Len(runs') : runs'[q] = IF q = Len(runs) + 1 THEN d ELSE runs[q]
  BY <1>1, <1>2 DEF TInv, RunsType
<1>5. attempts' \in Seq(Seq(Attempt)) /\ Len(attempts') = Len(attempts) + 1
      /\ \A q \in 1 .. Len(runs') :
            attempts'[q] = IF q = Len(runs) + 1 THEN <<NewAttempt>> ELSE attempts[q]
  BY <1>2, <1>3, <1>4 DEF TInv, RunsType
<1>6. FirstPhase(d) \in {"resolve", "store"} /\ (FirstPhase(d) = "resolve" => d.stage = "candidate")
  BY DEF FirstPhase
<1>7. \A q \in 1 .. Len(runs') : Selected(runs'[q])
  BY <1>1, <1>4 DEF TInv, RunsType, Selectors
<1>8. \A q \in 1 .. Len(runs') : Len(attempts'[q]) \in 1 .. total'
  BY <1>2, <1>3, <1>4, <1>5 DEF TInv, RunsType
<1>9. UNCHANGED <<artifacts, persisted, issued, store, platform>>
  BY DEF DispatchRun, ghost
<1> QED BY SMTT(60), <1>1, <1>2, <1>4, <1>5, <1>6, <1>7, <1>8, <1>9, StartedTypes DEF TInv, RunsType

LEMMA RerunTypes ==
  ASSUME TInv, NEW r, RerunAll(r) \/ RerunFailed(r)
  PROVE TInv'
<1>1. r \in DOMAIN runs /\ total < MaxAttempts /\ total' = total + 1 /\ UNCHANGED runs
      /\ UNCHANGED <<artifacts, persisted, issued, store, platform>>
  BY DEF RerunAll, RerunFailed, CanRerun, ghost
<1>2. r \in 1 .. Len(runs) /\ Len(attempts[r]) \in 1 .. total
      /\ attempts[r] \in Seq(Attempt) /\ total \in Nat
  BY <1>1 DEF TInv, RunsType
<1>3. \E new \in Attempt, phase \in {"resolve", "build", "store"} :
        /\ attempts' = [attempts EXCEPT ![r] = Append(@, new)]
        /\ Start(r, phase)
        /\ phase \in {"resolve", "build"} => runs[r].stage = "candidate"
  <2>1. CASE RerunAll(r)
    BY <2>1, NewAttemptType DEF RerunAll, FirstPhase
  <2>2. CASE RerunFailed(r)
    <3> DEFINE last == attempts[r][Len(attempts[r])]
               kept == [NewAttempt EXCEPT !.resolve = last.resolve, !.digest = last.digest]
    <3>0. last \in Attempt
      BY <1>2
    <3>1. kept \in Attempt
      BY <3>0, NewAttemptType DEF Attempt
    <3>2. attempts' = [attempts EXCEPT ![r] = Append(@, kept)] /\ runs[r].stage = "candidate"
          /\ (Start(r, "build") \/ Start(r, "store"))
      BY <2>2 DEF RerunFailed
    <3> HIDE DEF kept
    <3> QED BY <3>1, <3>2
  <2> QED BY <2>1, <2>2
<1>4. PICK new \in Attempt, phase \in {"resolve", "build", "store"} :
        /\ attempts' = [attempts EXCEPT ![r] = Append(@, new)]
        /\ Start(r, phase)
        /\ phase \in {"resolve", "build"} => runs[r].stage = "candidate"
  BY <1>3
<1>5. /\ attempts' \in Seq(Seq(Attempt)) /\ Len(attempts') = Len(attempts)
      /\ \A q \in 1 .. Len(runs) : Len(attempts'[q]) \in 1 .. total + 1
  BY <1>1, <1>4, AnotherAttempt
<1>6. /\ runs' \in Seq(Dispatch) /\ Len(attempts') = Len(runs') /\ Len(runs') \in Len(runs) .. total'
      /\ r \in 1 .. Len(runs')
      /\ \A q \in 1 .. Len(runs') : Selected(runs'[q])
      /\ \A q \in 1 .. Len(runs') : Len(attempts'[q]) \in 1 .. total'
  BY <1>1, <1>2, <1>5 DEF TInv, RunsType, Selectors
<1>7. phase \in {"resolve", "build"} => runs'[r].stage = "candidate"
  BY <1>1, <1>4
<1>8. Start(r, phase)
  BY <1>4
<1> QED BY <1>1, <1>5, <1>6, <1>7, <1>8, StartedTypes

\* The job ends with a failure and nothing else changes.
LEMMA EndTypes ==
  ASSUME TInv, active # 0, Stop, UNCHANGED <<platform, runs, artifacts, store, persisted, issued, total>>,
         \/ UNCHANGED attempts
         \/ \E changed \in Attempt : Set(changed)
  PROVE TInv'
<1>1. active' \in {active, 0}
  BY DEF Stop
<1>2. RunsType' /\ Selectors'
  BY <1>1, JobStep
<1>3. JobType'
  BY Stopped
<1>4. DocsType'
  BY DocsKept DEF TInv, RunsType
<1> QED BY <1>2, <1>3, <1>4 DEF TInv, StoreType

LEMMA StepFailsTypes == ASSUME TInv, StepFails \/ JobLost PROVE TInv'
<1>1. active # 0 /\ Stop /\ UNCHANGED <<platform, runs, artifacts, store, persisted, issued, total>>
  BY DEF StepFails, JobLost, ghost
<1>2. \E changed \in Attempt : Set(changed)
  <2>1. CASE StepFails
    BY <1>1, <2>1, FailedAttempt DEF StepFails
  <2>2. CASE JobLost
    <3>1. Now \in Attempt
      BY <1>1, Current
    <3>2. /\ [Now EXCEPT !.resolve = "error"] \in Attempt
          /\ [Now EXCEPT !.build = "failed"] \in Attempt
          /\ [Now EXCEPT !.store = "failure"] \in Attempt
      BY <3>1 DEF Attempt
    <3>3. \/ Set([Now EXCEPT !.resolve = "error"])
          \/ Set([Now EXCEPT !.build = "failed"])
          \/ Set([Now EXCEPT !.store = "failure"])
      BY <2>2 DEF JobLost
    <3> QED BY <3>2, <3>3
  <2> QED BY <2>1, <2>2
<1> QED BY <1>1, <1>2, EndTypes

LEMMA ResolveJobTypes == ASSUME TInv, RunResolveJob PROVE TInv'
<1> DEFINE mode == ResolveJob(active, D, N)
           changed == [Now EXCEPT !.resolve = mode]
<1>1. active # 0 /\ job.phase = "resolve" /\ Set(changed)
      /\ UNCHANGED <<platform, runs, artifacts, store, persisted, issued, total>>
      /\ (Stop \/ To("build") \/ To("store"))
  BY DEF RunResolveJob, TInv, JobType, ghost, counters
<1>2. mode \in {"complete", "resume", "fresh", "error"}
  BY DEF ResolveJob
<1> HIDE DEF mode
<1>3. changed \in Attempt
  BY <1>1, <1>2, Current DEF Attempt
<1> HIDE DEF changed
<1>4. CASE Stop
  BY <1>1, <1>3, <1>4, EndTypes
<1>5. CASE To("build") \/ To("store")
  <2>1. RunsType' /\ Selectors'
    BY <1>1, <1>3, <1>5, JobStep DEF To
  <2>2. JobType'
    BY <1>1, <1>5 DEF TInv, JobType, To, Working, Phases
  <2>3. DocsType'
    BY <1>1, DocsKept DEF TInv, RunsType
  <2> QED BY <1>1, <2>1, <2>2, <2>3 DEF TInv, StoreType
<1> QED BY <1>1, <1>4, <1>5

LEMMA BuildTypes == ASSUME TInv, Build PROVE TInv'
<1>1. active # 0 /\ job.phase = "build" /\ UNCHANGED <<platform, runs, store, persisted, issued, total>>
  BY DEF Build, TInv, JobType, ghost, counters
<1>2. /\ [Now EXCEPT !.build = "failed"] \in Attempt
      /\ [Now EXCEPT !.build = "ok", !.digest = Me] \in Attempt /\ Me \in Authority
  BY <1>1, Current DEF Attempt
<1>3. RunsType' /\ Selectors'
  <2>1. \/ Set([Now EXCEPT !.build = "failed"])
        \/ Set([Now EXCEPT !.build = "ok", !.digest = Me])
    BY DEF Build
  <2>2. active' \in {active, 0}
    BY DEF Build, Stop, To
  <2> QED BY <1>1, <1>2, <2>1, <2>2, JobStep
<1>4. JobType'
  <2>1. Stop \/ To("store")
    BY DEF Build
  <2> QED BY <1>1, <2>1, Stopped DEF TInv, JobType, To, Working, Phases
<1>5. DocsType'
  <2>1. UNCHANGED artifacts \/ Uploaded(active, "handoff", Me)
    BY DEF Build
  <2>2. CASE UNCHANGED artifacts
    BY <1>1, <2>2, DocsKept DEF TInv, RunsType
  <2>3. CASE Uploaded(active, "handoff", Me)
    <3>1. \A i \in persisted' : IntentType(i)
      BY <1>1 DEF TInv, DocsType
    <3>2. \A f \in issued' : FinalType(f)
      BY <1>1 DEF TInv, DocsType
    <3> QED BY <1>1, <1>2, <2>3, <3>1, <3>2, DocsUploaded DEF Kinds
  <2> QED BY <2>1, <2>2, <2>3
<1> QED BY <1>1, <1>3, <1>4, <1>5 DEF TInv, StoreType

LEMMA StoreJobTypes == ASSUME TInv, RunStoreJob PROVE TInv'
<1> DEFINE mode == Resolution(active, D, N, Now.digest)
           o == Doc(Original(active, D), "intent")
<1>1. active # 0 /\ job.phase = "store"
      /\ UNCHANGED <<platform, runs, artifacts, store, persisted, issued, total>>
  BY DEF RunStoreJob, TInv, JobType, ghost, counters
<1>2. /\ [Now EXCEPT !.store = "failure"] \in Attempt
      /\ [Now EXCEPT !.store = "success"] \in Attempt
  BY <1>1, Current DEF Attempt
<1>3. CASE mode \in {"error", "complete"}
  <2>1. Stop /\ (Set([Now EXCEPT !.store = "failure"]) \/ Set([Now EXCEPT !.store = "success"]))
    BY <1>3 DEF RunStoreJob
  <2> QED BY <1>1, <1>2, <2>1, EndTypes
<1>4. CASE mode = "prepare"
  <2>1. job' = [job EXCEPT !.phase = "prepare", !.intent = Draft] /\ UNCHANGED <<attempts, active>>
    BY <1>4 DEF RunStoreJob
  <2>2. IntentType(Draft)
    BY <1>1, <1>4, DraftIsTyped
  <2>3. JobType'
    BY <1>1, <2>1, <2>2 DEF TInv, JobType, Working, Phases
  <2>4. RunsType' /\ Selectors'
    BY <1>1, <2>1, JobStep
  <2> QED BY <1>1, <2>3, <2>4, DocsKept DEF TInv, RunsType, StoreType
<1>5. CASE mode \notin {"error", "complete", "prepare"}
  <2>1. job' = [job EXCEPT !.phase = "execute", !.intent = o] /\ UNCHANGED <<attempts, active>>
    BY <1>5 DEF RunStoreJob
  <2>2. Resume(active, D, N)
    BY <1>5 DEF Resolution
  <2>3. IntentType(o)
    BY <2>2, ResumedIntent
  <2>4. JobType'
    BY <1>1, <2>1, <2>3 DEF TInv, JobType, Working, Phases
  <2>5. RunsType' /\ Selectors'
    BY <1>1, <2>1, JobStep
  <2> QED BY <1>1, <2>4, <2>5, DocsKept DEF TInv, RunsType, StoreType
<1> QED BY <1>3, <1>4, <1>5

LEMMA FailedTypes ==
  ASSUME TInv, active # 0, Fail, Stop,
         UNCHANGED <<platform, runs, artifacts, store, persisted, issued, total>>
  PROVE TInv'
BY FailedAttempt, EndTypes

LEMMA PrepareTypes == ASSUME TInv, Prepare PROVE TInv'
<1>1. active # 0 /\ job.phase = "prepare"
      /\ UNCHANGED <<platform, runs, artifacts, store, persisted, issued, total>>
  BY DEF Prepare, TInv, JobType, ghost, counters
<1>2. CASE Fail /\ Stop
  BY <1>1, <1>2, FailedTypes
<1>3. CASE ~(Fail /\ Stop)
  <2> DEFINE seen == Snapshot(job.intent.stage)
             i == [job.intent EXCEPT !.present = Target(job.intent), !.seen = seen]
  <2>1. job' = [job EXCEPT !.phase = "persist", !.intent.present = Target(job.intent),
                           !.intent.seen = seen]
        /\ UNCHANGED <<active, attempts>>
    BY <1>3 DEF Prepare
  <2>2. Target(job.intent) \in BOOLEAN
    BY DEF Target, Final
  <2>3. IntentType(job.intent)
    BY <1>1 DEF TInv, JobType, Working
  <2>4. DOMAIN i = DOMAIN job.intent
        /\ i.stage = job.intent.stage /\ i.by = job.intent.by /\ i.source = job.intent.source
        /\ i.binary = job.intent.binary /\ i.cand = job.intent.cand /\ i.ext = job.intent.ext
        /\ i.present = Target(job.intent) /\ i.seen = seen
    BY <2>3 DEF IntentType
  <2> HIDE DEF i, seen
  <2>5. IntentType(i)
    BY <2>2, <2>3, <2>4, SnapshotIsTyped DEF IntentType, seen
  <2>6. job' = [phase |-> "persist", intent |-> i, outcome |-> job.outcome]
    BY <2>1 DEF TInv, JobType, i
  <2>7. active' = active
    BY <2>1
  <2>8. JobType'
    <3>1. /\ job'.phase = "persist" /\ job'.intent = i /\ job'.outcome = job.outcome
          /\ active' = active /\ runs' = runs /\ DOMAIN job' = {"phase", "intent", "outcome"}
      BY <1>1, <2>6, <2>7
    <3>2. job' = [phase |-> job'.phase, intent |-> job'.intent, outcome |-> job'.outcome]
      BY <2>6, <3>1
    <3> QED BY <1>1, <2>5, <3>1, <3>2 DEF TInv, JobType, Working, Phases
  <2>9. RunsType' /\ Selectors'
    BY <1>1, <2>1, JobStep
  <2> QED BY <1>1, <2>8, <2>9, DocsKept DEF TInv, RunsType, StoreType
<1> QED BY <1>2, <1>3

LEMMA PersistTypes == ASSUME TInv, Persist PROVE TInv'
<1>1. active # 0 /\ job.phase = "persist"
      /\ UNCHANGED <<platform, runs, store, issued, total>>
  BY DEF Persist, TInv, JobType, ghost, counters
<1>2. IntentType(job.intent)
  BY <1>1 DEF TInv, JobType, Working
<1>3. RunsType' /\ Selectors' /\ JobType'
  <2>1. (Fail /\ Stop) \/ (To("execute") /\ UNCHANGED attempts)
    BY DEF Persist
  <2>2. CASE Fail /\ Stop
    BY <1>1, <2>2, FailedAttempt, JobStep, Stopped DEF Stop
  <2>3. CASE To("execute") /\ UNCHANGED attempts
    BY <1>1, <1>2, <2>3, JobStep, WentTo DEF To, Phases, Working
  <2> QED BY <2>1, <2>2, <2>3
<1>4. DocsType'
  <2>1. UNCHANGED <<artifacts, persisted>>
        \/ (Uploaded(active, "intent", job.intent) /\ persisted' = persisted \cup {job.intent})
    BY DEF Persist
  <2>2. CASE UNCHANGED <<artifacts, persisted>>
    BY <1>1, <2>2, DocsKept DEF TInv, RunsType
  <2>3. CASE Uploaded(active, "intent", job.intent) /\ persisted' = persisted \cup {job.intent}
    <3>1. \A i \in persisted' : IntentType(i)
      BY <1>2, <2>3 DEF TInv, DocsType
    <3>2. \A f \in issued' : FinalType(f)
      BY <1>1 DEF TInv, DocsType
    <3> QED BY <1>1, <2>3, <3>1, <3>2, DocsUploaded DEF Kinds
  <2> QED BY <2>1, <2>2, <2>3
<1> QED BY <1>1, <1>3, <1>4 DEF TInv, StoreType

\* What Send does, by platform and stage.
LEMMA SendCases ==
  ASSUME NEW i, Send(i)
  PROVE \/ i.stage # "candidate"
           /\ store' = [store EXCEPT !.created = store.created \cup {i.stage},
                                     !.patched = store.patched \cup {i.stage}]
        \/ /\ platform = "ios" /\ i.stage = "candidate"
           /\ store' = [store EXCEPT !.uploads = store.uploads + 1,
                !.arriving = store.arriving \cup {[binary |-> i.binary, at |-> store.uploads + 1]}]
        \/ /\ platform # "ios" /\ i.stage = "candidate"
           /\ store' = [store EXCEPT !.build = i.binary]
<1>1. CASE i.stage # "candidate"
  <2>1. store' = [store EXCEPT !.created = store.created \cup {i.stage},
                               !.patched = store.patched \cup {i.stage}]
    BY <1>1 DEF Send
  <2> QED BY <1>1, <2>1
<1>2. CASE i.stage = "candidate" /\ platform = "ios"
  BY <1>2 DEF Send
<1>3. CASE i.stage = "candidate" /\ platform # "ios"
  BY <1>3 DEF Send
<1> QED BY <1>1, <1>2, <1>3

LEMMA SendKeepsStore ==
  ASSUME TInv, NEW i, IntentType(i), Send(i), UNCHANGED platform PROVE StoreType'
<1>1. i.binary \in Authority /\ i.stage \in Stages
  BY DEF IntentType
<1>2. CASE store' = [store EXCEPT !.created = store.created \cup {i.stage},
                                  !.patched = store.patched \cup {i.stage}]
  BY <1>1, <1>2 DEF TInv, StoreType
<1>3. CASE store' = [store EXCEPT !.uploads = store.uploads + 1,
             !.arriving = store.arriving \cup {[binary |-> i.binary, at |-> store.uploads + 1]}]
  <2>1. store.uploads \in Nat /\ store.uploads + 1 \in Nat
    BY DEF TInv, StoreType
  <2> DEFINE new == [binary |-> i.binary, at |-> store.uploads + 1]
  <2>2. new \in [binary : Authority, at : Nat]
    BY <1>1, <2>1
  <2>3. store' = [store EXCEPT !.uploads = store.uploads + 1,
                              !.arriving = store.arriving \cup {new}]
    BY <1>3
  <2> HIDE DEF new
  <2> QED BY <2>1, <2>2, <2>3 DEF TInv, StoreType
<1>4. CASE store' = [store EXCEPT !.build = i.binary]
  BY <1>1, <1>4 DEF TInv, StoreType
<1> QED BY <1>2, <1>3, <1>4, SendCases

\* The ways of the execution.
LEMMA ExecuteWays ==
  ASSUME Execute
  PROVE LET i == job.intent IN
          \/ /\ Guarded(i, Me, D) /\ MayAdopt(i, Me, D)
             /\ job' = [job EXCEPT !.phase = "package", !.outcome = AdoptAs(i)]
             /\ UNCHANGED <<active, attempts, store, sends>>
          \/ /\ Guarded(i, Me, D) /\ MaySend(i, Me, D) /\ Send(i) /\ Sent(i, "create")
             /\ job' = [job EXCEPT !.phase = "settle", !.outcome = Made(i)]
             /\ UNCHANGED <<active, attempts>>
          \/ /\ Guarded(i, Me, D) /\ MayWrite(i, Me, D)
             /\ To("settle") /\ UNCHANGED <<attempts, store, sends>>
          \/ Fail /\ Stop /\ UNCHANGED <<store, sends>>
BY DEF Execute

LEMMA ExecuteTypes == ASSUME TInv, Execute PROVE TInv'
<1> DEFINE i == job.intent
<1>1. active # 0 /\ job.phase = "execute" /\ IntentType(i)
      /\ UNCHANGED <<platform, runs, artifacts, persisted, issued, total>>
  BY DEF Execute, TInv, JobType, Working, ghost, counters
<1>2. CASE Fail /\ Stop /\ UNCHANGED store
  BY <1>1, <1>2, FailedTypes
<1>3. CASE ~(Fail /\ Stop /\ UNCHANGED store)
  <2>1. \/ /\ job' = [job EXCEPT !.phase = "package", !.outcome = AdoptAs(i)]
           /\ UNCHANGED <<active, attempts, store>>
        \/ Send(i) /\ job' = [job EXCEPT !.phase = "settle", !.outcome = Made(i)]
           /\ UNCHANGED <<active, attempts>>
        \/ To("settle") /\ UNCHANGED <<attempts, store>>
    BY <1>3, ExecuteWays
  <2>2. AdoptAs(i) \in Outcomes /\ Made(i) \in Outcomes
    BY DEF AdoptAs, Made, Outcomes
  <2>3. JobType'
    BY <1>1, <2>1, <2>2 DEF TInv, JobType, Working, Phases, To, Outcomes
  <2>4. RunsType' /\ Selectors'
    BY <1>1, <2>1, JobStep DEF To
  <2>5. StoreType'
    BY <1>1, <2>1, SendKeepsStore DEF TInv, StoreType
  <2> QED BY <1>1, <2>3, <2>4, <2>5, DocsKept DEF TInv, RunsType
<1> QED BY <1>2, <1>3

\* A write of an Apple promotion changes the Store, the sends and the outcome.
LEMMA WriteStep ==
  ASSUME TInv, Create \/ Patch
  PROVE /\ active # 0 /\ job.phase = "settle" /\ Promoting(job.intent)
        /\ ~Target(job.intent)
        /\ UNCHANGED <<platform, runs, attempts, artifacts, active, issued, persisted, total, lost>>
        /\ UNCHANGED <<faults, stray>>
        /\ \E o \in Outcomes : job' = [job EXCEPT !.outcome = o]
        /\ \E kind \in {"create", "patch"} : Sent(job.intent, kind)
<1>1. active # 0 /\ job.outcome \in Outcomes \cup {"none"} /\ job.phase = "settle"
      /\ Promoting(job.intent)
  BY DEF TInv, JobType, Create, Patch
<1>2. Made(job.intent) \in Outcomes /\ "mutated" \in Outcomes
  BY DEF Made, Outcomes
<1>3. \E o \in Outcomes : job' = [job EXCEPT !.outcome = o]
  BY <1>1, <1>2 DEF Create, Patch
<1>4. ~Target(job.intent)
  BY DEF Create, Patch, Promoting, Target, Final
<1> QED BY <1>1, <1>3, <1>4 DEF Create, Patch, counters

LEMMA WriteTypes == ASSUME TInv, Create \/ Patch PROVE TInv'
<1>1. IntentType(job.intent)
  BY WriteStep DEF TInv, JobType, Working
<1>2. JobType'
  <2>1. PICK o \in Outcomes : job' = [job EXCEPT !.outcome = o]
    BY WriteStep
  <2> QED BY <2>1, WriteStep DEF TInv, JobType, Working, Outcomes
<1>3. StoreType'
  <2>1. job.intent.stage \in Stages
    BY <1>1 DEF IntentType
  <2> QED BY <2>1, WriteStep DEF TInv, StoreType, Create, Patch
<1> QED BY <1>2, <1>3, JobStep, DocsKept, WriteStep DEF TInv, RunsType

LEMMA SettleTypes == ASSUME TInv, Settle \/ SettleTimeout PROVE TInv'
<1>1. active # 0 /\ job.phase = "settle"
      /\ UNCHANGED <<platform, runs, artifacts, store, persisted, issued, total>>
  BY DEF Settle, SettleTimeout, TInv, JobType, ghost, counters
<1>2. CASE SettleTimeout
  BY <1>1, <1>2, FailedTypes DEF SettleTimeout
<1>3. CASE Settle
  <2> DEFINE o == IF job.outcome = "none" THEN AdoptAs(job.intent) ELSE job.outcome
  <2>1. job' = [job EXCEPT !.phase = "package", !.outcome = o] /\ UNCHANGED <<active, attempts>>
    BY <1>3 DEF Settle
  <2>2. o \in Outcomes
    BY DEF Outcomes, AdoptAs, TInv, JobType
  <2> HIDE DEF o
  <2>3. JobType'
    BY <1>1, <2>1, <2>2 DEF TInv, JobType, Working, Phases, Outcomes
  <2>4. RunsType' /\ Selectors'
    BY <1>1, <2>1, JobStep
  <2> QED BY <1>1, <2>3, <2>4, DocsKept DEF TInv, RunsType, StoreType
<1> QED BY <1>2, <1>3

\* The receipt of a packaging job has the structure of a final.
LEMMA ReceiptIsTyped ==
  ASSUME TInv, job.phase = "package"
  PROVE FinalType(Receipt) /\ Receipt.intent = job.intent /\ Receipt.by = Me
<1>1. active # 0 /\ IntentType(job.intent) /\ job.outcome \in Outcomes
  BY DEF TInv, JobType, Working
<1>2. Me \in Authority /\ (platform = "android" \/ job.intent.stage # "external" \/ store.approved) \in BOOLEAN
  BY <1>1, Current DEF TInv, StoreType
<1>3. DOMAIN Receipt = {"intent", "by", "outcome", "ready"}
  BY DEF Receipt
<1>4. Receipt.intent = job.intent /\ Receipt.by = Me /\ Receipt.outcome = job.outcome
      /\ Receipt.ready \in BOOLEAN
  BY <1>2 DEF Receipt
<1> QED BY <1>1, <1>2, <1>3, <1>4 DEF FinalType

LEMMA PackageTypes == ASSUME TInv, Package PROVE TInv'
<1>1. active # 0 /\ job.phase = "package" /\ Stop
      /\ UNCHANGED <<platform, runs, store, persisted, total>>
  BY DEF Package, TInv, JobType, ghost, counters
<1>2. /\ [Now EXCEPT !.store = "failure"] \in Attempt
      /\ [Now EXCEPT !.store = "success"] \in Attempt
  BY <1>1, Current DEF Attempt
<1>3. Set([Now EXCEPT !.store = "failure"]) \/ Set([Now EXCEPT !.store = "success"])
  BY DEF Package
<1>4. RunsType' /\ Selectors' /\ JobType'
  BY <1>1, <1>2, <1>3, JobStep, Stopped DEF Stop
<1>5. DocsType'
  <2>1. UNCHANGED <<artifacts, issued>>
        \/ (Uploaded(active, "evidence", Receipt) /\ issued' = issued \cup {Receipt})
    BY DEF Package
  <2>2. CASE UNCHANGED <<artifacts, issued>>
    BY <1>1, <2>2, DocsKept DEF TInv, RunsType
  <2>3. CASE Uploaded(active, "evidence", Receipt) /\ issued' = issued \cup {Receipt}
    <3>1. \A i \in persisted' : IntentType(i)
      BY <1>1 DEF TInv, DocsType
    <3>2. \A f \in issued' : FinalType(f)
      BY <1>1, <2>3, ReceiptIsTyped DEF TInv, DocsType
    <3> QED BY <1>1, <2>3, <3>1, <3>2, DocsUploaded DEF Kinds
  <2> QED BY <2>1, <2>2, <2>3
<1> QED BY <1>1, <1>4, <1>5 DEF TInv, StoreType

\* What the Stores do on their own.
Appears ==
  Approve \/ (\E u \in store.arriving : Arrive(u)) \/ (\E stage \in store.pending : Appear(stage))

LEMMA EnvironmentTypes ==
  ASSUME TInv, Appears \/ (\E a \in artifacts : Expire(a) \/ Delete(a))
  PROVE TInv'
<1>1. UNCHANGED <<platform, runs, attempts, active, job, persisted, issued, total>>
  BY DEF Appears, Approve, Arrive, Appear, Expire, Delete, ghost, counters
<1>2. RunsType' /\ Selectors' /\ JobType'
  BY <1>1 DEF TInv, RunsType, Selectors, JobType
<1>3. StoreType'
  <2>1. UNCHANGED store \/ Appears
    BY DEF Expire, Delete
  <2>2. CASE UNCHANGED store
    BY <1>1, <2>2 DEF TInv, StoreType
  <2>3. CASE Approve
    BY <1>1, <2>3 DEF TInv, StoreType, Approve
  <2>4. ASSUME NEW u \in store.arriving, Arrive(u) PROVE StoreType'
    <3>1. u.binary \in Authority /\ u.at \in Nat
      BY DEF TInv, StoreType
    <3> QED BY <1>1, <2>4, <3>1 DEF TInv, StoreType, Arrive
  <2>5. ASSUME NEW stage \in store.pending, Appear(stage) PROVE StoreType'
    BY <1>1, <2>5 DEF TInv, StoreType, Appear
  <2> QED BY <2>1, <2>2, <2>3, <2>4, <2>5 DEF Appears
<1>4. DocsType'
  <2>1. UNCHANGED artifacts \/ (\E a \in artifacts : Expire(a) \/ Delete(a))
    BY DEF Appears, Arrive, Appear, Approve
  <2>2. CASE UNCHANGED artifacts
    BY <1>1, <2>2, DocsKept DEF TInv, RunsType
  <2>3. ASSUME NEW a \in artifacts, Delete(a) PROVE DocsType'
    BY <1>1, <2>3 DEF TInv, DocsType, Delete
  <2>4. ASSUME NEW a \in artifacts, Expire(a) PROVE DocsType'
    <3>1. a = [run |-> a.run, kind |-> a.kind, doc |-> a.doc, expired |-> a.expired]
      BY DEF TInv, DocsType
    <3> DEFINE R == [run : {a.run}, kind : {a.kind}, doc : {a.doc}, expired : BOOLEAN]
               new == [a EXCEPT !.expired = TRUE]
    <3>2. a \in R
      BY <3>1 DEF TInv, DocsType
    <3>3. new \in R
      BY <3>2
    <3> HIDE DEF new
    <3>4. /\ new.run = a.run /\ new.kind = a.kind /\ new.doc = a.doc /\ new.expired \in BOOLEAN
          /\ new = [run |-> new.run, kind |-> new.kind, doc |-> new.doc, expired |-> new.expired]
      BY <3>3
    <3>5. artifacts' \subseteq artifacts \cup {new}
      BY <2>4 DEF new, Expire
    <3> QED BY <1>1, <3>4, <3>5 DEF TInv, DocsType
  <2> QED BY <2>1, <2>2, <2>3, <2>4
<1> QED BY <1>2, <1>3, <1>4 DEF TInv

LEMMA TInvNext == ASSUME TInv, [Next]_vars PROVE TInv'
<1>1. CASE UNCHANGED vars
  BY <1>1 DEF vars, ghost, counters, TInv, RunsType, Selectors, JobType, DocsType, StoreType
<1>2. CASE active = 0 /\ total < MaxAttempts
           /\ \E stage \in Stages : \E d \in Inputs(stage) : DispatchRun(d)
  BY <1>2, DispatchTypes
<1>3. CASE \E r \in 1 .. MaxAttempts : RerunAll(r) \/ RerunFailed(r)
  BY <1>3, RerunTypes
<1>4. CASE StepFails \/ JobLost
  BY <1>4, StepFailsTypes
<1>5. CASE RunResolveJob \/ Build \/ RunStoreJob
  BY <1>5, ResolveJobTypes, BuildTypes, StoreJobTypes
<1>6. CASE Prepare \/ Persist \/ Execute \/ Create \/ Patch \/ Settle \/ SettleTimeout \/ Package
  BY <1>6, PrepareTypes, PersistTypes, ExecuteTypes, WriteTypes, SettleTypes, PackageTypes
<1>7. CASE Appears \/ (\E a \in artifacts : Expire(a) \/ Delete(a))
  BY <1>7, EnvironmentTypes
<1> QED BY <1>1, <1>2, <1>3, <1>4, <1>5, <1>6, <1>7 DEF Next, Appears

LEMMA TInvInit == ASSUME Init PROVE TInv
<1>1. runs = <<>> /\ attempts = <<>> /\ artifacts = {} /\ active = 0 /\ job = Idle /\ total = 0
      /\ persisted = {} /\ issued = {}
  BY DEF Init
<1>2. RunsType /\ Selectors
  BY <1>1, BoundAssumption DEF RunsType, Selectors
<1>3. JobType
  BY <1>1 DEF JobType, Idle, Phases, Working
<1>4. StoreType
  BY DEF Init, StoreType
<1> QED BY <1>1, <1>2, <1>3, <1>4 DEF TInv, DocsType

LEMMA AlwaysTInv == Spec => []TInv
<1>1. Init => TInv
  BY TInvInit
<1>2. TInv /\ [Next]_vars => TInv'
  BY TInvNext
<1> QED BY <1>1, <1>2, PTL DEF Spec

\* Runs, artifacts and documents keep their types, whatever is deleted, lost
\* or repeated.
THEOREM TypeCorrect == Spec => []TypeOK
<1>1. TInv => TypeOK
  BY BoundAssumption DEF TInv, RunsType, JobType, DocsType, TypeOK
<1> QED BY <1>1, AlwaysTInv, PTL

(***************************************************************************)
(* One build.  A run that has built keeps the digest in every attempt that *)
(* still knows the decision to build, and such an attempt builds no more.  *)
(***************************************************************************)
BuildInv ==
  /\ \A r \in 1 .. Len(runs) : \A m, n \in 1 .. Len(attempts[r]) :
       m <= n /\ attempts[r][m].build = "ok" /\ attempts[r][n].resolve = "fresh"
         => attempts[r][n].digest # None
  /\ job.phase = "build" => Now.resolve = "fresh" /\ Now.digest = None
  /\ job.phase = "resolve" => Now = NewAttempt
  /\ BuiltOnce

LEMMA OnceBefore ==
  ASSUME TInv, BuildInv, NEW r \in 1 .. Len(runs),
         NEW m \in 1 .. Len(attempts[r]), NEW n \in 1 .. Len(attempts[r]),
         attempts[r][m].build = "ok", attempts[r][n].build = "ok"
  PROVE m = n
<1>1. r \in DOMAIN attempts /\ DOMAIN attempts[r] = 1 .. Len(attempts[r])
  BY DEF TInv, RunsType
<1> QED BY <1>1 DEF BuildInv, BuiltOnce

\* A step that changes one field group of the current attempt harmlessly.
LEMMA BuildQuiet ==
  ASSUME TInv, BuildInv, active # 0, UNCHANGED runs, NEW changed \in Attempt, Set(changed),
         changed.build \in {Now.build, "failed"}, changed.digest = Now.digest,
         changed.resolve = "fresh" => Now.resolve = "fresh",
         job'.phase \notin {"resolve", "build"}
  PROVE BuildInv'
<1>1. /\ attempts' \in Seq(Seq(Attempt)) /\ Len(attempts') = Len(attempts)
      /\ Len(attempts) = Len(runs) /\ DOMAIN attempts = 1 .. Len(runs)
      /\ \A r \in 1 .. Len(runs) : Len(attempts'[r]) = Len(attempts[r])
      /\ \A r \in 1 .. Len(runs) : \A m \in 1 .. Len(attempts[r]) :
           attempts'[r][m] = IF r = active /\ m = N THEN changed ELSE attempts[r][m]
  BY SetAttempt DEF TInv, RunsType
<1>2. /\ DOMAIN attempts' = 1 .. Len(runs)
      /\ \A r \in 1 .. Len(runs) : DOMAIN attempts[r] = 1 .. Len(attempts[r])
      /\ \A r \in 1 .. Len(runs) : DOMAIN attempts'[r] = 1 .. Len(attempts[r])
  BY <1>1 DEF TInv, RunsType
<1>3. Now = attempts[active][N]
  BY DEF Now
<1>4. \A r \in 1 .. Len(runs) : \A m \in 1 .. Len(attempts[r]) :
        /\ attempts'[r][m].build = "ok" => attempts[r][m].build = "ok"
        /\ attempts'[r][m].resolve = "fresh" => attempts[r][m].resolve = "fresh"
        /\ attempts'[r][m].digest = attempts[r][m].digest
  BY <1>1, <1>3
<1>5. BuiltOnce'
  BY SMTT(60), <1>1, <1>2, <1>4 DEF BuildInv, BuiltOnce
<1> QED BY <1>1, <1>4, <1>5 DEF BuildInv

LEMMA BuildStart ==
  ASSUME TInv, BuildInv, NEW r, RerunAll(r) \/ RerunFailed(r) PROVE BuildInv'
<1> DEFINE last == attempts[r][Len(attempts[r])]
           kept == [NewAttempt EXCEPT !.resolve = last.resolve, !.digest = last.digest]
           L == Len(attempts[r])
<1>1. r \in 1 .. Len(runs) /\ total < MaxAttempts /\ UNCHANGED runs /\ r \in DOMAIN runs
      /\ attempts[r] \in Seq(Attempt) /\ L \in Nat /\ L >= 1 /\ Len(attempts) = Len(runs)
  BY DEF RerunAll, RerunFailed, CanRerun, TInv, RunsType
<1>2. last \in Attempt /\ NewAttempt \in Attempt
  BY <1>1, NewAttemptType
<1>3. kept \in Attempt /\ kept.resolve = last.resolve /\ kept.digest = last.digest /\ kept.build = "none"
      /\ NewAttempt.build = "none" /\ NewAttempt.resolve = "none"
  BY <1>2 DEF Attempt, NewAttempt
<1>4. \E new \in Attempt :
        /\ attempts' = [attempts EXCEPT ![r] = Append(@, new)] /\ new.build = "none"
        /\ new.resolve = "fresh" => last.resolve = "fresh" /\ new.digest = last.digest
        /\ active' = r
        /\ job'.phase = "build" => new.resolve = "fresh" /\ new.digest = None
        /\ job'.phase = "resolve" => new = NewAttempt
  <2>1. CASE RerunAll(r)
    <3>1. attempts' = [attempts EXCEPT ![r] = Append(@, NewAttempt)] /\ active' = r
          /\ job'.phase \in {"resolve", "store"}
      BY <2>1 DEF RerunAll, Start, FirstPhase, Idle
    <3> QED BY <1>2, <1>3, <3>1
  <2>2. CASE RerunFailed(r)
    <3>1. attempts' = [attempts EXCEPT ![r] = Append(@, kept)] /\ active' = r
          /\ job'.phase \in {"build", "store"}
          /\ (job'.phase = "build" => last.resolve = "fresh" /\ last.digest = None)
      BY <2>2 DEF RerunFailed, Start, Idle
    <3> HIDE DEF kept
    <3> QED BY <1>3, <3>1
  <2> QED BY <2>1, <2>2
<1> HIDE DEF kept
<1>5. PICK new \in Attempt :
        /\ attempts' = [attempts EXCEPT ![r] = Append(@, new)] /\ new.build = "none"
        /\ new.resolve = "fresh" => last.resolve = "fresh" /\ new.digest = last.digest
        /\ active' = r
        /\ job'.phase = "build" => new.resolve = "fresh" /\ new.digest = None
        /\ job'.phase = "resolve" => new = NewAttempt
  BY <1>4
<1>6. /\ attempts' \in Seq(Seq(Attempt)) /\ Len(attempts') = Len(attempts)
      /\ \A q \in 1 .. Len(runs) :
           attempts'[q] = IF q = r THEN Append(attempts[r], new) ELSE attempts[q]
  BY <1>1, <1>5, AnotherAttempt
<1>7. Len(attempts'[r]) = L + 1 /\ attempts'[r][L + 1] = new
      /\ \A m \in 1 .. L : attempts'[r][m] = attempts[r][m]
  <2>1. attempts'[r] = Append(attempts[r], new)
    BY <1>1, <1>6
  <2>2. Len(Append(attempts[r], new)) = L + 1 /\ Append(attempts[r], new)[L + 1] = new
        /\ \A m \in 1 .. L : Append(attempts[r], new)[m] = attempts[r][m]
    BY <1>1
  <2> QED BY <2>1, <2>2
<1>8. N' = L + 1 /\ Now' = new
  BY <1>5, <1>7 DEF N, Now
<1>9. BuiltOnce'
  <2>1. SUFFICES ASSUME NEW q \in DOMAIN attempts', NEW m \in DOMAIN attempts'[q], NEW n \in DOMAIN attempts'[q],
                        attempts'[q][m].build = "ok", attempts'[q][n].build = "ok"
                 PROVE m = n
    BY DEF BuiltOnce
  <2>2. q \in 1 .. Len(runs) /\ DOMAIN attempts = 1 .. Len(runs)
    BY <1>1, <1>6 DEF TInv, RunsType
  <2>3. CASE q = r
    <3>1. m \in 1 .. L + 1 /\ n \in 1 .. L + 1 /\ DOMAIN attempts[r] = 1 .. L
      BY <1>1, <1>6, <1>7, <2>3
    <3>2. m \in 1 .. L /\ n \in 1 .. L
      BY <1>5, <1>7, <2>1, <2>3, <3>1
    <3> QED BY <1>7, <2>1, <2>2, <2>3, <3>1, <3>2 DEF BuildInv, BuiltOnce
  <2>4. CASE q # r
    BY <1>6, <2>1, <2>2, <2>4 DEF BuildInv, BuiltOnce
  <2> QED BY <2>3, <2>4
<1>10. ASSUME NEW q \in 1 .. Len(runs'), NEW m \in 1 .. Len(attempts'[q]), NEW n \in 1 .. Len(attempts'[q]),
              m <= n, attempts'[q][m].build = "ok", attempts'[q][n].resolve = "fresh"
       PROVE attempts'[q][n].digest # None
  <2>1. q \in 1 .. Len(runs)
    BY <1>1
  <2>2. CASE q # r
    BY <1>6, <1>10, <2>1, <2>2 DEF BuildInv
  <2>3. CASE q = r
    <3>1. m \in 1 .. L
      BY <1>1, <1>5, <1>7, <1>10, <2>3
    <3>2. CASE n \in 1 .. L
      BY <1>7, <1>10, <2>1, <2>3, <3>1, <3>2 DEF BuildInv
    <3>3. CASE n = L + 1
      <4>1. last.resolve = "fresh" /\ attempts'[q][n].digest = last.digest
        BY <1>5, <1>7, <1>10, <2>3, <3>3
      <4>2. L \in 1 .. L /\ m <= L /\ attempts[r][m].build = "ok"
        BY <1>1, <1>7, <1>10, <2>3, <3>1
      <4> QED BY <1>1, <3>1, <4>1, <4>2 DEF BuildInv
    <3> QED BY <1>1, <1>7, <2>3, <3>2, <3>3
  <2> QED BY <2>2, <2>3
<1> QED BY <1>5, <1>8, <1>9, <1>10 DEF BuildInv

LEMMA BuildDispatch ==
  ASSUME TInv, BuildInv, total < MaxAttempts, NEW stage \in Stages, NEW d \in Inputs(stage),
         DispatchRun(d)
  PROVE BuildInv'
<1> DEFINE r == Len(runs) + 1
<1>1. runs' = Append(runs, d) /\ attempts' = Append(attempts, <<NewAttempt>>) /\ active' = r
      /\ job'.phase \in {"resolve", "store"}
  BY DEF DispatchRun, Start, FirstPhase, Idle
<1>2. runs \in Seq(Dispatch) /\ attempts \in Seq(Seq(Attempt)) /\ Len(attempts) = Len(runs)
      /\ Len(runs) \in Nat
  BY DEF TInv, RunsType
<1>3. attempts' \in Seq(Seq(Attempt)) /\ Len(attempts') = r /\ attempts'[r] = <<NewAttempt>>
      /\ \A q \in 1 .. Len(runs) : attempts'[q] = attempts[q]
  BY <1>1, <1>2, NewAttemptType
<1>4. Len(runs') = r
  <2>1. d \in Dispatch
    <3>1. TInv'
      BY DispatchTypes
    <3>2. runs' \in Seq(Dispatch) /\ Len(runs') = r /\ runs'[r] = d
      BY <1>1, <1>2, <3>1 DEF TInv, RunsType
    <3> QED BY <1>2, <3>2
  <2> QED BY <1>1, <1>2, <2>1
<1>5. Len(<<NewAttempt>>) = 1 /\ <<NewAttempt>>[1] = NewAttempt
      /\ NewAttempt.build = "none" /\ NewAttempt.resolve = "none"
  BY DEF NewAttempt
<1>6. Now' = NewAttempt
  BY <1>1, <1>3, <1>5 DEF Now, N
<1>7. BuiltOnce'
  <2>1. DOMAIN attempts = 1 .. Len(runs) /\ DOMAIN attempts' = 1 .. r /\ DOMAIN <<NewAttempt>> = 1 .. 1
    BY <1>2, <1>3
  <2> QED BY <1>2, <1>3, <1>5, <2>1 DEF BuildInv, BuiltOnce
<1>8. \A q \in 1 .. Len(runs') : \A m, n \in 1 .. Len(attempts'[q]) :
       m <= n /\ attempts'[q][m].build = "ok" /\ attempts'[q][n].resolve = "fresh"
         => attempts'[q][n].digest # None
  <2>1. ASSUME NEW q \in 1 .. Len(runs), NEW m \in 1 .. Len(attempts[q]), NEW n \in 1 .. Len(attempts[q]),
               m <= n, attempts[q][m].build = "ok", attempts[q][n].resolve = "fresh"
        PROVE attempts[q][n].digest # None
    BY <2>1 DEF BuildInv
  <2>2. \A m \in 1 .. Len(attempts'[r]) : attempts'[r][m] = NewAttempt
    BY <1>3, <1>5
  <2>3. \A q \in 1 .. Len(runs') : q \in 1 .. Len(runs) \/ q = r
    BY <1>2, <1>4
  <2>4. SUFFICES ASSUME NEW q \in 1 .. Len(runs'), NEW m \in 1 .. Len(attempts'[q]), NEW n \in 1 .. Len(attempts'[q]),
                        m <= n, attempts'[q][m].build = "ok", attempts'[q][n].resolve = "fresh"
                 PROVE attempts'[q][n].digest # None
    OBVIOUS
  <2>5. CASE q \in 1 .. Len(runs)
    BY <1>3, <2>1, <2>4, <2>5
  <2>6. CASE q = r
    BY <1>5, <2>2, <2>4, <2>6
  <2> QED BY <2>3, <2>5, <2>6
<1> QED BY <1>1, <1>6, <1>7, <1>8 DEF BuildInv

LEMMA BuildResolve == ASSUME TInv, BuildInv, RunResolveJob PROVE BuildInv'
<1> DEFINE mode == ResolveJob(active, D, N)
           changed == [Now EXCEPT !.resolve = mode]
<1>1. active # 0 /\ job.phase = "resolve" /\ Set(changed) /\ UNCHANGED runs
      /\ (IF mode = "error" THEN Stop ELSE To(IF mode = "fresh" THEN "build" ELSE "store"))
  BY DEF RunResolveJob, TInv, JobType
<1>2. mode \in {"complete", "resume", "fresh", "error"} /\ (mode = "fresh" => N = 1)
  BY DEF ResolveJob, Fresh
<1>3. Now = NewAttempt
  BY <1>1 DEF BuildInv
<1> HIDE DEF mode
<1>4. changed \in Attempt /\ changed.resolve = mode /\ changed.digest = None /\ changed.build = "none"
  BY <1>2, <1>3 DEF Attempt, NewAttempt
<1> HIDE DEF changed
<1>5. CASE mode # "fresh"
  <2>1. job'.phase \in {"idle", "store"}
    BY <1>1, <1>5 DEF Stop, Idle, To, TInv, JobType
  <2> QED BY <1>1, <1>3, <1>4, <1>5, <2>1, BuildQuiet DEF NewAttempt
<1>6. CASE mode = "fresh"
  <2>1. /\ attempts' \in Seq(Seq(Attempt)) /\ Len(attempts') = Len(attempts)
        /\ Len(attempts) = Len(runs) /\ DOMAIN attempts = 1 .. Len(runs)
        /\ \A r \in 1 .. Len(runs) : Len(attempts'[r]) = Len(attempts[r])
        /\ \A r \in 1 .. Len(runs) : \A m \in 1 .. Len(attempts[r]) :
             attempts'[r][m] = IF r = active /\ m = N THEN changed ELSE attempts[r][m]
    BY <1>1, <1>4, SetAttempt DEF TInv, RunsType
  <2>2. N = 1 /\ Len(attempts[active]) = 1 /\ active \in 1 .. Len(runs)
    BY <1>1, <1>2, <1>6, Current DEF N
  <2>3. /\ DOMAIN attempts' = 1 .. Len(runs)
        /\ \A r \in 1 .. Len(runs) : DOMAIN attempts[r] = 1 .. Len(attempts[r])
        /\ \A r \in 1 .. Len(runs) : DOMAIN attempts'[r] = 1 .. Len(attempts[r])
    BY <2>1 DEF TInv, RunsType
  <2>4. job'.phase = "build" /\ active' = active /\ N' = 1 /\ Now' = changed
    <3>1. job'.phase = "build" /\ active' = active
      BY <1>1, <1>6 DEF To, TInv, JobType
    <3>2. N' = Len(attempts'[active]) /\ Now' = attempts'[active][N']
      BY <3>1 DEF N, Now
    <3>3. Len(attempts'[active]) = 1 /\ attempts'[active][1] = changed
      BY <2>1, <2>2
    <3> QED BY <3>1, <3>2, <3>3
  <2>5. BuiltOnce'
    <3>1. \A r \in 1 .. Len(runs) : \A m \in 1 .. Len(attempts[r]) :
            attempts'[r][m].build = "ok" => attempts[r][m].build = "ok"
      BY <1>4, <2>1
    <3>2. SUFFICES ASSUME NEW r \in 1 .. Len(runs), NEW m \in 1 .. Len(attempts[r]), NEW n \in 1 .. Len(attempts[r]),
                          attempts'[r][m].build = "ok", attempts'[r][n].build = "ok"
                   PROVE m = n
      BY <2>1, <2>3 DEF BuiltOnce
    <3> QED BY <3>1, <3>2, OnceBefore
  <2>6. \A r \in 1 .. Len(runs) : \A m, n \in 1 .. Len(attempts'[r]) :
         m <= n /\ attempts'[r][m].build = "ok" /\ attempts'[r][n].resolve = "fresh"
           => attempts'[r][n].digest # None
    <3>1. SUFFICES ASSUME NEW r \in 1 .. Len(runs), NEW m \in 1 .. Len(attempts[r]), NEW n \in 1 .. Len(attempts[r]),
                          m <= n, attempts'[r][m].build = "ok", attempts'[r][n].resolve = "fresh"
                   PROVE attempts'[r][n].digest # None
      BY ZenonT(60), <2>1
    <3>2. CASE r = active
      <4>1. m = 1 /\ attempts'[r][m] = changed
        BY <2>1, <2>2, <3>1, <3>2
      <4> QED BY <1>4, <3>1, <4>1
    <3>3. CASE r # active
      BY <2>1, <3>1, <3>3 DEF BuildInv
    <3> QED BY <3>2, <3>3
  <2> QED BY <1>1, <1>4, <1>6, <2>4, <2>5, <2>6 DEF BuildInv
<1> QED BY <1>5, <1>6

LEMMA BuildBuild == ASSUME TInv, BuildInv, Build PROVE BuildInv'
<1> DEFINE changed == [Now EXCEPT !.build = "ok", !.digest = Me]
           failed == [Now EXCEPT !.build = "failed"]
<1>1. active # 0 /\ job.phase = "build" /\ UNCHANGED runs
      /\ (\/ Set(failed) /\ Stop
          \/ Set(changed) /\ To("store"))
  BY DEF Build, TInv, JobType
<1>2. Now \in Attempt /\ Me \in Authority /\ active \in 1 .. Len(runs) /\ N \in 1 .. Len(attempts[active])
  BY <1>1, Current
<1>3. Now.resolve = "fresh" /\ Now.digest = None
  BY <1>1 DEF BuildInv
<1>4. CASE Set(failed) /\ Stop
  <2>1. failed \in Attempt /\ failed.build = "failed" /\ failed.digest = Now.digest /\ failed.resolve = Now.resolve
    BY <1>2 DEF Attempt
  <2> HIDE DEF failed
  <2>2. job'.phase = "idle"
    BY <1>4 DEF Stop, Idle
  <2> QED BY <1>1, <1>4, <2>1, <2>2, BuildQuiet
<1>5. CASE Set(changed) /\ To("store")
  <2>1. changed \in Attempt /\ changed.build = "ok" /\ changed.digest = Me
    BY <1>2 DEF Attempt
  <2> HIDE DEF changed
  <2>2. changed.digest # None
    BY <1>2, <2>1, NoneIsNoDocument
  <2>3. /\ attempts' \in Seq(Seq(Attempt)) /\ Len(attempts') = Len(attempts)
        /\ Len(attempts) = Len(runs) /\ DOMAIN attempts = 1 .. Len(runs)
        /\ \A r \in 1 .. Len(runs) : Len(attempts'[r]) = Len(attempts[r])
        /\ \A r \in 1 .. Len(runs) : \A m \in 1 .. Len(attempts[r]) :
             attempts'[r][m] = IF r = active /\ m = N THEN changed ELSE attempts[r][m]
    BY <1>1, <1>5, <2>1, SetAttempt DEF TInv, RunsType
  <2>4. /\ DOMAIN attempts' = 1 .. Len(runs)
        /\ \A r \in 1 .. Len(runs) : DOMAIN attempts[r] = 1 .. Len(attempts[r])
        /\ \A r \in 1 .. Len(runs) : DOMAIN attempts'[r] = 1 .. Len(attempts[r])
    BY <2>3 DEF TInv, RunsType
  <2>5. attempts[active][N].resolve = "fresh" /\ attempts[active][N].digest = None
        /\ N = Len(attempts[active])
    BY <1>3 DEF Now, N
  <2>6. \A m \in 1 .. Len(attempts[active]) : attempts[active][m].build # "ok"
    <3>1. SUFFICES ASSUME NEW m \in 1 .. Len(attempts[active]), attempts[active][m].build = "ok" PROVE FALSE
      OBVIOUS
    <3>2. m <= N /\ N \in 1 .. Len(attempts[active])
      BY <1>2, <2>5, <3>1
    <3> QED BY <1>2, <2>5, <3>1, <3>2 DEF BuildInv
  <2>7. BuiltOnce'
    <3>1. SUFFICES ASSUME NEW r \in 1 .. Len(runs), NEW m \in 1 .. Len(attempts[r]), NEW n \in 1 .. Len(attempts[r]),
                          attempts'[r][m].build = "ok", attempts'[r][n].build = "ok"
                   PROVE m = n
      BY <2>3, <2>4 DEF BuiltOnce
    <3>2. CASE r = active
      BY <2>3, <2>6, <3>1, <3>2
    <3>3. CASE r # active
      BY <2>3, <3>1, <3>3, OnceBefore
    <3> QED BY <3>2, <3>3
  <2>8. \A r \in 1 .. Len(runs) : \A m, n \in 1 .. Len(attempts'[r]) :
         m <= n /\ attempts'[r][m].build = "ok" /\ attempts'[r][n].resolve = "fresh"
           => attempts'[r][n].digest # None
    <3>1. SUFFICES ASSUME NEW r \in 1 .. Len(runs), NEW m \in 1 .. Len(attempts[r]), NEW n \in 1 .. Len(attempts[r]),
                          m <= n, attempts'[r][m].build = "ok", attempts'[r][n].resolve = "fresh"
                   PROVE attempts'[r][n].digest # None
      BY ZenonT(60), <2>3
    <3>2. CASE r = active /\ n = N
      BY <2>2, <2>3, <3>1, <3>2
    <3>3. CASE r = active /\ n # N
      <4>1. m # N
        BY <1>2, <2>5, <3>1, <3>3
      <4> QED BY <2>3, <2>6, <3>1, <3>3, <4>1
    <3>4. CASE r # active
      BY <2>3, <3>1, <3>4 DEF BuildInv
    <3> QED BY <3>2, <3>3, <3>4
  <2>9. job'.phase = "store"
    BY <1>5 DEF To, TInv, JobType
  <2> QED BY <1>1, <2>7, <2>8, <2>9 DEF BuildInv
<1> QED BY <1>1, <1>4, <1>5

\* Everything else that happens in a job.
LEMMA BuildFails ==
  ASSUME TInv, BuildInv, active # 0, UNCHANGED runs, Fail, Stop PROVE BuildInv'
<1>1. PICK changed \in Attempt :
          /\ Set(changed)
          /\ \/ job.phase = "resolve" /\ changed = [Now EXCEPT !.resolve = "error"]
             \/ job.phase = "build" /\ changed = [Now EXCEPT !.build = "failed"]
             \/ /\ job.phase \notin {"resolve", "build"}
                /\ changed = [Now EXCEPT !.store = "failure",
                                        !.gate = job.phase \in {"prepare", "persist"}]
  BY FailedAttempt
<1>2. Now \in Attempt
  BY Current
<1>3. changed.build \in {Now.build, "failed"} /\ changed.digest = Now.digest
      /\ (changed.resolve = "fresh" => Now.resolve = "fresh")
  BY <1>1, <1>2 DEF Attempt
<1>4. job'.phase = "idle"
  BY DEF Stop, Idle
<1> QED BY <1>1, <1>3, <1>4, BuildQuiet

LEMMA BuildEnds ==
  ASSUME TInv, BuildInv, active # 0, UNCHANGED runs, Stop,
         \E s \in {"failure", "success"} : Set([Now EXCEPT !.store = s])
  PROVE BuildInv'
<1>1. PICK s \in {"failure", "success"} : Set([Now EXCEPT !.store = s])
  OBVIOUS
<1> DEFINE changed == [Now EXCEPT !.store = s]
<1>2. changed \in Attempt /\ changed.build = Now.build /\ changed.digest = Now.digest
      /\ changed.resolve = Now.resolve
  BY Current DEF Attempt
<1>3. job'.phase = "idle"
  BY DEF Stop, Idle
<1> HIDE DEF changed
<1>4. Set(changed)
  BY <1>1 DEF changed
<1> QED BY <1>2, <1>3, <1>4, BuildQuiet

LEMMA BuildGoesOn ==
  ASSUME TInv, BuildInv, UNCHANGED <<runs, attempts, active>>,
         job'.phase \notin {"resolve", "build"} \/ UNCHANGED job
  PROVE BuildInv'
BY DEF BuildInv, BuiltOnce, Now, N

LEMMA BuildNext == ASSUME TInv, BuildInv, [Next]_vars PROVE BuildInv'
<1>1. CASE UNCHANGED vars
  BY <1>1, BuildGoesOn DEF vars
<1>2. CASE active = 0 /\ total < MaxAttempts
           /\ \E stage \in Stages : \E d \in Inputs(stage) : DispatchRun(d)
  BY <1>2, BuildDispatch
<1>3. CASE \E r \in 1 .. MaxAttempts : RerunAll(r) \/ RerunFailed(r)
  BY <1>3, BuildStart
<1>4. CASE StepFails
  BY <1>4, BuildFails DEF StepFails
<1>5. CASE JobLost
  <2>1. active # 0 /\ Stop /\ UNCHANGED runs /\ Now \in Attempt
    BY <1>5, Current DEF JobLost
  <2>2. CASE job.phase \in {"resolve", "build"}
    <3>1. Fail
      BY <1>5, <2>2 DEF JobLost, Fail
    <3> QED BY <2>1, <3>1, BuildFails
  <2>3. CASE job.phase \notin {"resolve", "build"}
    <3>1. Set([Now EXCEPT !.store = "failure"])
      BY <1>5, <2>3 DEF JobLost
    <3> QED BY <2>1, <3>1, BuildEnds
  <2> QED BY <2>2, <2>3
<1>6. CASE RunResolveJob \/ Build
  BY <1>6, BuildResolve, BuildBuild
<1>7. CASE RunStoreJob
  <2>1. active # 0 /\ UNCHANGED runs
    BY <1>7 DEF RunStoreJob, TInv, JobType
  <2>2. \/ Stop /\ Set([Now EXCEPT !.store = "failure"])
        \/ Stop /\ Set([Now EXCEPT !.store = "success"])
        \/ UNCHANGED <<attempts, active>> /\ job'.phase \in {"prepare", "execute"}
    BY <1>7 DEF RunStoreJob, TInv, JobType
  <2> QED BY <2>1, <2>2, BuildEnds, BuildGoesOn
<1>8. CASE Prepare \/ Persist \/ Execute \/ Create \/ Patch \/ Settle \/ SettleTimeout
  <2>1. active # 0 /\ UNCHANGED runs
    BY <1>8 DEF Prepare, Persist, Execute, Create, Patch, Settle, SettleTimeout, TInv, JobType
  <2>2. \/ Fail /\ Stop
        \/ UNCHANGED <<attempts, active>> /\ job'.phase \in {"persist", "execute", "settle", "package"}
    BY <1>8 DEF Prepare, Persist, Execute, Create, Patch, Settle, SettleTimeout, To, TInv, JobType
  <2> QED BY <2>1, <2>2, BuildFails, BuildGoesOn
<1>9. CASE Package
  <2>1. active # 0 /\ UNCHANGED runs /\ Stop
        /\ (Set([Now EXCEPT !.store = "failure"]) \/ Set([Now EXCEPT !.store = "success"]))
    BY <1>9 DEF Package, TInv, JobType
  <2> QED BY <2>1, BuildEnds
<1>10. CASE Appears \/ (\E a \in artifacts : Expire(a) \/ Delete(a))
  BY <1>10, BuildGoesOn DEF Appears, Approve, Arrive, Appear, Expire, Delete
<1> QED BY <1>1, <1>2, <1>3, <1>4, <1>5, <1>6, <1>7, <1>8, <1>9, <1>10 DEF Next, Appears

\* A run hands over at most one binary, in whichever attempts it is repeated.
THEOREM OneBuild == Spec => []BuiltOnce
<1>1. Init => BuildInv
  BY DEF Init, BuildInv, BuiltOnce, Idle
<1>2. TInv /\ BuildInv /\ [Next]_vars => BuildInv'
  BY BuildNext
<1>3. BuildInv => BuiltOnce
  BY DEF BuildInv
<1> QED BY <1>1, <1>2, <1>3, AlwaysTInv, PTL DEF Spec

(***************************************************************************)
(* What never shrinks: the runs and their attempts, what the Store holds,  *)
(* and what was ever sent, persisted and issued.                           *)
(***************************************************************************)
Holds ==
  /\ store.build # None => store'.build = store.build /\ store'.uploaded = store.uploaded
  /\ store.uploads <= store'.uploads /\ store.created \subseteq store'.created
  /\ store.patched \subseteq store'.patched /\ (store.approved => store'.approved)

Grows ==
  /\ Len(runs') \in Nat /\ Len(runs) <= Len(runs')
  /\ \A r \in 1 .. Len(runs) : runs'[r] = runs[r] /\ Len(attempts[r]) <= Len(attempts'[r])
  /\ Holds
  /\ sends \subseteq sends' /\ persisted \subseteq persisted' /\ issued \subseteq issued'
  /\ UNCHANGED platform

LEMMA RunsGrow ==
  ASSUME TInv, [Next]_vars
  PROVE /\ Len(runs') \in Nat /\ Len(runs) <= Len(runs')
        /\ \A r \in 1 .. Len(runs) : runs'[r] = runs[r] /\ Len(attempts[r]) <= Len(attempts'[r])
<1>0. runs \in Seq(Dispatch) /\ Len(runs) \in Nat /\ attempts \in Seq(Seq(Attempt)) /\ Len(attempts) = Len(runs)
      /\ \A r \in 1 .. Len(runs) : Len(attempts[r]) \in Nat /\ attempts[r] \in Seq(Attempt)
  BY DEF TInv, RunsType
<1>1. CASE UNCHANGED <<runs, attempts>>
  BY <1>0, <1>1
<1>2. ASSUME UNCHANGED runs, active # 0, NEW changed \in Attempt, Set(changed)
      PROVE \A r \in 1 .. Len(runs) : runs'[r] = runs[r] /\ Len(attempts[r]) <= Len(attempts'[r])
  <2>1. \A r \in 1 .. Len(runs) : Len(attempts'[r]) = Len(attempts[r])
    BY <1>2, SetAttempt
  <2> QED BY <1>0, <1>2, <2>1
<1>3. CASE active = 0 /\ total < MaxAttempts
           /\ \E stage \in Stages : \E d \in Inputs(stage) : DispatchRun(d)
  <2>1. PICK stage \in Stages : \E d \in Inputs(stage) : DispatchRun(d)
    BY <1>3
  <2>2. PICK d \in Inputs(stage) : DispatchRun(d)
    BY <2>1
  <2>3. TInv'
    BY <1>3, <2>2, DispatchTypes
  <2>4. runs' = Append(runs, d) /\ attempts' = Append(attempts, <<NewAttempt>>)
    BY <2>2 DEF DispatchRun
  <2>5. Len(runs') \in Nat
    BY <2>3 DEF TInv, RunsType
  <2>6. Len(attempts') = Len(attempts) + 1 /\ \A r \in 1 .. Len(runs) : attempts'[r] = attempts[r]
    BY <1>0, <2>4, NewAttemptType
  <2>7. Len(runs') = Len(runs) + 1
    BY <1>0, <2>3, <2>6 DEF TInv, RunsType
  <2>8. \A r \in 1 .. Len(runs) : runs'[r] = runs[r]
    BY <1>0, <2>4
  <2> QED BY <1>0, <2>6, <2>7, <2>8
<1>4. CASE \E r \in 1 .. MaxAttempts : RerunAll(r) \/ RerunFailed(r)
  <2>1. PICK r \in 1 .. MaxAttempts : RerunAll(r) \/ RerunFailed(r)
    BY <1>4
  <2>2. r \in 1 .. Len(runs) /\ total < MaxAttempts /\ UNCHANGED runs /\ r \in DOMAIN runs
    BY <1>0, <2>1 DEF RerunAll, RerunFailed, CanRerun
  <2>3. PICK new : attempts' = [attempts EXCEPT ![r] = Append(@, new)] /\ new \in Attempt
    <3>1. CASE RerunAll(r)
      BY <3>1, NewAttemptType DEF RerunAll
    <3>2. CASE RerunFailed(r)
      <4> DEFINE last == attempts[r][Len(attempts[r])]
                 kept == [NewAttempt EXCEPT !.resolve = last.resolve, !.digest = last.digest]
      <4>0. Len(attempts[r]) \in 1 .. total
        BY <2>2 DEF TInv, RunsType
      <4>1. last \in Attempt
        BY <1>0, <2>2, <4>0
      <4>2. kept \in Attempt
        BY <4>1, NewAttemptType DEF Attempt
      <4>3. attempts' = [attempts EXCEPT ![r] = Append(@, kept)]
        BY <3>2 DEF RerunFailed
      <4> HIDE DEF kept
      <4> QED BY <4>2, <4>3
    <3> QED BY <2>1, <3>1, <3>2
  <2>4. \A q \in 1 .. Len(runs) : attempts'[q] = IF q = r THEN Append(attempts[r], new) ELSE attempts[q]
    BY <2>2, <2>3, AnotherAttempt
  <2>5. Len(Append(attempts[r], new)) = Len(attempts[r]) + 1
    BY <1>0, <2>2, <2>3
  <2>6. \A q \in 1 .. Len(runs) : Len(attempts[q]) <= Len(attempts'[q])
    <3>1. SUFFICES ASSUME NEW q \in 1 .. Len(runs) PROVE Len(attempts[q]) <= Len(attempts'[q])
      OBVIOUS
    <3>2. CASE q = r
      <4>1. attempts'[q] = Append(attempts[r], new) /\ Len(attempts[r]) \in Nat
        BY <1>0, <2>2, <2>4, <3>2
      <4>2. Len(attempts'[q]) = Len(attempts[r]) + 1
        BY <2>5, <4>1
      <4> QED BY <3>2, <4>1, <4>2
    <3>3. CASE q # r
      BY <1>0, <2>4, <3>3
    <3> QED BY <3>2, <3>3
  <2> QED BY <1>0, <2>2, <2>6
<1>5. CASE StepFails \/ SettleTimeout
  BY <1>0, <1>2, <1>5, FailedAttempt DEF StepFails, SettleTimeout, TInv, JobType
<1>6. CASE JobLost
  <2>1. active # 0 /\ UNCHANGED runs /\ Now \in Attempt
    BY <1>6, Current DEF JobLost
  <2>2. /\ [Now EXCEPT !.resolve = "error"] \in Attempt
        /\ [Now EXCEPT !.build = "failed"] \in Attempt
        /\ [Now EXCEPT !.store = "failure"] \in Attempt
    BY <2>1 DEF Attempt
  <2>3. \/ Set([Now EXCEPT !.resolve = "error"])
        \/ Set([Now EXCEPT !.build = "failed"])
        \/ Set([Now EXCEPT !.store = "failure"])
    BY <1>6 DEF JobLost
  <2> QED BY <1>0, <1>2, <2>1, <2>2, <2>3
<1>7. CASE RunResolveJob
  <2>1. active # 0 /\ UNCHANGED runs /\ Now \in Attempt
    BY <1>7, Current DEF RunResolveJob, TInv, JobType
  <2>2. ResolveJob(active, D, N) \in {"complete", "resume", "fresh", "error"}
    BY DEF ResolveJob
  <2>3. [Now EXCEPT !.resolve = ResolveJob(active, D, N)] \in Attempt
    BY <2>1, <2>2 DEF Attempt
  <2>4. Set([Now EXCEPT !.resolve = ResolveJob(active, D, N)])
    BY <1>7 DEF RunResolveJob
  <2> QED BY <1>0, <1>2, <2>1, <2>3, <2>4
<1>8. CASE Build
  <2>1. active # 0 /\ UNCHANGED runs /\ Now \in Attempt /\ Me \in Authority
    BY <1>8, Current DEF Build, TInv, JobType
  <2>2. /\ [Now EXCEPT !.build = "failed"] \in Attempt
        /\ [Now EXCEPT !.build = "ok", !.digest = Me] \in Attempt
    BY <2>1 DEF Attempt
  <2>3. Set([Now EXCEPT !.build = "failed"]) \/ Set([Now EXCEPT !.build = "ok", !.digest = Me])
    BY <1>8 DEF Build
  <2> QED BY <1>0, <1>2, <2>1, <2>2, <2>3
<1>9. CASE RunStoreJob \/ Package
  <2>1. active # 0 /\ UNCHANGED runs /\ Now \in Attempt
    BY <1>9, Current DEF RunStoreJob, Package, TInv, JobType
  <2>2. \A s \in {"failure", "success"} : [Now EXCEPT !.store = s] \in Attempt
    BY <2>1 DEF Attempt
  <2>3. UNCHANGED attempts \/ Set([Now EXCEPT !.store = "failure"]) \/ Set([Now EXCEPT !.store = "success"])
    BY <1>9 DEF RunStoreJob, Package
  <2> QED BY <1>0, <1>1, <1>2, <2>1, <2>2, <2>3
<1>10. CASE Prepare \/ Persist \/ Execute \/ Create \/ Patch \/ Settle
  <2>1. active # 0 /\ UNCHANGED runs
    BY <1>10 DEF Prepare, Persist, Execute, Create, Patch, Settle, TInv, JobType
  <2>2. UNCHANGED attempts \/ Fail
    BY <1>10 DEF Prepare, Persist, Execute, Create, Patch, Settle
  <2> QED BY <1>0, <1>1, <1>2, <2>1, <2>2, FailedAttempt
<1>11. CASE Appears \/ (\E a \in artifacts : Expire(a) \/ Delete(a))
  BY <1>1, <1>11 DEF Appears, Approve, Arrive, Appear, Expire, Delete
<1> QED BY <1>0, <1>1, <1>3, <1>4, <1>5, <1>6, <1>7, <1>8, <1>9, <1>10, <1>11 DEF Next, Appears, vars

\* The Store changes when a job sends and when the Stores act.
LEMMA StoreGrows ==
  ASSUME TInv, [Next]_vars
  PROVE Holds /\ (UNCHANGED store \/ Execute \/ Create \/ Patch \/ Appears)
<1>1. UNCHANGED store \/ Execute \/ Create \/ Patch \/ Appears
  BY DEF Next, Appears, vars, DispatchRun, RerunAll, RerunFailed, StepFails, JobLost, RunResolveJob, Build,
         RunStoreJob, Prepare, Persist, Settle, SettleTimeout, Package, Expire, Delete
<1>a. /\ store.uploads \in Nat /\ store.created \subseteq Stages /\ store.patched \subseteq Stages
      /\ DOMAIN store = {"build", "uploaded", "uploads", "arriving", "pending", "created", "patched",
                         "approved"}
  BY DEF TInv, StoreType
<1>2. ASSUME UNCHANGED store PROVE Holds
  BY <1>2, <1>a DEF Holds
<1>3. ASSUME Approve PROVE Holds
  <2>1. store' = [store EXCEPT !.approved = TRUE]
    BY <1>3 DEF Approve
  <2> QED BY <1>a, <2>1 DEF Holds
<1>4. ASSUME \E u \in store.arriving : Arrive(u) PROVE Holds
  <2>1. PICK u \in store.arriving : Arrive(u)
    BY <1>4
  <2>2. CASE store.build = None
    <3>1. store' = [store EXCEPT !.arriving = @ \ {u}, !.build = u.binary, !.uploaded = u.at]
      BY <2>1, <2>2 DEF Arrive
    <3> QED BY <1>a, <2>2, <3>1 DEF Holds
  <2>3. CASE store.build # None
    <3>1. store' = [store EXCEPT !.arriving = @ \ {u}]
      BY <2>1, <2>3 DEF Arrive
    <3> QED BY <1>a, <3>1 DEF Holds
  <2> QED BY <2>2, <2>3
<1>5. ASSUME \E stage \in store.pending : Appear(stage) PROVE Holds
  <2>1. PICK stage \in store.pending : Appear(stage)
    BY <1>5
  <2>2. store' = [store EXCEPT !.pending = @ \ {stage}, !.created = @ \cup {stage}]
    BY <2>1 DEF Appear
  <2> QED BY <1>a, <2>2 DEF Holds
<1>6. ASSUME Create \/ Patch PROVE Holds
  BY <1>6 DEF Create, Patch, Holds, TInv, StoreType
<1>7. ASSUME Execute /\ ~UNCHANGED store PROVE Holds
  <2> DEFINE i == job.intent
  <2>1. MaySend(i, Me, D) /\ Send(i)
    BY <1>7, ExecuteWays
  <2>2. i.stage = "candidate" => store.build = None
    BY <2>1 DEF MaySend, Target
  <2>3. CASE store' = [store EXCEPT !.created = store.created \cup {i.stage},
                                    !.patched = store.patched \cup {i.stage}]
    BY <1>a, <2>3 DEF Holds
  <2>4. CASE store' = [store EXCEPT !.uploads = store.uploads + 1,
             !.arriving = store.arriving \cup {[binary |-> i.binary, at |-> store.uploads + 1]}]
    BY <1>a, <2>4 DEF Holds
  <2>5. CASE i.stage = "candidate" /\ store' = [store EXCEPT !.build = i.binary]
    BY <1>a, <2>2, <2>5 DEF Holds
  <2> QED BY <2>1, <2>3, <2>4, <2>5, SendCases
<1> QED BY <1>1, <1>2, <1>3, <1>4, <1>5, <1>6, <1>7 DEF Appears

LEMMA EverythingGrows == ASSUME TInv, [Next]_vars PROVE Grows
<1>1. sends \subseteq sends' /\ persisted \subseteq persisted' /\ issued \subseteq issued' /\ UNCHANGED platform
  BY DEF Next, vars, ghost, DispatchRun, RerunAll, RerunFailed, StepFails, JobLost, RunResolveJob, Build, RunStoreJob,
         Prepare, Persist, Execute, Create, Patch, Sent, Settle, SettleTimeout, Package, Arrive, Appear, Approve, Expire, Delete
<1> QED BY <1>1, RunsGrow, StoreGrows DEF Grows

(***************************************************************************)
(* What the documents say of each other and of the Store.                  *)
(***************************************************************************)
\* A production operation rests on the external final it names.
Rests(i) == i.ext # None => i.ext \in issued /\ i.ext.intent.stage = "external"

DocsInv ==
  /\ \A i \in persisted : Rests(i)
  /\ job.phase \in Working => Rests(job.intent)
  /\ job.phase \in {"execute", "settle", "package"} => job.intent \in persisted

\* The right of a job that settles to go on writing.
ArmedInv ==
  job.phase = "settle" =>
    /\ ValidContext(job.intent, Me, D)
    /\ job.intent.ext # None => Eligible(job.intent.ext)
    /\ Promoting(job.intent) /\ Prior(job.intent, Me) =>
         job.intent.stage \in store.created \/ FreshGrant(job.intent, Me, D)

SendsInv ==
  \A s \in sends :
    /\ s = [intent |-> s.intent, by |-> s.by, kind |-> s.kind] /\ s.intent \in persisted
    /\ s.by.run \in 1 .. Len(runs) /\ s.by.attempt \in 1 .. Len(attempts[s.by.run])
    /\ s.by \in Authority
    /\ s.by.run # s.intent.by.run => runs[s.by.run].recovery = s.intent.by.run
    /\ s.by.run = s.intent.by.run => runs[s.by.run].recovery = 0
    /\ platform = "ios" /\ s.kind = "create" /\ s.by # s.intent.by =>
         runs[s.by.run].grant = "retry" /\ s.by.attempt = 1

StoreInv ==
  /\ platform = "ios" /\ store.approved => Final("external")
  /\ "production" \in store.patched => Final("external") /\ (platform = "ios" => store.approved)
  /\ job.phase = "package" => Target(job.intent)
  /\ platform = "android" /\ job.phase \in {"settle", "package"} => store.build = job.intent.binary
  /\ \A f \in issued :
       /\ Target(f.intent)
       /\ platform = "android" => store.build = f.intent.binary
       /\ platform = "ios" /\ f.intent.stage = "external" /\ f.ready => store.approved

\* The documents a draft is made from were issued.
LEMMA DraftRests ==
  ASSUME TInv, active # 0, Resolution(active, D, N, Now.digest) = "prepare"
  PROVE Rests(Draft)
<1> DEFINE x == IF D.ext = 0 THEN None ELSE Doc(D.ext, "evidence")
<1>1. Draft.ext = x
  BY DEF Draft
<1>2. CASE D.ext = 0
  BY <1>1, <1>2 DEF Rests
<1>3. CASE D.ext # 0
  <2>1. D.stage = "production"
    BY <1>3, Current DEF Selected
  <2>2. PreparePromotion(active, D, N)
    BY <2>1 DEF Resolution
  <2>3. Has(D.ext, "evidence") /\ Doc(D.ext, "evidence").intent.stage = "external"
    BY <2>1, <2>2, UnexpiredIsThere DEF PreparePromotion
  <2>4. Doc(D.ext, "evidence") \in issued
    BY <2>3, DocIsFound DEF TInv, DocsType
  <2> QED BY <1>1, <1>3, <2>3, <2>4 DEF Rests
<1> QED BY <1>2, <1>3

\* A job that executes adopts, sends, arms or fails.
LEMMA ExecuteCases ==
  ASSUME TInv, Execute
  PROVE LET i == job.intent IN
          /\ active # 0 /\ job.phase = "execute" /\ IntentType(i)
          /\ UNCHANGED <<platform, runs, artifacts, persisted, issued>>
          /\ \/ /\ Guarded(i, Me, D) /\ MayAdopt(i, Me, D)
                /\ job'.phase = "package" /\ job'.intent = i
                /\ UNCHANGED <<active, attempts, store, sends>>
             \/ /\ Guarded(i, Me, D) /\ MaySend(i, Me, D) /\ Send(i) /\ Sent(i, "create")
                /\ job'.phase = "settle" /\ job'.intent = i /\ UNCHANGED <<active, attempts>>
             \/ /\ Guarded(i, Me, D) /\ MayWrite(i, Me, D)
                /\ job'.phase = "settle" /\ job'.intent = i
                /\ UNCHANGED <<active, attempts, store, sends>>
             \/ Fail /\ Stop /\ UNCHANGED <<store, sends>>
<1> DEFINE i == job.intent
<1>1. active # 0 /\ job.phase = "execute" /\ IntentType(i)
      /\ UNCHANGED <<platform, runs, artifacts, persisted, issued>>
  BY DEF Execute, TInv, JobType, Working, ghost
<1>2. CASE /\ Guarded(i, Me, D) /\ MayAdopt(i, Me, D)
           /\ job' = [job EXCEPT !.phase = "package", !.outcome = AdoptAs(i)]
           /\ UNCHANGED <<active, attempts, store, sends>>
  <2>1. job'.phase = "package" /\ job'.intent = i
    BY <1>2 DEF TInv, JobType
  <2> QED BY <1>1, <1>2, <2>1
<1>3. CASE /\ Guarded(i, Me, D) /\ MaySend(i, Me, D) /\ Send(i) /\ Sent(i, "create")
           /\ job' = [job EXCEPT !.phase = "settle", !.outcome = Made(i)]
           /\ UNCHANGED <<active, attempts>>
  <2>1. job'.phase = "settle" /\ job'.intent = i
    BY <1>3 DEF TInv, JobType
  <2> QED BY <1>1, <1>3, <2>1
<1>4. CASE /\ Guarded(i, Me, D) /\ MayWrite(i, Me, D) /\ To("settle")
           /\ UNCHANGED <<attempts, store, sends>>
  <2>1. job'.phase = "settle" /\ job'.intent = i /\ UNCHANGED active
    BY <1>4 DEF TInv, JobType, To
  <2> QED BY <1>1, <1>4, <2>1
<1>5. CASE Fail /\ Stop /\ UNCHANGED <<store, sends>>
  BY <1>1, <1>5
<1> QED BY <1>2, <1>3, <1>4, <1>5, ExecuteWays

\* A write leaves the job where it is.
LEMMA WriteCases ==
  ASSUME TInv, Create \/ Patch
  PROVE job'.phase = "settle" /\ job'.intent = job.intent /\ IntentType(job.intent)
BY WriteStep DEF TInv, JobType, Working

\* Whatever sends.
LEMMA SendStep ==
  ASSUME TInv, [Next]_vars, ~UNCHANGED sends
  PROVE LET i == job.intent IN
          /\ (Execute /\ Guarded(i, Me, D) /\ MaySend(i, Me, D) /\ Sent(i, "create")) \/ Create \/ Patch
          /\ active # 0 /\ job.phase \in {"execute", "settle"} /\ IntentType(i) /\ ~Target(i)
          /\ \E kind \in {"create", "patch"} : Sent(i, kind)
          /\ job'.phase = "settle" /\ job'.intent = i
          /\ UNCHANGED <<platform, runs, attempts, artifacts, active, issued, persisted>>
<1>1. Execute \/ Create \/ Patch
  BY DEF Next, vars, ghost, DispatchRun, RerunAll, RerunFailed, StepFails, JobLost, RunResolveJob, Build,
         RunStoreJob, Prepare, Persist, Settle, SettleTimeout, Package, Arrive, Appear, Approve, Expire, Delete
<1>2. CASE Create \/ Patch
  BY <1>2, WriteStep, WriteCases
<1>3. CASE Execute
  BY <1>3, ExecuteCases DEF MaySend
<1> QED BY <1>1, <1>2, <1>3

LEMMA RestsStays == ASSUME NEW i, Rests(i), issued \subseteq issued' PROVE Rests(i)'
BY DEF Rests

\* Only an execution and its readback reach these phases.
LEMMA OtherPhases ==
  ASSUME TInv, [Next]_vars, ~(Execute \/ Create \/ Patch \/ Settle), job'.phase \in {"settle", "package"}
  PROVE UNCHANGED job
<1>1. ASSUME NEW r, NEW phase \in {"resolve", "build", "store"}, Start(r, phase) PROVE FALSE
  BY <1>1 DEF Start, Idle
<1>2. CASE \E stage \in Stages : \E d \in Inputs(stage) : DispatchRun(d)
  BY <1>1, <1>2 DEF DispatchRun, FirstPhase
<1>3. CASE \E r \in 1 .. MaxAttempts : RerunAll(r) \/ RerunFailed(r)
  BY <1>1, <1>3 DEF RerunAll, RerunFailed, FirstPhase
<1>4. ASSUME Stop PROVE FALSE
  BY <1>4 DEF Stop, Idle
<1>5. CASE RunResolveJob \/ Build
  BY <1>4, <1>5 DEF RunResolveJob, Build, To, TInv, JobType
<1>6. CASE RunStoreJob
  BY <1>4, <1>6 DEF RunStoreJob, TInv, JobType
<1>7. CASE Prepare
  <2>1. CASE Admissible(job.intent)
    <3>1. job' = [job EXCEPT !.phase = "persist", !.intent.present = Target(job.intent),
                             !.intent.seen = Snapshot(job.intent.stage)]
      BY <1>7, <2>1 DEF Prepare
    <3> QED BY <3>1 DEF TInv, JobType
  <2>2. CASE ~Admissible(job.intent)
    BY <1>4, <1>7, <2>2 DEF Prepare
  <2> QED BY <2>1, <2>2
<1>8. CASE Persist
  BY <1>4, <1>8 DEF Persist, To, TInv, JobType
<1>9. CASE StepFails \/ JobLost \/ SettleTimeout \/ Package
  BY <1>4, <1>9 DEF StepFails, JobLost, SettleTimeout, Package
<1>10. CASE Appears \/ UNCHANGED vars \/ (\E a \in artifacts : Expire(a) \/ Delete(a))
  BY <1>10 DEF Appears, Arrive, Appear, Approve, Expire, Delete, vars
<1> QED BY <1>2, <1>3, <1>5, <1>6, <1>7, <1>8, <1>9, <1>10 DEF Next, Appears

LEMMA DocsInvNext == ASSUME TInv, DocsInv, [Next]_vars PROVE DocsInv'
<1>0. issued \subseteq issued' /\ persisted \subseteq persisted'
  BY EverythingGrows DEF Grows
<1>a. \A i \in persisted : Rests(i)'
  BY <1>0, RestsStays DEF DocsInv
<1>1. CASE /\ UNCHANGED persisted
           /\ \/ job'.phase \notin Working
              \/ job'.intent = job.intent /\ job.phase \in Working
           /\ job'.phase \in {"execute", "settle", "package"} =>
                job'.intent = job.intent /\ job.phase \in {"execute", "settle", "package"}
  <2>1. job'.phase \in Working => Rests(job.intent)' /\ job'.intent = job.intent
    BY <1>0, <1>1, RestsStays DEF DocsInv
  <2> QED BY <1>a, <1>1, <2>1 DEF DocsInv, Rests
<1>2. CASE RunStoreJob
  <2> DEFINE mode == Resolution(active, D, N, Now.digest)
             o == Doc(Original(active, D), "intent")
  <2>1. active # 0 /\ UNCHANGED persisted
    BY <1>2 DEF RunStoreJob, ghost, TInv, JobType
  <2>2. CASE mode \in {"error", "complete"}
    <3>1. job'.phase = "idle"
      BY <1>2, <2>2 DEF RunStoreJob, Stop, Idle
    <3>2. job'.phase \notin Working
      BY <3>1 DEF Working
    <3> QED BY <1>1, <2>1, <3>1, <3>2
  <2>3. CASE mode = "prepare"
    <3>1. job'.phase = "prepare" /\ job'.intent = Draft
      BY <1>2, <2>3 DEF RunStoreJob, TInv, JobType
    <3>2. Rests(Draft)
      BY <2>1, <2>3, DraftRests
    <3> QED BY <1>0, <2>1, <3>1, <3>2 DEF DocsInv, Rests
  <2>4. CASE mode \notin {"error", "complete", "prepare"}
    <3>1. job'.phase = "execute" /\ job'.intent = o
      BY <1>2, <2>4 DEF RunStoreJob, TInv, JobType
    <3>2. o \in persisted
      BY <2>4, ResumedIntent DEF Resolution
    <3> QED BY <1>0, <2>1, <3>1, <3>2 DEF DocsInv, Rests
  <2> QED BY <2>2, <2>3, <2>4
<1>3. CASE Prepare
  <2>1. UNCHANGED persisted /\ job.phase = "prepare" /\ IntentType(job.intent)
    BY <1>3 DEF Prepare, ghost, TInv, JobType, Working
  <2> DEFINE i == [job.intent EXCEPT !.present = Target(job.intent), !.seen = Snapshot(job.intent.stage)]
  <2>2. job'.phase = "idle" \/ (job'.phase = "persist" /\ job'.intent = i)
    <3>1. CASE ~Admissible(job.intent)
      BY <1>3, <3>1 DEF Prepare, Stop, Idle
    <3>2. CASE Admissible(job.intent)
      <4>1. job' = [job EXCEPT !.phase = "persist", !.intent.present = Target(job.intent),
                               !.intent.seen = Snapshot(job.intent.stage)]
        BY <1>3, <3>2 DEF Prepare
      <4>2. job'.phase = "persist"
        BY <4>1 DEF TInv, JobType
      <4>3. job'.intent = i
        BY <4>1 DEF TInv, JobType
      <4> QED BY <4>2, <4>3
    <3> QED BY <3>1, <3>2
  <2>3. i.ext = job.intent.ext
    BY <2>1 DEF IntentType
  <2>4. Rests(job.intent)
    BY <2>1 DEF DocsInv, Working
  <2> HIDE DEF i
  <2> QED BY <1>0, <2>1, <2>2, <2>3, <2>4 DEF DocsInv, Rests, Working
<1>4. CASE Persist
  <2>1. job.phase = "persist" /\ Rests(job.intent)
    BY <1>4 DEF Persist, DocsInv, Working
  <2>2. \/ job'.phase = "idle" /\ persisted' \subseteq persisted \cup {job.intent}
        \/ job'.phase = "execute" /\ job'.intent = job.intent /\ persisted' = persisted \cup {job.intent}
    BY <1>4 DEF Persist, Stop, Idle, To, TInv, JobType
  <2> QED BY <1>0, <2>1, <2>2 DEF DocsInv, Rests, Working
<1>5. CASE ~(RunStoreJob \/ Prepare \/ Persist)
  <2>1. UNCHANGED persisted
    BY <1>5 DEF Next, vars, ghost, DispatchRun, RerunAll, RerunFailed, StepFails, JobLost, RunResolveJob, Build,
         Execute, Create, Patch, Settle, SettleTimeout, Package, Arrive, Appear, Approve, Expire, Delete
  <2>2. CASE Execute \/ Create \/ Patch \/ Settle \/ SettleTimeout
    <3>1. job.phase \in {"execute", "settle"}
      BY <2>2 DEF Execute, Create, Patch, Settle, SettleTimeout
    <3>2. \/ job'.phase = "idle"
          \/ job'.phase \in {"settle", "package"} /\ job'.intent = job.intent
      <4>1. CASE Execute
        BY <4>1, ExecuteCases DEF Stop, Idle
      <4>2. CASE Settle
        BY <4>2 DEF Settle, TInv, JobType
      <4>3. CASE SettleTimeout
        BY <4>3 DEF SettleTimeout, Stop, Idle
      <4> QED BY <2>2, <4>1, <4>2, <4>3, WriteCases
    <3> QED BY <1>1, <2>1, <3>1, <3>2 DEF Working
  <2>3. CASE ~(Execute \/ Create \/ Patch \/ Settle \/ SettleTimeout)
    <3>1. UNCHANGED job \/ job'.phase \in {"idle", "resolve", "build", "store"}
      <4>1. CASE UNCHANGED vars
        BY <4>1 DEF vars
      <4>2. ASSUME NEW r, NEW phase \in {"resolve", "build", "store"}, Start(r, phase)
            PROVE job'.phase \in {"idle", "resolve", "build", "store"}
        BY <4>2 DEF Start, Idle
      <4>3. CASE \E stage \in Stages : \E d \in Inputs(stage) : DispatchRun(d)
        BY <4>2, <4>3 DEF DispatchRun, FirstPhase
      <4>4. CASE \E r \in 1 .. MaxAttempts : RerunAll(r) \/ RerunFailed(r)
        BY <4>2, <4>4 DEF RerunAll, RerunFailed, FirstPhase
      <4>5. CASE StepFails \/ JobLost \/ Package
        BY <4>5 DEF StepFails, JobLost, Package, Stop, Idle
      <4>6. CASE RunResolveJob \/ Build
        BY <4>6 DEF RunResolveJob, Build, Stop, To, Idle, TInv, JobType
      <4>7. CASE Appears \/ (\E a \in artifacts : Expire(a) \/ Delete(a))
        BY <4>7 DEF Appears, Arrive, Appear, Approve, Expire, Delete
      <4> QED BY <1>5, <2>3, <4>1, <4>3, <4>4, <4>5, <4>6, <4>7 DEF Next, Appears
    <3>2. CASE UNCHANGED job
      BY <1>a, <1>0, <2>1, <3>2, RestsStays DEF DocsInv, Rests
    <3>3. CASE job'.phase \in {"idle", "resolve", "build", "store"}
      BY <1>1, <2>1, <3>3 DEF Working
    <3> QED BY <3>1, <3>2, <3>3
  <2> QED BY <2>2, <2>3
<1> QED BY <1>2, <1>3, <1>4, <1>5

\* A job settles with the rights it was armed with.
LEMMA ArmedNext == ASSUME TInv, ArmedInv, [Next]_vars PROVE ArmedInv'
<1>1. SUFFICES ASSUME job'.phase = "settle" PROVE ArmedInv'
  BY DEF ArmedInv
<1>0. Holds /\ UNCHANGED platform
  BY StoreGrows, EverythingGrows DEF Grows
<1>2. CASE Execute
  <2> DEFINE i == job.intent
  <2>1. /\ Guarded(i, Me, D) /\ job'.intent = i /\ UNCHANGED <<active, attempts, runs>>
        /\ MaySend(i, Me, D) \/ (MayWrite(i, Me, D) /\ UNCHANGED store)
    BY <1>1, <1>2, ExecuteCases DEF Stop, Idle
  <2>2. UNCHANGED <<Me, D, platform>>
    BY <1>0, <2>1 DEF Me, N, D
  <2>3. ValidContext(i, Me, D) /\ (i.ext # None => Eligible(i.ext))
    BY <2>1 DEF Guarded, VerifiedIntent, Chain
  <2>4. Promoting(i) /\ Prior(i, Me) =>
          i.stage \in store'.created \/ FreshGrant(i, Me, D)
    BY <2>1 DEF MaySend, MayWrite
  <2> QED BY <2>1, <2>2, <2>3, <2>4 DEF ArmedInv, ValidContext, Eligible, Promoting, Prior, FreshGrant
<1>3. CASE ~Execute
  <2>1. job.phase = "settle" /\ job'.intent = job.intent /\ UNCHANGED <<active, attempts, runs>>
    <3>1. CASE Create \/ Patch
      BY <3>1, WriteStep, WriteCases
    <3>2. CASE Settle
      BY <1>1, <3>2 DEF Settle, TInv, JobType
    <3>3. CASE ~(Create \/ Patch \/ Settle)
      <4>1. UNCHANGED job
        BY <1>1, <1>3, <3>3, OtherPhases
      <4>2. UNCHANGED vars \/ Appears \/ (\E a \in artifacts : Expire(a) \/ Delete(a))
        <5>1. job.phase = "settle" /\ active # 0
          BY <1>1, <4>1 DEF TInv, JobType
        <5>2. ASSUME Stop PROVE FALSE
          BY <1>1, <5>2 DEF Stop, Idle
        <5> QED BY <1>3, <3>3, <5>1, <5>2 DEF Next, Appears, CanRerun, RerunAll, RerunFailed, StepFails, JobLost,
              RunResolveJob, Build, RunStoreJob, Prepare, Persist, SettleTimeout, Package
      <4> QED BY <1>1, <4>1, <4>2 DEF vars, Appears, Arrive, Appear, Approve, Expire, Delete
    <3> QED BY <3>1, <3>2, <3>3
  <2>2. UNCHANGED <<Me, D, platform>>
    BY <1>0, <2>1 DEF Me, N, D
  <2>3. job.intent.stage \in store.created => job.intent.stage \in store'.created
    BY <1>0 DEF Holds
  <2> QED BY <2>1, <2>2, <2>3 DEF ArmedInv, ValidContext, Eligible, Promoting, Prior, FreshGrant
<1> QED BY <1>2, <1>3

LEMMA SendsInvNext == ASSUME TInv, DocsInv, ArmedInv, SendsInv, [Next]_vars PROVE SendsInv'
<1>0. Grows
  BY EverythingGrows
<1>1. ASSUME NEW s \in sends
      PROVE (/\ s = [intent |-> s.intent, by |-> s.by, kind |-> s.kind] /\ s.intent \in persisted
             /\ s.by.run \in 1 .. Len(runs) /\ s.by.attempt \in 1 .. Len(attempts[s.by.run])
             /\ s.by \in Authority
             /\ s.by.run # s.intent.by.run => runs[s.by.run].recovery = s.intent.by.run
             /\ s.by.run = s.intent.by.run => runs[s.by.run].recovery = 0
             /\ platform = "ios" /\ s.kind = "create" /\ s.by # s.intent.by =>
                 runs[s.by.run].grant = "retry" /\ s.by.attempt = 1)'
  <2>1. s.by.run \in 1 .. Len(runs) /\ Len(runs) \in Nat /\ Len(attempts[s.by.run]) \in Nat
        /\ s.by.attempt \in 1 .. Len(attempts[s.by.run])
    BY DEF SendsInv, TInv, RunsType
  <2>2. TInv'
    BY TInvNext
  <2>3. s.by.run \in 1 .. Len(runs') /\ runs'[s.by.run] = runs[s.by.run]
        /\ Len(attempts[s.by.run]) <= Len(attempts'[s.by.run])
    BY <1>0, <2>1 DEF Grows
  <2>4. Len(attempts'[s.by.run]) \in Nat
    BY SMTT(60), <2>2, <2>3 DEF TInv, RunsType
  <2>5. s.by.attempt \in 1 .. Len(attempts'[s.by.run])
    BY <2>1, <2>3, <2>4
  <2> QED BY <1>0, <2>3, <2>5 DEF SendsInv, Grows, Authority
<1>2. CASE UNCHANGED sends
  BY <1>1, <1>2 DEF SendsInv
<1>3. CASE ~UNCHANGED sends
  <2> DEFINE i == job.intent
  <2>1. /\ active # 0 /\ IntentType(i) /\ job.phase \in {"execute", "settle"}
        /\ UNCHANGED <<runs, attempts>>
        /\ (Execute /\ Guarded(i, Me, D) /\ MaySend(i, Me, D) /\ Sent(i, "create")) \/ Create \/ Patch
    BY <1>3, SendStep
  <2>2. Me.run = active /\ Me.attempt = N /\ Me \in Authority
        /\ active \in 1 .. Len(runs) /\ N \in 1 .. Len(attempts[active])
    BY <2>1, Current DEF Me
  <2>3. ValidContext(i, Me, D)
    BY <2>1 DEF Guarded, ArmedInv, Create, Patch
  <2>4. /\ active # i.by.run => runs[active].recovery = i.by.run
        /\ active = i.by.run => runs[active].recovery = 0
    BY <2>2, <2>3 DEF ValidContext, D
  <2>5. PICK kind \in {"create", "patch"} :
          /\ Sent(i, kind)
          /\ platform = "ios" /\ kind = "create" /\ Me # i.by => FreshGrant(i, Me, D)
    BY <2>1 DEF MaySend, ArmedInv, Create, Patch, Prior
  <2> DEFINE new == [intent |-> i, by |-> Me, kind |-> kind]
  <2>6. /\ new = [intent |-> new.intent, by |-> new.by, kind |-> new.kind]
        /\ new.intent = i /\ new.by = Me /\ new.kind = kind
    OBVIOUS
  <2>7. sends' = sends \cup {new} /\ i \in persisted
    BY <2>1, <2>5 DEF Sent, DocsInv
  <2>8. platform = "ios" /\ kind = "create" /\ Me # i.by => runs[active].grant = "retry" /\ N = 1
    BY <2>2, <2>5 DEF FreshGrant, D
  <2> HIDE DEF new
  <2>9. UNCHANGED platform /\ persisted \subseteq persisted'
    BY <1>0 DEF Grows
  <2> QED BY <1>1, <2>1, <2>2, <2>4, <2>6, <2>7, <2>8, <2>9 DEF SendsInv
<1> QED BY <1>2, <1>3

\* A target that was reached stays reached.
LEMMA TargetStays ==
  ASSUME TInv, [Next]_vars, NEW i, Target(i) PROVE Target(i)'
<1>1. /\ store.build # None => store'.build = store.build
      /\ store.created \subseteq store'.created /\ store.patched \subseteq store'.patched
  BY StoreGrows DEF Holds
<1> QED BY <1>1 DEF Target, Final

LEMMA StoreInvNext == ASSUME TInv, DocsInv, ArmedInv, StoreInv, [Next]_vars PROVE StoreInv'
<1>0. Grows /\ Holds
  BY EverythingGrows DEF Grows
<1>a. Final("external") => Final("external")'
  BY <1>0 DEF Final, Holds
<1>1. (platform = "ios" /\ store.approved => Final("external"))'
      /\ ("production" \in store.patched => Final("external") /\ (platform = "ios" => store.approved))'
  <2>1. CASE store'.approved = store.approved /\ ("production" \in store'.patched => "production" \in store.patched)
    BY <1>0, <1>a, <2>1 DEF StoreInv, Grows
  <2>2. CASE Approve
    <3>1. Final("external") /\ store'.approved /\ store'.patched = store.patched
      BY <2>2 DEF Approve, TInv, StoreType
    <3> QED BY <1>0, <1>a, <3>1 DEF StoreInv
  <2>3. CASE (\E u \in store.arriving : Arrive(u)) \/ (\E stage \in store.pending : Appear(stage)) \/ Create
    BY <2>1, <2>3 DEF Arrive, Appear, Create, TInv, StoreType
  <2>4. CASE (Execute \/ Patch) /\ ~UNCHANGED store
    <3> DEFINE i == job.intent
    <3>1. IntentType(i) /\ Rests(i) /\ (i.ext # None => Eligible(i.ext))
          /\ platform \in {"android", "ios"} /\ UNCHANGED platform
          /\ ((MaySend(i, Me, D) /\ Send(i)) \/ Patch)
      <4>1. job.phase \in {"execute", "settle"}
        BY <2>4 DEF Execute, Patch
      <4>2. Rests(job.intent)
        BY <4>1 DEF DocsInv, Working
      <4>3. CASE Execute
        BY <1>0, <2>4, <4>2, <4>3, ExecuteCases DEF Guarded, VerifiedIntent, Chain, Grows, TInv, StoreType
      <4>4. CASE Patch
        BY <1>0, <4>2, <4>4, WriteCases DEF ArmedInv, Patch, Grows, TInv, StoreType
      <4> QED BY <2>4, <4>3, <4>4
    <3>2. CASE i.stage = "production"
      <4>2. i.ext # None /\ Eligible(i.ext) /\ i.ext \in issued /\ i.ext.intent.stage = "external"
        BY <3>1, <3>2 DEF IntentType, Rests
      <4>3. platform = "ios" => store.approved /\ Final("external")
        BY <4>2 DEF Eligible, StoreInv
      <4>1. platform = "android" => Final("external")
        BY <3>1, <3>2 DEF MaySend, Patch, Promoting
      <4> QED BY <1>0, <1>a, <3>1, <4>1, <4>3 DEF Holds
    <3>3. CASE i.stage # "production"
      <4>1. store'.approved = store.approved /\ ("production" \in store'.patched => "production" \in store.patched)
        <5>0. DOMAIN store = {"build", "uploaded", "uploads", "arriving", "pending", "created", "patched",
                             "approved"}
          BY DEF TInv, StoreType
        <5>1. CASE MaySend(i, Me, D) /\ Send(i)
          <6>1. CASE store' = [store EXCEPT !.created = store.created \cup {i.stage},
                                            !.patched = store.patched \cup {i.stage}]
            BY <3>3, <5>0, <6>1
          <6>2. CASE store' = [store EXCEPT !.uploads = store.uploads + 1,
                 !.arriving = store.arriving \cup {[binary |-> i.binary, at |-> store.uploads + 1]}]
            BY <5>0, <6>2
          <6>3. CASE store' = [store EXCEPT !.build = i.binary]
            BY <5>0, <6>3
          <6> QED BY <5>1, <6>1, <6>2, <6>3, SendCases
        <5>2. CASE Patch
          BY <3>3, <5>2 DEF Patch, TInv, StoreType
        <5> QED BY <3>1, <5>1, <5>2
      <4> QED BY <2>1, <4>1
    <3> QED BY <3>2, <3>3
  <2>5. CASE UNCHANGED store
    BY <2>1, <2>5
  <2> QED BY <2>2, <2>3, <2>4, <2>5, StoreGrows DEF Appears
<1>2. ASSUME NEW f \in issued
      PROVE (/\ Target(f.intent)
             /\ platform = "android" => store.build = f.intent.binary
             /\ platform = "ios" /\ f.intent.stage = "external" /\ f.ready => store.approved)'
  <2>1. f.intent.binary \in Authority
    BY DEF TInv, DocsType, FinalType, IntentType
  <2>2. Target(f.intent)'
    BY TargetStays DEF StoreInv
  <2>3. platform = "android" => store.build = f.intent.binary /\ store.build # None
    BY <2>1, NoneIsNoDocument DEF StoreInv
  <2> QED BY <1>0, <2>2, <2>3 DEF StoreInv, Grows, Holds
<1>3. (job.phase = "package" => Target(job.intent))'
  <2>1. CASE Execute
    <3>1. CASE job'.phase = "package"
      <4>1. MayAdopt(job.intent, Me, D) /\ job'.intent = job.intent
        BY <2>1, <3>1, ExecuteCases DEF Stop, Idle
      <4> QED BY <4>1, TargetStays DEF MayAdopt
    <3> QED BY <3>1
  <2>2. CASE Settle
    <3>1. Target(job.intent) /\ job'.intent = job.intent
      BY <2>2 DEF Settle, TInv, JobType
    <3> QED BY <3>1, TargetStays
  <2>3. CASE ~(Execute \/ Create \/ Patch \/ Settle)
    BY <2>3, OtherPhases, TargetStays DEF StoreInv
  <2> QED BY <2>1, <2>2, <2>3, WriteCases
<1>4. (platform = "android" /\ job.phase \in {"settle", "package"} => store.build = job.intent.binary)'
  <2>1. SUFFICES ASSUME platform = "android", job'.phase \in {"settle", "package"}
                 PROVE store'.build = job'.intent.binary
    BY <1>0 DEF Grows
  <2>2. CASE Execute
    <3> DEFINE i == job.intent
    <3>1. i.binary \in Authority /\ job'.intent = i
      BY <2>1, <2>2, ExecuteCases DEF IntentType, Stop, Idle
    <3>2. CASE MayAdopt(i, Me, D) /\ UNCHANGED store
      BY <2>1, <3>1, <3>2 DEF MayAdopt, SameBuild
    <3>3. CASE MaySend(i, Me, D) /\ Send(i)
      <4>1. CASE i.stage = "candidate"
        <5>1. store' = [store EXCEPT !.build = i.binary]
          BY <2>1, <3>3, <4>1, SendCases
        <5> QED BY <3>1, <5>1 DEF TInv, StoreType
      <4>2. CASE i.stage # "candidate"
        <5>1. store.build = i.binary /\ store.build # None
          BY <2>1, <3>1, <3>3, <4>2, NoneIsNoDocument DEF MaySend, SameBuild
        <5> QED BY <1>0, <3>1, <5>1 DEF Holds
      <4> QED BY <4>1, <4>2
    <3>4. ~MayWrite(i, Me, D)
      BY <2>1 DEF MayWrite, Promoting
    <3> QED BY <2>1, <2>2, <3>2, <3>3, <3>4, ExecuteCases DEF Stop, Idle
  <2>3. CASE Settle
    <3>1. store.build = job.intent.binary /\ job'.intent = job.intent /\ UNCHANGED store
      BY <2>1, <2>3 DEF Settle, StoreInv, TInv, JobType
    <3> QED BY <3>1
  <2>4. CASE ~(Execute \/ Settle)
    <3>0. ~(Create \/ Patch)
      BY <2>1 DEF Create, Patch, Promoting
    <3>1. UNCHANGED job
      BY <2>1, <2>4, <3>0, OtherPhases
    <3>2. IntentType(job.intent) /\ store.build = job.intent.binary
      BY <2>1, <3>1 DEF StoreInv, TInv, JobType, Working
    <3>3. store.build # None
      BY <3>2, NoneIsNoDocument DEF IntentType
    <3> QED BY <1>0, <3>1, <3>2, <3>3 DEF Holds
  <2> QED BY <2>2, <2>3, <2>4
<1>5. ASSUME NEW f \in issued' \ issued
      PROVE (/\ Target(f.intent)
             /\ platform = "android" => store.build = f.intent.binary
             /\ platform = "ios" /\ f.intent.stage = "external" /\ f.ready => store.approved)'
  <2>1. Package
    BY DEF Next, vars, ghost, DispatchRun, RerunAll, RerunFailed, StepFails, JobLost, RunResolveJob, Build,
         RunStoreJob, Prepare, Persist, Execute, Create, Patch, Settle, SettleTimeout, Arrive, Appear, Approve,
         Expire, Delete
  <2>2. f = Receipt /\ job.phase = "package" /\ UNCHANGED <<store, platform>>
    BY <2>1 DEF Package
  <2>3. f.intent = job.intent
    BY <2>2, ReceiptIsTyped
  <2>4. platform = "ios" /\ f.intent.stage = "external" /\ f.ready => store.approved
    BY <2>2, <2>3 DEF Receipt
  <2>5. Target(f.intent)' /\ Target(f.intent)
    BY <2>2, <2>3, TargetStays DEF StoreInv
  <2> QED BY <2>2, <2>3, <2>4, <2>5 DEF StoreInv
<1> QED BY <1>1, <1>2, <1>3, <1>4, <1>5 DEF StoreInv

Documents == TInv /\ DocsInv /\ ArmedInv /\ SendsInv /\ StoreInv

LEMMA AlwaysDocuments == Spec => []Documents
<1>1. Init => Documents
  <2>1. ASSUME Init PROVE DocsInv /\ ArmedInv /\ SendsInv /\ StoreInv
    BY <2>1 DEF Init, DocsInv, ArmedInv, SendsInv, StoreInv, Idle, Working
  <2> QED BY <2>1, TInvInit DEF Documents
<1>2. Documents /\ [Next]_vars => Documents'
  BY TInvNext, DocsInvNext, ArmedNext, SendsInvNext, StoreInvNext DEF Documents
<1> QED BY <1>1, <1>2, PTL DEF Spec

\* Every mutation has a persisted authorization, and an executor of another
\* run names the run it recovers.
THEOREM MutationsAuthorized == Spec => []AuthorizedMutation
<1>1. Documents => AuthorizedMutation
  BY DEF Documents, SendsInv, AuthorizedMutation
<1> QED BY <1>1, AlwaysDocuments, PTL

\* Two attempts that sent Apple the same binary, or created for the same
\* promotion: one had a grant.
THEOREM GrantsNeeded == Spec => []SentOnceUnlessGranted
<1>1. Documents => SentOnceUnlessGranted
  <2>1. SUFFICES ASSUME Documents, platform = "ios", NEW s \in sends, NEW t \in sends,
                        s.kind = "create", t.kind = "create", s.intent = t.intent, s # t
                 PROVE \E u \in {s, t} : runs[u.by.run].grant = "retry" /\ u.by.attempt = 1
    BY DEF SentOnceUnlessGranted
  <2>2. s.by # s.intent.by \/ t.by # t.intent.by
    BY <2>1 DEF Documents, SendsInv
  <2> QED BY <2>1, <2>2 DEF Documents, SendsInv
<1> QED BY <1>1, AlwaysDocuments, PTL

\* Production has what external testers had.
THEOREM ProductionWasTested == Spec => []TestedBeforeProduction
<1>1. Documents => TestedBeforeProduction
  BY DEF Documents, StoreInv, TestedBeforeProduction, Final
<1> QED BY <1>1, AlwaysDocuments, PTL

\* On Google Play every final names the bundle of the Store.
THEOREM EvidenceIsTrue == Spec => []EvidenceMatchesStore
<1>1. Documents => EvidenceMatchesStore
  BY DEF Documents, StoreInv, EvidenceMatchesStore
<1> QED BY <1>1, AlwaysDocuments, PTL

\* Evidence ends the operation it is about.
THEOREM EvidenceEndsSending == Spec => EvidencedNeverSent
<1>1. Documents /\ [Next]_vars => [\A s \in sends' \ sends : \A f \in issued : f.intent # s.intent]_vars
  <2>1. SUFFICES ASSUME Documents, [Next]_vars, NEW s \in sends' \ sends, NEW f \in issued
                 PROVE f.intent # s.intent
    OBVIOUS
  <2>2. ~Target(job.intent) /\ \E kind \in {"create", "patch"} : Sent(job.intent, kind)
    BY <2>1, SendStep DEF Documents
  <2>3. ~Target(s.intent)
    BY <2>1, <2>2 DEF Sent
  <2> QED BY <2>1, <2>3 DEF Documents, StoreInv
<1> QED BY <1>1, AlwaysDocuments, PTL DEF Spec, EvidencedNeverSent

(***************************************************************************)
(* One intent per run.  A run that sent keeps its intent as the only one:  *)
(* an attempt that prepares another has evidence of every earlier attempt  *)
(* that it failed in a gate, which no attempt that sent has.               *)
(***************************************************************************)
Own(s) == s.by.run = s.intent.by.run

OwnDocs ==
  /\ \A a, b \in artifacts : a.kind = "intent" /\ b.kind = "intent" /\ a.run = b.run => a = b
  /\ \A s \in sends : Own(s) =>
       \A a \in artifacts : a.run = s.by.run /\ a.kind = "intent" => a.doc = s.intent

Gated(a) == a.store = "failure" /\ a.gate

OwnGates ==
  /\ \A s \in sends : ~Gated(attempts[s.by.run][s.by.attempt])
  /\ active # 0 => ~Now.gate

OwnJob ==
  /\ \A s \in sends : Own(s) /\ active = s.by.run =>
       /\ job.phase \notin {"prepare", "persist"}
       /\ job.phase \in {"execute", "settle", "package"} /\ job.intent.by.run = active =>
            job.intent = s.intent
  /\ \A s \in sends : active = s.by.run /\ s.by.attempt = N => job.phase \in {"settle", "package"}
  /\ job.phase \in {"prepare", "persist"} => job.intent.by = Me
  /\ job.phase \in {"execute", "settle"} /\ job.intent.by.run = active =>
       \A a \in artifacts : a.run = active /\ a.kind = "intent" => a.doc = job.intent

OneIntent == OwnDocs /\ OwnGates /\ OwnJob /\ RunExecutesOneIntent

\* What a job about to send its own intent knows of the earlier sends.
LEMMA SameAsBefore ==
  ASSUME TInv, OneIntent, job.phase \in {"execute", "settle"}, NEW s \in sends, Own(s),
         s.by.run = active,
         job.intent.by.run = active
  PROVE s.intent = job.intent
BY DEF OneIntent, OwnJob

LEMMA OwnDocsNext ==
  ASSUME TInv, SendsInv, OneIntent, [Next]_vars PROVE OwnDocs'
<1>1. CASE UNCHANGED <<artifacts, sends>>
  BY <1>1 DEF OneIntent, OwnDocs, Own
<1>2. ASSUME UNCHANGED sends, NEW kind \in {"handoff", "evidence"}, NEW doc,
             UNCHANGED artifacts \/ Uploaded(active, kind, doc)
      PROVE OwnDocs'
  <2> DEFINE new == [run |-> active, kind |-> kind, doc |-> doc, expired |-> FALSE]
  <2>1. artifacts' \subseteq artifacts \cup {new} /\ new.kind # "intent"
    BY <1>2 DEF Uploaded
  <2> HIDE DEF new
  <2> QED BY <1>2, <2>1 DEF OneIntent, OwnDocs, Own
<1>3. CASE Build
  BY <1>2, <1>3 DEF Build, ghost
<1>4. CASE Package
  <2>1. UNCHANGED artifacts \/ Uploaded(active, "evidence", Receipt)
    BY <1>4 DEF Package
  <2> QED BY <1>2, <1>4, <2>1 DEF Package
<1>5. CASE Persist
  <2> DEFINE new == [run |-> active, kind |-> "intent", doc |-> job.intent, expired |-> FALSE]
  <2>1. UNCHANGED sends /\ job.phase = "persist"
    BY <1>5 DEF Persist
  <2>2. UNCHANGED artifacts \/ (~Has(active, "intent") /\ artifacts' = artifacts \cup {new})
    BY <1>5 DEF Persist, Uploaded
  <2>3. CASE ~Has(active, "intent") /\ artifacts' = artifacts \cup {new}
    <3>1. \A a \in artifacts : ~(a.run = active /\ a.kind = "intent")
      BY <2>3 DEF Has, Found
    <3>2. new.run = active /\ new.kind = "intent"
      OBVIOUS
    <3> HIDE DEF new
    <3>3. \A s \in sends : Own(s) => s.by.run # active
      BY <2>1 DEF OneIntent, OwnJob
    <3> QED BY <2>1, <2>3, <3>1, <3>2, <3>3 DEF OneIntent, OwnDocs, Own
  <2> QED BY <1>1, <2>1, <2>2, <2>3
<1>6. CASE \E a \in artifacts : Delete(a)
  BY <1>6 DEF Delete, ghost, OneIntent, OwnDocs, Own
<1>7. CASE \E a \in artifacts : Expire(a)
  <2>1. PICK a \in artifacts : Expire(a)
    BY <1>7
  <2> DEFINE R == [run : {a.run}, kind : {a.kind}, doc : {a.doc}, expired : BOOLEAN]
             new == [a EXCEPT !.expired = TRUE]
  <2>2. a \in R
    BY DEF TInv, DocsType
  <2>3. new \in R
    BY <2>2
  <2> HIDE DEF new
  <2>4. new.run = a.run /\ new.kind = a.kind /\ new.doc = a.doc
    BY <2>3
  <2>5. artifacts' = (artifacts \ {a}) \cup {new} /\ UNCHANGED sends
    BY <2>1 DEF new, Expire, ghost
  <2> QED BY <2>4, <2>5 DEF OneIntent, OwnDocs, Own
<1>8. CASE ~UNCHANGED sends
  <2> DEFINE i == job.intent
  <2>0. PICK kind \in {"create", "patch"} : Sent(i, kind)
    BY <1>8, SendStep
  <2> DEFINE new == [intent |-> i, by |-> Me, kind |-> kind]
  <2>1. UNCHANGED artifacts /\ job.phase \in {"execute", "settle"} /\ sends' = sends \cup {new}
    BY <1>8, <2>0, SendStep DEF Sent
  <2>2. new.intent = i /\ new.by.run = active
    BY DEF Me
  <2> HIDE DEF new
  <2>3. Own(new) => \A a \in artifacts : a.run = active /\ a.kind = "intent" => a.doc = i
    BY <2>1, <2>2 DEF OneIntent, OwnJob, Own
  <2> QED BY <2>1, <2>2, <2>3 DEF OneIntent, OwnDocs, Own
<1>9. \/ UNCHANGED <<artifacts, sends>> \/ Build \/ Package \/ Persist \/ ~UNCHANGED sends
      \/ \E a \in artifacts : Delete(a) \/ Expire(a)
  BY DEF Next, vars, ghost, DispatchRun, RerunAll, RerunFailed, StepFails, JobLost, RunResolveJob,
         RunStoreJob, Prepare, Execute, Create, Patch, Settle, SettleTimeout, Arrive, Appear, Approve
<1> QED BY <1>1, <1>3, <1>4, <1>5, <1>6, <1>7, <1>8, <1>9

LEMMA SendsAreNamed ==
  ASSUME TInv, SendsInv, NEW s \in sends
  PROVE /\ s.by.run \in 1 .. Len(runs) /\ s.by.attempt \in 1 .. Len(attempts[s.by.run])
        /\ attempts[s.by.run] \in Seq(Attempt) /\ Len(runs) \in Nat
        /\ s.by.run # 0 /\ Len(attempts) = Len(runs)
BY DEF SendsInv, TInv, RunsType

\* The attempts of the earlier sends keep what they came to.
LEMMA GatesSet ==
  ASSUME TInv, SendsInv, OneIntent, active # 0, NEW changed \in Attempt, Set(changed),
         Gated(changed) => job.phase \in {"prepare", "persist"}
  PROVE \A s \in sends : ~Gated(attempts'[s.by.run][s.by.attempt])
<1>1. SUFFICES ASSUME NEW s \in sends PROVE ~Gated(attempts'[s.by.run][s.by.attempt])
  OBVIOUS
<1>2. attempts'[s.by.run][s.by.attempt] =
        IF s.by.run = active /\ s.by.attempt = N THEN changed ELSE attempts[s.by.run][s.by.attempt]
  BY SetAttempt, SendsAreNamed
<1>3. s.by.run = active /\ s.by.attempt = N => job.phase \in {"settle", "package"}
  BY DEF OneIntent, OwnJob
<1> QED BY <1>2, <1>3 DEF OneIntent, OwnGates

LEMMA GatesRerun ==
  ASSUME TInv, SendsInv, OneIntent, NEW r \in DOMAIN runs, NEW new \in Attempt, total < MaxAttempts,
         attempts' = [attempts EXCEPT ![r] = Append(@, new)], active' = r, new.gate = FALSE,
         UNCHANGED sends
  PROVE OwnGates'
<1>1. \A q \in 1 .. Len(runs) :
        attempts'[q] = IF q = r THEN Append(attempts[r], new) ELSE attempts[q]
  BY AnotherAttempt
<1>2. r \in 1 .. Len(runs) /\ attempts[r] \in Seq(Attempt) /\ Len(attempts[r]) \in Nat
  BY DEF TInv, RunsType
<1>3. Len(Append(attempts[r], new)) = Len(attempts[r]) + 1
      /\ Append(attempts[r], new)[Len(attempts[r]) + 1] = new
      /\ \A m \in 1 .. Len(attempts[r]) : Append(attempts[r], new)[m] = attempts[r][m]
  BY <1>2
<1>4. \A s \in sends : attempts'[s.by.run][s.by.attempt] = attempts[s.by.run][s.by.attempt]
  BY <1>1, <1>3, SendsAreNamed
<1>5. Now' = new
  BY <1>1, <1>2, <1>3 DEF Now, N
<1> QED BY <1>4, <1>5 DEF OneIntent, OwnGates

LEMMA FailGates ==
  ASSUME TInv, SendsInv, OneIntent, active # 0, Fail, Stop, UNCHANGED sends PROVE OwnGates'
<1>1. PICK changed \in Attempt :
          /\ Set(changed)
          /\ \/ job.phase = "resolve" /\ changed = [Now EXCEPT !.resolve = "error"]
             \/ job.phase = "build" /\ changed = [Now EXCEPT !.build = "failed"]
             \/ /\ job.phase \notin {"resolve", "build"}
                /\ changed = [Now EXCEPT !.store = "failure",
                                        !.gate = job.phase \in {"prepare", "persist"}]
  BY FailedAttempt
<1>2. Now \in Attempt /\ ~Now.gate
  BY Current DEF OneIntent, OwnGates
<1>3. changed.gate => job.phase \in {"prepare", "persist"}
  BY <1>1, <1>2 DEF Attempt
<1>4. active' = 0
  BY DEF Stop
<1> QED BY <1>1, <1>3, <1>4, GatesSet DEF OwnGates, Gated

\* The current attempt changes in a field other than its gate.
LEMMA QuietGates ==
  ASSUME TInv, SendsInv, OneIntent, active # 0, UNCHANGED <<sends, runs>>, active' \in {active, 0},
         NEW changed \in Attempt, Set(changed), changed.gate = Now.gate
  PROVE OwnGates'
<1>1. ~changed.gate
  BY DEF OneIntent, OwnGates
<1>2. \A s \in sends : ~Gated(attempts'[s.by.run][s.by.attempt])
  BY <1>1, GatesSet DEF Gated
<1>3. active' # 0 => Now' = changed
  BY SetAttempt, Current DEF Now, N
<1> QED BY <1>1, <1>2, <1>3 DEF OwnGates

LEMMA OwnGatesNext ==
  ASSUME TInv, SendsInv, OneIntent, [Next]_vars PROVE OwnGates'
<1>1. CASE UNCHANGED <<attempts, active, sends>>
  BY <1>1 DEF OneIntent, OwnGates, Now, N
<1>2. CASE active = 0 /\ total < MaxAttempts
           /\ \E stage \in Stages : \E d \in Inputs(stage) : DispatchRun(d)
  <2>1. PICK stage \in Stages : \E d \in Inputs(stage) : DispatchRun(d)
    BY <1>2
  <2>2. PICK d \in Inputs(stage) : DispatchRun(d)
    BY <2>1
  <2>3. attempts' = Append(attempts, <<NewAttempt>>) /\ active' = Len(runs) + 1 /\ UNCHANGED sends
    BY <2>2 DEF DispatchRun, Start, ghost
  <2>4. attempts \in Seq(Seq(Attempt)) /\ Len(attempts) = Len(runs) /\ Len(runs) \in Nat
    BY DEF TInv, RunsType
  <2>5. attempts'[Len(runs) + 1] = <<NewAttempt>> /\ \A q \in 1 .. Len(runs) : attempts'[q] = attempts[q]
    BY <2>3, <2>4, NewAttemptType
  <2>6. \A s \in sends : attempts'[s.by.run][s.by.attempt] = attempts[s.by.run][s.by.attempt]
    BY <2>5, SendsAreNamed
  <2>a. Len(<<NewAttempt>>) = 1 /\ <<NewAttempt>>[1] = NewAttempt
    OBVIOUS
  <2>7. Now' = NewAttempt /\ ~NewAttempt.gate
    BY <2>3, <2>5, <2>a DEF Now, N, NewAttempt
  <2> QED BY <2>3, <2>6, <2>7 DEF OneIntent, OwnGates
<1>3. CASE \E r \in 1 .. MaxAttempts : RerunAll(r) \/ RerunFailed(r)
  <2>1. PICK r \in 1 .. MaxAttempts : RerunAll(r) \/ RerunFailed(r)
    BY <1>3
  <2>2. r \in DOMAIN runs /\ total < MaxAttempts /\ active' = r /\ UNCHANGED sends
    BY <2>1 DEF RerunAll, RerunFailed, CanRerun, Start, ghost
  <2>3. CASE RerunAll(r)
    <3>1. NewAttempt.gate = FALSE /\ attempts' = [attempts EXCEPT ![r] = Append(@, NewAttempt)]
      BY <2>3 DEF RerunAll, NewAttempt
    <3> QED BY <2>2, <3>1, NewAttemptType, GatesRerun
  <2>4. CASE RerunFailed(r)
    <3> DEFINE last == attempts[r][Len(attempts[r])]
               kept == [NewAttempt EXCEPT !.resolve = last.resolve, !.digest = last.digest]
    <3>1. last \in Attempt
      <4>1. attempts[r] \in Seq(Attempt) /\ Len(attempts[r]) \in 1 .. total
        BY <2>2 DEF TInv, RunsType
      <4> QED BY <4>1
    <3>2. kept \in Attempt /\ kept.gate = FALSE
      BY <3>1, NewAttemptType DEF Attempt, NewAttempt
    <3>3. attempts' = [attempts EXCEPT ![r] = Append(@, kept)]
      BY <2>4 DEF RerunFailed
    <3> HIDE DEF kept
    <3> QED BY <2>2, <3>2, <3>3, GatesRerun
  <2> QED BY <2>1, <2>3, <2>4
<1>4. CASE active # 0 /\ Fail /\ Stop /\ UNCHANGED sends
  BY <1>4, FailGates
<1>5. CASE StepFails \/ SettleTimeout
  BY <1>4, <1>5 DEF StepFails, SettleTimeout, ghost, TInv, JobType
<1>6. ASSUME active # 0, UNCHANGED <<sends, runs>>, active' \in {active, 0},
             \/ \E m \in {"complete", "resume", "fresh", "error"} : Set([Now EXCEPT !.resolve = m])
             \/ \E b \in {"failed"} : Set([Now EXCEPT !.build = b])
             \/ Set([Now EXCEPT !.build = "ok", !.digest = Me])
             \/ \E x \in {"failure", "success"} : Set([Now EXCEPT !.store = x])
      PROVE OwnGates'
  <2>1. Now \in Attempt /\ Me \in Authority
    BY <1>6, Current
  <2>2. CASE \E m \in {"complete", "resume", "fresh", "error"} : Set([Now EXCEPT !.resolve = m])
    <3>1. PICK m \in {"complete", "resume", "fresh", "error"} : Set([Now EXCEPT !.resolve = m])
      BY <2>2
    <3>2. [Now EXCEPT !.resolve = m] \in Attempt /\ [Now EXCEPT !.resolve = m].gate = Now.gate
      BY <2>1 DEF Attempt
    <3> QED BY <1>6, <3>1, <3>2, QuietGates
  <2>3. CASE \E b \in {"failed"} : Set([Now EXCEPT !.build = b])
    <3>1. [Now EXCEPT !.build = "failed"] \in Attempt /\ [Now EXCEPT !.build = "failed"].gate = Now.gate
      BY <2>1 DEF Attempt
    <3> QED BY <1>6, <2>3, <3>1, QuietGates
  <2>4. CASE Set([Now EXCEPT !.build = "ok", !.digest = Me])
    <3>1. /\ [Now EXCEPT !.build = "ok", !.digest = Me] \in Attempt
          /\ [Now EXCEPT !.build = "ok", !.digest = Me].gate = Now.gate
      BY <2>1 DEF Attempt
    <3> QED BY <1>6, <2>4, <3>1, QuietGates
  <2>5. CASE \E x \in {"failure", "success"} : Set([Now EXCEPT !.store = x])
    <3>1. PICK x \in {"failure", "success"} : Set([Now EXCEPT !.store = x])
      BY <2>5
    <3>2. [Now EXCEPT !.store = x] \in Attempt /\ [Now EXCEPT !.store = x].gate = Now.gate
      BY <2>1 DEF Attempt
    <3> QED BY <1>6, <3>1, <3>2, QuietGates
  <2> QED BY <1>6, <2>2, <2>3, <2>4, <2>5
<1>7. CASE JobLost
  <2>1. active # 0 /\ UNCHANGED <<sends, runs>> /\ active' = 0
    BY <1>7 DEF JobLost, Stop, ghost
  <2>2. \/ Set([Now EXCEPT !.resolve = "error"])
        \/ Set([Now EXCEPT !.build = "failed"])
        \/ Set([Now EXCEPT !.store = "failure"])
    BY <1>7 DEF JobLost
  <2> QED BY <1>6, <2>1, <2>2
<1>8. CASE RunResolveJob
  <2>1. ResolveJob(active, D, N) \in {"complete", "resume", "fresh", "error"}
    BY DEF ResolveJob
  <2>2. active # 0 /\ UNCHANGED <<sends, runs>> /\ active' \in {active, 0}
        /\ Set([Now EXCEPT !.resolve = ResolveJob(active, D, N)])
    BY <1>8 DEF RunResolveJob, ghost, Stop, To, TInv, JobType
  <2> QED BY <1>6, <2>1, <2>2
<1>9. CASE Build \/ Package
  <2>1. active # 0 /\ UNCHANGED <<sends, runs>> /\ active' \in {active, 0}
    BY <1>9 DEF Build, Package, ghost, Stop, To, TInv, JobType
  <2>2. \/ Set([Now EXCEPT !.build = "failed"])
        \/ Set([Now EXCEPT !.build = "ok", !.digest = Me])
        \/ Set([Now EXCEPT !.store = "failure"])
        \/ Set([Now EXCEPT !.store = "success"])
    BY <1>9 DEF Build, Package
  <2> QED BY <1>6, <2>1, <2>2
<1>10. CASE RunStoreJob
  <2>1. active # 0 /\ UNCHANGED <<sends, runs>>
    BY <1>10 DEF RunStoreJob, ghost, TInv, JobType
  <2>2. \/ UNCHANGED <<attempts, active>>
        \/ Set([Now EXCEPT !.store = "failure"]) /\ active' = 0
        \/ Set([Now EXCEPT !.store = "success"]) /\ active' = 0
    BY <1>10 DEF RunStoreJob, Stop
  <2> QED BY <1>1, <1>6, <2>1, <2>2
<1>11. CASE Prepare \/ Persist \/ Settle
  <2>1. active # 0 /\ UNCHANGED sends
    BY <1>11 DEF Prepare, Persist, Settle, ghost, TInv, JobType
  <2>2. UNCHANGED <<attempts, active>> \/ (Fail /\ Stop)
    BY <1>11 DEF Prepare, Persist, Settle, To
  <2> QED BY <1>1, <1>4, <2>1, <2>2
<1>12. CASE Execute \/ Create \/ Patch
  <2>1. active # 0 /\ (\/ UNCHANGED <<attempts, active, sends>>
                       \/ Fail /\ Stop /\ UNCHANGED sends
                       \/ /\ UNCHANGED <<attempts, active>>
                          /\ \E kind \in {"create", "patch"} : Sent(job.intent, kind))
    BY <1>12, ExecuteCases, WriteStep
  <2>2. ASSUME UNCHANGED <<attempts, active>>, NEW kind \in {"create", "patch"}, Sent(job.intent, kind)
        PROVE OwnGates'
    <3> DEFINE new == [intent |-> job.intent, by |-> Me, kind |-> kind]
    <3>1. attempts[new.by.run][new.by.attempt] = Now /\ sends' = sends \cup {new}
      BY <2>2 DEF Me, Now, Sent
    <3> HIDE DEF new
    <3>2. ~Gated(attempts[new.by.run][new.by.attempt])
      BY <2>1, <3>1 DEF OneIntent, OwnGates, Gated
    <3> QED BY <2>2, <3>1, <3>2 DEF OneIntent, OwnGates, Now, N
  <2> QED BY <1>1, <1>4, <2>1, <2>2
<1>13. CASE Appears \/ (\E a \in artifacts : Expire(a) \/ Delete(a)) \/ UNCHANGED vars
  BY <1>1, <1>13 DEF Appears, Approve, Arrive, Appear, Expire, Delete, vars, ghost
<1> QED BY <1>2, <1>3, <1>5, <1>7, <1>8, <1>9, <1>10, <1>11, <1>12, <1>13 DEF Next, Appears

LEMMA StopOwn == ASSUME TInv, SendsInv, Stop, UNCHANGED sends PROVE OwnJob'
<1>1. active' = 0 /\ job'.phase = "idle"
  BY DEF Stop, Idle
<1> QED BY <1>1, SendsAreNamed DEF OwnJob

\* An attempt begins: it has sent nothing.
LEMMA StartOwn ==
  ASSUME TInv, SendsInv, UNCHANGED sends, active' \in Nat, job'.phase \in {"resolve", "build", "store"},
         active' \in 1 .. Len(runs) => N' = Len(attempts[active']) + 1
  PROVE OwnJob'
<1>1. ASSUME NEW s \in sends, active' = s.by.run, s.by.attempt = N' PROVE FALSE
  <2>1. s.by.run \in 1 .. Len(runs) /\ s.by.attempt \in 1 .. Len(attempts[s.by.run])
        /\ Len(attempts[s.by.run]) \in Nat
    BY SendsAreNamed
  <2> QED BY <1>1, <2>1
<1> QED BY <1>1 DEF OwnJob

\* The job that prepares has no send of its run behind it.
LEMMA PreparesFirst ==
  ASSUME TInv, SendsInv, OneIntent, active # 0, job.phase = "store",
         Resolution(active, D, N, Now.digest) = "prepare", NEW s \in sends, s.by.run = active
  PROVE FALSE
<1>1. s.by.attempt \in 1 .. N /\ N \in Nat /\ s.by.attempt # N
  BY SendsAreNamed, Current DEF N, OneIntent, OwnJob
<1>2. CASE D.stage = "candidate"
  <2>1. NoPriorExecution(active, N)
    BY <1>2 DEF Resolution, PrepareCandidate
  <2>2. s.by.attempt \in 1 .. N - 1
    BY <1>1
  <2>3. Gated(attempts[active][s.by.attempt])
    BY <2>1, <2>2 DEF NoPriorExecution, Gated
  <2> QED BY <2>3 DEF OneIntent, OwnGates
<1>3. CASE D.stage # "candidate"
  <2>1. N = 1
    BY <1>3 DEF Resolution, PreparePromotion
  <2> QED BY <1>1, <2>1
<1> QED BY <1>2, <1>3

LEMMA RunsKeepLength ==
  ASSUME TInv, active # 0, RunResolveJob \/ Build
  PROVE Len(attempts'[active]) = Len(attempts[active])
<1>1. Now \in Attempt /\ Me \in Authority /\ active \in 1 .. Len(runs)
  BY Current
<1>2. \/ \E m \in {"complete", "resume", "fresh", "error"} : Set([Now EXCEPT !.resolve = m])
      \/ Set([Now EXCEPT !.build = "failed"])
      \/ Set([Now EXCEPT !.build = "ok", !.digest = Me])
  BY DEF RunResolveJob, Build, ResolveJob
<1>3. /\ \A m \in {"complete", "resume", "fresh", "error"} : [Now EXCEPT !.resolve = m] \in Attempt
      /\ [Now EXCEPT !.build = "failed"] \in Attempt
      /\ [Now EXCEPT !.build = "ok", !.digest = Me] \in Attempt
  BY <1>1 DEF Attempt
<1>4. \E changed \in Attempt : Set(changed)
  BY <1>2, <1>3
<1> QED BY <1>1, <1>4, SetAttempt

LEMMA OwnJobNext ==
  ASSUME TInv, SendsInv, OneIntent, [Next]_vars PROVE OwnJob'
<1>1. CASE Stop /\ UNCHANGED sends
  BY <1>1, StopOwn
<1>2. CASE UNCHANGED vars \/ Appears
  <2>1. UNCHANGED <<attempts, artifacts, active, job, sends>>
    BY <1>2 DEF vars, Appears, Approve, Arrive, Appear, ghost
  <2> QED BY <2>1 DEF OneIntent, OwnJob, Own, N, Me
<1>3. CASE \E a \in artifacts : Expire(a) \/ Delete(a)
  <2>1. UNCHANGED <<active, job, attempts, sends>>
    BY <1>3 DEF Expire, Delete, ghost
  <2>2. \A x \in artifacts' : \E a \in artifacts : a.run = x.run /\ a.kind = x.kind /\ a.doc = x.doc
    <3>1. CASE \E a \in artifacts : Delete(a)
      BY <3>1 DEF Delete
    <3>2. CASE \E a \in artifacts : Expire(a)
      <4>1. PICK a \in artifacts : Expire(a)
        BY <3>2
      <4> DEFINE R == [run : {a.run}, kind : {a.kind}, doc : {a.doc}, expired : BOOLEAN]
                 new == [a EXCEPT !.expired = TRUE]
      <4>2. a \in R
        BY DEF TInv, DocsType
      <4>3. new \in R
        BY <4>2
      <4> HIDE DEF new
      <4>4. new.run = a.run /\ new.kind = a.kind /\ new.doc = a.doc
        BY <4>3
      <4>5. artifacts' = (artifacts \ {a}) \cup {new}
        BY <4>1 DEF new, Expire
      <4> QED BY <4>4, <4>5
    <3> QED BY <1>3, <3>1, <3>2
  <2>3. job.phase \in {"execute", "settle"} /\ job.intent.by.run = active =>
          \A a \in artifacts' : a.run = active /\ a.kind = "intent" => a.doc = job.intent
    BY <2>2 DEF OneIntent, OwnJob
  <2> QED BY <2>1, <2>3 DEF OneIntent, OwnJob, Own, N, Me
<1>4. CASE active = 0 /\ total < MaxAttempts
           /\ \E stage \in Stages : \E d \in Inputs(stage) : DispatchRun(d)
  <2>1. active' = Len(runs) + 1 /\ job'.phase \in {"resolve", "store"} /\ UNCHANGED sends /\ Len(runs) \in Nat
    BY <1>4 DEF DispatchRun, Start, FirstPhase, Idle, ghost, TInv, RunsType
  <2> QED BY <2>1, StartOwn
<1>5. CASE \E r \in 1 .. MaxAttempts : RerunAll(r) \/ RerunFailed(r)
  <2>1. PICK r \in 1 .. MaxAttempts : RerunAll(r) \/ RerunFailed(r)
    BY <1>5
  <2>2. active' = r /\ job'.phase \in {"resolve", "build", "store"} /\ UNCHANGED sends
        /\ r \in 1 .. Len(runs) /\ r \in Nat /\ attempts \in Seq(Seq(Attempt)) /\ Len(attempts) = Len(runs)
    BY <2>1 DEF RerunAll, RerunFailed, CanRerun, Start, FirstPhase, Idle, ghost, TInv, RunsType
  <2>3. PICK new : attempts' = [attempts EXCEPT ![r] = Append(@, new)]
    BY <2>1 DEF RerunAll, RerunFailed
  <2>4. Len(attempts'[r]) = Len(attempts[r]) + 1
    <3>1. attempts'[r] = Append(attempts[r], new) /\ attempts[r] \in Seq(Attempt)
      BY <2>2, <2>3
    <3> QED BY <3>1
  <2> QED BY <2>2, <2>4, StartOwn DEF N
<1>6. CASE (RunResolveJob \/ Build) /\ ~Stop
  <2>1. active # 0 /\ UNCHANGED <<sends, active>> /\ job.phase \in {"resolve", "build"}
        /\ job'.phase \in {"build", "store"}
    BY <1>6 DEF RunResolveJob, Build, To, ghost, TInv, JobType
  <2>2. N' = N
    <3>1. Len(attempts'[active]) = Len(attempts[active])
      BY <1>6, <2>1, RunsKeepLength
    <3> QED BY <2>1, <3>1 DEF N
  <2> QED BY <2>1, <2>2 DEF OneIntent, OwnJob
<1>7. CASE RunStoreJob /\ ~Stop
  <2> DEFINE mode == Resolution(active, D, N, Now.digest)
             o == Doc(Original(active, D), "intent")
  <2>1. active # 0 /\ job.phase = "store" /\ UNCHANGED <<sends, runs, artifacts>>
    BY <1>7 DEF RunStoreJob, ghost, TInv, JobType
  <2>2. CASE mode = "prepare"
    <3>1. job'.phase = "prepare" /\ job'.intent = Draft /\ UNCHANGED <<active, attempts>>
      BY <1>7, <2>2 DEF RunStoreJob, TInv, JobType
    <3>2. Draft.by = Me /\ N' = N /\ Me' = Me
      BY <2>1, <2>2, <3>1, DraftIsTyped DEF N, Me
    <3> QED BY <2>1, <2>2, <3>1, <3>2, PreparesFirst DEF OwnJob
  <2>3. CASE mode # "prepare"
    <3>1. job'.phase = "execute" /\ job'.intent = o /\ UNCHANGED <<active, attempts>>
      BY <1>7, <2>3 DEF RunStoreJob, TInv, JobType
    <3>2. Resume(active, D, N)
      BY <1>7, <2>3 DEF RunStoreJob, Resolution
    <3>3. N' = N /\ \A s \in sends : ~(active = s.by.run /\ s.by.attempt = N)
      BY <2>1, <3>1 DEF N, OneIntent, OwnJob
    <3>4. ASSUME o.by.run = active
          PROVE \E a \in artifacts : a.run = active /\ a.kind = "intent" /\ a.doc = o
      <4>1. Has(Original(active, D), "intent") /\ RecoveryContext(active, D, N, o)
        BY <3>2, ResumedIntent DEF Resume
      <4>2. Original(active, D) = active
        BY <3>4, <4>1 DEF RecoveryContext, Original
      <4> QED BY <4>1, <4>2, DocIsFound
    <3>5. o.by.run = active => \A a \in artifacts : a.run = active /\ a.kind = "intent" => a.doc = o
      BY <3>4 DEF OneIntent, OwnDocs
    <3>6. \A s \in sends : Own(s) /\ active = s.by.run /\ o.by.run = active => o = s.intent
      BY <3>4 DEF OneIntent, OwnDocs
    <3> QED BY <2>1, <3>1, <3>3, <3>5, <3>6 DEF OwnJob, Own
  <2> QED BY <2>2, <2>3
<1>8. CASE Prepare /\ ~Stop
  <2> DEFINE seen == Snapshot(job.intent.stage)
             i == [job.intent EXCEPT !.present = Target(job.intent), !.seen = seen]
  <2>1. active # 0 /\ job.phase = "prepare" /\ UNCHANGED <<sends, active, attempts>>
        /\ job' = [job EXCEPT !.phase = "persist", !.intent.present = Target(job.intent),
                              !.intent.seen = seen]
        /\ IntentType(job.intent)
    BY <1>8 DEF Prepare, ghost, TInv, JobType, Working
  <2> HIDE DEF seen
  <2>2. job'.phase = "persist" /\ job'.intent = i
    BY <2>1 DEF TInv, JobType
  <2>3. i.by = job.intent.by
    BY <2>1 DEF IntentType
  <2> QED BY <2>1, <2>2, <2>3 DEF OneIntent, OwnJob, N, Me, Own
<1>9. CASE Persist /\ ~Stop
  <2> DEFINE new == [run |-> active, kind |-> "intent", doc |-> job.intent, expired |-> FALSE]
  <2>1. active # 0 /\ job.phase = "persist" /\ UNCHANGED <<sends, active, attempts>>
        /\ job'.phase = "execute" /\ job'.intent = job.intent
        /\ artifacts' = artifacts \cup {new} /\ ~Has(active, "intent")
    BY <1>9 DEF Persist, Uploaded, To, TInv, JobType
  <2>2. \A a \in artifacts : ~(a.run = active /\ a.kind = "intent")
    BY <2>1 DEF Has, Found
  <2>3. new.doc = job.intent
    OBVIOUS
  <2> HIDE DEF new
  <2>4. \A s \in sends : Own(s) => active # s.by.run
    BY <2>1 DEF OneIntent, OwnJob
  <2>5. \A s \in sends : ~(active = s.by.run /\ s.by.attempt = N)
    BY <2>1 DEF OneIntent, OwnJob
  <2> QED BY <2>1, <2>2, <2>3, <2>4, <2>5 DEF OwnJob, N, Me, Own
<1>10. CASE Execute /\ UNCHANGED sends /\ ~Stop
  <2>1. active # 0 /\ job.phase = "execute" /\ UNCHANGED <<active, attempts, artifacts>>
        /\ job'.phase \in {"settle", "package"} /\ job'.intent = job.intent
    BY <1>10, ExecuteCases
  <2> QED BY <1>10, <2>1 DEF OneIntent, OwnJob, Own, N
<1>14. CASE ~UNCHANGED sends
  <2> DEFINE i == job.intent
  <2>0. PICK kind \in {"create", "patch"} : Sent(i, kind)
    BY <1>14, SendStep
  <2> DEFINE new == [intent |-> i, by |-> Me, kind |-> kind]
  <2>1. active # 0 /\ job.phase \in {"execute", "settle"} /\ UNCHANGED <<active, attempts, artifacts>>
        /\ job'.phase = "settle" /\ job'.intent = i /\ sends' = sends \cup {new}
    BY <1>14, <2>0, SendStep DEF Sent
  <2>2. new.intent = i /\ new.by.run = active
    BY DEF Me
  <2> HIDE DEF new
  <2> QED BY <2>1, <2>2 DEF OneIntent, OwnJob, Own, N
<1>11. CASE Settle
  <2>1. active # 0 /\ job.phase = "settle" /\ UNCHANGED <<active, attempts, sends>>
        /\ job'.phase = "package" /\ job'.intent = job.intent
    BY <1>11 DEF Settle, ghost, TInv, JobType
  <2> QED BY <2>1 DEF OneIntent, OwnJob, Own, N
<1>12. CASE StepFails \/ JobLost \/ SettleTimeout \/ Package
  BY <1>1, <1>12 DEF StepFails, JobLost, SettleTimeout, Package, ghost
<1>13. ASSUME RunResolveJob \/ Build \/ RunStoreJob \/ Prepare \/ Persist PROVE UNCHANGED sends
  BY <1>13 DEF RunResolveJob, Build, RunStoreJob, Prepare, Persist, ghost
<1>15. CASE (Create \/ Patch) /\ UNCHANGED sends
  <2>1. active # 0 /\ job.phase = "settle" /\ UNCHANGED <<active, attempts, artifacts, sends>>
        /\ job'.phase = "settle" /\ job'.intent = job.intent
    BY <1>15, WriteStep, WriteCases
  <2> QED BY <2>1 DEF OneIntent, OwnJob, Own, N
<1> QED BY <1>1, <1>2, <1>3, <1>4, <1>5, <1>6, <1>7, <1>8, <1>9, <1>10, <1>11, <1>12, <1>13, <1>14, <1>15
        DEF Next, Appears

LEMMA OneIntentNext ==
  ASSUME TInv, DocsInv, ArmedInv, SendsInv, OneIntent, [Next]_vars PROVE OneIntent'
<1>1. OwnDocs' /\ OwnGates' /\ OwnJob'
  BY OwnDocsNext, OwnGatesNext, OwnJobNext
<1>2. RunExecutesOneIntent'
  <2>2. CASE UNCHANGED sends
    BY <2>2 DEF OneIntent, RunExecutesOneIntent
  <2>3. CASE ~UNCHANGED sends
    <3>0. PICK kind \in {"create", "patch"} : Sent(job.intent, kind)
      BY <2>3, SendStep
    <3> DEFINE new == [intent |-> job.intent, by |-> Me, kind |-> kind]
    <3>1. job.phase \in {"execute", "settle"} /\ sends' = sends \cup {new}
      BY <2>3, <3>0, SendStep DEF Sent
    <3>2. new.intent = job.intent /\ new.by.run = active
      BY DEF Me
    <3> HIDE DEF new
    <3>3. \A s \in sends : Own(s) /\ s.by.run = active /\ Own(new) => s.intent = new.intent
      BY <3>1, <3>2, SameAsBefore DEF Own
    <3>4. SendsInv'
      BY SendsInvNext
    <3>5. ASSUME NEW s \in sends', NEW t \in sends', Own(s), t.by.run = s.by.run PROVE Own(t)
      <4>1. runs'[s.by.run].recovery = 0
        BY <3>4, <3>5 DEF SendsInv, Own
      <4>2. TInv'
        BY TInvNext
      <4>3. t.intent.by.run # 0
        BY <3>4, <4>2, BoundAssumption DEF SendsInv, TInv, DocsType, IntentType, Authority
      <4> QED BY <3>4, <3>5, <4>1, <4>3 DEF SendsInv, Own
    <3> QED BY <3>1, <3>2, <3>3, <3>5 DEF OneIntent, RunExecutesOneIntent, Own
  <2> QED BY <2>2, <2>3
<1> QED BY <1>1, <1>2 DEF OneIntent

\* What a run itself sends is one operation, whatever evidence is deleted.
THEOREM OneIntentPerRun == Spec => []RunExecutesOneIntent
<1>1. Init => OneIntent
  BY DEF Init, OneIntent, OwnDocs, OwnGates, OwnJob, RunExecutesOneIntent, Idle
<1>2. TInv /\ DocsInv /\ ArmedInv /\ SendsInv /\ OneIntent /\ [Next]_vars => OneIntent'
  BY OneIntentNext
<1>3. Documents => TInv /\ DocsInv /\ ArmedInv /\ SendsInv
  BY DEF Documents
<1>4. OneIntent => RunExecutesOneIntent
  BY DEF OneIntent
<1> QED BY <1>1, <1>2, <1>3, <1>4, AlwaysDocuments, PTL DEF Spec

(***************************************************************************)
(* What was sent can be recovered.  The artifacts of a run are those of    *)
(* one operation once that was executed, a persisted intent rests on       *)
(* documents that stay verifiable, and the Store keeps what was sent.      *)
(***************************************************************************)
Doing == {"execute", "settle", "package"}
Preparing == {"prepare", "persist"}
Before == {"resolve", "build", "store", "prepare", "persist"}

\* What a verified final keeps for ever; only a changed original could refute it.
SoundFinal(f) ==
  /\ PresentAllowed(f.intent)
  /\ SourcePolicy(f.intent.stage, CandidateSource(f.intent), f.intent.source)
  /\ ExecutedAfter(f) /\ OutcomeAllowed(f) /\ StateAllowed(f) /\ RecoveryOutcome(f)

Sound(i) ==
  /\ PresentAllowed(i) /\ SourcePolicy(i.stage, CandidateSource(i), i.source)
  /\ i.cand # None => i.cand \in issued /\ SoundFinal(i.cand)
  /\ i.ext # None => /\ i.ext \in issued /\ SoundFinal(i.ext)
                     /\ i.ext.intent.cand = i.cand /\ Eligible(i.ext)

Issued(i) ==
  /\ i.cand # None => i.cand \in issued
  /\ i.ext # None => i.ext \in issued

SoundInv ==
  /\ \A i \in persisted : Sound(i)
  /\ job.phase \in Working => Issued(job.intent)

\* An intent names an attempt there was, and the attempt before the execution
\* has persisted none.
NamedInv ==
  /\ \A i \in persisted :
       /\ i.by.run \in 1 .. Len(runs) /\ i.by.attempt \in 1 .. Len(attempts[i.by.run])
       /\ i.stage = runs[i.by.run].stage
  /\ \A f \in issued : f.intent \in persisted
  /\ job.phase \in Before => \A i \in persisted : i.by # Me
  /\ job.phase \in Preparing => job.intent.by = Me /\ job.intent.stage = D.stage

\* No other intent in the run of this one.
Alone(i) == \A a \in artifacts : a.kind = "intent" /\ a.run = i.by.run => a.doc = i

AloneInv ==
  /\ \A f \in issued : Alone(f.intent)
  /\ job.phase \in Doing => Alone(job.intent)
  /\ job.phase \in Preparing => (D.stage # "candidate" => N = 1)
  /\ job.phase = "persist" /\ D.stage = "candidate" => store.build = None

\* The binary of a candidate was built by its run, and is the one handed over.
Built(i) ==
  /\ i.binary.run = i.by.run /\ i.binary.attempt \in 1 .. Len(attempts[i.by.run])
  /\ attempts[i.by.run][i.binary.attempt].build = "ok"
  /\ \A a \in artifacts : a.kind = "handoff" /\ a.run = i.by.run => a.doc = i.binary

HandoffInv ==
  /\ \A a, b \in artifacts : a.kind = "handoff" /\ b.kind = "handoff" /\ a.run = b.run => a.doc = b.doc
  /\ \A a \in artifacts : a.kind = "handoff" =>
       a.doc.run = a.run /\ a.doc.attempt \in 1 .. Len(attempts[a.run])
  /\ \A i \in persisted : i.stage = "candidate" => Built(i)
  /\ job.phase \in Preparing /\ D.stage = "candidate" => Built(job.intent)

\* Some operation sent this binary, and was prepared before its upload.
Carried(binary, at) ==
  \E s \in sends :
    s.intent.stage = "candidate" /\ s.intent.binary = binary /\ s.intent.seen.uploads < at

\* Google Play keeps what was sent.  Of an iOS build Apple shows, or will show,
\* the operation is known, and was prepared before the upload.
HeldInv ==
  /\ platform = "android" => \A s \in sends : Target(s.intent) /\ store.build = s.intent.binary
  /\ \A i \in persisted : i.seen.uploads <= store.uploads
  /\ job.phase = "persist" => job.intent.seen.uploads <= store.uploads
  /\ platform = "ios" =>
       /\ \A u \in store.arriving : Carried(u.binary, u.at)
       /\ store.build # None => Carried(store.build, store.uploaded)

Recoverable == SoundInv /\ NamedInv /\ AloneInv /\ HandoffInv /\ HeldInv

\* What the steps do that neither persist, send nor issue a document.
Quiet ==
  /\ UNCHANGED <<persisted, issued, sends>>
  /\ \A x \in artifacts' : \E a \in artifacts : a.run = x.run /\ a.kind = x.kind /\ a.doc = x.doc
  /\ \/ job'.phase \in {"idle", "resolve", "build", "store"}
     \/ /\ UNCHANGED <<job, active, attempts, runs>>
        /\ job.phase = "persist" => UNCHANGED store

LEMMA LostIsQuiet ==
  ASSUME TInv, NEW a \in artifacts, Expire(a) \/ Delete(a)
  PROVE \A x \in artifacts' : \E b \in artifacts : b.run = x.run /\ b.kind = x.kind /\ b.doc = x.doc
<1>1. CASE Delete(a)
  BY <1>1 DEF Delete
<1>2. CASE Expire(a)
  <2> DEFINE R == [run : {a.run}, kind : {a.kind}, doc : {a.doc}, expired : BOOLEAN]
             new == [a EXCEPT !.expired = TRUE]
  <2>1. a \in R
    BY DEF TInv, DocsType
  <2>2. new \in R
    BY <2>1
  <2> HIDE DEF new
  <2>3. new.run = a.run /\ new.kind = a.kind /\ new.doc = a.doc
    BY <2>2
  <2>4. artifacts' = (artifacts \ {a}) \cup {new}
    BY <1>2 DEF new, Expire
  <2> QED BY <2>3, <2>4
<1> QED BY <1>1, <1>2

LEMMA OtherStepsAreQuiet ==
  ASSUME TInv, [Next]_vars,
         ~(Build \/ RunStoreJob \/ Prepare \/ Persist \/ Execute \/ Create \/ Patch \/ Settle \/ Package)
  PROVE Quiet
<1>1. CASE UNCHANGED vars
  BY <1>1 DEF vars, ghost, Quiet
<1>2. ASSUME NEW r, NEW phase \in {"resolve", "build", "store"}, Start(r, phase)
      PROVE job'.phase \in {"idle", "resolve", "build", "store"}
  BY <1>2 DEF Start, Idle
<1>3. CASE \E stage \in Stages : \E d \in Inputs(stage) : DispatchRun(d)
  BY <1>2, <1>3 DEF DispatchRun, FirstPhase, ghost, Quiet
<1>4. CASE \E r \in 1 .. MaxAttempts : RerunAll(r) \/ RerunFailed(r)
  BY <1>2, <1>4 DEF RerunAll, RerunFailed, FirstPhase, ghost, Quiet
<1>5. CASE StepFails \/ JobLost \/ SettleTimeout
  BY <1>5 DEF StepFails, JobLost, SettleTimeout, Stop, Idle, ghost, Quiet
<1>6. CASE RunResolveJob
  BY <1>6 DEF RunResolveJob, Stop, To, Idle, TInv, JobType, ghost, Quiet
<1>7. CASE Appears
  BY <1>7 DEF Appears, Approve, Arrive, Appear, ghost, Quiet
<1>8. CASE \E a \in artifacts : Expire(a) \/ Delete(a)
  <2>1. UNCHANGED <<persisted, issued, sends, job, active, attempts, runs, store>>
    BY <1>8 DEF Expire, Delete, ghost
  <2>2. \A x \in artifacts' : \E a \in artifacts : a.run = x.run /\ a.kind = x.kind /\ a.doc = x.doc
    BY <1>8, LostIsQuiet
  <2> QED BY <2>1, <2>2 DEF Quiet
<1> QED BY <1>1, <1>3, <1>4, <1>5, <1>6, <1>7, <1>8 DEF Next, Appears

\* The job starts to work on a document, or prepares it further.
LEMMA StoreJobCases ==
  ASSUME TInv, RunStoreJob
  PROVE LET o == Doc(Original(active, D), "intent") IN
          /\ active # 0 /\ job.phase = "store"
          /\ UNCHANGED <<runs, artifacts, store, persisted, issued, sends>>
          /\ \/ job'.phase = "idle"
             \/ /\ Resolution(active, D, N, Now.digest) = "prepare"
                /\ job'.phase = "prepare" /\ job'.intent = Draft /\ UNCHANGED <<active, attempts>>
             \/ /\ Resume(active, D, N) /\ o \in persisted
                /\ job'.phase = "execute" /\ job'.intent = o /\ UNCHANGED <<active, attempts>>
<1> DEFINE mode == Resolution(active, D, N, Now.digest)
           o == Doc(Original(active, D), "intent")
<1>1. active # 0 /\ job.phase = "store"
      /\ UNCHANGED <<runs, artifacts, store, persisted, issued, sends>>
  BY DEF RunStoreJob, ghost, TInv, JobType
<1>2. CASE mode \in {"error", "complete"}
  <2>1. job'.phase = "idle"
    BY <1>2 DEF RunStoreJob, Stop, Idle
  <2> QED BY <1>1, <2>1
<1>3. CASE mode = "prepare"
  <2>1. job'.phase = "prepare" /\ job'.intent = Draft /\ UNCHANGED <<active, attempts>>
    BY <1>3 DEF RunStoreJob, TInv, JobType
  <2> QED BY <1>1, <1>3, <2>1
<1>4. CASE mode \notin {"error", "complete", "prepare"}
  <2>1. job'.phase = "execute" /\ job'.intent = o /\ UNCHANGED <<active, attempts>>
    BY <1>4 DEF RunStoreJob, TInv, JobType
  <2>2. Resume(active, D, N)
    BY <1>4 DEF Resolution
  <2> QED BY <1>1, <2>1, <2>2, ResumedIntent
<1> QED BY <1>2, <1>3, <1>4

LEMMA PrepareCases ==
  ASSUME TInv, Prepare
  PROVE /\ active # 0 /\ job.phase = "prepare" /\ IntentType(job.intent)
        /\ UNCHANGED <<runs, artifacts, store, persisted, issued, sends>>
        /\ \/ job'.phase = "idle"
           \/ /\ Admissible(job.intent) /\ UNCHANGED <<active, attempts>>
              /\ job'.phase = "persist" /\ job'.intent.by = job.intent.by
              /\ job'.intent.stage = job.intent.stage /\ job'.intent.binary = job.intent.binary
              /\ job'.intent.cand = job.intent.cand /\ job'.intent.ext = job.intent.ext
              /\ job'.intent.seen.uploads = store.uploads
<1> DEFINE seen == Snapshot(job.intent.stage)
           i == [job.intent EXCEPT !.present = Target(job.intent), !.seen = seen]
<1>1. active # 0 /\ job.phase = "prepare" /\ IntentType(job.intent)
      /\ UNCHANGED <<runs, artifacts, store, persisted, issued, sends>>
  BY DEF Prepare, ghost, TInv, JobType, Working
<1>2. CASE ~Admissible(job.intent)
  BY <1>1, <1>2 DEF Prepare, Stop, Idle
<1>3. CASE Admissible(job.intent)
  <2>0. seen.uploads = store.uploads
    BY DEF Snapshot
  <2>1. job' = [job EXCEPT !.phase = "persist", !.intent.present = Target(job.intent),
                           !.intent.seen = seen]
        /\ UNCHANGED <<active, attempts>>
    BY <1>3 DEF Prepare
  <2> HIDE DEF seen
  <2>2. job'.phase = "persist" /\ job'.intent = i
    BY <2>1 DEF TInv, JobType
  <2>3. i.by = job.intent.by /\ i.stage = job.intent.stage /\ i.binary = job.intent.binary
        /\ i.cand = job.intent.cand /\ i.ext = job.intent.ext /\ i.seen = seen
    BY <1>1 DEF IntentType
  <2> QED BY <1>1, <1>3, <2>0, <2>1, <2>2, <2>3
<1> QED BY <1>2, <1>3

LEMMA PersistCases ==
  ASSUME TInv, Persist
  PROVE /\ active # 0 /\ job.phase = "persist" /\ IntentType(job.intent)
        /\ UNCHANGED <<platform, runs, store, issued, sends>>
        /\ \/ job'.phase = "idle"
           \/ job'.phase = "execute" /\ job'.intent = job.intent /\ UNCHANGED <<active, attempts>>
        /\ \/ job'.phase = "idle" /\ UNCHANGED <<artifacts, persisted>>
           \/ /\ VerifiedIntent(job.intent) /\ ~Has(active, "intent")
              /\ Uploaded(active, "intent", job.intent) /\ persisted' = persisted \cup {job.intent}
<1>1. active # 0 /\ job.phase = "persist" /\ IntentType(job.intent)
      /\ UNCHANGED <<platform, runs, store, issued, sends>>
  BY DEF Persist, TInv, JobType, Working
<1>2. CASE ~VerifiedIntent(job.intent) \/ Has(active, "intent")
  BY <1>1, <1>2 DEF Persist, Stop, Idle
<1>3. CASE ~(~VerifiedIntent(job.intent) \/ Has(active, "intent"))
  <2>1. /\ Uploaded(active, "intent", job.intent) /\ persisted' = persisted \cup {job.intent}
        /\ (To("execute") /\ UNCHANGED attempts) \/ Stop
    BY <1>3 DEF Persist
  <2>2. \/ job'.phase = "idle"
        \/ job'.phase = "execute" /\ job'.intent = job.intent /\ UNCHANGED <<active, attempts>>
    BY <2>1 DEF To, Stop, Idle, TInv, JobType
  <2> QED BY <1>1, <1>3, <2>1, <2>2
<1> QED BY <1>2, <1>3

LEMMA PackageCases ==
  ASSUME TInv, Package
  PROVE /\ active # 0 /\ job.phase = "package" /\ job'.phase = "idle"
        /\ UNCHANGED <<platform, runs, store, sends, persisted>>
        /\ \/ UNCHANGED <<artifacts, issued>>
           \/ /\ VerifiedFinal(Receipt) /\ Receipt.intent = job.intent
              /\ Uploaded(active, "evidence", Receipt) /\ issued' = issued \cup {Receipt}
<1>1. active # 0 /\ job.phase = "package" /\ job'.phase = "idle"
      /\ UNCHANGED <<platform, runs, store, sends, persisted>>
  BY DEF Package, Stop, Idle, TInv, JobType
<1>2. Receipt.intent = job.intent
  BY DEF Receipt
<1> QED BY <1>1, <1>2 DEF Package

LEMMA BuildCases ==
  ASSUME TInv, Build
  PROVE /\ active # 0 /\ job.phase = "build" /\ job'.phase \in {"idle", "store"}
        /\ UNCHANGED <<runs, store, sends, persisted, issued>>
        /\ \/ UNCHANGED artifacts
           \/ ~Has(active, "handoff") /\ Uploaded(active, "handoff", Me)
<1>1. active # 0 /\ job.phase = "build" /\ UNCHANGED <<runs, store, sends, persisted, issued>>
  BY DEF Build, ghost, TInv, JobType
<1>2. job'.phase \in {"idle", "store"}
  BY DEF Build, Stop, To, Idle, TInv, JobType
<1> QED BY <1>1, <1>2 DEF Build

\* The steps of a job that settles.
LEMMA SettleCases ==
  ASSUME TInv, Settle \/ Create \/ Patch
  PROVE /\ active # 0 /\ job.phase = "settle" /\ job'.phase \in {"settle", "package"}
        /\ job'.intent = job.intent
        /\ UNCHANGED <<runs, attempts, artifacts, active, persisted, issued>>
<1>1. CASE Settle
  BY <1>1 DEF Settle, ghost, TInv, JobType
<1>2. CASE Create \/ Patch
  BY <1>2, WriteStep, WriteCases
<1> QED BY <1>1, <1>2

\* The artifacts after an upload.
LEMMA AfterUpload ==
  ASSUME NEW kind, NEW doc, Uploaded(active, kind, doc), NEW x \in artifacts'
  PROVE x \in artifacts \/ (x.run = active /\ x.kind = kind /\ x.doc = doc)
<1>1. x \in artifacts \/ x = [run |-> active, kind |-> kind, doc |-> doc, expired |-> FALSE]
  BY DEF Uploaded
<1> QED BY <1>1

(***************************************************************************)
(* Documents stay sound, and named.                                        *)
(***************************************************************************)
LEMMA SoundStays ==
  ASSUME NEW i, Sound(i), issued \subseteq issued', UNCHANGED platform PROVE Sound(i)'
<1>1. ASSUME NEW f, SoundFinal(f) PROVE SoundFinal(f)'
  BY <1>1 DEF SoundFinal, PresentAllowed, ExecutedAfter, OutcomeAllowed, StateAllowed, RecoveryOutcome
<1>2. PresentAllowed(i)' /\ SourcePolicy(i.stage, CandidateSource(i), i.source)
  BY DEF Sound, PresentAllowed
<1>3. i.cand # None => i.cand \in issued' /\ SoundFinal(i.cand)'
  BY <1>1 DEF Sound
<1>4. i.ext # None => i.ext \in issued' /\ SoundFinal(i.ext)' /\ i.ext.intent.cand = i.cand /\ Eligible(i.ext)'
  BY <1>1 DEF Sound, Eligible
<1> QED BY <1>2, <1>3, <1>4 DEF Sound

LEMMA VerifiedIsSound == ASSUME NEW i, VerifiedIntent(i), Issued(i) PROVE Sound(i)
<1>1. ASSUME NEW f, BoundFinal(f) PROVE SoundFinal(f)
  BY <1>1 DEF BoundFinal, BoundIntent, SoundFinal
<1>2. PresentAllowed(i) /\ SourcePolicy(i.stage, CandidateSource(i), i.source) /\ Chain(i)
  BY DEF VerifiedIntent, BoundIntent
<1> QED BY <1>1, <1>2 DEF Chain, Sound, Issued

\* The documents a draft is made from were issued.
LEMMA DraftIssued ==
  ASSUME TInv, active # 0, Resolution(active, D, N, Now.digest) = "prepare" PROVE Issued(Draft)
<1> DEFINE c == IF D.cand = 0 THEN None ELSE Doc(D.cand, "evidence")
<1>1. Draft.cand = c
  BY DEF Draft
<1>2. D.cand # 0 => c \in issued
  <2>1. SUFFICES ASSUME D.cand # 0 PROVE c \in issued
    OBVIOUS
  <2>2. D.stage # "candidate"
    BY <2>1, Current DEF Selected
  <2>3. PreparePromotion(active, D, N)
    BY <2>2 DEF Resolution
  <2>4. Has(D.cand, "evidence")
    BY <2>3, UnexpiredIsThere DEF PreparePromotion
  <2> QED BY <2>1, <2>4, DocIsFound DEF TInv, DocsType
<1> QED BY <1>1, <1>2, DraftRests DEF Issued, Rests

LEMMA SoundNext == ASSUME TInv, SoundInv, [Next]_vars PROVE SoundInv'
<1>1. issued \subseteq issued' /\ persisted \subseteq persisted' /\ UNCHANGED platform
  BY EverythingGrows DEF Grows
<1>2. \A i \in persisted : Sound(i)'
  BY <1>1, SoundStays DEF SoundInv
<1>3. ASSUME UNCHANGED persisted,
             job'.phase \in Working => Issued(job'.intent) PROVE SoundInv'
  BY <1>1, <1>2, <1>3 DEF SoundInv, Issued
<1>4. CASE Build
  BY <1>3, <1>4, BuildCases DEF Working
<1>5. CASE RunStoreJob
  BY <1>3, <1>5, StoreJobCases, DraftIssued DEF SoundInv, Sound, Issued, Working
<1>6. CASE Prepare
  BY <1>3, <1>6, PrepareCases DEF SoundInv, Issued, Working
<1>7. CASE Persist
  <2>1. Issued(job.intent)
    BY <1>7, PersistCases DEF SoundInv, Working
  <2>2. ASSUME NEW i, i = job.intent, VerifiedIntent(i) PROVE Sound(i)'
    BY <1>1, <2>1, <2>2, VerifiedIsSound, SoundStays
  <2>3. \A i \in persisted' : i \in persisted \/ (i = job.intent /\ VerifiedIntent(job.intent))
    BY <1>7, PersistCases
  <2>5. \A i \in persisted' : Sound(i)'
    BY <1>2, <2>2, <2>3
  <2>4. job'.phase \in Working => Issued(job'.intent)
    BY <1>7, <2>1, PersistCases DEF Working
  <2> QED BY <1>1, <2>4, <2>5 DEF SoundInv, Issued
<1>8. CASE Execute
  <2>1. UNCHANGED persisted /\ Issued(job.intent)
    BY <1>8, ExecuteCases DEF SoundInv, Working
  <2>2. job'.phase \in Working => job'.intent = job.intent
    BY <1>8, ExecuteCases DEF Stop, Idle, Working
  <2> QED BY <1>3, <2>1, <2>2
<1>9. CASE Settle \/ Create \/ Patch \/ Package
  BY <1>3, <1>9, SettleCases, PackageCases DEF SoundInv, Working
<1>10. CASE Quiet
  BY <1>3, <1>10 DEF Quiet, SoundInv, Working
<1> QED BY <1>4, <1>5, <1>6, <1>7, <1>8, <1>9, <1>10, OtherStepsAreQuiet

\* An attempt begins, or goes on.
LEMMA AttemptBegins ==
  ASSUME TInv, [Next]_vars, active = 0, active' # 0
  PROVE /\ active' \in Nat
        /\ active' \in 1 .. Len(runs) => N' = Len(attempts[active']) + 1
<1>1. CASE \E stage \in Stages : \E d \in Inputs(stage) : DispatchRun(d)
  BY <1>1 DEF DispatchRun, Start, TInv, RunsType
<1>2. CASE \E r \in 1 .. MaxAttempts : RerunAll(r) \/ RerunFailed(r)
  <2>1. PICK r \in 1 .. MaxAttempts : RerunAll(r) \/ RerunFailed(r)
    BY <1>2
  <2>2. active' = r /\ r \in 1 .. Len(runs) /\ r \in Nat /\ attempts \in Seq(Seq(Attempt))
        /\ Len(attempts) = Len(runs)
    BY <2>1 DEF RerunAll, RerunFailed, CanRerun, Start, TInv, RunsType
  <2>3. PICK new : attempts' = [attempts EXCEPT ![r] = Append(@, new)]
    BY <2>1 DEF RerunAll, RerunFailed
  <2>4. attempts'[r] = Append(attempts[r], new) /\ attempts[r] \in Seq(Attempt)
    BY <2>2, <2>3
  <2> QED BY <2>2, <2>4 DEF N
<1>3. CASE ~(\/ \E stage \in Stages : \E d \in Inputs(stage) : DispatchRun(d)
             \/ \E r \in 1 .. MaxAttempts : RerunAll(r) \/ RerunFailed(r))
  <2>1. job.phase = "idle"
    BY DEF TInv, JobType
  <2>2. \/ UNCHANGED vars \/ StepFails \/ JobLost \/ Appears
        \/ (\E a \in artifacts : Expire(a) \/ Delete(a))
    BY <1>3, <2>1 DEF Next, Appears, RunResolveJob, Build, RunStoreJob, Prepare, Persist, Execute, Create,
       Patch, Settle, SettleTimeout, Package
  <2> QED BY <2>2 DEF vars, StepFails, JobLost, Appears, Approve, Arrive, Appear, Expire, Delete
<1> QED BY <1>1, <1>2, <1>3

LEMMA AttemptGoesOn ==
  ASSUME TInv, [Next]_vars, active # 0, active' # 0
  PROVE active' = active /\ N' = N /\ Me' = Me /\ D' = D
<1>0. active \in 1 .. Len(runs) /\ active \in 1 .. Len(attempts) /\ Now \in Attempt /\ Me \in Authority
  BY Current DEF TInv, RunsType
<1>1. ASSUME UNCHANGED <<active, attempts, runs>> PROVE active' = active /\ N' = N /\ Me' = Me /\ D' = D
  BY <1>1 DEF N, Me, D
<1>2. CASE RunResolveJob \/ Build
  <2>1. Len(attempts'[active]) = Len(attempts[active])
    BY <1>2, RunsKeepLength
  <2>2. active' = active /\ UNCHANGED runs
    BY <1>2 DEF RunResolveJob, Build, Stop, To
  <2> QED BY <2>1, <2>2 DEF N, Me, D
<1>3. CASE RunStoreJob \/ Prepare \/ Persist \/ Execute \/ Settle \/ Create \/ Patch
  <2>1. job'.phase # "idle"
    BY TInvNext DEF TInv, JobType
  <2>2. CASE RunStoreJob
    BY <1>1, <2>1, <2>2, StoreJobCases
  <2>3. CASE Prepare
    BY <1>1, <2>1, <2>3, PrepareCases
  <2>4. CASE Persist
    BY <1>1, <2>1, <2>4, PersistCases
  <2>5. CASE Execute
    BY <1>1, <2>1, <2>5, ExecuteCases DEF Stop, Idle
  <2>6. CASE Settle \/ Create \/ Patch
    BY <1>1, <2>6, SettleCases
  <2> QED BY <1>3, <2>2, <2>3, <2>4, <2>5, <2>6
<1>4. CASE StepFails \/ JobLost \/ SettleTimeout \/ Package
  BY <1>4 DEF StepFails, JobLost, SettleTimeout, Package, Stop
<1>5. CASE UNCHANGED vars \/ Appears \/ (\E a \in artifacts : Expire(a) \/ Delete(a))
  BY <1>1, <1>5 DEF vars, Appears, Approve, Arrive, Appear, Expire, Delete
<1>6. ~(\E r \in 1 .. MaxAttempts : RerunAll(r) \/ RerunFailed(r))
  BY DEF RerunAll, RerunFailed, CanRerun
<1> QED BY <1>2, <1>3, <1>4, <1>5, <1>6 DEF Next, Appears

\* Runs and their attempts only become more.
LEMMA Longer ==
  ASSUME TInv, [Next]_vars, NEW r \in 1 .. Len(runs)
  PROVE /\ r \in 1 .. Len(runs') /\ runs'[r] = runs[r]
        /\ Len(attempts[r]) \in Nat /\ Len(attempts'[r]) \in Nat
        /\ Len(attempts[r]) <= Len(attempts'[r])
        /\ 1 .. Len(attempts[r]) \subseteq 1 .. Len(attempts'[r])
<1>1. /\ Len(runs') \in Nat /\ Len(runs) \in Nat /\ Len(runs) <= Len(runs')
      /\ runs'[r] = runs[r] /\ Len(attempts[r]) <= Len(attempts'[r])
  BY RunsGrow DEF TInv, RunsType
<1>2. r \in 1 .. Len(runs')
  BY <1>1
<1>3. Len(attempts[r]) \in Nat
  BY DEF TInv, RunsType
<1>4. Len(attempts'[r]) \in 1 .. total' /\ total' \in Nat
  <2>1. RunsType'
    BY TInvNext DEF TInv
  <2>2. total' \in 0 .. MaxAttempts
    BY <2>1 DEF RunsType
  <2>3. Len(attempts'[r]) \in 1 .. total'
    BY <1>2, <2>1 DEF RunsType
  <2> QED BY <2>2, <2>3, BoundAssumption
<1> QED BY <1>1, <1>2, <1>3, <1>4

LEMMA NamedNext ==
  ASSUME TInv, DocsInv, NamedInv, [Next]_vars PROVE NamedInv'
<1>1. Grows /\ TInv'
  BY EverythingGrows, TInvNext
<1>2. ASSUME NEW i \in persisted
      PROVE (/\ i.by.run \in 1 .. Len(runs) /\ i.by.attempt \in 1 .. Len(attempts[i.by.run])
             /\ i.stage = runs[i.by.run].stage)'
  BY Longer DEF NamedInv
<1>3. CASE Persist
  <2>1. active # 0 /\ job.phase = "persist" /\ UNCHANGED <<runs, issued>>
        /\ persisted' \subseteq persisted \cup {job.intent}
        /\ job'.phase \in {"idle", "execute"}
    BY <1>3, PersistCases
  <2>2. job.intent.by = Me /\ job.intent.stage = D.stage
    BY <2>1 DEF NamedInv, Preparing
  <2>3. active \in 1 .. Len(runs) /\ N \in 1 .. Len(attempts[active]) /\ Me.run = active /\ Me.attempt = N
    BY <2>1, Current DEF Me
  <2>5. N \in 1 .. Len(attempts'[active])
    BY <2>3, Longer
  <2>6. \A i \in persisted' : /\ i.by.run \in 1 .. Len(runs')
                              /\ i.by.attempt \in 1 .. Len(attempts'[i.by.run])
                              /\ i.stage = runs'[i.by.run].stage
    BY <1>2, <2>1, <2>2, <2>3, <2>5 DEF D
  <2> QED BY <1>1, <2>1, <2>6 DEF NamedInv, Grows, Before, Preparing
<1>4. CASE ~Persist
  <2>1. UNCHANGED persisted
    <3>1. CASE Quiet
      BY <3>1 DEF Quiet
    <3>2. CASE Build \/ RunStoreJob \/ Prepare \/ Execute \/ Settle \/ Create \/ Patch \/ Package
      BY <3>2, BuildCases, StoreJobCases, PrepareCases, ExecuteCases, SettleCases, PackageCases
    <3> QED BY <1>4, <3>1, <3>2, OtherStepsAreQuiet
  <2>2. \A f \in issued' : f.intent \in persisted
    <3>1. CASE Package
      BY <3>1, PackageCases DEF NamedInv, DocsInv
    <3>2. CASE Quiet
      BY <3>2 DEF Quiet, NamedInv
    <3>3. CASE Build \/ RunStoreJob \/ Prepare \/ Execute \/ Settle \/ Create \/ Patch
      BY <3>3, BuildCases, StoreJobCases, PrepareCases, ExecuteCases, SettleCases DEF NamedInv
    <3> QED BY <1>4, <3>1, <3>2, <3>3, OtherStepsAreQuiet
  <2>3. job'.phase \in Before => \A i \in persisted : i.by # Me'
    <3>1. SUFFICES ASSUME job'.phase \in Before PROVE \A i \in persisted : i.by # Me'
      OBVIOUS
    <3>2. active' # 0
      BY <1>1, <3>1 DEF TInv, JobType, Before
    <3>3. CASE active = 0
      <4>1. SUFFICES ASSUME NEW i \in persisted, i.by = Me' PROVE FALSE
        OBVIOUS
      <4>2. i.by.run = active' /\ i.by.attempt = N'
        BY <4>1 DEF Me
      <4>3. active' \in 1 .. Len(runs) /\ N' \in 1 .. Len(attempts[active']) /\ Len(attempts[active']) \in Nat
        BY <4>2 DEF NamedInv, TInv, RunsType
      <4> QED BY <3>2, <3>3, <4>3, AttemptBegins
    <3>4. CASE active # 0
      <4>1. Me' = Me
        BY <3>2, <3>4, AttemptGoesOn
      <4>2. job.phase \in Before
        <5>1. CASE RunResolveJob \/ UNCHANGED job
          BY <3>1, <5>1 DEF RunResolveJob, Before
        <5>2. CASE Build \/ RunStoreJob \/ Prepare
          BY <5>2, BuildCases, StoreJobCases, PrepareCases DEF Before
        <5>3. CASE Execute \/ Settle \/ Create \/ Patch \/ Package
          BY <3>1, <5>3, ExecuteCases, SettleCases, PackageCases DEF Before, Stop, Idle
        <5>4. CASE StepFails \/ JobLost \/ SettleTimeout
          BY <3>2, <5>4 DEF StepFails, JobLost, SettleTimeout, Stop
        <5>5. CASE UNCHANGED vars \/ Appears \/ (\E a \in artifacts : Expire(a) \/ Delete(a))
          BY <5>1, <5>5 DEF vars, Appears, Approve, Arrive, Appear, Expire, Delete
        <5>6. ~(\E r \in 1 .. MaxAttempts : RerunAll(r) \/ RerunFailed(r))
          BY <3>4 DEF RerunAll, RerunFailed, CanRerun
        <5> QED BY <1>4, <3>4, <5>1, <5>2, <5>3, <5>4, <5>5, <5>6 DEF Next, Appears
      <4> QED BY <4>1, <4>2 DEF NamedInv
    <3> QED BY <3>3, <3>4
  <2>4. job'.phase \in Preparing => job'.intent.by = Me' /\ job'.intent.stage = D'.stage
    <3>1. CASE Quiet
      <4>1. job'.phase \in Preparing => UNCHANGED <<job, active, attempts, runs>>
        BY <3>1 DEF Quiet, Preparing
      <4>2. UNCHANGED <<active, attempts, runs>> => Me' = Me /\ D' = D
        BY DEF Me, N, D
      <4> QED BY <4>1, <4>2 DEF NamedInv
    <3>2. CASE RunStoreJob
      <4>1. UNCHANGED <<active, attempts, runs>> => Me' = Me /\ D' = D
        BY DEF Me, N, D
      <4> QED BY <3>2, <4>1, StoreJobCases, DraftIsTyped DEF Preparing
    <3>3. CASE Prepare
      <4>1. UNCHANGED <<active, attempts, runs>> => Me' = Me /\ D' = D
        BY DEF Me, N, D
      <4> QED BY <3>3, <4>1, PrepareCases DEF Preparing, NamedInv
    <3>4. CASE Build \/ Execute \/ Settle \/ Create \/ Patch \/ Package
      BY <3>4, BuildCases, ExecuteCases, SettleCases, PackageCases DEF Preparing, Stop, Idle
    <3> QED BY <1>4, <3>1, <3>2, <3>3, <3>4, OtherStepsAreQuiet
  <2> QED BY <1>2, <2>1, <2>2, <2>3, <2>4 DEF NamedInv
<1> QED BY <1>3, <1>4

(***************************************************************************)
(* One intent in the run of an operation that is executed.                 *)
(***************************************************************************)
\* The resumed intent lies in the run that wrote it.
LEMMA ResumedIsOriginal ==
  ASSUME TInv, active # 0, Resume(active, D, N)
  PROVE LET o == Doc(Original(active, D), "intent") IN
          \E a \in artifacts : a.kind = "intent" /\ a.run = o.by.run /\ a.doc = o
<1> DEFINE q == Original(active, D)
           o == Doc(q, "intent")
<1>1. PICK a \in artifacts : a.run = q /\ a.kind = "intent" /\ a.doc = o
  BY ResumedIntent, DocIsFound
<1>2. RecoveryContext(active, D, N, o) /\ IntentType(o)
  BY ResumedIntent DEF Resume
<1>3. o.by.run \in 1 .. MaxAttempts
  BY <1>2 DEF IntentType, Authority
<1>4. q = o.by.run
  BY <1>2, <1>3, BoundAssumption DEF RecoveryContext, Original
<1> QED BY <1>1, <1>4

LEMMA AloneStays ==
  ASSUME NEW i, Alone(i),
         \A x \in artifacts' : \/ \E a \in artifacts : a.run = x.run /\ a.kind = x.kind /\ a.doc = x.doc
                               \/ x.kind # "intent"
  PROVE Alone(i)'
BY DEF Alone

\* At the upload of an intent, no evidence speaks of another one of its run.
LEMMA PersistsFirst ==
  ASSUME TInv, StoreInv, NamedInv, AloneInv, job.phase = "persist", NEW f \in issued
  PROVE f.intent.by.run # active
<1>1. SUFFICES ASSUME f.intent.by.run = active PROVE FALSE
  OBVIOUS
<1>2. active # 0 /\ f.intent \in persisted /\ Target(f.intent) /\ IntentType(f.intent)
  BY DEF TInv, JobType, DocsType, FinalType, NamedInv, StoreInv
<1>3. f.intent.stage = D.stage /\ f.intent.by.attempt \in 1 .. N
  BY <1>1, <1>2 DEF NamedInv, D, N
<1>4. CASE D.stage = "candidate"
  BY <1>2, <1>3, <1>4 DEF AloneInv, Target
<1>5. CASE D.stage # "candidate"
  <2>1. N = 1
    BY <1>5 DEF AloneInv, Preparing
  <2>2. f.intent.by.attempt = N
    BY <1>3, <2>1
  <2>3. f.intent.by = [run |-> active, attempt |-> N]
    BY <1>1, <1>2, <2>2 DEF IntentType, Authority
  <2> QED BY <1>2, <2>3 DEF NamedInv, Before, Me
<1> QED BY <1>4, <1>5

LEMMA AloneNext ==
  ASSUME TInv, StoreInv, NamedInv, AloneInv, OwnDocs, [Next]_vars PROVE AloneInv'
<1>0. active # 0 => N \in Nat
  BY Current
<1>1. ASSUME UNCHANGED issued, job'.phase \notin Doing \cup Preparing,
             \A x \in artifacts' : \/ \E a \in artifacts : a.run = x.run /\ a.kind = x.kind /\ a.doc = x.doc
                                   \/ x.kind # "intent"
      PROVE AloneInv'
  <2>1. \A f \in issued : Alone(f.intent)'
    BY <1>1, AloneStays DEF AloneInv
  <2> QED BY <1>1, <2>1 DEF AloneInv, Doing, Preparing
<1>2. CASE Quiet
  <2>1. CASE UNCHANGED <<job, active, attempts, runs>> /\ (job.phase = "persist" => UNCHANGED store)
    <3>1. \A f \in issued : Alone(f.intent)'
      BY <1>2, AloneStays DEF AloneInv, Quiet
    <3>2. job.phase \in Doing => \A i : i = job.intent => Alone(i)'
      BY <1>2, AloneStays DEF AloneInv, Quiet
    <3>3. N' = N /\ D' = D
      BY <2>1 DEF N, D
    <3>4. UNCHANGED issued
      BY <1>2 DEF Quiet
    <3> QED BY <2>1, <3>1, <3>2, <3>3, <3>4 DEF AloneInv
  <2>2. CASE job'.phase \in {"idle", "resolve", "build", "store"}
    BY <1>1, <1>2, <2>2 DEF Quiet, Doing, Preparing
  <2> QED BY <1>2, <2>1, <2>2 DEF Quiet
<1>3. CASE Build
  <2>1. \A x \in artifacts' : x \in artifacts \/ x.kind # "intent"
    BY <1>3, BuildCases, AfterUpload
  <2> QED BY <1>1, <1>3, <2>1, BuildCases DEF Doing, Preparing
<1>4. CASE Package
  <2>1. \A x \in artifacts' : x \in artifacts \/ x.kind # "intent"
    BY <1>4, PackageCases, AfterUpload
  <2>2. \A f \in issued' : f \in issued \/ f.intent = job.intent
    BY <1>4, PackageCases
  <2>3. Alone(job.intent)
    BY <1>4, PackageCases DEF AloneInv, Doing
  <2>4. \A i : Alone(i) => Alone(i)'
    BY <2>1, AloneStays
  <2>5. \A f \in issued' : Alone(f.intent)'
    BY <2>2, <2>3, <2>4 DEF AloneInv
  <2>6. job'.phase = "idle"
    BY <1>4, PackageCases
  <2> QED BY <2>5, <2>6 DEF AloneInv, Doing, Preparing
<1>5. CASE RunStoreJob
  <2> DEFINE o == Doc(Original(active, D), "intent")
  <2>1. /\ active # 0 /\ UNCHANGED <<runs, artifacts, issued>>
    BY <1>5, StoreJobCases
  <2>2. \A f \in issued : Alone(f.intent)'
    BY <2>1 DEF AloneInv, Alone
  <2>3. CASE job'.phase = "idle"
    BY <2>1, <2>2, <2>3 DEF AloneInv, Doing, Preparing
  <2>4. CASE /\ Resolution(active, D, N, Now.digest) = "prepare"
             /\ job'.phase = "prepare" /\ UNCHANGED <<active, attempts>>
    <3>1. N' = N /\ D' = D
      BY <2>1, <2>4 DEF N, D
    <3>2. D.stage # "candidate" => N = 1
      BY <2>4 DEF Resolution, PreparePromotion
    <3> QED BY <2>1, <2>2, <2>4, <3>1, <3>2 DEF AloneInv, Doing
  <2>5. CASE Resume(active, D, N) /\ job'.phase = "execute" /\ job'.intent = o
    <3>1. \A a \in artifacts : a.kind = "intent" /\ a.run = o.by.run => a.doc = o
      BY <2>1, <2>5, ResumedIsOriginal DEF OwnDocs
    <3>2. \A a \in artifacts' : a.kind = "intent" /\ a.run = job'.intent.by.run => a.doc = job'.intent
      BY <2>1, <2>5, <3>1
    <3> QED BY <2>1, <2>2, <2>5, <3>2 DEF AloneInv, Alone, Preparing
  <2> QED BY <1>5, <2>3, <2>4, <2>5, StoreJobCases
<1>6. CASE Prepare
  <2>1. UNCHANGED <<artifacts, issued, store, runs>> /\ job.phase = "prepare"
    BY <1>6, PrepareCases
  <2>2. \A f \in issued : Alone(f.intent)'
    BY <2>1 DEF AloneInv, Alone
  <2>3. CASE job'.phase = "idle"
    BY <2>1, <2>2, <2>3 DEF AloneInv, Doing, Preparing
  <2>4. CASE Admissible(job.intent) /\ UNCHANGED <<active, attempts>> /\ job'.phase = "persist"
    <3>1. N' = N /\ D' = D
      BY <2>1, <2>4 DEF N, D
    <3>2. D.stage = "candidate" => store.build = None
      BY <2>1, <2>4 DEF Admissible, NamedInv, Preparing
    <3> QED BY <2>1, <2>2, <2>4, <3>1, <3>2 DEF AloneInv, Doing, Preparing
  <2> QED BY <1>6, <2>3, <2>4, PrepareCases
<1>7. CASE Persist
  <2>1. active # 0 /\ job.phase = "persist" /\ UNCHANGED issued
    BY <1>7, PersistCases
  <2>2. job.intent.by.run = active
    BY <2>1 DEF NamedInv, Preparing, Me
  <2>3. \A x \in artifacts' : \/ x \in artifacts
                              \/ x.run = active /\ x.kind = "intent" /\ x.doc = job.intent
    BY <1>7, PersistCases, AfterUpload
  <2>4. ASSUME NEW f \in issued PROVE Alone(f.intent)'
    <3>1. f.intent.by.run # active
      BY <2>1, PersistsFirst
    <3> QED BY <2>3, <3>1 DEF AloneInv, Alone
  <2>5. CASE job'.phase = "idle"
    BY <2>1, <2>4, <2>5 DEF AloneInv, Doing, Preparing
  <2>6. CASE job'.phase = "execute" /\ job'.intent = job.intent /\ ~Has(active, "intent")
    <3>1. \A a \in artifacts : ~(a.run = active /\ a.kind = "intent")
      BY <2>6 DEF Has, Found
    <3>2. \A x \in artifacts' : x.kind = "intent" /\ x.run = active => x.doc = job.intent
      BY <2>3, <3>1
    <3>3. \A x \in artifacts' : x.kind = "intent" /\ x.run = job'.intent.by.run => x.doc = job'.intent
      BY <2>2, <2>6, <3>2
    <3> QED BY <2>1, <2>4, <2>6, <3>3 DEF AloneInv, Alone, Preparing
  <2> QED BY <1>7, <2>5, <2>6, PersistCases
<1>8. CASE Execute
  <2>1. UNCHANGED <<artifacts, issued>> /\ job.phase = "execute"
    BY <1>8, ExecuteCases
  <2>2. \/ job'.phase = "idle"
        \/ job'.phase \in {"settle", "package"} /\ job'.intent = job.intent
    BY <1>8, ExecuteCases DEF Stop, Idle
  <2> QED BY <2>1, <2>2 DEF AloneInv, Alone, Doing, Preparing
<1>9. CASE Settle \/ Create \/ Patch
  BY <1>9, SettleCases DEF AloneInv, Alone, Doing, Preparing
<1> QED BY <1>2, <1>3, <1>4, <1>5, <1>6, <1>7, <1>8, <1>9, OtherStepsAreQuiet

(***************************************************************************)
(* The binary of a candidate stays the one its run handed over.            *)
(***************************************************************************)
\* A build that succeeded stays so.
LEMMA BuildsStay ==
  ASSUME TInv, BuildInv, [Next]_vars,
         NEW r \in 1 .. Len(runs), NEW m \in 1 .. Len(attempts[r]), attempts[r][m].build = "ok"
  PROVE attempts'[r][m].build = "ok"
<1>0. /\ runs \in Seq(Dispatch) /\ Len(runs) \in Nat /\ attempts \in Seq(Seq(Attempt))
      /\ Len(attempts) = Len(runs) /\ attempts[r] \in Seq(Attempt) /\ Len(attempts[r]) \in Nat
  BY DEF TInv, RunsType
<1>1. CASE UNCHANGED attempts
  BY <1>1
<1>2. ASSUME active # 0, NEW changed \in Attempt, Set(changed),
             changed.build = Now.build \/ changed.build = "ok" \/ Now.build # "ok"
      PROVE attempts'[r][m].build = "ok"
  <2>1. attempts'[r][m] = IF r = active /\ m = N THEN changed ELSE attempts[r][m]
    BY <1>2, SetAttempt
  <2>2. r = active /\ m = N => Now.build = "ok"
    BY DEF Now
  <2> QED BY <1>2, <2>1, <2>2
<1>3. CASE active = 0 /\ total < MaxAttempts
           /\ \E stage \in Stages : \E d \in Inputs(stage) : DispatchRun(d)
  <2>1. attempts' = Append(attempts, <<NewAttempt>>)
    BY <1>3 DEF DispatchRun
  <2>2. attempts'[r] = attempts[r]
    BY <1>0, <2>1
  <2> QED BY <2>2
<1>4. CASE \E q \in 1 .. MaxAttempts : RerunAll(q) \/ RerunFailed(q)
  <2>1. PICK q \in 1 .. MaxAttempts : RerunAll(q) \/ RerunFailed(q)
    BY <1>4
  <2>2. PICK new : attempts' = [attempts EXCEPT ![q] = Append(@, new)]
    BY <2>1 DEF RerunAll, RerunFailed
  <2>3. q \in 1 .. Len(attempts)
    BY <1>0, <2>1 DEF RerunAll, RerunFailed, CanRerun
  <2>4. attempts'[r] = IF r = q THEN Append(attempts[r], new) ELSE attempts[r]
    BY <1>0, <2>2, <2>3
  <2>5. Append(attempts[r], new)[m] = attempts[r][m]
    BY <1>0
  <2> QED BY <2>4, <2>5
<1>5. ASSUME active # 0 PROVE job.phase = "build" => Now.build # "ok"
  <2>1. active \in 1 .. Len(runs) /\ N \in 1 .. Len(attempts[active]) /\ N <= N
    BY <1>5, Current
  <2> QED BY <2>1 DEF BuildInv, Now
<1>6. CASE StepFails \/ SettleTimeout \/ (Fail /\ active # 0)
  <2>1. active # 0 /\ Fail
    BY <1>6 DEF StepFails, SettleTimeout, TInv, JobType
  <2>2. PICK changed \in Attempt :
          /\ Set(changed)
          /\ \/ job.phase = "resolve" /\ changed = [Now EXCEPT !.resolve = "error"]
             \/ job.phase = "build" /\ changed = [Now EXCEPT !.build = "failed"]
             \/ /\ job.phase \notin {"resolve", "build"}
                /\ changed = [Now EXCEPT !.store = "failure",
                                        !.gate = job.phase \in {"prepare", "persist"}]
    BY <2>1, FailedAttempt
  <2>3. changed.build = Now.build \/ job.phase = "build"
    BY <2>1, <2>2, Current DEF Attempt
  <2> QED BY <1>2, <1>5, <2>1, <2>2, <2>3
<1>7. ASSUME active # 0,
             \/ JobLost \/ RunResolveJob \/ Build \/ RunStoreJob \/ Package
      PROVE attempts'[r][m].build = "ok"
  <2>1. Now \in Attempt /\ Me \in Authority
    BY <1>7, Current
  <2>2. ASSUME NEW v \in {"error", "complete", "resume", "fresh"}, Set([Now EXCEPT !.resolve = v])
        PROVE attempts'[r][m].build = "ok"
    <3>1. [Now EXCEPT !.resolve = v] \in Attempt /\ [Now EXCEPT !.resolve = v].build = Now.build
      BY <2>1 DEF Attempt
    <3> QED BY <1>2, <1>7, <2>2, <3>1
  <2>3. ASSUME NEW v \in {"failure", "success"}, Set([Now EXCEPT !.store = v])
        PROVE attempts'[r][m].build = "ok"
    <3>1. [Now EXCEPT !.store = v] \in Attempt /\ [Now EXCEPT !.store = v].build = Now.build
      BY <2>1 DEF Attempt
    <3> QED BY <1>2, <1>7, <2>3, <3>1
  <2>4. ASSUME job.phase = "build", Set([Now EXCEPT !.build = "failed"])
        PROVE attempts'[r][m].build = "ok"
    <3>1. [Now EXCEPT !.build = "failed"] \in Attempt
      BY <2>1 DEF Attempt
    <3> QED BY <1>2, <1>5, <1>7, <2>4, <3>1
  <2>5. ASSUME Set([Now EXCEPT !.build = "ok", !.digest = Me])
        PROVE attempts'[r][m].build = "ok"
    <3>1. [Now EXCEPT !.build = "ok", !.digest = Me] \in Attempt
          /\ [Now EXCEPT !.build = "ok", !.digest = Me].build = "ok"
      BY <2>1 DEF Attempt
    <3> QED BY <1>2, <1>7, <2>5, <3>1
  <2>6. CASE JobLost
    BY <2>2, <2>3, <2>4, <2>6 DEF JobLost
  <2>7. CASE RunResolveJob
    BY <2>2, <2>7 DEF RunResolveJob, ResolveJob
  <2>8. CASE Build
    BY <2>4, <2>5, <2>8 DEF Build
  <2>9. CASE RunStoreJob \/ Package
    BY <1>1, <2>3, <2>9 DEF RunStoreJob, Package
  <2> QED BY <1>7, <2>6, <2>7, <2>8, <2>9
<1>8. CASE Prepare \/ Persist \/ Execute \/ Settle \/ Create \/ Patch
  BY <1>1, <1>6, <1>8 DEF Prepare, Persist, Execute, Settle, Create, Patch, TInv, JobType
<1>9. CASE UNCHANGED vars \/ Appears \/ (\E a \in artifacts : Expire(a) \/ Delete(a))
  BY <1>1, <1>9 DEF vars, Appears, Approve, Arrive, Appear, Expire, Delete
<1>10. JobLost \/ RunResolveJob \/ Build \/ RunStoreJob \/ Package => active # 0
  BY DEF JobLost, RunResolveJob, Build, RunStoreJob, Package, TInv, JobType
<1> QED BY <1>3, <1>4, <1>6, <1>7, <1>8, <1>9, <1>10 DEF Next, Appears

\* What HandoffInv says of an intent holds on while no handoff is added to its run.
LEMMA BuiltStays ==
  ASSUME TInv, BuildInv, [Next]_vars, NEW i, Built(i), i.by.run \in 1 .. Len(runs),
         \A x \in artifacts' : \/ \E a \in artifacts : a.run = x.run /\ a.kind = x.kind /\ a.doc = x.doc
                               \/ ~(x.kind = "handoff" /\ x.run = i.by.run)
  PROVE Built(i)'
<1>1. attempts'[i.by.run][i.binary.attempt].build = "ok"
  BY BuildsStay DEF Built
<1>2. i.binary.attempt \in 1 .. Len(attempts'[i.by.run])
  BY Longer DEF Built
<1>3. \A x \in artifacts' : x.kind = "handoff" /\ x.run = i.by.run => x.doc = i.binary
  BY DEF Built
<1> QED BY <1>1, <1>2, <1>3 DEF Built

\* A run that is about to build has no candidate that was built.
LEMMA BuildsFirst ==
  ASSUME TInv, BuildInv, job.phase = "build", NEW i, Built(i) PROVE i.by.run # active
<1>1. active # 0
  BY DEF TInv, JobType
<1>2. N \in 1 .. Len(attempts[active]) /\ active \in 1 .. Len(runs) /\ N \in Nat
      /\ N = Len(attempts[active])
  BY <1>1, Current DEF N
<1>3. Now.resolve = "fresh" /\ Now.digest = None
  BY DEF BuildInv
<1>4. SUFFICES ASSUME i.by.run = active PROVE FALSE
  OBVIOUS
<1>5. i.binary.attempt \in 1 .. Len(attempts[active]) /\ i.binary.attempt <= N
      /\ attempts[active][i.binary.attempt].build = "ok"
  BY <1>2, <1>4 DEF Built
<1> QED BY <1>2, <1>3, <1>5 DEF BuildInv, Now

\* What the draft of a candidate is made from.
LEMMA DraftBuilt ==
  ASSUME TInv, HandoffInv, active # 0, D.stage = "candidate",
         Resolution(active, D, N, Now.digest) = "prepare"
  PROVE Built(Draft)
<1>1. PrepareCandidate(active, D, N, Now.digest)
  BY DEF Resolution
<1>2. /\ Has(active, "handoff") /\ Doc(active, "handoff") = Now.digest
      /\ Now.digest.run = active /\ attempts[active][Now.digest.attempt].build = "ok"
  BY <1>1, UnexpiredIsThere DEF PrepareCandidate, BuildHandoffJob
<1>3. Draft.binary = Now.digest /\ Draft.by.run = active
  BY <1>2 DEF Draft, Me
<1>4. PICK a \in artifacts : a.run = active /\ a.kind = "handoff" /\ a.doc = Now.digest
  BY <1>2, DocIsFound
<1>5. Now.digest.attempt \in 1 .. Len(attempts[active])
  BY <1>4 DEF HandoffInv
<1>6. \A x \in artifacts : x.kind = "handoff" /\ x.run = active => x.doc = Now.digest
  BY <1>4 DEF HandoffInv
<1> QED BY <1>2, <1>3, <1>5, <1>6 DEF Built

LEMMA HandoffNext ==
  ASSUME TInv, BuildInv, NamedInv, HandoffInv, [Next]_vars PROVE HandoffInv'
<1>0. Grows /\ TInv'
  BY EverythingGrows, TInvNext
<1>a. ASSUME NEW i \in persisted, i.stage = "candidate"
      PROVE Built(i) /\ i.by.run \in 1 .. Len(runs)
  BY <1>a DEF HandoffInv, NamedInv
\* The attempts of the artifacts there are.
<1>b. ASSUME NEW a \in artifacts, a.kind = "handoff"
      PROVE a.doc.run = a.run /\ a.doc.attempt \in 1 .. Len(attempts'[a.run])
  <2>1. a.run \in 1 .. Len(runs) /\ a.doc.attempt \in 1 .. Len(attempts[a.run]) /\ a.doc.run = a.run
    BY <1>b DEF HandoffInv, TInv, DocsType
  <2> QED BY <2>1, Longer
<1>1. ASSUME \A x \in artifacts' : \/ \E a \in artifacts : a.run = x.run /\ a.kind = x.kind /\ a.doc = x.doc
                                   \/ x.kind # "handoff"
      PROVE /\ \A a, b \in artifacts' : a.kind = "handoff" /\ b.kind = "handoff" /\ a.run = b.run
                 => a.doc = b.doc
            /\ \A a \in artifacts' : a.kind = "handoff" =>
                 a.doc.run = a.run /\ a.doc.attempt \in 1 .. Len(attempts'[a.run])
            /\ \A i : Built(i) /\ i.by.run \in 1 .. Len(runs) => Built(i)'
  <2>1. \A a, b \in artifacts' : a.kind = "handoff" /\ b.kind = "handoff" /\ a.run = b.run
          => a.doc = b.doc
    BY <1>1 DEF HandoffInv
  <2>2. \A a \in artifacts' : a.kind = "handoff" =>
          a.doc.run = a.run /\ a.doc.attempt \in 1 .. Len(attempts'[a.run])
    BY <1>1, <1>b
  <2>3. \A i : Built(i) /\ i.by.run \in 1 .. Len(runs) => Built(i)'
    BY <1>1, BuiltStays
  <2> QED BY <2>1, <2>2, <2>3
<1>2. ASSUME UNCHANGED persisted, job'.phase \notin Preparing,
             \A x \in artifacts' : \/ \E a \in artifacts : a.run = x.run /\ a.kind = x.kind /\ a.doc = x.doc
                                   \/ x.kind # "handoff"
      PROVE HandoffInv'
  <2>1. \A i \in persisted' : i.stage = "candidate" => Built(i)'
    BY <1>1, <1>2, <1>a
  <2> QED BY <1>1, <1>2, <2>1 DEF HandoffInv
<1>3. CASE Quiet
  <2>1. CASE UNCHANGED <<job, active, attempts, runs>>
    <3>1. D' = D
      BY <2>1 DEF D
    <3>2. \A i \in persisted' : i.stage = "candidate" => Built(i)'
      BY <1>1, <1>3, <1>a DEF Quiet
    <3>3. ASSUME job.phase \in Preparing, D.stage = "candidate", NEW i, i = job.intent PROVE Built(i)'
      <4>1. Built(i) /\ i.by.run = active /\ active \in 1 .. Len(runs)
        BY <3>3, Current DEF HandoffInv, NamedInv, Me, TInv, JobType, Preparing
      <4> QED BY <1>1, <1>3, <4>1 DEF Quiet
    <3>4. job.phase \in Preparing /\ D.stage = "candidate" => Built(job.intent)'
      BY <2>1, <3>3 DEF Built
    <3> QED BY <1>1, <1>3, <2>1, <3>1, <3>2, <3>4 DEF HandoffInv, Quiet
  <2>2. CASE job'.phase \in {"idle", "resolve", "build", "store"}
    BY <1>2, <1>3, <2>2 DEF Quiet, Preparing
  <2> QED BY <1>3, <2>1, <2>2 DEF Quiet
<1>4. CASE Build
  <2>1. active # 0 /\ job.phase = "build" /\ UNCHANGED <<runs, persisted>>
        /\ job'.phase \notin Preparing
    BY <1>4, BuildCases DEF Preparing
  <2>2. CASE UNCHANGED artifacts
    BY <1>2, <2>1, <2>2
  <2>3. CASE ~Has(active, "handoff") /\ Uploaded(active, "handoff", Me)
    <3>1. \A x \in artifacts' : x \in artifacts \/ (x.run = active /\ x.kind = "handoff" /\ x.doc = Me)
      BY <2>3, AfterUpload
    <3>2. \A a \in artifacts : ~(a.run = active /\ a.kind = "handoff")
      BY <2>3 DEF Has, Found
    <3>3. \A a, b \in artifacts' : a.kind = "handoff" /\ b.kind = "handoff" /\ a.run = b.run
            => a.doc = b.doc
      BY <3>1, <3>2 DEF HandoffInv
    <3>4. Me.run = active /\ Me.attempt \in 1 .. Len(attempts'[active])
      BY <1>4, <2>1, Current, RunsKeepLength DEF Me
    <3>5. \A a \in artifacts' : a.kind = "handoff" =>
            a.doc.run = a.run /\ a.doc.attempt \in 1 .. Len(attempts'[a.run])
      BY <1>b, <3>1, <3>4
    <3>6. ASSUME NEW i \in persisted, i.stage = "candidate" PROVE Built(i)'
      <4>1. Built(i) /\ i.by.run \in 1 .. Len(runs) /\ i.by.run # active
        BY <1>a, <2>1, <3>6, BuildsFirst
      <4> QED BY <3>1, <4>1, BuiltStays
    <3> QED BY <2>1, <3>3, <3>5, <3>6 DEF HandoffInv
  <2> QED BY <1>4, <2>2, <2>3, BuildCases
<1>5. CASE RunStoreJob
  <2>1. active # 0 /\ UNCHANGED <<runs, artifacts, persisted>>
    BY <1>5, StoreJobCases
  <2>2. CASE job'.phase \in {"idle", "execute"}
    BY <1>2, <2>1, <2>2 DEF Preparing
  <2>3. CASE /\ Resolution(active, D, N, Now.digest) = "prepare"
             /\ job'.phase = "prepare" /\ job'.intent = Draft /\ UNCHANGED <<active, attempts>>
    <3>1. D' = D
      BY <2>1, <2>3 DEF D
    <3>2. D.stage = "candidate" => Built(Draft)
      BY <2>1, <2>3, DraftBuilt
    <3>3. Built(Draft) => Built(job.intent)'
      BY <2>1, <2>3 DEF Built
    <3>4. \A i \in persisted' : i.stage = "candidate" => Built(i)'
      BY <1>1, <2>1, <1>a
    <3> QED BY <1>1, <2>1, <3>1, <3>2, <3>3, <3>4 DEF HandoffInv
  <2> QED BY <1>5, <2>2, <2>3, StoreJobCases
<1>6. CASE Prepare
  <2>1. active # 0 /\ UNCHANGED <<runs, artifacts, persisted>> /\ job.phase = "prepare"
    BY <1>6, PrepareCases
  <2>2. CASE job'.phase = "idle"
    BY <1>2, <2>1, <2>2 DEF Preparing
  <2>3. CASE /\ UNCHANGED <<active, attempts>> /\ job'.phase = "persist"
             /\ job'.intent.by = job.intent.by /\ job'.intent.binary = job.intent.binary
    <3>1. D' = D
      BY <2>1, <2>3 DEF D
    <3>2. Built(job.intent) => Built(job.intent)'
      BY <2>1, <2>3 DEF Built
    <3>3. D.stage = "candidate" => Built(job.intent)
      BY <2>1 DEF HandoffInv, Preparing
    <3>4. \A i \in persisted' : i.stage = "candidate" => Built(i)'
      BY <1>1, <2>1, <1>a
    <3> QED BY <1>1, <2>1, <3>1, <3>2, <3>3, <3>4 DEF HandoffInv
  <2> QED BY <1>6, <2>2, <2>3, PrepareCases
<1>7. CASE Persist
  <2>1. active # 0 /\ job.phase = "persist" /\ job'.phase \in {"idle", "execute"}
        /\ persisted' \subseteq persisted \cup {job.intent}
    BY <1>7, PersistCases
  <2>2. \A x \in artifacts' : x \in artifacts \/ x.kind # "handoff"
    BY <1>7, PersistCases, AfterUpload
  <2>3. job.intent.stage = D.stage /\ job.intent.by.run = active /\ active \in 1 .. Len(runs)
    BY <2>1, Current DEF NamedInv, Preparing, Me
  <2>4. ASSUME NEW i, i = job.intent, i.stage = "candidate" PROVE Built(i)'
    <3>1. Built(i) /\ i.by.run \in 1 .. Len(runs)
      BY <2>1, <2>3, <2>4 DEF HandoffInv, Preparing
    <3> QED BY <1>1, <2>2, <3>1
  <2>5. ASSUME NEW i \in persisted, i.stage = "candidate" PROVE Built(i)'
    BY <1>1, <1>a, <2>2, <2>5
  <2>6. \A i \in persisted' : i.stage = "candidate" => Built(i)'
    BY <2>1, <2>4, <2>5
  <2> QED BY <1>1, <2>1, <2>2, <2>6 DEF HandoffInv, Preparing
<1>8. CASE Execute
  <2>1. UNCHANGED <<artifacts, persisted>> /\ job'.phase \notin Preparing
    BY <1>8, ExecuteCases DEF Preparing, Stop, Idle
  <2> QED BY <1>2, <2>1
<1>9. CASE Settle \/ Create \/ Patch
  BY <1>2, <1>9, SettleCases DEF Preparing
<1>10. CASE Package
  <2>1. \A x \in artifacts' : x \in artifacts \/ x.kind # "handoff"
    BY <1>10, PackageCases, AfterUpload
  <2> QED BY <1>2, <1>10, <2>1, PackageCases DEF Preparing
<1> QED BY <1>3, <1>4, <1>5, <1>6, <1>7, <1>8, <1>9, <1>10, OtherStepsAreQuiet

(***************************************************************************)
(* The Store keeps what was sent.                                          *)
(***************************************************************************)
\* What the Stores do on their own, in the fields that name uploads.
LEMMA UploadsMove ==
  ASSUME TInv, Appears \/ Create \/ Patch
  PROVE /\ store'.uploads = store.uploads /\ store'.arriving \subseteq store.arriving
        /\ \/ store'.build = store.build /\ store'.uploaded = store.uploaded
           \/ \E u \in store.arriving : store'.build = u.binary /\ store'.uploaded = u.at
<1>0. DOMAIN store = {"build", "uploaded", "uploads", "arriving", "pending", "created", "patched", "approved"}
  BY DEF TInv, StoreType
<1>1. CASE Approve
  <2>1. store' = [store EXCEPT !.approved = TRUE]
    BY <1>1 DEF Approve
  <2> QED BY <1>0, <2>1
<1>2. CASE \E u \in store.arriving : Arrive(u)
  <2>1. PICK u \in store.arriving : Arrive(u)
    BY <1>2
  <2>2. CASE store.build = None
    <3>1. store' = [store EXCEPT !.arriving = @ \ {u}, !.build = u.binary, !.uploaded = u.at]
      BY <2>1, <2>2 DEF Arrive
    <3> QED BY <1>0, <2>1, <3>1
  <2>3. CASE store.build # None
    <3>1. store' = [store EXCEPT !.arriving = @ \ {u}]
      BY <2>1, <2>3 DEF Arrive
    <3> QED BY <1>0, <3>1
  <2> QED BY <2>2, <2>3
<1>3. CASE \E stage \in store.pending : Appear(stage)
  BY <1>0, <1>3 DEF Appear
<1>4. CASE Create \/ Patch
  BY <1>0, <1>4 DEF Create, Patch
<1> QED BY <1>1, <1>2, <1>3, <1>4 DEF Appears

\* Google Play keeps what was sent.
LEMMA PlayHolds ==
  ASSUME TInv, DocsInv, SendsInv, HeldInv, [Next]_vars, platform = "android",
         NEW s, s \in sends'
  PROVE Target(s.intent)' /\ store'.build = s.intent.binary
<1>0. Holds
  BY StoreGrows
<1>1. CASE s \in sends
  <2>1. s.intent.binary \in Authority
    BY <1>1 DEF SendsInv, TInv, DocsType, IntentType
  <2>2. store.build = s.intent.binary /\ s.intent.binary # None /\ Target(s.intent)
    BY <1>1, <2>1, NoneIsNoDocument DEF HeldInv
  <2>3. Target(s.intent)'
    BY <2>2, TargetStays
  <2> QED BY <1>0, <2>2, <2>3 DEF Holds
<1>2. CASE s \notin sends
  <2> DEFINE i == job.intent
  <2>1. ~UNCHANGED sends
    BY <1>2
  <2>2. PICK kind \in {"create", "patch"} : Sent(i, kind)
    BY <2>1, SendStep
  <2>3. s.intent = i
    BY <1>2, <2>2 DEF Sent
  <2>4. ~Create /\ ~Patch
    BY DEF Create, Patch, Promoting
  <2>5. Execute /\ MaySend(i, Me, D) /\ IntentType(i)
    BY <2>1, <2>4, SendStep
  <2>6. Send(i)
    BY <2>1, <2>5, ExecuteWays
  <2>7. i.binary # None /\ DOMAIN store = {"build", "uploaded", "uploads", "arriving", "pending", "created",
                                           "patched", "approved"}
    BY <2>5, NoneIsNoDocument DEF IntentType, TInv, StoreType
  <2>8. CASE i.stage = "candidate"
    <3>1. store' = [store EXCEPT !.build = i.binary]
      BY <2>6, <2>8, SendCases
    <3>2. store'.build = i.binary
      BY <2>7, <3>1
    <3> QED BY <2>3, <2>7, <2>8, <3>2 DEF Target
  <2>9. CASE i.stage # "candidate"
    <3>1. store' = [store EXCEPT !.created = store.created \cup {i.stage},
                                 !.patched = store.patched \cup {i.stage}]
      BY <2>6, <2>9, SendCases
    <3>2. store'.build = store.build /\ i.stage \in store'.created /\ i.stage \in store'.patched
      BY <2>7, <3>1
    <3>3. store.build = i.binary
      BY <2>5, <2>9 DEF MaySend, SameBuild
    <3> QED BY <2>3, <2>9, <3>2, <3>3 DEF Target, Final
  <2> QED BY <2>8, <2>9
<1> QED BY <1>1, <1>2

LEMMA HeldNext ==
  ASSUME TInv, DocsInv, SendsInv, HeldInv, [Next]_vars PROVE HeldInv'
<1>0. sends \subseteq sends' /\ UNCHANGED platform
  BY EverythingGrows DEF Grows
<1>1. /\ store.uploads \in Nat /\ store'.uploads \in Nat /\ store.uploads <= store'.uploads
      /\ DOMAIN store = {"build", "uploaded", "uploads", "arriving", "pending", "created", "patched",
                         "approved"}
  <2>1. StoreType'
    BY TInvNext DEF TInv
  <2> QED BY <2>1, StoreGrows DEF Holds, TInv, StoreType
<1> DEFINE Kept(binary, at) ==
             \E s \in sends' : /\ s.intent.stage = "candidate" /\ s.intent.binary = binary
                               /\ s.intent.seen.uploads < at
<1>2. \A b, n : Carried(b, n) => Kept(b, n)
  BY <1>0 DEF Carried
<1>3. platform = "android" => \A s : s \in sends' => Target(s.intent)' /\ store'.build = s.intent.binary
  BY PlayHolds
<1>4. ASSUME NEW i, IntentType(i), i.seen.uploads <= store.uploads PROVE i.seen.uploads <= store'.uploads
  <2>1. i.seen.uploads \in Nat
    BY <1>4 DEF IntentType
  <2> QED BY <1>1, <1>4, <2>1
<1>5. \A i \in persisted' : i.seen.uploads <= store'.uploads
  <2>1. \A i \in persisted : i.seen.uploads <= store'.uploads
    BY <1>4 DEF HeldInv, TInv, DocsType
  <2>2. CASE Persist
    <3>1. IntentType(job.intent) /\ job.intent.seen.uploads <= store.uploads
          /\ persisted' \subseteq persisted \cup {job.intent}
      BY <2>2, PersistCases DEF HeldInv
    <3>2. job.intent.seen.uploads <= store'.uploads
      BY <1>4, <3>1
    <3> QED BY <2>1, <3>1, <3>2
  <2>3. CASE Build \/ RunStoreJob \/ Prepare \/ Execute \/ Settle \/ Create \/ Patch \/ Package
    <3>1. UNCHANGED persisted
      BY <2>3, BuildCases, StoreJobCases, PrepareCases, ExecuteCases, SettleCases, PackageCases
    <3> QED BY <2>1, <3>1
  <2>4. CASE Quiet
    BY <2>1, <2>4 DEF Quiet
  <2> QED BY <2>2, <2>3, <2>4, OtherStepsAreQuiet
<1>6. job'.phase = "persist" => job'.intent.seen.uploads <= store'.uploads
  <2>1. CASE Prepare
    BY <1>1, <2>1, PrepareCases
  <2>2. CASE Quiet
    BY <2>2 DEF Quiet, HeldInv
  <2>3. CASE Build \/ RunStoreJob \/ Persist
    BY <2>3, BuildCases, StoreJobCases, PersistCases
  <2>4. CASE Execute \/ Settle \/ Create \/ Patch \/ Package
    BY <2>4, ExecuteCases, SettleCases, PackageCases DEF Stop, Idle
  <2> QED BY <2>1, <2>2, <2>3, <2>4, OtherStepsAreQuiet
<1>7. ASSUME platform = "ios"
      PROVE /\ \A u \in store'.arriving : Kept(u.binary, u.at)
            /\ store'.build # None => Kept(store'.build, store'.uploaded)
  <2>0. /\ \A u \in store.arriving : Kept(u.binary, u.at)
        /\ store.build # None => Kept(store.build, store.uploaded)
    BY <1>2, <1>7 DEF HeldInv
  <2> HIDE DEF Kept
  <2>1. CASE UNCHANGED store
    BY <2>0, <2>1
  <2>2. CASE Appears \/ Create \/ Patch
    <3>1. \A u \in store'.arriving : Kept(u.binary, u.at)
      BY <2>0, <2>2, UploadsMove
    <3>2. CASE store'.build = store.build /\ store'.uploaded = store.uploaded
      BY <2>0, <3>1, <3>2
    <3>3. CASE \E u \in store.arriving : store'.build = u.binary /\ store'.uploaded = u.at
      BY <2>0, <3>1, <3>3
    <3> QED BY <2>2, <3>2, <3>3, UploadsMove
  <2>3. CASE Execute /\ ~UNCHANGED store
    <3> DEFINE i == job.intent
               u == [binary |-> i.binary, at |-> store.uploads + 1]
    <3>1. Send(i) /\ Sent(i, "create") /\ job.phase = "execute" /\ IntentType(i)
      BY <2>3, ExecuteCases
    <3>2. i.seen.uploads <= store.uploads /\ i.seen.uploads \in Nat
      BY <3>1 DEF HeldInv, DocsInv, IntentType
    <3>3. CASE i.stage # "candidate"
      <4>1. store' = [store EXCEPT !.created = store.created \cup {i.stage},
                                   !.patched = store.patched \cup {i.stage}]
        BY <3>1, <3>3, SendCases
      <4>2. store'.arriving = store.arriving /\ store'.build = store.build
            /\ store'.uploaded = store.uploaded
        BY <1>1, <4>1
      <4> QED BY <2>0, <4>2
    <3>4. CASE i.stage = "candidate"
      <4>1. store' = [store EXCEPT !.uploads = store.uploads + 1,
                                   !.arriving = store.arriving \cup {u}]
        BY <1>7, <3>1, <3>4, SendCases
      <4> DEFINE new == [intent |-> i, by |-> Me, kind |-> "create"]
      <4>2. new \in sends' /\ new.intent = i /\ u.binary = i.binary /\ u.at = store.uploads + 1
        BY <3>1 DEF Sent
      <4> HIDE DEF new, u
      <4>3. store'.arriving = store.arriving \cup {u} /\ store'.build = store.build
            /\ store'.uploaded = store.uploaded
        BY <1>1, <4>1
      <4>4. i.seen.uploads < u.at
        BY <1>1, <3>2, <4>2
      <4>5. Kept(u.binary, u.at)
        BY <3>4, <4>2, <4>4 DEF Kept
      <4> QED BY <2>0, <4>3, <4>5
    <3> QED BY <3>3, <3>4
  <2> QED BY <2>1, <2>2, <2>3, StoreGrows
<1> QED BY <1>0, <1>3, <1>5, <1>6, <1>7 DEF HeldInv, Carried

(***************************************************************************)
(* A new recovery run continues what was sent, and can finish it.          *)
(***************************************************************************)
\* An intent whose original is the only one of its run verifies again.
LEMMA SoundVerifies ==
  ASSUME AloneInv, NEW i, Sound(i), Standalone(i) PROVE VerifiedIntent(i)
<1>1. ASSUME NEW f \in issued, SoundFinal(f) PROVE BoundFinal(f)
  <2>1. Standalone(f.intent)
    BY DEF AloneInv, Alone, Standalone, Found
  <2> QED BY <1>1, <2>1 DEF SoundFinal, BoundFinal, BoundIntent
<1>2. Chain(i)
  BY <1>1 DEF Sound, Chain
<1> QED BY <1>2 DEF Sound, VerifiedIntent, BoundIntent

LEMMA NewRunRecovers ==
  ASSUME Documents, OwnDocs, Recoverable PROVE SentIsRecoverable
<1> DEFINE d(i) == [stage |-> i.stage, head |-> i.source, recovery |-> i.by.run,
                    cand |-> 0, ext |-> 0, grant |-> "none"]
           r == Len(runs) + 1
           me == [run |-> r, attempt |-> 1]
<1>1. SUFFICES ASSUME NEW s \in sends, NEW i, i = s.intent,
                      Unexpired(i.by.run, "intent"), Doc(i.by.run, "intent") = i,
                      ~Has(i.by.run, "evidence"),
                      i.stage = "candidate" => Unexpired(i.by.run, "handoff"), ~Overtaken(i)
               PROVE /\ Resume(r, d(i), 1)
                     /\ \E g \in Grants :
                          LET dg == [d(i) EXCEPT !.grant = g] IN
                            /\ Guarded(i, me, dg)
                            /\ MayAdopt(i, me, dg) \/ MaySend(i, me, dg) \/ MayWrite(i, me, dg)
  BY DEF SentIsRecoverable
<1> DEFINE dd == d(i)
<1>2. TInv /\ SoundInv /\ NamedInv /\ AloneInv /\ HandoffInv /\ HeldInv
  BY DEF Documents, Recoverable
<1>3. i \in persisted /\ IntentType(i) /\ i.by.run \in 1 .. Len(runs) /\ Len(runs) \in Nat
  BY <1>1, <1>2 DEF Documents, SendsInv, TInv, DocsType, RunsType, NamedInv
<1>4. i.by.run # r /\ i.by.run # 0 /\ r \in Nat /\ me.run = r /\ me.attempt = 1
  BY <1>3
<1>5. \A a \in artifacts : a.run # r
  BY <1>2, <1>3 DEF TInv, DocsType
<1>6. VerifiedIntent(i)
  <2>1. PICK a \in artifacts : a.run = i.by.run /\ a.kind = "intent" /\ a.doc = i
    BY <1>1, UnexpiredIsThere, DocIsFound
  <2>2. Standalone(i)
    BY <2>1 DEF Standalone, Found, OwnDocs
  <2> QED BY <1>2, <1>3, <2>2, SoundVerifies DEF SoundInv
<1>7. /\ dd.stage = i.stage /\ dd.recovery = i.by.run /\ dd.cand = 0 /\ dd.ext = 0
      /\ dd.grant = "none"
  OBVIOUS
<1>8. i.stage = "candidate" => Unexpired(i.by.run, "handoff") /\ Doc(i.by.run, "handoff") = i.binary
  BY <1>1, <1>2, <1>3, UnexpiredIsThere, DocIsFound DEF HandoffInv, Built
<1>9. ASSUME NEW e, e.recovery = i.by.run PROVE Guarded(i, me, e)
  BY <1>1, <1>4, <1>6, <1>9 DEF Guarded, Authenticated, ValidContext
<1>10. Resume(r, dd, 1)
  <2> HIDE DEF dd, r, me
  <2>1. Original(r, dd) = i.by.run
    BY <1>4, <1>7 DEF Original
  <2>2. Finals(r, dd) = {}
    BY <1>1, <1>4, <1>5, <1>7 DEF Finals, Lookups, Has, Found
  <2>3. NoReplacement(r, dd)
    BY <1>5 DEF NoReplacement, Unexpired, Found
  <2>4. RecoveryContext(r, dd, 1, i) /\ Hints(dd, i)
    BY <1>4, <1>7 DEF RecoveryContext, Hints
  <2> QED BY <1>1, <1>6, <1>7, <1>8, <2>1, <2>2, <2>3, <2>4 DEF Resume
<1>11. ASSUME NEW g \in Grants
       PROVE [dd EXCEPT !.grant = g].recovery = i.by.run /\ [dd EXCEPT !.grant = g].grant = g
  OBVIOUS
<1>12. Prior(i, me)
  BY <1>4 DEF Prior
<1>13. \E g \in Grants : \/ MayAdopt(i, me, [dd EXCEPT !.grant = g])
                         \/ MaySend(i, me, [dd EXCEPT !.grant = g])
                         \/ MayWrite(i, me, [dd EXCEPT !.grant = g])
  <2> HIDE DEF dd, r, me
  <2>1. platform \in {"android", "ios"} /\ {"none", "recover", "retry"} = Grants
    BY <1>2 DEF TInv, StoreType, Grants
  <2>2. CASE platform = "android"
    <3>1. Target(i) /\ SameBuild(i) /\ InWindow(i)
      BY <1>1, <1>2, <2>2 DEF HeldInv, SameBuild, InWindow
    <3>2. MayAdopt(i, me, [dd EXCEPT !.grant = "none"])
      BY <1>12, <2>2, <3>1 DEF MayAdopt
    <3> QED BY <2>1, <3>2
  <2>3. CASE platform = "ios" /\ i.stage = "candidate" /\ Target(i)
    <3>1. PICK c \in sends : /\ c.intent.stage = "candidate" /\ c.intent.binary = store.build
                             /\ c.intent.seen.uploads < store.uploaded
      BY <1>2, <2>3 DEF HeldInv, Carried, Target
    <3>2. c.intent = i
      BY <1>1, <2>3, <3>1 DEF Overtaken, Target
    <3>3. InWindow(i)
      <4>1. i.seen.uploads \in Nat /\ store.uploaded \in Nat
        BY <1>2, <1>3 DEF IntentType, TInv, StoreType
      <4> QED BY <3>1, <3>2, <4>1 DEF InWindow
    <3>4. MayAdopt(i, me, [dd EXCEPT !.grant = "recover"])
      BY <1>4, <1>11, <2>1, <2>3, <3>3 DEF MayAdopt, SameBuild
    <3> QED BY <2>1, <3>4
  <2>4. CASE platform = "ios" /\ i.stage = "candidate" /\ ~Target(i)
    <3>1. MaySend(i, me, [dd EXCEPT !.grant = "retry"])
      BY <1>4, <1>11, <2>1, <2>4 DEF MaySend, FreshGrant, Promoting
    <3> QED BY <2>1, <3>1
  <2>5. CASE platform = "ios" /\ i.stage # "candidate" /\ Target(i)
    <3>1. MayAdopt(i, me, [dd EXCEPT !.grant = "none"])
      BY <1>12, <2>5 DEF MayAdopt, SameBuild, InWindow
    <3> QED BY <2>1, <3>1
  <2>6. CASE platform = "ios" /\ i.stage # "candidate" /\ ~Target(i)
    <3>1. MayWrite(i, me, [dd EXCEPT !.grant = "retry"])
      BY <1>4, <1>11, <1>12, <2>1, <2>6 DEF MayWrite, FreshGrant, Promoting
    <3> QED BY <2>1, <3>1
  <2> QED BY <2>1, <2>2, <2>3, <2>4, <2>5, <2>6
<1> QED BY <1>9, <1>10, <1>11, <1>13

\* An operation that was sent and whose documents survive can be continued by a
\* new recovery run, and finished by it with the right grant; on iOS the window
\* of upload dates never refuses the binary the operation itself sent.
THEOREM SentComesBack == Spec => []SentIsRecoverable
<1>1. Init => OneIntent /\ BuildInv /\ Recoverable
  <2>1. ASSUME Init PROVE OneIntent /\ BuildInv
    BY <2>1 DEF Init, OneIntent, OwnDocs, OwnGates, OwnJob, RunExecutesOneIntent, Idle,
                BuildInv, BuiltOnce
  <2>2. ASSUME Init PROVE Recoverable
    BY <2>2 DEF Init, Recoverable, SoundInv, NamedInv, AloneInv, HandoffInv, HeldInv, Idle,
                Working, Doing, Preparing, Before
  <2> QED BY <2>1, <2>2
<1>2. Documents /\ OneIntent /\ BuildInv /\ Recoverable /\ [Next]_vars
        => OneIntent' /\ BuildInv' /\ Recoverable'
  <2>1. SUFFICES ASSUME Documents, OneIntent, BuildInv, Recoverable, [Next]_vars
                 PROVE OneIntent' /\ BuildInv' /\ Recoverable'
    OBVIOUS
  <2>2. TInv /\ DocsInv /\ ArmedInv /\ SendsInv /\ StoreInv /\ OwnDocs
    BY <2>1 DEF Documents, OneIntent
  <2>3. OneIntent' /\ BuildInv'
    BY <2>1, <2>2, OneIntentNext, BuildNext
  <2>4. SoundInv' /\ NamedInv' /\ AloneInv'
    BY <2>1, <2>2, SoundNext, NamedNext, AloneNext DEF Recoverable
  <2>5. HandoffInv' /\ HeldInv'
    BY <2>1, <2>2, HandoffNext, HeldNext DEF Recoverable
  <2> QED BY <2>3, <2>4, <2>5 DEF Recoverable
<1>3. Documents /\ OneIntent /\ Recoverable => SentIsRecoverable
  BY NewRunRecovers DEF OneIntent
<1> QED BY <1>1, <1>2, <1>3, AlwaysDocuments, PTL DEF Spec
=============================================================================
