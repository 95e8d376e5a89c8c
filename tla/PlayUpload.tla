------------------------------ MODULE PlayUpload ------------------------------
(***************************************************************************)
(* The Google Play lanes (fastlane/Fastfile) and the guarded uploader they *)
(* drive (fastlane/play_store.rb): one authenticated intent is executed by *)
(* as many invocations as it takes, on the same runner or on later ones.   *)
(*                                                                         *)
(* A track state is what the code compares it with: the state the intent   *)
(* recorded (before), the state it authorizes (target), or anything else;  *)
(* the source track and the metadata of a promotion are part of it.        *)
(*                                                                         *)
(* Google Play is external.  It is modelled by what the code relies on: an *)
(* edit collects changes and is committed whole; a commit makes every      *)
(* other open edit stale, and requests on a stale edit fail; an uploaded   *)
(* bundle may become visible before its edit is committed.  The response   *)
(* of any request can be lost, and a commit whose response was lost can    *)
(* still take effect later.                                                *)
(***************************************************************************)
EXTENDS Naturals

CONSTANTS
  MaxFaults,   \* bound: deaths, interrupts, lost responses
  MaxForeign   \* bound: changes of the Store by somebody else

ASSUME BoundAssumption == MaxFaults \in Nat /\ MaxForeign \in Nat

VARIABLES
  stage, bound,    \* the intent (present: the promoted release was there already),
                   \* and whether a mapping is bound to it
  track, bundle, mapping,   \* the Store's committed state
  inflight,        \* unanswered commits that may still take effect, as sets of changes
  edit, draft,     \* the invocation's edit and the changes in it
  evidence,        \* the journal holds a dispatch row
  receipt,         \* the lane's receipt
  run,             \* the authorized run and attempt, or a later one
  pc, outcome,     \* the running invocation
  sent, began, adopted, guessed, releases,   \* observers, read by no action
  faults, foreign  \* bound counters

store  == <<track, bundle, mapping, inflight>>
lane   == <<pc, outcome>>
ghost  == <<sent, began, adopted, guessed, releases>>
vars   == <<stage, bound, store, edit, draft, evidence, receipt, run, lane,
            ghost, faults, foreign>>

TrackStates == {"before", "target", "other"}
Stages == {"candidate", "promotion", "present"}
Changes == {"bundle", "mapping", "track"}
PCs == {"idle", "classify", "construct", "guard", "validate", "recheck", "send",
        "dispatch", "sendMapping", "update", "verify", "commit", "ambiguous",
        "readback", "replay", "replayGuard", "replayMapping", "replayCommit",
        "replayRead", "final", "receipt"}

StoreType ==
  /\ track \in TrackStates /\ bundle \in {"absent", "same", "different"}
  /\ mapping \in {"absent", "ours"} /\ inflight \subseteq SUBSET Changes
  /\ edit \in {"none", "open", "stale"} /\ draft \subseteq Changes
  /\ releases \in 0 .. 2 /\ faults \in 0 .. MaxFaults /\ foreign \in 0 .. MaxForeign

LaneType ==
  /\ stage \in Stages /\ bound \in {"no", "yes"}
  /\ evidence \in {"none", "dispatched"}
  /\ receipt \in {"none", "accepted", "reconciled", "already"}
  /\ run \in {"first", "later"}
  /\ pc \in PCs /\ outcome \in {"none", "mutated", "reconciled", "already"}
  /\ sent \in {"no", "yes"} /\ began \in {"none", "dispatched"}
  /\ adopted \in {"no", "yes"} /\ guessed \in {"no", "yes"}

TypeOK == StoreType /\ LaneType

\* The intent was prepared when the target was absent, a candidate's bundle too;
\* only an external promotion may record a target that is already there.
Init ==
  /\ stage \in Stages
  /\ bound \in IF stage = "candidate" THEN {"no", "yes"} ELSE {"no"}
  /\ track = "before" /\ mapping = "absent" /\ inflight = {}
  /\ bundle = IF stage = "candidate" THEN "absent" ELSE "same"
  /\ edit = "none" /\ draft = {} /\ evidence = "none" /\ receipt = "none"
  /\ run = "first" /\ pc = "idle" /\ outcome = "none"
  /\ sent = "no" /\ began = "none" /\ adopted = "no" /\ guessed = "no" /\ releases = 0
  /\ faults = 0 /\ foreign = 0

-----------------------------------------------------------------------------
(* What an invocation reads.                                               *)

\* play_prior_execution?: another run or attempt, or a dispatch row.
PriorExecution == run # "first" \/ evidence = "dispatched"

Bundle == IF "bundle" \in draft THEN "same" ELSE bundle
Track  == IF "track" \in draft THEN "target" ELSE track

\* classify_play_state! of the state read in some edit.
IsBefore(t, b) == t = "before" /\ b # "different"
IsTarget(t, b) == t = "target" /\ b = "same"

\* require_play_precondition_in_edit!: the target must not be there, and a
\* candidate's bundle only after a prior execution.
Precondition ==
  /\ edit = "open" /\ IsBefore(Track, Bundle)
  /\ stage = "candidate" /\ Bundle = "same" => PriorExecution

\* require_play_target_in_edit!
TargetInEdit == edit = "open" /\ IsTarget(Track, Bundle)

Goto(l) == pc' = l /\ UNCHANGED outcome

\* The invocation ends; with_owned_operation aborts its edit.
Stop == pc' = "idle" /\ outcome' = "none" /\ edit' = "none" /\ draft' = {}

Same == UNCHANGED <<stage, bound, receipt, run, faults, foreign>>

-----------------------------------------------------------------------------
(* The lane: classify, execute or recover, classify again, write a receipt *)

StartLane ==
  /\ pc = "idle" /\ Goto("classify") /\ began' = evidence /\ guessed' = "no" /\ Same
  /\ UNCHANGED <<store, edit, draft, evidence, sent, adopted, releases>>

\* A fresh edit, read and deleted.  A target that the intent records as present is
\* only observed; a target that appeared since needs a prior execution.
ClassifyNext ==
  IF stage = "present" THEN IF IsBefore(track, bundle) THEN "receipt" ELSE "idle"
  ELSE IF IsBefore(track, bundle) THEN "construct"
  ELSE IF ~IsTarget(track, bundle) \/ ~PriorExecution THEN "idle"
  ELSE IF stage = "promotion" THEN "receipt"
  ELSE IF bound = "yes" THEN "replay" ELSE "final"

Classify ==
  /\ pc = "classify" /\ pc' = ClassifyNext /\ Same
  /\ outcome' = IF ClassifyNext \in {"idle", "construct"} THEN "none"
                ELSE IF stage = "present" THEN "already" ELSE "reconciled"
  /\ UNCHANGED <<store, edit, draft, evidence, ghost>>

\* The lane classifies once more after every mutation and mapping replay.
FinalClassify ==
  /\ pc = "final" /\ Same
  /\ IF IsTarget(track, bundle)
     THEN Goto("receipt") /\ UNCHANGED <<edit, draft>> ELSE Stop
  /\ UNCHANGED <<store, evidence, ghost>>

\* An existing receipt is never overwritten.
WriteReceipt ==
  /\ pc = "receipt" /\ Stop
  /\ receipt' = IF receipt # "none" THEN receipt
                ELSE IF outcome = "mutated" THEN "accepted" ELSE outcome
  /\ UNCHANGED <<stage, bound, run, faults, foreign, store, evidence, ghost>>

-----------------------------------------------------------------------------
(* PreservingSupplyUploader.run: one edit, one upload, one commit.         *)

BeginEdit(at, l) ==
  /\ pc = at /\ Goto(l) /\ edit' = "open" /\ draft' = {} /\ Same
  /\ UNCHANGED <<store, evidence, ghost>>

\* The full observation decides whether a bundle is sent or an exact one reused.
Guard(at, fresh, dispatches) ==
  /\ pc = at /\ Same
  /\ IF ~Precondition THEN Stop /\ UNCHANGED <<evidence, adopted>>
     ELSE IF stage = "candidate" /\ Bundle = "absent"
          THEN /\ Goto(fresh) /\ UNCHANGED <<edit, draft, adopted>>
               /\ evidence' = IF dispatches = "yes" THEN "dispatched" ELSE evidence
     ELSE /\ Goto("dispatch") /\ UNCHANGED <<edit, draft, evidence>>
          /\ adopted' = IF stage = "candidate" THEN "yes" ELSE adopted
  /\ UNCHANGED <<store, sent, began, guessed, releases>>

FirstGuard == Guard("guard", "validate", "no")

\* Mutant: the dispatch row is written before the slow validation.
Validate_DispatchesFirst ==
  /\ pc = "validate" /\ Goto("recheck") /\ evidence' = "dispatched" /\ Same
  /\ UNCHANGED <<store, edit, draft, ghost>>

\* The current artifact is validated again; this may take long.
Validate ==
  /\ pc = "validate" /\ Goto("recheck") /\ Same
  /\ UNCHANGED <<store, edit, draft, evidence, ghost>>

\* Mutant: the bundle is sent before the journal says so.
Recheck_SendsFirst == Guard("recheck", "send", "no")

\* Observed again after validation; the dispatch row precedes the request.
Recheck == Guard("recheck", "send", "yes")

\* A request that adds a change to the open edit.
Send(at, change, l) ==
  /\ pc = at /\ Same /\ sent' = "yes"
  /\ IF edit = "open" /\ (change = "bundle" => bundle = "absent")
     THEN Goto(l) /\ draft' = draft \cup {change} /\ UNCHANGED edit
     ELSE Stop
  /\ UNCHANGED <<track, mapping, inflight, evidence, began, adopted, guessed, releases>>

\* An uploaded bundle may be visible at once or with the commit.
SendBundle ==
  /\ Send("send", "bundle", "dispatch")
  /\ bundle' \in IF edit = "open" /\ bundle = "absent" THEN {"absent", "same"} ELSE {bundle}

Dispatch ==
  /\ pc = "dispatch" /\ evidence' = "dispatched" /\ Same
  /\ Goto(IF bound = "yes" THEN "sendMapping" ELSE "update")
  /\ UNCHANGED <<store, edit, draft, ghost>>

SendMapping == Send("sendMapping", "mapping", "update") /\ UNCHANGED bundle

\* update_track and promote_track: reject an existing target, add the release.
UpdateTrack == Send("update", "track", "verify") /\ UNCHANGED bundle

\* Unrelated releases preserved, complete target in the edit, edit validated.
Verify ==
  /\ pc = "verify" /\ Same
  /\ IF TargetInEdit THEN Goto("commit") /\ UNCHANGED <<edit, draft>> ELSE Stop
  /\ UNCHANGED <<store, evidence, ghost>>

\* The Store applies the changes of an edit; every other edit becomes stale, so an
\* older unanswered commit can no longer take effect.
ApplyChanges(c) ==
  /\ track' = IF "track" \in c THEN "target" ELSE track
  /\ bundle' = IF "bundle" \in c THEN "same" ELSE bundle
  /\ mapping' = IF "mapping" \in c THEN "ours" ELSE mapping
  /\ inflight' = {}
  /\ releases' = IF "track" \in c /\ releases < 2 THEN releases + 1 ELSE releases

\* A commit request that is answered.
CommitAnswered(at, l, result) ==
  /\ pc = at /\ Same /\ sent' = "yes"
  /\ IF edit = "open"
     THEN /\ ApplyChanges(draft) /\ edit' = "none" /\ draft' = {}
          /\ pc' = l /\ outcome' = result
     ELSE Stop /\ UNCHANGED <<store, releases>>
  /\ UNCHANGED <<evidence, began, adopted, guessed>>

\* A commit request without an answer: applied, not applied, or not yet.  The
\* invocation goes on at one of ls: an interrupt or death only at "idle".
CommitUnanswered(at, ls) ==
  /\ pc = at /\ edit = "open" /\ sent' = "yes"
  /\ faults < MaxFaults /\ faults' = faults + 1
  /\ pc' \in ls /\ outcome' = "none" /\ edit' = "none" /\ draft' = {}
  /\ \/ ApplyChanges(draft)
     \/ UNCHANGED <<store, releases>>
     \/ inflight' = inflight \cup {draft} /\ UNCHANGED <<track, bundle, mapping, releases>>
  /\ UNCHANGED <<stage, bound, receipt, run, foreign, evidence, began, adopted, guessed>>

Commit == \/ CommitAnswered("commit", "readback", "mutated")
          \/ CommitUnanswered("commit", {"ambiguous", "idle"})

\* Mutant: an ambiguous commit is sent once more in a new edit.
ReconcileAmbiguous_Resends ==
  /\ pc = "ambiguous" /\ Goto("commit") /\ edit' = "open" /\ Same
  /\ draft' = IF stage = "candidate" THEN {"bundle", "track"} ELSE {"track"}
  /\ UNCHANGED <<store, evidence, ghost>>

\* reconcile_ambiguous_commit!: only a readback, never a second commit.
ReconcileAmbiguous ==
  /\ pc = "ambiguous" /\ Goto("readback") /\ guessed' = "yes" /\ Same
  /\ UNCHANGED <<store, edit, draft, evidence, sent, began, adopted, releases>>

\* verify_committed_state! in a fresh edit, which is aborted afterwards.
Readback ==
  /\ pc = "readback" /\ Same
  /\ IF IsTarget(track, bundle)
     THEN /\ pc' = "final" /\ UNCHANGED <<edit, draft>>
          /\ outcome' = IF outcome = "none" THEN "reconciled" ELSE outcome
     ELSE Stop
  /\ UNCHANGED <<store, evidence, ghost>>

Upload == \/ BeginEdit("construct", "guard") \/ FirstGuard \/ Validate \/ Recheck
          \/ SendBundle \/ Dispatch \/ SendMapping \/ UpdateTrack \/ Verify
          \/ Commit \/ ReconcileAmbiguous \/ Readback

-----------------------------------------------------------------------------
(* replay_mapping: a target that is already there proves nothing about the *)
(* mapping, so its bytes are sent and committed again in a fresh edit.     *)

ReplayGuard ==
  /\ pc = "replayGuard" /\ Same
  /\ IF TargetInEdit
     THEN Goto("replayMapping") /\ evidence' = "dispatched" /\ UNCHANGED <<edit, draft>>
     ELSE Stop /\ UNCHANGED evidence
  /\ UNCHANGED <<store, ghost>>

ReplayMapping ==
  /\ Send("replayMapping", "mapping", "replayCommit") /\ UNCHANGED bundle

\* Mutant: an unanswered mapping commit is taken for done.
ReplayCommit_TrustsSilence ==
  \/ CommitAnswered("replayCommit", "replayRead", "reconciled")
  \/ CommitUnanswered("replayCommit", {"replayRead", "idle"})

\* Unlike the release commit, an unanswered one ends the invocation.
ReplayCommit == \/ CommitAnswered("replayCommit", "replayRead", "reconciled")
                \/ CommitUnanswered("replayCommit", {"idle"})

ReplayRead ==
  /\ pc = "replayRead" /\ Same
  /\ IF IsTarget(track, bundle)
     THEN pc' = "final" /\ outcome' = "reconciled" /\ UNCHANGED <<edit, draft>> ELSE Stop
  /\ UNCHANGED <<store, evidence, ghost>>

Replay == BeginEdit("replay", "replayGuard") \/ ReplayGuard \/ ReplayMapping
            \/ ReplayCommit \/ ReplayRead

-----------------------------------------------------------------------------
(* Faults, later runs and other users of the Store.                        *)

\* An error, an interrupt or the death of the process, before the step it cuts.
Fail ==
  /\ pc # "idle" /\ faults < MaxFaults /\ faults' = faults + 1 /\ Stop
  /\ UNCHANGED <<stage, bound, receipt, run, foreign, store, evidence, ghost>>

\* The bundle arrives and its response does not.
LoseUpload ==
  /\ pc = "send" /\ edit = "open" /\ bundle = "absent"
  /\ faults < MaxFaults /\ faults' = faults + 1 /\ Stop
  /\ bundle' \in {"absent", "same"} /\ sent' = "yes"
  /\ UNCHANGED <<stage, bound, receipt, run, foreign, track, mapping, inflight,
                 evidence, began, adopted, guessed, releases>>

\* A new attempt or a recovery run; the journal may not have come along.
LaterRun ==
  /\ pc = "idle" /\ run = "first" /\ run' = "later"
  /\ evidence' \in {evidence, "none"} /\ sent' = "no"
  /\ UNCHANGED <<stage, bound, store, edit, draft, receipt, lane, began, adopted,
                 guessed, releases, faults, foreign>>

\* A commit that was never answered takes effect, or never will.
LateCommit ==
  /\ \E c \in inflight :
        \/ ApplyChanges(c) /\ edit' = IF edit = "open" THEN "stale" ELSE edit
        \/ inflight' = inflight \ {c} /\ UNCHANGED <<track, bundle, mapping, releases, edit>>
  /\ Same /\ UNCHANGED <<draft, evidence, lane, sent, began, adopted, guessed>>

ForeignCommit ==
  /\ foreign < MaxForeign /\ foreign' = foreign + 1
  /\ \E t \in TrackStates \ {track} : (t = "target" => bundle = "same") /\ track' = t
  /\ inflight' = {} /\ edit' = IF edit = "open" THEN "stale" ELSE edit
  /\ UNCHANGED <<stage, bound, bundle, mapping, draft, evidence, receipt, run, lane,
                 ghost, faults>>

ForeignBundle ==
  /\ foreign < MaxForeign /\ foreign' = foreign + 1
  /\ bundle = "absent" /\ "bundle" \notin draft \cup UNION inflight
  /\ bundle' \in {"same", "different"}
  /\ UNCHANGED <<stage, bound, track, mapping, inflight, edit, draft, evidence, receipt,
                 run, lane, ghost, faults>>

-----------------------------------------------------------------------------
Work == Classify \/ Upload \/ Replay \/ FinalClassify \/ WriteReceipt

Next == StartLane \/ Work \/ Fail \/ LoseUpload \/ LaterRun \/ LateCommit
          \/ ForeignCommit \/ ForeignBundle

Spec == Init /\ [][Next]_vars

\* An invocation runs on, the operator invokes the lane again, and Google
\* settles a commit one way or the other.
FairSpec == Spec /\ WF_vars(Work) /\ WF_vars(StartLane) /\ WF_vars(LateCommit)

-----------------------------------------------------------------------------
(* Correctness.                                                            *)

\* Whenever this run has sent the Store anything, its journal says so, at every
\* point where the process can die: the next invocation knows that what it finds
\* may be its own (play_prior_execution?).
EvidencePrecedesMutation == sent = "yes" => evidence = "dispatched"

\* In the authorized run an existing bundle is adopted only when an earlier
\* invocation had dispatched one: a bundle that appears while this invocation
\* validates is somebody else's (perform_upload_once's comment on the marker).
NoForeignAdoption ==
  [][adopted = "no" /\ adopted' = "yes" /\ run = "first" => began = "dispatched"]_vars

\* Without somebody else changing the track, the release is committed once,
\* however many commits go unanswered and however late they take effect.
ReleasedOnce == foreign = 0 => releases <= 1

\* A receipt says what the Store holds when nobody else changed it; "accepted" is
\* said only of a release that this operation committed, "already" only when it
\* committed nothing; and with others at work too, a lane that saw its release
\* committed, or replayed the mapping, gets its receipt only with the mapping there.
ReceiptTruthful ==
  /\ receipt \in {"accepted", "reconciled"} /\ foreign = 0 => IsTarget(track, bundle)
  /\ receipt = "accepted" => releases > 0
  /\ receipt = "already" => releases = 0
  /\ pc = "receipt" /\ bound = "yes" /\ guessed = "no" => mapping = "ours"

\* A receipt of a candidate with a mapping proves that the mapping is committed
\* (perform_mapping_recovery's comment: track-only readback cannot prove an
\* ambiguous mapping commit).
MappingProven == receipt # "none" /\ bound = "yes" => mapping = "ours"

\* The precondition checks never lock the operation out of its own traces: with
\* finitely many faults some invocation gets its receipt, unless somebody else
\* changed the Store.
ReceiptComes == <>(receipt # "none" \/ foreign > 0)
=============================================================================
