------------------------- MODULE PlayUpload_proofs -------------------------
(***************************************************************************)
(* What holds of the Play lanes for any number of faults and of changes    *)
(* by others: types, evidence before every mutation, no adoption of a      *)
(* foreign bundle, and one release.                                        *)
(***************************************************************************)
EXTENDS PlayUpload, TLAPS

USE DEF Changes, TrackStates, Stages, PCs

-----------------------------------------------------------------------------
(* Types.                                                                  *)

LEMMA TypeInit == Init => TypeOK
  BY BoundAssumption DEF Init, TypeOK, StoreType, LaneType

\* The Store stays well typed when it applies the changes of an edit.
LEMMA ApplyTypes ==
  ASSUME StoreType, NEW c \in SUBSET Changes, ApplyChanges(c)
  PROVE  /\ track' \in TrackStates /\ bundle' \in {"absent", "same", "different"}
         /\ mapping' \in {"absent", "ours"} /\ inflight' = {} /\ releases' \in 0 .. 2
<1>1. releases' \in 0 .. 2
  BY DEF StoreType, ApplyChanges
<1> QED BY <1>1 DEF StoreType, ApplyChanges

LEMMA CommitTypes ==
  ASSUME StoreType, NEW at, NEW l, NEW result, CommitAnswered(at, l, result)
  PROVE  StoreType'
<1>1. CASE edit = "open"
  BY <1>1, ApplyTypes DEF StoreType, CommitAnswered, Same, store
<1>2. CASE edit # "open"
  BY <1>2 DEF StoreType, CommitAnswered, Same, Stop, store
<1> QED BY <1>1, <1>2

LEMMA LostCommitTypes ==
  ASSUME StoreType, NEW at, NEW ls, CommitUnanswered(at, ls)
  PROVE  StoreType'
<1>1. CASE ApplyChanges(draft)
  BY <1>1, ApplyTypes, BoundAssumption DEF StoreType, CommitUnanswered
<1>2. CASE UNCHANGED <<store, releases>>
  BY <1>2, BoundAssumption DEF StoreType, CommitUnanswered, store
<1>3. CASE inflight' = inflight \cup {draft} /\ UNCHANGED <<track, bundle, mapping, releases>>
  BY <1>3, BoundAssumption DEF StoreType, CommitUnanswered
<1> QED BY <1>1, <1>2, <1>3 DEF CommitUnanswered

LEMMA LateCommitTypes ==
  ASSUME StoreType, LateCommit
  PROVE  StoreType'
<1>1. PICK c \in inflight :
        \/ ApplyChanges(c) /\ edit' = IF edit = "open" THEN "stale" ELSE edit
        \/ inflight' = inflight \ {c} /\ UNCHANGED <<track, bundle, mapping, releases, edit>>
  BY DEF LateCommit
<1>2. c \in SUBSET Changes
  BY DEF StoreType
<1>3. CASE ApplyChanges(c) /\ edit' = IF edit = "open" THEN "stale" ELSE edit
  BY <1>2, <1>3, ApplyTypes DEF StoreType, LateCommit, Same
<1>4. CASE inflight' = inflight \ {c} /\ UNCHANGED <<track, bundle, mapping, releases, edit>>
  BY <1>4 DEF StoreType, LateCommit, Same
<1> QED BY <1>1, <1>3, <1>4

\* Every step keeps the types.
LEMMA TypeStep ==
  TypeOK /\ [Next]_vars => TypeOK'
<1> SUFFICES ASSUME TypeOK, [Next]_vars PROVE TypeOK'
  OBVIOUS
<1> USE BoundAssumption DEF TypeOK, StoreType, LaneType, Same, Stop, Goto, store, lane,
    ghost
<1>1. ASSUME StartLane PROVE TypeOK'
  BY <1>1 DEF StartLane
<1>2. ASSUME Classify PROVE TypeOK'
  BY <1>2 DEF Classify, ClassifyNext, IsBefore, IsTarget, PriorExecution
<1>3. ASSUME FinalClassify PROVE TypeOK'
  <2>1. StoreType'
    BY <1>3 DEF FinalClassify, IsTarget
  <2>2. LaneType'
    BY <1>3 DEF FinalClassify, IsTarget
  <2> QED BY <2>1, <2>2
<1>4. ASSUME WriteReceipt PROVE TypeOK'
  BY <1>4 DEF WriteReceipt
<1>5. ASSUME BeginEdit("construct", "guard") PROVE TypeOK'
  BY <1>5 DEF BeginEdit
<1>6. ASSUME FirstGuard PROVE TypeOK'
  <2>1. StoreType'
    BY <1>6 DEF FirstGuard, Guard, Precondition, PriorExecution, Bundle, Track, IsBefore
  <2>2. LaneType'
    BY <1>6 DEF FirstGuard, Guard, Precondition, PriorExecution, Bundle, Track, IsBefore
  <2> QED BY <2>1, <2>2
<1>7. ASSUME Validate PROVE TypeOK'
  BY <1>7 DEF Validate
<1>8. ASSUME Recheck PROVE TypeOK'
  <2>1. StoreType'
    BY <1>8 DEF Recheck, Guard, Precondition, PriorExecution, Bundle, Track, IsBefore
  <2>2. LaneType'
    BY <1>8 DEF Recheck, Guard, Precondition, PriorExecution, Bundle, Track, IsBefore
  <2> QED BY <2>1, <2>2
<1>9. ASSUME SendBundle PROVE TypeOK'
  <2>1. StoreType'
    BY ZenonT(60), <1>9 DEF SendBundle, Send
  <2>2. LaneType'
    BY <1>9 DEF SendBundle, Send
  <2> QED BY <2>1, <2>2
<1>10. ASSUME Dispatch PROVE TypeOK'
  BY <1>10 DEF Dispatch
<1>11. ASSUME SendMapping PROVE TypeOK'
  <2>1. StoreType'
    BY ZenonT(60), <1>11 DEF SendMapping, Send
  <2>2. LaneType'
    BY <1>11 DEF SendMapping, Send
  <2> QED BY <2>1, <2>2
<1>12. ASSUME UpdateTrack PROVE TypeOK'
  <2>1. StoreType'
    BY ZenonT(60), <1>12 DEF UpdateTrack, Send
  <2>2. LaneType'
    BY <1>12 DEF UpdateTrack, Send
  <2> QED BY <2>1, <2>2
<1>13. ASSUME Verify PROVE TypeOK'
  <2>1. StoreType'
    BY <1>13 DEF Verify, TargetInEdit, IsTarget, Bundle, Track
  <2>2. LaneType'
    BY <1>13 DEF Verify, TargetInEdit, IsTarget, Bundle, Track
  <2> QED BY <2>1, <2>2
<1>14. ASSUME Commit PROVE TypeOK'
  <2>1. StoreType'
    BY <1>14, CommitTypes, LostCommitTypes DEF Commit
  <2>2. LaneType'
    BY <1>14 DEF Commit, CommitAnswered, CommitUnanswered, ApplyChanges
  <2> QED BY <2>1, <2>2
<1>15. ASSUME ReconcileAmbiguous PROVE TypeOK'
  BY <1>15 DEF ReconcileAmbiguous
<1>16. ASSUME Readback PROVE TypeOK'
  <2>1. StoreType'
    BY <1>16 DEF Readback, IsTarget
  <2>2. LaneType'
    BY <1>16 DEF Readback, IsTarget
  <2> QED BY <2>1, <2>2
<1>17. ASSUME BeginEdit("replay", "replayGuard") PROVE TypeOK'
  BY <1>17 DEF BeginEdit
<1>18. ASSUME ReplayGuard PROVE TypeOK'
  <2>1. StoreType'
    BY <1>18 DEF ReplayGuard, TargetInEdit, IsTarget, Bundle, Track
  <2>2. LaneType'
    BY <1>18 DEF ReplayGuard, TargetInEdit, IsTarget, Bundle, Track
  <2> QED BY <2>1, <2>2
<1>19. ASSUME ReplayMapping PROVE TypeOK'
  <2>1. StoreType'
    BY ZenonT(60), <1>19 DEF ReplayMapping, Send
  <2>2. LaneType'
    BY <1>19 DEF ReplayMapping, Send
  <2> QED BY <2>1, <2>2
<1>20. ASSUME ReplayCommit PROVE TypeOK'
  <2>1. StoreType'
    BY <1>20, CommitTypes, LostCommitTypes DEF ReplayCommit
  <2>2. LaneType'
    BY <1>20 DEF ReplayCommit, CommitAnswered, CommitUnanswered, ApplyChanges
  <2> QED BY <2>1, <2>2
<1>21. ASSUME ReplayRead PROVE TypeOK'
  <2>1. StoreType'
    BY <1>21 DEF ReplayRead, IsTarget
  <2>2. LaneType'
    BY <1>21 DEF ReplayRead, IsTarget
  <2> QED BY <2>1, <2>2
<1>22. ASSUME Fail PROVE TypeOK'
  BY <1>22 DEF Fail
<1>23. ASSUME LoseUpload PROVE TypeOK'
  BY <1>23 DEF LoseUpload
<1>24. ASSUME LaterRun PROVE TypeOK'
  BY <1>24 DEF LaterRun
<1>25. ASSUME LateCommit PROVE TypeOK'
  <2>1. StoreType'
    BY <1>25, LateCommitTypes
  <2>2. LaneType'
    BY <1>25 DEF LateCommit, ApplyChanges
  <2> QED BY <2>1, <2>2
<1>26. ASSUME ForeignCommit PROVE TypeOK'
  BY <1>26 DEF ForeignCommit
<1>27. ASSUME ForeignBundle PROVE TypeOK'
  BY <1>27 DEF ForeignBundle
<1>28. ASSUME UNCHANGED vars PROVE TypeOK'
  BY <1>28 DEF vars
<1> QED BY <1>1, <1>2, <1>3, <1>4, <1>5, <1>6, <1>7, <1>8, <1>9, <1>10, <1>11, <1>12, <1>13,
     <1>14, <1>15, <1>16, <1>17, <1>18, <1>19, <1>20, <1>21, <1>22, <1>23, <1>24, <1>25,
     <1>26, <1>27, <1>28 DEF Next, Work, Upload, Replay

\* The variables of the Play model keep their types (PreservingSupplyUploader, the lanes).
THEOREM TypeCorrect == Spec => []TypeOK
  BY TypeInit, TypeStep, PTL DEF Spec

-----------------------------------------------------------------------------
(* Evidence: where the invocation is tells what the journal holds, and     *)
(* until it dispatches, the journal is the one it started from.            *)

Requesting == {"send", "sendMapping", "update", "verify", "commit", "replayMapping",
               "replayCommit"}
Undispatched == {"classify", "construct", "guard", "validate", "recheck"}

EvidenceInv ==
  /\ pc \in Requesting => evidence = "dispatched"
  /\ sent = "yes" => evidence = "dispatched"
  /\ pc \in Undispatched => began = evidence

LEMMA EvidenceInit == Init => EvidenceInv
  BY DEF Init, EvidenceInv, Requesting, Undispatched

\* Every step keeps the evidence invariant.
LEMMA EvidenceStep ==
  TypeOK /\ EvidenceInv /\ [Next]_vars => EvidenceInv'
<1> SUFFICES ASSUME TypeOK /\ EvidenceInv, [Next]_vars PROVE EvidenceInv'
  OBVIOUS
<1> USE BoundAssumption DEF TypeOK, StoreType, LaneType, EvidenceInv, Requesting,
    Undispatched, Same, Stop, Goto, store, lane, ghost
<1>1. ASSUME StartLane PROVE EvidenceInv'
  BY <1>1 DEF StartLane
<1>2. ASSUME Classify PROVE EvidenceInv'
  BY <1>2 DEF Classify, ClassifyNext, IsBefore, IsTarget, PriorExecution
<1>3. ASSUME FinalClassify PROVE EvidenceInv'
  BY <1>3 DEF FinalClassify, IsTarget
<1>4. ASSUME WriteReceipt PROVE EvidenceInv'
  BY <1>4 DEF WriteReceipt
<1>5. ASSUME BeginEdit("construct", "guard") PROVE EvidenceInv'
  BY <1>5 DEF BeginEdit
<1>6. ASSUME FirstGuard PROVE EvidenceInv'
  BY <1>6 DEF FirstGuard, Guard, Precondition, PriorExecution, Bundle, Track, IsBefore
<1>7. ASSUME Validate PROVE EvidenceInv'
  BY <1>7 DEF Validate
<1>8. ASSUME Recheck PROVE EvidenceInv'
  BY <1>8 DEF Recheck, Guard, Precondition, PriorExecution, Bundle, Track, IsBefore
<1>9. ASSUME SendBundle PROVE EvidenceInv'
  BY <1>9 DEF SendBundle, Send
<1>10. ASSUME Dispatch PROVE EvidenceInv'
  BY <1>10 DEF Dispatch
<1>11. ASSUME SendMapping PROVE EvidenceInv'
  BY <1>11 DEF SendMapping, Send
<1>12. ASSUME UpdateTrack PROVE EvidenceInv'
  BY <1>12 DEF UpdateTrack, Send
<1>13. ASSUME Verify PROVE EvidenceInv'
  BY <1>13 DEF Verify, TargetInEdit, IsTarget, Bundle, Track
<1>14. ASSUME Commit PROVE EvidenceInv'
  BY <1>14 DEF Commit, CommitAnswered, CommitUnanswered, ApplyChanges
<1>15. ASSUME ReconcileAmbiguous PROVE EvidenceInv'
  BY <1>15 DEF ReconcileAmbiguous
<1>16. ASSUME Readback PROVE EvidenceInv'
  BY <1>16 DEF Readback, IsTarget
<1>17. ASSUME BeginEdit("replay", "replayGuard") PROVE EvidenceInv'
  BY <1>17 DEF BeginEdit
<1>18. ASSUME ReplayGuard PROVE EvidenceInv'
  BY <1>18 DEF ReplayGuard, TargetInEdit, IsTarget, Bundle, Track
<1>19. ASSUME ReplayMapping PROVE EvidenceInv'
  BY <1>19 DEF ReplayMapping, Send
<1>20. ASSUME ReplayCommit PROVE EvidenceInv'
  BY <1>20 DEF ReplayCommit, CommitAnswered, CommitUnanswered, ApplyChanges
<1>21. ASSUME ReplayRead PROVE EvidenceInv'
  BY <1>21 DEF ReplayRead, IsTarget
<1>22. ASSUME Fail PROVE EvidenceInv'
  BY <1>22 DEF Fail
<1>23. ASSUME LoseUpload PROVE EvidenceInv'
  BY <1>23 DEF LoseUpload
<1>24. ASSUME LaterRun PROVE EvidenceInv'
  BY <1>24 DEF LaterRun
<1>25. ASSUME LateCommit PROVE EvidenceInv'
  BY <1>25 DEF LateCommit, ApplyChanges
<1>26. ASSUME ForeignCommit PROVE EvidenceInv'
  BY <1>26 DEF ForeignCommit
<1>27. ASSUME ForeignBundle PROVE EvidenceInv'
  BY <1>27 DEF ForeignBundle
<1>28. ASSUME UNCHANGED vars PROVE EvidenceInv'
  BY <1>28 DEF vars
<1> QED BY <1>1, <1>2, <1>3, <1>4, <1>5, <1>6, <1>7, <1>8, <1>9, <1>10, <1>11, <1>12, <1>13,
     <1>14, <1>15, <1>16, <1>17, <1>18, <1>19, <1>20, <1>21, <1>22, <1>23, <1>24, <1>25,
     <1>26, <1>27, <1>28 DEF Next, Work, Upload, Replay

LEMMA EvidenceHolds == Spec => []EvidenceInv
<1>1. TypeOK /\ EvidenceInv /\ [Next]_vars => EvidenceInv'
  BY EvidenceStep
<1> QED BY <1>1, TypeCorrect, EvidenceInit, PTL DEF Spec

\* Once the run has sent the Store anything, the journal says so (persist_journal
\* precedes every request of perform_upload_once and perform_mapping_recovery_once).
THEOREM EvidenceFirst == Spec => []EvidencePrecedesMutation
<1>1. EvidenceInv => EvidencePrecedesMutation
  BY DEF EvidenceInv, EvidencePrecedesMutation
<1> QED BY <1>1, EvidenceHolds, PTL

\* One step's part of NoForeignAdoption.
AdoptionStep == adopted = "no" /\ adopted' = "yes" /\ run = "first" => began = "dispatched"

LEMMA AdoptionIsPrior == TypeOK /\ EvidenceInv /\ [Next]_vars => [AdoptionStep]_vars
<1> SUFFICES ASSUME TypeOK, EvidenceInv, Next PROVE AdoptionStep
  OBVIOUS
<1> USE BoundAssumption DEF TypeOK, StoreType, LaneType, EvidenceInv, Undispatched,
    AdoptionStep, Same, Stop, Goto, store, lane, ghost

<1>1. ASSUME StartLane PROVE AdoptionStep
  BY <1>1 DEF StartLane
<1>2. ASSUME Classify PROVE AdoptionStep
  BY <1>2 DEF Classify, ClassifyNext, IsBefore, IsTarget, PriorExecution
<1>3. ASSUME FinalClassify PROVE AdoptionStep
  BY <1>3 DEF FinalClassify, IsTarget
<1>4. ASSUME WriteReceipt PROVE AdoptionStep
  BY <1>4 DEF WriteReceipt
<1>5. ASSUME BeginEdit("construct", "guard") PROVE AdoptionStep
  BY <1>5 DEF BeginEdit
<1>6. ASSUME FirstGuard PROVE AdoptionStep
  BY <1>6 DEF FirstGuard, Guard, Precondition, PriorExecution, Bundle, Track, IsBefore
<1>7. ASSUME Validate PROVE AdoptionStep
  BY <1>7 DEF Validate
<1>8. ASSUME Recheck PROVE AdoptionStep
  BY <1>8 DEF Recheck, Guard, Precondition, PriorExecution, Bundle, Track, IsBefore
<1>9. ASSUME SendBundle PROVE AdoptionStep
  BY <1>9 DEF SendBundle, Send
<1>10. ASSUME Dispatch PROVE AdoptionStep
  BY <1>10 DEF Dispatch
<1>11. ASSUME SendMapping PROVE AdoptionStep
  BY <1>11 DEF SendMapping, Send
<1>12. ASSUME UpdateTrack PROVE AdoptionStep
  BY <1>12 DEF UpdateTrack, Send
<1>13. ASSUME Verify PROVE AdoptionStep
  BY <1>13 DEF Verify, TargetInEdit, IsTarget, Bundle, Track
<1>14. ASSUME Commit PROVE AdoptionStep
  BY <1>14 DEF Commit, CommitAnswered, CommitUnanswered, ApplyChanges
<1>15. ASSUME ReconcileAmbiguous PROVE AdoptionStep
  BY <1>15 DEF ReconcileAmbiguous
<1>16. ASSUME Readback PROVE AdoptionStep
  BY <1>16 DEF Readback, IsTarget
<1>17. ASSUME BeginEdit("replay", "replayGuard") PROVE AdoptionStep
  BY <1>17 DEF BeginEdit
<1>18. ASSUME ReplayGuard PROVE AdoptionStep
  BY <1>18 DEF ReplayGuard, TargetInEdit, IsTarget, Bundle, Track
<1>19. ASSUME ReplayMapping PROVE AdoptionStep
  BY <1>19 DEF ReplayMapping, Send
<1>20. ASSUME ReplayCommit PROVE AdoptionStep
  BY <1>20 DEF ReplayCommit, CommitAnswered, CommitUnanswered, ApplyChanges
<1>21. ASSUME ReplayRead PROVE AdoptionStep
  BY <1>21 DEF ReplayRead, IsTarget
<1>22. ASSUME Fail PROVE AdoptionStep
  BY <1>22 DEF Fail
<1>23. ASSUME LoseUpload PROVE AdoptionStep
  BY <1>23 DEF LoseUpload
<1>24. ASSUME LaterRun PROVE AdoptionStep
  BY <1>24 DEF LaterRun
<1>25. ASSUME LateCommit PROVE AdoptionStep
  BY <1>25 DEF LateCommit, ApplyChanges
<1>26. ASSUME ForeignCommit PROVE AdoptionStep
  BY <1>26 DEF ForeignCommit
<1>27. ASSUME ForeignBundle PROVE AdoptionStep
  BY <1>27 DEF ForeignBundle
<1> QED BY <1>1, <1>2, <1>3, <1>4, <1>5, <1>6, <1>7, <1>8, <1>9, <1>10, <1>11, <1>12, <1>13,
     <1>14, <1>15, <1>16, <1>17, <1>18, <1>19, <1>20, <1>21, <1>22, <1>23, <1>24, <1>25,
     <1>26, <1>27 DEF Next, Work, Upload, Replay

\* In the authorized run a bundle that is already there is adopted only when an
\* earlier invocation had dispatched one (reusable_bundle_version_codes).
THEOREM NoForeignAdopted == Spec => NoForeignAdoption
<1>1. TypeOK /\ EvidenceInv /\ [Next]_vars => [AdoptionStep]_vars
  BY AdoptionIsPrior
<1> QED BY <1>1, TypeCorrect, EvidenceHolds, PTL DEF Spec, NoForeignAdoption, AdoptionStep

-----------------------------------------------------------------------------
(* One release: an edit that can still commit was opened when the release  *)
(* was not there, and once it is there no unanswered commit can add it.    *)

Mutating == {"validate", "recheck", "send", "dispatch", "sendMapping", "update",
             "verify", "commit"}

ReleaseInv ==
  /\ edit = "open" /\ pc \in Mutating => track = "before"
  /\ pc \in {"replayGuard", "replayMapping", "replayCommit"} => draft \subseteq {"mapping"}
  /\ pc = "guard" => draft = {}
  /\ foreign = 0 => /\ track = "before" => releases = 0
                    /\ track = "target" => /\ releases = 1
                                           /\ \A c \in inflight : "track" \notin c
                    /\ track # "other"

LEMMA ReleaseInit == Init => ReleaseInv
  BY DEF Init, ReleaseInv, Mutating

\* Every step keeps the release invariant.
LEMMA ReleaseStep ==
  TypeOK /\ ReleaseInv /\ [Next]_vars => ReleaseInv'
<1> SUFFICES ASSUME TypeOK /\ ReleaseInv, [Next]_vars PROVE ReleaseInv'
  OBVIOUS
<1> USE BoundAssumption DEF TypeOK, StoreType, LaneType, ReleaseInv, Mutating, Same, Stop,
    Goto, store, lane, ghost
<1>1. ASSUME StartLane PROVE ReleaseInv'
  BY <1>1 DEF StartLane
<1>2. ASSUME Classify PROVE ReleaseInv'
  BY <1>2 DEF Classify, ClassifyNext, IsBefore, IsTarget, PriorExecution
<1>3. ASSUME FinalClassify PROVE ReleaseInv'
  BY <1>3 DEF FinalClassify, IsTarget
<1>4. ASSUME WriteReceipt PROVE ReleaseInv'
  BY <1>4 DEF WriteReceipt
<1>5. ASSUME BeginEdit("construct", "guard") PROVE ReleaseInv'
  BY <1>5 DEF BeginEdit
<1>6. ASSUME FirstGuard PROVE ReleaseInv'
  BY <1>6 DEF FirstGuard, Guard, Precondition, PriorExecution, Bundle, Track, IsBefore
<1>7. ASSUME Validate PROVE ReleaseInv'
  BY <1>7 DEF Validate
<1>8. ASSUME Recheck PROVE ReleaseInv'
  BY <1>8 DEF Recheck, Guard, Precondition, PriorExecution, Bundle, Track, IsBefore
<1>9. ASSUME SendBundle PROVE ReleaseInv'
  BY <1>9 DEF SendBundle, Send
<1>10. ASSUME Dispatch PROVE ReleaseInv'
  BY <1>10 DEF Dispatch
<1>11. ASSUME SendMapping PROVE ReleaseInv'
  BY <1>11 DEF SendMapping, Send
<1>12. ASSUME UpdateTrack PROVE ReleaseInv'
  BY <1>12 DEF UpdateTrack, Send
<1>13. ASSUME Verify PROVE ReleaseInv'
  BY <1>13 DEF Verify, TargetInEdit, IsTarget, Bundle, Track
<1>14. ASSUME Commit PROVE ReleaseInv'
  BY <1>14 DEF Commit, CommitAnswered, CommitUnanswered, ApplyChanges
<1>15. ASSUME ReconcileAmbiguous PROVE ReleaseInv'
  BY <1>15 DEF ReconcileAmbiguous
<1>16. ASSUME Readback PROVE ReleaseInv'
  BY <1>16 DEF Readback, IsTarget
<1>17. ASSUME BeginEdit("replay", "replayGuard") PROVE ReleaseInv'
  BY <1>17 DEF BeginEdit
<1>18. ASSUME ReplayGuard PROVE ReleaseInv'
  BY <1>18 DEF ReplayGuard, TargetInEdit, IsTarget, Bundle, Track
<1>19. ASSUME ReplayMapping PROVE ReleaseInv'
  BY ZenonT(60), <1>19 DEF ReplayMapping, Send
<1>20. ASSUME ReplayCommit PROVE ReleaseInv'
  BY <1>20 DEF ReplayCommit, CommitAnswered, CommitUnanswered, ApplyChanges
<1>21. ASSUME ReplayRead PROVE ReleaseInv'
  BY <1>21 DEF ReplayRead, IsTarget
<1>22. ASSUME Fail PROVE ReleaseInv'
  BY <1>22 DEF Fail
<1>23. ASSUME LoseUpload PROVE ReleaseInv'
  BY <1>23 DEF LoseUpload
<1>24. ASSUME LaterRun PROVE ReleaseInv'
  BY <1>24 DEF LaterRun
<1>25. ASSUME LateCommit PROVE ReleaseInv'
  BY <1>25 DEF LateCommit, ApplyChanges
<1>26. ASSUME ForeignCommit PROVE ReleaseInv'
  BY <1>26 DEF ForeignCommit
<1>27. ASSUME ForeignBundle PROVE ReleaseInv'
  BY <1>27 DEF ForeignBundle
<1>28. ASSUME UNCHANGED vars PROVE ReleaseInv'
  BY <1>28 DEF vars
<1> QED BY <1>1, <1>2, <1>3, <1>4, <1>5, <1>6, <1>7, <1>8, <1>9, <1>10, <1>11, <1>12, <1>13,
     <1>14, <1>15, <1>16, <1>17, <1>18, <1>19, <1>20, <1>21, <1>22, <1>23, <1>24, <1>25,
     <1>26, <1>27, <1>28 DEF Next, Work, Upload, Replay

\* With nobody else at work the release is committed at most once, however many
\* commits went unanswered (commit_and_reconcile!, reconcile_ambiguous_commit!).
THEOREM OneRelease == Spec => []ReleasedOnce
<1>1. TypeOK /\ ReleaseInv => ReleasedOnce
  BY DEF TypeOK, StoreType, ReleaseInv, ReleasedOnce
<1>2. TypeOK /\ ReleaseInv /\ [Next]_vars => ReleaseInv'
  BY ReleaseStep
<1> QED BY <1>1, <1>2, TypeCorrect, ReleaseInit, PTL DEF Spec
-----------------------------------------------------------------------------
(* Receipts: what is in an edit follows from how far the upload is, and    *)
(* what has been committed from where the invocation may write a receipt.  *)

DraftInv ==
  /\ bound = "yes" => stage = "candidate"
  /\ pc \in {"verify", "commit"} => "track" \in draft
  /\ (pc \in {"update", "verify", "commit"} /\ bound = "yes") => "mapping" \in draft
  /\ pc = "replayCommit" => "mapping" \in draft
  /\ stage = "present" => /\ pc \in {"idle", "classify", "receipt"}
                          /\ releases = 0 /\ inflight = {}
                          /\ receipt \in {"none", "already"}
                          /\ outcome \in {"none", "already"}
  /\ stage # "present" => outcome # "already" /\ receipt # "already"

MappingInv ==
  (bound = "yes" /\ guessed = "no" /\ pc \in {"readback", "replayRead", "final", "receipt"})
    => mapping = "ours"

ReceiptInv ==
  /\ outcome = "mutated" => releases > 0
  /\ receipt = "accepted" => releases > 0
  /\ pc \in {"final", "receipt"} => outcome # "none"
  /\ (pc = "receipt" /\ foreign = 0 /\ stage # "present") => IsTarget(track, bundle)
  /\ (receipt \in {"accepted", "reconciled"} /\ foreign = 0) => IsTarget(track, bundle)

LEMMA DraftInit == Init => DraftInv /\ MappingInv /\ ReceiptInv
  BY DEF Init, DraftInv, MappingInv, ReceiptInv

\* Every step keeps the draft invariant.
LEMMA DraftStep ==
  TypeOK /\ DraftInv /\ [Next]_vars => DraftInv'
<1> SUFFICES ASSUME TypeOK /\ DraftInv, [Next]_vars PROVE DraftInv'
  OBVIOUS
<1> USE BoundAssumption DEF TypeOK, StoreType, LaneType, DraftInv, Same, Stop, Goto,
    store, lane, ghost
<1>1. ASSUME StartLane PROVE DraftInv'
  BY <1>1 DEF StartLane
<1>2. ASSUME Classify PROVE DraftInv'
  BY <1>2 DEF Classify, ClassifyNext, IsBefore, IsTarget, PriorExecution
<1>3. ASSUME FinalClassify PROVE DraftInv'
  BY <1>3 DEF FinalClassify, IsTarget
<1>4. ASSUME WriteReceipt PROVE DraftInv'
  BY <1>4 DEF WriteReceipt
<1>5. ASSUME BeginEdit("construct", "guard") PROVE DraftInv'
  BY <1>5 DEF BeginEdit
<1>6. ASSUME FirstGuard PROVE DraftInv'
  BY <1>6 DEF FirstGuard, Guard, Precondition, PriorExecution, Bundle, Track, IsBefore
<1>7. ASSUME Validate PROVE DraftInv'
  BY <1>7 DEF Validate
<1>8. ASSUME Recheck PROVE DraftInv'
  BY <1>8 DEF Recheck, Guard, Precondition, PriorExecution, Bundle, Track, IsBefore
<1>9. ASSUME SendBundle PROVE DraftInv'
  BY <1>9 DEF SendBundle, Send
<1>10. ASSUME Dispatch PROVE DraftInv'
  BY <1>10 DEF Dispatch
<1>11. ASSUME SendMapping PROVE DraftInv'
  BY <1>11 DEF SendMapping, Send
<1>12. ASSUME UpdateTrack PROVE DraftInv'
  BY <1>12 DEF UpdateTrack, Send
<1>13. ASSUME Verify PROVE DraftInv'
  BY <1>13 DEF Verify, TargetInEdit, IsTarget, Bundle, Track
<1>14. ASSUME Commit PROVE DraftInv'
  BY <1>14 DEF Commit, CommitAnswered, CommitUnanswered, ApplyChanges
<1>15. ASSUME ReconcileAmbiguous PROVE DraftInv'
  BY <1>15 DEF ReconcileAmbiguous
<1>16. ASSUME Readback PROVE DraftInv'
  BY <1>16 DEF Readback, IsTarget
<1>17. ASSUME BeginEdit("replay", "replayGuard") PROVE DraftInv'
  BY <1>17 DEF BeginEdit
<1>18. ASSUME ReplayGuard PROVE DraftInv'
  BY <1>18 DEF ReplayGuard, TargetInEdit, IsTarget, Bundle, Track
<1>19. ASSUME ReplayMapping PROVE DraftInv'
  BY <1>19 DEF ReplayMapping, Send
<1>20. ASSUME ReplayCommit PROVE DraftInv'
  BY <1>20 DEF ReplayCommit, CommitAnswered, CommitUnanswered, ApplyChanges
<1>21. ASSUME ReplayRead PROVE DraftInv'
  BY <1>21 DEF ReplayRead, IsTarget
<1>22. ASSUME Fail PROVE DraftInv'
  BY <1>22 DEF Fail
<1>23. ASSUME LoseUpload PROVE DraftInv'
  BY <1>23 DEF LoseUpload
<1>24. ASSUME LaterRun PROVE DraftInv'
  BY <1>24 DEF LaterRun
<1>25. ASSUME LateCommit PROVE DraftInv'
  BY <1>25 DEF LateCommit, ApplyChanges
<1>26. ASSUME ForeignCommit PROVE DraftInv'
  BY <1>26 DEF ForeignCommit
<1>27. ASSUME ForeignBundle PROVE DraftInv'
  BY <1>27 DEF ForeignBundle
<1>28. ASSUME UNCHANGED vars PROVE DraftInv'
  BY <1>28 DEF vars
<1> QED BY <1>1, <1>2, <1>3, <1>4, <1>5, <1>6, <1>7, <1>8, <1>9, <1>10, <1>11, <1>12, <1>13,
     <1>14, <1>15, <1>16, <1>17, <1>18, <1>19, <1>20, <1>21, <1>22, <1>23, <1>24, <1>25,
     <1>26, <1>27, <1>28 DEF Next, Work, Upload, Replay

\* Every step keeps the mapping invariant.
LEMMA MappingStep ==
  TypeOK /\ DraftInv /\ MappingInv /\ [Next]_vars => MappingInv'
<1> SUFFICES ASSUME TypeOK /\ DraftInv /\ MappingInv, [Next]_vars PROVE MappingInv'
  OBVIOUS
<1> USE BoundAssumption DEF TypeOK, StoreType, LaneType, DraftInv, MappingInv, Same, Stop,
    Goto, store, lane, ghost
<1>1. ASSUME StartLane PROVE MappingInv'
  BY <1>1 DEF StartLane
<1>2. ASSUME Classify PROVE MappingInv'
  BY <1>2 DEF Classify, ClassifyNext, IsBefore, IsTarget, PriorExecution
<1>3. ASSUME FinalClassify PROVE MappingInv'
  BY <1>3 DEF FinalClassify, IsTarget
<1>4. ASSUME WriteReceipt PROVE MappingInv'
  BY <1>4 DEF WriteReceipt
<1>5. ASSUME BeginEdit("construct", "guard") PROVE MappingInv'
  BY <1>5 DEF BeginEdit
<1>6. ASSUME FirstGuard PROVE MappingInv'
  BY <1>6 DEF FirstGuard, Guard, Precondition, PriorExecution, Bundle, Track, IsBefore
<1>7. ASSUME Validate PROVE MappingInv'
  BY <1>7 DEF Validate
<1>8. ASSUME Recheck PROVE MappingInv'
  BY <1>8 DEF Recheck, Guard, Precondition, PriorExecution, Bundle, Track, IsBefore
<1>9. ASSUME SendBundle PROVE MappingInv'
  BY <1>9 DEF SendBundle, Send
<1>10. ASSUME Dispatch PROVE MappingInv'
  BY <1>10 DEF Dispatch
<1>11. ASSUME SendMapping PROVE MappingInv'
  BY <1>11 DEF SendMapping, Send
<1>12. ASSUME UpdateTrack PROVE MappingInv'
  BY <1>12 DEF UpdateTrack, Send
<1>13. ASSUME Verify PROVE MappingInv'
  BY <1>13 DEF Verify, TargetInEdit, IsTarget, Bundle, Track
<1>14. ASSUME Commit PROVE MappingInv'
  BY <1>14 DEF Commit, CommitAnswered, CommitUnanswered, ApplyChanges
<1>15. ASSUME ReconcileAmbiguous PROVE MappingInv'
  BY <1>15 DEF ReconcileAmbiguous
<1>16. ASSUME Readback PROVE MappingInv'
  BY <1>16 DEF Readback, IsTarget
<1>17. ASSUME BeginEdit("replay", "replayGuard") PROVE MappingInv'
  BY <1>17 DEF BeginEdit
<1>18. ASSUME ReplayGuard PROVE MappingInv'
  BY <1>18 DEF ReplayGuard, TargetInEdit, IsTarget, Bundle, Track
<1>19. ASSUME ReplayMapping PROVE MappingInv'
  BY <1>19 DEF ReplayMapping, Send
<1>20. ASSUME ReplayCommit PROVE MappingInv'
  BY <1>20 DEF ReplayCommit, CommitAnswered, CommitUnanswered, ApplyChanges
<1>21. ASSUME ReplayRead PROVE MappingInv'
  BY <1>21 DEF ReplayRead, IsTarget
<1>22. ASSUME Fail PROVE MappingInv'
  BY <1>22 DEF Fail
<1>23. ASSUME LoseUpload PROVE MappingInv'
  BY <1>23 DEF LoseUpload
<1>24. ASSUME LaterRun PROVE MappingInv'
  BY <1>24 DEF LaterRun
<1>25. ASSUME LateCommit PROVE MappingInv'
  BY <1>25 DEF LateCommit, ApplyChanges
<1>26. ASSUME ForeignCommit PROVE MappingInv'
  BY <1>26 DEF ForeignCommit
<1>27. ASSUME ForeignBundle PROVE MappingInv'
  BY <1>27 DEF ForeignBundle
<1>28. ASSUME UNCHANGED vars PROVE MappingInv'
  BY <1>28 DEF vars
<1> QED BY <1>1, <1>2, <1>3, <1>4, <1>5, <1>6, <1>7, <1>8, <1>9, <1>10, <1>11, <1>12, <1>13,
     <1>14, <1>15, <1>16, <1>17, <1>18, <1>19, <1>20, <1>21, <1>22, <1>23, <1>24, <1>25,
     <1>26, <1>27, <1>28 DEF Next, Work, Upload, Replay

\* Every step keeps the receipt invariant.
LEMMA ReceiptStep ==
  TypeOK /\ DraftInv /\ ReceiptInv /\ [Next]_vars => ReceiptInv'
<1> SUFFICES ASSUME TypeOK /\ DraftInv /\ ReceiptInv, [Next]_vars PROVE ReceiptInv'
  OBVIOUS
<1> USE BoundAssumption DEF TypeOK, StoreType, LaneType, DraftInv, ReceiptInv, IsTarget,
    Same, Stop, Goto, store, lane, ghost
<1>1. ASSUME StartLane PROVE ReceiptInv'
  BY <1>1 DEF StartLane
<1>2. ASSUME Classify PROVE ReceiptInv'
  BY <1>2 DEF Classify, ClassifyNext, IsBefore, IsTarget, PriorExecution
<1>3. ASSUME FinalClassify PROVE ReceiptInv'
  BY <1>3 DEF FinalClassify, IsTarget
<1>4. ASSUME WriteReceipt PROVE ReceiptInv'
  BY <1>4 DEF WriteReceipt
<1>5. ASSUME BeginEdit("construct", "guard") PROVE ReceiptInv'
  BY <1>5 DEF BeginEdit
<1>6. ASSUME FirstGuard PROVE ReceiptInv'
  BY <1>6 DEF FirstGuard, Guard, Precondition, PriorExecution, Bundle, Track, IsBefore
<1>7. ASSUME Validate PROVE ReceiptInv'
  BY <1>7 DEF Validate
<1>8. ASSUME Recheck PROVE ReceiptInv'
  BY <1>8 DEF Recheck, Guard, Precondition, PriorExecution, Bundle, Track, IsBefore
<1>9. ASSUME SendBundle PROVE ReceiptInv'
  BY <1>9 DEF SendBundle, Send
<1>10. ASSUME Dispatch PROVE ReceiptInv'
  BY <1>10 DEF Dispatch
<1>11. ASSUME SendMapping PROVE ReceiptInv'
  BY <1>11 DEF SendMapping, Send
<1>12. ASSUME UpdateTrack PROVE ReceiptInv'
  BY <1>12 DEF UpdateTrack, Send
<1>13. ASSUME Verify PROVE ReceiptInv'
  BY <1>13 DEF Verify, TargetInEdit, IsTarget, Bundle, Track
<1>14. ASSUME Commit PROVE ReceiptInv'
  BY <1>14 DEF Commit, CommitAnswered, CommitUnanswered, ApplyChanges
<1>15. ASSUME ReconcileAmbiguous PROVE ReceiptInv'
  BY <1>15 DEF ReconcileAmbiguous
<1>16. ASSUME Readback PROVE ReceiptInv'
  BY <1>16 DEF Readback, IsTarget
<1>17. ASSUME BeginEdit("replay", "replayGuard") PROVE ReceiptInv'
  BY <1>17 DEF BeginEdit
<1>18. ASSUME ReplayGuard PROVE ReceiptInv'
  BY <1>18 DEF ReplayGuard, TargetInEdit, IsTarget, Bundle, Track
<1>19. ASSUME ReplayMapping PROVE ReceiptInv'
  BY <1>19 DEF ReplayMapping, Send
<1>20. ASSUME ReplayCommit PROVE ReceiptInv'
  BY <1>20 DEF ReplayCommit, CommitAnswered, CommitUnanswered, ApplyChanges
<1>21. ASSUME ReplayRead PROVE ReceiptInv'
  BY <1>21 DEF ReplayRead, IsTarget
<1>22. ASSUME Fail PROVE ReceiptInv'
  BY <1>22 DEF Fail
<1>23. ASSUME LoseUpload PROVE ReceiptInv'
  BY <1>23 DEF LoseUpload
<1>24. ASSUME LaterRun PROVE ReceiptInv'
  BY <1>24 DEF LaterRun
<1>25. ASSUME LateCommit PROVE ReceiptInv'
  BY <1>25 DEF LateCommit, ApplyChanges
<1>26. ASSUME ForeignCommit PROVE ReceiptInv'
  BY <1>26 DEF ForeignCommit
<1>27. ASSUME ForeignBundle PROVE ReceiptInv'
  BY <1>27 DEF ForeignBundle
<1>28. ASSUME UNCHANGED vars PROVE ReceiptInv'
  BY <1>28 DEF vars
<1> QED BY <1>1, <1>2, <1>3, <1>4, <1>5, <1>6, <1>7, <1>8, <1>9, <1>10, <1>11, <1>12, <1>13,
     <1>14, <1>15, <1>16, <1>17, <1>18, <1>19, <1>20, <1>21, <1>22, <1>23, <1>24, <1>25,
     <1>26, <1>27, <1>28 DEF Next, Work, Upload, Replay

\* A receipt of a lane is true of what the operation committed, and of the Store as
\* far as nobody else changed it (write_receipt and the classification before it).
THEOREM ReceiptsAreTrue == Spec => []ReceiptTruthful
<1>1. TypeOK /\ DraftInv /\ MappingInv /\ ReceiptInv => ReceiptTruthful
  BY DEF TypeOK, StoreType, LaneType, DraftInv, MappingInv, ReceiptInv, ReceiptTruthful
<1>2. TypeOK /\ DraftInv /\ [Next]_vars => DraftInv'
  BY DraftStep
<1>3. TypeOK /\ DraftInv /\ MappingInv /\ [Next]_vars => MappingInv'
  BY MappingStep
<1>4. TypeOK /\ DraftInv /\ ReceiptInv /\ [Next]_vars => ReceiptInv'
  BY ReceiptStep
<1> QED BY <1>1, <1>2, <1>3, <1>4, TypeCorrect, DraftInit, PTL DEF Spec
=============================================================================
