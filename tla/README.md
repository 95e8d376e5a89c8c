# A verification project for mobile-release-kit

`mobile-release` takes a mobile application from a prepared source tree to the
App Store and Google Play: a Python command (`src/mobile_release`), Ruby lanes
that talk to the stores (`fastlane`), and GitHub workflows that call both. Much
of its code is about one thing: a step that cannot be taken twice, or cannot be
taken back, must be decided exactly once although processes die, calls return
no answer, and other programs change the same files. These modules model that
part of the code, TLC checks the models on small instances, and TLAPS proves the
main results for all of them.

## Components

| Component | State it keeps | Operations | Interacts with |
|---|---|---|---|
| Init transaction (`init_transaction.py`) | project files, a private journal directory named for its phase, terminal markers | `init --apply`, `init --recover`, automatic recovery | the file system, editors |
| Build inputs, private custody (`build_inputs.py`) | originals and replacements of tracked inputs, a terminal journal, private files | replace, restore, finish, `recover_build_inputs`; publish and verify private files | build commands, cancellation |
| Local signing (`local_signing.py`) | a lease file, a session journal, native keychain and profile state | open, prepare, activate, run a command, finish, `recover_signing` | keychain, profiles, process owners |
| Cancellation (`cancellation.py`) | signal handlers, a pending-cancel flag, owner and borrow depth, cleanup scopes | install, activate, interrupt, check, deferred, restore; fork | every owner of a resource |
| Play uploader (`play_store.rb`) | an operation journal, one Play edit, a commit answer | upload once, recover a mapping, promote, observe, reconcile an ambiguous commit, close | Google Play, the workflow's intents |
| Apple uploader (`apple_create_retry.rb`, `apple_production.rb`, `apple_store.rb`, `apple_asset_upload.rb`) | a create journal, resource identities, a retry grant | arm, resolve, permit, consume, observe | App Store Connect |
| Store lane lifetime (`store_lane_*.rb`, `_store_lane_*.py`) | documents and resources a lane owns, its phase | arm, settle, close, publish a terminal record | uploaders, process owners |
| Upload processes (`native_upload_*.rb`, `native_process_spawn.rb`) | child processes and their pipes | spawn, supervise, cancel, reap | store lane |
| Process ownership (`_command_process.py`, `_native_process.py`) | three helper processes, the tool's group, six pipes, a fence on disk | spawn, grant, admit, execute, stop, settle, kill, reap, publish an outcome | cancellation, signing, build inputs |
| Profile processes (`_profile_process.py`, `owned_process.py`, `_lifetime_evidence.py`) | one child, a ledger of what could not be proved dead | arm, spawn, observe, signal, reap | signing |
| Release lifecycle (`provenance.py`, `workflow.py`, `stores.py`) | intents, candidates, receipts, external results | create an intent, bind a candidate, consume a receipt | uploaders, workflows |
| Command line (`cli.py`, `preflight.py`, `config.py`, ...) | none of its own | argument handling, checks, reports | all of the above |
| Credentials, checked files (`credentials.py`, `checked_files.py`) | none | parse, validate, single-pass file reads | all of the above |
| Artifact validation (`ios*.py`, `macho.py`, `android*.py`) | none | parse packages, profiles, entitlements | lifecycle |
| CI scripts (`ci_sandbox.py`, `verify_ci.py`) | a session, two machine settings, native phases, gates | admit, run, inspect, dispose, close, publish | the machine, the code under verification |
| Workflows, templates, schemas | runs and artifacts at GitHub | dispatch, re-run | lifecycle |

What is hard in each, and what makes it correct:

- **Init transaction.** Crashes between two renames, renames that took effect and
  raised, editors that are not synchronised with anything, recovery of an
  interrupted recovery. Correct when the project is all new or all original once
  the journal is gone, no byte an editor wrote is lost, a decided outcome is never
  undone, recovery accepts every state the toolkit can leave, and every message
  printed is true.
- **Build inputs.** The same shape with files replaced in place and a build
  running between replacement and restoration. Correct when the originals come
  back, or an explicit journal says why not.
- **Local signing.** A lease that outlives its process, native state that no
  rename can make atomic. Correct when whatever was installed is removed by the
  session or by its recovery, and by one of them only.
- **Cancellation.** Signals at every instruction, inherited handlers, forks.
  Correct when a signal is never lost, cleanup runs once, and the process's own
  handlers come back.
- **Uploaders.** Store mutations cannot be repeated and their answers can be lost.
  Correct when each is sent at most once, durable evidence precedes it, and the
  final claim is what the store says.
- **Process ownership and lane lifetime.** Four processes that can each die at any
  instruction, six pipes, a group whose number must not be reused, grants that are
  written and then fail. Correct when a final outcome means that nothing of the command
  runs any more, a no-target proof means that the tool never ran and never will,
  and a child that cannot be proved dead blocks whatever assumes it is.
- **Lifecycle.** Evidence may be consumed only in order and for the same release.
- **Isolated verification.** Untrusted processes that outlive their command, a census that may not
  know, two machine settings to be put back. Correct when nothing is looked at while it can still be written,
  what others changed is left alone, and green means that every gate passed.

## Modules

| Module | Role |
|---|---|
| `InitTransaction` | the journalled transaction of `init`, every handler an action |
| `AtomicInstall` | what it promises: all planned paths change at the commit, or none |
| `MCInitTransaction`, `InitTransaction_proofs` | the planned paths of the run; the theorems |
| `PlayUpload`, `PlayUpload_proofs` | the Play lanes, their guarded uploader and the Store they talk to |
| `BuildInputs`, `BuildInputs_proofs` | files replaced for a build and their restoration |
| `CommandProcess`, `CommandProcess_proofs` | the owned command: four processes, their pipes, the group, the fence, the outcome |
| `OwnedCommand` | what it promises its caller: one report, true when given and never overtaken |
| `ReleaseLifecycle`, `MCReleaseLifecycle`, `ReleaseLifecycle_proofs` | one version from a candidate to production through runs, attempts and recoveries |
| `SigningSession` | a keychain and a profile in the user's account for one build |
| `StoreLane` | calls that run a Store lane: custody, marker, lane, terminal, receipt |
| `LaneClaims` | what these calls promise, over their state alone |
| `MCSessions`, `MCSessions_proofs` | `SigningSession` and `StoreLane` side by side; the theorems about both |
| `ProfileProcess` | the capture of an authenticated profile by caller, custodian, keeper and validator |
| `NativeChild` | one native child and the two threads that start and settle it |
| `ChildClaim` | what its owner promises, over the state alone |
| `MCOwned`, `MCOwned_proofs` | `ProfileProcess` and `NativeChild` side by side; the theorems about both |
| `SandboxSession`, `NativePhases`, `VerifyPipeline` | the isolated verification: the session, its native phases, the pipeline of gates; each extends the one before |
| `MCVerifyPipeline`, `VerifyPipeline_proofs` | the verifications of the runs; the theorems |

Two components that never meet share a run when both are small (`MCSessions`,
`MCOwned`): a behaviour is one of the one or of the other, and the part that is not
chosen keeps its initial state. Their proofs share a module too, but each theorem is about the
specification of one component (`Spec`, `Lane!Spec`, `Native!Spec`) and not about the pair. `LaneClaims` and `ChildClaim` hold the promises of
the second component as formulas over its state alone, so that the run and the
theorem speak of one definition.

### InitTransaction

State and code. `dest[i]`, `new[i]` and `old[i]` are the objects at planned path
`i`, in its staged slot (`new-i` or `directory-i`) and in its `old-i` slot. An
object stands for what the code calls a binding: inode, mode, size, digest.
`jdir` is the name of the journal directory (`PREPARING`, `READY`, `CLEANUP`), which
is the phase; `ctl` the control files in it. `before` and `after` are the plan.
`pc`, `k`, `mv`, `mode`, `known` (the code's `self.parents`) and `seen`
(`terminal_seen`) are the running process; they are lost at a death. `fate`,
`touched`, `tampered` and `report` observe what was decided, what editors changed
and what the user was told; no action reads them.

A step of the code is a step of the model wherever something can come between:
a move is checked (`MoveCheck`), renamed (`MoveRename`) and settled (`MoveSettle`, or
`MoveUndo` when it captured something else). Cleanup removes one entry per step.
`Fail` raises at any point of a running invocation, before or after a step's
effect, and follows the code's exception path: apply's handler, or an incomplete
recovery. `Crash` keeps only the file system. `EditPath`, `AddStray` and
`WriteThroughHandle` are other programs: they write, create or remove a planned
path, put a file into a created directory, or write through an open handle into
the journal, between any two steps.

Abstractions. Paths are numbers, directories before files, children above their
parents, as the plan sorts them. Objects are compared within one path only. The
advisory lock admits one process, so there is one program counter. Metadata
operations reach the disk in program order (the code calls fsync after each), so
a power loss is a death at some earlier step. Mounts, hard-link aliases, byte
limits and forged journals are left out.

Bounds. `MaxFaults`, `MaxEdits` and `MaxApplies` limit faults, editor steps and
invocations of `--apply`. Recoveries are not bounded.

### PlayUpload

State and code. `stage` and `bound` are the authenticated intent: a candidate or a
promotion, and whether a mapping belongs to it. `track`, `bundle`, `mapping` and
`inflight` are Google Play: its committed state and the commits that got no answer
and may still apply. `edit` and `draft` are the invocation's own edit. `evidence`
is the operation journal, reduced to the one row that later invocations ask for;
`receipt` what the lane wrote; `run` whether this is the run and attempt the intent
names. `pc` follows `guarded_play_upload` through `perform_upload_once` or
`perform_mapping_recovery_once`: `Classify`, `FirstGuard` (the state read in the owned
edit), `Validate` (minutes, outside any guard), `Recheck`, `SendBundle`, `Dispatch`,
`SendMapping`, `UpdateTrack`, `Verify`, `Commit`, then `Readback` or
`ReconcileAmbiguous`, then the second classification and `WriteReceipt`.

A track state is what the code compares it with: the state the intent recorded, the
state it authorizes, or anything else. Google Play is external and modelled by what
the code relies on: edits are committed whole, a commit makes other edits stale,
a bundle may become visible before its edit is committed, any answer can be lost,
and an unanswered commit can apply later (`LateCommit`). `ForeignCommit` and
`ForeignBundle` are other users. `LaterRun` is a new attempt or a recovery run,
which has its own runner.

Bounds. `MaxFaults` limits deaths, interrupts and lost answers, `MaxForeign` changes
by others. Invocations are not bounded.

### BuildInputs

State and code. Each target has four places: `target` in the project, and `stage`,
`backup`, `retired` in the private pending directory. A file is what the code's
binding distinguishes: its content and inode (`obj`) and its change time (`t`), which
every rename advances; `SameObject` is `_same_object(renamed=True)`. `log` is the last
checkpoint on disk and `seq` how many there are; `mem` is what the running process
would write next. `Save` is `_checkpoint` with its three ways of failing: nothing
written, a staged control that nobody will accept, a published checkpoint whose
process believes that it failed; in each case `failed` stops further checkpoints.
`phase` says how an error travels: out of the body into `_finish`, into a conflict of
the row (`_attempt_all` goes on with the next one), or out of the invocation.
`worker` is the build that reads the replaced files; it can outlive its process.

A move is `MoveBegin` (check, checkpoint), `MoveRename` (which may take effect and
raise), `MoveSettle` (observe, checkpoint) and `Moved`. `Restore` decides between
retiring the replacement, restoring the original, and refusing. `Unstage` deletes
the replacement: it is one step because nothing else holds that file once the
workers are idle. `Recover` loads what `_load_pending` accepts (`Loadable`) or goes on
with a terminal control; `Confirm` is the operator's statement that the workers are
gone, which the model takes to be true. `Edit` is another program that replaces, rewrites
or removes a target, or writes through a handle it opened before the original
was moved to its backup place.

Left out: the private scratch files (the directory and its removal are there),
environment frames, the custody lock between invocations, alias and namespace
checks. `Plan` observes all originals in one step: a difference to
the code only if an editor comes between two observations, and `Verify` compares
every target again. The code appends a row before it has read its original (`build_inputs.py:2043`), so an error
in the middle of planning leaves an unprepared row, which restoration (`:2124`) and recovery (`:2358`) refuse: the
files are untouched, and the pending directory stays until an operator looks at it. In the model an
error at `plan` retires the directory; no property depends on it, because nothing has moved, but
`RecoveryEnds` does not speak of that directory.

Bounds. `N` targets; the code's batch has at most two. `MaxCheckpoints` is
`_MAX_CHECKPOINTS` made small, and still above what the passing runs reach;
`MaxFaults`, `MaxEdits` and `MaxSessions` limit faults, edits and builds. Recoveries
are not bounded.

### CommandProcess

Four processes run a command: `O`, the caller; `C`, the custodian, leader of a session
and group of its own (`H`); `A`, the anchor, leader of the group `G` in which the tool
runs, which moves to `H` once the worker has been admitted; `W`, the worker, which
stays in `G`, closes its pipes and executes the tool. The tool may leave a descendant
in `G` and may never end by itself.

State and code. `proc`, `status`, `image`, `kid` and `grp` are the operating system:
who lives, how it ended, what it executes, whether the tool left a child, who is in
which group. `chan` and `shut` are the pipes: the frames of a stream that are on their way, at most one
of each tag, read in the order `Rank` (`_Wire._shape` accepts no other), and which
writers have closed. `body` and `tail` are the stage of each owner's body and of its
cleanup; `has` is what its creator thread returned, `rcpt` whom it has reaped,
`tried` the routes marked as attempted before the first byte (`_Route.attempted`).
`failed`, `unk` and `proto` are `ctx.primary`, `cleanup_unknown` and `poisoned`; `passed`
the limits that have passed. `work`, `seal`, `fence`, `relay`, `term` and
`verdict` are the records: the anchor's settlement, the custodian's seal, the fence on
disk, what the caller relays, the terminal record, and the outcome.

A process reads one frame and acts on it in one step, as one turn of its loop does; what
the others do comes between steps. A kill (`MaxKills`) ends a process from
outside at any step. A fault (`MaxFaults`) is a call that fails where the code handles
it: a spawn that created a child and lost its handle (`SpawnLost`), a grant
written and then failed (`GrantLost`), a signal, a read, a close, a step of the fence. `Deadline`
and `Cutoff` say that a limit in `Limits` has passed, at any moment.
`OwnedCommand` has two variables: `tool` is idle, running or ended, and `report` is
nothing yet, contained, no target, or unknown.

Left out: the content of frames and records (their tag and what the receiver compares
stay), descriptor tables, the creator thread beyond its outcome, the trace of
the fence, the command evidence of a Store lane. A frame is one step; a torn frame
appears as a lost one followed by the end of the stream.

Bounds. `MaxKills`, `MaxFaults`, `Limits` (which limits may pass) and `Requests` (which
forms of command: captured output, journalled fence).

### ReleaseLifecycle

State and code. `runs` are the dispatches of the workflows (stage, head, selectors,
recovery grant), `attempts` what each attempt of a run came to, `artifacts` what they
uploaded: handoff, intent, candidate and the evidence. `active` and `job` are the one
attempt that runs: the phase of its job (`resolve`, `build`, `store`, `prepare`, `persist`,
`execute`, `settle`, `package`) and the documents on its runner. `store` is what the
Store has of this version: the build and the number of its upload, the uploads on their way, and for
the external and the production release whether what it creates is there (`created`, or accepted and not
visible: `pending`), whether what it changes is changed (`patched`), and who approved. A document is the record of what the code binds into it; where the code
compares digests of documents, the model compares the documents.

`DispatchRun`, `RerunAll` and `RerunFailed` are GitHub's, which runs one attempt at a time
(the workflows' concurrency group); `RunResolveJob` is the resolution of the selectors in
`workflow.py` (`Fresh`, `Resume`, `Complete`), `Build`, `RunStoreJob`, `Prepare`, `Persist`, `Execute`,
`Settle` and `Package` are the jobs of the workflows with the commands they call. `StepFails` and `JobLost` end an
attempt at any step; `Expire` and `Delete` take artifacts away, at rest or before the steps that read them.
`Arrive`, `Appear` and `Approve` are Apple's: an accepted binary, or an accepted create, is seen later, and
reviewers decide by themselves.

A Play operation is one edit and an iOS candidate one upload: `Execute` adopts or sends it. An iOS
promotion is many requests: `Execute` checks the state it was prepared on (its own attempt) or the grant
(a later one, and only if a create is missing: `apple_create_retry.rb:96`), and then `Create` sends what is missing,
once in an attempt, and `Patch` what can be sent again without a grant (`Fastfile:2161-2255`). The production's
submission is a `Patch` that needs what was created. `InWindow` is `require_intent_ios_build!`: an iOS candidate
accepts a build only if it was uploaded after its preparation.

Abstractions and assumptions. One release version. A binary is named by the
attempt that built it. A promotion's creates stand for one and its changes for another. The time of an upload is its
number in the order of uploads; the upper end of the window is the time of a readback that has already seen the build,
so it excludes nothing. Apple's processing state, expiry and encryption answers are not modelled: they refuse, and
a refusal is a step that fails. Apple attributes a binary by version and time only, so
`EvidenceMatchesStore` is stated for Google Play, and Apple keeps one binary of a version: after it took another
authorization's (`Overtaken`), the client rightly refuses, and `SentIsRecoverable` claims nothing. The jobs interface of an attempt is
taken to list the jobs that ran in it and no other. `sends`, `issued` and `persisted` observe
mutations, final documents and intents; no action reads them.

Bounds. `MaxAttempts` over all runs together, `MaxFaults`, `MaxLost`, and `MaxStray` for dispatches
that cannot resolve and re-runs of a success (0 in the run; the theorems hold for all).

### SigningSession

State and code. `disk` is the session directory: the intent, the latest checkpoint, the
terminal copy, and which controls have a leftover stage beside them. `fence` is the statement of
a command's custodian that the command is over. `native` is the keychain with its
lock file, `prefs` the account's default keychain and search list, `prof` the
profile's name in the user's directory and its private stage. `tool` is the native
command with its custodian, which outlives the process and inherits the account
lease; `p` is the process that owns it: the session or a recovery.

The session writes its intent, installs the profile (`Install`, the two links of
`credentials.py`), creates and imports the keychain, sets the preferences, runs the
build, then cleans up in the code's order: preferences, profile, keychain, terminal copy,
retirement of the directory. Every native command is prepared, armed, granted, waited for
and retired, with a checkpoint on both sides. `Recover` starts
where a process died: it waits for the fence of the command in flight, observes,
restores what the last checkpoint proves to be the session's, and refuses the rest as a
conflict. `EditPrefs`, `EditProfile` and `DeleteKeychain` are the user, at any moment outside the windows
the documentation reserves (`docs/local-signing.md:244`). `ManualFix` is the
operator's answer to a refusal.

Abstractions. One session. A file's inode and bytes are one value; preference lists are
sets; the set-up commands are create, import and build. Both reads of one observation
are one step. Observations are journalled as the code does. `want`, `told`, `lost` and `since`
observe what the account would be without the session, the last verdict, a custodian
that died before its fence, and the events before this recovery. `MaxEvents` bounds crashes,
failed steps, failed commands, dead custodians and edits, together; recoveries are not bounded.

### StoreLane

State and code. For each call of `mobile-release ci`: where it is, its evidence record
(`_StoreLaneEvidence`: attempted, finished, failed, the first error, the outcome, the
terminal), its cancellation guard, and the states of the four owners bound to it: the
snapshot or metadata, the selected material, the private directory, and the fence
with its marker. `lane` is the Ruby process and its native upload; `markers`, `dirs`,
`inputs`, `outputs` and `evidence` are on the disk. Two executions of one
authorization have the same marker; a preparation has a nonce of its own.

A call takes its handlers, then custody; it makes its inputs, writes the marker, launches, reads the
terminal, and closes everything in the reverse order; only then it retires the marker and
accepts the receipt. Each step may fail, be interrupted by a signal, or be the last one
before a death. The owned command is abstract: refused, ok, settled, something else, a signal, dirty or
unknown; `CommandProcess` is where these come from. The native upload runs in a group of its own, which
that word does not cover: only the lane's terminal does.

Left out: the second, idempotent closing pass of the outer scope; the route that
borrows nothing; the online preflight; the documents' bytes. A failure inside an owner is
a failure of the record, which makes the call fatal and keeps the marker: by design
(`docs/recovery.md:253`: neither a raw receipt nor an absent marker restores authority).
A Ctrl-C between marker and launch, or while closing, leaves the marker too,
although nothing was launched or everything had settled.

### ProfileProcess and NativeChild

`ProfileProcess` is one capture. `O` spawns `C`, `C` spawns `K`, and `K`, alone in a group
it leads, spawns the validator `V` there and moves back, so that the group's number stays
reserved until `C` has waited for `K`. The work comes back as a status from `K`, a payload and a
final record from `C`, and an exit code of each. `pc`, `has`, `got`, `tried`, `lost`, `rcpt`,
`fail` and `unk` are the helpers' contexts; `chan`, `torn`, `shut` and `deaf` the pipes; `groupC` and
`groupK` the two views of the reservation; `payload`, `paid`, `stilled`, `record` and `final`
what is handed up; `verdict` the `CaptureFinality` and the result. A frame is queued and written
in one step whose alternatives are what may come between: the write fails (`Loses`), or the reader
has gone (`Retires`). Signals, Ctrl-C and cutoffs come in the stages in which the code looks for
them. Left out: numbers, bytes, inheritance by fork, `V`'s own native deadline beyond the exit it causes.

`NativeChild` is below it: the owner opens the descriptors of a map, starts the creator thread, grants
it one launch, joins it, waits, and closes what it opened; the creator duplicates, builds the
spawn object, calls `posix_spawn` and retires what it made. A native call returns, fails, or loses its return.
`kernel` is what is really open, made and alive, `lease`, `box` and `acq` what the code believes;
`stray` says that a number was used after it had become somebody else's. The owner is the profile's helper context with its task
slot; the second settlement pass of its `finally`, fork inheritance, the account hold and the ABI's tables
are left out.

### SandboxSession, NativePhases, VerifyPipeline

`SandboxSession` is the root controller of `ci_sandbox.py`: `s` its latched facts (failure,
cancelled, pending, idle, ...), `b` its custody of the namespace limit or of the runner's home, `r`
the current capture, `w` the machine (the subject's leader and its descendants, a trusted helper, the limit,
the mode, the nodes). A *part* (`at.op`) is one statement of the controller; a capture is one
`_run`, with its grace period, kill, sweep and census. `NativePhases` adds the two authority
phases and the checked files, `VerifyPipeline` the gates, the disposal, the close, the summary and the exit of
`verify_ci.py`: a gate is the list of its parts, with one or two captures for several that follow each other and
have nothing between them, and an instance has one gate for those with equal parts. The signing adapter's parts are the
signing matrix's without the proof, so no instance has it; the theorems hold for every list of gates.

A check of a node or value and the system call after it are one step. Others change a limit, a mode or a node
(`Drift`) only right before the session looks, which reaches the same observations. The run's clock passes
where it is read. The native tools, images and policies are abstract.
`MaxEvents` bounds failed steps, unknown censuses, cancellations, drifts, the deadline, together; ends, forks and
launches are free. Two observations the model makes precise: a cancellation or a late alarm after
publication can still turn the exit red though the published summary says ok (`verify_ci.py:6010`), and an alarm that
arrives inside `main`'s except clause skips the close (`escaped`).

## Runs

| Run | Instance | Shows |
|---|---|---|
| `init` | a directory in a directory in the root; 2 faults, 1 editor step, fairness | `OriginalSafe`, `ReportTruthful`, `NoObjectLost`, `TransactionEnds` and the refinement `ImplementsAtomicInstall`: nothing an editor or the project owns is dropped, messages are true, all or nothing, and the journal is removed in the end unless an editor changed what it plans |
| `play_faults` | 3 faults, 2 changes by others, every kind of intent, fairness | `ReleasedOnce`, `ReceiptTruthful`, `NoForeignAdoption`, `ReceiptComes`: the release is committed at most once, receipts are true, nobody else's bundle is adopted, and repeated invocations end with a receipt if nobody else changes the Store |
| `play_mapping` | 1 fault, 1 change by others | a violation of `MappingProven`, see Findings |
| `build` | 2 targets, 1 fault, 1 edit, 2 builds, fairness | `RestoredAtRest`, `WorkerSeesInputs`, `NothingLost`, `RecoveryEnds`: originals are back when the terminal control exists, a worker never reads a half-restored project, no foreign file disappears, a transaction nobody interfered with is retired |
| `build_wedged` | 1 target, 2 errors, no process death | a violation of `RecoveryEnds`, see Findings |
| `command` | a journalled command; 1 kill, 1 fault, the custodian's cutoff | `ContainedIsTrue`, `HoldCovers`, `ResultIsTrue`, and the refinement `KeepsPromise`: finality is containment, what runs on runs under an account lock, a complete result is the tool's own, no report is overtaken |
| `command_ends` | a plain command; 1 kill, the run's deadline, the custodian's cutoff, fairness | `QuietRunCompletes`, `OrphansEnd`, `OutcomeComes`: the caller's death ends the tool, a caller that lives gets its outcome, an undisturbed run completes |
| `release` | 4 attempts, 1 lost job or failure, 1 artifact deleted, both platforms | `RunExecutesOneIntent`, `EvidenceMatchesStore`, `SentOnceUnlessGranted`, `SentIsRecoverable`: a run executes one intent, evidence names the bundle the Store has, Apple gets a binary or a promotion's creates twice only by a grant, and a recovery run can adopt what was sent, late uploads included, or send the rest |
| `sessions_forgotten` | one signing session, 2 events | a violation of `RecoveredMeansRestored`, see Findings |
| `sessions` | one signing session, 2 events; two Store calls, 1 event | `NothingLeftBehind`, `CleanMeansRestored`, `UserWins`, `RecoveryEnds` of the first, `LaneFenced`, `ReceiptIsTrue`, `OrdinaryMeansSettled` of the second |
| `ci` | three verifications of two platforms, 1 event, fairness | `GreenIsTrue`, `ProcessesStayConfined`, `PassIsTrue`, `ForeignStays`, `VerificationEnds`: a green exit is earned, processes stay in their bounds, a gate passes only on finished commands, what others changed is not undone, and every verification reaches an exit |
| `profile` | one capture with every limit and 1 event; one child with 3 descriptors and 3 events | `AcceptedIsTrue`, `FinalityIsTrue`, `QuietRunAccepts`, `ClaimIsTrue`: accepted bytes are whole and settled, the published finality is true, an undisturbed capture does what it is for, and what is said of the child is true and stays so |

### Findings

`play_mapping`. A candidate's bundle, mapping and track are committed in one edit. If
that commit gets no answer, `reconcile_ambiguous_commit!` reads back tracks and bundle
and the lane writes a `reconciled` receipt. A comment in the same file says that a
track-only readback cannot prove an ambiguous mapping commit, and the recovery path
follows that rule; the first upload does not. It takes somebody else who commits the
same release for the claim to be false.

`build_wedged`. `_restore` settles a pending move in memory, deletes the staged
replacement, and writes the checkpoint afterwards. If that checkpoint fails, the
last one on disk still says that the replacement is about to be moved, and the file
that would prove that it was not moved is gone. Every later recovery reports a conflict,
for ever, with the original intact in its place. Two errors that the program catches
are enough, for instance a full disk twice.

`sessions_forgotten`. A signing session that meets a conflict writes it into its terminal copy, and the process
that removes the session reports it. `_retire` removes the terminal copy (`local_signing.py:1396`) and the directory
afterwards. If the process dies in between, the next `recover_signing` finds an empty directory, returns that there is
no conflict (`local_signing.py:1720`), and the command prints `recovered` and exits 0, although the user's search
list is not what it would be without the session. `docs/local-signing.md:68` says that a foreign replacement is
"preserved and reported as a conflict", `:137` that "`recovered-with-conflict` returns 1". In TLC's trace the user
edits the search list between the second reading of it and the write of its checkpoint, and the session dies after it removed the terminal copy.
`CleanMeansRestored` is what does hold: a process that has the checkpoint in hand reports the conflict.

Observations that are no run of their own. An intent that was executed by a recovery run and whose artifact is then deleted no
longer keeps a second attempt of the first run from preparing another one
(`workflow.py:1686`). The keeper `K` of a capture may wait silently for its cutoff.

### Bounds

`init`. Three nested paths have every kind of plan entry that depends on another; a
path that is left alone is `after[i] = NoObj`. Two faults are needed for a failure inside
the handling of a failure. An editor step may fall between check, rename and settlement of
a move. With three objects an editor has one that is neither original nor replacement.
`play_faults`: three faults are a lost commit, the death of the invocation that
reconciles it, and one more in the recovery; two changes by others let somebody
change a track and change it back. `build`: two targets are the code's own limit; one
fault interrupts the build or its recovery, and the theorems below hold for any number (their
invariant was also checked with two faults, 4 million states).
`command`: one kill and one failed call come at any step of any process; a
cutoff may pass at any moment, so it stands for every duration; a captured command only adds conditions to the seal (`SourcesEnded`), it and the
other limits are left to the theorems. `HoldCovers` needs its bound, and its theorem says so (`kills <= 1`): after two kills, of the
caller and of the custodian when the anchor has already settled its worker, the anchor
exits without another group kill, and a descendant of the tool may run on under no lock.
`release`: four attempts are a first one that fails, its re-run, a recovery, and the recovery's re-run, or
one run per stage and one more. `sessions`: two events are a crash and one more in the
recovery, or an edit and a crash (as in `sessions_forgotten`); two calls are enough for one authorization to meet itself.
`ci` and `profile`: one event at any step; with two a capture exceeds the machine used, and every
latched failure already sends the controller down its one way out. The theorems hold for any number.
`NativeChild`: three descriptors give a first, a middle and a last one; three events give a failure, a failure in its
settlement, and an interruption.

### Fairness

`InitTransaction!FairSpec` asks that a running invocation keeps taking steps, and that
`init --recover` is started if no invocation runs: every refusal of the code
names that command, and nothing else leaves a journal. `PlayUpload!FairSpec` asks that an
invocation keeps taking steps, that the operator starts the lane again while there
is no receipt (the documented answer to every refusal), and that an unanswered
commit is settled at some time by Google Play. `BuildInputs!Fairness` asks that the
process keeps taking steps, that builds end, and that the operator repeats
`recover_build_inputs` while it is possible; none of them bounds when.
`CommandProcess!Fairness` asks that each process of the toolkit keeps taking its steps and
that time passes, so that a limit in `Limits` is reached in the end by whoever waits for
it. It asks nothing of the tool, which may run for ever, and no kill and no fault.
`VerifyPipeline!FairSpec` asks that the controller, one process whatever module its step is in, keeps taking steps, that the clock of a
capture passes, that a killed child and a helper end, and that the kernel empties a namespace whose first
process is gone; it asks nothing of the commands under verification.

`SigningSession!RecoveryEnds` is an action property: a recovery in which nothing fails removes the
session unless a custodian died without its fence or something is in the account that no checkpoint proves to be
the session's. Its liveness form, under fairness of process, custodian and recovery, holds too; it
takes TLC longer than all other runs and says little more.

## Theorems

Each theorem holds for every value of the constants that the named assumptions allow. "States" names
the property of a run that the theorem proves.

| Module | Theorem | States |
|---|---|---|
| `InitTransaction_proofs` | `TypeCorrect` | |
| | `OriginalsAreSafe`, `ReportIsTrue`, `NothingIsLost` | `OriginalSafe`, `ReportTruthful`, `NoObjectLost` |
| | `Refinement` | `ImplementsAtomicInstall` |
| | `InstallIsAtomic`, `DecidedIsFinal` | (`AtomicAtRest`, `TerminalFreezesProject`: in no run) |
| `PlayUpload_proofs` | `TypeCorrect`, `EvidenceFirst` | (`EvidencePrecedesMutation`: in no run) |
| | `NoForeignAdopted`, `OneRelease`, `ReceiptsAreTrue` | `NoForeignAdoption`, `ReleasedOnce`, `ReceiptTruthful` |
| `BuildInputs_proofs` | `TypeCorrect` | |
| | `ForeignFilesSurvive`, `WorkersSeeInputs`, `OriginalsComeBack` | `NothingLost`, `WorkerSeesInputs`, `RestoredAtRest` |
| `CommandProcess_proofs` | `Typing`, `NoTargetHolds`, `FenceHolds` | |
| | `ContainedHolds`, `HoldHolds`, `ResultHolds` | `ContainedIsTrue`, `HoldCovers`, `ResultIsTrue` |
| | `PromiseKept` | `KeepsPromise` |
| `ReleaseLifecycle_proofs` | `TypeCorrect`, `MutationsAuthorized`, `OneBuild`, `ProductionWasTested`, `EvidenceEndsSending` | (`AuthorizedMutation`, `BuiltOnce`, `TestedBeforeProduction`, `EvidencedNeverSent`: in no run) |
| | `OneIntentPerRun`, `EvidenceIsTrue` | `RunExecutesOneIntent`, `EvidenceMatchesStore` |
| | `GrantsNeeded`, `SentComesBack` | `SentOnceUnlessGranted`, `SentIsRecoverable` |
| `MCOwned_proofs` | `AcceptanceIsEarned`, `FinalityHolds`, `QuietRunIsAccepted` | `AcceptedIsTrue`, `FinalityIsTrue`, `QuietRunAccepts` |
| | `ClaimHolds` | `ClaimIsTrue` |
| | `NumbersAreOwn`, `ClaimIsFinal` | |
| `MCSessions_proofs` | `LanesAreFenced`, `ReceiptsAreTrue`, `OrdinaryIsSettled` | `LaneFenced`, `ReceiptIsTrue`, `OrdinaryMeansSettled` |
| | `NothingIsLeft`, `CleanIsRestored`, `UserIsKept` | `NothingLeftBehind`, `CleanMeansRestored`, `UserWins` |
| | `InvHolds`, `RecoveryIsAloneHolds` | (`RecoveryIsAlone`: in no run) |
| `VerifyPipeline_proofs` | `Invariant` | |
| | `GreenExit`, `Confinement` | `GreenIsTrue`, `ProcessesStayConfined` |
| | `Passes`, `Foreign` | `PassIsTrue`, `ForeignStays` |

None of these properties is inductive. What makes each so was checked by TLC on the
run's instance, or a larger one, before it was proved.

**InitTransaction**, from `LayoutAssumption` and `BoundAssumption` (parents come before their
children; the bounds are numbers). `IndexInv` (a running move works on a
planned path that has a payload) and `ValueInv` are the types, kept apart because
the one needs arithmetic and the other does not. `PhaseInv` says where an
invocation can be in each phase and that the markers and `fate` agree: without it
a move could run after a commit. `PlaceInv` says where the objects of an untouched
path are: what the check of a move established and still holds at the rename and at the
settlement unless an editor came between, and what the last pass over the paths found.
`ShiftExplained` is the core: a rename whose check held keeps its path explained, and so does
its undo. For the refinement, `ViewSettled` shows that the abstract
view of an untouched path is the result so far, so only planning, the marker
moves, retirement and editors are visible. `BeliefInv` says what the process believes of
its transaction (an apply past its marker has committed; `terminal_seen` is never set
too early; the handler has read it again); with `PlaceInv` every report is true.
`SlotInv` (a path without payload has no slots, a slot is filled once, and from the marker on one side
of every path is empty) leaves only cleanup to drop an object.

**PlayUpload**, from `BoundAssumption`. `EvidenceInv` says at which steps of an invocation the
dispatch row must exist, and `DraftInv` what its edit holds there. `ReleaseInv` is what makes
`ReleasedOnce` inductive: with nobody else at work, an unanswered commit that may still apply, an
applied release and an edit that could release again exclude one another, because
a commit makes every other edit stale. `MappingInv` says which mapping a draft or an
unanswered commit carries, and `ReceiptInv` what an invocation knows when it
writes the receipt.

**BuildInputs**, from `BatchAssumption`, `EditAssumption` (an edited file is
neither the original nor the replacement) and `BoundAssumption`. `OwnInv` says that a binding recorded
as the replacement is one: together with `NoneInv`
(recorded bindings of nothing) it makes every deletion a deletion of the toolkit's own
file. For the worker, `PhaseInv` says that restoration starts only from a quiescence
that was written down, `ForwardInv` what the forward moves have reached, and
`WorkerInv` that no quiescence is recorded while a worker runs. For the originals, `StageInv` says where an
invocation is and what it has planned, and `RowInv` that what memory and the last checkpoint say of each
unedited target is true: before the plan nothing has moved, the plan holds the originals, a row marked
restored has its original in place, and at a rename the checkpoint equals the memory.

**CommandProcess**, from `BoundsAssumption` (the bounds are numbers), so for any number of kills and
failed calls and every set of limits; only `HoldHolds` has a hypothesis, `kills <= 1` (see Bounds).
Each record speaks of processes its writer cannot see. `Family` says who has which child and who was never born.
`Dispatch` says that the one-use grant goes down one owner at a time. `Records` says for each record what its
writer knew. `Emptied` says that a group the custodian found empty stays empty while the
anchor is unreaped. `Unborn` (a process nobody may create any more is never born) and
`ToolWasDispatched` carry `NoTargetHolds`; `FinalIsOver` carries `ContainedHolds`. In the refinement
`ExecStarts` is the step that starts the abstract tool, `PublicationReports` the one that
reports, and `OtherSteps` shows that the rest stutter or end the tool. For the other two: `Held` (a custodian past its
group kill, or dead by its own exit, leaves no worker that runs or can be made), `Deaths` (a helper that
died without being settled was killed), `Blame` (only a failed owner kills the tool; what is settled stays
settled) and `Settlement` (the records repeat the wait status that was settled).

**ReleaseLifecycle**, from `BoundAssumption` and `BranchAssumption`. The types `TInv` are the parts `RunsType`, `Selectors`, `JobType`, `DocsType`
and `StoreType`; `BuildInv` says which attempt built the binary in hand. `Documents` adds `DocsInv` (what a document
names was issued before it), `ArmedInv` (a job that creates or waits has what authorized it: for a later
attempt a create that is there, or its own grant; this makes `GrantsNeeded` hold although the grant is checked before the
creates), `SendsInv` (a mutation was authorized by a persisted intent) and `StoreInv` (what the Store has was sent).
`OneIntent` (`OwnDocs`, `OwnGates`, `OwnJob`) says that a run's documents, its gates and its job speak of one intent.
`SentComesBack` needs `Recoverable`: persisted intents rest on issued documents that verify
(`SoundInv`), an intent names an existing attempt and issued intents are persisted (`NamedInv`), a
run executes or issues only one intent and promotions prepare in their first attempt only
(`AloneInv`), a run has one handoff, built by itself (`HandoffInv`). `HeldInv` says that Google Play keeps what was sent, and that of
every build Apple shows, or will show, the operation that sent it is known and was prepared before the upload (`Carried`):
a build that is another authorization's is `Overtaken`, any other one is in the window.

**ProfileProcess**, without assumptions: for every set of limits and any number of events, where the run has one.
`CaptureInv` is checked by TLC on the run's instance. `Kinship` says who was born and what a receipt
repeats, `Carried` that what is read was written, `Dispatched` that RUN goes down one owner at a time. The core is
`Reserved`: the keeper leaves its group only when it will make nothing more, so a group once found empty stays empty
(`EmptyStays`) although the validator's own processes are invisible to the custodian. `Payments` says
that the payload leaves only when all below is over, `Concluded` that what FINAL says stays true, `Judged` what the
caller's verdict rests on. The actions enter through five relations on parts of the state (`WorldRel`, `StageRel`,
`PlaceRel`, `FrameRel`, `FactRel`: processes, stages, the keeper's place, frames, records), proved action by action; each part of the
invariant then follows from the relations it needs, without another look at the actions.
For the undisturbed run `Course` numbers the stages of the three owners and says at which stage each frame is
written, read and answered, who has been reaped and what the records say; `Borne`, that no frame is lost on its way
or read twice, gives `InOrder`: a frame is read after all before it. `Pace` is how far the three can be apart. `Well`
shows that then nobody is late or in trouble and every write succeeds, `Steps` that any other step leaves an event
or a passed limit behind; `Course` was checked by TLC to be inductive before its proof.

**NativeChild**, without assumptions. `Inv` is the type and eight parts: `LeaseInv` and `ObjectInv` say what a lease or
the spawn object says of the kernel, `ProcessInv` what is known of the process, `CreatorInv`, `BorrowInv` and `OwnerInv` what
each thread may still do, `ClaimInv` and `OwnNumbersOnly` the results. There is one lemma per action.

**StoreLane**, without assumptions. `Inv` says of each call (`SoundCall`) at which stage which owner is open (`Stages`), what is
settled when its record is finished (`Settled`), what its lane may still be (`LaneFacts`), what its custody holds
(`Custodied`) and what a receipt rests on (`Receipted`); `MarkersInv` that a marker belongs to one call that holds it,
`OutputsInv` who may have written an output.

**SigningSession**, without assumptions. `Inv` is stated of a process, a directory and a verdict, so that the
lemmas `Save`, `Step` and `Fail` cover what every checkpoint, every step and every exception has in common;
there is one lemma per action. The user edits the account meanwhile, so nothing can say that
the account is as the session left it. Instead `AccountInv` says what of the user's values is there when it is
not hidden, `Sound` that a checkpoint that never tried the search list finds it whole, and that otherwise it
knows of a conflict or its values are still those of the user; `Planned` says that the intent can put back what is
hidden. `Writes` bounds what a preference command that is not over yet may still write, `ToolInv` where the
process is while one is alive; at the gate of a recovery that leaves none. `KeepInv`, `CloseInv` and
`EndInv` carry this to the end: the terminal copy exists only once nothing of the session is in the account.

**VerifyPipeline**, from `VerificationsAssumption`: for every list of gates and any number of
events. `Planned` ties each operation to its place in the plan, so a fact established by one part is found by the part that
needs it. `Quiet` and `Child` say which processes there can be at each place: none between two parts but the
sentinel, and a capture knows of its child what is true of it. `Stained` says that a subject that did not
succeed is seen, or about to be, by the capture that ran it, so no gate goes on after it; `~seen.touched` that no
tree is touched under a process that may write it. `Opening` and `Fenced` say that the limit on user namespaces
is as it was only before the first process and after the last one, `Recorded` that what was changed on the machine is in the
custody, `Undone` that a session without a failure has put it back. `Counted` and `Earned` say
that the gates that passed are those before the current one and that proof and checked files were there, `Reported` that the
report repeats it. A latched failure closes every way to green: that is what `GreenExit` needs of all of them.

Model-checked only. Liveness under fairness is out of the prover's reach: `TransactionEnds`, `ReceiptComes`,
`BuildInputs!RecoveryEnds`, `OrphansEnd`, `OutcomeComes`, `VerificationEnds`. Not yet attempted:
`CommandProcess!QuietRunCompletes` and `SigningSession!RecoveryEnds` (the invariant of each is the whole course of
an undisturbed run or recovery).

## Not modelled

- The Apple uploader (`apple_*.rb`), whose create journal and retry grant `ReleaseLifecycle` knows only as a
  creates that need a grant and changes that need none, and the Ruby native upload processes, which `StoreLane` knows as a process that
  may outlive its lane.
- The private file writer and the scratch files of `build_inputs.py`, the snapshot owner of
  `ios_artifacts.py`, the online preflight.
- Signal masks and nested guards of `cancellation.py` beyond what a lane uses.
- Artifact validation, credentials and configuration parsing: pure functions of byte strings whose
  interesting inputs are beyond bounded checking.
- The command line's formatting, `ci_checks.py` and the other pure checks of CI, the workflow files beyond the order of
  their jobs, templates and schemas.

## Plan

1. Proofs: `QuietRunCompletes`, `SigningSession!RecoveryEnds`.
2. `AppleCreate`: at most one create per resource across runs and retry grants.
3. `PrivateInputs`: the private files of a lane, from the checked read to their disposal.
4. The native upload processes, as a `NativeChild` with one more owner.
5. An abstract specification of `BuildInputs` with its refinement.
