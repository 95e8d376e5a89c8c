---------------------------- MODULE SigningSession ----------------------------
(***************************************************************************)
(* One local signing session (SigningSession and recover_signing in        *)
(* local_signing.py, the profile installer and the signing environment in  *)
(* credentials.py): an ephemeral keychain and a provisioning profile are   *)
(* put into the user's account for one build and taken out again, by the   *)
(* process that put them there or by a later recovery.                     *)
(*                                                                         *)
(* The account is shared with the user, who may edit it at any time.  The  *)
(* session directory holds an intent, the latest checkpoint, a terminal    *)
(* copy and the fence in which the custodian of a native command states    *)
(* that the command is over.  The process may stop at any step; the        *)
(* custodian outlives it and inherits the account lease.                   *)
(*                                                                         *)
(* A file's inode and bytes are one value.  Preference lists are sets.     *)
(* External: the security tool, the custodian, the user.                   *)
(***************************************************************************)
EXTENDS Naturals

CONSTANTS
  MaxEvents    \* bound: crashes, failed steps, failed commands, dead custodians,
               \* edits of the user, together

ASSUME BoundAssumption == MaxEvents \in Nat

VARIABLES
  disk,        \* the session directory
  fence,       \* the command fence in it
  native,      \* the keychain and its lock in the session directory
  prefs,       \* the account's default keychain and search list
  prof,        \* the profile's name and the private stage beside it
  tool,        \* the native command and its custodian
  p,           \* the process that owns the account lease
  want, told, lost, since,  \* observers: the account without us, the last verdict, a
                      \* custodian that died before its fence, events before this recovery
  events              \* bound counter

account == <<native, prefs, prof>>
vars == <<disk, fence, account, tool, p, want, told, lost, since, events>>

None == [none |-> TRUE]
Fields == {"default", "search"}
NoKeychain == [db |-> "none", lock |-> FALSE]
NoPrefs == [default |-> "none", search |-> {}]
NoFence == [at |-> "none", out |-> "none"]
NoTool == [life |-> "none", kind |-> "none", arg |-> NoPrefs, rc |-> "none", read |-> NoPrefs]
NoCommand == [kind |-> "none", arg |-> NoPrefs, ret |-> "none", rc |-> "none"]
NoInstaller == [reused |-> FALSE, made |-> FALSE, tried |-> FALSE, linked |-> FALSE,
                conflicts |-> {}, active |-> FALSE]

\* The memory of no process.
Idle ==
  [mode |-> "none", pc |-> "idle", at |-> "none", back |-> "none", field |-> "none",
   intent |-> None, mem |-> None, cmd |-> NoCommand, cur |-> NoPrefs, keep |-> NoPrefs,
   inst |-> NoInstaller, unresolved |-> FALSE, journalFailed |-> FALSE,
   profileConflict |-> FALSE, bad |-> FALSE]

NoSession == [dir |-> FALSE, keys |-> FALSE, intent |-> None, state |-> None,
              completed |-> None, pending |-> {}]

Init ==
  /\ disk = NoSession /\ fence = NoFence /\ native = NoKeychain /\ tool = NoTool
  /\ prefs = [default |-> "orig", search |-> {"orig"}]
  /\ prof \in [name : {"none", "same", "diff"}, stage : {"none"}]
  /\ p = Idle /\ want = [prefs |-> prefs, name |-> prof.name] /\ told = "none" /\ lost = FALSE
  /\ since = 0 /\ events = 0

-----------------------------------------------------------------------------
(* How a process goes on, fails and ends; checkpoints.                     *)

Charge == events < MaxEvents /\ events' = events + 1

\* The original checkpoint of a session.
InitialState(intent) ==
  [native |-> NoKeychain, inflight |-> None, prefs |-> intent.prefs, tried |-> {},
   cleaning |-> FALSE, conflict |-> FALSE, phase |-> "not-started", stage |-> FALSE,
   own |-> FALSE, borrowed |-> "none"]

Detached(v) == v.default # "own" /\ "own" \notin v.search

\* Resources of this session that are in the account.
Owned == native # NoKeychain \/ ~Detached(prefs) \/ prof.stage # "none" \/ prof.name = "own"

End(verdict) == p' = Idle /\ told' = verdict

\* A command is in flight: its failure leaves it unresolved.
InFlight == {"launch", "arm", "go", "wait", "retire", "clear"}

Handler(at) == CASE at = "install" -> "undo" [] at \in {"native", "undo"} -> "undo"
                 [] OTHER -> "cleanup"

\* An exception: the cleanup that encloses the failed step, or the end.
Raise(q) ==
  IF q.mode = "recovery" \/ q.at = "finish" THEN End("failed")
  ELSE /\ p' = [q EXCEPT !.pc = Handler(q.at),
                         !.unresolved = @ \/ q.pc \in InFlight,
                         !.bad = @ \/ q.at \in {"native", "undo"}]
       /\ UNCHANGED told

Go(q, next) == p' = [q EXCEPT !.pc = next] /\ UNCHANGED told

\* _write: a leftover stage or an earlier failure refuses, a fault leaves the old
\* control, the new one, or the stage.
Write(q, name, written, next) ==
  IF q.journalFailed \/ name \in disk.pending
  THEN Raise([q EXCEPT !.journalFailed = TRUE]) /\ UNCHANGED <<disk, events>>
  ELSE \/ disk' = written /\ Go(q, next) /\ UNCHANGED events
       \/ /\ Charge /\ Raise([q EXCEPT !.journalFailed = TRUE])
          /\ disk' \in {disk, written, [disk EXCEPT !.pending = @ \cup {name}]}

Checkpoint(q, next) == Write(q, "state", [disk EXCEPT !.state = q.mem], next)

\* A native command, and where the process goes on once it is settled.
Call(q, kind, arg, ret) ==
  Go([q EXCEPT !.cmd = [kind |-> kind, arg |-> arg, ret |-> ret, rc |-> "none"]], "prepare")

\* observe: a command of its own while the session is active.
Look(q, ret) ==
  IF q.mode = "recovery" \/ q.mem = None THEN Go([q EXCEPT !.cur = prefs], ret)
  ELSE Call(q, "observe", NoPrefs, ret)

At(pc) == p.pc = pc
Quiet == UNCHANGED <<fence, account, tool, want, lost, since>>   \* p, told, disk, events may change
Calm == Quiet /\ UNCHANGED <<disk, events>>                       \* only p and told change

-----------------------------------------------------------------------------
(* One native command: PREPARED, ARMED, the custodian's fence, SETTLED.    *)

Prepare ==
  /\ At("prepare") /\ Quiet
  /\ IF ~p.unresolved /\ p.mem.inflight = None /\ fence = NoFence /\ native = p.mem.native
     THEN Checkpoint([p EXCEPT !.mem.inflight =
            [kind |-> p.cmd.kind, phase |-> "PREPARED", out |-> "none"]], "launch")
     ELSE Raise(p) /\ UNCHANGED <<disk, events>>

\* The custodian takes the command; or none could be created.
Launch ==
  /\ At("launch")
  /\ \/ /\ tool' = [NoTool EXCEPT !.life = "held", !.kind = p.cmd.kind, !.arg = p.cmd.arg]
        /\ Go(p, "arm") /\ UNCHANGED events
     \/ Charge /\ tool' = [NoTool EXCEPT !.rc = "unborn"] /\ Go(p, "wait")
  /\ UNCHANGED <<disk, fence, account, want, lost, since>>

\* No command starts before the armed checkpoint is durable.
Arm ==
  /\ At("arm") /\ Quiet
  /\ \/ Checkpoint([p EXCEPT !.mem.inflight.phase = "ARMED"], "go")
     \/ Charge /\ Go(p, "wait") /\ UNCHANGED disk

Grant ==
  /\ At("go") /\ Go(p, "wait")
  /\ tool' = [tool EXCEPT !.life = IF @ = "held" THEN "running" ELSE @]
  /\ UNCHANGED <<disk, fence, account, want, lost, since, events>>

Changes(kind) == kind \in {"create", "import", "build"}

\* What the inventory may be after a command.
Plausible(kind, rc) ==
  CASE rc \in {"never", "unborn"} -> native = p.mem.native
    [] Changes(kind) -> native.db # "none" \/ (kind = "create" /\ rc = "fail" /\ native = NoKeychain)
    [] kind = "delete" -> /\ native.db = "none" \/ (rc = "fail" /\ native.db = p.mem.native.db)
                          /\ native.lock => p.mem.native.lock
    [] OTHER -> native = p.mem.native

\* finish_original_command_if_settled: the outcome and the fence must agree.
Outcome(rc) == IF rc \in {"never", "unborn"} THEN "never" ELSE "settled"
Settle ==
  /\ At("wait") /\ tool.life \in {"none", "stray"} /\ Quiet
  /\ IF /\ tool.rc \in {"ok", "fail", "never", "unborn"} /\ Plausible(p.cmd.kind, tool.rc)
        /\ IF tool.rc = "unborn" THEN fence = NoFence
           ELSE fence = [at |-> "pair", out |-> Outcome(tool.rc)]
     THEN Checkpoint([p EXCEPT !.mem.inflight.phase = "SETTLED",
                               !.mem.inflight.out = IF tool.rc = "unborn" THEN "nofence" ELSE fence.out,
                               !.mem.native = native, !.cmd.rc = tool.rc], "retire")
     ELSE Raise(p) /\ UNCHANGED <<disk, events>>

\* _retire_fence: the stage first, the fence last.
Retire ==
  /\ At("retire") /\ fence # NoFence
  /\ \/ /\ fence' = IF fence.at = "pair" THEN [fence EXCEPT !.at = "final"] ELSE NoFence
        /\ UNCHANGED <<p, told, events>>
     \/ Charge /\ Raise([p EXCEPT !.journalFailed = TRUE]) /\ UNCHANGED fence
  /\ UNCHANGED <<disk, account, tool, want, lost, since>>

\* The checkpoint without the command; a result that is not zero is the caller's error.
Clear ==
  /\ At("retire") /\ fence = NoFence /\ Quiet
  /\ LET q == [p EXCEPT !.mem.inflight = None, !.cmd = NoCommand,
                        !.cur = IF p.cmd.kind = "observe" THEN tool.read ELSE @]
     IN Checkpoint(q, IF p.cmd.rc = "ok" THEN p.cmd.ret ELSE "refused")

Refused == At("refused") /\ Raise(p) /\ Calm

Command == Prepare \/ Launch \/ Arm \/ Grant \/ Settle \/ Retire \/ Clear \/ Refused

-----------------------------------------------------------------------------
(* The tool and its custodian.                                             *)

\* The account after the command did its work.
Effect(kind, arg) ==
  CASE kind = "create" ->
         /\ native' \in [db : {"made"}, lock : BOOLEAN]
         /\ prefs' \in {prefs, [prefs EXCEPT !.search = @ \cup {"own"}]}
    [] kind \in {"import", "build"} ->
         /\ native' \in (IF native.db = "none" THEN {native} ELSE [db : {"built"}, lock : BOOLEAN])
         /\ UNCHANGED prefs
    [] kind \in Fields -> prefs' = [prefs EXCEPT ![kind] = arg[kind]] /\ UNCHANGED native
    [] kind = "delete" -> native' \in {NoKeychain, [native EXCEPT !.db = "none"]} /\ UNCHANGED prefs
    [] OTHER -> UNCHANGED <<native, prefs>>

ToolRuns ==
  /\ tool.life = "running" /\ UNCHANGED prof
  /\ \/ /\ Effect(tool.kind, tool.arg) /\ UNCHANGED events
        /\ tool' = [tool EXCEPT !.life = "ended", !.rc = "ok", !.read = prefs]
     \/ /\ Charge /\ (Effect(tool.kind, tool.arg) \/ UNCHANGED <<native, prefs>>)
        /\ \E rc \in {"fail", "killed"} : tool' = [tool EXCEPT !.life = "ended", !.rc = rc]
  /\ UNCHANGED <<disk, fence, p, want, told, lost, since>>

\* Nobody will grant the run any more.
ToolNever ==
  /\ tool.life = "held" /\ p.pc \notin {"arm", "go"}
  /\ tool' = [tool EXCEPT !.life = "ended", !.rc = "never"]
  /\ UNCHANGED <<disk, fence, account, p, want, told, lost, since, events>>

FenceStage ==
  /\ tool.life = "ended" /\ tool' = [tool EXCEPT !.life = "fencing"]
  /\ fence' = [at |-> "pending", out |-> Outcome(tool.rc)]
  /\ UNCHANGED <<disk, account, p, want, told, lost, since, events>>

FencePublish ==
  /\ tool.life = "fencing" /\ tool' = [tool EXCEPT !.life = "none"]
  /\ fence' = [fence EXCEPT !.at = "pair"]
  /\ UNCHANGED <<disk, account, p, want, told, lost, since, events>>

\* The custodian dies; a running command stays behind without the lease.
CustodianDies ==
  /\ tool.life \in {"held", "running", "ended", "fencing"} /\ Charge /\ lost' = TRUE
  /\ tool' = [tool EXCEPT !.life = IF @ = "running" THEN "stray" ELSE "none", !.rc = "lost"]
  /\ UNCHANGED <<disk, fence, account, p, want, told, since>>

StrayRuns ==
  /\ tool.life = "stray" /\ Effect(tool.kind, tool.arg)
  /\ tool' = [tool EXCEPT !.life = "none"]
  /\ UNCHANGED <<disk, fence, prof, p, want, told, lost, since, events>>

Custodian == ToolRuns \/ ToolNever \/ FenceStage \/ FencePublish

-----------------------------------------------------------------------------
(* A new session: the intent, then the profile.                            *)

\* open, prepare: only in an account without a pending session.
Start ==
  /\ p = Idle /\ ~disk.dir /\ told = "none"
  /\ p' = [Idle EXCEPT !.mode = "normal", !.at = "setup", !.pc = "keys"] /\ UNCHANGED told
  /\ disk' = [disk EXCEPT !.dir = TRUE]
  /\ UNCHANGED <<fence, account, tool, want, lost, since, events>>

MakeKeys ==
  /\ At("keys") /\ disk' = [disk EXCEPT !.keys = TRUE] /\ Go(p, "baseline")
  /\ UNCHANGED events /\ Quiet

Baseline == At("baseline") /\ Look(p, "intent") /\ Calm

\* The name's snapshot is taken and the intent written.
Intend ==
  /\ At("intent") /\ Quiet
  /\ LET intent == [prefs |-> p.cur, before |-> prof.name]
     IN Write([p EXCEPT !.intent = intent], "intent", [disk EXCEPT !.intent = intent], "first")

First ==
  /\ At("first") /\ Quiet
  /\ Checkpoint([p EXCEPT !.mem = InitialState(p.intent), !.at = "install",
                          !.inst.active = TRUE], "look")

\* profile_event.
Event(q, phase, next) == Checkpoint([q EXCEPT !.mem.phase = phase], next)

Conflict(q, name) == [q EXCEPT !.inst.conflicts = @ \cup {name}, !.profileConflict = TRUE]

Inspect ==
  /\ At("look") /\ Quiet
  /\ Event(p, "inspected", CASE prof.name = "none" -> "staging" [] prof.name = "same" -> "reuse"
                             [] OTHER -> "refused")

Borrow(q, next) ==
  Event([q EXCEPT !.inst.reused = TRUE, !.mem.borrowed = "same"], "reused", next)
Reuse ==
  /\ At("reuse") /\ Quiet
  /\ IF prof.name = "same" THEN Borrow(p, "confirm")
     ELSE Raise(Conflict(p, "name")) /\ UNCHANGED <<disk, events>>

Staging == At("staging") /\ Event(p, "stage-intent", "make") /\ Quiet

MakeStage ==
  /\ At("make") /\ prof' = [prof EXCEPT !.stage = "part"]
  /\ Go([p EXCEPT !.inst.made = TRUE], "made")
  /\ UNCHANGED <<disk, fence, native, prefs, tool, want, lost, since, events>>
Made == At("made") /\ Event([p EXCEPT !.mem.stage = TRUE], "stage-created", "fill") /\ Quiet
Fill ==
  /\ At("fill") /\ prof' = [prof EXCEPT !.stage = "own"] /\ Go(p, "linking")
  /\ UNCHANGED <<disk, fence, native, prefs, tool, want, lost, since, events>>

\* Ownership is armed before the name exists.
Linking == At("linking") /\ Event([p EXCEPT !.inst.tried = TRUE], "link-intent", "link") /\ Quiet
Link ==
  /\ At("link")
  /\ \/ /\ prof.name = "none" /\ prof' = [prof EXCEPT !.name = "own"]
        /\ Go([p EXCEPT !.inst.linked = TRUE], "linked") /\ UNCHANGED events
     \/ /\ prof.name = "none" /\ Charge /\ Raise(p)    \* the result of the call is lost
        /\ prof' \in {prof, [prof EXCEPT !.name = "own"]}
     \/ /\ prof.name # "none" /\ UNCHANGED <<prof, events>>
        /\ IF prof.name = "same" THEN Go([p EXCEPT !.inst.reused = TRUE], "borrow") ELSE Raise(p)
  /\ UNCHANGED <<disk, fence, native, prefs, tool, want, lost, since>>
LateBorrow == At("borrow") /\ Borrow(p, "linked") /\ Quiet
Linked == At("linked") /\ Event([p EXCEPT !.mem.own = p.inst.linked], "linked", "unstage") /\ Quiet

Unstage ==
  /\ At("unstage")
  /\ \/ /\ prof' = [prof EXCEPT !.stage = "none"] /\ UNCHANGED events
        /\ Go([p EXCEPT !.inst.made = FALSE], "unstaged")
     \/ /\ Charge /\ Raise(Conflict(p, "stage")) /\ prof' \in {prof, [prof EXCEPT !.stage = "none"]}
  /\ UNCHANGED <<disk, fence, native, prefs, tool, want, lost, since>>
Unstaged == At("unstaged") /\ Event(p, "stage-removed", "confirm") /\ Quiet

\* The admitted profile is still the one under the name.
Confirm ==
  /\ At("confirm") /\ Calm
  /\ IF prof.name = (IF p.inst.linked THEN "own" ELSE "same")
     THEN Go([p EXCEPT !.at = "body"], "create") ELSE Raise(Conflict(p, "name"))

Install ==
  \/ Inspect \/ Reuse \/ Staging \/ MakeStage \/ Made \/ Fill \/ Linking \/ Link \/ LateBorrow
  \/ Linked \/ Unstage \/ Unstaged \/ Confirm

-----------------------------------------------------------------------------
(* The keychain and the preferences: activate.                             *)

Create == At("create") /\ Call(p, "create", NoPrefs, "import") /\ Calm
Import == At("import") /\ Call(p, "import", NoPrefs, "created") /\ Calm

Watch == At("created") /\ Look(p, "watch") /\ Calm

AfterCreate ==
  /\ At("watch") /\ Quiet
  /\ IF p.cur.default = p.intent.prefs.default /\ p.cur.search \ {"own"} = p.intent.prefs.search
     THEN Checkpoint([p EXCEPT !.mem.prefs = p.cur, !.field = "search"], "before")
     ELSE Raise(p) /\ UNCHANGED <<disk, events>>

Value(field) == IF field = "search" THEN {"own"} ELSE "own"

Before == At("before") /\ Look(p, "attempt") /\ Calm
Attempt ==
  /\ At("attempt") /\ Quiet
  /\ IF p.cur = p.mem.prefs
     THEN Checkpoint([p EXCEPT !.mem.tried = @ \cup {p.field}], "set")
     ELSE Raise(p) /\ UNCHANGED <<disk, events>>
Set ==
  /\ At("set") /\ Calm
  /\ Call(p, p.field, [p.mem.prefs EXCEPT ![p.field] = Value(p.field)], "reread")
Reread == At("reread") /\ Look(p, "remember") /\ Calm

\* remember_preferences.
Remember ==
  /\ At("remember") /\ Quiet
  /\ IF p.cur = (IF p.field = "both" THEN [default |-> "own", search |-> {"own"}]
                 ELSE [p.mem.prefs EXCEPT ![p.field] = Value(p.field)])
     THEN Checkpoint([p EXCEPT !.mem.prefs = p.cur,
            !.field = CASE @ = "search" -> "default" [] @ = "default" -> "both" [] OTHER -> "none"],
            CASE p.field = "search" -> "before" [] p.field = "default" -> "reread" [] OTHER -> "build")
     ELSE Raise(p) /\ UNCHANGED <<disk, events>>

\* The signing user, and the end of the body.
Build == At("build") /\ Call(p, "build", NoPrefs, "leave") /\ Calm
Leave == At("leave") /\ Go(p, "cleanup") /\ Calm

Body ==
  \/ Create \/ Import \/ Watch \/ AfterCreate \/ Before \/ Attempt \/ Set \/ Reread \/ Remember
  \/ Build \/ Leave

-----------------------------------------------------------------------------
(* cleanup_signing: native resources, the installer's files, the session.  *)

Retain == p.unresolved \/ (p.mem # None /\ p.mem.inflight # None)

Cleanup ==
  /\ At("cleanup") /\ Calm
  /\ IF p.mem = None \/ p.journalFailed \/ Retain THEN Go([p EXCEPT !.at = "undo"], "undo")
     ELSE Go([p EXCEPT !.at = "native"], "native")

\* Nothing is taken for ours whose identity no checkpoint holds.
Known == (native.db = "none" \/ native.db = p.mem.native.db) /\ (native.lock => p.mem.native.lock)

CleanNative ==
  /\ At("native") /\ Quiet
  /\ IF Known
     THEN Checkpoint([p EXCEPT !.mem.conflict = @ \/ (native # p.mem.native /\ ~p.mem.cleaning),
                               !.mem.native = native, !.mem.cleaning = TRUE], "survey")
     ELSE Raise(p) /\ UNCHANGED <<disk, events>>
Survey == At("survey") /\ Look(p, "surveyed") /\ Calm

\* Mutant: preferences that changed are no conflict.
Surveyed_Silent ==
  /\ At("surveyed") /\ Calm
  /\ Go([p EXCEPT !.keep = p.cur, !.field = "default"], "now")

Surveyed ==
  /\ At("surveyed") /\ Calm
  /\ Go([p EXCEPT !.mem.conflict = @ \/ p.cur # p.mem.prefs, !.keep = p.cur, !.field = "default"], "now")
Now == At("now") /\ Look(p, "target") /\ Calm

Target ==
  LET original == p.intent.prefs IN
  IF p.field = "default"
  THEN IF p.cur.default = "own" THEN [p.cur EXCEPT !.default = original.default] ELSE p.cur
  ELSE [p.cur EXCEPT !.search = IF "search" \in p.mem.tried /\ @ = {"own"} THEN original.search
                                ELSE @ \ {"own"}]
Kept(q) ==
  Checkpoint([q EXCEPT !.mem.prefs = q.keep, !.field = "search"],
             IF q.field = "default" THEN "now" ELSE "drop")
Choose ==
  /\ At("target") /\ Quiet
  /\ IF p.cur # p.keep THEN Raise(p) /\ UNCHANGED <<disk, events>>
     ELSE IF Target = p.cur THEN Kept(p)
     ELSE /\ Call([p EXCEPT !.keep = Target], p.field, Target, "readback")
          /\ UNCHANGED <<disk, events>>
Readback == At("readback") /\ Look(p, "compare") /\ Calm
Compare ==
  /\ At("compare") /\ Quiet
  /\ IF p.cur = p.keep THEN Kept(p) ELSE Raise(p) /\ UNCHANGED <<disk, events>>

Drop ==
  /\ At("drop") /\ Calm
  /\ IF ~Detached(p.keep) THEN Raise(p)
     ELSE IF p.mem.native.db # "none" THEN Call(p, "delete", NoPrefs, "deleted")
     ELSE Go(p, "unlock")
Deleted == At("deleted") /\ Look(p, "unchanged") /\ Calm
Unchanged == At("unchanged") /\ (IF p.cur = p.keep THEN Go(p, "unlock") ELSE Raise(p)) /\ Calm
Unlock ==
  /\ At("unlock")
  /\ IF ~p.mem.native.lock THEN Go(p, "verify") /\ UNCHANGED native
     ELSE IF native = p.mem.native THEN native' = NoKeychain /\ Go(p, "unlocked")
     ELSE Raise(p) /\ UNCHANGED native
  /\ UNCHANGED <<disk, fence, prefs, prof, tool, want, lost, since, events>>
Unlocked == At("unlocked") /\ Checkpoint([p EXCEPT !.mem.native = NoKeychain], "verify") /\ Quiet
Verify == At("verify") /\ Look(p, "verified") /\ Calm
Verified ==
  /\ At("verified") /\ Calm
  /\ IF native = NoKeychain /\ p.cur = p.keep
     THEN IF p.mode = "normal" THEN Go([p EXCEPT !.at = "undo"], "undo")
          ELSE Go([p EXCEPT !.back = "finish"], "stage")
     ELSE Raise(p)

\* The installer takes back its own files, unless a command may still use them.
Undo ==
  /\ At("undo")
  /\ LET i == p.inst
         next == IF p.at = "install" THEN "cleanup" ELSE "close"
         mine == i.tried /\ ~i.reused /\ "name" \notin i.conflicts
         staged == i.made /\ "stage" \notin i.conflicts
         moved == \/ i.reused /\ prof.name # "same"
                  \/ mine /\ i.linked /\ prof.name \in {"same", "diff"}
         q == [p EXCEPT !.inst = NoInstaller, !.bad = @ \/ i.conflicts # {} \/ moved,
                        !.profileConflict = @ \/ moved]
     IN IF ~i.active THEN Go(p, next) /\ UNCHANGED prof
        ELSE IF Retain THEN Go([p EXCEPT !.inst = NoInstaller, !.bad = TRUE], next) /\ UNCHANGED prof
        ELSE /\ prof' = [name |-> IF mine /\ prof.name = "own" THEN "none" ELSE prof.name,
                         stage |-> IF staged THEN "none" ELSE prof.stage]
             /\ Go(q, IF i.conflicts # {} \/ moved THEN next ELSE "undone")
  /\ UNCHANGED <<disk, fence, native, prefs, tool, want, lost, since, events>>

\* A resolved link intent may have linked: its inode is ours for good.
Resolve(q) == [q EXCEPT !.mem.own = @ \/ (q.mem.phase = "link-intent" /\ q.mem.stage),
                        !.mem.phase = "resolved"]
Undone ==
  /\ At("undone") /\ Quiet
  /\ Checkpoint(Resolve(p), IF p.at = "install" THEN "cleanup" ELSE "close")

\* Finalize only what nothing may still use.
Close ==
  /\ At("close") /\ Calm
  /\ LET q == [p EXCEPT !.at = "finish"] IN
     IF Retain \/ p.journalFailed \/ p.profileConflict THEN End("failed")
     ELSE IF p.intent = None \/ p.mem = None THEN Go(q, "unstarted")
     ELSE Go([q EXCEPT !.back = "finish"], "stage")

CleanUp ==
  \/ Cleanup \/ CleanNative \/ Survey \/ Surveyed \/ Now \/ Choose \/ Readback \/ Compare \/ Drop
  \/ Deleted \/ Unchanged \/ Unlock \/ Unlocked \/ Verify \/ Verified \/ Undo \/ Undone \/ Close

-----------------------------------------------------------------------------
(* cleanup_profile, finish, finish_terminal: shared with recovery.         *)

Unless(bad, q, next) == IF bad THEN Raise(p) ELSE Go(q, next)

\* Mutant: a stage that no checkpoint records is passed over.
Stage_Ignored ==
  /\ At("stage")
  /\ LET bad == prof.stage # "none" /\ p.mem.stage /\ (p.back = "terminal" \/ prof.stage = "part")
     IN /\ Unless(bad, p, "name")
        /\ prof' = IF bad \/ ~p.mem.stage THEN prof ELSE [prof EXCEPT !.stage = "none"]
  /\ UNCHANGED <<disk, fence, native, prefs, tool, want, lost, since, events>>

\* The private stage goes if it is the recorded one and holds the whole profile.
Stage ==
  /\ At("stage")
  /\ LET bad == prof.stage # "none" /\ (~p.mem.stage \/ p.back = "terminal" \/ prof.stage = "part")
     IN /\ Unless(bad, p, "name")
        /\ prof' = IF bad THEN prof ELSE [prof EXCEPT !.stage = "none"]
  /\ UNCHANGED <<disk, fence, native, prefs, tool, want, lost, since, events>>

\* Mutant: the name is removed whoever it belongs to.
Name_ByName ==
  /\ At("name")
  /\ LET own == p.mem.own \/ (p.mem.phase = "link-intent" /\ p.mem.stage)
         borrowed == IF p.mem.borrowed # "none" THEN p.mem.borrowed ELSE p.intent.before
         bad == \/ own /\ prof.name = "own" /\ p.back = "terminal"
                \/ /\ ~own /\ prof.name # "none" /\ p.mem.borrowed = "none"
                   /\ p.mem.phase \in {"link-intent", "linked", "stage-removed"}
         q == [p EXCEPT !.mem.own = own, !.mem.phase = "resolved",
                        !.mem.conflict = @ \/ (borrowed # "none" /\ prof.name # borrowed)
                                           \/ (own /\ prof.name \in {"same", "diff"})]
     IN /\ Unless(bad, q, IF p.back = "terminal" THEN "scrap" ELSE "named")
        /\ prof' = IF ~bad /\ own THEN [prof EXCEPT !.name = "none"] ELSE prof
  /\ UNCHANGED <<disk, fence, native, prefs, tool, want, lost, since, events>>

\* The installed name goes if it is ours; anything else stays and is a conflict
\* where something of ours, or something borrowed, should be.
Name ==
  /\ At("name")
  /\ LET own == p.mem.own \/ (p.mem.phase = "link-intent" /\ p.mem.stage)
         borrowed == IF p.mem.borrowed # "none" THEN p.mem.borrowed ELSE p.intent.before
         bad == \/ own /\ prof.name = "own" /\ p.back = "terminal"
                \/ /\ ~own /\ prof.name # "none" /\ p.mem.borrowed = "none"
                   /\ p.mem.phase \in {"link-intent", "linked", "stage-removed"}
         q == [p EXCEPT !.mem.own = own, !.mem.phase = "resolved",
                        !.mem.conflict = @ \/ (borrowed # "none" /\ prof.name # borrowed)
                                           \/ (own /\ prof.name \in {"same", "diff"})]
     IN /\ Unless(bad, q, IF p.back = "terminal" THEN "scrap" ELSE "named")
        /\ prof' = IF ~bad /\ own /\ prof.name = "own" THEN [prof EXCEPT !.name = "none"] ELSE prof
  /\ UNCHANGED <<disk, fence, native, prefs, tool, want, lost, since, events>>
Named == At("named") /\ Checkpoint(p, p.back) /\ Quiet

Finish == At("finish") /\ Look(p, "finishing") /\ Calm
Finishing ==
  /\ At("finishing") /\ Calm
  /\ Unless(native # NoKeychain \/ ~Detached(p.cur),
            [p EXCEPT !.mem.conflict = @ \/ p.cur # p.mem.prefs, !.mem.prefs = p.cur,
                      !.back = "complete"], "stage")

\* The terminal copy; nothing of the session is in the account any more.
Complete ==
  /\ At("complete") /\ Quiet
  /\ Write(p, "completed", [disk EXCEPT !.completed = [intent |-> p.intent, state |-> p.mem]], "terminal")
Terminal ==
  /\ At("terminal") /\ Calm
  /\ Unless(native # NoKeychain \/ ~Detached(prefs), [p EXCEPT !.back = "terminal"], "stage")

\* The controls go one after the other, the terminal copy last.
Scrap ==
  /\ At("scrap") /\ disk' = [disk EXCEPT !.pending = {}, !.state = None] /\ Go(p, "rmkeys")
  /\ UNCHANGED events /\ Quiet
RemoveKeys ==
  /\ At("rmkeys") /\ Quiet /\ UNCHANGED events
  /\ IF native = NoKeychain THEN disk' = [disk EXCEPT !.keys = FALSE] /\ Go(p, "rmintent")
     ELSE Raise(p) /\ UNCHANGED disk
RemoveIntent ==
  /\ At("rmintent") /\ disk' = [disk EXCEPT !.intent = None] /\ Go(p, "rmlast")
  /\ UNCHANGED events /\ Quiet
RemoveLast ==
  /\ At("rmlast") /\ Quiet /\ UNCHANGED events
  /\ IF Detached(prefs) THEN disk' = [disk EXCEPT !.completed = None] /\ Go(p, "rmdir")
     ELSE Raise(p) /\ UNCHANGED disk

\* What the end reports: a conflict, or success. Without a checkpoint in memory no
\* conflict is known ("unknowing"): the command then prints "recovered" and exits with 0
\* as after "clean".
Verdict == IF p.mem = None THEN "unknowing" ELSE IF p.bad \/ p.mem.conflict THEN "conflict" ELSE "clean"
RemoveSession ==
  /\ At("rmdir") /\ disk' = NoSession /\ End(Verdict)
  /\ UNCHANGED events /\ Quiet

\* cleanup_preparation: nothing was written, nothing can be in the account.
Unprepare ==
  /\ At("unprepare") /\ Quiet /\ UNCHANGED events
  /\ IF native = NoKeychain /\ Detached(prefs)
     THEN disk' = [disk EXCEPT !.pending = {}, !.keys = FALSE] /\ Go(p, "rmdir")
     ELSE Raise(p) /\ UNCHANGED disk

\* Authority without a checkpoint: the initial one is written now.
Initialize(next) ==
  IF native # NoKeychain \/ ~Detached(prefs) \/ prof.stage # "none"
  THEN Raise(p) /\ UNCHANGED <<disk, events>>
  ELSE /\ disk' = [disk EXCEPT !.pending = {}] /\ UNCHANGED events
       /\ Go([p EXCEPT !.intent = disk.intent, !.mem = InitialState(disk.intent), !.back = next], "rewrite")
Rewrite ==
  /\ At("rewrite") /\ Quiet
  /\ Checkpoint(p, IF p.back = "native" THEN "native" ELSE "stage")

\* cleanup_unstarted_initialization.
Unstarted ==
  /\ At("unstarted") /\ Quiet
  /\ IF disk.intent = None THEN Go(p, "unprepare") /\ UNCHANGED <<disk, events>>
     ELSE Initialize("finish")

Ending ==
  \/ Stage \/ Name \/ Named \/ Finish \/ Finishing \/ Complete \/ Terminal \/ Scrap \/ RemoveKeys
  \/ RemoveIntent \/ RemoveLast \/ RemoveSession \/ Unprepare \/ Rewrite \/ Unstarted

-----------------------------------------------------------------------------
(* recover_signing.                                                        *)

\* The account lease is free: no process, no custodian.
Recover ==
  /\ p = Idle /\ disk.dir /\ tool.life \in {"none", "stray"}
  /\ p' = [Idle EXCEPT !.mode = "recovery", !.at = "finish", !.pc = "load"] /\ UNCHANGED told
  /\ since' = events
  /\ UNCHANGED <<disk, fence, account, tool, want, lost, events>>

\* load_snapshot and the branches of recover.
Load ==
  /\ At("load") /\ Quiet
  /\ LET q == [p EXCEPT !.intent = disk.intent, !.mem = disk.state] IN
     CASE disk.completed # None ->
            /\ IF fence = NoFence
               THEN Go([p EXCEPT !.intent = disk.completed.intent, !.mem = disk.completed.state], "terminal")
               ELSE Raise(p)
            /\ UNCHANGED <<disk, events>>
       [] disk.completed = None /\ disk.intent = None ->
            /\ IF disk.state = None /\ disk.pending \subseteq {"intent"} /\ fence = NoFence
               THEN Go(p, "unprepare") ELSE Raise(p)
            /\ UNCHANGED <<disk, events>>
       [] disk.completed = None /\ disk.intent # None /\ disk.state = None ->
            IF "completed" \in disk.pending \/ fence # NoFence \/ ~disk.keys
            THEN Raise(p) /\ UNCHANGED <<disk, events>> ELSE Initialize("native")
       [] OTHER ->
            /\ IF (disk.state.inflight # None \/ fence = NoFence) /\ disk.keys
               THEN Go(q, "gate") ELSE Raise(p)
            /\ UNCHANGED <<disk, events>>

\* _recover_command_gate: the settlement that the controls prove, or none.
Gate(op) ==
  CASE op.phase = "SETTLED" ->
         IF IF op.out = "nofence" THEN fence = NoFence ELSE fence.at \in {"none", "final", "pair"}
         THEN op.out ELSE "unproved"
    [] op.phase = "PREPARED" /\ fence.at \in {"none", "pending"} -> "nofence"
    [] OTHER -> IF fence.at = "pair" /\ (op.phase = "PREPARED" => fence.out = "never")
                THEN fence.out ELSE "unproved"

\* Mutant: interrupted control writes are left where they are.
PassGate_KeepsStages ==
  /\ At("gate")
  /\ LET op == p.mem.inflight
         unproved == IF op = None THEN fence # NoFence ELSE Gate(op) = "unproved"
     IN IF unproved \/ ~Known \/ (native.db = "none" /\ ~Detached(prefs))
        THEN Raise(p) /\ UNCHANGED <<disk, fence>>
        ELSE /\ UNCHANGED disk
             /\ fence' = IF fence.at = "pending" THEN NoFence ELSE fence
             /\ LET q == [p EXCEPT !.mem.conflict = @ \/ (native # p.mem.native /\ ~p.mem.cleaning),
                                   !.mem.native = native]
                IN IF op = None THEN Go(q, "resumed")
                   ELSE Go([q EXCEPT !.mem.inflight.phase = "SETTLED", !.mem.inflight.out = Gate(op)],
                           "adopt")
  /\ UNCHANGED <<account, tool, want, lost, since, events>>

PassGate ==
  /\ At("gate")
  /\ LET op == p.mem.inflight
         unproved == IF op = None THEN fence # NoFence ELSE Gate(op) = "unproved"
     IN IF unproved \/ ~Known \/ (native.db = "none" /\ ~Detached(prefs))
        THEN Raise(p) /\ UNCHANGED <<disk, fence>>
        ELSE /\ disk' = [disk EXCEPT !.pending = {}]
             /\ fence' = IF fence.at = "pending" THEN NoFence ELSE fence
             /\ LET q == [p EXCEPT !.mem.conflict = @ \/ (native # p.mem.native /\ ~p.mem.cleaning),
                                   !.mem.native = native]
                IN IF op = None THEN Go(q, "resumed")
                   ELSE Go([q EXCEPT !.mem.inflight.phase = "SETTLED", !.mem.inflight.out = Gate(op)],
                           "adopt")
  /\ UNCHANGED <<account, tool, want, lost, since, events>>
Resumed == At("resumed") /\ Checkpoint(p, "native") /\ Quiet
Adopt ==
  /\ At("adopt") /\ Quiet
  /\ Checkpoint([p EXCEPT !.cmd = [NoCommand EXCEPT !.ret = "native", !.rc = "ok"]], "retire")

Recovery == Load \/ PassGate \/ Resumed \/ Adopt

-----------------------------------------------------------------------------
(* Crashes, interruptions, the user.                                       *)

\* A control is being written here.
Writing == {"prepare", "arm", "wait", "retire", "first", "look", "reuse", "staging", "made", "linking",
  "borrow", "linked", "unstaged", "watch", "attempt", "remember", "native", "target", "compare",
  "unlocked", "undone", "named", "rewrite", "resumed", "adopt"}
Staged == CASE At("intent") -> {"intent"} [] At("complete") -> {"completed"}
            [] p.pc \in Writing -> {"state"} [] OTHER -> {}

Crash ==
  /\ p # Idle /\ Charge /\ End("failed")
  /\ disk' \in {disk, [disk EXCEPT !.pending = @ \cup Staged]}
  /\ UNCHANGED <<fence, account, tool, want, lost, since>>

\* A cancellation, or a system call that fails before it changed anything.
Interruptible == {"keys", "baseline", "first", "fill", "unstage", "create", "created", "before", "leave",
  "survey", "now", "drop", "stage", "name", "finish", "terminal", "unprepare"}
Interrupt ==
  /\ p.pc \in Interruptible /\ Charge /\ Raise(p)
  /\ UNCHANGED <<disk, fence, account, tool, want, lost, since>>

\* The window between reading a preference and writing it that no check can close
\* (docs/local-signing.md:244): the user keeps away from the preferences here.
Exposed ==
  \/ p.pc \in {"attempt", "set", "target"} \/ p.cmd.ret \in {"attempt", "target"}
  \/ p.pc \in {"prepare", "launch", "arm", "go"} /\ p.cmd.kind \in Fields
  \/ tool.life \in {"held", "running", "stray"} /\ tool.kind \in Fields

User(next) ==
  /\ Charge /\ want' = next /\ UNCHANGED <<disk, fence, tool, p, told, lost, since>>

EditPrefs ==
  /\ ~Exposed
  /\ \/ /\ prefs' = [prefs EXCEPT !.default = "other"]
        /\ User([want EXCEPT !.prefs.default = "other"])
     \/ /\ prefs' = [prefs EXCEPT !.search = @ \cup {"other"}]
        /\ User([want EXCEPT !.prefs.search = @ \cup {"other"}])
  /\ UNCHANGED <<native, prof>>
EditProfile ==
  \E name \in {"none", "same", "diff"} :
    /\ prof.name # name /\ prof' = [prof EXCEPT !.name = name]
    /\ User([want EXCEPT !.name = name]) /\ UNCHANGED <<native, prefs>>

\* Deleting the keychain takes it off the list and the login keychain is the default
\* again; where it hides the user's own values, that is the user's new choice.
DeleteKeychain ==
  /\ native.db # "none" /\ ~Exposed /\ native' = [native EXCEPT !.db = "none"]
  /\ prefs' = [default |-> IF prefs.default = "own" THEN "orig" ELSE prefs.default,
               search |-> prefs.search \ {"own"}]
  /\ User([want EXCEPT !.prefs.default = IF prefs.default = "own" THEN "orig" ELSE @,
                       !.prefs.search = IF prefs.search = {"own"} THEN {} ELSE @])
  /\ UNCHANGED prof

\* After a refusal the operator removes what is identifiably this session's.
ManualFix ==
  /\ p = Idle /\ disk.dir /\ tool.life \in {"none", "stray"} /\ told = "failed" /\ Owned
  /\ native' = NoKeychain
  /\ prefs' = [default |-> IF prefs.default = "own" THEN want.prefs.default ELSE prefs.default,
               search |-> IF prefs.search = {"own"} THEN want.prefs.search ELSE prefs.search \ {"own"}]
  /\ prof' = [name |-> IF prof.name = "own" THEN "none" ELSE prof.name, stage |-> "none"]
  /\ UNCHANGED <<disk, fence, tool, p, want, told, lost, since, events>>

Setup == MakeKeys \/ Baseline \/ Intend \/ First
Work == Setup \/ Install \/ Body \/ Command \/ CleanUp \/ Ending \/ Recovery
Environment == CustodianDies \/ StrayRuns \/ EditPrefs \/ EditProfile \/ DeleteKeychain
Next == Start \/ Work \/ Custodian \/ Recover \/ ManualFix \/ Crash \/ Interrupt \/ Environment

Spec == Init /\ [][Next]_vars

-----------------------------------------------------------------------------
(* Properties.                                                             *)

Preferences == [default : {"none", "orig", "own", "other"}, search : SUBSET {"orig", "own", "other"}]
Keychain == [db : {"none", "made", "built"}, lock : BOOLEAN]
Profile == [name : {"none", "same", "diff", "own"}, stage : {"none", "part", "own"}]
Kinds == {"none", "observe", "create", "import", "build", "delete"} \cup Fields
Operation == [kind : Kinds, phase : {"PREPARED", "ARMED", "SETTLED"},
              out : {"none", "nofence", "never", "settled"}]
Intents == [prefs : Preferences, before : {"none", "same", "diff"}]
States ==
  [native : Keychain, inflight : Operation \cup {None}, prefs : Preferences, tried : SUBSET Fields,
   cleaning : BOOLEAN, conflict : BOOLEAN, stage : BOOLEAN, own : BOOLEAN, borrowed : {"none", "same"},
   phase : {"not-started", "inspected", "reused", "stage-intent", "stage-created", "link-intent",
            "linked", "stage-removed", "resolved"}]

\* Types of the state; a checkpoint owns no profile whose stage it never made
\* (_validate_state).
TypeOK ==
  /\ disk.intent \in Intents \cup {None} /\ disk.state \in States \cup {None}
  /\ disk.pending \subseteq {"intent", "state", "completed"}
  /\ p.mem \in States \cup {None} /\ p.intent \in Intents \cup {None}
  /\ native \in Keychain /\ prefs \in Preferences /\ prof \in Profile
  /\ p.mem # None => (p.mem.own => p.mem.stage) /\ ("default" \in p.mem.tried => "search" \in p.mem.tried)

\* While the terminal copy exists, and once the session is gone, nothing of the
\* session is in the account: whatever stopped, failed or was edited before.
NothingLeftBehind == disk.completed # None \/ ~disk.dir => ~Owned

\* A process that ends a session whose checkpoint it holds, and reports no conflict,
\* leaves the account as it would be if the session had never been, the user's own edits
\* included.
CleanMeansRestored ==
  told = "clean" => prefs = want.prefs /\ prof.name = want.name

\* What the documentation promises of every end: a foreign replacement is reported as a
\* conflict, so that a command that says "recovered" left the account restored. The code
\* forgets a conflict when it dies between the removal of the terminal copy and that of
\* the directory.
RecoveredMeansRestored ==
  told \in {"clean", "unknowing"} => prefs = want.prefs /\ prof.name = want.name

\* Recovery touches nothing before every command of the dead process is over: past
\* the gate no command runs but its own.
RecoveryIsAlone ==
  p.mode = "recovery" /\ p.pc # "load" /\ p.pc # "gate" /\ p.cmd.kind = "none" =>
    tool.life = "none"

\* What the user put into the account during the session survives it, even where a
\* conflict is reported: a profile always, preferences once the session is gone.
UserWins ==
  /\ want.name # "none" => prof.name = want.name
  /\ ~disk.dir => /\ prefs.default = want.prefs.default
                 /\ ("other" \in want.prefs.search => "other" \in prefs.search)

\* A recovery in which nothing fails ends the session, however often and wherever
\* earlier processes died: it refuses only where a custodian died without its fence, or
\* where something is in the account that no checkpoint proves to be the session's.
RecoveryEnds ==
  [][ (p.mode = "recovery" /\ p' = Idle /\ events' = since) => (~disk'.dir \/ lost \/ Owned) ]_vars
=============================================================================
