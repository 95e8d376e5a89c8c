---------------------------- MODULE MCSessions_proofs ----------------------------
(***************************************************************************)
(* Proofs about SigningSession and StoreLane, the two parts of MCSessions, *)
(* for every bound, every set of calls and every set of requests: what a   *)
(* session leaves in the account of the user, and what the call of a lane  *)
(* leaves in the project.                                                  *)
(*                                                                         *)
(* The session.  None of its properties is inductive: it ends from what    *)
(* its checkpoints say, so the invariant says what every checkpoint (in    *)
(* memory, in the directory, in the terminal copy) must know of an account *)
(* that the user edits too (Sound, Planned), what a preference command     *)
(* that is not over yet may write (Writes), and where the process is when  *)
(* such a command can be alive (ToolInv).  Most steps write a checkpoint   *)
(* or fail and touch neither the account nor the tool: the invariant is    *)
(* stated of a process r, a directory d and a verdict t, so that one lemma *)
(* (Save) covers what all the checkpoints have in common.                  *)
(*                                                                         *)
(* The lane.  A step moves one call, or one lane, and touches no file of   *)
(* another call, except for the markers, which calls of one authorization  *)
(* share.  The invariant is therefore a property of one call, its lane and *)
(* its own files (SoundCall), of which each action keeps the part it can   *)
(* disturb, and a statement about the markers of all the calls             *)
(* (MarkersInv): a marker that a call holds is there and is held by no     *)
(* other call.                                                             *)
(***************************************************************************)
EXTENDS MCSessions, TLAPS

-----------------------------------------------------------------------------
(* Types.                                                                  *)

Steps ==
  {"idle", "prepare", "launch", "arm", "go", "wait", "retire", "refused", "keys", "baseline",
   "intent", "first", "look", "reuse", "staging", "make", "made", "fill", "linking", "link",
   "borrow", "linked", "unstage", "unstaged", "confirm", "create", "import", "created",
   "watch", "before", "attempt", "set", "reread", "remember", "build", "leave", "cleanup",
   "native", "survey", "surveyed", "now", "target", "readback", "compare", "drop", "deleted",
   "unchanged", "unlock", "unlocked", "verify", "verified", "undo", "undone", "close", "stage",
   "name", "named", "finish", "finishing", "complete", "terminal", "scrap", "rmkeys",
   "rmintent", "rmlast", "rmdir", "unprepare", "rewrite", "unstarted", "load", "gate",
   "resumed", "adopt"}
Places == {"none", "setup", "install", "body", "native", "undo", "finish"}
Backs == {"none", "native", "finish", "complete", "terminal"}
Codes == {"none", "ok", "fail", "killed", "unborn", "never", "lost"}
Names == {"none", "same", "diff"}
Errands == [kind : Kinds, arg : Preferences, ret : Steps \cup {"none"}, rc : Codes]
Installers ==
  [reused : BOOLEAN, made : BOOLEAN, tried : BOOLEAN, linked : BOOLEAN,
   conflicts : SUBSET {"name", "stage"}, active : BOOLEAN]
Processes ==
  [mode : {"none", "normal", "recovery"}, pc : Steps, at : Places, back : Backs,
   field : {"none", "search", "default", "both"}, intent : Intents \cup {None},
   mem : States \cup {None}, cmd : Errands, cur : Preferences, keep : Preferences,
   inst : Installers, unresolved : BOOLEAN, journalFailed : BOOLEAN,
   profileConflict : BOOLEAN, bad : BOOLEAN]
Directories ==
  [dir : BOOLEAN, keys : BOOLEAN, intent : Intents \cup {None}, state : States \cup {None},
   completed : [intent : Intents, state : States] \cup {None},
   pending : SUBSET {"intent", "state", "completed"}]
Runners ==
  [life : {"none", "held", "running", "ended", "fencing", "stray"}, kind : Kinds,
   arg : Preferences, rc : Codes, read : Preferences]

Sorts ==
  /\ fence \in [at : {"none", "pending", "pair", "final"}, out : {"none", "never", "settled"}]
  /\ native \in Keychain /\ prefs \in Preferences /\ prof \in Profile
  /\ tool \in Runners /\ want \in [prefs : Preferences, name : Names]

\* The steps of one native command, and the steps with no checkpoint in memory.
Commands == {"prepare", "launch", "arm", "go", "wait", "retire"}
Blank == {"idle", "keys", "baseline", "intent", "first", "cleanup", "undo", "close", "load",
          "unprepare", "unstarted", "rmdir"}
\* Where the process goes on after a command.
Returns == {"import", "created", "watch", "attempt", "reread", "remember", "leave", "surveyed",
            "target", "readback", "compare", "deleted", "unchanged", "verified", "finishing", "native"}
Bare == {"keys", "baseline", "intent", "first"}
Finals == {"load", "stage", "name", "named", "finish", "finishing", "complete", "terminal", "scrap",
           "rmkeys", "rmintent", "rmlast", "rmdir", "rewrite", "unprepare", "unstarted"}

\* r is at a step of S, or runs a command on its way there.
Toward(r, S) == r.pc \in S \/ (r.pc \in Commands /\ r.cmd.ret \in S)

\* r: a process.
ProcessInv(r) ==
  /\ r \in Processes
  /\ r.mem # None => r.intent # None
  /\ r.mem = None => r.pc \in Blank /\ ~r.inst.active
  /\ r.pc # "idle" => r.mode # "none"
  /\ r.mem = None /\ r.pc \in {"cleanup", "undo", "close", "unstarted"} => r.mode = "normal"
  /\ r.pc \in Commands => r.cmd.ret \in Returns
  /\ r.pc = "first" => r.intent # None
  /\ r.pc \in {"launch", "arm", "go", "wait"} => r.mem.inflight # None
  /\ Toward(r, {"before", "attempt", "set", "now", "target"}) => r.field \in Fields
  /\ Toward(r, {"reread", "remember"}) => r.field # "none"

-----------------------------------------------------------------------------
(* Where the process, its directory and the command are.                   *)

Lives == tool.life # "none"

\* d: the directory.  A command is alive only under an armed or prepared checkpoint,
\* and the process that started it waits for it, gives up or is gone.
ToolInv(r, d) ==
  /\ tool.life \in {"held", "running"} => tool.rc = "none"
  /\ tool.life = "stray" => tool.rc = "lost"
  /\ Lives =>
       /\ d.state # None /\ d.completed = None /\ d.state.inflight # None
       /\ fence = NoFence \/ tool.life = "fencing"
       /\ tool.life \in {"running", "stray"} => d.state.inflight.phase = "ARMED"
       /\ tool.kind = "create" => "search" \notin d.state.tried
       /\ \/ r = Idle \/ r.pc \in {"arm", "go", "wait"}
          \/ r.unresolved /\ r.mode = "normal" /\ r.pc \in {"cleanup", "undo", "close"}
          \/ r.mode = "recovery" /\ tool.life = "stray" /\ r.pc \in {"load", "gate"}

FlightInv(r, d) ==
  /\ r.pc \in {"launch", "arm", "go"} =>
       d.state = r.mem /\ fence = NoFence /\ d.state.inflight # None
  /\ r.pc = "go" => r.mem.inflight.phase = "ARMED"
  /\ r.pc \in {"arm", "go"} =>
       /\ tool.life \in {"held", "none"} /\ tool.rc \in {"none", "lost"}
       /\ tool.kind = r.cmd.kind /\ tool.arg = r.cmd.arg
  /\ r.pc \in {"wait", "retire"} /\ r.cmd.kind # "none" =>
       \/ tool.kind = r.cmd.kind /\ tool.arg = r.cmd.arg
       \/ tool.rc = "unborn" /\ tool.life = "none"
  /\ r.pc = "retire" /\ r.cmd.kind # "none" => r.cmd.rc = tool.rc
  /\ r.pc \in {"prepare", "launch", "arm", "go", "wait"} => r.cmd.kind # "none"
  /\ r.pc = "gate" => r.mem = d.state /\ r.intent = d.intent

\* Which controls exist at a step, and where the process may be without them.
StageInv(r, d) ==
  /\ r.pc = "idle" => r = Idle
  /\ r.mem # None /\ d.completed = None /\ r.pc # "rmdir" => d.intent # None /\ r.intent = d.intent
  /\ r.mode = "normal" /\ r.mem = None => d.state = None /\ d.completed = None
  /\ r.pc \in Bare => r.mode = "normal" /\ r.mem = None
  /\ r.pc = "first" => d.intent = r.intent
  /\ r.pc \in {"load", "unprepare", "unstarted"} => r.mem = None
  /\ d.state # None => d.intent # None
  /\ r.pc \in {"make", "made", "fill", "linking", "link"} => d.state # None
  /\ d.completed # None =>
       r.pc \in {"idle", "load", "terminal", "stage", "name", "scrap", "rmkeys", "rmintent", "rmlast"}
  /\ r.pc \in {"stage", "name"} => (r.back = "terminal" <=> d.completed # None)
  /\ ~d.dir => d = NoSession /\ r = Idle
  /\ r.pc \in {"terminal", "scrap", "rmkeys", "rmintent", "rmlast"} => d.completed # None
  /\ r.pc \in {"rmkeys", "rmintent", "rmlast", "unprepare", "rmdir"} => d.state = None
  /\ r.pc \in {"rmlast", "unprepare", "rmdir"} => d.intent = None
  /\ r.pc = "rewrite" => r.back \in {"native", "finish"}
  /\ r.pc \in {"stage", "name"} => r.back \in {"finish", "complete", "terminal"}
  /\ r.pc = "named" => r.back \in {"finish", "complete"}
  /\ r.pc = "complete" => r.back = "complete"
  /\ Toward(r, Finals) => r.at = "finish" \/ r.mode = "recovery"

-----------------------------------------------------------------------------
(* The account, and what a checkpoint knows of it.                         *)

Whole == prefs.search \ {"own"} = want.prefs.search
Hidden == prefs.search = {"own"}
Intact(v) == "orig" \in v.search \/ v.search = {"own"}

\* What was read is still so, but for the user's edits.
Later(v) == (Detached(v) => Detached(prefs)) /\ v.search \ {"own"} \subseteq prefs.search

AccountInv ==
  /\ prof.name = want.name \/ (prof.name = "own" /\ want.name = "none")
  /\ prefs.default # "own" => prefs.default = want.prefs.default
  /\ want.prefs.default # "own" /\ "own" \notin want.prefs.search
  /\ Hidden => "orig" \in want.prefs.search
  /\ ~Whole /\ ~Hidden => "orig" \notin prefs.search
  /\ ~Hidden /\ "other" \in want.prefs.search => "other" \in prefs.search

\* m: a checkpoint.
OwnsName(m) == m.own \/ (m.phase = "link-intent" /\ m.stage)
Sound(m) ==
  /\ prof.name = "own" => OwnsName(m)
  /\ "search" \notin m.tried => Whole /\ "orig" \in want.prefs.search
  /\ ~Whole => m.conflict \/ Intact(m.prefs)

\* i: an intent.
Planned(i) ==
  /\ Detached(i.prefs) /\ "orig" \in i.prefs.search
  /\ prefs.default = "own" => i.prefs.default = want.prefs.default
  /\ Hidden => i.prefs.search = want.prefs.search

MindInv(r, d) ==
  /\ r.mem # None => Sound(r.mem)
  /\ d.state # None => Sound(d.state)
  /\ d.completed # None => Sound(d.completed.state) /\ Planned(d.completed.intent)
  /\ r.intent # None => Planned(r.intent)
  /\ d.intent # None => Planned(d.intent)

-----------------------------------------------------------------------------
(* What a preference command that is not over yet may write: the user's    *)
(* own value, or the session's while every checkpoint can put it right.    *)

Tries(m) == "search" \in m.tried /\ (m.conflict \/ Intact(m.prefs))

Writes(r, d, kind, arg) ==
  /\ kind = "default" =>
       \/ arg.default = want.prefs.default
       \/ /\ arg.default = "own"
          /\ r.intent # None => r.intent.prefs.default = want.prefs.default
          /\ d.intent # None => d.intent.prefs.default = want.prefs.default
  /\ kind = "search" =>
       \/ arg.search = want.prefs.search
       \/ arg.search = prefs.search \ {"own"} /\ ~Hidden
       \/ /\ arg.search = {"own"} /\ "orig" \in want.prefs.search
          /\ r.intent # None => r.intent.prefs.search = want.prefs.search
          /\ d.intent # None => d.intent.prefs.search = want.prefs.search
          /\ r.mem # None => Tries(r.mem)
          /\ d.state # None => Tries(d.state)

PendingInv(r, d) ==
  /\ r.pc \in {"prepare", "launch", "arm", "go"} => Writes(r, d, r.cmd.kind, r.cmd.arg)
  /\ r.pc = "set" => Writes(r, d, r.field, [r.mem.prefs EXCEPT ![r.field] = Value(r.field)])
CommandInv(r, d) ==
  tool.life \in {"held", "running", "stray"} => Writes(r, d, tool.kind, tool.arg)

\* What the process has read, and is about to read.
ReadInv(r) ==
  /\ r.pc \in {"attempt", "target"} => r.cur = prefs
  /\ r.pc = "finishing" => Later(r.cur)
  /\ r.pc \in {"wait", "retire"} /\ r.cmd.kind = "observe" /\ tool.rc = "ok" =>
       Later(tool.read) /\ (r.cmd.ret \in {"attempt", "target"} => tool.read = prefs)
  /\ r.pc = "intent" => Detached(r.cur) /\ "orig" \in r.cur.search
  /\ r.pc \in Commands /\ r.cmd.ret \in {"attempt", "target", "compare", "finishing"} =>
       r.cmd.kind = "observe"
  /\ r.pc \in Commands /\ r.cmd.kind = "create" => r.cmd.ret = "import"

-----------------------------------------------------------------------------
(* The body and the cleanup: what the checkpoint in memory says.           *)

Early == {"look", "reuse", "staging", "make", "made", "fill", "linking", "link", "borrow",
          "linked", "unstage", "unstaged", "confirm", "create", "import", "created", "watch"}

\* The profile is not ours, or the checkpoint says so.
NameInv(r, d) ==
  /\ r.pc \in {"look", "reuse", "staging", "make", "made", "fill", "linking", "borrow"} =>
       prof.name # "own"
  /\ r.pc \in {"fill", "linking", "link"} => r.mem.stage
  /\ r.pc = "link" => r.mem.phase = "link-intent" /\ d.state = r.mem
  /\ r.pc = "linked" /\ prof.name = "own" => r.inst.linked
  /\ r.pc \in {"unstage", "unstaged"} /\ prof.name = "own" => r.mem.own

\* The search list goes first: the default is set only when it is the session's.
FieldInv(r) ==
  /\ Toward(r, Early) => "search" \notin r.mem.tried
  /\ Toward(r, {"before", "attempt"}) /\ r.field = "search" => "search" \notin r.mem.tried
  /\ Toward(r, {"before", "attempt", "set", "reread", "remember"}) =>
       /\ r.field \in Fields => r.mem.prefs.default = r.intent.prefs.default
       /\ r.field = "search" => r.mem.prefs.search \ {"own"} = r.intent.prefs.search
       /\ r.field = "default" => r.mem.prefs.search = {"own"}

\* What the cleanup means to keep is whole, or the conflict is known.
KeepInv(r) ==
  /\ Toward(r, {"now", "target", "readback", "compare"}) =>
       (~Whole => r.mem.conflict \/ Intact(r.keep))
  /\ r.pc \in Commands /\ r.cmd.ret = "readback" => r.keep = r.cmd.arg /\ r.cmd.kind \in Fields

-----------------------------------------------------------------------------
(* The beginning and the end.                                              *)

\* t: the last verdict.  The session has not touched the account yet.
FreshInv(r, d, t) ==
  (\/ r.pc \in Bare
   \/ r = Idle /\ t = "none" /\ ~d.dir
   \/ d.intent # None /\ d.state = None /\ d.completed = None)
  => Whole /\ "orig" \in want.prefs.search

\* What the steps that take the profile back have found out.
CloseInv(r) ==
  /\ r.pc \in {"name", "named", "complete"} => prof.stage = "none"
  /\ r.pc \in {"named", "complete"} => prof.name # "own"
  /\ r.pc \in {"stage", "name", "named", "complete"} /\ r.back = "complete" =>
       native = NoKeychain /\ Detached(prefs) /\ (~r.mem.conflict => Whole)

\* What the session leaves behind: nothing, and the user's values unless it says so.
EndInv(r, d, t) ==
  /\ d.state = None \/ d.completed # None => ~Owned
  /\ d.completed # None => (~d.completed.state.conflict => Whole)
  /\ (d.completed # None \/ r.pc = "rmdir") /\ r.mem # None => (~r.mem.conflict => Whole)
  /\ t = "clean" => r = Idle /\ ~d.dir /\ prefs = want.prefs /\ prof.name = want.name

\* What a step decides about where the process goes.
Placed(r, d) ==
  /\ ProcessInv(r) /\ FlightInv(r, d) /\ StageInv(r, d) /\ ReadInv(r) /\ NameInv(r, d)
  /\ FieldInv(r) /\ KeepInv(r) /\ PendingInv(r, d) /\ CloseInv(r)

Good(r, d, t) ==
  /\ d \in Directories /\ Placed(r, d) /\ ToolInv(r, d) /\ CommandInv(r, d) /\ MindInv(r, d)
  /\ FreshInv(r, d, t) /\ EndInv(r, d, t)

Inv == Sorts /\ AccountInv /\ Good(p, disk, told)

-----------------------------------------------------------------------------
(* Facts about the values.                                                 *)

\* A checkpoint, an intent and an operation are never the absent one.
LEMMA NoneIsNoRecord ==
  /\ None \notin States /\ None \notin Intents /\ None \notin Operation
  /\ None \notin [intent : Intents, state : States]
  <1> DEFINE D(x) == DOMAIN x
  <1>1. D(None) = {"none"}
    BY DEF None
  <1>2. \A m \in States : "native" \in D(m)
    BY DEF States
  <1>3. \A i \in Intents : "before" \in D(i)
    BY DEF Intents
  <1>4. \A o \in Operation : "kind" \in D(o)
    BY DEF Operation
  <1>5. \A c \in [intent : Intents, state : States] : "state" \in D(c)
    OBVIOUS
  <1> HIDE DEF D
  <1> QED BY <1>1, <1>2, <1>3, <1>4, <1>5

LEMMA IdleFields ==
  /\ Idle \in Processes /\ Idle.mode = "none" /\ Idle.pc = "idle" /\ Idle.at = "none"
  /\ Idle.mem = None /\ Idle.intent = None /\ ~Idle.inst.active
  <1>1. NoInstaller \in Installers /\ ~NoInstaller.active
    BY DEF NoInstaller, Installers
  <1>2. NoPrefs \in Preferences
    BY DEF NoPrefs, Preferences
  <1>3. NoCommand \in Errands
    <2>1. "none" \in Kinds /\ "none" \in Codes
      BY DEF Kinds, Codes
    <2> QED BY <1>2, <2>1 DEF NoCommand, Errands
  <1>4. Idle \in Processes
    <2>1. "idle" \in Steps /\ "none" \in Places /\ "none" \in Backs
      BY DEF Steps, Places, Backs
    <2>2. None \in States \cup {None} /\ None \in Intents \cup {None}
      OBVIOUS
    <2> QED BY <1>1, <1>2, <1>3, <2>1, <2>2 DEF Idle, Processes
  <1>5. /\ Idle.mode = "none" /\ Idle.pc = "idle" /\ Idle.at = "none"
        /\ Idle.mem = None /\ Idle.intent = None /\ Idle.inst = NoInstaller
    BY DEF Idle
  <1> QED BY <1>1, <1>4, <1>5

\* r is q, further on.
Like(r, q) ==
  /\ r \in Processes
  /\ r.mode = q.mode /\ r.at = q.at /\ r.back = q.back /\ r.field = q.field
  /\ r.intent = q.intent /\ r.mem = q.mem /\ r.cmd = q.cmd /\ r.cur = q.cur /\ r.keep = q.keep
  /\ r.inst = q.inst /\ r.unresolved = q.unresolved

LEMMA Moving ==
  ASSUME NEW q \in Processes, NEW next \in Steps
  PROVE  Like([q EXCEPT !.pc = next], q) /\ [q EXCEPT !.pc = next].pc = next
  BY DEF Like, Processes

\* What an exception leaves of q.
Fallen(r, t, q) ==
  \/ r = Idle /\ t = "failed"
  \/ /\ r \in Processes /\ t = told /\ r.pc \in {"undo", "cleanup"}
     /\ q.mode # "recovery" /\ q.at # "finish"
     /\ r.mode = q.mode /\ r.at = q.at /\ r.mem = q.mem /\ r.intent = q.intent /\ r.inst = q.inst
     /\ q.unresolved \/ q.pc \in InFlight => r.unresolved

LEMMA Raising ==
  ASSUME NEW q \in Processes, Raise(q)
  PROVE  Fallen(p', told', q)
  <1>1. CASE q.mode = "recovery" \/ q.at = "finish"
    BY <1>1 DEF Raise, End, Fallen
  <1>2. CASE ~(q.mode = "recovery" \/ q.at = "finish")
    <2> DEFINE n == Handler(q.at)
               u == q.unresolved \/ q.pc \in InFlight
               b == q.bad \/ q.at \in {"native", "undo"}
    <2>1. n \in {"undo", "cleanup"} /\ n \in Steps
      BY DEF Handler, Steps
    <2>2. u \in BOOLEAN /\ b \in BOOLEAN
      BY Zenon DEF Processes
    <2>3. p' = [q EXCEPT !.pc = n, !.unresolved = u, !.bad = b] /\ told' = told
      BY <1>2 DEF Raise
    <2>4. q.unresolved \/ q.pc \in InFlight => u
      OBVIOUS
    <2> HIDE DEF n, u, b
    <2>5. p' \in Processes
      BY <2>1, <2>2, <2>3 DEF Processes
    <2>6. p'.pc = n /\ p'.mode = q.mode /\ p'.at = q.at /\ p'.mem = q.mem
          /\ p'.intent = q.intent /\ p'.inst = q.inst /\ p'.unresolved = u
      BY <2>3 DEF Processes
    <2> QED BY <1>2, <2>1, <2>3, <2>4, <2>5, <2>6 DEF Fallen
  <1> QED BY <1>1, <1>2

\* q has forgotten that a write failed, or remembers it.
LEMMA Spoiling ==
  ASSUME NEW q \in Processes
  PROVE  Like([q EXCEPT !.journalFailed = TRUE], q) /\ [q EXCEPT !.journalFailed = TRUE].pc = q.pc
  BY DEF Like, Processes

\* A write of a control: done, or an exception that may have left any part of it.
LEMMA WritingFields ==
  ASSUME NEW q \in Processes, NEW name \in {"intent", "state", "completed"},
         NEW written \in Directories, NEW next, disk \in Directories,
         Write(q, name, written, next)
  PROVE  \/ disk' = written /\ p' = [q EXCEPT !.pc = next] /\ told' = told
         \/ /\ Fallen(p', told', q)
            /\ disk' \in {disk, written, [disk EXCEPT !.pending = @ \cup {name}]}
  <1> DEFINE s == [q EXCEPT !.journalFailed = TRUE]
  <1>1. Like(s, q) /\ s.pc = q.pc
    BY Spoiling
  <1>2. Raise(s) => Fallen(p', told', s)
    BY <1>1, Raising DEF Like
  <1>3. Fallen(p', told', s) => Fallen(p', told', q)
    BY <1>1 DEF Fallen, Like
  <1> HIDE DEF s
  <1> QED BY <1>2, <1>3 DEF Write, Go, s

-----------------------------------------------------------------------------
(* What every step of the process has in common.                           *)

\* q is the process that takes the step, with what the step put into its memory.
Kin(q) ==
  /\ q \in Processes /\ q.pc = p.pc /\ q.mode = p.mode 
  /\ p.pc \in Finals => q.at = "finish" \/ q.mode = "recovery"
  /\ q.intent = p.intent /\ q.unresolved = p.unresolved
  /\ q.mem = None => p.mem = None /\ ~q.inst.active
  /\ q.mem # None =>
       Sound(q.mem) /\ q.intent # None /\ (disk.completed = None => disk.intent = q.intent)

\* Where a command may be alive.
Open == {"idle", "arm", "go", "wait", "cleanup", "undo", "close", "load", "gate"}

LEMMA Working ==
  ASSUME Inv, p.pc # "idle"
  PROVE  p # Idle /\ disk.dir /\ told # "clean" /\ p \in Processes /\ disk \in Directories
  BY IdleFields DEF Inv, Good, Placed, StageInv, EndInv, ProcessInv

LEMMA Alone ==
  ASSUME Inv, p.pc \notin Open
  PROVE  ~Lives
  BY IdleFields DEF Inv, Good, ToolInv, Open

LEMMA KinSelf ==
  ASSUME Inv, p.pc \notin {"idle", "rmdir"}
  PROVE  Kin(p)
  BY DEF Inv, Good, Placed, StageInv, ProcessInv, MindInv, Kin, Toward

LEMMA FallenFits ==
  ASSUME Inv, p.pc \notin {"idle", "rmdir"},
         NEW q, Kin(q), NEW r, NEW t, Fallen(r, t, q),
         NEW d \in Directories, d.dir = disk.dir, d.intent = disk.intent, d.completed = disk.completed,
         d.state = disk.state \/ (d.state = q.mem /\ q.mem # None /\ disk.intent # None),
         ToolInv(r, d), CommandInv(r, d)
  PROVE  Good(r, d, t)
  <1>1. disk.dir /\ told # "clean"
    BY Working
  <1>2. MindInv(p, disk) /\ EndInv(p, disk, told) /\ FreshInv(p, disk, told) /\ StageInv(p, disk)
        /\ ProcessInv(p) /\ ToolInv(p, disk)
    BY DEF Inv, Good, Placed
  <1>3. d.state # None => Sound(d.state) /\ d.intent # None
    BY <1>2 DEF MindInv, Kin, StageInv
  <1>4. d.state = None => disk.state = None
    OBVIOUS
  <1>5. ToolInv(r, d) /\ CommandInv(r, d)
    OBVIOUS
  <1>6. CASE r = Idle /\ t = "failed"
    <2>1. Placed(r, d)
      BY <1>1, <1>3, <1>6, IdleFields, Zenon
         DEF Placed, ProcessInv, FlightInv, StageInv, ReadInv, NameInv, FieldInv, KeepInv,
             PendingInv, CloseInv, Toward, Commands, Early, Finals, Bare, Blank, Returns
    <2>2. MindInv(r, d)
      BY <1>2, <1>3, <1>6, IdleFields DEF MindInv
    <2>3. FreshInv(r, d, t) /\ EndInv(r, d, t)
      BY <1>2, <1>4, <1>6, IdleFields DEF FreshInv, EndInv, Bare
    <2> QED BY <1>5, <2>1, <2>2, <2>3 DEF Good
  <1>7. CASE ~(r = Idle /\ t = "failed")
    <2>1. /\ r \in Processes /\ t = told /\ r.pc \in {"undo", "cleanup"}
          /\ q.mode # "recovery" /\ q.at # "finish"
          /\ r.mode = q.mode /\ r.at = q.at /\ r.mem = q.mem /\ r.intent = q.intent /\ r.inst = q.inst
      BY <1>7 DEF Fallen
    <2>2. d.completed = None
      BY <1>2, <2>1 DEF StageInv, Kin, Toward, Finals
    <2>3. ProcessInv(r)
      <3>1. r.mode = "normal"
        BY <1>2, <2>1 DEF ProcessInv, Processes, Kin
      <3> QED BY <2>1, <3>1 DEF ProcessInv, Kin, Blank, Toward, Commands
    <2>4. StageInv(r, d)
      BY <1>1, <1>2, <1>3, <2>1, <2>2 DEF StageInv, Kin, Toward, Commands, Finals, Bare
    <2>5. /\ FlightInv(r, d) /\ ReadInv(r) /\ NameInv(r, d) /\ FieldInv(r) /\ KeepInv(r)
          /\ PendingInv(r, d) /\ CloseInv(r)
      BY <2>1 DEF FlightInv, ReadInv, NameInv, FieldInv, KeepInv, PendingInv, CloseInv, Toward, Commands,
                  Early
    <2>6. MindInv(r, d)
      BY <1>2, <1>3, <2>1, <2>2 DEF MindInv, Kin
    <2>7. FreshInv(r, d, t) /\ EndInv(r, d, t)
      BY <1>1, <1>2, <1>4, <2>1, <2>2 DEF FreshInv, EndInv, Bare, Kin
    <2> QED BY <1>5, <2>3, <2>4, <2>5, <2>6, <2>7 DEF Good, Placed
  <1> QED BY <1>6, <1>7

LEMMA FallenIsGood ==
  ASSUME Inv, p.pc \notin {"idle", "rmdir"}, ~Lives,
         NEW q, Kin(q), NEW r, NEW t, Fallen(r, t, q),
         NEW d \in Directories, d.dir = disk.dir, d.intent = disk.intent, d.completed = disk.completed,
         d.state = disk.state \/ (d.state = q.mem /\ q.mem # None /\ disk.intent # None)
  PROVE  Good(r, d, t)
  <1>1. ToolInv(r, d) /\ CommandInv(r, d)
    BY DEF ToolInv, CommandInv, Lives, Inv, Good
  <1> QED BY <1>1, FallenFits

\* The process is gone, and left its directory.
LEMMA Stopped ==
  ASSUME Inv, p.pc # "idle", NEW d \in Directories, d.dir = disk.dir, d.intent = disk.intent,
         d.completed = disk.completed, d.state = disk.state, ToolInv(Idle, d), CommandInv(Idle, d)
  PROVE  Good(Idle, d, "failed")
  <1>1. disk.dir
    BY Working
  <1>2. MindInv(p, disk) /\ EndInv(p, disk, told) /\ FreshInv(p, disk, told) /\ StageInv(p, disk)
    BY DEF Inv, Good, Placed
  <1>3. Placed(Idle, d)
    BY <1>1, <1>2, IdleFields, Zenon
       DEF Placed, ProcessInv, FlightInv, StageInv, ReadInv, NameInv, FieldInv, KeepInv, PendingInv,
           CloseInv, Toward, Commands, Early, Finals, Bare, Blank, Returns
  <1>4. MindInv(Idle, d)
    BY <1>2, IdleFields DEF MindInv
  <1>5. FreshInv(Idle, d, "failed") /\ EndInv(Idle, d, "failed")
    BY <1>2, IdleFields DEF FreshInv, EndInv, Bare
  <1> QED BY <1>3, <1>4, <1>5 DEF Good

\* The account, the tool and the fence are as they were.
LEMMA Still ==
  ASSUME Inv, Quiet, Good(p', disk', told')
  PROVE  Inv'
  <1> USE DEF Quiet, account
  <1>1. Sorts' /\ AccountInv'
    BY DEF Inv, Sorts, AccountInv, Whole, Hidden
  <1>2. /\ FlightInv(p, disk)' /\ StageInv(p, disk)' /\ ProcessInv(p)' /\ FieldInv(p)'
        /\ (disk \in Directories)'
    BY DEF Good, Placed, FlightInv, StageInv, ProcessInv, FieldInv
  <1>3. ReadInv(p)' /\ NameInv(p, disk)' /\ KeepInv(p)'
    BY DEF Good, Placed, ReadInv, NameInv, KeepInv, Later, Detached, Whole
  <1>4. PendingInv(p, disk)' /\ CommandInv(p, disk)'
    BY DEF Good, Placed, PendingInv, CommandInv, Writes, Hidden
  <1>5. CloseInv(p)' /\ EndInv(p, disk, told)' /\ FreshInv(p, disk, told)'
    BY DEF Good, Placed, CloseInv, EndInv, FreshInv, Whole, Detached, Owned
  <1>6. MindInv(p, disk)'
    BY DEF Good, MindInv, Sound, Planned, Whole, Hidden
  <1>7. ToolInv(p, disk)'
    BY DEF Good, ToolInv, Lives
  <1> QED BY <1>1, <1>2, <1>3, <1>4, <1>5, <1>6, <1>7 DEF Inv, Good, Placed

\* Where the terminal copy may exist.
Terminals == {"load", "terminal", "stage", "name", "scrap", "rmkeys", "rmintent", "rmlast", "rmdir"}

LEMMA NoTerminal ==
  ASSUME Inv, p.pc \notin Terminals \cup {"idle"}
  PROVE  disk.completed = None
  BY DEF Inv, Good, Placed, StageInv, Terminals

\* The checkpoint of q is written, and r goes on; or it fails.
LEMMA SaveAlone ==
  ASSUME Inv, Quiet, p.pc \notin Terminals \cup {"idle"}, ~Lives, NEW q, Kin(q), q.mem # None,
         NEW next \in Steps \ (Bare \cup {"rmdir"}), Checkpoint(q, next),
         NEW r, r = [q EXCEPT !.pc = next], NEW d, d = [disk EXCEPT !.state = q.mem], Placed(r, d)
  PROVE  Inv'
  <1>1. ~Lives /\ disk.completed = None /\ told # "clean"
    BY NoTerminal, Working
  <1>2. disk.intent # None /\ q.mem \in States /\ q \in Processes /\ disk \in Directories
    BY <1>1, Working DEF Kin, Processes
  <1>3. d \in Directories /\ d.state = q.mem /\ d.dir = disk.dir /\ d.intent = disk.intent
        /\ d.completed = disk.completed
    BY <1>2 DEF Directories
  <1>4. \/ disk' = d /\ p' = r /\ told' = told
        \/ /\ Fallen(p', told', q)
           /\ disk' \in {disk, d, [disk EXCEPT !.pending = @ \cup {"state"}]}
    BY <1>2, <1>3, WritingFields DEF Checkpoint
  <1>5. CASE disk' = d /\ p' = r /\ told' = told
    <2>1. r.pc = next /\ Like(r, q)
      BY <1>2, Moving
    <2>2. ToolInv(r, d) /\ CommandInv(r, d)
      BY <1>1 DEF Inv, Good, ToolInv, CommandInv, Lives
    <2>3. MindInv(r, d)
      BY <1>1, <1>3, <2>1 DEF MindInv, Kin, Like, Inv, Good
    <2>4. FreshInv(r, d, told)
      BY <1>3, <2>1, IdleFields DEF FreshInv, Like, Kin
    <2>5. EndInv(r, d, told)
      BY <1>1, <1>3, <2>1 DEF EndInv
    <2>6. Good(r, d, told)
      BY <1>3, <2>2, <2>3, <2>4, <2>5 DEF Good
    <2> QED BY <1>5, <2>6, Still
  <1>6. CASE /\ Fallen(p', told', q)
             /\ disk' \in {disk, d, [disk EXCEPT !.pending = @ \cup {"state"}]}
    <2> DEFINE e == [disk EXCEPT !.pending = @ \cup {"state"}]
    <2>1. e \in Directories /\ e.dir = disk.dir /\ e.intent = disk.intent /\ e.state = disk.state
          /\ e.completed = disk.completed
      BY <1>2 DEF Directories
    <2> HIDE DEF e
    <2>2. disk' \in {disk, d, e}
      BY <1>6 DEF e
    <2>3. disk' \in Directories /\ disk'.dir = disk.dir /\ disk'.intent = disk.intent
          /\ disk'.completed = disk.completed /\ (disk'.state = disk.state \/ disk'.state = q.mem)
      BY <1>2, <1>3, <2>1, <2>2
    <2>4. p.pc \notin {"idle", "rmdir"}
      BY DEF Terminals
    <2>5. Good(p', disk', told')
      BY <1>1, <1>2, <1>6, <2>3, <2>4, FallenIsGood
    <2> QED BY <2>5, Still
  <1> QED BY <1>4, <1>5, <1>6

LEMMA Save ==
  ASSUME Inv, Quiet, p.pc \notin Open \cup Terminals, NEW q, Kin(q), q.mem # None,
         NEW next \in Steps \ (Bare \cup {"rmdir"}), Checkpoint(q, next),
         NEW r, r = [q EXCEPT !.pc = next], NEW d, d = [disk EXCEPT !.state = q.mem], Placed(r, d)
  PROVE  Inv'
  BY SaveAlone, Alone DEF Open

\* The process goes on as r, and writes nothing.
LEMMA Going ==
  ASSUME Inv, UNCHANGED disk, p.pc # "idle", NEW q, Kin(q), NEW next \in Steps, Go(q, next),
         NEW r, r = [q EXCEPT !.pc = next], Placed(r, disk), ToolInv(r, disk), CommandInv(r, disk),
         next \in Bare => p.pc \in Bare,
         (disk.completed # None \/ next = "rmdir") /\ q.mem # None => (~q.mem.conflict => Whole)
  PROVE  Good(p', disk', told') /\ p' = r /\ told' # "clean"
  <1>1. told # "clean" /\ p # Idle /\ disk.dir /\ disk \in Directories
    BY Working
  <1>2. p' = r /\ told' = told
    BY DEF Go
  <1>3. r.pc = next /\ Like(r, q)
    BY Moving DEF Kin
  <1>4. ToolInv(r, disk) /\ CommandInv(r, disk)
    OBVIOUS
  <1>5. MindInv(r, disk)
    BY <1>3 DEF MindInv, Kin, Like, Inv, Good
  <1>6. FreshInv(r, disk, told)
    BY <1>1, <1>3 DEF FreshInv, Inv, Good
  <1>7. EndInv(r, disk, told)
    BY <1>1, <1>3 DEF EndInv, Inv, Good, Like
  <1>8. Good(r, disk, told)
    BY <1>1, <1>4, <1>5, <1>6, <1>7 DEF Good
  <1> QED BY <1>1, <1>2, <1>8

LEMMA Stepping ==
  ASSUME Inv, UNCHANGED disk, p.pc # "idle", ~Lives, NEW q, Kin(q), NEW next \in Steps, Go(q, next),
         NEW r, r = [q EXCEPT !.pc = next], Placed(r, disk),
         next \in Bare => p.pc \in Bare,
         (disk.completed # None \/ next = "rmdir") /\ q.mem # None => (~q.mem.conflict => Whole)
  PROVE  Good(p', disk', told') /\ p' = r /\ told' # "clean"
  <1>1. ToolInv(r, disk) /\ CommandInv(r, disk)
    BY DEF ToolInv, CommandInv, Lives, Inv, Good
  <1> QED BY <1>1, Going

LEMMA Step ==
  ASSUME Inv, Quiet, UNCHANGED disk, p.pc \notin Open, NEW q, Kin(q), NEW next \in Steps, Go(q, next),
         NEW r, r = [q EXCEPT !.pc = next], Placed(r, disk),
         next \in Bare => p.pc \in Bare,
         (disk.completed # None \/ next = "rmdir") /\ q.mem # None => (~q.mem.conflict => Whole)
  PROVE  Inv'
  BY Stepping, Still, Alone DEF Open

\* An exception, and nothing else.
LEMMA Failing ==
  ASSUME Inv, UNCHANGED disk, p.pc \notin {"idle", "rmdir"}, ~Lives, NEW q, Kin(q), Raise(q)
  PROVE  /\ Good(p', disk', told') /\ told' # "clean"
         /\ p' = Idle \/ p'.pc \in {"undo", "cleanup"}
  <1>1. Fallen(p', told', q)
    BY Raising DEF Kin
  <1>2. Good(p', disk', told')
    BY <1>1, Working, FallenIsGood
  <1> QED BY <1>1, <1>2, Working DEF Fallen

LEMMA Fail ==
  ASSUME Inv, Quiet, UNCHANGED disk, p.pc \notin Open \cup {"rmdir"}, NEW q, Kin(q), Raise(q)
  PROVE  Inv'
  BY Failing, Still, Alone DEF Open

\* The installed name, or the private stage, goes; or the stage changes where a
\* checkpoint is there to tell of it.
LEMMA ProfileMoves ==
  ASSUME Inv, UNCHANGED <<fence, native, prefs, tool, want>>, Good(p', disk', told'),
         told' # "clean", prof' \in Profile,
         prof'.name = prof.name \/ (prof.name = "own" /\ prof'.name = "none"),
         \/ prof'.stage \in {prof.stage, "none"}
         \/ disk'.state # None /\ disk'.completed = None /\ p'.pc \notin {"name", "named", "complete"}
  PROVE  Inv'
  <1>1. Sorts' /\ AccountInv'
    BY DEF Inv, Sorts, AccountInv, Whole, Hidden, Profile, Names
  <1>2. /\ FlightInv(p, disk)' /\ StageInv(p, disk)' /\ ProcessInv(p)' /\ FieldInv(p)'
        /\ (disk \in Directories)'
    BY DEF Good, Placed, FlightInv, StageInv, ProcessInv, FieldInv
  <1>3. ReadInv(p)' /\ NameInv(p, disk)' /\ KeepInv(p)'
    BY DEF Good, Placed, ReadInv, NameInv, KeepInv, Later, Detached, Whole
  <1>4. PendingInv(p, disk)' /\ CommandInv(p, disk)'
    BY DEF Good, Placed, PendingInv, CommandInv, Writes, Hidden
  <1>5. CloseInv(p)' /\ EndInv(p, disk, told)' /\ FreshInv(p, disk, told)'
    BY DEF Good, Placed, CloseInv, EndInv, FreshInv, Whole, Detached, Owned
  <1>6. MindInv(p, disk)'
    BY DEF Good, MindInv, Sound, Planned, Whole, Hidden
  <1>7. ToolInv(p, disk)'
    BY DEF Good, ToolInv, Lives
  <1> QED BY <1>1, <1>2, <1>3, <1>4, <1>5, <1>6, <1>7 DEF Inv, Good, Placed

-----------------------------------------------------------------------------
(* The installer: each of its steps is a checkpoint of its own.            *)

Installing == {"look", "reuse", "staging", "make", "made", "fill", "linking", "link", "borrow",
               "linked", "unstage", "unstaged", "confirm"}

\* q is the process with the checkpoint m in its memory.
Remembers(q, m) ==
  /\ q \in Processes /\ q.mem = m /\ m \in States
  /\ q.pc = p.pc /\ q.mode = p.mode /\ q.at = p.at /\ q.back = p.back /\ q.field = p.field
  /\ q.intent = p.intent /\ q.cmd = p.cmd /\ q.cur = p.cur /\ q.keep = p.keep
  /\ q.unresolved = p.unresolved

\* m says of the preferences, and of the command, what n says.
Alike(m, n) ==
  m.tried = n.tried /\ m.prefs = n.prefs /\ m.conflict = n.conflict /\ m.inflight = n.inflight

LEMMA Remembering ==
  ASSUME NEW q, NEW n, Remembers(q, n), NEW m \in States
  PROVE  Remembers([q EXCEPT !.mem = m], m) /\ [q EXCEPT !.mem = m].inst = q.inst
  BY DEF Remembers, Processes

LEMMA Checked ==
  ASSUME Inv, p.pc \notin Blank
  PROVE  /\ p \in Processes /\ p.mem \in States /\ p.mem # None
         /\ p.intent \in Intents /\ p.intent # None /\ Remembers(p, p.mem)
  BY NoneIsNoRecord DEF Inv, Good, Placed, ProcessInv, Processes, Remembers

LEMMA InstallerSaves ==
  ASSUME Inv, Quiet, p.pc \in Installing, NEW m \in States, Alike(m, p.mem), NEW q, Remembers(q, m),
         prof.name = "own" => OwnsName(m),
         NEW next \in Installing \cup {"refused"}, Checkpoint(q, next),
         NameInv([q EXCEPT !.pc = next], [disk EXCEPT !.state = q.mem])
  PROVE  Inv'
  <1> DEFINE r == [q EXCEPT !.pc = next]
             d == [disk EXCEPT !.state = q.mem]
  <1>1. p.pc \notin Open \cup Terminals \cup Blank \cup Commands \cup Finals
    BY DEF Installing, Open, Terminals, Blank, Commands, Finals
  <1>2. /\ p.mem # None /\ p.intent # None /\ disk.completed = None /\ disk.dir
        /\ disk \in Directories /\ m # None
    BY <1>1, Checked, NoTerminal, Working, NoneIsNoRecord DEF Open
  <1>3. next \in Steps /\ next \notin Bare \cup Blank \cup Finals \cup Commands
    BY DEF Installing, Steps, Blank, Bare, Finals, Commands
  <1>4. Like(r, q) /\ r.pc = next
    BY <1>3, Moving DEF Remembers
  <1>5. d.state = m /\ d.dir = disk.dir /\ d.intent = disk.intent /\ d.completed = disk.completed
    BY <1>2 DEF Directories, Remembers
  <1>6. ProcessInv(p) /\ StageInv(p, disk) /\ FieldInv(p) /\ MindInv(p, disk)
    BY DEF Inv, Good, Placed
  <1>7. NameInv(r, d)
    OBVIOUS
  <1> HIDE DEF r, d
  <1>8. p.intent = disk.intent
    BY <1>1, <1>2, <1>6 DEF StageInv, Terminals
  <1>9. Kin(q)
    BY <1>1, <1>2, <1>6, <1>8 DEF MindInv, Kin, Remembers, Alike, Sound
  <1>10. Placed(r, d)
    <2>1. ProcessInv(r)
      BY <1>2, <1>3, <1>4, <1>6
         DEF ProcessInv, Toward, Remembers, Like, Installing, Bare, Blank, Commands
    <2>2. FlightInv(r, d) /\ ReadInv(r) /\ KeepInv(r) /\ PendingInv(r, d) /\ CloseInv(r)
      BY <1>3, <1>4
         DEF FlightInv, ReadInv, KeepInv, PendingInv, CloseInv, Toward, Commands, Installing
    <2>3. StageInv(r, d)
      BY <1>2, <1>3, <1>4, <1>5, <1>8
         DEF StageInv, Toward, Finals, Bare, Blank, Remembers, Like, Installing
    <2>4. FieldInv(r)
      BY <1>3, <1>4, <1>6 DEF FieldInv, Toward, Early, Installing, Remembers, Like, Alike, Commands
    <2> QED BY <1>7, <2>1, <2>2, <2>3, <2>4 DEF Placed
  <1>11. next \in Steps \ (Bare \cup {"rmdir"}) /\ q.mem # None /\ p.pc \notin Open \cup Terminals
    BY <1>1, <1>2, <1>3 DEF Remembers, Blank
  <1> QED BY <1>9, <1>10, <1>11, Save DEF r, d

\* What must be so when the installer comes to a step with the checkpoint n, moved on
\* to a phase, and its own record i.
Comes(next, n, phase, i) ==
  /\ next \in {"look", "reuse", "staging", "make", "made", "fill", "linking", "borrow"} =>
       prof.name # "own"
  /\ next \in {"fill", "linking", "link"} => n.stage
  /\ next = "link" => phase = "link-intent"
  /\ next = "linked" /\ prof.name = "own" => i.linked
  /\ next \in {"unstage", "unstaged"} /\ prof.name = "own" => n.own

Phases == {"not-started", "inspected", "reused", "stage-intent", "stage-created", "link-intent",
           "linked", "stage-removed", "resolved"}

LEMMA EventKeeps ==
  ASSUME Inv, Quiet, p.pc \in Installing, NEW n \in States, Alike(n, p.mem), NEW q, Remembers(q, n),
         NEW phase \in Phases, prof.name = "own" => n.own \/ (phase = "link-intent" /\ n.stage),
         NEW next \in Installing \cup {"refused"}, Comes(next, n, phase, q.inst), Event(q, phase, next)
  PROVE  Inv'
  <1> DEFINE m == [n EXCEPT !.phase = phase]
             s == [q EXCEPT !.mem = m]
             r == [s EXCEPT !.pc = next]
             d == [disk EXCEPT !.state = s.mem]
  <1>1. /\ m \in States /\ Alike(m, p.mem) /\ m.phase = phase /\ m.own = n.own
        /\ m.stage = n.stage
    BY DEF States, Phases, Alike
  <1>2. Checkpoint(s, next)
    BY DEF Event, Remembers
  <1> HIDE DEF m
  <1>3. Remembers(s, m) /\ s.inst = q.inst
    BY <1>1, Remembering
  <1>4. next \in Steps /\ disk \in Directories
    BY Working DEF Installing, Steps
  <1>5. Like(r, s) /\ r.pc = next
    BY <1>3, <1>4, Moving DEF Remembers
  <1>6. d.state = m
    BY <1>3, <1>4 DEF Directories, Remembers
  <1>7. NameInv(r, d)
    BY <1>1, <1>3, <1>5, <1>6 DEF NameInv, Comes, Remembers, Like
  <1>8. prof.name = "own" => OwnsName(m)
    BY <1>1 DEF OwnsName
  <1> HIDE DEF s
  <1> QED BY <1>1, <1>2, <1>3, <1>7, <1>8, InstallerSaves

LEMMA InspectKeeps ==
  ASSUME Inv, Inspect
  PROVE  Inv'
  <1> DEFINE next == CASE prof.name = "none" -> "staging" [] prof.name = "same" -> "reuse"
                       [] OTHER -> "refused"
  <1>1. p.pc = "look" /\ Quiet /\ Event(p, "inspected", next)
    BY DEF Inspect, At
  <1>2. p.mem \in States /\ Remembers(p, p.mem) /\ NameInv(p, disk) /\ Alike(p.mem, p.mem)
    BY <1>1, Checked DEF Blank, Inv, Good, Placed, Alike
  <1>3. next \in Installing \cup {"refused"} /\ Comes(next, p.mem, "inspected", p.inst)
    BY <1>1, <1>2 DEF Installing, Comes, NameInv
  <1> HIDE DEF next
  <1> QED BY <1>1, <1>2, <1>3, EventKeeps DEF Installing, Phases, NameInv

LEMMA StagingKeeps ==
  ASSUME Inv, Staging
  PROVE  Inv'
  <1>1. p.pc = "staging" /\ Quiet /\ Event(p, "stage-intent", "make")
    BY DEF Staging, At
  <1>2. p.mem \in States /\ Remembers(p, p.mem) /\ NameInv(p, disk) /\ Alike(p.mem, p.mem)
    BY <1>1, Checked DEF Blank, Inv, Good, Placed, Alike
  <1> QED BY <1>1, <1>2, EventKeeps DEF Installing, Phases, NameInv, Comes

LEMMA MadeKeeps ==
  ASSUME Inv, Made
  PROVE  Inv'
  <1> DEFINE n == [p.mem EXCEPT !.stage = TRUE]
             q == [p EXCEPT !.mem = n]
  <1>1. p.pc = "made" /\ Quiet /\ Event(q, "stage-created", "fill")
    BY DEF Made, At
  <1>2. p.mem \in States /\ Remembers(p, p.mem) /\ NameInv(p, disk) /\ p \in Processes
    BY <1>1, Checked DEF Blank, Inv, Good, Placed
  <1>3. n \in States /\ Alike(n, p.mem) /\ n.stage
    BY <1>2 DEF States, Alike, Processes, Installers
  <1> HIDE DEF n
  <1>4. Remembers(q, n) /\ q.inst = p.inst
    BY <1>2, <1>3, Remembering
  <1> HIDE DEF q
  <1> QED BY <1>1, <1>2, <1>3, <1>4, EventKeeps DEF Installing, Phases, NameInv, Comes

LEMMA LinkedKeeps ==
  ASSUME Inv, Linked
  PROVE  Inv'
  <1> DEFINE n == [p.mem EXCEPT !.own = p.inst.linked]
             q == [p EXCEPT !.mem = n]
  <1>1. p.pc = "linked" /\ Quiet /\ Event(q, "linked", "unstage")
    BY DEF Linked, At
  <1>2. p.mem \in States /\ Remembers(p, p.mem) /\ NameInv(p, disk) /\ p \in Processes
    BY <1>1, Checked DEF Blank, Inv, Good, Placed
  <1>3. n \in States /\ Alike(n, p.mem) /\ n.own = p.inst.linked
    BY <1>2 DEF States, Alike, Processes, Installers
  <1> HIDE DEF n
  <1>4. Remembers(q, n) /\ q.inst = p.inst
    BY <1>2, <1>3, Remembering
  <1> HIDE DEF q
  <1> QED BY <1>1, <1>2, <1>3, <1>4, EventKeeps DEF Installing, Phases, NameInv, Comes

LEMMA UnstagedKeeps ==
  ASSUME Inv, Unstaged
  PROVE  Inv'
  <1>1. p.pc = "unstaged" /\ Quiet /\ Event(p, "stage-removed", "confirm")
    BY DEF Unstaged, At
  <1>2. p.mem \in States /\ Remembers(p, p.mem) /\ NameInv(p, disk) /\ Alike(p.mem, p.mem)
    BY <1>1, Checked DEF Blank, Inv, Good, Placed, Alike
  <1> QED BY <1>1, <1>2, EventKeeps DEF Installing, Phases, NameInv, Comes

LEMMA LinkingKeeps ==
  ASSUME Inv, Linking
  PROVE  Inv'
  <1> DEFINE q == [p EXCEPT !.inst.tried = TRUE]
  <1>1. p.pc = "linking" /\ Quiet /\ Event(q, "link-intent", "link")
    BY DEF Linking, At
  <1>2. p.mem \in States /\ Remembers(p, p.mem) /\ NameInv(p, disk) /\ Alike(p.mem, p.mem)
    BY <1>1, Checked DEF Blank, Inv, Good, Placed, Alike
  <1>3. Remembers(q, p.mem)
    BY <1>2 DEF Remembers, Processes, Installers
  <1> HIDE DEF q
  <1> QED BY <1>1, <1>2, <1>3, EventKeeps DEF Installing, Phases, NameInv, Comes

LEMMA Borrowing ==
  ASSUME Inv, Quiet, p.pc \in {"reuse", "borrow"}, NEW next \in {"confirm", "linked"}, Borrow(p, next)
  PROVE  Inv'
  <1> DEFINE n == [p.mem EXCEPT !.borrowed = "same"]
             q == [p EXCEPT !.inst.reused = TRUE, !.mem = n]
  <1>1. Event(q, "reused", next)
    BY DEF Borrow
  <1>2. p.mem \in States /\ Remembers(p, p.mem) /\ NameInv(p, disk)
    BY Checked DEF Blank, Inv, Good, Placed
  <1>3. n \in States /\ Alike(n, p.mem)
    BY <1>2 DEF States, Alike
  <1> HIDE DEF n
  <1>4. Remembers(q, n)
    BY <1>2, <1>3 DEF Remembers, Processes, Installers
  <1> HIDE DEF q
  <1> QED BY <1>1, <1>2, <1>3, <1>4, EventKeeps DEF Installing, Phases, NameInv, Comes

LEMMA LateBorrowKeeps ==
  ASSUME Inv, LateBorrow
  PROVE  Inv'
  BY Borrowing DEF LateBorrow, At

LEMMA ReuseKeeps ==
  ASSUME Inv, Reuse
  PROVE  Inv'
  <1>1. p.pc = "reuse" /\ Quiet
    BY DEF Reuse, At
  <1>2. CASE prof.name = "same"
    BY <1>1, <1>2, Borrowing DEF Reuse
  <1>3. CASE prof.name # "same"
    <2> DEFINE q == Conflict(p, "name")
    <2>1. Raise(q) /\ UNCHANGED disk
      BY <1>3 DEF Reuse
    <2>2. Kin(p)
      BY <1>1, KinSelf
    <2>3. Kin(q)
      BY <2>2 DEF Kin, Conflict, Processes, Installers
    <2> HIDE DEF q
    <2> QED BY <1>1, <2>1, <2>3, Fail DEF Open
  <1> QED BY <1>2, <1>3

LEMMA MakeStageKeeps ==
  ASSUME Inv, MakeStage
  PROVE  Inv'
  <1> DEFINE q == [p EXCEPT !.inst.made = TRUE]
             r == [q EXCEPT !.pc = "made"]
  <1>1. /\ p.pc = "make" /\ Go(q, "made") /\ prof' = [prof EXCEPT !.stage = "part"]
        /\ UNCHANGED <<disk, fence, native, prefs, tool, want>>
    BY DEF MakeStage, At
  <1>2. Kin(p) /\ Kin(q)
    <2>1. Kin(p)
      BY <1>1, KinSelf
    <2>2. p.mem # None /\ p \in Processes
      BY <1>1, Checked DEF Blank
    <2> QED BY <2>1, <2>2 DEF Kin, Processes, Installers
  <1>3. "made" \in Steps
    BY DEF Steps
  <1>4. r.pc = "made" /\ Like(r, q) /\ q.mem = p.mem
    BY <1>2, <1>3, Moving DEF Kin, Processes
  <1>5. disk.completed = None /\ disk.state # None /\ disk.dir /\ p.mem # None
    BY <1>1, NoTerminal, Working, Checked DEF Terminals, Blank, Inv, Good, Placed, StageInv
  <1>6. Placed(p, disk)
    BY DEF Inv, Good
  <1> HIDE DEF q, r
  <1>7. Placed(r, disk)
    BY <1>1, <1>2, <1>4, <1>5, <1>6
       DEF Placed, ProcessInv, FlightInv, StageInv, ReadInv, NameInv, FieldInv, KeepInv, PendingInv,
           CloseInv, Toward, Commands, Early, Finals, Bare, Blank, Returns, Kin, Like
  <1>8. Good(p', disk', told') /\ p' = r /\ told' # "clean"
    BY <1>1, <1>2, <1>3, <1>5, <1>7, Stepping, Alone DEF Open, Bare, r
  <1>9. prof' \in Profile /\ prof'.name = prof.name
    BY <1>1 DEF Inv, Sorts, Profile
  <1> QED BY <1>1, <1>4, <1>5, <1>8, <1>9, ProfileMoves

LEMMA FillKeeps ==
  ASSUME Inv, Fill
  PROVE  Inv'
  <1> DEFINE r == [p EXCEPT !.pc = "linking"]
  <1>1. /\ p.pc = "fill" /\ Go(p, "linking") /\ prof' = [prof EXCEPT !.stage = "own"]
        /\ UNCHANGED <<disk, fence, native, prefs, tool, want>>
    BY DEF Fill, At
  <1>2. Kin(p)
    BY <1>1, KinSelf
  <1>3. "linking" \in Steps
    BY DEF Steps
  <1>4. r.pc = "linking" /\ Like(r, p)
    BY <1>2, <1>3, Moving DEF Kin
  <1>5. disk.completed = None /\ disk.state # None /\ disk.dir /\ p.mem # None
    BY <1>1, NoTerminal, Working, Checked DEF Terminals, Blank, Inv, Good, Placed, StageInv
  <1>6. Placed(p, disk)
    BY DEF Inv, Good
  <1> HIDE DEF r
  <1>7. Placed(r, disk)
    BY <1>1, <1>2, <1>4, <1>5, <1>6
       DEF Placed, ProcessInv, FlightInv, StageInv, ReadInv, NameInv, FieldInv, KeepInv, PendingInv,
           CloseInv, Toward, Commands, Early, Finals, Bare, Blank, Returns, Kin, Like
  <1>8. Good(p', disk', told') /\ p' = r /\ told' # "clean"
    BY <1>1, <1>2, <1>3, <1>5, <1>7, Stepping, Alone DEF Open, Bare, r
  <1>9. prof' \in Profile /\ prof'.name = prof.name
    BY <1>1 DEF Inv, Sorts, Profile
  <1> QED BY <1>1, <1>4, <1>5, <1>8, <1>9, ProfileMoves

LEMMA UnstageKeeps ==
  ASSUME Inv, Unstage
  PROVE  Inv'
  <1> DEFINE q == [p EXCEPT !.inst.made = FALSE]
             r == [q EXCEPT !.pc = "unstaged"]
             s == Conflict(p, "stage")
  <1>1. /\ p.pc = "unstage" /\ UNCHANGED <<disk, fence, native, prefs, tool, want>>
        /\ Go(q, "unstaged") \/ Raise(s)
        /\ prof' \in {prof, [prof EXCEPT !.stage = "none"]}
    BY DEF Unstage, At
  <1>2. Kin(p) /\ p.mem # None /\ p \in Processes
    BY <1>1, KinSelf, Checked DEF Blank
  <1>3. Kin(q) /\ Kin(s)
    BY <1>2 DEF Kin, Processes, Installers, Conflict
  <1>4. "unstaged" \in Steps
    BY DEF Steps
  <1>5. r.pc = "unstaged" /\ Like(r, q) /\ q.mem = p.mem
    BY <1>2, <1>3, <1>4, Moving DEF Kin, Processes
  <1>6. disk.completed = None /\ disk.dir /\ Placed(p, disk)
    BY <1>1, NoTerminal, Working DEF Terminals, Inv, Good
  <1> HIDE DEF q, r, s
  <1>7. Placed(r, disk)
    BY <1>1, <1>2, <1>3, <1>5, <1>6
       DEF Placed, ProcessInv, FlightInv, StageInv, ReadInv, NameInv, FieldInv, KeepInv, PendingInv,
           CloseInv, Toward, Commands, Early, Finals, Bare, Blank, Returns, Kin, Like
  <1>8. Good(p', disk', told') /\ told' # "clean"
    <2>1. CASE Go(q, "unstaged")
      BY <1>1, <1>3, <1>4, <1>6, <1>7, <2>1, Stepping, Alone DEF Open, Bare, r
    <2>2. CASE Raise(s)
      BY <1>1, <1>3, <2>2, Failing, Alone DEF Open
    <2> QED BY <1>1, <2>1, <2>2
  <1>9. prof' \in Profile /\ prof'.name = prof.name /\ prof'.stage \in {prof.stage, "none"}
    BY <1>1 DEF Inv, Sorts, Profile
  <1> QED BY <1>1, <1>8, <1>9, ProfileMoves

\* The first checkpoint: the account is still as the user has it.
LEMMA FirstKeeps ==
  ASSUME Inv, First
  PROVE  Inv'
  <1> DEFINE m == InitialState(p.intent)
             q == [p EXCEPT !.mem = m, !.at = "install", !.inst.active = TRUE]
             r == [q EXCEPT !.pc = "look"]
             d == [disk EXCEPT !.state = q.mem]
  <1>1. p.pc = "first" /\ Quiet /\ Checkpoint(q, "look")
    BY DEF First, At
  <1>2. /\ p \in Processes /\ p.intent \in Intents /\ p.intent # None /\ disk.intent = p.intent
        /\ p.mode = "normal" /\ p.mem = None /\ disk.state = None /\ disk.completed = None
    BY <1>1 DEF Inv, Good, Placed, ProcessInv, StageInv, Processes, Bare
  <1>3. disk.dir /\ disk \in Directories
    BY <1>1, Working
  <1>4. /\ m \in States /\ ~m.own /\ m.phase = "not-started" /\ m.tried = {} /\ ~m.stage
        /\ m.prefs = p.intent.prefs
    BY <1>2 DEF InitialState, States, Intents, NoKeychain, Keychain
  <1> HIDE DEF m
  <1>5. /\ q \in Processes /\ q.mem = m /\ q.pc = "first" /\ q.mode = p.mode /\ q.at = "install"
        /\ q.intent = p.intent /\ q.unresolved = p.unresolved
    BY <1>1, <1>2, <1>4 DEF Processes, Installers, Places
  <1>6. m # None /\ "look" \in Steps
    BY <1>4, NoneIsNoRecord DEF Steps
  <1>7. Like(r, q) /\ r.pc = "look"
    BY <1>5, <1>6, Moving
  <1>8. d.state = m /\ d.dir = disk.dir /\ d.intent = disk.intent /\ d.completed = disk.completed
    BY <1>3, <1>5 DEF Directories
  <1> HIDE DEF q, r, d
  <1>9. prof.name # "own"
    BY <1>2 DEF Inv, Good, EndInv, Owned
  <1>10. Whole /\ "orig" \in want.prefs.search
    BY <1>1 DEF Inv, Good, FreshInv, Bare
  <1>11. Kin(q)
    <2>1. Sound(m)
      BY <1>4, <1>9, <1>10 DEF Sound
    <2> QED BY <1>1, <1>2, <1>5, <1>6, <2>1 DEF Kin, Finals
  <1>12. Placed(r, d)
    BY <1>2, <1>3, <1>4, <1>5, <1>6, <1>7, <1>8, <1>9
       DEF Placed, ProcessInv, FlightInv, StageInv, ReadInv, NameInv, FieldInv, KeepInv, PendingInv,
           CloseInv, Toward, Commands, Early, Finals, Bare, Blank, Returns, Kin, Like
  <1> QED BY <1>1, <1>5, <1>6, <1>11, <1>12, Save DEF Open, Terminals, Bare, r, d

\* The profile gets the name, under a checkpoint that says it may.
LEMMA NameComes ==
  ASSUME Inv, UNCHANGED <<fence, native, prefs, tool, want>>, Good(p', disk', told'),
         told' # "clean", prof.name = "none", prof' = [prof EXCEPT !.name = "own"],
         p'.mem # None => OwnsName(p'.mem), disk'.state # None, OwnsName(disk'.state),
         disk'.completed = None, p'.pc \notin Early \cup {"named", "complete"} \/ p'.pc = "linked",
         p'.pc = "linked" => p'.inst.linked
  PROVE  Inv'
  <1>1. prof' \in Profile /\ prof'.name = "own" /\ prof'.stage = prof.stage
    BY DEF Inv, Sorts, Profile
  <1>2. Sorts' /\ AccountInv'
    BY <1>1 DEF Inv, Sorts, AccountInv, Whole, Hidden, Profile, Names
  <1>3. /\ FlightInv(p, disk)' /\ StageInv(p, disk)' /\ ProcessInv(p)' /\ FieldInv(p)'
        /\ (disk \in Directories)'
    BY DEF Good, Placed, FlightInv, StageInv, ProcessInv, FieldInv
  <1>4. ReadInv(p)' /\ NameInv(p, disk)' /\ KeepInv(p)'
    BY DEF Good, Placed, ReadInv, NameInv, KeepInv, Later, Detached, Whole, Early
  <1>5. PendingInv(p, disk)' /\ CommandInv(p, disk)'
    BY DEF Good, Placed, PendingInv, CommandInv, Writes, Hidden
  <1>6. CloseInv(p)' /\ EndInv(p, disk, told)' /\ FreshInv(p, disk, told)'
    BY <1>1 DEF Good, Placed, CloseInv, EndInv, FreshInv, Whole, Detached, Owned, Early
  <1>7. MindInv(p, disk)'
    BY DEF Good, MindInv, Sound, Planned, Whole, Hidden, OwnsName
  <1>8. ToolInv(p, disk)'
    BY DEF Good, ToolInv, Lives
  <1> QED BY <1>2, <1>3, <1>4, <1>5, <1>6, <1>7, <1>8 DEF Inv, Good, Placed

LEMMA LinkKeeps ==
  ASSUME Inv, Link
  PROVE  Inv'
  <1>1. p.pc = "link" /\ UNCHANGED <<disk, fence, native, prefs, tool, want>>
    BY DEF Link, At
  <1>2. Kin(p) /\ p.mem # None /\ p \in Processes
    BY <1>1, KinSelf, Checked DEF Blank
  <1>3. disk.completed = None /\ disk.dir /\ Placed(p, disk)
    BY <1>1, NoTerminal, Working DEF Terminals, Inv, Good
  <1>4. p.mem.stage /\ p.mem.phase = "link-intent" /\ disk.state = p.mem /\ disk.state # None
    BY <1>1, <1>2, <1>3 DEF Placed, NameInv
  <1>5. OwnsName(p.mem) /\ OwnsName(disk.state)
    BY <1>4 DEF OwnsName
  <1>6. Raise(p) => /\ Good(p', disk', told') /\ told' # "clean"
                    /\ p' = Idle \/ (p'.pc \in {"undo", "cleanup"} /\ p'.mem = p.mem)
    <2>1. p \in Processes /\ p.pc \notin Open \cup {"rmdir"}
      BY <1>1, <1>2 DEF Open
    <2> HAVE Raise(p)
    <2>2. Fallen(p', told', p)
      BY <2>1, Raising
    <2> QED BY <1>1, <1>2, <2>1, <2>2, Failing, Alone DEF Fallen, Open
  <1>7. CASE /\ prof.name = "none" /\ prof' = [prof EXCEPT !.name = "own"]
             /\ Go([p EXCEPT !.inst.linked = TRUE], "linked")
    <2> DEFINE q == [p EXCEPT !.inst.linked = TRUE]
               r == [q EXCEPT !.pc = "linked"]
    <2>1. Kin(q) /\ q.mem = p.mem /\ q.inst.linked
      BY <1>2 DEF Kin, Processes, Installers
    <2>2. "linked" \in Steps
      BY DEF Steps
    <2>3. r.pc = "linked" /\ Like(r, q)
      BY <2>1, <2>2, Moving DEF Kin
    <2>4. Go(q, "linked")
      BY <1>7
    <2> HIDE DEF q, r
    <2>5. Placed(r, disk)
      BY <1>1, <1>2, <1>3, <1>4, <2>1, <2>3, <1>7
         DEF Placed, ProcessInv, FlightInv, StageInv, ReadInv, NameInv, FieldInv, KeepInv,
             PendingInv, CloseInv, Toward, Commands, Early, Finals, Bare, Blank, Returns, Kin, Like
    <2>6. Good(p', disk', told') /\ p' = r /\ told' # "clean"
      BY <1>1, <1>3, <2>1, <2>2, <2>4, <2>5, Stepping, Alone DEF Open, Bare, r
    <2>7. p'.mem = p.mem /\ p'.pc = "linked" /\ p'.inst.linked
      BY <2>1, <2>3, <2>6 DEF Like
    <2> QED BY <1>1, <1>3, <1>4, <1>5, <1>7, <2>6, <2>7, NameComes
  <1>8. CASE Raise(p) /\ prof.name = "none" /\ prof' \in {prof, [prof EXCEPT !.name = "own"]}
    <2>1. CASE prof' = prof
      BY <1>1, <1>6, <1>8, <2>1, Still DEF Quiet, account, Link
    <2>2. CASE prof' = [prof EXCEPT !.name = "own"]
      <3>1. p'.pc \notin Early \cup {"named", "complete", "linked"} /\ (p'.mem # None => p'.mem = p.mem)
        BY <1>6, <1>8, IdleFields DEF Early
      <3> QED BY <1>1, <1>3, <1>4, <1>5, <1>6, <1>8, <2>2, <3>1, NameComes
    <2> QED BY <1>8, <2>1, <2>2
  <1>9. CASE /\ UNCHANGED prof
             /\ Raise(p) \/ (Go([p EXCEPT !.inst.reused = TRUE], "borrow") /\ prof.name = "same")
    <2> DEFINE q == [p EXCEPT !.inst.reused = TRUE]
               r == [q EXCEPT !.pc = "borrow"]
    <2>1. Kin(q) /\ q.mem = p.mem
      BY <1>2 DEF Kin, Processes, Installers
    <2>2. "borrow" \in Steps
      BY DEF Steps
    <2>3. r.pc = "borrow" /\ Like(r, q)
      BY <2>1, <2>2, Moving DEF Kin
    <2>4. Raise(p) \/ (Go(q, "borrow") /\ prof.name = "same")
      BY <1>9
    <2> HIDE DEF q, r
    <2>5. CASE Raise(p)
      BY <1>1, <1>6, <1>9, <2>5, Still DEF Quiet, account, Link
    <2>6. CASE Go(q, "borrow") /\ prof.name = "same"
      <3>1. Placed(r, disk)
        BY <1>1, <1>2, <1>3, <1>4, <2>1, <2>3, <2>6
           DEF Placed, ProcessInv, FlightInv, StageInv, ReadInv, NameInv, FieldInv, KeepInv,
               PendingInv, CloseInv, Toward, Commands, Early, Finals, Bare, Blank, Returns, Kin,
               Like
      <3>2. Good(p', disk', told')
        BY <1>1, <1>3, <2>1, <2>2, <2>6, <3>1, Stepping, Alone DEF Open, Bare, r
      <3> QED BY <1>1, <1>9, <3>2, Still DEF Quiet, account, Link
    <2> QED BY <2>4, <2>5, <2>6
  <1> QED BY <1>7, <1>8, <1>9 DEF Link

LEMMA ConfirmKeeps ==
  ASSUME Inv, Confirm
  PROVE  Inv'
  <1> DEFINE q == [p EXCEPT !.at = "body"]
             r == [q EXCEPT !.pc = "create"]
             s == Conflict(p, "name")
  <1>1. p.pc = "confirm" /\ Quiet /\ UNCHANGED disk /\ (Go(q, "create") \/ Raise(s))
    BY DEF Confirm, At, Calm
  <1>2. Kin(p) /\ p.mem # None /\ p \in Processes
    BY <1>1, KinSelf, Checked DEF Blank
  <1>3. disk.completed = None /\ disk.dir /\ Placed(p, disk)
    BY <1>1, NoTerminal, Working DEF Terminals, Inv, Good
  <1>5. Kin(q) /\ Kin(s)
    BY <1>1, <1>2 DEF Kin, Processes, Installers, Conflict, Places, Finals
  <1>6. "create" \in Steps
    BY DEF Steps
  <1>7. r.pc = "create" /\ Like(r, q) /\ q.mem = p.mem
    BY <1>2, <1>5, <1>6, Moving DEF Kin, Processes
  <1> HIDE DEF q, r, s
  <1>8. Placed(r, disk)
    BY <1>1, <1>2, <1>3, <1>5, <1>7
       DEF Placed, ProcessInv, FlightInv, StageInv, ReadInv, NameInv, FieldInv, KeepInv, PendingInv,
           CloseInv, Toward, Commands, Early, Finals, Bare, Blank, Returns, Kin, Like
  <1>9. CASE Go(q, "create")
    BY <1>1, <1>3, <1>5, <1>6, <1>8, <1>9, Step DEF Open, Bare, r
  <1>10. CASE Raise(s)
    BY <1>1, <1>5, <1>10, Fail DEF Open
  <1> QED BY <1>1, <1>9, <1>10


-----------------------------------------------------------------------------
(* A new session.                                                          *)

LEMMA StartKeeps ==
  ASSUME Inv, Start
  PROVE  Inv'
  <1> DEFINE r == [Idle EXCEPT !.mode = "normal", !.at = "setup", !.pc = "keys"]
             d == [disk EXCEPT !.dir = TRUE]
  <1>1. p = Idle /\ ~disk.dir /\ told = "none" /\ p' = r /\ disk' = d /\ told' = told /\ Quiet
    BY DEF Start, Quiet
  <1>2. /\ r \in Processes /\ r.mode = "normal" /\ r.at = "setup" /\ r.pc = "keys"
        /\ r.mem = None /\ r.intent = None /\ ~r.inst.active
    <2>1. "keys" \in Steps /\ "setup" \in Places
      BY DEF Steps, Places
    <2> QED BY <2>1, IdleFields DEF Processes
  <1>3. disk = NoSession /\ disk \in Directories
    BY <1>1 DEF Inv, Good, Placed, StageInv
  <1>4. /\ d \in Directories /\ d.dir /\ d.state = None /\ d.intent = None /\ d.completed = None
        /\ disk.state = None
    BY <1>3 DEF NoSession, Directories
  <1>5. ~Lives
    BY <1>4 DEF Inv, Good, ToolInv
  <1>6. Whole /\ "orig" \in want.prefs.search /\ ~Owned
    BY <1>1, <1>4 DEF Inv, Good, FreshInv, EndInv
  <1> HIDE DEF r, d
  <1>7. Placed(r, d)
    BY <1>2, <1>4
       DEF Placed, ProcessInv, FlightInv, StageInv, ReadInv, NameInv, FieldInv, KeepInv, PendingInv,
           CloseInv, Toward, Commands, Early, Finals, Bare, Blank, Returns, Kin, Like
  <1>8. ToolInv(r, d) /\ CommandInv(r, d)
    BY <1>5 DEF Inv, Good, ToolInv, CommandInv, Lives
  <1>9. MindInv(r, d) /\ FreshInv(r, d, told) /\ EndInv(r, d, told)
    BY <1>1, <1>2, <1>4, <1>6 DEF MindInv, FreshInv, EndInv
  <1>10. Good(p', disk', told')
    BY <1>1, <1>4, <1>7, <1>8, <1>9 DEF Good
  <1> QED BY <1>1, <1>10, Still

LEMMA MakeKeysKeeps ==
  ASSUME Inv, MakeKeys
  PROVE  Inv'
  <1> DEFINE r == [p EXCEPT !.pc = "baseline"]
             d == [disk EXCEPT !.keys = TRUE]
  <1>1. p.pc = "keys" /\ p' = r /\ disk' = d /\ told' = told /\ Quiet
    BY DEF MakeKeys, At, Go
  <1>2. p \in Processes /\ p.mem = None /\ p.mode = "normal" /\ ~p.inst.active
    BY <1>1, Working DEF Inv, Good, Placed, StageInv, ProcessInv, Bare
  <1>3. r.pc = "baseline" /\ Like(r, p)
    <2>1. "baseline" \in Steps
      BY DEF Steps
    <2> QED BY <1>2, <2>1, Moving
  <1>4. /\ disk \in Directories /\ disk.dir /\ disk.state = None /\ disk.completed = None
        /\ told # "clean"
    BY <1>1, <1>2, Working DEF Inv, Good, Placed, StageInv
  <1>5. /\ d \in Directories /\ d.dir /\ d.state = None /\ d.intent = disk.intent
        /\ d.completed = None
    BY <1>4 DEF Directories
  <1>6. Whole /\ "orig" \in want.prefs.search /\ ~Owned
    BY <1>1, <1>4 DEF Inv, Good, FreshInv, EndInv, Bare
  <1> HIDE DEF r, d
  <1>7. Placed(r, d)
    BY <1>2, <1>3, <1>4, <1>5
       DEF Placed, ProcessInv, FlightInv, StageInv, ReadInv, NameInv, FieldInv, KeepInv, PendingInv,
           CloseInv, Toward, Commands, Early, Finals, Bare, Blank, Returns, Like
  <1>8. ~Lives
    BY <1>1, Alone DEF Open
  <1>9. ToolInv(r, d) /\ CommandInv(r, d)
    BY <1>8 DEF Inv, Good, ToolInv, CommandInv, Lives
  <1>10. MindInv(r, d) /\ FreshInv(r, d, told) /\ EndInv(r, d, told)
    BY <1>2, <1>3, <1>4, <1>5, <1>6 DEF MindInv, FreshInv, EndInv, Like, Inv, Good
  <1>11. Good(p', disk', told')
    BY <1>1, <1>5, <1>7, <1>9, <1>10 DEF Good
  <1> QED BY <1>1, <1>11, Still

LEMMA BaselineKeeps ==
  ASSUME Inv, Baseline
  PROVE  Inv'
  <1> DEFINE q == [p EXCEPT !.cur = prefs]
             r == [q EXCEPT !.pc = "intent"]
  <1>1. p.pc = "baseline" /\ Quiet /\ UNCHANGED disk
    BY DEF Baseline, At, Calm
  <1>2. p \in Processes /\ p.mem = None /\ p.mode = "normal" /\ disk.dir /\ disk.state = None
    BY <1>1, Working DEF Inv, Good, Placed, StageInv, ProcessInv, Bare
  <1>3. Go(q, "intent")
    BY <1>2 DEF Baseline, Look
  <1>4. Kin(q) /\ q.cur = prefs
    <2>1. Kin(p) /\ prefs \in Preferences
      BY <1>1, KinSelf DEF Inv, Sorts
    <2> QED BY <1>2, <2>1 DEF Kin, Processes
  <1>5. "intent" \in Steps
    BY DEF Steps
  <1>6. r.pc = "intent" /\ Like(r, q)
    BY <1>4, <1>5, Moving DEF Kin
  <1>7. disk.completed = None /\ Placed(p, disk)
    BY <1>1, NoTerminal DEF Terminals, Inv, Good
  <1>8. Detached(prefs) /\ "orig" \in prefs.search
    BY <1>1, <1>2 DEF Inv, Good, FreshInv, EndInv, Owned, Bare, Whole
  <1>9. q.mem = None
    BY <1>2 DEF Processes
  <1> HIDE DEF q, r
  <1>10. Placed(r, disk)
    BY <1>1, <1>2, <1>4, <1>6, <1>7, <1>8, <1>9
       DEF Placed, ProcessInv, FlightInv, StageInv, ReadInv, NameInv, FieldInv, KeepInv, PendingInv,
           CloseInv, Toward, Commands, Early, Finals, Bare, Blank, Returns, Kin, Like
  <1> QED BY <1>1, <1>3, <1>4, <1>5, <1>7, <1>9, <1>10, Step DEF Open, Bare, r

\* The intent: what the session will put back.
LEMMA IntendKeeps ==
  ASSUME Inv, Intend
  PROVE  Inv'
  <1> DEFINE i == [prefs |-> p.cur, before |-> prof.name]
             q == [p EXCEPT !.intent = i]
             d == [disk EXCEPT !.intent = i]
             r == [q EXCEPT !.pc = "first"]
  <1>1. p.pc = "intent" /\ Quiet /\ Write(q, "intent", d, "first")
    BY DEF Intend, At
  <1>2. p \in Processes /\ p.mem = None /\ p.mode = "normal" /\ ~p.inst.active
    BY <1>1, Working DEF Inv, Good, Placed, StageInv, ProcessInv, Bare
  <1>3. /\ disk \in Directories /\ disk.dir /\ disk.state = None /\ disk.completed = None
        /\ told # "clean"
    BY <1>1, <1>2, Working DEF Inv, Good, Placed, StageInv
  <1>4. Whole /\ "orig" \in want.prefs.search /\ ~Owned
    BY <1>1, <1>3 DEF Inv, Good, FreshInv, EndInv, Bare
  <1>5. i \in Intents /\ i.prefs = p.cur
    BY <1>2, <1>4 DEF Intents, Processes, Inv, Sorts, Profile, Owned
  <1>6. Planned(i)
    <2>1. Detached(p.cur) /\ "orig" \in p.cur.search
      BY <1>1 DEF Inv, Good, Placed, ReadInv
    <2>2. prefs.default # "own" /\ ~Hidden
      BY <1>4 DEF Owned, Detached, Hidden
    <2> QED BY <1>5, <2>1, <2>2 DEF Planned
  <1>7. i # None
    BY <1>5, NoneIsNoRecord
  <1> HIDE DEF i
  <1>8. /\ q \in Processes /\ q.intent = i /\ q.mem = None /\ q.mode = "normal" /\ q.pc = p.pc
        /\ ~q.inst.active
    BY <1>2, <1>5 DEF Processes
  <1>9. d \in Directories /\ d.intent = i /\ d.dir /\ d.state = None /\ d.completed = None
    BY <1>3, <1>5 DEF Directories
  <1>10. "first" \in Steps
    BY DEF Steps
  <1>11. r.pc = "first" /\ Like(r, q)
    BY <1>8, <1>10, Moving
  <1>12. ~Lives /\ MindInv(p, disk)
    BY <1>1, Alone DEF Open, Inv, Good
  <1> HIDE DEF q, d, r
  <1>13. \/ disk' = d /\ p' = r /\ told' = told
         \/ /\ Fallen(p', told', q)
            /\ disk' \in {disk, d, [disk EXCEPT !.pending = @ \cup {"intent"}]}
    BY <1>1, <1>3, <1>8, <1>9, WritingFields DEF r
  <1>14. ASSUME NEW s, NEW e, NEW t, ProcessInv(s), s.mem = None, s.intent \in {i, None},
                e \in Directories, e.intent \in {i, disk.intent}, e.state = None, e.completed = None, e.dir,
                Placed(s, e), t # "clean"
         PROVE  Good(s, e, t)
    <2>1. ToolInv(s, e) /\ CommandInv(s, e)
      BY <1>12 DEF Inv, Good, ToolInv, CommandInv, Lives
    <2>2. MindInv(s, e)
      BY <1>6, <1>12, <1>14 DEF MindInv
    <2>3. FreshInv(s, e, t) /\ EndInv(s, e, t)
      BY <1>4, <1>14 DEF FreshInv, EndInv
    <2> QED BY <1>14, <2>1, <2>2, <2>3 DEF Good
  <1>15. CASE disk' = d /\ p' = r /\ told' = told
    <2>1. Placed(r, d)
      BY <1>7, <1>8, <1>9, <1>11
         DEF Placed, ProcessInv, FlightInv, StageInv, ReadInv, NameInv, FieldInv, KeepInv,
             PendingInv, CloseInv, Toward, Commands, Early, Finals, Bare, Blank, Returns, Like
    <2>2. Good(r, d, told)
      BY <1>3, <1>8, <1>9, <1>11, <1>14, <2>1 DEF Like, Placed
    <2> QED BY <1>1, <1>15, <2>2, Still
  <1>16. CASE /\ Fallen(p', told', q)
              /\ disk' \in {disk, d, [disk EXCEPT !.pending = @ \cup {"intent"}]}
    <2> DEFINE e == [disk EXCEPT !.pending = @ \cup {"intent"}]
    <2>1. e \in Directories /\ e.dir /\ e.intent = disk.intent /\ e.state = None /\ e.completed = None
      BY <1>3 DEF Directories
    <2> HIDE DEF e
    <2>2. disk' \in {disk, d, e}
      BY <1>16 DEF e
    <2>3. disk' \in Directories /\ disk'.dir /\ disk'.state = None /\ disk'.completed = None
          /\ disk'.intent \in {i, disk.intent}
      BY <1>3, <1>9, <2>1, <2>2
    <2>4. told' # "clean" /\ p'.mem = None /\ p'.intent \in {i, None} /\ ProcessInv(p')
      BY <1>3, <1>8, <1>16, IdleFields
         DEF Fallen, ProcessInv, Blank, Toward, Commands
    <2>5. Placed(p', disk')
      BY <1>8, <1>16, <2>3, <2>4, IdleFields
         DEF Fallen, Placed, FlightInv, StageInv, ReadInv, NameInv, FieldInv, KeepInv, PendingInv,
             CloseInv, Toward, Commands, Early, Finals, Bare, Blank, Returns
    <2> QED BY <1>1, <1>14, <2>3, <2>4, <2>5, Still
  <1> QED BY <1>13, <1>15, <1>16


-----------------------------------------------------------------------------
(* A look at the preferences, and the commands of the body.                *)

\* Which steps look, and where they go on with what they have read.
Leads(pc, ret) ==
  \/ pc = "created" /\ ret = "watch"
  \/ pc = "before" /\ ret = "attempt"
  \/ pc = "reread" /\ ret = "remember"
  \/ pc = "survey" /\ ret = "surveyed"
  \/ pc = "now" /\ ret = "target"
  \/ pc = "readback" /\ ret = "compare"
  \/ pc = "deleted" /\ ret = "unchanged"
  \/ pc = "verify" /\ ret = "verified"
  \/ pc = "finish" /\ ret = "finishing"

LEMMA Looking ==
  ASSUME Inv, Quiet, UNCHANGED disk, NEW ret, Leads(p.pc, ret), Look(p, ret)
  PROVE  Inv'
  <1>1. p.pc \notin Blank \cup Open \cup Terminals \cup {"idle", "rmdir"} /\ p.pc \notin Commands
    BY DEF Leads, Blank, Open, Terminals, Commands
  <1>2. Kin(p) /\ p.mem # None /\ p.intent # None /\ p \in Processes
    BY <1>1, KinSelf, Checked
  <1>3. disk.completed = None /\ disk.dir /\ Placed(p, disk) /\ prefs \in Preferences
    BY <1>1, NoTerminal, Working DEF Inv, Good, Sorts
  <1>4. ret \in Steps /\ "prepare" \in Steps /\ ret \notin Bare \cup {"rmdir"}
    BY DEF Leads, Steps, Bare
  <1>5. CASE Go([p EXCEPT !.cur = prefs], ret)
    <2> DEFINE q == [p EXCEPT !.cur = prefs]
               r == [q EXCEPT !.pc = ret]
    <2>1. Kin(q) /\ q.cur = prefs /\ q.mem = p.mem
      BY <1>2, <1>3 DEF Kin, Processes
    <2>2. q.field = p.field /\ q.keep = p.keep /\ q.back = p.back /\ q.inst = p.inst
      BY <1>2 DEF Processes
    <2>3. r.pc = ret /\ Like(r, q)
      BY <1>4, <2>1, Moving DEF Kin
    <2>4. Go(q, ret)
      BY <1>5
    <2> HIDE DEF q, r
    <2>5. Later(prefs)
      BY DEF Later
    <2>6. Placed(r, disk)
      BY <1>2, <1>3, <2>1, <2>2, <2>3, <2>5
         DEF Leads, Placed, ProcessInv, FlightInv, StageInv, ReadInv, NameInv, FieldInv, KeepInv,
             PendingInv, CloseInv, Toward, Commands, Early, Finals, Bare, Blank, Returns, Kin, Like
    <2> QED BY <1>1, <1>3, <1>4, <2>1, <2>4, <2>6, Step DEF r
  <1>6. CASE Call(p, "observe", NoPrefs, ret)
    <2> DEFINE c == [kind |-> "observe", arg |-> NoPrefs, ret |-> ret, rc |-> "none"]
               q == [p EXCEPT !.cmd = c]
               r == [q EXCEPT !.pc = "prepare"]
    <2>1. c \in Errands /\ c.kind = "observe" /\ c.ret = ret
      BY <1>4 DEF Errands, Kinds, Codes, NoPrefs, Preferences
    <2>2. Go(q, "prepare")
      BY <1>6 DEF Call
    <2> HIDE DEF c
    <2>3. Kin(q) /\ q.mem = p.mem /\ q.cmd = c
      BY <1>2, <2>1 DEF Kin, Processes
    <2>4. q.field = p.field /\ q.keep = p.keep /\ q.back = p.back /\ q.inst = p.inst
      BY <1>2 DEF Processes
    <2>5. r.pc = "prepare" /\ Like(r, q)
      BY <1>4, <2>3, Moving DEF Kin
    <2> HIDE DEF q, r
    <2>6. Placed(r, disk)
      BY <1>2, <1>3, <2>1, <2>3, <2>4, <2>5
         DEF Leads, Writes, Fields, Placed, ProcessInv, FlightInv, StageInv, ReadInv, NameInv,
             FieldInv, KeepInv, PendingInv, CloseInv, Toward, Commands, Early, Finals, Bare, Blank,
             Returns, Kin, Like
    <2> QED BY <1>1, <1>3, <1>4, <2>2, <2>3, <2>6, Step DEF r, Bare
  <1> QED BY <1>2, <1>5, <1>6 DEF Look

LEMMA LooksKeep ==
  ASSUME Inv, Watch \/ Before \/ Reread \/ Survey \/ Now \/ Readback \/ Deleted \/ Verify \/ Finish
  PROVE  Inv'
  BY Looking
     DEF Watch, Before, Reread, Survey, Now, Readback, Deleted, Verify, Finish, At, Calm, Leads

\* A command that reads nothing and writes no preference.
LEMMA Calling ==
  ASSUME Inv, Quiet, UNCHANGED disk, NEW kind, NEW ret, Call(p, kind, NoPrefs, ret),
         \/ p.pc = "create" /\ kind = "create" /\ ret = "import"
         \/ p.pc = "import" /\ kind = "import" /\ ret = "created"
         \/ p.pc = "build" /\ kind = "build" /\ ret = "leave"
         \/ p.pc = "drop" /\ kind = "delete" /\ ret = "deleted"
  PROVE  Inv'
  <1> DEFINE c == [kind |-> kind, arg |-> NoPrefs, ret |-> ret, rc |-> "none"]
             q == [p EXCEPT !.cmd = c]
             r == [q EXCEPT !.pc = "prepare"]
  <1>1. p.pc \notin Blank \cup Open \cup Terminals \cup {"idle", "rmdir"} /\ p.pc \notin Commands
    BY DEF Blank, Open, Terminals, Commands
  <1>2. Kin(p) /\ p.mem # None /\ p.intent # None /\ p \in Processes
    BY <1>1, KinSelf, Checked
  <1>3. disk.completed = None /\ disk.dir /\ Placed(p, disk)
    BY <1>1, NoTerminal, Working DEF Inv, Good
  <1>4. ret \in Steps /\ "prepare" \in Steps /\ "prepare" \notin Bare
    BY DEF Steps, Bare
  <1>5. c \in Errands /\ c.kind = kind /\ c.ret = ret
    BY <1>4 DEF Errands, Kinds, Codes, NoPrefs, Preferences
  <1>6. Go(q, "prepare")
    BY DEF Call
  <1> HIDE DEF c
  <1>7. Kin(q) /\ q.mem = p.mem /\ q.cmd = c
    BY <1>2, <1>5 DEF Kin, Processes
  <1>8. q.field = p.field /\ q.keep = p.keep /\ q.back = p.back /\ q.inst = p.inst
    BY <1>2 DEF Processes
  <1>9. r.pc = "prepare" /\ Like(r, q)
    BY <1>4, <1>7, Moving DEF Kin
  <1> HIDE DEF q, r
  <1>10. Placed(r, disk)
    BY <1>2, <1>3, <1>5, <1>7, <1>8, <1>9
       DEF Writes, Fields, Placed, ProcessInv, FlightInv, StageInv, ReadInv, NameInv, FieldInv,
           KeepInv, PendingInv, CloseInv, Toward, Commands, Early, Finals, Bare, Blank, Returns,
           Kin, Like
  <1> QED BY <1>1, <1>3, <1>4, <1>6, <1>7, <1>10, Step DEF r

LEMMA CallsKeep ==
  ASSUME Inv, Create \/ Import \/ Build
  PROVE  Inv'
  BY Calling DEF Create, Import, Build, At, Calm

LEMMA LeaveKeeps ==
  ASSUME Inv, Leave
  PROVE  Inv'
  <1> DEFINE r == [p EXCEPT !.pc = "cleanup"]
  <1>1. p.pc = "leave" /\ Quiet /\ UNCHANGED disk /\ Go(p, "cleanup")
    BY DEF Leave, At, Calm
  <1>2. Kin(p) /\ p.mem # None /\ p.intent # None /\ p \in Processes
    BY <1>1, KinSelf, Checked DEF Blank
  <1>3. disk.completed = None /\ disk.dir /\ Placed(p, disk)
    BY <1>1, NoTerminal, Working DEF Inv, Good, Terminals
  <1>4. "cleanup" \in Steps
    BY DEF Steps
  <1>5. r.pc = "cleanup" /\ Like(r, p)
    BY <1>2, <1>4, Moving
  <1> HIDE DEF r
  <1>6. Placed(r, disk)
    BY <1>1, <1>2, <1>3, <1>5
       DEF Placed, ProcessInv, FlightInv, StageInv, ReadInv, NameInv, FieldInv, KeepInv, PendingInv,
           CloseInv, Toward, Commands, Early, Finals, Bare, Blank, Returns, Kin, Like
  <1> QED BY <1>1, <1>2, <1>3, <1>4, <1>6, Step DEF r, Open, Bare


-----------------------------------------------------------------------------
(* The preferences of the session.                                         *)

\* q has the checkpoint m, and m fits the account.
LEMMA KinOf ==
  ASSUME Inv, p.pc \notin Blank \cup Terminals, NEW m \in States, Sound(m),
         NEW q \in Processes, q.mem = m, q.pc = p.pc, q.mode = p.mode, q.at = p.at,
         q.intent = p.intent, q.unresolved = p.unresolved
  PROVE  Kin(q) /\ m # None
  <1>1. Kin(p) /\ p.mem # None /\ m # None
    BY Checked, KinSelf, NoneIsNoRecord DEF Terminals, Blank
  <1> QED BY <1>1 DEF Kin

LEMMA AfterCreateKeeps ==
  ASSUME Inv, AfterCreate
  PROVE  Inv'
  <1> DEFINE m == [p.mem EXCEPT !.prefs = p.cur]
             q == [p EXCEPT !.mem = m, !.field = "search"]
             r == [q EXCEPT !.pc = "before"]
             d == [disk EXCEPT !.state = q.mem]
  <1>1. p.pc = "watch" /\ Quiet
    BY DEF AfterCreate, At
  <1>2. p.pc \notin Blank \cup Terminals \cup Open
    BY <1>1 DEF Blank, Terminals, Open
  <1>3. /\ p \in Processes /\ p.mem \in States /\ p.mem # None /\ p.intent \in Intents
        /\ p.intent # None /\ disk.completed = None /\ disk.dir /\ disk \in Directories
        /\ Placed(p, disk) /\ MindInv(p, disk)
    BY <1>2, Checked, NoTerminal, Working DEF Open, Inv, Good
  <1>4. CASE ~(p.cur.default = p.intent.prefs.default /\ p.cur.search \ {"own"} = p.intent.prefs.search)
    BY <1>1, <1>2, <1>4, KinSelf, Fail DEF AfterCreate, Blank
  <1>5. CASE p.cur.default = p.intent.prefs.default /\ p.cur.search \ {"own"} = p.intent.prefs.search
    <2>1. Checkpoint(q, "before")
      BY <1>5 DEF AfterCreate
    <2>2. /\ m \in States /\ m.prefs = p.cur /\ m.tried = p.mem.tried /\ m.own = p.mem.own
          /\ m.phase = p.mem.phase /\ m.stage = p.mem.stage /\ m.conflict = p.mem.conflict
      BY <1>3 DEF States, Processes
    <2>3. Sound(m)
      <3>1. Sound(p.mem) /\ Planned(p.intent)
        BY <1>3 DEF MindInv
      <3>2. Intact(m.prefs)
        BY <1>5, <2>2, <3>1 DEF Intact, Planned
      <3> QED BY <2>2, <3>1, <3>2 DEF Sound, OwnsName
    <2> HIDE DEF m
    <2>4. /\ q \in Processes /\ q.mem = m /\ q.pc = p.pc /\ q.mode = p.mode /\ q.at = p.at
          /\ q.intent = p.intent /\ q.unresolved = p.unresolved /\ q.field = "search"
          /\ q.inst = p.inst /\ q.back = p.back /\ q.keep = p.keep
      BY <1>3, <2>2 DEF Processes
    <2>5. Kin(q) /\ m # None
      BY <1>2, <2>2, <2>3, <2>4, KinOf
    <2>6. "before" \in Steps
      BY DEF Steps
    <2>7. r.pc = "before" /\ Like(r, q)
      BY <2>4, <2>6, Moving
    <2>8. d.state = m /\ d.dir = disk.dir /\ d.intent = disk.intent /\ d.completed = disk.completed
      BY <1>3, <2>4 DEF Directories
    <2> HIDE DEF q, r, d
    <2>9. Placed(r, d)
      BY <1>1, <1>3, <1>5, <2>2, <2>4, <2>5, <2>7, <2>8
         DEF Fields, Placed, ProcessInv, FlightInv, StageInv, ReadInv, NameInv, FieldInv, KeepInv,
             PendingInv, CloseInv, Toward, Commands, Early, Finals, Bare, Blank, Returns, Kin, Like
    <2> QED BY <1>1, <1>2, <2>1, <2>4, <2>5, <2>6, <2>9, Save DEF Bare, r, d
  <1> QED BY <1>4, <1>5

\* The attempt is on the disk before the command: what it may leave is known.
LEMMA AttemptKeeps ==
  ASSUME Inv, Attempt
  PROVE  Inv'
  <1> DEFINE m == [p.mem EXCEPT !.tried = @ \cup {p.field}]
             q == [p EXCEPT !.mem = m]
             r == [q EXCEPT !.pc = "set"]
             d == [disk EXCEPT !.state = q.mem]
  <1>1. p.pc = "attempt" /\ Quiet
    BY DEF Attempt, At
  <1>2. p.pc \notin Blank \cup Terminals \cup Open
    BY <1>1 DEF Blank, Terminals, Open
  <1>3. /\ p \in Processes /\ p.mem \in States /\ p.mem # None /\ p.intent \in Intents
        /\ p.intent # None /\ disk.completed = None /\ disk.dir /\ disk \in Directories
        /\ Placed(p, disk) /\ MindInv(p, disk)
    BY <1>2, Checked, NoTerminal, Working DEF Open, Inv, Good
  <1>4. CASE p.cur # p.mem.prefs
    BY <1>1, <1>2, <1>4, KinSelf, Fail DEF Attempt, Blank
  <1>5. CASE p.cur = p.mem.prefs
    <2>1. Checkpoint(q, "set")
      BY <1>5 DEF Attempt
    <2>2. p.field \in Fields /\ p.cur = prefs
      BY <1>1, <1>3 DEF Placed, ProcessInv, ReadInv, Toward
    <2>3. /\ m \in States /\ m.prefs = p.mem.prefs /\ m.tried = p.mem.tried \cup {p.field}
          /\ m.own = p.mem.own /\ m.phase = p.mem.phase /\ m.stage = p.mem.stage
          /\ m.conflict = p.mem.conflict
      BY <1>3, <2>2 DEF States, Processes
    <2>4. Sound(p.mem) /\ Planned(p.intent) /\ p.intent = disk.intent
      BY <1>2, <1>3 DEF MindInv, Placed, StageInv, Terminals
    <2>5. Sound(m)
      BY <2>3, <2>4 DEF Sound, OwnsName
    <2> HIDE DEF m
    <2>6. /\ q \in Processes /\ q.mem = m /\ q.pc = p.pc /\ q.mode = p.mode /\ q.at = p.at
          /\ q.intent = p.intent /\ q.unresolved = p.unresolved /\ q.field = p.field
          /\ q.inst = p.inst /\ q.back = p.back /\ q.keep = p.keep
      BY <1>3, <2>3 DEF Processes
    <2>7. Kin(q) /\ m # None
      BY <1>2, <2>3, <2>5, <2>6, KinOf
    <2>8. "set" \in Steps
      BY DEF Steps
    <2>9. r.pc = "set" /\ Like(r, q)
      BY <2>6, <2>8, Moving
    <2>10. d.state = m /\ d.dir = disk.dir /\ d.intent = disk.intent /\ d.completed = disk.completed
      BY <1>3, <2>6 DEF Directories
    <2> HIDE DEF q, r, d
    <2> DEFINE a == [m.prefs EXCEPT ![p.field] = Value(p.field)]
    <2>11. a = [prefs EXCEPT ![p.field] = Value(p.field)] /\ prefs \in Preferences /\ AccountInv
      BY <1>5, <2>2, <2>3 DEF Inv, Sorts
    <2>12. Writes(r, d, p.field, a)
      <3>1. FieldInv(p)
        BY <1>3 DEF Placed
      <3>2. CASE p.field = "default"
        <4>1. a.default = "own"
          BY <2>11, <3>2 DEF Value, Preferences
        <4>2. p.intent.prefs.default = want.prefs.default
          BY <1>1, <1>5, <2>2, <2>4, <2>11, <3>1, <3>2
             DEF FieldInv, Toward, Fields, AccountInv, Planned, Detached
        <4> QED BY <2>4, <2>6, <2>9, <2>10, <3>2, <4>1, <4>2 DEF Writes, Like
      <3>3. CASE p.field = "search"
        <4>1. a.search = {"own"}
          BY <2>11, <3>3 DEF Value, Preferences
        <4>2. Whole /\ "orig" \in want.prefs.search
          BY <1>1, <2>4, <3>1, <3>3 DEF FieldInv, Toward, Sound
        <4>3. p.intent.prefs.search = want.prefs.search
          BY <1>1, <1>5, <2>2, <3>1, <3>3, <4>2 DEF FieldInv, Toward, Fields, Whole
        <4>4. Tries(m)
          BY <1>5, <2>2, <2>3, <3>3, <4>2 DEF Tries, Intact, Whole
        <4> QED BY <2>4, <2>6, <2>9, <2>10, <3>3, <4>1, <4>2, <4>3, <4>4 DEF Writes, Like
      <3> QED BY <2>2, <3>2, <3>3 DEF Fields
    <2>13. PendingInv(r, d)
      BY <2>6, <2>9, <2>12 DEF PendingInv, Like
    <2>14. Placed(r, d)
      <3> HIDE DEF a
      <3> QED BY <1>1, <1>3, <2>2, <2>3, <2>4, <2>6, <2>7, <2>9, <2>10, <2>13
           DEF Placed, ProcessInv, FlightInv, StageInv, ReadInv, NameInv, FieldInv, KeepInv,
               CloseInv, Toward, Commands, Early, Finals, Bare, Blank, Returns, Like
    <2> QED BY <1>1, <1>2, <2>1, <2>6, <2>7, <2>8, <2>14, Save DEF Bare, r, d
  <1> QED BY <1>4, <1>5

LEMMA SetKeeps ==
  ASSUME Inv, Set
  PROVE  Inv'
  <1> DEFINE a == [p.mem.prefs EXCEPT ![p.field] = Value(p.field)]
             c == [kind |-> p.field, arg |-> a, ret |-> "reread", rc |-> "none"]
             q == [p EXCEPT !.cmd = c]
             r == [q EXCEPT !.pc = "prepare"]
  <1>1. p.pc = "set" /\ Quiet /\ UNCHANGED disk /\ Go(q, "prepare")
    BY DEF Set, At, Calm, Call
  <1>2. p.pc \notin Blank \cup Open \cup Terminals \cup {"idle", "rmdir"}
    BY <1>1 DEF Blank, Open, Terminals
  <1>3. Kin(p) /\ p.mem # None /\ p.mem \in States /\ p.intent # None /\ p \in Processes
    BY <1>2, KinSelf, Checked
  <1>4. disk.completed = None /\ disk.dir /\ Placed(p, disk)
    BY <1>2, NoTerminal, Working DEF Inv, Good
  <1>5. "prepare" \in Steps /\ "reread" \in Steps /\ "prepare" \notin Bare
    BY DEF Steps, Bare
  <1>6. p.field \in Fields /\ Writes(p, disk, p.field, a)
    BY <1>1, <1>4 DEF Placed, ProcessInv, Toward, PendingInv
  <1>7. a \in Preferences
    <2>1. p.mem.prefs \in Preferences
      BY <1>3 DEF States
    <2>2. CASE p.field = "search"
      BY <2>1, <2>2 DEF Preferences, Value
    <2>3. CASE p.field = "default"
      BY <2>1, <2>3 DEF Preferences, Value
    <2> QED BY <1>6, <2>2, <2>3 DEF Fields
  <1> HIDE DEF a
  <1>8. c \in Errands /\ c.kind = p.field /\ c.ret = "reread" /\ c.arg = a
    BY <1>5, <1>6, <1>7 DEF Errands, Kinds, Codes
  <1> HIDE DEF c
  <1>9. Kin(q) /\ q.mem = p.mem /\ q.cmd = c
    BY <1>3, <1>8 DEF Kin, Processes
  <1>10. q.field = p.field /\ q.keep = p.keep /\ q.back = p.back /\ q.inst = p.inst
    BY <1>3 DEF Processes
  <1>11. r.pc = "prepare" /\ Like(r, q)
    BY <1>5, <1>9, Moving DEF Kin
  <1> HIDE DEF q, r
  <1>12. Writes(r, disk, r.cmd.kind, r.cmd.arg)
    BY <1>3, <1>6, <1>8, <1>9, <1>11 DEF Writes, Like, Kin
  <1>13. Placed(r, disk)
    BY <1>1, <1>3, <1>4, <1>6, <1>8, <1>9, <1>10, <1>11, <1>12
       DEF Fields, Placed, ProcessInv, FlightInv, StageInv, ReadInv, NameInv, FieldInv, KeepInv,
           PendingInv, CloseInv, Toward, Commands, Early, Finals, Bare, Blank, Returns, Kin, Like
  <1> QED BY <1>1, <1>2, <1>4, <1>5, <1>9, <1>13, Step DEF r

LEMMA RememberKeeps ==
  ASSUME Inv, Remember
  PROVE  Inv'
  <1> DEFINE m == [p.mem EXCEPT !.prefs = p.cur]
             f == CASE p.field = "search" -> "default" [] p.field = "default" -> "both" [] OTHER -> "none"
             next == CASE p.field = "search" -> "before" [] p.field = "default" -> "reread"
                       [] OTHER -> "build"
             q == [p EXCEPT !.mem = m, !.field = f]
             r == [q EXCEPT !.pc = next]
             d == [disk EXCEPT !.state = q.mem]
             same == p.cur = (IF p.field = "both" THEN [default |-> "own", search |-> {"own"}]
                              ELSE [p.mem.prefs EXCEPT ![p.field] = Value(p.field)])
  <1>1. p.pc = "remember" /\ Quiet
    BY DEF Remember, At
  <1>2. p.pc \notin Blank \cup Terminals \cup Open
    BY <1>1 DEF Blank, Terminals, Open
  <1>3. /\ p \in Processes /\ p.mem \in States /\ p.mem # None /\ p.intent \in Intents
        /\ p.intent # None /\ disk.completed = None /\ disk.dir /\ disk \in Directories
        /\ Placed(p, disk) /\ MindInv(p, disk)
    BY <1>2, Checked, NoTerminal, Working DEF Open, Inv, Good
  <1>4. CASE ~same
    BY <1>1, <1>2, <1>4, KinSelf, Fail DEF Remember, Blank
  <1>5. CASE same
    <2>1. Checkpoint(q, next)
      BY <1>5 DEF Remember
    <2>2. /\ m \in States /\ m.prefs = p.cur /\ m.tried = p.mem.tried /\ m.own = p.mem.own
          /\ m.phase = p.mem.phase /\ m.stage = p.mem.stage /\ m.conflict = p.mem.conflict
      BY <1>3 DEF States, Processes
    <2>3. p.mem.prefs \in Preferences /\ p.field \in {"none", "search", "default", "both"}
          /\ FieldInv(p)
      BY <1>3 DEF States, Processes, Placed
    <2>4. p.field # "none"
      BY <1>1, <1>3 DEF Placed, ProcessInv, Toward
    <2>5. /\ p.cur.search = {"own"}
          /\ p.field = "search" => p.cur.default = p.mem.prefs.default
      <3>1. CASE p.field = "search"
        BY <1>5, <2>3, <3>1 DEF Value, Preferences
      <3>2. CASE p.field = "default"
        BY <1>1, <1>5, <2>3, <3>2 DEF Value, Preferences, FieldInv, Toward
      <3>3. CASE p.field = "both"
        BY <1>5, <3>3
      <3> QED BY <2>3, <2>4, <3>1, <3>2, <3>3
    <2>6. Sound(m)
      <3>1. Sound(p.mem)
        BY <1>3 DEF MindInv
      <3> QED BY <2>2, <2>5, <3>1 DEF Sound, OwnsName, Intact
    <2>7. /\ f \in {"none", "default", "both"} /\ next \in {"before", "reread", "build"}
          /\ f = "default" => p.field = "search"
          /\ next = "before" => f = "default"
          /\ next = "reread" => f = "both"
      OBVIOUS
    <2> HIDE DEF m, f, next, same
    <2>8. /\ q \in Processes /\ q.mem = m /\ q.pc = p.pc /\ q.mode = p.mode /\ q.at = p.at
          /\ q.intent = p.intent /\ q.unresolved = p.unresolved /\ q.field = f
          /\ q.inst = p.inst /\ q.back = p.back /\ q.keep = p.keep
      BY <1>3, <2>2, <2>7 DEF Processes
    <2>9. Kin(q) /\ m # None
      BY <1>2, <2>2, <2>6, <2>8, KinOf
    <2>10. next \in Steps \ (Bare \cup {"rmdir"})
      BY <2>7 DEF Steps, Bare
    <2>11. r.pc = next /\ Like(r, q)
      BY <2>8, <2>10, Moving
    <2>12. d.state = m /\ d.dir = disk.dir /\ d.intent = disk.intent /\ d.completed = disk.completed
      BY <1>3, <2>8 DEF Directories
    <2>13. f = "default" => m.prefs.default = p.intent.prefs.default /\ m.prefs.search = {"own"}
      BY <1>1, <2>2, <2>3, <2>5, <2>7 DEF FieldInv, Toward, Fields
    <2> HIDE DEF q, r, d
    <2>14. Placed(r, d)
      BY <1>1, <1>3, <2>2, <2>7, <2>8, <2>9, <2>11, <2>12, <2>13
         DEF Fields, Placed, ProcessInv, FlightInv, StageInv, ReadInv, NameInv, FieldInv, KeepInv,
             PendingInv, CloseInv, Toward, Commands, Early, Finals, Bare, Blank, Returns, Kin, Like
    <2> QED BY <1>1, <1>2, <2>1, <2>8, <2>9, <2>10, <2>14, Save DEF r, d
  <1> QED BY <1>4, <1>5

-----------------------------------------------------------------------------
(* One native command.                                                     *)

\* A checkpoint that differs from the one in memory only in what it says of the command.
LEMMA CommandFields ==
  ASSUME Inv, p.pc \notin Blank, NEW o \in Operation \cup {None}
  PROVE  /\ [p.mem EXCEPT !.inflight = o] \in States /\ [p.mem EXCEPT !.inflight = o].inflight = o
         /\ Sound([p.mem EXCEPT !.inflight = o])
         /\ [p.mem EXCEPT !.inflight = o].tried = p.mem.tried
         /\ [p.mem EXCEPT !.inflight = o].prefs = p.mem.prefs
         /\ [p.mem EXCEPT !.inflight = o].conflict = p.mem.conflict
  <1> DEFINE m == [p.mem EXCEPT !.inflight = o]
  <1>1. p.mem \in States /\ Sound(p.mem)
    BY Checked DEF Inv, Good, MindInv
  <1>2. /\ m \in States /\ m.inflight = o /\ m.tried = p.mem.tried /\ m.prefs = p.mem.prefs
        /\ m.conflict = p.mem.conflict /\ m.own = p.mem.own /\ m.phase = p.mem.phase
        /\ m.stage = p.mem.stage
    BY <1>1 DEF States
  <1> HIDE DEF m
  <1>3. Sound(m)
    BY <1>1, <1>2 DEF Sound, OwnsName
  <1> QED BY <1>2, <1>3 DEF m

LEMMA PrepareKeeps ==
  ASSUME Inv, Prepare
  PROVE  Inv'
  <1> DEFINE o == [kind |-> p.cmd.kind, phase |-> "PREPARED", out |-> "none"]
             m == [p.mem EXCEPT !.inflight = o]
             q == [p EXCEPT !.mem = m]
             r == [q EXCEPT !.pc = "launch"]
             d == [disk EXCEPT !.state = q.mem]
  <1>1. p.pc = "prepare" /\ Quiet
    BY DEF Prepare, At
  <1>2. p.pc \notin Blank \cup Terminals \cup Open
    BY <1>1 DEF Blank, Terminals, Open
  <1>3. /\ p \in Processes /\ p.mem \in States /\ p.mem # None /\ p.intent # None
        /\ disk.completed = None /\ disk.dir /\ disk \in Directories /\ Placed(p, disk)
    BY <1>2, Checked, NoTerminal, Working DEF Open, Inv, Good
  <1>4. CASE Raise(p) /\ UNCHANGED disk
    BY <1>1, <1>2, <1>4, KinSelf, Fail DEF Blank
  <1>5. CASE fence = NoFence /\ Checkpoint(q, "launch")
    <2>1. o \in Operation /\ o # None
      BY <1>3, NoneIsNoRecord DEF Processes, Errands, Operation
    <2> HIDE DEF o
    <2>2. /\ m \in States /\ m.inflight = o /\ Sound(m) /\ m.tried = p.mem.tried
          /\ m.prefs = p.mem.prefs /\ m.conflict = p.mem.conflict
      BY <1>2, <2>1, CommandFields
    <2> HIDE DEF m
    <2>3. /\ q \in Processes /\ q.mem = m /\ q.pc = p.pc /\ q.mode = p.mode /\ q.at = p.at
          /\ q.intent = p.intent /\ q.unresolved = p.unresolved /\ q.field = p.field
          /\ q.inst = p.inst /\ q.back = p.back /\ q.keep = p.keep /\ q.cmd = p.cmd
      BY <1>3, <2>2 DEF Processes
    <2>4. Kin(q) /\ m # None
      BY <1>2, <2>2, <2>3, KinOf
    <2>5. "launch" \in Steps
      BY DEF Steps
    <2>6. r.pc = "launch" /\ Like(r, q)
      BY <2>3, <2>5, Moving
    <2>7. d.state = m /\ d.dir = disk.dir /\ d.intent = disk.intent /\ d.completed = disk.completed
      BY <1>3, <2>3 DEF Directories
    <2>8. Checkpoint(q, "launch")
      BY <1>5
    <2> HIDE DEF q, r, d
    <2>9. PendingInv(r, d)
      <3>1. Writes(p, disk, p.cmd.kind, p.cmd.arg)
        BY <1>1, <1>3 DEF Placed, PendingInv
      <3>2. Writes(r, d, p.cmd.kind, p.cmd.arg)
        BY <1>3, <2>2, <2>3, <2>6, <2>7, <3>1 DEF Writes, Like, Tries
      <3> QED BY <2>3, <2>6, <3>2 DEF PendingInv, Like
    <2>10. Placed(r, d)
      BY <1>1, <1>3, <1>5, <2>1, <2>2, <2>3, <2>4, <2>6, <2>7, <2>9
         DEF Placed, ProcessInv, FlightInv, StageInv, ReadInv, NameInv, FieldInv, KeepInv, CloseInv,
             Toward, Commands, Early, Finals, Bare, Blank, Returns, Like, Kin
    <2> QED BY <1>1, <1>2, <2>3, <2>4, <2>5, <2>8, <2>10, Save DEF Bare, r, d
  <1> QED BY <1>4, <1>5 DEF Prepare

\* What says nothing of the tool and of its fence.
Mild(r, d, t) ==
  /\ d \in Directories /\ ProcessInv(r) /\ StageInv(r, d) /\ NameInv(r, d) /\ FieldInv(r)
  /\ KeepInv(r) /\ PendingInv(r, d) /\ CloseInv(r) /\ MindInv(r, d) /\ FreshInv(r, d, t)
  /\ EndInv(r, d, t)

\* The account is as it was.
LEMMA ToolMoves ==
  ASSUME Inv, UNCHANGED <<account, want>>, Mild(p', disk', told'), Sorts', ToolInv(p, disk)',
         FlightInv(p, disk)', ReadInv(p)', CommandInv(p, disk)'
  PROVE  Inv'
  <1> USE DEF account
  <1>1. AccountInv'
    BY DEF Inv, AccountInv, Whole, Hidden
  <1>2. StageInv(p, disk)' /\ ProcessInv(p)' /\ FieldInv(p)' /\ (disk \in Directories)'
    BY DEF Mild, StageInv, ProcessInv, FieldInv
  <1>3. NameInv(p, disk)' /\ KeepInv(p)'
    BY DEF Mild, NameInv, KeepInv, Whole
  <1>4. PendingInv(p, disk)'
    BY DEF Mild, PendingInv, Writes, Hidden
  <1>5. CloseInv(p)' /\ EndInv(p, disk, told)' /\ FreshInv(p, disk, told)'
    BY DEF Mild, CloseInv, EndInv, FreshInv, Whole, Detached, Owned
  <1>6. MindInv(p, disk)'
    BY DEF Mild, MindInv, Sound, Planned, Whole, Hidden
  <1> QED BY <1>1, <1>2, <1>3, <1>4, <1>5, <1>6 DEF Inv, Good, Placed

\* In a command the process only goes on.
LEMMA CommandSteps ==
  ASSUME Inv, p.pc \in {"launch", "arm", "go"}, NEW next \in {"arm", "go", "wait"}, next = "go" => p.pc = "arm",
         NEW r, r = [p EXCEPT !.pc = next]
  PROVE  Mild(r, disk, told) /\ r.pc = next /\ Like(r, p)
  <1>1. p.pc \notin Blank \cup Terminals \cup {"idle"} /\ next \in Steps
    BY DEF Blank, Terminals, Steps
  <1>2. /\ p \in Processes /\ p.mem \in States /\ p.mem # None /\ p.intent # None
        /\ disk.completed = None /\ disk.dir /\ disk \in Directories /\ Placed(p, disk) /\ told # "clean"
    BY <1>1, Checked, NoTerminal, Working DEF Inv, Good
  <1>3. r.pc = next /\ Like(r, p)
    BY <1>1, <1>2, Moving
  <1>4. PendingInv(r, disk)
    BY <1>2, <1>3 DEF Placed, PendingInv, Writes, Like
  <1>5. /\ ProcessInv(r) /\ StageInv(r, disk) /\ NameInv(r, disk) /\ FieldInv(r)
        /\ KeepInv(r) /\ CloseInv(r)
    BY <1>2, <1>3
       DEF Placed, ProcessInv, StageInv, NameInv, FieldInv, KeepInv, CloseInv, Toward, Commands,
           Early, Finals, Bare, Blank, Returns, Like
  <1>6. MindInv(r, disk) /\ EndInv(r, disk, told)
    BY <1>2, <1>3 DEF Inv, Good, MindInv, EndInv, Like
  <1>7. FreshInv(r, disk, told)
    BY <1>2, <1>3, IdleFields DEF Inv, Good, FreshInv, Bare, Like
  <1> QED BY <1>2, <1>3, <1>4, <1>5, <1>6, <1>7 DEF Mild

LEMMA LaunchKeeps ==
  ASSUME Inv, Launch
  PROVE  Inv'
  <1>1. p.pc = "launch" /\ UNCHANGED <<disk, fence, account, want>> /\ told' = told
    BY DEF Launch, At, Go
  <1>2. ~Lives
    BY <1>1, Alone DEF Open
  <1>3. /\ p \in Processes /\ p.mem \in States /\ p.mem # None /\ p.intent # None
        /\ disk.completed = None /\ disk.dir /\ disk \in Directories /\ Placed(p, disk)
    BY <1>1, Checked, NoTerminal, Working DEF Open, Inv, Good, Blank, Terminals
  <1>4. /\ disk.state = p.mem /\ fence = NoFence /\ p.mem.inflight # None /\ p.cmd \in Errands
        /\ p.cmd.kind # "none"
    BY <1>1, <1>3 DEF Placed, FlightInv, Processes
  <1>5. NoTool \in Runners
    BY DEF NoTool, Runners, Kinds, Codes, NoPrefs, Preferences
  <1>6. CASE /\ tool' = [NoTool EXCEPT !.life = "held", !.kind = p.cmd.kind, !.arg = p.cmd.arg]
             /\ p' = [p EXCEPT !.pc = "arm"]
    <2>1. Mild(p', disk, told) /\ p'.pc = "arm" /\ Like(p', p)
      BY <1>1, <1>6, CommandSteps
    <2>2. /\ tool' \in Runners /\ tool'.life = "held" /\ tool'.kind = p.cmd.kind
          /\ tool'.arg = p.cmd.arg /\ tool'.rc = "none"
      BY <1>4, <1>5, <1>6 DEF Runners, Errands, NoTool
    <2>3. Sorts'
      BY <1>1, <2>2 DEF Inv, Sorts, account
    <2>4. p.cmd.kind = "create" => "search" \notin p.mem.tried
      BY <1>1, <1>3 DEF Placed, ReadInv, FieldInv, Toward, Commands, Early
    <2>5. ToolInv(p, disk)'
      BY <1>1, <1>3, <1>4, <2>1, <2>2, <2>4 DEF ToolInv, Lives
    <2>6. FlightInv(p, disk)' /\ ReadInv(p)'
      BY <1>1, <1>3, <1>4, <2>1, <2>2
         DEF Placed, FlightInv, ReadInv, Like, Commands, account, Later, Detached
    <2>7. CommandInv(p, disk)'
      <3>1. Writes(p, disk, p.cmd.kind, p.cmd.arg)
        BY <1>1, <1>3 DEF Placed, PendingInv
      <3> QED BY <1>1, <2>1, <2>2, <3>1 DEF CommandInv, Writes, Like, account, Hidden
    <2> QED BY <1>1, <2>1, <2>3, <2>5, <2>6, <2>7, ToolMoves
  <1>7. CASE tool' = [NoTool EXCEPT !.rc = "unborn"] /\ p' = [p EXCEPT !.pc = "wait"]
    <2>1. Mild(p', disk, told) /\ p'.pc = "wait" /\ Like(p', p)
      BY <1>1, <1>7, CommandSteps
    <2>2. tool' \in Runners /\ tool'.life = "none" /\ tool'.rc = "unborn"
      BY <1>5, <1>7 DEF Runners, NoTool, Codes
    <2>3. Sorts'
      BY <1>1, <2>2 DEF Inv, Sorts, account
    <2>4. ToolInv(p, disk)' /\ CommandInv(p, disk)'
      BY <2>2 DEF ToolInv, Lives, CommandInv
    <2>5. FlightInv(p, disk)' /\ ReadInv(p)'
      BY <1>1, <1>3, <1>4, <2>1, <2>2
         DEF Placed, FlightInv, ReadInv, Like, Commands, account, Later, Detached
    <2> QED BY <1>1, <2>1, <2>3, <2>4, <2>5, ToolMoves
  <1> QED BY <1>6, <1>7 DEF Launch, Go

LEMMA GrantKeeps ==
  ASSUME Inv, Grant
  PROVE  Inv'
  <1>1. /\ p.pc = "go" /\ UNCHANGED <<disk, fence, account, want>> /\ told' = told
        /\ p' = [p EXCEPT !.pc = "wait"]
        /\ tool' = [tool EXCEPT !.life = IF @ = "held" THEN "running" ELSE @]
    BY DEF Grant, At, Go
  <1>2. /\ p \in Processes /\ p.mem \in States /\ p.mem # None /\ p.intent # None
        /\ disk.completed = None /\ disk.dir /\ disk \in Directories /\ Placed(p, disk)
        /\ ToolInv(p, disk) /\ CommandInv(p, disk) /\ tool \in Runners
    BY <1>1, Checked, NoTerminal, Working DEF Inv, Good, Blank, Terminals, Sorts
  <1>3. Mild(p', disk, told) /\ p'.pc = "wait" /\ Like(p', p)
    BY <1>1, CommandSteps
  <1>4. /\ tool' \in Runners /\ tool'.kind = tool.kind /\ tool'.arg = tool.arg /\ tool'.rc = tool.rc
        /\ tool'.life = IF tool.life = "held" THEN "running" ELSE tool.life
    BY <1>1, <1>2 DEF Runners
  <1>5. tool.life \in {"held", "none"}
    BY <1>1, <1>2 DEF Placed, FlightInv
  <1>6. Sorts'
    BY <1>1, <1>4 DEF Inv, Sorts, account
  <1>7. ToolInv(p, disk)'
    BY <1>1, <1>2, <1>3, <1>4, <1>5 DEF Placed, FlightInv, ToolInv, Lives
  <1>8. FlightInv(p, disk)' /\ ReadInv(p)'
    BY <1>1, <1>2, <1>3, <1>4, <1>5
       DEF Placed, FlightInv, ReadInv, Like, Commands, account, Later, Detached
  <1>9. CommandInv(p, disk)'
    BY <1>1, <1>2, <1>3, <1>4, <1>5 DEF CommandInv, Writes, Like, account, Hidden
  <1> QED BY <1>1, <1>3, <1>6, <1>7, <1>8, <1>9, ToolMoves

LEMMA ArmKeeps ==
  ASSUME Inv, Arm
  PROVE  Inv'
  <1> DEFINE o == [p.mem.inflight EXCEPT !.phase = "ARMED"]
             m == [p.mem EXCEPT !.inflight = o]
             q == [p EXCEPT !.mem = m]
             r == [q EXCEPT !.pc = "go"]
             d == [disk EXCEPT !.state = q.mem]
             e == [disk EXCEPT !.pending = @ \cup {"state"}]
  <1>1. p.pc = "arm" /\ Quiet
    BY DEF Arm, At
  <1>2. p.pc \notin Blank \cup Terminals \cup {"idle", "rmdir"}
    BY <1>1 DEF Blank, Terminals
  <1>3. /\ p \in Processes /\ p.mem \in States /\ p.mem # None /\ p.intent # None
        /\ disk.completed = None /\ disk.dir /\ disk \in Directories /\ Placed(p, disk)
        /\ ToolInv(p, disk) /\ CommandInv(p, disk) /\ told # "clean"
    BY <1>2, Checked, NoTerminal, Working DEF Inv, Good
  <1>4. disk.state = p.mem /\ p.mem.inflight # None /\ fence = NoFence /\ p.cmd.kind # "none"
    BY <1>1, <1>3 DEF Placed, FlightInv
  <1>5. CASE Go(p, "wait") /\ UNCHANGED disk
    <2>1. p' = [p EXCEPT !.pc = "wait"] /\ told' = told
      BY <1>5 DEF Go
    <2>2. Mild(p', disk, told) /\ p'.pc = "wait" /\ Like(p', p)
      BY <1>1, <2>1, CommandSteps
    <2>3. Sorts' /\ ToolInv(p, disk)' /\ FlightInv(p, disk)' /\ ReadInv(p)' /\ CommandInv(p, disk)'
      <3> USE DEF Quiet, account
      <3>1. Sorts'
        BY <1>1 DEF Inv, Sorts
      <3>2. ToolInv(p, disk)'
        BY <1>1, <1>3, <1>5, <2>2 DEF ToolInv, Lives
      <3>3. FlightInv(p, disk)' /\ ReadInv(p)'
        BY <1>1, <1>3, <1>4, <1>5, <2>2
           DEF Placed, FlightInv, ReadInv, Like, Commands, Later, Detached
      <3>4. CommandInv(p, disk)'
        BY <1>1, <1>3, <1>5, <2>2 DEF CommandInv, Writes, Like, Hidden
      <3> QED BY <3>1, <3>2, <3>3, <3>4
    <2> QED BY <1>1, <1>5, <2>1, <2>2, <2>3, ToolMoves DEF Quiet
  <1>6. CASE Checkpoint(q, "go")
    <2>1. o \in Operation /\ o # None /\ o.phase = "ARMED"
      BY <1>3, <1>4, NoneIsNoRecord DEF States, Operation
    <2> HIDE DEF o
    <2>2. /\ m \in States /\ m.inflight = o /\ Sound(m) /\ m.tried = p.mem.tried
          /\ m.prefs = p.mem.prefs /\ m.conflict = p.mem.conflict
      BY <1>2, <2>1, CommandFields
    <2> HIDE DEF m
    <2>3. /\ q \in Processes /\ q.mem = m /\ q.pc = p.pc /\ q.mode = p.mode /\ q.at = p.at
          /\ q.intent = p.intent /\ q.unresolved = p.unresolved /\ q.field = p.field
          /\ q.inst = p.inst /\ q.back = p.back /\ q.keep = p.keep /\ q.cmd = p.cmd
      BY <1>3, <2>2 DEF Processes
    <2>4. Kin(q) /\ m # None
      BY <1>2, <2>2, <2>3, KinOf
    <2>5. "go" \in Steps
      BY DEF Steps
    <2>6. r.pc = "go" /\ Like(r, q)
      BY <2>3, <2>5, Moving
    <2>7. /\ d.state = m /\ d.dir = disk.dir /\ d.intent = disk.intent /\ d.completed = disk.completed
          /\ d \in Directories
      BY <1>3, <2>2, <2>3 DEF Directories
    <2>8. /\ e.state = p.mem /\ e.dir = disk.dir /\ e.intent = disk.intent
          /\ e.completed = disk.completed /\ e \in Directories
      BY <1>3, <1>4 DEF Directories
    <2>9. \/ disk' = d /\ p' = r /\ told' = told
          \/ Fallen(p', told', q) /\ disk' \in {disk, d, e}
      BY <1>3, <1>6, <2>3, <2>7, WritingFields DEF Checkpoint
    <2> HIDE DEF q, r, d, e
    <2>10. tool.life \in {"held", "none"} /\ ~(tool.life \in {"running", "stray"})
      BY <1>1, <1>3 DEF Placed, FlightInv
    <2>11. CASE disk' = d /\ p' = r /\ told' = told
      <3>1. PendingInv(r, d) /\ CommandInv(r, d)
        <4>1. Writes(p, disk, p.cmd.kind, p.cmd.arg)
          BY <1>1, <1>3 DEF Placed, PendingInv
        <4>2. Writes(r, d, p.cmd.kind, p.cmd.arg)
          BY <1>3, <1>4, <2>2, <2>3, <2>6, <2>7, <4>1 DEF Writes, Like, Tries
        <4>3. p.cmd.kind = tool.kind /\ p.cmd.arg = tool.arg
          BY <1>1, <1>3 DEF Placed, FlightInv
        <4> QED BY <2>3, <2>6, <4>2, <4>3 DEF PendingInv, Like, CommandInv
      <3>2. Placed(r, d)
        BY <1>1, <1>3, <1>4, <2>1, <2>2, <2>3, <2>4, <2>6, <2>7, <3>1
           DEF Placed, ProcessInv, FlightInv, StageInv, ReadInv, NameInv, FieldInv, KeepInv,
               CloseInv, Toward, Commands, Early, Finals, Bare, Blank, Returns, Like, Kin
      <3>3. ToolInv(r, d)
        BY <1>3, <1>4, <2>1, <2>2, <2>4, <2>6, <2>7, <2>10 DEF ToolInv, Lives
      <3>4. MindInv(r, d) /\ FreshInv(r, d, told) /\ EndInv(r, d, told)
        BY <1>3, <2>2, <2>3, <2>4, <2>6, <2>7, IdleFields
           DEF Inv, Good, MindInv, FreshInv, EndInv, Bare, Like
      <3>5. Good(r, d, told)
        BY <2>7, <3>1, <3>2, <3>3, <3>4 DEF Good
      <3> QED BY <1>1, <2>11, <3>5, Still
    <2>12. CASE Fallen(p', told', q) /\ disk' \in {disk, d, e}
      <3>1. /\ disk' \in Directories /\ disk'.dir = disk.dir /\ disk'.intent = disk.intent
            /\ disk'.completed = disk.completed /\ disk'.state \in {p.mem, m}
        BY <1>3, <1>4, <2>7, <2>8, <2>12
      <3>2. \/ p' = Idle
            \/ /\ p'.pc \in {"undo", "cleanup"} /\ p'.unresolved /\ p'.mode = "normal"
               /\ p'.mem = m /\ p'.intent = p.intent
        <4>1. p.mode \in {"none", "normal", "recovery"} /\ p.mode # "none"
          BY <1>1, <1>3 DEF Placed, ProcessInv, Processes
        <4>2. q.pc \in InFlight
          BY <1>1, <2>3 DEF InFlight
        <4> QED BY <2>3, <2>12, <4>1, <4>2 DEF Fallen
      <3>3. ToolInv(p', disk')
        BY <1>1, <1>3, <1>4, <2>1, <2>2, <2>4, <2>10, <3>1, <3>2 DEF ToolInv, Lives
      <3>4. CommandInv(p', disk')
        BY <1>3, <1>4, <2>2, <3>1, <3>2, IdleFields DEF CommandInv, Writes, Tries
      <3>5. Good(p', disk', told')
        BY <1>2, <1>3, <1>4, <2>3, <2>4, <2>12, <3>1, <3>3, <3>4, FallenFits DEF Placed, StageInv
      <3> QED BY <1>1, <3>5, Still
    <2> QED BY <2>9, <2>11, <2>12
  <1> QED BY <1>5, <1>6 DEF Arm

LEMMA RefusedKeeps ==
  ASSUME Inv, Refused
  PROVE  Inv'
  <1>1. p.pc = "refused" /\ Quiet /\ UNCHANGED disk /\ Raise(p)
    BY DEF Refused, At, Calm
  <1> QED BY <1>1, KinSelf, Fail DEF Open

\* A command that is over leaves its result and its fence: with its checkpoint they say
\* what it did.  A stray command is not over.
LEMMA SettleKeeps ==
  ASSUME Inv, Settle
  PROVE  Inv'
  <1> DEFINE out == IF tool.rc = "unborn" THEN "nofence" ELSE fence.out
             o == [p.mem.inflight EXCEPT !.phase = "SETTLED", !.out = out]
             m == [p.mem EXCEPT !.inflight = o, !.native = native]
             q == [p EXCEPT !.mem = m, !.cmd = [p.cmd EXCEPT !.rc = tool.rc]]
             r == [q EXCEPT !.pc = "retire"]
             d == [disk EXCEPT !.state = q.mem]
  <1>1. p.pc = "wait" /\ Quiet /\ tool.life \in {"none", "stray"}
    BY DEF Settle, At
  <1>2. p.pc \notin Blank \cup Terminals \cup {"idle", "rmdir"}
    BY <1>1 DEF Blank, Terminals
  <1>3. /\ p \in Processes /\ p.mem \in States /\ p.mem # None /\ p.intent # None
        /\ disk.completed = None /\ disk.dir /\ disk \in Directories /\ Placed(p, disk)
        /\ ToolInv(p, disk) /\ CommandInv(p, disk) /\ Sorts
    BY <1>2, Checked, NoTerminal, Working DEF Inv, Good
  <1>4. CASE Raise(p) /\ UNCHANGED disk
    <2>1. Kin(p) /\ Fallen(p', told', p)
      BY <1>2, <1>3, <1>4, KinSelf, Raising
    <2>2. \/ p' = Idle
          \/ /\ p'.pc \in {"undo", "cleanup"} /\ p'.unresolved /\ p'.mode = "normal"
             /\ p'.mem = p.mem /\ p'.intent = p.intent
      <3>1. p.mode \in {"none", "normal", "recovery"} /\ p.mode # "none"
        BY <1>1, <1>3 DEF Placed, ProcessInv, Processes
      <3>2. p.pc \in InFlight
        BY <1>1 DEF InFlight
      <3> QED BY <2>1, <3>1, <3>2 DEF Fallen
    <2>3. ToolInv(p', disk)
      BY <1>3, <2>2 DEF ToolInv, Lives
    <2>4. CommandInv(p', disk)
      BY <1>3, <2>2, IdleFields DEF CommandInv, Writes
    <2>5. Good(p', disk, told')
      BY <1>2, <1>3, <2>1, <2>3, <2>4, FallenFits
    <2> QED BY <1>1, <1>4, <2>5, Still
  <1>5. CASE tool.rc \in {"ok", "fail", "never", "unborn"} /\ Checkpoint(q, "retire")
    <2>1. ~Lives
      BY <1>1, <1>3, <1>5 DEF ToolInv, Lives
    <2>2. p.mem.inflight # None /\ p.mem.inflight \in Operation /\ p.cmd \in Errands
      BY <1>1, <1>3 DEF Placed, ProcessInv, States, Processes
    <2>3. out \in {"none", "nofence", "never", "settled"}
      BY <1>3 DEF Sorts
    <2> HIDE DEF out
    <2>4. o \in Operation
      BY <2>2, <2>3 DEF Operation
    <2> HIDE DEF o
    <2>5. /\ m \in States /\ m.tried = p.mem.tried /\ m.prefs = p.mem.prefs
          /\ m.conflict = p.mem.conflict /\ m.own = p.mem.own /\ m.phase = p.mem.phase
          /\ m.stage = p.mem.stage
      BY <1>3, <2>4 DEF States, Sorts
    <2>6. Sound(m)
      <3>1. Sound(p.mem)
        BY <1>3 DEF Inv, Good, MindInv
      <3> QED BY <2>5, <3>1 DEF Sound, OwnsName
    <2> HIDE DEF m
    <2>7. [p.cmd EXCEPT !.rc = tool.rc] \in Errands
      BY <1>5, <2>2 DEF Errands, Codes
    <2>8. /\ q \in Processes /\ q.mem = m /\ q.pc = p.pc /\ q.mode = p.mode /\ q.at = p.at
          /\ q.intent = p.intent /\ q.unresolved = p.unresolved /\ q.field = p.field
          /\ q.inst = p.inst /\ q.back = p.back /\ q.keep = p.keep
          /\ q.cmd = [p.cmd EXCEPT !.rc = tool.rc]
      BY <1>3, <2>5, <2>7 DEF Processes
    <2>9. q.cmd.kind = p.cmd.kind /\ q.cmd.arg = p.cmd.arg /\ q.cmd.ret = p.cmd.ret /\ q.cmd.rc = tool.rc
      BY <2>2, <2>8 DEF Errands
    <2>10. Kin(q) /\ m # None
      BY <1>2, <2>5, <2>6, <2>8, KinOf
    <2>11. "retire" \in Steps
      BY DEF Steps
    <2>12. r.pc = "retire" /\ Like(r, q)
      BY <2>8, <2>11, Moving
    <2>13. d.state = m /\ d.dir = disk.dir /\ d.intent = disk.intent /\ d.completed = disk.completed
      BY <1>3, <2>8 DEF Directories
    <2> HIDE DEF q, r, d
    <2>14. Placed(r, d)
      BY <1>1, <1>3, <2>2, <2>5, <2>8, <2>9, <2>10, <2>12, <2>13
         DEF Placed, ProcessInv, FlightInv, StageInv, ReadInv, NameInv, FieldInv, KeepInv,
             PendingInv, CloseInv, Toward, Commands, Early, Finals, Bare, Blank, Returns, Kin, Like
    <2>15. Checkpoint(q, "retire")
      BY <1>5
    <2> QED BY <1>1, <1>2, <2>1, <2>8, <2>10, <2>11, <2>14, <2>15, SaveAlone DEF Bare, r, d
  <1>6. \/ Raise(p) /\ UNCHANGED disk
        \/ tool.rc \in {"ok", "fail", "never", "unborn"} /\ Checkpoint(q, "retire")
    <2> DEFINE w == [p EXCEPT !.mem.inflight.phase = "SETTLED", !.mem.inflight.out = out,
                              !.mem.native = native, !.cmd.rc = tool.rc]
    <2>1. w = q
      <3> DEFINE a == [p.mem.inflight EXCEPT !.phase = "SETTLED"]
                 b == [p.mem EXCEPT !.inflight = a]
                 c == [b EXCEPT !.inflight = o]
                 u == [p EXCEPT !.mem = b]
                 v == [u EXCEPT !.mem = c]
      <3>1. p.mem.inflight \in Operation /\ p.cmd \in Errands
        BY <1>1, <1>3 DEF Placed, ProcessInv, States, Processes
      <3>2. o = [a EXCEPT !.out = out]
        OBVIOUS
      <3>3. b.inflight = a /\ c = [p.mem EXCEPT !.inflight = o] /\ m = [c EXCEPT !.native = native]
        BY <1>3 DEF States
      <3>4. u.mem = b /\ v.mem = c /\ v = [p EXCEPT !.mem = c] /\ v.cmd = p.cmd
        BY <1>3 DEF Processes
      <3>5. v = [u EXCEPT !.mem = [u.mem EXCEPT !.inflight = [u.mem.inflight EXCEPT !.out = out]]]
        BY <3>2, <3>3, <3>4
      <3>6. w = [[v EXCEPT !.mem = [v.mem EXCEPT !.native = native]] EXCEPT !.cmd = [p.cmd EXCEPT !.rc = tool.rc]]
        <4>1. w = [[[u EXCEPT !.mem.inflight.out = out] EXCEPT !.mem.native = native] EXCEPT !.cmd.rc = tool.rc]
          OBVIOUS
        <4>2. w = [[v EXCEPT !.mem.native = native] EXCEPT !.cmd.rc = tool.rc]
          <5> HIDE DEF w, v, u, out
          <5> QED BY <3>5, <4>1
        <4>3. [v EXCEPT !.mem.native = native].cmd = p.cmd
          <5> HIDE DEF v
          <5> QED BY <1>3, <3>4 DEF Processes
        <4> HIDE DEF v, w
        <4> QED BY <4>2, <4>3
      <3> HIDE DEF a, b, c, u, v, w, o, m
      <3>7. [v EXCEPT !.mem = m] = [p EXCEPT !.mem = m]
        BY <1>3, <3>4 DEF Processes
      <3> QED BY <3>3, <3>4, <3>6, <3>7
    <2>2. \/ Raise(p) /\ UNCHANGED disk
          \/ tool.rc \in {"ok", "fail", "never", "unborn"} /\ Checkpoint(w, "retire")
      BY DEF Settle
    <2> QED BY <2>1, <2>2
  <1> QED BY <1>4, <1>5, <1>6

LEMMA RetireKeeps ==
  ASSUME Inv, Retire
  PROVE  Inv'
  <1>1. p.pc = "retire" /\ UNCHANGED <<disk, account, tool, want>>
    BY DEF Retire, At
  <1>2. ~Lives /\ tool.life = "none"
    BY <1>1, Alone DEF Open, Lives
  <1>3. Kin(p) /\ p \in Processes
    BY <1>1, KinSelf DEF Kin
  <1>4. CASE /\ fence' = IF fence.at = "pair" THEN [fence EXCEPT !.at = "final"] ELSE NoFence
             /\ UNCHANGED <<p, told>>
    <2>1. Mild(p', disk', told')
      BY <1>1, <1>4 DEF Inv, Good, Placed, Mild
    <2>2. Sorts'
      BY <1>1, <1>4 DEF Inv, Sorts, NoFence, account
    <2>3. ToolInv(p, disk)' /\ CommandInv(p, disk)'
      BY <1>1, <1>2, <1>4 DEF Inv, Good, ToolInv, CommandInv, Lives
    <2>4. FlightInv(p, disk)' /\ ReadInv(p)'
      BY <1>1, <1>4 DEF Inv, Good, Placed, FlightInv, ReadInv, Later, Detached, account
    <2> QED BY <1>1, <2>1, <2>2, <2>3, <2>4, ToolMoves
  <1>5. CASE Raise([p EXCEPT !.journalFailed = TRUE]) /\ UNCHANGED fence
    <2> DEFINE q == [p EXCEPT !.journalFailed = TRUE]
    <2>1. Like(q, p) /\ q.pc = p.pc
      BY <1>3, Spoiling
    <2>2. Kin(q) /\ Raise(q)
      BY <1>3, <1>5, <2>1 DEF Kin, Like
    <2> HIDE DEF q
    <2>3. Quiet
      BY <1>1, <1>5 DEF Quiet, Retire
    <2> QED BY <1>1, <2>2, <2>3, Fail DEF Open
  <1> QED BY <1>4, <1>5 DEF Retire

LEMMA ClearKeeps ==
  ASSUME Inv, Clear
  PROVE  Inv'
  <1> DEFINE m == [p.mem EXCEPT !.inflight = None]
             cur == IF p.cmd.kind = "observe" THEN tool.read ELSE p.cur
             q == [p EXCEPT !.mem = m, !.cmd = NoCommand, !.cur = cur]
             next == IF p.cmd.rc = "ok" THEN p.cmd.ret ELSE "refused"
             r == [q EXCEPT !.pc = next]
             d == [disk EXCEPT !.state = q.mem]
  <1>1. p.pc = "retire" /\ Quiet /\ fence = NoFence /\ Checkpoint(q, next)
    BY DEF Clear, At
  <1>2. p.pc \notin Blank \cup Terminals \cup Open
    BY <1>1 DEF Blank, Terminals, Open
  <1>3. /\ p \in Processes /\ p.mem \in States /\ p.mem # None /\ p.intent # None
        /\ disk.completed = None /\ disk.dir /\ disk \in Directories /\ Placed(p, disk) /\ Sorts
    BY <1>2, Checked, NoTerminal, Working DEF Open, Inv, Good
  <1>4. NoCommand \in Errands /\ NoCommand.kind = "none"
    BY IdleFields DEF NoCommand, Errands, Kinds, Codes, NoPrefs, Preferences
  <1>5. cur \in Preferences
    BY <1>3 DEF Sorts, Runners, Processes
  <1>6. /\ m \in States /\ m.inflight = None /\ Sound(m) /\ m.tried = p.mem.tried
        /\ m.prefs = p.mem.prefs /\ m.conflict = p.mem.conflict
    BY <1>2, CommandFields
  <1>7. next \in Returns \cup {"refused"} /\ (next # "refused" => p.cmd.rc = "ok" /\ next = p.cmd.ret)
    BY <1>1, <1>3 DEF Placed, ProcessInv, Commands
  <1>8. p.cmd.kind = "observe" => cur = tool.read
    OBVIOUS
  <1> HIDE DEF m, cur, next
  <1>9. /\ q \in Processes /\ q.mem = m /\ q.pc = p.pc /\ q.mode = p.mode /\ q.at = p.at
        /\ q.intent = p.intent /\ q.unresolved = p.unresolved /\ q.field = p.field
        /\ q.inst = p.inst /\ q.back = p.back /\ q.keep = p.keep /\ q.cur = cur
    BY <1>3, <1>4, <1>5, <1>6 DEF Processes
  <1>10. Kin(q) /\ m # None
    BY <1>2, <1>6, <1>9, KinOf
  <1>11. next \in Steps \ (Bare \cup {"rmdir"})
    BY <1>7 DEF Returns, Steps, Bare
  <1>12. r.pc = next /\ Like(r, q)
    BY <1>9, <1>11, Moving
  <1>13. d.state = m /\ d.dir = disk.dir /\ d.intent = disk.intent /\ d.completed = disk.completed
    BY <1>3, <1>9 DEF Directories
  <1> HIDE DEF q, r, d
  <1>14. ReadInv(r)
    <2>1. /\ p.cmd.kind # "none" => p.cmd.rc = tool.rc
          /\ p.cmd.kind = "observe" /\ tool.rc = "ok" =>
               Later(tool.read) /\ (p.cmd.ret \in {"attempt", "target"} => tool.read = prefs)
          /\ p.cmd.ret \in {"attempt", "target", "compare", "finishing"} => p.cmd.kind = "observe"
      BY <1>1, <1>3 DEF Placed, FlightInv, ReadInv, Commands
    <2> QED BY <1>7, <1>8, <1>9, <1>12, <2>1 DEF ReadInv, Returns, Commands, Like
  <1>15. FieldInv(r) /\ KeepInv(r)
    BY <1>1, <1>3, <1>6, <1>7, <1>9, <1>12
       DEF Placed, FieldInv, KeepInv, Toward, Commands, Returns, Early, Like
  <1>16. ProcessInv(r) /\ StageInv(r, d)
    BY <1>1, <1>3, <1>6, <1>7, <1>9, <1>10, <1>12, <1>13
       DEF Placed, ProcessInv, StageInv, Toward, Commands, Returns, Finals, Bare, Blank, Kin, Like
  <1>17. FlightInv(r, d) /\ NameInv(r, d) /\ PendingInv(r, d) /\ CloseInv(r)
    BY <1>7, <1>12 DEF FlightInv, NameInv, PendingInv, CloseInv, Returns
  <1>18. Placed(r, d)
    BY <1>14, <1>15, <1>16, <1>17 DEF Placed
  <1> QED BY <1>1, <1>2, <1>9, <1>10, <1>11, <1>18, Save DEF r, d

LEMMA CommandKeeps ==
  ASSUME Inv, Command
  PROVE  Inv'
  BY PrepareKeeps, LaunchKeeps, ArmKeeps, GrantKeeps, SettleKeeps, RetireKeeps, ClearKeeps, RefusedKeeps
     DEF Command

-----------------------------------------------------------------------------
(* The tool and its custodian.                                             *)

\* Where the process is while a command runs.
Waiting == {"idle", "wait", "cleanup", "undo", "close", "load", "gate"}

LEMMA Running ==
  ASSUME Inv, tool.life \in {"running", "stray"}
  PROVE  /\ p.pc \in Waiting /\ disk.state # None /\ disk.completed = None /\ fence = NoFence
         /\ Writes(p, disk, tool.kind, tool.arg) /\ told # "clean" /\ Sound(disk.state)
         /\ tool.kind = "create" => "search" \notin disk.state.tried
         /\ p.pc = "wait" /\ p.cmd.kind # "none" => p.cmd.kind = tool.kind /\ p.cmd.arg = tool.arg
  <1>1. ToolInv(p, disk) /\ CommandInv(p, disk) /\ MindInv(p, disk) /\ FlightInv(p, disk) /\ StageInv(p, disk)
        /\ EndInv(p, disk, told)
    BY DEF Inv, Good, Placed
  <1>2. disk.state # None /\ disk.completed = None
    BY <1>1 DEF ToolInv, Lives
  <1>3. p.pc \in Waiting
    BY <1>1, IdleFields DEF ToolInv, Lives, Waiting, FlightInv
  <1>4. disk.dir
    BY <1>1, <1>2 DEF StageInv, NoSession
  <1> QED BY <1>1, <1>2, <1>3, <1>4 DEF ToolInv, CommandInv, Lives, MindInv, FlightInv, EndInv

\* What a running command may make of the preferences fits what every checkpoint knows.
LEMMA Written ==
  ASSUME Inv, tool.life \in {"running", "stray"}, UNCHANGED <<disk, prof, p, want>>,
         \/ prefs' = prefs
         \/ tool.kind = "create" /\ prefs' = [prefs EXCEPT !.search = @ \cup {"own"}]
         \/ tool.kind \in Fields /\ prefs' = [prefs EXCEPT ![tool.kind] = tool.arg[tool.kind]]
  PROVE  prefs' \in Preferences /\ AccountInv' /\ MindInv(p, disk)' /\ KeepInv(p)'
  <1>1. /\ prefs \in Preferences /\ want.prefs \in Preferences /\ tool.arg \in Preferences
        /\ AccountInv /\ MindInv(p, disk) /\ KeepInv(p) /\ ReadInv(p) /\ disk.state # None
        /\ disk.completed = None /\ ProcessInv(p) /\ disk \in Directories
    BY Running DEF Inv, Sorts, Runners, Good, Placed
  <1>2. CASE prefs' = prefs
    BY <1>1, <1>2 DEF AccountInv, MindInv, KeepInv, Sound, Planned, Whole, Hidden
  <1>3. CASE tool.kind = "create" /\ prefs' = [prefs EXCEPT !.search = @ \cup {"own"}]
    <2>1. Whole /\ "orig" \in want.prefs.search
      BY <1>3, Running DEF Sound
    <2>2. prefs' \in Preferences /\ prefs'.default = prefs.default
          /\ prefs'.search = prefs.search \cup {"own"}
      BY <1>1, <1>3 DEF Preferences
    <2>3. Whole'
      BY <2>1, <2>2 DEF Whole
    <2>4. ~Hidden'
      BY <1>1, <2>1, <2>3 DEF Whole, Hidden, AccountInv
    <2>5. AccountInv'
      BY <1>1, <2>1, <2>2, <2>3, <2>4 DEF AccountInv, Whole
    <2>6. MindInv(p, disk)' /\ KeepInv(p)'
      BY <1>1, <2>1, <2>2, <2>3, <2>4 DEF MindInv, KeepInv, Sound, Planned
    <2> QED BY <2>2, <2>5, <2>6
  <1>4. CASE tool.kind = "default" /\ prefs' = [prefs EXCEPT !.default = tool.arg.default]
    <2>1. prefs' \in Preferences /\ prefs'.default = tool.arg.default /\ prefs'.search = prefs.search
      BY <1>1, <1>4 DEF Preferences
    <2>2. (Whole' <=> Whole) /\ (Hidden' <=> Hidden)
      BY <2>1 DEF Whole, Hidden
    <2>3. \/ prefs'.default = want.prefs.default
          \/ /\ prefs'.default = "own"
             /\ p.intent # None => p.intent.prefs.default = want.prefs.default
             /\ disk.intent # None => disk.intent.prefs.default = want.prefs.default
      BY <1>4, <2>1, Running DEF Writes
    <2>4. AccountInv'
      BY <1>1, <2>1, <2>2, <2>3 DEF AccountInv
    <2>5. MindInv(p, disk)' /\ KeepInv(p)'
      BY <1>1, <2>1, <2>2, <2>3 DEF MindInv, KeepInv, Sound, Planned, AccountInv
    <2> QED BY <2>1, <2>4, <2>5
  <1>5. CASE tool.kind = "search" /\ prefs' = [prefs EXCEPT !.search = tool.arg.search]
    <2>1. prefs' \in Preferences /\ prefs'.default = prefs.default /\ prefs'.search = tool.arg.search
      BY <1>1, <1>5 DEF Preferences
    <2>2. CASE tool.arg.search = want.prefs.search
      <3>1. Whole' /\ ~Hidden'
        BY <1>1, <2>1, <2>2 DEF Whole, Hidden, AccountInv
      <3>2. "search" \notin disk.state.tried => "orig" \in want.prefs.search
        BY Running DEF Sound
      <3> QED BY <1>1, <2>1, <2>2, <3>1, <3>2 DEF AccountInv, MindInv, KeepInv, Sound, Planned
    <2>3. CASE tool.arg.search = prefs.search \ {"own"} /\ ~Hidden
      <3>1. (Whole' <=> Whole) /\ ~Hidden'
        BY <1>1, <2>1, <2>3 DEF Whole, Hidden, AccountInv
      <3>2. AccountInv'
        BY <1>1, <2>1, <2>3, <3>1 DEF AccountInv
      <3>3. MindInv(p, disk)' /\ KeepInv(p)'
        BY <1>1, <2>1, <2>3, <3>1 DEF MindInv, KeepInv, Sound, Planned
      <3> QED BY <2>1, <3>2, <3>3
    <2>4. CASE /\ tool.arg.search = {"own"} /\ "orig" \in want.prefs.search
               /\ p.intent # None => p.intent.prefs.search = want.prefs.search
               /\ disk.intent # None => disk.intent.prefs.search = want.prefs.search
               /\ p.mem # None => Tries(p.mem)
               /\ Tries(disk.state)
      <3>1. Hidden' /\ ~Whole'
        BY <1>1, <2>1, <2>4 DEF Whole, Hidden, AccountInv
      <3>2. AccountInv'
        BY <1>1, <2>1, <2>4, <3>1 DEF AccountInv
      <3>3. MindInv(p, disk)'
        BY <1>1, <2>1, <2>4, <3>1 DEF MindInv, Sound, Planned, Tries, OwnsName
      <3>4. KeepInv(p)'
        <4>1. p.pc \in Commands => p.pc = "wait"
          BY Running DEF Waiting, Commands
        <4>2. p.pc \notin {"now", "target", "readback", "compare"}
          BY Running DEF Waiting
        <4>3. p.pc = "wait" => p.cmd.kind # "none"
          BY DEF Inv, Good, Placed, FlightInv
        <4>4. p.pc = "wait" /\ p.cmd.ret \in {"now", "target", "readback", "compare"} => p.cmd.ret = "readback"
          <5>1. p.pc = "wait" => p.cmd.kind = "search" /\ p.cmd.kind # "observe"
            BY <1>5, <4>3, Running
          <5> QED BY <1>1, <5>1 DEF ReadInv, ProcessInv, Returns, Commands
        <4>5. p.pc = "wait" /\ p.cmd.ret = "readback" => Intact(p.keep)
          BY <1>1, <2>4, <4>3, Running DEF KeepInv, Commands, Intact
        <4> QED BY <1>1, <4>1, <4>2, <4>4, <4>5 DEF KeepInv, Toward, Commands
      <3> QED BY <2>1, <3>2, <3>3, <3>4
    <2> QED BY <1>1, <1>5, <2>2, <2>3, <2>4, Running DEF Writes
  <1> QED BY <1>2, <1>3, <1>4, <1>5 DEF Fields

LEMMA Effects ==
  ASSUME Inv, tool.life \in {"running", "stray"}, UNCHANGED <<disk, fence, prof, p, want, told>>,
         Effect(tool.kind, tool.arg) \/ UNCHANGED <<native, prefs>>,
         tool' \in Runners, tool'.kind = tool.kind, tool'.arg = tool.arg,
         tool'.life \in {"ended", "none"}, tool'.life = "ended" => tool.life = "running",
         tool'.rc = "ok" => tool'.read = prefs
  PROVE  Inv'
  <1>1. /\ native' \in Keychain
        /\ \/ prefs' = prefs
           \/ tool.kind = "create" /\ prefs' = [prefs EXCEPT !.search = @ \cup {"own"}]
           \/ tool.kind \in Fields /\ prefs' = [prefs EXCEPT ![tool.kind] = tool.arg[tool.kind]]
    <2>1. native \in Keychain /\ tool.kind \in Kinds
      BY DEF Inv, Sorts, Runners
    <2>2. CASE UNCHANGED <<native, prefs>>
      BY <2>1, <2>2
    <2>3. CASE tool.kind = "create" /\ Effect(tool.kind, tool.arg)
      <3>1. /\ native' \in [db : {"made"}, lock : BOOLEAN]
            /\ prefs' \in {prefs, [prefs EXCEPT !.search = @ \cup {"own"}]}
        BY <2>3 DEF Effect, Fields
      <3>2. native' \in Keychain
        BY <3>1 DEF Keychain
      <3> QED BY <2>3, <3>1, <3>2
    <2>4. CASE tool.kind \in {"import", "build"} /\ Effect(tool.kind, tool.arg)
      BY <2>1, <2>4 DEF Effect, Keychain
    <2>5. CASE tool.kind \in Fields /\ Effect(tool.kind, tool.arg)
      BY <2>1, <2>5 DEF Effect, Fields
    <2>6. CASE tool.kind = "delete" /\ Effect(tool.kind, tool.arg)
      <3>1. native' \in {NoKeychain, [native EXCEPT !.db = "none"]} /\ prefs' = prefs
        BY <2>6 DEF Effect, Fields
      <3>2. NoKeychain \in Keychain /\ [native EXCEPT !.db = "none"] \in Keychain
        BY <2>1 DEF NoKeychain, Keychain
      <3> QED BY <3>1, <3>2
    <2>7. CASE tool.kind \in {"none", "observe"} /\ Effect(tool.kind, tool.arg)
      BY <2>1, <2>7 DEF Effect, Fields
    <2> QED BY <2>1, <2>2, <2>3, <2>4, <2>5, <2>6, <2>7 DEF Kinds
  <1>2. prefs' \in Preferences /\ AccountInv' /\ MindInv(p, disk)' /\ KeepInv(p)'
    BY <1>1, Written
  <1>3. Sorts'
    BY <1>1, <1>2 DEF Inv, Sorts
  <1>4. /\ p.pc \in Waiting /\ disk.state # None /\ disk.completed = None /\ fence = NoFence
        /\ told # "clean" /\ (tool.kind = "create" => "search" \notin disk.state.tried)
        /\ (p.pc = "wait" /\ p.cmd.kind # "none" => p.cmd.kind = tool.kind /\ p.cmd.arg = tool.arg)
    BY Running
  <1>5. ToolInv(p, disk)' /\ CommandInv(p, disk)'
    BY <1>4 DEF Inv, Good, ToolInv, CommandInv, Lives
  <1>6. FlightInv(p, disk)' /\ ProcessInv(p)' /\ StageInv(p, disk)' /\ FieldInv(p)' /\ NameInv(p, disk)'
        /\ (disk \in Directories)'
    BY <1>4 DEF Waiting, Inv, Good, Placed, FlightInv, ProcessInv, StageInv, FieldInv, NameInv
  <1>7. PendingInv(p, disk)' /\ CloseInv(p)' /\ FreshInv(p, disk, told)' /\ EndInv(p, disk, told)'
    <2>1. disk.dir
      BY <1>4 DEF Inv, Good, Placed, StageInv, NoSession
    <2> QED BY <1>4, <2>1 DEF Waiting, PendingInv, CloseInv, FreshInv, EndInv, Bare
  <1>8. ReadInv(p)'
    <2>1. ReadInv(p)
      BY DEF Inv, Good, Placed
    <2>2. p.pc = "wait" /\ p.cmd.kind = "observe" /\ tool'.rc = "ok" =>
            Later(tool.read)' /\ tool'.read = prefs'
      BY <1>1, <1>4 DEF Later, Fields
    <2> QED BY <1>4, <2>1, <2>2 DEF ReadInv, Waiting, Commands, Later, Detached
  <1> QED BY <1>2, <1>3, <1>5, <1>6, <1>7, <1>8 DEF Inv, Good, Placed

\* The custodian of a command that is over, or will never run, goes on or dies.
LEMMA CustodianMoves ==
  ASSUME Inv, UNCHANGED <<disk, account, p, want, told>>, tool' \in Runners,
         tool'.kind = tool.kind, tool'.arg = tool.arg, tool'.rc # "ok" \/ UNCHANGED <<tool.rc, tool.read>>,
         fence' \in [at : {"none", "pending", "pair", "final"}, out : {"none", "never", "settled"}],
         ToolInv(p, disk)', FlightInv(p, disk)', CommandInv(p, disk)'
  PROVE  Inv'
  <1>1. Mild(p', disk', told')
    BY DEF Inv, Good, Placed, Mild
  <1>2. Sorts'
    BY DEF Inv, Sorts, account
  <1>3. ReadInv(p)'
    BY DEF Inv, Good, Placed, ReadInv, Later, Detached, account
  <1> QED BY <1>1, <1>2, <1>3, ToolMoves

LEMMA CustodianKeeps ==
  ASSUME Inv, Custodian \/ CustodianDies \/ StrayRuns
  PROVE  Inv'
  <1>1. tool \in Runners /\ ToolInv(p, disk) /\ FlightInv(p, disk) /\ CommandInv(p, disk)
        /\ fence \in [at : {"none", "pending", "pair", "final"}, out : {"none", "never", "settled"}]
        /\ prefs \in Preferences
    BY DEF Inv, Sorts, Good, Placed
  <1>2. CASE ToolRuns
    <2>1. CASE tool' = [tool EXCEPT !.life = "ended", !.rc = "ok", !.read = prefs]
      <3>1. /\ tool' \in Runners /\ tool'.kind = tool.kind /\ tool'.arg = tool.arg
            /\ tool'.life = "ended" /\ tool'.read = prefs
        BY <1>1, <2>1 DEF Runners, Codes
      <3> QED BY <1>2, <2>1, <3>1, Effects DEF ToolRuns
    <2>2. ASSUME NEW rc \in {"fail", "killed"}, tool' = [tool EXCEPT !.life = "ended", !.rc = rc]
          PROVE  Inv'
      <3>1. /\ tool' \in Runners /\ tool'.kind = tool.kind /\ tool'.arg = tool.arg
            /\ tool'.life = "ended" /\ tool'.rc # "ok"
        BY <1>1, <2>2 DEF Runners, Codes
      <3> QED BY <1>2, <2>2, <3>1, Effects DEF ToolRuns
    <2> QED BY <1>2, <2>1, <2>2 DEF ToolRuns
  <1>3. CASE StrayRuns
    <2>1. /\ tool' \in Runners /\ tool'.kind = tool.kind /\ tool'.arg = tool.arg
          /\ tool'.life = "none" /\ tool'.rc = "lost"
      BY <1>1, <1>3 DEF StrayRuns, Runners, ToolInv
    <2> QED BY <1>3, <2>1, Effects DEF StrayRuns
  <1>4. CASE ToolNever
    <2>1. /\ tool' \in Runners /\ tool'.kind = tool.kind /\ tool'.arg = tool.arg
          /\ tool'.life = "ended" /\ tool'.rc = "never" /\ tool.life = "held"
          /\ p.pc \notin {"arm", "go"} /\ UNCHANGED <<disk, fence, account, p, want, told>>
      BY <1>1, <1>4 DEF ToolNever, Runners, Codes
    <2>2. ToolInv(p, disk)' /\ FlightInv(p, disk)' /\ CommandInv(p, disk)'
      BY <1>1, <2>1, IdleFields DEF ToolInv, FlightInv, CommandInv, Lives
    <2> QED BY <1>1, <2>1, <2>2, CustodianMoves
  <1>5. CASE FenceStage
    <2>1. /\ tool' \in Runners /\ tool'.kind = tool.kind /\ tool'.arg = tool.arg /\ tool'.rc = tool.rc
          /\ tool'.read = tool.read /\ tool'.life = "fencing" /\ tool.life = "ended"
          /\ fence' \in [at : {"none", "pending", "pair", "final"}, out : {"none", "never", "settled"}]
          /\ UNCHANGED <<disk, account, p, want, told>>
      BY <1>1, <1>5 DEF FenceStage, Runners, Outcome
    <2>2. ToolInv(p, disk)' /\ FlightInv(p, disk)' /\ CommandInv(p, disk)'
      BY <1>1, <2>1, IdleFields DEF ToolInv, FlightInv, CommandInv, Lives
    <2> QED BY <2>1, <2>2, CustodianMoves
  <1>6. CASE FencePublish
    <2>1. /\ tool' \in Runners /\ tool'.kind = tool.kind /\ tool'.arg = tool.arg /\ tool'.rc = tool.rc
          /\ tool'.read = tool.read /\ tool'.life = "none" /\ tool.life = "fencing"
          /\ fence' \in [at : {"none", "pending", "pair", "final"}, out : {"none", "never", "settled"}]
          /\ UNCHANGED <<disk, account, p, want, told>>
      BY <1>1, <1>6 DEF FencePublish, Runners
    <2>2. ToolInv(p, disk)' /\ FlightInv(p, disk)' /\ CommandInv(p, disk)'
      BY <1>1, <2>1, IdleFields DEF ToolInv, FlightInv, CommandInv, Lives
    <2> QED BY <2>1, <2>2, CustodianMoves
  <1>7. CASE CustodianDies
    <2>1. /\ tool' \in Runners /\ tool'.kind = tool.kind /\ tool'.arg = tool.arg /\ tool'.rc = "lost"
          /\ tool'.life = (IF tool.life = "running" THEN "stray" ELSE "none")
          /\ tool.life \in {"held", "running", "ended", "fencing"}
          /\ UNCHANGED <<disk, fence, account, p, want, told>>
      BY <1>1, <1>7 DEF CustodianDies, Runners, Codes
    <2>2. ToolInv(p, disk)'
      BY <1>1, <2>1, IdleFields DEF ToolInv, Lives
    <2>3. FlightInv(p, disk)'
      BY <1>1, <2>1, IdleFields DEF ToolInv, FlightInv, Lives
    <2>4. CommandInv(p, disk)'
      BY <1>1, <2>1 DEF CommandInv, Writes, Hidden, account
    <2> QED BY <1>1, <2>1, <2>2, <2>3, <2>4, CustodianMoves
  <1> QED BY <1>2, <1>3, <1>4, <1>5, <1>6, <1>7 DEF Custodian

-----------------------------------------------------------------------------
(* The cleanup.                                                            *)

\* A command that the cleanup finds unresolved keeps everything as it is.
LEMMA CleanupKeeps ==
  ASSUME Inv, Cleanup
  PROVE  Inv'
  <1>1. p.pc = "cleanup" /\ Quiet /\ UNCHANGED disk
    BY DEF Cleanup, At, Calm
  <1>2. Kin(p) /\ p \in Processes /\ disk.dir /\ disk.completed = None /\ Placed(p, disk)
        /\ ToolInv(p, disk) /\ CommandInv(p, disk)
    BY <1>1, KinSelf, Working, NoTerminal DEF Inv, Good, Terminals
  <1>3. \/ Go([p EXCEPT !.at = "undo"], "undo")
        \/ Go([p EXCEPT !.at = "native"], "native") /\ ~Lives /\ p.mem # None
    BY <1>1, <1>2, IdleFields DEF Cleanup, Retain, ToolInv
  <1>4. ASSUME NEW at \in {"undo", "native"}, Go([p EXCEPT !.at = at], at),
               at = "native" => ~Lives /\ p.mem # None
        PROVE  Inv'
    <2> DEFINE q == [p EXCEPT !.at = at]
               r == [q EXCEPT !.pc = at]
    <2>1. at \in Steps /\ at \in Places
      BY DEF Steps, Places
    <2>2. /\ q \in Processes /\ q.mem = p.mem /\ q.pc = p.pc /\ q.mode = p.mode /\ q.at = at
          /\ q.intent = p.intent /\ q.unresolved = p.unresolved /\ q.inst = p.inst
      BY <1>2, <2>1 DEF Processes
    <2>3. Kin(q)
      BY <1>1, <1>2, <2>2 DEF Kin, Finals
    <2>4. r.pc = at /\ Like(r, q)
      BY <2>1, <2>2, Moving
    <2>5. Go(q, at)
      BY <1>4
    <2> HIDE DEF q, r
    <2>6. Placed(r, disk)
      BY <1>1, <1>2, <1>4, <2>2, <2>3, <2>4
         DEF Placed, ProcessInv, FlightInv, StageInv, ReadInv, NameInv, FieldInv, KeepInv,
             PendingInv, CloseInv, Toward, Commands, Early, Finals, Bare, Blank, Returns, Kin, Like
    <2>7. ToolInv(r, disk) /\ CommandInv(r, disk)
      BY <1>1, <1>2, <1>4, <2>2, <2>4, IdleFields DEF ToolInv, CommandInv, Writes, Lives, Like
    <2>8. Good(p', disk', told')
      BY <1>1, <1>2, <2>1, <2>3, <2>5, <2>6, <2>7, Going DEF r, Bare
    <2> QED BY <1>1, <2>8, Still
  <1> QED BY <1>3, <1>4

LEMMA CleanNativeKeeps ==
  ASSUME Inv, CleanNative
  PROVE  Inv'
  <1> DEFINE c == p.mem.conflict \/ (native # p.mem.native /\ ~p.mem.cleaning)
             m == [p.mem EXCEPT !.conflict = c, !.native = native, !.cleaning = TRUE]
             q == [p EXCEPT !.mem = m]
             r == [q EXCEPT !.pc = "survey"]
             d == [disk EXCEPT !.state = q.mem]
  <1>1. p.pc = "native" /\ Quiet
    BY DEF CleanNative, At
  <1>2. p.pc \notin Blank \cup Terminals \cup Open \cup {"rmdir"}
    BY <1>1 DEF Blank, Terminals, Open
  <1>3. /\ p \in Processes /\ p.mem \in States /\ p.intent # None /\ Placed(p, disk) /\ Sound(p.mem)
        /\ native \in Keychain /\ disk \in Directories /\ disk.completed = None /\ disk.dir
    BY <1>2, Checked, NoTerminal, Working DEF Inv, Good, MindInv, Sorts, Open
  <1>4. CASE Raise(p) /\ UNCHANGED disk
    BY <1>1, <1>2, <1>4, KinSelf, Fail DEF Open
  <1>5. CASE Checkpoint(q, "survey")
    <2>1. c \in BOOLEAN /\ (p.mem.conflict => c)
      BY <1>3 DEF States
    <2> HIDE DEF c
    <2>2. /\ m \in States /\ m.tried = p.mem.tried /\ m.prefs = p.mem.prefs /\ m.conflict = c
          /\ m.own = p.mem.own /\ m.phase = p.mem.phase /\ m.stage = p.mem.stage
      BY <1>3, <2>1 DEF States
    <2>3. Sound(m)
      BY <1>3, <2>1, <2>2 DEF Sound, OwnsName
    <2> HIDE DEF m
    <2>4. /\ q \in Processes /\ q.mem = m /\ q.pc = p.pc /\ q.mode = p.mode /\ q.at = p.at
          /\ q.intent = p.intent /\ q.unresolved = p.unresolved
      BY <1>3, <2>2 DEF Processes
    <2>5. "survey" \in Steps \ (Bare \cup {"rmdir"})
      BY DEF Steps, Bare
    <2>6. Checkpoint(q, "survey")
      BY <1>5
    <2>7. Kin(q) /\ m # None
      BY <1>2, <2>2, <2>3, <2>4, KinOf
    <2>8. r.pc = "survey" /\ Like(r, q)
      BY <2>4, <2>5, Moving
    <2>9. d.state = m /\ d.dir = disk.dir /\ d.intent = disk.intent /\ d.completed = disk.completed
      BY <1>3, <2>4 DEF Directories
    <2> HIDE DEF q, r, d
    <2>10. Placed(r, d)
      BY <1>1, <1>3, <2>2, <2>4, <2>7, <2>8, <2>9
         DEF Placed, ProcessInv, FlightInv, StageInv, ReadInv, NameInv, FieldInv, KeepInv,
             PendingInv, CloseInv, Toward, Commands, Early, Finals, Bare, Blank, Returns, Kin, Like
    <2> QED BY <1>1, <1>2, <2>4, <2>5, <2>6, <2>7, <2>10, Save DEF r, d
  <1>6. (Raise(p) /\ UNCHANGED disk) \/ Checkpoint(q, "survey")
    BY <1>3 DEF CleanNative
  <1> QED BY <1>4, <1>5, <1>6

\* What the cleanup keeps is what it has read; a change of the user is a conflict.
LEMMA SurveyedKeeps ==
  ASSUME Inv, Surveyed
  PROVE  Inv'
  <1> DEFINE c == p.mem.conflict \/ p.cur # p.mem.prefs
             m == [p.mem EXCEPT !.conflict = c]
             q == [p EXCEPT !.mem = m, !.keep = p.cur, !.field = "default"]
             r == [q EXCEPT !.pc = "now"]
  <1>1. p.pc = "surveyed" /\ Quiet /\ UNCHANGED disk /\ Go(q, "now")
    BY DEF Surveyed, At, Calm
  <1>2. p.pc \notin Blank \cup Terminals \cup Open \cup {"rmdir"}
    BY <1>1 DEF Blank, Terminals, Open
  <1>3. /\ p \in Processes /\ p.mem \in States /\ p.intent # None /\ Placed(p, disk) /\ Sound(p.mem)
        /\ disk.completed = None /\ disk.dir
    BY <1>2, Checked, NoTerminal, Working DEF Inv, Good, MindInv, Open
  <1>4. c \in BOOLEAN /\ (p.mem.conflict => c) /\ (~c => p.cur = p.mem.prefs)
    BY <1>3 DEF States
  <1> HIDE DEF c
  <1>5. /\ m \in States /\ m.tried = p.mem.tried /\ m.prefs = p.mem.prefs /\ m.conflict = c
        /\ m.own = p.mem.own /\ m.phase = p.mem.phase /\ m.stage = p.mem.stage
    BY <1>3, <1>4 DEF States
  <1>6. Sound(m)
    BY <1>3, <1>4, <1>5 DEF Sound, OwnsName
  <1> HIDE DEF m
  <1>7. /\ q \in Processes /\ q.mem = m /\ q.pc = p.pc /\ q.mode = p.mode /\ q.at = p.at
        /\ q.intent = p.intent /\ q.unresolved = p.unresolved /\ q.keep = p.cur
        /\ q.field = "default"
    BY <1>3, <1>5 DEF Processes
  <1>8. Kin(q) /\ m # None
    BY <1>2, <1>5, <1>6, <1>7, KinOf
  <1>9. "now" \in Steps
    BY DEF Steps
  <1>10. r.pc = "now" /\ Like(r, q)
    BY <1>7, <1>9, Moving
  <1> HIDE DEF q, r
  <1>11. ~Whole => m.conflict \/ Intact(p.cur)
    BY <1>3, <1>4, <1>5 DEF Sound
  <1>12. Placed(r, disk)
    BY <1>1, <1>3, <1>5, <1>7, <1>8, <1>10, <1>11
       DEF Fields, Placed, ProcessInv, FlightInv, StageInv, ReadInv, NameInv, FieldInv, KeepInv,
           PendingInv, CloseInv, Toward, Commands, Early, Finals, Bare, Blank, Returns, Kin, Like
  <1> QED BY <1>1, <1>2, <1>3, <1>8, <1>9, <1>12, Step DEF r, Bare

LEMMA KeptKeeps ==
  ASSUME Inv, Quiet, p.pc \in {"target", "compare"}, Kept(p)
  PROVE  Inv'
  <1> DEFINE m == [p.mem EXCEPT !.prefs = p.keep]
             q == [p EXCEPT !.mem = m, !.field = "search"]
             next == IF p.field = "default" THEN "now" ELSE "drop"
             r == [q EXCEPT !.pc = next]
             d == [disk EXCEPT !.state = q.mem]
  <1>1. p.pc \notin Blank \cup Terminals \cup Open
    BY DEF Blank, Terminals, Open
  <1>2. /\ p \in Processes /\ p.mem \in States /\ p.intent # None /\ Placed(p, disk) /\ Sound(p.mem)
        /\ disk \in Directories /\ disk.completed = None /\ disk.dir
    BY <1>1, Checked, NoTerminal, Working DEF Inv, Good, MindInv, Open
  <1>3. Checkpoint(q, next)
    BY DEF Kept
  <1>4. next \in {"now", "drop"}
    OBVIOUS
  <1>5. next \in Steps \ (Bare \cup {"rmdir"})
    BY <1>4 DEF Steps, Bare
  <1>6. /\ m \in States /\ m.tried = p.mem.tried /\ m.prefs = p.keep /\ m.conflict = p.mem.conflict
        /\ m.own = p.mem.own /\ m.phase = p.mem.phase /\ m.stage = p.mem.stage
    BY <1>2 DEF States, Processes
  <1>7. ~Whole => p.mem.conflict \/ Intact(p.keep)
    BY <1>2 DEF Placed, KeepInv, Toward
  <1>8. Sound(m)
    BY <1>2, <1>6, <1>7 DEF Sound, OwnsName
  <1> HIDE DEF m, next
  <1>9. /\ q \in Processes /\ q.mem = m /\ q.pc = p.pc /\ q.mode = p.mode /\ q.at = p.at
        /\ q.intent = p.intent /\ q.unresolved = p.unresolved /\ q.keep = p.keep
        /\ q.field = "search"
    BY <1>2, <1>6 DEF Processes
  <1>10. Kin(q) /\ m # None
    BY <1>1, <1>6, <1>8, <1>9, KinOf
  <1>11. r.pc = next /\ Like(r, q)
    BY <1>5, <1>9, Moving
  <1>12. d.state = m /\ d.dir = disk.dir /\ d.intent = disk.intent /\ d.completed = disk.completed
    BY <1>2, <1>9 DEF Directories
  <1> HIDE DEF q, r, d
  <1>13. Placed(r, d)
    BY <1>2, <1>4, <1>6, <1>7, <1>9, <1>10, <1>11, <1>12
       DEF Fields, Placed, ProcessInv, FlightInv, StageInv, ReadInv, NameInv, FieldInv, KeepInv,
           PendingInv, CloseInv, Toward, Commands, Early, Finals, Bare, Blank, Returns, Kin, Like
  <1> QED BY <1>1, <1>3, <1>5, <1>9, <1>10, <1>13, Save DEF r, d

LEMMA CompareKeeps ==
  ASSUME Inv, Compare
  PROVE  Inv'
  <1>1. p.pc = "compare" /\ Quiet
    BY DEF Compare, At
  <1>2. CASE Raise(p) /\ UNCHANGED disk
    BY <1>1, <1>2, KinSelf, Fail DEF Open
  <1> QED BY <1>1, <1>2, KeptKeeps DEF Compare

\* What the cleanup writes is the user's own value, or what it has read without ours.
LEMMA ChooseKeeps ==
  ASSUME Inv, Choose
  PROVE  Inv'
  <1>1. p.pc = "target" /\ Quiet
    BY DEF Choose, At
  <1>2. p.pc \notin Blank \cup Terminals \cup Open \cup {"rmdir"}
    BY <1>1 DEF Blank, Terminals, Open
  <1>3. /\ p \in Processes /\ p.mem \in States /\ p.mem # None /\ p.intent # None /\ p.intent \in Intents
        /\ Placed(p, disk) /\ disk.completed = None /\ disk.dir /\ Kin(p)
        /\ Sound(p.mem) /\ Planned(p.intent)
    BY <1>2, Checked, KinSelf, NoTerminal, Working DEF Inv, Good, MindInv, Open
  <1>4. CASE Raise(p) /\ UNCHANGED disk
    BY <1>1, <1>2, <1>3, <1>4, Fail
  <1>5. CASE Kept(p)
    BY <1>1, <1>5, KeptKeeps
  <1>6. CASE /\ p.cur = p.keep /\ Target # p.cur /\ UNCHANGED disk
             /\ Call([p EXCEPT !.keep = Target], p.field, Target, "readback")
    <2> DEFINE c == [kind |-> p.field, arg |-> Target, ret |-> "readback", rc |-> "none"]
               q == [p EXCEPT !.keep = Target, !.cmd = c]
               r == [q EXCEPT !.pc = "prepare"]
    <2>1. p.cur = prefs /\ p.field \in Fields /\ prefs \in Preferences
      BY <1>1, <1>3 DEF Placed, ReadInv, ProcessInv, Toward, Inv, Sorts
    <2>2. ~Whole => p.mem.conflict \/ Intact(prefs)
      BY <1>1, <1>3, <1>6, <2>1 DEF Placed, KeepInv, Toward
    <2>3. /\ Target \in Preferences /\ Writes(p, disk, p.field, Target)
          /\ ~Whole => p.mem.conflict \/ Intact(Target)
      <3>1. CASE p.field = "default"
        <4>1. prefs.default = "own" /\ Target = [prefs EXCEPT !.default = p.intent.prefs.default]
          BY <1>6, <2>1, <3>1 DEF Target
        <4>2. p.intent.prefs.default = want.prefs.default /\ p.intent.prefs \in Preferences
          BY <1>3, <4>1 DEF Planned, Intents
        <4>3. Target \in Preferences /\ Target.default = want.prefs.default /\ Target.search = prefs.search
          BY <2>1, <4>1, <4>2 DEF Preferences
        <4>4. Writes(p, disk, p.field, Target)
          BY <3>1, <4>3 DEF Writes
        <4> QED BY <2>2, <4>3, <4>4 DEF Intact
      <3>2. CASE p.field = "search"
        <4>1. Target = [prefs EXCEPT !.search = IF "search" \in p.mem.tried /\ prefs.search = {"own"}
                                                THEN p.intent.prefs.search ELSE prefs.search \ {"own"}]
          BY <2>1, <3>2 DEF Target
        <4>2. CASE "search" \in p.mem.tried /\ Hidden
          <5>1. /\ Target \in Preferences /\ Target.search = want.prefs.search
                /\ "orig" \in Target.search
            <6>1. p.intent.prefs \in Preferences /\ p.intent.prefs.search = want.prefs.search
                  /\ "orig" \in p.intent.prefs.search
              BY <1>3, <4>2 DEF Planned, Intents
            <6>2. Target = [prefs EXCEPT !.search = p.intent.prefs.search]
              BY <4>1, <4>2 DEF Hidden
            <6> QED BY <2>1, <6>1, <6>2 DEF Preferences
          <5> QED BY <3>2, <5>1 DEF Writes, Intact
        <4>3. CASE ~("search" \in p.mem.tried /\ Hidden)
          <5>1. ~Hidden
            BY <1>3, <4>3 DEF Sound, Whole, Hidden
          <5>2. /\ Target = [prefs EXCEPT !.search = prefs.search \ {"own"}]
                /\ Target \in Preferences /\ Target.search = prefs.search \ {"own"}
            BY <2>1, <4>1, <5>1 DEF Hidden, Preferences
          <5>3. Intact(prefs) => Intact(Target)
            BY <5>1, <5>2 DEF Intact, Hidden
          <5>4. Writes(p, disk, p.field, Target)
            BY <3>2, <5>1, <5>2 DEF Writes
          <5> QED BY <2>2, <5>2, <5>3, <5>4
        <4> QED BY <4>2, <4>3
      <3> QED BY <2>1, <3>1, <3>2 DEF Fields
    <2>6. "readback" \in Steps /\ "prepare" \in Steps
      BY DEF Steps
    <2>7. c \in Errands /\ c.kind = p.field /\ c.arg = Target /\ c.ret = "readback"
      BY <2>1, <2>3, <2>6 DEF Errands, Kinds, Codes
    <2>8. Go(q, "prepare")
      BY <1>6 DEF Call
    <2> HIDE DEF c
    <2>9. /\ q \in Processes /\ q.mem = p.mem /\ q.pc = p.pc /\ q.mode = p.mode /\ q.at = p.at
          /\ q.intent = p.intent /\ q.unresolved = p.unresolved /\ q.keep = Target
          /\ q.field = p.field /\ q.cmd = c /\ q.inst = p.inst /\ q.back = p.back
      BY <1>3, <2>3, <2>7 DEF Processes
    <2>10. Kin(q)
      BY <1>3, <2>9 DEF Kin
    <2>11. r.pc = "prepare" /\ Like(r, q)
      BY <2>6, <2>9, Moving
    <2> HIDE DEF q, r
    <2>12. Writes(r, disk, r.cmd.kind, r.cmd.arg)
      BY <2>3, <2>7, <2>9, <2>11 DEF Writes, Like
    <2>13. Placed(r, disk)
      BY <1>1, <1>3, <2>1, <2>3, <2>7, <2>9, <2>10, <2>11, <2>12
         DEF Fields, Placed, ProcessInv, FlightInv, StageInv, ReadInv, NameInv, FieldInv, KeepInv,
             PendingInv, CloseInv, Toward, Commands, Early, Finals, Bare, Blank, Returns, Kin, Like
    <2> QED BY <1>1, <1>2, <1>3, <1>6, <2>6, <2>8, <2>10, <2>13, Step DEF r, Bare
  <1> QED BY <1>4, <1>5, <1>6 DEF Choose

\* The process only goes on.
LEMMA Passing ==
  ASSUME Inv, UNCHANGED disk, p.pc \in {"drop", "unchanged", "unlock"},
         NEW next \in {"unlock", "verify", "unlocked"}, Go(p, next)
  PROVE  Good(p', disk', told') /\ p'.pc = next /\ told' # "clean"
  <1> DEFINE r == [p EXCEPT !.pc = next]
  <1>1. Kin(p) /\ p \in Processes /\ p.mem # None /\ p.intent # None /\ Placed(p, disk) /\ disk.dir
        /\ disk.completed = None
    BY KinSelf, Checked, Working, NoTerminal DEF Inv, Good, Blank, Terminals
  <1>2. next \in Steps /\ next \notin Bare \cup {"rmdir"}
    BY DEF Steps, Bare
  <1>3. r.pc = next /\ Like(r, p)
    BY <1>1, <1>2, Moving
  <1> HIDE DEF r
  <1>4. Placed(r, disk)
    BY <1>1, <1>2, <1>3
       DEF Placed, ProcessInv, FlightInv, StageInv, ReadInv, NameInv, FieldInv, KeepInv, PendingInv,
           CloseInv, Toward, Commands, Early, Finals, Bare, Blank, Returns, Kin, Like
  <1>5. Good(p', disk', told') /\ p' = r /\ told' # "clean"
    BY <1>1, <1>2, <1>4, Stepping, Alone DEF Open, r
  <1> QED BY <1>3, <1>5

LEMMA DropKeeps ==
  ASSUME Inv, Drop
  PROVE  Inv'
  <1>1. p.pc = "drop" /\ Quiet /\ UNCHANGED disk
    BY DEF Drop, At, Calm
  <1>2. CASE Raise(p)
    BY <1>1, <1>2, KinSelf, Fail DEF Open
  <1>3. CASE Go(p, "unlock")
    BY <1>1, <1>3, Passing, Still
  <1> QED BY <1>1, <1>2, <1>3, Calling DEF Drop

LEMMA UnchangedKeeps ==
  ASSUME Inv, Unchanged
  PROVE  Inv'
  <1>1. p.pc = "unchanged" /\ Quiet /\ UNCHANGED disk
    BY DEF Unchanged, At, Calm
  <1>2. CASE Raise(p)
    BY <1>1, <1>2, KinSelf, Fail DEF Open
  <1>3. CASE Go(p, "unlock")
    BY <1>1, <1>3, Passing, Still
  <1> QED BY <1>2, <1>3 DEF Unchanged

\* The keychain goes.
LEMMA KeychainGoes ==
  ASSUME Inv, UNCHANGED <<fence, prefs, prof, tool, want>>, Good(p', disk', told'),
         native' \in {native, NoKeychain}
  PROVE  Inv'
  <1>1. Sorts' /\ AccountInv'
    <2>1. NoKeychain \in Keychain
      BY DEF NoKeychain, Keychain
    <2>2. Sorts'
      BY <2>1 DEF Inv, Sorts
    <2> QED BY <2>2 DEF Inv, AccountInv, Whole, Hidden
  <1>2. /\ FlightInv(p, disk)' /\ StageInv(p, disk)' /\ ProcessInv(p)' /\ FieldInv(p)'
        /\ (disk \in Directories)'
    BY DEF Good, Placed, FlightInv, StageInv, ProcessInv, FieldInv
  <1>3. ReadInv(p)' /\ NameInv(p, disk)' /\ KeepInv(p)'
    BY DEF Good, Placed, ReadInv, NameInv, KeepInv, Later, Detached, Whole
  <1>4. PendingInv(p, disk)' /\ CommandInv(p, disk)'
    BY DEF Good, Placed, PendingInv, CommandInv, Writes, Hidden
  <1>5. CloseInv(p)' /\ EndInv(p, disk, told)' /\ FreshInv(p, disk, told)'
    BY DEF Good, Placed, CloseInv, EndInv, FreshInv, Whole, Detached, Owned
  <1>6. MindInv(p, disk)'
    BY DEF Good, MindInv, Sound, Planned, Whole, Hidden
  <1>7. ToolInv(p, disk)'
    BY DEF Good, ToolInv, Lives
  <1> QED BY <1>1, <1>2, <1>3, <1>4, <1>5, <1>6, <1>7 DEF Inv, Good, Placed

LEMMA UnlockKeeps ==
  ASSUME Inv, Unlock
  PROVE  Inv'
  <1>1. p.pc = "unlock" /\ UNCHANGED <<disk, fence, prefs, prof, tool, want>>
    BY DEF Unlock, At
  <1>2. CASE Raise(p) /\ UNCHANGED native
    <2>1. Quiet
      BY <1>1, <1>2 DEF Quiet, account, Unlock
    <2> QED BY <1>1, <1>2, <2>1, KinSelf, Fail DEF Open
  <1>3. CASE native' \in {native, NoKeychain} /\ (Go(p, "verify") \/ Go(p, "unlocked"))
    <2>1. Good(p', disk', told')
      BY <1>1, <1>3, Passing
    <2> QED BY <1>1, <1>3, <2>1, KeychainGoes
  <1> QED BY <1>2, <1>3 DEF Unlock

LEMMA UnlockedKeeps ==
  ASSUME Inv, Unlocked
  PROVE  Inv'
  <1> DEFINE m == [p.mem EXCEPT !.native = NoKeychain]
             q == [p EXCEPT !.mem = m]
             r == [q EXCEPT !.pc = "verify"]
             d == [disk EXCEPT !.state = q.mem]
  <1>1. p.pc = "unlocked" /\ Quiet /\ Checkpoint(q, "verify")
    BY DEF Unlocked, At
  <1>2. p.pc \notin Blank \cup Terminals \cup Open \cup {"rmdir"}
    BY <1>1 DEF Blank, Terminals, Open
  <1>3. /\ p \in Processes /\ p.mem \in States /\ p.intent # None /\ Placed(p, disk) /\ Sound(p.mem)
        /\ disk \in Directories /\ disk.completed = None /\ disk.dir
    BY <1>2, Checked, NoTerminal, Working DEF Inv, Good, MindInv, Open
  <1>4. NoKeychain \in Keychain
    BY DEF NoKeychain, Keychain
  <1>5. /\ m \in States /\ m.tried = p.mem.tried /\ m.prefs = p.mem.prefs
        /\ m.conflict = p.mem.conflict /\ m.own = p.mem.own /\ m.phase = p.mem.phase
        /\ m.stage = p.mem.stage
    BY <1>3, <1>4 DEF States
  <1>6. Sound(m)
    BY <1>3, <1>5 DEF Sound, OwnsName
  <1> HIDE DEF m
  <1>7. /\ q \in Processes /\ q.mem = m /\ q.pc = p.pc /\ q.mode = p.mode /\ q.at = p.at
        /\ q.intent = p.intent /\ q.unresolved = p.unresolved
    BY <1>3, <1>5 DEF Processes
  <1>8. Kin(q) /\ m # None
    BY <1>2, <1>5, <1>6, <1>7, KinOf
  <1>9. "verify" \in Steps \ (Bare \cup {"rmdir"})
    BY DEF Steps, Bare
  <1>10. r.pc = "verify" /\ Like(r, q)
    BY <1>7, <1>9, Moving
  <1>11. d.state = m /\ d.dir = disk.dir /\ d.intent = disk.intent /\ d.completed = disk.completed
    BY <1>3, <1>7 DEF Directories
  <1> HIDE DEF q, r, d
  <1>12. Placed(r, d)
    BY <1>1, <1>3, <1>5, <1>7, <1>8, <1>10, <1>11
       DEF Placed, ProcessInv, FlightInv, StageInv, ReadInv, NameInv, FieldInv, KeepInv, PendingInv,
           CloseInv, Toward, Commands, Early, Finals, Bare, Blank, Returns, Kin, Like
  <1> QED BY <1>1, <1>2, <1>7, <1>8, <1>9, <1>12, Save DEF r, d

LEMMA VerifiedKeeps ==
  ASSUME Inv, Verified
  PROVE  Inv'
  <1>1. p.pc = "verified" /\ Quiet /\ UNCHANGED disk
    BY DEF Verified, At, Calm
  <1>2. p.pc \notin Blank \cup Terminals \cup Open \cup {"rmdir"}
    BY <1>1 DEF Blank, Terminals, Open
  <1>3. /\ p \in Processes /\ p.mem # None /\ p.intent # None /\ Placed(p, disk) /\ Kin(p)
        /\ disk.completed = None /\ disk.dir
    BY <1>2, Checked, KinSelf, NoTerminal, Working DEF Inv, Good, Open
  <1>4. CASE Raise(p)
    BY <1>1, <1>2, <1>3, <1>4, Fail
  <1>5. CASE Go([p EXCEPT !.at = "undo"], "undo")
    <2> DEFINE q == [p EXCEPT !.at = "undo"]
               r == [q EXCEPT !.pc = "undo"]
    <2>1. "undo" \in Steps /\ "undo" \in Places
      BY DEF Steps, Places
    <2>2. /\ q \in Processes /\ q.mem = p.mem /\ q.pc = p.pc /\ q.mode = p.mode /\ q.at = "undo"
          /\ q.intent = p.intent /\ q.unresolved = p.unresolved /\ q.inst = p.inst
      BY <1>3, <2>1 DEF Processes
    <2>3. Kin(q)
      BY <1>1, <1>3, <2>2 DEF Kin, Finals
    <2>4. r.pc = "undo" /\ Like(r, q)
      BY <2>1, <2>2, Moving
    <2>5. Go(q, "undo")
      BY <1>5
    <2> HIDE DEF q, r
    <2>6. Placed(r, disk)
      BY <1>1, <1>3, <2>2, <2>3, <2>4
         DEF Placed, ProcessInv, FlightInv, StageInv, ReadInv, NameInv, FieldInv, KeepInv,
             PendingInv, CloseInv, Toward, Commands, Early, Finals, Bare, Blank, Returns, Kin, Like
    <2> QED BY <1>1, <1>2, <1>3, <2>1, <2>3, <2>5, <2>6, Step DEF r, Bare
  <1>6. CASE p.mode # "normal" /\ Go([p EXCEPT !.back = "finish"], "stage")
    <2> DEFINE q == [p EXCEPT !.back = "finish"]
               r == [q EXCEPT !.pc = "stage"]
    <2>1. "stage" \in Steps /\ "finish" \in Backs /\ p.mode = "recovery"
      BY <1>1, <1>3, <1>6 DEF Steps, Backs, Placed, ProcessInv, Processes
    <2>2. /\ q \in Processes /\ q.mem = p.mem /\ q.pc = p.pc /\ q.mode = p.mode /\ q.at = p.at
          /\ q.intent = p.intent /\ q.unresolved = p.unresolved /\ q.inst = p.inst
          /\ q.back = "finish"
      BY <1>3, <2>1 DEF Processes
    <2>3. Kin(q)
      BY <1>1, <1>3, <2>2 DEF Kin, Finals
    <2>4. r.pc = "stage" /\ Like(r, q)
      BY <2>1, <2>2, Moving
    <2>5. Go(q, "stage")
      BY <1>6
    <2> HIDE DEF q, r
    <2>6. Placed(r, disk)
      BY <1>1, <1>3, <2>1, <2>2, <2>3, <2>4
         DEF Placed, ProcessInv, FlightInv, StageInv, ReadInv, NameInv, FieldInv, KeepInv,
             PendingInv, CloseInv, Toward, Commands, Early, Finals, Bare, Blank, Returns, Kin, Like
    <2> QED BY <1>1, <1>2, <1>3, <2>1, <2>3, <2>5, <2>6, Step DEF r, Bare
  <1> QED BY <1>4, <1>5, <1>6 DEF Verified

\* The installer takes back its files, or gives up and says so.
LEMMA UndoKeeps ==
  ASSUME Inv, Undo
  PROVE  Inv'
  <1> DEFINE i == p.inst
             next == IF p.at = "install" THEN "cleanup" ELSE "close"
             mine == i.tried /\ ~i.reused /\ "name" \notin i.conflicts
             staged == i.made /\ "stage" \notin i.conflicts
             moved == \/ i.reused /\ prof.name # "same"
                      \/ mine /\ i.linked /\ prof.name \in {"same", "diff"}
             after == [name |-> IF mine /\ prof.name = "own" THEN "none" ELSE prof.name,
                       stage |-> IF staged THEN "none" ELSE prof.stage]
             bad == p.bad \/ i.conflicts # {} \/ moved
             spoilt == p.profileConflict \/ moved
             q == [p EXCEPT !.inst = NoInstaller, !.bad = bad, !.profileConflict = spoilt]
             s == [p EXCEPT !.inst = NoInstaller, !.bad = TRUE]
  <1>1. p.pc = "undo" /\ UNCHANGED <<disk, fence, native, prefs, tool, want>>
    BY DEF Undo, At
  <1>2. Kin(p) /\ p \in Processes /\ disk.dir /\ disk.completed = None /\ Placed(p, disk)
        /\ ToolInv(p, disk) /\ CommandInv(p, disk) /\ prof \in Profile
    BY <1>1, KinSelf, Working, NoTerminal DEF Inv, Good, Terminals, Sorts
  <1>3. next \in {"cleanup", "close"}
    OBVIOUS
  <1>4. \/ UNCHANGED prof /\ ~p.inst.active /\ Go(p, next)
        \/ UNCHANGED prof /\ Retain /\ Go(s, next)
        \/ prof' = after /\ ~Retain /\ p.inst.active /\ (Go(q, next) \/ Go(q, "undone"))
    BY DEF Undo
  <1>5. after \in Profile /\ after.stage \in {prof.stage, "none"}
        /\ (after.name = prof.name \/ (prof.name = "own" /\ after.name = "none"))
    BY <1>2 DEF Profile
  <1>6. bad \in BOOLEAN /\ spoilt \in BOOLEAN
    BY <1>2, Zenon DEF Processes
  <1>7. NoInstaller \in Installers /\ ~NoInstaller.active
    BY DEF NoInstaller, Installers
  <1>8. ASSUME NEW u \in Processes, u.mem = p.mem, u.pc = p.pc, u.mode = p.mode, u.at = p.at,
               u.intent = p.intent, u.unresolved = p.unresolved,
               p.mem = None => ~u.inst.active,
               NEW step \in {"cleanup", "close", "undone"}, Go(u, step),
               step = "undone" => ~Lives /\ p.mem # None
        PROVE  Good(p', disk', told') /\ told' # "clean" /\ p'.pc = step
    <2> DEFINE r == [u EXCEPT !.pc = step]
    <2>1. Kin(u)
      BY <1>1, <1>2, <1>8 DEF Kin, Finals
    <2>2. step \in Steps /\ step \notin Bare \cup {"rmdir"}
      BY DEF Steps, Bare
    <2>3. r.pc = step /\ Like(r, u)
      BY <2>2, Moving
    <2> HIDE DEF r
    <2>4. Placed(r, disk)
      BY <1>1, <1>2, <1>8, <2>1, <2>2, <2>3
         DEF Placed, ProcessInv, FlightInv, StageInv, ReadInv, NameInv, FieldInv, KeepInv,
             PendingInv, CloseInv, Toward, Commands, Early, Finals, Bare, Blank, Returns, Kin, Like
    <2>5. ToolInv(r, disk) /\ CommandInv(r, disk)
      BY <1>1, <1>2, <1>8, <2>3, IdleFields DEF ToolInv, CommandInv, Writes, Lives, Like
    <2>6. Good(p', disk', told') /\ p' = r /\ told' # "clean"
      BY <1>1, <1>2, <1>8, <2>1, <2>2, <2>4, <2>5, Going DEF r
    <2> QED BY <2>3, <2>6
  <1>9. p.mem = None => ~p.inst.active
    BY <1>2 DEF Placed, ProcessInv
  <1>10. ~Retain => ~Lives
    BY <1>1, <1>2, IdleFields DEF ToolInv, Retain
  <1> HIDE DEF next, after, bad, spoilt
  <1>11. CASE UNCHANGED prof /\ ~p.inst.active /\ Go(p, next)
    <2>1. Good(p', disk', told')
      BY <1>2, <1>3, <1>8, <1>9, <1>11
    <2> QED BY <1>1, <1>11, <2>1, Still DEF Quiet, account, Undo
  <1>12. CASE UNCHANGED prof /\ Go(s, next)
    <2>1. /\ s \in Processes /\ s.mem = p.mem /\ s.pc = p.pc /\ s.mode = p.mode /\ s.at = p.at
          /\ s.intent = p.intent /\ s.unresolved = p.unresolved /\ s.inst = NoInstaller
      BY <1>2, <1>7 DEF Processes
    <2> HIDE DEF s
    <2>2. Good(p', disk', told')
      BY <1>3, <1>7, <1>8, <1>12, <2>1
    <2> QED BY <1>1, <1>12, <2>2, Still DEF Quiet, account, Undo
  <1>13. CASE prof' = after /\ ~Retain /\ p.inst.active /\ (Go(q, next) \/ Go(q, "undone"))
    <2>1. /\ q \in Processes /\ q.mem = p.mem /\ q.pc = p.pc /\ q.mode = p.mode /\ q.at = p.at
          /\ q.intent = p.intent /\ q.unresolved = p.unresolved /\ q.inst = NoInstaller
      BY <1>2, <1>6, <1>7 DEF Processes
    <2> HIDE DEF q
    <2>2. Good(p', disk', told') /\ told' # "clean"
      BY <1>3, <1>7, <1>8, <1>9, <1>10, <1>13, <2>1
    <2> QED BY <1>1, <1>5, <1>13, <2>2, ProfileMoves
  <1> QED BY <1>4, <1>11, <1>12, <1>13

\* A link intent is resolved for good: what it may have linked is ours.
LEMMA UndoneKeeps ==
  ASSUME Inv, Undone
  PROVE  Inv'
  <1> DEFINE own == p.mem.own \/ (p.mem.phase = "link-intent" /\ p.mem.stage)
             m == [p.mem EXCEPT !.own = own, !.phase = "resolved"]
             q == [p EXCEPT !.mem = m]
             next == IF p.at = "install" THEN "cleanup" ELSE "close"
             r == [q EXCEPT !.pc = next]
             d == [disk EXCEPT !.state = q.mem]
  <1>1. p.pc = "undone" /\ Quiet
    BY DEF Undone, At
  <1>2. p.pc \notin Blank \cup Terminals \cup Open \cup {"rmdir"}
    BY <1>1 DEF Blank, Terminals, Open
  <1>3. /\ p \in Processes /\ p.mem \in States /\ p.intent # None /\ Placed(p, disk) /\ Sound(p.mem)
        /\ disk \in Directories /\ disk.completed = None /\ disk.dir
    BY <1>2, Checked, NoTerminal, Working DEF Inv, Good, MindInv, Open
  <1>4. Checkpoint(q, next)
    <2>1. Resolve(p) = q
      BY <1>3 DEF Resolve, Processes, States
    <2> QED BY <2>1 DEF Undone
  <1>5. own \in BOOLEAN /\ (OwnsName(p.mem) => own)
    BY <1>3 DEF States, OwnsName
  <1> HIDE DEF own
  <1>6. /\ m \in States /\ m.tried = p.mem.tried /\ m.prefs = p.mem.prefs
        /\ m.conflict = p.mem.conflict /\ m.own = own
    BY <1>3, <1>5 DEF States
  <1>7. Sound(m)
    BY <1>3, <1>5, <1>6 DEF Sound, OwnsName
  <1> HIDE DEF m
  <1>8. /\ q \in Processes /\ q.mem = m /\ q.pc = p.pc /\ q.mode = p.mode /\ q.at = p.at
        /\ q.intent = p.intent /\ q.unresolved = p.unresolved
    BY <1>3, <1>6 DEF Processes
  <1>9. Kin(q) /\ m # None
    BY <1>2, <1>6, <1>7, <1>8, KinOf
  <1>10. next \in {"cleanup", "close"}
    OBVIOUS
  <1>11. next \in Steps \ (Bare \cup {"rmdir"})
    BY <1>10 DEF Steps, Bare
  <1>12. r.pc = next /\ Like(r, q)
    BY <1>8, <1>11, Moving
  <1>13. d.state = m /\ d.dir = disk.dir /\ d.intent = disk.intent /\ d.completed = disk.completed
    BY <1>3, <1>8 DEF Directories
  <1> HIDE DEF q, r, d, next
  <1>14. Placed(r, d)
    BY <1>1, <1>3, <1>6, <1>8, <1>9, <1>10, <1>12, <1>13
       DEF Placed, ProcessInv, FlightInv, StageInv, ReadInv, NameInv, FieldInv, KeepInv, PendingInv,
           CloseInv, Toward, Commands, Early, Finals, Bare, Blank, Returns, Kin, Like
  <1> QED BY <1>1, <1>2, <1>4, <1>8, <1>9, <1>11, <1>14, Save DEF r, d

\* A session with an unresolved command is left for a recovery.
LEMMA CloseKeeps ==
  ASSUME Inv, Close
  PROVE  Inv'
  <1>1. p.pc = "close" /\ Quiet /\ UNCHANGED disk
    BY DEF Close, At, Calm
  <1>2. Kin(p) /\ p \in Processes /\ disk.dir /\ disk.completed = None /\ Placed(p, disk)
        /\ ToolInv(p, disk) /\ CommandInv(p, disk) /\ disk \in Directories
    BY <1>1, KinSelf, Working, NoTerminal DEF Inv, Good, Terminals
  <1>3. CASE End("failed")
    <2>1. ToolInv(Idle, disk) /\ CommandInv(Idle, disk)
      BY <1>2, IdleFields DEF ToolInv, CommandInv, Writes, Lives
    <2>2. Good(p', disk', told')
      BY <1>1, <1>2, <1>3, <2>1, Stopped DEF End
    <2> QED BY <1>1, <2>2, Still
  <1>4. ASSUME ~Lives, NEW back \in {"finish", p.back},
               NEW next \in {"unstarted", "stage"}, Go([p EXCEPT !.at = "finish", !.back = back], next),
               next = "stage" => back = "finish" /\ p.mem # None,
               next = "unstarted" => p.mem = None
        PROVE  Inv'
    <2> DEFINE q == [p EXCEPT !.at = "finish", !.back = back]
               r == [q EXCEPT !.pc = next]
    <2>1. next \in Steps /\ "finish" \in Places /\ back \in Backs /\ next \notin Bare \cup {"rmdir"}
      BY <1>2 DEF Steps, Places, Backs, Processes, Bare
    <2>2. /\ q \in Processes /\ q.mem = p.mem /\ q.pc = p.pc /\ q.mode = p.mode /\ q.at = "finish"
          /\ q.intent = p.intent /\ q.unresolved = p.unresolved /\ q.inst = p.inst /\ q.back = back
      BY <1>2, <2>1 DEF Processes
    <2>3. Kin(q)
      BY <1>1, <1>2, <2>2 DEF Kin
    <2>4. r.pc = next /\ Like(r, q)
      BY <2>1, <2>2, Moving
    <2>5. Go(q, next)
      BY <1>4
    <2> HIDE DEF q, r
    <2>6. Placed(r, disk)
      BY <1>1, <1>2, <1>4, <2>2, <2>3, <2>4
         DEF Placed, ProcessInv, FlightInv, StageInv, ReadInv, NameInv, FieldInv, KeepInv,
             PendingInv, CloseInv, Toward, Commands, Early, Finals, Bare, Blank, Returns, Kin, Like
    <2>7. Good(p', disk', told')
      BY <1>1, <1>2, <1>4, <2>1, <2>3, <2>5, <2>6, Stepping DEF r
    <2> QED BY <1>1, <2>7, Still
  <1>5. CASE ~Retain /\ (p.intent = None \/ p.mem = None) /\ Go([p EXCEPT !.at = "finish"], "unstarted")
    <2>1. ~Lives /\ p.mem = None
      BY <1>1, <1>2, <1>5, IdleFields DEF ToolInv, Retain, Placed, ProcessInv
    <2>2. [p EXCEPT !.at = "finish", !.back = p.back] = [p EXCEPT !.at = "finish"]
      BY <1>2 DEF Processes
    <2> QED BY <1>4, <1>5, <2>1, <2>2
  <1>6. CASE ~Retain /\ p.mem # None /\ Go([p EXCEPT !.at = "finish", !.back = "finish"], "stage")
    <2>1. ~Lives
      BY <1>1, <1>2, <1>6, IdleFields DEF ToolInv, Retain
    <2> QED BY <1>4, <1>6, <2>1
  <1> QED BY <1>3, <1>5, <1>6 DEF Close

LEMMA CleanUpKeeps ==
  ASSUME Inv, CleanUp
  PROVE  Inv'
  BY CleanupKeeps, CleanNativeKeeps, SurveyedKeeps, ChooseKeeps, CompareKeeps, DropKeeps, UnchangedKeeps,
     UnlockKeeps, UnlockedKeeps, VerifiedKeeps, UndoKeeps, UndoneKeeps, CloseKeeps, LooksKeep
     DEF CleanUp

-----------------------------------------------------------------------------
(* The end: the profile, the terminal copy, the controls.                  *)

\* The files of the profile go.
LEMMA Leaving ==
  ASSUME Inv, p.pc \in {"stage", "name"}, UNCHANGED <<disk, fence, native, prefs, tool, want, told>>,
         prof' \in Profile, prof'.stage \in {prof.stage, "none"},
         prof'.name = prof.name \/ (prof.name = "own" /\ prof'.name = "none"),
         NEW q, Kin(q), q.mem # None, q.back = p.back, p.mem.conflict => q.mem.conflict,
         NEW next \in {"name", "named", "scrap"}, next = "scrap" => p.back = "terminal",
         next = "named" => p.back # "terminal", p' = [q EXCEPT !.pc = next], CloseInv(p)'
  PROVE  Inv'
  <1> DEFINE r == [q EXCEPT !.pc = next]
  <1>1. /\ p \in Processes /\ p.mem # None /\ p.intent # None /\ Placed(p, disk) /\ disk.dir /\ ~Lives
        /\ disk \in Directories /\ told # "clean" /\ tool.life = "none"
    BY Checked, Working, Alone DEF Inv, Good, Blank, Open, Lives
  <1>2. next \in Steps
    BY DEF Steps
  <1>3. r.pc = next /\ Like(r, q) /\ p' = r
    BY <1>2, Moving DEF Kin
  <1> HIDE DEF r
  <1>4. Sorts' /\ AccountInv'
    BY DEF Inv, Sorts, AccountInv, Whole, Hidden, Profile, Names
  <1>5. ProcessInv(r) /\ StageInv(r, disk)
    BY <1>1, <1>3
       DEF Placed, ProcessInv, StageInv, Toward, Commands, Finals, Bare, Blank, Returns, Kin, Like
  <1>6. ProcessInv(p)' /\ StageInv(p, disk)' /\ (disk \in Directories)'
    <2>1. ProcessInv(p)'
      BY <1>3, <1>5 DEF ProcessInv, Toward
    <2>2. StageInv(p', disk')
      BY <1>3, <1>5
    <2>3. (disk \in Directories)'
      BY <1>1 DEF Directories
    <2> QED BY <2>1, <2>2, <2>3 DEF StageInv
  <1>7. FlightInv(p, disk)' /\ ReadInv(p)' /\ NameInv(p, disk)' /\ FieldInv(p)' /\ KeepInv(p)'
        /\ PendingInv(p, disk)'
    BY <1>3 DEF FlightInv, ReadInv, NameInv, FieldInv, KeepInv, PendingInv, Toward, Commands, Early
  <1>8. ToolInv(p, disk)' /\ CommandInv(p, disk)'
    BY <1>1 DEF Inv, Good, ToolInv, CommandInv, Lives
  <1>9. MindInv(p, disk)'
    BY <1>3 DEF Inv, Good, MindInv, Sound, Planned, Whole, Hidden, Kin, Like
  <1>10. FreshInv(p, disk, told)' /\ EndInv(p, disk, told)'
    <2>1. FreshInv(p, disk, told) /\ EndInv(p, disk, told)
      BY DEF Inv, Good
    <2> QED BY <1>1, <1>3, <2>1 DEF FreshInv, EndInv, Bare, Whole, Owned, Detached, Like
  <1> QED BY <1>4, <1>6, <1>7, <1>8, <1>9, <1>10 DEF Inv, Good, Placed

LEMMA StageKeeps ==
  ASSUME Inv, Stage
  PROVE  Inv'
  <1>1. p.pc = "stage" /\ UNCHANGED <<disk, fence, native, prefs, tool, want>>
    BY DEF Stage, At
  <1>2. Kin(p) /\ p.mem # None /\ CloseInv(p) /\ prof \in Profile
    BY <1>1, KinSelf, Checked DEF Blank, Inv, Good, Placed, Sorts
  <1>3. CASE Raise(p) /\ UNCHANGED prof
    <2>1. Quiet
      BY <1>1, <1>3 DEF Quiet, account, Stage
    <2> QED BY <1>1, <1>2, <1>3, <2>1, Fail DEF Open
  <1>4. CASE Go(p, "name") /\ prof' = [prof EXCEPT !.stage = "none"]
    <2>1. prof' \in Profile /\ prof'.stage = "none" /\ prof'.name = prof.name
      BY <1>2, <1>4 DEF Profile
    <2>2. p' = [p EXCEPT !.pc = "name"] /\ told' = told
      BY <1>4 DEF Go
    <2>3. p'.pc = "name" /\ p'.back = p.back /\ p'.mem = p.mem
      BY <1>2, <2>2 DEF Kin, Processes
    <2>4. CloseInv(p)'
      BY <1>1, <1>2, <2>1, <2>3 DEF CloseInv, Detached, Whole
    <2> QED BY <1>1, <1>2, <2>1, <2>2, <2>4, Leaving
  <1> QED BY <1>3, <1>4 DEF Stage, Unless

\* A name that is ours goes; any other stays, and is a conflict where ours should be.
LEMMA NameKeeps ==
  ASSUME Inv, Name
  PROVE  Inv'
  <1> DEFINE own == p.mem.own \/ (p.mem.phase = "link-intent" /\ p.mem.stage)
             borrowed == IF p.mem.borrowed # "none" THEN p.mem.borrowed ELSE p.intent.before
             conflict == p.mem.conflict \/ (borrowed # "none" /\ prof.name # borrowed)
                                        \/ (own /\ prof.name \in {"same", "diff"})
             m == [p.mem EXCEPT !.own = own, !.phase = "resolved", !.conflict = conflict]
             q == [p EXCEPT !.mem = m]
             next == IF p.back = "terminal" THEN "scrap" ELSE "named"
  <1>1. p.pc = "name" /\ UNCHANGED <<disk, fence, native, prefs, tool, want>>
    BY DEF Name, At
  <1>2. /\ Kin(p) /\ p \in Processes /\ p.mem # None /\ p.mem \in States /\ CloseInv(p) /\ prof \in Profile
        /\ Sound(p.mem)
    BY <1>1, KinSelf, Checked DEF Blank, Inv, Good, Placed, Sorts, MindInv
  <1>3. CASE Raise(p) /\ UNCHANGED prof
    <2>1. Quiet
      BY <1>1, <1>3 DEF Quiet, account, Name
    <2> QED BY <1>1, <1>2, <1>3, <2>1, Fail DEF Open
  <1>4. CASE /\ Go(q, next)
             /\ prof' = IF own /\ prof.name = "own" THEN [prof EXCEPT !.name = "none"] ELSE prof
    <2>1. own \in BOOLEAN /\ (OwnsName(p.mem) <=> own)
      BY <1>2 DEF States, OwnsName
    <2>2. conflict \in BOOLEAN /\ (p.mem.conflict => conflict)
      BY <1>2 DEF States
    <2>3. prof' \in Profile /\ prof'.stage = prof.stage /\ prof'.name # "own"
          /\ (prof'.name = prof.name \/ (prof.name = "own" /\ prof'.name = "none"))
      BY <1>2, <1>4, <2>1 DEF Profile, Sound
    <2> HIDE DEF own, conflict
    <2>4. /\ m \in States /\ m.tried = p.mem.tried /\ m.prefs = p.mem.prefs
          /\ m.conflict = conflict /\ m.own = own
      BY <1>2, <2>1, <2>2 DEF States
    <2>5. Sound(m) /\ m # None
      BY <1>2, <2>1, <2>2, <2>4, NoneIsNoRecord DEF Sound, OwnsName
    <2> HIDE DEF m
    <2>6. /\ q \in Processes /\ q.mem = m /\ q.pc = p.pc /\ q.mode = p.mode /\ q.at = p.at
          /\ q.intent = p.intent /\ q.unresolved = p.unresolved /\ q.back = p.back
      BY <1>2, <2>4 DEF Processes
    <2>7. Kin(q)
      BY <1>2, <2>5, <2>6 DEF Kin
    <2>8. p' = [q EXCEPT !.pc = next] /\ told' = told
      BY <1>4 DEF Go
    <2>9. /\ next \in {"named", "scrap"} /\ (next = "scrap" => p.back = "terminal")
          /\ (next = "named" => p.back # "terminal") /\ next \in Steps
      BY DEF Steps
    <2> HIDE DEF q, next
    <2>10. p'.pc = next /\ p'.back = p.back /\ p'.mem = m
      BY <2>6, <2>8, <2>9 DEF Processes
    <2>11. CloseInv(p)'
      BY <1>1, <1>2, <2>2, <2>3, <2>4, <2>9, <2>10 DEF CloseInv, Detached, Whole
    <2> QED BY <1>1, <1>2, <2>2, <2>3, <2>4, <2>5, <2>6, <2>7, <2>8, <2>9, <2>11, Leaving
  <1>5. \/ Raise(p) /\ UNCHANGED prof
        \/ /\ Go(q, next)
           /\ prof' = IF own /\ prof.name = "own" THEN [prof EXCEPT !.name = "none"] ELSE prof
    BY DEF Name, Unless
  <1> QED BY <1>3, <1>4, <1>5

\* The checkpoint in memory is written as it is.
LEMMA Rewriting ==
  ASSUME Inv, Quiet, p.pc \in {"named", "rewrite", "resumed"}, NEW next, Checkpoint(p, next),
         \/ p.pc = "named" /\ next = p.back
         \/ p.pc = "rewrite" /\ next = "stage" /\ p.back = "finish"
         \/ p.pc \in {"rewrite", "resumed"} /\ next = "native"
  PROVE  Inv'
  <1> DEFINE r == [p EXCEPT !.pc = next]
             d == [disk EXCEPT !.state = p.mem]
  <1>1. p.pc \notin Blank \cup Terminals \cup Open \cup {"rmdir", "idle"}
    BY DEF Blank, Terminals, Open
  <1>2. /\ p \in Processes /\ p.mem \in States /\ p.mem # None /\ p.intent # None /\ Placed(p, disk)
        /\ disk \in Directories /\ disk.completed = None /\ disk.dir /\ Kin(p)
    BY <1>1, Checked, KinSelf, NoTerminal, Working DEF Inv, Good, MindInv, Open
  <1>3. next \in {"finish", "complete", "stage", "native"}
    BY <1>2 DEF Placed, StageInv
  <1>4. next \in Steps \ (Bare \cup {"rmdir"})
    BY <1>3 DEF Steps, Bare
  <1>5. r.pc = next /\ Like(r, p)
    BY <1>2, <1>4, Moving
  <1>6. d.state = p.mem /\ d.dir = disk.dir /\ d.intent = disk.intent /\ d.completed = disk.completed
    BY <1>2 DEF Directories
  <1> HIDE DEF r, d
  <1>7. Placed(r, d)
    BY <1>2, <1>3, <1>5, <1>6
       DEF Placed, ProcessInv, FlightInv, StageInv, ReadInv, NameInv, FieldInv, KeepInv, PendingInv,
           CloseInv, Toward, Commands, Early, Finals, Bare, Blank, Returns, Kin, Like
  <1> QED BY <1>1, <1>2, <1>4, <1>7, Save DEF r, d

\* Nothing of the session may be in the account, and the verdict is a true one.
LEMMA FinishingKeeps ==
  ASSUME Inv, Finishing
  PROVE  Inv'
  <1> DEFINE c == p.mem.conflict \/ p.cur # p.mem.prefs
             m == [p.mem EXCEPT !.conflict = c, !.prefs = p.cur]
             q == [p EXCEPT !.mem = m, !.back = "complete"]
             r == [q EXCEPT !.pc = "stage"]
  <1>1. p.pc = "finishing" /\ Quiet /\ UNCHANGED disk
    BY DEF Finishing, At, Calm
  <1>2. p.pc \notin Blank \cup Terminals \cup Open \cup {"rmdir", "idle"}
    BY <1>1 DEF Blank, Terminals, Open
  <1>3. /\ p \in Processes /\ p.mem \in States /\ p.mem # None /\ p.intent # None /\ Placed(p, disk)
        /\ disk.completed = None /\ disk.dir /\ Kin(p) /\ Sound(p.mem) /\ AccountInv
    BY <1>2, Checked, KinSelf, NoTerminal, Working DEF Inv, Good, MindInv, Open
  <1>4. CASE Raise(p)
    BY <1>1, <1>2, <1>3, <1>4, Fail
  <1>5. CASE native = NoKeychain /\ Detached(p.cur) /\ Go(q, "stage")
    <2>1. Later(p.cur)
      BY <1>1, <1>3 DEF Placed, ReadInv
    <2>2. Detached(prefs)
      BY <1>5, <2>1 DEF Later
    <2>3. c \in BOOLEAN /\ (p.mem.conflict => c) /\ (~c => ~p.mem.conflict /\ p.cur = p.mem.prefs)
      BY <1>3 DEF States
    <2>4. ~c => Whole
      <3>1. SUFFICES ASSUME ~c, ~Whole
                     PROVE  FALSE
        OBVIOUS
      <3>2. Intact(p.cur)
        BY <1>3, <2>3, <3>1 DEF Sound
      <3>3. "orig" \in p.cur.search
        BY <1>5, <3>2 DEF Intact, Detached
      <3>4. "orig" \in prefs.search
        BY <2>1, <3>3 DEF Later
      <3>5. ~Hidden
        BY <2>2 DEF Hidden, Detached
      <3> QED BY <1>3, <3>1, <3>4, <3>5 DEF AccountInv
    <2> HIDE DEF c
    <2>5. /\ m \in States /\ m.tried = p.mem.tried /\ m.conflict = c
          /\ m.own = p.mem.own /\ m.phase = p.mem.phase /\ m.stage = p.mem.stage
      BY <1>3, <2>3 DEF States, Processes
    <2>6. Sound(m) /\ m # None
      BY <1>3, <2>3, <2>4, <2>5, NoneIsNoRecord DEF Sound, OwnsName
    <2> HIDE DEF m
    <2>7. "stage" \in Steps /\ "complete" \in Backs
      BY DEF Steps, Backs
    <2>8. /\ q \in Processes /\ q.mem = m /\ q.pc = p.pc /\ q.mode = p.mode /\ q.at = p.at
          /\ q.intent = p.intent /\ q.unresolved = p.unresolved /\ q.back = "complete"
      BY <1>3, <2>5, <2>7 DEF Processes
    <2>9. Kin(q)
      BY <1>3, <2>6, <2>8 DEF Kin
    <2>10. r.pc = "stage" /\ Like(r, q)
      BY <2>7, <2>8, Moving
    <2>11. Go(q, "stage")
      BY <1>5
    <2> HIDE DEF q, r
    <2>12. Placed(r, disk)
      BY <1>1, <1>3, <1>5, <2>2, <2>4, <2>5, <2>6, <2>8, <2>9, <2>10
         DEF Placed, ProcessInv, FlightInv, StageInv, ReadInv, NameInv, FieldInv, KeepInv,
             PendingInv, CloseInv, Toward, Commands, Early, Finals, Bare, Blank, Returns, Kin, Like
    <2> QED BY <1>1, <1>2, <1>3, <2>7, <2>9, <2>11, <2>12, Step DEF r, Bare
  <1>6. Raise(p) \/ (native = NoKeychain /\ Detached(p.cur) /\ Go(q, "stage"))
    BY DEF Finishing, Unless
  <1> QED BY <1>4, <1>5, <1>6

LEMMA CompleteKeeps ==
  ASSUME Inv, Complete
  PROVE  Inv'
  <1> DEFINE c == [intent |-> p.intent, state |-> p.mem]
             d == [disk EXCEPT !.completed = c]
             e == [disk EXCEPT !.pending = @ \cup {"completed"}]
             r == [p EXCEPT !.pc = "terminal"]
  <1>1. p.pc = "complete" /\ Quiet /\ Write(p, "completed", d, "terminal")
    BY DEF Complete, At
  <1>2. p.pc \notin Blank \cup Terminals \cup Open \cup {"rmdir", "idle"}
    BY <1>1 DEF Blank, Terminals, Open
  <1>3. /\ p \in Processes /\ p.mem \in States /\ p.mem # None /\ p.intent # None /\ Placed(p, disk)
        /\ p.intent \in Intents /\ disk \in Directories /\ disk.completed = None /\ disk.dir /\ Kin(p)
        /\ Sound(p.mem) /\ Planned(p.intent) /\ ~Lives /\ told # "clean" /\ disk.intent = p.intent
    BY <1>2, Checked, KinSelf, NoTerminal, Working, Alone DEF Inv, Good, MindInv, Open, Kin
  <1>4. ~Owned /\ (~p.mem.conflict => Whole)
    BY <1>1, <1>3 DEF Placed, StageInv, CloseInv, Owned
  <1>5. c \in [intent : Intents, state : States] /\ c # None /\ c.intent = p.intent /\ c.state = p.mem
    BY <1>3, NoneIsNoRecord
  <1> HIDE DEF c
  <1>6. d \in Directories /\ d.completed = c /\ d.state = disk.state /\ d.intent = disk.intent /\ d.dir
    BY <1>3, <1>5 DEF Directories
  <1>7. /\ e \in Directories /\ e.completed = disk.completed /\ e.state = disk.state
        /\ e.intent = disk.intent /\ e.dir
    BY <1>3 DEF Directories
  <1>8. \/ disk' = d /\ p' = r /\ told' = told
        \/ Fallen(p', told', p) /\ disk' \in {disk, d, e}
    BY <1>1, <1>3, <1>6, WritingFields
  <1>9. "terminal" \in Steps
    BY DEF Steps
  <1>10. r.pc = "terminal" /\ Like(r, p)
    BY <1>3, <1>9, Moving
  <1> HIDE DEF d, e, r
  <1>11. Fallen(p', told', p) => p' = Idle /\ told' = "failed"
    BY <1>1, <1>3 DEF Fallen, Kin, Finals
  <1>12. ASSUME NEW s, NEW t, (s = Idle /\ t = "failed") \/ (s = r /\ t = told)
         PROVE  Good(s, d, t)
    <2>1. ToolInv(s, d) /\ CommandInv(s, d)
      BY <1>3 DEF ToolInv, CommandInv, Lives, Inv, Good
    <2>2. MindInv(s, d)
      BY <1>3, <1>5, <1>6, <1>10, <1>12, IdleFields DEF MindInv, Like, Inv, Good
    <2>3. FreshInv(s, d, t) /\ EndInv(s, d, t)
      BY <1>3, <1>4, <1>5, <1>6, <1>10, <1>12, IdleFields DEF FreshInv, EndInv, Bare, Like
    <2>4. CASE s = Idle
      <3>1. Placed(s, d)
        BY <1>3, <1>5, <1>6, <2>4, IdleFields, Zenon
           DEF Placed, ProcessInv, FlightInv, StageInv, ReadInv, NameInv, FieldInv, KeepInv,
               PendingInv, CloseInv, Toward, Commands, Early, Finals, Bare, Blank
      <3> QED BY <1>6, <2>1, <2>2, <2>3, <3>1 DEF Good
    <2>5. CASE s = r
      <3>1. Placed(r, d)
        BY <1>1, <1>3, <1>5, <1>6, <1>10
           DEF Placed, ProcessInv, FlightInv, StageInv, ReadInv, NameInv, FieldInv, KeepInv,
               PendingInv, CloseInv, Toward, Commands, Early, Finals, Bare, Blank, Returns, Kin,
               Like
      <3> QED BY <1>6, <2>1, <2>2, <2>3, <2>5, <3>1 DEF Good
    <2> QED BY <1>12, <2>4, <2>5
  <1>13. CASE disk' = d
    <2>1. \/ p' = Idle /\ told' = "failed"
          \/ p' = r /\ told' = told
      BY <1>8, <1>11
    <2>2. Good(Idle, d, "failed")
      BY <1>12
    <2>3. Good(r, d, told)
      BY <1>12
    <2>4. Good(p', d, told')
      BY <2>1, <2>2, <2>3
    <2> QED BY <1>1, <1>13, <2>4, Still
  <1>14. CASE Fallen(p', told', p) /\ disk' \in {disk, e}
    <2>1. Good(p', disk', told')
      BY <1>2, <1>3, <1>7, <1>14, FallenIsGood
    <2> QED BY <1>1, <2>1, Still
  <1> QED BY <1>8, <1>13, <1>14

LEMMA TerminalKeeps ==
  ASSUME Inv, Terminal
  PROVE  Inv'
  <1> DEFINE q == [p EXCEPT !.back = "terminal"]
             r == [q EXCEPT !.pc = "stage"]
  <1>1. p.pc = "terminal" /\ Quiet /\ UNCHANGED disk /\ (Raise(p) \/ Go(q, "stage"))
    BY DEF Terminal, At, Calm, Unless
  <1>2. p.pc \notin Blank \cup Open \cup {"rmdir", "idle"}
    BY <1>1 DEF Blank, Open
  <1>3. /\ p \in Processes /\ p.mem # None /\ p.intent # None /\ Placed(p, disk)
        /\ disk.dir /\ Kin(p) /\ EndInv(p, disk, told)
    BY <1>2, Checked, KinSelf, Working DEF Inv, Good
  <1>4. "stage" \in Steps /\ "terminal" \in Backs /\ disk.completed # None
    BY <1>1, <1>3 DEF Steps, Backs, Placed, StageInv
  <1>5. /\ q \in Processes /\ q.mem = p.mem /\ q.pc = p.pc /\ q.mode = p.mode /\ q.at = p.at
        /\ q.intent = p.intent /\ q.unresolved = p.unresolved /\ q.back = "terminal" /\ q.inst = p.inst
    BY <1>3, <1>4 DEF Processes
  <1>6. Kin(q) /\ (~q.mem.conflict => Whole)
    BY <1>3, <1>4, <1>5 DEF Kin, EndInv
  <1>7. r.pc = "stage" /\ Like(r, q)
    BY <1>4, <1>5, Moving
  <1> HIDE DEF q, r
  <1>8. Placed(r, disk)
    BY <1>1, <1>3, <1>4, <1>5, <1>6, <1>7
       DEF Placed, ProcessInv, FlightInv, StageInv, ReadInv, NameInv, FieldInv, KeepInv, PendingInv,
           CloseInv, Toward, Commands, Early, Finals, Bare, Blank, Returns, Kin, Like
  <1>9. CASE Raise(p)
    BY <1>1, <1>2, <1>3, <1>9, Fail
  <1>10. CASE Go(q, "stage")
    BY <1>1, <1>2, <1>4, <1>6, <1>8, <1>10, Step DEF r, Bare
  <1> QED BY <1>1, <1>9, <1>10

-----------------------------------------------------------------------------
(* The controls go one after the other.                                    *)

\* A step that removes a control: nothing of the session is in the account.
LEMMA Removing ==
  ASSUME Inv, Quiet, p.pc \in {"scrap", "rmkeys", "rmintent", "rmlast", "unprepare", "unstarted", "load"},
         NEW next \in {"rmkeys", "rmintent", "rmlast", "rmdir", "unprepare"}, Go(p, next),
         disk' \in Directories, disk'.dir = disk.dir, disk'.state = None,
         disk'.intent \in {disk.intent, None}, disk'.completed \in {disk.completed, None},
         next \in {"rmkeys", "rmintent", "rmlast"} => p.mem # None /\ disk'.completed = disk.completed,
         next \in {"rmlast", "rmdir", "unprepare"} => disk'.intent = None,
         next \in {"unprepare", "rmdir"} => disk'.completed = None,
         next = "unprepare" => p.mem = None /\ disk.completed = None,
         disk.state = None \/ disk.completed # None,
         disk.completed = None => p.mem = None
  PROVE  Inv'
  <1> DEFINE r == [p EXCEPT !.pc = next]
  <1>1. /\ p \in Processes /\ Placed(p, disk) /\ disk.dir /\ told # "clean" /\ ~Lives
        /\ EndInv(p, disk, told) /\ MindInv(p, disk)
    BY Working DEF Inv, Good, ToolInv
  <1>2. next \in Steps
    BY DEF Steps
  <1>3. r.pc = next /\ Like(r, p) /\ p' = r /\ told' = told
    BY <1>1, <1>2, Moving DEF Go
  <1> HIDE DEF r
  <1>4. ~Owned
    BY <1>1 DEF EndInv
  <1>5. next \in {"rmkeys", "rmintent", "rmlast"} => disk.completed # None
    BY <1>1
  <1>6. ProcessInv(r)
    BY <1>1, <1>3 DEF Placed, ProcessInv, Toward, Commands, Blank, Like
  <1>7. StageInv(r, disk')
    BY <1>1, <1>3, <1>5 DEF Placed, StageInv, Toward, Commands, Finals, Bare, Like
  <1>8. /\ FlightInv(r, disk') /\ ReadInv(r) /\ NameInv(r, disk') /\ FieldInv(r) /\ KeepInv(r)
        /\ PendingInv(r, disk') /\ CloseInv(r)
    BY <1>3
       DEF FlightInv, ReadInv, NameInv, FieldInv, KeepInv, PendingInv, CloseInv, Toward, Commands, Early
  <1>9. ToolInv(r, disk') /\ CommandInv(r, disk')
    BY <1>1 DEF Inv, Good, ToolInv, CommandInv, Lives
  <1>10. MindInv(r, disk')
    BY <1>1, <1>3 DEF MindInv, Like
  <1>11. FreshInv(r, disk', told)
    BY <1>3, <1>5, IdleFields DEF FreshInv, Bare
  <1>12. EndInv(r, disk', told)
    BY <1>1, <1>3, <1>4, <1>5 DEF EndInv, Like
  <1>13. Good(p', disk', told')
    BY <1>3, <1>6, <1>7, <1>8, <1>9, <1>10, <1>11, <1>12 DEF Good, Placed
  <1> QED BY <1>13, Still

LEMMA ScrapKeeps ==
  ASSUME Inv, Scrap
  PROVE  Inv'
  <1>1. p.pc = "scrap" /\ Quiet /\ Go(p, "rmkeys") /\ disk' = [disk EXCEPT !.pending = {}, !.state = None]
    BY DEF Scrap, At
  <1>2. disk \in Directories /\ p.mem # None /\ disk.completed # None
    BY <1>1, Working, Checked DEF Blank, Inv, Good, Placed, StageInv
  <1>3. /\ disk' \in Directories /\ disk'.dir = disk.dir /\ disk'.state = None /\ disk'.intent = disk.intent
        /\ disk'.completed = disk.completed
    BY <1>1, <1>2 DEF Directories
  <1> QED BY <1>1, <1>2, <1>3, Removing

LEMMA RemoveKeysKeeps ==
  ASSUME Inv, RemoveKeys
  PROVE  Inv'
  <1>1. p.pc = "rmkeys" /\ Quiet
    BY DEF RemoveKeys, At
  <1>2. disk \in Directories /\ p.mem # None /\ disk.completed # None /\ disk.state = None /\ Kin(p)
    BY <1>1, Working, Checked, KinSelf DEF Blank, Inv, Good, Placed, StageInv
  <1>3. CASE disk' = [disk EXCEPT !.keys = FALSE] /\ Go(p, "rmintent")
    <2>1. /\ disk' \in Directories /\ disk'.dir = disk.dir /\ disk'.state = None
          /\ disk'.intent = disk.intent /\ disk'.completed = disk.completed
      BY <1>2, <1>3 DEF Directories
    <2> QED BY <1>1, <1>2, <1>3, <2>1, Removing
  <1>4. CASE Raise(p) /\ UNCHANGED disk
    BY <1>1, <1>2, <1>4, Fail DEF Open
  <1> QED BY <1>3, <1>4 DEF RemoveKeys

LEMMA RemoveIntentKeeps ==
  ASSUME Inv, RemoveIntent
  PROVE  Inv'
  <1>1. p.pc = "rmintent" /\ Quiet /\ Go(p, "rmlast") /\ disk' = [disk EXCEPT !.intent = None]
    BY DEF RemoveIntent, At
  <1>2. disk \in Directories /\ p.mem # None /\ disk.completed # None /\ disk.state = None
    BY <1>1, Working, Checked DEF Blank, Inv, Good, Placed, StageInv
  <1>3. /\ disk' \in Directories /\ disk'.dir = disk.dir /\ disk'.state = None /\ disk'.intent = None
        /\ disk'.completed = disk.completed
    BY <1>1, <1>2 DEF Directories
  <1> QED BY <1>1, <1>2, <1>3, Removing

LEMMA RemoveLastKeeps ==
  ASSUME Inv, RemoveLast
  PROVE  Inv'
  <1>1. p.pc = "rmlast" /\ Quiet
    BY DEF RemoveLast, At
  <1>2. /\ disk \in Directories /\ p.mem # None /\ disk.completed # None /\ disk.state = None
        /\ disk.intent = None /\ Kin(p)
    BY <1>1, Working, Checked, KinSelf DEF Blank, Inv, Good, Placed, StageInv
  <1>3. CASE disk' = [disk EXCEPT !.completed = None] /\ Go(p, "rmdir")
    <2>1. /\ disk' \in Directories /\ disk'.dir = disk.dir /\ disk'.state = None
          /\ disk'.intent = None /\ disk'.completed = None
      BY <1>2, <1>3 DEF Directories
    <2> QED BY <1>1, <1>2, <1>3, <2>1, Removing
  <1>4. CASE Raise(p) /\ UNCHANGED disk
    BY <1>1, <1>2, <1>4, Fail DEF Open
  <1> QED BY <1>3, <1>4 DEF RemoveLast

LEMMA UnprepareKeeps ==
  ASSUME Inv, Unprepare
  PROVE  Inv'
  <1>1. p.pc = "unprepare" /\ Quiet
    BY DEF Unprepare, At
  <1>2. /\ disk \in Directories /\ p.mem = None /\ disk.completed = None /\ disk.state = None
        /\ disk.intent = None /\ Kin(p)
    BY <1>1, Working, KinSelf DEF Inv, Good, Placed, StageInv
  <1>3. CASE disk' = [disk EXCEPT !.pending = {}, !.keys = FALSE] /\ Go(p, "rmdir")
    <2>1. /\ disk' \in Directories /\ disk'.dir = disk.dir /\ disk'.state = None
          /\ disk'.intent = None /\ disk'.completed = None
      BY <1>2, <1>3 DEF Directories
    <2> QED BY <1>1, <1>2, <1>3, <2>1, Removing
  <1>4. CASE Raise(p) /\ UNCHANGED disk
    BY <1>1, <1>2, <1>4, Fail DEF Open
  <1> QED BY <1>3, <1>4 DEF Unprepare

\* The session is gone; it says "clean" only where the user's values are back.
LEMMA RemoveSessionKeeps ==
  ASSUME Inv, RemoveSession
  PROVE  Inv'
  <1>1. p.pc = "rmdir" /\ Quiet /\ disk' = NoSession /\ p' = Idle /\ told' = Verdict
    BY DEF RemoveSession, At, End
  <1>2. /\ disk.state = None /\ ~Lives /\ AccountInv /\ EndInv(p, disk, told) /\ Sorts
        /\ ToolInv(p, disk) /\ CommandInv(p, disk)
    BY <1>1, Alone DEF Open, Inv, Good, Placed, StageInv
  <1>3. ~Owned /\ (p.mem # None => (~p.mem.conflict => Whole))
    BY <1>1, <1>2 DEF EndInv
  <1>4. Verdict # "none" /\ (Verdict = "clean" => p.mem # None /\ ~p.mem.conflict)
    BY DEF Verdict
  <1>5. Verdict = "clean" => prefs = want.prefs /\ prof.name = want.name
    <2>1. SUFFICES ASSUME Whole
                   PROVE  prefs = want.prefs /\ prof.name = want.name
      BY <1>3, <1>4
    <2>2. prefs \in Preferences /\ want.prefs \in Preferences
      BY <1>2 DEF Sorts
    <2>3. prefs.default = want.prefs.default /\ prefs.search = want.prefs.search
      BY <1>2, <1>3, <2>1 DEF AccountInv, Owned, Detached, Whole
    <2>4. prefs = want.prefs
      BY <2>2, <2>3 DEF Preferences
    <2> QED BY <1>2, <1>3, <2>4 DEF AccountInv, Owned
  <1>6. /\ NoSession \in Directories /\ ~NoSession.dir /\ NoSession.state = None
        /\ NoSession.intent = None /\ NoSession.completed = None
    BY DEF NoSession, Directories
  <1>7. Placed(Idle, NoSession)
    BY <1>6, IdleFields, Zenon
       DEF Placed, ProcessInv, FlightInv, StageInv, ReadInv, NameInv, FieldInv, KeepInv, PendingInv,
           CloseInv, Toward, Commands, Early, Finals, Bare, Blank, Returns
  <1>8. ToolInv(Idle, NoSession) /\ CommandInv(Idle, NoSession) /\ MindInv(Idle, NoSession)
    BY <1>2, <1>6, IdleFields DEF ToolInv, CommandInv, Lives, MindInv
  <1>9. FreshInv(Idle, NoSession, Verdict) /\ EndInv(Idle, NoSession, Verdict)
    BY <1>3, <1>4, <1>5, <1>6, IdleFields DEF FreshInv, EndInv, Bare
  <1>10. Good(p', disk', told')
    BY <1>1, <1>6, <1>7, <1>8, <1>9 DEF Good
  <1> QED BY <1>1, <1>10, Still

\* Authority without a checkpoint: the account is still as the user has it.
LEMMA Initializing ==
  ASSUME Inv, Quiet, p.pc \in {"load", "unstarted"}, disk.intent # None, disk.state = None,
         disk.completed = None, NEW next \in {"native", "finish"}, Initialize(next)
  PROVE  Inv'
  <1> DEFINE m == InitialState(disk.intent)
             r == [p EXCEPT !.intent = disk.intent, !.mem = m, !.back = next, !.pc = "rewrite"]
             d == [disk EXCEPT !.pending = {}]
  <1>1. /\ p \in Processes /\ disk \in Directories /\ Placed(p, disk) /\ disk.dir /\ told # "clean" /\ ~Lives
        /\ EndInv(p, disk, told) /\ MindInv(p, disk) /\ FreshInv(p, disk, told) /\ Kin(p)
    BY Working, KinSelf DEF Inv, Good, ToolInv
  <1>2. CASE Raise(p) /\ UNCHANGED disk
    BY <1>1, <1>2, Failing, Still
  <1>3. CASE disk' = d /\ Go([p EXCEPT !.intent = disk.intent, !.mem = m, !.back = next], "rewrite")
    <2>1. disk.intent \in Intents
      BY <1>1 DEF Directories
    <2>2. ~Owned /\ Whole /\ "orig" \in want.prefs.search
      BY <1>1 DEF EndInv, FreshInv
    <2>3. m \in States /\ m.tried = {}
      BY <2>1 DEF InitialState, States, Intents, NoKeychain, Keychain
    <2> HIDE DEF m
    <2>4. Sound(m) /\ m # None
      BY <2>2, <2>3, NoneIsNoRecord DEF Sound, Owned
    <2>5. "rewrite" \in Steps /\ next \in Backs
      BY DEF Steps, Backs
    <2>6. p' = r /\ told' = told
      BY <1>3 DEF Go
    <2>7. /\ r \in Processes /\ r.pc = "rewrite" /\ r.mem = m /\ r.intent = disk.intent /\ r.back = next
          /\ r.mode = p.mode /\ r.at = p.at
      BY <1>1, <2>1, <2>3, <2>5 DEF Processes
    <2>8. /\ d \in Directories /\ d.dir /\ d.state = None /\ d.completed = None /\ d.intent = disk.intent
      BY <1>1 DEF Directories
    <2> HIDE DEF r, d
    <2>9. Placed(r, d)
      BY <1>1, <2>4, <2>7, <2>8
         DEF Placed, ProcessInv, FlightInv, StageInv, ReadInv, NameInv, FieldInv, KeepInv,
             PendingInv, CloseInv, Toward, Commands, Early, Finals, Bare, Blank, Returns, Kin, Like
    <2>10. ToolInv(r, d) /\ CommandInv(r, d)
      BY <1>1 DEF Inv, Good, ToolInv, CommandInv, Lives
    <2>11. MindInv(r, d)
      BY <1>1, <2>4, <2>7, <2>8 DEF MindInv
    <2>12. FreshInv(r, d, told) /\ EndInv(r, d, told)
      BY <1>1, <2>2, <2>7, <2>8 DEF FreshInv, EndInv
    <2>13. Good(p', disk', told')
      BY <1>3, <2>6, <2>8, <2>9, <2>10, <2>11, <2>12 DEF Good
    <2> QED BY <2>13, Still
  <1> QED BY <1>2, <1>3 DEF Initialize

LEMMA UnstartedKeeps ==
  ASSUME Inv, Unstarted
  PROVE  Inv'
  <1>1. p.pc = "unstarted" /\ Quiet
    BY DEF Unstarted, At
  <1>2. disk \in Directories /\ p.mem = None /\ disk.state = None /\ disk.completed = None
    BY <1>1, Working DEF Inv, Good, Placed, StageInv, ProcessInv
  <1>3. CASE disk.intent = None /\ Go(p, "unprepare") /\ UNCHANGED disk
    BY <1>1, <1>2, <1>3, Removing
  <1>4. CASE disk.intent # None /\ Initialize("finish")
    BY <1>1, <1>2, <1>4, Initializing
  <1> QED BY <1>3, <1>4 DEF Unstarted

LEMMA NamedKeeps ==
  ASSUME Inv, Named
  PROVE  Inv'
  BY Rewriting DEF Named, At

LEMMA RewriteKeeps ==
  ASSUME Inv, Rewrite
  PROVE  Inv'
  <1>1. p.pc = "rewrite" /\ Quiet /\ Checkpoint(p, IF p.back = "native" THEN "native" ELSE "stage")
    BY DEF Rewrite, At
  <1>2. p.back \in {"native", "finish"}
    BY <1>1 DEF Inv, Good, Placed, StageInv
  <1> QED BY <1>1, <1>2, Rewriting

LEMMA EndingKeeps ==
  ASSUME Inv, Ending
  PROVE  Inv'
  BY StageKeeps, NameKeeps, NamedKeeps, LooksKeep, FinishingKeeps, CompleteKeeps, TerminalKeeps, ScrapKeeps,
     RemoveKeysKeeps, RemoveIntentKeeps, RemoveLastKeeps, RemoveSessionKeeps, UnprepareKeeps, RewriteKeeps,
     UnstartedKeeps
     DEF Ending

-----------------------------------------------------------------------------
(* Recovery.                                                               *)

\* A recovery starts in whatever state the directory is in.
LEMMA RecoverKeeps ==
  ASSUME Inv, Recover
  PROVE  Inv'
  <1> DEFINE r == [Idle EXCEPT !.mode = "recovery", !.at = "finish", !.pc = "load"]
  <1>1. /\ p = Idle /\ disk.dir /\ tool.life \in {"none", "stray"} /\ p' = r /\ told' = told
        /\ UNCHANGED <<disk, fence, native, prefs, prof, tool, want>>
    BY DEF Recover, account
  <1>2. /\ disk \in Directories /\ Placed(p, disk) /\ ToolInv(p, disk) /\ CommandInv(p, disk)
        /\ MindInv(p, disk) /\ FreshInv(p, disk, told) /\ EndInv(p, disk, told) /\ prof \in Profile
    BY DEF Inv, Good, Sorts
  <1>3. /\ r \in Processes /\ r.mode = "recovery" /\ r.at = "finish" /\ r.pc = "load"
        /\ r.mem = None /\ r.intent = None /\ ~r.inst.active
    <2>1. "load" \in Steps /\ "finish" \in Places
      BY DEF Steps, Places
    <2> QED BY <2>1, IdleFields DEF Processes
  <1> HIDE DEF r
  <1>4. Placed(r, disk)
    BY <1>1, <1>2, <1>3
       DEF Placed, ProcessInv, FlightInv, StageInv, ReadInv, NameInv, FieldInv, KeepInv, PendingInv,
           CloseInv, Toward, Commands, Early, Finals, Bare, Blank, Returns
  <1>5. ToolInv(r, disk)
    BY <1>1, <1>2, <1>3 DEF ToolInv, Lives
  <1>6. CommandInv(r, disk)
    BY <1>2, <1>3 DEF CommandInv, Writes
  <1>7. MindInv(r, disk) /\ FreshInv(r, disk, told)
    BY <1>2, <1>3, IdleFields DEF MindInv, FreshInv, Bare
  <1>8. told # "clean" /\ EndInv(r, disk, told)
    BY <1>1, <1>2, <1>3 DEF EndInv
  <1>9. Good(p', disk', told')
    BY <1>1, <1>2, <1>4, <1>5, <1>6, <1>7, <1>8 DEF Good
  <1> QED BY <1>1, <1>2, <1>8, <1>9, ProfileMoves

\* Before the gate a command of the dead process may still be alive.
LEMMA Quitting ==
  ASSUME Inv, Quiet, UNCHANGED disk, p.pc \in {"load", "gate"}, Raise(p)
  PROVE  Inv'
  <1>1. /\ disk \in Directories /\ Placed(p, disk) /\ ToolInv(p, disk) /\ CommandInv(p, disk)
    BY DEF Inv, Good
  <1>2. CASE p.mode = "recovery" \/ p.at = "finish"
    <2>1. p' = Idle /\ told' = "failed"
      BY <1>2 DEF Raise, End
    <2>2. ToolInv(Idle, disk)
      BY <1>1 DEF ToolInv
    <2>3. CommandInv(Idle, disk)
      BY <1>1, IdleFields DEF CommandInv, Writes
    <2>4. Good(p', disk', told')
      BY <1>1, <2>1, <2>2, <2>3, Stopped
    <2> QED BY <2>4, Still
  <1>3. CASE ~(p.mode = "recovery" \/ p.at = "finish")
    <2>1. ~Lives
      BY <1>1, <1>3, IdleFields DEF ToolInv
    <2>2. Kin(p)
      BY KinSelf
    <2> QED BY <2>1, <2>2, Failing, Still
  <1> QED BY <1>2, <1>3

\* The terminal copy stands for everything else.
LEMMA LoadTerminal ==
  ASSUME Inv, Quiet, UNCHANGED disk, p.pc = "load", disk.completed # None,
         Go([p EXCEPT !.intent = disk.completed.intent, !.mem = disk.completed.state], "terminal")
  PROVE  Inv'
  <1> DEFINE q == [p EXCEPT !.intent = disk.completed.intent, !.mem = disk.completed.state]
             r == [q EXCEPT !.pc = "terminal"]
  <1>1. /\ p \in Processes /\ disk \in Directories /\ Placed(p, disk) /\ ToolInv(p, disk) /\ MindInv(p, disk)
        /\ EndInv(p, disk, told) /\ told # "clean" /\ disk.dir
    BY Working DEF Inv, Good
  <1>2. ~Lives
    BY <1>1 DEF ToolInv
  <1>3. disk.completed.intent \in Intents /\ disk.completed.state \in States
    BY <1>1 DEF Directories
  <1>4. disk.completed.intent # None /\ disk.completed.state # None /\ "terminal" \in Steps
    BY <1>3, NoneIsNoRecord DEF Steps
  <1>5. p' = r /\ told' = told
    BY DEF Go
  <1>6. /\ r \in Processes /\ r.pc = "terminal" /\ r.mem = disk.completed.state
        /\ r.intent = disk.completed.intent /\ r.mode = p.mode /\ r.at = p.at
    BY <1>1, <1>3, <1>4 DEF Processes
  <1> HIDE DEF q, r
  <1>7. Placed(r, disk)
    BY <1>1, <1>4, <1>6
       DEF Placed, ProcessInv, FlightInv, StageInv, ReadInv, NameInv, FieldInv, KeepInv, PendingInv,
           CloseInv, Toward, Commands, Early, Finals, Bare, Blank, Returns
  <1>8. ToolInv(r, disk) /\ CommandInv(r, disk)
    BY <1>2 DEF Inv, Good, ToolInv, CommandInv, Lives
  <1>9. MindInv(r, disk)
    BY <1>1, <1>6 DEF MindInv
  <1>10. FreshInv(r, disk, told) /\ EndInv(r, disk, told)
    BY <1>1, <1>6, IdleFields DEF FreshInv, EndInv, Bare
  <1>11. Good(p', disk', told')
    BY <1>1, <1>5, <1>7, <1>8, <1>9, <1>10 DEF Good
  <1> QED BY <1>11, Still

\* The checkpoint is taken over; the gate comes next.
LEMMA LoadState ==
  ASSUME Inv, Quiet, UNCHANGED disk, p.pc = "load", disk.completed = None, disk.intent # None,
         disk.state # None, Go([p EXCEPT !.intent = disk.intent, !.mem = disk.state], "gate")
  PROVE  Inv'
  <1> DEFINE q == [p EXCEPT !.intent = disk.intent, !.mem = disk.state]
             r == [q EXCEPT !.pc = "gate"]
  <1>1. /\ p \in Processes /\ disk \in Directories /\ Placed(p, disk) /\ ToolInv(p, disk) /\ MindInv(p, disk)
        /\ EndInv(p, disk, told) /\ told # "clean" /\ disk.dir /\ CommandInv(p, disk)
    BY Working DEF Inv, Good
  <1>2. disk.intent \in Intents /\ disk.state \in States /\ "gate" \in Steps
    BY <1>1 DEF Directories, Steps
  <1>3. p' = r /\ told' = told
    BY DEF Go
  <1>4. /\ r \in Processes /\ r.pc = "gate" /\ r.mem = disk.state
        /\ r.intent = disk.intent /\ r.mode = p.mode /\ r.at = p.at
    BY <1>1, <1>2 DEF Processes
  <1> HIDE DEF q, r
  <1>5. Placed(r, disk)
    BY <1>1, <1>4
       DEF Placed, ProcessInv, FlightInv, StageInv, ReadInv, NameInv, FieldInv, KeepInv, PendingInv,
           CloseInv, Toward, Commands, Early, Finals, Bare, Blank, Returns
  <1>6. ToolInv(r, disk)
    <2>1. Lives => p.mode = "recovery" /\ tool.life = "stray"
      BY <1>1, IdleFields DEF ToolInv
    <2> QED BY <1>1, <1>4, <2>1 DEF ToolInv, Lives
  <1>7. CommandInv(r, disk)
    BY <1>1, <1>4 DEF CommandInv, Writes
  <1>8. MindInv(r, disk) /\ FreshInv(r, disk, told) /\ EndInv(r, disk, told)
    BY <1>1, <1>4, IdleFields DEF MindInv, FreshInv, EndInv, Bare
  <1>9. Good(p', disk', told')
    BY <1>1, <1>3, <1>5, <1>6, <1>7, <1>8 DEF Good
  <1> QED BY <1>9, Still

LEMMA LoadKeeps ==
  ASSUME Inv, Load
  PROVE  Inv'
  <1>1. p.pc = "load" /\ Quiet
    BY DEF Load, At
  <1>2. disk \in Directories /\ p.mem = None /\ (disk.state # None => disk.intent # None)
    BY <1>1, Working DEF Inv, Good, Placed, StageInv
  <1>3. CASE disk.completed # None
    <2>1. /\ UNCHANGED disk
          /\ \/ Go([p EXCEPT !.intent = disk.completed.intent, !.mem = disk.completed.state], "terminal")
             \/ Raise(p)
      BY <1>3 DEF Load
    <2> QED BY <1>1, <1>3, <2>1, LoadTerminal, Quitting
  <1>4. CASE disk.completed = None /\ disk.intent = None
    <2>1. UNCHANGED disk /\ (Go(p, "unprepare") \/ Raise(p))
      BY <1>4 DEF Load
    <2> QED BY <1>1, <1>2, <1>4, <2>1, Removing, Quitting
  <1>5. CASE disk.completed = None /\ disk.intent # None /\ disk.state = None
    <2>1. (Raise(p) /\ UNCHANGED disk) \/ Initialize("native")
      BY <1>5 DEF Load
    <2> QED BY <1>1, <1>5, <2>1, Initializing, Quitting
  <1>6. CASE disk.completed = None /\ disk.intent # None /\ disk.state # None
    <2>1. /\ UNCHANGED disk
          /\ \/ Go([p EXCEPT !.intent = disk.intent, !.mem = disk.state], "gate")
             \/ Raise(p)
      BY <1>6 DEF Load
    <2> QED BY <1>1, <1>6, <2>1, LoadState, Quitting
  <1> QED BY <1>3, <1>4, <1>5, <1>6

\* Past the gate every command of the dead process is over.
LEMMA PassGateKeeps ==
  ASSUME Inv, PassGate
  PROVE  Inv'
  <1> DEFINE op == p.mem.inflight
             unproved == IF op = None THEN fence # NoFence ELSE Gate(op) = "unproved"
             c == p.mem.conflict \/ (native # p.mem.native /\ ~p.mem.cleaning)
             n == [p.mem EXCEPT !.conflict = c, !.native = native]
             o == [op EXCEPT !.phase = "SETTLED", !.out = Gate(op)]
             m == IF op = None THEN n ELSE [n EXCEPT !.inflight = o]
             q == [p EXCEPT !.mem = m]
             next == IF op = None THEN "resumed" ELSE "adopt"
             r == [q EXCEPT !.pc = next]
             d == [disk EXCEPT !.pending = {}]
  <1>1. p.pc = "gate" /\ UNCHANGED <<account, tool, want, lost, since>>
    BY DEF PassGate, At
  <1>2. /\ p \in Processes /\ p.mem \in States /\ p.mem # None /\ Placed(p, disk) /\ disk \in Directories
        /\ disk.completed = None /\ disk.dir /\ told # "clean" /\ Sound(p.mem) /\ Sorts /\ ToolInv(p, disk)
        /\ disk.state = p.mem
    BY <1>1, Checked, NoTerminal, Working
       DEF Inv, Good, MindInv, Blank, Terminals, Placed, FlightInv
  <1>3. CASE Raise(p) /\ UNCHANGED <<disk, fence>>
    BY <1>1, <1>3, Quitting DEF Quiet
  <1>4. CASE /\ ~unproved /\ disk' = d /\ fence' = IF fence.at = "pending" THEN NoFence ELSE fence
             /\ p' = r /\ told' = told
    <2>1. ~Lives /\ tool.life = "none"
      <3>1. SUFFICES ASSUME Lives
                     PROVE  FALSE
        BY DEF Lives
      <3>2. tool.life = "stray" /\ op # None /\ op.phase = "ARMED" /\ fence = NoFence
        BY <1>1, <1>2, <3>1, IdleFields DEF ToolInv
      <3>3. Gate(op) = "unproved"
        BY <3>2 DEF Gate, NoFence
      <3> QED BY <1>4, <3>2, <3>3
    <2>2. c \in BOOLEAN /\ native \in Keychain /\ (p.mem.conflict => c)
      BY <1>2 DEF States, Sorts
    <2>3. op # None => o \in Operation
      <3>1. SUFFICES ASSUME op # None
                     PROVE  o \in Operation
        OBVIOUS
      <3>2. op \in Operation
        BY <1>2, <3>1 DEF States
      <3>3. Gate(op) \in {"none", "nofence", "never", "settled", "unproved"}
        <4>1. /\ op.out \in {"none", "nofence", "never", "settled"}
              /\ fence.out \in {"none", "never", "settled"}
          BY <1>2, <3>2 DEF Operation, Sorts
        <4> HIDE DEF op
        <4>2. CASE op.phase = "SETTLED"
          BY <4>1, <4>2 DEF Gate
        <4>3. CASE op.phase = "PREPARED" /\ fence.at \in {"none", "pending"}
          BY <4>1, <4>3 DEF Gate
        <4>4. CASE op.phase # "SETTLED" /\ ~(op.phase = "PREPARED" /\ fence.at \in {"none", "pending"})
          BY <4>1, <4>4 DEF Gate
        <4> QED BY <4>2, <4>3, <4>4
      <3>4. Gate(op) # "unproved"
        BY <1>4, <3>1
      <3> DEFINE g == Gate(op)
      <3>5. g \in {"none", "nofence", "never", "settled"}
        BY <3>3, <3>4
      <3> HIDE DEF g
      <3>6. o = [op EXCEPT !.phase = "SETTLED", !.out = g]
        BY DEF g
      <3> HIDE DEF o
      <3> QED BY <3>2, <3>5, <3>6 DEF Operation
    <2> HIDE DEF c, o
    <2>4. /\ n \in States /\ n.tried = p.mem.tried /\ n.prefs = p.mem.prefs /\ n.conflict = c
          /\ n.own = p.mem.own /\ n.phase = p.mem.phase /\ n.stage = p.mem.stage
      BY <1>2, <2>2 DEF States
    <2> HIDE DEF n
    <2>5. /\ m \in States /\ m.tried = p.mem.tried /\ m.prefs = p.mem.prefs /\ m.conflict = c
          /\ m.own = p.mem.own /\ m.phase = p.mem.phase /\ m.stage = p.mem.stage
      <3>1. CASE op = None
        BY <2>4, <3>1
      <3>2. CASE op # None
        BY <2>3, <2>4, <3>2 DEF States
      <3> QED BY <3>1, <3>2
    <2> HIDE DEF m
    <2>6. Sound(m) /\ m # None
      BY <1>2, <2>2, <2>5, NoneIsNoRecord DEF Sound, OwnsName
    <2>7. /\ q \in Processes /\ q.mem = m /\ q.pc = p.pc /\ q.mode = p.mode /\ q.at = p.at
          /\ q.intent = p.intent /\ q.unresolved = p.unresolved
      BY <1>2, <2>5 DEF Processes
    <2>8. next \in {"resumed", "adopt"} /\ next \in Steps
      BY DEF Steps
    <2> HIDE DEF q, next
    <2>9. r.pc = next /\ Like(r, q)
      BY <2>7, <2>8, Moving
    <2>10. /\ d \in Directories /\ d.dir = disk.dir /\ d.intent = disk.intent /\ d.state = disk.state
           /\ d.completed = disk.completed
      BY <1>2 DEF Directories
    <2> HIDE DEF r, d
    <2>11. Mild(r, d, told)
      <3>1. ProcessInv(r) /\ StageInv(r, d)
        BY <1>1, <1>2, <2>6, <2>7, <2>8, <2>9, <2>10
           DEF Placed, ProcessInv, StageInv, Toward, Commands, Finals, Bare, Blank, Returns, Like
      <3>2. NameInv(r, d) /\ FieldInv(r) /\ KeepInv(r) /\ PendingInv(r, d) /\ CloseInv(r)
        BY <2>8, <2>9 DEF NameInv, FieldInv, KeepInv, PendingInv, CloseInv, Toward, Commands, Early
      <3>3. MindInv(r, d)
        BY <1>2, <2>6, <2>7, <2>9, <2>10 DEF Inv, Good, MindInv, Like
      <3>4. FreshInv(r, d, told) /\ EndInv(r, d, told)
        BY <1>2, <2>8, <2>9, <2>10, IdleFields DEF Inv, Good, FreshInv, EndInv, Bare
      <3> QED BY <2>10, <3>1, <3>2, <3>3, <3>4 DEF Mild
    <2>12. Sorts'
      BY <1>1, <1>2, <1>4 DEF Sorts, NoFence, account
    <2>13. ToolInv(p, disk)' /\ CommandInv(p, disk)'
      BY <1>1, <1>2, <2>1 DEF ToolInv, CommandInv, Lives
    <2>14. FlightInv(p, disk)' /\ ReadInv(p)'
      BY <1>4, <2>8, <2>9 DEF FlightInv, ReadInv, Commands
    <2> QED BY <1>1, <1>4, <2>11, <2>12, <2>13, <2>14, ToolMoves
  <1>5. \/ Raise(p) /\ UNCHANGED <<disk, fence>>
        \/ /\ ~unproved /\ disk' = d /\ fence' = IF fence.at = "pending" THEN NoFence ELSE fence
           /\ p' = r /\ told' = told
    <2> DEFINE s == [p EXCEPT !.mem.conflict = @ \/ (native # p.mem.native /\ ~p.mem.cleaning),
                              !.mem.native = native]
               t == [s EXCEPT !.mem.inflight.phase = "SETTLED", !.mem.inflight.out = Gate(op)]
    <2>1. \/ Raise(p) /\ UNCHANGED <<disk, fence>>
          \/ /\ ~unproved /\ disk' = d /\ fence' = IF fence.at = "pending" THEN NoFence ELSE fence
             /\ IF op = None THEN Go(s, "resumed") ELSE Go(t, "adopt")
      BY DEF PassGate
    <2>2. s = [p EXCEPT !.mem = n]
      BY <1>2 DEF Processes, States
    <2>3. n.inflight = op
      BY <1>2 DEF States
    <2> HIDE DEF n, s
    <2>4. s.mem = n
      BY <1>2, <2>2 DEF Processes
    <2>5. op # None => t = [p EXCEPT !.mem = [n EXCEPT !.inflight = o]]
      <3> DEFINE a == [op EXCEPT !.phase = "SETTLED"]
                 b == [n EXCEPT !.inflight = a]
                 e == [b EXCEPT !.inflight = o]
                 u == [p EXCEPT !.mem = b]
                 v == [u EXCEPT !.mem = e]
                 w == [s EXCEPT !.mem = [s.mem EXCEPT !.inflight = [s.mem.inflight EXCEPT !.phase = "SETTLED"]]]
      <3>1. SUFFICES ASSUME op # None
                     PROVE  t = [p EXCEPT !.mem = [n EXCEPT !.inflight = o]]
        OBVIOUS
      <3>2. o = [a EXCEPT !.out = Gate(op)]
        OBVIOUS
      <3>3. "inflight" \in DOMAIN n /\ "mem" \in DOMAIN p
        BY <1>2 DEF States, Processes, n
      <3>4. b.inflight = a /\ e = [n EXCEPT !.inflight = o]
        BY <3>3
      <3>5. u.mem = b /\ v = [p EXCEPT !.mem = e]
        BY <3>3
      <3>6. w = u
        <4>1. w = [s EXCEPT !.mem = b]
          BY <2>3, <2>4
        <4> HIDE DEF b, w
        <4> QED BY <2>2, <3>3, <4>1
      <3>7. v = [u EXCEPT !.mem = [u.mem EXCEPT !.inflight = [u.mem.inflight EXCEPT !.out = Gate(op)]]]
        BY <3>2, <3>4, <3>5
      <3>8. t = [w EXCEPT !.mem.inflight.out = Gate(op)]
        OBVIOUS
      <3> HIDE DEF a, b, e, u, v, w, o, t
      <3>9. t = v
        BY <3>6, <3>7, <3>8
      <3> QED BY <3>4, <3>5, <3>9
    <2> HIDE DEF t
    <2>6. op = None => s = q
      BY <2>2
    <2>7. op # None => t = q
      BY <2>5
    <2> QED BY <2>1, <2>6, <2>7 DEF Go
  <1> QED BY <1>3, <1>4, <1>5

LEMMA AdoptKeeps ==
  ASSUME Inv, Adopt
  PROVE  Inv'
  <1> DEFINE e == [NoCommand EXCEPT !.ret = "native", !.rc = "ok"]
             q == [p EXCEPT !.cmd = e]
             r == [q EXCEPT !.pc = "retire"]
             d == [disk EXCEPT !.state = q.mem]
  <1>1. p.pc = "adopt" /\ Quiet /\ Checkpoint(q, "retire")
    BY DEF Adopt, At
  <1>2. p.pc \notin Blank \cup Terminals \cup Open
    BY <1>1 DEF Blank, Terminals, Open
  <1>3. /\ p \in Processes /\ p.mem \in States /\ p.mem # None /\ p.intent # None /\ Placed(p, disk)
        /\ disk \in Directories /\ disk.completed = None /\ disk.dir /\ Kin(p)
    BY <1>2, Checked, KinSelf, NoTerminal, Working DEF Inv, Good, Open, Terminals
  <1>4. e \in Errands /\ e.kind = "none" /\ e.ret = "native"
    <2>1. "native" \in Steps /\ "ok" \in Codes
      BY DEF Steps, Codes
    <2>2. NoCommand \in Errands /\ NoCommand.kind = "none"
      BY DEF NoCommand, Errands, Kinds, Codes, NoPrefs, Preferences
    <2> QED BY <2>1, <2>2 DEF Errands
  <1> HIDE DEF e
  <1>5. /\ q \in Processes /\ q.mem = p.mem /\ q.pc = p.pc /\ q.mode = p.mode /\ q.at = p.at
        /\ q.intent = p.intent /\ q.unresolved = p.unresolved /\ q.cmd = e /\ q.inst = p.inst
        /\ q.field = p.field
    BY <1>3, <1>4 DEF Processes
  <1>6. Kin(q) /\ "retire" \in Steps
    BY <1>3, <1>5 DEF Kin, Steps
  <1>7. r.pc = "retire" /\ Like(r, q)
    BY <1>5, <1>6, Moving
  <1>8. d.state = p.mem /\ d.dir = disk.dir /\ d.intent = disk.intent /\ d.completed = disk.completed
    BY <1>3, <1>5 DEF Directories
  <1> HIDE DEF q, r, d
  <1>9. Placed(r, d)
    BY <1>2, <1>3, <1>4, <1>5, <1>6, <1>7, <1>8
       DEF Placed, ProcessInv, FlightInv, StageInv, ReadInv, NameInv, FieldInv, KeepInv, PendingInv,
           CloseInv, Toward, Commands, Early, Finals, Bare, Blank, Returns, Kin, Like
  <1> QED BY <1>1, <1>2, <1>3, <1>5, <1>6, <1>9, Save DEF q, r, d, Bare

LEMMA RecoveryKeeps ==
  ASSUME Inv, Recovery
  PROVE  Inv'
  <1>1. Resumed => Inv'
    BY Rewriting DEF Resumed, At
  <1> QED BY <1>1, LoadKeeps, PassGateKeeps, AdoptKeeps DEF Recovery

-----------------------------------------------------------------------------
(* Crashes, interruptions, the user.                                       *)

LEMMA CrashKeeps ==
  ASSUME Inv, Crash
  PROVE  Inv'
  <1> DEFINE e == [disk EXCEPT !.pending = @ \cup Staged]
  <1>1. p # Idle /\ Quiet /\ p' = Idle /\ told' = "failed" /\ disk' \in {disk, e}
    BY DEF Crash, End, Quiet
  <1>2. /\ disk \in Directories /\ Placed(p, disk) /\ ToolInv(p, disk) /\ CommandInv(p, disk)
    BY DEF Inv, Good
  <1>3. p.pc # "idle"
    BY <1>1, <1>2 DEF Placed, StageInv
  <1>4. Staged \subseteq {"intent", "state", "completed"}
    BY DEF Staged
  <1> HIDE DEF e
  <1>5. /\ e \in Directories /\ e.dir = disk.dir /\ e.intent = disk.intent /\ e.state = disk.state
        /\ e.completed = disk.completed
    BY <1>2, <1>4 DEF Directories, e
  <1>6. /\ disk' \in Directories /\ disk'.dir = disk.dir /\ disk'.intent = disk.intent
        /\ disk'.state = disk.state /\ disk'.completed = disk.completed
    BY <1>1, <1>2, <1>5
  <1>7. ToolInv(Idle, disk')
    BY <1>2, <1>6 DEF ToolInv
  <1>8. CommandInv(Idle, disk')
    BY <1>2, <1>6, IdleFields DEF CommandInv, Writes
  <1>9. Good(p', disk', told')
    BY <1>1, <1>3, <1>6, <1>7, <1>8, Stopped
  <1> QED BY <1>1, <1>9, Still

LEMMA InterruptKeeps ==
  ASSUME Inv, Interrupt
  PROVE  Inv'
  <1>1. Quiet /\ UNCHANGED disk /\ Raise(p)
    BY DEF Interrupt, Quiet
  <1>2. p.pc \notin Open \cup {"idle", "rmdir"}
    BY DEF Interrupt, Interruptible, Open
  <1>3. Kin(p)
    BY <1>2, KinSelf
  <1> QED BY <1>1, <1>2, <1>3, Fail

\* The account changes, and nothing else but what the user wants.
LEMMA Edited ==
  ASSUME Inv, UNCHANGED <<disk, fence, tool, p, told>>, Sorts', AccountInv', Whole => Whole',
         MindInv(p, disk)', ReadInv(p)', PendingInv(p, disk)', CommandInv(p, disk)', NameInv(p, disk)',
         CloseInv(p)', FreshInv(p, disk, told)', EndInv(p, disk, told)'
  PROVE  Inv'
  <1>1. ProcessInv(p)' /\ StageInv(p, disk)' /\ FieldInv(p)' /\ (disk \in Directories)'
    BY DEF Inv, Good, Placed, ProcessInv, StageInv, FieldInv
  <1>2. FlightInv(p, disk)' /\ ToolInv(p, disk)'
    BY DEF Inv, Good, Placed, FlightInv, ToolInv, Lives
  <1>3. KeepInv(p)'
    BY DEF Inv, Good, Placed, KeepInv
  <1> QED BY <1>1, <1>2, <1>3 DEF Inv, Good, Placed

\* Outside the exposed window no command writes a preference.
LEMMA Unexposed ==
  ASSUME Inv, ~Exposed, UNCHANGED <<disk, tool, p>>
  PROVE  PendingInv(p, disk)' /\ CommandInv(p, disk)'
  <1>1. PendingInv(p, disk)'
    BY DEF Exposed, PendingInv, Writes, Fields
  <1>2. CommandInv(p, disk)'
    BY DEF Exposed, CommandInv, Writes, Fields
  <1> QED BY <1>1, <1>2

LEMMA EditPrefsKeeps ==
  ASSUME Inv, EditPrefs
  PROVE  Inv'
  <1>1. ~Exposed /\ UNCHANGED <<disk, fence, tool, p, told, native, prof>>
    BY DEF EditPrefs, User
  <1>2. /\ Sorts /\ AccountInv /\ MindInv(p, disk) /\ Placed(p, disk) /\ FreshInv(p, disk, told)
        /\ EndInv(p, disk, told)
    BY DEF Inv, Good
  <1>3. PendingInv(p, disk)' /\ CommandInv(p, disk)'
    BY <1>1, Unexposed
  <1>4. prefs \in Preferences /\ want \in [prefs : Preferences, name : Names] /\ want.prefs \in Preferences
    BY <1>2 DEF Sorts
  <1>5. /\ prefs' \in Preferences /\ want' \in [prefs : Preferences, name : Names]
        /\ want'.name = want.name
        /\ \/ /\ prefs'.default = "other" /\ want'.prefs.default = "other"
              /\ prefs'.search = prefs.search /\ want'.prefs.search = want.prefs.search
           \/ /\ prefs'.default = prefs.default /\ want'.prefs.default = want.prefs.default
              /\ prefs'.search = prefs.search \cup {"other"}
              /\ want'.prefs.search = want.prefs.search \cup {"other"}
    BY <1>4 DEF EditPrefs, User, Preferences
  <1>6. Sorts'
    BY <1>1, <1>2, <1>5 DEF Sorts
  <1>7. (Whole => Whole') /\ (Detached(prefs)' <=> (Detached(prefs) \/ (prefs'.default = "other" /\ "own" \notin prefs.search)))
    BY <1>5 DEF Whole, Detached
  <1>8. (Hidden' => Hidden) /\ (Hidden' => UNCHANGED <<prefs.search, want.prefs.search>>) /\ (~Whole' => ~Whole)
    BY <1>5, <1>7 DEF Hidden
  <1>9. AccountInv'
    BY <1>1, <1>2, <1>5, <1>8 DEF AccountInv, Hidden
  <1>10. MindInv(p, disk)'
    BY <1>1, <1>2, <1>5, <1>8 DEF MindInv, Sound, Planned
  <1>11. ReadInv(p)'
    BY <1>1, <1>2, <1>5, <1>7 DEF Placed, ReadInv, Later, Exposed
  <1>12. NameInv(p, disk)' /\ CloseInv(p)'
    BY <1>1, <1>2, <1>7 DEF Placed, NameInv, CloseInv
  <1>13. FreshInv(p, disk, told)'
    BY <1>1, <1>2, <1>5, <1>7 DEF FreshInv
  <1>14. EndInv(p, disk, told)'
    <2>1. ~Owned => ~Owned'
      BY <1>1, <1>7 DEF Owned
    <2>2. prefs = want.prefs => prefs' = want'.prefs
      <3>1. SUFFICES ASSUME prefs = want.prefs
                     PROVE  prefs' = want'.prefs
        OBVIOUS
      <3>2. prefs'.default = want'.prefs.default /\ prefs'.search = want'.prefs.search
        BY <1>5, <3>1
      <3> QED BY <1>5, <3>2 DEF Preferences
    <2> QED BY <1>1, <1>2, <1>5, <1>7, <2>1, <2>2 DEF EndInv
  <1> QED BY <1>1, <1>3, <1>6, <1>7, <1>9, <1>10, <1>11, <1>12, <1>13, <1>14, Edited

LEMMA EditProfileKeeps ==
  ASSUME Inv, EditProfile
  PROVE  Inv'
  <1>1. PICK name \in Names : /\ prof' = [prof EXCEPT !.name = name] /\ want' = [want EXCEPT !.name = name]
                              /\ UNCHANGED <<disk, fence, tool, p, told, native, prefs>>
    BY DEF EditProfile, User, Names
  <1>2. /\ Sorts /\ AccountInv /\ MindInv(p, disk) /\ Placed(p, disk) /\ FreshInv(p, disk, told)
        /\ EndInv(p, disk, told) /\ CommandInv(p, disk)
    BY DEF Inv, Good
  <1>3. /\ prof' \in Profile /\ prof'.name = name /\ prof'.stage = prof.stage /\ name # "own"
        /\ want' \in [prefs : Preferences, name : Names] /\ want'.name = name /\ want'.prefs = want.prefs
    BY <1>1, <1>2 DEF Sorts, Profile, Names
  <1>4. (Whole' <=> Whole) /\ (Hidden' <=> Hidden) /\ (Detached(prefs)' <=> Detached(prefs))
    BY <1>1, <1>3 DEF Whole, Hidden, Detached
  <1>5. Sorts' /\ AccountInv'
    BY <1>1, <1>2, <1>3, <1>4 DEF Sorts, AccountInv
  <1>6. MindInv(p, disk)'
    BY <1>1, <1>2, <1>3, <1>4 DEF MindInv, Sound, Planned
  <1>7. ReadInv(p)' /\ PendingInv(p, disk)' /\ CommandInv(p, disk)'
    BY <1>1, <1>2, <1>3, <1>4 DEF Placed, ReadInv, PendingInv, CommandInv, Writes, Later
  <1>8. NameInv(p, disk)' /\ CloseInv(p)'
    BY <1>1, <1>2, <1>3, <1>4 DEF Placed, NameInv, CloseInv
  <1>9. FreshInv(p, disk, told)' /\ EndInv(p, disk, told)'
    BY <1>1, <1>2, <1>3, <1>4 DEF FreshInv, EndInv, Owned
  <1> QED BY <1>1, <1>4, <1>5, <1>6, <1>7, <1>8, <1>9, Edited

\* Only where a session may have a keychain is there one to delete.
LEMMA DeleteKeychainKeeps ==
  ASSUME Inv, DeleteKeychain
  PROVE  Inv'
  <1>1. ~Exposed /\ native.db # "none" /\ UNCHANGED <<disk, fence, tool, p, told, prof>>
    BY DEF DeleteKeychain, User
  <1>2. /\ Sorts /\ AccountInv /\ MindInv(p, disk) /\ Placed(p, disk) /\ FreshInv(p, disk, told)
        /\ EndInv(p, disk, told)
    BY DEF Inv, Good
  <1>3. PendingInv(p, disk)' /\ CommandInv(p, disk)'
    BY <1>1, Unexposed
  <1>4. /\ prefs \in Preferences /\ want \in [prefs : Preferences, name : Names]
        /\ want.prefs \in Preferences /\ native \in Keychain
    BY <1>2 DEF Sorts
  <1>5. Owned /\ native # NoKeychain
    BY <1>1 DEF Owned, NoKeychain
  <1> DEFINE def == IF prefs.default = "own" THEN "orig" ELSE prefs.default
             wdef == IF prefs.default = "own" THEN "orig" ELSE want.prefs.default
             wsearch == IF prefs.search = {"own"} THEN {} ELSE want.prefs.search
  <1>6. /\ def \in {"none", "orig", "other"} /\ (prefs.default # "own" => def = prefs.default)
        /\ (prefs.default = "own" => def = "orig")
    BY <1>4 DEF Preferences
  <1>7. /\ wdef \in {"none", "orig", "own", "other"} /\ (prefs.default # "own" => wdef = want.prefs.default)
        /\ (prefs.default = "own" => wdef = "orig")
    BY <1>4 DEF Preferences
  <1>8. /\ wsearch \in SUBSET {"orig", "own", "other"} /\ (Hidden => wsearch = {})
        /\ (~Hidden => wsearch = want.prefs.search)
    BY <1>4 DEF Preferences, Hidden
  <1>9. /\ prefs' = [default |-> def, search |-> prefs.search \ {"own"}]
        /\ native' = [native EXCEPT !.db = "none"]
        /\ want' = [want EXCEPT !.prefs.default = wdef, !.prefs.search = wsearch]
    BY DEF DeleteKeychain, User
  <1> HIDE DEF def, wdef, wsearch
  <1>10. /\ prefs' \in Preferences /\ prefs'.default = def /\ prefs'.search = prefs.search \ {"own"}
         /\ native' \in Keychain
    BY <1>4, <1>6, <1>9 DEF Preferences, Keychain
  <1>11. /\ want' \in [prefs : Preferences, name : Names] /\ want'.name = want.name
         /\ want'.prefs.default = wdef /\ want'.prefs.search = wsearch
    BY <1>4, <1>7, <1>8, <1>9 DEF Preferences
  <1>12. /\ prefs'.default # "own" /\ ~Hidden' /\ Detached(prefs)' /\ (Whole => Whole')
         /\ (Whole /\ "orig" \in want.prefs.search => ~Hidden)
    BY <1>6, <1>8, <1>10, <1>11 DEF Hidden, Whole, Detached
  <1>13. Sorts'
    BY <1>1, <1>2, <1>10, <1>11 DEF Sorts
  <1>14. AccountInv'
    BY <1>1, <1>2, <1>6, <1>7, <1>8, <1>10, <1>11, <1>12 DEF AccountInv, Whole, Hidden
  <1>15. MindInv(p, disk)'
    BY <1>1, <1>2, <1>8, <1>11, <1>12 DEF MindInv, Sound, Planned
  <1>16. ReadInv(p)'
    BY <1>1, <1>2, <1>10, <1>12 DEF Placed, ReadInv, Later, Exposed
  <1>17. NameInv(p, disk)' /\ CloseInv(p)'
    BY <1>1, <1>2, <1>5 DEF Placed, NameInv, CloseInv
  <1>18. FreshInv(p, disk, told)'
    BY <1>1, <1>2, <1>8, <1>11, <1>12 DEF FreshInv
  <1>19. EndInv(p, disk, told)'
    <2>1. disk.state # None /\ disk.completed = None
      BY <1>2, <1>5 DEF EndInv
    <2>2. disk.dir /\ p.pc # "rmdir"
      BY <1>2, <2>1 DEF Placed, StageInv, NoSession
    <2> QED BY <1>1, <1>2, <2>1, <2>2 DEF EndInv
  <1> QED BY <1>1, <1>3, <1>12, <1>13, <1>14, <1>15, <1>16, <1>17, <1>18, <1>19, Edited

\* A stray command may still write, but nothing that would be wrong.
LEMMA ManualFixKeeps ==
  ASSUME Inv, ManualFix
  PROVE  Inv'
  <1> DEFINE def == IF prefs.default = "own" THEN want.prefs.default ELSE prefs.default
             search == IF prefs.search = {"own"} THEN want.prefs.search ELSE prefs.search \ {"own"}
  <1>1. /\ p = Idle /\ disk.dir /\ told = "failed" /\ tool.life \in {"none", "stray"}
        /\ UNCHANGED <<disk, fence, tool, p, want, told>>
        /\ native' = NoKeychain /\ prefs' = [default |-> def, search |-> search]
        /\ prof' = [name |-> IF prof.name = "own" THEN "none" ELSE prof.name, stage |-> "none"]
    BY DEF ManualFix
  <1>2. /\ Sorts /\ AccountInv /\ MindInv(p, disk) /\ Placed(p, disk) /\ FreshInv(p, disk, told)
        /\ EndInv(p, disk, told) /\ CommandInv(p, disk)
    BY DEF Inv, Good
  <1>3. prefs \in Preferences /\ want.prefs \in Preferences /\ prof \in Profile
    BY <1>2 DEF Sorts
  <1>4. /\ def \in {"none", "orig", "own", "other"} /\ (prefs.default # "own" => def = prefs.default)
        /\ (prefs.default = "own" => def = want.prefs.default)
    BY <1>3 DEF Preferences
  <1>5. /\ search \in SUBSET {"orig", "own", "other"} /\ (Hidden => search = want.prefs.search)
        /\ (~Hidden => search = prefs.search \ {"own"})
    BY <1>3 DEF Preferences, Hidden
  <1> HIDE DEF def, search
  <1>6. /\ prefs' \in Preferences /\ prefs'.default = def /\ prefs'.search = search
        /\ native' \in Keychain
    BY <1>1, <1>4, <1>5 DEF Preferences, Keychain, NoKeychain
  <1>7. /\ prof' \in Profile /\ prof'.name # "own" /\ prof'.stage = "none"
        /\ prof'.name = prof.name \/ (prof.name = "own" /\ prof'.name = "none")
    BY <1>1, <1>3 DEF Profile
  <1>8. /\ ~Hidden' /\ Detached(prefs)' /\ (Whole => Whole') /\ (~Whole' => ~Whole /\ ~Hidden)
    BY <1>1, <1>2, <1>4, <1>5, <1>6 DEF Hidden, Whole, Detached, AccountInv
  <1>9. Sorts'
    BY <1>1, <1>2, <1>6, <1>7 DEF Sorts
  <1>10. AccountInv'
    <2>1. prof'.name = want'.name \/ (prof'.name = "own" /\ want'.name = "none")
      BY <1>1, <1>2, <1>7 DEF AccountInv, Sorts, Names
    <2>2. prefs'.default = want'.prefs.default /\ want'.prefs.default # "own" /\ "own" \notin want'.prefs.search
      BY <1>1, <1>2, <1>4, <1>6 DEF AccountInv
    <2>3. ~Whole' => "orig" \notin prefs'.search
      BY <1>1, <1>2, <1>5, <1>6, <1>8 DEF AccountInv
    <2>4. "other" \in want'.prefs.search => "other" \in prefs'.search
      BY <1>1, <1>2, <1>5, <1>6 DEF AccountInv
    <2> QED BY <1>8, <2>1, <2>2, <2>3, <2>4 DEF AccountInv
  <1>11. MindInv(p, disk)'
    BY <1>1, <1>2, <1>4, <1>6, <1>7, <1>8 DEF MindInv, Sound, Planned, AccountInv
  <1>12. ReadInv(p)' /\ NameInv(p, disk)' /\ CloseInv(p)' /\ PendingInv(p, disk)'
    BY <1>1, IdleFields DEF ReadInv, NameInv, CloseInv, PendingInv, Commands
  <1>13. CommandInv(p, disk)'
    BY <1>1, <1>2, <1>5, <1>6, <1>8 DEF CommandInv, Writes, Tries
  <1>14. FreshInv(p, disk, told)'
    BY <1>1, <1>2, <1>8 DEF FreshInv
  <1>15. EndInv(p, disk, told)'
    BY <1>1, <1>2, <1>7, <1>8 DEF EndInv, Owned
  <1> QED BY <1>1, <1>8, <1>9, <1>10, <1>11, <1>12, <1>13, <1>14, <1>15, Edited

-----------------------------------------------------------------------------
(* The invariant.                                                          *)

LEMMA InitIsGood == Init => Inv
  <1>1. SUFFICES ASSUME Init
                 PROVE  Inv
    OBVIOUS
  <1>2. /\ disk = NoSession /\ fence = NoFence /\ native = NoKeychain /\ tool = NoTool
        /\ prefs = [default |-> "orig", search |-> {"orig"}] /\ prof.name \in Names /\ prof.stage = "none"
        /\ prof \in [name : {"none", "same", "diff"}, stage : {"none"}] /\ p = Idle
        /\ want = [prefs |-> prefs, name |-> prof.name] /\ told = "none"
    BY <1>1 DEF Init, Names
  <1>3. Sorts
    <2>1. tool \in Runners
      BY <1>2 DEF NoTool, NoPrefs, Runners, Preferences, Kinds, Codes
    <2>2. prefs \in Preferences /\ prof \in Profile /\ native \in Keychain
      BY <1>2 DEF Preferences, Profile, Keychain, NoKeychain
    <2> QED BY <1>2, <2>1, <2>2 DEF Sorts, NoFence
  <1>4. Whole /\ "orig" \in want.prefs.search /\ ~Hidden /\ ~Owned
    BY <1>2 DEF Whole, Hidden, Owned, Detached, Names
  <1>5. AccountInv
    BY <1>2, <1>4 DEF AccountInv
  <1>6. /\ disk \in Directories /\ ~disk.dir /\ disk.state = None
        /\ disk.intent = None /\ disk.completed = None
    BY <1>2 DEF NoSession, Directories
  <1>7. Placed(Idle, disk)
    BY <1>2, <1>6, IdleFields, Zenon
       DEF Placed, ProcessInv, FlightInv, StageInv, ReadInv, NameInv, FieldInv, KeepInv, PendingInv,
           CloseInv, Toward, Commands, Early, Finals, Bare, Blank, Returns
  <1>8. ToolInv(Idle, disk) /\ CommandInv(Idle, disk) /\ MindInv(Idle, disk)
    BY <1>2, <1>6, IdleFields DEF ToolInv, CommandInv, Lives, MindInv, NoTool
  <1>9. FreshInv(Idle, disk, "none") /\ EndInv(Idle, disk, "none")
    BY <1>4, <1>6, IdleFields DEF FreshInv, EndInv
  <1> QED BY <1>2, <1>3, <1>5, <1>6, <1>7, <1>8, <1>9 DEF Inv, Good

LEMMA InstallKeeps ==
  ASSUME Inv, Install
  PROVE  Inv'
  BY InspectKeeps, ReuseKeeps, StagingKeeps, MakeStageKeeps, MadeKeeps, FillKeeps, LinkingKeeps, LinkKeeps,
     LateBorrowKeeps, LinkedKeeps, UnstageKeeps, UnstagedKeeps, ConfirmKeeps
     DEF Install

LEMMA BodyKeeps ==
  ASSUME Inv, Body
  PROVE  Inv'
  BY CallsKeep, LooksKeep, AfterCreateKeeps, AttemptKeeps, SetKeeps, RememberKeeps, LeaveKeeps
     DEF Body

LEMMA NextKeeps ==
  ASSUME Inv, [Next]_vars
  PROVE  Inv'
  <1>1. CASE Work
    BY <1>1, MakeKeysKeeps, BaselineKeeps, IntendKeeps, FirstKeeps, InstallKeeps, BodyKeeps, CommandKeeps,
       CleanUpKeeps, EndingKeeps, RecoveryKeeps
       DEF Work, Setup
  <1>2. CASE Start \/ Recover \/ ManualFix \/ Crash \/ Interrupt
    BY <1>2, StartKeeps, RecoverKeeps, ManualFixKeeps, CrashKeeps, InterruptKeeps
  <1>3. CASE Custodian \/ Environment
    BY <1>3, CustodianKeeps, EditPrefsKeeps, EditProfileKeeps, DeleteKeychainKeeps DEF Environment
  <1>4. CASE UNCHANGED vars
    BY <1>4, Still DEF vars, account, Quiet, Inv
  <1> QED BY <1>1, <1>2, <1>3, <1>4 DEF Next

\* What the session's checkpoints know of the account, in every state.
THEOREM InvHolds == Spec => []Inv
  <1>1. Init => Inv
    BY InitIsGood
  <1>2. Inv /\ [Next]_vars => Inv'
    BY NextKeeps
  <1> QED BY <1>1, <1>2, PTL DEF Spec

-----------------------------------------------------------------------------
(* What a run checks of the session.                                       *)

\* While the terminal copy exists, and once the session is gone, nothing of the
\* session is in the account (finish_terminal, remove_session).
THEOREM NothingIsLeft == Spec => []NothingLeftBehind
  <1>1. Inv => NothingLeftBehind
    BY DEF Inv, Good, Placed, StageInv, EndInv, NothingLeftBehind, NoSession
  <1> QED BY <1>1, InvHolds, PTL

\* A session that ends without a conflict leaves the account as the user has it
\* (finish, cleanup_profile).
THEOREM CleanIsRestored == Spec => []CleanMeansRestored
  <1>1. Inv => CleanMeansRestored
    BY DEF Inv, Good, EndInv, CleanMeansRestored
  <1> QED BY <1>1, InvHolds, PTL

\* The user's profile, and once the session is gone the user's preferences, are
\* never overwritten by a session (clean_native, cleanup_profile).
THEOREM UserIsKept == Spec => []UserWins
  <1>1. Inv => UserWins
    <2>1. SUFFICES ASSUME Inv
                   PROVE  UserWins
      OBVIOUS
    <2>2. AccountInv /\ EndInv(p, disk, told) /\ StageInv(p, disk)
      BY <2>1 DEF Inv, Good, Placed
    <2>3. ~disk.dir => ~Owned
      BY <2>2 DEF EndInv, StageInv, NoSession
    <2>4. ~disk.dir => prefs.default # "own" /\ ~Hidden
      BY <2>3 DEF Owned, Detached, Hidden
    <2> QED BY <2>2, <2>4 DEF AccountInv, UserWins
  <1> QED BY <1>1, InvHolds, PTL

\* Past its gate a recovery finds no command of the dead process alive
\* (_recover_command_gate).
THEOREM RecoveryIsAloneHolds == Spec => []RecoveryIsAlone
  <1>1. Inv => RecoveryIsAlone
    <2>1. SUFFICES ASSUME Inv, p.mode = "recovery", p.pc \notin {"load", "gate"}, p.cmd.kind = "none"
                   PROVE  ~Lives
      BY DEF RecoveryIsAlone, Lives
    <2>2. ToolInv(p, disk) /\ FlightInv(p, disk)
      BY <2>1 DEF Inv, Good, Placed
    <2>3. p.pc \notin {"arm", "go"}
      BY <2>1, <2>2 DEF FlightInv
    <2> QED BY <2>1, <2>2, <2>3, IdleFields DEF ToolInv, FlightInv
  <1> QED BY <1>1, InvHolds, PTL

-----------------------------------------------------------------------------
(* The call of a lane: types.                                              *)

BeforeLane == {"idle", "custody", "inputs", "enter", "probe", "selection", "validate", "reserve"}
Opening == {"fence", "environment", "admit", "seal", "running"}
Closing == {"terminal", "finish", "dispose", "release", "inner", "policy", "close",
            "custody-close", "settle"}
Over == {"accept", "publish", "restore", "done"}

RaisedKinds == {"none", "ordinary", "interrupt", "lifetime"}
RoleStates == {"none", "made", "kept", "closed"}
LaneTerminals == {"none", "receipt", "failed"}

CallRecords ==
  [pc : BeforeLane \cup {"acquire", "dead"} \cup Opening \cup Closing \cup Over,
   req : Requests, raised : RaisedKinds,
   exit : {"none", "ok", "ordinary", "fatal", "interrupt", "killed"},
   sealed : BOOLEAN, attempted : BOOLEAN, finished : BOOLEAN, failed : BOOLEAN, primary : RaisedKinds,
   outcome : {"none", "ok", "settled", "other", "signal", "refused", "unknown", "dirty"},
   terminal : LaneTerminals, cancelled : BOOLEAN, fatal : BOOLEAN, contained : BOOLEAN,
   handlers : {"none", "active", "unknown", "restored"},
   files : {"none", "new", "acquiring", "acquired", "sealing", "prepared", "reading",
            "no_target", "observed", "disposed"},
   fence : {"none", "probing", "absent", "new", "acquiring", "pending", "retiring", "retired"},
   custody : {"none", "held", "closed", "broken"},
   snapshot : RoleStates, selection : RoleStates]

Lanes ==
  [at : {"none", "running", "gone"}, nested : BOOLEAN, wrote : BOOLEAN, error : BOOLEAN,
   terminal : LaneTerminals, code : {"none", "ok", "settled", "other", "signal"}]

TypeInv ==
  /\ call \in [Calls -> CallRecords] /\ lane \in [Calls -> Lanes]
  /\ outputs \in [Lane!Outs -> SUBSET Calls] /\ evidence \in SUBSET Calls

-----------------------------------------------------------------------------
(* One call, its lane and its own files.                                   *)

Live(l) == l.at = "running" \/ l.nested

\* Which owners a call has got so far.
Stages(s) ==
  /\ s.pc \in {"idle", "custody", "inputs"} => s.snapshot = "none"
  /\ s.pc \in {"idle", "custody", "inputs", "enter", "probe", "selection"} => s.selection = "none"
  /\ s.pc \in BeforeLane => s.files = "none" /\ s.fence = "none"
  /\ s.pc \in {"acquire", "fence"} => s.fence = "new"
  /\ s.pc \in {"environment", "admit", "seal", "running", "terminal"} => s.fence = "pending"
  /\ s.pc \in BeforeLane \cup {"acquire", "fence", "environment", "admit", "seal"} => ~s.attempted
  /\ s.pc \in {"running", "terminal"} => s.attempted /\ s.terminal = "none"
  /\ s.pc = "running" => s.outcome = "none"
  /\ ~s.attempted => s.outcome = "none" /\ s.terminal = "none"
  /\ s.attempted => s.fence \in {"pending", "retiring", "retired"}
  /\ s.fence \in {"retiring", "retired"} => s.pc \in Over \cup {"dead"}

\* What a call that is over, and has seen nothing fatal, has left behind.
Settled(s) ==
  /\ s.pc \in Over /\ ~s.fatal =>
       /\ s.custody = "closed" /\ Lane!RoleClosed(s, "snapshot") /\ Lane!RoleClosed(s, "selection")
       /\ Lane!DependentsSettled(s) /\ s.files \in {"none", "disposed"}
       /\ s.fence \in {"none", "new", "absent", "retired"}
  /\ s.exit \in {"ok", "ordinary"} => s.pc = "done" /\ ~s.fatal
  /\ s.pc = "publish" => /\ s.outcome = "ok" /\ s.terminal = "receipt" /\ ~s.fatal
                         /\ s.files = "disposed" /\ s.fence = "retired"

\* What the record of a call says of its lane is so.
LaneFacts(s, l) ==
  /\ l.at = "none" => ~l.nested /\ ~l.wrote /\ l.terminal = "none" /\ l.code = "none"
  /\ ~s.attempted => l.at = "none"
  /\ l.nested => l.terminal = "none"
  /\ l.at = "running" => l.code = "none"
  /\ l.at = "gone" => l.code # "none"
  /\ l.code = "ok" => l.terminal = "receipt"
  /\ l.code = "settled" => l.terminal = "failed"
  /\ l.terminal = "receipt" => l.wrote
  /\ s.outcome = "refused" => l.at = "none"
  /\ s.outcome \in {"ok", "settled", "other", "signal"} => l.code = s.outcome
  /\ s.terminal # "none" => s.outcome \in {"ok", "settled"} /\ s.terminal = l.terminal

\* d, i, j: the directory, the snapshot and the selection of the call exist.
Custodied(s, l, d, i, j) ==
  /\ s.files \in {"none", "new", "disposed"} => ~d
  /\ Lane!RoleClosed(s, "snapshot") => ~i
  /\ Lane!RoleClosed(s, "selection") => ~j
  /\ s.pc \in Opening => d
  /\ s.pc \in {"enter", "probe", "selection", "validate", "reserve", "acquire"} \cup Opening => i
  /\ s.pc \in {"validate", "reserve", "acquire"} \cup Opening => j
  /\ Live(l) => d /\ i /\ j /\ s.fence = "pending"

\* e: the call wrote final evidence.
Receipted(s, e) ==
  e => /\ s.pc \in {"restore", "done", "dead"} /\ s.outcome = "ok" /\ s.terminal = "receipt"
       /\ s.files = "disposed" /\ s.fence = "retired" /\ s.custody = "closed"
       /\ Lane!RoleClosed(s, "snapshot") /\ Lane!RoleClosed(s, "selection")

SoundLane(s, l, d, i, j, e) ==
  Stages(s) /\ Settled(s) /\ LaneFacts(s, l) /\ Custodied(s, l, d, i, j) /\ Receipted(s, e)

SoundCall(c) ==
  SoundLane(call[c], lane[c], c \in dirs, <<c, "snapshot">> \in inputs, <<c, "selection">> \in inputs,
        c \in evidence)

-----------------------------------------------------------------------------
(* All the calls.                                                          *)

MarkersInv ==
  \A c \in Calls :
    /\ call[c].fence = "pending" => Lane!Marker(c) \in markers
    /\ call[c].fence = "pending" =>
         \A d \in Calls : call[d].fence = "pending" /\ Lane!Marker(d) = Lane!Marker(c) => d = c
    /\ call[c].fence = "retired" /\ Lane!Marker(c) \in markers =>
         \E d \in Calls \ {c} : Lane!Marker(d) = Lane!Marker(c) /\ call[d].fence # "none"

OutputsInv == \A c \in Calls : lane[c].wrote => outputs[call[c].req.out] = {c}

LaneInv == TypeInv /\ (\A c \in Calls : SoundCall(c)) /\ MarkersInv /\ OutputsInv

-----------------------------------------------------------------------------
(* The operators on the record of a call: which fields each of them leaves *)
(* as they are.                                                            *)

\* What only the step of an owner, or of the command, changes.
SameFacts(r, s) ==
  /\ r.req = s.req /\ r.exit = s.exit /\ r.attempted = s.attempted /\ r.outcome = s.outcome
  /\ r.terminal = s.terminal /\ r.contained = s.contained /\ r.files = s.files
  /\ r.fence = s.fence /\ r.custody = s.custody /\ r.snapshot = s.snapshot
  /\ r.selection = s.selection

SameButExit(r, s) ==
  /\ r.req = s.req /\ r.attempted = s.attempted /\ r.outcome = s.outcome
  /\ r.terminal = s.terminal /\ r.contained = s.contained /\ r.files = s.files
  /\ r.fence = s.fence /\ r.custody = s.custody /\ r.snapshot = s.snapshot
  /\ r.selection = s.selection

\* The verdict of the record is kept.
SameVerdict(r, s) == r.failed = s.failed /\ r.fatal = s.fatal /\ r.finished = s.finished

LEMMA RememberingKeeps ==
  ASSUME NEW s \in CallRecords, NEW k \in RaisedKinds
  PROVE  /\ Lane!Remember(s, k) \in CallRecords /\ Lane!Remember(s, k).pc = s.pc
         /\ SameFacts(Lane!Remember(s, k), s) /\ SameVerdict(Lane!Remember(s, k), s)
  BY DEF CallRecords, Lane!Remember, SameFacts, SameVerdict

LEMMA AbortKeeps ==
  ASSUME NEW s \in CallRecords
  PROVE  /\ Lane!Abort(s) \in CallRecords /\ Lane!Abort(s).pc = s.pc /\ Lane!Abort(s).fatal
         /\ SameFacts(Lane!Abort(s), s) /\ Lane!Abort(s).failed = s.failed /\ Lane!Abort(s).finished = s.finished
  BY DEF CallRecords, Lane!Abort, SameFacts

LEMMA LatchedKeeps ==
  ASSUME NEW s \in CallRecords, NEW k \in RaisedKinds
  PROVE  /\ Lane!Latched(s, k) \in CallRecords /\ Lane!Latched(s, k).pc = s.pc
         /\ SameFacts(Lane!Latched(s, k), s) /\ SameVerdict(Lane!Latched(s, k), s)
  <1> DEFINE t == [s EXCEPT !.cancelled = TRUE]
  <1>1. t \in CallRecords /\ t.pc = s.pc /\ SameFacts(t, s) /\ SameVerdict(t, s)
    BY DEF CallRecords, SameFacts, SameVerdict
  <1>2. Lane!Latched(s, k) = IF k = "interrupt" THEN t ELSE s
    BY DEF Lane!Latched
  <1> HIDE DEF t
  <1> QED BY <1>1, <1>2 DEF SameFacts, SameVerdict

LEMMA RaiseKeeps ==
  ASSUME NEW s \in CallRecords, NEW k \in RaisedKinds,
         NEW q \in Closing \cup Over
  PROVE  /\ Lane!Raise(s, k, q) \in CallRecords /\ Lane!Raise(s, k, q).pc = q
         /\ SameFacts(Lane!Raise(s, k, q), s) /\ SameVerdict(Lane!Raise(s, k, q), s)
  <1> DEFINE t == Lane!Latched(s, k)
  <1>1. t \in CallRecords /\ SameFacts(t, s) /\ SameVerdict(t, s)
    BY LatchedKeeps
  <1>2. Lane!Raise(s, k, q) = [t EXCEPT !.raised = IF @ = "none" THEN k ELSE @, !.pc = q]
    BY DEF Lane!Raise
  <1> HIDE DEF t
  <1> DEFINE w == IF t.raised = "none" THEN k ELSE t.raised
  <1>3. w \in RaisedKinds
    BY <1>1 DEF CallRecords
  <1>4. Lane!Raise(s, k, q) = [t EXCEPT !.raised = w, !.pc = q]
    BY <1>2
  <1> HIDE DEF w
  <1>5. Lane!Raise(s, k, q) \in CallRecords /\ Lane!Raise(s, k, q).pc = q
    BY ZenonT(60), <1>1, <1>3, <1>4 DEF CallRecords
  <1>6. SameFacts(Lane!Raise(s, k, q), t) /\ SameVerdict(Lane!Raise(s, k, q), t)
    BY <1>1, <1>4 DEF CallRecords, SameFacts, SameVerdict
  <1> QED BY <1>1, <1>5, <1>6 DEF SameFacts, SameVerdict

LEMMA RecordFailureKeeps ==
  ASSUME NEW s \in CallRecords, NEW k \in RaisedKinds
  PROVE  /\ Lane!RecordFailure(s, k) \in CallRecords /\ Lane!RecordFailure(s, k).pc = s.pc
         /\ SameFacts(Lane!RecordFailure(s, k), s)
         /\ Lane!RecordFailure(s, k).failed /\ Lane!RecordFailure(s, k).fatal
         /\ Lane!RecordFailure(s, k).finished = s.finished
  <1> DEFINE f == [s EXCEPT !.failed = TRUE]
  <1>1. /\ f \in CallRecords /\ f.pc = s.pc /\ SameFacts(f, s) /\ f.failed
        /\ f.finished = s.finished
    BY DEF CallRecords, SameFacts
  <1> HIDE DEF f
  <1>2. /\ Lane!Remember(f, k) \in CallRecords /\ Lane!Remember(f, k).pc = f.pc
        /\ SameFacts(Lane!Remember(f, k), f) /\ SameVerdict(Lane!Remember(f, k), f)
    BY <1>1, RememberingKeeps
  <1>3. Lane!RecordFailure(s, k) = Lane!Abort(Lane!Remember(f, k))
    BY DEF Lane!RecordFailure, f
  <1> DEFINE g == Lane!Remember(f, k)
  <1>4. /\ Lane!Abort(g) \in CallRecords /\ Lane!Abort(g).pc = g.pc /\ Lane!Abort(g).fatal
        /\ SameFacts(Lane!Abort(g), g) /\ Lane!Abort(g).failed = g.failed /\ Lane!Abort(g).finished = g.finished
    BY <1>2, AbortKeeps
  <1> HIDE DEF g
  <1> QED BY <1>1, <1>2, <1>3, <1>4 DEF SameFacts, SameVerdict, g

\* A record that was failed, or fatal, stays so.
Worse(r, s) == (s.failed => r.failed) /\ (s.fatal => r.fatal) /\ (s.finished => r.finished)

LEMMA FinishKeeps ==
  ASSUME NEW s \in CallRecords, NEW k \in RaisedKinds
  PROVE  /\ Lane!Finish(s, k) \in CallRecords /\ Lane!Finish(s, k).pc = s.pc
         /\ SameFacts(Lane!Finish(s, k), s) /\ Worse(Lane!Finish(s, k), s)
  <1> DEFINE r == IF k = "none" THEN s ELSE Lane!Remember(s, k)
             f == [r EXCEPT !.finished = TRUE]
  <1>1. r \in CallRecords /\ r.pc = s.pc /\ SameFacts(r, s) /\ SameVerdict(r, s)
    BY RememberingKeeps DEF SameFacts, SameVerdict
  <1>2. Lane!Finish(s, k) = IF r.finished THEN r
                       ELSE IF ~f.failed /\ Lane!Complete(f) THEN f ELSE Lane!RecordFailure(f, "lifetime")
    BY DEF Lane!Finish
  <1> HIDE DEF r
  <1>3. f \in CallRecords /\ f.pc = s.pc /\ SameFacts(f, s) /\ Worse(f, s)
    BY ZenonT(60), <1>1 DEF CallRecords, SameFacts, SameVerdict, Worse
  <1> HIDE DEF f
  <1>4. /\ Lane!RecordFailure(f, "lifetime") \in CallRecords /\ Lane!RecordFailure(f, "lifetime").pc = s.pc
        /\ SameFacts(Lane!RecordFailure(f, "lifetime"), s) /\ Worse(Lane!RecordFailure(f, "lifetime"), s)
    BY <1>3, RecordFailureKeeps DEF SameFacts, Worse, RaisedKinds
  <1> QED BY <1>1, <1>2, <1>3, <1>4 DEF SameVerdict, Worse

LEMMA ProjectedKind ==
  ASSUME NEW s \in CallRecords, NEW k \in RaisedKinds
  PROVE  Lane!Projected(s, k) \in RaisedKinds
  BY DEF Lane!Projected, RaisedKinds

LEMMA CloseErrorKeeps ==
  ASSUME NEW s \in CallRecords, NEW k \in RaisedKinds
  PROVE  /\ Lane!CloseError(s, k) \in CallRecords /\ Lane!CloseError(s, k).pc = s.pc /\ Lane!CloseError(s, k).fatal
         /\ SameFacts(Lane!CloseError(s, k), s) /\ Worse(Lane!CloseError(s, k), s)
  <1> DEFINE r == Lane!Abort(Lane!Remember(s, k))
  <1>1. /\ r \in CallRecords /\ r.pc = s.pc /\ r.fatal /\ SameFacts(r, s)
        /\ r.failed = s.failed /\ r.finished = s.finished
    BY RememberingKeeps, AbortKeeps DEF SameFacts, SameVerdict
  <1>2. Lane!CloseError(s, k) = [r EXCEPT !.raised = IF @ = "none" THEN Lane!Projected(r, k) ELSE @]
    BY DEF Lane!CloseError
  <1> HIDE DEF r
  <1>3. Lane!Projected(r, k) \in RaisedKinds
    BY <1>1, ProjectedKind
  <1> QED BY <1>1, <1>2, <1>3 DEF CallRecords, SameFacts, Worse

LEMMA CheckErrorKind ==
  ASSUME NEW s PROVE Lane!CheckError(s) \in RaisedKinds
  BY DEF Lane!CheckError, RaisedKinds

-----------------------------------------------------------------------------
(* The frame: a step of one call.                                          *)

\* A call whose dependents are settled has no lane and no native upload.
LEMMA NotLive ==
  ASSUME NEW s \in CallRecords, NEW r \in CallRecords, NEW l \in Lanes, Stages(s), LaneFacts(s, l),
         r.attempted = s.attempted, r.outcome = s.outcome, r.terminal = s.terminal,
         Lane!DependentsSettled(r)
  PROVE  ~Live(l)
  <1>1. s.attempted => s.outcome # "none" /\ (s.outcome = "refused" \/ s.terminal # "none")
    BY DEF Lane!DependentsSettled, Lane!Complete, Lane!HasOutcome
  <1>2. CASE ~s.attempted
    BY <1>2 DEF LaneFacts, Live, Lanes
  <1>3. CASE s.attempted /\ s.outcome = "refused"
    BY <1>3 DEF LaneFacts, Live, Lanes
  <1>4. CASE s.attempted /\ s.terminal # "none"
    <2>1. l.terminal # "none" /\ l.code # "none"
      BY <1>4 DEF LaneFacts
    <2> QED BY <2>1 DEF LaneFacts, Live, Lanes
  <1> QED BY <1>1, <1>2, <1>3, <1>4

\* The files and the evidence of the other calls stay as they are.
OthersKeep(c) ==
  /\ evidence' \in SUBSET Calls
  /\ \A d \in Calls \ {c} :
       /\ d \in dirs' <=> d \in dirs
       /\ <<d, "snapshot">> \in inputs' <=> <<d, "snapshot">> \in inputs
       /\ <<d, "selection">> \in inputs' <=> <<d, "selection">> \in inputs
       /\ d \in evidence' <=> d \in evidence

LEMMA OneCallMoves ==
  ASSUME LaneInv, NEW c \in Calls, NEW r \in CallRecords, r.req = call[c].req,
         call' = [call EXCEPT ![c] = r], UNCHANGED <<lane, outputs>>, OthersKeep(c),
         SoundLane(r, lane[c], c \in dirs', <<c, "snapshot">> \in inputs', <<c,
            "selection">> \in inputs',
               c \in evidence')
  PROVE  /\ TypeInv' /\ (\A d \in Calls : SoundCall(d))' /\ OutputsInv'
         /\ \A d \in Calls : Lane!Marker(d)' = Lane!Marker(d)
         /\ \A d \in Calls : call'[d] = IF d = c THEN r ELSE call[d]
  <1>1. \A d \in Calls : call'[d] = IF d = c THEN r ELSE call[d]
    BY DEF LaneInv, TypeInv
  <1>2. TypeInv'
    BY DEF LaneInv, TypeInv, OthersKeep
  <1>3. \A d \in Calls : call'[d].req = call[d].req
    BY <1>1
  <1>4. OutputsInv'
    BY <1>3 DEF LaneInv, OutputsInv
  <1>5. ASSUME NEW d \in Calls PROVE SoundCall(d)'
    <2>1. CASE d = c
      <3>1. call'[d] = r /\ lane'[d] = lane[c]
        BY <1>1, <2>1
      <3> QED BY <2>1, <3>1 DEF SoundCall
    <2>2. CASE d # c
      <3>1. /\ call'[d] = call[d] /\ lane' = lane /\ (d \in dirs' <=> d \in dirs)
            /\ (<<d, "snapshot">> \in inputs' <=> <<d, "snapshot">> \in inputs)
            /\ (<<d, "selection">> \in inputs' <=> <<d, "selection">> \in inputs)
            /\ (d \in evidence' <=> d \in evidence)
        BY <1>1, <2>2 DEF OthersKeep
      <3>2. SoundCall(d)
        BY DEF LaneInv
      <3> QED BY <3>1, <3>2 DEF SoundCall, SoundLane, Custodied, Receipted
    <2> QED BY <2>1, <2>2
  <1>6. \A d \in Calls : Lane!Marker(d)' = Lane!Marker(d)
    BY <1>3 DEF Lane!Marker
  <1> QED BY <1>1, <1>2, <1>4, <1>5, <1>6

\* A step that touches no marker, and takes or gives up none.
LEMMA QuietMove ==
  ASSUME LaneInv, NEW c \in Calls, NEW r \in CallRecords, r.req = call[c].req,
         r.fence = call[c].fence \/ r.fence \notin {"none", "pending", "retired"},
         call' = [call EXCEPT ![c] = r], UNCHANGED <<lane, outputs, markers>>, OthersKeep(c),
         SoundLane(r, lane[c], c \in dirs', <<c, "snapshot">> \in inputs', <<c,
            "selection">> \in inputs',
               c \in evidence')
  PROVE  LaneInv'
  <1>1. /\ TypeInv' /\ (\A d \in Calls : SoundCall(d))' /\ OutputsInv'
        /\ \A d \in Calls : Lane!Marker(d)' = Lane!Marker(d)
        /\ \A d \in Calls : call'[d] = IF d = c THEN r ELSE call[d]
    BY OneCallMoves
  <1>2. \A d \in Calls : /\ call'[d].fence = "pending" => call[d].fence = "pending"
                         /\ call'[d].fence = "retired" => call[d].fence = "retired"
                         /\ call[d].fence # "none" => call'[d].fence # "none"
    BY <1>1
  <1>3. MarkersInv'
    BY <1>1, <1>2 DEF LaneInv, MarkersInv
  <1> QED BY <1>1, <1>3 DEF LaneInv

\* The usual step: nothing on the disk changes, and no evidence is written.
LEMMA MemoryMove ==
  ASSUME LaneInv, NEW c \in Calls, NEW r \in CallRecords, r.req = call[c].req,
         r.fence = call[c].fence \/ r.fence \notin {"none", "pending", "retired"},
         call' = [call EXCEPT ![c] = r], UNCHANGED Lane!disk, UNCHANGED <<lane, outputs, evidence>>,
         SoundLane(r, lane[c], c \in dirs, <<c, "snapshot">> \in inputs, <<c, "selection">> \in inputs,
               c \in evidence)
  PROVE  LaneInv'
  <1>1. OthersKeep(c)
    BY DEF LaneInv, TypeInv, OthersKeep, Lane!disk
  <1> QED BY <1>1, QuietMove DEF Lane!disk

\* The error of a check, and that of a failed step, as a kind.
LEMMA ErrorKinds == Lane!Errors \subseteq RaisedKinds /\ "lifetime" \in RaisedKinds
  BY DEF Lane!Errors, RaisedKinds

LEMMA CallTypes ==
  ASSUME LaneInv, NEW c \in Calls
  PROVE  call[c] \in CallRecords /\ lane[c] \in Lanes /\ SoundCall(c)
  BY DEF LaneInv, TypeInv

\* A step on the way out, up to the settlement: what the call still has it has noted.
LEMMA ClosingSound ==
  ASSUME LaneInv, NEW c \in Calls, NEW r \in CallRecords, NEW s \in CallRecords, s = call[c],
         s.pc \notin Over \cup {"dead"}, r.pc \in Closing \ {"terminal"},
         r.req = s.req, r.exit = s.exit, r.attempted = s.attempted, r.outcome = s.outcome,
         r.terminal = s.terminal,
         r.fence = s.fence \/ (~s.attempted /\ r.fence \in {"probing", "absent", "new", "acquiring"}),
         r.files \in {"none", "new", "disposed"} => c \notin dirs',
         Lane!RoleClosed(r, "snapshot") => <<c, "snapshot">> \notin inputs',
         Lane!RoleClosed(r, "selection") => <<c, "selection">> \notin inputs',
         Live(lane[c]) => c \in dirs' /\ <<c, "snapshot">> \in inputs' /\ <<c, "selection">> \in inputs',
         UNCHANGED <<lane, evidence>>
  PROVE  SoundLane(r, lane[c], c \in dirs', <<c, "snapshot">> \in inputs', <<c,
     "selection">> \in inputs',
               c \in evidence')
  <1>1. s \in CallRecords /\ lane[c] \in Lanes /\ SoundCall(c)
    BY CallTypes
  <1>2. Stages(r)
    BY <1>1 DEF SoundCall, SoundLane, Stages, CallRecords, Closing, Over, BeforeLane
  <1>3. s.exit \notin {"ok", "ordinary"}
    BY <1>1 DEF SoundCall, SoundLane, Settled, Over
  <1>4. Settled(r)
    BY <1>3 DEF Settled, Closing, Over
  <1>5. LaneFacts(r, lane[c])
    BY <1>1 DEF SoundCall, SoundLane, LaneFacts
  <1>6. Live(lane[c]) => r.fence = "pending"
    <2>1. Live(lane[c]) => s.fence = "pending" /\ s.attempted
      BY <1>1 DEF SoundCall, SoundLane, Custodied, LaneFacts, Live, Lanes
    <2> QED BY <2>1
  <1>7. Custodied(r, lane[c], c \in dirs', <<c, "snapshot">> \in inputs', <<c, "selection">> \in inputs')
    BY <1>6 DEF Custodied, Closing, Opening
  <1>8. c \notin evidence'
    BY <1>1 DEF SoundCall, SoundLane, Receipted, Over
  <1> QED BY <1>2, <1>4, <1>5, <1>7, <1>8 DEF SoundLane, Receipted

LEMMA ClosingMove ==
  ASSUME LaneInv, NEW c \in Calls, NEW r \in CallRecords, NEW s \in CallRecords, s = call[c],
         s.pc \notin Over \cup {"dead"}, r.pc \in Closing \ {"terminal"},
         r.req = s.req, r.exit = s.exit, r.attempted = s.attempted, r.outcome = s.outcome,
         r.terminal = s.terminal,
         r.fence = s.fence \/ (~s.attempted /\ r.fence \in {"probing", "absent", "new", "acquiring"}),
         r.files \in {"none", "new", "disposed"} => c \notin dirs',
         Lane!RoleClosed(r, "snapshot") => <<c, "snapshot">> \notin inputs',
         Lane!RoleClosed(r, "selection") => <<c, "selection">> \notin inputs',
         Live(lane[c]) => c \in dirs' /\ <<c, "snapshot">> \in inputs' /\ <<c, "selection">> \in inputs',
         call' = [call EXCEPT ![c] = r], UNCHANGED <<lane, outputs, evidence, markers>>, OthersKeep(c)
  PROVE  LaneInv'
  <1>1. SoundLane(r, lane[c], c \in dirs', <<c, "snapshot">> \in inputs', <<c, "selection">> \in inputs',
              c \in evidence')
    BY ClosingSound
  <1>2. r.fence = s.fence \/ r.fence \notin {"none", "pending", "retired"}
    OBVIOUS
  <1> QED BY <1>1, <1>2, QuietMove

\* The same where only the memory of the call changes.
LEMMA ClosingMemory ==
  ASSUME LaneInv, NEW c \in Calls, NEW r \in CallRecords, NEW s \in CallRecords, s = call[c],
         s.pc \notin Over \cup {"dead"}, r.pc \in Closing \ {"terminal"},
         r.req = s.req, r.exit = s.exit, r.attempted = s.attempted, r.outcome = s.outcome,
         r.terminal = s.terminal,
         r.fence = s.fence \/ (~s.attempted /\ r.fence \in {"probing", "absent", "new", "acquiring"}),
         r.files \in {"none", "new", "disposed"} => s.files \in {"none", "new", "disposed"},
         Lane!RoleClosed(r, "snapshot") => Lane!RoleClosed(s, "snapshot"),
         Lane!RoleClosed(r, "selection") => Lane!RoleClosed(s, "selection"),
         call' = [call EXCEPT ![c] = r], UNCHANGED Lane!disk, UNCHANGED <<lane, outputs, evidence>>
  PROVE  LaneInv'
  <1>1. SoundCall(c)
    BY CallTypes
  <1>2. Custodied(s, lane[c], c \in dirs', <<c, "snapshot">> \in inputs', <<c, "selection">> \in inputs')
    BY <1>1 DEF SoundCall, SoundLane, Lane!disk
  <1>3. OthersKeep(c)
    BY DEF LaneInv, TypeInv, OthersKeep, Lane!disk
  <1>4. /\ r.files \in {"none", "new", "disposed"} => c \notin dirs'
        /\ Lane!RoleClosed(r, "snapshot") => <<c, "snapshot">> \notin inputs'
        /\ Lane!RoleClosed(r, "selection") => <<c, "selection">> \notin inputs'
        /\ Live(lane[c]) => c \in dirs' /\ <<c, "snapshot">> \in inputs' /\ <<c, "selection">> \in inputs'
    BY <1>2 DEF Custodied
  <1>5. UNCHANGED <<lane, outputs, evidence, markers>>
    BY DEF Lane!disk
  <1> QED BY <1>3, <1>4, <1>5, ClosingMove

\* An error on its way out, with nothing else.
LEMMA Raises ==
  ASSUME LaneInv, NEW c \in Calls, NEW k \in RaisedKinds, NEW q \in Closing \ {"terminal"},
         call[c].pc \notin Over \cup {"dead"}, Lane!Becomes(c, Lane!Raise(call[c], k, q)),
         UNCHANGED Lane!disk, Lane!Kept
  PROVE  LaneInv'
  <1> DEFINE r == Lane!Raise(call[c], k, q)
  <1>1. call[c] \in CallRecords
    BY CallTypes
  <1>2. r \in CallRecords /\ r.pc = q /\ SameFacts(r, call[c])
    BY <1>1, RaiseKeeps
  <1>3. call' = [call EXCEPT ![c] = r] /\ UNCHANGED <<lane, outputs, evidence>>
    BY DEF Lane!Becomes, Lane!Kept
  <1> HIDE DEF r
  <1> QED BY <1>1, <1>2, <1>3, ClosingMemory DEF SameFacts, Lane!RoleClosed

\* The step of an owner fails: its error goes out and the record is failed.
LEMMA FailedRaise ==
  ASSUME NEW s \in CallRecords, NEW k \in RaisedKinds, NEW q \in Closing \cup Over
  PROVE  /\ Lane!RecordFailure(Lane!Raise(s, k, q), k) \in CallRecords
         /\ Lane!RecordFailure(Lane!Raise(s, k, q), k).pc = q
         /\ SameFacts(Lane!RecordFailure(Lane!Raise(s, k, q), k), s)
  <1>1. /\ Lane!Raise(s, k, q) \in CallRecords /\ Lane!Raise(s, k, q).pc = q /\ SameFacts(Lane!Raise(s, k, q), s)
    BY RaiseKeeps
  <1> QED BY <1>1, RecordFailureKeeps DEF SameFacts

LEMMA FinishedRaise ==
  ASSUME NEW s \in CallRecords, NEW k \in RaisedKinds, NEW q \in Closing \cup Over
  PROVE  /\ Lane!Finish(Lane!Raise(s, k, q), k) \in CallRecords /\ Lane!Finish(Lane!Raise(s, k, q), k).pc = q
         /\ SameFacts(Lane!Finish(Lane!Raise(s, k, q), k), s)
  <1>1. /\ Lane!Raise(s, k, q) \in CallRecords /\ Lane!Raise(s, k, q).pc = q /\ SameFacts(Lane!Raise(s, k, q), s)
    BY RaiseKeeps
  <1> QED BY <1>1, FinishKeeps DEF SameFacts

\* A record at another stage.
LEMMA StageMoves ==
  ASSUME NEW s \in CallRecords, NEW q \in BeforeLane \cup {"acquire",
     "dead"} \cup Opening \cup Closing \cup Over
  PROVE  LET r == [s EXCEPT !.pc = q] IN
         /\ r \in CallRecords /\ r.pc = q /\ SameFacts(r, s) /\ SameVerdict(r, s)
  BY DEF CallRecords, SameFacts, SameVerdict

\* Before its command is admitted a call has no lane.
LEMMA NoLaneYet ==
  ASSUME LaneInv, NEW c \in Calls, ~call[c].attempted
  PROVE  ~Live(lane[c])
  <1>1. LaneFacts(call[c], lane[c]) /\ lane[c] \in Lanes
    BY CallTypes DEF SoundCall, SoundLane
  <1> QED BY <1>1 DEF LaneFacts, Live, Lanes

-----------------------------------------------------------------------------
(* Before the lane.                                                        *)

LEMMA StepStart == ASSUME LaneInv, NEW c \in Calls, Lane!Start(c) PROVE LaneInv'
  <1>1. call[c] \in CallRecords /\ SoundCall(c) /\ lane[c] \in Lanes /\ call[c].pc = "idle"
    BY CallTypes DEF Lane!Start, Lane!At
  <1>2. UNCHANGED Lane!disk /\ UNCHANGED <<lane, outputs, evidence>>
    BY DEF Lane!Start, Lane!Kept
  <1>3. CASE Lane!Goes(c, [call[c] EXCEPT !.handlers = "active"], "custody")
    <2> DEFINE r == [call[c] EXCEPT !.handlers = "active", !.pc = "custody"]
    <2>1. /\ r \in CallRecords /\ r.pc = "custody" /\ SameFacts(r, call[c])
          /\ call' = [call EXCEPT ![c] = r]
      BY ZenonT(60), <1>1, <1>3 DEF CallRecords, SameFacts, Lane!Goes, Lane!Becomes, BeforeLane
    <2> HIDE DEF r
    <2>2. Stages(r) /\ Settled(r) /\ LaneFacts(r, lane[c])
      BY <1>1, <2>1 DEF SoundCall, SoundLane, SameFacts, Stages, Settled, LaneFacts, BeforeLane, Over
    <2>3. /\ Receipted(r, c \in evidence)
          /\ Custodied(r, lane[c], c \in dirs, <<c, "snapshot">> \in inputs, <<c, "selection">> \in inputs)
      BY <1>1, <2>1 DEF SoundCall, SoundLane, SameFacts, Custodied, Receipted, Opening, Lane!RoleClosed
    <2> QED BY <1>2, <2>1, <2>2, <2>3, MemoryMove DEF SoundLane, SameFacts
  <1>4. CASE Lane!Becomes(c, Lane!Abort([call[c] EXCEPT !.handlers = "unknown", !.pc = "done",
     !.exit = "fatal"]))
    <2> DEFINE t == [call[c] EXCEPT !.handlers = "unknown", !.pc = "done", !.exit = "fatal"]
               r == Lane!Abort(t)
    <2>7. t \in CallRecords
      BY ZenonT(60), <1>1 DEF CallRecords, Over
    <2>8. t.pc = "done" /\ t.exit = "fatal"
      BY <1>1 DEF CallRecords
    <2>9. SameButExit(t, call[c])
      BY <1>1 DEF CallRecords, SameButExit
    <2>1. /\ t \in CallRecords /\ t.pc = "done" /\ t.exit = "fatal"
          /\ SameButExit(t, call[c])
      BY <2>7, <2>8, <2>9
    <2> HIDE DEF t
    <2>2. r \in CallRecords /\ r.pc = "done" /\ r.fatal /\ r.exit = "fatal" /\ SameFacts(r, t)
      BY <2>1, AbortKeeps DEF SameFacts
    <2>3. SameButExit(r, call[c])
      BY <1>1, <2>1, <2>2 DEF SameFacts, SameButExit, CallRecords
    <2>4. call' = [call EXCEPT ![c] = r]
      BY <1>4 DEF Lane!Becomes, t
    <2> HIDE DEF r
    <2>5. Stages(r) /\ Settled(r) /\ LaneFacts(r, lane[c])
      BY <1>1, <2>2, <2>3 DEF SoundCall, SoundLane, SameButExit, Stages, Settled, LaneFacts,
         BeforeLane, Over
    <2>6. /\ Receipted(r, c \in evidence)
          /\ Custodied(r, lane[c], c \in dirs, <<c, "snapshot">> \in inputs, <<c, "selection">> \in inputs)
      BY <1>1, <2>2, <2>3 DEF SoundCall, SoundLane, SameButExit, Custodied, Receipted, Opening,
         Lane!RoleClosed
    <2> QED BY <1>2, <2>2, <2>3, <2>4, <2>5, <2>6, MemoryMove DEF SoundLane, SameButExit
  <1> QED BY <1>3, <1>4 DEF Lane!Start

LEMMA StepInputs == ASSUME LaneInv, NEW c \in Calls, Lane!Inputs(c) PROVE LaneInv'
  <1> DEFINE s == call[c]
             f(k) == Lane!Finish(Lane!Raise(s, k, "close"), k)
             fails(k, left) == [f(k) EXCEPT !.snapshot = left]
  <1>1. /\ s \in CallRecords /\ SoundCall(c) /\ lane[c] \in Lanes
        /\ s.pc = "inputs" /\ s.snapshot = "none" /\ ~s.attempted /\ ~Live(lane[c])
    BY CallTypes, NoLaneYet DEF Lane!Inputs, Lane!At, SoundCall, SoundLane, Stages, BeforeLane
  <1>2. UNCHANGED <<lane, outputs, evidence>>
    BY DEF Lane!Inputs, Lane!Kept
  <1>3. ASSUME NEW k \in RaisedKinds, NEW left \in {"kept", "closed"}
        PROVE  /\ fails(k, left) \in CallRecords /\ fails(k, left).pc = "close"
               /\ fails(k, left).snapshot = left /\ fails(k, left).selection = s.selection
               /\ fails(k, left).req = s.req /\ fails(k, left).exit = s.exit
               /\ fails(k, left).attempted = s.attempted /\ fails(k, left).outcome = s.outcome
               /\ fails(k, left).terminal = s.terminal /\ fails(k, left).fence = s.fence
               /\ fails(k, left).files = s.files
    <2>1. f(k) \in CallRecords /\ f(k).pc = "close" /\ SameFacts(f(k), s)
      BY <1>1, FinishedRaise DEF Closing
    <2> HIDE DEF f
    <2> QED BY <2>1 DEF CallRecords, RoleStates, SameFacts
  <1> HIDE DEF f
  <1>4. CASE inputs' = inputs \cup {<<c, "snapshot">>} /\ UNCHANGED <<markers, dirs>>
             /\ Lane!Goes(c, [s EXCEPT !.snapshot = "made"], "enter")
    <2> DEFINE r == [s EXCEPT !.snapshot = "made", !.pc = "enter"]
    <2>1. /\ r \in CallRecords /\ r.pc = "enter" /\ r.snapshot = "made" /\ r.selection = s.selection
          /\ r.req = s.req /\ r.exit = s.exit /\ r.attempted = s.attempted /\ r.outcome = s.outcome
          /\ r.terminal = s.terminal /\ r.fence = s.fence /\ r.files = s.files
          /\ call' = [call EXCEPT ![c] = r]
      BY ZenonT(60), <1>1, <1>4 DEF CallRecords, RoleStates, Lane!Goes, Lane!Becomes, BeforeLane
    <2> HIDE DEF r
    <2>2. Stages(r) /\ Settled(r) /\ LaneFacts(r, lane[c])
      BY <1>1, <2>1 DEF SoundCall, SoundLane, Stages, Settled, LaneFacts, BeforeLane, Over
    <2>3. /\ <<c, "snapshot">> \in inputs' /\ c \notin evidence'
          /\ <<c, "selection">> \in inputs' <=> <<c, "selection">> \in inputs
          /\ c \in dirs' <=> c \in dirs
      BY <1>1, <1>2, <1>4 DEF SoundCall, SoundLane, Receipted
    <2>4. /\ Receipted(r, c \in evidence')
          /\ Custodied(r, lane[c], c \in dirs', <<c, "snapshot">> \in inputs', <<c, "selection">> \in inputs')
      BY <1>1, <2>1, <2>3 DEF SoundCall, SoundLane, Custodied, Receipted, Opening, Lane!RoleClosed,
         BeforeLane
    <2>5. OthersKeep(c) /\ UNCHANGED <<lane, outputs, markers>>
      BY <1>2, <1>4 DEF LaneInv, TypeInv, OthersKeep
    <2> QED BY <1>1, <2>1, <2>2, <2>4, <2>5, QuietMove DEF SoundLane
  <1>5. ASSUME NEW k \in RaisedKinds, Lane!Becomes(c, fails(k, "closed")), UNCHANGED Lane!disk
        PROVE  LaneInv'
    <2> DEFINE r == fails(k, "closed")
    <2>1. call' = [call EXCEPT ![c] = r]
      BY <1>5 DEF Lane!Becomes
    <2>2. /\ r \in CallRecords /\ r.pc = "close" /\ r.snapshot = "closed" /\ r.selection = s.selection
          /\ r.req = s.req /\ r.exit = s.exit /\ r.attempted = s.attempted /\ r.outcome = s.outcome
          /\ r.terminal = s.terminal /\ r.fence = s.fence /\ r.files = s.files
      BY <1>3
    <2> HIDE DEF r
    <2> QED BY <1>1, <1>2, <1>5, <2>1, <2>2, ClosingMemory DEF Closing, Over, Lane!RoleClosed
  <1>6. ASSUME NEW k \in RaisedKinds, Lane!Becomes(c, Lane!Abort(fails(k, "kept"))),
               inputs' \in Lane!MayExist(inputs, <<c, "snapshot">>), UNCHANGED <<markers, dirs>>
        PROVE  LaneInv'
    <2> DEFINE t == fails(k, "kept")
               r == Lane!Abort(t)
    <2>1. call' = [call EXCEPT ![c] = r]
      BY <1>6 DEF Lane!Becomes
    <2>6. /\ t \in CallRecords /\ t.pc = "close" /\ t.snapshot = "kept" /\ t.selection = s.selection
          /\ t.req = s.req /\ t.exit = s.exit /\ t.attempted = s.attempted /\ t.outcome = s.outcome
          /\ t.terminal = s.terminal /\ t.fence = s.fence /\ t.files = s.files
      BY <1>3
    <2> HIDE DEF t
    <2>2. /\ r \in CallRecords /\ r.pc = "close" /\ r.snapshot = "kept" /\ r.selection = s.selection
          /\ r.req = s.req /\ r.exit = s.exit /\ r.attempted = s.attempted /\ r.outcome = s.outcome
          /\ r.terminal = s.terminal /\ r.fence = s.fence /\ r.files = s.files
      BY <2>6, AbortKeeps DEF SameFacts
    <2> HIDE DEF r
    <2>3. Custodied(s, lane[c], c \in dirs, <<c, "snapshot">> \in inputs, <<c, "selection">> \in inputs)
      BY <1>1 DEF SoundCall, SoundLane
    <2>4. OthersKeep(c) /\ (<<c, "selection">> \in inputs' <=> <<c, "selection">> \in inputs)
      BY <1>2, <1>6 DEF LaneInv, TypeInv, OthersKeep, Lane!MayExist
    <2>5. /\ r.files \in {"none", "new", "disposed"} => c \notin dirs'
          /\ Lane!RoleClosed(r, "snapshot") => <<c, "snapshot">> \notin inputs'
          /\ Lane!RoleClosed(r, "selection") => <<c, "selection">> \notin inputs'
      BY <1>6, <2>2, <2>3, <2>4 DEF Custodied, Lane!RoleClosed
    <2> QED BY <1>1, <1>2, <1>6, <2>1, <2>2, <2>4, <2>5, ClosingMove DEF Closing, Over
  <1>7. Lane!CheckError(s) \in RaisedKinds /\ Lane!Errors \subseteq RaisedKinds
    BY CheckErrorKind, ErrorKinds
  <1> QED BY <1>4, <1>5, <1>6, <1>7 DEF Lane!Inputs, Lane!Makes, fails, f

LEMMA StepSelection == ASSUME LaneInv, NEW c \in Calls, Lane!Selection(c) PROVE LaneInv'
  <1> DEFINE s == call[c]
             f(k) == Lane!Finish(Lane!Raise(s, k, "inner"), k)
             fails(k, left) == [f(k) EXCEPT !.selection = left]
  <1>1. /\ s \in CallRecords /\ SoundCall(c) /\ lane[c] \in Lanes
        /\ s.pc = "selection" /\ s.selection = "none" /\ ~s.attempted /\ ~Live(lane[c])
    BY CallTypes, NoLaneYet DEF Lane!Selection, Lane!At, SoundCall, SoundLane, Stages, BeforeLane
  <1>2. UNCHANGED <<lane, outputs, evidence>>
    BY DEF Lane!Selection, Lane!Kept
  <1>3. ASSUME NEW k \in RaisedKinds, NEW left \in {"kept", "closed"}
        PROVE  /\ fails(k, left) \in CallRecords /\ fails(k, left).pc = "inner"
               /\ fails(k, left).selection = left /\ fails(k, left).snapshot = s.snapshot
               /\ fails(k, left).req = s.req /\ fails(k, left).exit = s.exit
               /\ fails(k, left).attempted = s.attempted /\ fails(k, left).outcome = s.outcome
               /\ fails(k, left).terminal = s.terminal /\ fails(k, left).fence = s.fence
               /\ fails(k, left).files = s.files
    <2>1. f(k) \in CallRecords /\ f(k).pc = "inner" /\ SameFacts(f(k), s)
      BY <1>1, FinishedRaise DEF Closing
    <2> HIDE DEF f
    <2> QED BY <2>1 DEF CallRecords, RoleStates, SameFacts
  <1> HIDE DEF f
  <1>4. CASE inputs' = inputs \cup {<<c, "selection">>} /\ UNCHANGED <<markers, dirs>>
             /\ Lane!Goes(c, [s EXCEPT !.selection = "made"], "validate")
    <2> DEFINE r == [s EXCEPT !.selection = "made", !.pc = "validate"]
    <2>1. /\ r \in CallRecords /\ r.pc = "validate" /\ r.selection = "made" /\ r.snapshot = s.snapshot
          /\ r.req = s.req /\ r.exit = s.exit /\ r.attempted = s.attempted /\ r.outcome = s.outcome
          /\ r.terminal = s.terminal /\ r.fence = s.fence /\ r.files = s.files
          /\ call' = [call EXCEPT ![c] = r]
      BY ZenonT(60), <1>1, <1>4 DEF CallRecords, RoleStates, Lane!Goes, Lane!Becomes, BeforeLane
    <2> HIDE DEF r
    <2>2. Stages(r) /\ Settled(r) /\ LaneFacts(r, lane[c])
      BY <1>1, <2>1 DEF SoundCall, SoundLane, Stages, Settled, LaneFacts, BeforeLane, Over
    <2>3. /\ <<c, "selection">> \in inputs' /\ c \notin evidence'
          /\ <<c, "snapshot">> \in inputs' <=> <<c, "snapshot">> \in inputs
          /\ c \in dirs' <=> c \in dirs
      BY <1>1, <1>2, <1>4 DEF SoundCall, SoundLane, Receipted
    <2>4. /\ Receipted(r, c \in evidence')
          /\ Custodied(r, lane[c], c \in dirs', <<c, "snapshot">> \in inputs', <<c, "selection">> \in inputs')
      BY <1>1, <2>1, <2>3 DEF SoundCall, SoundLane, Custodied, Receipted, Opening, Lane!RoleClosed,
         BeforeLane
    <2>5. OthersKeep(c) /\ UNCHANGED <<lane, outputs, markers>>
      BY <1>2, <1>4 DEF LaneInv, TypeInv, OthersKeep
    <2> QED BY <1>1, <2>1, <2>2, <2>4, <2>5, QuietMove DEF SoundLane
  <1>5. ASSUME NEW k \in RaisedKinds, Lane!Becomes(c, fails(k, "closed")), UNCHANGED Lane!disk
        PROVE  LaneInv'
    <2> DEFINE r == fails(k, "closed")
    <2>1. call' = [call EXCEPT ![c] = r]
      BY <1>5 DEF Lane!Becomes
    <2>2. /\ r \in CallRecords /\ r.pc = "inner" /\ r.selection = "closed" /\ r.snapshot = s.snapshot
          /\ r.req = s.req /\ r.exit = s.exit /\ r.attempted = s.attempted /\ r.outcome = s.outcome
          /\ r.terminal = s.terminal /\ r.fence = s.fence /\ r.files = s.files
      BY <1>3
    <2> HIDE DEF r
    <2> QED BY <1>1, <1>2, <1>5, <2>1, <2>2, ClosingMemory DEF Closing, Over, Lane!RoleClosed
  <1>6. ASSUME NEW k \in RaisedKinds, Lane!Becomes(c, Lane!Abort(fails(k, "kept"))),
               inputs' \in Lane!MayExist(inputs, <<c, "selection">>), UNCHANGED <<markers, dirs>>
        PROVE  LaneInv'
    <2> DEFINE t == fails(k, "kept")
               r == Lane!Abort(t)
    <2>1. call' = [call EXCEPT ![c] = r]
      BY <1>6 DEF Lane!Becomes
    <2>6. /\ t \in CallRecords /\ t.pc = "inner" /\ t.selection = "kept" /\ t.snapshot = s.snapshot
          /\ t.req = s.req /\ t.exit = s.exit /\ t.attempted = s.attempted /\ t.outcome = s.outcome
          /\ t.terminal = s.terminal /\ t.fence = s.fence /\ t.files = s.files
      BY <1>3
    <2> HIDE DEF t
    <2>2. /\ r \in CallRecords /\ r.pc = "inner" /\ r.selection = "kept" /\ r.snapshot = s.snapshot
          /\ r.req = s.req /\ r.exit = s.exit /\ r.attempted = s.attempted /\ r.outcome = s.outcome
          /\ r.terminal = s.terminal /\ r.fence = s.fence /\ r.files = s.files
      BY <2>6, AbortKeeps DEF SameFacts
    <2> HIDE DEF r
    <2>3. Custodied(s, lane[c], c \in dirs, <<c, "snapshot">> \in inputs, <<c, "selection">> \in inputs)
      BY <1>1 DEF SoundCall, SoundLane
    <2>4. OthersKeep(c) /\ (<<c, "snapshot">> \in inputs' <=> <<c, "snapshot">> \in inputs)
      BY <1>2, <1>6 DEF LaneInv, TypeInv, OthersKeep, Lane!MayExist
    <2>5. /\ r.files \in {"none", "new", "disposed"} => c \notin dirs'
          /\ Lane!RoleClosed(r, "snapshot") => <<c, "snapshot">> \notin inputs'
          /\ Lane!RoleClosed(r, "selection") => <<c, "selection">> \notin inputs'
      BY <1>6, <2>2, <2>3, <2>4 DEF Custodied, Lane!RoleClosed
    <2> QED BY <1>1, <1>2, <1>6, <2>1, <2>2, <2>4, <2>5, ClosingMove DEF Closing, Over
  <1>7. Lane!CheckError(s) \in RaisedKinds /\ Lane!Errors \subseteq RaisedKinds
    BY CheckErrorKind, ErrorKinds
  <1> QED BY <1>4, <1>5, <1>6, <1>7 DEF Lane!Selection, Lane!Makes, fails, f

LEMMA StepCustody == ASSUME LaneInv, NEW c \in Calls, Lane!Custody(c) PROVE LaneInv'
  <1> DEFINE s == call[c]
  <1>1. s \in CallRecords /\ SoundCall(c) /\ lane[c] \in Lanes /\ s.pc = "custody"
    BY CallTypes DEF Lane!Custody, Lane!At
  <1>2. UNCHANGED <<lane, outputs, evidence>>
    BY DEF Lane!Custody, Lane!Kept
  <1>3. CASE Lane!Goes(c, [s EXCEPT !.custody = "held"], "inputs") /\ UNCHANGED Lane!disk
    <2> DEFINE u == [s EXCEPT !.custody = "held"]
               r == [u EXCEPT !.pc = "inputs"]
    <2>1. call' = [call EXCEPT ![c] = r] /\ UNCHANGED Lane!disk
      BY <1>3 DEF Lane!Goes, Lane!Becomes
    <2>5. u \in CallRecords
      BY <1>1 DEF CallRecords, RoleStates, LaneTerminals
    <2>6. /\ u.custody = "held" /\ u.pc = s.pc /\ u.req = s.req /\ u.exit = s.exit
          /\ u.attempted = s.attempted /\ u.outcome = s.outcome /\ u.terminal = s.terminal
          /\ u.contained = s.contained /\ u.finished = s.finished /\ u.failed = s.failed
          /\ u.fatal = s.fatal /\ u.files = s.files /\ u.fence = s.fence
          /\ u.snapshot = s.snapshot /\ u.selection = s.selection
      BY <1>1 DEF CallRecords
    <2> HIDE DEF u
    <2>7. r \in CallRecords /\ r.pc = "inputs" /\ SameFacts(r, u) /\ SameVerdict(r, u)
      BY <2>5, StageMoves DEF BeforeLane, Opening, Closing, Over
    <2> HIDE DEF r
    <2>2. /\ r.custody = "held" /\ r.req = s.req /\ r.exit = s.exit /\ r.attempted = s.attempted
          /\ r.outcome = s.outcome /\ r.terminal = s.terminal /\ r.contained = s.contained
          /\ r.finished = s.finished /\ r.failed = s.failed /\ r.fatal = s.fatal
          /\ r.files = s.files /\ r.fence = s.fence /\ r.snapshot = s.snapshot
          /\ r.selection = s.selection
      BY <2>6, <2>7 DEF SameFacts, SameVerdict
    <2>3. Stages(r) /\ Settled(r) /\ LaneFacts(r, lane[c])
      BY <1>1, <1>3, <2>2, <2>7 DEF SoundCall, SoundLane, Stages, Settled, LaneFacts, Lane!RoleClosed,
         BeforeLane, Opening, Closing, Over,
         Lane!DependentsSettled, Lane!Complete, Lane!HasOutcome
    <2>4. /\ Receipted(r, c \in evidence)
          /\ Custodied(r, lane[c], c \in dirs, <<c, "snapshot">> \in inputs, <<c, "selection">> \in inputs)
      BY <1>1, <1>3, <2>2, <2>7 DEF SoundCall, SoundLane, Stages, Custodied, Receipted,
         Lane!RoleClosed, BeforeLane, Opening, Closing, Over
    <2>8. SoundLane(r, lane[c], c \in dirs, <<c, "snapshot">> \in inputs, <<c, "selection">> \in inputs,
                c \in evidence)
      BY <2>3, <2>4 DEF SoundLane
    <2>9. r.req = s.req /\ (r.fence = s.fence \/ r.fence \notin {"none", "pending", "retired"})
      BY <2>2
    <2> QED BY <1>1, <1>2, <2>1, <2>7, <2>8, <2>9, MemoryMove
  <1>4. ASSUME NEW k \in RaisedKinds
        PROVE  LET f == Lane!Finish(Lane!Raise(s, k, "close"), k) IN
               f \in CallRecords /\ f.pc = "close" /\ SameFacts(f, s)
    BY <1>1, FinishedRaise DEF Closing
  <1>5. ASSUME NEW f \in CallRecords, NEW v \in {"closed", "broken"}, f.pc = "close", SameFacts(f, s)
        PROVE  LET r == [f EXCEPT !.custody = v] IN
               /\ r \in CallRecords /\ r.pc = "close" /\ r.req = s.req /\ r.exit = s.exit
               /\ r.attempted = s.attempted /\ r.outcome = s.outcome /\ r.terminal = s.terminal
               /\ r.fence = s.fence /\ r.files = s.files
               /\ r.snapshot = s.snapshot /\ r.selection = s.selection
    BY <1>5 DEF CallRecords, SameFacts
  <1>6. ASSUME NEW f \in CallRecords, f.pc = "close", SameFacts(f, s), UNCHANGED Lane!disk,
               \/ Lane!Becomes(c, [f EXCEPT !.custody = "closed"])
               \/ Lane!Becomes(c, Lane!Abort([f EXCEPT !.custody = "broken"]))
        PROVE  LaneInv'
    <2> DEFINE b == [f EXCEPT !.custody = "broken"]
    <2>1. CASE Lane!Becomes(c, [f EXCEPT !.custody = "closed"])
      <3> DEFINE r == [f EXCEPT !.custody = "closed"]
      <3>1. call' = [call EXCEPT ![c] = r]
        BY <2>1 DEF Lane!Becomes
      <3>2. /\ r \in CallRecords /\ r.pc = "close" /\ r.req = s.req /\ r.exit = s.exit
            /\ r.attempted = s.attempted /\ r.outcome = s.outcome /\ r.terminal = s.terminal
            /\ r.fence = s.fence /\ r.files = s.files
            /\ r.snapshot = s.snapshot /\ r.selection = s.selection
        BY <1>5, <1>6
      <3> HIDE DEF r
      <3> QED BY <1>1, <1>2, <1>6, <3>1, <3>2, ClosingMemory DEF Closing, Over, Lane!RoleClosed
    <2>2. CASE Lane!Becomes(c, Lane!Abort(b))
      <3> DEFINE r == Lane!Abort(b)
      <3>1. call' = [call EXCEPT ![c] = r]
        BY <2>2 DEF Lane!Becomes
      <3>2. /\ b \in CallRecords /\ b.pc = "close" /\ b.req = s.req /\ b.exit = s.exit
            /\ b.attempted = s.attempted /\ b.outcome = s.outcome /\ b.terminal = s.terminal
            /\ b.fence = s.fence /\ b.files = s.files
            /\ b.snapshot = s.snapshot /\ b.selection = s.selection
        BY <1>5, <1>6
      <3> HIDE DEF b
      <3>3. r \in CallRecords /\ r.pc = b.pc /\ SameFacts(r, b)
        BY <3>2, AbortKeeps
      <3> HIDE DEF r
      <3>4. /\ r \in CallRecords /\ r.pc = "close" /\ r.req = s.req /\ r.exit = s.exit
            /\ r.attempted = s.attempted /\ r.outcome = s.outcome /\ r.terminal = s.terminal
            /\ r.fence = s.fence /\ r.files = s.files
            /\ r.snapshot = s.snapshot /\ r.selection = s.selection
        BY <3>2, <3>3 DEF SameFacts
      <3> QED BY <1>1, <1>2, <1>6, <3>1, <3>4, ClosingMemory DEF Closing, Over, Lane!RoleClosed
    <2> QED BY <1>6, <2>1, <2>2
  <1>7. Lane!CheckError(s) \in RaisedKinds /\ Lane!Errors \subseteq RaisedKinds
    BY CheckErrorKind, ErrorKinds
  <1>8. CASE Lane!Becomes(c, [Lane!Finish(Lane!Raise(s, Lane!CheckError(s), "close"),
     Lane!CheckError(s)) EXCEPT !.custody = "closed"])
             /\ UNCHANGED Lane!disk
    BY <1>4, <1>6, <1>7, <1>8
  <1>9. ASSUME NEW k \in Lane!Errors, UNCHANGED Lane!disk,
               LET r == Lane!Finish(Lane!Raise(s, k, "close"), k) IN
               \/ Lane!Becomes(c, [r EXCEPT !.custody = "closed"])
               \/ Lane!Becomes(c, Lane!Abort([r EXCEPT !.custody = "broken"]))
        PROVE  LaneInv'
    BY <1>4, <1>6, <1>7, <1>9
  <1> QED BY <1>3, <1>8, <1>9 DEF Lane!Custody

LEMMA StepEnter == ASSUME LaneInv, NEW c \in Calls, Lane!Enter(c) PROVE LaneInv'
  <1> DEFINE s == call[c]
  <1>1. s \in CallRecords /\ SoundCall(c) /\ lane[c] \in Lanes /\ s.pc = "enter"
    BY CallTypes DEF Lane!Enter, Lane!At
  <1>2. UNCHANGED <<lane, outputs, evidence>>
    BY DEF Lane!Enter, Lane!Kept
  <1>3. CASE Lane!Goes(c, s, "selection") /\ UNCHANGED Lane!disk
    <2> DEFINE u == s
               r == [u EXCEPT !.pc = "selection"]
    <2>1. call' = [call EXCEPT ![c] = r] /\ UNCHANGED Lane!disk
      BY <1>3 DEF Lane!Goes, Lane!Becomes
    <2>5. u \in CallRecords
      BY <1>1 DEF CallRecords, RoleStates, LaneTerminals
    <2>6. /\ u.pc = s.pc /\ u.req = s.req /\ u.exit = s.exit /\ u.attempted = s.attempted
          /\ u.outcome = s.outcome /\ u.terminal = s.terminal /\ u.contained = s.contained
          /\ u.finished = s.finished /\ u.failed = s.failed /\ u.fatal = s.fatal
          /\ u.files = s.files /\ u.fence = s.fence /\ u.custody = s.custody
          /\ u.snapshot = s.snapshot /\ u.selection = s.selection
      BY <1>1 DEF CallRecords
    <2> HIDE DEF u
    <2>7. r \in CallRecords /\ r.pc = "selection" /\ SameFacts(r, u) /\ SameVerdict(r, u)
      BY <2>5, StageMoves DEF BeforeLane, Opening, Closing, Over
    <2> HIDE DEF r
    <2>2. /\ r.req = s.req /\ r.exit = s.exit /\ r.attempted = s.attempted
          /\ r.outcome = s.outcome /\ r.terminal = s.terminal /\ r.contained = s.contained
          /\ r.finished = s.finished /\ r.failed = s.failed /\ r.fatal = s.fatal
          /\ r.files = s.files /\ r.fence = s.fence /\ r.custody = s.custody
          /\ r.snapshot = s.snapshot /\ r.selection = s.selection
      BY <2>6, <2>7 DEF SameFacts, SameVerdict
    <2>3. Stages(r) /\ Settled(r) /\ LaneFacts(r, lane[c])
      BY <1>1, <1>3, <2>2, <2>7 DEF SoundCall, SoundLane, Stages, Settled, LaneFacts, Lane!RoleClosed,
         BeforeLane, Opening, Closing, Over,
         Lane!DependentsSettled, Lane!Complete, Lane!HasOutcome
    <2>4. /\ Receipted(r, c \in evidence)
          /\ Custodied(r, lane[c], c \in dirs, <<c, "snapshot">> \in inputs, <<c, "selection">> \in inputs)
      BY <1>1, <1>3, <2>2, <2>7 DEF SoundCall, SoundLane, Stages, Custodied, Receipted,
         Lane!RoleClosed, BeforeLane, Opening, Closing, Over
    <2>8. SoundLane(r, lane[c], c \in dirs, <<c, "snapshot">> \in inputs, <<c, "selection">> \in inputs,
                c \in evidence)
      BY <2>3, <2>4 DEF SoundLane
    <2>9. r.req = s.req /\ (r.fence = s.fence \/ r.fence \notin {"none", "pending", "retired"})
      BY <2>2
    <2> QED BY <1>1, <1>2, <2>1, <2>7, <2>8, <2>9, MemoryMove
  <1>4. CASE Lane!Goes(c, s, "probe") /\ UNCHANGED Lane!disk
    <2> DEFINE u == s
               r == [u EXCEPT !.pc = "probe"]
    <2>1. call' = [call EXCEPT ![c] = r] /\ UNCHANGED Lane!disk
      BY <1>4 DEF Lane!Goes, Lane!Becomes
    <2>5. u \in CallRecords
      BY <1>1 DEF CallRecords, RoleStates, LaneTerminals
    <2>6. /\ u.pc = s.pc /\ u.req = s.req /\ u.exit = s.exit /\ u.attempted = s.attempted
          /\ u.outcome = s.outcome /\ u.terminal = s.terminal /\ u.contained = s.contained
          /\ u.finished = s.finished /\ u.failed = s.failed /\ u.fatal = s.fatal
          /\ u.files = s.files /\ u.fence = s.fence /\ u.custody = s.custody
          /\ u.snapshot = s.snapshot /\ u.selection = s.selection
      BY <1>1 DEF CallRecords
    <2> HIDE DEF u
    <2>7. r \in CallRecords /\ r.pc = "probe" /\ SameFacts(r, u) /\ SameVerdict(r, u)
      BY <2>5, StageMoves DEF BeforeLane, Opening, Closing, Over
    <2> HIDE DEF r
    <2>2. /\ r.req = s.req /\ r.exit = s.exit /\ r.attempted = s.attempted
          /\ r.outcome = s.outcome /\ r.terminal = s.terminal /\ r.contained = s.contained
          /\ r.finished = s.finished /\ r.failed = s.failed /\ r.fatal = s.fatal
          /\ r.files = s.files /\ r.fence = s.fence /\ r.custody = s.custody
          /\ r.snapshot = s.snapshot /\ r.selection = s.selection
      BY <2>6, <2>7 DEF SameFacts, SameVerdict
    <2>3. Stages(r) /\ Settled(r) /\ LaneFacts(r, lane[c])
      BY <1>1, <1>4, <2>2, <2>7 DEF SoundCall, SoundLane, Stages, Settled, LaneFacts, Lane!RoleClosed,
         BeforeLane, Opening, Closing, Over,
         Lane!DependentsSettled, Lane!Complete, Lane!HasOutcome
    <2>4. /\ Receipted(r, c \in evidence)
          /\ Custodied(r, lane[c], c \in dirs, <<c, "snapshot">> \in inputs, <<c, "selection">> \in inputs)
      BY <1>1, <1>4, <2>2, <2>7 DEF SoundCall, SoundLane, Stages, Custodied, Receipted,
         Lane!RoleClosed, BeforeLane, Opening, Closing, Over
    <2>8. SoundLane(r, lane[c], c \in dirs, <<c, "snapshot">> \in inputs, <<c, "selection">> \in inputs,
                c \in evidence)
      BY <2>3, <2>4 DEF SoundLane
    <2>9. r.req = s.req /\ (r.fence = s.fence \/ r.fence \notin {"none", "pending", "retired"})
      BY <2>2
    <2> QED BY <1>1, <1>2, <2>1, <2>7, <2>8, <2>9, MemoryMove
  <1>5. CASE Lane!Becomes(c, Lane!Raise(s, "ordinary", "inner")) /\ UNCHANGED Lane!disk
    BY <1>1, <1>5, Raises DEF Lane!Enter, Closing, Over, RaisedKinds
  <1> QED BY <1>3, <1>4, <1>5 DEF Lane!Enter, Lane!disk

LEMMA StepProbe == ASSUME LaneInv, NEW c \in Calls, Lane!Probe(c) PROVE LaneInv'
  <1> DEFINE s == call[c]
  <1>1. s \in CallRecords /\ SoundCall(c) /\ lane[c] \in Lanes /\ s.pc = "probe"
    BY CallTypes DEF Lane!Probe, Lane!At
  <1>2. UNCHANGED <<lane, outputs, evidence>>
    BY DEF Lane!Probe, Lane!Kept
  <1>3. CASE Lane!Becomes(c, Lane!RecordFailure(Lane!Raise([s EXCEPT !.fence = "probing"], "lifetime",
     "inner"), "lifetime"))
             /\ UNCHANGED Lane!disk
    <2> DEFINE t == [s EXCEPT !.fence = "probing"]
               r == Lane!RecordFailure(Lane!Raise(t, "lifetime", "inner"), "lifetime")
    <2>1. /\ t \in CallRecords /\ t.fence = "probing" /\ t.req = s.req /\ t.exit = s.exit
          /\ t.attempted = s.attempted /\ t.outcome = s.outcome /\ t.terminal = s.terminal
          /\ t.files = s.files /\ t.snapshot = s.snapshot /\ t.selection = s.selection
      BY <1>1 DEF CallRecords
    <2>2. call' = [call EXCEPT ![c] = r]
      BY <1>3 DEF Lane!Becomes
    <2> HIDE DEF t
    <2>3. r \in CallRecords /\ r.pc = "inner" /\ SameFacts(r, t)
      BY <2>1, FailedRaise DEF Closing, RaisedKinds
    <2> HIDE DEF r
    <2>4. ~s.attempted
      BY <1>1 DEF SoundCall, SoundLane, Stages, BeforeLane
    <2> QED BY ZenonT(60), <1>1, <1>2, <1>3, <2>1, <2>2, <2>3, <2>4, ClosingMemory DEF SameFacts,
         Lane!RoleClosed, Closing, Over
  <1>4. CASE Lane!Becomes(c, Lane!Raise([s EXCEPT !.fence = "absent"], "ordinary", "inner")) /\ UNCHANGED Lane!disk
    <2> DEFINE t == [s EXCEPT !.fence = "absent"]
               r == Lane!Raise(t, "ordinary", "inner")
    <2>1. /\ t \in CallRecords /\ t.fence = "absent" /\ t.req = s.req /\ t.exit = s.exit
          /\ t.attempted = s.attempted /\ t.outcome = s.outcome /\ t.terminal = s.terminal
          /\ t.files = s.files /\ t.snapshot = s.snapshot /\ t.selection = s.selection
      BY <1>1 DEF CallRecords
    <2>2. call' = [call EXCEPT ![c] = r]
      BY <1>4 DEF Lane!Becomes
    <2> HIDE DEF t
    <2>3. r \in CallRecords /\ r.pc = "inner" /\ SameFacts(r, t)
      BY <2>1, RaiseKeeps DEF Closing, RaisedKinds
    <2> HIDE DEF r
    <2>4. ~s.attempted
      BY <1>1 DEF SoundCall, SoundLane, Stages, BeforeLane
    <2> QED BY ZenonT(60), <1>1, <1>2, <1>4, <2>1, <2>2, <2>3, <2>4, ClosingMemory DEF SameFacts,
         Lane!RoleClosed, Closing, Over
  <1> QED BY <1>3, <1>4 DEF Lane!Probe

LEMMA StepValidate == ASSUME LaneInv, NEW c \in Calls, Lane!Validate(c) PROVE LaneInv'
  <1> DEFINE s == call[c]
  <1>1. s \in CallRecords /\ SoundCall(c) /\ lane[c] \in Lanes /\ s.pc = "validate"
    BY CallTypes DEF Lane!Validate, Lane!At
  <1>2. UNCHANGED <<lane, outputs, evidence>>
    BY DEF Lane!Validate, Lane!Kept
  <1>3. CASE Lane!Goes(c, s, "reserve") /\ UNCHANGED Lane!disk
    <2> DEFINE u == s
               r == [u EXCEPT !.pc = "reserve"]
    <2>1. call' = [call EXCEPT ![c] = r] /\ UNCHANGED Lane!disk
      BY <1>3 DEF Lane!Goes, Lane!Becomes
    <2>5. u \in CallRecords
      BY <1>1 DEF CallRecords, RoleStates, LaneTerminals
    <2>6. /\ u.pc = s.pc /\ u.req = s.req /\ u.exit = s.exit /\ u.attempted = s.attempted
          /\ u.outcome = s.outcome /\ u.terminal = s.terminal /\ u.contained = s.contained
          /\ u.finished = s.finished /\ u.failed = s.failed /\ u.fatal = s.fatal
          /\ u.files = s.files /\ u.fence = s.fence /\ u.custody = s.custody
          /\ u.snapshot = s.snapshot /\ u.selection = s.selection
      BY <1>1 DEF CallRecords
    <2> HIDE DEF u
    <2>7. r \in CallRecords /\ r.pc = "reserve" /\ SameFacts(r, u) /\ SameVerdict(r, u)
      BY <2>5, StageMoves DEF BeforeLane, Opening, Closing, Over
    <2> HIDE DEF r
    <2>2. /\ r.req = s.req /\ r.exit = s.exit /\ r.attempted = s.attempted
          /\ r.outcome = s.outcome /\ r.terminal = s.terminal /\ r.contained = s.contained
          /\ r.finished = s.finished /\ r.failed = s.failed /\ r.fatal = s.fatal
          /\ r.files = s.files /\ r.fence = s.fence /\ r.custody = s.custody
          /\ r.snapshot = s.snapshot /\ r.selection = s.selection
      BY <2>6, <2>7 DEF SameFacts, SameVerdict
    <2>3. Stages(r) /\ Settled(r) /\ LaneFacts(r, lane[c])
      BY <1>1, <1>3, <2>2, <2>7 DEF SoundCall, SoundLane, Stages, Settled, LaneFacts, Lane!RoleClosed,
         BeforeLane, Opening, Closing, Over,
         Lane!DependentsSettled, Lane!Complete, Lane!HasOutcome
    <2>4. /\ Receipted(r, c \in evidence)
          /\ Custodied(r, lane[c], c \in dirs, <<c, "snapshot">> \in inputs, <<c, "selection">> \in inputs)
      BY <1>1, <1>3, <2>2, <2>7 DEF SoundCall, SoundLane, Stages, Custodied, Receipted,
         Lane!RoleClosed, BeforeLane, Opening, Closing, Over
    <2>8. SoundLane(r, lane[c], c \in dirs, <<c, "snapshot">> \in inputs, <<c, "selection">> \in inputs,
                c \in evidence)
      BY <2>3, <2>4 DEF SoundLane
    <2>9. r.req = s.req /\ (r.fence = s.fence \/ r.fence \notin {"none", "pending", "retired"})
      BY <2>2
    <2> QED BY <1>1, <1>2, <2>1, <2>7, <2>8, <2>9, MemoryMove
  <1>4. ASSUME NEW k \in RaisedKinds, Lane!Becomes(c, Lane!Raise(s, k, "inner")), UNCHANGED Lane!disk
        PROVE  LaneInv'
    BY <1>1, <1>4, Raises DEF Closing, Over, Lane!Validate, Lane!Kept
  <1>5. Lane!CheckError(s) \in RaisedKinds /\ Lane!Errors \subseteq RaisedKinds
    BY CheckErrorKind, ErrorKinds
  <1> QED BY <1>3, <1>4, <1>5 DEF Lane!Validate

LEMMA StepReserve == ASSUME LaneInv, NEW c \in Calls, Lane!Reserve(c) PROVE LaneInv'
  <1> DEFINE s == call[c]
  <1>1. s \in CallRecords /\ SoundCall(c) /\ lane[c] \in Lanes /\ s.pc = "reserve"
    BY CallTypes DEF Lane!Reserve, Lane!At
  <1>2. UNCHANGED <<lane, outputs, evidence>>
    BY DEF Lane!Reserve, Lane!Kept
  <1>3. CASE Lane!Goes(c, [s EXCEPT !.files = "new", !.fence = "new"], "acquire") /\ UNCHANGED Lane!disk
    <2> DEFINE u == [s EXCEPT !.files = "new", !.fence = "new"]
               r == [u EXCEPT !.pc = "acquire"]
    <2>1. call' = [call EXCEPT ![c] = r] /\ UNCHANGED Lane!disk
      BY <1>3 DEF Lane!Goes, Lane!Becomes
    <2>21. [s EXCEPT !.files = "new"] \in CallRecords
      BY <1>1 DEF CallRecords
    <2>22. \A x \in CallRecords : [x EXCEPT !.fence = "new"] \in CallRecords
      BY DEF CallRecords
    <2>23. u = [[s EXCEPT !.files = "new"] EXCEPT !.fence = "new"]
      BY <1>1 DEF CallRecords
    <2>24. [[s EXCEPT !.files = "new"] EXCEPT !.fence = "new"] \in CallRecords
      BY <2>21, <2>22
    <2>5. u \in CallRecords
      BY <2>23, <2>24
    <2>6. /\ u.files = "new" /\ u.fence = "new" /\ u.pc = s.pc /\ u.req = s.req
          /\ u.exit = s.exit /\ u.attempted = s.attempted /\ u.outcome = s.outcome
          /\ u.terminal = s.terminal /\ u.contained = s.contained /\ u.finished = s.finished
          /\ u.failed = s.failed /\ u.fatal = s.fatal /\ u.custody = s.custody
          /\ u.snapshot = s.snapshot /\ u.selection = s.selection
      BY <1>1 DEF CallRecords
    <2> HIDE DEF u
    <2>7. r \in CallRecords /\ r.pc = "acquire" /\ SameFacts(r, u) /\ SameVerdict(r, u)
      BY <2>5, StageMoves DEF BeforeLane, Opening, Closing, Over
    <2> HIDE DEF r
    <2>2. /\ r.files = "new" /\ r.fence = "new" /\ r.req = s.req /\ r.exit = s.exit
          /\ r.attempted = s.attempted /\ r.outcome = s.outcome /\ r.terminal = s.terminal
          /\ r.contained = s.contained /\ r.finished = s.finished /\ r.failed = s.failed
          /\ r.fatal = s.fatal /\ r.custody = s.custody /\ r.snapshot = s.snapshot
          /\ r.selection = s.selection
      BY <2>6, <2>7 DEF SameFacts, SameVerdict
    <2>3. Stages(r) /\ Settled(r) /\ LaneFacts(r, lane[c])
      BY <1>1, <1>3, <2>2, <2>7 DEF SoundCall, SoundLane, Stages, Settled, LaneFacts, Lane!RoleClosed,
         BeforeLane, Opening, Closing, Over,
         Lane!DependentsSettled, Lane!Complete, Lane!HasOutcome
    <2>4. /\ Receipted(r, c \in evidence)
          /\ Custodied(r, lane[c], c \in dirs, <<c, "snapshot">> \in inputs, <<c, "selection">> \in inputs)
      BY <1>1, <1>3, <2>2, <2>7 DEF SoundCall, SoundLane, Stages, Custodied, Receipted,
         Lane!RoleClosed, BeforeLane, Opening, Closing, Over
    <2>8. SoundLane(r, lane[c], c \in dirs, <<c, "snapshot">> \in inputs, <<c, "selection">> \in inputs,
                c \in evidence)
      BY <2>3, <2>4 DEF SoundLane
    <2>9. r.req = s.req /\ (r.fence = s.fence \/ r.fence \notin {"none", "pending", "retired"})
      BY <2>2
    <2> QED BY <1>1, <1>2, <2>1, <2>7, <2>8, <2>9, MemoryMove
  <1>4. ASSUME NEW k \in RaisedKinds, Lane!Becomes(c, Lane!Raise(s, k, "inner")), UNCHANGED Lane!disk
        PROVE  LaneInv'
    BY <1>1, <1>4, Raises DEF Closing, Over, Lane!Reserve, Lane!Kept
  <1>5. Lane!CheckError(s) \in RaisedKinds /\ Lane!Errors \subseteq RaisedKinds
    BY CheckErrorKind, ErrorKinds
  <1>6. "ordinary" \in RaisedKinds
    BY DEF RaisedKinds
  <1> QED BY <1>3, <1>4, <1>5, <1>6 DEF Lane!Reserve
-----------------------------------------------------------------------------
(* The lane's files, the marker, the command.                              *)

LEMMA MarkersAdded ==
  ASSUME LaneInv, NEW c \in Calls, NEW r \in CallRecords, call[c].fence = "new",
         \A d \in Calls : Lane!Marker(d)' = Lane!Marker(d),
         \A d \in Calls : call'[d] = IF d = c THEN r ELSE call[d],
         \/ r.fence = "acquiring" /\ markers' \in Lane!MayExist(markers, Lane!Marker(c))
         \/ r.fence = "pending" /\ Lane!Marker(c) \notin markers /\ markers' = markers \cup {Lane!Marker(c)}
  PROVE  MarkersInv'
  <1>1. markers \subseteq markers' /\ markers' \subseteq markers \cup {Lane!Marker(c)}
    BY DEF Lane!MayExist
  <1>2. ASSUME NEW d \in Calls, call'[d].fence = "pending"
        PROVE  /\ Lane!Marker(d) \in markers'
               /\ d = c => Lane!Marker(c) \notin markers
               /\ d # c => call[d].fence = "pending" /\ Lane!Marker(d) \in markers
    BY <1>1, <1>2 DEF LaneInv, MarkersInv
  <1>3. ASSUME NEW d \in Calls, NEW e \in Calls, call'[d].fence = "pending",
               call'[e].fence = "pending", Lane!Marker(e) = Lane!Marker(d)
        PROVE  e = d
    BY <1>2, <1>3 DEF LaneInv, MarkersInv
  <1>4. ASSUME NEW d \in Calls, call'[d].fence = "retired", Lane!Marker(d) \in markers'
        PROVE  \E e \in Calls \ {d} : Lane!Marker(e) = Lane!Marker(d) /\ call'[e].fence # "none"
    <2>1. d # c /\ call[d].fence = "retired"
      BY <1>4
    <2>2. CASE Lane!Marker(d) \in markers
      <3>1. PICK e \in Calls \ {d} : Lane!Marker(e) = Lane!Marker(d) /\ call[e].fence # "none"
        BY <2>1, <2>2 DEF LaneInv, MarkersInv
      <3>2. call'[e].fence # "none"
        BY <3>1
      <3> QED BY <3>1, <3>2
    <2>3. CASE Lane!Marker(d) \notin markers
      <3>1. Lane!Marker(d) = Lane!Marker(c) /\ call'[c].fence # "none"
        BY <1>1, <1>4, <2>3
      <3> QED BY <2>1, <3>1
    <2> QED BY <2>2, <2>3
  <1>5. \A d \in Calls : /\ call'[d].fence = "pending" => Lane!Marker(d) \in markers'
                         /\ call'[d].fence = "pending" =>
                              \A e \in Calls : call'[e].fence = "pending" /\ Lane!Marker(e) = Lane!Marker(d) => e = d
                         /\ call'[d].fence = "retired" /\ Lane!Marker(d) \in markers' =>
                              \E e \in Calls \ {d} : Lane!Marker(e) = Lane!Marker(d) /\ call'[e].fence # "none"
    BY <1>2, <1>3, <1>4
  <1> QED BY <1>5 DEF MarkersInv


LEMMA StepAcquire == ASSUME LaneInv, NEW c \in Calls, Lane!Acquire(c) PROVE LaneInv'
  <1> DEFINE s == call[c]
             t == [s EXCEPT !.files = "acquiring"]
  <1>1. s \in CallRecords /\ SoundCall(c) /\ lane[c] \in Lanes /\ s.pc = "acquire"
    BY CallTypes DEF Lane!Acquire, Lane!At
  <1>2. UNCHANGED <<lane, outputs, evidence>>
    BY DEF Lane!Acquire, Lane!Kept
  <1>3. /\ t \in CallRecords /\ t.pc = s.pc
        /\ t.files = "acquiring" /\ t.req = s.req /\ t.exit = s.exit
        /\ t.attempted = s.attempted /\ t.outcome = s.outcome /\ t.terminal = s.terminal
        /\ t.contained = s.contained /\ t.finished = s.finished /\ t.failed = s.failed
        /\ t.fatal = s.fatal /\ t.fence = s.fence /\ t.custody = s.custody
        /\ t.snapshot = s.snapshot /\ t.selection = s.selection
    BY <1>1 DEF CallRecords
  <1>4. ~s.attempted /\ ~Live(lane[c]) /\ c \notin evidence
    BY <1>1, NoLaneYet DEF SoundCall, SoundLane, Stages, Receipted
  <1>5. CASE Lane!Goes(c, [t EXCEPT !.files = "acquired"], "fence") /\ dirs' = dirs \cup {c}
             /\ UNCHANGED <<markers, inputs>>
    <2> DEFINE u == [t EXCEPT !.files = "acquired"]
               r == [u EXCEPT !.pc = "fence"]
    <2>1. call' = [call EXCEPT ![c] = r]
      BY <1>5 DEF Lane!Goes, Lane!Becomes
    <2> HIDE DEF t
    <2>2. /\ u \in CallRecords
          /\ u.files = "acquired" /\ SameVerdict(u, t) /\ u.req = t.req /\ u.exit = t.exit
          /\ u.attempted = t.attempted /\ u.outcome = t.outcome /\ u.terminal = t.terminal
          /\ u.fence = t.fence /\ u.custody = t.custody
          /\ u.snapshot = t.snapshot /\ u.selection = t.selection
      BY <1>3 DEF CallRecords, SameVerdict
    <2> HIDE DEF u
    <2>3. r \in CallRecords /\ r.pc = "fence" /\ SameFacts(r, u)
      BY <2>2, StageMoves DEF Opening
    <2> HIDE DEF r
    <2>4. /\ r.files = "acquired" /\ r.req = s.req /\ r.exit = s.exit
          /\ r.attempted = s.attempted /\ r.outcome = s.outcome /\ r.terminal = s.terminal
          /\ r.fence = s.fence /\ r.custody = s.custody
          /\ r.snapshot = s.snapshot /\ r.selection = s.selection
      BY <1>3, <2>2, <2>3 DEF SameFacts
    <2>5. Stages(r) /\ Settled(r) /\ LaneFacts(r, lane[c])
      BY <1>1, <1>4, <2>3, <2>4 DEF SoundCall, SoundLane, Stages, Settled, LaneFacts, Lane!RoleClosed,
         BeforeLane, Opening, Closing, Over
    <2>6. /\ c \in dirs' /\ c \notin evidence'
          /\ <<c, "snapshot">> \in inputs' /\ <<c, "selection">> \in inputs'
          /\ ~Lane!RoleClosed(r, "snapshot") /\ ~Lane!RoleClosed(r, "selection")
      BY <1>1, <1>2, <1>4, <1>5, <2>4 DEF SoundCall, SoundLane, Custodied, Lane!RoleClosed
    <2>7. /\ Receipted(r, c \in evidence')
          /\ Custodied(r, lane[c], c \in dirs', <<c, "snapshot">> \in inputs', <<c, "selection">> \in inputs')
      BY <1>4, <2>3, <2>4, <2>6 DEF Custodied, Receipted
    <2>8. OthersKeep(c) /\ UNCHANGED <<lane, outputs, markers>>
      BY <1>2, <1>5 DEF LaneInv, TypeInv, OthersKeep
    <2> QED BY <1>1, <2>1, <2>3, <2>4, <2>5, <2>7, <2>8, QuietMove DEF SoundLane
  <1>6. ASSUME NEW k \in RaisedKinds, Lane!OwnerFails(c, t, k), dirs' \in Lane!MayExist(dirs, c),
               UNCHANGED <<markers, inputs>>
        PROVE  LaneInv'
    <2> DEFINE r == Lane!RecordFailure(Lane!Raise(t, k, "finish"), k)
    <2>1. r \in CallRecords /\ r.pc = "finish" /\ SameFacts(r, t) /\ call' = [call EXCEPT ![c] = r]
      BY <1>3, <1>6, FailedRaise DEF Lane!OwnerFails, Lane!Becomes, Closing
    <2> HIDE DEF r, t
    <2>2. OthersKeep(c)
      BY <1>2, <1>6 DEF LaneInv, TypeInv, OthersKeep, Lane!MayExist
    <2>3. /\ r.files = "acquiring" /\ r.req = s.req /\ r.exit = s.exit
          /\ r.attempted = s.attempted /\ r.outcome = s.outcome /\ r.terminal = s.terminal
          /\ r.fence = s.fence /\ r.snapshot = s.snapshot /\ r.selection = s.selection
      BY <1>3, <2>1 DEF SameFacts
    <2>4. /\ Lane!RoleClosed(r, "snapshot") => <<c, "snapshot">> \notin inputs'
          /\ Lane!RoleClosed(r, "selection") => <<c, "selection">> \notin inputs'
      BY <1>1, <1>6, <2>3 DEF SoundCall, SoundLane, Custodied, Lane!RoleClosed
    <2> QED BY <1>1, <1>2, <1>4, <1>6, <2>1, <2>2, <2>3, <2>4, ClosingMove DEF Closing, Over
  <1>7. Lane!CheckError(t) \in RaisedKinds /\ Lane!Errors \subseteq RaisedKinds
    BY CheckErrorKind, ErrorKinds
  <1>8. dirs \in Lane!MayExist(dirs, c)
    BY DEF Lane!MayExist
  <1> QED BY <1>5, <1>6, <1>7, <1>8 DEF Lane!Acquire

LEMMA StepFence == ASSUME LaneInv, NEW c \in Calls, Lane!Fence(c) PROVE LaneInv'
  <1> DEFINE s == call[c]
             t == [s EXCEPT !.fence = "acquiring"]
  <1>1. s \in CallRecords /\ SoundCall(c) /\ lane[c] \in Lanes /\ s.pc = "fence"
    BY CallTypes DEF Lane!Fence, Lane!At
  <1>2. UNCHANGED <<lane, outputs, evidence>>
    BY DEF Lane!Fence, Lane!Kept
  <1>3. /\ t \in CallRecords /\ t.pc = s.pc
        /\ t.fence = "acquiring" /\ t.req = s.req /\ t.exit = s.exit
        /\ t.attempted = s.attempted /\ t.outcome = s.outcome /\ t.terminal = s.terminal
        /\ t.contained = s.contained /\ t.finished = s.finished /\ t.failed = s.failed
        /\ t.fatal = s.fatal /\ t.files = s.files /\ t.custody = s.custody
        /\ t.snapshot = s.snapshot /\ t.selection = s.selection
    BY <1>1 DEF CallRecords
  <1>4. /\ ~s.attempted /\ ~Live(lane[c]) /\ c \notin evidence /\ s.fence = "new"
        /\ c \in dirs /\ <<c, "snapshot">> \in inputs /\ <<c, "selection">> \in inputs
    BY <1>1, NoLaneYet DEF SoundCall, SoundLane, Stages, Receipted, Custodied, Opening
  <1>5. CASE Lane!Goes(c, [t EXCEPT !.fence = "pending"], "environment") /\ Lane!Marker(c) \notin markers
             /\ markers' = markers \cup {Lane!Marker(c)} /\ UNCHANGED <<dirs, inputs>>
    <2> DEFINE u == [t EXCEPT !.fence = "pending"]
               r == [u EXCEPT !.pc = "environment"]
    <2>1. call' = [call EXCEPT ![c] = r]
      BY <1>5 DEF Lane!Goes, Lane!Becomes
    <2> HIDE DEF t
    <2>2. /\ u \in CallRecords
          /\ u.fence = "pending" /\ u.req = t.req /\ u.exit = t.exit
          /\ u.attempted = t.attempted /\ u.outcome = t.outcome /\ u.terminal = t.terminal
          /\ u.files = t.files /\ u.custody = t.custody
          /\ u.snapshot = t.snapshot /\ u.selection = t.selection
      BY <1>3 DEF CallRecords
    <2> HIDE DEF u
    <2>3. r \in CallRecords /\ r.pc = "environment" /\ SameFacts(r, u)
      BY <2>2, StageMoves DEF Opening
    <2> HIDE DEF r
    <2>4. /\ r.fence = "pending" /\ r.req = s.req /\ r.exit = s.exit
          /\ r.attempted = s.attempted /\ r.outcome = s.outcome /\ r.terminal = s.terminal
          /\ r.files = s.files /\ r.custody = s.custody
          /\ r.snapshot = s.snapshot /\ r.selection = s.selection
      BY <1>3, <2>2, <2>3 DEF SameFacts
    <2>5. Stages(r) /\ Settled(r) /\ LaneFacts(r, lane[c])
      BY <1>1, <1>4, <2>3, <2>4 DEF SoundCall, SoundLane, Stages, Settled, LaneFacts, Lane!RoleClosed,
         BeforeLane, Opening, Closing, Over
    <2>6. /\ Receipted(r, c \in evidence')
          /\ Custodied(r, lane[c], c \in dirs', <<c, "snapshot">> \in inputs', <<c, "selection">> \in inputs')
      BY <1>1, <1>2, <1>4, <1>5, <2>3, <2>4 DEF SoundCall, SoundLane, Custodied, Receipted,
         Lane!RoleClosed
    <2>7. OthersKeep(c)
      BY <1>2, <1>5 DEF LaneInv, TypeInv, OthersKeep
    <2>8. /\ TypeInv' /\ (\A d \in Calls : SoundCall(d))' /\ OutputsInv'
          /\ \A d \in Calls : Lane!Marker(d)' = Lane!Marker(d)
          /\ \A d \in Calls : call'[d] = IF d = c THEN r ELSE call[d]
      BY <1>1, <1>2, <2>1, <2>3, <2>4, <2>5, <2>6, <2>7, OneCallMoves DEF SoundLane
    <2>9. MarkersInv'
      BY <1>4, <1>5, <2>3, <2>4, <2>8, MarkersAdded
    <2> QED BY <2>8, <2>9 DEF LaneInv
  <1>6. ASSUME NEW k \in RaisedKinds, Lane!OwnerFails(c, t, k), markers' \in Lane!MayExist(markers,
     Lane!Marker(c)),
               UNCHANGED <<dirs, inputs>>
        PROVE  LaneInv'
    <2> DEFINE r == Lane!RecordFailure(Lane!Raise(t, k, "finish"), k)
    <2>1. r \in CallRecords /\ r.pc = "finish" /\ SameFacts(r, t) /\ call' = [call EXCEPT ![c] = r]
      BY <1>3, <1>6, FailedRaise DEF Lane!OwnerFails, Lane!Becomes, Closing
    <2> HIDE DEF r, t
    <2>2. OthersKeep(c)
      BY <1>2, <1>6 DEF LaneInv, TypeInv, OthersKeep
    <2>3. /\ r.fence = "acquiring" /\ r.req = s.req /\ r.exit = s.exit
          /\ r.attempted = s.attempted /\ r.outcome = s.outcome /\ r.terminal = s.terminal
          /\ r.files = s.files /\ r.snapshot = s.snapshot /\ r.selection = s.selection
      BY <1>3, <2>1 DEF SameFacts
    <2>4. /\ r.files \in {"none", "new", "disposed"} => c \notin dirs'
          /\ Lane!RoleClosed(r, "snapshot") => <<c, "snapshot">> \notin inputs'
          /\ Lane!RoleClosed(r, "selection") => <<c, "selection">> \notin inputs'
      BY <1>1, <1>6, <2>3 DEF SoundCall, SoundLane, Custodied, Lane!RoleClosed
    <2>5. SoundLane(r, lane[c], c \in dirs', <<c, "snapshot">> \in inputs', <<c,
       "selection">> \in inputs',
                c \in evidence')
      BY <1>1, <1>2, <1>4, <2>1, <2>3, <2>4, ClosingSound DEF Closing, Over
    <2>6. /\ TypeInv' /\ (\A d \in Calls : SoundCall(d))' /\ OutputsInv'
          /\ \A d \in Calls : Lane!Marker(d)' = Lane!Marker(d)
          /\ \A d \in Calls : call'[d] = IF d = c THEN r ELSE call[d]
      BY <1>1, <1>2, <2>1, <2>2, <2>3, <2>5, OneCallMoves
    <2>7. MarkersInv'
      BY <1>4, <1>6, <2>1, <2>3, <2>6, MarkersAdded
    <2> QED BY <2>6, <2>7 DEF LaneInv
  <1>7. Lane!CheckError(t) \in RaisedKinds /\ Lane!Errors \subseteq RaisedKinds
    BY CheckErrorKind, ErrorKinds
  <1>8. markers \in Lane!MayExist(markers, Lane!Marker(c)) /\ "lifetime" \in RaisedKinds
    BY ErrorKinds DEF Lane!MayExist
  <1>9. Lane!CheckError(s) \in RaisedKinds
    BY CheckErrorKind
  <1> DEFINE free == Lane!Clear(t) /\ Lane!Marker(c) \notin markers
  <1>10. UNCHANGED <<dirs, inputs>>
    BY DEF Lane!Fence
  <1>11. \/ /\ free /\ markers' = markers \cup {Lane!Marker(c)}
            /\ Lane!Goes(c, [t EXCEPT !.fence = "pending"], "environment")
         \/ UNCHANGED markers /\ Lane!OwnerFails(c, t, IF Lane!Clear(t) THEN "lifetime" ELSE Lane!CheckError(t))
         \/ (\E k \in Lane!Errors : Lane!OwnerFails(c, t, k)) /\ markers' \in Lane!MayExist(markers, Lane!Marker(c))
    BY DEF Lane!Fence
  <1> HIDE DEF t
  <1> QED BY <1>5, <1>6, <1>7, <1>8, <1>10, <1>11

LEMMA StepEnvironment == ASSUME LaneInv, NEW c \in Calls, Lane!Environment(c) PROVE LaneInv'
  <1> DEFINE s == call[c]
             t == [s EXCEPT !.files = "sealing"]
  <1>1. s \in CallRecords /\ SoundCall(c) /\ lane[c] \in Lanes /\ s.pc = "environment"
    BY CallTypes DEF Lane!Environment, Lane!At
  <1>2. UNCHANGED <<lane, outputs, evidence>>
    BY DEF Lane!Environment, Lane!Kept
  <1>3. /\ t \in CallRecords /\ t.pc = s.pc
        /\ t.files = "sealing" /\ t.req = s.req /\ t.exit = s.exit /\ t.attempted = s.attempted
        /\ t.outcome = s.outcome /\ t.terminal = s.terminal /\ t.contained = s.contained
        /\ t.finished = s.finished /\ t.failed = s.failed /\ t.fatal = s.fatal
        /\ t.fence = s.fence /\ t.custody = s.custody /\ t.snapshot = s.snapshot
        /\ t.selection = s.selection
    BY <1>1 DEF CallRecords
  <1>4. CASE Lane!Goes(c, [[s EXCEPT !.files = "sealing"] EXCEPT !.files = "prepared"], "admit") /\ UNCHANGED Lane!disk
    <2> DEFINE u == [[s EXCEPT !.files = "sealing"] EXCEPT !.files = "prepared"]
               r == [u EXCEPT !.pc = "admit"]
    <2>1. call' = [call EXCEPT ![c] = r] /\ UNCHANGED Lane!disk
      BY <1>4 DEF Lane!Goes, Lane!Becomes
    <2>5. u \in CallRecords
      BY ZenonT(60), <1>1 DEF CallRecords, RoleStates, LaneTerminals
    <2>6. /\ u.files = "prepared" /\ u.pc = s.pc /\ u.req = s.req /\ u.exit = s.exit
          /\ u.attempted = s.attempted /\ u.outcome = s.outcome /\ u.terminal = s.terminal
          /\ u.contained = s.contained /\ u.finished = s.finished /\ u.failed = s.failed
          /\ u.fatal = s.fatal /\ u.fence = s.fence /\ u.custody = s.custody
          /\ u.snapshot = s.snapshot /\ u.selection = s.selection
      BY <1>1 DEF CallRecords
    <2> HIDE DEF u
    <2>7. r \in CallRecords /\ r.pc = "admit" /\ SameFacts(r, u) /\ SameVerdict(r, u)
      BY <2>5, StageMoves DEF BeforeLane, Opening, Closing, Over
    <2> HIDE DEF r
    <2>2. /\ r.files = "prepared" /\ r.req = s.req /\ r.exit = s.exit
          /\ r.attempted = s.attempted /\ r.outcome = s.outcome /\ r.terminal = s.terminal
          /\ r.contained = s.contained /\ r.finished = s.finished /\ r.failed = s.failed
          /\ r.fatal = s.fatal /\ r.fence = s.fence /\ r.custody = s.custody
          /\ r.snapshot = s.snapshot /\ r.selection = s.selection
      BY <2>6, <2>7 DEF SameFacts, SameVerdict
    <2>3. Stages(r) /\ Settled(r) /\ LaneFacts(r, lane[c])
      BY <1>1, <1>4, <2>2, <2>7 DEF SoundCall, SoundLane, Stages, Settled, LaneFacts, Lane!RoleClosed,
         BeforeLane, Opening, Closing, Over,
         Lane!DependentsSettled, Lane!Complete, Lane!HasOutcome
    <2>4. /\ Receipted(r, c \in evidence)
          /\ Custodied(r, lane[c], c \in dirs, <<c, "snapshot">> \in inputs, <<c, "selection">> \in inputs)
      BY <1>1, <1>4, <2>2, <2>7 DEF SoundCall, SoundLane, Stages, Custodied, Receipted,
         Lane!RoleClosed, BeforeLane, Opening, Closing, Over
    <2>8. SoundLane(r, lane[c], c \in dirs, <<c, "snapshot">> \in inputs, <<c, "selection">> \in inputs,
                c \in evidence)
      BY <2>3, <2>4 DEF SoundLane
    <2>9. r.req = s.req /\ (r.fence = s.fence \/ r.fence \notin {"none", "pending", "retired"})
      BY <2>2
    <2> QED BY <1>1, <1>2, <2>1, <2>7, <2>8, <2>9, MemoryMove
  <1>5. ASSUME NEW k \in RaisedKinds, Lane!OwnerFails(c, t, k), UNCHANGED Lane!disk
        PROVE  LaneInv'
    <2> DEFINE r == Lane!RecordFailure(Lane!Raise(t, k, "finish"), k)
    <2>1. r \in CallRecords /\ r.pc = "finish" /\ SameFacts(r, t) /\ call' = [call EXCEPT ![c] = r]
      BY <1>5, <1>3, FailedRaise DEF Lane!OwnerFails, Lane!Becomes, Closing
    <2> HIDE DEF r, t
    <2>2. /\ r.req = s.req /\ r.exit = s.exit /\ r.attempted = s.attempted /\ r.outcome = s.outcome
          /\ r.terminal = s.terminal /\ r.fence = s.fence /\ r.files = t.files
          /\ r.snapshot = s.snapshot /\ r.selection = s.selection
      BY <1>3, <2>1 DEF SameFacts
    <2>3. r.files \in {"none", "new", "disposed"} => s.files \in {"none", "new", "disposed"}
      BY <1>3, <2>2
    <2> QED BY <1>1, <1>2, <1>5, <2>1, <2>2, <2>3, ClosingMemory DEF Lane!RoleClosed, Closing, Over
  <1>6. Lane!CheckError(t) \in RaisedKinds /\ Lane!Errors \subseteq RaisedKinds
    BY CheckErrorKind, ErrorKinds
  <1> QED BY <1>4, <1>5, <1>6 DEF Lane!Environment

LEMMA StepAdmit == ASSUME LaneInv, NEW c \in Calls, Lane!Admit(c) PROVE LaneInv'
  <1> DEFINE s == call[c]
  <1>1. s \in CallRecords /\ SoundCall(c) /\ lane[c] \in Lanes /\ s.pc = "admit"
    BY CallTypes DEF Lane!Admit, Lane!At
  <1>2. UNCHANGED <<lane, outputs, evidence>>
    BY DEF Lane!Admit, Lane!Kept
  <1>3. CASE Lane!Goes(c, s, "seal") /\ UNCHANGED Lane!disk
    <2> DEFINE u == s
               r == [u EXCEPT !.pc = "seal"]
    <2>1. call' = [call EXCEPT ![c] = r] /\ UNCHANGED Lane!disk
      BY <1>3 DEF Lane!Goes, Lane!Becomes
    <2>5. u \in CallRecords
      BY <1>1 DEF CallRecords, RoleStates, LaneTerminals
    <2>6. /\ u.pc = s.pc /\ u.req = s.req /\ u.exit = s.exit /\ u.attempted = s.attempted
          /\ u.outcome = s.outcome /\ u.terminal = s.terminal /\ u.contained = s.contained
          /\ u.finished = s.finished /\ u.failed = s.failed /\ u.fatal = s.fatal
          /\ u.files = s.files /\ u.fence = s.fence /\ u.custody = s.custody
          /\ u.snapshot = s.snapshot /\ u.selection = s.selection
      BY <1>1 DEF CallRecords
    <2> HIDE DEF u
    <2>7. r \in CallRecords /\ r.pc = "seal" /\ SameFacts(r, u) /\ SameVerdict(r, u)
      BY <2>5, StageMoves DEF BeforeLane, Opening, Closing, Over
    <2> HIDE DEF r
    <2>2. /\ r.req = s.req /\ r.exit = s.exit /\ r.attempted = s.attempted
          /\ r.outcome = s.outcome /\ r.terminal = s.terminal /\ r.contained = s.contained
          /\ r.finished = s.finished /\ r.failed = s.failed /\ r.fatal = s.fatal
          /\ r.files = s.files /\ r.fence = s.fence /\ r.custody = s.custody
          /\ r.snapshot = s.snapshot /\ r.selection = s.selection
      BY <2>6, <2>7 DEF SameFacts, SameVerdict
    <2>3. Stages(r) /\ Settled(r) /\ LaneFacts(r, lane[c])
      BY <1>1, <1>3, <2>2, <2>7 DEF SoundCall, SoundLane, Stages, Settled, LaneFacts, Lane!RoleClosed,
         BeforeLane, Opening, Closing, Over,
         Lane!DependentsSettled, Lane!Complete, Lane!HasOutcome
    <2>4. /\ Receipted(r, c \in evidence)
          /\ Custodied(r, lane[c], c \in dirs, <<c, "snapshot">> \in inputs, <<c, "selection">> \in inputs)
      BY <1>1, <1>3, <2>2, <2>7 DEF SoundCall, SoundLane, Stages, Custodied, Receipted,
         Lane!RoleClosed, BeforeLane, Opening, Closing, Over
    <2>8. SoundLane(r, lane[c], c \in dirs, <<c, "snapshot">> \in inputs, <<c, "selection">> \in inputs,
                c \in evidence)
      BY <2>3, <2>4 DEF SoundLane
    <2>9. r.req = s.req /\ (r.fence = s.fence \/ r.fence \notin {"none", "pending", "retired"})
      BY <2>2
    <2> QED BY <1>1, <1>2, <2>1, <2>7, <2>8, <2>9, MemoryMove
  <1>4. ASSUME NEW k \in RaisedKinds, Lane!Becomes(c, Lane!Raise(s, k, "finish")), UNCHANGED Lane!disk
        PROVE  LaneInv'
    BY <1>1, <1>4, Raises DEF Closing, Over, Lane!Admit, Lane!Kept
  <1> QED BY <1>3, <1>4, ErrorKinds DEF Lane!Admit

LEMMA StepSeal == ASSUME LaneInv, NEW c \in Calls, Lane!Seal(c) PROVE LaneInv'
  <1> DEFINE s == call[c]
             t == [s EXCEPT !.sealed = TRUE]
  <1>1. s \in CallRecords /\ SoundCall(c) /\ lane[c] \in Lanes /\ s.pc = "seal"
    BY CallTypes DEF Lane!Seal, Lane!At
  <1>2. UNCHANGED <<lane, outputs, evidence>>
    BY DEF Lane!Seal, Lane!Kept
  <1>3. /\ t \in CallRecords /\ t.pc = s.pc
        /\ t.req = s.req /\ t.exit = s.exit /\ t.attempted = s.attempted
        /\ t.outcome = s.outcome /\ t.terminal = s.terminal /\ t.contained = s.contained
        /\ t.finished = s.finished /\ t.failed = s.failed /\ t.fatal = s.fatal
        /\ t.files = s.files /\ t.fence = s.fence /\ t.custody = s.custody
        /\ t.snapshot = s.snapshot /\ t.selection = s.selection
    BY <1>1 DEF CallRecords
  <1>4. CASE Lane!Goes(c, [[s EXCEPT !.sealed = TRUE] EXCEPT !.attempted = TRUE], "running") /\ UNCHANGED Lane!disk
    <2> DEFINE u == [[s EXCEPT !.sealed = TRUE] EXCEPT !.attempted = TRUE]
               r == [u EXCEPT !.pc = "running"]
    <2>1. call' = [call EXCEPT ![c] = r] /\ UNCHANGED Lane!disk
      BY <1>4 DEF Lane!Goes, Lane!Becomes
    <2>5. u \in CallRecords
      BY <1>1 DEF CallRecords, RoleStates, LaneTerminals
    <2>6. /\ u.attempted /\ u.pc = s.pc /\ u.req = s.req /\ u.exit = s.exit
          /\ u.outcome = s.outcome /\ u.terminal = s.terminal /\ u.contained = s.contained
          /\ u.finished = s.finished /\ u.failed = s.failed /\ u.fatal = s.fatal
          /\ u.files = s.files /\ u.fence = s.fence /\ u.custody = s.custody
          /\ u.snapshot = s.snapshot /\ u.selection = s.selection
      BY <1>1 DEF CallRecords
    <2> HIDE DEF u
    <2>7. r \in CallRecords /\ r.pc = "running" /\ SameFacts(r, u) /\ SameVerdict(r, u)
      BY <2>5, StageMoves DEF BeforeLane, Opening, Closing, Over
    <2> HIDE DEF r
    <2>2. /\ r.attempted /\ r.req = s.req /\ r.exit = s.exit /\ r.outcome = s.outcome
          /\ r.terminal = s.terminal /\ r.contained = s.contained /\ r.finished = s.finished
          /\ r.failed = s.failed /\ r.fatal = s.fatal /\ r.files = s.files /\ r.fence = s.fence
          /\ r.custody = s.custody /\ r.snapshot = s.snapshot /\ r.selection = s.selection
      BY <2>6, <2>7 DEF SameFacts, SameVerdict
    <2>3. Stages(r) /\ Settled(r) /\ LaneFacts(r, lane[c])
      BY <1>1, <1>4, <2>2, <2>7 DEF SoundCall, SoundLane, Stages, Settled, LaneFacts, Lane!RoleClosed,
         BeforeLane, Opening, Closing, Over,
         Lane!DependentsSettled, Lane!Complete, Lane!HasOutcome
    <2>4. /\ Receipted(r, c \in evidence)
          /\ Custodied(r, lane[c], c \in dirs, <<c, "snapshot">> \in inputs, <<c, "selection">> \in inputs)
      BY <1>1, <1>4, <2>2, <2>7 DEF SoundCall, SoundLane, Stages, Custodied, Receipted,
         Lane!RoleClosed, BeforeLane, Opening, Closing, Over
    <2>8. SoundLane(r, lane[c], c \in dirs, <<c, "snapshot">> \in inputs, <<c, "selection">> \in inputs,
                c \in evidence)
      BY <2>3, <2>4 DEF SoundLane
    <2>9. r.req = s.req /\ (r.fence = s.fence \/ r.fence \notin {"none", "pending", "retired"})
      BY <2>2
    <2> QED BY <1>1, <1>2, <2>1, <2>7, <2>8, <2>9, MemoryMove
  <1>5. ASSUME NEW k \in RaisedKinds, Lane!OwnerFails(c, t, k), UNCHANGED Lane!disk
        PROVE  LaneInv'
    <2> DEFINE r == Lane!RecordFailure(Lane!Raise(t, k, "finish"), k)
    <2>1. r \in CallRecords /\ r.pc = "finish" /\ SameFacts(r, t) /\ call' = [call EXCEPT ![c] = r]
      BY <1>5, <1>3, FailedRaise DEF Lane!OwnerFails, Lane!Becomes, Closing
    <2> HIDE DEF r, t
    <2>2. /\ r.req = s.req /\ r.exit = s.exit /\ r.attempted = s.attempted /\ r.outcome = s.outcome
          /\ r.terminal = s.terminal /\ r.fence = s.fence /\ r.files = t.files
          /\ r.snapshot = s.snapshot /\ r.selection = s.selection
      BY <1>3, <2>1 DEF SameFacts
    <2>3. r.files \in {"none", "new", "disposed"} => s.files \in {"none", "new", "disposed"}
      BY <1>3, <2>2
    <2> QED BY <1>1, <1>2, <1>5, <2>1, <2>2, <2>3, ClosingMemory DEF Lane!RoleClosed, Closing, Over
  <1>6. Lane!CheckError(t) \in RaisedKinds /\ Lane!Errors \subseteq RaisedKinds
    BY CheckErrorKind, ErrorKinds
  <1> QED BY <1>4, <1>5, <1>6 DEF Lane!Seal
-----------------------------------------------------------------------------
(* The lane and the owned command that runs it.                            *)

LEMMA LaneMoves ==
  ASSUME LaneInv, NEW c \in Calls, NEW l \in Lanes, lane' = [lane EXCEPT ![c] = l],
         UNCHANGED <<call, Lane!disk, evidence>>, LaneFacts(call[c], l),
         Live(l) => Live(lane[c]) \/ call[c].pc = "running",
         \/ UNCHANGED outputs /\ (l.wrote => lane[c].wrote)
         \/ /\ outputs[call[c].req.out] = {}
            /\ outputs' = [outputs EXCEPT ![call[c].req.out] = {c}]
  PROVE  LaneInv'
  <1>1. call[c] \in CallRecords /\ lane[c] \in Lanes /\ SoundCall(c)
    BY CallTypes
  <1>2. \A d \in Calls : call[d].req \in Requests
    BY DEF LaneInv, TypeInv, CallRecords
  <1>3. \A d \in Calls : call[d].req.out \in Lane!Outs
    BY <1>2 DEF Lane!Outs
  <1>4. TypeInv'
    <2>1. lane' \in [Calls -> Lanes]
      BY DEF LaneInv, TypeInv
    <2>2. outputs' \in [Lane!Outs -> SUBSET Calls]
      BY DEF LaneInv, TypeInv
    <2> QED BY <2>1, <2>2 DEF LaneInv, TypeInv
  <1>5. \A d \in Calls : lane'[d] = IF d = c THEN l ELSE lane[d]
    BY DEF LaneInv, TypeInv
  <1>6. ASSUME NEW d \in Calls PROVE SoundCall(d)'
    <2>1. SoundCall(d)
      BY DEF LaneInv
    <2>2. CASE d # c
      BY <1>5, <2>1, <2>2 DEF SoundCall, Lane!disk
    <2>3. CASE d = c
      <3>1. Live(l) => Live(lane[c]) \/ call[c].pc \in Opening
        BY DEF Opening
      <3>2. call[c].pc = "running" => call[c].fence = "pending"
        BY <1>1 DEF SoundCall, SoundLane, Stages
      <3>3. Custodied(call[c], l, c \in dirs, <<c, "snapshot">> \in inputs, <<c,
         "selection">> \in inputs)
        BY <1>1, <3>1, <3>2 DEF SoundCall, SoundLane, Custodied, Opening
      <3>4. SoundLane(call[c], l, c \in dirs, <<c, "snapshot">> \in inputs, <<c,
         "selection">> \in inputs,
                  c \in evidence)
        BY <1>1, <3>3 DEF SoundCall, SoundLane
      <3> QED BY <1>5, <2>3, <3>4 DEF SoundCall, Lane!disk
    <2> QED BY <2>2, <2>3
  <1>7. OutputsInv'
    <2>1. CASE UNCHANGED outputs /\ (l.wrote => lane[c].wrote)
      BY <1>5, <2>1 DEF LaneInv, OutputsInv
    <2>2. CASE /\ outputs[call[c].req.out] = {}
               /\ outputs' = [outputs EXCEPT ![call[c].req.out] = {c}]
      <3>1. ASSUME NEW d \in Calls, lane'[d].wrote PROVE outputs'[call'[d].req.out] = {d}
        <4>1. CASE d = c
          BY <1>3, <2>2, <4>1 DEF LaneInv, TypeInv
        <4>2. CASE d # c
          <5>1. outputs[call[d].req.out] = {d}
            BY <1>5, <3>1, <4>2 DEF LaneInv, OutputsInv
          <5>2. call[d].req.out # call[c].req.out
            BY <2>2, <5>1
          <5> QED BY <1>3, <2>2, <5>1, <5>2 DEF LaneInv, TypeInv
        <4> QED BY <4>1, <4>2
      <3> QED BY <3>1 DEF OutputsInv
    <2> QED BY <2>1, <2>2
  <1>8. MarkersInv'
    <2>1. \A d \in Calls : Lane!Marker(d)' = Lane!Marker(d)
      BY DEF Lane!Marker
    <2> QED BY <2>1 DEF LaneInv, MarkersInv, Lane!disk
  <1> QED BY <1>4, <1>6, <1>7, <1>8 DEF LaneInv

LEMMA StepEngineStarts == ASSUME LaneInv, NEW c \in Calls, Lane!EngineStarts(c) PROVE LaneInv'
  <1>1. call[c] \in CallRecords /\ lane[c] \in Lanes /\ LaneFacts(call[c], lane[c]) /\ Stages(call[c])
    BY CallTypes DEF SoundCall, SoundLane
  <1>2. call[c].pc = "running" /\ lane[c].at = "none"
    BY DEF Lane!EngineStarts, Lane!At
  <1> DEFINE l == [Lane!NoLane EXCEPT !.at = "running"]
  <1>4. /\ l \in Lanes
        /\ l.at = "running" /\ ~l.nested /\ ~l.wrote
        /\ ~l.error /\ l.terminal = "none" /\ l.code = "none"
    BY <1>1 DEF Lanes, LaneTerminals, Lane!NoLane
  <1>5. lane' = [lane EXCEPT ![c] = l] /\ UNCHANGED <<call, Lane!disk, evidence>>
    BY DEF Lane!EngineStarts, Lane!LaneIs, Lane!Unmoved
  <1> HIDE DEF l
  <1>6. LaneFacts(call[c], l)
    <2>1. /\ lane[c].terminal \in {"none", "receipt", "failed"}
          /\ lane[c].at \in {"none", "running", "gone"}
      BY <1>1 DEF Lanes, LaneTerminals
    <2> QED BY <1>1, <1>2, <1>4, <2>1 DEF LaneFacts, Stages
  <1>7. Live(l) => Live(lane[c]) \/ call[c].pc = "running"
    BY <1>1, <1>2, <1>4 DEF Live, Lanes
  <1>8. UNCHANGED outputs /\ (l.wrote => lane[c].wrote)
    BY <1>1, <1>4 DEF Lane!EngineStarts, Lanes
  <1> QED BY <1>4, <1>5, <1>6, <1>7, <1>8, LaneMoves

LEMMA StepLaneSpawns == ASSUME LaneInv, NEW c \in Calls, Lane!LaneSpawns(c) PROVE LaneInv'
  <1>1. call[c] \in CallRecords /\ lane[c] \in Lanes /\ LaneFacts(call[c], lane[c]) /\ Stages(call[c])
    BY CallTypes DEF SoundCall, SoundLane
  <1>2. lane[c].at = "running" /\ lane[c].terminal = "none"
    BY DEF Lane!LaneSpawns, Lane!At
  <1> DEFINE l == [lane[c] EXCEPT !.nested = TRUE]
  <1>4. /\ l \in Lanes
        /\ l.at = lane[c].at /\ l.nested /\ l.wrote = lane[c].wrote
        /\ l.error = lane[c].error /\ l.terminal = lane[c].terminal /\ l.code = lane[c].code
    BY <1>1 DEF Lanes, LaneTerminals, Lane!NoLane
  <1>5. lane' = [lane EXCEPT ![c] = l] /\ UNCHANGED <<call, Lane!disk, evidence>>
    BY DEF Lane!LaneSpawns, Lane!LaneIs, Lane!Unmoved
  <1> HIDE DEF l
  <1>6. LaneFacts(call[c], l)
    <2>1. /\ lane[c].terminal \in {"none", "receipt", "failed"}
          /\ lane[c].at \in {"none", "running", "gone"}
      BY <1>1 DEF Lanes, LaneTerminals
    <2> QED BY <1>1, <1>2, <1>4, <2>1 DEF LaneFacts, Stages
  <1>7. Live(l) => Live(lane[c]) \/ call[c].pc = "running"
    BY <1>1, <1>2, <1>4 DEF Live, Lanes
  <1>8. UNCHANGED outputs /\ (l.wrote => lane[c].wrote)
    BY <1>1, <1>4 DEF Lane!LaneSpawns, Lanes
  <1> QED BY <1>4, <1>5, <1>6, <1>7, <1>8, LaneMoves

LEMMA StepNestedEnds == ASSUME LaneInv, NEW c \in Calls, Lane!NestedEnds(c) PROVE LaneInv'
  <1>1. call[c] \in CallRecords /\ lane[c] \in Lanes /\ LaneFacts(call[c], lane[c]) /\ Stages(call[c])
    BY CallTypes DEF SoundCall, SoundLane
  <1>2. lane[c].nested
    BY DEF Lane!NestedEnds, Lane!At
  <1> DEFINE l == [lane[c] EXCEPT !.nested = FALSE]
  <1>4. /\ l \in Lanes
        /\ l.at = lane[c].at /\ ~l.nested /\ l.wrote = lane[c].wrote
        /\ l.error = lane[c].error /\ l.terminal = lane[c].terminal /\ l.code = lane[c].code
    BY <1>1 DEF Lanes, LaneTerminals, Lane!NoLane
  <1>5. lane' = [lane EXCEPT ![c] = l] /\ UNCHANGED <<call, Lane!disk, evidence>>
    BY DEF Lane!NestedEnds, Lane!LaneIs, Lane!Unmoved
  <1> HIDE DEF l
  <1>6. LaneFacts(call[c], l)
    <2>1. /\ lane[c].terminal \in {"none", "receipt", "failed"}
          /\ lane[c].at \in {"none", "running", "gone"}
      BY <1>1 DEF Lanes, LaneTerminals
    <2> QED BY <1>1, <1>2, <1>4, <2>1 DEF LaneFacts, Stages
  <1>7. Live(l) => Live(lane[c]) \/ call[c].pc = "running"
    BY <1>1, <1>2, <1>4 DEF Live, Lanes
  <1>8. UNCHANGED outputs /\ (l.wrote => lane[c].wrote)
    BY <1>1, <1>4 DEF Lane!NestedEnds, Lanes
  <1> QED BY <1>4, <1>5, <1>6, <1>7, <1>8, LaneMoves

LEMMA StepLaneWrites == ASSUME LaneInv, NEW c \in Calls, Lane!LaneWrites(c) PROVE LaneInv'
  <1>1. call[c] \in CallRecords /\ lane[c] \in Lanes /\ LaneFacts(call[c], lane[c]) /\ Stages(call[c])
    BY CallTypes DEF SoundCall, SoundLane
  <1>2. lane[c].at = "running"
    BY DEF Lane!LaneWrites, Lane!At
  <1> DEFINE l == [lane[c] EXCEPT !.wrote = TRUE]
  <1>4. /\ l \in Lanes
        /\ l.at = lane[c].at /\ l.nested = lane[c].nested /\ l.wrote
        /\ l.error = lane[c].error /\ l.terminal = lane[c].terminal /\ l.code = lane[c].code
    BY <1>1 DEF Lanes, LaneTerminals, Lane!NoLane
  <1>5. lane' = [lane EXCEPT ![c] = l] /\ UNCHANGED <<call, Lane!disk, evidence>>
    BY DEF Lane!LaneWrites, Lane!LaneIs, Lane!Unmoved
  <1> HIDE DEF l
  <1>6. LaneFacts(call[c], l)
    <2>1. /\ lane[c].terminal \in {"none", "receipt", "failed"}
          /\ lane[c].at \in {"none", "running", "gone"}
      BY <1>1 DEF Lanes, LaneTerminals
    <2> QED BY <1>1, <1>2, <1>4, <2>1 DEF LaneFacts, Stages
  <1>7. Live(l) => Live(lane[c]) \/ call[c].pc = "running"
    BY <1>1, <1>2, <1>4 DEF Live, Lanes
  <1>8. outputs[call[c].req.out] = {} /\ outputs' = [outputs EXCEPT ![call[c].req.out] = {c}]
    BY DEF Lane!LaneWrites
  <1> QED BY <1>4, <1>5, <1>6, <1>7, <1>8, LaneMoves

LEMMA StepLaneErrs == ASSUME LaneInv, NEW c \in Calls, Lane!LaneErrs(c) PROVE LaneInv'
  <1>1. call[c] \in CallRecords /\ lane[c] \in Lanes /\ LaneFacts(call[c], lane[c]) /\ Stages(call[c])
    BY CallTypes DEF SoundCall, SoundLane
  <1>2. lane[c].at = "running"
    BY DEF Lane!LaneErrs, Lane!At
  <1> DEFINE l == [lane[c] EXCEPT !.error = TRUE]
  <1>4. /\ l \in Lanes
        /\ l.at = lane[c].at /\ l.nested = lane[c].nested /\ l.wrote = lane[c].wrote
        /\ l.error /\ l.terminal = lane[c].terminal /\ l.code = lane[c].code
    BY <1>1 DEF Lanes, LaneTerminals, Lane!NoLane
  <1>5. lane' = [lane EXCEPT ![c] = l] /\ UNCHANGED <<call, Lane!disk, evidence>>
    BY DEF Lane!LaneErrs, Lane!LaneIs, Lane!Unmoved
  <1> HIDE DEF l
  <1>6. LaneFacts(call[c], l)
    <2>1. /\ lane[c].terminal \in {"none", "receipt", "failed"}
          /\ lane[c].at \in {"none", "running", "gone"}
      BY <1>1 DEF Lanes, LaneTerminals
    <2> QED BY <1>1, <1>2, <1>4, <2>1 DEF LaneFacts, Stages
  <1>7. Live(l) => Live(lane[c]) \/ call[c].pc = "running"
    BY <1>1, <1>2, <1>4 DEF Live, Lanes
  <1>8. UNCHANGED outputs /\ (l.wrote => lane[c].wrote)
    BY <1>1, <1>4 DEF Lane!LaneErrs, Lanes
  <1> QED BY <1>4, <1>5, <1>6, <1>7, <1>8, LaneMoves

LEMMA StepLaneReports == ASSUME LaneInv, NEW c \in Calls, Lane!LaneReports(c) PROVE LaneInv'
  <1>1. call[c] \in CallRecords /\ lane[c] \in Lanes /\ LaneFacts(call[c], lane[c]) /\ Stages(call[c])
    BY CallTypes DEF SoundCall, SoundLane
  <1>2. /\ lane[c].at = "running" /\ ~lane[c].nested /\ lane[c].terminal = "none"
        /\ lane[c].wrote \/ lane[c].error
    BY DEF Lane!LaneReports, Lane!At
  <1> DEFINE l == [lane[c] EXCEPT !.terminal = IF lane[c].error THEN "failed" ELSE "receipt"]
  <1>4. /\ l \in Lanes
        /\ l.at = lane[c].at /\ l.nested = lane[c].nested /\ l.wrote = lane[c].wrote
        /\ l.error = lane[c].error /\ l.terminal = (IF lane[c].error THEN "failed" ELSE "receipt") /\ l.code = lane[c].code
    BY <1>1 DEF Lanes, LaneTerminals, Lane!NoLane
  <1>5. lane' = [lane EXCEPT ![c] = l] /\ UNCHANGED <<call, Lane!disk, evidence>>
    BY DEF Lane!LaneReports, Lane!LaneIs, Lane!Unmoved
  <1> HIDE DEF l
  <1>6. LaneFacts(call[c], l)
    <2>1. /\ lane[c].terminal \in {"none", "receipt", "failed"}
          /\ lane[c].at \in {"none", "running", "gone"}
      BY <1>1 DEF Lanes, LaneTerminals
    <2> QED BY <1>1, <1>2, <1>4, <2>1 DEF LaneFacts, Stages
  <1>7. Live(l) => Live(lane[c]) \/ call[c].pc = "running"
    BY <1>1, <1>2, <1>4 DEF Live, Lanes
  <1>8. UNCHANGED outputs /\ (l.wrote => lane[c].wrote)
    BY <1>1, <1>4 DEF Lane!LaneReports, Lanes
  <1> QED BY <1>4, <1>5, <1>6, <1>7, <1>8, LaneMoves

LEMMA StepLaneExits == ASSUME LaneInv, NEW c \in Calls, Lane!LaneExits(c) PROVE LaneInv'
  <1>1. call[c] \in CallRecords /\ lane[c] \in Lanes /\ LaneFacts(call[c], lane[c]) /\ Stages(call[c])
    BY CallTypes DEF SoundCall, SoundLane
  <1>2. lane[c].at = "running" /\ lane[c].terminal # "none"
    BY DEF Lane!LaneExits, Lane!At
  <1> DEFINE l == [lane[c] EXCEPT !.at = "gone", !.code = IF lane[c].terminal = "receipt" THEN "ok" ELSE "settled"]
  <1>4. /\ l \in Lanes
        /\ l.at = "gone" /\ l.nested = lane[c].nested /\ l.wrote = lane[c].wrote
        /\ l.error = lane[c].error /\ l.terminal = lane[c].terminal /\ l.code = (IF lane[c].terminal = "receipt" THEN "ok" ELSE "settled")
    BY <1>1 DEF Lanes, LaneTerminals, Lane!NoLane
  <1>5. lane' = [lane EXCEPT ![c] = l] /\ UNCHANGED <<call, Lane!disk, evidence>>
    BY DEF Lane!LaneExits, Lane!LaneIs, Lane!Unmoved
  <1> HIDE DEF l
  <1>6. LaneFacts(call[c], l)
    <2>1. /\ lane[c].terminal \in {"none", "receipt", "failed"}
          /\ lane[c].at \in {"none", "running", "gone"}
      BY <1>1 DEF Lanes, LaneTerminals
    <2> QED BY <1>1, <1>2, <1>4, <2>1 DEF LaneFacts, Stages
  <1>7. Live(l) => Live(lane[c]) \/ call[c].pc = "running"
    BY <1>1, <1>2, <1>4 DEF Live, Lanes
  <1>8. UNCHANGED outputs /\ (l.wrote => lane[c].wrote)
    BY <1>1, <1>4 DEF Lane!LaneExits, Lanes
  <1> QED BY <1>4, <1>5, <1>6, <1>7, <1>8, LaneMoves

LEMMA StepLaneBreaks == ASSUME LaneInv, NEW c \in Calls, Lane!LaneBreaks(c) PROVE LaneInv'
  <1>1. call[c] \in CallRecords /\ lane[c] \in Lanes /\ LaneFacts(call[c], lane[c]) /\ Stages(call[c])
    BY CallTypes DEF SoundCall, SoundLane
  <1>2. lane[c].at = "running"
    BY DEF Lane!LaneBreaks, Lane!At
  <1>3. PICK code \in {"other", "signal"} : Lane!LaneIs(c, [lane[c] EXCEPT !.at = "gone", !.code = code])
    BY DEF Lane!LaneBreaks
  <1> DEFINE l == [lane[c] EXCEPT !.at = "gone", !.code = code]
  <1>4. /\ l \in Lanes
        /\ l.at = "gone" /\ l.nested = lane[c].nested /\ l.wrote = lane[c].wrote
        /\ l.error = lane[c].error /\ l.terminal = lane[c].terminal /\ l.code = code
    BY <1>1 DEF Lanes, LaneTerminals, Lane!NoLane
  <1>5. lane' = [lane EXCEPT ![c] = l] /\ UNCHANGED <<call, Lane!disk, evidence>>
    BY <1>3 DEF Lane!LaneBreaks, Lane!LaneIs, Lane!Unmoved
  <1> HIDE DEF l
  <1>6. LaneFacts(call[c], l)
    <2>1. /\ lane[c].terminal \in {"none", "receipt", "failed"}
          /\ lane[c].at \in {"none", "running", "gone"}
      BY <1>1 DEF Lanes, LaneTerminals
    <2> QED BY <1>1, <1>2, <1>4, <2>1 DEF LaneFacts, Stages
  <1>7. Live(l) => Live(lane[c]) \/ call[c].pc = "running"
    BY <1>1, <1>2, <1>4 DEF Live, Lanes
  <1>8. UNCHANGED outputs /\ (l.wrote => lane[c].wrote)
    BY <1>1, <1>4 DEF Lane!LaneBreaks, Lanes
  <1> QED BY <1>4, <1>5, <1>6, <1>7, <1>8, LaneMoves

\* The end of the command, as the record has it.
LEMMA EngineMove ==
  ASSUME LaneInv, NEW c \in Calls, NEW t \in CallRecords, NEW k \in RaisedKinds, call[c].pc = "running",
         t.req = call[c].req, t.exit = call[c].exit, t.attempted = call[c].attempted,
         t.terminal = call[c].terminal, t.files = call[c].files, t.fence = call[c].fence,
         t.custody = call[c].custody, t.snapshot = call[c].snapshot, t.selection = call[c].selection,
         LaneFacts(t, lane[c]), Lane!EngineEnds(c, t, k), UNCHANGED Lane!disk, Lane!Kept
  PROVE  LaneInv'
  <1> DEFINE u == [t EXCEPT !.raised = k]
             v == IF k = "none" THEN t ELSE Lane!Remember(u, k)
             r == [v EXCEPT !.pc = "terminal"]
  <1>1. call' = [call EXCEPT ![c] = r] /\ UNCHANGED <<lane, outputs, evidence>>
    BY DEF Lane!EngineEnds, Lane!Goes, Lane!Becomes, Lane!Kept
  <1>2. u \in CallRecords /\ SameFacts(u, t)
    BY DEF CallRecords, SameFacts
  <1> HIDE DEF u
  <1>3. v \in CallRecords /\ SameFacts(v, t)
    BY <1>2, RememberingKeeps DEF SameFacts
  <1> HIDE DEF v
  <1>4. r \in CallRecords /\ r.pc = "terminal" /\ SameFacts(r, v)
    BY <1>3, StageMoves DEF Closing
  <1> HIDE DEF r
  <1>5. /\ r.req = call[c].req /\ r.exit = call[c].exit /\ r.attempted = call[c].attempted
        /\ r.terminal = call[c].terminal /\ r.files = call[c].files /\ r.fence = call[c].fence
        /\ r.custody = call[c].custody /\ r.snapshot = call[c].snapshot
        /\ r.selection = call[c].selection /\ r.outcome = t.outcome
    BY <1>3, <1>4 DEF SameFacts
  <1>6. SoundCall(c) /\ call[c] \in CallRecords
    BY CallTypes
  <1>7. Stages(r) /\ Settled(r)
    BY <1>4, <1>5, <1>6 DEF SoundCall, SoundLane, Stages, Settled, BeforeLane, Over
  <1>8. LaneFacts(r, lane[c])
    BY <1>5 DEF LaneFacts
  <1>9. /\ Receipted(r, c \in evidence)
        /\ Custodied(r, lane[c], c \in dirs, <<c, "snapshot">> \in inputs, <<c, "selection">> \in inputs)
    BY <1>4, <1>5, <1>6 DEF SoundCall, SoundLane, Custodied, Receipted, Lane!RoleClosed, Opening
  <1>10. SoundLane(r, lane[c], c \in dirs, <<c, "snapshot">> \in inputs, <<c, "selection">> \in inputs,
               c \in evidence)
    BY <1>7, <1>8, <1>9 DEF SoundLane
  <1> QED BY <1>1, <1>4, <1>5, <1>10, MemoryMove

LEMMA StepEngineReturns == ASSUME LaneInv, NEW c \in Calls, Lane!EngineReturns(c) PROVE LaneInv'
  <1>1. /\ call[c] \in CallRecords /\ lane[c] \in Lanes /\ LaneFacts(call[c], lane[c])
        /\ Stages(call[c]) /\ call[c].pc = "running"
    BY CallTypes DEF Lane!EngineReturns, Lane!At, SoundCall, SoundLane
  <1>2. lane[c].at = "gone" /\ UNCHANGED Lane!disk /\ Lane!Kept
    BY DEF Lane!EngineReturns
  <1> DEFINE t == [call[c] EXCEPT !.outcome = lane[c].code]
             k == IF t.cancelled THEN "interrupt"
                  ELSE IF t.outcome = "signal" THEN "ordinary" ELSE "none"
  <1>3. /\ t \in CallRecords /\ t.outcome = lane[c].code
        /\ t.req = call[c].req /\ t.exit = call[c].exit /\ t.attempted = call[c].attempted
        /\ t.terminal = call[c].terminal /\ t.files = call[c].files /\ t.fence = call[c].fence
        /\ t.custody = call[c].custody /\ t.snapshot = call[c].snapshot
        /\ t.selection = call[c].selection
    BY <1>1, <1>2 DEF CallRecords, Lanes, LaneTerminals
  <1>4. Lane!EngineEnds(c, t, k)
    BY DEF Lane!EngineReturns
  <1>5. k \in RaisedKinds
    BY DEF RaisedKinds
  <1> HIDE DEF t, k
  <1>6. LaneFacts(t, lane[c])
    BY <1>1, <1>2, <1>3 DEF LaneFacts, Stages, Lanes
  <1> QED BY <1>1, <1>2, <1>3, <1>4, <1>5, <1>6, EngineMove

LEMMA StepEngineRefuses == ASSUME LaneInv, NEW c \in Calls, Lane!EngineRefuses(c) PROVE LaneInv'
  <1>1. /\ call[c] \in CallRecords /\ lane[c] \in Lanes /\ LaneFacts(call[c], lane[c])
        /\ Stages(call[c]) /\ call[c].pc = "running"
    BY CallTypes DEF Lane!EngineRefuses, Lane!At, SoundCall, SoundLane
  <1>2. lane[c].at = "none" /\ UNCHANGED Lane!disk /\ Lane!Kept
    BY DEF Lane!EngineRefuses
  <1> DEFINE t == [call[c] EXCEPT !.outcome = "refused"]
  <1>3. /\ t \in CallRecords /\ t.outcome = "refused"
        /\ t.req = call[c].req /\ t.exit = call[c].exit /\ t.attempted = call[c].attempted
        /\ t.terminal = call[c].terminal /\ t.files = call[c].files /\ t.fence = call[c].fence
        /\ t.custody = call[c].custody /\ t.snapshot = call[c].snapshot
        /\ t.selection = call[c].selection
    BY <1>1 DEF CallRecords
  <1>4. Lane!EngineEnds(c, t, "interrupt") \/ Lane!EngineEnds(c, t, "ordinary")
    BY DEF Lane!EngineRefuses
  <1>5. {"interrupt", "ordinary"} \subseteq RaisedKinds
    BY DEF RaisedKinds
  <1> HIDE DEF t
  <1>6. LaneFacts(t, lane[c])
    BY <1>1, <1>2, <1>3 DEF LaneFacts, Stages
  <1> QED BY <1>1, <1>2, <1>3, <1>4, <1>5, <1>6, EngineMove

LEMMA StepEngineLoses == ASSUME LaneInv, NEW c \in Calls, Lane!EngineLoses(c) PROVE LaneInv'
  <1>1. /\ call[c] \in CallRecords /\ lane[c] \in Lanes /\ LaneFacts(call[c], lane[c])
        /\ Stages(call[c]) /\ call[c].pc = "running"
    BY CallTypes DEF Lane!EngineLoses, Lane!At, SoundCall, SoundLane
  <1>2. UNCHANGED Lane!disk /\ Lane!Kept
    BY DEF Lane!EngineLoses
  <1>3. "lifetime" \in RaisedKinds
    BY DEF RaisedKinds
  <1> DEFINE a == Lane!Abort(call[c])
  <1>4. /\ a \in CallRecords /\ a.pc = call[c].pc /\ SameFacts(a, call[c])
    BY <1>1, AbortKeeps
  <1>5. \/ Lane!EngineEnds(c, [a EXCEPT !.outcome = "unknown", !.contained = FALSE], "lifetime")
        \/ Lane!EngineEnds(c, [a EXCEPT !.outcome = "dirty"], "lifetime") /\ lane[c].at = "gone"
    BY DEF Lane!EngineLoses
  <1> HIDE DEF a
  <1> DEFINE t == [a EXCEPT !.outcome = "unknown", !.contained = FALSE]
             u == [a EXCEPT !.outcome = "dirty"]
  <1>6. /\ t \in CallRecords /\ t.outcome = "unknown"
        /\ t.req = call[c].req /\ t.exit = call[c].exit /\ t.attempted = call[c].attempted
        /\ t.terminal = call[c].terminal /\ t.files = call[c].files /\ t.fence = call[c].fence
        /\ t.custody = call[c].custody /\ t.snapshot = call[c].snapshot
        /\ t.selection = call[c].selection
    <2>1. [a EXCEPT !.outcome = "unknown"] \in CallRecords
      BY <1>4 DEF CallRecords
    <2>2. \A x \in CallRecords : [x EXCEPT !.contained = FALSE] \in CallRecords
      BY ZenonT(60) DEF CallRecords
    <2>3. t = [[a EXCEPT !.outcome = "unknown"] EXCEPT !.contained = FALSE]
      BY <1>4 DEF CallRecords
    <2>4. t \in CallRecords
      BY <2>1, <2>2, <2>3
    <2> QED BY <1>4, <2>4 DEF CallRecords, SameFacts
  <1>7. /\ u \in CallRecords /\ u.outcome = "dirty"
        /\ u.req = call[c].req /\ u.exit = call[c].exit /\ u.attempted = call[c].attempted
        /\ u.terminal = call[c].terminal /\ u.files = call[c].files /\ u.fence = call[c].fence
        /\ u.custody = call[c].custody /\ u.snapshot = call[c].snapshot
        /\ u.selection = call[c].selection
    BY <1>4 DEF CallRecords, SameFacts
  <1> HIDE DEF t, u
  <1>8. LaneFacts(t, lane[c]) /\ LaneFacts(u, lane[c])
    BY <1>1, <1>6, <1>7 DEF LaneFacts, Stages
  <1>9. CASE Lane!EngineEnds(c, t, "lifetime")
    BY <1>1, <1>2, <1>3, <1>6, <1>8, <1>9, EngineMove
  <1>10. CASE Lane!EngineEnds(c, u, "lifetime")
    BY <1>1, <1>2, <1>3, <1>7, <1>8, <1>10, EngineMove
  <1> QED BY <1>5, <1>9, <1>10 DEF t, u

-----------------------------------------------------------------------------
(* After the lane.                                                         *)

\* An error that is only noted where there was none.
LEMMA LateKeeps ==
  ASSUME NEW s \in CallRecords, NEW k \in RaisedKinds
  PROVE  LET r == [s EXCEPT !.raised = IF @ = "none" THEN k ELSE @] IN
         r \in CallRecords /\ r.pc = s.pc /\ SameFacts(r, s) /\ SameVerdict(r, s)
  <1> DEFINE w == IF s.raised = "none" THEN k ELSE s.raised
             r == [s EXCEPT !.raised = w]
  <1>1. w \in RaisedKinds
    BY DEF CallRecords
  <1> HIDE DEF w
  <1>2. r \in CallRecords /\ r.pc = s.pc /\ SameFacts(r, s) /\ SameVerdict(r, s)
    BY <1>1 DEF CallRecords, SameFacts, SameVerdict
  <1> QED BY <1>2 DEF w

LEMMA StepTerminal == ASSUME LaneInv, NEW c \in Calls, Lane!Terminal(c) PROVE LaneInv'
  <1> DEFINE s == call[c]
             t == [s EXCEPT !.files = "reading"]
             late == IF t.outcome = "ok" THEN "none" ELSE "ordinary"
             raised(x) == [x EXCEPT !.raised = IF @ = "none" THEN late ELSE @]
             seen == Lane!SeenTerminal(c)
  <1>1. s \in CallRecords /\ SoundCall(c) /\ lane[c] \in Lanes /\ s.pc = "terminal"
    BY CallTypes DEF Lane!Terminal, Lane!At
  <1>2. UNCHANGED <<lane, outputs, evidence>>
    BY DEF Lane!Terminal, Lane!Kept
  <1>3. /\ t \in CallRecords /\ t.pc = s.pc
        /\ t.files = "reading" /\ t.req = s.req /\ t.exit = s.exit /\ t.attempted = s.attempted
        /\ t.outcome = s.outcome /\ t.terminal = s.terminal /\ t.contained = s.contained
        /\ t.finished = s.finished /\ t.failed = s.failed /\ t.fatal = s.fatal
        /\ t.fence = s.fence /\ t.custody = s.custody /\ t.snapshot = s.snapshot
        /\ t.selection = s.selection
    BY <1>1 DEF CallRecords
  <1>4. late \in RaisedKinds /\ Lane!CheckError(t) \in RaisedKinds /\ Lane!Errors \subseteq RaisedKinds /\ "lifetime" \in RaisedKinds
    BY CheckErrorKind, ErrorKinds DEF RaisedKinds
  <1>5. ASSUME NEW x \in CallRecords
        PROVE  LET r == [raised(x) EXCEPT !.pc = "finish"] IN
               r \in CallRecords /\ r.pc = "finish" /\ SameFacts(r, x) /\ SameVerdict(r, x)
    <2> HIDE DEF late
    <2>1. /\ raised(x) \in CallRecords /\ SameFacts(raised(x), x) /\ SameVerdict(raised(x), x)
      BY <1>4, LateKeeps
    <2> HIDE DEF raised
    <2> QED BY <2>1, StageMoves DEF Closing, SameFacts, SameVerdict
  <1>6. CASE Lane!Goes(c, raised([t EXCEPT !.files = "no_target"]), "finish") /\ UNCHANGED Lane!disk
    <2> DEFINE u == [t EXCEPT !.files = "no_target"]
               r == [raised(u) EXCEPT !.pc = "finish"]
    <2>1. call' = [call EXCEPT ![c] = r]
      BY <1>6 DEF Lane!Goes, Lane!Becomes
    <2> HIDE DEF t, raised
    <2>2. /\ u \in CallRecords /\ u.files = "no_target" /\ u.req = s.req /\ u.exit = s.exit
          /\ u.attempted = s.attempted /\ u.outcome = s.outcome /\ u.terminal = s.terminal
          /\ u.fence = s.fence /\ u.snapshot = s.snapshot /\ u.selection = s.selection
      BY <1>3 DEF CallRecords
    <2> HIDE DEF u
    <2>3. r \in CallRecords /\ r.pc = "finish" /\ SameFacts(r, u)
      BY <1>5, <2>2
    <2> HIDE DEF r
    <2>4. /\ r.files = "no_target" /\ r.req = s.req /\ r.exit = s.exit
          /\ r.attempted = s.attempted /\ r.outcome = s.outcome /\ r.terminal = s.terminal
          /\ r.fence = s.fence /\ r.snapshot = s.snapshot /\ r.selection = s.selection
      BY <2>2, <2>3 DEF SameFacts
    <2> QED BY <1>1, <1>2, <1>6, <2>1, <2>3, <2>4, ClosingMemory DEF Closing, Over, Lane!RoleClosed
  <1>7. CASE seen # "none" /\ Lane!Goes(c, raised([t EXCEPT !.files = "observed", !.terminal = seen]), "finish")
             /\ UNCHANGED Lane!disk
    <2> DEFINE u == [t EXCEPT !.files = "observed", !.terminal = seen]
               r == [raised(u) EXCEPT !.pc = "finish"]
    <2>1. call' = [call EXCEPT ![c] = r]
      BY <1>7 DEF Lane!Goes, Lane!Becomes
    <2>2. seen \in LaneTerminals /\ s.outcome \in {"ok", "settled"} /\ seen = lane[c].terminal
      BY <1>1, <1>7 DEF Lane!SeenTerminal, Lanes, LaneTerminals
    <2> HIDE DEF t, raised, seen
    <2>3. u = [[t EXCEPT !.files = "observed"] EXCEPT !.terminal = seen]
      BY <1>3 DEF CallRecords
    <2>4. [t EXCEPT !.files = "observed"] \in CallRecords
      BY <1>3 DEF CallRecords
    <2>5. \A x \in CallRecords : [x EXCEPT !.terminal = seen] \in CallRecords
      BY <2>2 DEF CallRecords
    <2>6. [[t EXCEPT !.files = "observed"] EXCEPT !.terminal = seen] \in CallRecords
      BY <2>4, <2>5
    <2>7. u \in CallRecords
      BY <2>3, <2>6
    <2>8. /\ u.files = "observed" /\ u.terminal = seen /\ u.req = s.req /\ u.exit = s.exit
          /\ u.attempted = s.attempted /\ u.outcome = s.outcome
          /\ u.fence = s.fence /\ u.snapshot = s.snapshot /\ u.selection = s.selection
      BY <1>3 DEF CallRecords
    <2> HIDE DEF u
    <2>9. r \in CallRecords /\ r.pc = "finish" /\ SameFacts(r, u)
      BY <1>5, <2>7
    <2> HIDE DEF r
    <2>10. /\ r.files = "observed" /\ r.terminal = seen /\ r.req = s.req /\ r.exit = s.exit
           /\ r.attempted = s.attempted /\ r.outcome = s.outcome
           /\ r.fence = s.fence /\ r.snapshot = s.snapshot /\ r.selection = s.selection
      BY <2>8, <2>9 DEF SameFacts
    <2>11. Stages(r) /\ Settled(r) /\ LaneFacts(r, lane[c])
      BY <1>1, <2>2, <2>9, <2>10 DEF SoundCall, SoundLane, Stages, Settled, LaneFacts, BeforeLane, Over
    <2>12. /\ Receipted(r, c \in evidence)
           /\ Custodied(r, lane[c], c \in dirs, <<c, "snapshot">> \in inputs, <<c, "selection">> \in inputs)
      BY <1>1, <2>9, <2>10 DEF SoundCall, SoundLane, Custodied, Receipted, Lane!RoleClosed, Opening
    <2>13. SoundLane(r, lane[c], c \in dirs, <<c, "snapshot">> \in inputs, <<c, "selection">> \in inputs,
                 c \in evidence)
      BY <2>11, <2>12 DEF SoundLane
    <2> QED BY <1>1, <1>2, <1>7, <2>1, <2>9, <2>10, <2>13, MemoryMove
  <1>8. ASSUME NEW k \in RaisedKinds, Lane!OwnerFails(c, t, k), UNCHANGED Lane!disk
        PROVE  LaneInv'
    <2> DEFINE r == Lane!RecordFailure(Lane!Raise(t, k, "finish"), k)
    <2>1. r \in CallRecords /\ r.pc = "finish" /\ SameFacts(r, t) /\ call' = [call EXCEPT ![c] = r]
      BY <1>8, <1>3, FailedRaise DEF Lane!OwnerFails, Lane!Becomes, Closing
    <2> HIDE DEF r, t
    <2>2. /\ r.req = s.req /\ r.exit = s.exit /\ r.attempted = s.attempted /\ r.outcome = s.outcome
          /\ r.terminal = s.terminal /\ r.fence = s.fence /\ r.files = t.files
          /\ r.snapshot = s.snapshot /\ r.selection = s.selection
      BY <1>3, <2>1 DEF SameFacts
    <2>3. r.files \in {"none", "new", "disposed"} => s.files \in {"none", "new", "disposed"}
      BY <1>3, <2>2
    <2> QED BY <1>1, <1>2, <1>8, <2>1, <2>2, <2>3, ClosingMemory DEF Lane!RoleClosed, Closing, Over
  <1>9. UNCHANGED Lane!disk
    BY DEF Lane!Terminal
  <1>10. \/ Lane!Goes(c, raised([t EXCEPT !.files = "no_target"]), "finish")
         \/ seen # "none" /\ Lane!Goes(c, raised([t EXCEPT !.files = "observed", !.terminal = seen]), "finish")
         \/ Lane!OwnerFails(c, t, "lifetime")
         \/ \E k \in Lane!Errors : Lane!OwnerFails(c, t, k)
    BY DEF Lane!Terminal
  <1> HIDE DEF t, raised, seen
  <1> QED BY <1>4, <1>6, <1>7, <1>8, <1>9, <1>10

LEMMA StepFinishLane == ASSUME LaneInv, NEW c \in Calls, Lane!FinishLane(c) PROVE LaneInv'
  <1> DEFINE s == call[c]
  <1>1. s \in CallRecords /\ SoundCall(c) /\ lane[c] \in Lanes /\ s.pc = "finish"
    BY CallTypes DEF Lane!FinishLane, Lane!At
  <1>2. UNCHANGED <<lane, outputs, evidence>>
    BY DEF Lane!FinishLane, Lane!Kept
  <1> DEFINE f == Lane!Finish(s, s.raised)
             r == [f EXCEPT !.pc = "dispose"]
  <1>3. f \in CallRecords /\ SameFacts(f, s)
    BY <1>1, FinishKeeps DEF CallRecords
  <1>4. call' = [call EXCEPT ![c] = r] /\ UNCHANGED Lane!disk
    BY DEF Lane!FinishLane, Lane!Goes, Lane!Becomes
  <1> HIDE DEF f
  <1>5. r \in CallRecords /\ r.pc = "dispose" /\ SameFacts(r, f)
    BY <1>3, StageMoves DEF Closing
  <1> HIDE DEF r
  <1> QED
    BY ZenonT(60), <1>1, <1>2, <1>3, <1>4, <1>5, ClosingMemory DEF SameFacts, Lane!RoleClosed, Closing,
       Over

LEMMA StepDispose == ASSUME LaneInv, NEW c \in Calls, Lane!Dispose(c) PROVE LaneInv'
  <1> DEFINE s == call[c]
  <1>1. s \in CallRecords /\ SoundCall(c) /\ lane[c] \in Lanes /\ s.pc = "dispose"
    BY CallTypes DEF Lane!Dispose, Lane!At
  <1>2. UNCHANGED <<lane, outputs, evidence>>
    BY DEF Lane!Dispose, Lane!Kept
  <1> DEFINE admitted == Lane!DependentsSettled(s)
                         /\ s.files \in {"acquired", "prepared", "no_target", "observed"}
             fails(k) == Lane!Becomes(c, Lane!RecordFailure(Lane!Raise(s, k, "release"), k))
  <1>3. admitted => ~Live(lane[c])
    BY <1>1, NotLive DEF SoundCall, SoundLane
  <1>4. Custodied(s, lane[c], c \in dirs, <<c, "snapshot">> \in inputs, <<c, "selection">> \in inputs)
    BY <1>1 DEF SoundCall, SoundLane
  <1>5. UNCHANGED <<markers, inputs>>
    BY DEF Lane!Dispose
  <1>6. CASE admitted /\ dirs' = dirs \ {c} /\ Lane!Goes(c, [s EXCEPT !.files = "disposed"], "release")
    <2> DEFINE u == [s EXCEPT !.files = "disposed"]
               r == [u EXCEPT !.pc = "release"]
    <2>1. call' = [call EXCEPT ![c] = r]
      BY <1>6 DEF Lane!Goes, Lane!Becomes
    <2>2. /\ u \in CallRecords /\ u.files = "disposed" /\ u.req = s.req /\ u.exit = s.exit
          /\ u.attempted = s.attempted /\ u.outcome = s.outcome /\ u.terminal = s.terminal
          /\ u.fence = s.fence /\ u.snapshot = s.snapshot /\ u.selection = s.selection
      BY <1>1 DEF CallRecords
    <2> HIDE DEF u
    <2>3. r \in CallRecords /\ r.pc = "release" /\ SameFacts(r, u)
      BY <2>2, StageMoves DEF Closing
    <2> HIDE DEF r
    <2>4. /\ r.req = s.req /\ r.exit = s.exit /\ r.attempted = s.attempted
          /\ r.outcome = s.outcome /\ r.terminal = s.terminal /\ r.fence = s.fence
          /\ r.snapshot = s.snapshot /\ r.selection = s.selection
      BY <2>2, <2>3 DEF SameFacts
    <2>5. OthersKeep(c) /\ c \notin dirs'
      BY <1>2, <1>5, <1>6 DEF LaneInv, TypeInv, OthersKeep
    <2>6. /\ Lane!RoleClosed(r, "snapshot") => <<c, "snapshot">> \notin inputs'
          /\ Lane!RoleClosed(r, "selection") => <<c, "selection">> \notin inputs'
      BY <1>4, <1>5, <2>4 DEF Custodied, Lane!RoleClosed
    <2> QED BY <1>1, <1>2, <1>3, <1>5, <1>6, <2>1, <2>3, <2>4, <2>5, <2>6, ClosingMove DEF Closing, Over
  <1>7. ASSUME NEW k \in RaisedKinds, fails(k), dirs' \in Lane!MayRemain(dirs, c), admitted \/ UNCHANGED dirs
        PROVE  LaneInv'
    <2> DEFINE r == Lane!RecordFailure(Lane!Raise(s, k, "release"), k)
    <2>1. r \in CallRecords /\ r.pc = "release" /\ SameFacts(r, s) /\ call' = [call EXCEPT ![c] = r]
      BY <1>1, <1>7, FailedRaise DEF Lane!Becomes, Closing
    <2> HIDE DEF r
    <2>2. /\ r.req = s.req /\ r.exit = s.exit /\ r.attempted = s.attempted /\ r.files = s.files
          /\ r.outcome = s.outcome /\ r.terminal = s.terminal /\ r.fence = s.fence
          /\ r.snapshot = s.snapshot /\ r.selection = s.selection
      BY <2>1 DEF SameFacts
    <2>3. CASE UNCHANGED dirs
      <3>1. UNCHANGED Lane!disk
        BY <1>5, <2>3 DEF Lane!disk
      <3> QED BY <1>1, <1>2, <2>1, <2>2, <3>1, ClosingMemory DEF Closing, Over, Lane!RoleClosed
    <2>4. CASE admitted
      <3>1. OthersKeep(c)
        BY <1>2, <1>5, <1>7 DEF LaneInv, TypeInv, OthersKeep, Lane!MayRemain
      <3>2. /\ r.files \in {"none", "new", "disposed"} => c \notin dirs'
            /\ Lane!RoleClosed(r, "snapshot") => <<c, "snapshot">> \notin inputs'
            /\ Lane!RoleClosed(r, "selection") => <<c, "selection">> \notin inputs'
        BY <1>4, <1>5, <2>2, <2>4 DEF Custodied, Lane!RoleClosed
      <3> QED BY <1>1, <1>2, <1>3, <1>5, <2>1, <2>2, <2>4, <3>1, <3>2, ClosingMove DEF Closing, Over
    <2> QED BY <1>7, <2>3, <2>4
  <1>8. dirs \in Lane!MayRemain(dirs, c) /\ "lifetime" \in RaisedKinds /\ Lane!Errors \subseteq RaisedKinds
    BY ErrorKinds DEF Lane!MayRemain
  <1>9. \/ admitted /\ dirs' = dirs \ {c} /\ Lane!Goes(c, [s EXCEPT !.files = "disposed"], "release")
        \/ fails("lifetime") /\ UNCHANGED dirs
        \/ admitted /\ (\E k \in Lane!Errors : fails(k)) /\ dirs' \in Lane!MayRemain(dirs, c)
    BY DEF Lane!Dispose
  <1> HIDE DEF admitted, fails
  <1> QED BY <1>6, <1>7, <1>8, <1>9

LEMMA StepRelease == ASSUME LaneInv, NEW c \in Calls, Lane!Release(c) PROVE LaneInv'
  <1> DEFINE s == call[c]
  <1>1. s \in CallRecords /\ SoundCall(c) /\ lane[c] \in Lanes /\ s.pc = "release"
    BY CallTypes DEF Lane!Release, Lane!At
  <1>2. UNCHANGED <<lane, outputs, evidence>>
    BY DEF Lane!Release, Lane!Kept
  <1> DEFINE goes(x) == [x EXCEPT !.raised = IF @ = "none" THEN @ ELSE Lane!Projected(x, @)]
  <1>3. UNCHANGED Lane!disk
    BY DEF Lane!Release
  <1>4. ASSUME NEW x \in CallRecords, SameFacts(x, s), Lane!Goes(c, goes(x), "inner") PROVE LaneInv'
    <2> DEFINE w == IF x.raised = "none" THEN x.raised ELSE Lane!Projected(x, x.raised)
               u == [x EXCEPT !.raised = w]
               r == [u EXCEPT !.pc = "inner"]
    <2>1. goes(x) = u
      OBVIOUS
    <2>2. call' = [call EXCEPT ![c] = r]
      BY <1>4, <2>1 DEF Lane!Goes, Lane!Becomes
    <2>3. x.raised \in RaisedKinds
      BY DEF CallRecords
    <2>4. w \in RaisedKinds
      BY <2>3, ProjectedKind
    <2> HIDE DEF w
    <2>5. u \in CallRecords /\ SameFacts(u, s)
      BY <1>4, <2>4 DEF CallRecords, SameFacts
    <2> HIDE DEF u
    <2>6. r \in CallRecords /\ r.pc = "inner" /\ SameFacts(r, u)
      BY <2>5, StageMoves DEF Closing
    <2> HIDE DEF r
    <2> QED
      BY ZenonT(60), <1>1, <1>2, <1>3, <2>2, <2>5, <2>6, ClosingMemory DEF SameFacts, Lane!RoleClosed,
         Closing, Over
  <1>5. \/ Lane!Goes(c, goes(s), "inner")
        \/ \E k \in Lane!Errors : Lane!Goes(c, goes(Lane!Remember(Lane!Raise(s, k, "inner"), k)), "inner")
    BY DEF Lane!Release
  <1>6. ASSUME NEW k \in Lane!Errors
        PROVE  /\ Lane!Remember(Lane!Raise(s, k, "inner"), k) \in CallRecords
               /\ SameFacts(Lane!Remember(Lane!Raise(s, k, "inner"), k), s)
    <2>1. k \in RaisedKinds
      BY ErrorKinds
    <2>2. Lane!Raise(s, k, "inner") \in CallRecords /\ SameFacts(Lane!Raise(s, k, "inner"), s)
      BY <1>1, <2>1, RaiseKeeps DEF Closing
    <2> QED BY <2>1, <2>2, RememberingKeeps DEF SameFacts
  <1>7. SameFacts(s, s)
    BY DEF SameFacts
  <1> HIDE DEF goes
  <1> QED BY <1>1, <1>4, <1>5, <1>6, <1>7

\* Neither private input of the call is among these facts.
SameOthers(r, s) ==
  /\ r.req = s.req /\ r.exit = s.exit /\ r.attempted = s.attempted /\ r.outcome = s.outcome
  /\ r.terminal = s.terminal /\ r.files = s.files /\ r.fence = s.fence

LEMMA StepInner == ASSUME LaneInv, NEW c \in Calls, Lane!Inner(c) PROVE LaneInv'
  <1> DEFINE s == call[c]
             nx(x) == Lane!OutOf("selection", x)
             f == Lane!Finish(s, s.raised)
             g == [f EXCEPT !.selection = "kept"]
             h == [f EXCEPT !.selection = "closed"]
             kept == Lane!Abort(g)
             out(x) == IF Lane!Clear(x) THEN x ELSE Lane!CloseError(x, Lane!CheckError(x))
  <1>1. s \in CallRecords /\ SoundCall(c) /\ lane[c] \in Lanes /\ s.pc = "inner"
    BY CallTypes DEF Lane!Inner, Lane!At
  <1>2. UNCHANGED <<lane, outputs, evidence>>
    BY DEF Lane!Inner, Lane!Kept
  <1>3. f \in CallRecords /\ SameFacts(f, s)
    BY <1>1, FinishKeeps DEF CallRecords
  <1>4. ASSUME NEW x \in CallRecords
        PROVE  nx(x) \in CallRecords /\ (nx(x).pc = "policy" \/ nx(x).pc = "close") /\ SameFacts(nx(x), x)
    BY StageMoves DEF Closing, Lane!OutOf
  <1>5. /\ \/ f.selection # "made" /\ Lane!Becomes(c, nx(f)) /\ UNCHANGED Lane!disk
           \/ /\ Lane!DependentsSettled(f) /\ inputs' = inputs \ {<<c, "selection">>}
              /\ Lane!Becomes(c, nx(out(h))) /\ UNCHANGED <<markers, dirs>>
           \/ Lane!Becomes(c, nx(Lane!CloseError(kept, "lifetime"))) /\ UNCHANGED Lane!disk
           \/ /\ Lane!DependentsSettled(f)
              /\ inputs' \in Lane!MayRemain(inputs, <<c, "selection">>) /\ UNCHANGED <<markers, dirs>>
              /\ \E k \in Lane!Errors : Lane!Becomes(c, nx(Lane!CloseError(Lane!Latched(kept, k), k)))
    BY SMTT(30) DEF Lane!Inner, Lane!Closes
  <1> HIDE DEF f, nx
  <1>6. /\ g \in CallRecords /\ SameOthers(g, s) /\ g.snapshot = s.snapshot /\ g.selection = "kept"
    BY <1>3 DEF CallRecords, RoleStates, SameFacts, SameOthers
  <1>7. /\ h \in CallRecords /\ SameOthers(h, s) /\ h.snapshot = s.snapshot /\ h.selection = "closed"
    BY <1>3 DEF CallRecords, RoleStates, SameFacts, SameOthers
  <1> HIDE DEF g, h
  <1>8. /\ kept \in CallRecords /\ SameOthers(kept, s) /\ kept.snapshot = s.snapshot /\ kept.selection = "kept"
    BY <1>6, AbortKeeps DEF SameFacts, SameOthers
  <1> HIDE DEF kept
  <1>9. /\ out(h) \in CallRecords /\ SameOthers(out(h), s) /\ out(h).snapshot = s.snapshot
        /\ out(h).selection = "closed"
    BY <1>7, CloseErrorKeeps, CheckErrorKind DEF SameFacts, SameOthers
  <1> HIDE DEF out
  <1>10. ASSUME NEW k \in RaisedKinds
         PROVE  LET x == Lane!CloseError(Lane!Latched(kept, k), k)
                    y == Lane!CloseError(kept, k)
                IN /\ x \in CallRecords /\ SameOthers(x, s) /\ x.snapshot = s.snapshot /\ x.selection = "kept"
                   /\ y \in CallRecords /\ SameOthers(y, s) /\ y.snapshot = s.snapshot /\ y.selection = "kept"
    <2>1. Lane!Latched(kept, k) \in CallRecords /\ SameFacts(Lane!Latched(kept, k), kept)
      BY <1>8, LatchedKeeps
    <2> QED BY <1>8, <2>1, CloseErrorKeeps DEF SameFacts, SameOthers
  <1>11. Custodied(s, lane[c], c \in dirs, <<c, "snapshot">> \in inputs, <<c, "selection">> \in inputs)
    BY <1>1 DEF SoundCall, SoundLane
  <1>12. ASSUME NEW x \in CallRecords, SameOthers(x, s), x.snapshot = s.snapshot, Lane!Becomes(c, nx(x)),
                UNCHANGED Lane!disk, x.selection \in {"none", "closed"} => s.selection \in {"none",
                   "closed"}
         PROVE  LaneInv'
    <2> DEFINE r == nx(x)
    <2>1. call' = [call EXCEPT ![c] = r]
      BY <1>12 DEF Lane!Becomes
    <2>2. r \in CallRecords /\ r.pc \in Closing \ {"terminal"} /\ SameFacts(r, x)
      BY <1>4, <1>12 DEF Closing
    <2> HIDE DEF r
    <2>3. /\ r.req = s.req /\ r.exit = s.exit /\ r.attempted = s.attempted /\ r.files = s.files
          /\ r.outcome = s.outcome /\ r.terminal = s.terminal /\ r.fence = s.fence
          /\ r.snapshot = s.snapshot /\ r.selection = x.selection
      BY <1>12, <2>2 DEF SameFacts, SameOthers
    <2> QED BY <1>1, <1>2, <1>12, <2>1, <2>2, <2>3, ClosingMemory DEF Over, Lane!RoleClosed
  <1>13. ASSUME NEW x \in CallRecords, SameOthers(x, s), x.snapshot = s.snapshot, Lane!Becomes(c, nx(x)),
                Lane!DependentsSettled(f), inputs' \in Lane!MayRemain(inputs, <<c, "selection">>),
                UNCHANGED <<markers, dirs>>,
                x.selection = "kept" \/ <<c, "selection">> \notin inputs'
         PROVE  LaneInv'
    <2> DEFINE r == nx(x)
    <2>1. call' = [call EXCEPT ![c] = r]
      BY <1>13 DEF Lane!Becomes
    <2>2. r \in CallRecords /\ r.pc \in Closing \ {"terminal"} /\ SameFacts(r, x)
      BY <1>4, <1>13 DEF Closing
    <2> HIDE DEF r
    <2>3. /\ r.req = s.req /\ r.exit = s.exit /\ r.attempted = s.attempted /\ r.files = s.files
          /\ r.outcome = s.outcome /\ r.terminal = s.terminal /\ r.fence = s.fence
          /\ r.snapshot = s.snapshot /\ r.selection = x.selection
      BY <1>13, <2>2 DEF SameFacts, SameOthers
    <2>4. ~Live(lane[c])
      BY <1>1, <1>3, <1>13, NotLive DEF SoundCall, SoundLane, SameFacts
    <2>5. OthersKeep(c) /\ (<<c, "snapshot">> \in inputs' <=> <<c, "snapshot">> \in inputs)
      BY <1>2, <1>13 DEF LaneInv, TypeInv, OthersKeep, Lane!MayRemain
    <2>6. /\ r.files \in {"none", "new", "disposed"} => c \notin dirs'
          /\ Lane!RoleClosed(r, "snapshot") => <<c, "snapshot">> \notin inputs'
          /\ Lane!RoleClosed(r, "selection") => <<c, "selection">> \notin inputs'
      BY <1>11, <1>13, <2>3, <2>5 DEF Custodied, Lane!RoleClosed
    <2> QED BY <1>1, <1>2, <1>13, <2>1, <2>2, <2>3, <2>4, <2>5, <2>6, ClosingMove DEF Over
  <1>14. /\ SameOthers(f, s) /\ f.snapshot = s.snapshot /\ f.selection = s.selection
         /\ Lane!Errors \subseteq RaisedKinds /\ "lifetime" \in RaisedKinds
    BY <1>3, ErrorKinds DEF SameFacts, SameOthers
  <1>15. CASE f.selection # "made" /\ Lane!Becomes(c, nx(f)) /\ UNCHANGED Lane!disk
    BY <1>3, <1>12, <1>14, <1>15
  <1>16. CASE /\ Lane!DependentsSettled(f) /\ inputs' = inputs \ {<<c, "selection">>}
              /\ Lane!Becomes(c, nx(out(h))) /\ UNCHANGED <<markers, dirs>>
    BY <1>9, <1>13, <1>16 DEF Lane!MayRemain
  <1>17. CASE Lane!Becomes(c, nx(Lane!CloseError(kept, "lifetime"))) /\ UNCHANGED Lane!disk
    BY <1>10, <1>12, <1>14, <1>17
  <1>18. ASSUME NEW k \in Lane!Errors, Lane!DependentsSettled(f),
                inputs' \in Lane!MayRemain(inputs, <<c, "selection">>), UNCHANGED <<markers, dirs>>,
                Lane!Becomes(c, nx(Lane!CloseError(Lane!Latched(kept, k), k)))
         PROVE  LaneInv'
    BY <1>10, <1>13, <1>14, <1>18
  <1> QED BY <1>5, <1>15, <1>16, <1>17, <1>18

LEMMA StepPolicy == ASSUME LaneInv, NEW c \in Calls, Lane!Policy(c) PROVE LaneInv'
  <1> DEFINE s == call[c]
  <1>1. s \in CallRecords /\ SoundCall(c) /\ lane[c] \in Lanes /\ s.pc = "policy"
    BY CallTypes DEF Lane!Policy, Lane!At
  <1>2. UNCHANGED <<lane, outputs, evidence>>
    BY DEF Lane!Policy, Lane!Kept
  <1>3. CASE Lane!Goes(c, s, "close") /\ UNCHANGED Lane!disk
    <2> DEFINE r == [s EXCEPT !.pc = "close"]
    <2>1. call' = [call EXCEPT ![c] = r]
      BY <1>3 DEF Lane!Goes, Lane!Becomes
    <2>2. r \in CallRecords /\ r.pc = "close" /\ SameFacts(r, s)
      BY <1>1, StageMoves DEF Closing
    <2> HIDE DEF r
    <2> QED BY <1>1, <1>2, <1>3, <2>1, <2>2, ClosingMemory DEF SameFacts, Lane!RoleClosed, Closing, Over
  <1>4. ASSUME NEW k \in RaisedKinds, Lane!Becomes(c, Lane!Raise(s, k, "close")), UNCHANGED Lane!disk
        PROVE  LaneInv'
    BY <1>1, <1>4, Raises DEF Closing, Over, Lane!Policy, Lane!Kept
  <1> QED BY <1>3, <1>4, ErrorKinds DEF Lane!Policy

LEMMA StepCloseInputs == ASSUME LaneInv, NEW c \in Calls, Lane!CloseInputs(c) PROVE LaneInv'
  <1> DEFINE s == call[c]
             nx(x) == Lane!OutOf("snapshot", x)
             f == Lane!Finish(s, s.raised)
             g == [f EXCEPT !.snapshot = "kept"]
             h == [f EXCEPT !.snapshot = "closed"]
             kept == Lane!Abort(g)
             out(x) == IF Lane!Clear(x) THEN x ELSE Lane!CloseError(x, Lane!CheckError(x))
  <1>1. s \in CallRecords /\ SoundCall(c) /\ lane[c] \in Lanes /\ s.pc = "close"
    BY CallTypes DEF Lane!CloseInputs, Lane!At
  <1>2. UNCHANGED <<lane, outputs, evidence>>
    BY DEF Lane!CloseInputs, Lane!Kept
  <1>3. f \in CallRecords /\ SameFacts(f, s)
    BY <1>1, FinishKeeps DEF CallRecords
  <1>4. ASSUME NEW x \in CallRecords
        PROVE  nx(x) \in CallRecords /\ (nx(x).pc = "custody-close") /\ SameFacts(nx(x), x)
    BY StageMoves DEF Closing, Lane!OutOf
  <1>5. /\ \/ f.snapshot # "made" /\ Lane!Becomes(c, nx(f)) /\ UNCHANGED Lane!disk
           \/ /\ Lane!DependentsSettled(f) /\ inputs' = inputs \ {<<c, "snapshot">>}
              /\ Lane!Becomes(c, nx(out(h))) /\ UNCHANGED <<markers, dirs>>
           \/ Lane!Becomes(c, nx(Lane!CloseError(kept, "lifetime"))) /\ UNCHANGED Lane!disk
           \/ /\ Lane!DependentsSettled(f)
              /\ inputs' \in Lane!MayRemain(inputs, <<c, "snapshot">>) /\ UNCHANGED <<markers, dirs>>
              /\ \E k \in Lane!Errors : Lane!Becomes(c, nx(Lane!CloseError(Lane!Latched(kept, k), k)))
    BY SMTT(30) DEF Lane!CloseInputs, Lane!Closes
  <1> HIDE DEF f, nx
  <1>6. /\ g \in CallRecords /\ SameOthers(g, s) /\ g.selection = s.selection /\ g.snapshot = "kept"
    BY <1>3 DEF CallRecords, RoleStates, SameFacts, SameOthers
  <1>7. /\ h \in CallRecords /\ SameOthers(h, s) /\ h.selection = s.selection /\ h.snapshot = "closed"
    BY <1>3 DEF CallRecords, RoleStates, SameFacts, SameOthers
  <1> HIDE DEF g, h
  <1>8. /\ kept \in CallRecords /\ SameOthers(kept, s) /\ kept.selection = s.selection /\ kept.snapshot = "kept"
    BY <1>6, AbortKeeps DEF SameFacts, SameOthers
  <1> HIDE DEF kept
  <1>9. /\ out(h) \in CallRecords /\ SameOthers(out(h), s) /\ out(h).selection = s.selection
        /\ out(h).snapshot = "closed"
    BY <1>7, CloseErrorKeeps, CheckErrorKind DEF SameFacts, SameOthers
  <1> HIDE DEF out
  <1>10. ASSUME NEW k \in RaisedKinds
         PROVE  LET x == Lane!CloseError(Lane!Latched(kept, k), k)
                    y == Lane!CloseError(kept, k)
                IN /\ x \in CallRecords /\ SameOthers(x, s) /\ x.selection = s.selection /\ x.snapshot = "kept"
                   /\ y \in CallRecords /\ SameOthers(y, s) /\ y.selection = s.selection /\ y.snapshot = "kept"
    <2>1. Lane!Latched(kept, k) \in CallRecords /\ SameFacts(Lane!Latched(kept, k), kept)
      BY <1>8, LatchedKeeps
    <2> QED BY <1>8, <2>1, CloseErrorKeeps DEF SameFacts, SameOthers
  <1>11. Custodied(s, lane[c], c \in dirs, <<c, "snapshot">> \in inputs, <<c, "selection">> \in inputs)
    BY <1>1 DEF SoundCall, SoundLane
  <1>12. ASSUME NEW x \in CallRecords, SameOthers(x, s), x.selection = s.selection, Lane!Becomes(c,
     nx(x)),
                UNCHANGED Lane!disk, x.snapshot \in {"none", "closed"} => s.snapshot \in {"none",
                   "closed"}
         PROVE  LaneInv'
    <2> DEFINE r == nx(x)
    <2>1. call' = [call EXCEPT ![c] = r]
      BY <1>12 DEF Lane!Becomes
    <2>2. r \in CallRecords /\ r.pc \in Closing \ {"terminal"} /\ SameFacts(r, x)
      BY <1>4, <1>12 DEF Closing
    <2> HIDE DEF r
    <2>3. /\ r.req = s.req /\ r.exit = s.exit /\ r.attempted = s.attempted /\ r.files = s.files
          /\ r.outcome = s.outcome /\ r.terminal = s.terminal /\ r.fence = s.fence
          /\ r.selection = s.selection /\ r.snapshot = x.snapshot
      BY <1>12, <2>2 DEF SameFacts, SameOthers
    <2> QED BY <1>1, <1>2, <1>12, <2>1, <2>2, <2>3, ClosingMemory DEF Over, Lane!RoleClosed
  <1>13. ASSUME NEW x \in CallRecords, SameOthers(x, s), x.selection = s.selection, Lane!Becomes(c,
     nx(x)),
                Lane!DependentsSettled(f), inputs' \in Lane!MayRemain(inputs, <<c, "snapshot">>),
                UNCHANGED <<markers, dirs>>,
                x.snapshot = "kept" \/ <<c, "snapshot">> \notin inputs'
         PROVE  LaneInv'
    <2> DEFINE r == nx(x)
    <2>1. call' = [call EXCEPT ![c] = r]
      BY <1>13 DEF Lane!Becomes
    <2>2. r \in CallRecords /\ r.pc \in Closing \ {"terminal"} /\ SameFacts(r, x)
      BY <1>4, <1>13 DEF Closing
    <2> HIDE DEF r
    <2>3. /\ r.req = s.req /\ r.exit = s.exit /\ r.attempted = s.attempted /\ r.files = s.files
          /\ r.outcome = s.outcome /\ r.terminal = s.terminal /\ r.fence = s.fence
          /\ r.selection = s.selection /\ r.snapshot = x.snapshot
      BY <1>13, <2>2 DEF SameFacts, SameOthers
    <2>4. ~Live(lane[c])
      BY <1>1, <1>3, <1>13, NotLive DEF SoundCall, SoundLane, SameFacts
    <2>5. OthersKeep(c) /\ (<<c, "selection">> \in inputs' <=> <<c, "selection">> \in inputs)
      BY <1>2, <1>13 DEF LaneInv, TypeInv, OthersKeep, Lane!MayRemain
    <2>6. /\ r.files \in {"none", "new", "disposed"} => c \notin dirs'
          /\ Lane!RoleClosed(r, "snapshot") => <<c, "snapshot">> \notin inputs'
          /\ Lane!RoleClosed(r, "selection") => <<c, "selection">> \notin inputs'
      BY <1>11, <1>13, <2>3, <2>5 DEF Custodied, Lane!RoleClosed
    <2> QED BY <1>1, <1>2, <1>13, <2>1, <2>2, <2>3, <2>4, <2>5, <2>6, ClosingMove DEF Over
  <1>14. /\ SameOthers(f, s) /\ f.selection = s.selection /\ f.snapshot = s.snapshot
         /\ Lane!Errors \subseteq RaisedKinds /\ "lifetime" \in RaisedKinds
    BY <1>3, ErrorKinds DEF SameFacts, SameOthers
  <1>15. CASE f.snapshot # "made" /\ Lane!Becomes(c, nx(f)) /\ UNCHANGED Lane!disk
    BY <1>3, <1>12, <1>14, <1>15
  <1>16. CASE /\ Lane!DependentsSettled(f) /\ inputs' = inputs \ {<<c, "snapshot">>}
              /\ Lane!Becomes(c, nx(out(h))) /\ UNCHANGED <<markers, dirs>>
    BY <1>9, <1>13, <1>16 DEF Lane!MayRemain
  <1>17. CASE Lane!Becomes(c, nx(Lane!CloseError(kept, "lifetime"))) /\ UNCHANGED Lane!disk
    BY <1>10, <1>12, <1>14, <1>17
  <1>18. ASSUME NEW k \in Lane!Errors, Lane!DependentsSettled(f),
                inputs' \in Lane!MayRemain(inputs, <<c, "snapshot">>), UNCHANGED <<markers, dirs>>,
                Lane!Becomes(c, nx(Lane!CloseError(Lane!Latched(kept, k), k)))
         PROVE  LaneInv'
    BY <1>10, <1>13, <1>14, <1>18
  <1> QED BY <1>5, <1>15, <1>16, <1>17, <1>18

LEMMA StepCloseCustody == ASSUME LaneInv, NEW c \in Calls, Lane!CloseCustody(c) PROVE LaneInv'
  <1> DEFINE s == call[c]
             f == Lane!Finish(s, s.raised)
             a == [f EXCEPT !.custody = "closed"]
             b == [f EXCEPT !.custody = "broken"]
             out(x) == IF Lane!Clear(x) THEN x ELSE Lane!CloseError(x, Lane!CheckError(x))
  <1>1. s \in CallRecords /\ SoundCall(c) /\ lane[c] \in Lanes /\ s.pc = "custody-close"
    BY CallTypes DEF Lane!CloseCustody, Lane!At
  <1>2. UNCHANGED <<lane, outputs, evidence>>
    BY DEF Lane!CloseCustody, Lane!Kept
  <1>3. f \in CallRecords /\ SameFacts(f, s)
    BY <1>1, FinishKeeps DEF CallRecords
  <1>4. /\ UNCHANGED Lane!disk
        /\ \/ Lane!Goes(c, f, "settle") \/ Lane!Goes(c, out(a), "settle")
           \/ \E k \in Lane!Errors : Lane!Goes(c, Lane!CloseError(Lane!Latched(b, k), k), "settle")
    BY DEF Lane!CloseCustody
  <1> HIDE DEF f
  <1>5. /\ a \in CallRecords /\ SameOthers(a, s) /\ a.snapshot = s.snapshot /\ a.selection = s.selection
        /\ b \in CallRecords /\ SameOthers(b, s) /\ b.snapshot = s.snapshot /\ b.selection = s.selection
    BY <1>3 DEF CallRecords, SameFacts, SameOthers
  <1> HIDE DEF a, b
  <1>6. /\ out(a) \in CallRecords /\ SameOthers(out(a), s)
        /\ out(a).snapshot = s.snapshot /\ out(a).selection = s.selection
    BY <1>5, CloseErrorKeeps, CheckErrorKind DEF SameFacts, SameOthers
  <1> HIDE DEF out
  <1>7. ASSUME NEW k \in Lane!Errors
        PROVE  LET x == Lane!CloseError(Lane!Latched(b, k), k) IN
               x \in CallRecords /\ SameOthers(x, s) /\ x.snapshot = s.snapshot /\ x.selection = s.selection
    <2>1. k \in RaisedKinds
      BY ErrorKinds
    <2>2. Lane!Latched(b, k) \in CallRecords /\ SameFacts(Lane!Latched(b, k), b)
      BY <1>5, <2>1, LatchedKeeps
    <2> QED BY <1>5, <2>1, <2>2, CloseErrorKeeps DEF SameFacts, SameOthers
  <1>8. ASSUME NEW x \in CallRecords, SameOthers(x, s), x.snapshot = s.snapshot,
     x.selection = s.selection,
               Lane!Goes(c, x, "settle")
        PROVE  LaneInv'
    <2> DEFINE r == [x EXCEPT !.pc = "settle"]
    <2>1. call' = [call EXCEPT ![c] = r]
      BY <1>8 DEF Lane!Goes, Lane!Becomes
    <2>2. r \in CallRecords /\ r.pc = "settle" /\ SameFacts(r, x)
      BY StageMoves DEF Closing
    <2> HIDE DEF r
    <2>3. /\ r.req = s.req /\ r.exit = s.exit /\ r.attempted = s.attempted /\ r.files = s.files
          /\ r.outcome = s.outcome /\ r.terminal = s.terminal /\ r.fence = s.fence
          /\ r.snapshot = s.snapshot /\ r.selection = s.selection
      BY <1>8, <2>2 DEF SameFacts, SameOthers
    <2> QED BY <1>1, <1>2, <1>4, <2>1, <2>2, <2>3, ClosingMemory DEF Closing, Over, Lane!RoleClosed
  <1>9. SameOthers(f, s) /\ f.snapshot = s.snapshot /\ f.selection = s.selection
    BY <1>3 DEF SameFacts, SameOthers
  <1> QED BY <1>3, <1>4, <1>5, <1>6, <1>7, <1>8, <1>9
-----------------------------------------------------------------------------
(* The settlement, the verdict, signals and deaths.                              *)

LEMMA MarkersRemoved ==
  ASSUME LaneInv, NEW c \in Calls, NEW r \in CallRecords, call[c].fence = "pending",
         \A d \in Calls : Lane!Marker(d)' = Lane!Marker(d),
         \A d \in Calls : call'[d] = IF d = c THEN r ELSE call[d],
         markers' \in Lane!MayRemain(markers, Lane!Marker(c)),
         r.fence = "retiring" \/ (r.fence = "retired" /\ Lane!Marker(c) \notin markers')
  PROVE  MarkersInv'
  <1>1. markers' \subseteq markers /\ \A m \in markers : m # Lane!Marker(c) => m \in markers'
    BY DEF Lane!MayRemain
  <1>2. ASSUME NEW d \in Calls, call'[d].fence = "pending"
        PROVE  d # c /\ call[d].fence = "pending" /\ Lane!Marker(d) # Lane!Marker(c) /\ Lane!Marker(d) \in markers'
    <2>1. d # c /\ call[d].fence = "pending"
      BY <1>2
    <2>2. Lane!Marker(d) \in markers /\ Lane!Marker(d) # Lane!Marker(c)
      BY <2>1 DEF LaneInv, MarkersInv
    <2> QED BY <1>1, <2>1, <2>2
  <1>3. ASSUME NEW d \in Calls, NEW e \in Calls, call'[d].fence = "pending",
               call'[e].fence = "pending", Lane!Marker(e) = Lane!Marker(d)
        PROVE  e = d
    BY <1>2, <1>3 DEF LaneInv, MarkersInv
  <1>4. ASSUME NEW d \in Calls, call'[d].fence = "retired", Lane!Marker(d) \in markers'
        PROVE  \E e \in Calls \ {d} : Lane!Marker(e) = Lane!Marker(d) /\ call'[e].fence # "none"
    <2>1. d # c /\ call[d].fence = "retired" /\ Lane!Marker(d) \in markers
      BY <1>1, <1>4
    <2>2. PICK e \in Calls \ {d} : Lane!Marker(e) = Lane!Marker(d) /\ call[e].fence # "none"
      BY <2>1 DEF LaneInv, MarkersInv
    <2>3. call'[e].fence # "none"
      BY <2>2
    <2> QED BY <2>2, <2>3
  <1>5. \A d \in Calls : /\ call'[d].fence = "pending" => Lane!Marker(d) \in markers'
                         /\ call'[d].fence = "pending" =>
                              \A e \in Calls : call'[e].fence = "pending" /\ Lane!Marker(e) = Lane!Marker(d) => e = d
                         /\ call'[d].fence = "retired" /\ Lane!Marker(d) \in markers' =>
                              \E e \in Calls \ {d} : Lane!Marker(e) = Lane!Marker(d) /\ call'[e].fence # "none"
    BY <1>2, <1>3, <1>4
  <1> QED BY <1>5 DEF MarkersInv

LEMMA SettleFailsKeeps ==
  ASSUME NEW s \in CallRecords, NEW k \in RaisedKinds
  PROVE  /\ Lane!SettleFails(s, k) \in CallRecords /\ Lane!SettleFails(s, k).fatal
         /\ SameFacts(Lane!SettleFails(s, k), s)
  <1> DEFINE u == Lane!Latched(s, k)
             v == Lane!RecordFailure(u, k)
  <1>1. u \in CallRecords /\ SameFacts(u, s)
    BY LatchedKeeps
  <1>2. Lane!SettleFails(s, k) = Lane!CloseError(v, k)
    BY DEF Lane!SettleFails
  <1> HIDE DEF u
  <1>3. v \in CallRecords /\ SameFacts(v, u)
    BY <1>1, RecordFailureKeeps
  <1> HIDE DEF v
  <1> QED BY <1>1, <1>2, <1>3, CloseErrorKeeps DEF SameFacts

\* What the settlement leaves of a call, its failures included.
LEMMA SettledSound ==
  ASSUME LaneInv, NEW c \in Calls, NEW r \in CallRecords, NEW s \in CallRecords, s = call[c],
     s.pc = "settle",
         r.pc \in {"accept", "restore"}, r.exit = s.exit, r.attempted = s.attempted,
         r.outcome = s.outcome, r.terminal = s.terminal, r.contained = s.contained,
         r.files = s.files, r.custody = s.custody, r.snapshot = s.snapshot, r.selection = s.selection,
         r.fence = s.fence \/ (s.fence = "pending" /\ r.fence \in {"retiring", "retired"} /\ ~Live(lane[c])),
         \/ r.fatal
         \/ /\ Lane!Settleable(s) /\ r.failed = s.failed /\ r.finished = s.finished
            /\ r.fence \in {"none", "new", "absent", "retired"}
  PROVE  SoundLane(r, lane[c], c \in dirs, <<c, "snapshot">> \in inputs, <<c, "selection">> \in inputs,
               c \in evidence)
  <1>1. lane[c] \in Lanes /\ SoundCall(c)
    BY CallTypes
  <1>2. Stages(r)
    BY <1>1 DEF SoundCall, SoundLane, Stages, BeforeLane, Over
  <1>3. s.exit \notin {"ok", "ordinary"}
    BY <1>1 DEF SoundCall, SoundLane, Settled
  <1>10. r.exit \notin {"ok", "ordinary"} /\ r.pc # "publish"
    BY <1>3
  <1>6. Settled(r)
    <2>1. CASE r.fatal
      BY <1>10, <2>1 DEF Settled
    <2>2. CASE /\ Lane!Settleable(s) /\ r.failed = s.failed /\ r.finished = s.finished
               /\ r.fence \in {"none", "new", "absent", "retired"}
      <3>1. /\ s.custody = "closed" /\ Lane!RoleClosed(s, "snapshot") /\ Lane!RoleClosed(s, "selection")
            /\ Lane!DependentsSettled(s) /\ s.files \in {"none", "disposed"}
        BY <2>2 DEF Lane!Settleable, Lane!CustodyClosed, Lane!Roles
      <3>2. Lane!DependentsSettled(r)
        BY <2>2, <3>1 DEF Lane!DependentsSettled, Lane!Complete, Lane!HasOutcome
      <3>3. /\ r.custody = "closed" /\ Lane!RoleClosed(r, "snapshot") /\ Lane!RoleClosed(r, "selection")
            /\ r.files \in {"none", "disposed"} /\ r.fence \in {"none", "new", "absent", "retired"}
        BY <2>2, <3>1 DEF Lane!RoleClosed
      <3> QED BY <1>10, <3>2, <3>3 DEF Settled
    <2> QED BY <2>1, <2>2
  <1>7. LaneFacts(r, lane[c])
    BY <1>1 DEF SoundCall, SoundLane, LaneFacts
  <1>8. Custodied(r, lane[c], c \in dirs, <<c, "snapshot">> \in inputs, <<c, "selection">> \in inputs)
    BY <1>1 DEF SoundCall, SoundLane, Custodied, Lane!RoleClosed, Opening
  <1>9. c \notin evidence
    BY <1>1 DEF SoundCall, SoundLane, Receipted
  <1> QED BY <1>2, <1>6, <1>7, <1>8, <1>9 DEF SoundLane, Receipted

LEMMA StepSettle == ASSUME LaneInv, NEW c \in Calls, Lane!Settle(c) PROVE LaneInv'
  <1> DEFINE s == call[c]
             ends(x) == [x EXCEPT !.pc = IF x.raised = "none" THEN "accept" ELSE "restore"]
  <1>1. s \in CallRecords /\ SoundCall(c) /\ lane[c] \in Lanes /\ s.pc = "settle"
    BY CallTypes DEF Lane!Settle, Lane!At
  <1>2. UNCHANGED <<lane, outputs, evidence>>
    BY DEF Lane!Settle, Lane!Kept
  <1>3. UNCHANGED <<dirs, inputs>>
    BY DEF Lane!Settle
  <1>4. ASSUME NEW x \in CallRecords
        PROVE  /\ ends(x) \in CallRecords /\ ends(x).pc \in {"accept", "restore"}
               /\ SameFacts(ends(x), x) /\ SameVerdict(ends(x), x)
    BY StageMoves DEF Over
  <1>5. OthersKeep(c)
    BY <1>2, <1>3 DEF LaneInv, TypeInv, OthersKeep
  <1>6. Lane!Settleable(s) => ~Live(lane[c])
    BY <1>1, NotLive DEF SoundCall, SoundLane, Lane!Settleable
  <1> DEFINE w == [s EXCEPT !.fence = "retired"]
             v == [s EXCEPT !.fence = "retiring"]
  <1>7. /\ w \in CallRecords /\ w.fence = "retired"
        /\ v \in CallRecords /\ v.fence = "retiring"
    BY <1>1 DEF CallRecords
  <1>8. /\ w.req = s.req /\ w.exit = s.exit /\ w.attempted = s.attempted /\ w.outcome = s.outcome
        /\ w.terminal = s.terminal /\ w.contained = s.contained /\ w.files = s.files
        /\ w.custody = s.custody /\ w.snapshot = s.snapshot /\ w.selection = s.selection
        /\ w.failed = s.failed /\ w.finished = s.finished /\ w.fatal = s.fatal
    BY <1>1 DEF CallRecords
  <1>9. /\ v.req = s.req /\ v.exit = s.exit /\ v.attempted = s.attempted /\ v.outcome = s.outcome
        /\ v.terminal = s.terminal /\ v.contained = s.contained /\ v.files = s.files
        /\ v.custody = s.custody /\ v.snapshot = s.snapshot /\ v.selection = s.selection
    BY <1>1 DEF CallRecords
  <1>10. \/ /\ Lane!Settleable(s) /\ s.fence = "pending" /\ markers' = markers \ {Lane!Marker(c)}
            /\ Lane!Becomes(c, ends(w))
         \/ Lane!Settleable(s) /\ s.fence # "pending" /\ Lane!Becomes(c, ends(s)) /\ UNCHANGED markers
         \/ Lane!Becomes(c, ends(Lane!SettleFails(s, "lifetime"))) /\ UNCHANGED markers
         \/ /\ Lane!Settleable(s) /\ s.fence = "pending" /\ markers' \in Lane!MayRemain(markers, Lane!Marker(c))
            /\ \E k \in Lane!Errors : Lane!Becomes(c, ends(Lane!SettleFails(v, k)))
    BY DEF Lane!Settle, Lane!RetireFails
  <1> HIDE DEF ends, w, v
  \* The marker goes, or its removal is lost.
  <1>11. ASSUME NEW r \in CallRecords, call' = [call EXCEPT ![c] = r], r.req = s.req,
                s.fence = "pending", markers' \in Lane!MayRemain(markers, Lane!Marker(c)),
                r.fence = "retiring" \/ (r.fence = "retired" /\ Lane!Marker(c) \notin markers'),
                SoundLane(r, lane[c], c \in dirs, <<c, "snapshot">> \in inputs, <<c,
                   "selection">> \in inputs,
                      c \in evidence)
         PROVE  LaneInv'
    <2>1. SoundLane(r, lane[c], c \in dirs', <<c, "snapshot">> \in inputs', <<c,
       "selection">> \in inputs',
                c \in evidence')
      BY <1>2, <1>3, <1>11
    <2>2. /\ TypeInv' /\ (\A d \in Calls : SoundCall(d))' /\ OutputsInv'
          /\ \A d \in Calls : Lane!Marker(d)' = Lane!Marker(d)
          /\ \A d \in Calls : call'[d] = IF d = c THEN r ELSE call[d]
      BY <1>2, <1>5, <1>11, <2>1, OneCallMoves
    <2>3. MarkersInv'
      BY <1>11, <2>2, MarkersRemoved
    <2> QED BY <2>2, <2>3 DEF LaneInv
  \* The markers stay.
  <1>12. ASSUME NEW r \in CallRecords, call' = [call EXCEPT ![c] = r], r.req = s.req,
                r.fence = s.fence, UNCHANGED markers,
                SoundLane(r, lane[c], c \in dirs, <<c, "snapshot">> \in inputs, <<c,
                   "selection">> \in inputs,
                      c \in evidence)
         PROVE  LaneInv'
    BY <1>2, <1>3, <1>12, MemoryMove DEF Lane!disk
  <1>13. CASE /\ Lane!Settleable(s) /\ s.fence = "pending" /\ markers' = markers \ {Lane!Marker(c)}
              /\ Lane!Becomes(c, ends(w))
    <2> DEFINE r == ends(w)
    <2>1. r \in CallRecords /\ r.pc \in {"accept", "restore"} /\ SameFacts(r, w) /\ SameVerdict(r, w)
      BY <1>4, <1>7
    <2>2. call' = [call EXCEPT ![c] = r]
      BY <1>13 DEF Lane!Becomes
    <2> HIDE DEF r
    <2>3. /\ r.req = s.req /\ r.exit = s.exit /\ r.attempted = s.attempted /\ r.outcome = s.outcome
          /\ r.terminal = s.terminal /\ r.contained = s.contained /\ r.files = s.files
          /\ r.custody = s.custody /\ r.snapshot = s.snapshot /\ r.selection = s.selection
          /\ r.failed = s.failed /\ r.finished = s.finished /\ r.fence = "retired"
      BY <1>7, <1>8, <2>1 DEF SameFacts, SameVerdict
    <2>4. SoundLane(r, lane[c], c \in dirs, <<c, "snapshot">> \in inputs, <<c, "selection">> \in inputs,
                c \in evidence)
      BY <1>1, <1>6, <1>13, <2>1, <2>3, SettledSound
    <2> QED BY <1>11, <1>13, <2>1, <2>2, <2>3, <2>4 DEF Lane!MayRemain
  <1>14. CASE Lane!Settleable(s) /\ s.fence # "pending" /\ Lane!Becomes(c, ends(s)) /\ UNCHANGED markers
    <2> DEFINE r == ends(s)
    <2>1. r \in CallRecords /\ r.pc \in {"accept", "restore"} /\ SameFacts(r, s) /\ SameVerdict(r, s)
      BY <1>1, <1>4
    <2>2. call' = [call EXCEPT ![c] = r]
      BY <1>14 DEF Lane!Becomes
    <2> HIDE DEF r
    <2>3. s.fence \in {"none", "new", "absent"}
      BY <1>14 DEF Lane!Settleable
    <2>4. /\ r.req = s.req /\ r.exit = s.exit /\ r.attempted = s.attempted /\ r.outcome = s.outcome
          /\ r.terminal = s.terminal /\ r.contained = s.contained /\ r.files = s.files
          /\ r.custody = s.custody /\ r.snapshot = s.snapshot /\ r.selection = s.selection
          /\ r.failed = s.failed /\ r.finished = s.finished /\ r.fence = s.fence
      BY <2>1 DEF SameFacts, SameVerdict
    <2>5. SoundLane(r, lane[c], c \in dirs, <<c, "snapshot">> \in inputs, <<c, "selection">> \in inputs,
                c \in evidence)
      BY <1>1, <1>14, <2>1, <2>3, <2>4, SettledSound
    <2> QED BY <1>12, <1>14, <2>1, <2>2, <2>4, <2>5
  <1>15. CASE Lane!Becomes(c, ends(Lane!SettleFails(s, "lifetime"))) /\ UNCHANGED markers
    <2> DEFINE x == Lane!SettleFails(s, "lifetime")
               r == ends(x)
    <2>1. x \in CallRecords /\ x.fatal /\ SameFacts(x, s)
      BY <1>1, SettleFailsKeeps, ErrorKinds
    <2> HIDE DEF x
    <2>2. /\ r \in CallRecords /\ r.pc \in {"accept", "restore"}
          /\ SameFacts(r, x) /\ SameVerdict(r, x)
      BY <1>4, <2>1
    <2>3. call' = [call EXCEPT ![c] = r]
      BY <1>15 DEF Lane!Becomes, x
    <2> HIDE DEF r
    <2>4. /\ r.req = s.req /\ r.exit = s.exit /\ r.attempted = s.attempted /\ r.outcome = s.outcome
          /\ r.terminal = s.terminal /\ r.contained = s.contained /\ r.files = s.files
          /\ r.custody = s.custody /\ r.snapshot = s.snapshot /\ r.selection = s.selection
          /\ r.fatal /\ r.fence = s.fence
      BY <2>1, <2>2 DEF SameFacts, SameVerdict
    <2>5. SoundLane(r, lane[c], c \in dirs, <<c, "snapshot">> \in inputs, <<c, "selection">> \in inputs,
                c \in evidence)
      BY <1>1, <2>2, <2>4, SettledSound
    <2> QED BY <1>12, <1>15, <2>2, <2>3, <2>4, <2>5
  <1>16. ASSUME NEW k \in Lane!Errors, Lane!Settleable(s), s.fence = "pending",
                markers' \in Lane!MayRemain(markers, Lane!Marker(c)), Lane!Becomes(c,
                   ends(Lane!SettleFails(v, k)))
         PROVE  LaneInv'
    <2> DEFINE x == Lane!SettleFails(v, k)
               r == ends(x)
    <2>1. x \in CallRecords /\ x.fatal /\ SameFacts(x, v)
      BY <1>7, SettleFailsKeeps, ErrorKinds
    <2> HIDE DEF x
    <2>2. /\ r \in CallRecords /\ r.pc \in {"accept", "restore"}
          /\ SameFacts(r, x) /\ SameVerdict(r, x)
      BY <1>4, <2>1
    <2>3. call' = [call EXCEPT ![c] = r]
      BY <1>16 DEF Lane!Becomes, x
    <2> HIDE DEF r
    <2>4. /\ r.req = s.req /\ r.exit = s.exit /\ r.attempted = s.attempted /\ r.outcome = s.outcome
          /\ r.terminal = s.terminal /\ r.contained = s.contained /\ r.files = s.files
          /\ r.custody = s.custody /\ r.snapshot = s.snapshot /\ r.selection = s.selection
          /\ r.fatal /\ r.fence = "retiring"
      BY <1>7, <1>9, <2>1, <2>2 DEF SameFacts, SameVerdict
    <2>5. SoundLane(r, lane[c], c \in dirs, <<c, "snapshot">> \in inputs, <<c, "selection">> \in inputs,
                c \in evidence)
      BY <1>1, <1>6, <1>16, <2>2, <2>4, SettledSound
    <2> QED BY <1>11, <1>16, <2>2, <2>3, <2>4, <2>5
  <1> QED BY <1>10, <1>13, <1>14, <1>15, <1>16

\* A step after the settlement adds nothing to what the call has left.
LEMMA OverMove ==
  ASSUME LaneInv, NEW c \in Calls, NEW r \in CallRecords, NEW s \in CallRecords, s = call[c],
         s.pc \in {"accept", "publish", "restore"}, r.pc \in {"restore", "done"}, SameButExit(r, s),
         r.fatal \/ (~s.fatal /\ r.failed = s.failed /\ r.finished = s.finished),
         r.exit \in {"ok", "ordinary"} => r.pc = "done" /\ ~r.fatal,
         call' = [call EXCEPT ![c] = r], UNCHANGED Lane!disk, UNCHANGED <<lane, outputs, evidence>>
  PROVE  LaneInv'
  <1>1. lane[c] \in Lanes /\ SoundCall(c)
    BY CallTypes
  <1>2. Stages(r)
    BY <1>1 DEF SoundCall, SoundLane, Stages, SameButExit, BeforeLane, Over
  <1>3. ~r.fatal => Lane!DependentsSettled(r)
    <2>1. ~s.fatal => Lane!DependentsSettled(s)
      BY <1>1 DEF SoundCall, SoundLane, Settled, Over
    <2> QED BY <2>1 DEF Lane!DependentsSettled, Lane!Complete, Lane!HasOutcome, SameButExit
  <1>4. Settled(r)
    BY <1>1, <1>3 DEF SoundCall, SoundLane, Settled, SameButExit, Lane!RoleClosed, Over
  <1>5. LaneFacts(r, lane[c])
    BY <1>1 DEF SoundCall, SoundLane, LaneFacts, SameButExit
  <1>6. Custodied(r, lane[c], c \in dirs, <<c, "snapshot">> \in inputs, <<c, "selection">> \in inputs)
    BY <1>1 DEF SoundCall, SoundLane, Custodied, SameButExit, Lane!RoleClosed, Opening
  <1>7. Receipted(r, c \in evidence)
    BY <1>1 DEF SoundCall, SoundLane, Receipted, SameButExit, Lane!RoleClosed
  <1>8. SoundLane(r, lane[c], c \in dirs, <<c, "snapshot">> \in inputs, <<c, "selection">> \in inputs,
              c \in evidence)
    BY <1>2, <1>4, <1>5, <1>6, <1>7 DEF SoundLane
  <1>9. r.req = s.req /\ r.fence = s.fence
    BY DEF SameButExit
  <1> QED BY <1>8, <1>9, MemoryMove

\* An error on its way out of the last steps.
LEMMA LateRaise ==
  ASSUME LaneInv, NEW c \in Calls, NEW k \in RaisedKinds, call[c].pc \in {"accept", "publish"},
         Lane!Becomes(c, Lane!Raise(call[c], k, "restore")), UNCHANGED Lane!disk, UNCHANGED <<lane,
            outputs, evidence>>
  PROVE  LaneInv'
  <1> DEFINE s == call[c]
             r == Lane!Raise(s, k, "restore")
  <1>1. s \in CallRecords /\ SoundCall(c)
    BY CallTypes
  <1>2. /\ r \in CallRecords /\ r.pc = "restore" /\ SameFacts(r, s) /\ SameVerdict(r, s)
    BY <1>1, RaiseKeeps DEF Over
  <1>3. call' = [call EXCEPT ![c] = r]
    BY DEF Lane!Becomes
  <1>4. s.exit \notin {"ok", "ordinary"}
    BY <1>1 DEF SoundCall, SoundLane, Settled
  <1> HIDE DEF r
  <1>5. r.exit \notin {"ok", "ordinary"} /\ SameButExit(r, s)
    BY <1>2, <1>4 DEF SameFacts, SameButExit
  <1>6. r.fatal \/ (~s.fatal /\ r.failed = s.failed /\ r.finished = s.finished)
    BY <1>2 DEF SameVerdict
  <1> QED BY <1>1, <1>2, <1>3, <1>5, <1>6, OverMove

LEMMA StepAccept == ASSUME LaneInv, NEW c \in Calls, Lane!Accept(c) PROVE LaneInv'
  <1> DEFINE s == call[c]
  <1>1. s \in CallRecords /\ SoundCall(c) /\ lane[c] \in Lanes /\ s.pc = "accept"
    BY CallTypes DEF Lane!Accept, Lane!At
  <1>2. UNCHANGED <<lane, outputs, evidence>>
    BY DEF Lane!Accept, Lane!Kept
  <1>3. CASE Lane!Acceptable(s) /\ Lane!Goes(c, s, "publish") /\ UNCHANGED Lane!disk
    <2> DEFINE r == [s EXCEPT !.pc = "publish"]
    <2>1. call' = [call EXCEPT ![c] = r]
      BY <1>3 DEF Lane!Goes, Lane!Becomes
    <2>2. r \in CallRecords /\ r.pc = "publish" /\ SameFacts(r, s) /\ SameVerdict(r, s)
      BY <1>1, StageMoves DEF Over
    <2> HIDE DEF r
    <2>3. /\ s.outcome = "ok" /\ s.terminal = "receipt" /\ ~s.fatal
          /\ s.files = "disposed" /\ s.fence = "retired"
      BY <1>3 DEF Lane!Acceptable
    <2>4. Stages(r) /\ LaneFacts(r, lane[c])
      BY <1>1, <2>2 DEF SoundCall, SoundLane, Stages, LaneFacts, SameFacts, BeforeLane, Over
    <2>5. Lane!DependentsSettled(r)
      BY <1>3, <2>2 DEF Lane!Acceptable, Lane!DependentsSettled, Lane!Complete, Lane!HasOutcome,
         SameFacts, SameVerdict
    <2>6. Settled(r)
      BY <1>1, <2>2, <2>3, <2>5 DEF SoundCall, SoundLane, Settled, SameFacts, SameVerdict,
         Lane!RoleClosed, Over
    <2>7. /\ Receipted(r, c \in evidence)
          /\ Custodied(r, lane[c], c \in dirs, <<c, "snapshot">> \in inputs, <<c, "selection">> \in inputs)
      BY <1>1, <2>2 DEF SoundCall, SoundLane, Custodied, Receipted, SameFacts, Lane!RoleClosed, Opening
    <2>8. SoundLane(r, lane[c], c \in dirs, <<c, "snapshot">> \in inputs, <<c, "selection">> \in inputs,
                c \in evidence)
      BY <2>4, <2>6, <2>7 DEF SoundLane
    <2>9. r.req = s.req /\ r.fence = s.fence
      BY <2>2 DEF SameFacts
    <2> QED BY <1>1, <1>2, <1>3, <2>1, <2>2, <2>8, <2>9, MemoryMove
  <1>4. Lane!CheckError(s) \in RaisedKinds /\ "lifetime" \in RaisedKinds
    BY CheckErrorKind, ErrorKinds
  <1>5. ASSUME NEW k \in RaisedKinds, Lane!Becomes(c, Lane!Raise(s, k, "restore")), UNCHANGED Lane!disk
        PROVE  LaneInv'
    BY <1>1, <1>2, <1>5, LateRaise
  <1> QED BY <1>3, <1>4, <1>5 DEF Lane!Accept

LEMMA StepPublish == ASSUME LaneInv, NEW c \in Calls, Lane!Publish(c) PROVE LaneInv'
  <1> DEFINE s == call[c]
  <1>1. s \in CallRecords /\ SoundCall(c) /\ lane[c] \in Lanes /\ s.pc = "publish"
    BY CallTypes DEF Lane!Publish, Lane!At
  <1>2. UNCHANGED Lane!disk /\ UNCHANGED <<lane, outputs>>
    BY DEF Lane!Publish
  <1>3. CASE evidence' = evidence \cup {c} /\ Lane!Goes(c, s, "restore")
    <2> DEFINE r == [s EXCEPT !.pc = "restore"]
    <2>1. call' = [call EXCEPT ![c] = r]
      BY <1>3 DEF Lane!Goes, Lane!Becomes
    <2>2. r \in CallRecords /\ r.pc = "restore" /\ SameFacts(r, s) /\ SameVerdict(r, s)
      BY <1>1, StageMoves DEF Over
    <2> HIDE DEF r
    <2>3. Stages(r) /\ LaneFacts(r, lane[c])
      BY <1>1, <2>2 DEF SoundCall, SoundLane, Stages, LaneFacts, SameFacts, BeforeLane, Over
    <2>4. Settled(r)
      BY <1>1, <2>2 DEF SoundCall, SoundLane, Settled, SameFacts, SameVerdict, Lane!RoleClosed, Over,
         Lane!DependentsSettled, Lane!Complete, Lane!HasOutcome
    <2>5. Custodied(r, lane[c], c \in dirs, <<c, "snapshot">> \in inputs, <<c, "selection">> \in inputs)
      BY <1>1, <2>2 DEF SoundCall, SoundLane, Custodied, SameFacts, Lane!RoleClosed, Opening
    <2>6. Receipted(r, c \in evidence')
      BY <1>1, <2>2 DEF SoundCall, SoundLane, Settled, Receipted, SameFacts, Lane!RoleClosed, Over
    <2>7. /\ OthersKeep(c) /\ UNCHANGED <<markers, dirs, inputs>>
      BY <1>2, <1>3 DEF LaneInv, TypeInv, OthersKeep, Lane!disk
    <2>8. SoundLane(r, lane[c], c \in dirs', <<c, "snapshot">> \in inputs', <<c,
       "selection">> \in inputs',
                c \in evidence')
      BY <2>3, <2>4, <2>5, <2>6, <2>7 DEF SoundLane
    <2>9. r.req = s.req /\ r.fence = s.fence
      BY <2>2 DEF SameFacts
    <2> QED BY <1>2, <2>1, <2>2, <2>7, <2>8, <2>9, QuietMove
  <1>4. Lane!CheckError(s) \in RaisedKinds /\ Lane!Errors \subseteq RaisedKinds
    BY CheckErrorKind, ErrorKinds
  <1>5. ASSUME NEW k \in RaisedKinds, Lane!Becomes(c, Lane!Raise(s, k, "restore")), UNCHANGED evidence
        PROVE  LaneInv'
    BY <1>1, <1>2, <1>5, LateRaise
  <1> QED BY <1>3, <1>4, <1>5 DEF Lane!Publish

LEMMA VerdictFacts ==
  ASSUME NEW s \in CallRecords
  PROVE  /\ Lane!Verdict(s) \in {"ok", "ordinary", "fatal", "interrupt"}
         /\ Lane!Verdict(s) \in {"ok", "ordinary"} => ~s.fatal
  BY DEF Lane!Verdict

LEMMA StepRestore == ASSUME LaneInv, NEW c \in Calls, Lane!Restore(c) PROVE LaneInv'
  <1> DEFINE s == call[c]
             ends(x) == [x EXCEPT !.pc = "done", !.exit = Lane!Verdict(x)]
             u == [s EXCEPT !.handlers = "restored"]
             v == [s EXCEPT !.handlers = "unknown"]
  <1>1. s \in CallRecords /\ SoundCall(c) /\ lane[c] \in Lanes /\ s.pc = "restore"
    BY CallTypes DEF Lane!Restore, Lane!At
  <1>2. UNCHANGED <<lane, outputs, evidence>>
    BY DEF Lane!Restore, Lane!Kept
  <1>3. UNCHANGED Lane!disk
    BY DEF Lane!Restore
  <1>4. /\ u \in CallRecords /\ SameFacts(u, s) /\ SameVerdict(u, s)
        /\ v \in CallRecords /\ SameFacts(v, s) /\ SameVerdict(v, s)
    BY <1>1 DEF CallRecords, SameFacts, SameVerdict
  <1>5. \/ Lane!Becomes(c, ends(u))
        \/ \E k \in Lane!Errors : Lane!Becomes(c, ends(Lane!Abort(Lane!Raise(v, k, "restore"))))
    BY DEF Lane!Restore
  <1>6. ASSUME NEW x \in CallRecords
        PROVE  LET r == ends(x) IN
               /\ r \in CallRecords /\ r.pc = "done" /\ r.exit = Lane!Verdict(x)
               /\ SameButExit(r, x) /\ SameVerdict(r, x)
    <2>1. [x EXCEPT !.exit = Lane!Verdict(x)] \in CallRecords
      BY VerdictFacts DEF CallRecords
    <2>2. \A y \in CallRecords : [y EXCEPT !.pc = "done"] \in CallRecords
      BY DEF CallRecords, Over
    <2>3. ends(x) = [[x EXCEPT !.exit = Lane!Verdict(x)] EXCEPT !.pc = "done"]
      BY DEF CallRecords
    <2>4. ends(x) \in CallRecords
      BY <2>1, <2>2, <2>3
    <2> QED BY <2>4 DEF CallRecords, SameButExit, SameVerdict
  <1> HIDE DEF ends, u, v
  <1>7. ASSUME NEW x \in CallRecords, SameFacts(x, s), x.fatal \/ SameVerdict(x, s), Lane!Becomes(c, ends(x))
        PROVE  LaneInv'
    <2> DEFINE r == ends(x)
    <2>1. /\ r \in CallRecords /\ r.pc = "done" /\ r.exit = Lane!Verdict(x)
          /\ SameButExit(r, x) /\ SameVerdict(r, x)
      BY <1>6
    <2>2. call' = [call EXCEPT ![c] = r]
      BY <1>7 DEF Lane!Becomes
    <2> HIDE DEF r
    <2>3. SameButExit(r, s)
      BY <1>7, <2>1 DEF SameFacts, SameButExit
    <2>4. r.fatal \/ (~s.fatal /\ r.failed = s.failed /\ r.finished = s.finished)
      BY <1>7, <2>1 DEF SameVerdict
    <2>5. r.exit \in {"ok", "ordinary"} => r.pc = "done" /\ ~r.fatal
      BY <2>1, VerdictFacts DEF SameVerdict
    <2> QED BY <1>1, <1>2, <1>3, <2>1, <2>2, <2>3, <2>4, <2>5, OverMove
  <1>8. ASSUME NEW k \in Lane!Errors
        PROVE  LET x == Lane!Abort(Lane!Raise(v, k, "restore")) IN
               x \in CallRecords /\ SameFacts(x, s) /\ x.fatal
    <2> DEFINE y == Lane!Raise(v, k, "restore")
    <2>1. y \in CallRecords /\ SameFacts(y, v)
      BY <1>4, RaiseKeeps, ErrorKinds DEF Over
    <2> HIDE DEF y
    <2>2. Lane!Abort(y) \in CallRecords /\ SameFacts(Lane!Abort(y), y) /\ Lane!Abort(y).fatal
      BY <2>1, AbortKeeps
    <2> QED BY <1>4, <2>1, <2>2 DEF SameFacts, y
  <1> QED BY <1>4, <1>5, <1>7, <1>8

LEMMA StepSignal == ASSUME LaneInv, NEW c \in Calls, Lane!Signal(c) PROVE LaneInv'
  <1> DEFINE s == call[c]
             r == [s EXCEPT !.cancelled = TRUE]
  <1>1. s \in CallRecords /\ SoundCall(c)
    BY CallTypes
  <1>2. /\ r \in CallRecords /\ r.pc = s.pc /\ SameFacts(r, s) /\ SameVerdict(r, s)
    BY <1>1 DEF CallRecords, SameFacts, SameVerdict
  <1>3. call' = [call EXCEPT ![c] = r] /\ UNCHANGED Lane!disk /\ UNCHANGED <<lane, outputs, evidence>>
    BY DEF Lane!Signal, Lane!Becomes, Lane!Kept
  <1> HIDE DEF r
  <1>4. Stages(r) /\ LaneFacts(r, lane[c])
    BY <1>1, <1>2 DEF SoundCall, SoundLane, Stages, LaneFacts, SameFacts
  <1>5. Settled(r)
    BY <1>1, <1>2 DEF SoundCall, SoundLane, Settled, SameFacts, SameVerdict, Lane!RoleClosed,
       Lane!DependentsSettled, Lane!Complete, Lane!HasOutcome
  <1>6. /\ Receipted(r, c \in evidence)
        /\ Custodied(r, lane[c], c \in dirs, <<c, "snapshot">> \in inputs, <<c, "selection">> \in inputs)
    BY <1>1, <1>2 DEF SoundCall, SoundLane, Custodied, Receipted, SameFacts, Lane!RoleClosed
  <1>7. SoundLane(r, lane[c], c \in dirs, <<c, "snapshot">> \in inputs, <<c, "selection">> \in inputs,
              c \in evidence)
    BY <1>4, <1>5, <1>6 DEF SoundLane
  <1>8. r.req = s.req /\ r.fence = s.fence
    BY <1>2 DEF SameFacts
  <1> QED BY <1>1, <1>2, <1>3, <1>7, <1>8, MemoryMove

LEMMA StepKill == ASSUME LaneInv, NEW c \in Calls, Lane!Kill(c) PROVE LaneInv'
  <1> DEFINE s == call[c]
             u == [s EXCEPT !.exit = "killed"]
             r == [u EXCEPT !.pc = "dead"]
  <1>1. s \in CallRecords /\ SoundCall(c) /\ lane[c] \in Lanes
    BY CallTypes
  <1>2. /\ u \in CallRecords /\ SameButExit(u, s) /\ u.exit = "killed"
    BY <1>1 DEF CallRecords, SameButExit
  <1>3. call' = [call EXCEPT ![c] = r] /\ UNCHANGED Lane!disk /\ UNCHANGED <<lane, outputs, evidence>>
    <2>1. r = [s EXCEPT !.pc = "dead", !.exit = "killed"]
      BY <1>1 DEF CallRecords
    <2> QED BY <2>1 DEF Lane!Kill, Lane!Becomes, Lane!Kept
  <1> HIDE DEF u
  <1>4. r \in CallRecords /\ r.pc = "dead" /\ SameFacts(r, u)
    BY <1>2, StageMoves
  <1> HIDE DEF r
  <1>5. SameButExit(r, s) /\ r.exit = "killed"
    BY <1>2, <1>4 DEF SameFacts, SameButExit
  <1>6. Stages(r) /\ LaneFacts(r, lane[c]) /\ Settled(r)
    BY <1>1, <1>4, <1>5 DEF SoundCall, SoundLane, Stages, Settled, LaneFacts, SameButExit, BeforeLane,
       Over
  <1>7. /\ Receipted(r, c \in evidence)
        /\ Custodied(r, lane[c], c \in dirs, <<c, "snapshot">> \in inputs, <<c, "selection">> \in inputs)
    BY <1>1, <1>4, <1>5 DEF SoundCall, SoundLane, Custodied, Receipted, SameButExit, Lane!RoleClosed,
       Opening
  <1>8. SoundLane(r, lane[c], c \in dirs, <<c, "snapshot">> \in inputs, <<c, "selection">> \in inputs,
              c \in evidence)
    BY <1>6, <1>7 DEF SoundLane
  <1>9. r.req = s.req /\ r.fence = s.fence
    BY <1>5 DEF SameButExit
  <1> QED BY <1>1, <1>3, <1>4, <1>8, <1>9, MemoryMove

-----------------------------------------------------------------------------
(* The invariant and what it says.                                         *)

LEMMA FreshRecord ==
  ASSUME NEW q \in Requests
  PROVE  /\ Lane!Fresh(q) \in CallRecords /\ Lane!Fresh(q).req = q
         /\ SoundLane(Lane!Fresh(q), Lane!NoLane, FALSE, FALSE, FALSE, FALSE) /\ Lane!Fresh(q).fence = "none"
  <1>1. Lane!Fresh(q) \in CallRecords
    BY DEF Lane!Fresh, CallRecords, RaisedKinds, RoleStates, LaneTerminals, BeforeLane
  <1>2. Stages(Lane!Fresh(q)) /\ Settled(Lane!Fresh(q)) /\ LaneFacts(Lane!Fresh(q), Lane!NoLane)
    BY DEF Lane!Fresh, Lane!NoLane, Stages, Settled, LaneFacts, BeforeLane, Over
  <1>3. /\ Custodied(Lane!Fresh(q), Lane!NoLane, FALSE, FALSE, FALSE) /\ Receipted(Lane!Fresh(q), FALSE)
    BY DEF Lane!Fresh, Lane!NoLane, Custodied, Receipted, Live, Opening
  <1> QED BY <1>1, <1>2, <1>3 DEF SoundLane, Lane!Fresh

LEMMA InitInv == Lane!Init => LaneInv
  <1> SUFFICES ASSUME Lane!Init PROVE LaneInv
    OBVIOUS
  <1>1. ASSUME NEW c \in Calls
        PROVE  \E q \in Requests : call[c] = Lane!Fresh(q)
    BY DEF Lane!Init
  <1>2. Lane!NoLane \in Lanes
    BY DEF Lane!NoLane, Lanes, LaneTerminals
  <1>3. \A c \in Calls : call[c] \in CallRecords /\ call[c].fence = "none" /\ lane[c] = Lane!NoLane
    <2> TAKE c \in Calls
    <2>1. PICK q \in Requests : call[c] = Lane!Fresh(q)
      BY <1>1
    <2>2. lane[c] = Lane!NoLane
      BY DEF Lane!Init
    <2> QED BY <2>1, <2>2, FreshRecord
  <1>4. call \in [Calls -> CallRecords]
    BY <1>3 DEF Lane!Init
  <1>5. TypeInv
    BY <1>2, <1>4 DEF Lane!Init, TypeInv
  <1>6. ASSUME NEW c \in Calls PROVE SoundCall(c)
    <2>1. SoundLane(call[c], Lane!NoLane, FALSE, FALSE, FALSE, FALSE)
      BY <1>1, FreshRecord
    <2>2. /\ ~(c \in dirs) /\ ~(<<c, "snapshot">> \in inputs) /\ ~(<<c, "selection">> \in inputs)
          /\ ~(c \in evidence) /\ lane[c] = Lane!NoLane
      BY DEF Lane!Init
    <2> QED BY <2>1, <2>2 DEF SoundCall, SoundLane, Custodied, Receipted
  <1>7. MarkersInv
    BY <1>3 DEF MarkersInv
  <1>8. OutputsInv
    BY <1>3 DEF OutputsInv, Lane!NoLane
  <1> QED BY <1>5, <1>6, <1>7, <1>8 DEF LaneInv

LEMMA NextInv == LaneInv /\ [Lane!Next]_(Lane!vars) => LaneInv'
  <1> SUFFICES ASSUME LaneInv, [Lane!Next]_(Lane!vars) PROVE LaneInv'
    OBVIOUS
  <1>1. CASE UNCHANGED Lane!vars
    <2>1. /\ UNCHANGED <<call, lane, outputs, evidence>> /\ UNCHANGED <<markers, dirs, inputs>>
      BY <1>1 DEF Lane!vars, Lane!disk
    <2> QED BY ZenonT(60), <2>1 DEF LaneInv, TypeInv, SoundCall, MarkersInv, Lane!Marker, OutputsInv
  <1>2. ASSUME NEW c \in Calls, Lane!Step(c) PROVE LaneInv'
    BY <1>2, StepStart, StepCustody, StepInputs, StepEnter, StepProbe, StepSelection, StepValidate,
       StepReserve, StepAcquire, StepFence, StepEnvironment, StepAdmit, StepSeal, StepEngineReturns,
       StepEngineRefuses, StepEngineLoses, StepTerminal, StepFinishLane, StepDispose, StepRelease,
       StepInner, StepPolicy, StepCloseInputs, StepCloseCustody, StepSettle, StepAccept, StepPublish,
       StepRestore
       DEF Lane!Step
  <1>3. ASSUME NEW c \in Calls, Lane!LaneStep(c) PROVE LaneInv'
    BY <1>3, StepEngineStarts, StepLaneSpawns, StepNestedEnds, StepLaneWrites, StepLaneErrs,
       StepLaneReports, StepLaneExits, StepLaneBreaks
       DEF Lane!LaneStep
  <1> QED BY <1>1, <1>2, <1>3, StepSignal, StepKill DEF Lane!Next

LEMMA SameClaims ==
  /\ Roles = Lane!Roles
  /\ \A c : /\ Marker(c) = Lane!Marker(c) /\ Left(c) = Lane!Left(c)
            /\ Consumes(c) = Lane!Consumes(c)
  <1>1. Roles = Lane!Roles
    BY DEF Roles, Lane!Roles
  <1>2. ASSUME NEW c
        PROVE  Marker(c) = Lane!Marker(c)
    BY Zenon DEF Marker, Lane!Marker
  <1>3. ASSUME NEW c
        PROVE  Left(c) = Lane!Left(c)
    BY Zenon DEF Left, Lane!Left, Roles, Lane!Roles
  <1>4. ASSUME NEW c
        PROVE  Consumes(c) = Lane!Consumes(c)
    BY Zenon DEF Consumes, Lane!Consumes
  <1> QED BY Zenon, <1>1, <1>2, <1>3, <1>4

\* What a call, its lane and its files agree on in every state.
THEOREM InvariantHolds == Lane!Spec => []LaneInv
  BY InitInv, NextInv, PTL DEF Lane!Spec

\* While the lane of a call or its native upload lives, whatever became of the
\* call, its marker and its private files are on the disk and no other lane of
\* the same authorization runs (stores.py, _store_lane_files.py).
THEOREM LanesAreFenced == Lane!Spec => []LaneFenced
  <1>1. LaneInv => Lane!LaneFenced
    <2> SUFFICES ASSUME LaneInv, NEW c \in Calls, Lane!Consumes(c)
                 PROVE  /\ Lane!Marker(c) \in markers /\ c \in dirs /\ \A r \in Lane!Roles : <<c, r>> \in inputs
                        /\ \A d \in Calls : Lane!Consumes(d) /\ Lane!Marker(d) = Lane!Marker(c) => d = c
      BY DEF Lane!LaneFenced
    <2>1. ASSUME NEW d \in Calls, Lane!Consumes(d)
          PROVE  /\ d \in dirs /\ <<d, "snapshot">> \in inputs /\ <<d, "selection">> \in inputs
                 /\ call[d].fence = "pending"
      BY <2>1, CallTypes DEF Lane!Consumes, Live, SoundCall, SoundLane, Custodied
    <2> QED BY <2>1 DEF LaneInv, MarkersInv, Lane!Roles
  <1>2. Lane!LaneFenced => LaneFenced
    BY SameClaims DEF LaneFenced, Lane!LaneFenced
  <1> QED BY <1>1, <1>2, InvariantHolds, PTL

\* Final evidence is only written for a lane that ended with its own receipt,
\* after everything the call had made was gone, the marker last
\* (complete_store_operation, StoreLaneCallEvidence.require_receipt).
THEOREM ReceiptsAreTrue == Lane!Spec => []ReceiptIsTrue
  <1>1. LaneInv => Lane!ReceiptIsTrue
    <2> SUFFICES ASSUME LaneInv, NEW c \in evidence
                 PROVE  /\ lane[c].code = "ok" /\ ~Lane!Consumes(c) /\ outputs[call[c].req.out] = {c}
                        /\ ~Lane!Left(c) /\ call[c].custody = "closed"
                        /\ Lane!Marker(c) \in markers =>
                             \E d \in Calls \ {c} : Lane!Marker(d) = Lane!Marker(c) /\ call[d].fence # "none"
      BY DEF Lane!ReceiptIsTrue
    <2>1. c \in Calls
      BY DEF LaneInv, TypeInv
    <2>2. /\ call[c].outcome = "ok" /\ call[c].terminal = "receipt"
          /\ call[c].files = "disposed" /\ call[c].fence = "retired" /\ call[c].custody = "closed"
          /\ Lane!RoleClosed(call[c], "snapshot") /\ Lane!RoleClosed(call[c], "selection")
      BY <2>1, CallTypes DEF SoundCall, SoundLane, Receipted
    <2>3. lane[c].code = "ok" /\ lane[c].terminal = "receipt" /\ lane[c].wrote
      BY <2>1, <2>2, CallTypes DEF SoundCall, SoundLane, LaneFacts
    <2>4. ~Lane!Consumes(c)
      BY <2>1, <2>2, CallTypes DEF SoundCall, SoundLane, Custodied, Live, Lane!Consumes
    <2>5. ~Lane!Left(c)
      BY <2>1, <2>2, CallTypes DEF SoundCall, SoundLane, Custodied, Lane!Left, Lane!Roles
    <2> QED BY <2>1, <2>2, <2>3, <2>4, <2>5 DEF LaneInv, OutputsInv, MarkersInv
  <1>2. Lane!ReceiptIsTrue => ReceiptIsTrue
    BY SameClaims DEF ReceiptIsTrue, Lane!ReceiptIsTrue
  <1> QED BY <1>1, <1>2, InvariantHolds, PTL

\* A call that ends well or with an ordinary error leaves no process, no private
\* file and no marker: it may simply be repeated (fatal_cancellation_error).
THEOREM OrdinaryIsSettled == Lane!Spec => []OrdinaryMeansSettled
  <1>1. LaneInv => Lane!OrdinaryMeansSettled
    <2> SUFFICES ASSUME LaneInv, NEW c \in Calls, call[c].exit \in {"ok", "ordinary"}
                 PROVE  /\ ~Lane!Consumes(c) /\ ~Lane!Left(c)
                        /\ call[c].fence \notin {"pending", "retiring", "acquiring"}
      BY DEF Lane!OrdinaryMeansSettled
    <2>1. /\ call[c].files \in {"none", "disposed"}
          /\ Lane!RoleClosed(call[c], "snapshot") /\ Lane!RoleClosed(call[c], "selection")
          /\ call[c].fence \in {"none", "new", "absent", "retired"}
      BY CallTypes DEF SoundCall, SoundLane, Settled, Over
    <2>2. ~Lane!Consumes(c)
      BY <2>1, CallTypes DEF SoundCall, SoundLane, Custodied, Live, Lane!Consumes
    <2>3. ~Lane!Left(c)
      BY <2>1, CallTypes DEF SoundCall, SoundLane, Custodied, Lane!Left, Lane!Roles
    <2> QED BY <2>1, <2>2, <2>3
  <1>2. Lane!OrdinaryMeansSettled => OrdinaryMeansSettled
    BY SameClaims DEF OrdinaryMeansSettled, Lane!OrdinaryMeansSettled
  <1> QED BY <1>1, <1>2, InvariantHolds, PTL
=============================================================================
