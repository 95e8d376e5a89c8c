---------------------------- MODULE SandboxSession ----------------------------
(***************************************************************************)
(* The session of the isolated verification (Session in                    *)
(* .github/scripts/ci_sandbox.py): a root controller runs commands of the  *)
(* repository under a reserved numeric identity, and looks at, changes or  *)
(* removes what they produced only while no process of that identity       *)
(* exists.  It owns two settings of the machine: on Linux the limit on     *)
(* user namespaces, on macOS the mode of the runner's home and three nodes *)
(* made there.  Both are put back when the session closes.                 *)
(*                                                                         *)
(* A part (at.op) is one statement of the controller that launches,        *)
(* inspects or changes something; VerifyPipeline lists the parts.  Every   *)
(* failure is latched: nothing clears s.failure.  A command is one capture *)
(* (_run); a trusted helper (_small_command) is launched directly.         *)
(*                                                                         *)
(* A check of a node or a value and the system call right after it are one *)
(* step.  External: the processes, the kernel, others on the machine.      *)
(***************************************************************************)
EXTENDS Naturals, Sequences

CONSTANTS
  MaxEvents    \* bound: failed steps, unknown censuses, cancellations, drifts,
               \* the end of the deadline, together

ASSUME EventsAssumption == MaxEvents \in Nat

VARIABLES
  job,         \* the platform and the gates of this verification
  at,          \* where the controller is
  s,           \* the session
  b,           \* its custody of the two settings
  r,           \* the current capture
  w,           \* the machine
  seen,        \* observers: a subject of this gate failed; a path was
               \* touched while a process could still write it
  events       \* bound counter

sessionVars == <<job, at, s, b, r, w, seen, events>>

Platforms == {"linux", "darwin"}
Nodes == {"canary", "sibling", "socket"}

NoRun == [held |-> FALSE, waited |-> FALSE, code |-> "none", eof |-> FALSE, fail |-> FALSE,
          errs |-> FALSE, over |-> FALSE, cut |-> FALSE, grace |-> 0, kill |-> FALSE,
          swept |-> FALSE]

NewSession == [failure |-> FALSE, cancelled |-> FALSE, closed |-> FALSE, busy |-> FALSE,
               active |-> FALSE, pending |-> FALSE, idle |-> FALSE, admitted |-> FALSE,
               errors |-> FALSE, finished |-> FALSE]

NoBoundary ==
  [ns |-> [made |-> FALSE, fd |-> FALSE, known |-> FALSE, tried |-> FALSE, ready |-> FALSE,
           closed |-> FALSE],
   home |-> [made |-> FALSE, pin |-> FALSE, tried |-> FALSE, ready |-> FALSE, closed |-> FALSE,
             node |-> [x \in Nodes |-> "no"]]]

Machines ==
  [leader : {"none"}, exit : {"ok"}, kin : {"none"}, helper : {"none"},
   ns : {"on", "zero"}, ns0 : {"on", "zero"}, mode : {"narrow", "search"},
   mode0 : {"narrow", "search"}, node : [Nodes -> {"none"}], late : {FALSE}, alarm : {"none"}]

SessionInit ==
  /\ s = NewSession /\ b = NoBoundary /\ r = NoRun /\ events = 0
  /\ at = [pc |-> "open", ctx |-> "open", gate |-> 0, part |-> 1, op |-> "none"]
  /\ seen = [stained |-> FALSE, touched |-> FALSE]
  /\ w \in {x \in Machines : x.ns = x.ns0 /\ x.mode = x.mode0}

-----------------------------------------------------------------------------
(* Guards, failures and the census.                                        *)

Charge == events < MaxEvents /\ events' = events + 1
Free == UNCHANGED events

Goto(pc) == at' = [at EXCEPT !.pc = pc]
Raise == Goto("raised")
Doing(op) == at.pc = "do" /\ at.op = op
Failed(x) == [x EXCEPT !.failure = TRUE]

\* The reserved identity has a process, running or unreaped.
Domain == w.leader # "none" \/ w.kin # "none" \/ w.helper = "subject"

\* Some process may still start or write as the reserved identity.
CouldWrite == w.leader # "none" \/ w.kin # "none" \/ w.helper # "none"

Owned == s.busy \/ s.active \/ s.pending
Guarded == ~s.closed /\ ~s.failure /\ ~w.late

CanIdle == Guarded /\ ~Owned /\ ~Domain

BecomeIdle == s' = [s EXCEPT !.idle = TRUE]

NotIdle ==
  s' = IF Guarded THEN [s EXCEPT !.idle = FALSE, !.failure = TRUE] ELSE Failed(s)

\* The linux launch assertion: the owned limit is there and still zero.
Assertable == b.ns.ready /\ ~b.ns.closed /\ ~s.pending /\ w.ns = "zero" /\ ~w.late

Latching == at.ctx # "admit"
Latched == IF Latching THEN Failed(s) ELSE s

\* fail(): the first message is the failure, every later one an error.
Failing(x) == IF x.fail THEN [x EXCEPT !.errs = TRUE] ELSE [x EXCEPT !.fail = TRUE]

Captures == {"probe", "passing", "nonzero", "timeout", "cancel", "held-pipe", "retained",
             "observer", "capture", "singleton", "control", "native"}
Disposes == at.op \in {"retained", "singleton"}
IdleFirst == Captures \cup
             {"ns-open", "home-pin", "home-positive", "write-positive", "sentinel", "owner-loss",
              "provider", "touch", "idle", "prepare", "signal-control", "prepared", "fixtures"}

\* A part that begins with the idle check, and the check refuses or fails.
Refused ==
  /\ at.pc = "do" /\ at.op \in IdleFirst
  /\ IF CanIdle THEN Charge ELSE Free
  /\ NotIdle /\ Raise
  /\ UNCHANGED <<job, b, r, w, seen>>

-----------------------------------------------------------------------------
(* One capture (_run).                                                     *)

Begin ==
  /\ s' = [s EXCEPT !.busy = TRUE, !.idle = FALSE] /\ r' = NoRun /\ Goto("r_setup")

Capture ==
  /\ at.pc = "do" /\ at.op \in Captures \ {"control", "native"} /\ CanIdle
  /\ Begin /\ UNCHANGED <<job, b, w, seen, events>>

\* Capture files, the linux assertion and the last look at the controller.
Setup ==
  /\ at.pc = "r_setup" /\ Free /\ UNCHANGED <<job, b, w, seen>>
  /\ \/ /\ ~s.failure /\ ~s.cancelled /\ ~r.over /\ ~w.late
        /\ job.platform = "linux" => Assertable
        /\ Goto("r_spawn") /\ UNCHANGED <<s, r>>
     \/ /\ s.failure \/ s.cancelled \/ r.over \/ w.late
        /\ r' = [Failing(r) EXCEPT !.cut = s.cancelled] /\ s' = Latched /\ Goto("r_stop")
     \/ /\ job.platform = "linux" /\ ~Assertable
        /\ r' = Failing(r) /\ s' = Failed(s) /\ Goto("r_stop")

Spawn ==
  /\ at.pc = "r_spawn" /\ Free /\ w' = [w EXCEPT !.leader = "live"] /\ Goto("r_own")
  /\ UNCHANGED <<job, s, b, r, seen>>

\* The handle is kept, then on macOS the credentials of the child are observed.
Own ==
  /\ at.pc = "r_own" /\ s' = [s EXCEPT !.active = TRUE]
  /\ UNCHANGED <<job, b, w, seen>>
  /\ \/ Free /\ r' = [r EXCEPT !.held = TRUE] /\ Goto("r_loop")
     \/ /\ Charge /\ job.platform = "darwin" /\ r' = [Failing(r) EXCEPT !.held = TRUE]
        /\ Goto("r_stop")

Reaped == [r EXCEPT !.waited = TRUE, !.code = w.exit]
Collected == [w EXCEPT !.leader = "none", !.exit = "ok"]

Reap ==
  /\ at.pc = "r_loop" /\ w.leader = "zombie" /\ Free
  /\ w' = Collected
  /\ IF w.exit = "bad" /\ ~r.fail
       THEN r' = Failing(Reaped) /\ s' = Latched ELSE r' = Reaped /\ UNCHANGED s
  /\ UNCHANGED <<job, at, b, seen>>

\* The cutoff, a cancellation, an output or memory limit stops the command.
LoopStops ==
  /\ at.pc = "r_loop" /\ ~r.fail /\ s' = Latched
  /\ \/ r.over /\ Free /\ r' = Failing(r)
     \/ (s.cancelled \/ at.op = "cancel") /\ Free /\ r' = [Failing(r) EXCEPT !.cut = TRUE]
     \/ Charge /\ r' = Failing(r)
  /\ UNCHANGED <<job, at, b, w, seen>>

LoopKills ==
  /\ at.pc = "r_loop" /\ r.fail /\ ~r.waited /\ r.grace >= 1 /\ ~r.kill /\ Free
  /\ r' = [r EXCEPT !.kill = TRUE] /\ UNCHANGED <<job, at, s, b, w, seen>>

ReadsEof ==
  /\ at.pc = "r_loop" /\ ~r.eof /\ w.leader # "live" /\ w.kin # "holding" /\ Free
  /\ r' = [r EXCEPT !.eof = TRUE] /\ UNCHANGED <<job, at, s, b, w, seen>>

\* _cleanup: nothing on linux; on macOS signals until the census is empty.
Sweeps(then) ==
  \/ /\ job.platform = "linux" /\ Free /\ r' = [r EXCEPT !.swept = TRUE] /\ s' = s /\ w' = w
     /\ then
  \/ /\ job.platform = "darwin" /\ ~w.late /\ w.leader = "none" /\ w.helper = "none" /\ Free
     /\ w' = [w EXCEPT !.kin = "none"] /\ r' = [r EXCEPT !.swept = TRUE] /\ s' = s /\ then
  \/ /\ job.platform = "darwin"
     /\ IF w.late \/ w.leader # "none" \/ w.helper # "none"
          THEN Free /\ w' = w
          ELSE Charge /\ w' \in {w, [w EXCEPT !.helper = "subject"]}
     /\ r' = [r EXCEPT !.swept = TRUE, !.errs = TRUE, !.fail = TRUE] /\ s' = Latched /\ then

LoopSweeps ==
  /\ at.pc = "r_loop" /\ r.fail /\ r.waited /\ ~r.swept /\ Sweeps(UNCHANGED at)
  /\ UNCHANGED <<job, b, seen>>

\* Mutant: the loop waits for the pipes however long a descendant holds them.
LoopEnds_Eof ==
  /\ at.pc = "r_loop" /\ Free /\ Goto("r_stop") /\ UNCHANGED <<job, s, b, r, w, seen>>
  /\ r.waited /\ r.eof /\ (r.fail => r.swept)

LoopEnds ==
  /\ at.pc = "r_loop" /\ Free /\ Goto("r_stop") /\ UNCHANGED <<job, s, b, w, seen>>
  /\ \/ r.waited /\ r.eof /\ (r.fail => r.swept) /\ UNCHANGED r
     \/ r.fail /\ r.grace = 2 /\ r' = [r EXCEPT !.errs = @ \/ ~r.eof]

\* A statement of the capture raises, before the child exists or while it runs.
RunRaises ==
  /\ at.pc \in {"r_setup", "r_spawn", "r_loop"} /\ Charge
  /\ r' = Failing(r) /\ s' = Latched /\ Goto("r_stop") /\ UNCHANGED <<job, b, w, seen>>

RunStop ==
  /\ at.pc = "r_stop" /\ Free /\ UNCHANGED <<job, s, b, w, seen>>
  /\ IF r.held THEN r' = [r EXCEPT !.kill = ~r.waited] /\ Goto("r_wait")
               ELSE r' = r /\ Goto("r_settle")

RunWait ==
  /\ at.pc = "r_wait" /\ Free /\ Goto("r_dispose") /\ UNCHANGED <<job, s, b, seen>>
  /\ \/ r.waited /\ UNCHANGED <<r, w>>
     \/ ~r.waited /\ w.leader = "zombie" /\ r' = Reaped /\ w' = Collected
     \/ ~r.waited /\ w.leader = "live" /\ r' = [r EXCEPT !.errs = TRUE] /\ w' = w

Disposing == r.fail \/ (Disposes /\ r.waited /\ r.code # "bad" /\ r.eof)

RunDispose ==
  /\ at.pc = "r_dispose" /\ UNCHANGED <<job, b, seen>>
  /\ \/ Disposing /\ ~r.swept /\ Sweeps(Goto("r_settle"))
     \/ (~Disposing \/ r.swept) /\ Free /\ Goto("r_settle") /\ UNCHANGED <<s, r, w>>

Final == r.waited /\ ~Domain /\ ~w.late

\* The streams are closed, the handle is given up and the census is taken.
RunSettle ==
  /\ at.pc = "r_settle" /\ Goto("r_end") /\ UNCHANGED <<job, b, w, seen>>
  /\ \E known \in BOOLEAN :
       /\ IF known \/ ~Final THEN Free ELSE Charge
       /\ LET final == Final /\ known IN
            /\ s' = [s EXCEPT !.active = r.held /\ ~r.waited, !.busy = FALSE, !.idle = final]
            /\ r' = [r EXCEPT !.errs = @ \/ ~final]

RunEnd ==
  LET cut  == IF s.cancelled THEN [Failing(r) EXCEPT !.cut = TRUE] ELSE r
      over == IF (r.over \/ w.late) /\ ~cut.fail THEN Failing(cut) ELSE cut
      eof  == IF ~r.waited \/ ~r.eof THEN Failing(over) ELSE over
      end  == IF eof.errs THEN [eof EXCEPT !.fail = TRUE] ELSE eof
  IN
  /\ at.pc = "r_end" /\ Free /\ r' = end /\ Goto("captured")
  /\ s' = IF Latching /\ end.fail THEN [s EXCEPT !.failure = TRUE, !.errors = @ \/ end.errs] ELSE s
  /\ UNCHANGED <<job, b, w, seen>>

\* CapturedRun.ok
RunOk ==
  r.waited /\ r.code # "bad" /\ r.eof /\ s.idle /\ ~r.over /\ ~r.cut /\ ~r.fail /\ ~r.errs

\* Mutant: a command that ended without a failure has done its work.
Judged_Ended == RunOk

Judged ==
  LET basic == r.waited /\ s.idle /\ ~r.errs
  IN CASE at.op = "nonzero" -> basic /\ ~RunOk /\ r.eof /\ r.code = "bad"
       [] at.op = "timeout" -> basic /\ ~RunOk /\ r.over
       [] at.op = "cancel" -> basic /\ ~RunOk /\ r.cut
       [] at.op = "held-pipe" -> basic /\ (~RunOk \/ job.platform = "linux")
       [] OTHER -> RunOk /\ r.code = "ok"

\* What the caller makes of the capture: its verdict, its output, idle again.
Judge ==
  /\ at.pc = "captured" /\ at.op # "native" /\ r' = NoRun /\ UNCHANGED <<job, b, w, seen>>
  /\ \/ Judged /\ CanIdle /\ Free /\ BecomeIdle /\ Goto("next")
     \/ ~Judged /\ Free /\ Raise /\ UNCHANGED s
     \/ Judged /\ (IF CanIdle THEN Charge ELSE Free) /\ NotIdle /\ Raise

-----------------------------------------------------------------------------
(* Parts that use no capture: inspections and trusted helpers.             *)

\* Root copies, hashes, freezes or removes a tree the subject may have written.
Touch ==
  /\ Doing("touch") /\ CanIdle /\ Free /\ BecomeIdle /\ Goto("touching")
  /\ UNCHANGED <<job, b, r, w, seen>>

Touched ==
  /\ at.pc = "touching" /\ UNCHANGED <<job, s, b, r, w>>
  /\ seen' = [seen EXCEPT !.touched = @ \/ CouldWrite]
  /\ \/ Free /\ Goto("next")
     \/ Charge /\ Raise

EnsureIdle ==
  /\ Doing("idle") /\ CanIdle /\ Free /\ BecomeIdle /\ Goto("next")
  /\ UNCHANGED <<job, b, r, w, seen>>

\* The provider's runtimes are inventoried, protected and checked again.
Provider ==
  /\ Doing("provider") /\ CanIdle /\ Free /\ BecomeIdle /\ Goto("touching")
  /\ UNCHANGED <<job, b, r, w, seen>>

\* A trusted process of the reserved identity, started before custody is noted.
Sentinel ==
  /\ Doing("sentinel") /\ CanIdle /\ Free /\ BecomeIdle /\ Goto("next")
  /\ w' = [w EXCEPT !.helper = "subject"] /\ UNCHANGED <<job, b, r, seen>>

SmallHelper(who) ==
  /\ s' = [s EXCEPT !.pending = TRUE, !.idle = FALSE] /\ w' = [w EXCEPT !.helper = who]
  /\ Goto("small")

Asserted == job.platform = "linux" /\ at.op \in {"write-positive", "owner-loss"}

Small ==
  /\ \/ at.op \in {"home-positive", "write-positive", "owner-loss"} /\ CanIdle
     \/ at.op = "signal"
  /\ at.pc = "do" /\ Free /\ UNCHANGED <<job, b, r, seen>>
  /\ IF Asserted /\ ~Assertable
       THEN s' = Failed(s) /\ w' = w /\ Raise
       ELSE SmallHelper(IF at.op = "owner-loss" THEN "owner" ELSE "subject")

\* Only the normal return of the collector gives custody up.
SmallReturns ==
  /\ at.pc = "small" /\ w.helper = "none" /\ ~w.late /\ Free
  /\ s' = [s EXCEPT !.pending = FALSE, !.active = FALSE]
  /\ Goto(IF at.op = "owner-loss" THEN "lost" ELSE "next") /\ UNCHANGED <<job, b, r, w, seen>>

\* A timeout, a wrong exit or output: the original is killed, others may live.
SmallRaises ==
  /\ at.pc = "small" /\ Free /\ Raise
  /\ w' \in {w, [w EXCEPT !.helper = "none"]}
  /\ s' \in IF s.active THEN {s, [s EXCEPT !.active = FALSE]} ELSE {s}
  /\ UNCHANGED <<job, b, r, seen>>

\* The child of the owner that was lost: swept on macOS, then watched go.
Lost ==
  /\ at.pc = "lost" /\ Free /\ UNCHANGED <<job, b, r, seen>>
  /\ \/ ~w.late /\ (job.platform = "darwin" \/ w.kin = "none") /\ w.helper = "none"
        /\ w' = [w EXCEPT !.kin = "none"] /\ Goto("next") /\ UNCHANGED s
     \/ (Domain \/ w.late) /\ s' = [s EXCEPT !.errors = TRUE] /\ Raise /\ UNCHANGED w

-----------------------------------------------------------------------------
(* The user-namespace limit of the linux machine.                          *)

NsRaises == s' = Failed(s) /\ Raise

NsOpen ==
  /\ Doing("ns-open") /\ CanIdle /\ UNCHANGED <<job, r, w, seen>>
  /\ \/ /\ Free /\ b' = [b EXCEPT !.ns = [@ EXCEPT !.made = TRUE, !.fd = TRUE, !.known = TRUE]]
        /\ BecomeIdle /\ Goto("next")
     \/ /\ Charge /\ NsRaises
        /\ \E fd \in BOOLEAN : b' = [b EXCEPT !.ns = [@ EXCEPT !.made = TRUE, !.fd = fd]]

NsWrite ==
  /\ Doing("ns-write") /\ UNCHANGED <<job, r, seen>>
  /\ \/ w.ns0 = "zero" /\ Free /\ Goto("next") /\ UNCHANGED <<s, b, w>>
     \/ /\ w.ns0 # "zero" /\ ~w.late /\ Free /\ b' = [b EXCEPT !.ns.tried = TRUE]
        /\ w' = [w EXCEPT !.ns = "zero"] /\ Goto("next") /\ UNCHANGED s
     \/ /\ w.ns0 # "zero" /\ (IF w.late THEN Free ELSE Charge)
        /\ b' = [b EXCEPT !.ns.tried = TRUE] /\ NsRaises
        /\ w' \in IF w.late THEN {w} ELSE {w, [w EXCEPT !.ns = "zero"]}

NsVerify ==
  /\ Doing("ns-verify") /\ UNCHANGED <<job, r, w, seen>>
  /\ \/ w.ns = "zero" /\ ~w.late /\ Free /\ b' = [b EXCEPT !.ns.ready = TRUE] /\ Goto("next")
        /\ UNCHANGED s
     \/ (w.ns # "zero" \/ w.late) /\ Free /\ NsRaises /\ UNCHANGED b

-----------------------------------------------------------------------------
(* The home of the macOS machine and the synthetic nodes in it.            *)

HomePin ==
  /\ Doing("home-pin") /\ CanIdle /\ BecomeIdle /\ UNCHANGED <<job, r, seen>>
  /\ LET tried == w.mode0 = "narrow"
         open == [b EXCEPT !.home = [@ EXCEPT !.made = TRUE, !.pin = TRUE, !.tried = tried]]
     IN \/ /\ w.mode = w.mode0 /\ Free /\ b' = [open EXCEPT !.home.ready = TRUE]
           /\ w' = [w EXCEPT !.mode = "search"] /\ Goto("next")
        \/ /\ w.mode = w.mode0 /\ Charge /\ b' = open /\ Raise
           /\ w' \in {w, [w EXCEPT !.mode = "search"]}
        \/ /\ w.mode # w.mode0 /\ Free /\ Raise /\ w' = w
           /\ b' = [b EXCEPT !.home = [@ EXCEPT !.made = TRUE, !.pin = TRUE]]

\* Exclusive creation: the attempt is noted before it, the identity after it.
\* "tried": there may be a node, and not enough is known of it to remove it.
MakeNode ==
  /\ at.pc = "do" /\ at.op \in Nodes /\ UNCHANGED <<job, s, r, seen>>
  /\ LET tried == [b EXCEPT !.home.node[at.op] = "tried"]
         owned == [b EXCEPT !.home.node[at.op] = "owned"]
         ours  == [w EXCEPT !.node[at.op] = "ours"]
         clear == w.node[at.op] = "none" /\ w.mode = "search" /\ ~w.late
     IN \/ clear /\ Free /\ w' = ours /\ b' = owned /\ Goto("next")
        \/ clear /\ Charge /\ w' = ours /\ b' = owned /\ Raise
        \/ clear /\ Charge /\ w' \in {w, ours} /\ b' = tried /\ Raise
        \/ ~clear /\ Free /\ w' = w /\ b' = tried /\ Raise

-----------------------------------------------------------------------------
(* close(): the controller's own child, the census, then the settings.     *)

CloseBegin ==
  /\ at.pc = "close" /\ Free /\ Goto("c_census") /\ UNCHANGED <<job, b, r, seen>>
  /\ LET t == [s EXCEPT !.failure = @ \/ w.late \/ Owned]
     IN \/ ~s.active /\ s' = t /\ w' = w
        \/ s.active /\ s' = [t EXCEPT !.active = FALSE] /\ w' = Collected
        \/ s.active /\ s' = [t EXCEPT !.errors = TRUE] /\ w' = w

CloseCensus ==
  /\ at.pc = "c_census" /\ Goto("c_native") /\ UNCHANGED <<job, b, r, w, seen>>
  /\ LET idle == ~Owned /\ ~Domain /\ ~w.late
         veto == [s EXCEPT !.idle = FALSE, !.errors = TRUE, !.failure = TRUE]
     IN \/ Free /\ s' = IF idle THEN [s EXCEPT !.idle = TRUE] ELSE veto
        \/ idle /\ Charge /\ s' = veto

\* Mutant: the setting is restored without a census of its own.
Finality_Skipped == ~w.late

Finality == ~w.late /\ ~Owned /\ s.idle /\ ~Domain

Unfinished == [s EXCEPT !.errors = TRUE, !.failure = TRUE]
NsOver == b' = [b EXCEPT !.ns = [@ EXCEPT !.closed = TRUE, !.fd = FALSE]]

CloseNs ==
  LET ns == b.ns
      able == ns.fd /\ Finality /\ ns.known /\ w.ns = "zero" /\ (ns.tried \/ w.ns0 = "zero")
  IN
  /\ at.pc = "c_ns" /\ Goto("c_home") /\ UNCHANGED <<job, r, seen>>
  /\ \/ ~ns.made /\ Free /\ UNCHANGED <<s, b, w>>
     \/ ns.made /\ ~ns.fd /\ ~ns.tried /\ Free /\ NsOver /\ UNCHANGED <<s, w>>
     \/ ns.made /\ able /\ Free /\ NsOver /\ s' = s
        /\ w' = [w EXCEPT !.ns = w.ns0]
     \/ ns.made /\ able /\ ns.tried /\ Charge /\ NsOver /\ s' = Unfinished
        /\ w' \in {w, [w EXCEPT !.ns = w.ns0]}
     \/ ns.made /\ ~able /\ (ns.fd \/ ns.tried) /\ Free /\ NsOver /\ s' = Unfinished /\ w' = w

\* Mutant: a node is removed by its name.
Removable_ByName(x) == b.home.node[x] = "owned"

Removable(x) == b.home.node[x] = "owned" /\ w.node[x] = "ours"

CloseHome ==
  LET home == b.home
      able == Finality /\ home.ready /\ w.mode = "search"
      left == [x \in Nodes |-> IF Removable(x) THEN "none" ELSE w.node[x]]
      kept == \E x \in Nodes : home.node[x] = "tried" \/ (home.node[x] = "owned" /\ ~Removable(x))
      over == b' = [b EXCEPT !.home = [@ EXCEPT !.closed = TRUE, !.pin = FALSE]]
      end(x) == s' = [x EXCEPT !.closed = TRUE]
  IN
  /\ at.pc = "c_home" /\ Goto("publish") /\ UNCHANGED <<job, r, seen>>
  /\ \/ ~home.made /\ Free /\ end(s) /\ UNCHANGED <<b, w>>
     \/ home.made /\ able /\ Free /\ over /\ w' = [w EXCEPT !.mode = w.mode0, !.node = left]
        /\ end(IF kept THEN Unfinished ELSE s)
     \/ home.made /\ able /\ home.tried /\ Charge /\ over /\ end(Unfinished)
        /\ w' \in {w, [w EXCEPT !.mode = w.mode0]}
     \/ home.made /\ ~able /\ Free /\ over /\ end(Unfinished) /\ w' = w

-----------------------------------------------------------------------------
(* The machine, the clocks and the signals.                                *)

SubjectEnds ==
  /\ w.leader = "live"
  /\ \E exit \in IF r.kill THEN {"bad"} ELSE {"ok", "short", "bad"} :
       /\ w' = [w EXCEPT !.leader = "zombie", !.exit = exit]
       /\ seen' = [seen EXCEPT !.stained = @ \/ exit # "ok"]
  /\ UNCHANGED <<job, at, s, b, r, events>>

SubjectForks ==
  /\ w.leader = "live" /\ w.kin = "none" /\ at.pc = "r_loop" /\ at.op \in Captures
  /\ \E kin \in {"quiet", "holding"} : w' = [w EXCEPT !.kin = kin]
  /\ UNCHANGED <<job, at, s, b, r, seen, events>>

\* The end of the leader ends the whole process namespace of the capture.
NamespaceEnds ==
  /\ job.platform = "linux" /\ w.leader # "live" /\ w.kin # "none"
  /\ w' = [w EXCEPT !.kin = "none"] /\ UNCHANGED <<job, at, s, b, r, seen, events>>

KinEnds ==
  /\ job.platform = "darwin" /\ w.kin # "none"
  /\ w' = [w EXCEPT !.kin = "none"] /\ UNCHANGED <<job, at, s, b, r, seen, events>>

OwnerLaunches ==
  /\ w.helper = "owner" /\ w.kin = "none" /\ w' = [w EXCEPT !.kin = "quiet"]
  /\ UNCHANGED <<job, at, s, b, r, seen, events>>

HelperEnds ==
  /\ w.helper # "none" /\ w' = [w EXCEPT !.helper = "none"]
  /\ UNCHANGED <<job, at, s, b, r, seen, events>>

\* The cutoff is read before the launch, in the loop and at the end.
RunClock ==
  /\ \/ at.pc \in {"r_setup", "r_loop", "r_settle"} /\ ~r.over /\ r' = [r EXCEPT !.over = TRUE]
     \/ at.pc = "r_loop" /\ r.fail /\ r.grace < 2 /\ r' = [r EXCEPT !.grace = @ + 1]
  /\ UNCHANGED <<job, at, s, b, w, seen, events>>

Opened == w.alarm # "none" /\ ~s.finished /\ at.pc # "done"

Late ==
  /\ Opened /\ ~w.late /\ Charge /\ w' = [w EXCEPT !.late = TRUE]
  /\ UNCHANGED <<job, at, s, b, r, seen>>

\* SIGINT or SIGTERM: latched, raises nothing.
Cancel ==
  /\ Opened /\ ~s.cancelled /\ Charge
  /\ s' = [s EXCEPT !.cancelled = TRUE, !.failure = TRUE] /\ UNCHANGED <<job, at, b, r, w, seen>>

\* Somebody else on the machine changes what the session owns: just before
\* the session next looks at it.
Looks ==
  \/ at.pc = "do" /\ at.op \in Nodes \cup {"ns-open", "ns-verify", "write-positive", "home-pin"}
  \/ at.pc \in {"r_setup", "c_ns", "c_home"}

Drift ==
  /\ Opened /\ Looks /\ Charge /\ UNCHANGED <<job, at, s, b, r, seen>>
  /\ \/ job.platform = "linux" /\ w.ns # "drift" /\ w' = [w EXCEPT !.ns = "drift"]
     \/ job.platform = "darwin" /\ at.pc # "r_setup" /\ w.mode # "drift" /\ w' = [w EXCEPT !.mode = "drift"]
     \/ /\ job.platform = "darwin" /\ at.pc # "r_setup"
        /\ \E x \in Nodes : w.node[x] # "foreign" /\ w' = [w EXCEPT !.node[x] = "foreign"]

\* SIGALRM at the deadline, once: where the exception surfaces.
Alarm ==
  /\ w.alarm = "armed" /\ w.late /\ w' = [w EXCEPT !.alarm = "fired"]
  /\ UNCHANGED <<job, b, seen, events>>
  /\ \/ at.pc \in {"do", "next", "touching", "small", "lost", "captured"}
        /\ s' = Failed(s) /\ r' = NoRun /\ Raise
     \/ at.pc \in {"r_setup", "r_spawn", "r_own", "r_loop"}
        /\ s' = Failed(s) /\ r' = Failing(r) /\ Goto("r_stop")
     \/ at.pc \in {"r_stop", "r_wait"} /\ s' = Failed(s) /\ r' = [r EXCEPT !.errs = TRUE]
        /\ Goto(IF r.held THEN "r_dispose" ELSE "r_settle")
     \/ at.pc \in {"r_dispose", "r_settle"} /\ s' = Failed(s) /\ r' = [r EXCEPT !.errs = TRUE]
        /\ Goto("r_settle")
     \/ at.pc \in {"r_settle", "r_end"} /\ s' = Failed(s) /\ r' = NoRun /\ Raise
     \/ at.pc \in {"close", "c_census", "c_native", "c_files", "c_ns", "c_home", "publish"}
        /\ s' = Unfinished /\ UNCHANGED <<at, r>>
     \/ at.pc = "caught" /\ s' = Failed(s) /\ r' = r /\ Goto("escaped")

Controller ==
  \/ Refused \/ Setup \/ Spawn \/ Own \/ Reap \/ LoopStops \/ LoopKills \/ ReadsEof
  \/ LoopSweeps \/ LoopEnds \/ RunStop \/ RunWait \/ RunDispose \/ RunSettle \/ RunEnd \/ Judge
  \/ Touch \/ Touched \/ EnsureIdle \/ Provider \/ Sentinel \/ Small \/ SmallReturns
  \/ SmallRaises \/ Lost \/ NsOpen \/ NsWrite \/ NsVerify \/ HomePin \/ MakeNode
  \/ CloseBegin \/ CloseCensus \/ CloseNs \/ CloseHome

Machine ==
  \/ SubjectEnds \/ SubjectForks \/ NamespaceEnds \/ KinEnds \/ OwnerLaunches \/ HelperEnds
  \/ RunClock \/ RunRaises \/ Late \/ Cancel \/ Drift \/ Alarm

=============================================================================
