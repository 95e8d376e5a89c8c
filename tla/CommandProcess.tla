--------------------------- MODULE CommandProcess ---------------------------
(***************************************************************************)
(* The owned command of _command_process.py.  The caller O spawns the      *)
(* custodian C, which leads a session and a group H of its own; C spawns   *)
(* the anchor A, which leads the group G and moves to H once its own child *)
(* is admitted; A spawns the worker W, which stays in G and executes the   *)
(* tool.  The four talk over one pair of pipes per parent and child, each  *)
(* owns only its original child, and every way out settles bottom up: A    *)
(* waits for W, C kills G and sees it empty, C waits for A, and O waits    *)
(* for C and publishes one outcome.                                        *)
(*                                                                         *)
(* Left out: the content of the frames and of the record, the descriptor   *)
(* tables, the creator thread beyond its outcome, the trace of the fence.  *)
(* A frame and the reading that precedes it in the same loop are one step; *)
(* MANIFEST and DATA travel with the CREATE_W or CONFIG they follow.       *)
(***************************************************************************)
EXTENDS Naturals

CONSTANTS
    Requests,    \* the forms of command asked for, from {"capture", "journal"}
    Together,    \* whether a kill and the run's deadline may meet in one run
    Limits,      \* the time limits that may pass, from {"run", "O", "C", "A"}
    MaxKills,    \* how many processes an outsider may kill
    MaxFaults    \* how many calls may fail (I/O, signal, cancellation, spawn)

ASSUME BoundsAssumption ==
    /\ Requests \subseteq SUBSET {"capture", "journal"}
    /\ Limits \subseteq {"run", "O", "C", "A"}
    /\ MaxKills \in Nat /\ MaxFaults \in Nat
    /\ Together \in BOOLEAN

Roles  == {"O", "C", "A", "W"}
Owners == {"O", "C", "A"}
Child  == [O |-> "C", C |-> "A", A |-> "W"]
Parent == [C |-> "O", A |-> "C", W |-> "A"]

\* The pipe an owner writes to its child on, and the one it hears it on.
Down == [O |-> "OC", C |-> "CA", A |-> "AW"]
Back == [O |-> "CO", C |-> "AC", A |-> "WA"]
Links == {"OC", "CO", "CA", "AC", "AW", "WA"}
Writer == [OC |-> "O", CO |-> "C", CA |-> "C", AC |-> "A", AW |-> "A", WA |-> "W"]

\* The order in which any one pipe carries its frames: each at most once.
Rank == [HELLO |-> 1, CONFIG |-> 2, PREPARED |-> 3, CREATE |-> 4, READY |-> 5,
         RUN |-> 6, ARMED |-> 7, REJECTED |-> 8, STOP |-> 9, WORK_DONE |-> 10,
         GROUP_DONE |-> 11, SEALED |-> 12, TERMINAL |-> 13]
Tags == DOMAIN Rank

VARIABLES
    wants,     \* SUBSET {"capture", "journal"}: what this command was asked
    proc,      \* role -> "none", "alive", "zombie" or "gone"
    status,    \* role -> how it ended; "killed" is the owned group kill
    image,     \* "helper" or "target": what W runs, or last ran
    kid,       \* "none", "running" or "gone": a descendant of the tool, in G
    grp,       \* where A is: "start" (as spawned), "G" or "moved" (in H)
    chan,      \* pipe -> the frames written and not yet read
    shut,      \* pipes whose writer closed its end while it lives
    body,      \* role -> the stage its body has reached, kept once it fails
    tail,      \* role -> "no" in the body, else the stage of its cleanup
    got,       \* owner -> frames of its child it has accepted
    tried,     \* <<owner, grant>> routes attempted
    has,       \* owner -> "none", "made" or "lost": its creator's result
    rcpt,      \* child -> the wait status its parent consumed, or "none"
    failed,    \* roles whose context holds a primary error
    unk,       \* roles whose context says cleanup_unknown
    proto,     \* owners whose child's stream is poisoned
    passed,    \* the run deadline and the owners' cleanup cutoffs that passed
    work,      \* the settlement A reports, or NoWork
    absent,    \* "yes" once C has seen G empty
    seal,      \* "yes" once C has sealed its descendants
    fence,     \* "none", "pending", "linked" or "synced"
    relay,     \* "none", "full" or "cut": the output C gave to O
    term,      \* C's TERMINAL record, or NoTerm
    verdict,   \* O's OriginalCommandOutcome, or NoVerdict
    kills,
    faults

world == <<proc, status, image, kid, grp>>
wires == <<chan, shut>>
minds == <<body, tail, got, tried, has, rcpt, failed, unk, proto>>
facts == <<work, absent, seal, fence, relay, term, verdict>>
outer == <<wants, passed, kills, faults>>
vars  == <<world, wires, minds, facts, outer>>

NoWork    == [run |-> "none", noChild |-> "none", wait |-> "none",
              rejected |-> "none", producer |-> "none", result |-> "none"]
NoTerm    == [create |-> "none", run |-> "none", noTarget |-> "none", wait |-> "none",
              producer |-> "none", result |-> "none", fence |-> "none"]
NoVerdict == [final |-> "none", tag |-> "none", dispatched |-> "none",
              wait |-> "none", complete |-> "none"]

YesNo(b) == IF b THEN "yes" ELSE "no"

-----------------------------------------------------------------------------
(* Processes, groups and pipes as the system calls see them.               *)

Alive(p)  == proc[p] = "alive"
InBody(p) == Alive(p) /\ tail[p] = "no"
At(p, stage)   == InBody(p) /\ body[p] = stage
Tail(p, stage) == Alive(p) /\ tail[p] = stage

\* What becomes of every process when those of P die: a dead child of a
\* live parent waits to be reaped; init reaps the children of the dead.
Fall(P) ==
    LET kept(p) == p # "O" /\ Parent[p] \notin P /\ Alive(Parent[p])
    IN  [p \in Roles |->
            IF p \in P \/ proc[p] = "zombie"
            THEN (IF kept(p) THEN "zombie" ELSE "gone")
            ELSE proc[p]]

Ends(P, how) ==
    /\ proc' = Fall(P)
    /\ status' = [p \in Roles |-> IF p \in P THEN how ELSE status[p]]

\* killpg(G, SIGKILL): every member of G, and of it alone.
InGroup == {p \in {"A", "W"} : Alive(p) /\ (p = "A" => grp = "G")}
KillGroup ==
    /\ Ends(InGroup, "killed")
    /\ kid' = IF kid = "running" THEN "gone" ELSE kid

\* killpg(G, 0) finds nobody, neither a live member nor an unreaped one.
GroupEmpty ==
    /\ proc["W"] \in {"none", "gone"}
    /\ kid # "running"
    /\ grp # "G" \/ proc["A"] \in {"none", "gone"}

Closed(l) ==
    \/ l \in shut
    \/ proc[Writer[l]] \in {"zombie", "gone"}
    \/ l = "WA" /\ image = "target"
Eof(l) == chan[l] = {} /\ Closed(l)
Next1(l, t) == t \in chan[l] /\ \A u \in chan[l] : Rank[t] <= Rank[u]

Sends(l, t) == chan' = [chan EXCEPT ![l] = @ \cup {t}]
Reads(l, t) == chan' = [chan EXCEPT ![l] = @ \ {t}]
Passes(l, t, m, u) == chan' = [chan EXCEPT ![l] = @ \ {t}, ![m] = @ \cup {u}]

Goes(p, stage)    == body' = [body EXCEPT ![p] = stage]
Cleans(p, stage)  == tail' = [tail EXCEPT ![p] = stage]
Hears(p, t)       == got' = [got EXCEPT ![p] = @ \cup {t}]
Fails(p)          == failed' = failed \cup {p}
Fault             == faults < MaxFaults /\ faults' = faults + 1
Tried(p, t)       == <<p, t>> \in tried

-----------------------------------------------------------------------------
(* _spawn: one creator, one native attempt.  It publishes the child, or    *)
(* its result is lost and nothing says whether a child exists.             *)

SpawnStage == [O |-> "start", C |-> "spawn", A |-> "create"]
MaySpawn(p) ==
    /\ At(p, SpawnStage[p])
    /\ p = "A" => Next1("CA", "CREATE")

Born(p) ==
    /\ proc' = [proc EXCEPT ![Child[p]] = "alive"]
    /\ body' = [body EXCEPT ![p] = "hello", ![Child[p]] = "boot"]

Grants(p) ==
    /\ chan' = IF p = "A" THEN [chan EXCEPT !["CA"] = @ \ {"CREATE"}] ELSE chan
    /\ tried' = IF p = "A" THEN tried \cup {<<"A", "CREATE">>} ELSE tried

Spawn(p) ==
    /\ MaySpawn(p)
    /\ Born(p)
    /\ Grants(p)
    /\ has' = [has EXCEPT ![p] = "made"]
    /\ UNCHANGED <<status, image, kid, grp, shut, tail, got, rcpt, failed, unk,
                   proto, facts, outer>>

SpawnLost(p) ==
    /\ Fault
    /\ MaySpawn(p)
    /\ \/ Born(p)
       \/ UNCHANGED <<proc, body>>
    /\ Grants(p)
    /\ has' = [has EXCEPT ![p] = "lost"]
    /\ Fails(p)
    /\ unk' = unk \cup {p}
    /\ Cleans(p, "settle")
    /\ UNCHANGED <<status, image, kid, grp, shut, got, rcpt, proto, facts,
                   wants, passed, kills>>

\* A one-use grant: _Route.attempt precedes the first write, so the route is
\* tried whether or not the frame arrives.
GrantStage == [O |-> [prepared |-> "CREATE", ready |-> "RUN"],
               C |-> [create |-> "CREATE", run |-> "RUN"],
               A |-> [run |-> "RUN"]]
NextStage  == [prepared |-> "ready", create |-> "ready", ready |-> "run", run |-> "wait"]

\* The frame whose reading leads to the grant.
Cause(p, t) ==
    CASE p = "C" -> [link |-> "OC", tag |-> t]
      [] p = "A" -> [link |-> "CA", tag |-> t]
      [] p = "O" /\ t = "RUN" -> [link |-> "CO", tag |-> "READY"]
      [] OTHER -> [link |-> "none", tag |-> "none"]

Attempt(p, arrives) ==
    /\ InBody(p)
    /\ body[p] \in DOMAIN GrantStage[p]
    /\ LET t == GrantStage[p][body[p]]
           c == Cause(p, t)
       IN  /\ c.link # "none" => Next1(c.link, c.tag)
           /\ tried' = tried \cup {<<p, t>>}
           /\ chan' = [l \in Links |->
                         (IF l = c.link THEN chan[l] \ {c.tag} ELSE chan[l])
                           \cup (IF l = Down[p] /\ arrives THEN {t} ELSE {})]
           /\ got' = IF c.tag = "READY" THEN [got EXCEPT ![p] = @ \cup {"READY"}] ELSE got
    /\ UNCHANGED <<world, has, rcpt, unk, proto, facts, wants, passed, kills>>

Grant(p) ==
    /\ Attempt(p, TRUE)
    /\ Goes(p, NextStage[body[p]])
    /\ UNCHANGED <<shut, tail, failed, faults>>

\* The write fails: the stream is withdrawn, and the frame may still arrive.
GrantLost(p) ==
    /\ Fault
    /\ \E arrives \in BOOLEAN : Attempt(p, arrives)
    /\ shut' = shut \cup {Down[p]}
    /\ Fails(p)
    /\ Cleans(p, "settle")
    /\ UNCHANGED body

-----------------------------------------------------------------------------
(* Leaving the body.  Every loop of a body runs ctx.check and reads its    *)
(* pipes, so a role notices at its next turn: the run deadline, a parent   *)
(* that is gone, the end of a stream it still needs, an owner's STOP, or   *)
(* a failure of its own.                                                   *)

\* The stages whose loop reads the parent, and those that need the child.
HearsParent == [C |-> {"config", "create", "run", "wait"},
                A |-> {"config", "create", "run", "wait"},
                W |-> {"config", "run"}]
HearsChild  == [O |-> {"hello", "prepare", "ready", "run"},
                C |-> {"hello", "prepared", "ready", "wait"},
                A |-> {"hello", "ready"}]

ParentLost(p) == p # "O" /\ ~Alive(Parent[p])
Stopped(p) == p \in {"C", "A"} /\ body[p] \in HearsParent[p] /\ Next1(Down[Parent[p]], "STOP")
Starved(p) ==
    \/ p # "O" /\ body[p] \in HearsParent[p] /\ Eof(Down[Parent[p]])
    \/ /\ p # "W" /\ body[p] \in HearsChild[p] /\ Eof(Back[p])
       /\ p = "O" => "TERMINAL" \notin got["O"] \/ body["O"] # "run"
Unarmed(p) == p = "A" /\ body[p] = "wait" /\ rcpt["W"] # "none" /\ Eof("WA") /\ "ARMED" \notin got["A"]

\* body() raised; record() retires the launch routes; cleanup begins.  A
\* helper that has not built its owner yet exits at once.
Unwinds(p) ==
    /\ InBody(p)
    /\ p \in Owners
    /\ Fails(p)
    /\ IF body[p] = "boot"
       THEN Ends({p}, "UNKNOWN") /\ UNCHANGED tail
       ELSE Cleans(p, "settle") /\ UNCHANGED <<proc, status>>
    /\ UNCHANGED <<image, kid, grp, shut, body, got, tried, has, rcpt, unk, proto, facts,
                   wants, passed, kills>>

\* Mutant: the run deadline ends no body.
Unwind_ForgetsDeadline(p) ==
    /\ ParentLost(p) \/ Starved(p) \/ Unarmed(p)
    /\ ~Stopped(p)
    /\ Unwinds(p)
    /\ UNCHANGED <<chan, faults>>

Unwind(p) ==
    /\ "run" \in passed \/ ParentLost(p) \/ Starved(p) \/ Unarmed(p)
    /\ ~Stopped(p)
    /\ Unwinds(p)
    /\ UNCHANGED <<chan, faults>>

\* _accept_stop: the owner's STOP is a failure with the owner's cutoff.
Stop(p) ==
    /\ Stopped(p)
    /\ Unwinds(p)
    /\ Reads(Down[Parent[p]], "STOP")
    /\ UNCHANGED faults

\* A read, a descriptor, a callback, a cancellation or a signal fails it.
BodyFault(p) ==
    /\ Fault
    /\ Unwinds(p)
    /\ UNCHANGED chan

\* In the cleanup: a close or a wait that leaves its own result unknown, or
\* a signal that revokes the exit code.
CleanupFault(p) ==
    /\ Fault
    /\ Alive(p) /\ tail[p] \notin {"no", "done"}
    /\ p \notin unk
    /\ unk' = unk \cup {p}
    /\ Fails(p)
    /\ UNCHANGED <<world, wires, body, tail, got, tried, has, rcpt, proto, facts,
                   wants, passed, kills>>

\* Time: the run deadline, and the bounded grace of each cleanup.
Deadline ==
    /\ "run" \in Limits \ passed
    /\ Together \/ kills = 0
    /\ passed' = passed \cup {"run"}
    /\ UNCHANGED <<world, wires, minds, facts, wants, kills, faults>>

WaitsIn == [O |-> {"drain", "wait"},
            C |-> {"probe", "terminal", "reap", "sources", "create", "link", "sync", "relay", "close"},
            A |-> {"wait", "drain", "group", "close"}]
Cutoff(p) ==
    /\ Alive(p) /\ tail[p] \in WaitsIn[p]
    /\ p \in Limits \ passed
    /\ passed' = passed \cup {p}
    /\ UNCHANGED <<world, wires, minds, facts, wants, kills, faults>>

\* An outsider kills one process: the caller, a helper or the tool.
Kill(p) ==
    /\ kills < MaxKills
    /\ Together \/ "run" \notin passed
    /\ Alive(p)
    /\ Ends({p}, "signal")
    /\ kills' = kills + 1
    /\ UNCHANGED <<image, kid, grp, wires, minds, facts, wants, passed, faults>>

\* A pump of an owner reads a frame its state does not admit: the stream is
\* poisoned, and from then on only drained.
Poisons(p) ==
    /\ proto' = proto \cup {p}
    /\ Fails(p)
    /\ Cleans(p, IF tail[p] = "no" THEN "settle" ELSE tail[p])

Pumps == [O |-> {"drain", "wait"}, C |-> {"grace", "probe", "terminal", "reap"},
          A |-> {"wait", "drain"}]
DrainPoisoned(p) ==
    /\ Alive(p) /\ tail[p] \in Pumps[p]
    /\ p \in proto
    /\ chan[Back[p]] # {}
    /\ chan' = [chan EXCEPT ![Back[p]] = {}]
    /\ UNCHANGED <<world, shut, minds, facts, outer>>

-----------------------------------------------------------------------------
(* W, the worker: an inert helper until RUN_TOOL, then the tool.           *)

WHello ==
    /\ At("W", "boot")
    /\ Sends("WA", "HELLO")
    /\ Goes("W", "config")
    /\ UNCHANGED <<world, shut, tail, got, tried, has, rcpt, failed, unk, proto, facts, outer>>

WReady ==
    /\ At("W", "config")
    /\ Next1("AW", "CONFIG")
    /\ Passes("AW", "CONFIG", "WA", "READY")
    /\ Goes("W", "run")
    /\ UNCHANGED <<world, shut, tail, got, tried, has, rcpt, failed, unk, proto, facts, outer>>

WArm ==
    /\ At("W", "run")
    /\ Next1("AW", "RUN")
    /\ Passes("AW", "RUN", "WA", "ARMED")
    /\ Goes("W", "armed")
    /\ UNCHANGED <<world, shut, tail, got, tried, has, rcpt, failed, unk, proto, facts, outer>>

WExec ==
    /\ At("W", "armed")
    /\ image' = "target"
    /\ Goes("W", "target")
    /\ UNCHANGED <<proc, status, kid, grp, wires, tail, got, tried, has, rcpt, failed,
                   unk, proto, facts, outer>>

\* No image could be executed: one report, and no exec site after it.
WReject ==
    /\ At("W", "armed")
    /\ Sends("WA", "REJECTED")
    /\ Goes("W", "rejected")
    /\ UNCHANGED <<world, shut, tail, got, tried, has, rcpt, failed, unk, proto, facts, outer>>

\* The loader never returns: the helper that is W ends itself by a signal.
WEnds(fault) ==
    /\ Alive("W") /\ image = "helper"
    /\ fault \/ body["W"] = "rejected" \/ "run" \in passed \/ ParentLost("W") \/ Starved("W")
    /\ Ends({"W"}, "signal")
    /\ IF fault THEN Fault ELSE UNCHANGED faults
    /\ UNCHANGED <<image, kid, grp, wires, minds, facts, wants, passed, kills>>

\* The tool itself: it may start a descendant, and it ends as it likes.
ToolForks ==
    /\ Alive("W") /\ image = "target"
    /\ kid = "none"
    /\ kid' = "running"
    /\ UNCHANGED <<proc, status, image, grp, wires, minds, facts, outer>>

ToolEnds ==
    /\ Alive("W") /\ image = "target"
    /\ \E how \in {"exit", "signal"} : Ends({"W"}, how)
    /\ UNCHANGED <<image, kid, grp, wires, minds, facts, outer>>

KidEnds ==
    /\ kid = "running"
    /\ kid' = "gone"
    /\ UNCHANGED <<proc, status, image, grp, wires, minds, facts, outer>>

-----------------------------------------------------------------------------
(* A, the anchor.                                                          *)

AHello ==
    /\ At("A", "boot")
    /\ grp' = "G"
    /\ Sends("AC", "HELLO")
    /\ Goes("A", "config")
    /\ UNCHANGED <<proc, status, image, kid, shut, tail, got, tried, has, rcpt, failed,
                   unk, proto, facts, outer>>

APrepared ==
    /\ At("A", "config")
    /\ Next1("CA", "CONFIG")
    /\ Passes("CA", "CONFIG", "AC", "PREPARED")
    /\ Goes("A", "create")
    /\ UNCHANGED <<world, shut, tail, got, tried, has, rcpt, failed, unk, proto, facts, outer>>

\* W is admitted; only now does A leave G, and only then may W go on.
AMoves ==
    /\ At("A", "hello")
    /\ Next1("WA", "HELLO")
    /\ grp' = "moved"
    /\ Passes("WA", "HELLO", "AW", "CONFIG")
    /\ Goes("A", "ready")
    /\ UNCHANGED <<proc, status, image, kid, shut, tail, got, tried, has, rcpt, failed,
                   unk, proto, facts, outer>>

AReady ==
    /\ At("A", "ready")
    /\ Next1("WA", "READY")
    /\ Passes("WA", "READY", "AC", "READY")
    /\ Goes("A", "run")
    /\ UNCHANGED <<world, shut, tail, got, tried, has, rcpt, failed, unk, proto, facts, outer>>

\* _worker_frames: what A takes from W once it has been granted RUN_TOOL.
AAdmits(t) ==
    \/ t = "ARMED" /\ Tried("A", "RUN") /\ body["A"] \in {"run", "wait"}
    \/ t = "REJECTED" /\ "ARMED" \in got["A"]

AFrame(t) ==
    /\ Alive("A")
    /\ (tail["A"] = "no" /\ body["A"] = "wait") \/ tail["A"] \in Pumps["A"]
    /\ "A" \notin proto
    /\ Next1("WA", t)
    /\ Reads("WA", t)
    /\ \/ AAdmits(t) /\ Hears("A", t) /\ UNCHANGED <<tail, failed, proto>>
       \/ ~AAdmits(t) /\ Poisons("A") /\ UNCHANGED got
    /\ UNCHANGED <<world, shut, body, tried, has, rcpt, unk, facts, outer>>

\* child.poll_wait: the original child's status, consumed once.
Reap(p) ==
    /\ proc[Child[p]] = "zombie"
    /\ rcpt' = [rcpt EXCEPT ![Child[p]] = status[Child[p]]]
    /\ proc' = [proc EXCEPT ![Child[p]] = "gone"]

AReaps ==
    /\ At("A", "wait")
    /\ Reap("A")
    /\ UNCHANGED <<status, image, kid, grp, wires, body, tail, got, tried, has, failed,
                   unk, proto, facts, outer>>

AWaited ==
    /\ At("A", "wait")
    /\ rcpt["W"] # "none" /\ Eof("WA") /\ "ARMED" \in got["A"]
    /\ Cleans("A", "settle")
    /\ UNCHANGED <<world, wires, body, got, tried, has, rcpt, failed, unk, proto, facts, outer>>

\* finish(), first part: no child, a child in a group A never left, or a
\* child whose group A kills when anything failed.
ASettleNoChild ==
    /\ Tail("A", "settle")
    /\ has["A"] # "made"
    /\ grp' = IF has["A"] = "none" THEN "moved" ELSE grp
    /\ shut' = shut \cup {"AW"}
    /\ Cleans("A", "work")
    /\ UNCHANGED <<proc, status, image, kid, chan, body, got, tried, has, rcpt, failed,
                   unk, proto, facts, outer>>

ASettleUnmoved ==
    /\ Tail("A", "settle")
    /\ has["A"] = "made" /\ grp # "moved"
    /\ KillGroup
    /\ UNCHANGED <<image, grp, wires, minds, facts, outer>>

ASettleChild ==
    /\ Tail("A", "settle")
    /\ has["A"] = "made" /\ grp = "moved"
    /\ IF "A" \in failed THEN KillGroup ELSE UNCHANGED <<proc, status, kid>>
    /\ shut' = shut \cup {"AW"}
    /\ Cleans("A", "wait")
    /\ UNCHANGED <<image, grp, chan, body, got, tried, has, rcpt, failed, unk, proto,
                   facts, outer>>

\* _wait_original on W.
AWaitsW ==
    /\ Tail("A", "wait")
    /\ \/ rcpt["W"] # "none" /\ UNCHANGED <<proc, rcpt, unk>>
       \/ rcpt["W"] = "none" /\ Reap("A") /\ UNCHANGED unk
       \/ /\ rcpt["W"] = "none" /\ "A" \in passed
          /\ unk' = unk \cup {"A"}
          /\ UNCHANGED <<proc, rcpt>>
    /\ Cleans("A", "drain")
    /\ UNCHANGED <<status, image, kid, grp, wires, body, got, tried, has, failed, proto,
                   facts, outer>>

ADrained ==
    /\ Tail("A", "drain")
    /\ Eof("WA") \/ "A" \in passed
    /\ Cleans("A", "work")
    /\ UNCHANGED <<world, wires, body, got, tried, has, rcpt, failed, unk, proto, facts, outer>>

\* _local_producers, the settlement record and WORK_DONE.
AProducers ==
    /\ grp = "moved"
    /\ has["A"] = "none" \/ (has["A"] = "made" /\ rcpt["W"] # "none" /\ Eof("WA"))

Receipt(st) == IF st = "killed" THEN "signal" ELSE st

AWorkDone ==
    /\ Tail("A", "work")
    /\ \E producer \in BOOLEAN :
         /\ producer => AProducers
         /\ ~producer => ~AProducers \/ "A" \in unk
         /\ work' = [run      |-> YesNo(Tried("A", "RUN")),
                     noChild  |-> YesNo(has["A"] = "none"),
                     wait     |-> Receipt(rcpt["W"]),
                     rejected |-> YesNo("REJECTED" \in got["A"]),
                     producer |-> YesNo(producer),
                     result   |-> YesNo(producer /\ "A" \notin proto
                                         /\ (Tried("A", "RUN") => "ARMED" \in got["A"]))]
         /\ IF producer /\ Alive("C") /\ ~Eof("CA") /\ "A" \notin passed
            THEN Sends("AC", "WORK_DONE") /\ Cleans("A", "group")
            ELSE Cleans("A", "close") /\ UNCHANGED chan
    /\ UNCHANGED <<world, shut, body, got, tried, has, rcpt, failed, unk, proto,
                   absent, seal, fence, relay, term, verdict, outer>>

\* _await_group_done: a STOP that crossed WORK_DONE is a failure and no
\* answer; only C's GROUP_DONE releases TERMINAL.
AGroup(t) ==
    /\ Tail("A", "group") /\ "A" \notin passed
    /\ Next1("CA", t)
    /\ CASE t = "STOP" ->
              Reads("CA", t) /\ Fails("A") /\ UNCHANGED <<got, tail>>
         [] t = "GROUP_DONE" ->
              /\ Passes("CA", t, "AC", "TERMINAL")
              /\ Hears("A", t)
              /\ Cleans("A", "close")
              /\ UNCHANGED failed
         [] OTHER ->
              Reads("CA", t) /\ Fails("A") /\ Cleans("A", "close") /\ UNCHANGED got
    /\ UNCHANGED <<world, shut, body, tried, has, rcpt, unk, proto, facts, outer>>

AGroupLost ==
    /\ Tail("A", "group")
    /\ Eof("CA") \/ "A" \in passed
    /\ Fails("A")
    /\ Cleans("A", "close")
    /\ UNCHANGED <<world, wires, body, got, tried, has, rcpt, unk, proto, facts, outer>>

\* Mutant: a failure that was settled is not reported.
ExitCode_IgnoresFailure(p, allowed) ==
    IF ~allowed \/ p \in unk \/ p \in passed THEN "UNKNOWN" ELSE "OK"

\* _terminal_code: an exit status that claims less than what is known.
ExitCode(p, allowed) ==
    IF ~allowed \/ p \in unk \/ p \in passed THEN "UNKNOWN"
    ELSE IF p \in failed THEN "FAILED" ELSE "OK"

AExits ==
    /\ Tail("A", "close")
    /\ Ends({"A"}, ExitCode("A", work.producer = "yes" /\ "GROUP_DONE" \in got["A"]))
    /\ UNCHANGED <<image, kid, grp, wires, minds, facts, outer>>

-----------------------------------------------------------------------------
(* C, the custodian.                                                       *)

CHello ==
    /\ At("C", "boot")
    /\ Sends("CO", "HELLO")
    /\ Goes("C", "config")
    /\ UNCHANGED <<world, shut, tail, got, tried, has, rcpt, failed, unk, proto, facts, outer>>

CConfig ==
    /\ At("C", "config")
    /\ Next1("OC", "CONFIG")
    /\ Reads("OC", "CONFIG")
    /\ Goes("C", "spawn")
    /\ UNCHANGED <<world, shut, tail, got, tried, has, rcpt, failed, unk, proto, facts, outer>>

CAdmitsAnchor ==
    /\ At("C", "hello")
    /\ Next1("AC", "HELLO")
    /\ Hears("C", "HELLO")
    /\ Passes("AC", "HELLO", "CA", "CONFIG")
    /\ Goes("C", "prepared")
    /\ UNCHANGED <<world, shut, tail, tried, has, rcpt, failed, unk, proto, facts, outer>>

CPrepared ==
    /\ At("C", "prepared")
    /\ Next1("AC", "PREPARED")
    /\ Hears("C", "PREPARED")
    /\ Passes("AC", "PREPARED", "CO", "PREPARED")
    /\ Goes("C", "create")
    /\ UNCHANGED <<world, shut, tail, tried, has, rcpt, failed, unk, proto, facts, outer>>

CReady ==
    /\ At("C", "ready")
    /\ Next1("AC", "READY")
    /\ Hears("C", "READY")
    /\ Passes("AC", "READY", "CO", "READY")
    /\ Goes("C", "run")
    /\ UNCHANGED <<world, shut, tail, tried, has, rcpt, failed, unk, proto, facts, outer>>

\* The body ends well only with A's settlement while it waits for the tool;
\* a settlement that comes earlier is a failure.
CWorkDone ==
    /\ InBody("C")
    /\ body["C"] \in {"prepared", "ready", "wait"}
    /\ Next1("AC", "WORK_DONE")
    /\ Reads("AC", "WORK_DONE")
    /\ Hears("C", "WORK_DONE")
    /\ IF body["C"] = "wait" THEN UNCHANGED failed ELSE Fails("C")
    /\ Cleans("C", "settle")
    /\ UNCHANGED <<world, shut, body, tried, has, rcpt, unk, proto, facts, outer>>

\* _anchor_frame: what the cleanup still takes from A, as data only.
CAdmits(t) ==
    /\ "HELLO" \in got["C"]
    /\ \/ t = "PREPARED" /\ body["C"] = "prepared" /\ {"PREPARED", "WORK_DONE"} \cap got["C"] = {}
       \/ t = "READY" /\ body["C"] = "ready" /\ {"READY", "WORK_DONE"} \cap got["C"] = {}
       \/ /\ t = "WORK_DONE" /\ "WORK_DONE" \notin got["C"]
          /\ tail["C"] # "terminal"
          /\ work.run = "yes" => Tried("C", "RUN")
       \/ t = "TERMINAL" /\ tail["C"] = "terminal" /\ "TERMINAL" \notin got["C"]

CFrame(t) ==
    /\ Alive("C") /\ tail["C"] \in Pumps["C"]
    /\ "C" \notin proto
    /\ Next1("AC", t)
    /\ Reads("AC", t)
    /\ \/ CAdmits(t) /\ Hears("C", t) /\ UNCHANGED <<tail, failed, proto>>
       \/ ~CAdmits(t) /\ Poisons("C") /\ UNCHANGED got
    /\ UNCHANGED <<world, shut, body, tried, has, rcpt, unk, facts, outer>>

\* _settle_producers: STOP to A, unless it has already settled or its
\* stream was withdrawn.
CSettle ==
    /\ Tail("C", "settle")
    /\ IF has["C"] # "made"
       THEN Cleans("C", "relay") /\ UNCHANGED chan
       ELSE /\ Cleans("C", "grace")
            /\ IF "WORK_DONE" \in got["C"] \/ "CA" \in shut
               THEN UNCHANGED chan ELSE Sends("CA", "STOP")
    /\ UNCHANGED <<world, shut, body, got, tried, has, rcpt, failed, unk, proto, facts, outer>>

\* Mutants: an anchor that has settled is taken for an empty group; and the
\* group is only probed.
CTerminates_TrustsSettlement ==
    /\ Tail("C", "grace")
    /\ IF "WORK_DONE" \in got["C"]
       THEN absent' = "yes" /\ UNCHANGED <<proc, status, kid>>
       ELSE absent' = YesNo(GroupEmpty) /\ KillGroup
    /\ Cleans("C", "probe")
    /\ UNCHANGED <<image, grp, wires, body, got, tried, has, rcpt, failed, unk, proto,
                   work, seal, fence, relay, term, verdict, outer>>

CTerminates_ProbesOnly ==
    /\ Tail("C", "grace")
    /\ absent' = YesNo(GroupEmpty)
    /\ Cleans("C", "probe")
    /\ UNCHANGED <<world, wires, body, got, tried, has, rcpt, failed, unk, proto,
                   work, seal, fence, relay, term, verdict, outer>>

\* After the grace, however it ended, C kills G, whose number its unreaped
\* child A still reserves.
CTerminates ==
    /\ Tail("C", "grace")
    /\ KillGroup
    /\ absent' = YesNo(GroupEmpty)
    /\ Cleans("C", "probe")
    /\ UNCHANGED <<image, grp, wires, body, got, tried, has, rcpt, failed, unk, proto,
                   work, seal, fence, relay, term, verdict, outer>>

CProbes ==
    /\ Tail("C", "probe")
    /\ \/ absent = "yes" /\ UNCHANGED absent
       \/ GroupEmpty /\ absent' = "yes"
       \/ "C" \in passed /\ UNCHANGED absent
    /\ Cleans("C", "confirm")
    /\ UNCHANGED <<world, wires, body, got, tried, has, rcpt, failed, unk, proto,
                   work, seal, fence, relay, term, verdict, outer>>

\* Only a settled A and an empty G earn GROUP_DONE; else A is killed.
CConfirms ==
    /\ Tail("C", "confirm")
    /\ IF /\ absent = "yes" /\ "WORK_DONE" \in got["C"] /\ work.producer = "yes"
          /\ "C" \notin proto /\ "CA" \notin shut /\ "C" \notin passed
       THEN Sends("CA", "GROUP_DONE") /\ Cleans("C", "terminal")
       ELSE Cleans("C", "kill") /\ UNCHANGED chan
    /\ UNCHANGED <<world, shut, body, got, tried, has, rcpt, failed, unk, proto, facts, outer>>

CTerminal ==
    /\ Tail("C", "terminal")
    /\ Eof("AC") \/ "C" \in passed \/ "C" \in proto
    /\ Cleans("C", "kill")
    /\ UNCHANGED <<world, wires, body, got, tried, has, rcpt, failed, unk, proto, facts, outer>>

CKillsAnchor ==
    /\ Tail("C", "kill")
    /\ IF "TERMINAL" \notin got["C"] /\ Alive("A")
       THEN Ends({"A"}, "killed") ELSE UNCHANGED <<proc, status>>
    /\ Cleans("C", "reap")
    /\ UNCHANGED <<image, kid, grp, wires, body, got, tried, has, rcpt, failed, unk, proto,
                   facts, outer>>

CReaps ==
    /\ Tail("C", "reap")
    /\ \/ Reap("C") /\ UNCHANGED unk
       \/ "C" \in passed /\ unk' = unk \cup {"C"} /\ UNCHANGED <<proc, rcpt>>
    /\ Cleans("C", "sources")
    /\ UNCHANGED <<status, image, kid, grp, wires, body, got, tried, has, failed, proto,
                   facts, outer>>

\* The tool's output has ended: nobody holds the other end any more.
SourcesEnded ==
    /\ ~Alive("A")
    /\ Alive("W") => image = "target" /\ "capture" \notin wants
    /\ kid = "running" => "capture" \notin wants

CProducers ==
    /\ rcpt["A"] \in {"OK", "FAILED"}
    /\ absent = "yes"
    /\ Eof("AC")
    /\ {"WORK_DONE", "TERMINAL"} \subseteq got["C"]
    /\ work.producer = "yes"
    /\ "C" \notin proto
    /\ SourcesEnded

\* seal_descendants, PRODUCERS_SEALED and the choice to publish the fence;
\* past the cutoff nothing is sent or published.
CSeals ==
    /\ Tail("C", "sources")
    /\ SourcesEnded \/ "C" \in passed
    /\ \/ /\ CProducers
          /\ seal' = "yes"
          /\ IF "C" \in passed
             THEN Fails("C") /\ Cleans("C", "relay") /\ UNCHANGED chan
             ELSE /\ Sends("CO", "SEALED")
                  /\ Cleans("C", IF "journal" \in wants THEN "create" ELSE "relay")
                  /\ UNCHANGED failed
       \/ /\ ~CProducers \/ "C" \in unk
          /\ Cleans("C", "relay")
          /\ UNCHANGED <<seal, chan, failed>>
    /\ UNCHANGED <<world, shut, body, got, tried, has, rcpt, unk, proto,
                   work, absent, fence, relay, term, verdict, outer>>

\* FenceWriter.publish: the pending name, the final link, the directory.
FenceStep == [create |-> "pending", link |-> "linked", sync |-> "synced"]
FenceNext == [create |-> "link", link |-> "sync", sync |-> "relay"]

CPublishes ==
    /\ Alive("C") /\ tail["C"] \in DOMAIN FenceStep
    /\ "C" \notin passed
    /\ fence' = FenceStep[tail["C"]]
    /\ Cleans("C", FenceNext[tail["C"]])
    /\ UNCHANGED <<world, wires, body, got, tried, has, rcpt, failed, unk, proto,
                   work, absent, seal, relay, term, verdict, outer>>

CPublishesLate ==
    /\ Alive("C") /\ tail["C"] \in DOMAIN FenceStep
    /\ "C" \in passed
    /\ Fails("C")
    /\ Cleans("C", "relay")
    /\ UNCHANGED <<world, wires, body, got, tried, has, rcpt, unk, proto, facts, outer>>

\* The effect of a failed operation is unknown; no later one is tried.
CPublishFails ==
    /\ Fault
    /\ Alive("C") /\ tail["C"] \in DOMAIN FenceStep
    /\ fence' \in {fence, FenceStep[tail["C"]]} \ {"synced"}
    /\ Fails("C")
    /\ unk' = unk \cup {"C"}
    /\ Cleans("C", "relay")
    /\ UNCHANGED <<world, wires, body, got, tried, has, rcpt, proto,
                   work, absent, seal, relay, term, verdict, wants, passed, kills>>

\* What the fence says of the command, for a later recovery.
FenceSays == IF Tried("C", "RUN") THEN "producer-settled" ELSE "never-dispatched"

CRelays ==
    /\ Tail("C", "relay")
    /\ \/ relay' = "full" /\ UNCHANGED <<failed, faults>>
       \/ /\ Fault \/ ("C" \in passed /\ UNCHANGED faults)
          /\ relay' = "cut"
          /\ Fails("C")
    /\ Cleans("C", "report")
    /\ UNCHANGED <<world, wires, body, got, tried, has, rcpt, unk, proto,
                   work, absent, seal, fence, term, verdict, wants, passed, kills>>

\* Mutant: a worker that ended by a signal is taken for one that rejected the tool.
NoTarget_SignalIsRejection ==
    IF seal = "no" THEN "none"
    ELSE IF work.noChild = "yes" THEN "NO_W_CREATION"
    ELSE IF work.run = "no" THEN "CLOSED_BEFORE_RUN"
    ELSE IF work.wait = "signal" /\ work.result = "yes" THEN "EXEC_REJECTED"
    ELSE "none"

NoTarget ==
    IF seal = "no" THEN "none"
    ELSE IF work.noChild = "yes" THEN "NO_W_CREATION"
    ELSE IF work.run = "no" THEN "CLOSED_BEFORE_RUN"
    ELSE IF work.rejected = "yes" /\ work.result = "yes" THEN "EXEC_REJECTED"
    ELSE "none"

CReports ==
    /\ Tail("C", "report")
    /\ LET valid == /\ seal = "yes" /\ work.result = "yes" /\ rcpt["A"] = "OK"
                    /\ relay = "full" /\ "C" \notin failed
       IN  /\ term' = [create   |-> YesNo(Tried("C", "CREATE")),
                       run      |-> YesNo(Tried("C", "RUN")),
                       noTarget |-> NoTarget,
                       wait     |-> IF "WORK_DONE" \in got["C"] THEN work.wait ELSE "none",
                       producer |-> seal,
                       result   |-> YesNo(valid),
                       fence    |-> YesNo(fence = "synced")]
           /\ IF valid /\ "C" \notin passed THEN UNCHANGED failed ELSE Fails("C")
    /\ IF "C" \in passed THEN UNCHANGED chan ELSE Sends("CO", "TERMINAL")
    /\ shut' = shut \cup {"CO"}
    /\ Cleans("C", "close")
    /\ UNCHANGED <<world, body, got, tried, has, rcpt, unk, proto,
                   work, absent, seal, fence, relay, verdict, outer>>

CExits ==
    /\ Tail("C", "close")
    /\ Ends({"C"}, ExitCode("C", seal = "yes"))
    /\ UNCHANGED <<image, kid, grp, wires, minds, facts, outer>>

-----------------------------------------------------------------------------
(* O, the caller's side: run_command and its engine.                       *)

OConfig ==
    /\ At("O", "hello")
    /\ Next1("CO", "HELLO")
    /\ Hears("O", "HELLO")
    /\ Passes("CO", "HELLO", "OC", "CONFIG")
    /\ Goes("O", "prepare")
    /\ UNCHANGED <<world, shut, tail, tried, has, rcpt, failed, unk, proto, facts, outer>>

\* PREPARED: the reservation, the journal's arm and the permit follow.
OPrepared ==
    /\ At("O", "prepare")
    /\ Next1("CO", "PREPARED")
    /\ Reads("CO", "PREPARED")
    /\ Hears("O", "PREPARED")
    /\ Goes("O", "prepared")
    /\ UNCHANGED <<world, shut, tail, tried, has, rcpt, failed, unk, proto, facts, outer>>

\* Mutant: every result is asked for a fence.
TerminalFits_WantsFence == term.result = "yes" => term.fence = "yes"

\* _terminal: what O refuses to believe of C's last record.
TerminalFits ==
    /\ term.create = "yes" => Tried("O", "CREATE") /\ "PREPARED" \in got["O"]
    /\ term.run = "yes" => term.create = "yes" /\ Tried("O", "RUN") /\ "READY" \in got["O"]
    /\ term.producer = "yes" =>
          "SEALED" \in got["O"] /\ (term.run = "yes" \/ term.noTarget # "none")
    /\ term.noTarget # "none" \/ term.fence = "yes" \/ term.result = "yes" => term.producer = "yes"
    /\ term.result = "yes" =>
          /\ term.wait # "none" /\ term.run = "yes" /\ "READY" \in got["O"]
          /\ "journal" \in wants => term.fence = "yes"
    /\ term.noTarget = "NO_W_CREATION" => term.wait = "none" /\ term.run = "no"
    /\ term.noTarget \in {"CLOSED_BEFORE_RUN", "EXEC_REJECTED"} => term.wait = "signal"
    /\ term.noTarget = "EXEC_REJECTED" => term.run = "yes"

OAdmits(t) ==
    \/ t = "HELLO" /\ body["O"] = "hello" /\ "HELLO" \notin got["O"]
    \/ t = "PREPARED" /\ body["O"] = "prepare" /\ "PREPARED" \notin got["O"]
    \/ t = "READY" /\ body["O"] = "ready" /\ {"READY", "SEALED"} \cap got["O"] = {}
    \/ t = "SEALED" /\ "HELLO" \in got["O"] /\ {"SEALED", "TERMINAL"} \cap got["O"] = {}
    \/ t = "TERMINAL" /\ "HELLO" \in got["O"] /\ "TERMINAL" \notin got["O"] /\ TerminalFits

\* _pump: in the body the last two frames only, in the cleanup all of them.
OFrame(t) ==
    /\ \/ InBody("O") /\ body["O"] \in HearsChild["O"] /\ t \in {"SEALED", "TERMINAL"}
       \/ Alive("O") /\ tail["O"] \in Pumps["O"]
    /\ "O" \notin proto
    /\ Next1("CO", t)
    /\ Reads("CO", t)
    /\ \/ OAdmits(t) /\ Hears("O", t) /\ UNCHANGED <<tail, failed, proto>>
       \/ ~OAdmits(t) /\ Poisons("O") /\ UNCHANGED got
    /\ UNCHANGED <<world, shut, body, tried, has, rcpt, unk, facts, outer>>

OWaited ==
    /\ At("O", "run")
    /\ "TERMINAL" \in got["O"] /\ Eof("CO")
    /\ Cleans("O", "settle")
    /\ UNCHANGED <<world, wires, body, got, tried, has, rcpt, failed, unk, proto, facts, outer>>

\* cleanup(): STOP unless C has reported or the stream was withdrawn, then
\* the end of the stream itself.
OSettle ==
    /\ Tail("O", "settle")
    /\ IF "TERMINAL" \in got["O"] \/ "OC" \in shut
       THEN UNCHANGED wires
       ELSE Sends("OC", "STOP") /\ shut' = shut \cup {"OC"}
    /\ Cleans("O", "drain")
    /\ UNCHANGED <<world, body, got, tried, has, rcpt, failed, unk, proto, facts, outer>>

ODrained ==
    /\ Tail("O", "drain")
    /\ Eof("CO") \/ "O" \in passed \/ has["O"] = "none"
    /\ Cleans("O", IF has["O"] = "made" THEN "wait" ELSE "publish")
    /\ UNCHANGED <<world, wires, body, got, tried, has, rcpt, failed, unk, proto, facts, outer>>

OWaitsC ==
    /\ Tail("O", "wait")
    /\ \/ Reap("O") /\ UNCHANGED unk
       \/ "O" \in passed /\ unk' = unk \cup {"O"} /\ UNCHANGED <<proc, rcpt>>
    /\ Cleans("O", "publish")
    /\ UNCHANGED <<status, image, kid, grp, wires, body, got, tried, has, failed, proto,
                   facts, outer>>

\* original_finality and publish: the one outcome of this command.
Finality ==
    /\ "O" \notin unk
    /\ \/ has["O"] = "none"
       \/ /\ has["O"] = "made"
          /\ rcpt["C"] \in {"OK", "FAILED"}
          /\ {"TERMINAL", "SEALED"} \subseteq got["O"]
          /\ term.producer = "yes"
          /\ "O" \notin proto
          /\ Eof("CO")
          /\ relay = "full"

Tag ==
    IF ~Finality THEN "none"
    ELSE IF has["O"] = "none" THEN "NO_W_CREATION" ELSE term.noTarget

Complete ==
    \/ /\ Finality /\ Tag # "none"
       /\ has["O"] = "made" /\ "journal" \in wants => term.fence = "yes"
    \/ /\ Finality /\ has["O"] = "made"
       /\ rcpt["C"] = "OK" /\ term.result = "yes"

OPublishes ==
    /\ Tail("O", "publish")
    /\ verdict' = [final      |-> YesNo(Finality),
                   tag        |-> Tag,
                   dispatched |-> YesNo(Tag = "none" /\ Tried("O", "RUN")),
                   wait       |-> IF Finality /\ has["O"] = "made" THEN term.wait ELSE "none",
                   complete   |-> YesNo(Complete)]
    /\ Cleans("O", "done")
    /\ UNCHANGED <<world, wires, body, got, tried, has, rcpt, failed, unk, proto,
                   work, absent, seal, fence, relay, term, outer>>

-----------------------------------------------------------------------------

Init ==
    /\ wants \in Requests
    /\ proc = [p \in Roles |-> IF p = "O" THEN "alive" ELSE "none"]
    /\ status = [p \in Roles |-> "none"]
    /\ image = "helper" /\ kid = "none" /\ grp = "start"
    /\ chan = [l \in Links |-> {}] /\ shut = {}
    /\ body = [p \in Roles |-> IF p = "O" THEN "start" ELSE "none"]
    /\ tail = [p \in Roles |-> "no"]
    /\ got = [p \in Owners |-> {}]
    /\ tried = {}
    /\ has = [p \in Owners |-> "none"]
    /\ rcpt = [p \in {"C", "A", "W"} |-> "none"]
    /\ failed = {} /\ unk = {} /\ proto = {} /\ passed = {}
    /\ work = NoWork /\ term = NoTerm /\ verdict = NoVerdict
    /\ absent = "no" /\ seal = "no" /\ fence = "none" /\ relay = "none"
    /\ kills = 0 /\ faults = 0

Worker == WHello \/ WReady \/ WArm \/ WExec \/ WReject \/ WEnds(FALSE)
Tool   == ToolForks \/ ToolEnds \/ KidEnds
Anchor ==
    \/ AHello \/ APrepared \/ AMoves \/ AReady \/ AReaps \/ AWaited
    \/ ASettleNoChild \/ ASettleUnmoved \/ ASettleChild \/ AWaitsW \/ ADrained
    \/ AWorkDone \/ AGroupLost \/ AExits
    \/ \E t \in Tags : AFrame(t) \/ AGroup(t)
Custodian ==
    \/ CHello \/ CConfig \/ CAdmitsAnchor \/ CPrepared \/ CReady \/ CWorkDone
    \/ CSettle \/ CTerminates \/ CProbes \/ CConfirms \/ CTerminal \/ CKillsAnchor
    \/ CReaps \/ CSeals \/ CPublishes \/ CPublishesLate \/ CRelays \/ CReports \/ CExits
    \/ \E t \in Tags : CFrame(t)
Outer ==
    \/ OConfig \/ OPrepared \/ OWaited \/ OSettle \/ ODrained \/ OWaitsC \/ OPublishes
    \/ \E t \in Tags : OFrame(t)
Shared(p) ==
    \/ Spawn(p) \/ Grant(p) \/ Unwind(p) \/ Stop(p) \/ DrainPoisoned(p)
Trouble(p) ==
    \/ SpawnLost(p) \/ GrantLost(p) \/ BodyFault(p) \/ CleanupFault(p)

\* All four are over: nothing is left to do.
Finished ==
    /\ proc["O"] = "gone" \/ tail["O"] = "done"
    /\ \A p \in {"C", "A", "W"} : ~Alive(p)
    /\ kid # "running"
    /\ UNCHANGED vars

Next ==
    \/ Worker \/ Tool \/ Anchor \/ Custodian \/ Outer
    \/ \E p \in Owners : Shared(p) \/ Trouble(p) \/ Cutoff(p)
    \/ \E p \in Roles : Kill(p)
    \/ Deadline \/ WEnds(TRUE) \/ CPublishFails
    \/ Finished

Fairness ==
    /\ WF_vars(Worker)
    /\ WF_vars(Anchor) /\ WF_vars(Custodian) /\ WF_vars(Outer)
    /\ \A p \in Owners : WF_vars(Shared(p)) /\ WF_vars(Cutoff(p))
    /\ WF_vars(Deadline)

Spec == Init /\ [][Next]_vars
FairSpec == Spec /\ Fairness

-----------------------------------------------------------------------------
Lives  == {"none", "alive", "zombie", "gone"}
Ways   == {"none", "OK", "FAILED", "UNKNOWN", "exit", "signal", "killed"}
Bodies == {"none", "start", "boot", "config", "spawn", "hello", "prepare", "prepared",
           "create", "ready", "run", "wait", "armed", "rejected", "target"}
Tails  == {"no", "settle", "drain", "wait", "publish", "done", "grace", "probe", "confirm",
           "terminal", "kill", "reap", "sources", "create", "link", "sync", "relay",
           "report", "close", "work", "group"}
Answers == {"none", "yes", "no"}
Kinds  == {"none", "NO_W_CREATION", "CLOSED_BEFORE_RUN", "EXEC_REJECTED"}

\* The type of every variable.
TypeOK ==
    /\ wants \in Requests
    /\ proc \in [Roles -> Lives] /\ status \in [Roles -> Ways]
    /\ image \in {"helper", "target"} /\ kid \in {"none", "running", "gone"}
    /\ grp \in {"start", "G", "moved"}
    /\ chan \in [Links -> SUBSET Tags] /\ shut \subseteq Links
    /\ body \in [Roles -> Bodies] /\ tail \in [Roles -> Tails]
    /\ got \in [Owners -> SUBSET Tags] /\ tried \subseteq Owners \X {"CREATE", "RUN"}
    /\ has \in [Owners -> {"none", "made", "lost"}]
    /\ rcpt \in [{"C", "A", "W"} -> Ways]
    /\ failed \subseteq Owners /\ unk \subseteq Owners
    /\ proto \subseteq Owners /\ passed \subseteq Limits
    /\ work \in [run : Answers, noChild : Answers, wait : Ways, rejected : Answers,
                 producer : Answers, result : Answers]
    /\ term \in [create : Answers, run : Answers, noTarget : Kinds, wait : Ways,
                 producer : Answers, result : Answers, fence : Answers]
    /\ verdict \in [final : Answers, tag : Kinds, dispatched : Answers, wait : Ways,
                    complete : Answers]
    /\ absent \in {"yes", "no"} /\ seal \in {"yes", "no"}
    /\ fence \in {"none", "pending", "linked", "synced"}
    /\ relay \in {"none", "full", "cut"}
    /\ kills \in 0..MaxKills /\ faults \in 0..MaxFaults

Over(p) == proc[p] \in {"none", "gone"}
ToolRuns == (Alive("W") /\ image = "target") \/ kid = "running"

\* An outcome with finality is published only once the custodian, the
\* anchor, the worker and every descendant in its group are gone and reaped.
ContainedIsTrue ==
    verdict.final = "yes" => Over("C") /\ Over("A") /\ Over("W") /\ kid # "running"

\* A no-target proof is never published of a command whose tool ran, nor is
\* a tool that ran, or runs later, reported as not dispatched.
NoTargetIsTrue ==
    verdict # NoVerdict /\ image = "target" => verdict.tag = "none" /\ verdict.dispatched = "yes"

\* The linked fence: its producers are over, and never-dispatched is said
\* only of a tool that never ran.
FenceIsTrue ==
    fence \in {"linked", "synced"} =>
        /\ Over("A") /\ Over("W") /\ kid # "running"
        /\ FenceSays = "never-dispatched" => image = "helper"

\* While the tool or its descendant runs, somebody holds the account lock:
\* the caller until a final outcome, or a helper with the loan.
HoldCovers ==
    ToolRuns => \/ Alive("O") /\ verdict.final # "yes"
                \/ Alive("C") \/ Alive("A")

\* A complete result without a no-target proof is the tool's own: a normal
\* exit is the exit of the tool, and no termination is the owners' kill.
ResultIsTrue ==
    verdict.complete = "yes" /\ verdict.tag = "none" =>
        /\ verdict.wait = "exit" => image = "target" /\ status["W"] = "exit"
        /\ verdict.wait = "signal" => status["W"] = "signal"

\* With no kill, no failed call and no time limit passed, the protocol never
\* fails by itself.
QuietRunCompletes ==
    verdict # NoVerdict /\ kills = 0 /\ faults = 0 /\ passed = {} =>
        verdict.final = "yes" /\ verdict.complete = "yes" /\ "O" \notin failed

\* The caller gets its outcome unless it dies.
OutcomeComes == <>(verdict # NoVerdict \/ proc["O"] = "gone")

\* The caller's death ends the tool and its descendants.
OrphansEnd == (proc["O"] = "gone") ~> ~ToolRuns

\* A helper killed from outside never leaves a living caller without its
\* outcome, however long the tool would run.
DeathReported ==
    \A p \in {"C", "A"} :
        (status[p] = "signal") ~> (verdict # NoVerdict \/ proc["O"] = "gone")

\* The command keeps the promise of OwnedCommand.
Promise == INSTANCE OwnedCommand WITH
    tool   <- IF image = "helper" THEN "idle" ELSE IF ToolRuns THEN "running" ELSE "ended",
    report <- IF verdict = NoVerdict THEN "none"
              ELSE IF verdict.final = "no" THEN "unknown"
              ELSE IF verdict.tag # "none" THEN "no-target" ELSE "contained"
KeepsPromise == Promise!Spec
=============================================================================
