---------------------------- MODULE ProfileProcess ----------------------------
(***************************************************************************)
(* One capture of an authenticated provisioning profile                    *)
(* (_profile_process.py).  The caller O spawns the custodian C, C spawns   *)
(* the keeper K, and K, alone in the group G it leads, spawns the          *)
(* validator V there and then moves back to C's group.  G's number stays   *)
(* reserved as long as C has not waited for K.  The work comes back as a   *)
(* STATUS from K, a payload and a FINAL record from C, and an exit code of *)
(* each; O accepts the bytes only if all of them agree, and in any case    *)
(* publishes whether a producer may be left.                               *)
(*                                                                         *)
(* Left out: numbers of processes and descriptors, the bytes of frames and *)
(* payload.  A frame is queued and written in one step; the alternatives   *)
(* of that step are what may come between (Retires, Loses).                 *)
(***************************************************************************)
EXTENDS Naturals

CONSTANTS
    Limits,      \* the time limits that may pass, from {"run", "capture", "O", "C", "K"}
    MaxEvents    \* how many kills, signals, failed calls and Ctrl-Cs may happen

ASSUME ProfileAssumption ==
    /\ Limits \subseteq {"run", "capture", "O", "C", "K"}
    /\ MaxEvents \in Nat

Roles  == {"O", "C", "K", "V"}
Owners == {"O", "C", "K"}
Child  == [O |-> "C", C |-> "K", K |-> "V"]
Parent == [C |-> "O", K |-> "C", V |-> "K"]

Edges  == {"oc", "co", "ck", "kc"}
Writer == [oc |-> "O", co |-> "C", ck |-> "C", kc |-> "K"]
Reader == [oc |-> "C", co |-> "O", ck |-> "K", kc |-> "C"]
Down   == [O |-> "oc", C |-> "ck"]
Up     == [C |-> "co", K |-> "kc"]

\* The order in which any one pipe carries its frames: each at most once.
Rank == [CONFIG |-> 1, HELLO |-> 1, ADMIT |-> 2, RESERVED |-> 2, RUN |-> 3, MOVED |-> 3,
         READY |-> 3, COMMIT |-> 4, STATUS |-> 4, CANCEL |-> 5, GROUP_RETIRED |-> 6,
         RELEASE |-> 7, QUIESCING |-> 8, FINAL |-> 9, RELEASED |-> 9]
Tags == DOMAIN Rank

VARIABLES
    proc,      \* role -> "none", "alive", "zombie" or "gone"
    status,    \* role -> "none", "ok" (0), "bad", "unknown" (a helper's 1) or "signal"
    kid,       \* whether V's openssl runs in G (from V's start on)
    grp,       \* where K is: "start" (C's group), "G" or "moved" (back)
    chan,      \* edge -> the frames written and not yet read
    torn,      \* edges that end in a part of a frame
    shut,      \* edges whose writer closed its end while it lives
    deaf,      \* edges whose reader closed its end while it lives
    pc,        \* owner -> the stage it has reached
    has,       \* owner -> its creator: "none", "native", "made", "empty" or "lost"
    got,       \* <<edge, frame>> accepted, and <<edge, "EOF">>
    tried,     \* <<edge, frame>> whose write was attempted
    lost,      \* those of them whose write failed
    rcpt,      \* child -> the wait status its parent consumed, or "none"
    fail,      \* owner -> its primary error: "none", "parent" (C's CANCEL) or "own"
    unk,       \* owners whose cleanup is unknown
    groupC,    \* C's reservation of G: "none", "open", "absent" or "left"
    groupK,    \* K's view of G: "open", "absent" or "left"
    payload,   \* "none", "cut" or "full"
    paid,      \* whether C has closed its end of the payload pipe
    stilled,   \* whether C has proved that O writes no more
    record,    \* what K reports of V: "none", "not_attempted", "reaped" or "unknown"
    final,     \* C's FINAL record, or NoFinal
    verdict,   \* the CaptureFinality and the result of O
    passed,    \* the deadlines and cleanup cutoffs that passed
    stop,      \* whether O's guard has been cancelled
    events

world == <<proc, status, kid, grp>>
wires == <<chan, torn, shut, deaf, tried, lost>>
minds == <<pc, has, got, rcpt, fail, unk>>
facts == <<groupC, groupK, payload, paid, stilled, record, final, verdict>>
outer == <<passed, stop, events>>
vars  == <<world, wires, minds, facts, outer>>

NoFinal   == [outcome |-> "none", cleanup |-> "none", keeper |-> "none",
              validator |-> "none", group |-> "none"]
NoVerdict == [state |-> "ACTIVE", settled |-> FALSE, dispatch |-> "UNKNOWN", result |-> "none"]

-----------------------------------------------------------------------------
(* Processes, groups and pipes as the system calls see them.               *)

Alive(p) == proc[p] = "alive"
Dead(p)  == proc[p] \in {"zombie", "gone"}
At(p, stages) == Alive(p) /\ pc[p] \in stages
Goes(p, stage) == pc' = [pc EXCEPT ![p] = stage]
Event == events < MaxEvents /\ events' = events + 1

\* What becomes of every process when those of P die: a dead child of a
\* live parent waits to be reaped; init reaps the children of the dead.
Fall(P) ==
    LET kept(p) == p # "O" /\ Parent[p] \notin P /\ Alive(Parent[p])
    IN  [p \in Roles |-> IF p \in P \/ proc[p] = "zombie"
                         THEN IF kept(p) THEN "zombie" ELSE "gone"
                         ELSE proc[p]]

Ends(P, how) ==
    /\ proc' = Fall(P)
    /\ status' = [p \in Roles |-> IF p \in P THEN how ELSE status[p]]

\* killpg(G, SIGKILL), and killpg(G, 0) that finds neither a live member of
\* G nor an unreaped one.
KillGroup ==
    /\ Ends({p \in {"K", "V"} : Alive(p) /\ (p = "K" => grp = "G")}, "signal")
    /\ kid' = FALSE
GroupEmpty ==
    /\ proc["V"] \in {"none", "gone"}
    /\ ~kid
    /\ grp # "G" \/ proc["K"] \in {"none", "gone"}

\* A creator that has not come back still holds copies of its child's ends.
Eof(e) ==
    /\ chan[e] = {}
    /\ e \in shut \/ Dead(Writer[e]) \/ proc[Writer[e]] = "none"
    /\ e = "co" => has["O"] # "native"
    /\ e = "kc" => has["C"] # "native"
Deaf(e) == e \in deaf \/ Dead(Reader[e])
Ended(e) == <<e, "EOF">> \in got
PayloadEnds == (paid \/ Dead("C") \/ proc["C"] = "none") /\ has["O"] # "native"

Heard(e, t) == <<e, t>> \in got
Sent(e, t)  == <<e, t>> \in tried \ lost
Broken(e)   == \E t \in Tags : <<e, t>> \in lost
Next1(e, t) == t \in chan[e] /\ \A u \in chan[e] : Rank[t] <= Rank[u]

\* The child of p as its parent accounts for it.
Account(p) ==
    CASE rcpt[Child[p]] # "none" -> "reaped"
      [] has[p] = "none" -> "not_attempted"
      [] OTHER -> "unknown"

-----------------------------------------------------------------------------
(* _Context: the first error, what check() finds, the cleanup cutoffs.     *)

Over(p) == p \in passed
Time(p) == IF p = "O" THEN "capture" ELSE "run"
ParentLost(p) == p # "O" /\ ~Alive(Parent[p])
Troubled(p) ==
    \/ fail[p] # "none"
    \/ Time(p) \in passed
    \/ ParentLost(p)
    \/ p = "O" /\ stop

\* The cutoff of a write: that of the first failure, or of the work.
Late(p) == Over(p) \/ (fail[p] = "none" /\ Time(p) \in passed)

Fails(P) == fail' = [p \in Owners |-> IF p \in P THEN "own" ELSE fail[p]]
Records(p) == Fails({p})
\* A check that raises: the primary error itself, or a new one.
Checked(p) == Fails({q \in {p} : fail[q] = "none"})
Unknown(p) == unk' = unk \cup {p} /\ Records(p)

\* The stages of the work, before the cleanup.
Body == [O |-> {"spawn", "config", "hello", "reserved", "final", "drain"},
         C |-> {"config", "spawn", "configure", "hello", "reserve", "run", "grant", "status",
                "forward", "payload", "commit"},
         K |-> {"config", "spawn", "move", "wait"}]
InBody(p) == Alive(p) /\ pc[p] \in Body[p]

\* _Channel.flush of one frame: it is written; the check before the write
\* refuses it and retires the writer; or the write fails, and how much of
\* the frame arrives is unknown.
Puts(e, t) ==
    /\ e \notin shut /\ ~Deaf(e)
    /\ chan' = [chan EXCEPT ![e] = @ \cup {t}]
    /\ tried' = tried \cup {<<e, t>>}
    /\ UNCHANGED <<torn, shut, lost>>

Retires(e) ==
    /\ shut' = shut \cup {e}
    /\ IF pc[Writer[e]] \in Body[Writer[e]] \cup {"boot"} THEN Checked(Writer[e]) /\ UNCHANGED unk ELSE Unknown(Writer[e])
    /\ UNCHANGED <<chan, torn, tried, lost, events>>

Loses(e, t) ==
    /\ e \notin shut
    /\ Unknown(Writer[e])
    /\ shut' = shut \cup {e}
    /\ tried' = tried \cup {<<e, t>>}
    /\ lost' = lost \cup {<<e, t>>}
    /\ \/ Deaf(e) /\ UNCHANGED <<chan, torn, events>>
       \/ /\ Event
          /\ \/ UNCHANGED <<chan, torn>>
             \/ chan' = [chan EXCEPT ![e] = @ \cup {t}] /\ UNCHANGED torn
             \/ torn' = torn \cup {e} /\ UNCHANGED chan

\* A frame that only time and a closed writer withhold; and one that is a
\* grant or a promise, which every failure before its write withholds.
Writes(e, t) ==
    /\ \/ ~Late(Writer[e]) /\ Puts(e, t) /\ UNCHANGED <<fail, unk, events>>
       \/ (Late(Writer[e]) \/ e \in shut) /\ Retires(e)
       \/ Loses(e, t)
    /\ UNCHANGED deaf
Grants(e, t) ==
    /\ \/ ~Troubled(Writer[e]) /\ Puts(e, t) /\ UNCHANGED <<fail, unk, events>>
       \/ (Troubled(Writer[e]) \/ e \in shut) /\ Retires(e)
       \/ Loses(e, t)
    /\ UNCHANGED deaf

-----------------------------------------------------------------------------
(* Stages: a body does the work, the cleanup settles it.                   *)

AfterBody(p) ==
    CASE p = "O" -> "cancel"
      [] p = "C" /\ pc["C"] \in {"payload", "commit"} -> "quiesce"
      [] OTHER -> "settle"
\* The stages that pump the pipe from the parent, and from the child.
HearsParent ==
    [C |-> {"config", "spawn", "hello", "run", "status", "settle", "name", "group", "release",
            "released", "reap", "keof", "commit", "quiet"},
     K |-> {"config", "spawn", "wait", "settle", "hold", "fallback", "expired", "lastwait"}]
HearsChild ==
    [O |-> {"hello", "reserved", "final", "drain", "cancel", "settle", "wait", "eof"},
     C |-> {"hello", "run", "status", "name", "group", "release", "released", "reap", "keof"}]

\* A body that fails goes on with the cleanup; the cleanup itself records
\* the failure as one of its own.
Raises(p) ==
    IF pc[p] \in Body[p]
    THEN Checked(p) /\ Goes(p, AfterBody(p)) /\ UNCHANGED unk
    ELSE Unknown(p) /\ UNCHANGED pc

Unwind(p) ==
    /\ InBody(p)
    /\ Troubled(p)
    /\ Raises(p)
    /\ UNCHANGED <<world, wires, has, got, rcpt, facts, outer>>

\* Mutant: the end of O's frames counts as the loss of O even after QUIESCING.
ParentEof_Lost(p) ==
    LET e == Down[Parent[p]]
    IN  /\ At(p, HearsParent[p])
        /\ Eof(e) /\ ~Ended(e)
        /\ got' = got \cup {<<e, "EOF">>}
        /\ Records(p)
        /\ unk' = IF e \in torn /\ ~InBody(p) THEN unk \cup {p} ELSE unk
        /\ UNCHANGED <<world, wires, pc, has, rcpt, facts, outer>>

\* The end of the pipe from the parent; a part of a frame in front of it is
\* an error of its own.
ParentEof(p) ==
    LET e == Down[Parent[p]]
    IN  /\ At(p, HearsParent[p])
        /\ Eof(e) /\ ~Ended(e)
        /\ got' = got \cup {<<e, "EOF">>}
        /\ IF p = "C" /\ pc["C"] = "quiet" /\ e \notin torn
           THEN UNCHANGED <<fail, unk>>
           ELSE /\ Records(p)
                /\ unk' = IF e \in torn /\ ~InBody(p) THEN unk \cup {p} ELSE unk
        /\ UNCHANGED <<world, wires, pc, has, rcpt, facts, outer>>

LastWord == [O |-> "FINAL", C |-> "RELEASED"]
ChildEof(p) ==
    LET e == Up[Child[p]]
    IN  /\ At(p, HearsChild[p])
        /\ has[p] = "made"
        /\ Eof(e) /\ ~Ended(e)
        /\ got' = got \cup {<<e, "EOF">>}
        /\ IF Heard(e, LastWord[p]) THEN UNCHANGED <<fail, unk>> ELSE Unknown(p)
        /\ UNCHANGED <<world, wires, pc, has, rcpt, facts, outer>>

-----------------------------------------------------------------------------
(* What happens to a process: a failed call, a signal, a kill, time.       *)

BodyFault(p) ==
    /\ Event
    /\ InBody(p)
    /\ Records(p)
    /\ Goes(p, AfterBody(p))
    /\ UNCHANGED <<world, wires, has, got, rcpt, unk, facts, passed, stop>>

\* A close, a wait or a restored handler whose result stays unknown; at the
\* exit, a signal that revokes the code already offered.
CleanupFault(p) ==
    /\ Event
    /\ Alive(p) /\ pc[p] \notin Body[p] \cup {"boot", "accept", "done"}
    /\ Unknown(p)
    /\ UNCHANGED <<world, wires, pc, has, got, rcpt, facts, passed, stop>>

\* helper_signal only latches: the next check or the report sees it (in the
\* work it is a BodyFault, as the Ctrl-C that cancels O's guard is).
Signal(p) ==
    /\ Event
    /\ p # "O" /\ Alive(p) /\ pc[p] \notin Body[p] \cup {"boot", "exit"}
    /\ Records(p)
    /\ UNCHANGED <<world, wires, pc, has, got, rcpt, unk, facts, passed, stop>>

Interrupt ==
    /\ Event
    /\ Alive("O") /\ ~stop /\ pc["O"] \notin Body["O"] \cup {"done"}
    /\ stop' = TRUE
    /\ UNCHANGED <<world, wires, minds, facts, passed>>

Kill(p) ==
    /\ Event
    /\ Alive(p)
    /\ Ends({p}, "signal")
    /\ UNCHANGED <<kid, grp, wires, minds, facts, passed, stop>>

\* Time is an event as well, but for the keeper that only waits for it.
Deadline(t) ==
    /\ Event
    /\ t \in Limits \ passed
    /\ pc["O"] # "done"
    /\ passed' = passed \cup {"run", t}
    /\ UNCHANGED <<world, wires, minds, facts, stop>>

Waiting == [O |-> {"settle", "wait", "eof"},
            C |-> {"settle", "name", "group", "reap", "keof", "quiet"},
            K |-> {"settle", "hold", "fallback", "expired", "lastwait"}]
Cutoff(p) ==
    /\ p \in Limits \ passed
    /\ At(p, Waiting[p])
    /\ IF pc[p] = "hold" /\ fail[p] # "none" THEN UNCHANGED events ELSE Event
    /\ passed' = passed \cup {p}
    /\ UNCHANGED <<world, wires, minds, facts, stop>>

-----------------------------------------------------------------------------
(* TaskSlot and _spawn: one creator thread makes one native call.  Its     *)
(* owner may give up while the call is under way.                          *)

SpawnCall(p) ==
    /\ At(p, {"spawn"})
    /\ has[p] = "none"
    /\ ~Troubled(p)
    /\ has' = [has EXCEPT ![p] = "native"]
    /\ UNCHANGED <<world, wires, pc, got, rcpt, fail, unk, facts, outer>>

SpawnReturns(p) ==
    /\ Alive(p)
    /\ has[p] = "native"
    /\ proc' = [proc EXCEPT ![Child[p]] = "alive"]
    /\ has' = [has EXCEPT ![p] = "made"]
    /\ kid' = (p = "K")
    /\ UNCHANGED <<status, grp, wires, pc, got, rcpt, fail, unk, facts, outer>>

\* The call fails, or its result is lost with or without a child.
SpawnFails(p) ==
    /\ Event
    /\ Alive(p)
    /\ has[p] = "native"
    /\ \/ has' = [has EXCEPT ![p] = "empty"] /\ Records(p) /\ UNCHANGED <<proc, kid, unk>>
       \/ /\ has' = [has EXCEPT ![p] = "lost"]
          /\ Unknown(p)
          /\ \/ proc' = [proc EXCEPT ![Child[p]] = "alive"] /\ kid' = (p = "K")
             \/ UNCHANGED <<proc, kid>>
    /\ UNCHANGED <<status, grp, wires, pc, got, rcpt, facts, passed, stop>>

AfterSpawn == [O |-> "config", C |-> "configure", K |-> "move"]
Spawned(p) ==
    /\ At(p, {"spawn"})
    /\ has[p] = "made"
    /\ ~Troubled(p)
    /\ Goes(p, AfterSpawn[p])
    /\ UNCHANGED <<world, wires, has, got, rcpt, fail, unk, facts, outer>>

\* _settle_tasks: join the creator before the cutoff.
Joined(p) == has[p] # "native" \/ Over(p)
SettleUnk(p) == IF has[p] \in {"native", "lost"} THEN Unknown(p) ELSE UNCHANGED <<fail, unk>>

\* poll_wait of the original child.
Reap(p) ==
    /\ has[p] = "made"
    /\ proc[Child[p]] = "zombie"
    /\ rcpt' = [rcpt EXCEPT ![Child[p]] = status[Child[p]]]
    /\ proc' = [proc EXCEPT ![Child[p]] = "gone"]

-----------------------------------------------------------------------------
(* V: openssl, then the content file, then its exit (ios_profile_auth).    *)

KidEnds ==
    /\ kid
    /\ kid' = FALSE
    /\ UNCHANGED <<proc, status, grp, wires, minds, facts, outer>>

VEnds(how) ==
    /\ Alive("V")
    /\ ~kid
    /\ Ends({"V"}, how)
    /\ UNCHANGED <<kid, grp, wires, minds, facts, outer>>

-----------------------------------------------------------------------------
(* K, the keeper.                                                          *)

\* helper_main: a helper that has no owner object yet just exits with 1.
BootFails(p) ==
    /\ At(p, {"boot"})
    /\ \/ (ParentLost(p) \/ "run" \in passed) /\ UNCHANGED events
       \/ Event
    /\ Ends({p}, "unknown")
    /\ UNCHANGED <<kid, grp, wires, minds, facts, passed, stop>>

Boot(p) ==
    /\ At(p, {"boot"})
    /\ ~ParentLost(p)
    /\ grp' = IF p = "K" THEN "G" ELSE grp
    /\ Writes(Up[p], "HELLO")
    /\ Goes(p, "config")
    /\ UNCHANGED <<proc, status, kid, has, got, rcpt, facts, passed, stop>>

\* The frames of a parent, in whatever stage they are read.
Takes(e, t) ==
    /\ At(Reader[e], HearsParent[Reader[e]])
    /\ Next1(e, t)
    /\ chan' = [chan EXCEPT ![e] = @ \ {t}]
    /\ UNCHANGED <<torn, shut, deaf, tried, lost>>
Accepts(e, t) == Takes(e, t) /\ got' = got \cup {<<e, t>>}

TakesConfig(p) ==
    /\ Accepts(Down[Parent[p]], "CONFIG")
    /\ UNCHANGED <<world, pc, has, rcpt, fail, unk, facts, outer>>

TakesCancel(p) ==
    /\ Accepts(Down[Parent[p]], "CANCEL")
    /\ fail' = [fail EXCEPT ![p] = IF @ # "none" THEN @ ELSE IF p = "K" THEN "parent" ELSE "own"]
    /\ UNCHANGED <<world, pc, has, rcpt, unk, facts, outer>>

\* A grant is taken in its one stage and by a healthy helper.
Grant == [oc |-> [config |-> "ADMIT", run |-> "RUN", commit |-> "COMMIT"],
          ck |-> [config |-> "RUN"]]
Granted == [oc |-> [config |-> "spawn", run |-> "grant", commit |-> "quiesce"],
            ck |-> [config |-> "spawn"]]
Welcome(p, t) ==
    LET e == Down[Parent[p]]
    IN  /\ pc[p] \in DOMAIN Grant[e]
        /\ Grant[e][pc[p]] = t
        /\ Heard(e, "CONFIG")
        /\ ~Troubled(p)

TakesGrant(p, t) ==
    LET e == Down[Parent[p]]
    IN  /\ Welcome(p, t)
        /\ Accepts(e, t)
        /\ Goes(p, Granted[e][pc[p]])
        /\ UNCHANGED <<world, has, rcpt, fail, unk, facts, outer>>

RefusesGrant(p, t) ==
    LET e == Down[Parent[p]]
    IN  /\ ~Welcome(p, t)
        /\ Takes(e, t)
        /\ IF pc[p] = "quiet" THEN UNCHANGED <<pc, fail, unk>> ELSE Raises(p)
        /\ UNCHANGED <<world, has, got, rcpt, facts, outer>>

\* C's notice that G is retired, once, and its release after that.
KTakesGroupRetired ==
    LET agrees == groupK = "absent" /\ groupC = "absent" /\ "K" \notin unk
    IN  /\ Takes("ck", "GROUP_RETIRED")
        /\ IF groupK = "open" \/ agrees
           THEN /\ got' = got \cup {<<"ck", "GROUP_RETIRED">>}
                /\ groupK' = IF groupK = "open" THEN groupC ELSE groupK
                /\ IF groupK' = "left" THEN Unknown("K") ELSE UNCHANGED <<fail, unk>>
                /\ UNCHANGED pc
           ELSE Raises("K") /\ UNCHANGED <<got, groupK>>
        /\ UNCHANGED <<world, has, rcpt, groupC, payload, paid, stilled, record, final, verdict, outer>>

KTakesRelease ==
    /\ Takes("ck", "RELEASE")
    /\ IF Heard("ck", "GROUP_RETIRED")
       THEN got' = got \cup {<<"ck", "RELEASE">>} /\ UNCHANGED <<pc, fail, unk>>
       ELSE Raises("K") /\ UNCHANGED got
    /\ UNCHANGED <<world, has, rcpt, facts, outer>>

\* move_out(positive): V was made in G, so now K may leave it.  A check
\* between the move and MOVED leaves K moved and C uninformed.
KMoves ==
    /\ At("K", {"move"})
    /\ ~Troubled("K")
    /\ grp' = "moved"
    /\ Grants("kc", "MOVED")
    /\ Goes("K", "wait")
    /\ UNCHANGED <<proc, status, kid, has, got, rcpt, facts, passed, stop>>

KMovesOnly ==
    /\ Event
    /\ At("K", {"move"})
    /\ grp' = "moved"
    /\ Records("K")
    /\ Goes("K", "settle")
    /\ UNCHANGED <<proc, status, kid, wires, has, got, rcpt, unk, facts, passed, stop>>

\* _wait_child on V, as work or as cleanup.
KReaps ==
    /\ At("K", {"wait", "hold", "fallback", "expired", "lastwait"})
    /\ Reap("K")
    /\ UNCHANGED <<status, kid, grp, wires, pc, has, got, fail, unk, facts, outer>>

\* A late receipt accounts for cleanup, never for a STATUS.
KReports ==
    /\ At("K", {"wait"})
    /\ rcpt["V"] # "none"
    /\ ~Troubled("K")
    /\ Writes("kc", "STATUS")
    /\ Goes("K", "settle")
    /\ UNCHANGED <<world, has, got, rcpt, facts, passed, stop>>

\* move_out(not positive): V is known or was never attempted, and C lives.
MoveOut ==
    IF grp = "moved" \/ has["K"] \notin {"none", "made"}
    THEN UNCHANGED <<grp, fail, unk>>
    ELSE IF ParentLost("K") \/ Over("K")
         THEN Unknown("K") /\ UNCHANGED grp
         ELSE grp' = "moved" /\ UNCHANGED <<fail, unk>>

KSettles ==
    /\ At("K", {"settle"})
    /\ Joined("K")
    /\ IF has["K"] \in {"native", "lost"}
       THEN Unknown("K") /\ UNCHANGED grp
       ELSE MoveOut
    /\ Goes("K", "hold")
    /\ UNCHANGED <<proc, status, kid, wires, has, got, rcpt, facts, outer>>

\* The loop that waits for RELEASE.  When C is gone or K's time is over, K
\* retires G itself; if that was only the run's deadline, it then goes on
\* listening to C until its own cleanup is over.
Released == Heard("ck", "RELEASE")
HoldEnds == Ended("ck") \/ ParentLost("K") \/ Late("K")
FirstExpiry == fail["K"] = "none" /\ "K" \notin unk /\ ~Ended("ck") /\ ~ParentLost("K") /\ ~Over("K")

KReleased ==
    /\ At("K", {"hold"})
    /\ Released
    /\ Goes("K", "lastwait")
    /\ UNCHANGED <<world, wires, has, got, rcpt, fail, unk, facts, outer>>

KExpires ==
    /\ At("K", {"hold"})
    /\ ~Released
    /\ HoldEnds
    /\ Checked("K")
    /\ Goes("K", IF groupK # "open" THEN IF FirstExpiry /\ groupK = "absent" THEN "hold" ELSE "lastwait"
                 ELSE IF FirstExpiry THEN "expired" ELSE "fallback")
    /\ UNCHANGED <<world, wires, has, got, rcpt, unk, facts, outer>>

\* fallback_group: K's own life pins G, so it may kill it even after C's
\* end; a keeper that could not leave G kills itself.
KFallback ==
    /\ At("K", {"fallback", "expired"})
    /\ groupK = "open"
    /\ CASE Over("K") -> groupK' = "left" /\ Unknown("K") /\ UNCHANGED <<proc, status, kid>>
         [] ~Over("K") /\ GroupEmpty -> groupK' = "absent" /\ UNCHANGED <<proc, status, kid, fail, unk>>
         [] OTHER -> KillGroup /\ UNCHANGED <<groupK, fail, unk>>
    /\ UNCHANGED <<grp, wires, pc, has, got, rcpt, groupC, payload, paid, stilled, record,
                   final, verdict, outer>>

KFallbackEnds ==
    /\ At("K", {"fallback", "expired"})
    /\ groupK # "open"
    /\ Goes("K", IF /\ pc["K"] = "expired" /\ groupK = "absent" /\ "K" \notin unk
                    /\ ~Ended("ck") /\ ~ParentLost("K") /\ ~Over("K")
                 THEN "hold" ELSE "lastwait")
    /\ UNCHANGED <<world, wires, has, got, rcpt, fail, unk, facts, outer>>

KLastWait ==
    /\ At("K", {"lastwait"})
    /\ \/ (has["K"] # "made" \/ rcpt["V"] # "none") /\ UNCHANGED <<fail, unk>>
       \/ has["K"] = "made" /\ rcpt["V"] = "none" /\ Over("K") /\ Unknown("K")
    /\ Goes("K", "close")
    /\ UNCHANGED <<world, wires, has, got, rcpt, facts, outer>>

\* The reader is closed first: what C writes from now on fails there.
KCloses ==
    /\ At("K", {"close"})
    /\ deaf' = deaf \cup {"ck"}
    /\ IF groupK = "open"
       THEN groupK' = "left" /\ Unknown("K")
       ELSE groupK' = groupK /\ UNCHANGED unk /\ (IF Troubled("K") THEN Checked("K") ELSE UNCHANGED fail)
    /\ record' = Account("K")
    /\ Goes("K", "report")
    /\ UNCHANGED <<world, chan, torn, shut, tried, lost, has, got, rcpt, groupC, payload, paid,
                   stilled, final, verdict, outer>>

KReleases ==
    /\ At("K", {"report"})
    /\ Writes("kc", "RELEASED")
    /\ Goes("K", "exit")
    /\ UNCHANGED <<world, has, got, rcpt, facts, passed, stop>>

KCode ==
    IF /\ groupK = "absent" /\ record # "unknown" /\ "K" \notin unk
       /\ Sent("kc", "RELEASED") /\ ~ParentLost("K")
    THEN IF Released /\ fail["K"] \in {"none", "parent"} THEN "ok" ELSE "bad"
    ELSE "unknown"

\* The interpreter's exit: time that ran out meanwhile revokes the code.
KExits ==
    /\ At("K", {"exit"})
    /\ \E how \in {KCode} \cup (IF Late("K") THEN {"unknown"} ELSE {}) : Ends({"K"}, how)
    /\ UNCHANGED <<kid, grp, wires, minds, facts, outer>>

-----------------------------------------------------------------------------
(* C, the custodian: its work.                                             *)

CConfigures ==
    /\ At("C", {"configure"})
    /\ Writes("ck", "CONFIG")
    /\ Goes("C", "hello")
    /\ UNCHANGED <<world, has, got, rcpt, facts, passed, stop>>

\* The frames of K, in whatever stage they are read.
Reads(e, t) ==
    /\ At(Reader[e], HearsChild[Reader[e]])
    /\ has[Reader[e]] = "made"
    /\ Next1(e, t)
    /\ chan' = [chan EXCEPT ![e] = @ \ {t}]

\* HELLO names G and reserves it; once C has given the route up it is late.
RoutesRetired == pc["C"] \in {"release", "released", "reap", "keof"}
CHearsHello ==
    /\ Reads("kc", "HELLO")
    /\ IF RoutesRetired
       THEN Raises("C") /\ UNCHANGED <<got, groupC>>
       ELSE /\ got' = got \cup {<<"kc", "HELLO">>}
            /\ groupC' = "open"
            /\ pc' = IF pc["C"] = "hello" THEN [pc EXCEPT !["C"] = "reserve"] ELSE pc
            /\ IF grp = "moved" THEN Checked("C") ELSE UNCHANGED fail
            /\ UNCHANGED unk
    /\ UNCHANGED <<world, torn, shut, deaf, tried, lost, has, rcpt, groupK, payload, paid, stilled,
                   record, final, verdict, outer>>

CReserves ==
    /\ At("C", {"reserve"})
    /\ Grants("co", "RESERVED")
    /\ Goes("C", "run")
    /\ UNCHANGED <<world, has, got, rcpt, facts, passed, stop>>

CGrants ==
    /\ At("C", {"grant"})
    /\ Grants("ck", "RUN")
    /\ Goes("C", "status")
    /\ UNCHANGED <<world, has, got, rcpt, facts, passed, stop>>

\* MOVED: K must stand in C's group, and the route must still be open.
MovedFits == Sent("ck", "RUN") /\ groupC # "none" /\ ~RoutesRetired /\ grp = "moved"
CHearsMoved ==
    /\ Reads("kc", "MOVED")
    /\ IF MovedFits
       THEN got' = got \cup {<<"kc", "MOVED">>} /\ UNCHANGED <<pc, fail, unk>>
       ELSE Raises("C") /\ UNCHANGED got
    /\ UNCHANGED <<world, torn, shut, deaf, tried, lost, has, rcpt, facts, outer>>

CSaysReady ==
    /\ At("C", {"status"})
    /\ Heard("kc", "MOVED") /\ <<"co", "READY">> \notin tried /\ "co" \notin shut
    /\ Grants("co", "READY")
    /\ UNCHANGED <<world, pc, has, got, rcpt, facts, passed, stop>>

\* STATUS goes on to O once READY has; it ends C's work.
CHearsStatus ==
    /\ Reads("kc", "STATUS")
    /\ pc["C"] = "status" /\ <<"co", "READY">> \in tried
    /\ got' = got \cup {<<"kc", "STATUS">>}
    /\ Goes("C", "forward")
    /\ UNCHANGED <<world, torn, shut, deaf, tried, lost, has, rcpt, fail, unk, facts, outer>>

CForwards ==
    /\ At("C", {"forward"})
    /\ Writes("co", "STATUS")
    /\ Goes("C", "settle")
    /\ UNCHANGED <<world, has, got, rcpt, facts, passed, stop>>

CNotesStatus ==
    /\ Reads("kc", "STATUS")
    /\ pc["C"] # "status"
    /\ IF Heard("kc", "MOVED")
       THEN got' = got \cup {<<"kc", "STATUS">>} /\ UNCHANGED <<pc, fail, unk>>
       ELSE Raises("C") /\ UNCHANGED got
    /\ UNCHANGED <<world, torn, shut, deaf, tried, lost, has, rcpt, facts, outer>>

\* RELEASED: K's account of V.  Unasked it is a failure.
RecordFits ==
    /\ Heard("kc", "MOVED") => record # "not_attempted"
    /\ Heard("kc", "STATUS") => record = "reaped"
    /\ <<"ck", "RUN">> \notin tried => record = "not_attempted"
CHearsReleased ==
    /\ Reads("kc", "RELEASED")
    /\ IF RecordFits
       THEN /\ got' = got \cup {<<"kc", "RELEASED">>}
            /\ IF Sent("ck", "RELEASE") THEN UNCHANGED fail ELSE Checked("C")
            /\ UNCHANGED <<pc, unk>>
       ELSE Raises("C") /\ UNCHANGED got
    /\ UNCHANGED <<world, torn, shut, deaf, tried, lost, has, rcpt, facts, outer>>

-----------------------------------------------------------------------------
(* C, cleanup_descendants: bottom up, each wait within one cutoff.         *)

CSettles ==
    /\ At("C", {"settle"})
    /\ Joined("C")
    /\ SettleUnk("C")
    /\ Goes("C", IF has["C"] = "made" THEN "cancel" ELSE "payload0")
    /\ UNCHANGED <<world, wires, has, got, rcpt, facts, outer>>

CCancels ==
    /\ At("C", {"cancel"})
    /\ IF fail["C"] # "none" /\ <<"ck", "CANCEL">> \notin tried
       THEN Writes("ck", "CANCEL")
       ELSE UNCHANGED <<wires, fail, unk, events>>
    /\ Goes("C", "name")
    /\ UNCHANGED <<world, has, got, rcpt, facts, passed, stop>>

CNames ==
    /\ At("C", {"name"})
    /\ groupC # "none" \/ Ended("kc") \/ Over("C")
    /\ Goes("C", IF groupC = "none" THEN "release" ELSE "group")
    /\ UNCHANGED <<world, wires, has, got, rcpt, fail, unk, facts, outer>>

\* A keeper that was never granted RUN may still leave G; else G is killed
\* until nobody is left in it, while K, unreaped, reserves its number.
Waits == <<"ck", "RUN">> \notin tried /\ grp = "G" /\ ~Ended("kc")
CKillsGroup ==
    /\ At("C", {"group"})
    /\ groupC = "open" /\ ~Over("C")
    /\ ~Waits /\ ~GroupEmpty
    /\ KillGroup
    /\ UNCHANGED <<grp, wires, minds, facts, outer>>

CSeesGroup ==
    /\ At("C", {"group"})
    /\ groupC = "open"
    /\ IF Over("C") THEN Unknown("C") ELSE ~Waits /\ GroupEmpty /\ UNCHANGED <<fail, unk>>
    /\ groupC' = IF Over("C") THEN "left" ELSE "absent"
    /\ Goes("C", "release")
    /\ UNCHANGED <<world, wires, has, got, rcpt, groupK, payload, paid, stilled, record, final,
                   verdict, outer>>

\* GROUP_RETIRED and RELEASE, unless K has reported already.
CReleases(t, next) ==
    /\ IF Heard("kc", "RELEASED")
       THEN shut' = shut \cup {"ck"} /\ UNCHANGED <<chan, torn, deaf, tried, lost, fail, unk, events>>
       ELSE Writes("ck", t)
    /\ Goes("C", next)
    /\ UNCHANGED <<world, has, got, rcpt, facts, passed, stop>>
CRetiresGroup == At("C", {"release"}) /\ CReleases("GROUP_RETIRED", "released")
CReleasesKeeper == At("C", {"released"}) /\ CReleases("RELEASE", "reap")

CReaps ==
    /\ At("C", {"reap"})
    /\ \/ Reap("C") /\ UNCHANGED <<fail, unk>>
       \/ Over("C") /\ Unknown("C") /\ UNCHANGED <<proc, rcpt>>
    /\ Goes("C", "keof")
    /\ UNCHANGED <<status, kid, grp, wires, has, got, facts, outer>>

CDrains ==
    /\ At("C", {"keof"})
    /\ Ended("kc") \/ Over("C")
    /\ IF Ended("kc") /\ Heard("kc", "RELEASED") THEN UNCHANGED <<fail, unk>> ELSE Unknown("C")
    /\ shut' = shut \cup {"ck"} /\ deaf' = deaf \cup {"kc"}
    /\ Goes("C", "payload0")
    /\ UNCHANGED <<world, chan, torn, tried, lost, has, got, rcpt, facts, outer>>

-----------------------------------------------------------------------------
(* C: the payload, COMMIT, the end of O's input, the FINAL record.         *)

KeeperState == Account("C")
ValidatorState ==
    IF KeeperState = "not_attempted" THEN "not_attempted"
    ELSE IF Heard("kc", "RELEASED") THEN record
    ELSE IF Heard("kc", "STATUS") THEN "reaped" ELSE "unknown"
GroupState ==
    IF KeeperState = "not_attempted" THEN "not_created"
    ELSE IF groupC \in {"absent", "left"} THEN groupC ELSE "unknown"

KeeperSettled ==
    \/ KeeperState = "not_attempted"
    \/ /\ rcpt["K"] \in {"ok", "bad"}
       /\ Heard("kc", "RELEASED") /\ Ended("kc")
       /\ rcpt["K"] = "ok" => Sent("ck", "RELEASE")

Successful ==
    /\ fail["C"] = "none" /\ "C" \notin unk
    /\ <<"co", "READY">> \in tried
    /\ Heard("kc", "STATUS") /\ status["V"] = "ok"
    /\ KeeperSettled /\ rcpt["K"] = "ok"
    /\ groupC = "absent"

CPays ==
    /\ At("C", {"payload0"})
    /\ Goes("C", IF Successful THEN "payload" ELSE "quiesce")
    /\ paid' = ~Successful
    /\ UNCHANGED <<world, wires, has, got, rcpt, fail, unk, groupC, groupK, payload, stilled, record,
                   final, verdict, outer>>

\* The whole content and its marker, or a part and a failure; then the
\* writer is closed, and only then may O see its end.
CWritesPayload ==
    /\ At("C", {"payload"})
    /\ paid' = TRUE
    /\ \/ /\ ~Troubled("C")
          /\ payload' = "full"
          /\ Goes("C", "commit")
          /\ UNCHANGED <<fail, events>>
       \/ /\ (Troubled("C") /\ UNCHANGED events) \/ Event
          /\ payload' \in {"none", "cut", "full"}
          /\ Checked("C")
          /\ Goes("C", "quiesce")
    /\ UNCHANGED <<world, wires, has, got, rcpt, unk, groupC, groupK, stilled, record, final, verdict,
                   passed, stop>>

\* retire_outer_control: from here on O's frames are read and ignored.
CQuiesces ==
    /\ At("C", {"quiesce"})
    /\ paid' = TRUE
    /\ \/ Troubled("C") /\ fail["C"] = "none" /\ Checked("C") /\ UNCHANGED <<pc, wires, unk, events>>
       \/ /\ ~Troubled("C") \/ fail["C"] # "none"
          /\ Writes("co", "QUIESCING")
          /\ Goes("C", "quiet")
    /\ UNCHANGED <<world, has, got, rcpt, groupC, groupK, payload, stilled, record, final, verdict,
                   passed, stop>>

CSeesQuiet ==
    /\ At("C", {"quiet"})
    /\ Ended("oc") /\ "oc" \notin torn
    /\ Sent("co", "QUIESCING") /\ ~ParentLost("C")
    /\ stilled' = TRUE
    /\ deaf' = deaf \cup {"oc"}
    /\ Goes("C", "report")
    /\ UNCHANGED <<world, chan, torn, shut, tried, lost, has, got, rcpt, fail, unk, groupC, groupK,
                   payload, paid, record, final, verdict, outer>>

CGivesUp ==
    /\ At("C", {"quiet"})
    /\ Late("C") \/ ParentLost("C") \/ ~Sent("co", "QUIESCING") \/ (Ended("oc") /\ "oc" \in torn)
    /\ Unknown("C")
    /\ deaf' = deaf \cup {"oc"}
    /\ Goes("C", "report")
    /\ UNCHANGED <<world, chan, torn, shut, tried, lost, has, got, rcpt, facts, outer>>

\* The record: confirmed only if nothing is left and nothing is unknown.
Confirmed ==
    /\ stilled /\ "C" \notin unk /\ KeeperSettled
    /\ "unknown" \notin {KeeperState, ValidatorState, GroupState}
    /\ GroupState \in {"absent", "not_created"}
Outcome ==
    CASE ~Confirmed \/ Troubled("C") -> "failed"
      [] Successful /\ Heard("oc", "COMMIT") -> "ok"
      [] /\ <<"co", "READY">> \in tried /\ rcpt["K"] = "ok"
         /\ ValidatorState = "reaped" /\ status["V"] = "bad" -> "rejected"
      [] OTHER -> "failed"

CReports ==
    /\ At("C", {"report"})
    /\ final' = [outcome |-> Outcome, cleanup |-> IF Confirmed THEN "confirmed" ELSE "unknown",
                 keeper |-> KeeperState, validator |-> ValidatorState, group |-> GroupState]
    /\ \/ /\ Puts("co", "FINAL")
          /\ UNCHANGED <<unk, events>>
          /\ IF Troubled("C") THEN Checked("C") ELSE UNCHANGED fail
       \/ (Late("C") \/ "co" \in shut) /\ Retires("co")
       \/ Loses("co", "FINAL")
    /\ Goes("C", "exit")
    /\ UNCHANGED <<world, deaf, has, got, rcpt, groupC, groupK, payload, paid, stilled, record, verdict,
                   passed, stop>>

CCode ==
    IF final.cleanup = "confirmed" /\ "C" \notin unk /\ Sent("co", "FINAL") /\ ~ParentLost("C")
    THEN IF final.outcome = "failed" THEN "bad" ELSE "ok"
    ELSE "unknown"

CExits ==
    /\ At("C", {"exit"})
    /\ \E how \in {CCode} \cup (IF Late("C") THEN {"unknown"} ELSE {}) : Ends({"C"}, how)
    /\ UNCHANGED <<kid, grp, wires, minds, facts, outer>>
-----------------------------------------------------------------------------
(* O, the caller's side: the work of _Outer.                               *)

OConfigures ==
    /\ At("O", {"config"})
    /\ Writes("oc", "CONFIG")
    /\ Goes("O", "hello")
    /\ UNCHANGED <<world, has, got, rcpt, facts, passed, stop>>

\* Once QUIESCING is in, O grants nothing more and only waits for FINAL.
Retiring == Heard("co", "QUIESCING")

OGrants(t, seen, from, to) ==
    /\ At("O", {from})
    /\ Heard("co", seen) /\ ~Retiring
    /\ Grants("oc", t)
    /\ Goes("O", to)
    /\ UNCHANGED <<world, has, got, rcpt, facts, passed, stop>>

\* The frames of C, in whatever stage they are read: each has its turn.
InTurn(t) ==
    CASE t = "HELLO" -> TRUE
      [] t = "RESERVED" -> Heard("co", "HELLO") /\ Sent("oc", "ADMIT")
      [] t = "READY" -> Heard("co", "RESERVED") /\ Sent("oc", "RUN")
      [] t = "STATUS" -> Heard("co", "READY")
      [] t = "QUIESCING" -> ~Retiring
OHears(t) ==
    /\ Reads("co", t)
    /\ IF InTurn(t)
       THEN got' = got \cup {<<"co", t>>} /\ UNCHANGED <<pc, fail, unk>>
       ELSE Raises("O") /\ UNCHANGED got
    /\ UNCHANGED <<world, torn, shut, deaf, tried, lost, has, rcpt, facts, outer>>

\* FINAL must agree with everything O has seen and has tried to grant.
FinalFits ==
    /\ Retiring
    /\ <<"oc", "ADMIT">> \notin tried => /\ final.keeper = "not_attempted"
                                         /\ final.validator = "not_attempted"
                                         /\ final.group = "not_created"
    /\ <<"oc", "RUN">> \notin tried => final.validator = "not_attempted"
    /\ Heard("co", "RESERVED") => final.keeper # "not_attempted" /\ final.group # "not_created"
    /\ Heard("co", "READY") => final.validator # "not_attempted"
    /\ Heard("co", "STATUS") => final.validator = "reaped"
    /\ final.outcome = "ok" => /\ Sent("oc", "COMMIT") /\ PayloadEnds
                               /\ Heard("co", "STATUS") /\ status["V"] = "ok"
OHearsFinal ==
    /\ Reads("co", "FINAL")
    /\ IF FinalFits
       THEN /\ got' = got \cup {<<"co", "FINAL">>}
            /\ IF pc["O"] \notin {"hello", "reserved", "final"} THEN UNCHANGED <<pc, fail>>
               ELSE IF pc["O"] = "final" /\ final.outcome = "ok" THEN Goes("O", "drain") /\ UNCHANGED fail
               ELSE Checked("O") /\ Goes("O", "cancel")
            /\ UNCHANGED unk
       ELSE Raises("O") /\ UNCHANGED got
    /\ UNCHANGED <<world, torn, shut, deaf, tried, lost, has, rcpt, facts, outer>>

\* COMMIT: V ended well, and the payload is whole to its end.
OCommits ==
    /\ At("O", {"final"})
    /\ ~Retiring /\ <<"oc", "COMMIT">> \notin tried
    /\ Heard("co", "READY") /\ Heard("co", "STATUS") /\ status["V"] = "ok"
    /\ PayloadEnds
    /\ IF payload = "full"
       THEN Grants("oc", "COMMIT") /\ UNCHANGED pc
       ELSE Checked("O") /\ Goes("O", "cancel") /\ UNCHANGED <<wires, unk, events>>
    /\ UNCHANGED <<world, has, got, rcpt, facts, passed, stop>>

ODrains ==
    /\ At("O", {"drain"})
    /\ Ended("co") /\ PayloadEnds
    /\ ~Troubled("O")
    /\ Goes("O", "cancel")
    /\ UNCHANGED <<world, wires, has, got, rcpt, fail, unk, facts, outer>>

-----------------------------------------------------------------------------
(* O: its control writer, its cleanup and the verdict.                     *)

\* retire_control_writer: a failure that is already known goes out as CANCEL,
\* then the writer is closed; C takes its end as the end of all writes.
Cancels == fail["O"] # "none" /\ <<"oc", "CANCEL">> \notin tried
ClosesControl(cancels) ==
    IF cancels
    THEN Writes("oc", "CANCEL")
    ELSE shut' = shut \cup {"oc"} /\ UNCHANGED <<chan, torn, deaf, tried, lost, fail, unk, events>>

ORetires ==
    /\ At("O", HearsChild["O"] \ {"cancel"})
    /\ Retiring /\ "oc" \notin shut
    /\ ClosesControl(Cancels)
    /\ UNCHANGED <<world, pc, has, got, rcpt, facts, passed, stop>>

OCancels ==
    /\ At("O", {"cancel"})
    /\ IF "oc" \in shut
       THEN Goes("O", "settle") /\ UNCHANGED <<wires, fail, unk, events>>
       ELSE ClosesControl(~Heard("co", "FINAL") /\ Cancels) /\ UNCHANGED pc
    /\ UNCHANGED <<world, has, got, rcpt, facts, passed, stop>>

OSettles ==
    /\ At("O", {"settle"})
    /\ Joined("O")
    /\ SettleUnk("O")
    /\ Goes("O", IF has["O"] = "made" THEN "wait" ELSE "publish")
    /\ UNCHANGED <<world, wires, has, got, rcpt, facts, outer>>

OReaps ==
    /\ At("O", {"wait"})
    /\ \/ Reap("O") /\ UNCHANGED <<fail, unk>>
       \/ Over("O") /\ Unknown("O") /\ UNCHANGED <<proc, rcpt>>
    /\ Goes("O", "eof")
    /\ UNCHANGED <<status, kid, grp, wires, has, got, facts, outer>>

OCloses ==
    /\ At("O", {"eof"})
    /\ (Ended("co") /\ PayloadEnds) \/ Over("O")
    /\ deaf' = deaf \cup {"co"}
    /\ Goes("O", "publish")
    /\ UNCHANGED <<world, chan, torn, shut, tried, lost, has, got, rcpt, fail, unk, facts, outer>>

\* The proof that no producer is left: there never was one, or C was reaped
\* with the code of a confirmed FINAL and both pipes ended whole.
NoProducers == Account("O") = "not_attempted"

\* Mutant: the record is believed whatever became of C.
ProducersConfirmed_ByRecord ==
    NoProducers \/ (Heard("co", "FINAL") /\ final.cleanup = "confirmed")

ProducersConfirmed ==
    \/ NoProducers
    \/ /\ rcpt["C"] = (IF final.outcome = "failed" THEN "bad" ELSE "ok")
       /\ Heard("co", "QUIESCING") /\ Heard("co", "FINAL") /\ final.cleanup = "confirmed"
       /\ Ended("co") /\ "co" \notin torn /\ PayloadEnds

\* CaptureFinality: the state, whether producers are settled, and whether a
\* RUN can have reached C.
Finality ==
    IF ~ProducersConfirmed \/ "O" \in unk THEN "UNKNOWN"
    ELSE IF NoProducers THEN "NO_PRODUCERS" ELSE "FINALIZED"
OPublishes ==
    /\ At("O", {"publish"})
    /\ verdict' =
        [state    |-> Finality,
         settled  |-> ProducersConfirmed,
         dispatch |-> IF <<"oc", "RUN">> \in tried THEN "ARMED"
                      ELSE IF NoProducers \/ (ProducersConfirmed /\ "oc" \in shut /\ ~Broken("oc"))
                      THEN "NOT_SENT" ELSE "UNKNOWN",
         result   |-> "none"]
    /\ Goes("O", "accept")
    /\ UNCHANGED <<world, wires, has, got, rcpt, fail, unk, groupC, groupK, payload, paid, stilled, record,
                   final, outer>>

\* Mutant: a FINAL that says ok is accepted whatever the finality says.
OAccepts_Final ==
    /\ At("O", {"accept"})
    /\ LET fits == /\ ~Troubled("O")
                   /\ Heard("co", "FINAL") /\ final.outcome = "ok"
       IN  verdict' = [verdict EXCEPT !.result = IF fits THEN "accepted" ELSE "refused"]
    /\ Goes("O", "done")
    /\ UNCHANGED <<world, wires, has, got, rcpt, fail, unk, groupC, groupK, payload, paid, stilled, record,
                   final, outer>>

\* The acceptance gate: the grace of a cleanup never extends it.
OAccepts ==
    /\ At("O", {"accept"})
    /\ LET fits == /\ ~Troubled("O")
                   /\ verdict.state = "FINALIZED"
                   /\ Heard("co", "FINAL") /\ final.outcome = "ok"
       IN  verdict' = [verdict EXCEPT !.result = IF fits THEN "accepted" ELSE "refused"]
    /\ Goes("O", "done")
    /\ UNCHANGED <<world, wires, has, got, rcpt, fail, unk, groupC, groupK, payload, paid, stilled, record,
                   final, outer>>

-----------------------------------------------------------------------------
Init ==
    /\ proc = [p \in Roles |-> IF p = "O" THEN "alive" ELSE "none"]
    /\ status = [p \in Roles |-> "none"]
    /\ kid = FALSE /\ grp = "start"
    /\ chan = [e \in Edges |-> {}]
    /\ torn = {} /\ shut = {} /\ deaf = {} /\ tried = {} /\ lost = {}
    /\ pc = [O |-> "spawn", C |-> "boot", K |-> "boot"]
    /\ has = [p \in Owners |-> "none"]
    /\ got = {}
    /\ rcpt = [p \in Roles |-> "none"]
    /\ fail = [p \in Owners |-> "none"]
    /\ unk = {}
    /\ groupC = "none" /\ groupK = "open"
    /\ payload = "none" /\ paid = FALSE /\ stilled = FALSE
    /\ record = "none" /\ final = NoFinal /\ verdict = NoVerdict
    /\ passed = {} /\ stop = FALSE /\ events = 0

Finished ==
    /\ Dead("O") \/ pc["O"] = "done"
    /\ \A p \in Roles \ {"O"} : ~Alive(p)
    /\ ~kid
    /\ UNCHANGED vars

OuterStep ==
    \/ OConfigures
    \/ OGrants("ADMIT", "HELLO", "hello", "reserved")
    \/ OGrants("RUN", "RESERVED", "reserved", "final")
    \/ \E t \in {"HELLO", "RESERVED", "READY", "STATUS", "QUIESCING"} : OHears(t)
    \/ OHearsFinal \/ OCommits \/ ODrains
    \/ ORetires \/ OCancels \/ OSettles \/ OReaps \/ OCloses \/ OPublishes \/ OAccepts

CustodianStep ==
    \/ Boot("C") \/ TakesConfig("C") \/ TakesCancel("C")
    \/ \E t \in {"ADMIT", "RUN", "COMMIT"} : TakesGrant("C", t) \/ RefusesGrant("C", t)
    \/ CConfigures \/ CHearsHello \/ CReserves \/ CGrants \/ CHearsMoved \/ CSaysReady
    \/ CHearsStatus \/ CForwards \/ CNotesStatus \/ CHearsReleased
    \/ CSettles \/ CCancels \/ CNames \/ CKillsGroup \/ CSeesGroup \/ CRetiresGroup
    \/ CReleasesKeeper \/ CReaps \/ CDrains
    \/ CPays \/ CWritesPayload \/ CQuiesces \/ CSeesQuiet \/ CGivesUp \/ CReports \/ CExits

KeeperStep ==
    \/ Boot("K") \/ TakesConfig("K") \/ TakesCancel("K")
    \/ TakesGrant("K", "RUN") \/ RefusesGrant("K", "RUN")
    \/ KTakesGroupRetired \/ KTakesRelease
    \/ KMoves \/ KReaps \/ KReports \/ KSettles \/ KReleased \/ KExpires
    \/ KFallback \/ KFallbackEnds \/ KLastWait \/ KCloses \/ KReleases \/ KExits

Shared ==
    \/ \E p \in Owners : \/ SpawnCall(p) \/ SpawnReturns(p) \/ Spawned(p)
                         \/ Unwind(p)
    \/ \E p \in {"C", "K"} : ParentEof(p)
    \/ \E p \in {"O", "C"} : ChildEof(p)
    \/ KidEnds
    \/ \E how \in {"ok", "bad"} : VEnds(how)

Faults ==
    \/ \E p \in Owners : BodyFault(p) \/ CleanupFault(p) \/ Signal(p) \/ SpawnFails(p)
    \/ \E p \in Roles : Kill(p)
    \/ \E p \in {"C", "K"} : BootFails(p)
    \/ KMovesOnly \/ Interrupt
    \/ \E t \in {"run", "capture"} : Deadline(t)
    \/ \E p \in Owners : Cutoff(p)

Next == OuterStep \/ CustodianStep \/ KeeperStep \/ Shared \/ Faults \/ Finished

Spec == Init /\ [][Next]_vars

-----------------------------------------------------------------------------
(* Properties.                                                             *)

Left == \E p \in {"C", "K", "V"} : proc[p] \notin {"none", "gone"}

\* Bytes are accepted only from a capture that is over: the validator ended
\* well, the payload arrived whole, the keeper and the custodian agreed, and
\* neither they nor openssl are left (capture_profile's acceptance gate).  They
\* leave C only once all that could change them is reaped (_Custodian.run).
AcceptedIsTrue ==
    /\ payload # "none" => /\ proc["V"] = "gone" /\ ~kid
                           /\ proc["K"] = "gone" /\ status["K"] = "ok"
    /\ verdict.result = "accepted" =>
        /\ status["V"] = "ok" /\ status["K"] = "ok" /\ status["C"] = "ok"
        /\ payload = "full" /\ Sent("oc", "COMMIT")
        /\ ~Left /\ ~kid

\* What the finality says holds: a scratch may be cleaned up, or producers
\* counted as settled, only if no process of the capture can write any more;
\* and NOT_SENT only if no validator ever ran (CaptureFinality).
FinalityIsTrue ==
    /\ verdict.settled => ~Left /\ ~kid
    /\ verdict.state \in {"FINALIZED", "NO_PRODUCERS"} => verdict.settled
    /\ verdict.dispatch = "NOT_SENT" => proc["V"] = "none"

\* Without faults and with time enough the capture does what it is for: it
\* ends FINALIZED, accepts what the validator accepted and refuses the rest.
QuietRunAccepts ==
    events = 0 /\ passed = {} /\ pc["O"] = "done" =>
        /\ verdict.state = "FINALIZED" /\ verdict.dispatch = "ARMED"
        /\ verdict.result = (IF status["V"] = "ok" THEN "accepted" ELSE "refused")
=============================================================================
