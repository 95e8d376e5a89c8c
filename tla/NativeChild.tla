------------------------------ MODULE NativeChild ------------------------------
(* The start, the wait and the settlement of one native child process by two *)
(* threads of one helper (src/mobile_release/_native_process.py, with the    *)
(* context and the task slot of _profile_process.py).  The OWNER opens the   *)
(* descriptors of the child's map, starts the CREATOR thread, grants it one  *)
(* launch, joins it, waits for the child and closes what it opened; at any   *)
(* moment it may be interrupted or run out of time and then only cleans up.  *)
(* The creator duplicates the descriptors, makes the spawn object, calls     *)
(* posix_spawn and retires what it made.  A native call may return, fail, or *)
(* lose its return: then nobody knows whether it took effect.                *)
(*                                                                           *)
(* Behind the bookkeeping stands the kernel: the descriptors that are really *)
(* open, the spawn object that really exists, the process that really lives. *)
(* A number of a closed descriptor or of a reaped child belongs to somebody  *)
(* else from then on: a call on it is recorded in stray.                     *)
(*                                                                           *)
(* Left out: the tables of the ABI and the contents of the map, argv and     *)
(* environment; the account hold; the inherited copies of a fork.            *)
EXTENDS Naturals, FiniteSets, ChildClaim

CONSTANTS
  N,           \* descriptors of the child's map
  MaxEvents    \* bound: failed or lost calls, interruptions and passed time limits

Ends == {"source", "copy"} \X (1..N)

VARIABLES
  creator,    \* where the creator thread is
  acq,        \* the acquisition the two share
  lease,      \* state of every descriptor lease
  borrowed,   \* the sources the creator has borrowed
  box,        \* state of the spawn object
  stray,      \* a call was made on a number that belongs to somebody else
  events      \* failed or lost calls, interruptions and limits so far

vars == <<owner, creator, acq, lease, borrowed, box, kernel, stray, events>>

-----------------------------------------------------------------------------
Owned(e)   == lease[e] = "OPEN"
Unknown(e) == lease[e] \in {"ACQUIRING", "CLOSE_IN_FLIGHT", "UNKNOWN"}

AcqUnknown == acq.lost \/ acq.noReceipt \/ \E i \in 1..N : Unknown(<<"copy", i>>)
IoUnknown  == acq.ioLost \/ \E i \in 1..N : Unknown(<<"source", i>>)

\* The error reaches the owner's context in the very call that fails: its first
\* error is kept and no launch is granted any more.
Record(own, a) == owner' = [own EXCEPT !.failed = TRUE] /\ acq' = [a EXCEPT !.retired = TRUE]

Event == events < MaxEvents /\ events' = events + 1

\* The thread of the creator can be joined: it is over and somebody knows it.
Joinable == creator = "ended" /\ (owner.published \/ owner.returned)

-----------------------------------------------------------------------------
(* The owner: the sources, the task and its grant.                           *)

\* pipe, open_null: the lease is on the list before the call.
Opens(i) ==
  /\ owner.at = "opening" /\ ~acq.retired
  /\ lease[<<"source", i>>] = "NEW" /\ \A j \in 1..(i - 1) : lease[<<"source", j>>] # "NEW"
  /\ \/ /\ lease' = [lease EXCEPT ![<<"source", i>>] = "OPEN"]
        /\ kernel' = [kernel EXCEPT !.fds = @ \cup {<<"source", i>>}]
        /\ UNCHANGED <<owner, acq, events>>
     \/ /\ Event /\ lease' = [lease EXCEPT ![<<"source", i>>] = "UNKNOWN"]
        /\ \E F \in {{}, {<<"source", i>>}} : kernel' = [kernel EXCEPT !.fds = @ \cup F]
        /\ Record([owner EXCEPT !.at = "settling"], [acq EXCEPT !.ioLost = TRUE])
  /\ UNCHANGED <<creator, borrowed, box, stray>>

\* A descriptor that was published and does not validate stays known.
FailsToValidate ==
  /\ Event /\ owner.at = "opening" /\ \E i \in 1..N : Owned(<<"source", i>>)
  /\ Record([owner EXCEPT !.at = "settling"], acq)
  /\ UNCHANGED <<creator, lease, borrowed, box, kernel, stray>>

\* The thread may run although the call that starts it raises.
StartsThread ==
  /\ owner.at = "opening" /\ ~acq.retired /\ \A i \in 1..N : Owned(<<"source", i>>)
  /\ \/ /\ owner' = [owner EXCEPT !.at = "granting", !.task = TRUE, !.returned = TRUE]
        /\ creator' = "born" /\ UNCHANGED <<acq, events>>
     \/ /\ Event /\ creator' \in {"none", "born"}
        /\ Record([owner EXCEPT !.at = "settling", !.task = TRUE], acq)
  /\ UNCHANGED <<lease, borrowed, box, kernel, stray>>

\* One grant, to the thread that published itself and whose start has returned.
Grants ==
  /\ owner.at = "granting" /\ owner.published /\ ~acq.retired
  /\ owner' = [owner EXCEPT !.at = "joining", !.granted = TRUE]
  /\ UNCHANGED <<creator, acq, lease, borrowed, box, kernel, stray, events>>

\* The creator ended and everything it used is accounted for: there is a child.
Adopts ==
  /\ owner.at = "joining" /\ Joinable /\ ~owner.failed
  /\ acq.child # "none" /\ ~acq.running /\ ~AcqUnknown
  /\ owner' = [owner EXCEPT !.at = "working", !.joined = TRUE] /\ acq' = [acq EXCEPT !.retired = TRUE]
  /\ UNCHANGED <<creator, lease, borrowed, box, kernel, stray, events>>

Working == {"opening", "granting", "joining", "working"}

\* Every turn of a wait checks the context: the creator may have failed.
NoticesFailure ==
  /\ owner.at \in Working /\ owner.failed
  /\ owner' = [owner EXCEPT !.at = "settling"]
  /\ UNCHANGED <<creator, acq, lease, borrowed, box, kernel, stray, events>>

\* A signal, a lost parent or the run's deadline, wherever the creator is.
Stops ==
  /\ Event /\ owner.at \in Working /\ Record([owner EXCEPT !.at = "settling"], acq)
  /\ UNCHANGED <<creator, lease, borrowed, box, kernel, stray>>

WorkEnds ==
  /\ owner.at = "working" /\ owner' = [owner EXCEPT !.at = "settling"]
  /\ UNCHANGED <<creator, acq, lease, borrowed, box, kernel, stray, events>>

-----------------------------------------------------------------------------
(* The creator.                                                              *)

Publishes ==
  /\ creator = "born" /\ creator' = "waiting" /\ owner' = [owner EXCEPT !.published = TRUE]
  /\ UNCHANGED <<acq, lease, borrowed, box, kernel, stray, events>>

\* A thread whose launch is retired before the grant ends without a native call.
Withdraws ==
  /\ creator = "waiting" /\ acq.retired /\ creator' = "ended"
  /\ UNCHANGED <<owner, acq, lease, borrowed, box, kernel, stray, events>>

Begins ==
  /\ creator = "waiting" /\ owner.granted /\ ~acq.retired
  /\ creator' = "borrowing" /\ acq' = [acq EXCEPT !.running = TRUE]
  /\ UNCHANGED <<owner, lease, borrowed, box, kernel, stray, events>>

Preparing == {"borrowing", "copying", "making", "mapping", "attempting"}

\* A check before the next native call finds the launch retired, or a call that
\* changes nothing fails.
BodyFails ==
  /\ creator \in Preparing
  /\ \/ acq.retired /\ events' = events
     \/ Event
  /\ creator' = "retiring" /\ Record(owner, acq)
  /\ UNCHANGED <<lease, borrowed, box, kernel, stray>>

\* Only a descriptor that is open and known is lent, and only before it is copied.
Borrows(i) ==
  /\ creator = "borrowing" /\ i \notin borrowed /\ 1..(i - 1) \subseteq borrowed
  /\ Owned(<<"source", i>>)
  /\ borrowed' = borrowed \cup {i} /\ creator' = IF i = N THEN "copying" ELSE creator
  /\ UNCHANGED <<owner, acq, lease, box, kernel, stray, events>>

\* F_DUPFD_CLOEXEC: a genuine error is not a descriptor; a lost return may be one.
Copies(i) ==
  LET e == <<"copy", i>> IN
  /\ creator = "copying" /\ ~acq.retired
  /\ lease[e] = "NEW" /\ \A j \in 1..(i - 1) : lease[<<"copy", j>>] # "NEW"
  /\ stray' = (stray \/ <<"source", i>> \notin kernel.fds)
  /\ \/ /\ lease' = [lease EXCEPT ![e] = "OPEN"] /\ creator' = IF i = N THEN "making" ELSE creator
        /\ kernel' = [kernel EXCEPT !.fds = @ \cup {e}] /\ UNCHANGED <<owner, acq, events>>
     \/ /\ Event /\ creator' = "retiring" /\ lease' = lease /\ kernel' = kernel /\ Record(owner, acq)
     \/ /\ Event /\ creator' = "retiring" /\ lease' = [lease EXCEPT ![e] = "UNKNOWN"]
        /\ \E F \in {{}, {e}} : kernel' = [kernel EXCEPT !.fds = @ \cup F]
        /\ Record(owner, [acq EXCEPT !.lost = TRUE])
  /\ UNCHANGED <<borrowed, box>>

\* posix_spawn_file_actions_init (and posix_spawnattr_init).
Makes ==
  /\ creator = "making" /\ ~acq.retired
  /\ \/ /\ box' = "INITIALIZED" /\ creator' = "mapping" /\ kernel' = [kernel EXCEPT !.boxed = TRUE]
        /\ UNCHANGED <<owner, acq, events>>
     \/ /\ Event /\ box' = "UNKNOWN" /\ creator' = "retiring"
        /\ \E made \in BOOLEAN : kernel' = [kernel EXCEPT !.boxed = made]
        /\ Record(owner, [acq EXCEPT !.lost = TRUE])
  /\ UNCHANGED <<lease, borrowed, stray>>

\* An update that returns an error leaves the object known, one that is lost does not.
Maps ==
  /\ creator = "mapping" /\ ~acq.retired
  /\ \/ creator' = "attempting" /\ UNCHANGED <<owner, acq, box, events>>
     \/ Event /\ creator' = "retiring" /\ box' = "UNKNOWN" /\ Record(owner, [acq EXCEPT !.lost = TRUE])
  /\ UNCHANGED <<lease, borrowed, kernel, stray>>

\* Mutant: the attempt is put on record when the call has returned.
Attempts_AfterCall ==
  /\ creator = "attempting" /\ ~acq.retired /\ creator' = "spawning"
  /\ UNCHANGED <<owner, acq, lease, borrowed, box, kernel, stray, events>>

\* The attempt is on record before the call.
Attempts ==
  /\ creator = "attempting" /\ ~acq.retired
  /\ creator' = "spawning" /\ acq' = [acq EXCEPT !.attempted = TRUE]
  /\ UNCHANGED <<owner, lease, borrowed, box, kernel, stray, events>>

SpawnFails(a) == IF a.attempted THEN [a EXCEPT !.noReceipt = TRUE, !.child = "UNKNOWN", !.numeric = FALSE] ELSE a

\* posix_spawn: the child is published before anything is retired; a failure of the
\* call is no proof that there is no child.
Spawns ==
  /\ creator = "spawning" /\ creator' = "retiring"
  /\ stray' = (stray \/ \E i \in 1..N : <<"copy", i>> \notin kernel.fds)
  /\ \/ /\ kernel' = [kernel EXCEPT !.process = "alive"]
        /\ acq' = [acq EXCEPT !.child = "OWNED", !.numeric = TRUE, !.retired = TRUE]
        /\ UNCHANGED <<owner, events>>
     \/ /\ Event /\ \E p \in {"none", "alive"} : kernel' = [kernel EXCEPT !.process = p]
        /\ Record(owner, SpawnFails(acq))
  /\ UNCHANGED <<lease, borrowed, box>>

\* The object is on record as being destroyed before the call that destroys it.
Destroys ==
  /\ creator = "retiring" /\ box = "INITIALIZED"
  /\ \/ /\ box' = "RETIRED" /\ kernel' = [kernel EXCEPT !.boxed = FALSE]
        /\ UNCHANGED <<owner, acq, events>>
     \/ /\ Event /\ box' = "UNKNOWN" /\ \E b \in BOOLEAN : kernel' = [kernel EXCEPT !.boxed = b]
        /\ Record(owner, [acq EXCEPT !.lost = TRUE])
  /\ UNCHANGED <<creator, lease, borrowed, stray>>

\* FDLease.close: the number is retired before the call, whatever the call does.
Closed(e) ==
  /\ lease' = [lease EXCEPT ![e] = "CLOSED"] /\ kernel' = [kernel EXCEPT !.fds = @ \ {e}]
  /\ stray' = (stray \/ e \notin kernel.fds) /\ events' = events

CloseLost(e) ==
  /\ Event /\ lease' = [lease EXCEPT ![e] = "UNKNOWN"]
  /\ \E F \in {{}, {e}} : kernel' = [kernel EXCEPT !.fds = @ \ F]
  /\ stray' = (stray \/ e \notin kernel.fds)

ClosesCopy(i) ==
  /\ creator = "retiring" /\ box # "INITIALIZED" /\ Owned(<<"copy", i>>)
  /\ \A j \in 1..(i - 1) : ~Owned(<<"copy", j>>)
  /\ \/ Closed(<<"copy", i>>) /\ UNCHANGED <<owner, acq>>
     \/ CloseLost(<<"copy", i>>) /\ Record(owner, [acq EXCEPT !.lost = TRUE])
  /\ UNCHANGED <<creator, borrowed, box>>

\* The borrowed sources go back and the creator is over; a lease or an object it
\* could not retire stays unknown.
Retires ==
  /\ creator = "retiring" /\ box # "INITIALIZED" /\ \A i \in 1..N : ~Owned(<<"copy", i>>)
  /\ creator' = "ended" /\ borrowed' = {}
  /\ IF AcqUnknown THEN Record([owner EXCEPT !.unknown = TRUE], [acq EXCEPT !.running = FALSE])
     ELSE acq' = [acq EXCEPT !.running = FALSE, !.retired = TRUE] /\ UNCHANGED owner
  /\ UNCHANGED <<lease, box, kernel, stray, events>>

-----------------------------------------------------------------------------
(* The owner's cleanup.                                                      *)

SettleUnknown(own) == [own EXCEPT !.unknown = @ \/ (own.task /\ ~own.joined) \/ AcqUnknown \/ acq.running]

\* The creator is joined, or the time for it is over.
Settles ==
  /\ owner.at = "settling"
  /\ \E joined \in BOOLEAN :
       /\ IF joined THEN owner.joined \/ Joinable ELSE ~owner.joined
       /\ ~joined /\ owner.task => Event
       /\ joined \/ ~owner.task => events' = events
       /\ owner' = [SettleUnknown([owner EXCEPT !.joined = joined]) EXCEPT
                      !.at = IF acq.child \in {"none", "UNKNOWN"} THEN "closing" ELSE "reaping"]
  /\ acq' = [acq EXCEPT !.retired = TRUE]
  /\ UNCHANGED <<creator, lease, borrowed, box, kernel, stray>>

\* A request by number, while nobody has waited for the child.
Signals ==
  /\ owner.at = "reaping" /\ acq.child = "OWNED" /\ acq.numeric
  /\ stray' = (stray \/ kernel.process \notin {"alive", "zombie"})
  /\ kernel' = [kernel EXCEPT !.process = IF @ = "alive" THEN "zombie" ELSE @]
  /\ UNCHANGED <<owner, creator, acq, lease, borrowed, box, events>>

\* The number is retired before the first wait.
Retire(a) == [a EXCEPT !.numeric = FALSE]

Polls ==
  /\ owner.at = "reaping" /\ acq.child \in {"OWNED", "POLLABLE"}
  /\ \/ /\ kernel.process = "alive" /\ acq' = [Retire(acq) EXCEPT !.child = "POLLABLE"]
        /\ UNCHANGED <<owner, kernel, events>>
     \/ /\ kernel.process = "zombie" /\ kernel' = [kernel EXCEPT !.process = "gone"]
        /\ acq' = [Retire(acq) EXCEPT !.child = "REAPED"] /\ UNCHANGED <<owner, events>>
     \/ /\ Event /\ \E p \in {kernel.process, IF kernel.process = "zombie" THEN "gone" ELSE kernel.process} :
                      kernel' = [kernel EXCEPT !.process = p]
        /\ Record([owner EXCEPT !.unknown = TRUE], [Retire(acq) EXCEPT !.child = "UNKNOWN", !.noReceipt = TRUE])
  /\ UNCHANGED <<creator, lease, borrowed, box, stray>>

\* The receipt is there, or the wait is impossible, or its time is over.
EndsWait ==
  /\ owner.at = "reaping"
  /\ \/ acq.child = "REAPED" /\ UNCHANGED <<acq, events>> /\ owner' = [owner EXCEPT !.at = "closing"]
     \/ /\ acq.child = "UNKNOWN" /\ events' = events
        /\ Record([owner EXCEPT !.at = "closing", !.unknown = TRUE], acq)
     \/ /\ acq.child \in {"OWNED", "POLLABLE"} /\ Event
        /\ Record([owner EXCEPT !.at = "closing", !.unknown = TRUE], Retire(acq))
  /\ UNCHANGED <<creator, lease, borrowed, box, kernel, stray>>

\* The sources of a task that was not joined belong to its map: they stay open.
Protected == IF owner.task /\ ~owner.joined THEN 1..N ELSE {}

Left(i) == lease[<<"source", i>>] # "NEW" /\ i \notin Protected \cup owner.closed

\* A lease that is unknown, or still lent, is not closed and counts as unknown.
ClosesSource(i) ==
  LET e == <<"source", i>>
      Tried(unknown) == [owner EXCEPT !.closed = @ \cup {i}, !.unknown = @ \/ unknown]
  IN
  /\ owner.at = "closing" /\ Left(i) /\ \A j \in (i + 1)..N : ~Left(j)
  /\ IF Owned(e) /\ i \notin borrowed
     THEN \/ Closed(e) /\ owner' = Tried(FALSE) /\ acq' = acq
          \/ CloseLost(e) /\ Record(Tried(TRUE), [acq EXCEPT !.ioLost = TRUE])
     ELSE Record(Tried(TRUE), acq) /\ UNCHANGED <<lease, kernel, stray, events>>
  /\ UNCHANGED <<creator, borrowed, box>>

\* What the owner may say of the child.
ChildRecord ==
  IF acq.child = "REAPED" THEN "reaped"
  ELSE IF /\ ~acq.attempted /\ acq.retired /\ ~acq.running /\ ~AcqUnknown
          /\ owner.task => owner.joined
  THEN "not_attempted" ELSE "unknown"

ResourcesConfirmed ==
  /\ ~owner.unknown /\ ~IoUnknown /\ ~AcqUnknown /\ ~acq.running
  /\ \A i \in 1..N : lease[<<"source", i>>] = "NEW" \/ i \in owner.closed
  /\ owner.task => owner.joined

Finishes ==
  /\ owner.at = "closing" /\ \A i \in 1..N : ~Left(i)
  /\ owner' = [owner EXCEPT !.at = "done", !.claim = IF ResourcesConfirmed THEN ChildRecord ELSE "unknown"]
  /\ acq' = [acq EXCEPT !.retired = TRUE]
  /\ UNCHANGED <<creator, lease, borrowed, box, kernel, stray, events>>

\* The child ends when it likes.
Exits ==
  /\ kernel.process = "alive" /\ kernel' = [kernel EXCEPT !.process = "zombie"]
  /\ UNCHANGED <<owner, creator, acq, lease, borrowed, box, stray, events>>

\* Both threads are over.
Over == owner.at = "done" /\ creator \in {"none", "ended"} /\ UNCHANGED vars

-----------------------------------------------------------------------------
Init ==
  /\ owner = [at |-> "opening", failed |-> FALSE, unknown |-> FALSE, task |-> FALSE, returned |-> FALSE,
              published |-> FALSE, granted |-> FALSE, joined |-> FALSE, closed |-> {}, claim |-> "none"]
  /\ creator = "none"
  /\ acq = [retired |-> FALSE, attempted |-> FALSE, running |-> FALSE, lost |-> FALSE, ioLost |-> FALSE,
            noReceipt |-> FALSE, child |-> "none", numeric |-> FALSE]
  /\ lease = [e \in Ends |-> "NEW"] /\ borrowed = {} /\ box = "NEW"
  /\ kernel = [fds |-> {}, boxed |-> FALSE, process |-> "none"]
  /\ stray = FALSE /\ events = 0

Next ==
  \/ \E i \in 1..N : Opens(i) \/ Borrows(i) \/ Copies(i) \/ ClosesCopy(i) \/ ClosesSource(i)
  \/ FailsToValidate \/ StartsThread \/ Grants \/ Adopts \/ NoticesFailure \/ Stops \/ WorkEnds
  \/ Publishes \/ Withdraws \/ Begins \/ BodyFails \/ Makes \/ Maps \/ Attempts \/ Spawns \/ Destroys \/ Retires
  \/ Settles \/ Signals \/ Polls \/ EndsWait \/ Finishes \/ Exits \/ Over

Spec == Init /\ [][Next]_vars

-----------------------------------------------------------------------------
\* No call is ever made on a number that belongs to somebody else: no descriptor is
\* closed twice or copied after its source was closed, and no child is signalled once
\* somebody may have waited for it.
OwnNumbersOnly == ~stray
=============================================================================
