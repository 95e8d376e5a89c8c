------------------------------ MODULE MCOwned_proofs ------------------------------
(* What the owner of a native child claims is true, and no call is made on a *)
(* number that belongs to somebody else: for every number of descriptors and *)
(* every number of failed or lost calls, interruptions and passed limits.    *)
(* Bytes of a capture are accepted, and its producers called settled, only   *)
(* where that is true: for every set of time limits that may pass and every  *)
(* number of kills, signals and failed calls; and one left alone does what   *)
(* it is for.  The claim's parts come first, those of the capture after them. *)
EXTENDS MCOwned, TLAPS

OwnerStates == {"opening", "granting", "joining", "working", "settling", "reaping", "closing", "done"}

CreatorStates == {"none", "born", "waiting", "borrowing", "copying", "making", "mapping",
                  "attempting", "spawning", "retiring", "ended"}

LeaseStates == {"NEW", "OPEN", "CLOSED", "UNKNOWN"}
BoxStates == {"NEW", "INITIALIZED", "UNKNOWN", "RETIRED"}

OwnerRecords == [at : OwnerStates, failed : BOOLEAN, unknown : BOOLEAN, task : BOOLEAN,
   returned : BOOLEAN,
           published : BOOLEAN, granted : BOOLEAN, joined : BOOLEAN, closed : SUBSET (1..Descriptors),
           claim : {"none", "not_attempted", "reaped", "unknown"}]

Acqs == [retired : BOOLEAN, attempted : BOOLEAN, running : BOOLEAN, lost : BOOLEAN, ioLost : BOOLEAN,
         noReceipt : BOOLEAN, child : {"none", "OWNED", "POLLABLE", "REAPED", "UNKNOWN"}, numeric :
            BOOLEAN]

Kernels == [fds : SUBSET Native!Ends, boxed : BOOLEAN, process : {"none", "alive", "zombie", "gone"}]

TypeInv ==
  /\ owner \in OwnerRecords /\ creator \in CreatorStates /\ acq \in Acqs
  /\ lease \in [Native!Ends -> LeaseStates] /\ borrowed \in SUBSET (1..Descriptors) /\ box \in BoxStates
  /\ kernel \in Kernels

-----------------------------------------------------------------------------
(* The inductive invariant.                                                  *)

\* The kernel holds what the leases say, and more only where nobody knows.
LeaseInv ==
  /\ \A e \in Native!Ends : lease[e] = "OPEN" => e \in kernel.fds
  /\ \A e \in kernel.fds : lease[e] \in {"OPEN", "UNKNOWN"}

\* So for the spawn object and for the process.
ObjectInv ==
  /\ kernel.boxed => box \in {"INITIALIZED", "UNKNOWN"}
  /\ box = "UNKNOWN" => acq.lost

ProcessInv ==
  /\ acq.child \in {"OWNED", "POLLABLE"} => kernel.process \in {"alive", "zombie"}
  /\ acq.child = "REAPED" => kernel.process = "gone"
  /\ kernel.process # "none" => acq.attempted
  /\ creator = "spawning" => acq.attempted

Copy(i)   == <<"copy", i>>
Source(i) == <<"source", i>>

Equipped == {"making", "mapping", "attempting", "spawning"}

\* What the creator has made so far.
CreatorInv ==
  /\ creator \in {"none", "born", "waiting",
     "borrowing"} => \A i \in 1..Descriptors : lease[Copy(i)] = "NEW"
  /\ creator = "copying" => \A i \in 1..Descriptors : lease[Copy(i)] \in {"NEW", "OPEN"}
  /\ creator \in Equipped => \A i \in 1..Descriptors : lease[Copy(i)] = "OPEN"
  /\ creator = "ended" => \A i \in 1..Descriptors : lease[Copy(i)] # "OPEN"
  /\ creator \in {"none", "born", "waiting", "borrowing", "copying", "making"} => box = "NEW"
  /\ creator = "ended" => box # "INITIALIZED"

\* A lent source stays open until it is given back.
BorrowInv ==
  /\ \A i \in borrowed : lease[Source(i)] = "OPEN"
  /\ creator \in {"copying"} \cup Equipped => 1..Descriptors \subseteq borrowed

OwnerInv ==
  /\ owner.joined => creator = "ended"
  /\ ~owner.task => creator = "none"
  /\ owner.at = "opening" => ~owner.task
  /\ \A i \in owner.closed : owner.unknown \/ lease[Source(i)] = "CLOSED"

\* A claim is made at the end only, when the creator is over too.
ClaimInv ==
  /\ owner.claim # "none" => owner.at = "done"
  /\ owner.claim \in {"not_attempted", "reaped"} => creator \in {"none", "ended"} /\ ClaimIsTrue

Inv ==
  /\ TypeInv /\ LeaseInv /\ ObjectInv /\ ProcessInv /\ CreatorInv /\ BorrowInv /\ OwnerInv
  /\ ClaimInv /\ Native!OwnNumbersOnly

-----------------------------------------------------------------------------
(* The steps, one lemma each.                                                *)

LEMMA EndsType == ASSUME NEW i \in 1..Descriptors PROVE <<"copy", i>> \in Native!Ends /\ <<"source",
   i>> \in Native!Ends
  BY DEF Native!Ends

LEMMA OpensKeeps ==
  ASSUME NEW i \in 1..Descriptors, Inv, Native!Opens(i) PROVE Inv'
<1>0. TypeInv BY DEF Inv
<1>1. TypeInv'
  <2>1. creator' \in CreatorStates /\ borrowed' \in SUBSET (1..Descriptors) /\ box' \in BoxStates
    BY <1>0 DEF Native!Event, Native!Opens, Native!Record, TypeInv
  <2>2. owner' \in OwnerRecords BY <1>0 DEF Native!Event, Native!Opens, Native!Record, OwnerRecords,
     OwnerStates, TypeInv
  <2>3. acq' \in Acqs BY <1>0 DEF Native!Event, Native!Opens, Native!Record, Acqs, TypeInv
  <2>4. lease' \in [Native!Ends -> LeaseStates]
    BY <1>0, EndsType DEF Native!Event, Native!Opens, Native!Record, LeaseStates, TypeInv
  <2>5. kernel' \in Kernels
    <3>1. Source(i) \in Native!Ends BY EndsType DEF Source
    <3>2. \E F \in SUBSET Native!Ends : kernel' = [kernel EXCEPT !.fds = F]
      <4>1. kernel.fds \cup {Source(i)} \in SUBSET Native!Ends /\ kernel.fds \cup {} \in SUBSET Native!Ends
        BY <1>0, <3>1 DEF TypeInv, Kernels
      <4> QED BY <4>1 DEF Native!Opens, Source
    <3> QED BY <1>0, <3>2 DEF TypeInv, Kernels
  <2> QED BY <2>1, <2>2, <2>3, <2>4, <2>5 DEF TypeInv
<1>2. Native!OwnNumbersOnly'
  BY DEF Inv, Native!Event, Native!Opens, Native!Record, Native!OwnNumbersOnly
<1>3. LeaseInv'
  BY <1>0, <1>1, EndsType DEF Inv, Native!Event, Native!Opens, Native!Record, TypeInv, Kernels, LeaseInv
<1>4. ObjectInv'
  BY <1>0, <1>1, EndsType DEF Inv, Native!Event, Native!Opens, Native!Record, TypeInv, Kernels, Acqs,
     ObjectInv
<1>5. ProcessInv'
  BY <1>0, <1>1, EndsType DEF Inv, Native!Event, Native!Opens, Native!Record, TypeInv, Acqs, Kernels,
     ProcessInv
<1>6. CreatorInv'
  <2>1. \A j \in 1..Descriptors : lease'[Copy(j)] = lease[Copy(j)]
    BY <1>0, EndsType DEF TypeInv, Native!Opens, Copy
  <2> QED BY <2>1, <1>0 DEF Inv, Native!Opens, CreatorInv, Equipped
<1>7. BorrowInv'
  <2>1. \A j \in borrowed : lease'[Source(j)] = "OPEN"
    BY <1>0, EndsType DEF Inv, TypeInv, BorrowInv, Native!Opens, Source
  <2> QED BY <2>1 DEF Inv, Native!Opens, BorrowInv, Equipped
<1>8. OwnerInv'
  <2>1. \A j \in owner.closed : owner.unknown \/ lease'[Source(j)] = "CLOSED"
    <3> SUFFICES ASSUME NEW j \in owner.closed, ~owner.unknown PROVE lease'[Source(j)] = "CLOSED"
      OBVIOUS
    <3>1. j \in 1..Descriptors /\ lease[Source(j)] = "CLOSED" BY <1>0 DEF Inv, TypeInv, OwnerRecords,
       OwnerInv
    <3>2. lease[Source(i)] = "NEW" BY DEF Native!Opens, Source
    <3>3. lease'[Source(j)] = lease[Source(j)]
      BY <1>0, <3>1, <3>2, EndsType DEF TypeInv, Native!Opens, Source
    <3> QED BY <3>1, <3>3
  <2>2. owner'.joined = owner.joined /\ owner'.task = owner.task /\ owner'.closed = owner.closed
        /\ owner'.unknown = owner.unknown /\ (owner'.at = "opening" => owner.at = "opening")
    BY <1>0 DEF TypeInv, OwnerRecords, Native!Opens, Native!Record
  <2> QED BY <2>1, <2>2 DEF Inv, Native!Opens, OwnerInv
<1>9. ClaimInv'
  BY <1>0, <1>1, EndsType DEF Inv, Native!Event, Native!Opens, Native!Record, TypeInv, OwnerRecords,
     OwnerStates, Kernels,
     ClaimInv, ClaimIsTrue
<1> QED BY <1>1, <1>2, <1>3, <1>4, <1>5, <1>6, <1>7, <1>8, <1>9 DEF Inv

LEMMA FailsToValidateKeeps ==
  ASSUME Inv, Native!FailsToValidate PROVE Inv'
<1>0. TypeInv BY DEF Inv
<1>1. TypeInv'
  <2>1. /\ creator' \in CreatorStates
        /\ lease' \in [Native!Ends -> LeaseStates]
        /\ borrowed' \in SUBSET (1..Descriptors)
        /\ box' \in BoxStates
        /\ kernel' \in Kernels
    BY <1>0 DEF Native!Event, Native!FailsToValidate, Native!Owned, Native!Record, TypeInv
  <2>2. owner' \in OwnerRecords
    BY <1>0 DEF Native!Event, Native!FailsToValidate, Native!Owned, Native!Record, OwnerRecords,
       OwnerStates, TypeInv
  <2>3. acq' \in Acqs BY <1>0 DEF Native!Event, Native!FailsToValidate, Native!Owned, Native!Record,
     Acqs, TypeInv
  <2> QED BY <2>1, <2>2, <2>3 DEF TypeInv
<1>2. LeaseInv' /\ CreatorInv' /\ BorrowInv' /\ Native!OwnNumbersOnly'
  BY DEF Inv, Native!Event, Native!FailsToValidate, Native!Owned, Native!Record, LeaseInv, CreatorInv,
     BorrowInv,
     Native!OwnNumbersOnly, Copy, Source, Equipped
<1>3. ObjectInv'
  BY <1>0, <1>1 DEF Inv, Native!Event, Native!FailsToValidate, Native!Owned, Native!Record, TypeInv,
     Acqs, ObjectInv
<1>4. ProcessInv'
  BY <1>0, <1>1 DEF Inv, Native!Event, Native!FailsToValidate, Native!Owned, Native!Record, TypeInv,
     Acqs, ProcessInv
<1>5. OwnerInv'
  BY <1>0, <1>1 DEF Inv, Native!Event, Native!FailsToValidate, Native!Owned, Native!Record, TypeInv,
     OwnerRecords, OwnerStates,
     OwnerInv, Copy, Source
<1>6. ClaimInv'
  BY <1>0, <1>1 DEF Inv, Native!Event, Native!FailsToValidate, Native!Owned, Native!Record, TypeInv,
     OwnerRecords, OwnerStates,
     ClaimInv, ClaimIsTrue
<1> QED BY <1>1, <1>2, <1>3, <1>4, <1>5, <1>6 DEF Inv

LEMMA StartsThreadKeeps ==
  ASSUME Inv, Native!StartsThread PROVE Inv'
<1>0. TypeInv BY DEF Inv
<1>1. TypeInv'
  <2>1. /\ lease' \in [Native!Ends -> LeaseStates]
        /\ borrowed' \in SUBSET (1..Descriptors)
        /\ box' \in BoxStates
        /\ kernel' \in Kernels
    BY <1>0 DEF Native!Event, Native!Owned, Native!Record, Native!StartsThread, TypeInv
  <2>2. owner' \in OwnerRecords BY <1>0 DEF Native!Event, Native!Owned, Native!Record,
     Native!StartsThread, OwnerRecords, OwnerStates, TypeInv
  <2>3. creator' \in CreatorStates
    BY <1>0 DEF Native!Event, Native!Owned, Native!Record, Native!StartsThread, CreatorStates, TypeInv
  <2>4. acq' \in Acqs BY <1>0 DEF Native!Event, Native!Owned, Native!Record, Native!StartsThread, Acqs,
     TypeInv
  <2> QED BY <2>1, <2>2, <2>3, <2>4 DEF TypeInv
<1>2. LeaseInv' /\ Native!OwnNumbersOnly'
  BY DEF Inv, Native!Event, Native!Owned, Native!Record, Native!StartsThread, LeaseInv,
     Native!OwnNumbersOnly
<1>3. ObjectInv'
  BY <1>0, <1>1 DEF Inv, Native!Event, Native!Owned, Native!Record, Native!StartsThread, TypeInv, Acqs,
     ObjectInv
<1>4. ProcessInv'
  BY <1>0, <1>1 DEF Inv, Native!Event, Native!Owned, Native!Record, Native!StartsThread, TypeInv, Acqs,
     ProcessInv
<1>5. CreatorInv'
  <2>1. creator = "none" BY DEF Inv, OwnerInv, Native!StartsThread
  <2>2. creator' \in {"none", "born"} /\ lease' = lease /\ box' = box BY DEF Native!StartsThread
  <2> QED BY <2>1, <2>2 DEF Inv, CreatorInv, Equipped
<1>6. BorrowInv'
  BY <1>0, <1>1 DEF Inv, Native!Event, Native!Owned, Native!Record, Native!StartsThread, TypeInv,
     BorrowInv, Copy, Source, Equipped
<1>7. OwnerInv'
  <2>1. creator = "none" /\ ~owner.joined BY DEF Inv, OwnerInv, Native!StartsThread
  <2>2. owner'.joined = owner.joined /\ owner'.task /\ owner'.at # "opening" /\ owner'.closed = owner.closed
        /\ owner'.unknown = owner.unknown /\ lease' = lease
    BY <1>0 DEF TypeInv, OwnerRecords, Native!StartsThread, Native!Record
  <2> QED BY <2>1, <2>2 DEF Inv, OwnerInv
<1>8. ClaimInv'
  BY <1>0, <1>1 DEF Inv, Native!Event, Native!Owned, Native!Record, Native!StartsThread, TypeInv,
     OwnerRecords, OwnerStates, ClaimInv,
     ClaimIsTrue
<1> QED BY <1>1, <1>2, <1>3, <1>4, <1>5, <1>6, <1>7, <1>8 DEF Inv

LEMMA GrantsKeeps ==
  ASSUME Inv, Native!Grants PROVE Inv'
<1>0. TypeInv BY DEF Inv
<1>1. TypeInv'
  <2>1. /\ creator' \in CreatorStates
        /\ acq' \in Acqs
        /\ lease' \in [Native!Ends -> LeaseStates]
        /\ borrowed' \in SUBSET (1..Descriptors)
        /\ box' \in BoxStates
        /\ kernel' \in Kernels
    BY <1>0 DEF Native!Grants, TypeInv
  <2>2. owner' \in OwnerRecords BY <1>0 DEF Native!Grants, OwnerRecords, OwnerStates, TypeInv
  <2> QED BY <2>1, <2>2 DEF TypeInv
<1>2. LeaseInv' /\ ObjectInv' /\ ProcessInv' /\ CreatorInv' /\ BorrowInv' /\ Native!OwnNumbersOnly'
  BY DEF Inv, Native!Grants, LeaseInv, ObjectInv, ProcessInv, CreatorInv, BorrowInv,
     Native!OwnNumbersOnly, Copy,
     Source, Equipped
<1>3. OwnerInv'
  BY <1>0, <1>1 DEF Inv, Native!Grants, TypeInv, OwnerRecords, OwnerStates, OwnerInv, Copy, Source
<1>4. ClaimInv'
  BY <1>0, <1>1 DEF Inv, Native!Grants, TypeInv, OwnerRecords, OwnerStates, ClaimInv, ClaimIsTrue
<1> QED BY <1>1, <1>2, <1>3, <1>4 DEF Inv

LEMMA AdoptsKeeps ==
  ASSUME Inv, Native!Adopts PROVE Inv'
<1>0. TypeInv BY DEF Inv
<1>1. TypeInv'
  <2>1. /\ creator' \in CreatorStates
        /\ lease' \in [Native!Ends -> LeaseStates]
        /\ borrowed' \in SUBSET (1..Descriptors)
        /\ box' \in BoxStates
        /\ kernel' \in Kernels
    BY <1>0 DEF Native!Adopts, Native!Joinable, TypeInv
  <2>2. owner' \in OwnerRecords BY <1>0 DEF Native!Adopts, Native!Joinable, OwnerRecords, OwnerStates,
     TypeInv
  <2>3. acq' \in Acqs BY <1>0 DEF Native!Adopts, Native!Joinable, Acqs, TypeInv
  <2> QED BY <2>1, <2>2, <2>3 DEF TypeInv
<1>2. LeaseInv' /\ CreatorInv' /\ BorrowInv' /\ Native!OwnNumbersOnly'
  BY DEF Inv, Native!Adopts, Native!Joinable, LeaseInv, CreatorInv, BorrowInv, Native!OwnNumbersOnly,
     Copy, Source, Equipped
<1>3. ObjectInv'
  BY <1>0, <1>1 DEF Inv, Native!Adopts, Native!Joinable, TypeInv, Acqs, ObjectInv
<1>4. ProcessInv'
  BY <1>0, <1>1 DEF Inv, Native!Adopts, Native!Joinable, TypeInv, Acqs, ProcessInv
<1>5. OwnerInv'
  BY <1>0, <1>1 DEF Inv, Native!Adopts, Native!Joinable, TypeInv, OwnerRecords, OwnerStates, OwnerInv,
     Copy, Source
<1>6. ClaimInv'
  BY <1>0, <1>1 DEF Inv, Native!Adopts, Native!Joinable, TypeInv, OwnerRecords, OwnerStates, ClaimInv,
     ClaimIsTrue
<1> QED BY <1>1, <1>2, <1>3, <1>4, <1>5, <1>6 DEF Inv

LEMMA NoticesFailureKeeps ==
  ASSUME Inv, Native!NoticesFailure PROVE Inv'
<1>0. TypeInv BY DEF Inv
<1>1. TypeInv'
  <2>1. /\ creator' \in CreatorStates
        /\ acq' \in Acqs
        /\ lease' \in [Native!Ends -> LeaseStates]
        /\ borrowed' \in SUBSET (1..Descriptors)
        /\ box' \in BoxStates
        /\ kernel' \in Kernels
    BY <1>0 DEF Native!NoticesFailure, Native!Working, TypeInv
  <2>2. owner' \in OwnerRecords BY <1>0 DEF Native!NoticesFailure, Native!Working, OwnerRecords,
     OwnerStates, TypeInv
  <2> QED BY <2>1, <2>2 DEF TypeInv
<1>2. LeaseInv' /\ ObjectInv' /\ ProcessInv' /\ CreatorInv' /\ BorrowInv' /\ Native!OwnNumbersOnly'
  BY DEF Inv, Native!NoticesFailure, Native!Working, LeaseInv, ObjectInv, ProcessInv, CreatorInv,
     BorrowInv,
     Native!OwnNumbersOnly, Copy, Source, Equipped
<1>3. OwnerInv'
  BY <1>0, <1>1 DEF Inv, Native!NoticesFailure, Native!Working, TypeInv, OwnerRecords, OwnerStates,
     OwnerInv, Copy, Source
<1>4. ClaimInv'
  BY <1>0, <1>1 DEF Inv, Native!NoticesFailure, Native!Working, TypeInv, OwnerRecords, OwnerStates,
     ClaimInv, ClaimIsTrue
<1> QED BY <1>1, <1>2, <1>3, <1>4 DEF Inv

LEMMA StopsKeeps ==
  ASSUME Inv, Native!Stops PROVE Inv'
<1>0. TypeInv BY DEF Inv
<1>1. TypeInv'
  <2>1. /\ creator' \in CreatorStates
        /\ lease' \in [Native!Ends -> LeaseStates]
        /\ borrowed' \in SUBSET (1..Descriptors)
        /\ box' \in BoxStates
        /\ kernel' \in Kernels
    BY <1>0 DEF Native!Event, Native!Record, Native!Stops, Native!Working, TypeInv
  <2>2. owner' \in OwnerRecords BY <1>0 DEF Native!Event, Native!Record, Native!Stops, Native!Working,
     OwnerRecords, OwnerStates, TypeInv
  <2>3. acq' \in Acqs BY <1>0 DEF Native!Event, Native!Record, Native!Stops, Native!Working, Acqs,
     TypeInv
  <2> QED BY <2>1, <2>2, <2>3 DEF TypeInv
<1>2. LeaseInv' /\ CreatorInv' /\ BorrowInv' /\ Native!OwnNumbersOnly'
  BY DEF Inv, Native!Event, Native!Record, Native!Stops, Native!Working, LeaseInv, CreatorInv,
     BorrowInv, Native!OwnNumbersOnly, Copy,
     Source, Equipped
<1>3. ObjectInv'
  BY <1>0, <1>1 DEF Inv, Native!Event, Native!Record, Native!Stops, Native!Working, TypeInv, Acqs,
     ObjectInv
<1>4. ProcessInv'
  BY <1>0, <1>1 DEF Inv, Native!Event, Native!Record, Native!Stops, Native!Working, TypeInv, Acqs,
     ProcessInv
<1>5. OwnerInv'
  BY <1>0, <1>1 DEF Inv, Native!Event, Native!Record, Native!Stops, Native!Working, TypeInv,
     OwnerRecords, OwnerStates, OwnerInv,
     Copy, Source
<1>6. ClaimInv'
  BY <1>0, <1>1 DEF Inv, Native!Event, Native!Record, Native!Stops, Native!Working, TypeInv,
     OwnerRecords, OwnerStates, ClaimInv,
     ClaimIsTrue
<1> QED BY <1>1, <1>2, <1>3, <1>4, <1>5, <1>6 DEF Inv

LEMMA WorkEndsKeeps ==
  ASSUME Inv, Native!WorkEnds PROVE Inv'
<1>0. TypeInv BY DEF Inv
<1>1. TypeInv'
  <2>1. /\ creator' \in CreatorStates
        /\ acq' \in Acqs
        /\ lease' \in [Native!Ends -> LeaseStates]
        /\ borrowed' \in SUBSET (1..Descriptors)
        /\ box' \in BoxStates
        /\ kernel' \in Kernels
    BY <1>0 DEF Native!WorkEnds, TypeInv
  <2>2. owner' \in OwnerRecords BY <1>0 DEF Native!WorkEnds, OwnerRecords, OwnerStates, TypeInv
  <2> QED BY <2>1, <2>2 DEF TypeInv
<1>2. LeaseInv' /\ ObjectInv' /\ ProcessInv' /\ CreatorInv' /\ BorrowInv' /\ Native!OwnNumbersOnly'
  BY DEF Inv, Native!WorkEnds, LeaseInv, ObjectInv, ProcessInv, CreatorInv, BorrowInv,
     Native!OwnNumbersOnly,
     Copy, Source, Equipped
<1>3. OwnerInv'
  BY <1>0, <1>1 DEF Inv, Native!WorkEnds, TypeInv, OwnerRecords, OwnerStates, OwnerInv, Copy, Source
<1>4. ClaimInv'
  BY <1>0, <1>1 DEF Inv, Native!WorkEnds, TypeInv, OwnerRecords, OwnerStates, ClaimInv, ClaimIsTrue
<1> QED BY <1>1, <1>2, <1>3, <1>4 DEF Inv

LEMMA PublishesKeeps ==
  ASSUME Inv, Native!Publishes PROVE Inv'
<1>0. TypeInv BY DEF Inv
<1>1. TypeInv'
  <2>1. /\ acq' \in Acqs
        /\ lease' \in [Native!Ends -> LeaseStates]
        /\ borrowed' \in SUBSET (1..Descriptors)
        /\ box' \in BoxStates
        /\ kernel' \in Kernels
    BY <1>0 DEF Native!Publishes, TypeInv
  <2>2. owner' \in OwnerRecords BY <1>0 DEF Native!Publishes, OwnerRecords, OwnerStates, TypeInv
  <2>3. creator' \in CreatorStates BY <1>0 DEF Native!Publishes, CreatorStates, TypeInv
  <2> QED BY <2>1, <2>2, <2>3 DEF TypeInv
<1>2. LeaseInv' /\ ObjectInv' /\ Native!OwnNumbersOnly'
  BY DEF Inv, Native!Publishes, LeaseInv, ObjectInv, Native!OwnNumbersOnly
<1>3. ProcessInv'
  BY <1>0, <1>1 DEF Inv, Native!Publishes, TypeInv, ProcessInv
<1>4. CreatorInv'
  BY <1>0, <1>1 DEF Inv, Native!Publishes, TypeInv, CreatorInv, Copy, Source, Equipped
<1>5. BorrowInv'
  BY <1>0, <1>1 DEF Inv, Native!Publishes, TypeInv, BorrowInv, Copy, Source, Equipped
<1>6. OwnerInv'
  BY <1>0, <1>1 DEF Inv, Native!Publishes, TypeInv, OwnerRecords, OwnerStates, OwnerInv, Copy, Source
<1>7. ClaimInv'
  BY <1>0, <1>1 DEF Inv, Native!Publishes, TypeInv, OwnerRecords, OwnerStates, ClaimInv, ClaimIsTrue
<1> QED BY <1>1, <1>2, <1>3, <1>4, <1>5, <1>6, <1>7 DEF Inv

LEMMA WithdrawsKeeps ==
  ASSUME Inv, Native!Withdraws PROVE Inv'
<1>0. TypeInv BY DEF Inv
<1>1. TypeInv'
  <2>1. /\ owner' \in OwnerRecords
        /\ acq' \in Acqs
        /\ lease' \in [Native!Ends -> LeaseStates]
        /\ borrowed' \in SUBSET (1..Descriptors)
        /\ box' \in BoxStates
        /\ kernel' \in Kernels
    BY <1>0 DEF Native!Withdraws, TypeInv
  <2>2. creator' \in CreatorStates BY <1>0 DEF Native!Withdraws, CreatorStates, TypeInv
  <2> QED BY <2>1, <2>2 DEF TypeInv
<1>2. LeaseInv' /\ ObjectInv' /\ Native!OwnNumbersOnly'
  BY DEF Inv, Native!Withdraws, LeaseInv, ObjectInv, Native!OwnNumbersOnly
<1>3. ProcessInv'
  BY <1>0, <1>1 DEF Inv, Native!Withdraws, TypeInv, ProcessInv
<1>4. CreatorInv'
  BY <1>0, <1>1 DEF Inv, Native!Withdraws, TypeInv, CreatorInv, Copy, Source, Equipped
<1>5. BorrowInv'
  BY <1>0, <1>1 DEF Inv, Native!Withdraws, TypeInv, BorrowInv, Copy, Source, Equipped
<1>6. OwnerInv'
  BY <1>0, <1>1 DEF Inv, Native!Withdraws, TypeInv, OwnerInv, Copy, Source
<1>7. ClaimInv'
  BY <1>0, <1>1 DEF Inv, Native!Withdraws, TypeInv, ClaimInv, ClaimIsTrue
<1> QED BY <1>1, <1>2, <1>3, <1>4, <1>5, <1>6, <1>7 DEF Inv

LEMMA BeginsKeeps ==
  ASSUME Inv, Native!Begins PROVE Inv'
<1>0. TypeInv BY DEF Inv
<1>1. TypeInv'
  <2>1. /\ owner' \in OwnerRecords
        /\ lease' \in [Native!Ends -> LeaseStates]
        /\ borrowed' \in SUBSET (1..Descriptors)
        /\ box' \in BoxStates
        /\ kernel' \in Kernels
    BY <1>0 DEF Native!Begins, TypeInv
  <2>2. creator' \in CreatorStates BY <1>0 DEF Native!Begins, CreatorStates, TypeInv
  <2>3. acq' \in Acqs BY <1>0 DEF Native!Begins, Acqs, TypeInv
  <2> QED BY <2>1, <2>2, <2>3 DEF TypeInv
<1>2. LeaseInv' /\ Native!OwnNumbersOnly'
  BY DEF Inv, Native!Begins, LeaseInv, Native!OwnNumbersOnly
<1>3. ObjectInv'
  BY <1>0, <1>1 DEF Inv, Native!Begins, TypeInv, Acqs, ObjectInv
<1>4. ProcessInv'
  BY <1>0, <1>1 DEF Inv, Native!Begins, TypeInv, Acqs, ProcessInv
<1>5. CreatorInv'
  BY <1>0, <1>1 DEF Inv, Native!Begins, TypeInv, CreatorInv, Copy, Source, Equipped
<1>6. BorrowInv'
  BY <1>0, <1>1 DEF Inv, Native!Begins, TypeInv, BorrowInv, Copy, Source, Equipped
<1>7. OwnerInv'
  BY <1>0, <1>1 DEF Inv, Native!Begins, TypeInv, OwnerInv, Copy, Source
<1>8. ClaimInv'
  BY <1>0, <1>1 DEF Inv, Native!Begins, TypeInv, ClaimInv, ClaimIsTrue
<1> QED BY <1>1, <1>2, <1>3, <1>4, <1>5, <1>6, <1>7, <1>8 DEF Inv

LEMMA BodyFailsKeeps ==
  ASSUME Inv, Native!BodyFails PROVE Inv'
<1>0. TypeInv BY DEF Inv
<1>1. TypeInv'
  <2>1. /\ lease' \in [Native!Ends -> LeaseStates]
        /\ borrowed' \in SUBSET (1..Descriptors)
        /\ box' \in BoxStates
        /\ kernel' \in Kernels
    BY <1>0 DEF Native!BodyFails, Native!Event, Native!Preparing, Native!Record, TypeInv
  <2>2. owner' \in OwnerRecords BY <1>0 DEF Native!BodyFails, Native!Event, Native!Preparing,
     Native!Record, OwnerRecords, OwnerStates, TypeInv
  <2>3. creator' \in CreatorStates
    BY <1>0 DEF Native!BodyFails, Native!Event, Native!Preparing, Native!Record, CreatorStates, TypeInv
  <2>4. acq' \in Acqs BY <1>0 DEF Native!BodyFails, Native!Event, Native!Preparing, Native!Record,
     Acqs, TypeInv
  <2> QED BY <2>1, <2>2, <2>3, <2>4 DEF TypeInv
<1>2. LeaseInv' /\ Native!OwnNumbersOnly'
  BY DEF Inv, Native!BodyFails, Native!Event, Native!Preparing, Native!Record, LeaseInv,
     Native!OwnNumbersOnly
<1>3. ObjectInv'
  BY <1>0, <1>1 DEF Inv, Native!BodyFails, Native!Event, Native!Preparing, Native!Record, TypeInv,
     Acqs, ObjectInv
<1>4. ProcessInv'
  BY <1>0, <1>1 DEF Inv, Native!BodyFails, Native!Event, Native!Preparing, Native!Record, TypeInv,
     Acqs, ProcessInv
<1>5. CreatorInv'
  BY <1>0, <1>1 DEF Inv, Native!BodyFails, Native!Event, Native!Preparing, Native!Record, TypeInv,
     CreatorInv, Copy, Source,
     Equipped
<1>6. BorrowInv'
  BY <1>0, <1>1 DEF Inv, Native!BodyFails, Native!Event, Native!Preparing, Native!Record, TypeInv,
     BorrowInv, Copy, Source, Equipped
<1>7. OwnerInv'
  BY <1>0, <1>1 DEF Inv, Native!BodyFails, Native!Event, Native!Preparing, Native!Record, TypeInv,
     OwnerRecords, OwnerStates,
     OwnerInv, Copy, Source
<1>8. ClaimInv'
  BY <1>0, <1>1 DEF Inv, Native!BodyFails, Native!Event, Native!Preparing, Native!Record, TypeInv,
     OwnerRecords, OwnerStates,
     ClaimInv, ClaimIsTrue
<1> QED BY <1>1, <1>2, <1>3, <1>4, <1>5, <1>6, <1>7, <1>8 DEF Inv

LEMMA BorrowsKeeps ==
  ASSUME NEW i \in 1..Descriptors, Inv, Native!Borrows(i) PROVE Inv'
<1>0. TypeInv BY DEF Inv
<1>1. TypeInv'
  <2>1. /\ owner' \in OwnerRecords
        /\ acq' \in Acqs
        /\ lease' \in [Native!Ends -> LeaseStates]
        /\ box' \in BoxStates
        /\ kernel' \in Kernels
    BY <1>0 DEF Native!Borrows, Native!Owned, TypeInv
  <2>2. creator' \in CreatorStates BY <1>0 DEF Native!Borrows, Native!Owned, CreatorStates, TypeInv
  <2>3. borrowed' \in SUBSET (1..Descriptors) BY <1>0 DEF Native!Borrows, Native!Owned, TypeInv
  <2> QED BY <2>1, <2>2, <2>3 DEF TypeInv
<1>2. LeaseInv' /\ ObjectInv' /\ Native!OwnNumbersOnly'
  BY DEF Inv, Native!Borrows, Native!Owned, LeaseInv, ObjectInv, Native!OwnNumbersOnly
<1>3. ProcessInv'
  BY <1>0, <1>1, EndsType DEF Inv, Native!Borrows, Native!Owned, TypeInv, ProcessInv
<1>4. CreatorInv'
  BY <1>0, <1>1, EndsType DEF Inv, Native!Borrows, Native!Owned, TypeInv, CreatorInv, Copy, Source,
     Equipped
<1>5. BorrowInv'
  BY <1>0, <1>1, EndsType DEF Inv, Native!Borrows, Native!Owned, TypeInv, BorrowInv, Copy, Source,
     Equipped
<1>6. OwnerInv'
  BY <1>0, <1>1, EndsType DEF Inv, Native!Borrows, Native!Owned, TypeInv, OwnerInv, Copy, Source
<1>7. ClaimInv'
  BY <1>0, <1>1, EndsType DEF Inv, Native!Borrows, Native!Owned, TypeInv, ClaimInv, ClaimIsTrue
<1> QED BY <1>1, <1>2, <1>3, <1>4, <1>5, <1>6, <1>7 DEF Inv

LEMMA CopiesKeeps ==
  ASSUME NEW i \in 1..Descriptors, Inv, Native!Copies(i) PROVE Inv'
<1>0. TypeInv BY DEF Inv
<1>1. TypeInv'
  <2>1. borrowed' \in SUBSET (1..Descriptors) /\ box' \in BoxStates
    BY <1>0 DEF Native!Copies, Native!Event, Native!Record, TypeInv
  <2>2. owner' \in OwnerRecords BY <1>0 DEF Native!Copies, Native!Event, Native!Record, OwnerRecords,
     OwnerStates, TypeInv
  <2>3. creator' \in CreatorStates BY <1>0 DEF Native!Copies, Native!Event, Native!Record,
     CreatorStates, TypeInv
  <2>4. acq' \in Acqs BY <1>0 DEF Native!Copies, Native!Event, Native!Record, Acqs, TypeInv
  <2>5. lease' \in [Native!Ends -> LeaseStates]
    BY <1>0, EndsType DEF Native!Copies, Native!Event, Native!Record, LeaseStates, TypeInv
  <2>6. kernel' \in Kernels BY <1>0, EndsType DEF Native!Copies, Native!Event, Native!Record, Kernels,
     TypeInv
  <2> QED BY <2>1, <2>2, <2>3, <2>4, <2>5, <2>6 DEF TypeInv
<1>2. LeaseInv'
  BY <1>0, <1>1, EndsType DEF Inv, Native!Copies, Native!Event, Native!Record, TypeInv, Kernels, LeaseInv
<1>3. ObjectInv'
  BY <1>0, <1>1, EndsType DEF Inv, Native!Copies, Native!Event, Native!Record, TypeInv, Kernels, Acqs,
     ObjectInv
<1>4. ProcessInv'
  BY <1>0, <1>1, EndsType DEF Inv, Native!Copies, Native!Event, Native!Record, TypeInv, Acqs, Kernels,
     ProcessInv
<1>5. CreatorInv'
  <2>1. \A j \in 1..Descriptors : lease'[Copy(j)] \in {"NEW", "OPEN"} \/ creator' = "retiring"
    BY <1>0, EndsType DEF Inv, TypeInv, CreatorInv, Native!Copies, Copy
  <2>2. creator' = "making" => \A j \in 1..Descriptors : lease'[Copy(j)] = "OPEN"
    <3> SUFFICES ASSUME creator' = "making", NEW j \in 1..Descriptors PROVE lease'[Copy(j)] = "OPEN"
      OBVIOUS
    <3>1. i = Descriptors /\ lease' = [lease EXCEPT ![<<"copy", i>>] = "OPEN"]
      BY DEF Native!Copies
    <3>2. CASE j = i
      BY <1>0, <3>1, <3>2, EndsType DEF TypeInv, Copy
    <3>3. CASE j # i
      <4>1. j \in 1..(i - 1) BY <3>1, <3>3
      <4>2. lease[Copy(j)] \in {"NEW", "OPEN"} BY DEF Inv, CreatorInv, Native!Copies
      <4>3. lease[Copy(j)] # "NEW" BY <4>1 DEF Native!Copies, Copy
      <4>4. Copy(j) # <<"copy", i>> BY <3>3 DEF Copy
      <4> QED BY <1>0, <3>1, <4>2, <4>3, <4>4, EndsType DEF TypeInv, Copy
    <3> QED BY <3>2, <3>3
  <2>3. creator' \in {"copying", "making", "retiring"} BY DEF Native!Copies
  <2> QED BY <2>1, <2>2, <2>3 DEF Inv, Native!Copies, CreatorInv, Equipped
<1>6. BorrowInv'
  <2>1. \A j \in 1..Descriptors : lease'[Source(j)] = lease[Source(j)]
    BY <1>0, EndsType DEF TypeInv, Native!Copies, Source
  <2>2. borrowed' = borrowed /\ creator = "copying" /\ borrowed \subseteq 1..Descriptors
    BY <1>0 DEF Native!Copies, TypeInv
  <2> QED BY <2>1, <2>2 DEF Inv, BorrowInv
<1>7. OwnerInv'
  <2>1. \A j \in 1..Descriptors : lease'[Source(j)] = lease[Source(j)]
    BY <1>0, EndsType DEF TypeInv, Native!Copies, Source
  <2>2. owner'.joined = owner.joined /\ owner'.task = owner.task /\ owner'.closed = owner.closed
        /\ owner'.unknown = owner.unknown /\ owner'.at = owner.at /\ owner.closed \subseteq 1..Descriptors
    BY <1>0 DEF TypeInv, OwnerRecords, Native!Copies, Native!Record
  <2>3. creator = "copying" BY DEF Native!Copies
  <2> QED BY <2>1, <2>2, <2>3 DEF Inv, OwnerInv
<1>8. ClaimInv'
  BY <1>0, <1>1, EndsType DEF Inv, Native!Copies, Native!Event, Native!Record, TypeInv, OwnerRecords,
     OwnerStates, Kernels,
     ClaimInv, ClaimIsTrue
<1>9. Native!OwnNumbersOnly'
  BY <1>0, <1>1, EndsType DEF Inv, Native!Copies, Native!Event, Native!Record, TypeInv,
     Native!OwnNumbersOnly, LeaseInv,
     BorrowInv, Copy, Source, Equipped, CreatorInv, ProcessInv
<1> QED BY <1>1, <1>2, <1>3, <1>4, <1>5, <1>6, <1>7, <1>8, <1>9 DEF Inv

LEMMA MakesKeeps ==
  ASSUME Inv, Native!Makes PROVE Inv'
<1>0. TypeInv BY DEF Inv
<1>1. TypeInv'
  <2>1. lease' \in [Native!Ends -> LeaseStates] /\ borrowed' \in SUBSET (1..Descriptors)
    BY <1>0 DEF Native!Event, Native!Makes, Native!Record, TypeInv
  <2>2. owner' \in OwnerRecords BY <1>0 DEF Native!Event, Native!Makes, Native!Record, OwnerRecords,
     OwnerStates, TypeInv
  <2>3. creator' \in CreatorStates BY <1>0 DEF Native!Event, Native!Makes, Native!Record,
     CreatorStates, TypeInv
  <2>4. acq' \in Acqs BY <1>0 DEF Native!Event, Native!Makes, Native!Record, Acqs, TypeInv
  <2>5. box' \in BoxStates BY <1>0 DEF Native!Event, Native!Makes, Native!Record, BoxStates, TypeInv
  <2>6. kernel' \in Kernels BY <1>0 DEF Native!Event, Native!Makes, Native!Record, Kernels, TypeInv
  <2> QED BY <2>1, <2>2, <2>3, <2>4, <2>5, <2>6 DEF TypeInv
<1>2. Native!OwnNumbersOnly'
  BY DEF Inv, Native!Event, Native!Makes, Native!Record, Native!OwnNumbersOnly
<1>3. LeaseInv'
  BY <1>0, <1>1 DEF Inv, Native!Event, Native!Makes, Native!Record, TypeInv, Kernels, LeaseInv
<1>4. ObjectInv'
  BY <1>0, <1>1 DEF Inv, Native!Event, Native!Makes, Native!Record, TypeInv, Kernels, Acqs, ObjectInv
<1>5. ProcessInv'
  BY <1>0, <1>1 DEF Inv, Native!Event, Native!Makes, Native!Record, TypeInv, Acqs, Kernels, ProcessInv
<1>6. CreatorInv'
  BY <1>0, <1>1 DEF Inv, Native!Event, Native!Makes, Native!Record, TypeInv, CreatorInv, Copy, Source,
     Equipped
<1>7. BorrowInv'
  BY <1>0, <1>1 DEF Inv, Native!Event, Native!Makes, Native!Record, TypeInv, BorrowInv, Copy, Source,
     Equipped
<1>8. OwnerInv'
  BY <1>0, <1>1 DEF Inv, Native!Event, Native!Makes, Native!Record, TypeInv, OwnerRecords, OwnerStates,
     OwnerInv, Copy, Source
<1>9. ClaimInv'
  BY <1>0, <1>1 DEF Inv, Native!Event, Native!Makes, Native!Record, TypeInv, OwnerRecords, OwnerStates,
     Kernels, ClaimInv,
     ClaimIsTrue
<1> QED BY <1>1, <1>2, <1>3, <1>4, <1>5, <1>6, <1>7, <1>8, <1>9 DEF Inv

LEMMA MapsKeeps ==
  ASSUME Inv, Native!Maps PROVE Inv'
<1>0. TypeInv BY DEF Inv
<1>1. TypeInv'
  <2>1. lease' \in [Native!Ends -> LeaseStates] /\ borrowed' \in SUBSET (1..Descriptors) /\ kernel' \in Kernels
    BY <1>0 DEF Native!Event, Native!Maps, Native!Record, TypeInv
  <2>2. owner' \in OwnerRecords BY <1>0 DEF Native!Event, Native!Maps, Native!Record, OwnerRecords,
     OwnerStates, TypeInv
  <2>3. creator' \in CreatorStates BY <1>0 DEF Native!Event, Native!Maps, Native!Record, CreatorStates,
     TypeInv
  <2>4. acq' \in Acqs BY <1>0 DEF Native!Event, Native!Maps, Native!Record, Acqs, TypeInv
  <2>5. box' \in BoxStates BY <1>0 DEF Native!Event, Native!Maps, Native!Record, BoxStates, TypeInv
  <2> QED BY <2>1, <2>2, <2>3, <2>4, <2>5 DEF TypeInv
<1>2. LeaseInv' /\ Native!OwnNumbersOnly'
  BY DEF Inv, Native!Event, Native!Maps, Native!Record, LeaseInv, Native!OwnNumbersOnly
<1>3. ObjectInv'
  BY <1>0, <1>1 DEF Inv, Native!Event, Native!Maps, Native!Record, TypeInv, Acqs, ObjectInv
<1>4. ProcessInv'
  BY <1>0, <1>1 DEF Inv, Native!Event, Native!Maps, Native!Record, TypeInv, Acqs, ProcessInv
<1>5. CreatorInv'
  BY <1>0, <1>1 DEF Inv, Native!Event, Native!Maps, Native!Record, TypeInv, CreatorInv, Copy, Source,
     Equipped
<1>6. BorrowInv'
  BY <1>0, <1>1 DEF Inv, Native!Event, Native!Maps, Native!Record, TypeInv, BorrowInv, Copy, Source,
     Equipped
<1>7. OwnerInv'
  BY <1>0, <1>1 DEF Inv, Native!Event, Native!Maps, Native!Record, TypeInv, OwnerRecords, OwnerStates,
     OwnerInv, Copy, Source
<1>8. ClaimInv'
  BY <1>0, <1>1 DEF Inv, Native!Event, Native!Maps, Native!Record, TypeInv, OwnerRecords, OwnerStates,
     ClaimInv, ClaimIsTrue
<1> QED BY <1>1, <1>2, <1>3, <1>4, <1>5, <1>6, <1>7, <1>8 DEF Inv

LEMMA AttemptsKeeps ==
  ASSUME Inv, Native!Attempts PROVE Inv'
<1>0. TypeInv BY DEF Inv
<1>1. TypeInv'
  <2>1. /\ owner' \in OwnerRecords
        /\ lease' \in [Native!Ends -> LeaseStates]
        /\ borrowed' \in SUBSET (1..Descriptors)
        /\ box' \in BoxStates
        /\ kernel' \in Kernels
    BY <1>0 DEF Native!Attempts, TypeInv
  <2>2. creator' \in CreatorStates BY <1>0 DEF Native!Attempts, CreatorStates, TypeInv
  <2>3. acq' \in Acqs BY <1>0 DEF Native!Attempts, Acqs, TypeInv
  <2> QED BY <2>1, <2>2, <2>3 DEF TypeInv
<1>2. LeaseInv' /\ Native!OwnNumbersOnly'
  BY DEF Inv, Native!Attempts, LeaseInv, Native!OwnNumbersOnly
<1>3. ObjectInv'
  BY <1>0, <1>1 DEF Inv, Native!Attempts, TypeInv, Acqs, ObjectInv
<1>4. ProcessInv'
  BY <1>0, <1>1 DEF Inv, Native!Attempts, TypeInv, Acqs, ProcessInv
<1>5. CreatorInv'
  BY <1>0, <1>1 DEF Inv, Native!Attempts, TypeInv, CreatorInv, Copy, Source, Equipped
<1>6. BorrowInv'
  BY <1>0, <1>1 DEF Inv, Native!Attempts, TypeInv, BorrowInv, Copy, Source, Equipped
<1>7. OwnerInv'
  BY <1>0, <1>1 DEF Inv, Native!Attempts, TypeInv, OwnerInv, Copy, Source
<1>8. ClaimInv'
  BY <1>0, <1>1 DEF Inv, Native!Attempts, TypeInv, ClaimInv, ClaimIsTrue
<1> QED BY <1>1, <1>2, <1>3, <1>4, <1>5, <1>6, <1>7, <1>8 DEF Inv

LEMMA SpawnsKeeps ==
  ASSUME Inv, Native!Spawns PROVE Inv'
<1>0. TypeInv BY DEF Inv
<1>1. TypeInv'
  <2>1. lease' \in [Native!Ends -> LeaseStates] /\ borrowed' \in SUBSET (1..Descriptors) /\ box' \in BoxStates
    BY <1>0 DEF Native!Event, Native!Record, Native!SpawnFails, Native!Spawns, TypeInv
  <2>2. owner' \in OwnerRecords BY <1>0 DEF Native!Event, Native!Record, Native!SpawnFails,
     Native!Spawns, OwnerRecords, OwnerStates, TypeInv
  <2>3. creator' \in CreatorStates BY <1>0 DEF Native!Event, Native!Record, Native!SpawnFails,
     Native!Spawns, CreatorStates, TypeInv
  <2>4. acq' \in Acqs BY ZenonT(60), <1>0 DEF Native!Event, Native!Record, Native!SpawnFails,
     Native!Spawns, Acqs, TypeInv
  <2>5. kernel' \in Kernels BY <1>0 DEF Native!Event, Native!Record, Native!SpawnFails, Native!Spawns,
     Kernels, TypeInv
  <2> QED BY <2>1, <2>2, <2>3, <2>4, <2>5 DEF TypeInv
<1>2. LeaseInv'
  BY <1>0, <1>1 DEF Inv, Native!Event, Native!Record, Native!SpawnFails, Native!Spawns, TypeInv,
     Kernels, LeaseInv
<1>3. ObjectInv'
  <2>1. acq'.lost = acq.lost
    BY <1>0 DEF TypeInv, Acqs, Native!Spawns, Native!Record, Native!SpawnFails
  <2>2. kernel'.boxed = kernel.boxed /\ box' = box
    BY <1>0 DEF TypeInv, Kernels, Native!Spawns
  <2> QED BY <2>1, <2>2 DEF Inv, ObjectInv
<1>4. ProcessInv'
  <2>1. acq.attempted /\ creator' = "retiring" BY DEF Inv, ProcessInv, Native!Spawns
  <2>2. acq'.attempted BY <1>0, <2>1 DEF TypeInv, Acqs, Native!Spawns, Native!Record, Native!SpawnFails
  <2>3. \/ acq'.child = "OWNED" /\ kernel'.process = "alive"
        \/ acq'.child = "UNKNOWN"
    BY <1>0, <2>1 DEF TypeInv, Acqs, Kernels, Native!Spawns, Native!Record, Native!SpawnFails
  <2> QED BY <2>1, <2>2, <2>3 DEF ProcessInv
<1>5. CreatorInv'
  BY <1>0, <1>1 DEF Inv, Native!Event, Native!Record, Native!SpawnFails, Native!Spawns, TypeInv,
     CreatorInv, Copy, Source, Equipped
<1>6. BorrowInv'
  BY <1>0, <1>1 DEF Inv, Native!Event, Native!Record, Native!SpawnFails, Native!Spawns, TypeInv,
     BorrowInv, Copy, Source, Equipped
<1>7. OwnerInv'
  BY <1>0, <1>1 DEF Inv, Native!Event, Native!Record, Native!SpawnFails, Native!Spawns, TypeInv,
     OwnerRecords, OwnerStates, OwnerInv,
     Copy, Source
<1>8. ClaimInv'
  BY <1>0, <1>1 DEF Inv, Native!Event, Native!Record, Native!SpawnFails, Native!Spawns, TypeInv,
     OwnerRecords, OwnerStates, Kernels,
     ClaimInv, ClaimIsTrue
<1>9. Native!OwnNumbersOnly'
  <2>1. \A i \in 1..Descriptors : <<"copy", i>> \in kernel.fds
    BY EndsType DEF Inv, Native!Spawns, CreatorInv, Equipped, Copy, LeaseInv
  <2> QED BY <2>1 DEF Inv, Native!Spawns, Native!OwnNumbersOnly
<1> QED BY <1>1, <1>2, <1>3, <1>4, <1>5, <1>6, <1>7, <1>8, <1>9 DEF Inv

LEMMA DestroysKeeps ==
  ASSUME Inv, Native!Destroys PROVE Inv'
<1>0. TypeInv BY DEF Inv
<1>1. TypeInv'
  <2>1. creator' \in CreatorStates /\ lease' \in [Native!Ends -> LeaseStates] /\ borrowed' \in SUBSET (1..Descriptors)
    BY <1>0 DEF Native!Destroys, Native!Event, Native!Record, TypeInv
  <2>2. owner' \in OwnerRecords BY <1>0 DEF Native!Destroys, Native!Event, Native!Record, OwnerRecords,
     OwnerStates, TypeInv
  <2>3. acq' \in Acqs BY <1>0 DEF Native!Destroys, Native!Event, Native!Record, Acqs, TypeInv
  <2>4. box' \in BoxStates BY <1>0 DEF Native!Destroys, Native!Event, Native!Record, BoxStates, TypeInv
  <2>5. kernel' \in Kernels BY <1>0 DEF Native!Destroys, Native!Event, Native!Record, Kernels, TypeInv
  <2> QED BY <2>1, <2>2, <2>3, <2>4, <2>5 DEF TypeInv
<1>2. BorrowInv' /\ Native!OwnNumbersOnly'
  BY DEF Inv, Native!Destroys, Native!Event, Native!Record, BorrowInv, Native!OwnNumbersOnly, Copy,
     Source, Equipped
<1>3. LeaseInv'
  BY <1>0, <1>1 DEF Inv, Native!Destroys, Native!Event, Native!Record, TypeInv, Kernels, LeaseInv
<1>4. ObjectInv'
  BY <1>0, <1>1 DEF Inv, Native!Destroys, Native!Event, Native!Record, TypeInv, Kernels, Acqs, ObjectInv
<1>5. ProcessInv'
  BY ZenonT(60), <1>0, <1>1 DEF Inv, Native!Destroys, Native!Event, Native!Record, TypeInv, Acqs,
     Kernels, ProcessInv
<1>6. CreatorInv'
  BY <1>0, <1>1 DEF Inv, Native!Destroys, Native!Event, Native!Record, TypeInv, CreatorInv, Copy,
     Source, Equipped
<1>7. OwnerInv'
  BY <1>0, <1>1 DEF Inv, Native!Destroys, Native!Event, Native!Record, TypeInv, OwnerRecords,
     OwnerStates, OwnerInv, Copy, Source
<1>8. ClaimInv'
  BY <1>0, <1>1 DEF Inv, Native!Destroys, Native!Event, Native!Record, TypeInv, OwnerRecords,
     OwnerStates, Kernels, ClaimInv,
     ClaimIsTrue
<1> QED BY <1>1, <1>2, <1>3, <1>4, <1>5, <1>6, <1>7, <1>8 DEF Inv

LEMMA ClosesCopyKeeps ==
  ASSUME NEW i \in 1..Descriptors, Inv, Native!ClosesCopy(i) PROVE Inv'
<1>0. TypeInv BY DEF Inv
<1>1. TypeInv'
  <2>1. creator' \in CreatorStates /\ borrowed' \in SUBSET (1..Descriptors) /\ box' \in BoxStates
    BY <1>0 DEF Native!CloseLost, Native!Closed, Native!ClosesCopy, Native!Event, Native!Owned,
       Native!Record, TypeInv
  <2>2. owner' \in OwnerRecords
    BY <1>0 DEF Native!CloseLost, Native!Closed, Native!ClosesCopy, Native!Event, Native!Owned,
       Native!Record, OwnerRecords, OwnerStates, TypeInv
  <2>3. acq' \in Acqs BY <1>0 DEF Native!CloseLost, Native!Closed, Native!ClosesCopy, Native!Event,
     Native!Owned, Native!Record, Acqs, TypeInv
  <2>4. lease' \in [Native!Ends -> LeaseStates]
    BY <1>0, EndsType DEF Native!CloseLost, Native!Closed, Native!ClosesCopy, Native!Event,
       Native!Owned, Native!Record, LeaseStates, TypeInv
  <2>5. kernel' \in Kernels
    BY <1>0, EndsType DEF Native!CloseLost, Native!Closed, Native!ClosesCopy, Native!Event,
       Native!Owned, Native!Record, Kernels, TypeInv
  <2> QED BY <2>1, <2>2, <2>3, <2>4, <2>5 DEF TypeInv
<1>2. LeaseInv'
  BY <1>0, <1>1, EndsType DEF Inv, Native!CloseLost, Native!Closed, Native!ClosesCopy, Native!Event,
     Native!Owned, Native!Record, TypeInv,
     Kernels, LeaseInv
<1>3. ObjectInv'
  BY <1>0, <1>1, EndsType DEF Inv, Native!CloseLost, Native!Closed, Native!ClosesCopy, Native!Event,
     Native!Owned, Native!Record, TypeInv,
     Kernels, Acqs, ObjectInv
<1>4. ProcessInv'
  BY <1>0, <1>1, EndsType DEF Inv, Native!CloseLost, Native!Closed, Native!ClosesCopy, Native!Event,
     Native!Owned, Native!Record, TypeInv,
     Acqs, Kernels, ProcessInv
<1>5. CreatorInv'
  BY <1>0, <1>1, EndsType DEF Inv, Native!CloseLost, Native!Closed, Native!ClosesCopy, Native!Event,
     Native!Owned, Native!Record, TypeInv,
     CreatorInv, Copy, Source, Equipped
<1>6. BorrowInv'
  BY ZenonT(60), <1>0, <1>1, EndsType DEF Inv, Native!CloseLost, Native!Closed, Native!ClosesCopy,
     Native!Event, Native!Owned, Native!Record, TypeInv,
     BorrowInv, Copy, Source, Equipped
<1>7. OwnerInv'
  <2>1. \A j \in 1..Descriptors : lease'[Source(j)] = lease[Source(j)]
    BY <1>0, EndsType DEF TypeInv, Native!ClosesCopy, Native!Closed, Native!CloseLost, Source
  <2>2. owner'.joined = owner.joined /\ owner'.task = owner.task /\ owner'.closed = owner.closed
        /\ owner'.unknown = owner.unknown /\ owner'.at = owner.at /\ owner.closed \subseteq 1..Descriptors
    BY <1>0 DEF TypeInv, OwnerRecords, Native!ClosesCopy, Native!Record
  <2>3. creator = "retiring" /\ creator' = creator BY DEF Native!ClosesCopy
  <2> QED BY <2>1, <2>2, <2>3 DEF Inv, OwnerInv
<1>8. ClaimInv'
  BY <1>0, <1>1, EndsType DEF Inv, Native!CloseLost, Native!Closed, Native!ClosesCopy, Native!Event,
     Native!Owned, Native!Record, TypeInv,
     OwnerRecords, OwnerStates, Kernels, ClaimInv, ClaimIsTrue
<1>9. Native!OwnNumbersOnly'
  BY <1>0, <1>1, EndsType DEF Inv, Native!CloseLost, Native!Closed, Native!ClosesCopy, Native!Event,
     Native!Owned, Native!Record, TypeInv,
     Native!OwnNumbersOnly, LeaseInv, BorrowInv, Copy, Source, Equipped, CreatorInv, ProcessInv
<1> QED BY <1>1, <1>2, <1>3, <1>4, <1>5, <1>6, <1>7, <1>8, <1>9 DEF Inv

LEMMA RetiresKeeps ==
  ASSUME Inv, Native!Retires PROVE Inv'
<1>0. TypeInv BY DEF Inv
<1>1. TypeInv'
  <2>1. lease' \in [Native!Ends -> LeaseStates] /\ box' \in BoxStates /\ kernel' \in Kernels
    BY <1>0 DEF Native!Owned, Native!Record, Native!Retires, TypeInv
  <2>2. owner' \in OwnerRecords BY <1>0 DEF Native!Owned, Native!Record, Native!Retires, OwnerRecords,
     OwnerStates, TypeInv
  <2>3. creator' \in CreatorStates BY <1>0 DEF Native!Owned, Native!Record, Native!Retires,
     CreatorStates, TypeInv
  <2>4. acq' \in Acqs BY <1>0 DEF Native!Owned, Native!Record, Native!Retires, Acqs, TypeInv
  <2>5. borrowed' \in SUBSET (1..Descriptors) BY <1>0 DEF Native!Owned, Native!Record, Native!Retires,
     TypeInv
  <2> QED BY <2>1, <2>2, <2>3, <2>4, <2>5 DEF TypeInv
<1>2. LeaseInv' /\ Native!OwnNumbersOnly'
  BY DEF Inv, Native!Owned, Native!Record, Native!Retires, LeaseInv, Native!OwnNumbersOnly
<1>3. ObjectInv'
  BY <1>0, <1>1 DEF Inv, Native!Owned, Native!Record, Native!Retires, TypeInv, Acqs, ObjectInv
<1>4. ProcessInv'
  BY <1>0, <1>1 DEF Inv, Native!Owned, Native!Record, Native!Retires, TypeInv, Acqs, ProcessInv
<1>5. CreatorInv'
  BY <1>0, <1>1 DEF Inv, Native!Owned, Native!Record, Native!Retires, TypeInv, CreatorInv, Copy,
     Source, Equipped
<1>6. BorrowInv'
  BY <1>0, <1>1 DEF Inv, Native!Owned, Native!Record, Native!Retires, TypeInv, BorrowInv, Copy, Source,
     Equipped
<1>7. OwnerInv'
  BY <1>0, <1>1 DEF Inv, Native!Owned, Native!Record, Native!Retires, TypeInv, OwnerRecords,
     OwnerStates, OwnerInv, Copy, Source
<1>8. ClaimInv'
  BY <1>0, <1>1 DEF Inv, Native!Owned, Native!Record, Native!Retires, TypeInv, OwnerRecords,
     OwnerStates, ClaimInv, ClaimIsTrue
<1> QED BY <1>1, <1>2, <1>3, <1>4, <1>5, <1>6, <1>7, <1>8 DEF Inv

LEMMA SettlesKeeps ==
  ASSUME Inv, Native!Settles PROVE Inv'
<1>0. TypeInv BY DEF Inv
<1>1. TypeInv'
  <2>1. /\ creator' \in CreatorStates
        /\ lease' \in [Native!Ends -> LeaseStates]
        /\ borrowed' \in SUBSET (1..Descriptors)
        /\ box' \in BoxStates
        /\ kernel' \in Kernels
    BY <1>0 DEF Native!Event, Native!Joinable, Native!SettleUnknown, Native!Settles, TypeInv
  <2>2. owner' \in OwnerRecords
    BY <1>0 DEF Native!Event, Native!Joinable, Native!SettleUnknown, Native!Settles, OwnerRecords,
       OwnerStates, TypeInv
  <2>3. acq' \in Acqs BY <1>0 DEF Native!Event, Native!Joinable, Native!SettleUnknown, Native!Settles,
     Acqs, TypeInv
  <2> QED BY <2>1, <2>2, <2>3 DEF TypeInv
<1>2. LeaseInv' /\ CreatorInv' /\ BorrowInv' /\ Native!OwnNumbersOnly'
  BY DEF Inv, Native!Event, Native!Joinable, Native!SettleUnknown, Native!Settles, LeaseInv,
     CreatorInv, BorrowInv,
     Native!OwnNumbersOnly, Copy, Source, Equipped
<1>3. ObjectInv'
  BY <1>0, <1>1 DEF Inv, Native!Event, Native!Joinable, Native!SettleUnknown, Native!Settles, TypeInv,
     Acqs, ObjectInv
<1>4. ProcessInv'
  BY <1>0, <1>1 DEF Inv, Native!Event, Native!Joinable, Native!SettleUnknown, Native!Settles, TypeInv,
     Acqs, ProcessInv
<1>5. OwnerInv'
  BY <1>0, <1>1 DEF Inv, Native!Event, Native!Joinable, Native!SettleUnknown, Native!Settles, TypeInv,
     OwnerRecords, OwnerStates,
     OwnerInv, Copy, Source
<1>6. ClaimInv'
  BY <1>0, <1>1 DEF Inv, Native!Event, Native!Joinable, Native!SettleUnknown, Native!Settles, TypeInv,
     OwnerRecords, OwnerStates,
     ClaimInv, ClaimIsTrue
<1> QED BY <1>1, <1>2, <1>3, <1>4, <1>5, <1>6 DEF Inv

LEMMA SignalsKeeps ==
  ASSUME Inv, Native!Signals PROVE Inv'
<1>0. TypeInv BY DEF Inv
<1>1. TypeInv'
  <2>1. /\ owner' \in OwnerRecords
        /\ creator' \in CreatorStates
        /\ acq' \in Acqs
        /\ lease' \in [Native!Ends -> LeaseStates]
        /\ borrowed' \in SUBSET (1..Descriptors)
        /\ box' \in BoxStates
    BY <1>0 DEF Native!Signals, TypeInv
  <2>2. kernel' \in Kernels BY <1>0 DEF Native!Signals, Kernels, TypeInv
  <2> QED BY <2>1, <2>2 DEF TypeInv
<1>2. CreatorInv' /\ BorrowInv' /\ OwnerInv'
  BY DEF Inv, Native!Signals, CreatorInv, BorrowInv, OwnerInv, Copy, Source, Equipped
<1>3. LeaseInv'
  BY <1>0, <1>1 DEF Inv, Native!Signals, TypeInv, Kernels, LeaseInv
<1>4. ObjectInv'
  BY <1>0, <1>1 DEF Inv, Native!Signals, TypeInv, Kernels, ObjectInv
<1>5. ProcessInv'
  BY <1>0, <1>1 DEF Inv, Native!Signals, TypeInv, Kernels, ProcessInv
<1>6. ClaimInv'
  BY <1>0, <1>1 DEF Inv, Native!Signals, TypeInv, Kernels, ClaimInv, ClaimIsTrue
<1>7. Native!OwnNumbersOnly'
  BY <1>0, <1>1 DEF Inv, Native!Signals, TypeInv, Native!OwnNumbersOnly, LeaseInv, BorrowInv, Copy,
     Source,
     Equipped, CreatorInv, ProcessInv
<1> QED BY <1>1, <1>2, <1>3, <1>4, <1>5, <1>6, <1>7 DEF Inv

LEMMA PollsKeeps ==
  ASSUME Inv, Native!Polls PROVE Inv'
<1>0. TypeInv BY DEF Inv
<1>1. TypeInv'
  <2>1. /\ creator' \in CreatorStates
        /\ lease' \in [Native!Ends -> LeaseStates]
        /\ borrowed' \in SUBSET (1..Descriptors)
        /\ box' \in BoxStates
    BY <1>0 DEF Native!Event, Native!Polls, Native!Record, Native!Retire, TypeInv
  <2>2. owner' \in OwnerRecords BY <1>0 DEF Native!Event, Native!Polls, Native!Record, Native!Retire,
     OwnerRecords, OwnerStates, TypeInv
  <2>3. acq' \in Acqs BY <1>0 DEF Native!Event, Native!Polls, Native!Record, Native!Retire, Acqs, TypeInv
  <2>4. kernel' \in Kernels BY <1>0 DEF Native!Event, Native!Polls, Native!Record, Native!Retire,
     Kernels, TypeInv
  <2> QED BY <2>1, <2>2, <2>3, <2>4 DEF TypeInv
<1>2. CreatorInv' /\ BorrowInv' /\ Native!OwnNumbersOnly'
  BY DEF Inv, Native!Event, Native!Polls, Native!Record, Native!Retire, CreatorInv, BorrowInv,
     Native!OwnNumbersOnly, Copy, Source,
     Equipped
<1>3. LeaseInv'
  BY <1>0, <1>1 DEF Inv, Native!Event, Native!Polls, Native!Record, Native!Retire, TypeInv, Kernels,
     LeaseInv
<1>4. ObjectInv'
  <2>1. acq'.lost = acq.lost
    BY <1>0 DEF TypeInv, Acqs, Native!Polls, Native!Record, Native!Retire
  <2>2. kernel'.boxed = kernel.boxed /\ box' = box
    BY <1>0 DEF TypeInv, Kernels, Native!Polls
  <2> QED BY <2>1, <2>2 DEF Inv, ObjectInv
<1>5. ProcessInv'
  <2>1. acq'.attempted = acq.attempted /\ creator' = creator
    BY <1>0 DEF TypeInv, Acqs, Native!Polls, Native!Record, Native!Retire
  <2>2. \/ acq'.child = "POLLABLE" /\ kernel'.process = "alive"
        \/ acq'.child = "REAPED" /\ kernel'.process = "gone"
        \/ acq'.child = "UNKNOWN"
    BY <1>0 DEF TypeInv, Acqs, Kernels, Native!Polls, Native!Record, Native!Retire
  <2>3. kernel.process # "none" BY DEF Inv, ProcessInv, Native!Polls
  <2>4. acq.attempted BY <2>3 DEF Inv, ProcessInv
  <2> QED BY <2>1, <2>2, <2>4 DEF ProcessInv
<1>6. OwnerInv'
  BY <1>0, <1>1 DEF Inv, Native!Event, Native!Polls, Native!Record, Native!Retire, TypeInv,
     OwnerRecords, OwnerStates, OwnerInv, Copy,
     Source
<1>7. ClaimInv'
  BY <1>0, <1>1 DEF Inv, Native!Event, Native!Polls, Native!Record, Native!Retire, TypeInv,
     OwnerRecords, OwnerStates, Kernels,
     ClaimInv, ClaimIsTrue
<1> QED BY <1>1, <1>2, <1>3, <1>4, <1>5, <1>6, <1>7 DEF Inv

LEMMA EndsWaitKeeps ==
  ASSUME Inv, Native!EndsWait PROVE Inv'
<1>0. TypeInv BY DEF Inv
<1>1. TypeInv'
  <2>1. /\ creator' \in CreatorStates
        /\ lease' \in [Native!Ends -> LeaseStates]
        /\ borrowed' \in SUBSET (1..Descriptors)
        /\ box' \in BoxStates
        /\ kernel' \in Kernels
    BY <1>0 DEF Native!EndsWait, Native!Event, Native!Record, Native!Retire, TypeInv
  <2>2. owner' \in OwnerRecords BY <1>0 DEF Native!EndsWait, Native!Event, Native!Record,
     Native!Retire, OwnerRecords, OwnerStates, TypeInv
  <2>3. acq' \in Acqs BY <1>0 DEF Native!EndsWait, Native!Event, Native!Record, Native!Retire, Acqs,
     TypeInv
  <2> QED BY <2>1, <2>2, <2>3 DEF TypeInv
<1>2. LeaseInv' /\ CreatorInv' /\ BorrowInv' /\ Native!OwnNumbersOnly'
  BY DEF Inv, Native!EndsWait, Native!Event, Native!Record, Native!Retire, LeaseInv, CreatorInv,
     BorrowInv, Native!OwnNumbersOnly,
     Copy, Source, Equipped
<1>3. ObjectInv'
  BY <1>0, <1>1 DEF Inv, Native!EndsWait, Native!Event, Native!Record, Native!Retire, TypeInv, Acqs,
     ObjectInv
<1>4. ProcessInv'
  BY <1>0, <1>1 DEF Inv, Native!EndsWait, Native!Event, Native!Record, Native!Retire, TypeInv, Acqs,
     ProcessInv
<1>5. OwnerInv'
  <2>1. owner'.joined = owner.joined /\ owner'.task = owner.task /\ owner'.at = "closing"
        /\ owner'.closed = owner.closed /\ (owner.unknown => owner'.unknown)
    BY <1>0 DEF TypeInv, OwnerRecords, Native!EndsWait, Native!Record
  <2>2. lease' = lease /\ creator' = creator BY DEF Native!EndsWait
  <2> QED BY <2>1, <2>2 DEF Inv, OwnerInv
<1>6. ClaimInv'
  BY <1>0, <1>1 DEF Inv, Native!EndsWait, Native!Event, Native!Record, Native!Retire, TypeInv,
     OwnerRecords, OwnerStates, ClaimInv,
     ClaimIsTrue
<1> QED BY <1>1, <1>2, <1>3, <1>4, <1>5, <1>6 DEF Inv

LEMMA ClosesSourceKeeps ==
  ASSUME NEW i \in 1..Descriptors, Inv, Native!ClosesSource(i) PROVE Inv'
<1>0. TypeInv BY DEF Inv
<1>1. TypeInv'
  <2>1. creator' \in CreatorStates /\ borrowed' \in SUBSET (1..Descriptors) /\ box' \in BoxStates
    BY <1>0 DEF Native!CloseLost, Native!Closed, Native!ClosesSource, Native!Event, Native!Left,
       Native!Owned, Native!Protected, Native!Record, TypeInv
  <2>2. owner' \in OwnerRecords
    <3>1. owner.closed \cup {i} \in SUBSET (1..Descriptors) BY <1>0 DEF TypeInv, OwnerRecords
    <3>2. \A u \in BOOLEAN : [owner EXCEPT !.closed = @ \cup {i}, !.unknown = @ \/ u] \in OwnerRecords
      BY <1>0, <3>1 DEF TypeInv, OwnerRecords
    <3>3. \A o \in OwnerRecords : [o EXCEPT !.failed = TRUE] \in OwnerRecords BY DEF OwnerRecords
    <3> HIDE DEF OwnerRecords
    <3> QED BY <3>2, <3>3 DEF Native!ClosesSource, Native!Record
  <2>3. acq' \in Acqs
    BY <1>0 DEF Native!CloseLost, Native!Closed, Native!ClosesSource, Native!Event, Native!Left,
       Native!Owned, Native!Protected, Native!Record, Acqs, TypeInv
  <2>4. lease' \in [Native!Ends -> LeaseStates]
    BY <1>0, EndsType DEF Native!CloseLost, Native!Closed, Native!ClosesSource, Native!Event,
       Native!Left, Native!Owned, Native!Protected, Native!Record,
       LeaseStates, TypeInv
  <2>5. kernel' \in Kernels
    BY <1>0, EndsType DEF Native!CloseLost, Native!Closed, Native!ClosesSource, Native!Event,
       Native!Left, Native!Owned, Native!Protected, Native!Record,
       Kernels, TypeInv
  <2> QED BY <2>1, <2>2, <2>3, <2>4, <2>5 DEF TypeInv
<1>2. LeaseInv'
  BY <1>0, <1>1, EndsType DEF Inv, Native!CloseLost, Native!Closed, Native!ClosesSource, Native!Event,
     Native!Left, Native!Owned, Native!Protected,
     Native!Record, TypeInv, Kernels, LeaseInv
<1>3. ObjectInv'
  <2>1. acq'.lost = acq.lost
    BY <1>0 DEF TypeInv, Acqs, Native!ClosesSource, Native!Record
  <2>2. kernel'.boxed = kernel.boxed /\ box' = box
    BY <1>0 DEF TypeInv, Kernels, Native!ClosesSource, Native!Closed, Native!CloseLost
  <2> QED BY <2>1, <2>2 DEF Inv, ObjectInv
<1>4. ProcessInv'
  <2>1. acq'.attempted = acq.attempted /\ acq'.child = acq.child /\ creator' = creator
    BY <1>0 DEF TypeInv, Acqs, Native!ClosesSource, Native!Record
  <2>2. kernel'.process = kernel.process
    BY <1>0 DEF TypeInv, Kernels, Native!ClosesSource, Native!Closed, Native!CloseLost
  <2> QED BY <2>1, <2>2 DEF Inv, ProcessInv
<1>5. CreatorInv'
  BY <1>0, <1>1, EndsType DEF Inv, Native!CloseLost, Native!Closed, Native!ClosesSource, Native!Event,
     Native!Left, Native!Owned, Native!Protected,
     Native!Record, TypeInv, CreatorInv, Copy, Source, Equipped
<1>6. BorrowInv'
  BY <1>0, <1>1, EndsType DEF Inv, Native!CloseLost, Native!Closed, Native!ClosesSource, Native!Event,
     Native!Left, Native!Owned, Native!Protected,
     Native!Record, TypeInv, BorrowInv, Copy, Source, Equipped
<1>7. OwnerInv'
  <2>1. owner'.joined = owner.joined /\ owner'.task = owner.task /\ owner'.at = owner.at /\ creator' = creator
        /\ owner'.closed = owner.closed \cup {i} /\ (owner.unknown => owner'.unknown)
        /\ (owner'.unknown \/ lease' = [lease EXCEPT ![<<"source", i>>] = "CLOSED"])
    <3>1. CASE Native!Owned(<<"source", i>>) /\ i \notin borrowed
      <4>1. CASE Native!Closed(<<"source", i>>) /\ owner' = [owner EXCEPT !.closed = @ \cup {i},
         !.unknown = @ \/ FALSE]
        BY <1>0, <4>1 DEF TypeInv, OwnerRecords, Native!ClosesSource, Native!Closed
      <4>2. CASE owner' = [[owner EXCEPT !.closed = @ \cup {i},
         !.unknown = @ \/ TRUE] EXCEPT !.failed = TRUE]
        BY <1>0, <4>2 DEF TypeInv, OwnerRecords, Native!ClosesSource
      <4> QED BY <3>1, <4>1, <4>2 DEF Native!ClosesSource, Native!Record
    <3>2. CASE ~(Native!Owned(<<"source", i>>) /\ i \notin borrowed)
      BY <1>0, <3>2 DEF TypeInv, OwnerRecords, Native!ClosesSource, Native!Record
    <3> QED BY <3>1, <3>2
  <2>2. \A j \in owner'.closed : owner'.unknown \/ lease'[Source(j)] = "CLOSED"
    <3> SUFFICES ASSUME NEW j \in owner'.closed, ~owner'.unknown PROVE lease'[Source(j)] = "CLOSED"
      OBVIOUS
    <3>1. ~owner.unknown /\ lease' = [lease EXCEPT ![<<"source", i>>] = "CLOSED"] BY <2>1
    <3>2. CASE j = i BY <1>0, <3>1, <3>2, EndsType DEF TypeInv, Source
    <3>3. CASE j # i
      <4>1. lease[Source(j)] = "CLOSED" BY <2>1, <3>1, <3>3 DEF Inv, OwnerInv
      <4>2. j \in 1..Descriptors BY <1>0, <2>1, <3>3 DEF TypeInv, OwnerRecords
      <4> QED BY <1>0, <3>1, <3>3, <4>1, <4>2, EndsType DEF TypeInv, Source
    <3> QED BY <3>2, <3>3
  <2> QED BY <2>1, <2>2 DEF Inv, OwnerInv
<1>8. ClaimInv'
  <2>1. owner.claim = "none" BY <1>0 DEF Inv, TypeInv, OwnerRecords, ClaimInv, Native!ClosesSource
  <2>2. owner'.claim = owner.claim BY <1>0 DEF TypeInv, OwnerRecords, Native!ClosesSource, Native!Record
  <2> QED BY <2>1, <2>2 DEF ClaimInv
<1>9. Native!OwnNumbersOnly'
  BY <1>0, <1>1, EndsType DEF Inv, Native!CloseLost, Native!Closed, Native!ClosesSource, Native!Event,
     Native!Left, Native!Owned, Native!Protected,
     Native!Record, TypeInv, Native!OwnNumbersOnly, LeaseInv, BorrowInv, Copy, Source, Equipped,
        CreatorInv,
     ProcessInv
<1> QED BY <1>1, <1>2, <1>3, <1>4, <1>5, <1>6, <1>7, <1>8, <1>9 DEF Inv

LEMMA FinishesKeeps ==
  ASSUME Inv, Native!Finishes PROVE Inv'
<1>0. TypeInv BY DEF Inv
<1>1. TypeInv'
  <2>1. /\ creator' \in CreatorStates
        /\ lease' \in [Native!Ends -> LeaseStates]
        /\ borrowed' \in SUBSET (1..Descriptors)
        /\ box' \in BoxStates
        /\ kernel' \in Kernels
    BY <1>0 DEF Native!Finishes, Native!Left, Native!Protected, TypeInv
  <2>2. owner' \in OwnerRecords
    <3>1. Native!ChildRecord \in {"not_attempted", "reaped", "unknown"} BY DEF Native!ChildRecord
    <3>2. \A c \in {"not_attempted", "reaped", "unknown"} : [owner EXCEPT !.at = "done",
       !.claim = c] \in OwnerRecords
      BY <1>0 DEF TypeInv, OwnerRecords, OwnerStates
    <3> HIDE DEF OwnerRecords
    <3> QED BY <3>1, <3>2 DEF Native!Finishes
  <2>3. acq' \in Acqs BY <1>0 DEF Native!Finishes, Native!Left, Native!Protected, Acqs, TypeInv
  <2> QED BY <2>1, <2>2, <2>3 DEF TypeInv
<1>2. LeaseInv' /\ CreatorInv' /\ BorrowInv' /\ Native!OwnNumbersOnly'
  BY DEF Inv, Native!Finishes, Native!Left, Native!Protected, LeaseInv, CreatorInv, BorrowInv,
     Native!OwnNumbersOnly, Copy,
     Source, Equipped
<1>3. ObjectInv'
  BY <1>0, <1>1 DEF Inv, Native!Finishes, Native!Left, Native!Protected, TypeInv, Acqs, ObjectInv
<1>4. ProcessInv'
  BY <1>0, <1>1 DEF Inv, Native!Finishes, Native!Left, Native!Protected, TypeInv, Acqs, ProcessInv
<1>5. OwnerInv'
  BY <1>0, <1>1 DEF Inv, Native!Finishes, Native!Left, Native!Protected, TypeInv, OwnerRecords,
     OwnerStates, OwnerInv, Copy, Source
<1>6. ClaimInv'
  <2>1. owner'.at = "done" /\ owner'.claim = IF Native!ResourcesConfirmed THEN Native!ChildRecord ELSE "unknown"
    BY <1>0 DEF TypeInv, OwnerRecords, Native!Finishes
  <2> SUFFICES ASSUME owner'.claim \in {"not_attempted", "reaped"}
               PROVE  creator' \in {"none", "ended"} /\ ClaimIsTrue'
    BY <2>1 DEF ClaimInv
  <2>2. Native!ResourcesConfirmed /\ owner'.claim = Native!ChildRecord BY <2>1
  <2>3. creator \in {"none", "ended"} BY <2>2 DEF Native!ResourcesConfirmed, Inv, OwnerInv
  <2>4. \A i \in 1..Descriptors : lease[Copy(i)] \notin {"OPEN", "UNKNOWN"}
    BY <2>2, <2>3 DEF Native!ResourcesConfirmed, Native!AcqUnknown, Native!Unknown, Inv, CreatorInv, Copy
  <2>5. \A i \in 1..Descriptors : lease[Source(i)] \notin {"OPEN", "UNKNOWN"}
    BY <2>2 DEF Native!ResourcesConfirmed, Native!IoUnknown, Native!Unknown, Inv, OwnerInv, Source
  <2>6. kernel.fds = {}
    BY <1>0, <2>4, <2>5 DEF Inv, LeaseInv, TypeInv, Kernels, Native!Ends, Copy, Source
  <2>7. ~kernel.boxed
    BY <2>2, <2>3 DEF Native!ResourcesConfirmed, Native!AcqUnknown, Inv, ObjectInv, CreatorInv
  <2>8. kernel.process = IF owner'.claim = "reaped" THEN "gone" ELSE "none"
    BY <2>2 DEF Native!ChildRecord, Inv, ProcessInv
  <2> QED BY <2>3, <2>6, <2>7, <2>8 DEF Native!Finishes, ClaimIsTrue
<1> QED BY <1>1, <1>2, <1>3, <1>4, <1>5, <1>6 DEF Inv

LEMMA ExitsKeeps ==
  ASSUME Inv, Native!Exits PROVE Inv'
<1>0. TypeInv BY DEF Inv
<1>1. TypeInv'
  <2>1. /\ owner' \in OwnerRecords
        /\ creator' \in CreatorStates
        /\ acq' \in Acqs
        /\ lease' \in [Native!Ends -> LeaseStates]
        /\ borrowed' \in SUBSET (1..Descriptors)
        /\ box' \in BoxStates
    BY <1>0 DEF Native!Exits, TypeInv
  <2>2. kernel' \in Kernels BY <1>0 DEF Native!Exits, Kernels, TypeInv
  <2> QED BY <2>1, <2>2 DEF TypeInv
<1>2. CreatorInv' /\ BorrowInv' /\ OwnerInv' /\ Native!OwnNumbersOnly'
  BY DEF Inv, Native!Exits, CreatorInv, BorrowInv, OwnerInv, Native!OwnNumbersOnly, Copy, Source,
     Equipped
<1>3. LeaseInv'
  BY <1>0, <1>1 DEF Inv, Native!Exits, TypeInv, Kernels, LeaseInv
<1>4. ObjectInv'
  BY <1>0, <1>1 DEF Inv, Native!Exits, TypeInv, Kernels, ObjectInv
<1>5. ProcessInv'
  BY <1>0, <1>1 DEF Inv, Native!Exits, TypeInv, Kernels, ProcessInv
<1>6. ClaimInv'
  BY <1>0, <1>1 DEF Inv, Native!Exits, TypeInv, Kernels, ClaimInv, ClaimIsTrue
<1> QED BY <1>1, <1>2, <1>3, <1>4, <1>5, <1>6 DEF Inv

-----------------------------------------------------------------------------
LEMMA InitHolds == Native!Init => Inv
<1> SUFFICES ASSUME Native!Init PROVE Inv OBVIOUS
<1>1. TypeInv
  <2>1. owner \in OwnerRecords BY DEF Native!Init, OwnerRecords, OwnerStates
  <2>2. acq \in Acqs BY DEF Native!Init, Acqs
  <2>3. kernel \in Kernels BY DEF Native!Init, Kernels
  <2> QED BY <2>1, <2>2, <2>3 DEF Native!Init, TypeInv, CreatorStates, LeaseStates, BoxStates
<1>2. LeaseInv /\ ObjectInv /\ ProcessInv BY DEF Native!Init, LeaseInv, ObjectInv, ProcessInv
<1>3. CreatorInv BY EndsType DEF Native!Init, CreatorInv, Equipped, Copy
<1>4. BorrowInv /\ OwnerInv BY DEF Native!Init, BorrowInv, OwnerInv, Equipped
<1>5. ClaimInv /\ Native!OwnNumbersOnly BY DEF Native!Init, ClaimInv, Native!OwnNumbersOnly
<1> QED BY <1>1, <1>2, <1>3, <1>4, <1>5 DEF Inv

LEMMA StepKeeps == Inv /\ [Native!Next]_(Native!vars) => Inv'
<1> SUFFICES ASSUME Inv, [Native!Next]_(Native!vars) PROVE Inv' OBVIOUS
<1>1. CASE UNCHANGED Native!vars
  BY <1>1 DEF Native!vars, Inv, TypeInv, LeaseInv, ObjectInv, ProcessInv, CreatorInv, BorrowInv,
     OwnerInv,
     ClaimInv,
              ClaimIsTrue, Native!OwnNumbersOnly, Copy, Source, Equipped
<1>2. ASSUME NEW i \in 1..Descriptors,
   Native!Opens(i) \/ Native!Borrows(i) \/ Native!Copies(i) \/ Native!ClosesCopy(i) \/ Native!ClosesSource(i)
      PROVE  Inv'
  BY <1>2, OpensKeeps, BorrowsKeeps, CopiesKeeps, ClosesCopyKeeps, ClosesSourceKeeps
<1>3. CASE \/ Native!FailsToValidate \/ Native!StartsThread \/ Native!Grants \/ Native!Adopts
           \/ Native!NoticesFailure \/ Native!Stops \/ Native!WorkEnds
  BY <1>3, FailsToValidateKeeps, StartsThreadKeeps, GrantsKeeps, AdoptsKeeps, NoticesFailureKeeps,
     StopsKeeps,
     WorkEndsKeeps
<1>4. CASE \/ Native!Publishes \/ Native!Withdraws \/ Native!Begins \/ Native!BodyFails
           \/ Native!Makes \/ Native!Maps \/ Native!Attempts \/ Native!Spawns \/ Native!Destroys
           \/ Native!Retires
  BY <1>4, PublishesKeeps, WithdrawsKeeps, BeginsKeeps, BodyFailsKeeps, MakesKeeps, MapsKeeps,
     AttemptsKeeps,
     SpawnsKeeps, DestroysKeeps, RetiresKeeps
<1>5. CASE \/ Native!Settles \/ Native!Signals \/ Native!Polls \/ Native!EndsWait \/ Native!Finishes
           \/ Native!Exits
  BY <1>5, SettlesKeeps, SignalsKeeps, PollsKeeps, EndsWaitKeeps, FinishesKeeps, ExitsKeeps
<1>6. CASE Native!Over BY <1>6, <1>1 DEF Native!Over
<1> QED BY <1>1, <1>2, <1>3, <1>4, <1>5, <1>6 DEF Native!Next

LEMMA Invariance == Native!Spec => []Inv
  BY InitHolds, StepKeeps, PTL DEF Native!Spec

\* The claim of the owner is true: with no attempt there is no process, a reaped child is
\* gone, and no descriptor and no spawn object is left, however late the creator returned
\* and whatever calls failed or were lost (_task_child_record, resources_confirmed).
THEOREM ClaimHolds == Native!Spec => []ClaimIsTrue
<1>1. Inv => ClaimIsTrue BY DEF Inv, ClaimInv, ClaimIsTrue
<1> QED BY <1>1, Invariance, PTL

\* No descriptor is closed twice or copied after it was closed, no copy is missing when the
\* child is spawned, and no child is signalled once it may have been waited for
\* (FDLease.close, retire_numeric).
THEOREM NumbersAreOwn == Native!Spec => []Native!OwnNumbersOnly
<1>1. Inv => Native!OwnNumbersOnly BY DEF Inv
<1> QED BY <1>1, Invariance, PTL

\* A claim is made once and is final: whatever thread returns later, it stays.
THEOREM ClaimIsFinal == Native!Spec => [][owner.claim # "none" => owner'.claim = owner.claim]_(Native!vars)
<1>1. Inv /\ [Native!Next]_(Native!vars) => (owner.claim # "none" => owner'.claim = owner.claim) \/ UNCHANGED Native!vars
  <2> SUFFICES ASSUME Inv, Native!Next, owner.claim # "none" PROVE owner'.claim = owner.claim
    OBVIOUS
  <2>1. owner \in OwnerRecords /\ owner.at = "done" BY DEF Inv, TypeInv, ClaimInv
  <2>2. ASSUME NEW i \in 1..Descriptors,
     Native!Opens(i) \/ Native!Borrows(i) \/ Native!Copies(i) \/ Native!ClosesCopy(i) \/ Native!ClosesSource(i)
        PROVE  owner'.claim = owner.claim
    BY <2>1, <2>2 DEF OwnerRecords, Native!Opens, Native!Borrows, Native!Copies, Native!ClosesCopy,
       Native!ClosesSource, Native!Record
  <2>3. CASE \/ Native!FailsToValidate \/ Native!StartsThread \/ Native!Grants \/ Native!Adopts
             \/ Native!NoticesFailure \/ Native!Stops \/ Native!WorkEnds
    BY <2>1, <2>3 DEF Native!FailsToValidate, Native!StartsThread, Native!Grants, Native!Adopts,
       Native!NoticesFailure, Native!Stops,
       Native!WorkEnds, Native!Working
  <2>4. CASE \/ Native!Publishes \/ Native!Withdraws \/ Native!Begins \/ Native!BodyFails
             \/ Native!Makes \/ Native!Maps \/ Native!Attempts \/ Native!Spawns \/ Native!Destroys
             \/ Native!Retires
    BY <2>1, <2>4 DEF OwnerRecords, Native!Publishes, Native!Withdraws, Native!Begins,
       Native!BodyFails, Native!Makes, Native!Maps, Native!Attempts,
       Native!Spawns, Native!Destroys,
                      Native!Retires, Native!Record
  <2>5. CASE \/ Native!Settles \/ Native!Signals \/ Native!Polls \/ Native!EndsWait
             \/ Native!Finishes \/ Native!Exits \/ Native!Over
    BY <2>1, <2>5 DEF Native!Settles, Native!Signals, Native!Polls, Native!EndsWait, Native!Finishes,
       Native!Exits, Native!Over, Native!vars
  <2> QED BY <2>2, <2>3, <2>4, <2>5 DEF Native!Next
<1> QED BY <1>1, Invariance, PTL DEF Native!Spec

-----------------------------------------------------------------------------
(* The capture of a profile.  Its inductive invariant.                       *)

Lives   == {"none", "alive", "zombie", "gone"}
Codes   == {"none", "ok", "bad", "unknown", "signal"}
Made    == {"none", "native", "made", "empty", "lost"}
Stages  == {"spawn", "config", "hello", "reserved", "final", "drain", "configure", "reserve", "run",
            "grant", "status", "forward", "payload", "commit", "move", "wait", "boot", "settle",
            "name", "group", "release", "released", "reap", "keof", "quiet", "hold", "fallback",
            "expired", "lastwait", "cancel", "eof", "payload0", "quiesce", "report", "exit",
            "close", "publish", "accept", "done"}
Frames  == {"CONFIG", "HELLO", "ADMIT", "RESERVED", "RUN", "MOVED", "READY", "COMMIT", "STATUS",
            "CANCEL", "GROUP_RETIRED", "RELEASE", "QUIESCING", "FINAL", "RELEASED"}
Verdicts == [state : {"ACTIVE", "UNKNOWN", "NO_PRODUCERS", "FINALIZED"}, settled : BOOLEAN,
             dispatch : {"UNKNOWN", "ARMED", "NOT_SENT"}, result : {"none", "accepted", "refused"}]

\* The types of what the rest of the invariant reads.
Shapes ==
  /\ proc \in [Roles -> Lives] /\ status \in [Roles -> Codes] /\ kid \in BOOLEAN
  /\ grp \in {"start", "G", "moved"}
  /\ chan \in [Edges -> SUBSET Frames] /\ got \in SUBSET (Edges \X (Frames \cup {"EOF"}))
  /\ tried \in SUBSET (Edges \X Frames) /\ lost \in SUBSET (Edges \X Frames)
  /\ pc \in [Owners -> Stages] /\ has \in [Owners -> Made] /\ rcpt \in [Roles -> Codes]
  /\ verdict \in Verdicts

\* Who was made, who ended, and what a receipt says of it.
Barren == {"none", "native", "empty"}
Kinship ==
  /\ has["O"] \in Barren => proc["C"] = "none"
  /\ has["C"] \in Barren => proc["K"] = "none"
  /\ has["K"] \in Barren => proc["V"] = "none"
  /\ \A p \in {"C", "K"} : proc[p] = "none" => has[p] = "none" /\ pc[p] = "boot"
  /\ kid => proc["V"] # "none"
  /\ \A p \in Roles : status[p] # "none" => proc[p] \in {"zombie", "gone"}
  /\ \A p \in {"C", "K"} : rcpt[p] # "none" => proc[p] = "gone" /\ rcpt[p] = status[p]

\* A frame is read only where its write was tried.
Carried ==
  /\ \A e \in Edges : \A t \in chan[e] : <<e, t>> \in tried
  /\ \A e \in Edges : \A t \in Frames : <<e, t>> \in got => <<e, t>> \in tried

\* Where the keeper stands: it leaves its group only when nothing it might still make
\* would be left in it, so a group found empty stays empty.
Reserved ==
  /\ (grp = "start") <=> (pc["K"] = "boot")
  /\ grp = "moved" => pc["K"] \notin {"config", "spawn"} /\ has["K"] \in {"none", "made"}
  /\ pc["K"] = "move" => has["K"] = "made"
  /\ <<"kc", "HELLO">> \in tried => grp # "start"
  /\ groupC # "none" => grp # "start"
  /\ groupC = "absent" => GroupEmpty

\* RUN goes down one owner at a time.
Dispatched ==
  /\ pc["K"] = "spawn" \/ has["K"] # "none" => <<"ck", "RUN">> \in tried
  /\ pc["C"] = "grant" \/ <<"ck", "RUN">> \in tried => <<"oc", "RUN">> \in tried

\* The payload leaves the custodian when everything below it is over.
Settled == rcpt["K"] = "ok" /\ proc["V"] = "gone" /\ ~kid /\ status["V"] = "ok"
Payments ==
  /\ pc["C"] \in {"payload", "commit"} \/ payload # "none" => Settled
  /\ payload # "none" => pc["C"] \in {"commit", "quiesce", "quiet", "report", "exit"}
  /\ <<"oc", "COMMIT">> \in tried => payload = "full"

\* What FINAL says stays true of what is below the custodian.
Cleared ==
  /\ has["C"] = "none" \/ proc["K"] = "gone"
  /\ proc["V"] \in {"none", "gone"} /\ ~kid
Concluded ==
  /\ final # NoFinal \/ <<"co", "FINAL">> \in tried => pc["C"] = "exit"
  /\ final.cleanup = "confirmed" => Cleared
  /\ final.outcome = "ok" => Settled /\ payload = "full"
  /\ final.outcome = "ok" /\ Heard("co", "FINAL") => Sent("oc", "COMMIT")

\* What the caller's verdict rests on.
Judged ==
  /\ verdict # NoVerdict => pc["O"] \in {"accept", "done"}
  /\ verdict.settled => \/ has["O"] = "none"
                        \/ proc["C"] = "gone" /\ final.cleanup = "confirmed"
  /\ verdict.state \in {"FINALIZED", "NO_PRODUCERS"} => verdict.settled
  /\ verdict.state = "FINALIZED" => rcpt["C"] = IF final.outcome = "failed" THEN "bad" ELSE "ok"
  /\ verdict.dispatch = "NOT_SENT" => <<"oc", "RUN">> \notin tried
  /\ verdict.result = "accepted" => /\ verdict.state = "FINALIZED"
                                    /\ Heard("co", "FINAL") /\ final.outcome = "ok"

CaptureInv ==
  /\ Shapes /\ Kinship /\ Carried /\ Reserved /\ Dispatched /\ Payments /\ Concluded /\ Judged

-----------------------------------------------------------------------------
(* What the tables say, and the cases of a step.                             *)

LEMMA Maps ==
  /\ Child["O"] = "C" /\ Child["C"] = "K" /\ Child["K"] = "V"
  /\ Parent["C"] = "O" /\ Parent["K"] = "C" /\ Parent["V"] = "K"
  /\ Writer["oc"] = "O" /\ Writer["co"] = "C" /\ Writer["ck"] = "C" /\ Writer["kc"] = "K"
  /\ Reader["oc"] = "C" /\ Reader["co"] = "O" /\ Reader["ck"] = "K" /\ Reader["kc"] = "C"
  /\ Down["O"] = "oc" /\ Down["C"] = "ck" /\ Up["C"] = "co" /\ Up["K"] = "kc"
  /\ AfterSpawn["O"] = "config" /\ AfterSpawn["C"] = "configure" /\ AfterSpawn["K"] = "move"
  BY DEF Child, Parent, Writer, Reader, Down, Up, AfterSpawn

LEMMA Members ==
  /\ "O" \in Roles /\ "C" \in Roles /\ "K" \in Roles /\ "V" \in Roles
  /\ "O" \in Owners /\ "C" \in Owners /\ "K" \in Owners
  /\ "oc" \in Edges /\ "co" \in Edges /\ "ck" \in Edges /\ "kc" \in Edges
  BY DEF Roles, Owners, Edges

LEMMA Bodies ==
  /\ Body["O"] = {"spawn", "config", "hello", "reserved", "final", "drain"}
  /\ Body["C"] = {"config", "spawn", "configure", "hello", "reserve", "run", "grant", "status",
                  "forward", "payload", "commit"}
  /\ Body["K"] = {"config", "spawn", "move", "wait"}
  BY DEF Body

\* A grant is taken in one stage.
LEMMA Welcomes ==
  /\ \A t : Welcome("C", t) =>
       \/ pc["C"] = "config" /\ t = "ADMIT" /\ Granted["oc"][pc["C"]] = "spawn"
       \/ pc["C"] = "run" /\ t = "RUN" /\ Granted["oc"][pc["C"]] = "grant"
       \/ pc["C"] = "commit" /\ t = "COMMIT" /\ Granted["oc"][pc["C"]] = "quiesce"
  /\ \A t : Welcome("K", t) => pc["K"] = "config" /\ t = "RUN" /\ Granted["ck"][pc["K"]] = "spawn"
  <1>1. ASSUME NEW t, Welcome("C", t)
        PROVE  \/ pc["C"] = "config" /\ t = "ADMIT" /\ Granted["oc"][pc["C"]] = "spawn"
               \/ pc["C"] = "run" /\ t = "RUN" /\ Granted["oc"][pc["C"]] = "grant"
               \/ pc["C"] = "commit" /\ t = "COMMIT" /\ Granted["oc"][pc["C"]] = "quiesce"
    <2>1. pc["C"] \in DOMAIN Grant["oc"] /\ Grant["oc"][pc["C"]] = t
      BY <1>1, Maps DEF Welcome
    <2>2. /\ Grant["oc"] = [config |-> "ADMIT", run |-> "RUN", commit |-> "COMMIT"]
          /\ Granted["oc"] = [config |-> "spawn", run |-> "grant", commit |-> "quiesce"]
      BY DEF Grant, Granted
    <2> QED BY <2>1, <2>2
  <1>2. ASSUME NEW t, Welcome("K", t)
        PROVE  pc["K"] = "config" /\ t = "RUN" /\ Granted["ck"][pc["K"]] = "spawn"
    <2>1. pc["K"] \in DOMAIN Grant["ck"] /\ Grant["ck"][pc["K"]] = t
      BY <1>2, Maps DEF Welcome
    <2>2. /\ Grant["ck"] = [config |-> "RUN"]
          /\ Granted["ck"] = [config |-> "spawn"]
      BY DEF Grant, Granted
    <2> QED BY <2>1, <2>2
  <1> QED BY <1>1, <1>2

LEMMA SharedCases ==
  ASSUME Shared
  PROVE  \/ SpawnCall("O") \/ SpawnCall("C") \/ SpawnCall("K")
         \/ SpawnReturns("O") \/ SpawnReturns("C") \/ SpawnReturns("K")
         \/ Spawned("O") \/ Spawned("C") \/ Spawned("K")
         \/ Unwind("O") \/ Unwind("C") \/ Unwind("K")
         \/ ParentEof("C") \/ ParentEof("K") \/ ChildEof("O") \/ ChildEof("C")
         \/ KidEnds \/ \E how \in {"ok", "bad"} : VEnds(how)
  BY DEF Shared, Owners

LEMMA FaultsCases ==
  ASSUME Faults
  PROVE  \/ BodyFault("O") \/ BodyFault("C") \/ BodyFault("K")
         \/ CleanupFault("O") \/ CleanupFault("C") \/ CleanupFault("K")
         \/ Signal("O") \/ Signal("C") \/ Signal("K")
         \/ SpawnFails("O") \/ SpawnFails("C") \/ SpawnFails("K")
         \/ (\E p \in Roles : Kill(p)) \/ BootFails("C") \/ BootFails("K")
         \/ KMovesOnly \/ Interrupt \/ (\E t \in {"run", "capture"} : Deadline(t))
         \/ Cutoff("O") \/ Cutoff("C") \/ Cutoff("K")
  BY DEF Faults, Owners

-----------------------------------------------------------------------------
(* What a write does, and what a death does.                                 *)

\* A frame that is on its way was tried; one write tries one frame.
Sends(e, t) ==
  /\ chan' \in [Edges -> SUBSET Frames]
  /\ tried' \in SUBSET (Edges \X Frames) /\ lost' \in SUBSET (Edges \X Frames)
  /\ \A d \in Edges : \A u \in chan'[d] : u \in chan[d] \/ (d = e /\ u = t /\ <<e, t>> \in tried')
  /\ tried \subseteq tried'
  /\ \A x \in tried' : x \in tried \/ x = <<e, t>>
  /\ \A x \in lost' : x \in lost \/ x = <<e, t>>

LEMMA WritesForm ==
  ASSUME Shapes, NEW e \in Edges, NEW t \in Frames,
         \/ Writes(e, t) \/ Grants(e, t) \/ Puts(e, t) \/ Retires(e) \/ Loses(e, t)
         \/ UNCHANGED <<chan, tried, lost>>
  PROVE  Sends(e, t)
<1>1. \/ chan' = chan /\ tried' = tried /\ lost' = lost
      \/ /\ chan' = [chan EXCEPT ![e] = @ \cup {t}] /\ lost' = lost
         /\ tried' = tried \cup {<<e, t>>}
      \/ /\ tried' = tried \cup {<<e, t>>} /\ lost' = lost \cup {<<e, t>>}
         /\ chan' = chan \/ chan' = [chan EXCEPT ![e] = @ \cup {t}]
  BY DEF Writes, Grants, Puts, Retires, Loses
<1>2. <<e, t>> \in Edges \X Frames
  OBVIOUS
<1> QED BY <1>1, <1>2 DEF Shapes, Sends

\* Only the living die; the dead stay dead and keep their status.
Dying ==
  /\ proc' \in [Roles -> Lives] /\ status' \in [Roles -> Codes]
  /\ \A p \in Roles :
       \/ proc'[p] = proc[p] /\ status'[p] = status[p]
       \/ proc[p] = "alive" /\ proc'[p] \in {"zombie", "gone"}
       \/ proc[p] = "zombie" /\ proc'[p] \in {"zombie", "gone"} /\ status'[p] = status[p]

LEMMA EndsForm ==
  ASSUME Shapes, NEW P, NEW how \in Codes, \A p \in P : proc[p] = "alive", Ends(P, how)
  PROVE  Dying
<1>1. status' = [p \in Roles |-> IF p \in P THEN how ELSE status[p]]
  BY DEF Ends
<1>2. proc' = Fall(P)
  BY DEF Ends
<1>3. ASSUME NEW p \in Roles
      PROVE  proc'[p] = IF p \in P \/ proc[p] = "zombie"
                        THEN IF p # "O" /\ Parent[p] \notin P /\ Alive(Parent[p])
                             THEN "zombie" ELSE "gone"
                        ELSE proc[p]
  BY <1>2 DEF Fall
<1>4. proc' \in [Roles -> Lives]
  <2>1. \A p \in Roles : proc'[p] \in Lives
    BY <1>3 DEF Shapes, Lives
  <2>2. proc' = [p \in Roles |-> proc'[p]]
    BY <1>2 DEF Fall
  <2> QED BY <2>1, <2>2
<1>5. status' \in [Roles -> Codes]
  BY <1>1 DEF Shapes
<1> QED BY <1>1, <1>3, <1>4, <1>5 DEF Dying, Shapes, Lives

LEMMA KillGroupForm ==
  ASSUME Shapes, KillGroup
  PROVE  Dying /\ kid' = FALSE
<1>1. Ends({p \in {"K", "V"} : Alive(p) /\ (p = "K" => grp = "G")}, "signal") /\ kid' = FALSE
  BY DEF KillGroup
<1>2. \A p \in {q \in {"K", "V"} : Alive(q) /\ (q = "K" => grp = "G")} : proc[p] = "alive"
  BY DEF Alive
<1>3. "signal" \in Codes
  BY DEF Codes
<1> QED BY <1>1, <1>2, <1>3, EndsForm

LEMMA DeathForm ==
  ASSUME Shapes
  PROVE  /\ \A p \in Roles : Kill(p) => Dying
         /\ \A p \in Roles : BootFails(p) => Dying
         /\ \A how \in {"ok", "bad"} : VEnds(how) => Dying
         /\ KExits => Dying
         /\ CExits => Dying
<1>1. \A p \in Roles, how \in Codes : Alive(p) /\ Ends({p}, how) => Dying
  BY EndsForm DEF Alive
<1>2. {"ok", "bad", "unknown", "signal"} \subseteq Codes /\ {"C", "K", "V"} \subseteq Roles
  BY DEF Codes, Roles
<1>3. KCode \in Codes /\ CCode \in Codes
  BY DEF KCode, CCode, Codes
<1>4. ASSUME NEW p \in Roles
      PROVE  /\ Kill(p) => Dying
             /\ BootFails(p) => Dying
  BY <1>1, <1>2 DEF Kill, BootFails, At
<1>5. \A how \in {"ok", "bad"} : VEnds(how) => Dying
  BY <1>1, <1>2 DEF VEnds
<1>6. KExits => Dying
  BY <1>1, <1>2, <1>3 DEF KExits, At
<1>7. CExits => Dying
  BY <1>1, <1>2, <1>3 DEF CExits, At
<1> QED BY <1>4, <1>5, <1>6, <1>7

-----------------------------------------------------------------------------
(* What a failure does to the stages, and what a reader takes.               *)

LEMMA Raised ==
  ASSUME Shapes
  PROVE  /\ Raises("O") => \/ pc' = pc
                           \/ /\ pc["O"] \in {"spawn", "config", "hello", "reserved", "final", "drain"}
                              /\ pc' = [pc EXCEPT !["O"] = "cancel"]
         /\ Raises("C") => \/ pc' = pc
                           \/ /\ pc["C"] \in {"payload", "commit"}
                              /\ pc' = [pc EXCEPT !["C"] = "quiesce"]
                           \/ /\ pc["C"] \in {"config", "spawn", "configure", "hello", "reserve", "run",
                                              "grant", "status", "forward"}
                              /\ pc' = [pc EXCEPT !["C"] = "settle"]
         /\ Raises("K") => \/ pc' = pc
                           \/ /\ pc["K"] \in {"config", "spawn", "move", "wait"}
                              /\ pc' = [pc EXCEPT !["K"] = "settle"]
<1>1. ASSUME Raises("O")
      PROVE  \/ pc' = pc
             \/ /\ pc["O"] \in {"spawn", "config", "hello", "reserved", "final", "drain"}
                /\ pc' = [pc EXCEPT !["O"] = "cancel"]
  BY <1>1, Bodies DEF Raises, Goes, AfterBody
<1>2. ASSUME Raises("C")
      PROVE  \/ pc' = pc
             \/ /\ pc["C"] \in {"payload", "commit"}
                /\ pc' = [pc EXCEPT !["C"] = "quiesce"]
             \/ /\ pc["C"] \in {"config", "spawn", "configure", "hello", "reserve", "run",
                                "grant", "status", "forward"}
                /\ pc' = [pc EXCEPT !["C"] = "settle"]
  BY <1>2, Bodies DEF Raises, Goes, AfterBody
<1>3. ASSUME Raises("K")
      PROVE  \/ pc' = pc
             \/ /\ pc["K"] \in {"config", "spawn", "move", "wait"}
                /\ pc' = [pc EXCEPT !["K"] = "settle"]
  BY <1>3, Bodies DEF Raises, Goes, AfterBody
<1> QED BY <1>1, <1>2, <1>3

LEMMA Hearing ==
  /\ \A t : Reads("co", t) => /\ t \in chan["co"] /\ chan' = [chan EXCEPT !["co"] = @ \ {t}]
                              /\ proc["O"] = "alive"
  /\ \A t : Reads("kc", t) => /\ t \in chan["kc"] /\ chan' = [chan EXCEPT !["kc"] = @ \ {t}]
                              /\ proc["C"] = "alive"
  /\ \A t : Takes("oc", t) => /\ t \in chan["oc"] /\ chan' = [chan EXCEPT !["oc"] = @ \ {t}]
                              /\ proc["C"] = "alive" /\ tried' = tried /\ lost' = lost
  /\ \A t : Takes("ck", t) => /\ t \in chan["ck"] /\ chan' = [chan EXCEPT !["ck"] = @ \ {t}]
                              /\ proc["K"] = "alive" /\ tried' = tried /\ lost' = lost
<1>1. \A t : Reads("co", t) => /\ t \in chan["co"] /\ chan' = [chan EXCEPT !["co"] = @ \ {t}]
                               /\ proc["O"] = "alive"
  BY Maps DEF Reads, Next1, At, Alive
<1>2. \A t : Reads("kc", t) => /\ t \in chan["kc"] /\ chan' = [chan EXCEPT !["kc"] = @ \ {t}]
                               /\ proc["C"] = "alive"
  BY Maps DEF Reads, Next1, At, Alive
<1>3. \A t : Takes("oc", t) => /\ t \in chan["oc"] /\ chan' = [chan EXCEPT !["oc"] = @ \ {t}]
                               /\ proc["C"] = "alive" /\ tried' = tried /\ lost' = lost
  BY Maps DEF Takes, Next1, At, Alive
<1>4. \A t : Takes("ck", t) => /\ t \in chan["ck"] /\ chan' = [chan EXCEPT !["ck"] = @ \ {t}]
                               /\ proc["K"] = "alive" /\ tried' = tried /\ lost' = lost
  BY Maps DEF Takes, Next1, At, Alive
<1> QED BY <1>1, <1>2, <1>3, <1>4

-----------------------------------------------------------------------------
(* Types.                                                                    *)

\* Each send of an action is one frame at most, whatever came between.
LEMMA SendForm ==
  ASSUME Shapes
  PROVE  /\ OConfigures => Sends("oc", "CONFIG")
         /\ OGrants("ADMIT", "HELLO", "hello", "reserved") => Sends("oc", "ADMIT")
         /\ OGrants("RUN", "RESERVED", "reserved", "final") => Sends("oc", "RUN")
         /\ OCommits => Sends("oc", "COMMIT")
         /\ ORetires => Sends("oc", "CANCEL")
         /\ OCancels => Sends("oc", "CANCEL")
         /\ Boot("C") => Sends("co", "HELLO")
         /\ Boot("K") => Sends("kc", "HELLO")
         /\ CConfigures => Sends("ck", "CONFIG")
         /\ CReserves => Sends("co", "RESERVED")
         /\ CGrants => Sends("ck", "RUN")
         /\ CSaysReady => Sends("co", "READY")
         /\ CForwards => Sends("co", "STATUS")
         /\ CCancels => Sends("ck", "CANCEL")
         /\ CRetiresGroup => Sends("ck", "GROUP_RETIRED")
         /\ CReleasesKeeper => Sends("ck", "RELEASE")
         /\ CQuiesces => Sends("co", "QUIESCING")
         /\ CReports => Sends("co", "FINAL")
         /\ KMoves => Sends("kc", "MOVED")
         /\ KReports => Sends("kc", "STATUS")
         /\ KReleases => Sends("kc", "RELEASED")
<1>1. \A e \in Edges, t \in Frames :
        \/ Writes(e, t) \/ Grants(e, t) \/ Puts(e, t) \/ Retires(e) \/ Loses(e, t)
        \/ UNCHANGED <<chan, tried, lost>>
        => Sends(e, t)
  BY WritesForm
<1>2. Frames = {"CONFIG", "HELLO", "ADMIT", "RESERVED", "RUN", "MOVED", "READY", "COMMIT", "STATUS",
                "CANCEL", "GROUP_RETIRED", "RELEASE", "QUIESCING", "FINAL", "RELEASED"}
  BY DEF Frames
<1>3. OConfigures => Sends("oc", "CONFIG")
  BY <1>1, <1>2, Members, Maps DEF OConfigures
<1>4. OGrants("ADMIT", "HELLO", "hello", "reserved") => Sends("oc", "ADMIT")
  BY <1>1, <1>2, Members, Maps DEF OGrants
<1>5. OGrants("RUN", "RESERVED", "reserved", "final") => Sends("oc", "RUN")
  BY <1>1, <1>2, Members, Maps DEF OGrants
<1>6. OCommits => Sends("oc", "COMMIT")
  BY <1>1, <1>2, Members, Maps DEF OCommits, wires
<1>7. ORetires => Sends("oc", "CANCEL")
  BY <1>1, <1>2, Members, Maps DEF ORetires, ClosesControl
<1>8. OCancels => Sends("oc", "CANCEL")
  BY <1>1, <1>2, Members, Maps DEF OCancels, ClosesControl, wires
<1>9. Boot("C") => Sends("co", "HELLO")
  BY <1>1, <1>2, Members, Maps DEF Boot
<1>10. Boot("K") => Sends("kc", "HELLO")
  BY <1>1, <1>2, Members, Maps DEF Boot
<1>11. CConfigures => Sends("ck", "CONFIG")
  BY <1>1, <1>2, Members, Maps DEF CConfigures
<1>12. CReserves => Sends("co", "RESERVED")
  BY <1>1, <1>2, Members, Maps DEF CReserves
<1>13. CGrants => Sends("ck", "RUN")
  BY <1>1, <1>2, Members, Maps DEF CGrants
<1>14. CSaysReady => Sends("co", "READY")
  BY <1>1, <1>2, Members, Maps DEF CSaysReady
<1>15. CForwards => Sends("co", "STATUS")
  BY <1>1, <1>2, Members, Maps DEF CForwards
<1>16. CCancels => Sends("ck", "CANCEL")
  BY <1>1, <1>2, Members, Maps DEF CCancels, wires
<1>17. CRetiresGroup => Sends("ck", "GROUP_RETIRED")
  BY <1>1, <1>2, Members, Maps DEF CRetiresGroup, CReleases
<1>18. CReleasesKeeper => Sends("ck", "RELEASE")
  BY <1>1, <1>2, Members, Maps DEF CReleasesKeeper, CReleases
<1>19. CQuiesces => Sends("co", "QUIESCING")
  BY <1>1, <1>2, Members, Maps DEF CQuiesces, wires
<1>20. CReports => Sends("co", "FINAL")
  BY <1>1, <1>2, Members, Maps DEF CReports
<1>21. KMoves => Sends("kc", "MOVED")
  BY <1>1, <1>2, Members, Maps DEF KMoves
<1>22. KReports => Sends("kc", "STATUS")
  BY <1>1, <1>2, Members, Maps DEF KReports
<1>23. KReleases => Sends("kc", "RELEASED")
  BY <1>1, <1>2, Members, Maps DEF KReleases
<1> QED BY <1>3, <1>4, <1>5, <1>6, <1>7, <1>8, <1>9, <1>10, <1>11, <1>12, <1>13, <1>14, <1>15, <1>16,
     <1>17, <1>18, <1>19, <1>20, <1>21, <1>22, <1>23

LEMMA TypesIdle ==
  ASSUME Shapes, UNCHANGED <<proc, status, kid, grp, chan, got, tried, lost, pc, has, rcpt, verdict>>
  PROVE  Shapes'
  BY DEF Shapes

LEMMA TypesOuter ==
  ASSUME Shapes, OuterStep
  PROVE  Shapes'
<1>0. /\ proc \in [Roles -> Lives] /\ status \in [Roles -> Codes] /\ kid \in BOOLEAN
      /\ grp \in {"start", "G", "moved"}
      /\ chan \in [Edges -> SUBSET Frames]
      /\ got \in SUBSET (Edges \X (Frames \cup {"EOF"}))
      /\ tried \in SUBSET (Edges \X Frames) /\ lost \in SUBSET (Edges \X Frames)
      /\ pc \in [Owners -> Stages] /\ has \in [Owners -> Made] /\ rcpt \in [Roles -> Codes]
      /\ verdict \in Verdicts
  BY DEF Shapes
<1>1. CASE OConfigures
  <2>1. Sends("oc", "CONFIG")
    BY <1>1, SendForm
  <2>2. pc' \in [Owners -> Stages]
    BY <1>1, <1>0, Members, Maps DEF OConfigures, Alive, At, Goes, facts, world, Stages
  <2> QED BY <1>1, <1>0, <2>1, <2>2 DEF OConfigures, Goes, facts, world, Shapes, Sends
<1>2. CASE OGrants("ADMIT", "HELLO", "hello", "reserved")
  <2>1. Sends("oc", "ADMIT")
    BY <1>2, SendForm
  <2>2. pc' \in [Owners -> Stages]
    BY <1>2, <1>0, Members, Maps DEF OGrants, Alive, At, Goes, Heard, Retiring, facts, world,
       Stages
  <2> QED BY <1>2, <1>0, <2>1, <2>2 DEF OGrants, Goes, facts, world, Shapes, Sends
<1>3. CASE OGrants("RUN", "RESERVED", "reserved", "final")
  <2>1. Sends("oc", "RUN")
    BY <1>3, SendForm
  <2>2. pc' \in [Owners -> Stages]
    BY <1>3, <1>0, Members, Maps DEF OGrants, Alive, At, Goes, Heard, Retiring, facts, world,
       Stages
  <2> QED BY <1>3, <1>0, <2>1, <2>2 DEF OGrants, Goes, facts, world, Shapes, Sends
<1>4. ASSUME NEW t \in {"HELLO", "RESERVED", "READY", "STATUS", "QUIESCING"}, OHears(t)
      PROVE  Shapes'
  <2>1. chan' \in [Edges -> SUBSET Frames]
    BY <1>4, <1>0, Members DEF OHears, AfterBody, Alive, At, Goes, Raises, Reads, facts, outer,
       world, Frames
  <2>2. got' \in SUBSET (Edges \X (Frames \cup {"EOF"}))
    BY <1>4, <1>0, Members DEF OHears, AfterBody, Alive, At, Goes, Raises, Reads, facts, outer,
       world, Frames
  <2>3. pc' \in [Owners -> Stages]
    BY <1>4, <1>0, Members, Bodies DEF OHears, AfterBody, Alive, At, Goes, Raises, Reads, facts,
       outer, world, Stages
  <2> QED BY <1>4, <1>0, <2>1, <2>2, <2>3 DEF OHears, Goes, Raises, Reads, facts, outer, world, Shapes
<1>5. CASE OHearsFinal
  <2>1. chan' \in [Edges -> SUBSET Frames]
    BY <1>5, <1>0, Members, Maps DEF OHearsFinal, AfterBody, Alive, At, Goes, Raises, Reads,
       facts, outer, world, Frames
  <2>2. got' \in SUBSET (Edges \X (Frames \cup {"EOF"}))
    BY <1>5, <1>0, Members, Maps DEF OHearsFinal, AfterBody, Alive, At, Goes, Raises, Reads,
       facts, outer, world, Frames
  <2>3. pc' \in [Owners -> Stages]
    BY <1>5, <1>0, Members, Maps, Bodies DEF OHearsFinal, AfterBody, Alive, At, Goes, Raises,
       Reads, facts, outer, world, Stages
  <2> QED BY <1>5, <1>0, <2>1, <2>2, <2>3 DEF OHearsFinal, Goes, Raises, Reads, facts, outer, world,
       Shapes
<1>6. CASE OCommits
  <2>1. Sends("oc", "COMMIT")
    BY <1>6, SendForm
  <2>2. pc' \in [Owners -> Stages]
    BY <1>6, <1>0, Members, Maps DEF OCommits, Alive, At, Goes, Heard, Retiring, facts, wires,
       world, Stages
  <2> QED BY <1>6, <1>0, <2>1, <2>2 DEF OCommits, Goes, facts, wires, world, Shapes, Sends
<1>7. CASE ODrains
  <2>1. pc' \in [Owners -> Stages]
    BY <1>7, <1>0, Members, Maps DEF ODrains, Alive, At, Goes, facts, outer, wires, world, Stages
  <2> QED BY <1>7, <1>0, <2>1 DEF ODrains, Goes, facts, outer, wires, world, Shapes
<1>8. CASE ORetires
  <2>1. Sends("oc", "CANCEL")
    BY <1>8, SendForm
  <2> QED BY <1>8, <1>0, <2>1 DEF ORetires, ClosesControl, facts, world, Shapes, Sends
<1>9. CASE OCancels
  <2>1. Sends("oc", "CANCEL")
    BY <1>9, SendForm
  <2>2. pc' \in [Owners -> Stages]
    BY <1>9, <1>0, Members, Maps DEF OCancels, Alive, At, ClosesControl, Goes, Heard, facts,
       wires, world, Stages
  <2> QED BY <1>9, <1>0, <2>1, <2>2 DEF OCancels, ClosesControl, Goes, facts, wires, world, Shapes,
       Sends
<1>10. CASE OSettles
  <2>1. pc' \in [Owners -> Stages]
    BY <1>10, <1>0, Members, Maps DEF OSettles, Alive, At, Goes, SettleUnk, facts, outer, wires,
       world, Stages
  <2> QED BY <1>10, <1>0, <2>1 DEF OSettles, Goes, SettleUnk, facts, outer, wires, world, Shapes
<1>11. CASE OReaps
  <2>1. pc' \in [Owners -> Stages]
    BY <1>11, <1>0, Members, Maps DEF OReaps, Alive, At, Goes, Reap, facts, outer, wires, Stages
  <2>2. proc' \in [Roles -> Lives]
    BY <1>11, <1>0, Members, Maps DEF OReaps, Alive, At, Goes, Reap, facts, outer, wires, Lives
  <2>3. rcpt' \in [Roles -> Codes]
    BY <1>11, <1>0, Members, Maps DEF OReaps, Alive, At, Goes, Reap, facts, outer, wires
  <2> QED BY <1>11, <1>0, <2>1, <2>2, <2>3 DEF OReaps, Goes, Reap, facts, outer, wires, Shapes
<1>12. CASE OCloses
  <2>1. pc' \in [Owners -> Stages]
    BY <1>12, <1>0, Members, Maps DEF OCloses, Alive, At, Goes, facts, outer, world, Stages
  <2> QED BY <1>12, <1>0, <2>1 DEF OCloses, Goes, facts, outer, world, Shapes
<1>13. CASE OPublishes
  <2>1. pc' \in [Owners -> Stages]
    BY <1>13, <1>0, Members, Maps DEF OPublishes, Alive, At, Goes, outer, wires, world, Stages
  <2>2. verdict' \in Verdicts
    <3>1. ProducersConfirmed \in BOOLEAN
      BY DEF ProducersConfirmed, NoProducers
    <3>2. Finality \in {"UNKNOWN", "NO_PRODUCERS", "FINALIZED"}
      BY DEF Finality
    <3> QED BY <1>13, <3>1, <3>2 DEF OPublishes, Verdicts
  <2> QED BY <1>13, <1>0, <2>1, <2>2 DEF OPublishes, Goes, outer, wires, world, Shapes
<1>14. CASE OAccepts
  <2>1. pc' \in [Owners -> Stages]
    BY <1>14, <1>0, Members, Maps DEF OAccepts, Alive, At, Goes, Heard, outer, wires, world,
       Stages
  <2>2. verdict' \in Verdicts
    BY <1>14, <1>0 DEF OAccepts, Alive, At, Goes, Heard, outer, wires, world, Verdicts
  <2> QED BY <1>14, <1>0, <2>1, <2>2 DEF OAccepts, Goes, outer, wires, world, Shapes
<1> QED BY <1>1, <1>2, <1>3, <1>4, <1>5, <1>6, <1>7, <1>8, <1>9, <1>10, <1>11, <1>12, <1>13, <1>14 DEF
     OuterStep

LEMMA TypesCustodian ==
  ASSUME Shapes, CustodianStep
  PROVE  Shapes'
<1>0. /\ proc \in [Roles -> Lives] /\ status \in [Roles -> Codes] /\ kid \in BOOLEAN
      /\ grp \in {"start", "G", "moved"}
      /\ chan \in [Edges -> SUBSET Frames]
      /\ got \in SUBSET (Edges \X (Frames \cup {"EOF"}))
      /\ tried \in SUBSET (Edges \X Frames) /\ lost \in SUBSET (Edges \X Frames)
      /\ pc \in [Owners -> Stages] /\ has \in [Owners -> Made] /\ rcpt \in [Roles -> Codes]
      /\ verdict \in Verdicts
  BY DEF Shapes
<1>1. CASE Boot("C")
  <2>1. Sends("co", "HELLO")
    BY <1>1, SendForm
  <2>2. grp' \in {"start", "G", "moved"}
    BY <1>1, <1>0 DEF Boot, Alive, At, Goes, facts
  <2>3. pc' \in [Owners -> Stages]
    BY <1>1, <1>0, Members, Maps DEF Boot, Alive, At, Goes, facts, Stages
  <2> QED BY <1>1, <1>0, <2>1, <2>2, <2>3 DEF Boot, Goes, facts, Shapes, Sends
<1>2. CASE TakesConfig("C")
  <2>1. chan' \in [Edges -> SUBSET Frames]
    BY <1>2, <1>0, Members, Maps DEF TakesConfig, Accepts, Alive, At, Takes, facts, outer, world,
       Frames
  <2>2. got' \in SUBSET (Edges \X (Frames \cup {"EOF"}))
    BY <1>2, <1>0, Members, Maps DEF TakesConfig, Accepts, Alive, At, Takes, facts, outer, world,
       Frames
  <2> QED BY <1>2, <1>0, <2>1, <2>2 DEF TakesConfig, Accepts, Takes, facts, outer, world, Shapes
<1>3. CASE TakesCancel("C")
  <2>1. chan' \in [Edges -> SUBSET Frames]
    BY <1>3, <1>0, Members, Maps DEF TakesCancel, Accepts, Alive, At, Takes, facts, outer, world,
       Frames
  <2>2. got' \in SUBSET (Edges \X (Frames \cup {"EOF"}))
    BY <1>3, <1>0, Members, Maps DEF TakesCancel, Accepts, Alive, At, Takes, facts, outer, world,
       Frames
  <2> QED BY <1>3, <1>0, <2>1, <2>2 DEF TakesCancel, Accepts, Takes, facts, outer, world, Shapes
<1>4. ASSUME NEW t \in {"ADMIT", "RUN", "COMMIT"}, TakesGrant("C", t)
      PROVE  Shapes'
  <2>1. chan' \in [Edges -> SUBSET Frames]
    BY <1>4, <1>0, Members, Maps DEF TakesGrant, Accepts, Alive, At, Goes, Takes, facts, outer,
       world, Frames
  <2>2. got' \in SUBSET (Edges \X (Frames \cup {"EOF"}))
    BY <1>4, <1>0, Members, Maps DEF TakesGrant, Accepts, Alive, At, Goes, Takes, facts, outer,
       world, Frames
  <2>3. pc' \in [Owners -> Stages]
    BY <1>4, <1>0, Members, Maps, Welcomes DEF TakesGrant, Accepts, Alive, At, Goes, Takes, facts,
       outer, world, Stages
  <2> QED BY <1>4, <1>0, <2>1, <2>2, <2>3 DEF TakesGrant, Accepts, Goes, Takes, facts, outer, world,
       Shapes
<1>5. ASSUME NEW t \in {"ADMIT", "RUN", "COMMIT"}, RefusesGrant("C", t)
      PROVE  Shapes'
  <2>1. chan' \in [Edges -> SUBSET Frames]
    BY <1>5, <1>0, Members, Maps DEF RefusesGrant, AfterBody, Alive, At, Goes, Raises, Takes,
       facts, outer, world, Frames
  <2>2. pc' \in [Owners -> Stages]
    BY <1>5, <1>0, Members, Maps, Bodies DEF RefusesGrant, AfterBody, Alive, At, Goes, Raises,
       Takes, facts, outer, world, Stages
  <2> QED BY <1>5, <1>0, <2>1, <2>2 DEF RefusesGrant, Goes, Raises, Takes, facts, outer, world, Shapes
<1>6. CASE CConfigures
  <2>1. Sends("ck", "CONFIG")
    BY <1>6, SendForm
  <2>2. pc' \in [Owners -> Stages]
    BY <1>6, <1>0, Members, Maps DEF CConfigures, Alive, At, Goes, facts, world, Stages
  <2> QED BY <1>6, <1>0, <2>1, <2>2 DEF CConfigures, Goes, facts, world, Shapes, Sends
<1>7. CASE CHearsHello
  <2>1. chan' \in [Edges -> SUBSET Frames]
    BY <1>7, <1>0, Members, Maps DEF CHearsHello, AfterBody, Alive, At, Goes, Raises, Reads,
       outer, world, Frames
  <2>2. got' \in SUBSET (Edges \X (Frames \cup {"EOF"}))
    BY <1>7, <1>0, Members, Maps DEF CHearsHello, AfterBody, Alive, At, Goes, Raises, Reads,
       outer, world, Frames
  <2>3. pc' \in [Owners -> Stages]
    BY <1>7, <1>0, Members, Maps, Bodies DEF CHearsHello, AfterBody, Alive, At, Goes, Raises,
       Reads, outer, world, Stages
  <2> QED BY <1>7, <1>0, <2>1, <2>2, <2>3 DEF CHearsHello, Goes, Raises, Reads, outer, world, Shapes
<1>8. CASE CReserves
  <2>1. Sends("co", "RESERVED")
    BY <1>8, SendForm
  <2>2. pc' \in [Owners -> Stages]
    BY <1>8, <1>0, Members, Maps DEF CReserves, Alive, At, Goes, facts, world, Stages
  <2> QED BY <1>8, <1>0, <2>1, <2>2 DEF CReserves, Goes, facts, world, Shapes, Sends
<1>9. CASE CGrants
  <2>1. Sends("ck", "RUN")
    BY <1>9, SendForm
  <2>2. pc' \in [Owners -> Stages]
    BY <1>9, <1>0, Members, Maps DEF CGrants, Alive, At, Goes, facts, world, Stages
  <2> QED BY <1>9, <1>0, <2>1, <2>2 DEF CGrants, Goes, facts, world, Shapes, Sends
<1>10. CASE CHearsMoved
  <2>1. chan' \in [Edges -> SUBSET Frames]
    BY <1>10, <1>0, Members, Maps DEF CHearsMoved, AfterBody, Alive, At, Goes, Raises, Reads,
       facts, outer, world, Frames
  <2>2. got' \in SUBSET (Edges \X (Frames \cup {"EOF"}))
    BY <1>10, <1>0, Members, Maps DEF CHearsMoved, AfterBody, Alive, At, Goes, Raises, Reads,
       facts, outer, world, Frames
  <2>3. pc' \in [Owners -> Stages]
    BY <1>10, <1>0, Members, Maps, Bodies DEF CHearsMoved, AfterBody, Alive, At, Goes, Raises,
       Reads, facts, outer, world, Stages
  <2> QED BY <1>10, <1>0, <2>1, <2>2, <2>3 DEF CHearsMoved, Goes, Raises, Reads, facts, outer, world,
       Shapes
<1>11. CASE CSaysReady
  <2>1. Sends("co", "READY")
    BY <1>11, SendForm
  <2> QED BY <1>11, <1>0, <2>1 DEF CSaysReady, facts, world, Shapes, Sends
<1>12. CASE CHearsStatus
  <2>1. chan' \in [Edges -> SUBSET Frames]
    BY <1>12, <1>0, Members, Maps DEF CHearsStatus, Alive, At, Goes, Reads, facts, outer, world,
       Frames
  <2>2. got' \in SUBSET (Edges \X (Frames \cup {"EOF"}))
    BY <1>12, <1>0, Members, Maps DEF CHearsStatus, Alive, At, Goes, Reads, facts, outer, world,
       Frames
  <2>3. pc' \in [Owners -> Stages]
    BY <1>12, <1>0, Members, Maps DEF CHearsStatus, Alive, At, Goes, Reads, facts, outer, world,
       Stages
  <2> QED BY <1>12, <1>0, <2>1, <2>2, <2>3 DEF CHearsStatus, Goes, Reads, facts, outer, world, Shapes
<1>13. CASE CForwards
  <2>1. Sends("co", "STATUS")
    BY <1>13, SendForm
  <2>2. pc' \in [Owners -> Stages]
    BY <1>13, <1>0, Members, Maps DEF CForwards, Alive, At, Goes, facts, world, Stages
  <2> QED BY <1>13, <1>0, <2>1, <2>2 DEF CForwards, Goes, facts, world, Shapes, Sends
<1>14. CASE CNotesStatus
  <2>1. chan' \in [Edges -> SUBSET Frames]
    BY <1>14, <1>0, Members, Maps DEF CNotesStatus, AfterBody, Alive, At, Goes, Heard, Raises,
       Reads, facts, outer, world, Frames
  <2>2. got' \in SUBSET (Edges \X (Frames \cup {"EOF"}))
    BY <1>14, <1>0, Members, Maps DEF CNotesStatus, AfterBody, Alive, At, Goes, Heard, Raises,
       Reads, facts, outer, world, Frames
  <2>3. pc' \in [Owners -> Stages]
    BY <1>14, <1>0, Members, Maps, Bodies DEF CNotesStatus, AfterBody, Alive, At, Goes, Heard,
       Raises, Reads, facts, outer, world, Stages
  <2> QED BY <1>14, <1>0, <2>1, <2>2, <2>3 DEF CNotesStatus, Goes, Raises, Reads, facts, outer, world,
       Shapes
<1>15. CASE CHearsReleased
  <2>1. chan' \in [Edges -> SUBSET Frames]
    BY <1>15, <1>0, Members, Maps DEF CHearsReleased, AfterBody, Alive, At, Goes, Raises, Reads,
       facts, outer, world, Frames
  <2>2. got' \in SUBSET (Edges \X (Frames \cup {"EOF"}))
    BY <1>15, <1>0, Members, Maps DEF CHearsReleased, AfterBody, Alive, At, Goes, Raises, Reads,
       facts, outer, world, Frames
  <2>3. pc' \in [Owners -> Stages]
    BY <1>15, <1>0, Members, Maps, Bodies DEF CHearsReleased, AfterBody, Alive, At, Goes, Raises,
       Reads, facts, outer, world, Stages
  <2> QED BY <1>15, <1>0, <2>1, <2>2, <2>3 DEF CHearsReleased, Goes, Raises, Reads, facts, outer, world,
       Shapes
<1>16. CASE CSettles
  <2>1. pc' \in [Owners -> Stages]
    BY <1>16, <1>0, Members, Maps DEF CSettles, Alive, At, Goes, SettleUnk, facts, outer, wires,
       world, Stages
  <2> QED BY <1>16, <1>0, <2>1 DEF CSettles, Goes, SettleUnk, facts, outer, wires, world, Shapes
<1>17. CASE CCancels
  <2>1. Sends("ck", "CANCEL")
    BY <1>17, SendForm
  <2>2. pc' \in [Owners -> Stages]
    BY <1>17, <1>0, Members, Maps DEF CCancels, Alive, At, Goes, facts, wires, world, Stages
  <2> QED BY <1>17, <1>0, <2>1, <2>2 DEF CCancels, Goes, facts, wires, world, Shapes, Sends
<1>18. CASE CNames
  <2>1. pc' \in [Owners -> Stages]
    BY <1>18, <1>0, Members, Maps DEF CNames, Alive, At, Goes, facts, outer, wires, world, Stages
  <2> QED BY <1>18, <1>0, <2>1 DEF CNames, Goes, facts, outer, wires, world, Shapes
<1>19. CASE CKillsGroup
  <2>1. kid' \in BOOLEAN
    BY <1>19, <1>0, KillGroupForm DEF CKillsGroup, Alive, At, facts, minds, outer, wires
  <2>2. proc' \in [Roles -> Lives]
    BY <1>19, <1>0, KillGroupForm, Members, Maps DEF CKillsGroup, Alive, At, facts, minds, outer,
       wires, Dying, Lives
  <2>3. status' \in [Roles -> Codes]
    BY <1>19, <1>0, KillGroupForm DEF CKillsGroup, Alive, At, facts, minds, outer, wires, Dying,
       Codes
  <2> QED BY <1>19, <1>0, <2>1, <2>2, <2>3 DEF CKillsGroup, facts, minds, outer, wires, Shapes
<1>20. CASE CSeesGroup
  <2>1. pc' \in [Owners -> Stages]
    BY <1>20, <1>0, Members, Maps DEF CSeesGroup, Alive, At, Goes, outer, wires, world, Stages
  <2> QED BY <1>20, <1>0, <2>1 DEF CSeesGroup, Goes, outer, wires, world, Shapes
<1>21. CASE CRetiresGroup
  <2>1. Sends("ck", "GROUP_RETIRED")
    BY <1>21, SendForm
  <2>2. pc' \in [Owners -> Stages]
    BY <1>21, <1>0, Members, Maps DEF CRetiresGroup, Alive, At, CReleases, Goes, Heard, facts,
       world, Stages
  <2> QED BY <1>21, <1>0, <2>1, <2>2 DEF CRetiresGroup, CReleases, Goes, facts, world, Shapes, Sends
<1>22. CASE CReleasesKeeper
  <2>1. Sends("ck", "RELEASE")
    BY <1>22, SendForm
  <2>2. pc' \in [Owners -> Stages]
    BY <1>22, <1>0, Members, Maps DEF CReleasesKeeper, Alive, At, CReleases, Goes, Heard, facts,
       world, Stages
  <2> QED BY <1>22, <1>0, <2>1, <2>2 DEF CReleasesKeeper, CReleases, Goes, facts, world, Shapes, Sends
<1>23. CASE CReaps
  <2>1. pc' \in [Owners -> Stages]
    BY <1>23, <1>0, Members, Maps DEF CReaps, Alive, At, Goes, Reap, facts, outer, wires, Stages
  <2>2. proc' \in [Roles -> Lives]
    BY <1>23, <1>0, Members, Maps DEF CReaps, Alive, At, Goes, Reap, facts, outer, wires, Lives
  <2>3. rcpt' \in [Roles -> Codes]
    BY <1>23, <1>0, Members, Maps DEF CReaps, Alive, At, Goes, Reap, facts, outer, wires
  <2> QED BY <1>23, <1>0, <2>1, <2>2, <2>3 DEF CReaps, Goes, Reap, facts, outer, wires, Shapes
<1>24. CASE CDrains
  <2>1. pc' \in [Owners -> Stages]
    BY <1>24, <1>0, Members, Maps DEF CDrains, Alive, At, Goes, Heard, facts, outer, world, Stages
  <2> QED BY <1>24, <1>0, <2>1 DEF CDrains, Goes, facts, outer, world, Shapes
<1>25. CASE CPays
  <2>1. pc' \in [Owners -> Stages]
    BY <1>25, <1>0, Members, Maps DEF CPays, Alive, At, Goes, outer, wires, world, Stages
  <2> QED BY <1>25, <1>0, <2>1 DEF CPays, Goes, outer, wires, world, Shapes
<1>26. CASE CWritesPayload
  <2>1. pc' \in [Owners -> Stages]
    BY <1>26, <1>0, Members, Maps DEF CWritesPayload, Alive, At, Event, Goes, wires, world, Stages
  <2> QED BY <1>26, <1>0, <2>1 DEF CWritesPayload, Goes, wires, world, Shapes
<1>27. CASE CQuiesces
  <2>1. Sends("co", "QUIESCING")
    BY <1>27, SendForm
  <2>2. pc' \in [Owners -> Stages]
    BY <1>27, <1>0, Members, Maps DEF CQuiesces, Alive, At, Goes, wires, world, Stages
  <2> QED BY <1>27, <1>0, <2>1, <2>2 DEF CQuiesces, Goes, wires, world, Shapes, Sends
<1>28. CASE CSeesQuiet
  <2>1. pc' \in [Owners -> Stages]
    BY <1>28, <1>0, Members, Maps DEF CSeesQuiet, Alive, At, Goes, outer, world, Stages
  <2> QED BY <1>28, <1>0, <2>1 DEF CSeesQuiet, Goes, outer, world, Shapes
<1>29. CASE CGivesUp
  <2>1. pc' \in [Owners -> Stages]
    BY <1>29, <1>0, Members, Maps DEF CGivesUp, Alive, At, Goes, facts, outer, world, Stages
  <2> QED BY <1>29, <1>0, <2>1 DEF CGivesUp, Goes, facts, outer, world, Shapes
<1>30. CASE CReports
  <2>1. Sends("co", "FINAL")
    BY <1>30, SendForm
  <2>2. pc' \in [Owners -> Stages]
    BY <1>30, <1>0, Members, Maps DEF CReports, Alive, At, Goes, world, Stages
  <2> QED BY <1>30, <1>0, <2>1, <2>2 DEF CReports, Goes, world, Shapes, Sends
<1>31. CASE CExits
  <2>1. Dying
    BY <1>31, DeathForm, Members
  <2> QED BY <1>31, <1>0, <2>1 DEF CExits, facts, minds, outer, wires, Shapes, Dying
<1> QED BY <1>1, <1>2, <1>3, <1>4, <1>5, <1>6, <1>7, <1>8, <1>9, <1>10, <1>11, <1>12, <1>13, <1>14,
     <1>15, <1>16, <1>17, <1>18, <1>19, <1>20, <1>21, <1>22, <1>23, <1>24, <1>25, <1>26, <1>27,
     <1>28, <1>29, <1>30, <1>31 DEF CustodianStep

LEMMA TypesKeeper ==
  ASSUME Shapes, KeeperStep
  PROVE  Shapes'
<1>0. /\ proc \in [Roles -> Lives] /\ status \in [Roles -> Codes] /\ kid \in BOOLEAN
      /\ grp \in {"start", "G", "moved"}
      /\ chan \in [Edges -> SUBSET Frames]
      /\ got \in SUBSET (Edges \X (Frames \cup {"EOF"}))
      /\ tried \in SUBSET (Edges \X Frames) /\ lost \in SUBSET (Edges \X Frames)
      /\ pc \in [Owners -> Stages] /\ has \in [Owners -> Made] /\ rcpt \in [Roles -> Codes]
      /\ verdict \in Verdicts
  BY DEF Shapes
<1>1. CASE Boot("K")
  <2>1. Sends("kc", "HELLO")
    BY <1>1, SendForm
  <2>2. grp' \in {"start", "G", "moved"}
    BY <1>1, <1>0 DEF Boot, Alive, At, Goes, facts
  <2>3. pc' \in [Owners -> Stages]
    BY <1>1, <1>0, Members, Maps DEF Boot, Alive, At, Goes, facts, Stages
  <2> QED BY <1>1, <1>0, <2>1, <2>2, <2>3 DEF Boot, Goes, facts, Shapes, Sends
<1>2. CASE TakesConfig("K")
  <2>1. chan' \in [Edges -> SUBSET Frames]
    BY <1>2, <1>0, Members, Maps DEF TakesConfig, Accepts, Alive, At, Takes, facts, outer, world,
       Frames
  <2>2. got' \in SUBSET (Edges \X (Frames \cup {"EOF"}))
    BY <1>2, <1>0, Members, Maps DEF TakesConfig, Accepts, Alive, At, Takes, facts, outer, world,
       Frames
  <2> QED BY <1>2, <1>0, <2>1, <2>2 DEF TakesConfig, Accepts, Takes, facts, outer, world, Shapes
<1>3. CASE TakesCancel("K")
  <2>1. chan' \in [Edges -> SUBSET Frames]
    BY <1>3, <1>0, Members, Maps DEF TakesCancel, Accepts, Alive, At, Takes, facts, outer, world,
       Frames
  <2>2. got' \in SUBSET (Edges \X (Frames \cup {"EOF"}))
    BY <1>3, <1>0, Members, Maps DEF TakesCancel, Accepts, Alive, At, Takes, facts, outer, world,
       Frames
  <2> QED BY <1>3, <1>0, <2>1, <2>2 DEF TakesCancel, Accepts, Takes, facts, outer, world, Shapes
<1>4. CASE TakesGrant("K", "RUN")
  <2>1. chan' \in [Edges -> SUBSET Frames]
    BY <1>4, <1>0, Members, Maps DEF TakesGrant, Accepts, Alive, At, Goes, Takes, facts, outer,
       world, Frames
  <2>2. got' \in SUBSET (Edges \X (Frames \cup {"EOF"}))
    BY <1>4, <1>0, Members, Maps DEF TakesGrant, Accepts, Alive, At, Goes, Takes, facts, outer,
       world, Frames
  <2>3. pc' \in [Owners -> Stages]
    BY <1>4, <1>0, Members, Maps, Welcomes DEF TakesGrant, Accepts, Alive, At, Goes, Takes, facts,
       outer, world, Stages
  <2> QED BY <1>4, <1>0, <2>1, <2>2, <2>3 DEF TakesGrant, Accepts, Goes, Takes, facts, outer, world,
       Shapes
<1>5. CASE RefusesGrant("K", "RUN")
  <2>1. chan' \in [Edges -> SUBSET Frames]
    BY <1>5, <1>0, Members, Maps DEF RefusesGrant, AfterBody, Alive, At, Goes, Raises, Takes,
       facts, outer, world, Frames
  <2>2. pc' \in [Owners -> Stages]
    BY <1>5, <1>0, Members, Maps, Bodies DEF RefusesGrant, AfterBody, Alive, At, Goes, Raises,
       Takes, facts, outer, world, Stages
  <2> QED BY <1>5, <1>0, <2>1, <2>2 DEF RefusesGrant, Goes, Raises, Takes, facts, outer, world, Shapes
<1>6. CASE KTakesGroupRetired
  <2>1. chan' \in [Edges -> SUBSET Frames]
    BY <1>6, <1>0, Members, Maps DEF KTakesGroupRetired, AfterBody, Alive, At, Goes, Raises,
       Takes, outer, world, Frames
  <2>2. got' \in SUBSET (Edges \X (Frames \cup {"EOF"}))
    BY <1>6, <1>0, Members, Maps DEF KTakesGroupRetired, AfterBody, Alive, At, Goes, Raises,
       Takes, outer, world, Frames
  <2>3. pc' \in [Owners -> Stages]
    BY <1>6, <1>0, Members, Maps, Bodies DEF KTakesGroupRetired, AfterBody, Alive, At, Goes,
       Raises, Takes, outer, world, Stages
  <2> QED BY <1>6, <1>0, <2>1, <2>2, <2>3 DEF KTakesGroupRetired, Goes, Raises, Takes, outer, world,
       Shapes
<1>7. CASE KTakesRelease
  <2>1. chan' \in [Edges -> SUBSET Frames]
    BY <1>7, <1>0, Members, Maps DEF KTakesRelease, AfterBody, Alive, At, Goes, Heard, Raises,
       Takes, facts, outer, world, Frames
  <2>2. got' \in SUBSET (Edges \X (Frames \cup {"EOF"}))
    BY <1>7, <1>0, Members, Maps DEF KTakesRelease, AfterBody, Alive, At, Goes, Heard, Raises,
       Takes, facts, outer, world, Frames
  <2>3. pc' \in [Owners -> Stages]
    BY <1>7, <1>0, Members, Maps, Bodies DEF KTakesRelease, AfterBody, Alive, At, Goes, Heard,
       Raises, Takes, facts, outer, world, Stages
  <2> QED BY <1>7, <1>0, <2>1, <2>2, <2>3 DEF KTakesRelease, Goes, Raises, Takes, facts, outer, world,
       Shapes
<1>8. CASE KMoves
  <2>1. Sends("kc", "MOVED")
    BY <1>8, SendForm
  <2>2. grp' \in {"start", "G", "moved"}
    BY <1>8, <1>0 DEF KMoves, Alive, At, Goes, facts
  <2>3. pc' \in [Owners -> Stages]
    BY <1>8, <1>0, Members, Maps DEF KMoves, Alive, At, Goes, facts, Stages
  <2> QED BY <1>8, <1>0, <2>1, <2>2, <2>3 DEF KMoves, Goes, facts, Shapes, Sends
<1>9. CASE KReaps
  <2>1. proc' \in [Roles -> Lives]
    BY <1>9, <1>0, Members, Maps DEF KReaps, Alive, At, Reap, facts, outer, wires, Lives
  <2>2. rcpt' \in [Roles -> Codes]
    BY <1>9, <1>0, Members, Maps DEF KReaps, Alive, At, Reap, facts, outer, wires
  <2> QED BY <1>9, <1>0, <2>1, <2>2 DEF KReaps, Reap, facts, outer, wires, Shapes
<1>10. CASE KReports
  <2>1. Sends("kc", "STATUS")
    BY <1>10, SendForm
  <2>2. pc' \in [Owners -> Stages]
    BY <1>10, <1>0, Members, Maps DEF KReports, Alive, At, Goes, facts, world, Stages
  <2> QED BY <1>10, <1>0, <2>1, <2>2 DEF KReports, Goes, facts, world, Shapes, Sends
<1>11. CASE KSettles
  <2>1. grp' \in {"start", "G", "moved"}
    BY <1>11, <1>0 DEF KSettles, Alive, At, Goes, MoveOut, facts, outer, wires
  <2>2. pc' \in [Owners -> Stages]
    BY <1>11, <1>0, Members, Maps DEF KSettles, Alive, At, Goes, MoveOut, facts, outer, wires,
       Stages
  <2> QED BY <1>11, <1>0, <2>1, <2>2 DEF KSettles, Goes, MoveOut, facts, outer, wires, Shapes
<1>12. CASE KReleased
  <2>1. pc' \in [Owners -> Stages]
    BY <1>12, <1>0, Members, Maps DEF KReleased, Alive, At, Goes, facts, outer, wires, world,
       Stages
  <2> QED BY <1>12, <1>0, <2>1 DEF KReleased, Goes, facts, outer, wires, world, Shapes
<1>13. CASE KExpires
  <2>1. pc' \in [Owners -> Stages]
    BY <1>13, <1>0, Members, Maps DEF KExpires, Alive, At, Goes, facts, outer, wires, world,
       Stages
  <2> QED BY <1>13, <1>0, <2>1 DEF KExpires, Goes, facts, outer, wires, world, Shapes
<1>14. CASE KFallback
  <2>1. kid' \in BOOLEAN
    BY <1>14, <1>0, KillGroupForm DEF KFallback, Alive, At, outer, wires
  <2>2. proc' \in [Roles -> Lives]
    BY <1>14, <1>0, KillGroupForm, Members, Maps DEF KFallback, Alive, At, outer, wires, Dying,
       Lives
  <2>3. status' \in [Roles -> Codes]
    BY <1>14, <1>0, KillGroupForm DEF KFallback, Alive, At, outer, wires, Dying, Codes
  <2> QED BY <1>14, <1>0, <2>1, <2>2, <2>3 DEF KFallback, outer, wires, Shapes
<1>15. CASE KFallbackEnds
  <2>1. pc' \in [Owners -> Stages]
    BY <1>15, <1>0, Members, Maps DEF KFallbackEnds, Alive, At, Goes, facts, outer, wires, world,
       Stages
  <2> QED BY <1>15, <1>0, <2>1 DEF KFallbackEnds, Goes, facts, outer, wires, world, Shapes
<1>16. CASE KLastWait
  <2>1. pc' \in [Owners -> Stages]
    BY <1>16, <1>0, Members, Maps DEF KLastWait, Alive, At, Goes, facts, outer, wires, world,
       Stages
  <2> QED BY <1>16, <1>0, <2>1 DEF KLastWait, Goes, facts, outer, wires, world, Shapes
<1>17. CASE KCloses
  <2>1. pc' \in [Owners -> Stages]
    BY <1>17, <1>0, Members, Maps DEF KCloses, Alive, At, Goes, outer, world, Stages
  <2> QED BY <1>17, <1>0, <2>1 DEF KCloses, Goes, outer, world, Shapes
<1>18. CASE KReleases
  <2>1. Sends("kc", "RELEASED")
    BY <1>18, SendForm
  <2>2. pc' \in [Owners -> Stages]
    BY <1>18, <1>0, Members, Maps DEF KReleases, Alive, At, Goes, facts, world, Stages
  <2> QED BY <1>18, <1>0, <2>1, <2>2 DEF KReleases, Goes, facts, world, Shapes, Sends
<1>19. CASE KExits
  <2>1. Dying
    BY <1>19, DeathForm, Members
  <2> QED BY <1>19, <1>0, <2>1 DEF KExits, facts, minds, outer, wires, Shapes, Dying
<1> QED BY <1>1, <1>2, <1>3, <1>4, <1>5, <1>6, <1>7, <1>8, <1>9, <1>10, <1>11, <1>12, <1>13, <1>14,
     <1>15, <1>16, <1>17, <1>18, <1>19 DEF KeeperStep

LEMMA TypesShared ==
  ASSUME Shapes, Shared
  PROVE  Shapes'
<1>0. /\ proc \in [Roles -> Lives] /\ status \in [Roles -> Codes] /\ kid \in BOOLEAN
      /\ grp \in {"start", "G", "moved"}
      /\ chan \in [Edges -> SUBSET Frames]
      /\ got \in SUBSET (Edges \X (Frames \cup {"EOF"}))
      /\ tried \in SUBSET (Edges \X Frames) /\ lost \in SUBSET (Edges \X Frames)
      /\ pc \in [Owners -> Stages] /\ has \in [Owners -> Made] /\ rcpt \in [Roles -> Codes]
      /\ verdict \in Verdicts
  BY DEF Shapes
<1>1. CASE SpawnCall("O")
  <2>1. has' \in [Owners -> Made]
    BY <1>1, <1>0, Members, Maps DEF SpawnCall, Alive, At, facts, outer, wires, world, Made
  <2> QED BY <1>1, <1>0, <2>1 DEF SpawnCall, facts, outer, wires, world, Shapes
<1>2. CASE SpawnCall("C")
  <2>1. has' \in [Owners -> Made]
    BY <1>2, <1>0, Members, Maps DEF SpawnCall, Alive, At, facts, outer, wires, world, Made
  <2> QED BY <1>2, <1>0, <2>1 DEF SpawnCall, facts, outer, wires, world, Shapes
<1>3. CASE SpawnCall("K")
  <2>1. has' \in [Owners -> Made]
    BY <1>3, <1>0, Members, Maps DEF SpawnCall, Alive, At, facts, outer, wires, world, Made
  <2> QED BY <1>3, <1>0, <2>1 DEF SpawnCall, facts, outer, wires, world, Shapes
<1>4. CASE SpawnReturns("O")
  <2>1. has' \in [Owners -> Made]
    BY <1>4, <1>0, Members, Maps DEF SpawnReturns, Alive, facts, outer, wires, Made
  <2>2. kid' \in BOOLEAN
    BY <1>4, <1>0 DEF SpawnReturns, Alive, facts, outer, wires
  <2>3. proc' \in [Roles -> Lives]
    BY <1>4, <1>0, Members, Maps DEF SpawnReturns, Alive, facts, outer, wires, Lives
  <2> QED BY <1>4, <1>0, <2>1, <2>2, <2>3 DEF SpawnReturns, facts, outer, wires, Shapes
<1>5. CASE SpawnReturns("C")
  <2>1. has' \in [Owners -> Made]
    BY <1>5, <1>0, Members, Maps DEF SpawnReturns, Alive, facts, outer, wires, Made
  <2>2. kid' \in BOOLEAN
    BY <1>5, <1>0 DEF SpawnReturns, Alive, facts, outer, wires
  <2>3. proc' \in [Roles -> Lives]
    BY <1>5, <1>0, Members, Maps DEF SpawnReturns, Alive, facts, outer, wires, Lives
  <2> QED BY <1>5, <1>0, <2>1, <2>2, <2>3 DEF SpawnReturns, facts, outer, wires, Shapes
<1>6. CASE SpawnReturns("K")
  <2>1. has' \in [Owners -> Made]
    BY <1>6, <1>0, Members, Maps DEF SpawnReturns, Alive, facts, outer, wires, Made
  <2>2. kid' \in BOOLEAN
    BY <1>6, <1>0 DEF SpawnReturns, Alive, facts, outer, wires
  <2>3. proc' \in [Roles -> Lives]
    BY <1>6, <1>0, Members, Maps DEF SpawnReturns, Alive, facts, outer, wires, Lives
  <2> QED BY <1>6, <1>0, <2>1, <2>2, <2>3 DEF SpawnReturns, facts, outer, wires, Shapes
<1>7. CASE Spawned("O")
  <2>1. pc' \in [Owners -> Stages]
    BY <1>7, <1>0, Members, Maps DEF Spawned, Alive, At, Goes, facts, outer, wires, world, Stages
  <2> QED BY <1>7, <1>0, <2>1 DEF Spawned, Goes, facts, outer, wires, world, Shapes
<1>8. CASE Spawned("C")
  <2>1. pc' \in [Owners -> Stages]
    BY <1>8, <1>0, Members, Maps DEF Spawned, Alive, At, Goes, facts, outer, wires, world, Stages
  <2> QED BY <1>8, <1>0, <2>1 DEF Spawned, Goes, facts, outer, wires, world, Shapes
<1>9. CASE Spawned("K")
  <2>1. pc' \in [Owners -> Stages]
    BY <1>9, <1>0, Members, Maps DEF Spawned, Alive, At, Goes, facts, outer, wires, world, Stages
  <2> QED BY <1>9, <1>0, <2>1 DEF Spawned, Goes, facts, outer, wires, world, Shapes
<1>10. CASE Unwind("O")
  <2>1. pc' \in [Owners -> Stages]
    BY <1>10, <1>0, Members, Maps, Bodies DEF Unwind, AfterBody, Alive, Goes, InBody, Raises,
       facts, outer, wires, world, Stages
  <2> QED BY <1>10, <1>0, <2>1 DEF Unwind, Goes, Raises, facts, outer, wires, world, Shapes
<1>11. CASE Unwind("C")
  <2>1. pc' \in [Owners -> Stages]
    BY <1>11, <1>0, Members, Maps, Bodies DEF Unwind, AfterBody, Alive, Goes, InBody, Raises,
       facts, outer, wires, world, Stages
  <2> QED BY <1>11, <1>0, <2>1 DEF Unwind, Goes, Raises, facts, outer, wires, world, Shapes
<1>12. CASE Unwind("K")
  <2>1. pc' \in [Owners -> Stages]
    BY <1>12, <1>0, Members, Maps, Bodies DEF Unwind, AfterBody, Alive, Goes, InBody, Raises,
       facts, outer, wires, world, Stages
  <2> QED BY <1>12, <1>0, <2>1 DEF Unwind, Goes, Raises, facts, outer, wires, world, Shapes
<1>13. CASE ParentEof("C")
  <2>1. got' \in SUBSET (Edges \X (Frames \cup {"EOF"}))
    BY <1>13, <1>0, Members, Maps DEF ParentEof, Alive, At, InBody, facts, outer, wires, world,
       Frames
  <2> QED BY <1>13, <1>0, <2>1 DEF ParentEof, facts, outer, wires, world, Shapes
<1>14. CASE ParentEof("K")
  <2>1. got' \in SUBSET (Edges \X (Frames \cup {"EOF"}))
    BY <1>14, <1>0, Members, Maps DEF ParentEof, Alive, At, InBody, facts, outer, wires, world,
       Frames
  <2> QED BY <1>14, <1>0, <2>1 DEF ParentEof, facts, outer, wires, world, Shapes
<1>15. CASE ChildEof("O")
  <2>1. got' \in SUBSET (Edges \X (Frames \cup {"EOF"}))
    BY <1>15, <1>0, Members, Maps DEF ChildEof, Alive, At, Heard, facts, outer, wires, world,
       Frames
  <2> QED BY <1>15, <1>0, <2>1 DEF ChildEof, facts, outer, wires, world, Shapes
<1>16. CASE ChildEof("C")
  <2>1. got' \in SUBSET (Edges \X (Frames \cup {"EOF"}))
    BY <1>16, <1>0, Members, Maps DEF ChildEof, Alive, At, Heard, facts, outer, wires, world,
       Frames
  <2> QED BY <1>16, <1>0, <2>1 DEF ChildEof, facts, outer, wires, world, Shapes
<1>17. CASE KidEnds
  <2>1. kid' \in BOOLEAN
    BY <1>17, <1>0 DEF KidEnds, facts, minds, outer, wires
  <2> QED BY <1>17, <1>0, <2>1 DEF KidEnds, facts, minds, outer, wires, Shapes
<1>18. ASSUME NEW how \in {"ok", "bad"}, VEnds(how)
      PROVE  Shapes'
  <2>1. Dying
    BY <1>18, DeathForm, Members
  <2> QED BY <1>18, <1>0, <2>1 DEF VEnds, facts, minds, outer, wires, Shapes, Dying
<1> QED BY <1>1, <1>2, <1>3, <1>4, <1>5, <1>6, <1>7, <1>8, <1>9, <1>10, <1>11, <1>12, <1>13, <1>14,
     <1>15, <1>16, <1>17, <1>18, SharedCases

LEMMA TypesFaults ==
  ASSUME Shapes, Faults
  PROVE  Shapes'
<1>0. /\ proc \in [Roles -> Lives] /\ status \in [Roles -> Codes] /\ kid \in BOOLEAN
      /\ grp \in {"start", "G", "moved"}
      /\ chan \in [Edges -> SUBSET Frames]
      /\ got \in SUBSET (Edges \X (Frames \cup {"EOF"}))
      /\ tried \in SUBSET (Edges \X Frames) /\ lost \in SUBSET (Edges \X Frames)
      /\ pc \in [Owners -> Stages] /\ has \in [Owners -> Made] /\ rcpt \in [Roles -> Codes]
      /\ verdict \in Verdicts
  BY DEF Shapes
<1>1. CASE BodyFault("O")
  <2>1. pc' \in [Owners -> Stages]
    BY <1>1, <1>0, Members, Maps DEF BodyFault, AfterBody, Alive, Event, Goes, InBody, facts,
       wires, world, Stages
  <2> QED BY <1>1, <1>0, <2>1 DEF BodyFault, Goes, facts, wires, world, Shapes
<1>2. CASE BodyFault("C")
  <2>1. pc' \in [Owners -> Stages]
    BY <1>2, <1>0, Members, Maps DEF BodyFault, AfterBody, Alive, Event, Goes, InBody, facts,
       wires, world, Stages
  <2> QED BY <1>2, <1>0, <2>1 DEF BodyFault, Goes, facts, wires, world, Shapes
<1>3. CASE BodyFault("K")
  <2>1. pc' \in [Owners -> Stages]
    BY <1>3, <1>0, Members, Maps DEF BodyFault, AfterBody, Alive, Event, Goes, InBody, facts,
       wires, world, Stages
  <2> QED BY <1>3, <1>0, <2>1 DEF BodyFault, Goes, facts, wires, world, Shapes
<1>4. CASE SpawnFails("O")
  <2>1. has' \in [Owners -> Made]
    BY <1>4, <1>0, Members, Maps DEF SpawnFails, Alive, Event, facts, wires, Made
  <2>2. kid' \in BOOLEAN
    BY <1>4, <1>0 DEF SpawnFails, Alive, Event, facts, wires
  <2>3. proc' \in [Roles -> Lives]
    BY <1>4, <1>0, Members, Maps DEF SpawnFails, Alive, Event, facts, wires, Lives
  <2> QED BY <1>4, <1>0, <2>1, <2>2, <2>3 DEF SpawnFails, facts, wires, Shapes
<1>5. CASE SpawnFails("C")
  <2>1. has' \in [Owners -> Made]
    BY <1>5, <1>0, Members, Maps DEF SpawnFails, Alive, Event, facts, wires, Made
  <2>2. kid' \in BOOLEAN
    BY <1>5, <1>0 DEF SpawnFails, Alive, Event, facts, wires
  <2>3. proc' \in [Roles -> Lives]
    BY <1>5, <1>0, Members, Maps DEF SpawnFails, Alive, Event, facts, wires, Lives
  <2> QED BY <1>5, <1>0, <2>1, <2>2, <2>3 DEF SpawnFails, facts, wires, Shapes
<1>6. CASE SpawnFails("K")
  <2>1. has' \in [Owners -> Made]
    BY <1>6, <1>0, Members, Maps DEF SpawnFails, Alive, Event, facts, wires, Made
  <2>2. kid' \in BOOLEAN
    BY <1>6, <1>0 DEF SpawnFails, Alive, Event, facts, wires
  <2>3. proc' \in [Roles -> Lives]
    BY <1>6, <1>0, Members, Maps DEF SpawnFails, Alive, Event, facts, wires, Lives
  <2> QED BY <1>6, <1>0, <2>1, <2>2, <2>3 DEF SpawnFails, facts, wires, Shapes
<1>7. ASSUME NEW p \in Roles, Kill(p)
      PROVE  Shapes'
  <2>1. Dying
    BY <1>7, DeathForm, Members
  <2> QED BY <1>7, <1>0, <2>1 DEF Kill, facts, minds, wires, Shapes, Dying
<1>8. CASE BootFails("C")
  <2>1. Dying
    BY <1>8, DeathForm, Members
  <2> QED BY <1>8, <1>0, <2>1 DEF BootFails, facts, minds, wires, Shapes, Dying
<1>9. CASE BootFails("K")
  <2>1. Dying
    BY <1>9, DeathForm, Members
  <2> QED BY <1>9, <1>0, <2>1 DEF BootFails, facts, minds, wires, Shapes, Dying
<1>10. CASE KMovesOnly
  <2>1. grp' \in {"start", "G", "moved"}
    BY <1>10, <1>0 DEF KMovesOnly, Alive, At, Event, Goes, facts, wires
  <2>2. pc' \in [Owners -> Stages]
    BY <1>10, <1>0, Members, Maps DEF KMovesOnly, Alive, At, Event, Goes, facts, wires, Stages
  <2> QED BY <1>10, <1>0, <2>1, <2>2 DEF KMovesOnly, Goes, facts, wires, Shapes
<1>11. CASE \/ CleanupFault("O") \/ CleanupFault("C") \/ CleanupFault("K") \/ Signal("O")
            \/ Signal("C")
  BY <1>11, TypesIdle DEF CleanupFault, world, wires, facts, Signal
<1>12. CASE \/ Signal("K") \/ Interrupt \/ (\E t \in {"run", "capture"} : Deadline(t))
            \/ Cutoff("O") \/ Cutoff("C")
  BY <1>12, TypesIdle DEF Signal, world, wires, facts, Interrupt, minds, Deadline, Cutoff
<1>13. CASE Cutoff("K")
  BY <1>13, TypesIdle DEF Cutoff, world, wires, minds, facts
<1> QED BY <1>1, <1>2, <1>3, <1>4, <1>5, <1>6, <1>7, <1>8, <1>9, <1>10, <1>11, <1>12, <1>13, FaultsCases

LEMMA TypesStep ==
  ASSUME Shapes, [Next]_vars
  PROVE  Shapes'
<1>1. CASE UNCHANGED vars \/ Finished
  BY <1>1 DEF Finished, Shapes, vars, world, wires, minds, facts
<1> QED BY <1>1, TypesOuter, TypesCustodian, TypesKeeper, TypesShared, TypesFaults DEF Next

-----------------------------------------------------------------------------
(* What a step may do, one relation for each part of the state.              *)

\* An owner whose creator made nothing has no child; a creator is asked once.
Bears(p, c) ==
  \/ has'[p] = has[p] /\ (proc[c] = "none" => proc'[c] = "none")
  \/ has[p] = "none" /\ has'[p] = "native" /\ pc[p] = "spawn" /\ proc[p] = "alive"
     /\ proc'[c] = proc[c]
  \/ has[p] = "native" /\ has'[p] \in {"made", "empty", "lost"} /\ proc[p] = "alive"
     /\ (has'[p] = "empty" => proc'[c] = proc[c])

\* Processes are made, die and are reaped in this order, and keep their status.
WorldRel ==
  /\ \A p \in Roles :
       /\ proc[p] = "gone" => proc'[p] = "gone"
       /\ proc[p] = "zombie" => proc'[p] \in {"zombie", "gone"}
       /\ proc[p] = "alive" => proc'[p] # "none"
       /\ status'[p] = status[p] \/ (proc[p] = "alive" /\ proc'[p] \in {"zombie", "gone"})
       /\ \/ rcpt'[p] = rcpt[p]
          \/ proc'[p] = "gone" /\ rcpt'[p] = status'[p]
  /\ Bears("O", "C") /\ Bears("C", "K") /\ Bears("K", "V")
  /\ kid' => kid \/ (has["K"] = "native" /\ proc["K"] = "alive" /\ proc'["V"] = "alive")

\* The stages of the owners, and of the keeper where it stands.
StageRel ==
  /\ pc["O"] \in {"accept", "done"} => pc'["O"] \in {"accept", "done"}
  /\ pc'["C"] # pc["C"] => proc["C"] = "alive"
  /\ pc["C"] = "exit" => pc'["C"] = "exit"
  /\ pc["C"] \in {"commit", "quiesce", "quiet", "report", "exit"}
       => pc'["C"] \in {"commit", "quiesce", "quiet", "report", "exit"}
  /\ pc'["C"] = "payload" => pc["C"] = "payload" \/ Successful
  /\ pc'["C"] = "commit" => pc["C"] \in {"commit", "payload"}
  /\ pc'["C"] = "grant" => pc["C"] = "grant" \/ "RUN" \in chan["oc"]

PlaceRel ==
  /\ pc'["K"] # pc["K"] => proc["K"] = "alive"
  /\ pc'["K"] = "boot" => pc["K"] = "boot"
  /\ pc["K"] = "boot" /\ pc'["K"] # "boot" => grp' = "G"
  /\ \/ grp' = grp
     \/ pc["K"] = "boot" /\ pc'["K"] # "boot" /\ grp' = "G"
     \/ /\ pc["K"] \in {"move", "settle"} /\ grp' = "moved" /\ pc'["K"] \in {"wait", "settle", "hold"}
        /\ pc["K"] = "settle" => has["K"] \in {"none", "made"}
        /\ has'["K"] = has["K"]
  /\ pc'["K"] \in {"config", "spawn"} => pc["K"] \in {"boot", "config", "spawn"}
  /\ pc'["K"] = "spawn" => pc["K"] = "spawn" \/ "RUN" \in chan["ck"]
  /\ pc'["K"] = "move" => pc["K"] = "move" \/ has["K"] = "made"

\* Frames are written by those who may, and read after they were written.
FrameRel ==
  /\ \A e \in Edges : \A t \in chan'[e] : t \in chan[e] \/ <<e, t>> \in tried'
  /\ tried \subseteq tried' /\ got \subseteq got'
  /\ \A e \in Edges : \A t \in Frames : <<e, t>> \in got' => <<e, t>> \in got \/ t \in chan[e]
  /\ <<"kc", "HELLO">> \in tried' => <<"kc", "HELLO">> \in tried \/ grp' = "G"
  /\ <<"ck", "RUN">> \in tried' => <<"ck", "RUN">> \in tried \/ pc["C"] = "grant"
  /\ <<"oc", "RUN">> \in tried' => <<"oc", "RUN">> \in tried \/ pc["O"] = "reserved"
  /\ <<"oc", "COMMIT">> \in tried'
       => <<"oc", "COMMIT">> \in tried \/ (payload = "full" /\ payload' = "full")
  /\ <<"co", "FINAL">> \in tried' => <<"co", "FINAL">> \in tried \/ pc'["C"] = "exit"
  /\ <<"oc", "COMMIT">> \in tried \ lost => <<"oc", "COMMIT">> \notin lost'
  /\ <<"co", "FINAL">> \in got'
       => <<"co", "FINAL">> \in got \/ (FinalFits /\ UNCHANGED <<final, tried, lost>>)

\* The reservation of the group, the payload, the record and the verdict.
FactRel ==
  /\ \/ groupC' = groupC
     \/ groupC' = "open" /\ "HELLO" \in chan["kc"]
     \/ groupC = "open" /\ groupC' = "left" /\ grp' = grp
     \/ groupC = "open" /\ groupC' = "absent" /\ GroupEmpty /\ UNCHANGED world
  /\ payload' = payload \/ (pc["C"] = "payload" /\ pc'["C"] \in {"commit", "quiesce"})
  /\ final' = final \/ CReports
  /\ verdict' = verdict \/ OPublishes \/ OAccepts

LEMMA WorldIdle ==
  ASSUME Shapes, UNCHANGED <<proc, status, rcpt, has, kid>>
  PROVE  WorldRel
  BY DEF WorldRel, Bears, Shapes, Lives

\* What becomes of processes: the steps of the caller.
LEMMA WorldOuter ==
  ASSUME Shapes, Kinship, OuterStep
  PROVE  WorldRel
<1>0. /\ proc \in [Roles -> Lives]
      /\ status \in [Roles -> Codes]
      /\ rcpt \in [Roles -> Codes]
      /\ has \in [Owners -> Made]
  BY DEF Shapes
<1>1. CASE OReaps
  BY <1>1, <1>0, Maps DEF OReaps, Alive, At, Goes, Reap, facts, outer, wires, WorldRel, Bears,
     Lives, Roles, Barren, Kinship
<1>2. CASE \/ OConfigures \/ OGrants("ADMIT", "HELLO", "hello", "reserved")
           \/ OGrants("RUN", "RESERVED", "reserved", "final")
           \/ (\E t \in {"HELLO", "RESERVED", "READY", "STATUS", "QUIESCING"} : OHears(t))
           \/ OHearsFinal
  BY <1>2, WorldIdle DEF OConfigures, world, facts, OGrants, OHears, OHearsFinal
<1>3. CASE \/ OCommits \/ ODrains \/ ORetires \/ OCancels \/ OSettles
  BY <1>3, WorldIdle DEF OCommits, world, wires, facts, ODrains, ORetires, OCancels, OSettles
<1>4. CASE \/ OCloses \/ OPublishes \/ OAccepts
  BY <1>4, WorldIdle DEF OCloses, world, facts, OPublishes, wires, OAccepts
<1> QED BY <1>1, <1>2, <1>3, <1>4 DEF OuterStep

\* What becomes of processes: the steps of the custodian.
LEMMA WorldCustodian ==
  ASSUME Shapes, Kinship, CustodianStep
  PROVE  WorldRel
<1>0. /\ proc \in [Roles -> Lives]
      /\ status \in [Roles -> Codes]
      /\ rcpt \in [Roles -> Codes]
      /\ has \in [Owners -> Made]
  BY DEF Shapes
<1>1. CASE CKillsGroup
  BY <1>1, <1>0, KillGroupForm, Maps DEF CKillsGroup, Alive, At, facts, minds, outer, wires,
     WorldRel, Bears, Dying, Lives, Roles, Barren, Kinship
<1>2. CASE CReaps
  BY <1>2, <1>0, Maps DEF CReaps, Alive, At, Goes, Reap, facts, outer, wires, WorldRel, Bears,
     Lives, Roles, Barren, Kinship
<1>3. CASE CExits
  BY <1>3, <1>0, DeathForm, Members, Maps DEF CExits, Alive, At, facts, minds, outer, wires,
     WorldRel, Bears, Dying, Lives, Roles, Barren, Kinship
<1>4. CASE \/ Boot("C") \/ TakesConfig("C") \/ TakesCancel("C")
           \/ (\E t \in {"ADMIT", "RUN", "COMMIT"} : TakesGrant("C", t))
           \/ (\E t \in {"ADMIT", "RUN", "COMMIT"} : RefusesGrant("C", t))
  BY <1>4, WorldIdle DEF Boot, facts, TakesConfig, world, TakesCancel, TakesGrant, RefusesGrant
<1>5. CASE \/ CConfigures \/ CHearsHello \/ CReserves \/ CGrants \/ CHearsMoved
  BY <1>5, WorldIdle DEF CConfigures, world, facts, CHearsHello, CReserves, CGrants, CHearsMoved
<1>6. CASE \/ CSaysReady \/ CHearsStatus \/ CForwards \/ CNotesStatus \/ CHearsReleased
  BY <1>6, WorldIdle DEF CSaysReady, world, facts, CHearsStatus, CForwards, CNotesStatus,
     CHearsReleased
<1>7. CASE \/ CSettles \/ CCancels \/ CNames \/ CSeesGroup \/ CRetiresGroup
  BY <1>7, WorldIdle DEF CSettles, world, wires, facts, CCancels, CNames, CSeesGroup,
     CRetiresGroup, CReleases, Goes
<1>8. CASE \/ CReleasesKeeper \/ CDrains \/ CPays \/ CWritesPayload \/ CQuiesces
  BY <1>8, WorldIdle DEF CReleasesKeeper, CReleases, Goes, facts, world, CDrains, CPays, wires,
     CWritesPayload, CQuiesces
<1>9. CASE \/ CSeesQuiet \/ CGivesUp \/ CReports
  BY <1>9, WorldIdle DEF CSeesQuiet, world, CGivesUp, facts, CReports
<1> QED BY <1>1, <1>2, <1>3, <1>4, <1>5, <1>6, <1>7, <1>8, <1>9 DEF CustodianStep

\* What becomes of processes: the steps of the keeper.
LEMMA WorldKeeper ==
  ASSUME Shapes, Kinship, KeeperStep
  PROVE  WorldRel
<1>0. /\ proc \in [Roles -> Lives]
      /\ status \in [Roles -> Codes]
      /\ rcpt \in [Roles -> Codes]
      /\ has \in [Owners -> Made]
  BY DEF Shapes
<1>1. CASE KReaps
  BY <1>1, <1>0, Maps DEF KReaps, Alive, At, Reap, facts, outer, wires, WorldRel, Bears, Lives,
     Roles, Barren, Kinship
<1>2. CASE KFallback
  <2>1. /\ has' = has /\ rcpt' = rcpt
        /\ (proc' = proc /\ status' = status /\ kid' = kid) \/ (Dying /\ kid' = FALSE)
    BY <1>2, KillGroupForm DEF KFallback, minds
  <2> QED BY <2>1, <1>0, Members DEF WorldRel, Bears, Dying, Roles
<1>3. CASE KExits
  BY <1>3, <1>0, DeathForm, Members, Maps DEF KExits, Alive, At, facts, minds, outer, wires,
     WorldRel, Bears, Dying, Lives, Roles, Barren, Kinship
<1>4. CASE \/ Boot("K") \/ TakesConfig("K") \/ TakesCancel("K") \/ TakesGrant("K", "RUN")
           \/ RefusesGrant("K", "RUN")
  BY <1>4, WorldIdle DEF Boot, facts, TakesConfig, world, TakesCancel, TakesGrant, RefusesGrant
<1>5. CASE \/ KTakesGroupRetired \/ KTakesRelease \/ KMoves \/ KReports \/ KSettles
  BY <1>5, WorldIdle DEF KTakesGroupRetired, world, KTakesRelease, facts, KMoves, KReports,
     KSettles, wires
<1>6. CASE \/ KReleased \/ KExpires \/ KFallbackEnds \/ KLastWait \/ KCloses
  BY <1>6, WorldIdle DEF KReleased, world, wires, facts, KExpires, KFallbackEnds, KLastWait,
     KCloses
<1>7. CASE KReleases
  BY <1>7, WorldIdle DEF KReleases, world, facts
<1> QED BY <1>1, <1>2, <1>3, <1>4, <1>5, <1>6, <1>7 DEF KeeperStep

\* What becomes of processes: the steps of spawns, ends of pipes and of the validator.
LEMMA WorldShared ==
  ASSUME Shapes, Kinship, Shared
  PROVE  WorldRel
<1>0. /\ proc \in [Roles -> Lives]
      /\ status \in [Roles -> Codes]
      /\ rcpt \in [Roles -> Codes]
      /\ has \in [Owners -> Made]
  BY DEF Shapes
<1>1. CASE SpawnCall("O")
  BY <1>1, <1>0, Maps DEF SpawnCall, Alive, At, facts, outer, wires, world, WorldRel, Bears,
     Lives, Roles, Barren, Kinship
<1>2. CASE SpawnCall("C")
  BY <1>2, <1>0, Maps DEF SpawnCall, Alive, At, facts, outer, wires, world, WorldRel, Bears,
     Lives, Roles, Barren, Kinship
<1>3. CASE SpawnCall("K")
  BY <1>3, <1>0, Maps DEF SpawnCall, Alive, At, facts, outer, wires, world, WorldRel, Bears,
     Lives, Roles, Barren, Kinship
<1>4. CASE SpawnReturns("O")
  <2>1. proc["C"] = "none" /\ proc["O"] = "alive" /\ has["O"] = "native"
    BY <1>4 DEF SpawnReturns, Alive, Kinship, Barren
  <2>2. /\ proc' = [proc EXCEPT !["C"] = "alive"] /\ has' = [has EXCEPT !["O"] = "made"]
        /\ kid' = (FALSE) /\ status' = status /\ rcpt' = rcpt
    BY <1>4, Maps DEF SpawnReturns
  <2> QED BY <2>1, <2>2, <1>0, Members DEF WorldRel, Bears, Roles
<1>5. CASE SpawnReturns("C")
  <2>1. proc["K"] = "none" /\ proc["C"] = "alive" /\ has["C"] = "native"
    BY <1>5 DEF SpawnReturns, Alive, Kinship, Barren
  <2>2. /\ proc' = [proc EXCEPT !["K"] = "alive"] /\ has' = [has EXCEPT !["C"] = "made"]
        /\ kid' = (FALSE) /\ status' = status /\ rcpt' = rcpt
    BY <1>5, Maps DEF SpawnReturns
  <2> QED BY <2>1, <2>2, <1>0, Members DEF WorldRel, Bears, Roles
<1>6. CASE SpawnReturns("K")
  <2>1. proc["V"] = "none" /\ proc["K"] = "alive" /\ has["K"] = "native"
    BY <1>6 DEF SpawnReturns, Alive, Kinship, Barren
  <2>2. /\ proc' = [proc EXCEPT !["V"] = "alive"] /\ has' = [has EXCEPT !["K"] = "made"]
        /\ kid' = (TRUE) /\ status' = status /\ rcpt' = rcpt
    BY <1>6, Maps DEF SpawnReturns
  <2> QED BY <2>1, <2>2, <1>0, Members DEF WorldRel, Bears, Roles
<1>7. CASE KidEnds
  BY <1>7, <1>0, Maps DEF KidEnds, facts, minds, outer, wires, WorldRel, Bears, Lives, Roles,
     Barren, Kinship
<1>8. ASSUME NEW how \in {"ok", "bad"}, VEnds(how)
      PROVE  WorldRel
  BY <1>8, <1>0, DeathForm, Members, Maps DEF VEnds, Alive, facts, minds, outer, wires, WorldRel,
     Bears, Dying, Lives, Roles, Barren, Kinship
<1>9. CASE \/ Spawned("O") \/ Spawned("C") \/ Spawned("K") \/ Unwind("O") \/ Unwind("C")
  BY <1>9, WorldIdle DEF Spawned, world, wires, facts, Unwind
<1>10. CASE \/ Unwind("K") \/ ParentEof("C") \/ ParentEof("K") \/ ChildEof("O")
            \/ ChildEof("C")
  BY <1>10, WorldIdle DEF Unwind, world, wires, facts, ParentEof, ChildEof
<1> QED BY <1>1, <1>2, <1>3, <1>4, <1>5, <1>6, <1>7, <1>8, <1>9, <1>10, SharedCases

\* What becomes of processes: the steps of what may go wrong.
LEMMA WorldFaults ==
  ASSUME Shapes, Kinship, Faults
  PROVE  WorldRel
<1>0. /\ proc \in [Roles -> Lives]
      /\ status \in [Roles -> Codes]
      /\ rcpt \in [Roles -> Codes]
      /\ has \in [Owners -> Made]
  BY DEF Shapes
<1>1. CASE SpawnFails("O")
  <2>1. proc["C"] = "none" /\ proc["O"] = "alive" /\ has["O"] = "native"
    BY <1>1 DEF SpawnFails, Alive, Kinship, Barren
  <2>2. Child["O"] = "C" /\ status' = status /\ rcpt' = rcpt
    BY <1>1, Maps DEF SpawnFails
  <2>3. \/ has' = [has EXCEPT !["O"] = "empty"] /\ proc' = proc /\ kid' = kid
        \/ has' = [has EXCEPT !["O"] = "lost"] /\ proc' = proc /\ kid' = kid
        \/ /\ has' = [has EXCEPT !["O"] = "lost"]
           /\ proc' = [proc EXCEPT !["C"] = "alive"] /\ kid' = (FALSE)
    BY <1>1, <2>2 DEF SpawnFails
  <2> QED BY <2>1, <2>2, <2>3, <1>0, Members DEF WorldRel, Bears, Roles
<1>2. CASE SpawnFails("C")
  <2>1. proc["K"] = "none" /\ proc["C"] = "alive" /\ has["C"] = "native"
    BY <1>2 DEF SpawnFails, Alive, Kinship, Barren
  <2>2. Child["C"] = "K" /\ status' = status /\ rcpt' = rcpt
    BY <1>2, Maps DEF SpawnFails
  <2>3. \/ has' = [has EXCEPT !["C"] = "empty"] /\ proc' = proc /\ kid' = kid
        \/ has' = [has EXCEPT !["C"] = "lost"] /\ proc' = proc /\ kid' = kid
        \/ /\ has' = [has EXCEPT !["C"] = "lost"]
           /\ proc' = [proc EXCEPT !["K"] = "alive"] /\ kid' = (FALSE)
    BY <1>2, <2>2 DEF SpawnFails
  <2> QED BY <2>1, <2>2, <2>3, <1>0, Members DEF WorldRel, Bears, Roles
<1>3. CASE SpawnFails("K")
  <2>1. proc["V"] = "none" /\ proc["K"] = "alive" /\ has["K"] = "native"
    BY <1>3 DEF SpawnFails, Alive, Kinship, Barren
  <2>2. Child["K"] = "V" /\ status' = status /\ rcpt' = rcpt
    BY <1>3, Maps DEF SpawnFails
  <2>3. \/ has' = [has EXCEPT !["K"] = "empty"] /\ proc' = proc /\ kid' = kid
        \/ has' = [has EXCEPT !["K"] = "lost"] /\ proc' = proc /\ kid' = kid
        \/ /\ has' = [has EXCEPT !["K"] = "lost"]
           /\ proc' = [proc EXCEPT !["V"] = "alive"] /\ kid' = (TRUE)
    BY <1>3, <2>2 DEF SpawnFails
  <2> QED BY <2>1, <2>2, <2>3, <1>0, Members DEF WorldRel, Bears, Roles
<1>4. ASSUME NEW p \in Roles, Kill(p)
      PROVE  WorldRel
  BY <1>4, <1>0, DeathForm, Members, Maps DEF Kill, Alive, facts, minds, wires, WorldRel, Bears,
     Dying, Lives, Roles, Barren, Kinship
<1>5. CASE BootFails("C")
  BY <1>5, <1>0, DeathForm, Members, Maps DEF BootFails, Alive, At, facts, minds, wires, WorldRel,
     Bears, Dying, Lives, Roles, Barren, Kinship
<1>6. CASE BootFails("K")
  BY <1>6, <1>0, DeathForm, Members, Maps DEF BootFails, Alive, At, facts, minds, wires, WorldRel,
     Bears, Dying, Lives, Roles, Barren, Kinship
<1>7. CASE \/ BodyFault("O") \/ BodyFault("C") \/ BodyFault("K") \/ CleanupFault("O")
           \/ CleanupFault("C")
  BY <1>7, WorldIdle DEF BodyFault, world, wires, facts, CleanupFault
<1>8. CASE \/ CleanupFault("K") \/ Signal("O") \/ Signal("C") \/ Signal("K") \/ KMovesOnly
  BY <1>8, WorldIdle DEF CleanupFault, world, wires, facts, Signal, KMovesOnly
<1>9. CASE \/ Interrupt \/ (\E t \in {"run", "capture"} : Deadline(t)) \/ Cutoff("O")
           \/ Cutoff("C") \/ Cutoff("K")
  BY <1>9, WorldIdle DEF Interrupt, world, wires, minds, facts, Deadline, Cutoff
<1> QED BY <1>1, <1>2, <1>3, <1>4, <1>5, <1>6, <1>7, <1>8, <1>9, FaultsCases

LEMMA WorldStep ==
  ASSUME Shapes, Kinship, [Next]_vars
  PROVE  WorldRel
<1>1. CASE UNCHANGED vars \/ Finished
  BY <1>1, WorldIdle DEF Finished, vars, world, wires, minds, facts
<1> QED BY <1>1, WorldOuter, WorldCustodian, WorldKeeper, WorldShared, WorldFaults DEF Next

LEMMA PlaceIdle ==
  ASSUME UNCHANGED <<pc, grp, has>>
  PROVE  StageRel /\ PlaceRel
  BY DEF StageRel, PlaceRel

\* The stages, and where the keeper stands: the steps of the caller.
LEMMA PlaceOuter ==
  ASSUME Shapes, OuterStep
  PROVE  StageRel /\ PlaceRel
<1>0. /\ pc \in [Owners -> Stages]
      /\ grp \in {"start", "G", "moved"}
      /\ has \in [Owners -> Made]
  BY DEF Shapes
<1>1. CASE OConfigures
  BY <1>1, <1>0 DEF OConfigures, Alive, At, Goes, facts, world, StageRel, PlaceRel
<1>2. CASE OGrants("ADMIT", "HELLO", "hello", "reserved")
  BY <1>2, <1>0 DEF OGrants, Alive, At, Goes, Heard, Retiring, facts, world, StageRel, PlaceRel
<1>3. CASE OGrants("RUN", "RESERVED", "reserved", "final")
  BY <1>3, <1>0 DEF OGrants, Alive, At, Goes, Heard, Retiring, facts, world, StageRel, PlaceRel
<1>4. ASSUME NEW t \in {"HELLO", "RESERVED", "READY", "STATUS", "QUIESCING"}, OHears(t)
      PROVE  StageRel /\ PlaceRel
  <2>1. /\ proc["O"] = "alive" /\ grp' = grp /\ has' = has
        /\ \/ pc' = pc
           \/ pc["O"] \notin {"accept", "done"} /\ pc' = [pc EXCEPT !["O"] = "cancel"]
    BY <1>4, Raised, Hearing, Maps DEF OHears, facts, outer, world
  <2> QED BY <2>1, <1>0, Members DEF StageRel, PlaceRel
<1>5. CASE OHearsFinal
  <2>1. /\ proc["O"] = "alive" /\ grp' = grp /\ has' = has
        /\ \/ pc' = pc
           \/ pc["O"] \notin {"accept", "done"} /\ pc' = [pc EXCEPT !["O"] = "cancel"]
           \/ pc["O"] \notin {"accept", "done"} /\ pc' = [pc EXCEPT !["O"] = "drain"]
    BY <1>5, Raised, Hearing, Maps DEF Goes, OHearsFinal, facts, outer, world
  <2> QED BY <2>1, <1>0, Members DEF StageRel, PlaceRel
<1>6. CASE OCommits
  <2>1. /\ proc["O"] = "alive" /\ grp' = grp /\ has' = has
        /\ \/ pc' = pc
           \/ pc["O"] \notin {"accept", "done"} /\ pc' = [pc EXCEPT !["O"] = "cancel"]
    BY <1>6 DEF Alive, At, Goes, Heard, OCommits, Retiring, facts, wires, world
  <2> QED BY <2>1, <1>0, Members DEF StageRel, PlaceRel
<1>7. CASE ODrains
  BY <1>7, <1>0 DEF ODrains, Alive, At, Goes, facts, outer, wires, world, StageRel, PlaceRel
<1>8. CASE OCancels
  <2>1. /\ proc["O"] = "alive" /\ grp' = grp /\ has' = has
        /\ \/ pc' = pc
           \/ pc["O"] \notin {"accept", "done"} /\ pc' = [pc EXCEPT !["O"] = "settle"]
    BY <1>8 DEF Alive, At, ClosesControl, Goes, Heard, OCancels, facts, wires, world
  <2> QED BY <2>1, <1>0, Members DEF StageRel, PlaceRel
<1>9. CASE OSettles
  BY <1>9, <1>0 DEF OSettles, Alive, At, Goes, SettleUnk, facts, outer, wires, world, StageRel,
     PlaceRel
<1>10. CASE OReaps
  BY <1>10, <1>0, Maps DEF OReaps, Alive, At, Goes, Reap, facts, outer, wires, StageRel, PlaceRel
<1>11. CASE OCloses
  BY <1>11, <1>0 DEF OCloses, Alive, At, Goes, facts, outer, world, StageRel, PlaceRel
<1>12. CASE OPublishes
  BY <1>12, <1>0 DEF OPublishes, Alive, At, Goes, outer, wires, world, StageRel, PlaceRel
<1>13. CASE OAccepts
  BY <1>13, <1>0 DEF OAccepts, Alive, At, Goes, Heard, outer, wires, world, StageRel, PlaceRel
<1>14. CASE ORetires
  BY <1>14, PlaceIdle DEF ORetires, world, facts
<1> QED BY <1>1, <1>2, <1>3, <1>4, <1>5, <1>6, <1>7, <1>8, <1>9, <1>10, <1>11, <1>12, <1>13, <1>14 DEF
     OuterStep

\* The stages, and where the keeper stands: the steps of the custodian.
LEMMA PlaceCustodian ==
  ASSUME Shapes, CustodianStep
  PROVE  StageRel /\ PlaceRel
<1>0. /\ pc \in [Owners -> Stages]
      /\ grp \in {"start", "G", "moved"}
      /\ has \in [Owners -> Made]
  BY DEF Shapes
<1>1. CASE Boot("C")
  BY <1>1, <1>0 DEF Boot, Alive, At, Goes, facts, StageRel, PlaceRel
<1>2. ASSUME NEW t \in {"ADMIT", "RUN", "COMMIT"}, TakesGrant("C", t)
      PROVE  StageRel /\ PlaceRel
  BY <1>2, <1>0, Hearing, Welcomes, Maps DEF TakesGrant, Accepts, Goes, facts, outer, world,
     StageRel, PlaceRel
<1>3. ASSUME NEW t \in {"ADMIT", "RUN", "COMMIT"}, RefusesGrant("C", t)
      PROVE  StageRel /\ PlaceRel
  <2>1. /\ proc["C"] = "alive" /\ grp' = grp /\ has' = has
        /\ \/ pc' = pc
           \/ pc["C"] \in {"payload", "commit"} /\ pc' = [pc EXCEPT !["C"] = "quiesce"]
           \/ /\ pc["C"] \notin {"commit", "quiesce", "quiet", "report", "exit"}
              /\ pc' = [pc EXCEPT !["C"] = "settle"]
    BY <1>3, Raised, Hearing, Maps DEF RefusesGrant, facts, outer, world
  <2> QED BY <2>1, <1>0, Members DEF StageRel, PlaceRel
<1>4. CASE CConfigures
  BY <1>4, <1>0 DEF CConfigures, Alive, At, Goes, facts, world, StageRel, PlaceRel
<1>5. CASE CHearsHello
  <2>1. /\ proc["C"] = "alive" /\ grp' = grp /\ has' = has
        /\ \/ pc' = pc
           \/ pc["C"] \in {"payload", "commit"} /\ pc' = [pc EXCEPT !["C"] = "quiesce"]
           \/ /\ pc["C"] \notin {"commit", "quiesce", "quiet", "report", "exit"}
              /\ pc' = [pc EXCEPT !["C"] = "settle"]
           \/ pc["C"] = "hello" /\ pc' = [pc EXCEPT !["C"] = "reserve"]
    BY <1>5, Raised, Hearing, Maps DEF CHearsHello, outer, world
  <2> QED BY <2>1, <1>0, Members DEF StageRel, PlaceRel
<1>6. CASE CReserves
  BY <1>6, <1>0 DEF CReserves, Alive, At, Goes, facts, world, StageRel, PlaceRel
<1>7. CASE CGrants
  BY <1>7, <1>0 DEF CGrants, Alive, At, Goes, facts, world, StageRel, PlaceRel
<1>8. CASE CHearsMoved
  <2>1. /\ proc["C"] = "alive" /\ grp' = grp /\ has' = has
        /\ \/ pc' = pc
           \/ pc["C"] \in {"payload", "commit"} /\ pc' = [pc EXCEPT !["C"] = "quiesce"]
           \/ /\ pc["C"] \notin {"commit", "quiesce", "quiet", "report", "exit"}
              /\ pc' = [pc EXCEPT !["C"] = "settle"]
    BY <1>8, Raised, Hearing, Maps DEF CHearsMoved, facts, outer, world
  <2> QED BY <2>1, <1>0, Members DEF StageRel, PlaceRel
<1>9. CASE CHearsStatus
  BY <1>9, <1>0, Hearing, Maps DEF CHearsStatus, Goes, facts, outer, world, StageRel, PlaceRel
<1>10. CASE CForwards
  BY <1>10, <1>0 DEF CForwards, Alive, At, Goes, facts, world, StageRel, PlaceRel
<1>11. CASE CNotesStatus
  <2>1. /\ proc["C"] = "alive" /\ grp' = grp /\ has' = has
        /\ \/ pc' = pc
           \/ pc["C"] \in {"payload", "commit"} /\ pc' = [pc EXCEPT !["C"] = "quiesce"]
           \/ /\ pc["C"] \notin {"commit", "quiesce", "quiet", "report", "exit"}
              /\ pc' = [pc EXCEPT !["C"] = "settle"]
    BY <1>11, Raised, Hearing, Maps DEF CNotesStatus, Heard, facts, outer, world
  <2> QED BY <2>1, <1>0, Members DEF StageRel, PlaceRel
<1>12. CASE CHearsReleased
  <2>1. /\ proc["C"] = "alive" /\ grp' = grp /\ has' = has
        /\ \/ pc' = pc
           \/ pc["C"] \in {"payload", "commit"} /\ pc' = [pc EXCEPT !["C"] = "quiesce"]
           \/ /\ pc["C"] \notin {"commit", "quiesce", "quiet", "report", "exit"}
              /\ pc' = [pc EXCEPT !["C"] = "settle"]
    BY <1>12, Raised, Hearing, Maps DEF CHearsReleased, facts, outer, world
  <2> QED BY <2>1, <1>0, Members DEF StageRel, PlaceRel
<1>13. CASE CSettles
  BY <1>13, <1>0 DEF CSettles, Alive, At, Goes, SettleUnk, facts, outer, wires, world, StageRel,
     PlaceRel
<1>14. CASE CCancels
  BY <1>14, <1>0 DEF CCancels, Alive, At, Goes, facts, wires, world, StageRel, PlaceRel
<1>15. CASE CNames
  BY <1>15, <1>0 DEF CNames, Alive, At, Goes, facts, outer, wires, world, StageRel, PlaceRel
<1>16. CASE CSeesGroup
  BY <1>16, <1>0 DEF CSeesGroup, Alive, At, Goes, outer, wires, world, StageRel, PlaceRel
<1>17. CASE CRetiresGroup
  BY <1>17, <1>0 DEF CRetiresGroup, Alive, At, CReleases, Goes, Heard, facts, world, StageRel,
     PlaceRel
<1>18. CASE CReleasesKeeper
  BY <1>18, <1>0 DEF CReleasesKeeper, Alive, At, CReleases, Goes, Heard, facts, world, StageRel,
     PlaceRel
<1>19. CASE CReaps
  BY <1>19, <1>0, Maps DEF CReaps, Alive, At, Goes, Reap, facts, outer, wires, StageRel, PlaceRel
<1>20. CASE CDrains
  BY <1>20, <1>0 DEF CDrains, Alive, At, Goes, Heard, facts, outer, world, StageRel, PlaceRel
<1>21. CASE CPays
  BY <1>21, <1>0 DEF CPays, Alive, At, Goes, outer, wires, world, StageRel, PlaceRel
<1>22. CASE CWritesPayload
  <2>1. /\ proc["C"] = "alive" /\ grp' = grp /\ has' = has
        /\ \/ pc["C"] = "payload" /\ pc' = [pc EXCEPT !["C"] = "commit"]
           \/ pc["C"] = "payload" /\ pc' = [pc EXCEPT !["C"] = "quiesce"]
    BY <1>22 DEF Alive, At, CWritesPayload, Goes, wires, world
  <2> QED BY <2>1, <1>0, Members DEF StageRel, PlaceRel
<1>23. CASE CQuiesces
  <2>1. /\ proc["C"] = "alive" /\ grp' = grp /\ has' = has
        /\ \/ pc' = pc
           \/ pc["C"] = "quiesce" /\ pc' = [pc EXCEPT !["C"] = "quiet"]
    BY <1>23 DEF Alive, At, CQuiesces, Goes, wires, world
  <2> QED BY <2>1, <1>0, Members DEF StageRel, PlaceRel
<1>24. CASE CSeesQuiet
  BY <1>24, <1>0 DEF CSeesQuiet, Alive, At, Goes, outer, world, StageRel, PlaceRel
<1>25. CASE CGivesUp
  BY <1>25, <1>0 DEF CGivesUp, Alive, At, Goes, facts, outer, world, StageRel, PlaceRel
<1>26. CASE CReports
  BY <1>26, <1>0 DEF CReports, Alive, At, Goes, world, StageRel, PlaceRel
<1>27. CASE \/ TakesConfig("C") \/ TakesCancel("C") \/ CSaysReady \/ CKillsGroup \/ CExits
  BY <1>27, PlaceIdle DEF TakesConfig, world, facts, TakesCancel, CSaysReady, CKillsGroup, wires,
     minds, CExits
<1> QED BY <1>1, <1>2, <1>3, <1>4, <1>5, <1>6, <1>7, <1>8, <1>9, <1>10, <1>11, <1>12, <1>13, <1>14,
     <1>15, <1>16, <1>17, <1>18, <1>19, <1>20, <1>21, <1>22, <1>23, <1>24, <1>25, <1>26, <1>27 DEF
     CustodianStep

\* The stages, and where the keeper stands: the steps of the keeper.
LEMMA PlaceKeeper ==
  ASSUME Shapes, KeeperStep
  PROVE  StageRel /\ PlaceRel
<1>0. /\ pc \in [Owners -> Stages]
      /\ grp \in {"start", "G", "moved"}
      /\ has \in [Owners -> Made]
  BY DEF Shapes
<1>1. CASE Boot("K")
  <2>1. /\ proc["K"] = "alive" /\ has' = has /\ pc["K"] = "boot"
        /\ pc' = [pc EXCEPT !["K"] = "config"] /\ grp' = "G"
    BY <1>1 DEF Alive, At, Boot, Goes
  <2> QED BY <2>1, <1>0, Members DEF StageRel, PlaceRel
<1>2. CASE TakesGrant("K", "RUN")
  BY <1>2, <1>0, Hearing, Welcomes, Maps DEF TakesGrant, Accepts, Goes, facts, outer, world,
     StageRel, PlaceRel
<1>3. CASE RefusesGrant("K", "RUN")
  <2>1. /\ proc["K"] = "alive" /\ grp' = grp /\ has' = has
        /\ \/ pc' = pc
           \/ pc["K"] # "boot" /\ pc' = [pc EXCEPT !["K"] = "settle"]
    BY <1>3, Raised, Hearing, Maps DEF RefusesGrant, facts, outer, world
  <2> QED BY <2>1, <1>0, Members DEF StageRel, PlaceRel
<1>4. CASE KTakesGroupRetired
  <2>1. /\ proc["K"] = "alive" /\ grp' = grp /\ has' = has
        /\ \/ pc' = pc
           \/ pc["K"] # "boot" /\ pc' = [pc EXCEPT !["K"] = "settle"]
    BY <1>4, Raised, Hearing, Maps DEF KTakesGroupRetired, outer, world
  <2> QED BY <2>1, <1>0, Members DEF StageRel, PlaceRel
<1>5. CASE KTakesRelease
  <2>1. /\ proc["K"] = "alive" /\ grp' = grp /\ has' = has
        /\ \/ pc' = pc
           \/ pc["K"] # "boot" /\ pc' = [pc EXCEPT !["K"] = "settle"]
    BY <1>5, Raised, Hearing, Maps DEF Heard, KTakesRelease, facts, outer, world
  <2> QED BY <2>1, <1>0, Members DEF StageRel, PlaceRel
<1>6. CASE KMoves
  <2>1. /\ proc["K"] = "alive" /\ has' = has /\ pc["K"] = "move"
        /\ pc' = [pc EXCEPT !["K"] = "wait"] /\ grp' = "moved"
    BY <1>6 DEF Alive, At, Goes, KMoves
  <2> QED BY <2>1, <1>0, Members DEF StageRel, PlaceRel
<1>7. CASE KReports
  BY <1>7, <1>0 DEF KReports, Alive, At, Goes, facts, world, StageRel, PlaceRel
<1>8. CASE KSettles
  BY <1>8, <1>0 DEF KSettles, Alive, At, Goes, MoveOut, facts, outer, wires, StageRel, PlaceRel
<1>9. CASE KReleased
  BY <1>9, <1>0 DEF KReleased, Alive, At, Goes, facts, outer, wires, world, StageRel, PlaceRel
<1>10. CASE KExpires
  BY <1>10, <1>0 DEF KExpires, Alive, At, Goes, facts, outer, wires, world, StageRel, PlaceRel
<1>11. CASE KFallbackEnds
  BY <1>11, <1>0 DEF KFallbackEnds, Alive, At, Goes, facts, outer, wires, world, StageRel,
     PlaceRel
<1>12. CASE KLastWait
  BY <1>12, <1>0 DEF KLastWait, Alive, At, Goes, facts, outer, wires, world, StageRel, PlaceRel
<1>13. CASE KCloses
  BY <1>13, <1>0 DEF KCloses, Alive, At, Goes, outer, world, StageRel, PlaceRel
<1>14. CASE KReleases
  BY <1>14, <1>0 DEF KReleases, Alive, At, Goes, facts, world, StageRel, PlaceRel
<1>15. CASE \/ TakesConfig("K") \/ TakesCancel("K") \/ KReaps \/ KFallback \/ KExits
  BY <1>15, PlaceIdle DEF TakesConfig, world, facts, TakesCancel, KReaps, wires, KFallback,
     KExits, minds
<1> QED BY <1>1, <1>2, <1>3, <1>4, <1>5, <1>6, <1>7, <1>8, <1>9, <1>10, <1>11, <1>12, <1>13, <1>14,
     <1>15 DEF KeeperStep

\* The stages, and where the keeper stands: the steps of spawns, ends of pipes and of the validator.
LEMMA PlaceShared ==
  ASSUME Shapes, Shared
  PROVE  StageRel /\ PlaceRel
<1>0. /\ pc \in [Owners -> Stages]
      /\ grp \in {"start", "G", "moved"}
      /\ has \in [Owners -> Made]
  BY DEF Shapes
<1>1. CASE SpawnCall("O")
  BY <1>1, <1>0 DEF SpawnCall, Alive, At, facts, outer, wires, world, StageRel, PlaceRel
<1>2. CASE SpawnCall("C")
  BY <1>2, <1>0 DEF SpawnCall, Alive, At, facts, outer, wires, world, StageRel, PlaceRel
<1>3. CASE SpawnCall("K")
  BY <1>3, <1>0 DEF SpawnCall, Alive, At, facts, outer, wires, world, StageRel, PlaceRel
<1>4. CASE SpawnReturns("O")
  BY <1>4, <1>0, Maps DEF SpawnReturns, Alive, facts, outer, wires, StageRel, PlaceRel
<1>5. CASE SpawnReturns("C")
  BY <1>5, <1>0, Maps DEF SpawnReturns, Alive, facts, outer, wires, StageRel, PlaceRel
<1>6. CASE SpawnReturns("K")
  BY <1>6, <1>0, Maps DEF SpawnReturns, Alive, facts, outer, wires, StageRel, PlaceRel
<1>7. CASE Spawned("O")
  BY <1>7, <1>0, Maps DEF Spawned, Alive, At, Goes, facts, outer, wires, world, StageRel, PlaceRel
<1>8. CASE Spawned("C")
  BY <1>8, <1>0, Maps DEF Spawned, Alive, At, Goes, facts, outer, wires, world, StageRel, PlaceRel
<1>9. CASE Spawned("K")
  BY <1>9, <1>0, Maps DEF Spawned, Alive, At, Goes, facts, outer, wires, world, StageRel, PlaceRel
<1>10. CASE Unwind("O")
  <2>1. /\ proc["O"] = "alive" /\ grp' = grp /\ has' = has
        /\ \/ pc' = pc
           \/ pc["O"] \notin {"accept", "done"} /\ pc' = [pc EXCEPT !["O"] = "cancel"]
    BY <1>10, Raised DEF Alive, InBody, Unwind, facts, outer, wires, world
  <2> QED BY <2>1, <1>0, Members DEF StageRel, PlaceRel
<1>11. CASE Unwind("C")
  <2>1. /\ proc["C"] = "alive" /\ grp' = grp /\ has' = has
        /\ \/ pc' = pc
           \/ pc["C"] \in {"payload", "commit"} /\ pc' = [pc EXCEPT !["C"] = "quiesce"]
           \/ /\ pc["C"] \notin {"commit", "quiesce", "quiet", "report", "exit"}
              /\ pc' = [pc EXCEPT !["C"] = "settle"]
    BY <1>11, Raised DEF Alive, InBody, Unwind, facts, outer, wires, world
  <2> QED BY <2>1, <1>0, Members DEF StageRel, PlaceRel
<1>12. CASE Unwind("K")
  <2>1. /\ proc["K"] = "alive" /\ grp' = grp /\ has' = has
        /\ \/ pc' = pc
           \/ pc["K"] # "boot" /\ pc' = [pc EXCEPT !["K"] = "settle"]
    BY <1>12, Raised DEF Alive, InBody, Unwind, facts, outer, wires, world
  <2> QED BY <2>1, <1>0, Members DEF StageRel, PlaceRel
<1>13. CASE \/ ParentEof("C") \/ ParentEof("K") \/ ChildEof("O") \/ ChildEof("C") \/ KidEnds
  BY <1>13, PlaceIdle DEF ParentEof, world, wires, facts, ChildEof, KidEnds, minds
<1>14. CASE \E how \in {"ok", "bad"} : VEnds(how)
  BY <1>14, PlaceIdle DEF VEnds, wires, minds, facts
<1> QED BY <1>1, <1>2, <1>3, <1>4, <1>5, <1>6, <1>7, <1>8, <1>9, <1>10, <1>11, <1>12, <1>13, <1>14,
     SharedCases

\* The stages, and where the keeper stands: the steps of what may go wrong.
LEMMA PlaceFaults ==
  ASSUME Shapes, Faults
  PROVE  StageRel /\ PlaceRel
<1>0. /\ pc \in [Owners -> Stages]
      /\ grp \in {"start", "G", "moved"}
      /\ has \in [Owners -> Made]
  BY DEF Shapes
<1>1. CASE BodyFault("O")
  BY <1>1, <1>0, Bodies DEF BodyFault, AfterBody, Alive, Goes, InBody, facts, wires, world,
     StageRel, PlaceRel
<1>2. CASE BodyFault("C")
  BY <1>2, <1>0, Bodies DEF BodyFault, AfterBody, Alive, Goes, InBody, facts, wires, world,
     StageRel, PlaceRel
<1>3. CASE BodyFault("K")
  BY <1>3, <1>0, Bodies DEF BodyFault, AfterBody, Alive, Goes, InBody, facts, wires, world,
     StageRel, PlaceRel
<1>4. CASE SpawnFails("O")
  BY <1>4, <1>0, Maps DEF SpawnFails, Alive, facts, wires, StageRel, PlaceRel
<1>5. CASE SpawnFails("C")
  BY <1>5, <1>0, Maps DEF SpawnFails, Alive, facts, wires, StageRel, PlaceRel
<1>6. CASE SpawnFails("K")
  BY <1>6, <1>0, Maps DEF SpawnFails, Alive, facts, wires, StageRel, PlaceRel
<1>7. CASE KMovesOnly
  <2>1. /\ proc["K"] = "alive" /\ has' = has /\ pc["K"] = "move"
        /\ pc' = [pc EXCEPT !["K"] = "settle"] /\ grp' = "moved"
    BY <1>7 DEF Alive, At, Goes, KMovesOnly
  <2> QED BY <2>1, <1>0, Members DEF StageRel, PlaceRel
<1>8. CASE \/ CleanupFault("O") \/ CleanupFault("C") \/ CleanupFault("K") \/ Signal("O")
           \/ Signal("C")
  BY <1>8, PlaceIdle DEF CleanupFault, world, wires, facts, Signal
<1>9. CASE \/ Signal("K") \/ (\E p \in Roles : Kill(p)) \/ BootFails("C") \/ BootFails("K")
           \/ Interrupt
  BY <1>9, PlaceIdle DEF Signal, world, wires, facts, Kill, minds, BootFails, Interrupt
<1>10. CASE \/ (\E t \in {"run", "capture"} : Deadline(t)) \/ Cutoff("O") \/ Cutoff("C")
            \/ Cutoff("K")
  BY <1>10, PlaceIdle DEF Deadline, world, wires, minds, facts, Cutoff
<1> QED BY <1>1, <1>2, <1>3, <1>4, <1>5, <1>6, <1>7, <1>8, <1>9, <1>10, FaultsCases

LEMMA PlaceStep ==
  ASSUME Shapes, [Next]_vars
  PROVE  StageRel /\ PlaceRel
<1>1. CASE UNCHANGED vars \/ Finished
  BY <1>1, PlaceIdle DEF Finished, vars, world, wires, minds, facts
<1> QED BY <1>1, PlaceOuter, PlaceCustodian, PlaceKeeper, PlaceShared, PlaceFaults DEF Next

LEMMA Heeds ==
  ASSUME Shapes, NEW e \in Edges, NEW t \in Frames, t \in chan[e], e # "co",
         chan' = [chan EXCEPT ![e] = @ \ {t}], got' \in {got, got \cup {<<e, t>>}},
         UNCHANGED <<tried, lost>>
  PROVE  FrameRel
  BY DEF Shapes, FrameRel

LEMMA FrameIdle ==
  ASSUME UNCHANGED <<chan, got, tried, lost>>
  PROVE  FrameRel
  BY DEF FrameRel

\* Frames: the steps of the caller.
LEMMA FrameOuter ==
  ASSUME Shapes, OuterStep
  PROVE  FrameRel
<1>0. /\ chan \in [Edges -> SUBSET Frames]
      /\ got \in SUBSET (Edges \X (Frames \cup {"EOF"}))
      /\ tried \in SUBSET (Edges \X Frames)
      /\ lost \in SUBSET (Edges \X Frames)
      /\ pc \in [Owners -> Stages]
  BY DEF Shapes
<1>1. CASE OConfigures
  BY <1>1, <1>0, SendForm, Members DEF OConfigures, Alive, At, Goes, facts, world, FrameRel, Sends
<1>2. CASE OGrants("ADMIT", "HELLO", "hello", "reserved")
  BY <1>2, <1>0, SendForm, Members DEF OGrants, Alive, At, Goes, Heard, Retiring, facts, world,
     FrameRel, Sends
<1>3. CASE OGrants("RUN", "RESERVED", "reserved", "final")
  BY <1>3, <1>0, SendForm, Members DEF OGrants, Alive, At, Goes, Heard, Retiring, facts, world,
     FrameRel, Sends
<1>4. ASSUME NEW t \in {"HELLO", "RESERVED", "READY", "STATUS", "QUIESCING"}, OHears(t)
      PROVE  FrameRel
  BY <1>4, <1>0, Maps, Members, Hearing DEF OHears, facts, outer, world, FrameRel, Frames, Edges
<1>5. CASE OHearsFinal
  BY <1>5, <1>0, Maps, Members, Hearing DEF OHearsFinal, Goes, facts, outer, world, FrameRel,
     Frames, Edges
<1>6. CASE OCommits
  BY <1>6, <1>0, SendForm, Members DEF OCommits, Alive, At, Goes, Heard, Retiring, facts, wires,
     world, FrameRel, Sends
<1>7. CASE ORetires
  BY <1>7, <1>0, SendForm, Members DEF ORetires, Alive, At, ClosesControl, Heard, Retiring, facts,
     world, FrameRel, Sends
<1>8. CASE OCancels
  BY <1>8, <1>0, SendForm, Members DEF OCancels, Alive, At, ClosesControl, Goes, Heard, facts,
     wires, world, FrameRel, Sends
<1>9. CASE \/ ODrains \/ OSettles \/ OReaps \/ OCloses \/ OPublishes
  BY <1>9, FrameIdle DEF ODrains, world, wires, facts, OSettles, OReaps, OCloses, OPublishes
<1>10. CASE OAccepts
  BY <1>10, FrameIdle DEF OAccepts, world, wires
<1> QED BY <1>1, <1>2, <1>3, <1>4, <1>5, <1>6, <1>7, <1>8, <1>9, <1>10 DEF OuterStep

\* Frames: the steps of the custodian.
LEMMA FrameCustodian ==
  ASSUME Shapes, CustodianStep
  PROVE  FrameRel
<1>0. /\ chan \in [Edges -> SUBSET Frames]
      /\ got \in SUBSET (Edges \X (Frames \cup {"EOF"}))
      /\ tried \in SUBSET (Edges \X Frames)
      /\ lost \in SUBSET (Edges \X Frames)
      /\ pc \in [Owners -> Stages]
  BY DEF Shapes
<1>1. CASE Boot("C")
  BY <1>1, <1>0, SendForm, Members DEF Boot, Alive, At, Goes, facts, FrameRel, Sends
<1>2. CASE TakesConfig("C")
  <2>1. /\ Takes("oc", "CONFIG") /\ UNCHANGED <<tried, lost>>
        /\ got' \in {got, got \cup {<<"oc", "CONFIG">>}}
    BY <1>2, Maps, Hearing DEF TakesConfig, Accepts, wires, minds
  <2> QED BY <2>1, <1>0, Members, Hearing, Heeds DEF Frames
<1>3. CASE TakesCancel("C")
  BY <1>3, <1>0, Maps, Members, Hearing DEF TakesCancel, Accepts, facts, outer, world, FrameRel,
     Frames, Edges
<1>4. ASSUME NEW t \in {"ADMIT", "RUN", "COMMIT"}, TakesGrant("C", t)
      PROVE  FrameRel
  <2>1. /\ Takes("oc", t) /\ UNCHANGED <<tried, lost>>
        /\ got' \in {got, got \cup {<<"oc", t>>}}
    BY <1>4, Maps, Hearing DEF TakesGrant, Accepts, wires, minds
  <2> QED BY <2>1, <1>0, Members, Hearing, Heeds DEF Frames
<1>5. ASSUME NEW t \in {"ADMIT", "RUN", "COMMIT"}, RefusesGrant("C", t)
      PROVE  FrameRel
  <2>1. /\ Takes("oc", t) /\ UNCHANGED <<tried, lost>>
        /\ got' \in {got, got \cup {<<"oc", t>>}}
    BY <1>5, Maps, Hearing DEF RefusesGrant, wires, minds
  <2> QED BY <2>1, <1>0, Members, Hearing, Heeds DEF Frames
<1>6. CASE CConfigures
  BY <1>6, <1>0, SendForm, Members DEF CConfigures, Alive, At, Goes, facts, world, FrameRel, Sends
<1>7. CASE CHearsHello
  BY <1>7, <1>0, Maps, Members, Hearing DEF CHearsHello, outer, world, FrameRel, Frames, Edges
<1>8. CASE CReserves
  BY <1>8, <1>0, SendForm, Members DEF CReserves, Alive, At, Goes, facts, world, FrameRel, Sends
<1>9. CASE CGrants
  BY <1>9, <1>0, SendForm, Members DEF CGrants, Alive, At, Goes, facts, world, FrameRel, Sends
<1>10. CASE CHearsMoved
  BY <1>10, <1>0, Maps, Members, Hearing DEF CHearsMoved, facts, outer, world, FrameRel, Frames,
     Edges
<1>11. CASE CSaysReady
  BY <1>11, <1>0, SendForm, Members DEF CSaysReady, Alive, At, Heard, facts, world, FrameRel,
     Sends
<1>12. CASE CHearsStatus
  <2>1. /\ Reads("kc", "STATUS") /\ UNCHANGED <<tried, lost>>
        /\ got' \in {got, got \cup {<<"kc", "STATUS">>}}
    BY <1>12, Maps, Hearing DEF CHearsStatus, wires, minds
  <2> QED BY <2>1, <1>0, Members, Hearing, Heeds DEF Frames
<1>13. CASE CForwards
  BY <1>13, <1>0, SendForm, Members DEF CForwards, Alive, At, Goes, facts, world, FrameRel, Sends
<1>14. CASE CNotesStatus
  BY <1>14, <1>0, Maps, Members, Hearing DEF CNotesStatus, Heard, facts, outer, world, FrameRel,
     Frames, Edges
<1>15. CASE CHearsReleased
  BY <1>15, <1>0, Maps, Members, Hearing DEF CHearsReleased, facts, outer, world, FrameRel,
     Frames, Edges
<1>16. CASE CCancels
  BY <1>16, <1>0, SendForm, Members DEF CCancels, Alive, At, Goes, facts, wires, world, FrameRel,
     Sends
<1>17. CASE CRetiresGroup
  BY <1>17, <1>0, SendForm, Members DEF CRetiresGroup, Alive, At, CReleases, Goes, Heard, facts,
     world, FrameRel, Sends
<1>18. CASE CReleasesKeeper
  BY <1>18, <1>0, SendForm, Members DEF CReleasesKeeper, Alive, At, CReleases, Goes, Heard, facts,
     world, FrameRel, Sends
<1>19. CASE CQuiesces
  BY <1>19, <1>0, SendForm, Members DEF CQuiesces, Alive, At, Goes, wires, world, FrameRel, Sends
<1>20. CASE CReports
  BY <1>20, <1>0, SendForm, Members DEF CReports, Alive, At, Goes, world, FrameRel, Sends
<1>21. CASE \/ CSettles \/ CNames \/ CKillsGroup \/ CSeesGroup \/ CReaps
  BY <1>21, FrameIdle DEF CSettles, world, wires, facts, CNames, CKillsGroup, minds, CSeesGroup,
     CReaps
<1>22. CASE \/ CDrains \/ CPays \/ CWritesPayload \/ CSeesQuiet \/ CGivesUp
  BY <1>22, FrameIdle DEF CDrains, world, facts, CPays, wires, CWritesPayload, CSeesQuiet,
     CGivesUp
<1>23. CASE CExits
  BY <1>23, FrameIdle DEF CExits, wires, minds, facts
<1> QED BY <1>1, <1>2, <1>3, <1>4, <1>5, <1>6, <1>7, <1>8, <1>9, <1>10, <1>11, <1>12, <1>13, <1>14,
     <1>15, <1>16, <1>17, <1>18, <1>19, <1>20, <1>21, <1>22, <1>23 DEF CustodianStep

\* Frames: the steps of the keeper.
LEMMA FrameKeeper ==
  ASSUME Shapes, KeeperStep
  PROVE  FrameRel
<1>0. /\ chan \in [Edges -> SUBSET Frames]
      /\ got \in SUBSET (Edges \X (Frames \cup {"EOF"}))
      /\ tried \in SUBSET (Edges \X Frames)
      /\ lost \in SUBSET (Edges \X Frames)
      /\ pc \in [Owners -> Stages]
  BY DEF Shapes
<1>1. CASE Boot("K")
  BY <1>1, <1>0, SendForm, Members DEF Boot, Alive, At, Goes, facts, FrameRel, Sends
<1>2. CASE TakesConfig("K")
  <2>1. /\ Takes("ck", "CONFIG") /\ UNCHANGED <<tried, lost>>
        /\ got' \in {got, got \cup {<<"ck", "CONFIG">>}}
    BY <1>2, Maps, Hearing DEF TakesConfig, Accepts, wires, minds
  <2> QED BY <2>1, <1>0, Members, Hearing, Heeds DEF Frames
<1>3. CASE TakesCancel("K")
  BY <1>3, <1>0, Maps, Members, Hearing DEF TakesCancel, Accepts, facts, outer, world, FrameRel,
     Frames, Edges
<1>4. CASE TakesGrant("K", "RUN")
  <2>1. /\ Takes("ck", "RUN") /\ UNCHANGED <<tried, lost>>
        /\ got' \in {got, got \cup {<<"ck", "RUN">>}}
    BY <1>4, Maps, Hearing DEF TakesGrant, Accepts, wires, minds
  <2> QED BY <2>1, <1>0, Members, Hearing, Heeds DEF Frames
<1>5. CASE RefusesGrant("K", "RUN")
  <2>1. /\ Takes("ck", "RUN") /\ UNCHANGED <<tried, lost>>
        /\ got' \in {got, got \cup {<<"ck", "RUN">>}}
    BY <1>5, Maps, Hearing DEF RefusesGrant, wires, minds
  <2> QED BY <2>1, <1>0, Members, Hearing, Heeds DEF Frames
<1>6. CASE KTakesGroupRetired
  <2>1. /\ Takes("ck", "GROUP_RETIRED") /\ UNCHANGED <<tried, lost>>
        /\ got' \in {got, got \cup {<<"ck", "GROUP_RETIRED">>}}
    BY <1>6, Maps, Hearing DEF KTakesGroupRetired, wires, minds
  <2> QED BY <2>1, <1>0, Members, Hearing, Heeds DEF Frames
<1>7. CASE KTakesRelease
  BY <1>7, <1>0, Maps, Members, Hearing DEF KTakesRelease, Heard, facts, outer, world, FrameRel,
     Frames, Edges
<1>8. CASE KMoves
  BY <1>8, <1>0, SendForm, Members DEF KMoves, Alive, At, Goes, facts, FrameRel, Sends
<1>9. CASE KReports
  BY <1>9, <1>0, SendForm, Members DEF KReports, Alive, At, Goes, facts, world, FrameRel, Sends
<1>10. CASE KReleases
  BY <1>10, <1>0, SendForm, Members DEF KReleases, Alive, At, Goes, facts, world, FrameRel, Sends
<1>11. CASE \/ KReaps \/ KSettles \/ KReleased \/ KExpires \/ KFallback
  BY <1>11, FrameIdle DEF KReaps, wires, facts, KSettles, KReleased, world, KExpires, KFallback
<1>12. CASE \/ KFallbackEnds \/ KLastWait \/ KCloses \/ KExits
  BY <1>12, FrameIdle DEF KFallbackEnds, world, wires, facts, KLastWait, KCloses, KExits, minds
<1> QED BY <1>1, <1>2, <1>3, <1>4, <1>5, <1>6, <1>7, <1>8, <1>9, <1>10, <1>11, <1>12 DEF KeeperStep

\* Frames: the steps of spawns, ends of pipes and of the validator.
LEMMA FrameShared ==
  ASSUME Shapes, Shared
  PROVE  FrameRel
<1>0. /\ chan \in [Edges -> SUBSET Frames]
      /\ got \in SUBSET (Edges \X (Frames \cup {"EOF"}))
      /\ tried \in SUBSET (Edges \X Frames)
      /\ lost \in SUBSET (Edges \X Frames)
      /\ pc \in [Owners -> Stages]
  BY DEF Shapes
<1>1. CASE ParentEof("C")
  BY <1>1, <1>0, Maps, Members DEF ParentEof, Alive, At, InBody, facts, outer, wires, world,
     FrameRel, Frames, Edges
<1>2. CASE ParentEof("K")
  BY <1>2, <1>0, Maps, Members DEF ParentEof, Alive, At, InBody, facts, outer, wires, world,
     FrameRel, Frames, Edges
<1>3. CASE ChildEof("O")
  BY <1>3, <1>0, Maps, Members DEF ChildEof, Alive, At, Heard, facts, outer, wires, world,
     FrameRel, Frames, Edges
<1>4. CASE ChildEof("C")
  BY <1>4, <1>0, Maps, Members DEF ChildEof, Alive, At, Heard, facts, outer, wires, world,
     FrameRel, Frames, Edges
<1>5. CASE \/ SpawnCall("O") \/ SpawnCall("C") \/ SpawnCall("K") \/ SpawnReturns("O")
           \/ SpawnReturns("C")
  BY <1>5, FrameIdle DEF SpawnCall, world, wires, facts, SpawnReturns
<1>6. CASE \/ SpawnReturns("K") \/ Spawned("O") \/ Spawned("C") \/ Spawned("K")
           \/ Unwind("O")
  BY <1>6, FrameIdle DEF SpawnReturns, wires, facts, Spawned, world, Unwind
<1>7. CASE \/ Unwind("C") \/ Unwind("K") \/ KidEnds
           \/ (\E how \in {"ok", "bad"} : VEnds(how))
  BY <1>7, FrameIdle DEF Unwind, world, wires, facts, KidEnds, minds, VEnds
<1> QED BY <1>1, <1>2, <1>3, <1>4, <1>5, <1>6, <1>7, SharedCases

\* Frames: the steps of what may go wrong.
LEMMA FrameFaults ==
  ASSUME Shapes, Faults
  PROVE  FrameRel
<1>0. /\ chan \in [Edges -> SUBSET Frames]
      /\ got \in SUBSET (Edges \X (Frames \cup {"EOF"}))
      /\ tried \in SUBSET (Edges \X Frames)
      /\ lost \in SUBSET (Edges \X Frames)
      /\ pc \in [Owners -> Stages]
  BY DEF Shapes
<1>1. CASE \/ BodyFault("O") \/ BodyFault("C") \/ BodyFault("K") \/ CleanupFault("O")
           \/ CleanupFault("C")
  BY <1>1, FrameIdle DEF BodyFault, world, wires, facts, CleanupFault
<1>2. CASE \/ CleanupFault("K") \/ Signal("O") \/ Signal("C") \/ Signal("K")
           \/ SpawnFails("O")
  BY <1>2, FrameIdle DEF CleanupFault, world, wires, facts, Signal, SpawnFails
<1>3. CASE \/ SpawnFails("C") \/ SpawnFails("K") \/ (\E p \in Roles : Kill(p))
           \/ BootFails("C") \/ BootFails("K")
  BY <1>3, FrameIdle DEF SpawnFails, wires, facts, Kill, minds, BootFails
<1>4. CASE \/ KMovesOnly \/ Interrupt \/ (\E t \in {"run", "capture"} : Deadline(t))
           \/ Cutoff("O") \/ Cutoff("C")
  BY <1>4, FrameIdle DEF KMovesOnly, wires, facts, Interrupt, world, minds, Deadline, Cutoff
<1>5. CASE Cutoff("K")
  BY <1>5, FrameIdle DEF Cutoff, world, wires, minds, facts
<1> QED BY <1>1, <1>2, <1>3, <1>4, <1>5, FaultsCases

LEMMA FrameStep ==
  ASSUME Shapes, [Next]_vars
  PROVE  FrameRel
<1>1. CASE UNCHANGED vars \/ Finished
  BY <1>1, FrameIdle DEF Finished, vars, world, wires, minds, facts
<1> QED BY <1>1, FrameOuter, FrameCustodian, FrameKeeper, FrameShared, FrameFaults DEF Next

LEMMA FactIdle ==
  ASSUME UNCHANGED <<groupC, payload, final, verdict>>
  PROVE  FactRel
  BY DEF FactRel

\* What is recorded: the steps of the caller.
LEMMA FactOuter ==
  ASSUME Shapes, OuterStep
  PROVE  FactRel
<1>0. /\ pc \in [Owners -> Stages]
  BY DEF Shapes
<1>1. CASE OPublishes
  BY <1>1, <1>0 DEF OPublishes, Alive, At, Goes, outer, wires, world, FactRel
<1>2. CASE OAccepts
  BY <1>2, <1>0 DEF OAccepts, Alive, At, Goes, Heard, outer, wires, world, FactRel
<1>3. CASE \/ OConfigures \/ OGrants("ADMIT", "HELLO", "hello", "reserved")
           \/ OGrants("RUN", "RESERVED", "reserved", "final")
           \/ (\E t \in {"HELLO", "RESERVED", "READY", "STATUS", "QUIESCING"} : OHears(t))
           \/ OHearsFinal
  BY <1>3, FactIdle DEF OConfigures, world, facts, OGrants, OHears, OHearsFinal
<1>4. CASE \/ OCommits \/ ODrains \/ ORetires \/ OCancels \/ OSettles
  BY <1>4, FactIdle DEF OCommits, world, wires, facts, ODrains, ORetires, OCancels, OSettles
<1>5. CASE \/ OReaps \/ OCloses
  BY <1>5, FactIdle DEF OReaps, wires, facts, OCloses, world
<1> QED BY <1>1, <1>2, <1>3, <1>4, <1>5 DEF OuterStep

\* What is recorded: the steps of the custodian.
LEMMA FactCustodian ==
  ASSUME Shapes, CustodianStep
  PROVE  FactRel
<1>0. /\ pc \in [Owners -> Stages]
  BY DEF Shapes
<1>1. CASE CHearsHello
  BY <1>1, <1>0, Hearing DEF CHearsHello, outer, world, FactRel
<1>2. CASE CSeesGroup
  BY <1>2, <1>0 DEF CSeesGroup, Alive, At, Goes, outer, wires, world, FactRel
<1>3. CASE CWritesPayload
  <2>1. pc["C"] = "payload" /\ pc'["C"] \in {"commit", "quiesce"}
    BY <1>3, <1>0, Members DEF CWritesPayload, Goes, At
  <2> QED BY <1>3, <2>1 DEF CWritesPayload, FactRel
<1>4. CASE CReports
  BY <1>4, <1>0 DEF CReports, Alive, At, Goes, world, FactRel
<1>5. CASE \/ Boot("C") \/ TakesConfig("C") \/ TakesCancel("C")
           \/ (\E t \in {"ADMIT", "RUN", "COMMIT"} : TakesGrant("C", t))
           \/ (\E t \in {"ADMIT", "RUN", "COMMIT"} : RefusesGrant("C", t))
  BY <1>5, FactIdle DEF Boot, facts, TakesConfig, world, TakesCancel, TakesGrant, RefusesGrant
<1>6. CASE \/ CConfigures \/ CReserves \/ CGrants \/ CHearsMoved \/ CSaysReady
  BY <1>6, FactIdle DEF CConfigures, world, facts, CReserves, CGrants, CHearsMoved, CSaysReady
<1>7. CASE \/ CHearsStatus \/ CForwards \/ CNotesStatus \/ CHearsReleased \/ CSettles
  BY <1>7, FactIdle DEF CHearsStatus, world, facts, CForwards, CNotesStatus, CHearsReleased,
     CSettles, wires
<1>8. CASE \/ CCancels \/ CNames \/ CKillsGroup \/ CRetiresGroup \/ CReleasesKeeper
  BY <1>8, FactIdle DEF CCancels, world, wires, facts, CNames, CKillsGroup, minds, CRetiresGroup,
     CReleases, Goes, CReleasesKeeper
<1>9. CASE \/ CReaps \/ CDrains \/ CPays \/ CQuiesces \/ CSeesQuiet
  BY <1>9, FactIdle DEF CReaps, wires, facts, CDrains, world, CPays, CQuiesces, CSeesQuiet
<1>10. CASE \/ CGivesUp \/ CExits
  BY <1>10, FactIdle DEF CGivesUp, world, facts, CExits, wires, minds
<1> QED BY <1>1, <1>2, <1>3, <1>4, <1>5, <1>6, <1>7, <1>8, <1>9, <1>10 DEF CustodianStep

\* What is recorded: the steps of the keeper.
LEMMA FactKeeper ==
  ASSUME Shapes, KeeperStep
  PROVE  FactRel
<1>0. /\ pc \in [Owners -> Stages]
  BY DEF Shapes
<1>1. CASE \/ Boot("K") \/ TakesConfig("K") \/ TakesCancel("K") \/ TakesGrant("K", "RUN")
           \/ RefusesGrant("K", "RUN")
  BY <1>1, FactIdle DEF Boot, facts, TakesConfig, world, TakesCancel, TakesGrant, RefusesGrant
<1>2. CASE \/ KTakesGroupRetired \/ KTakesRelease \/ KMoves \/ KReaps \/ KReports
  BY <1>2, FactIdle DEF KTakesGroupRetired, world, KTakesRelease, facts, KMoves, KReaps, wires,
     KReports
<1>3. CASE \/ KSettles \/ KReleased \/ KExpires \/ KFallback \/ KFallbackEnds
  BY <1>3, FactIdle DEF KSettles, wires, facts, KReleased, world, KExpires, KFallback,
     KFallbackEnds
<1>4. CASE \/ KLastWait \/ KCloses \/ KReleases \/ KExits
  BY <1>4, FactIdle DEF KLastWait, world, wires, facts, KCloses, KReleases, KExits, minds
<1> QED BY <1>1, <1>2, <1>3, <1>4 DEF KeeperStep

\* What is recorded: the steps of spawns, ends of pipes and of the validator.
LEMMA FactShared ==
  ASSUME Shapes, Shared
  PROVE  FactRel
<1>0. /\ pc \in [Owners -> Stages]
  BY DEF Shapes
<1>1. CASE \/ SpawnCall("O") \/ SpawnCall("C") \/ SpawnCall("K") \/ SpawnReturns("O")
           \/ SpawnReturns("C")
  BY <1>1, FactIdle DEF SpawnCall, world, wires, facts, SpawnReturns
<1>2. CASE \/ SpawnReturns("K") \/ Spawned("O") \/ Spawned("C") \/ Spawned("K")
           \/ Unwind("O")
  BY <1>2, FactIdle DEF SpawnReturns, wires, facts, Spawned, world, Unwind
<1>3. CASE \/ Unwind("C") \/ Unwind("K") \/ ParentEof("C") \/ ParentEof("K")
           \/ ChildEof("O")
  BY <1>3, FactIdle DEF Unwind, world, wires, facts, ParentEof, ChildEof
<1>4. CASE \/ ChildEof("C") \/ KidEnds \/ (\E how \in {"ok", "bad"} : VEnds(how))
  BY <1>4, FactIdle DEF ChildEof, world, wires, facts, KidEnds, minds, VEnds
<1> QED BY <1>1, <1>2, <1>3, <1>4, SharedCases

\* What is recorded: the steps of what may go wrong.
LEMMA FactFaults ==
  ASSUME Shapes, Faults
  PROVE  FactRel
<1>0. /\ pc \in [Owners -> Stages]
  BY DEF Shapes
<1>1. CASE \/ BodyFault("O") \/ BodyFault("C") \/ BodyFault("K") \/ CleanupFault("O")
           \/ CleanupFault("C")
  BY <1>1, FactIdle DEF BodyFault, world, wires, facts, CleanupFault
<1>2. CASE \/ CleanupFault("K") \/ Signal("O") \/ Signal("C") \/ Signal("K")
           \/ SpawnFails("O")
  BY <1>2, FactIdle DEF CleanupFault, world, wires, facts, Signal, SpawnFails
<1>3. CASE \/ SpawnFails("C") \/ SpawnFails("K") \/ (\E p \in Roles : Kill(p))
           \/ BootFails("C") \/ BootFails("K")
  BY <1>3, FactIdle DEF SpawnFails, wires, facts, Kill, minds, BootFails
<1>4. CASE \/ KMovesOnly \/ Interrupt \/ (\E t \in {"run", "capture"} : Deadline(t))
           \/ Cutoff("O") \/ Cutoff("C")
  BY <1>4, FactIdle DEF KMovesOnly, wires, facts, Interrupt, world, minds, Deadline, Cutoff
<1>5. CASE Cutoff("K")
  BY <1>5, FactIdle DEF Cutoff, world, wires, minds, facts
<1> QED BY <1>1, <1>2, <1>3, <1>4, <1>5, FaultsCases

LEMMA FactStep ==
  ASSUME Shapes, [Next]_vars
  PROVE  FactRel
<1>1. CASE UNCHANGED vars \/ Finished
  BY <1>1, FactIdle DEF Finished, vars, world, wires, minds, facts
<1> QED BY <1>1, FactOuter, FactCustodian, FactKeeper, FactShared, FactFaults DEF Next

-----------------------------------------------------------------------------
(* The parts of the invariant, one after the other.                          *)

\* The dead and the unborn do nothing.
LEMMA KinshipKept ==
  ASSUME Shapes, Shapes', Kinship, WorldRel, StageRel, PlaceRel
  PROVE  Kinship'
<1>0. /\ proc \in [Roles -> Lives] /\ proc' \in [Roles -> Lives]
  BY DEF Shapes
<1>1. /\ has'["O"] \in Barren => proc'["C"] = "none"
      /\ has'["C"] \in Barren => proc'["K"] = "none"
      /\ has'["K"] \in Barren => proc'["V"] = "none"
  BY DEF WorldRel, Bears, Kinship, Barren
<1>2. \A p \in Roles : proc'[p] = "none" => proc[p] = "none"
  BY <1>0 DEF WorldRel, Lives
<1>3. /\ proc'["C"] = "none" => has'["C"] = "none" /\ pc'["C"] = "boot"
      /\ proc'["K"] = "none" => has'["K"] = "none" /\ pc'["K"] = "boot"
  BY <1>2, Members DEF WorldRel, StageRel, PlaceRel, Bears, Kinship
<1>4. kid' => proc'["V"] # "none"
  BY <1>2, Members DEF WorldRel, Kinship
<1>5. \A p \in Roles : status'[p] # "none" => proc'[p] \in {"zombie", "gone"}
  BY DEF WorldRel, Kinship
<1>6. \A p \in {"C", "K"} : rcpt'[p] # "none" => proc'[p] = "gone" /\ rcpt'[p] = status'[p]
  <2>1. ASSUME NEW p \in {"C", "K"}, rcpt'[p] # "none"
        PROVE  proc'[p] = "gone" /\ rcpt'[p] = status'[p]
    <3>1. p \in Roles
      BY DEF Roles
    <3>2. CASE rcpt'[p] = rcpt[p]
      <4>1. proc[p] = "gone" /\ rcpt[p] = status[p]
        BY <2>1, <3>2 DEF Kinship
      <4> QED BY <3>1, <3>2, <4>1 DEF WorldRel
    <3> QED BY <3>1, <3>2 DEF WorldRel
  <2> QED BY <2>1
<1>7. \A p \in {"C", "K"} : proc'[p] = "none" => has'[p] = "none" /\ pc'[p] = "boot"
  BY <1>3
<1> QED BY <1>1, <1>4, <1>5, <1>6, <1>7 DEF Kinship

LEMMA CarriedKept ==
  ASSUME Shapes, Carried, FrameRel
  PROVE  Carried'
<1>1. \A e \in Edges : \A t \in chan'[e] : <<e, t>> \in tried'
  BY DEF Carried, FrameRel
<1>2. \A e \in Edges : \A t \in Frames : <<e, t>> \in got' => <<e, t>> \in tried'
  BY DEF Carried, FrameRel
<1> QED BY <1>1, <1>2 DEF Carried

\* What a parent has reaped stays as it was.
LEMMA ReapedStays ==
  ASSUME Kinship, WorldRel, NEW p \in {"C", "K"}, rcpt[p] # "none"
  PROVE  proc[p] = "gone" /\ proc'[p] = "gone" /\ rcpt'[p] = rcpt[p]
<1>1. p \in Roles
  BY DEF Roles
<1>2. proc[p] = "gone" /\ rcpt[p] = status[p]
  BY DEF Kinship
<1>3. proc'[p] = "gone" /\ status'[p] = status[p]
  BY <1>1, <1>2 DEF WorldRel
<1> QED BY <1>1, <1>2, <1>3 DEF WorldRel

\* Below a keeper that is gone nothing is made.
LEMMA BelowGone ==
  ASSUME WorldRel, proc["K"] = "gone"
  PROVE  /\ proc["V"] = "none" => proc'["V"] = "none"
         /\ proc["V"] = "gone" => proc'["V"] = "gone" /\ status'["V"] = status["V"]
         /\ kid' => kid
         /\ has'["K"] = has["K"]
<1>1. has'["K"] = has["K"] /\ (proc["V"] = "none" => proc'["V"] = "none")
  BY DEF WorldRel, Bears
<1>2. kid' => kid
  BY DEF WorldRel
<1>3. proc["V"] = "gone" => proc'["V"] = "gone" /\ status'["V"] = status["V"]
  BY Members DEF WorldRel
<1> QED BY <1>1, <1>2, <1>3

LEMMA EmptyStays ==
  ASSUME Shapes, Kinship, Reserved, WorldRel, PlaceRel, grp # "start", GroupEmpty
  PROVE  GroupEmpty'
<1>1. pc["K"] # "boot" /\ proc["V"] \in {"none", "gone"} /\ ~kid
  BY DEF Reserved, GroupEmpty
<1>2. proc["K"] # "none"
  BY <1>1 DEF Kinship
<1>3. proc["V"] = "gone" => proc'["V"] = "gone"
  BY Members DEF WorldRel
<1>4. CASE proc["K"] = "gone"
  <2>1. proc'["K"] = "gone"
    BY <1>4, Members DEF WorldRel
  <2> QED BY <1>1, <1>3, <1>4, <2>1, BelowGone DEF GroupEmpty
<1>5. CASE grp = "moved"
  <2>1. grp' = "moved"
    BY <1>1, <1>5 DEF PlaceRel
  <2>2. pc["K"] # "spawn" /\ has["K"] # "native"
    BY <1>5 DEF Reserved
  <2>3. proc["V"] = "none" => proc'["V"] = "none"
    BY <2>2 DEF WorldRel, Bears
  <2>4. ~kid'
    BY <1>1, <2>2 DEF WorldRel
  <2> QED BY <1>1, <1>3, <2>1, <2>3, <2>4 DEF GroupEmpty
<1>6. grp \in {"G", "moved"}
  BY DEF Shapes
<1> QED BY <1>2, <1>4, <1>5, <1>6 DEF GroupEmpty

LEMMA ReservedKept ==
  ASSUME Shapes, Kinship, Carried, Reserved, WorldRel, PlaceRel, FrameRel, FactRel
  PROVE  Reserved'
<1>1. (grp' = "start") <=> (pc'["K"] = "boot")
  BY DEF Reserved, PlaceRel
<1>2. grp' = "moved" => pc'["K"] \notin {"config", "spawn"} /\ has'["K"] \in {"none", "made"}
  <2>1. CASE grp' = "moved" /\ grp = "moved"
    <3>1. pc["K"] \notin {"boot", "config", "spawn"} /\ has["K"] \in {"none", "made"}
      BY <2>1 DEF Reserved
    <3>2. has'["K"] = has["K"]
      BY <3>1 DEF WorldRel, Bears
    <3> QED BY <3>1, <3>2 DEF PlaceRel
  <2>2. CASE grp' = "moved" /\ grp # "moved"
    <3>1. pc["K"] \in {"move", "settle"} /\ pc'["K"] \in {"wait", "settle", "hold"}
      BY <2>2 DEF PlaceRel
    <3>2. has'["K"] = has["K"] /\ (pc["K"] = "settle" => has["K"] \in {"none", "made"})
      BY <2>2 DEF PlaceRel
    <3> QED BY <3>1, <3>2 DEF Reserved
  <2> QED BY <2>1, <2>2
<1>3. pc'["K"] = "move" => has'["K"] = "made"
  <2>1. pc'["K"] = "move" => has["K"] = "made"
    BY DEF PlaceRel, Reserved
  <2>2. has["K"] = "made" => has'["K"] = "made"
    BY DEF WorldRel, Bears
  <2> QED BY <2>1, <2>2
<1>4. grp' = "start" => grp = "start"
  BY DEF PlaceRel
<1>5. <<"kc", "HELLO">> \in tried' => grp' # "start"
  BY <1>4 DEF FrameRel, Reserved
<1>6. groupC' # "none" => grp' # "start"
  <2>1. "HELLO" \in chan["kc"] => <<"kc", "HELLO">> \in tried
    BY Members DEF Carried
  <2> QED BY <1>4, <2>1 DEF FactRel, Reserved
<1>7. groupC' = "absent" => GroupEmpty'
  <2>1. CASE groupC' = groupC
    BY <2>1, EmptyStays DEF Reserved
  <2>2. CASE groupC = "open" /\ GroupEmpty /\ UNCHANGED world
    BY <2>2 DEF GroupEmpty, world
  <2> QED BY <2>1, <2>2 DEF FactRel
<1> QED BY <1>1, <1>2, <1>3, <1>5, <1>6, <1>7 DEF Reserved

LEMMA DispatchedKept ==
  ASSUME Shapes, Carried, Dispatched, WorldRel, StageRel, PlaceRel, FrameRel
  PROVE  Dispatched'
<1>1. tried \subseteq tried'
  BY DEF FrameRel
<1>2. /\ "RUN" \in chan["ck"] => <<"ck", "RUN">> \in tried
      /\ "RUN" \in chan["oc"] => <<"oc", "RUN">> \in tried
  BY Members DEF Carried
<1>3. pc'["K"] = "spawn" => <<"ck", "RUN">> \in tried
  BY <1>2 DEF PlaceRel, Dispatched
<1>4. has'["K"] # "none" => <<"ck", "RUN">> \in tried
  BY DEF WorldRel, Bears, Dispatched
<1>5. pc'["C"] = "grant" => <<"oc", "RUN">> \in tried
  BY <1>2 DEF StageRel, Dispatched
<1>6. <<"ck", "RUN">> \in tried' => <<"oc", "RUN">> \in tried
  BY DEF FrameRel, Dispatched
<1> QED BY <1>1, <1>3, <1>4, <1>5, <1>6 DEF Dispatched

LEMMA SettledStays ==
  ASSUME Kinship, WorldRel, Settled
  PROVE  Settled'
<1>1. rcpt["K"] = "ok" /\ proc["V"] = "gone" /\ ~kid /\ status["V"] = "ok"
  BY DEF Settled
<1>2. proc["K"] = "gone" /\ rcpt'["K"] = rcpt["K"]
  BY <1>1, ReapedStays
<1> QED BY <1>1, <1>2, BelowGone DEF Settled

\* A payload is due only when all below the custodian is over.
LEMMA SuccessSettles ==
  ASSUME Kinship, Reserved, Successful
  PROVE  Settled
<1>1. rcpt["K"] = "ok" /\ status["V"] = "ok" /\ groupC = "absent"
  BY DEF Successful
<1>2. proc["V"] \in {"zombie", "gone"}
  BY <1>1, Members DEF Kinship
<1>3. proc["V"] \in {"none", "gone"} /\ ~kid
  BY <1>1 DEF Reserved, GroupEmpty
<1> QED BY <1>1, <1>2, <1>3 DEF Settled

LEMMA PaymentsKept ==
  ASSUME Shapes, Kinship, Reserved, Payments, WorldRel, StageRel, FrameRel, FactRel
  PROVE  Payments'
<1>1. \/ payload' = payload
      \/ pc["C"] = "payload" /\ pc'["C"] \in {"commit", "quiesce"}
  BY DEF FactRel
<1>2. pc'["C"] \in {"payload", "commit"} \/ payload' # "none" => Settled'
  <2>1. pc'["C"] = "payload" => Settled
    BY SuccessSettles DEF StageRel, Payments
  <2>2. pc'["C"] = "commit" => Settled
    BY DEF StageRel, Payments
  <2>3. payload' # "none" => Settled
    BY <1>1 DEF Payments
  <2> QED BY <2>1, <2>2, <2>3, SettledStays
<1>3. payload' # "none" => pc'["C"] \in {"commit", "quiesce", "quiet", "report", "exit"}
  BY <1>1 DEF StageRel, Payments
<1>4. <<"oc", "COMMIT">> \in tried' => payload' = "full"
  <2>1. CASE <<"oc", "COMMIT">> \in tried
    <3>1. payload = "full" /\ pc["C"] # "payload"
      BY <2>1 DEF Payments
    <3> QED BY <1>1, <3>1
  <2> QED BY <2>1 DEF FrameRel
<1> QED BY <1>2, <1>3, <1>4 DEF Payments

\* A custodian without a keeper has nothing below it.
LEMMA ClearedStays ==
  ASSUME Kinship, WorldRel, Cleared, pc["C"] = "exit"
  PROVE  Cleared'
<1>1. has["C"] = "none" \/ proc["K"] = "gone"
  BY DEF Cleared
<1>2. CASE proc["K"] = "gone"
  <2>1. proc'["K"] = "gone"
    BY <1>2, Members DEF WorldRel
  <2> QED BY <1>2, <2>1, BelowGone DEF Cleared
<1>3. CASE has["C"] = "none"
  <2>1. proc["K"] = "none" /\ has["K"] = "none"
    BY <1>3 DEF Kinship, Barren
  <2>2. proc["V"] = "none" /\ ~kid
    BY <2>1 DEF Kinship, Barren
  <2>3. has'["C"] = "none"
    BY <1>3 DEF WorldRel, Bears
  <2>4. proc'["V"] = "none"
    BY <2>1, <2>2 DEF WorldRel, Bears
  <2>5. ~kid'
    BY <2>1, <2>2 DEF WorldRel
  <2> QED BY <2>3, <2>4, <2>5 DEF Cleared
<1> QED BY <1>1, <1>2, <1>3

\* So it is when the custodian confirms its cleanup.
LEMMA ConfirmedClears ==
  ASSUME Kinship, Reserved, Confirmed
  PROVE  Cleared
<1>1. KeeperSettled /\ GroupState \in {"absent", "not_created"}
  BY DEF Confirmed
<1>2. CASE KeeperState = "not_attempted"
  <2>1. has["C"] = "none"
    BY <1>2, Maps DEF KeeperState, Account
  <2>2. proc["K"] = "none" /\ has["K"] = "none"
    BY <2>1 DEF Kinship, Barren
  <2>3. proc["V"] = "none" /\ ~kid
    BY <2>2 DEF Kinship, Barren
  <2> QED BY <2>1, <2>3 DEF Cleared
<1>3. CASE KeeperState # "not_attempted"
  <2>1. rcpt["K"] \in {"ok", "bad"}
    BY <1>1, <1>3 DEF KeeperSettled
  <2>2. groupC = "absent"
    BY <1>1, <1>3 DEF GroupState
  <2>3. proc["K"] = "gone"
    BY <2>1 DEF Kinship
  <2>4. proc["V"] \in {"none", "gone"} /\ ~kid
    BY <2>2 DEF Reserved, GroupEmpty
  <2> QED BY <2>3, <2>4 DEF Cleared
<1> QED BY <1>2, <1>3

\* The record that CReports makes is true of the state it is made in.
LEMMA ReportIsTrue ==
  ASSUME Shapes, Kinship, Carried, Reserved, Payments, Concluded, WorldRel, CReports
  PROVE  /\ pc'["C"] = "exit" /\ <<"co", "FINAL">> \notin got'
         /\ final'.cleanup = "confirmed" => Cleared'
         /\ final'.outcome = "ok" => Settled /\ payload' = "full"
<1>1. /\ pc["C"] = "report" /\ pc' = [pc EXCEPT !["C"] = "exit"]
      /\ UNCHANGED <<world, has, got, payload>>
      /\ final' = [outcome |-> Outcome, cleanup |-> IF Confirmed THEN "confirmed" ELSE "unknown",
                   keeper |-> KeeperState, validator |-> ValidatorState, group |-> GroupState]
  BY DEF CReports, At, Goes
<1>2. pc'["C"] = "exit"
  BY <1>1, Members DEF Shapes
<1>3. <<"co", "FINAL">> \notin got'
  <2>1. "FINAL" \in Frames
    BY DEF Frames
  <2> QED BY <1>1, <2>1, Members DEF Carried, Concluded
<1>4. final'.cleanup = "confirmed" => Cleared'
  <2>1. final'.cleanup = "confirmed" => Cleared
    BY <1>1, ConfirmedClears
  <2> QED BY <1>1, <2>1 DEF Cleared, world
<1>5. final'.outcome = "ok" => Settled /\ payload' = "full"
  <2>1. final'.outcome = "ok" => Successful /\ <<"oc", "COMMIT">> \in got
    BY <1>1 DEF Outcome, Heard
  <2>2. <<"oc", "COMMIT">> \in got => payload = "full"
    <3>1. "COMMIT" \in Frames
      BY DEF Frames
    <3> QED BY <3>1, Members DEF Carried, Payments
  <2> QED BY <1>1, <2>1, <2>2, SuccessSettles
<1> QED BY <1>2, <1>3, <1>4, <1>5

LEMMA ConcludedKept ==
  ASSUME Shapes, Kinship, Carried, Reserved, Payments, Payments', Concluded,
         WorldRel, StageRel, FrameRel, FactRel
  PROVE  Concluded'
<1>1. CASE final' = final
  <2>1. final' # NoFinal \/ <<"co", "FINAL">> \in tried' => pc'["C"] = "exit"
    BY <1>1 DEF Concluded, FrameRel, StageRel
  <2>2. final'.cleanup = "confirmed" => Cleared'
    BY <1>1, ClearedStays DEF Concluded, NoFinal
  <2>3. final'.outcome = "ok" => Settled' /\ payload' = "full"
    <3>1. ASSUME final'.outcome = "ok"
          PROVE  Settled' /\ payload' = "full"
      <4>1. Settled /\ payload = "full" /\ pc["C"] = "exit"
        BY <1>1, <3>1 DEF Concluded, NoFinal
      <4> QED BY <4>1, SettledStays DEF FactRel
    <3> QED BY <3>1
  <2>4. final'.outcome = "ok" /\ <<"co", "FINAL">> \in got' => <<"oc", "COMMIT">> \in tried' \ lost'
    <3>1. ASSUME final'.outcome = "ok", <<"co", "FINAL">> \in got'
          PROVE  <<"oc", "COMMIT">> \in tried' \ lost'
      <4>1. <<"oc", "COMMIT">> \in tried \ lost
        BY <1>1, <3>1 DEF Concluded, FrameRel, FinalFits, Heard, Sent
      <4> QED BY <4>1 DEF FrameRel
    <3> QED BY <3>1
  <2> QED BY <2>1, <2>2, <2>3, <2>4 DEF Concluded, Heard, Sent
<1>2. CASE CReports
  BY <1>2, ReportIsTrue, SettledStays DEF Concluded, Heard
<1> QED BY <1>1, <1>2 DEF FactRel

\* A verdict is given once, and rests on what can no longer change.
LEMMA JudgedKept ==
  ASSUME Shapes, Kinship, Carried, Concluded, Judged, WorldRel, StageRel, FrameRel, FactRel
  PROVE  Judged'
<1>0. proc["C"] = "gone" => final' = final
  BY DEF FactRel, CReports, At, Alive
<1>1. CASE verdict' = verdict
  <2>1. verdict' # NoVerdict => pc'["O"] \in {"accept", "done"}
    BY <1>1 DEF Judged, StageRel
  <2>2. verdict'.settled => has'["O"] = "none" \/ (proc'["C"] = "gone" /\ final'.cleanup = "confirmed")
    <3>1. ASSUME verdict'.settled
          PROVE  has'["O"] = "none" \/ (proc'["C"] = "gone" /\ final'.cleanup = "confirmed")
      <4>1. pc["O"] \in {"accept", "done"}
        BY <1>1, <3>1 DEF Judged, NoVerdict
      <4>2. has["O"] = "none" => has'["O"] = "none"
        BY <4>1 DEF WorldRel, Bears
      <4>3. proc["C"] = "gone" => proc'["C"] = "gone"
        BY Members DEF WorldRel
      <4> QED BY <1>0, <1>1, <3>1, <4>2, <4>3 DEF Judged
    <3> QED BY <3>1
  <2>3. verdict'.state \in {"FINALIZED", "NO_PRODUCERS"} => verdict'.settled
    BY <1>1 DEF Judged
  <2>4. verdict.state = "FINALIZED" => proc["C"] = "gone" /\ rcpt'["C"] = rcpt["C"]
    <3>1. verdict.state = "FINALIZED" => rcpt["C"] \in {"ok", "bad"}
      BY DEF Judged
    <3> QED BY <3>1, ReapedStays
  <2>5. verdict'.state = "FINALIZED" => rcpt'["C"] = IF final'.outcome = "failed" THEN "bad" ELSE "ok"
    BY <1>0, <1>1, <2>4 DEF Judged
  <2>6. verdict'.dispatch = "NOT_SENT" => <<"oc", "RUN">> \notin tried'
    <3>1. verdict.dispatch = "NOT_SENT" => pc["O"] \in {"accept", "done"}
      BY DEF Judged, NoVerdict
    <3> QED BY <1>1, <3>1 DEF Judged, FrameRel
  <2>7. verdict'.result = "accepted" =>
          verdict'.state = "FINALIZED" /\ <<"co", "FINAL">> \in got' /\ final'.outcome = "ok"
    <3>1. got \subseteq got'
      BY DEF FrameRel
    <3> QED BY <1>0, <1>1, <2>4, <3>1 DEF Judged, Heard
  <2> QED BY <2>1, <2>2, <2>3, <2>5, <2>6, <2>7 DEF Judged, Heard
<1>2. CASE OPublishes
  <2>1. /\ pc' = [pc EXCEPT !["O"] = "accept"] /\ UNCHANGED <<world, has, got, rcpt, final, tried>>
        /\ verdict' =
             [state    |-> Finality,
              settled  |-> ProducersConfirmed,
              dispatch |-> IF <<"oc", "RUN">> \in tried THEN "ARMED"
                           ELSE IF NoProducers \/ (ProducersConfirmed /\ "oc" \in shut /\ ~Broken("oc"))
                           THEN "NOT_SENT" ELSE "UNKNOWN",
              result   |-> "none"]
    BY <1>2 DEF OPublishes, Goes, wires
  <2>2. pc'["O"] = "accept"
    BY <2>1, Members DEF Shapes
  <2>3. NoProducers => has["O"] = "none"
    BY Maps DEF NoProducers, Account
  <2>4. ProducersConfirmed /\ ~NoProducers =>
          /\ rcpt["C"] = (IF final.outcome = "failed" THEN "bad" ELSE "ok")
          /\ final.cleanup = "confirmed"
    BY DEF ProducersConfirmed
  <2>5. ProducersConfirmed /\ ~NoProducers => proc["C"] = "gone"
    <3>1. ProducersConfirmed /\ ~NoProducers => rcpt["C"] # "none"
      BY <2>4
    <3> QED BY <3>1 DEF Kinship
  <2>6. verdict'.settled => has'["O"] = "none" \/ (proc'["C"] = "gone" /\ final'.cleanup = "confirmed")
    BY <2>1, <2>3, <2>4, <2>5 DEF world
  <2>7. /\ verdict'.state \in {"FINALIZED", "NO_PRODUCERS"} => verdict'.settled
        /\ verdict'.state = "FINALIZED" => ProducersConfirmed /\ ~NoProducers
    BY <2>1 DEF Finality
  <2>8. /\ verdict'.dispatch = "NOT_SENT" => <<"oc", "RUN">> \notin tried'
        /\ verdict'.result # "accepted"
    BY <2>1
  <2> QED BY <2>1, <2>2, <2>4, <2>6, <2>7, <2>8 DEF Judged
<1>3. CASE OAccepts
  <2>1. /\ pc["O"] = "accept" /\ pc' = [pc EXCEPT !["O"] = "done"]
        /\ UNCHANGED <<world, has, got, rcpt, final, tried>>
    BY <1>3 DEF OAccepts, At, Goes, wires
  <2>2. /\ \E r \in {"accepted", "refused"} : verdict' = [verdict EXCEPT !.result = r]
        /\ verdict'.result = "accepted" => /\ verdict.state = "FINALIZED"
                                           /\ Heard("co", "FINAL") /\ final.outcome = "ok"
    BY <1>3 DEF OAccepts, Shapes, Verdicts
  <2>3. /\ verdict'.state = verdict.state /\ verdict'.settled = verdict.settled
        /\ verdict'.dispatch = verdict.dispatch
    BY <2>2 DEF Shapes, Verdicts
  <2>4. pc'["O"] = "done"
    BY <2>1, Members DEF Shapes
  <2> QED BY <2>1, <2>2, <2>3, <2>4 DEF Judged, Heard, world
<1> QED BY <1>1, <1>2, <1>3 DEF FactRel

-----------------------------------------------------------------------------
(* The invariant of the capture.                                             *)

LEMMA CaptureStarts == Init => CaptureInv
<1> SUFFICES ASSUME Init PROVE CaptureInv
  OBVIOUS
<1>1. Shapes
  <2>1. /\ proc \in [Roles -> Lives] /\ status \in [Roles -> Codes] /\ kid \in BOOLEAN
        /\ grp \in {"start", "G", "moved"} /\ rcpt \in [Roles -> Codes]
    BY DEF Init, Lives, Codes
  <2>2. /\ chan \in [Edges -> SUBSET Frames] /\ got \in SUBSET (Edges \X (Frames \cup {"EOF"}))
        /\ tried \in SUBSET (Edges \X Frames) /\ lost \in SUBSET (Edges \X Frames)
    BY DEF Init
  <2>3. pc \in [Owners -> Stages] /\ has \in [Owners -> Made]
    BY DEF Init, Owners, Stages, Made
  <2>4. verdict \in Verdicts
    BY DEF Init, Verdicts, NoVerdict
  <2> QED BY <2>1, <2>2, <2>3, <2>4 DEF Shapes
<1>2. Kinship
  BY Members DEF Init, Kinship, Barren
<1>3. Carried
  BY DEF Init, Carried
<1>4. Reserved
  BY Members DEF Init, Reserved
<1>5. Dispatched /\ Payments
  BY Members DEF Init, Dispatched, Payments
<1>6. Concluded
  BY DEF Init, Concluded, NoFinal, Heard
<1>7. Judged
  BY DEF Init, Judged, NoVerdict
<1> QED BY <1>1, <1>2, <1>3, <1>4, <1>5, <1>6, <1>7 DEF CaptureInv

LEMMA CaptureStays ==
  ASSUME CaptureInv, [Next]_vars
  PROVE  CaptureInv'
<1>0. Shapes /\ Kinship /\ Carried /\ Reserved /\ Dispatched /\ Payments /\ Concluded /\ Judged
  BY DEF CaptureInv
<1>1. Shapes' /\ WorldRel /\ StageRel /\ PlaceRel /\ FrameRel /\ FactRel
  BY <1>0, TypesStep, WorldStep, PlaceStep, FrameStep, FactStep
<1>2. Kinship' /\ Carried' /\ Reserved' /\ Dispatched'
  BY <1>0, <1>1, KinshipKept, CarriedKept, ReservedKept, DispatchedKept
<1>3. Payments'
  BY <1>0, <1>1, PaymentsKept
<1>4. Concluded' /\ Judged'
  BY <1>0, <1>1, <1>3, ConcludedKept, JudgedKept
<1> QED BY <1>1, <1>2, <1>3, <1>4 DEF CaptureInv

LEMMA CaptureHolds == Spec => []CaptureInv
<1>1. CaptureInv /\ [Next]_vars => CaptureInv'
  BY CaptureStays
<1> QED BY <1>1, CaptureStarts, PTL DEF Spec

\* Bytes are accepted, and leave the custodian, only from a capture that is
\* over and that all its parts agree about (capture_profile's acceptance gate).
THEOREM AcceptanceIsEarned == Spec => []AcceptedIsTrue
<1>1. CaptureInv => AcceptedIsTrue
  <2> SUFFICES ASSUME CaptureInv PROVE AcceptedIsTrue
    OBVIOUS
  <2>0. Kinship /\ Payments /\ Concluded /\ Judged
    BY DEF CaptureInv
  <2>1. Settled => /\ proc["V"] = "gone" /\ ~kid /\ status["V"] = "ok"
                   /\ proc["K"] = "gone" /\ status["K"] = "ok"
    BY <2>0 DEF Settled, Kinship
  <2>2. payload # "none" => Settled
    BY <2>0 DEF Payments
  <2>3. verdict.result = "accepted" =>
          /\ verdict.state = "FINALIZED" /\ Heard("co", "FINAL") /\ final.outcome = "ok"
    BY <2>0 DEF Judged
  <2>4. verdict.result = "accepted" => Settled /\ payload = "full" /\ Sent("oc", "COMMIT")
    BY <2>0, <2>3 DEF Concluded
  <2>5. verdict.result = "accepted" => rcpt["C"] = "ok"
    BY <2>0, <2>3 DEF Judged
  <2>6. verdict.result = "accepted" => proc["C"] = "gone" /\ status["C"] = "ok"
    BY <2>0, <2>5 DEF Kinship
  <2> QED BY <2>1, <2>2, <2>4, <2>6 DEF AcceptedIsTrue, Left
<1> QED BY <1>1, CaptureHolds, PTL

\* What the finality of a capture says holds: no producer is left where it
\* says settled, and no validator ever ran where it says NOT_SENT.
THEOREM FinalityHolds == Spec => []FinalityIsTrue
<1>1. CaptureInv => FinalityIsTrue
  <2> SUFFICES ASSUME CaptureInv PROVE FinalityIsTrue
    OBVIOUS
  <2>0. Kinship /\ Dispatched /\ Concluded /\ Judged
    BY DEF CaptureInv
  <2>1. /\ has["O"] = "none" => proc["C"] = "none"
        /\ proc["C"] = "none" => has["C"] = "none"
        /\ has["C"] = "none" => proc["K"] = "none"
        /\ proc["K"] = "none" => has["K"] = "none"
        /\ has["K"] = "none" => proc["V"] = "none"
        /\ proc["V"] = "none" => ~kid
    BY <2>0 DEF Kinship, Barren
  <2>2. verdict.settled => has["O"] = "none" \/ (proc["C"] = "gone" /\ Cleared)
    BY <2>0 DEF Judged, Concluded
  <2>3. verdict.settled => ~Left /\ ~kid
    BY <2>1, <2>2 DEF Left, Cleared
  <2>4. verdict.state \in {"FINALIZED", "NO_PRODUCERS"} => verdict.settled
    BY <2>0 DEF Judged
  <2>5. verdict.dispatch = "NOT_SENT" => has["K"] = "none"
    BY <2>0 DEF Judged, Dispatched
  <2> QED BY <2>1, <2>3, <2>4, <2>5 DEF FinalityIsTrue
<1> QED BY <1>1, CaptureHolds, PTL

-----------------------------------------------------------------------------
(* The course of a capture to which nothing happens but its own steps.     *)

\* The stages in the order in which an undisturbed owner takes them.
OTurn == [spawn |-> 0, config |-> 1, hello |-> 2, reserved |-> 3, final |-> 4, drain |-> 5,
          cancel |-> 6, settle |-> 7, wait |-> 8, eof |-> 9, publish |-> 10, accept |-> 11,
          done |-> 12]
CTurn == [boot |-> 0, config |-> 1, spawn |-> 2, configure |-> 3, hello |-> 4, reserve |-> 5,
          run |-> 6, grant |-> 7, status |-> 8, forward |-> 9, settle |-> 10, cancel |-> 11,
          name |-> 12, group |-> 13, release |-> 14, released |-> 15, reap |-> 16, keof |-> 17,
          payload0 |-> 18, payload |-> 19, commit |-> 20, quiesce |-> 21, quiet |-> 22,
          report |-> 23, exit |-> 24]
KTurn == [boot |-> 0, config |-> 1, spawn |-> 2, move |-> 3, wait |-> 4, settle |-> 5, hold |-> 6,
          lastwait |-> 7, close |-> 8, report |-> 9, exit |-> 10]
oAt == OTurn[pc["O"]]
cAt == CTurn[pc["C"]]
kAt == KTurn[pc["K"]]

Course ==
  \* No failure is recorded but a rejection, and no end is closed too early.
  /\ oAt \in 0..12 /\ cAt \in 0..24 /\ kAt \in 0..10 /\ pc["K"] \notin {"fallback", "expired"}
  /\ lost = {} /\ torn = {} /\ unk = {} /\ ~stop
  /\ fail["C"] = "none" /\ fail["K"] = "none"
  /\ fail["O"] # "none" => oAt >= 6 /\ final.outcome = "rejected"
  /\ "co" \notin shut /\ "kc" \notin shut
  /\ "oc" \in shut => <<"co", "QUIESCING">> \in got
  /\ "ck" \in shut => cAt >= 18
  /\ "oc" \in deaf => cAt >= 23
  /\ "co" \in deaf => oAt >= 10
  /\ "ck" \in deaf => kAt >= 9
  /\ "kc" \in deaf => cAt >= 18
  \* Each frame is written at its stage.
  /\ <<"oc", "CANCEL">> \notin tried /\ <<"ck", "CANCEL">> \notin tried
  /\ <<"oc", "CONFIG">> \in tried <=> oAt >= 2
  /\ <<"oc", "ADMIT">> \in tried <=> oAt >= 3
  /\ <<"oc", "RUN">> \in tried <=> oAt >= 4
  /\ <<"co", "HELLO">> \in tried <=> cAt >= 1
  /\ <<"co", "RESERVED">> \in tried <=> cAt >= 6
  /\ <<"co", "READY">> \in tried => cAt >= 8 /\ <<"kc", "MOVED">> \in got
  /\ cAt >= 9 => <<"co", "READY">> \in tried
  /\ <<"co", "STATUS">> \in tried <=> cAt >= 10
  /\ <<"co", "QUIESCING">> \in tried <=> cAt >= 22
  /\ <<"co", "FINAL">> \in tried <=> cAt >= 24
  /\ <<"ck", "CONFIG">> \in tried <=> cAt >= 4
  /\ <<"ck", "RUN">> \in tried <=> cAt >= 8
  /\ <<"ck", "GROUP_RETIRED">> \in tried <=> cAt >= 15
  /\ <<"ck", "RELEASE">> \in tried <=> cAt >= 16
  /\ <<"kc", "HELLO">> \in tried <=> kAt >= 1
  /\ <<"kc", "MOVED">> \in tried <=> kAt >= 4
  /\ <<"kc", "STATUS">> \in tried <=> kAt >= 5
  /\ <<"kc", "RELEASED">> \in tried <=> kAt >= 10
  \* An owner goes on when it has read what it waits for.
  /\ oAt >= 3 => <<"co", "HELLO">> \in got
  /\ oAt >= 4 => <<"co", "RESERVED">> \in got
  /\ oAt >= 5 <=> <<"co", "FINAL">> \in got
  /\ oAt >= 10 => <<"co", "EOF">> \in got
  /\ <<"co", "FINAL">> \in got => <<"co", "QUIESCING">> \in got
  /\ <<"oc", "ADMIT">> \in got <=> cAt >= 2
  /\ <<"oc", "RUN">> \in got <=> cAt >= 7
  /\ <<"oc", "COMMIT">> \in got <=> cAt >= 21 /\ payload = "full"
  /\ <<"kc", "HELLO">> \in got <=> cAt >= 5
  /\ <<"kc", "STATUS">> \in got <=> cAt >= 9
  /\ <<"oc", "EOF">> \in got => "oc" \in shut
  /\ <<"kc", "EOF">> \in got => <<"kc", "RELEASED">> \in got
  /\ cAt >= 18 => <<"kc", "EOF">> \in got
  /\ <<"ck", "RUN">> \in got <=> kAt >= 2
  /\ <<"ck", "RELEASE">> \in got => groupK = "absent"
  /\ kAt >= 7 => <<"ck", "RELEASE">> \in got
  /\ groupK = IF <<"ck", "GROUP_RETIRED">> \in got THEN "absent" ELSE "open"
  /\ <<"ck", "EOF">> \notin got
  \* Every process ends by itself, in its turn, and its parent reaps it.
  /\ proc["O"] = "alive"
  /\ has["O"] \in {"none", "native", "made"} /\ (has["O"] = "made" => proc["C"] # "none")
  /\ has["C"] \in {"none", "native", "made"} /\ (has["C"] = "made" => proc["K"] # "none")
  /\ has["K"] \in {"none", "native", "made"} /\ (has["K"] = "made" => proc["V"] # "none")
  /\ oAt >= 1 => has["O"] = "made"
  /\ cAt >= 3 => has["C"] = "made"
  /\ kAt >= 3 => has["K"] = "made"
  /\ proc["C"] \in {"zombie", "gone"} => cAt = 24 /\ status["C"] = "ok"
  /\ proc["K"] \in {"zombie", "gone"} => kAt = 10 /\ status["K"] = "ok"
  /\ proc["V"] \in {"zombie", "gone"} => ~kid /\ status["V"] \in {"ok", "bad"}
  /\ oAt >= 9 => rcpt["C"] = "ok"
  /\ cAt >= 17 => rcpt["K"] = "ok"
  /\ rcpt["V"] # "none" => proc["V"] = "gone"
  /\ kAt >= 5 => rcpt["V"] # "none"
  /\ grp = "moved" <=> kAt >= 4
  /\ groupC = IF cAt < 5 THEN "none" ELSE IF cAt < 14 THEN "open" ELSE "absent"
  \* What the records say of it.
  /\ kAt >= 9 => record = "reaped"
  /\ paid <=> cAt >= 20
  /\ cAt >= 20 /\ status["V"] = "ok" => payload = "full"
  /\ cAt \in {19, 20} => status["V"] = "ok"
  /\ cAt >= 23 => stilled /\ "oc" \in shut
  /\ cAt >= 24 => /\ final.cleanup = "confirmed" /\ final.keeper = "reaped"
                  /\ final.validator = "reaped" /\ final.group = "absent"
                  /\ final.outcome = IF status["V"] = "ok" THEN "ok" ELSE "rejected"
  /\ oAt = 5 => final.outcome = "ok"
  /\ oAt >= 11 => verdict.state = "FINALIZED" /\ verdict.dispatch = "ARMED"
  /\ oAt = 12 => verdict.result = (IF status["V"] = "ok" THEN "accepted" ELSE "refused")

\* A frame that was written is on its way or read, and never both.
Borne ==
  \A e \in Edges, t \in Frames :
     /\ <<e, t>> \in tried => t \in chan[e] \/ <<e, t>> \in got
     /\ t \in chan[e] => <<e, t>> \notin got

\* Nothing has happened to the capture but its own steps.
Quiet == events = 0 /\ passed = {}
QuietInv == events \in Nat /\ (Quiet => Course /\ Borne)

LEMMA OTurns ==
  /\ OTurn["spawn"] = 0 /\ OTurn["config"] = 1 /\ OTurn["hello"] = 2 /\ OTurn["reserved"] = 3
  /\ OTurn["final"] = 4 /\ OTurn["drain"] = 5 /\ OTurn["cancel"] = 6 /\ OTurn["settle"] = 7
  /\ OTurn["wait"] = 8 /\ OTurn["eof"] = 9 /\ OTurn["publish"] = 10 /\ OTurn["accept"] = 11
  /\ OTurn["done"] = 12
  BY DEF OTurn

LEMMA CTurns ==
  /\ CTurn["boot"] = 0 /\ CTurn["config"] = 1 /\ CTurn["spawn"] = 2 /\ CTurn["configure"] = 3
  /\ CTurn["hello"] = 4 /\ CTurn["reserve"] = 5 /\ CTurn["run"] = 6 /\ CTurn["grant"] = 7
  /\ CTurn["status"] = 8 /\ CTurn["forward"] = 9 /\ CTurn["settle"] = 10 /\ CTurn["cancel"] = 11
  /\ CTurn["name"] = 12 /\ CTurn["group"] = 13 /\ CTurn["release"] = 14 /\ CTurn["released"] = 15
  /\ CTurn["reap"] = 16 /\ CTurn["keof"] = 17 /\ CTurn["payload0"] = 18 /\ CTurn["payload"] = 19
  /\ CTurn["commit"] = 20 /\ CTurn["quiesce"] = 21 /\ CTurn["quiet"] = 22 /\ CTurn["report"] = 23
  /\ CTurn["exit"] = 24
  BY DEF CTurn

LEMMA KTurns ==
  /\ KTurn["boot"] = 0 /\ KTurn["config"] = 1 /\ KTurn["spawn"] = 2 /\ KTurn["move"] = 3
  /\ KTurn["wait"] = 4 /\ KTurn["settle"] = 5 /\ KTurn["hold"] = 6 /\ KTurn["lastwait"] = 7
  /\ KTurn["close"] = 8 /\ KTurn["report"] = 9 /\ KTurn["exit"] = 10
  BY DEF KTurn

\* In a quiet run nobody is late or in trouble, and every write succeeds.
Fits(e, t) == Puts(e, t) /\ UNCHANGED <<fail, unk, deaf>>
Sound ==
  /\ ~Event /\ ~Over("O") /\ ~Over("C") /\ ~Over("K") /\ ~Late("O") /\ ~Late("C") /\ ~Late("K")
  /\ ~ParentLost("C") /\ ~Troubled("C") /\ (fail["O"] = "none" => ~Troubled("O"))
  /\ Alive("K") => ~ParentLost("K") /\ ~Troubled("K")
Writable ==
  /\ "oc" \notin shut => \A t : Writes("oc", t) => Fits("oc", t)
  /\ "oc" \notin shut /\ fail["O"] = "none" => \A t : Grants("oc", t) => Fits("oc", t)
  /\ cAt < 24 => \A t : Writes("co", t) \/ Grants("co", t) => Fits("co", t)
  /\ cAt < 24 => ~Loses("co", "FINAL")
  /\ cAt < 16 => \A t : Writes("ck", t) \/ Grants("ck", t) => Fits("ck", t)
  /\ Alive("K") => \A t : Writes("kc", t) \/ Grants("kc", t) => Fits("kc", t)
LEMMA Well ==
  ASSUME CaptureInv, Course, Quiet, events' = 0
  PROVE  Sound /\ Writable
<1>0. Shapes /\ Carried /\ Kinship
  BY DEF CaptureInv
<1>1. ~Event /\ \A p : ~Over(p) /\ ~Late(p)
  BY DEF Event, Over, Late, Quiet, Time
<1>2. proc["K"] = "alive" => cAt < 17
  BY <1>0 DEF Course, Kinship
<1>3. Sound
  <2>1. proc["K"] = "alive" => proc["C"] = "alive"
    BY <1>0, <1>2, Members DEF Course, Kinship, Barren, Shapes, Lives
  <2> QED BY <1>1, <2>1, Maps DEF Sound, Course, Quiet, ParentLost, Troubled, Time, Alive
<1>4. "oc" \notin shut => ~Deaf("oc")
  BY Maps DEF Deaf, Dead, Course
<1>5. /\ cAt < 24 => ~Deaf("co")
      /\ cAt < 16 => ~Deaf("ck")
      /\ Alive("K") => ~Deaf("kc")
  BY <1>0, <1>2, Maps DEF Deaf, Dead, Course, Alive, Carried, Frames, Edges
<1>6. ASSUME NEW e \in Edges, NEW t, e \notin shut, ~Deaf(e), ~Troubled(Writer[e]),
             Writes(e, t) \/ Grants(e, t)
      PROVE  Fits(e, t)
  BY <1>1, <1>6 DEF Writes, Grants, Loses, Fits
<1>7. ASSUME NEW t, "oc" \notin shut, Writes("oc", t)
      PROVE  Fits("oc", t)
  BY <1>1, <1>4, <1>7 DEF Writes, Loses, Fits
<1>8. "co" \notin shut /\ "kc" \notin shut /\ (cAt < 16 => "ck" \notin shut)
  BY DEF Course
<1>9. cAt < 24 => ~Loses("co", "FINAL")
  BY <1>1, <1>5 DEF Loses
<1>10. "oc" \notin shut /\ fail["O"] = "none" => \A t : Grants("oc", t) => Fits("oc", t)
  BY <1>3, <1>4, <1>6, Members, Maps DEF Sound
<1>11. cAt < 24 => \A t : Writes("co", t) \/ Grants("co", t) => Fits("co", t)
  BY <1>3, <1>5, <1>6, <1>8, Members, Maps DEF Sound
<1>12. cAt < 16 => \A t : Writes("ck", t) \/ Grants("ck", t) => Fits("ck", t)
  BY <1>3, <1>5, <1>6, <1>8, Members, Maps DEF Sound
<1>13. Alive("K") => \A t : Writes("kc", t) \/ Grants("kc", t) => Fits("kc", t)
  BY <1>3, <1>5, <1>6, <1>8, Members, Maps DEF Sound
<1> QED BY <1>3, <1>7, <1>9, <1>10, <1>11, <1>12, <1>13 DEF Writable

\* How far the three can be apart.
Pace ==
  /\ (cAt >= 2 => oAt >= 3) /\ (cAt >= 7 => oAt >= 4) /\ (oAt >= 3 => cAt >= 1)
  /\ (oAt >= 4 => cAt >= 6) /\ (oAt >= 5 => cAt = 24)
  /\ (cAt >= 5 => kAt >= 1) /\ (cAt >= 9 => kAt >= 5) /\ (kAt >= 2 => cAt >= 8)
  /\ (kAt >= 7 => cAt >= 16) /\ (cAt >= 18 => kAt = 10)
  /\ (<<"kc", "RELEASED">> \in got => kAt = 10)
  /\ (<<"oc", "COMMIT">> \in got => <<"oc", "COMMIT">> \in tried)
  /\ "oc" \in shut \/ <<"co", "QUIESCING">> \in got => cAt >= 22

LEMMA Paces ==
  ASSUME Shapes, Kinship, Carried, Course
  PROVE  Pace
<1>1. \A x \in {<<"oc", "COMMIT">>, <<"oc", "ADMIT">>, <<"oc", "RUN">>, <<"co", "HELLO">>, <<"co", "RESERVED">>,
                <<"co", "QUIESCING">>, <<"co", "FINAL">>, <<"kc", "HELLO">>, <<"kc", "STATUS">>,
                <<"kc", "RELEASED">>, <<"ck", "RUN">>, <<"ck", "RELEASE">>} : x \in got => x \in tried
  BY Members DEF Carried, Frames
<1> QED BY <1>1 DEF Course, Pace

LEMMA Ranks ==
  /\ Rank["HELLO"] = 1 /\ Rank["RESERVED"] = 2 /\ Rank["MOVED"] = 3 /\ Rank["READY"] = 3
  /\ Rank["CONFIG"] = 1 /\ Rank["STATUS"] = 4 /\ Rank["QUIESCING"] = 8 /\ Rank["FINAL"] = 9
  /\ Rank["ADMIT"] = 2 /\ Rank["RUN"] = 3 /\ Rank["COMMIT"] = 4
  /\ Rank["GROUP_RETIRED"] = 6 /\ Rank["RELEASE"] = 7
  /\ \A t \in Frames : Rank[t] \in Nat
  BY DEF Rank, Frames

\* A frame that could not be read earlier has none before it left.
LEMMA InOrder ==
  ASSUME Borne, NEW e \in Edges, NEW t \in Frames, \A u \in chan[e] : Rank[t] <= Rank[u]
  PROVE  \A u \in Frames : Rank[u] < Rank[t] /\ <<e, u>> \in tried => <<e, u>> \in got
  BY Ranks DEF Borne

LEMMA Hearers ==
  /\ HearsParent["C"] = {"config", "spawn", "hello", "run", "status", "settle", "name", "group", "release",
                          "released", "reap", "keof", "commit", "quiet"}
  /\ HearsParent["K"] = {"config", "spawn", "wait", "settle", "hold", "fallback", "expired", "lastwait"}
  /\ HearsChild["O"] = {"hello", "reserved", "final", "drain", "cancel", "settle", "wait", "eof"}
  /\ HearsChild["C"] = {"hello", "run", "status", "name", "group", "release", "released", "reap", "keof"}
  BY DEF HearsParent, HearsChild

\* The three things that can happen to the pipes in a step.
LEMMA Wrote ==
  ASSUME Shapes, Carried, Borne, NEW e \in Edges, NEW t \in Frames, Fits(e, t), <<e, t>> \notin tried, got' = got
  PROVE  Borne'
  BY DEF Fits, Puts, Shapes, Carried, Borne

LEMMA Took ==
  ASSUME Shapes, Borne, NEW e \in Edges, NEW t \in Frames, t \in chan[e], tried' = tried,
         chan' = [chan EXCEPT ![e] = @ \ {t}], got' = got \cup {<<e, t>>}
  PROVE  Borne'
  BY DEF Shapes, Borne

LEMMA Idled ==
  ASSUME Borne, chan' = chan, tried' = tried, got' = got \/ \E e \in Edges : got' = got \cup {<<e, "EOF">>}
  PROVE  Borne'
<1>1. \A e \in Edges : \A t \in Frames : <<e, t>> \in got' <=> <<e, t>> \in got
  BY DEF Frames
<1> QED BY <1>1 DEF Borne

LEMMA Turned ==
  ASSUME NEW t \in {"HELLO", "RESERVED", "READY", "STATUS", "QUIESCING"}, <<"co", t>> \notin got,
         t = "RESERVED" => <<"co", "HELLO">> \in got /\ <<"oc", "ADMIT">> \in tried \ lost,
         t = "READY" => <<"co", "RESERVED">> \in got /\ <<"oc", "RUN">> \in tried \ lost,
         t = "STATUS" => <<"co", "READY">> \in got
  PROVE  InTurn(t)
  BY DEF InTurn, Retiring, Heard, Sent

LEMMA CourseOuter ==
  ASSUME Shapes, Carried, Borne, Pace, Payments, Sound, Writable, Course, OuterStep
  PROVE  Course' /\ Borne'
<1> USE OTurns, Members DEF At, Goes, oAt, cAt, kAt, world, wires, facts, outer
<1>0. ASSUME ODrains \/ OSettles \/ OReaps \/ OCloses \/ OPublishes \/ OAccepts
      PROVE  Borne'
  BY <1>0, Idled DEF ODrains, OSettles, OReaps, OCloses, OPublishes, OAccepts
<1>1. CASE OConfigures
  <2>1. Fits("oc", "CONFIG") /\ <<"oc", "CONFIG">> \notin tried
    BY <1>1 DEF OConfigures, Pace, Writable, Course
  <2>2. Borne'
    BY <1>1, <2>1, Wrote DEF OConfigures, Frames
  <2> QED BY <1>1, <2>1, <2>2 DEF OConfigures, Fits, Puts, Course, Shapes
<1>2. CASE OGrants("ADMIT", "HELLO", "hello", "reserved")
  <2>1. Fits("oc", "ADMIT") /\ <<"oc", "ADMIT">> \notin tried
    BY <1>2 DEF OGrants, Pace, Writable, Course
  <2>2. Borne'
    BY <1>2, <2>1, Wrote DEF OGrants, Frames
  <2> QED BY <1>2, <2>1, <2>2 DEF OGrants, Fits, Puts, Heard, Course, Shapes
<1>3. CASE OGrants("RUN", "RESERVED", "reserved", "final")
  <2>1. Fits("oc", "RUN") /\ <<"oc", "RUN">> \notin tried
    BY <1>3 DEF OGrants, Pace, Writable, Course
  <2>2. Borne'
    BY <1>3, <2>1, Wrote DEF OGrants, Frames
  <2> QED BY <1>3, <2>1, <2>2 DEF OGrants, Fits, Puts, Heard, Course, Shapes
<1>4. ASSUME NEW t \in {"HELLO", "RESERVED", "READY", "STATUS", "QUIESCING"}, OHears(t)
      PROVE  Course' /\ Borne'
  <2>0. t \in chan["co"] /\ (\A u \in chan["co"] : Rank[t] <= Rank[u]) /\ t \in Frames
    BY <1>4, Maps DEF OHears, Reads, Next1, Frames
  <2>1. <<"co", t>> \in tried /\ <<"co", t>> \notin got
    BY <2>0 DEF Carried, Borne
  <2>2. InTurn(t)
    <3>1. \A u \in Frames : Rank[u] < Rank[t] /\ <<"co", u>> \in tried => <<"co", u>> \in got
      BY <2>0, InOrder
    <3>2. /\ t # "HELLO" => Rank["HELLO"] < Rank[t]
          /\ t \notin {"HELLO", "RESERVED"} => Rank["RESERVED"] < Rank[t]
          /\ t = "STATUS" => Rank["READY"] < Rank[t]
      BY Ranks
    <3>3. /\ t # "HELLO" /\ <<"co", "HELLO">> \in tried => <<"co", "HELLO">> \in got
          /\ t = "READY" /\ <<"co", "RESERVED">> \in tried => <<"co", "RESERVED">> \in got
          /\ t = "STATUS" /\ <<"co", "READY">> \in tried => <<"co", "READY">> \in got
      BY <3>1, <3>2 DEF Frames
    <3>4. /\ t = "RESERVED" => cAt >= 6
          /\ t = "READY" => cAt >= 8
          /\ t = "STATUS" => cAt >= 10
      BY <2>1 DEF Pace, Course
    <3>5. /\ t = "RESERVED" => <<"co", "HELLO">> \in got /\ <<"oc", "ADMIT">> \in tried \ lost
          /\ t = "READY" => <<"co", "RESERVED">> \in got /\ <<"oc", "RUN">> \in tried \ lost
          /\ t = "STATUS" => <<"co", "READY">> \in got
      BY <3>3, <3>4 DEF Pace, Course
    <3> QED BY <2>1, <3>5, Turned
  <2>3. Borne'
    BY <1>4, <2>0, <2>2, Took, Maps DEF OHears, Reads
  <2> QED BY <1>4, <2>1, <2>2, <2>3 DEF OHears, Course, Shapes
<1>5. CASE OHearsFinal
  <2>0. "FINAL" \in chan["co"] /\ \A u \in chan["co"] : Rank["FINAL"] <= Rank[u]
    BY <1>5, Maps DEF OHearsFinal, Reads, Next1
  <2>1. <<"co", "FINAL">> \in tried /\ <<"co", "FINAL">> \notin got
    BY <2>0 DEF Carried, Borne, Frames
  <2>2. \A u \in {"STATUS", "QUIESCING"} : <<"co", u>> \in tried => <<"co", u>> \in got
    <3>1. \A u \in Frames : Rank[u] < Rank["FINAL"] /\ <<"co", u>> \in tried => <<"co", u>> \in got
      BY <2>0, InOrder DEF Frames
    <3> QED BY <3>1, Ranks DEF Frames
  <2>3. FinalFits
    BY <2>1, <2>2, Maps DEF FinalFits, Heard, Retiring, Sent, PayloadEnds, Pace, Course
  <2>4. /\ pc["O"] # "hello" /\ pc["O"] # "reserved" /\ oAt <= 4 /\ oAt >= 4 /\ cAt = 24
        /\ fail["O"] = "none"
    BY <2>1, <2>2 DEF Pace, Course
  <2>5. /\ pc["O"] = "final" /\ got' = got \cup {<<"co", "FINAL">>} /\ unk' = unk
        /\ \/ final.outcome = "ok" /\ fail' = fail /\ pc' = [pc EXCEPT !["O"] = "drain"]
           \/ final.outcome = "rejected" /\ Checked("O") /\ pc' = [pc EXCEPT !["O"] = "cancel"]
    BY <1>5, <2>3, <2>4, Maps, Hearers DEF OHearsFinal, Reads, Course
  <2>6. fail'["C"] = fail["C"] /\ fail'["K"] = fail["K"] /\ (fail'["O"] # "none" => final.outcome = "rejected")
    BY <2>4, <2>5 DEF Checked, Fails
  <2>7. Borne'
    BY <1>5, <2>0, <2>5, Took, Maps DEF OHearsFinal, Reads, Frames
  <2> QED BY <1>5, <2>1, <2>2, <2>4, <2>5, <2>6, <2>7 DEF OHearsFinal, Course, Shapes
<1>6. CASE OCommits
  <2>1. Fits("oc", "COMMIT") /\ <<"oc", "COMMIT">> \notin tried /\ payload = "full"
    BY <1>6, Maps DEF OCommits, Pace, Writable, PayloadEnds, Dead, Retiring, Heard, Course
  <2>2. Borne'
    BY <1>6, <2>1, Wrote DEF OCommits, Frames
  <2> QED BY <1>6, <2>1, <2>2 DEF OCommits, Fits, Puts, Course, Shapes
<1>7. CASE ODrains
  BY <1>7, <1>0 DEF ODrains, Ended, Course, Shapes
<1>8. CASE ORetires
  <2>1. ~Cancels
    BY <1>8 DEF ORetires, Cancels, Pace, Course
  <2>2. Borne'
    BY <1>8, <2>1, Idled DEF ORetires, ClosesControl
  <2> QED BY <1>8, <2>1, <2>2 DEF ORetires, ClosesControl, Retiring, Heard, Course, Shapes
<1>9. CASE OCancels
  <2>1. "oc" \in shut
    BY <1>9 DEF OCancels, Pace, Course
  <2>2. Borne'
    BY <1>9, <2>1, Idled DEF OCancels
  <2> QED BY <1>9, <2>1, <2>2 DEF OCancels, Course, Shapes
<1>10. CASE OSettles
  BY <1>10, <1>0 DEF OSettles, SettleUnk, Course, Shapes
<1>11. CASE OReaps
  BY <1>11, Maps, <1>0 DEF OReaps, Reap, Sound, Course, Shapes
<1>12. CASE OCloses
  BY <1>12, <1>0 DEF OCloses, Ended, Sound, Course, Shapes
<1>13. CASE OPublishes
  <2>1. Finality = "FINALIZED"
    BY <1>13, Maps DEF OPublishes, Finality, ProducersConfirmed, NoProducers, Account, Heard, Ended, PayloadEnds, Pace, Course
  <2> QED BY <1>13, <2>1, <1>0 DEF OPublishes, Pace, Course, Shapes
<1>14. CASE OAccepts
  <2>1. verdict'.state = verdict.state /\ verdict'.dispatch = verdict.dispatch
    BY <1>14 DEF OAccepts, Verdicts, Course
  <2>2. verdict'.result = (IF status["V"] = "ok" THEN "accepted" ELSE "refused")
    BY <1>14 DEF OAccepts, Verdicts, Heard, Pace, Sound, Course
  <2> QED BY <1>14, <2>1, <2>2, <1>0 DEF OAccepts, Course, Shapes
<1> QED
  BY <1>1, <1>2, <1>3, <1>4, <1>5, <1>6, <1>7, <1>8, <1>9, <1>10, <1>11, <1>12, <1>13, <1>14 DEF OuterStep

LEMMA CourseCustodian ==
  ASSUME Shapes, Carried, Borne, Pace, Kinship, Payments, Reserved, Sound, Writable, Course, CustodianStep
  PROVE  Course' /\ Borne'
<1> USE CTurns, Members DEF At, Goes, oAt, cAt, kAt, world, wires, facts, outer
<1>0. ASSUME CSettles \/ CNames \/ CReaps \/ CDrains \/ CWritesPayload \/ CSeesQuiet \/ CKillsGroup \/ CSeesGroup \/ CExits
      PROVE  Borne'
  BY <1>0, Idled DEF CSettles, CNames, CReaps, CDrains, CWritesPayload, CSeesQuiet, CKillsGroup, CSeesGroup, CExits, minds
<1>1. CASE Boot("C")
  <2>1. Fits("co", "HELLO") /\ <<"co", "HELLO">> \notin tried
    BY <1>1, Maps DEF Boot, Writable, Course
  <2>2. Borne'
    BY <1>1, <2>1, Wrote DEF Boot, Frames
  <2> QED BY <1>1, <2>1, <2>2 DEF Boot, Fits, Puts, Course, Shapes
<1>2. CASE TakesConfig("C")
  <2>1. Borne'
    BY <1>2, Took, Maps DEF TakesConfig, Accepts, Takes, Next1, Frames
  <2> QED BY <1>2, Maps, <2>1 DEF TakesConfig, Accepts, Takes, Course, Shapes
<1>3. CASE TakesCancel("C")
  <2>1. "CANCEL" \in chan["oc"]
    BY <1>3, Maps DEF TakesCancel, Accepts, Takes, Next1
  <2> QED BY <2>1 DEF Carried, Course
<1>4. ASSUME NEW t \in {"ADMIT", "RUN", "COMMIT"}, TakesGrant("C", t)
      PROVE  Course' /\ Borne'
  <2>1. t \in chan["oc"] /\ got' = got \cup {<<"oc", t>>} /\ UNCHANGED <<torn, shut, deaf, tried, lost>>
        /\ chan' = [chan EXCEPT !["oc"] = @ \ {t}] /\ t \in Frames
    BY <1>4, Maps DEF TakesGrant, Accepts, Takes, Next1, Frames
  <2>2. \/ pc["C"] = "config" /\ t = "ADMIT" /\ pc' = [pc EXCEPT !["C"] = "spawn"]
        \/ pc["C"] = "run" /\ t = "RUN" /\ pc' = [pc EXCEPT !["C"] = "grant"]
        \/ pc["C"] = "commit" /\ t = "COMMIT" /\ pc' = [pc EXCEPT !["C"] = "quiesce"]
    <3>1. Welcome("C", t) /\ pc' = [pc EXCEPT !["C"] = Granted["oc"][pc["C"]]]
      BY <1>4, Maps DEF TakesGrant
    <3> QED BY <3>1, Welcomes
  <2>3. t = "COMMIT" => payload = "full"
    BY <2>1 DEF Carried, Payments
  <2>4. UNCHANGED <<world, has, rcpt, fail, unk, facts, outer>>
    BY <1>4 DEF TakesGrant
  <2>a. Borne'
    BY <2>1, Took
  <2>5. CASE t = "ADMIT"
    BY <2>1, <2>2, <2>4, <2>5, <2>a DEF Course, Shapes
  <2>6. CASE t = "RUN"
    BY <2>1, <2>2, <2>4, <2>6, <2>a DEF Course, Shapes
  <2>7. CASE t = "COMMIT"
    BY <2>1, <2>2, <2>3, <2>4, <2>7, <2>a DEF Course, Shapes
  <2> QED BY <2>5, <2>6, <2>7
<1>5. ASSUME NEW t \in {"ADMIT", "RUN", "COMMIT"}, RefusesGrant("C", t)
      PROVE  Course' /\ Borne'
  <2>1. t \in chan["oc"] /\ (\A u \in chan["oc"] : Rank[t] <= Rank[u]) /\ t \in Frames
        /\ pc["C"] \in HearsParent["C"]
    BY <1>5, Maps DEF RefusesGrant, Takes, Next1, Frames
  <2>2. <<"oc", t>> \in tried /\ <<"oc", t>> \notin got
    BY <2>1 DEF Carried, Borne
  <2>3. <<"oc", "CONFIG">> \in got
    <3>1. Rank["CONFIG"] < Rank[t] /\ "CONFIG" \in Frames /\ <<"oc", "CONFIG">> \in tried
      BY <2>1, <2>2, Ranks DEF Frames, Course, Payments, Pace
    <3> QED BY <2>1, <3>1, InOrder
  <2>4. /\ t = "ADMIT" => pc["C"] = "config"
        /\ t = "RUN" => pc["C"] = "run"
    BY <2>1, <2>2, Hearers DEF Course, Pace
  <2>5. t = "COMMIT" => pc["C"] = "commit"
    BY <2>1, <2>2, Hearers DEF Course, Payments
  <2> QED BY <1>5, <2>3, <2>4, <2>5, Maps DEF RefusesGrant, Welcome, Grant, Heard, Sound
<1>6. CASE CConfigures
  <2>1. Fits("ck", "CONFIG") /\ <<"ck", "CONFIG">> \notin tried
    BY <1>6 DEF CConfigures, Writable, Course
  <2>2. Borne'
    BY <1>6, <2>1, Wrote DEF CConfigures, Frames
  <2> QED BY <1>6, <2>1, <2>2 DEF CConfigures, Fits, Puts, Course, Shapes
<1>7. CASE CHearsHello
  <2>1. "HELLO" \in chan["kc"] /\ pc["C"] \in HearsChild["C"]
    BY <1>7, Maps DEF CHearsHello, Reads, Next1
  <2>2. <<"kc", "HELLO">> \notin got
    BY <2>1 DEF Borne, Frames
  <2>3. cAt = 4 /\ pc["C"] = "hello" /\ grp # "moved"
    BY <2>1, <2>2, Hearers DEF Course, Pace
  <2>4. Borne'
    BY <1>7, <2>1, <2>3, Took, Maps DEF CHearsHello, RoutesRetired, Reads, Frames
  <2> QED BY <1>7, <2>3, <2>4 DEF CHearsHello, RoutesRetired, Course, Shapes
<1>8. CASE CReserves
  <2>1. Fits("co", "RESERVED") /\ <<"co", "RESERVED">> \notin tried
    BY <1>8 DEF CReserves, Writable, Course
  <2>2. Borne'
    BY <1>8, <2>1, Wrote DEF CReserves, Frames
  <2> QED BY <1>8, <2>1, <2>2 DEF CReserves, Fits, Puts, Course, Shapes
<1>9. CASE CGrants
  <2>1. Fits("ck", "RUN") /\ <<"ck", "RUN">> \notin tried
    BY <1>9 DEF CGrants, Writable, Course
  <2>2. Borne'
    BY <1>9, <2>1, Wrote DEF CGrants, Frames
  <2> QED BY <1>9, <2>1, <2>2 DEF CGrants, Fits, Puts, Course, Shapes
<1>10. CASE CHearsMoved
  <2>1. "MOVED" \in chan["kc"] /\ pc["C"] \in HearsChild["C"]
    BY <1>10, Maps DEF CHearsMoved, Reads, Next1
  <2>2. <<"kc", "MOVED">> \in tried /\ <<"kc", "MOVED">> \notin got
    BY <2>1 DEF Carried, Borne, Frames
  <2>3. MovedFits
    BY <2>1, <2>2, Hearers DEF MovedFits, Sent, RoutesRetired, Course, Pace
  <2>4. Borne'
    BY <1>10, <2>1, <2>3, Took, Maps DEF CHearsMoved, Reads, Frames
  <2> QED BY <1>10, <2>3, <2>4 DEF CHearsMoved, Course, Shapes
<1>11. CASE CSaysReady
  <2>1. Fits("co", "READY") /\ <<"co", "READY">> \notin tried
    BY <1>11 DEF CSaysReady, Writable, Course
  <2>2. Borne'
    BY <1>11, <2>1, Wrote DEF CSaysReady, Frames
  <2> QED BY <1>11, <2>1, <2>2 DEF CSaysReady, Fits, Puts, Heard, Course, Shapes
<1>12. CASE CHearsStatus
  <2>1. Borne'
    BY <1>12, Took, Maps DEF CHearsStatus, Reads, Next1, Frames
  <2> QED BY <1>12, <2>1 DEF CHearsStatus, Course, Shapes
<1>13. CASE CForwards
  <2>1. Fits("co", "STATUS") /\ <<"co", "STATUS">> \notin tried
    BY <1>13 DEF CForwards, Writable, Course
  <2>2. Borne'
    BY <1>13, <2>1, Wrote DEF CForwards, Frames
  <2> QED BY <1>13, <2>1, <2>2 DEF CForwards, Fits, Puts, Course, Shapes
<1>14. CASE CNotesStatus
  <2>1. "STATUS" \in chan["kc"] /\ pc["C"] \in HearsChild["C"] /\ pc["C"] # "status"
    BY <1>14, Maps DEF CNotesStatus, Reads, Next1
  <2>2. <<"kc", "STATUS">> \in tried /\ <<"kc", "STATUS">> \notin got
    BY <2>1 DEF Carried, Borne, Frames
  <2> QED BY <2>1, <2>2, Hearers DEF Course, Pace
<1>15. CASE CHearsReleased
  <2>1. "RELEASED" \in chan["kc"]
    BY <1>15, Maps DEF CHearsReleased, Reads, Next1
  <2>2. <<"kc", "RELEASED">> \in tried
    BY <2>1 DEF Carried, Frames
  <2>3. RecordFits /\ Sent("ck", "RELEASE")
    BY <2>2 DEF RecordFits, Sent, Heard, Course, Pace
  <2>4. Borne'
    BY <1>15, <2>1, <2>3, Took, Maps DEF CHearsReleased, Reads, Frames
  <2> QED BY <1>15, <2>3, <2>4 DEF CHearsReleased, Course, Shapes
<1>16. CASE CSettles
  BY <1>16, <1>0 DEF CSettles, SettleUnk, Course, Shapes
<1>17. CASE CCancels
  <2>1. Borne'
    BY <1>17, Idled DEF CCancels, Course
  <2> QED BY <1>17, <2>1 DEF CCancels, Course, Shapes
<1>18. CASE CNames
  BY <1>18, <1>0 DEF CNames, Course, Shapes
<1>19. CASE CKillsGroup \/ CSeesGroup
  <2>1. GroupEmpty
    BY <1>19 DEF CKillsGroup, CSeesGroup, GroupEmpty, Course, Pace
  <2> QED BY <1>19, <2>1, <1>0 DEF CKillsGroup, CSeesGroup, Sound, Course, Shapes
<1>20. CASE CRetiresGroup
  <2>1. Fits("ck", "GROUP_RETIRED") /\ <<"ck", "GROUP_RETIRED">> \notin tried
    BY <1>20 DEF CRetiresGroup, CReleases, Writable, Heard, Course, Pace
  <2>2. Borne'
    BY <1>20, <2>1, Wrote DEF CRetiresGroup, CReleases, Frames
  <2> QED BY <1>20, <2>1, <2>2 DEF CRetiresGroup, CReleases, Fits, Puts, Course, Shapes
<1>21. CASE CReleasesKeeper
  <2>1. Fits("ck", "RELEASE") /\ <<"ck", "RELEASE">> \notin tried
    BY <1>21 DEF CReleasesKeeper, CReleases, Writable, Heard, Course, Pace
  <2>2. Borne'
    BY <1>21, <2>1, Wrote DEF CReleasesKeeper, CReleases, Frames
  <2> QED BY <1>21, <2>1, <2>2 DEF CReleasesKeeper, CReleases, Fits, Puts, Course, Shapes
<1>22. CASE CReaps
  BY <1>22, Maps, <1>0 DEF CReaps, Reap, Sound, Course, Shapes
<1>23. CASE CDrains
  BY <1>23, <1>0 DEF CDrains, Ended, Heard, Sound, Course, Shapes
<1>24. CASE CPays
  <2>0. Borne'
    BY <1>24, Idled DEF CPays
  <2>1. Successful <=> status["V"] = "ok"
    BY <1>24 DEF CPays, Successful, KeeperSettled, Heard, Ended, Sent, Course
  <2> QED
    <3>1. pc["C"] = "payload0" /\ payload = "none" /\ UNCHANGED <<world, wires, has, got, rcpt, fail, unk>>
          /\ UNCHANGED <<groupC, groupK, payload, stilled, record, final, verdict, outer>>
      BY <1>24 DEF CPays, Payments
    <3>2. CASE Successful
      <4>1. ~paid' /\ pc' = [pc EXCEPT !["C"] = "payload"]
        BY <1>24, <3>2 DEF CPays
      <4> QED BY <2>0, <2>1, <3>1, <3>2, <4>1 DEF Course, Shapes
    <3>3. CASE ~Successful
      <4>1. paid' /\ pc' = [pc EXCEPT !["C"] = "quiesce"]
        BY <1>24, <3>3 DEF CPays
      <4> QED BY <2>0, <2>1, <3>1, <3>3, <4>1 DEF Course, Shapes
    <3> QED BY <3>2, <3>3
<1>25. CASE CWritesPayload
  BY <1>25, <1>0 DEF CWritesPayload, Sound, Course, Shapes
<1>26. CASE CQuiesces
  <2>1. Fits("co", "QUIESCING") /\ <<"co", "QUIESCING">> \notin tried
    BY <1>26 DEF CQuiesces, Writable, Sound, Course
  <2>2. Borne'
    BY <1>26, <2>1, Wrote DEF CQuiesces, Frames
  <2> QED BY <1>26, <2>1, <2>2 DEF CQuiesces, Fits, Puts, Sound, Course, Shapes
<1>27. CASE CSeesQuiet
  BY <1>27, <1>0 DEF CSeesQuiet, Ended, Course, Shapes
<1>28. CASE CGivesUp
  BY <1>28 DEF CGivesUp, Sound, Sent, Course
<1>29. CASE CReports
  <2>1. Puts("co", "FINAL") /\ UNCHANGED <<fail, unk>>
    BY <1>29 DEF CReports, Writable, Sound, Course
  <2>2. cAt = 23 /\ kAt = 10 /\ rcpt["K"] = "ok" /\ has["C"] = "made" /\ <<"kc", "RELEASED">> \in got
    BY <1>29 DEF CReports, Course, Pace
  <2>3. KeeperState = "reaped"
    BY <2>2, Maps DEF KeeperState, Account
  <2>4. ValidatorState = "reaped" /\ GroupState = "absent"
    BY <2>2, <2>3 DEF ValidatorState, GroupState, Heard, Course
  <2>5. Confirmed
    BY <2>2, <2>3, <2>4 DEF Confirmed, KeeperSettled, Heard, Ended, Sent, Course
  <2>6. Outcome = IF status["V"] = "ok" THEN "ok" ELSE "rejected"
    <3>1. Successful <=> status["V"] = "ok"
      BY <2>2 DEF Successful, KeeperSettled, Heard, Ended, Sent, Course
    <3>2. status["V"] \in {"ok", "bad"} /\ (status["V"] = "ok" => <<"oc", "COMMIT">> \in got)
      BY <2>2 DEF Course
    <3> QED BY <2>2, <2>4, <2>5, <3>1, <3>2 DEF Outcome, Heard, Sound, Course
  <2>7. final' = [outcome |-> IF status["V"] = "ok" THEN "ok" ELSE "rejected", cleanup |-> "confirmed",
                  keeper |-> "reaped", validator |-> "reaped", group |-> "absent"]
    BY <1>29, <2>3, <2>4, <2>5, <2>6 DEF CReports
  <2>8. oAt < 5 /\ pc["C"] = "report" /\ pc' = [pc EXCEPT !["C"] = "exit"]
    BY <1>29, <2>2 DEF CReports, Course, Pace
  <2>9. Borne'
    <3>1. Fits("co", "FINAL") /\ <<"co", "FINAL">> \notin tried
      BY <1>29, <2>1, <2>2 DEF CReports, Fits, Course
    <3> QED BY <1>29, <3>1, Wrote DEF CReports, Frames
  <2> QED BY <1>29, <2>1, <2>7, <2>8, <2>9 DEF CReports, Puts, Course, Shapes
<1>30. CASE CExits
  <2>1. CCode = "ok"
    BY <1>30 DEF CExits, CCode, Sent, Sound, Course
  <2>2. proc' = Fall({"C"}) /\ status' = [p \in Roles |-> IF p \in {"C"} THEN "ok" ELSE status[p]]
    BY <1>30, <2>1 DEF CExits, Ends, Sound
  <2> QED BY <1>30, <2>2, Maps, <1>0 DEF CExits, minds, Fall, Alive, Course, Shapes
<1> QED
  BY <1>1, <1>2, <1>3, <1>4, <1>5, <1>6, <1>7, <1>8, <1>9, <1>10, <1>11, <1>12, <1>13, <1>14, <1>15, <1>16, <1>17,
     <1>18, <1>19, <1>20, <1>21, <1>22, <1>23, <1>24, <1>25, <1>26, <1>27, <1>28, <1>29, <1>30 DEF CustodianStep

LEMMA CourseKeeper ==
  ASSUME Shapes, Carried, Borne, Pace, Kinship, Sound, Writable, Course, KeeperStep
  PROVE  Course' /\ Borne'
<1> USE KTurns, Members DEF At, Goes, oAt, cAt, kAt, world, wires, facts, outer
<1>0. ASSUME KReaps \/ KSettles \/ KReleased \/ KLastWait \/ KCloses \/ KExits
      PROVE  Borne'
  BY <1>0, Idled DEF KReaps, KSettles, KReleased, KLastWait, KCloses, KExits, minds
<1>1. CASE Boot("K")
  <2>1. Fits("kc", "HELLO") /\ <<"kc", "HELLO">> \notin tried
    BY <1>1, Maps DEF Boot, Writable, Course
  <2>2. Borne'
    BY <1>1, <2>1, Wrote DEF Boot, Frames
  <2> QED BY <1>1, <2>1, <2>2 DEF Boot, Fits, Puts, Course, Shapes
<1>2. CASE TakesConfig("K")
  <2>1. Borne'
    BY <1>2, Took, Maps DEF TakesConfig, Accepts, Takes, Next1, Frames
  <2> QED BY <1>2, Maps, <2>1 DEF TakesConfig, Accepts, Takes, Course, Shapes
<1>3. CASE TakesCancel("K")
  <2>1. "CANCEL" \in chan["ck"]
    BY <1>3, Maps DEF TakesCancel, Accepts, Takes, Next1
  <2> QED BY <2>1 DEF Carried, Course
<1>4. CASE TakesGrant("K", "RUN")
  <2>1. got' = got \cup {<<"ck", "RUN">>} /\ UNCHANGED <<torn, shut, deaf, tried, lost>>
    BY <1>4, Maps DEF TakesGrant, Accepts, Takes
  <2>2. pc["K"] = "config" /\ pc' = [pc EXCEPT !["K"] = "spawn"]
    <3>1. Welcome("K", "RUN") /\ pc' = [pc EXCEPT !["K"] = Granted["ck"][pc["K"]]]
      BY <1>4, Maps DEF TakesGrant
    <3> QED BY <3>1, Welcomes
  <2>3. Borne'
    BY <1>4, <2>1, Took, Maps DEF TakesGrant, Accepts, Takes, Next1, Frames
  <2> QED BY <1>4, <2>1, <2>2, <2>3 DEF TakesGrant, Course, Shapes
<1>5. CASE RefusesGrant("K", "RUN")
  <2>1. /\ "RUN" \in chan["ck"] /\ (\A u \in chan["ck"] : Rank["RUN"] <= Rank[u])
        /\ pc["K"] \in HearsParent["K"] /\ Alive("K")
    BY <1>5, Maps DEF RefusesGrant, Takes, Next1
  <2>2. <<"ck", "RUN">> \in tried /\ <<"ck", "RUN">> \notin got
    BY <2>1 DEF Carried, Borne, Frames
  <2>3. <<"ck", "CONFIG">> \in got
    <3>1. Rank["CONFIG"] < Rank["RUN"] /\ {"CONFIG", "RUN"} \subseteq Frames /\ <<"ck", "CONFIG">> \in tried
      BY <2>2, Ranks DEF Frames, Course
    <3> QED BY <2>1, <3>1, InOrder
  <2>4. pc["K"] = "config"
    BY <2>1, <2>2, Hearers DEF Course
  <2> QED BY <1>5, <2>1, <2>3, <2>4, Maps DEF RefusesGrant, Welcome, Grant, Heard, Sound
<1>6. CASE KTakesGroupRetired
  <2>1. "GROUP_RETIRED" \in chan["ck"]
    BY <1>6, Maps DEF KTakesGroupRetired, Takes, Next1
  <2>2. <<"ck", "GROUP_RETIRED">> \in tried /\ <<"ck", "GROUP_RETIRED">> \notin got
    BY <2>1 DEF Carried, Borne, Frames
  <2>3. groupK = "open" /\ groupC = "absent"
    BY <2>2 DEF Course
  <2>4. Borne'
    BY <1>6, <2>1, <2>3, Took, Maps DEF KTakesGroupRetired, Takes, Frames
  <2> QED BY <1>6, <2>3, <2>4 DEF KTakesGroupRetired, Takes, Course, Shapes
<1>7. CASE KTakesRelease
  <2>1. "RELEASE" \in chan["ck"] /\ \A u \in chan["ck"] : Rank["RELEASE"] <= Rank[u]
    BY <1>7, Maps DEF KTakesRelease, Takes, Next1
  <2>2. <<"ck", "RELEASE">> \in tried
    BY <2>1 DEF Carried
  <2>3. <<"ck", "GROUP_RETIRED">> \in got
    <3>1. /\ Rank["GROUP_RETIRED"] < Rank["RELEASE"] /\ {"GROUP_RETIRED", "RELEASE"} \subseteq Frames
          /\ <<"ck", "GROUP_RETIRED">> \in tried
      BY <2>2, Ranks DEF Frames, Course
    <3> QED BY <2>1, <3>1, InOrder
  <2>4. Borne'
    BY <1>7, <2>1, <2>3, Took, Maps DEF KTakesRelease, Takes, Heard, Frames
  <2> QED BY <1>7, <2>3, <2>4 DEF KTakesRelease, Takes, Heard, Course, Shapes
<1>8. CASE KMoves
  <2>1. Fits("kc", "MOVED") /\ <<"kc", "MOVED">> \notin tried
    BY <1>8 DEF KMoves, Writable, Course
  <2>2. Borne'
    BY <1>8, <2>1, Wrote DEF KMoves, Frames
  <2> QED BY <1>8, <2>1, <2>2 DEF KMoves, Fits, Puts, Course, Shapes
<1>9. CASE KReaps
  BY <1>9, Maps, <1>0 DEF KReaps, Reap, Course, Shapes
<1>10. CASE KReports
  <2>1. Fits("kc", "STATUS") /\ <<"kc", "STATUS">> \notin tried
    BY <1>10 DEF KReports, Writable, Course
  <2>2. Borne'
    BY <1>10, <2>1, Wrote DEF KReports, Frames
  <2> QED BY <1>10, <2>1, <2>2 DEF KReports, Fits, Puts, Course, Shapes
<1>11. CASE KSettles
  BY <1>11, <1>0 DEF KSettles, MoveOut, Course, Shapes
<1>12. CASE KReleased
  BY <1>12, <1>0 DEF KReleased, Released, Heard, Course, Shapes
<1>13. CASE KExpires
  BY <1>13 DEF KExpires, HoldEnds, Ended, Sound, Course
<1>14. CASE KFallback \/ KFallbackEnds
  BY <1>14 DEF KFallback, KFallbackEnds, Course
<1>15. CASE KLastWait
  BY <1>15, <1>0 DEF KLastWait, Sound, Course, Shapes
<1>16. CASE KCloses
  <2>1. groupK = "absent" /\ has["K"] = "made" /\ rcpt["V"] # "none"
    BY <1>16 DEF KCloses, Course
  <2>2. record' = "reaped" /\ groupK' = groupK /\ UNCHANGED <<fail, unk>>
    BY <1>16, <2>1, Maps DEF KCloses, Account, Sound
  <2> QED BY <1>16, <2>2, <1>0 DEF KCloses, Course, Shapes
<1>17. CASE KReleases
  <2>1. Fits("kc", "RELEASED") /\ <<"kc", "RELEASED">> \notin tried
    BY <1>17 DEF KReleases, Writable, Course
  <2>2. Borne'
    BY <1>17, <2>1, Wrote DEF KReleases, Frames
  <2> QED BY <1>17, <2>1, <2>2 DEF KReleases, Fits, Puts, Course, Shapes
<1>18. CASE KExits
  <2>1. KCode = "ok"
    BY <1>18 DEF KExits, KCode, Sent, Released, Heard, Sound, Course
  <2>2. proc' = Fall({"K"}) /\ status' = [p \in Roles |-> IF p \in {"K"} THEN "ok" ELSE status[p]]
    BY <1>18, <2>1 DEF KExits, Ends, Sound
  <2> QED BY <1>18, <2>2, Maps, <1>0 DEF KExits, minds, Fall, Alive, Sound, ParentLost, Course, Shapes
<1> QED
  BY <1>1, <1>2, <1>3, <1>4, <1>5, <1>6, <1>7, <1>8, <1>9, <1>10, <1>11, <1>12, <1>13, <1>14, <1>15, <1>16, <1>17,
     <1>18 DEF KeeperStep

LEMMA CourseShared ==
  ASSUME Shapes, Carried, Borne, Pace, Kinship, Sound, Course, Shared
  PROVE  Course' /\ Borne'
<1> USE Members, Maps DEF At, Goes, oAt, cAt, kAt, world, wires, minds, facts, outer
<1>0. \A p \in {"C", "K"} : ParentEof(p) => Borne'
  BY Idled DEF ParentEof
<1>a. \A p \in {"O", "C"} : ChildEof(p) => Borne'
  BY Idled DEF ChildEof
<1>b. ASSUME NEW p \in Owners, SpawnCall(p) \/ SpawnReturns(p) \/ Spawned(p)
      PROVE  Borne'
  BY <1>b, Idled DEF SpawnCall, SpawnReturns, Spawned
<1>1. CASE SpawnCall("O") \/ SpawnCall("C") \/ SpawnCall("K")
  BY <1>1, <1>b DEF SpawnCall, Course, Shapes
<1>2. CASE SpawnReturns("O")
  <2>1. Borne'
    BY <1>2, <1>b
  <2> QED BY <1>2, <2>1 DEF SpawnReturns, Kinship, Barren, Course, Shapes
<1>3. CASE SpawnReturns("C")
  <2>1. Borne'
    BY <1>3, <1>b
  <2> QED BY <1>3, <2>1 DEF SpawnReturns, Kinship, Barren, Course, Shapes
<1>4. CASE SpawnReturns("K")
  <2>1. Borne'
    BY <1>4, <1>b
  <2> QED BY <1>4, <2>1 DEF SpawnReturns, Kinship, Barren, Course, Shapes
<1>5. CASE Spawned("O")
  <2>1. Borne'
    BY <1>5, <1>b
  <2> QED BY <1>5, OTurns, <2>1 DEF Spawned, Course, Shapes
<1>6. CASE Spawned("C")
  <2>1. Borne'
    BY <1>6, <1>b
  <2> QED BY <1>6, CTurns, <2>1 DEF Spawned, Course, Shapes
<1>7. CASE Spawned("K")
  <2>1. Borne'
    BY <1>7, <1>b
  <2> QED BY <1>7, KTurns, <2>1 DEF Spawned, Course, Shapes
<1>8. CASE Unwind("O") \/ Unwind("C") \/ Unwind("K")
  BY <1>8, OTurns, Bodies DEF Unwind, InBody, Sound, Course
<1>9. CASE ParentEof("C")
  <2>1. "oc" \in shut /\ pc["C"] \in HearsParent["C"] /\ Alive("C")
    BY <1>9 DEF ParentEof, Eof, Dead, Course
  <2>2. pc["C"] = "quiet"
    BY <2>1, CTurns, Hearers DEF Pace, Course
  <2> QED BY <1>9, <2>1, <2>2, <1>0 DEF ParentEof, Course, Shapes
<1>10. CASE ParentEof("K")
  BY <1>10 DEF ParentEof, Eof, Dead, Sound, ParentLost, Alive, Kinship, Course
<1>11. CASE ChildEof("O")
  <2>1. chan["co"] = {} /\ proc["C"] \in {"zombie", "gone"}
    BY <1>11 DEF ChildEof, Eof, Dead, Course
  <2>2. <<"co", "FINAL">> \in tried
    BY <2>1 DEF Course
  <2>3. <<"co", "FINAL">> \in got
    BY <2>1, <2>2 DEF Borne, Frames
  <2> QED BY <1>11, <1>a, <2>3 DEF ChildEof, Heard, LastWord, Course, Shapes
<1>12. CASE ChildEof("C")
  <2>1. chan["kc"] = {} /\ proc["K"] \in {"zombie", "gone"}
    BY <1>12 DEF ChildEof, Eof, Dead, Course
  <2>2. <<"kc", "RELEASED">> \in tried
    BY <2>1 DEF Course
  <2>3. <<"kc", "RELEASED">> \in got
    BY <2>1, <2>2 DEF Borne, Frames
  <2> QED BY <1>12, <1>a, <2>3 DEF ChildEof, Heard, LastWord, Course, Shapes
<1>13. CASE KidEnds
  <2>1. Borne'
    BY <1>13, Idled DEF KidEnds
  <2> QED BY <1>13, <2>1 DEF KidEnds, Course, Shapes
<1>14. ASSUME NEW how \in {"ok", "bad"}, VEnds(how)
       PROVE  Course' /\ Borne'
  <2>1. /\ proc' = Fall({"V"}) /\ status' = [p \in Roles |-> IF p \in {"V"} THEN how ELSE status[p]]
        /\ proc["V"] = "alive" /\ ~kid /\ kAt < 5 /\ cAt < 9 /\ oAt < 5
    BY <1>14 DEF VEnds, Ends, Alive, Course, Pace
  <2>2. Borne'
    BY <1>14, Idled DEF VEnds
  <2> QED BY <1>14, <2>1, <2>2 DEF VEnds, Fall, Alive, Course, Shapes
<1> QED
  BY <1>1, <1>2, <1>3, <1>4, <1>5, <1>6, <1>7, <1>8, <1>9, <1>10, <1>11, <1>12, <1>13, <1>14, SharedCases

\* A step that leaves no event and no deadline behind is a step of the capture itself.
LEMMA Steps ==
  /\ OuterStep \/ CustodianStep \/ KeeperStep \/ Shared => (events' = events \/ Event) /\ passed' = passed
  /\ Faults => \/ Event
               \/ events' = events /\ passed' # {}
               \/ /\ events' = events /\ passed' = passed
                  /\ \E p \in {"C", "K"} : Alive(p) /\ (ParentLost(p) \/ "run" \in passed)
<1> USE DEF Writes, Grants, Puts, Retires, Loses, Raises, Unknown, outer
<1>1. OuterStep => (events' = events \/ Event) /\ passed' = passed
  BY DEF OuterStep, OConfigures, OGrants, OHears, OHearsFinal, OCommits, ODrains, ORetires, OCancels, OSettles,
         OReaps, OCloses, OPublishes, OAccepts, ClosesControl
<1>2. CustodianStep => (events' = events \/ Event) /\ passed' = passed
  BY DEF CustodianStep, Boot, TakesConfig, TakesCancel, TakesGrant, RefusesGrant, CConfigures, CHearsHello, CReserves,
         CGrants, CHearsMoved, CSaysReady, CHearsStatus, CForwards, CNotesStatus, CHearsReleased, CSettles, CCancels,
         CNames, CKillsGroup, CSeesGroup, CRetiresGroup, CReleasesKeeper, CReleases, CReaps, CDrains, CPays,
         CWritesPayload, CQuiesces, CSeesQuiet, CGivesUp, CReports, CExits
<1>3. KeeperStep => (events' = events \/ Event) /\ passed' = passed
  BY DEF KeeperStep, Boot, TakesConfig, TakesCancel, TakesGrant, RefusesGrant, KTakesGroupRetired, KTakesRelease,
         KMoves, KReaps, KReports, KSettles, KReleased, KExpires, KFallback, KFallbackEnds, KLastWait, KCloses,
         KReleases, KExits
<1>4. Shared => (events' = events \/ Event) /\ passed' = passed
  BY DEF Shared, SpawnCall, SpawnReturns, Spawned, Unwind, ParentEof, ChildEof, KidEnds, VEnds
<1>5. Faults => \/ Event
                \/ events' = events /\ passed' # {}
                \/ /\ events' = events /\ passed' = passed
                   /\ \E p \in {"C", "K"} : Alive(p) /\ (ParentLost(p) \/ "run" \in passed)
  BY DEF Faults, BodyFault, CleanupFault, Signal, SpawnFails, Kill, BootFails, KMovesOnly, Interrupt, Deadline,
         Cutoff, At
<1> QED BY <1>1, <1>2, <1>3, <1>4, <1>5

LEMMA QuietStarts == Init => QuietInv
<1> SUFFICES ASSUME Init PROVE QuietInv
  OBVIOUS
<1>1. Course
  BY OTurns, CTurns, KTurns, Members DEF Init, Course, oAt, cAt, kAt
<1>2. Borne
  BY DEF Init, Borne
<1> QED BY <1>1, <1>2 DEF Init, QuietInv

LEMMA QuietStays ==
  ASSUME CaptureInv, QuietInv, [Next]_vars
  PROVE  QuietInv'
<1>1. CASE UNCHANGED vars
  BY <1>1 DEF vars, world, wires, minds, facts, outer, QuietInv, Quiet, Course, oAt, cAt, kAt, Borne
<1>2. CASE Faults \/ OuterStep \/ CustodianStep \/ KeeperStep \/ Shared
  <2>1. events' \in Nat
    BY <1>2, Steps DEF QuietInv, Event
  <2>2. ASSUME Quiet'
        PROVE  Course' /\ Borne'
    <3>1. events' = 0 /\ passed' = {}
      BY <2>2 DEF Quiet
    <3>2. ~Event
      BY <3>1 DEF QuietInv, Event
    <3>3. Quiet
      BY <1>2, <3>1, <3>2, Steps DEF Quiet
    <3>4. /\ Course /\ Borne /\ Shapes /\ Carried /\ Kinship /\ Payments /\ Reserved
          /\ Sound /\ Writable /\ Pace
      BY <3>1, <3>3, Well, Paces DEF QuietInv, CaptureInv
    <3>5. ~Faults
      BY <3>1, <3>2, <3>3, <3>4, Steps DEF Sound, Quiet
    <3> QED BY <1>2, <3>4, <3>5, CourseOuter, CourseCustodian, CourseKeeper, CourseShared
  <2> QED BY <2>1, <2>2 DEF QuietInv
<1> QED BY <1>1, <1>2 DEF Next, Finished

\* In every run in which nothing happens to the capture but its own steps it ends
\* FINALIZED, accepts what the validator accepted and refuses the rest
\* (capture_profile), whatever the order of those steps.
THEOREM QuietRunIsAccepted == Spec => []QuietRunAccepts
<1>1. QuietInv => QuietRunAccepts
  BY OTurns DEF QuietInv, Quiet, Course, oAt, QuietRunAccepts
<1> QED BY <1>1, QuietStarts, QuietStays, CaptureHolds, PTL DEF Spec

=============================================================================
