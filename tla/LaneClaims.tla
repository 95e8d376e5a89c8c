------------------------------ MODULE LaneClaims ------------------------------
(***************************************************************************)
(* What the calls of StoreLane promise, as statements about their state    *)
(* alone: StoreLane says how the state moves.                              *)
(***************************************************************************)
CONSTANTS
  Calls,       \* calls of the command line
  Requests     \* what a call may ask: [mode: "prepare" or "execute", key, out]

VARIABLES
  call,        \* the memory of each call
  lane,        \* the lane of each call and its native upload
  markers,     \* pending markers
  dirs,        \* calls whose lane directory exists
  inputs,      \* private inputs on the disk: <<call, role>>
  outputs,     \* the call whose lane wrote each output, as a set
  evidence     \* calls whose final evidence was written

Roles == {"snapshot", "selection"}

\* An execution is fenced by what authorizes it, a preparation by its own nonce.
Marker(c) == IF call[c].req.mode = "execute" THEN <<"key", call[c].req.key>> ELSE <<"nonce", c>>

\* A process that may still talk to the Store for this call.
Consumes(c) == lane[c].at = "running" \/ lane[c].nested

\* While the lane of a call or its native upload lives, whatever became of the
\* call, its marker and its private files are on the disk and no other lane of
\* the same authorization runs.
LaneFenced ==
  \A c \in Calls : Consumes(c) =>
    /\ Marker(c) \in markers /\ c \in dirs /\ \A r \in Roles : <<c, r>> \in inputs
    /\ \A d \in Calls : Consumes(d) /\ Marker(d) = Marker(c) => d = c

Left(c) == {c} \cap dirs # {} \/ \E r \in Roles : <<c, r>> \in inputs

\* Final evidence is only written for a lane that ended with its own receipt,
\* after everything the call had made was gone, the marker last.
ReceiptIsTrue ==
  \A c \in evidence :
    /\ lane[c].code = "ok" /\ ~Consumes(c) /\ outputs[call[c].req.out] = {c}
    /\ ~Left(c) /\ call[c].custody = "closed"
    /\ Marker(c) \in markers => \E d \in Calls \ {c} : Marker(d) = Marker(c) /\ call[d].fence # "none"

\* A call that ends well or with an ordinary error leaves no process, no private
\* file and no marker: it may simply be repeated.  Anything else ends as fatal
\* or interrupted.
OrdinaryMeansSettled ==
  \A c \in Calls : call[c].exit \in {"ok", "ordinary"} =>
    /\ ~Consumes(c) /\ ~Left(c) /\ call[c].fence \notin {"pending", "retiring", "acquiring"}
=============================================================================
