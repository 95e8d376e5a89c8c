------------------------------ MODULE MCSessions ------------------------------
(* Instances for TLC of SigningSession and of StoreLane, side by side: a     *)
(* behaviour is one of the one or of the other, and the part that is not     *)
(* chosen keeps its initial state.                                           *)
EXTENDS SigningSession, LaneClaims

CONSTANT
  LaneEvents   \* bound: failed steps, signals, broken lanes and deaths of a lane

\* A preparation, and one authorization whose lane may write to two places.
LaneRequests ==
  {[mode |-> "prepare", key |-> "none", out |-> "precondition"],
   [mode |-> "execute", key |-> "intent", out |-> "receipt"],
   [mode |-> "execute", key |-> "intent", out |-> "other"]}

VARIABLES part, laneEvents

laneVars == <<call, lane, markers, dirs, inputs, outputs, evidence, laneEvents>>

Lane == INSTANCE StoreLane WITH MaxEvents <- LaneEvents, events <- laneEvents

\* Calls that can meet: preparations, or executions of one authorization; the second
\* writes to the place of the first or to another.
Meeting ==
  /\ \A c \in Calls : call[c].req.mode = call[1].req.mode
  /\ call[1].req.out # "other"

\* In a behaviour of the session every call is one preparation that never starts.
Unasked == \A c \in Calls : call[c].req.mode = "prepare"

MCInit == Init /\ Lane!Init /\ \/ part = "signing" /\ Unasked
                               \/ part = "lane" /\ Meeting /\ prof.name = "none"

SigningNext == part = "signing" /\ Next /\ UNCHANGED <<laneVars, part>>
LaneNext == part = "lane" /\ Lane!Next /\ UNCHANGED <<vars, part>>

MCSpec == MCInit /\ [][SigningNext \/ LaneNext]_<<vars, laneVars, part>>
=============================================================================
