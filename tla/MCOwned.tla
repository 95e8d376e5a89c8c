-------------------------------- MODULE MCOwned --------------------------------
(* Instances for TLC of ProfileProcess and of NativeChild, side by side: a   *)
(* behaviour is one of the one or of the other, and the part that is not     *)
(* chosen keeps its initial state.                                           *)
EXTENDS ProfileProcess, ChildClaim

CONSTANTS
  Descriptors,   \* descriptors of the child's map
  ChildEvents    \* bound: failed or lost calls, interruptions and passed limits of a child

VARIABLES part, creator, acq, lease, borrowed, box, stray, childEvents

childVars == <<owner, creator, acq, lease, borrowed, box, kernel, stray, childEvents>>

Native == INSTANCE NativeChild
          WITH N <- Descriptors, MaxEvents <- ChildEvents, events <- childEvents

MCInit == Init /\ Native!Init /\ part \in {"capture", "child"}

CaptureNext == part = "capture" /\ Next /\ UNCHANGED <<childVars, part>>
ChildNext == part = "child" /\ Native!Next /\ UNCHANGED <<vars, part>>

MCSpec == MCInit /\ [][CaptureNext \/ ChildNext]_<<vars, childVars, part>>
=============================================================================
