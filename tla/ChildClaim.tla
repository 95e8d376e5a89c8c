------------------------------ MODULE ChildClaim ------------------------------
(***************************************************************************)
(* What the owner of a native child (NativeChild) promises of it, as a     *)
(* statement about the state alone.                                        *)
(***************************************************************************)
VARIABLES
  owner,      \* the owner: where it is, and what its context and its task slot say
  kernel      \* what is really open, made and alive

\* What the owner says of its child when it is done is true then and stays true,
\* however late the creator returns: with no attempt there is no process, a reaped
\* child is gone, and nothing that was opened or made for it is left.
ClaimIsTrue ==
  owner.claim \in {"not_attempted", "reaped"} =>
    /\ kernel.fds = {} /\ ~kernel.boxed
    /\ kernel.process = IF owner.claim = "reaped" THEN "gone" ELSE "none"
=============================================================================
