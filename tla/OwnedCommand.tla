---------------------------- MODULE OwnedCommand ----------------------------
(***************************************************************************)
(* What run_command promises about the one tool it starts: a report that   *)
(* claims containment is published only when nothing of the tool runs, a   *)
(* report that claims no target is published only when the tool was never  *)
(* started, and neither claim is ever overtaken by a later start.          *)
(***************************************************************************)

VARIABLES
    tool,      \* "idle", "running" (it or a descendant of it) or "ended"
    report     \* "none", "no-target", "contained" or "unknown"

vars == <<tool, report>>

Init == tool = "idle" /\ report = "none"

\* The tool starts, unless a report has already ruled that out.
Start ==
    /\ tool = "idle"
    /\ report \in {"none", "unknown"}
    /\ tool' = "running"
    /\ UNCHANGED report

\* The tool and everything it started is over.
End ==
    /\ tool = "running"
    /\ tool' = "ended"
    /\ UNCHANGED report

\* The one report of the command.
Report ==
    /\ report = "none"
    /\ report' \in {"no-target", "contained", "unknown"}
    /\ report' = "no-target" => tool = "idle"
    /\ report' = "contained" => tool # "running"
    /\ UNCHANGED tool

Next == Start \/ End \/ Report

Spec == Init /\ [][Next]_vars
=============================================================================
