-------------------------- MODULE MCReleaseLifecycle --------------------------
(* Instances of ReleaseLifecycle for TLC.                                    *)
EXTENDS ReleaseLifecycle

\* The candidate's commit, a descendant, and an unrelated commit with the
\* candidate's tree.
MCTree == <<1, 2, 1>>
MCAhead == {<<1, 1>>, <<1, 2>>}
MCBranch == [s \in Stages |-> IF s = "production" THEN {2, 3} ELSE {1}]

=============================================================================
