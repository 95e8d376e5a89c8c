--------------------------- MODULE MCInitTransaction ---------------------------
(* Instances of InitTransaction for TLC.                                     *)
EXTENDS InitTransaction

\* .github, .github/workflows and one workflow caller.
NestedParent == <<0, 1, 2>>
NestedDirs == {1, 2}
=============================================================================
