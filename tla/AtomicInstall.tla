----------------------------- MODULE AtomicInstall -----------------------------
(***************************************************************************)
(* What mobile-release init promises (docs/init-recovery.md): the planned  *)
(* paths change all at once at the commit or not at all, and nothing an    *)
(* editor does meanwhile is undone or overwritten.                         *)
(*                                                                         *)
(* A path an editor changed during the transaction is the editor's: the    *)
(* promise, and this view of the project, is about the others.             *)
(***************************************************************************)
CONSTANTS Item, Obj, NoObj

VARIABLES
  tree,    \* the object at each path (NoObj where an editor changed it)
  goal,    \* the object planned for a path, NoObj to leave it as it is
  theirs,  \* the paths editors changed since the plan was made
  fate     \* open, committed or aborted

avars == <<tree, goal, theirs, fate>>

AInit ==
  /\ tree \in [Item -> Obj \cup {NoObj}] /\ goal = [i \in Item |-> NoObj]
  /\ theirs = {} /\ fate = "open"

\* A new invocation observes the project and plans.
Plan ==
  /\ tree' \in [Item -> Obj \cup {NoObj}]
  /\ \A i \in Item \ theirs : tree'[i] = tree[i]
  /\ goal' \in [Item -> Obj \cup {NoObj}]
  /\ theirs' = {} /\ fate' = "open"

Commit ==
  /\ fate = "open" /\ fate' = "committed"
  /\ tree' = [i \in Item |-> IF i \in theirs \/ goal[i] = NoObj THEN tree[i] ELSE goal[i]]
  /\ UNCHANGED <<goal, theirs>>

Abort == fate = "open" /\ fate' = "aborted" /\ UNCHANGED <<tree, goal, theirs>>

Interfere(i) ==
  /\ theirs' = theirs \cup {i} /\ tree' = [tree EXCEPT ![i] = NoObj]
  /\ UNCHANGED <<goal, fate>>

ANext == Plan \/ Commit \/ Abort \/ \E i \in Item : Interfere(i)

ASpec == AInit /\ [][ANext]_avars
=============================================================================
