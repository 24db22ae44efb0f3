------------------------------- MODULE MCVerbs -------------------------------
\* Verbs for TLC: two names, disks that are called data or logs.  Neither names
\* nor plans are told apart.
EXTENDS Verbs
Symm == Permutations(Name) \cup Permutations(Proc)
\* A delete or a golden that succeeded did the whole of it, one that stopped on
\* this host did not stop half-way, and the inventory has no VM that is gone (planDelete,
\* planMakeGolden, runPlan).
DeleteIsWhole == DeleteOkMeansGone /\ NeverHalfDeleted /\ NoGhosts /\ GoldenOkMeansWhole

\* A clone that succeeded is whole, and one that failed reports whatever it left
\* (planClone and the unwinding of runPlan).
CloneIsWhole == TypeOK /\ NoSilentLitter /\ CloneOkMeansWhole
=============================================================================
