----------------------------- MODULE MCVmxTui -----------------------------
\* VmxTui for TLC: two machines, a file and its snapshot.
EXTENDS VmxTui, TLC
CONSTANTS f1, f2
MCSnaps == f1 :> {1} @@ f2 :> {1}
\* What is typed back to a question acts on the rows it was asked of, whatever
\* was loaded in between (updatePrompt).
ConsentHolds == TypeOK /\ ConsentIsForThese
=============================================================================
