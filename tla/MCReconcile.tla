---------------------------- MODULE MCReconcile ----------------------------
\* Reconcile for TLC: one connection, machines that all run at first.
EXTENDS Reconcile
MCLvOf == [r \in Reader |-> "lv"]
MCBoth == [Name -> {"running"}]
=============================================================================
