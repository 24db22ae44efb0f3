------------------------------ MODULE MCBackup ------------------------------
(* Instances of Backup for TLC.                                            *)
EXTENDS Backup
\* A restore is all or nothing (RestoreBackup): a VM that was defined has every
\* disk of the one backup, and a restore that failed left none of its own.
RestoreAllOrNothing == RestoredWhole /\ RestoreLeavesNothing
=============================================================================
