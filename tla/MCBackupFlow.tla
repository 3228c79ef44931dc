---------------------------- MODULE MCBackupFlow ----------------------------
(* Small instances of BackupFlow for TLC.                                  *)
EXTENDS BackupFlow, TLC

CONSTANTS t1, t2, w

\* Two blobs for the first task and one for the second,
\* three or eight for each task.
TwoOne == [t \in Tasks |-> IF t = t1 THEN 2 ELSE 1]
Three == [t \in Tasks |-> 3]
Eight == [t \in Tasks |-> 8]
=============================================================================
