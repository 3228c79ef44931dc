------------------------- MODULE MCStorageMatching -------------------------
(* Small instances of StorageMatching for TLC.                             *)
EXTENDS StorageMatching

CONSTANTS a, b, r1, r2, r3
=============================================================================
