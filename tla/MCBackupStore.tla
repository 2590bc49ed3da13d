---------------------------- MODULE MCBackupStore ----------------------------
(* Three backups and three concurrent requests, without symmetry because the  *)
(* run checks liveness too.                                                   *)
EXTENDS BackupStore

CONSTANTS b1, b2, b3, r1, r2, r3

MCBackup == {b1, b2, b3}
MCRequest == {r1, r2, r3}
=============================================================================
