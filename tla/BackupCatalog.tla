---------------------------- MODULE BackupCatalog ----------------------------
(***************************************************************************)
(* What the backup component promises its operators, without its directories *)
(* and awaits: a set of available backups and at most one staged restore.  *)
(* A backup becomes available, or stops being available, in one step; the  *)
(* backup a staged restore needs stays available until start-up has dealt  *)
(* with the restore.                                                        *)
(***************************************************************************)
CONSTANTS Backup, None

VARIABLES available, pending

vars == <<available, pending>>

Init == available = {} /\ pending = None

Create(b) ==
  /\ b \notin available
  /\ available' = available \union {b}
  /\ UNCHANGED pending

Delete(b) ==
  /\ b \in available
  /\ b # pending
  /\ available' = available \ {b}
  /\ UNCHANGED pending

Stage(b) ==
  /\ pending = None
  /\ b \in available
  /\ pending' = b
  /\ UNCHANGED available

Consume == pending # None /\ pending' = None /\ UNCHANGED available

Next == (\E b \in Backup : Create(b) \/ Delete(b) \/ Stage(b)) \/ Consume

Spec == Init /\ [][Next]_vars
=============================================================================
