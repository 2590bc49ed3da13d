----------------------------- MODULE BackupStore -----------------------------
(***************************************************************************)
(* The running half of BackupManager (backend/backup-manager.ts) and its   *)
(* socket handlers (backend/socket-handlers/backup-socket-handler.ts):     *)
(* create, stage and delete requests of several administrators, interleaved *)
(* at their awaits; the static lock activeOperation; the restart a staged  *)
(* restore schedules; crashes.  Start-up is SystemRestore; here it only    *)
(* consumes the marker, which is what SystemRestore proves of it.           *)
(*                                                                         *)
(* A package goes through these states: its fresh identifier is unused; it *)
(* is being written to .creating-<id>; it is complete under its own name;  *)
(* some of its entries are deleted; it is gone.  Any call may fail, at any *)
(* time: failures and crashes need no bound here.                           *)
(***************************************************************************)
CONSTANTS Backup,       \* identifiers newBackupId may draw
          Request,      \* requests in flight at the same time
          None,
          AutoRestart   \* DOCKERBRIDGE_RESTORE_AUTO_RESTART # "false"

ASSUME StoreAssumption == None \notin Backup /\ AutoRestart \in BOOLEAN

VARIABLES
  package,          \* disk: the state of each package
  marker,           \* disk: the backup system-restore.pending.json names
  up,               \* is the server running?
  activeOperation,  \* memory: BackupManager.activeOperation
  at,               \* memory: what each request waits for
  subject,          \* memory: the backup each request is about
  restartTimer      \* memory: is the restart's setTimeout armed?

vars == <<package, marker, up, activeOperation, at, subject, restartTimer>>

PackageState == {"unused", "creating", "complete", "partial", "gone"}
Operation == {"create", "restore", "delete"}

\* Where a request can be suspended, by the operation it performs.
CreateAwait == {"createCopy", "createPublish", "createUndo"}
StageAwait == {"stageValidate", "stageWrite"}
DeleteAwait == {"deleteCheck", "deleteFirst", "deleteRest"}
Await == CreateAwait \union StageAwait \union DeleteAwait

TypeOK ==
  /\ package \in [Backup -> PackageState]
  /\ marker \in Backup \union {None}
  /\ up \in BOOLEAN
  /\ activeOperation \in Operation \union {""}
  /\ at \in [Request -> Await \union {"idle"}]
  /\ subject \in [Request -> Backup \union {None}]
  /\ restartTimer \in BOOLEAN

Init ==
  /\ package = [b \in Backup |-> "unused"]
  /\ marker = None
  /\ up = TRUE
  /\ activeOperation = ""
  /\ at = [r \in Request |-> "idle"]
  /\ subject = [r \in Request |-> None]
  /\ restartTimer = FALSE

-----------------------------------------------------------------------------
(* exclusive() *)

\* Mutant: exclusive() does not look at the lock.
BeginUnlocked(r, operation, b, await) ==
  /\ up
  /\ at[r] = "idle"
  /\ activeOperation' = operation
  /\ at' = [at EXCEPT ![r] = await]
  /\ subject' = [subject EXCEPT ![r] = b]

\* The lock is free; a request that finds it taken fails and changes nothing.
Begin(r, operation, b, await) ==
  /\ up
  /\ at[r] = "idle"
  /\ activeOperation = ""
  /\ activeOperation' = operation
  /\ at' = [at EXCEPT ![r] = await]
  /\ subject' = [subject EXCEPT ![r] = b]

\* The finally of exclusive(): whatever became of the action, the lock is free.
End(r) ==
  /\ activeOperation' = ""
  /\ at' = [at EXCEPT ![r] = "idle"]
  /\ subject' = [subject EXCEPT ![r] = None]

Proceed(r, await) ==
  /\ at' = [at EXCEPT ![r] = await]
  /\ UNCHANGED <<activeOperation, subject>>

Becomes(r, state) == package' = [package EXCEPT ![subject[r]] = state]

-----------------------------------------------------------------------------
(* createBackup *)

CreateBackup(r, b) ==
  /\ package[b] = "unused"
  /\ Begin(r, "create", b, "createCopy")
  /\ package' = [package EXCEPT ![b] = "creating"]
  /\ UNCHANGED <<marker, up, restartTimer>>

\* VACUUM INTO, the database config, the stacks, the files' digests.
CreateCopy(r) ==
  /\ at[r] = "createCopy"
  /\ \/ Proceed(r, "createPublish")
     \/ Proceed(r, "createUndo")
  /\ UNCHANGED <<package, marker, up, restartTimer>>

\* The manifest is written last and the directory renamed to its own name.
CreatePublish(r) ==
  /\ at[r] = "createPublish"
  /\ \/ Becomes(r, "complete") /\ End(r)
     \/ UNCHANGED package /\ Proceed(r, "createUndo")
  /\ UNCHANGED <<marker, up, restartTimer>>

\* Mutant: a failure of the clean-up skips the release of the lock.
CreateUndoLeaksLock(r) ==
  /\ at[r] = "createUndo"
  /\ \/ Becomes(r, "gone") /\ End(r)
     \/ Proceed(r, "idle") /\ UNCHANGED package
  /\ UNCHANGED <<marker, up, restartTimer>>

\* The catch block removes the temporary directory, which may fail as well.
CreateUndo(r) ==
  /\ at[r] = "createUndo"
  /\ \/ Becomes(r, "gone")
     \/ UNCHANGED package
  /\ End(r)
  /\ UNCHANGED <<marker, up, restartTimer>>

-----------------------------------------------------------------------------
(* stageRestore *)

StageRestore(r, b) ==
  /\ package[b] # "unused"
  /\ Begin(r, "restore", b, "stageValidate")
  /\ UNCHANGED <<package, marker, up, restartTimer>>

\* Mutant: a second restore may be staged over a pending one.
StageValidateOver(r) ==
  /\ at[r] = "stageValidate"
  /\ \/ /\ package[subject[r]] = "complete"
        /\ Proceed(r, "stageWrite")
     \/ End(r)
  /\ UNCHANGED <<package, marker, up, restartTimer>>

\* validateBackup accepts a complete package only; then, in the same turn, the
\* marker must not exist.  Reading may fail, too.
StageValidate(r) ==
  /\ at[r] = "stageValidate"
  /\ \/ /\ package[subject[r]] = "complete"
        /\ marker = None
        /\ Proceed(r, "stageWrite")
     \/ End(r)
  /\ UNCHANGED <<package, marker, up, restartTimer>>

\* The manifest is hashed and the marker written; the handler then arms the
\* timer that ends the process.  A failure may come before the marker is in
\* place, or after, from the finally of writeJsonAtomic.
StageWrite(r) ==
  /\ at[r] = "stageWrite"
  /\ \/ marker' = subject[r] /\ restartTimer' = AutoRestart
     \/ marker' \in {marker, subject[r]} /\ UNCHANGED restartTimer
  /\ End(r)
  /\ UNCHANGED <<package, up>>

-----------------------------------------------------------------------------
(* deleteBackup *)

DeleteBackup(r, b) ==
  /\ package[b] # "unused"
  /\ Begin(r, "delete", b, "deleteCheck")
  /\ UNCHANGED <<package, marker, up, restartTimer>>

\* Mutant: the pending backup can be deleted.
DeleteCheckBlind(r) ==
  /\ at[r] = "deleteCheck"
  /\ \/ /\ package[subject[r]] \in {"complete", "partial"}
        /\ Proceed(r, "deleteFirst")
     \/ End(r)
  /\ UNCHANGED <<package, marker, up, restartTimer>>

\* Refused for the pending backup and for one that is not a directory there.
DeleteCheck(r) ==
  /\ at[r] = "deleteCheck"
  /\ \/ /\ marker # subject[r]
        /\ package[subject[r]] \in {"complete", "partial"}
        /\ Proceed(r, "deleteFirst")
     \/ End(r)
  /\ UNCHANGED <<package, marker, up, restartTimer>>

\* The recursive rm takes its entries one by one and may fail at any of them.
DeleteFirst(r) ==
  /\ at[r] = "deleteFirst"
  /\ \/ Becomes(r, "partial") /\ Proceed(r, "deleteRest")
     \/ UNCHANGED package /\ End(r)
  /\ UNCHANGED <<marker, up, restartTimer>>

DeleteRest(r) ==
  /\ at[r] = "deleteRest"
  /\ \/ Becomes(r, "gone")
     \/ UNCHANGED package
  /\ End(r)
  /\ UNCHANGED <<marker, up, restartTimer>>

-----------------------------------------------------------------------------
(* The process *)

Halt ==
  /\ up
  /\ up' = FALSE
  /\ activeOperation' = ""
  /\ at' = [r \in Request |-> "idle"]
  /\ subject' = [r \in Request |-> None]
  /\ restartTimer' = FALSE
  /\ UNCHANGED <<package, marker>>

\* The timer sends SIGTERM 1.5 s after the restore was staged.
Restart == restartTimer /\ Halt

Crash == Halt

\* Mutant: start-up leaves the marker where it is.
BootIgnoringMarker ==
  /\ ~up
  /\ up' = TRUE
  /\ UNCHANGED <<package, marker, activeOperation, at, subject, restartTimer>>

\* The supervisor starts the server, which consumes the marker before serving.
Boot ==
  /\ ~up
  /\ up' = TRUE
  /\ marker' = None
  /\ UNCHANGED <<package, activeOperation, at, subject, restartTimer>>

-----------------------------------------------------------------------------
Arrive(r) ==
  \E b \in Backup : CreateBackup(r, b) \/ StageRestore(r, b) \/ DeleteBackup(r, b)

Step(r) ==
  \/ CreateCopy(r) \/ CreatePublish(r) \/ CreateUndo(r)
  \/ StageValidate(r) \/ StageWrite(r)
  \/ DeleteCheck(r) \/ DeleteFirst(r) \/ DeleteRest(r)

Next == (\E r \in Request : Arrive(r) \/ Step(r)) \/ Restart \/ Crash \/ Boot

Spec == Init /\ [][Next]_vars

\* A pending call settles, an armed timer fires, a supervisor restarts the
\* server; requests and crashes are not obliged to happen.
FairSpec ==
  /\ Spec
  /\ \A r \in Request : WF_vars(Step(r))
  /\ WF_vars(Restart)
  /\ WF_vars(Boot)

-----------------------------------------------------------------------------
(* Properties *)

\* The package a staged restore names is complete for as long as the restore
\* is pending: no delete, however interleaved or cut short, has touched it.
PendingPackageComplete == marker # None => package[marker] = "complete"

\* Only the request that holds the lock is inside an operation: two never work
\* on the packages at the same time, and the lock is free when none does.
OneOperationAtATime ==
  /\ \A r, s \in Request : at[r] # "idle" /\ at[s] # "idle" => r = s
  /\ \A r \in Request :
       /\ at[r] \in CreateAwait => activeOperation = "create"
       /\ at[r] \in StageAwait => activeOperation = "restore"
       /\ at[r] \in DeleteAwait => activeOperation = "delete"
  /\ activeOperation # "" => \E r \in Request : at[r] # "idle"

\* Available packages and the pending restore behave as the catalog promises.
Catalog == INSTANCE BackupCatalog WITH
             available <- {b \in Backup : package[b] = "complete"},
             pending <- marker
ImplementsCatalog == Catalog!Spec

\* The lock never stays taken, whatever fails inside the operation.
LockReleased == activeOperation # "" ~> activeOperation = ""

\* A restore whose restart was announced to the operator is dealt with by a
\* start-up, whatever requests arrive and whatever crashes in between.
AnnouncedRestoreReachesStartup == restartTimer ~> marker = None
=============================================================================
