---------------------------- MODULE SystemRestore ----------------------------
(***************************************************************************)
(* The start-up half of a system restore: BackupManager.applyPendingRestore *)
(* in backend/backup-manager.ts, called by DockgeServer.serve before the   *)
(* database is opened.                                                     *)
(*                                                                         *)
(* Before a restart an operator staged a backup: the marker                *)
(* system-restore.pending.json is on disk.  At start-up the server copies  *)
(* every file of the package over its live destination, in manifest order, *)
(* then removes the database's -wal and -shm files, then the marker.  Every *)
(* step is a file-system call that may fail, and the process may die        *)
(* between any two of them; what is on disk survives, what is in memory     *)
(* does not.                                                                *)
(*                                                                         *)
(* A target is named by its position: 1..NFiles are the files of the        *)
(* manifest, the following NSidecars the files the database keeps beside    *)
(* itself.  Only three contents of a target matter: it does not exist, it   *)
(* is what was live before the restore, or it is the package's copy.        *)
(*                                                                         *)
(* Names that BackupStore has too carry a prefix, and its marker and       *)
(* package are pending and staged here: BackupProofs is about both modules. *)
(***************************************************************************)
EXTENDS Integers

CONSTANTS NFiles,      \* files of the manifest
          NSidecars,   \* -wal and -shm
          MaxErrors,   \* bound on failing file-system calls
          MaxCrashes   \* bound on crashes during an attempt

ASSUME RestoreAssumption ==
  /\ NFiles \in Nat \ {0}
  /\ NSidecars \in Nat
  /\ MaxErrors \in Nat
  /\ MaxCrashes \in Nat

Absent == "absent"
Old == "old"
New == "new"
Content == {Absent, Old, New}

NTargets == NFiles + NSidecars
File == 1 .. NFiles
Sidecar == NFiles + 1 .. NTargets
Target == 1 .. NTargets

VARIABLES
  live,            \* disk: the content of each target
  pending,         \* disk: does system-restore.pending.json exist?
  lastRestore,     \* disk: does last-system-restore.json claim this restore?
  failedRecord,    \* disk: was a system-restore.failed.*.json written?
  staged,          \* disk: what the marker and the package it names are like
  pc,              \* where the process is; "down" when there is none
  i,               \* memory: the target the forward loop is at
  recorded,        \* memory: the targets in restoreRecords
  saved,           \* memory and rollback directory: what a record captured
  lost,            \* disk: captured targets whose rollback copy is gone
  rollbackErrors,  \* memory: has a rollback step failed?
  verdict,         \* what this attempt reports
  errors, crashes, \* faults so far
  orig,            \* history: the live files when the restore was staged
  base,            \* history: the live files when this process started
  torn             \* history: did an attempt end with neither base nor package live?

disk    == <<live, pending, lastRestore, failedRecord, staged>>
memory  == <<i, recorded, saved, lost, rollbackErrors>>
faults  == <<errors, crashes>>
history == <<orig, base, torn>>
restoreVars == <<disk, pc, memory, verdict, faults, history>>

PC == {"down", "check", "restore", "replace", "rename", "unlink", "record",
       "cleanup", "rollback", "rollbackRename", "reject", "rejectMarker",
       "serving"}

\* "corrupt": the manifest is not the one that was staged, or a file not the one
\* it lists.  "unreadable": the marker is no marker, or there is no manifest.
Package == {"intact", "corrupt", "unreadable"}
Verdict == {"none", "applied", "rolledBack", "rejected"}

\* What a completed restore leaves: the package's files and no sidecar.
Restored == [t \in Target |-> IF t \in File THEN New ELSE Absent]

RestoreTypeOK ==
  /\ live \in [Target -> Content]
  /\ pending \in BOOLEAN
  /\ lastRestore \in BOOLEAN
  /\ failedRecord \in BOOLEAN
  /\ staged \in Package
  /\ pc \in PC
  /\ i \in 1 .. NTargets + 1
  /\ recorded \in SUBSET Target
  /\ saved \in [Target -> Content]
  /\ lost \in SUBSET Target
  /\ rollbackErrors \in BOOLEAN
  /\ verdict \in Verdict
  /\ errors \in 0 .. MaxErrors
  /\ crashes \in 0 .. MaxCrashes
  /\ orig \in [Target -> Content]
  /\ base \in [Target -> Content]
  /\ torn \in BOOLEAN
  /\ pc \in {"replace", "rename"} => i \in File
  /\ pc = "unlink" => i \in Sidecar

RestoreInit ==
  /\ live \in [Target -> {Absent, Old}]
  /\ pending = TRUE
  /\ lastRestore = FALSE
  /\ failedRecord = FALSE
  /\ staged \in Package
  /\ pc = "down"
  /\ i = 1
  /\ recorded = {}
  /\ saved = [t \in Target |-> Absent]
  /\ lost = {}
  /\ rollbackErrors = FALSE
  /\ verdict = "none"
  /\ errors = 0
  /\ crashes = 0
  /\ orig = live
  /\ base = live
  /\ torn = FALSE

-----------------------------------------------------------------------------
(* Faults *)

\* A file-system call rejects its promise.
IOError == errors < MaxErrors /\ errors' = errors + 1 /\ UNCHANGED crashes

\* The process ends before it serves; the attempt is torn if the live files
\* are neither the ones it started from nor the package's.
Exit == pc' = "down" /\ torn' = (torn \/ live \notin {base, Restored})

CrashWhileRestoring ==
  /\ pc \notin {"down", "serving"}
  /\ crashes < MaxCrashes
  /\ crashes' = crashes + 1
  /\ Exit
  /\ UNCHANGED <<disk, memory, verdict, errors, orig, base>>

-----------------------------------------------------------------------------
(* Start-up and the checks that come before anything is written *)

\* serve() calls applyPendingRestore, which returns at once without a marker.
ReadMarker ==
  /\ pc = "down"
  /\ pc' = IF pending THEN "check" ELSE "serving"
  /\ i' = 1
  /\ recorded' = {}
  /\ saved' = [t \in Target |-> Absent]
  /\ lost' = {}
  /\ rollbackErrors' = FALSE
  /\ verdict' = "none"
  /\ base' = live
  /\ UNCHANGED <<disk, faults, orig, torn>>

\* Mutant: the marker is removed before the files are restored.
AcceptPackageConsuming ==
  /\ pc = "check"
  /\ staged = "intact"
  /\ pc' = "restore"
  /\ pending' = FALSE
  /\ UNCHANGED <<live, lastRestore, failedRecord, staged, memory, verdict,
                 faults, history>>

\* The manifest's digest matches the marker's and every file its own.
AcceptPackage ==
  /\ pc = "check"
  /\ staged = "intact"
  /\ pc' = "restore"
  /\ UNCHANGED <<disk, memory, verdict, faults, history>>

Reject(why) == pc' = "reject" /\ verdict' = why

\* Mutant: a package that fails its check is an error nobody catches.
RejectPackageThrows ==
  /\ pc = "check"
  /\ staged = "corrupt"
  /\ Exit
  /\ UNCHANGED <<disk, memory, verdict, faults, orig, base>>

\* The manifest's digest differs from the marker's, or validateBackup throws.
RejectPackage ==
  /\ pc = "check"
  /\ staged = "corrupt"
  /\ Reject("rejected")
  /\ UNCHANGED <<disk, memory, faults, history>>

\* readPendingRestore throws, or sha256 of the manifest does, and nothing
\* catches it: so does every start, since the marker stays.
MarkerOrManifestUnreadable ==
  /\ pc = "check"
  /\ staged = "unreadable"
  /\ Exit
  /\ UNCHANGED <<disk, memory, verdict, faults, orig, base>>

\* A call fails this once: in reading the marker, hashing the manifest or making
\* the rollback directory nothing catches it, in validateBackup it rejects.
CheckFails ==
  /\ pc = "check"
  /\ IOError
  /\ \/ Exit /\ UNCHANGED verdict
     \/ staged # "unreadable" /\ Reject("rejected") /\ UNCHANGED torn
  /\ UNCHANGED <<disk, memory, orig, base>>

-----------------------------------------------------------------------------
(* The forward loop *)

\* captureRestoreTarget and the push of its record.
Record(t) == /\ recorded' = recorded \union {t}
             /\ saved' = [saved EXCEPT ![t] = live[t]]

CaptureFile ==
  /\ pc = "restore"
  /\ i \in File
  /\ Record(i)
  /\ pc' = "replace"
  /\ UNCHANGED <<disk, i, lost, rollbackErrors, verdict, faults, history>>

\* copyAtomic: the copy is ready beside the destination, which is removed...
RemoveDestination ==
  /\ pc = "replace"
  /\ live' = [live EXCEPT ![i] = Absent]
  /\ pc' = "rename"
  /\ UNCHANGED <<pending, lastRestore, failedRecord, staged, memory, verdict,
                 faults, history>>

\* ... and the copy renamed into its place.
RenameIntoPlace ==
  /\ pc = "rename"
  /\ live' = [live EXCEPT ![i] = New]
  /\ i' = i + 1
  /\ pc' = "restore"
  /\ UNCHANGED <<pending, lastRestore, failedRecord, staged, recorded, saved,
                 lost, rollbackErrors, verdict, faults, history>>

SkipSidecar ==
  /\ pc = "restore"
  /\ i \in Sidecar
  /\ live[i] = Absent
  /\ i' = i + 1
  /\ UNCHANGED <<disk, pc, recorded, saved, lost, rollbackErrors, verdict,
                 faults, history>>

CaptureSidecar ==
  /\ pc = "restore"
  /\ i \in Sidecar
  /\ live[i] # Absent
  /\ Record(i)
  /\ pc' = "unlink"
  /\ UNCHANGED <<disk, i, lost, rollbackErrors, verdict, faults, history>>

\* Mutant: the -wal and -shm of the replaced database stay.
KeepSidecar ==
  /\ pc = "unlink"
  /\ i' = i + 1
  /\ pc' = "restore"
  /\ UNCHANGED <<disk, recorded, saved, lost, rollbackErrors, verdict, faults,
                 history>>

RemoveSidecar ==
  /\ pc = "unlink"
  /\ live' = [live EXCEPT ![i] = Absent]
  /\ i' = i + 1
  /\ pc' = "restore"
  /\ UNCHANGED <<pending, lastRestore, failedRecord, staged, recorded, saved,
                 lost, rollbackErrors, verdict, faults, history>>

RemoveMarker ==
  /\ pc = "restore"
  /\ i = NTargets + 1
  /\ pending' = FALSE
  /\ pc' = "record"
  /\ UNCHANGED <<live, lastRestore, failedRecord, staged, memory, verdict,
                 faults, history>>

WriteLastRestore ==
  /\ pc = "record"
  /\ lastRestore' = TRUE
  /\ pc' = "cleanup"
  /\ UNCHANGED <<live, pending, failedRecord, staged, memory, verdict, faults,
                 history>>

RemoveRollbackDirectory ==
  /\ pc = "cleanup"
  /\ lost' = recorded
  /\ verdict' = "applied"
  /\ pc' = "serving"
  /\ UNCHANGED <<disk, i, recorded, saved, rollbackErrors, faults, history>>

\* Any failure inside the try block enters the catch block.  The call may have
\* had its effect: the finally of copyAtomic and of writeJsonAtomic can throw
\* after the rename, and a recursive rm can stop half-way.
ForwardFails ==
  /\ \/ /\ pc \in {"replace", "unlink"}
        /\ UNCHANGED <<live, lastRestore, lost>>
     \/ /\ pc = "restore"
        /\ ~(i \in Sidecar /\ live[i] = Absent)
        /\ UNCHANGED <<live, lastRestore, lost>>
     \/ /\ pc = "rename"
        /\ live' \in {live, [live EXCEPT ![i] = New]}
        /\ UNCHANGED <<lastRestore, lost>>
     \/ /\ pc = "record"
        /\ lastRestore' \in {lastRestore, TRUE}
        /\ UNCHANGED <<live, lost>>
     \/ /\ pc = "cleanup"
        /\ lost' \in SUBSET recorded
        /\ UNCHANGED <<live, lastRestore>>
  /\ IOError
  /\ pc' = "rollback"
  /\ UNCHANGED <<pending, failedRecord, staged, i, recorded, saved,
                 rollbackErrors, verdict, history>>

-----------------------------------------------------------------------------
(* The catch block: undo the records, the latest first *)

Latest(t) == t \in recorded /\ \A u \in recorded : u <= t
Undone(t) == recorded' = recorded \ {t}

\* Mutant: a file that did not exist before is left behind.
RollbackKeepsNewFile(t) ==
  /\ pc = "rollback"
  /\ Latest(t)
  /\ saved[t] = Absent
  /\ Undone(t)
  /\ UNCHANGED <<disk, pc, i, saved, lost, rollbackErrors, verdict, faults,
                 history>>

\* The target did not exist when it was captured.
RollbackRemove(t) ==
  /\ pc = "rollback"
  /\ Latest(t)
  /\ saved[t] = Absent
  /\ live' = [live EXCEPT ![t] = Absent]
  /\ Undone(t)
  /\ UNCHANGED <<pending, lastRestore, failedRecord, staged, pc, i, saved, lost,
                 rollbackErrors, verdict, faults, history>>

\* copyAtomic from the rollback directory, in the same two steps.
RollbackReplace(t) ==
  /\ pc = "rollback"
  /\ Latest(t)
  /\ saved[t] # Absent
  /\ t \notin lost
  /\ live' = [live EXCEPT ![t] = Absent]
  /\ pc' = "rollbackRename"
  /\ UNCHANGED <<pending, lastRestore, failedRecord, staged, memory, verdict,
                 faults, history>>

RollbackRename(t) ==
  /\ pc = "rollbackRename"
  /\ Latest(t)
  /\ live' = [live EXCEPT ![t] = saved[t]]
  /\ Undone(t)
  /\ pc' = "rollback"
  /\ UNCHANGED <<pending, lastRestore, failedRecord, staged, i, saved, lost,
                 rollbackErrors, verdict, faults, history>>

\* The rollback copy was already deleted by a half-done clean-up.
RollbackLost(t) ==
  /\ pc = "rollback"
  /\ Latest(t)
  /\ saved[t] # Absent
  /\ t \in lost
  /\ rollbackErrors' = TRUE
  /\ Undone(t)
  /\ UNCHANGED <<disk, pc, i, saved, lost, verdict, faults, history>>

RollbackFails(t) ==
  /\ Latest(t)
  /\ \/ pc = "rollback" /\ UNCHANGED live
     \/ pc = "rollbackRename" /\ live' \in {live, [live EXCEPT ![t] = saved[t]]}
  /\ IOError
  /\ rollbackErrors' = TRUE
  /\ Undone(t)
  /\ pc' = "rollback"
  /\ UNCHANGED <<pending, lastRestore, failedRecord, staged, i, saved, lost,
                 verdict, history>>

\* Mutant: the errors of the rollback are swallowed.
RollbackErrorsIgnored ==
  /\ pc = "rollback"
  /\ recorded = {}
  /\ rollbackErrors
  /\ Reject("rolledBack")
  /\ UNCHANGED <<disk, memory, faults, history>>

\* Incomplete rollback: the error leaves serve() and the process ends.
RollbackIncomplete ==
  /\ pc = "rollback"
  /\ recorded = {}
  /\ rollbackErrors
  /\ Exit
  /\ UNCHANGED <<disk, memory, verdict, faults, orig, base>>

RollbackComplete ==
  /\ pc = "rollback"
  /\ recorded = {}
  /\ ~rollbackErrors
  /\ \/ UNCHANGED faults /\ Reject("rolledBack") /\ UNCHANGED torn
     \/ IOError /\ Exit /\ UNCHANGED verdict
  /\ UNCHANGED <<disk, memory, orig, base>>

-----------------------------------------------------------------------------
(* rejectPendingRestore *)

WriteFailedRecord ==
  /\ pc = "reject"
  /\ failedRecord' = TRUE
  /\ pc' = "rejectMarker"
  /\ UNCHANGED <<live, pending, lastRestore, staged, memory, verdict, faults,
                 history>>

\* Mutant: the rejected restore stays pending.
KeepRejectedMarker ==
  /\ pc = "rejectMarker"
  /\ pc' = "serving"
  /\ UNCHANGED <<disk, memory, verdict, faults, history>>

RemoveRejectedMarker ==
  /\ pc = "rejectMarker"
  /\ pending' = FALSE
  /\ pc' = "serving"
  /\ UNCHANGED <<live, lastRestore, failedRecord, staged, memory, verdict,
                 faults, history>>

RejectFails ==
  /\ \/ pc = "reject" /\ failedRecord' \in {failedRecord, TRUE}
     \/ pc = "rejectMarker" /\ UNCHANGED failedRecord
  /\ IOError
  /\ Exit
  /\ UNCHANGED <<live, pending, lastRestore, staged, memory, verdict, orig, base>>

\* The serving process is stopped; the next start finds the same disk.
Stop ==
  /\ pc = "serving"
  /\ pc' = "down"
  /\ UNCHANGED <<disk, memory, verdict, faults, history>>

-----------------------------------------------------------------------------
Forward ==
  \/ CaptureFile \/ RemoveDestination \/ RenameIntoPlace
  \/ SkipSidecar \/ CaptureSidecar \/ RemoveSidecar
  \/ RemoveMarker \/ WriteLastRestore \/ RemoveRollbackDirectory

Rollback ==
  \/ \E t \in Target : \/ RollbackRemove(t) \/ RollbackReplace(t)
                       \/ RollbackRename(t) \/ RollbackLost(t)
                       \/ RollbackFails(t)
  \/ RollbackIncomplete
  \/ RollbackComplete

Start ==
  \/ ReadMarker \/ AcceptPackage \/ RejectPackage
  \/ MarkerOrManifestUnreadable \/ CheckFails

Finish == WriteFailedRecord \/ RemoveRejectedMarker \/ RejectFails

RestoreNext ==
  \/ Start \/ Forward \/ ForwardFails \/ Rollback \/ Finish
  \/ Stop \/ CrashWhileRestoring

RestoreSpec == RestoreInit /\ [][RestoreNext]_restoreVars

\* The process keeps running and a supervisor restarts it (restart:
\* unless-stopped in compose.yaml); nothing makes a fault or a stop happen.
Progress == Start \/ Forward \/ ForwardFails \/ Rollback \/ Finish
RestoreFairSpec == RestoreSpec /\ WF_restoreVars(Progress)

-----------------------------------------------------------------------------
(* Properties *)

\* A start-up that reports "applied" left every file of the package live and
\* no -wal or -shm of the replaced database beside it (whatever failed or
\* crashed on the way, and in earlier attempts).
AppliedMeansRestored ==
  pc = "serving" /\ verdict = "applied" => live = Restored

\* A start-up that reports "rolled back" or "rejected" left every target as it
\* found it, absent ones included: the records undo exactly what was done,
\* whatever step failed and however far that step had gone.
RolledBackMeansUntouched ==
  pc = "serving" /\ verdict \in {"rolledBack", "rejected"} => live = base

\* The server never opens the database on a mixture of two systems, unless an
\* earlier attempt was cut short by a crash or by an incomplete rollback.
ServesOldOrNew ==
  pc = "serving" /\ ~torn => live \in {orig, Restored}

\* Crashes alone never harm: however often the process dies, an intact package
\* is completely restored before the server opens the database.
CrashesAloneAreHarmless ==
  pc = "serving" /\ errors = 0 /\ staged = "intact" => live = Restored

\* The marker is consumed before the server serves: a later restart never
\* applies the restore over work done since.
MarkerConsumed == pc = "serving" => ~pending

\* With a supervisor that restarts it, the server comes up once calls stop
\* failing, with a corrupt package too, and however often the process died: only
\* a marker or manifest that cannot be read keeps it down, and does for ever.
EventuallyServes ==
  /\ staged # "unreadable" => <>(pc = "serving")
  /\ staged = "unreadable" => [](pc # "serving")

\* What the failed record says, "System restore failed and was rolled back":
\* the files are the ones that were live when the restore was staged.
RolledBackMeansOriginal ==
  pc = "serving" /\ verdict = "rolledBack" => live = orig
=============================================================================
