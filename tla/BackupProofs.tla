---------------------------- MODULE BackupProofs ----------------------------
(***************************************************************************)
(* The life of a backup, from the store to the start-up that restores it.   *)
(*                                                                         *)
(* What BackupStore promises for any number of backups and requests: the   *)
(* lock, the integrity of the pending package, and that the requests,       *)
(* interleaved and cut short anywhere, implement BackupCatalog.  And what   *)
(* SystemRestore promises of a start-up that finds a staged package.         *)
(***************************************************************************)
EXTENDS BackupStore, SystemRestore, TLAPS

\* What a request relies on after its await: with the lock held, what it read
\* before the await is still so.
StillTrue(r) ==
  /\ at[r] # "idle" => up /\ subject[r] \in Backup
  /\ at[r] = "stageWrite" => package[subject[r]] = "complete" /\ marker = None
  /\ at[r] = "deleteFirst" => marker # subject[r]
  /\ at[r] = "deleteRest" => package[subject[r]] = "partial"
  /\ at[r] \in {"createCopy", "createPublish", "createUndo"} =>
        package[subject[r]] = "creating"

AwaitInv == \A r \in Request : StillTrue(r)

IInv == TypeOK /\ OneOperationAtATime /\ AwaitInv /\ PendingPackageComplete

-----------------------------------------------------------------------------
\* No request is waiting at first and nothing is on disk.
LEMMA InvInit == Init => IInv
BY StoreAssumption DEF Init, IInv, TypeOK, OneOperationAtATime, AwaitInv,
   StillTrue,
   PendingPackageComplete, PackageState, Await,
   CreateAwait, StageAwait, DeleteAwait

\* Inside an operation every other request is idle.
LEMMA OthersIdle ==
  ASSUME IInv, NEW r \in Request, at[r] # "idle"
  PROVE  \A s \in Request : s # r => at[s] = "idle"
BY DEF IInv, OneOperationAtATime

\* Going on to the next await of the same operation keeps the lock.
LEMMA ProceedKeepsLock ==
  ASSUME IInv, NEW r \in Request, NEW K \in {CreateAwait, StageAwait, DeleteAwait},
         at[r] \in K, NEW a \in K, Proceed(r, a)
  PROVE  /\ OneOperationAtATime'
         /\ at' \in [Request -> Await \union {"idle"}]
         /\ at'[r] = a
         /\ \A s \in Request : s # r => at'[s] = "idle"
<1>1. \A s \in Request : s # r => at[s] = "idle"
  BY OthersIdle DEF CreateAwait, StageAwait, DeleteAwait
<1>2. at' = [at EXCEPT ![r] = a] /\ at \in [Request -> Await \union {"idle"}]
      /\ activeOperation' = activeOperation
  BY DEF Proceed, IInv, TypeOK
<1>3. at'[r] = a /\ \A s \in Request : s # r => at'[s] = "idle"
  BY <1>1, <1>2
<1>4. a \in Await /\ a # "idle"
  BY DEF Await, CreateAwait, StageAwait, DeleteAwait
<1>5. OneOperationAtATime'
  BY <1>2, <1>3, <1>4 DEF OneOperationAtATime, IInv, CreateAwait, StageAwait,
     DeleteAwait
<1>6. QED
  BY <1>2, <1>3, <1>4, <1>5

\* Leaving exclusive() frees the lock and leaves every request idle.
LEMMA EndFreesLock ==
  ASSUME IInv, NEW r \in Request, at[r] # "idle", End(r)
  PROVE  /\ OneOperationAtATime'
         /\ at' \in [Request -> Await \union {"idle"}]
         /\ \A s \in Request : at'[s] = "idle"
<1>1. \A s \in Request : at'[s] = "idle"
  BY OthersIdle DEF End, IInv, TypeOK
<1>2. OneOperationAtATime'
  BY <1>1 DEF OneOperationAtATime, End, CreateAwait, StageAwait, DeleteAwait
<1>3. QED
  BY <1>1, <1>2 DEF End, IInv, TypeOK

\* Every step of a request, a restart, a crash and a start keep the invariant.
LEMMA InvStep == IInv /\ [Next]_vars => IInv'
<1> SUFFICES ASSUME IInv, [Next]_vars PROVE IInv'
  OBVIOUS
<1>0. TypeOK /\ AwaitInv /\ PendingPackageComplete /\ OneOperationAtATime
  BY DEF IInv
<1> USE StoreAssumption
<1>1. ASSUME NEW r \in Request, NEW b \in Backup, CreateBackup(r, b) PROVE IInv'
  BY <1>0, <1>1 DEF CreateBackup, Begin, IInv, OneOperationAtATime, TypeOK,
     AwaitInv, StillTrue, PendingPackageComplete, PackageState,
     Operation, Await, CreateAwait, StageAwait, DeleteAwait
<1>2. ASSUME NEW r \in Request, NEW b \in Backup, StageRestore(r, b) PROVE IInv'
  BY <1>0, <1>2 DEF StageRestore, Begin, IInv, OneOperationAtATime, TypeOK,
     AwaitInv, StillTrue, PendingPackageComplete, PackageState,
     Operation, Await, CreateAwait, StageAwait, DeleteAwait
<1>3. ASSUME NEW r \in Request, NEW b \in Backup, DeleteBackup(r, b) PROVE IInv'
  BY <1>0, <1>3 DEF DeleteBackup, Begin, IInv, OneOperationAtATime, TypeOK,
     AwaitInv, StillTrue, PendingPackageComplete, PackageState,
     Operation, Await, CreateAwait, StageAwait, DeleteAwait
<1>4. ASSUME NEW r \in Request, CreateCopy(r) PROVE IInv'
  <2>1. CASE Proceed(r, "createPublish")
    <3>1. at[r] \in CreateAwait /\ "createPublish" \in CreateAwait /\ at[r] # "idle"
      BY <1>4 DEF CreateCopy, CreateAwait
    <3>2. OneOperationAtATime' /\ at' \in [Request -> Await \union {"idle"}]
          /\ at'[r] = "createPublish" /\ \A s \in Request : s # r => at'[s] = "idle"
      BY <2>1, <3>1, ProceedKeepsLock
    <3>3. QED
      BY <1>0, <1>4, <2>1, <3>1, <3>2 DEF CreateCopy, Proceed, Becomes, IInv,
         TypeOK, AwaitInv, StillTrue, PendingPackageComplete, PackageState
  <2>2. CASE Proceed(r, "createUndo")
    <3>1. at[r] \in CreateAwait /\ "createUndo" \in CreateAwait /\ at[r] # "idle"
      BY <1>4 DEF CreateCopy, CreateAwait
    <3>2. OneOperationAtATime' /\ at' \in [Request -> Await \union {"idle"}]
          /\ at'[r] = "createUndo" /\ \A s \in Request : s # r => at'[s] = "idle"
      BY <2>2, <3>1, ProceedKeepsLock
    <3>3. QED
      BY <1>0, <1>4, <2>2, <3>1, <3>2 DEF CreateCopy, Proceed, Becomes, IInv,
         TypeOK, AwaitInv, StillTrue, PendingPackageComplete, PackageState
  <2>3. QED
    BY <1>4, <2>1, <2>2 DEF CreateCopy
<1>5. ASSUME NEW r \in Request, CreatePublish(r) PROVE IInv'
  <2>1. CASE End(r)
    <3>1. at[r] # "idle"
      BY <1>5 DEF CreatePublish
    <3>2. OneOperationAtATime' /\ at' \in [Request -> Await \union {"idle"}]
          /\ \A s \in Request : at'[s] = "idle"
      BY <2>1, <3>1, EndFreesLock
    <3>3. QED
      <4>1. package' = [package EXCEPT ![subject[r]] = "complete"]
            \/ package' = package
        BY <1>5 DEF CreatePublish, Becomes
      <4>2. TypeOK'
        BY <1>0, <1>5, <2>1, <3>2, <4>1
           DEF CreatePublish, End, TypeOK, PackageState
      <4>3. AwaitInv' /\ PendingPackageComplete'
        BY <1>0, <1>5, <3>2, <4>1
           DEF CreatePublish, TypeOK, AwaitInv, StillTrue,
              PendingPackageComplete
      <4>4. QED
        BY <3>2, <4>2, <4>3 DEF IInv
  <2>2. CASE Proceed(r, "createUndo")
    <3>1. at[r] \in CreateAwait /\ "createUndo" \in CreateAwait /\ at[r] # "idle"
      BY <1>5 DEF CreatePublish, CreateAwait
    <3>2. OneOperationAtATime' /\ at' \in [Request -> Await \union {"idle"}]
          /\ at'[r] = "createUndo" /\ \A s \in Request : s # r => at'[s] = "idle"
      BY <2>2, <3>1, ProceedKeepsLock
    <3>3. up' = up /\ subject' = subject /\ subject[r] \in Backup /\ up
      BY <1>0, <1>5, <2>2, <3>1 DEF CreatePublish, Proceed, AwaitInv, StillTrue
    <3>4. TypeOK'
      BY <1>0, <1>5, <2>2, <3>2, <3>3
         DEF CreatePublish, Becomes, Proceed, TypeOK, PackageState,
            OneOperationAtATime
    <3>5. AwaitInv'
      <4>1. ASSUME NEW s \in Request, s # r PROVE at'[s] = "idle"
        BY <3>2, <4>1
      <4>2. ~End(r)
        BY <1>0, <3>2 DEF End, TypeOK
      <4>3. package'[subject[r]] = "creating"
        BY <1>0, <1>5, <3>3, <4>2 DEF CreatePublish, Becomes, TypeOK,
           AwaitInv, StillTrue
      <4>4. StillTrue(r)'
        BY <3>2, <3>3, <4>3 DEF StillTrue
      <4>5. QED
        BY <3>2, <3>3, <4>1, <4>4 DEF AwaitInv, StillTrue
    <3>6. PendingPackageComplete'
      BY <1>0, <1>5, <2>2, <3>1, <3>3
         DEF CreatePublish, Becomes, Proceed, TypeOK, AwaitInv, StillTrue,
            PendingPackageComplete
    <3>7. QED
      BY <3>2, <3>4, <3>5, <3>6 DEF IInv
  <2>3. QED
    BY <1>5, <2>1, <2>2 DEF CreatePublish
<1>6. ASSUME NEW r \in Request, CreateUndo(r) PROVE IInv'
  <2>1. CASE End(r)
    <3>1. at[r] # "idle"
      BY <1>6 DEF CreateUndo
    <3>2. OneOperationAtATime' /\ at' \in [Request -> Await \union {"idle"}]
          /\ \A s \in Request : at'[s] = "idle"
      BY <2>1, <3>1, EndFreesLock
    <3>3. QED
      BY <1>0, <1>6, <2>1, <3>1, <3>2 DEF CreateUndo, End, Becomes, IInv,
         TypeOK, AwaitInv, StillTrue, PendingPackageComplete, PackageState
  <2>2. QED
    BY <1>6, <2>1 DEF CreateUndo
<1>7. ASSUME NEW r \in Request, StageValidate(r) PROVE IInv'
  <2>1. CASE Proceed(r, "stageWrite")
    <3>1. at[r] \in StageAwait /\ "stageWrite" \in StageAwait /\ at[r] # "idle"
      BY <1>7 DEF StageValidate, StageAwait
    <3>2. OneOperationAtATime' /\ at' \in [Request -> Await \union {"idle"}]
          /\ at'[r] = "stageWrite" /\ \A s \in Request : s # r => at'[s] = "idle"
      BY <2>1, <3>1, ProceedKeepsLock
    <3>3. up' = up /\ subject' = subject /\ subject[r] \in Backup /\ up
      BY <1>0, <1>7, <2>1, <3>1 DEF StageValidate, Proceed, AwaitInv, StillTrue
    <3>4. TypeOK'
      BY <1>0, <1>7, <2>1, <3>2, <3>3
         DEF StageValidate, Proceed, TypeOK, PackageState, OneOperationAtATime
    <3>5. AwaitInv'
      <4>1. ASSUME NEW s \in Request, s # r PROVE at'[s] = "idle"
        BY <3>2, <4>1
      <4>2. ~End(r)
        BY <1>0, <3>2 DEF End, TypeOK
      <4>3. package'[subject[r]] = "complete" /\ marker' = None
        BY <1>0, <1>7, <3>3, <4>2 DEF StageValidate, TypeOK, AwaitInv,
           StillTrue
      <4>4. StillTrue(r)'
        BY <3>2, <3>3, <4>3 DEF StillTrue
      <4>5. QED
        BY <3>2, <3>3, <4>1, <4>4 DEF AwaitInv, StillTrue
    <3>6. PendingPackageComplete'
      BY <1>0, <1>7, <2>1, <3>1, <3>3
         DEF StageValidate, Proceed, TypeOK, AwaitInv, StillTrue,
            PendingPackageComplete
    <3>7. QED
      BY <3>2, <3>4, <3>5, <3>6 DEF IInv
  <2>2. CASE End(r)
    <3>1. at[r] # "idle"
      BY <1>7 DEF StageValidate
    <3>2. OneOperationAtATime' /\ at' \in [Request -> Await \union {"idle"}]
          /\ \A s \in Request : at'[s] = "idle"
      BY <2>2, <3>1, EndFreesLock
    <3>3. QED
      BY <1>0, <1>7, <2>2, <3>1, <3>2 DEF StageValidate, End, Becomes, IInv,
         TypeOK, AwaitInv, StillTrue, PendingPackageComplete, PackageState
  <2>3. QED
    BY <1>7, <2>1, <2>2 DEF StageValidate
<1>8. ASSUME NEW r \in Request, StageWrite(r) PROVE IInv'
  <2>1. CASE End(r)
    <3>1. at[r] # "idle"
      BY <1>8 DEF StageWrite
    <3>2. OneOperationAtATime' /\ at' \in [Request -> Await \union {"idle"}]
          /\ \A s \in Request : at'[s] = "idle"
      BY <2>1, <3>1, EndFreesLock
    <3>3. QED
      BY <1>0, <1>8, <2>1, <3>1, <3>2 DEF StageWrite, End, Becomes, IInv,
         TypeOK, AwaitInv, StillTrue, PendingPackageComplete, PackageState
  <2>2. QED
    BY <1>8, <2>1 DEF StageWrite
<1>9. ASSUME NEW r \in Request, DeleteCheck(r) PROVE IInv'
  <2>1. CASE Proceed(r, "deleteFirst")
    <3>1. at[r] \in DeleteAwait /\ "deleteFirst" \in DeleteAwait /\ at[r] # "idle"
      BY <1>9 DEF DeleteCheck, DeleteAwait
    <3>2. OneOperationAtATime' /\ at' \in [Request -> Await \union {"idle"}]
          /\ at'[r] = "deleteFirst" /\ \A s \in Request : s # r => at'[s] = "idle"
      BY <2>1, <3>1, ProceedKeepsLock
    <3>3. up' = up /\ subject' = subject /\ subject[r] \in Backup /\ up
      BY <1>0, <1>9, <2>1, <3>1 DEF DeleteCheck, Proceed, AwaitInv, StillTrue
    <3>4. TypeOK'
      BY <1>0, <1>9, <2>1, <3>2, <3>3
         DEF DeleteCheck, Proceed, TypeOK, PackageState, OneOperationAtATime
    <3>5. AwaitInv'
      <4>1. ASSUME NEW s \in Request, s # r PROVE at'[s] = "idle"
        BY <3>2, <4>1
      <4>2. ~End(r)
        BY <1>0, <3>2 DEF End, TypeOK
      <4>3. marker' # subject[r]
        BY <1>0, <1>9, <3>3, <4>2 DEF DeleteCheck, TypeOK, AwaitInv, StillTrue
      <4>4. StillTrue(r)'
        BY <3>2, <3>3, <4>3 DEF StillTrue
      <4>5. QED
        BY <3>2, <3>3, <4>1, <4>4 DEF AwaitInv, StillTrue
    <3>6. PendingPackageComplete'
      BY <1>0, <1>9, <2>1, <3>1, <3>3
         DEF DeleteCheck, Proceed, TypeOK, AwaitInv, StillTrue,
            PendingPackageComplete
    <3>7. QED
      BY <3>2, <3>4, <3>5, <3>6 DEF IInv
  <2>2. CASE End(r)
    <3>1. at[r] # "idle"
      BY <1>9 DEF DeleteCheck
    <3>2. OneOperationAtATime' /\ at' \in [Request -> Await \union {"idle"}]
          /\ \A s \in Request : at'[s] = "idle"
      BY <2>2, <3>1, EndFreesLock
    <3>3. QED
      BY <1>0, <1>9, <2>2, <3>1, <3>2 DEF DeleteCheck, End, Becomes, IInv,
         TypeOK, AwaitInv, StillTrue, PendingPackageComplete, PackageState
  <2>3. QED
    BY <1>9, <2>1, <2>2 DEF DeleteCheck
<1>10. ASSUME NEW r \in Request, DeleteFirst(r) PROVE IInv'
  <2>1. CASE Proceed(r, "deleteRest")
    <3>1. at[r] \in DeleteAwait /\ "deleteRest" \in DeleteAwait /\ at[r] # "idle"
      BY <1>10 DEF DeleteFirst, DeleteAwait
    <3>2. OneOperationAtATime' /\ at' \in [Request -> Await \union {"idle"}]
          /\ at'[r] = "deleteRest" /\ \A s \in Request : s # r => at'[s] = "idle"
      BY <2>1, <3>1, ProceedKeepsLock
    <3>3. up' = up /\ subject' = subject /\ subject[r] \in Backup /\ up
      BY <1>0, <1>10, <2>1, <3>1 DEF DeleteFirst, Proceed, AwaitInv, StillTrue
    <3>4. TypeOK'
      BY <1>0, <1>10, <2>1, <3>2, <3>3
         DEF DeleteFirst, Becomes, Proceed, TypeOK, PackageState,
            OneOperationAtATime
    <3>5. AwaitInv'
      <4>1. ASSUME NEW s \in Request, s # r PROVE at'[s] = "idle"
        BY <3>2, <4>1
      <4>2. ~End(r)
        BY <1>0, <3>2 DEF End, TypeOK
      <4>3. package'[subject[r]] = "partial"
        BY <1>0, <1>10, <3>3, <4>2 DEF DeleteFirst, Becomes, TypeOK,
           AwaitInv, StillTrue
      <4>4. StillTrue(r)'
        BY <3>2, <3>3, <4>3 DEF StillTrue
      <4>5. QED
        BY <3>2, <3>3, <4>1, <4>4 DEF AwaitInv, StillTrue
    <3>6. PendingPackageComplete'
      BY <1>0, <1>10, <2>1, <3>1, <3>3
         DEF DeleteFirst, Becomes, Proceed, TypeOK, AwaitInv, StillTrue,
            PendingPackageComplete
    <3>7. QED
      BY <3>2, <3>4, <3>5, <3>6 DEF IInv
  <2>2. CASE End(r)
    <3>1. at[r] # "idle"
      BY <1>10 DEF DeleteFirst
    <3>2. OneOperationAtATime' /\ at' \in [Request -> Await \union {"idle"}]
          /\ \A s \in Request : at'[s] = "idle"
      BY <2>2, <3>1, EndFreesLock
    <3>3. QED
      BY <1>0, <1>10, <2>2, <3>1, <3>2 DEF DeleteFirst, End, Becomes, IInv,
         TypeOK, AwaitInv, StillTrue, PendingPackageComplete, PackageState
  <2>3. QED
    BY <1>10, <2>1, <2>2 DEF DeleteFirst
<1>11. ASSUME NEW r \in Request, DeleteRest(r) PROVE IInv'
  <2>1. CASE End(r)
    <3>1. at[r] # "idle"
      BY <1>11 DEF DeleteRest
    <3>2. OneOperationAtATime' /\ at' \in [Request -> Await \union {"idle"}]
          /\ \A s \in Request : at'[s] = "idle"
      BY <2>1, <3>1, EndFreesLock
    <3>3. QED
      BY <1>0, <1>11, <2>1, <3>1, <3>2 DEF DeleteRest, End, Becomes, IInv,
         TypeOK, AwaitInv, StillTrue, PendingPackageComplete, PackageState
  <2>2. QED
    BY <1>11, <2>1 DEF DeleteRest
<1>12. CASE Restart \/ Crash
  <2>1. Halt
    BY <1>12 DEF Restart, Crash
  <2>2. \A s \in Request : at'[s] = "idle"
    BY <2>1 DEF Halt
  <2>3. OneOperationAtATime'
    BY <2>1, <2>2 DEF OneOperationAtATime, Halt, CreateAwait, StageAwait,
       DeleteAwait
  <2>4. TypeOK'
    BY <1>0, <2>1 DEF Halt, TypeOK
  <2>5. QED
    BY <1>0, <2>1, <2>2, <2>3, <2>4 DEF Halt, IInv, AwaitInv, StillTrue,
       PendingPackageComplete
<1>13. CASE Boot
  BY <1>0, <1>13 DEF Boot, IInv, OneOperationAtATime, TypeOK, AwaitInv,
     StillTrue, PendingPackageComplete, PackageState
<1>14. CASE UNCHANGED vars
  BY <1>0, <1>14 DEF vars, IInv, OneOperationAtATime, TypeOK, AwaitInv,
     StillTrue, PendingPackageComplete, PackageState
<1>15. QED
  BY <1>1, <1>2, <1>3, <1>4, <1>5, <1>6, <1>7,
     <1>8, <1>9, <1>10, <1>11, <1>12, <1>13, <1>14 DEF Next, Arrive, Step

\* The lock discipline holds in every reachable state.
LEMMA InvInvariant == Spec => []IInv
<1>1. Init => IInv
  BY InvInit
<1>2. IInv /\ [Next]_vars => IInv'
  BY InvStep
<1>3. QED
  BY <1>1, <1>2, PTL DEF Spec

-----------------------------------------------------------------------------
\* The package a pending restore names stays complete until start-up has used
\* it, for any number of concurrent create, stage and delete requests.
THEOREM PendingIsSafe == Spec => []PendingPackageComplete
<1>1. IInv => PendingPackageComplete
  BY DEF IInv
<1>2. QED
  BY <1>1, InvInvariant, PTL

\* activeOperation is a lock: one request at a time is past exclusive(), and it
\* is the one whose operation the lock names.
THEOREM LockIsExclusive == Spec => []OneOperationAtATime
<1>1. IInv => OneOperationAtATime
  BY DEF IInv
<1>2. QED
  BY <1>1, InvInvariant, PTL

\* At first no backup is available and no restore pending, as in the catalog.
LEMMA CatalogInit == Init => Catalog!Init
BY DEF Init, Catalog!Init

\* Each step is a step of the catalog or leaves what it shows unchanged.
LEMMA CatalogStep == IInv /\ [Next]_vars => [Catalog!Next]_(Catalog!vars)
<1> SUFFICES ASSUME IInv, [Next]_vars PROVE [Catalog!Next]_(Catalog!vars)
  OBVIOUS
<1> USE StoreAssumption DEF IInv, TypeOK, AwaitInv, StillTrue, Catalog!Next,
   Catalog!Create,
        Catalog!Delete, Catalog!Stage, Catalog!Consume, Catalog!vars
<1>1. ASSUME NEW r \in Request, NEW b \in Backup, CreateBackup(r, b)
      PROVE  [Catalog!Next]_(Catalog!vars)
  BY <1>1 DEF CreateBackup, Begin
<1>2. ASSUME NEW r \in Request, NEW b \in Backup, StageRestore(r, b)
      PROVE  [Catalog!Next]_(Catalog!vars)
  BY <1>2 DEF StageRestore, Begin
<1>3. ASSUME NEW r \in Request, NEW b \in Backup, DeleteBackup(r, b)
      PROVE  [Catalog!Next]_(Catalog!vars)
  BY <1>3 DEF DeleteBackup, Begin
<1>4. ASSUME NEW r \in Request, CreateCopy(r) PROVE [Catalog!Next]_(Catalog!vars)
  BY <1>4 DEF CreateCopy, Proceed
<1>5. ASSUME NEW r \in Request, CreatePublish(r) PROVE [Catalog!Next]_(Catalog!vars)
  <2>1. CASE package' = package
    BY <1>5, <2>1 DEF CreatePublish
  <2>2. CASE Becomes(r, "complete")
    <3>1. subject[r] \in Backup /\ package[subject[r]] = "creating"
      BY <1>5 DEF CreatePublish
    <3>2. Catalog!Create(subject[r])
      BY <1>5, <2>2, <3>1 DEF CreatePublish, Becomes
    <3>3. QED
      BY <3>1, <3>2
  <2>3. QED
    BY <1>5, <2>1, <2>2 DEF CreatePublish
<1>6. ASSUME NEW r \in Request, CreateUndo(r) PROVE [Catalog!Next]_(Catalog!vars)
  BY <1>6 DEF CreateUndo, Becomes, End
<1>7. ASSUME NEW r \in Request, StageValidate(r) PROVE [Catalog!Next]_(Catalog!vars)
  BY <1>7 DEF StageValidate, Proceed, End
<1>8. ASSUME NEW r \in Request, StageWrite(r) PROVE [Catalog!Next]_(Catalog!vars)
  BY <1>8 DEF StageWrite, End
<1>9. ASSUME NEW r \in Request, DeleteCheck(r) PROVE [Catalog!Next]_(Catalog!vars)
  BY <1>9 DEF DeleteCheck, Proceed, End
<1>10. ASSUME NEW r \in Request, DeleteFirst(r) PROVE [Catalog!Next]_(Catalog!vars)
  <2>1. CASE package' = package
    BY <1>10, <2>1 DEF DeleteFirst
  <2>2. CASE Becomes(r, "partial")
    <3>1. subject[r] \in Backup /\ marker # subject[r]
      BY <1>10 DEF DeleteFirst
    <3>2. CASE package[subject[r]] = "complete"
      <4>1. Catalog!Delete(subject[r])
        BY <1>10, <2>2, <3>1, <3>2 DEF DeleteFirst, Becomes
      <4>2. QED
        BY <3>1, <4>1
    <3>3. CASE package[subject[r]] # "complete"
      <4>1. UNCHANGED Catalog!vars
        BY <1>10, <2>2, <3>1, <3>3 DEF DeleteFirst, Becomes
      <4>2. QED
        BY <4>1
    <3>4. QED
      BY <3>2, <3>3
  <2>3. QED
    BY <1>10, <2>1, <2>2 DEF DeleteFirst
<1>11. ASSUME NEW r \in Request, DeleteRest(r) PROVE [Catalog!Next]_(Catalog!vars)
  BY <1>11 DEF DeleteRest, Becomes, End
<1>12. CASE Restart \/ Crash
  BY <1>12 DEF Restart, Crash, Halt
<1>13. CASE Boot
  BY <1>13 DEF Boot
<1>14. CASE UNCHANGED vars
  BY <1>14 DEF vars
<1>15. QED
  BY <1>1, <1>2, <1>3, <1>4, <1>5, <1>6, <1>7,
     <1>8, <1>9, <1>10, <1>11, <1>12, <1>13, <1>14 DEF Next, Arrive, Step

\* The store implements the catalog: a backup appears and disappears in one
\* step, and never disappears while a restore needs it.
THEOREM StoreImplementsCatalog == Spec => ImplementsCatalog
<1>1. Init => Catalog!Init
  BY CatalogInit
<1>2. IInv /\ [Next]_vars => [Catalog!Next]_(Catalog!vars)
  BY CatalogStep
<1>3. QED
  BY <1>1, <1>2, InvInvariant, PTL DEF Spec, ImplementsCatalog, Catalog!Spec

-----------------------------------------------------------------------------
(* The restore at start-up: SystemRestore, for every number of files and     *)
(* sidecars and every number of failing calls and crashes.                   *)

-----------------------------------------------------------------------------
(* The inductive invariant.  None of the properties is inductive: each      *)
(* depends on what the loop has already done to the live files and on what  *)
(* its records have captured.                                               *)

InLoop == pc \in {"restore", "replace", "rename", "unlink"}

\* The loop has restored the targets behind it and left those ahead alone.
LoopInv ==
  /\ pc = "check" => i = 1 /\ recorded = {}
  /\ InLoop =>
       /\ \A t \in Target : t < i => live[t] = Restored[t]
       /\ \A t \in Target : t > i => live[t] = base[t]
       /\ pc # "rename" => \A t \in Target : t = i => live[t] = base[t]

\* A target without a record is as the attempt found it.
UnrecordedInv ==
  /\ InLoop => \A t \in Target \ recorded : t >= i \/ base[t] = Restored[t]
  /\ pc \in {"replace", "rename", "unlink"} => i \in recorded
  /\ pc \in {"record", "cleanup"} =>
        \A t \in Target \ recorded : base[t] = Restored[t]
  /\ pc \in {"rollback", "rollbackRename"} /\ ~rollbackErrors =>
        \A t \in Target \ recorded : live[t] = base[t]

\* A record holds what the attempt found.
RecordsInv ==
  InLoop \/ pc \in {"record", "cleanup", "rollback", "rollbackRename"} =>
    \A t \in recorded : saved[t] = base[t]

\* Outside the loop and the catch block the live files are settled.
SettledInv ==
  /\ pc \in {"check", "reject", "rejectMarker"} => live = base
  /\ pc \in {"record", "cleanup"} => live = Restored
  /\ pc = "serving" => live = IF verdict = "applied" THEN Restored ELSE base
  /\ pc \in {"reject", "rejectMarker"} => verdict # "applied"

\* What an attempt starts from, as long as none was cut short half-way.
TornInv ==
  ~torn => /\ base \in {orig, Restored}
           /\ pc = "down" => live \in {orig, Restored}

\* The marker comes off last, or together with a verdict that has touched
\* nothing.
MarkerInv ==
  /\ pc \in {"check"} \/ InLoop => pending
  /\ pc \in {"record", "cleanup", "serving"} => ~pending
  /\ errors = 0 /\ staged = "intact" =>
       /\ pc \notin {"rollback", "rollbackRename", "reject", "rejectMarker"}
       /\ ~pending => live = Restored

RestoreInv == RestoreTypeOK /\ LoopInv /\ UnrecordedInv /\ RecordsInv /\ SettledInv
        /\ TornInv /\ MarkerInv

-----------------------------------------------------------------------------
(* Type correctness *)

\* A staged restore waiting for its start-up is well typed.
LEMMA TypeInit == RestoreInit => RestoreTypeOK
<1> SUFFICES ASSUME RestoreInit PROVE RestoreTypeOK
  OBVIOUS
<1>1. live \in [Target -> Content] /\ orig = live /\ base = live
  BY DEF RestoreInit, Content
<1>2. 1 \in 1 .. NTargets + 1 /\ 0 \in 0 .. MaxErrors /\ 0 \in 0 .. MaxCrashes
  BY RestoreAssumption DEF NTargets
<1>3. saved \in [Target -> Content]
  BY DEF RestoreInit, Content
<1>4. QED
  BY <1>1, <1>2, <1>3 DEF RestoreInit, RestoreTypeOK, PC, Package, Verdict

\* What the definitions of the sets give, so that no step expands them.
LEMMA SetFacts ==
  /\ NTargets \in Nat
  /\ NFiles <= NTargets
  /\ File \subseteq Target /\ Sidecar \subseteq Target
  /\ File \intersect Sidecar = {}
  /\ \A t \in Target : t \in 1 .. NTargets /\ (t \in File \/ t \in Sidecar)
  /\ {Absent, Old, New} \subseteq Content
BY RestoreAssumption DEF NTargets, File, Sidecar, Target, Content

\* The loop index stays in range while there is a target to handle.
LEMMA IndexType ==
  ASSUME RestoreTypeOK, i \in Target
  PROVE  i + 1 \in 1 .. NTargets + 1
BY SetFacts DEF RestoreTypeOK, Target

\* A start-up begins the loop at the first target.
LEMMA FirstIndexType == 1 \in 1 .. NTargets + 1
BY SetFacts

\* A failing call stays within the bound.
LEMMA IOErrorType ==
  ASSUME RestoreTypeOK, IOError
  PROVE  errors' \in 0 .. MaxErrors /\ crashes' \in 0 .. MaxCrashes
BY RestoreAssumption DEF RestoreTypeOK, IOError

\* Every step of the start-up, of the loop, of the roll-back and of a fault
\* keeps the types.
LEMMA TypeStep == RestoreTypeOK /\ [RestoreNext]_restoreVars => RestoreTypeOK'
<1> SUFFICES ASSUME RestoreTypeOK, [RestoreNext]_restoreVars
             PROVE  RestoreTypeOK'
  OBVIOUS
<1> USE DEF RestoreTypeOK, PC, Package, Verdict, disk, memory, faults, history
<1>1. CASE ReadMarker
  BY <1>1, FirstIndexType, SetFacts DEF ReadMarker
<1>2. CASE AcceptPackage
  BY <1>2 DEF AcceptPackage
<1>3. CASE RejectPackage
  BY <1>3 DEF RejectPackage, Reject
<1>4. CASE CheckFails
  BY <1>4, IOErrorType DEF CheckFails, Reject, Exit
<1>5. CASE CaptureFile
  BY <1>5, SetFacts DEF CaptureFile, Record
<1>6. CASE RemoveDestination
  BY <1>6, SetFacts DEF RemoveDestination
<1>7. CASE RenameIntoPlace
  BY <1>7, IndexType, SetFacts DEF RenameIntoPlace
<1>8. CASE SkipSidecar
  BY <1>8, IndexType, SetFacts DEF SkipSidecar
<1>9. CASE CaptureSidecar
  BY <1>9, SetFacts DEF CaptureSidecar, Record
<1>10. CASE RemoveSidecar
  BY <1>10, IndexType, SetFacts DEF RemoveSidecar
<1>11. CASE RemoveMarker
  BY <1>11 DEF RemoveMarker
<1>12. CASE WriteLastRestore
  BY <1>12 DEF WriteLastRestore
<1>13. CASE RemoveRollbackDirectory
  BY <1>13 DEF RemoveRollbackDirectory
<1>14. CASE ForwardFails
  <2>1. errors' \in 0 .. MaxErrors /\ crashes' \in 0 .. MaxCrashes
    BY <1>14, IOErrorType DEF ForwardFails
  <2>2. live' \in [Target -> Content]
    BY <1>14, SetFacts DEF ForwardFails
  <2>3. lastRestore' \in BOOLEAN /\ lost' \in SUBSET Target
    BY <1>14 DEF ForwardFails
  <2>4. pc' = "rollback"
        /\ UNCHANGED <<pending, failedRecord, staged, i, recorded, saved,
                       rollbackErrors, verdict, history>>
    BY <1>14 DEF ForwardFails
  <2>5. QED
    BY <2>1, <2>2, <2>3, <2>4
<1>15. ASSUME NEW t \in Target, RollbackRemove(t) PROVE RestoreTypeOK'
  BY <1>15, SetFacts DEF RollbackRemove, Latest, Undone
<1>16. ASSUME NEW t \in Target, RollbackReplace(t) PROVE RestoreTypeOK'
  BY <1>16, SetFacts DEF RollbackReplace, Latest
<1>17. ASSUME NEW t \in Target, RollbackRename(t) PROVE RestoreTypeOK'
  BY <1>17, SetFacts DEF RollbackRename, Latest, Undone
<1>18. ASSUME NEW t \in Target, RollbackLost(t) PROVE RestoreTypeOK'
  BY <1>18 DEF RollbackLost, Latest, Undone
<1>19. ASSUME NEW t \in Target, RollbackFails(t) PROVE RestoreTypeOK'
  BY <1>19, IOErrorType DEF RollbackFails, Latest, Undone
<1>20. CASE RollbackIncomplete
  BY <1>20 DEF RollbackIncomplete, Exit
<1>21. CASE RollbackComplete
  BY <1>21, IOErrorType DEF RollbackComplete, Reject, Exit
<1>22. CASE WriteFailedRecord
  BY <1>22 DEF WriteFailedRecord
<1>23. CASE RemoveRejectedMarker
  BY <1>23 DEF RemoveRejectedMarker
<1>24. CASE RejectFails
  BY <1>24, IOErrorType DEF RejectFails, Exit
<1>25. CASE Stop
  BY <1>25 DEF Stop
<1>26. CASE CrashWhileRestoring
  <2>1. crashes' \in 0 .. MaxCrashes
    BY <1>26, RestoreAssumption DEF CrashWhileRestoring
  <2>2. QED
    BY <1>26, <2>1 DEF CrashWhileRestoring, Exit
<1>27. CASE UNCHANGED restoreVars
  BY <1>27 DEF restoreVars
<1>28. CASE MarkerOrManifestUnreadable
  BY <1>28 DEF MarkerOrManifestUnreadable, Exit
<1>29. QED
  BY <1>1, <1>2, <1>3, <1>4, <1>5, <1>6, <1>7, <1>8, <1>9, <1>10,
     <1>11, <1>12, <1>13, <1>14, <1>15, <1>16, <1>17, <1>18, <1>19, <1>20,
     <1>21, <1>22, <1>23, <1>24, <1>25, <1>26, <1>27, <1>28
     DEF RestoreNext, Start, Forward, Rollback, Finish

\* Every reachable state of start-up is well typed, and the loop's index names
\* a target of the right kind wherever one is being replaced or unlinked.
THEOREM RestoreTypeCorrect == RestoreSpec => []RestoreTypeOK
<1>1. RestoreInit => RestoreTypeOK
  BY TypeInit
<1>2. RestoreTypeOK /\ [RestoreNext]_restoreVars => RestoreTypeOK'
  BY TypeStep
<1>3. QED
  BY <1>1, <1>2, PTL DEF RestoreSpec

-----------------------------------------------------------------------------
(* The inductive invariant holds initially and is preserved by every step *)

\* Before the first start-up nothing is recorded and nothing is settled.
LEMMA RestoreInvInit == RestoreInit => RestoreInv
BY TypeInit DEF RestoreInit, RestoreInv, LoopInv, UnrecordedInv, RecordsInv, SettledInv,
   TornInv, MarkerInv, InLoop

\* Every step keeps the six parts of the invariant; each part is disturbed by
\* few actions, which the proof takes one by one.
LEMMA RestoreInvStep == RestoreInv /\ [RestoreNext]_restoreVars => RestoreInv'
<1> SUFFICES ASSUME RestoreInv, [RestoreNext]_restoreVars
             PROVE  RestoreInv'
  OBVIOUS
<1>0. RestoreTypeOK'
  BY TypeStep DEF RestoreInv
<1> USE SetFacts DEF RestoreInv, RestoreTypeOK, LoopInv, UnrecordedInv, RecordsInv,
        SettledInv, TornInv, MarkerInv, InLoop, Restored, disk, memory, faults,
        history
<1>1. CASE ReadMarker
  BY <1>0, <1>1 DEF ReadMarker
<1>2. CASE AcceptPackage
  BY <1>0, <1>2 DEF AcceptPackage
<1>3. CASE RejectPackage
  BY <1>0, <1>3 DEF RejectPackage, Reject
<1>4. CASE CheckFails
  BY <1>0, <1>4 DEF CheckFails, IOError, Reject, Exit
<1>5. CASE CaptureFile
  BY <1>0, <1>5 DEF CaptureFile, Record
<1>6. CASE RemoveDestination
  BY <1>0, <1>6 DEF RemoveDestination
<1>7. CASE RenameIntoPlace
  BY <1>0, <1>7 DEF RenameIntoPlace
<1>8. CASE SkipSidecar
  BY <1>0, <1>8 DEF SkipSidecar
<1>9. CASE CaptureSidecar
  BY <1>0, <1>9 DEF CaptureSidecar, Record
<1>10. CASE RemoveSidecar
  BY <1>0, <1>10 DEF RemoveSidecar
<1>11. CASE RemoveMarker
  <2>1. \A t \in Target : live[t] = Restored[t]
    BY <1>11 DEF RemoveMarker
  <2>2. live = Restored
    BY <2>1
  <2>3. \A t \in Target \ recorded : base[t] = Restored[t]
    BY <1>11 DEF RemoveMarker
  <2>4. QED
    BY <1>0, <1>11, <2>2, <2>3 DEF RemoveMarker
<1>12. CASE WriteLastRestore
  BY <1>0, <1>12 DEF WriteLastRestore
<1>13. CASE RemoveRollbackDirectory
  BY <1>0, <1>13 DEF RemoveRollbackDirectory
<1>14. CASE ForwardFails
  <2>1. \A t \in recorded : saved[t] = base[t]
    BY <1>14 DEF ForwardFails
  <2>2. \A t \in Target \ recorded : live[t] = base[t]
    <3>1. CASE InLoop
      <4>1. ASSUME NEW t \in Target \ recorded, t < i PROVE live[t] = base[t]
        BY <3>1, <4>1
      <4>2. ASSUME NEW t \in Target \ recorded, t > i PROVE live[t] = base[t]
        BY <3>1, <4>2
      <4>3. ASSUME NEW t \in Target \ recorded, t = i PROVE live[t] = base[t]
        BY <3>1, <4>3
      <4>4. QED
        BY <4>1, <4>2, <4>3
    <3>2. CASE pc \in {"record", "cleanup"}
      BY <3>2
    <3>3. QED
      BY <1>14, <3>1, <3>2 DEF ForwardFails
  <2>3. \A t \in Target \ recorded : live'[t] = live[t]
    BY <1>14 DEF ForwardFails
  <2>4. errors' # 0
    BY <1>14 DEF ForwardFails, IOError
  <2>5. QED
    BY <1>0, <1>14, <2>1, <2>2, <2>3, <2>4 DEF ForwardFails
<1>15. ASSUME NEW t \in Target, RollbackRemove(t) PROVE RestoreInv'
  BY <1>0, <1>15 DEF RollbackRemove, Latest, Undone
<1>16. ASSUME NEW t \in Target, RollbackReplace(t) PROVE RestoreInv'
  BY <1>0, <1>16 DEF RollbackReplace, Latest
<1>17. ASSUME NEW t \in Target, RollbackRename(t) PROVE RestoreInv'
  BY <1>0, <1>17 DEF RollbackRename, Latest, Undone
<1>18. ASSUME NEW t \in Target, RollbackLost(t) PROVE RestoreInv'
  BY <1>0, <1>18 DEF RollbackLost, Latest, Undone
<1>19. ASSUME NEW t \in Target, RollbackFails(t) PROVE RestoreInv'
  BY <1>0, <1>19 DEF RollbackFails, IOError, Latest, Undone
<1>20. CASE RollbackIncomplete
  BY <1>0, <1>20 DEF RollbackIncomplete, Exit
<1>21. CASE RollbackComplete
  BY <1>0, <1>21 DEF RollbackComplete, IOError, Reject, Exit
<1>22. CASE WriteFailedRecord
  BY <1>0, <1>22 DEF WriteFailedRecord
<1>23. CASE RemoveRejectedMarker
  BY <1>0, <1>23 DEF RemoveRejectedMarker
<1>24. CASE RejectFails
  <2>1. errors' # 0
    BY <1>24 DEF RejectFails, IOError
  <2>2. live' = live /\ pending' = pending /\ pc' = "down" /\ live = base
    BY <1>24 DEF RejectFails, Exit
  <2>3. TornInv'
    BY <1>24, <2>2 DEF RejectFails, Exit
  <2>4. QED
    BY <1>0, <2>1, <2>2, <2>3
<1>25. CASE Stop
  BY <1>0, <1>25 DEF Stop
<1>26. CASE CrashWhileRestoring
  BY <1>0, <1>26 DEF CrashWhileRestoring, Exit
<1>27. CASE UNCHANGED restoreVars
  BY <1>0, <1>27 DEF restoreVars
<1>28. CASE MarkerOrManifestUnreadable
  BY <1>0, <1>28 DEF MarkerOrManifestUnreadable, Exit
<1>29. QED
  BY <1>1, <1>2, <1>3, <1>4, <1>5, <1>6, <1>7, <1>8, <1>9, <1>10,
     <1>11, <1>12, <1>13, <1>14, <1>15, <1>16, <1>17, <1>18, <1>19, <1>20,
     <1>21, <1>22, <1>23, <1>24, <1>25, <1>26, <1>27, <1>28
     DEF RestoreNext, Start, Forward, Rollback, Finish

\* The invariant holds in every reachable state.
LEMMA RestoreInvInvariant == RestoreSpec => []RestoreInv
<1>1. RestoreInit => RestoreInv
  BY RestoreInvInit
<1>2. RestoreInv /\ [RestoreNext]_restoreVars => RestoreInv'
  BY RestoreInvStep
<1>3. QED
  BY <1>1, <1>2, PTL DEF RestoreSpec

-----------------------------------------------------------------------------
(* The promises *)

\* A start-up that reports the restore applied has every file of the package
\* live and no sidecar of the old database (the try block ran to its end).
THEOREM AppliedIsComplete == RestoreSpec => []AppliedMeansRestored
<1>1. RestoreInv => AppliedMeansRestored
  BY DEF RestoreInv, SettledInv, AppliedMeansRestored
<1>2. QED
  BY <1>1, RestoreInvInvariant, PTL

\* A start-up that reports the restore rolled back or rejected leaves every
\* target as that start-up found it (the catch block undoes the records).
THEOREM RollbackIsExact == RestoreSpec => []RolledBackMeansUntouched
<1>1. RestoreInv => RolledBackMeansUntouched
  BY DEF RestoreInv, SettledInv, RolledBackMeansUntouched
<1>2. QED
  BY <1>1, RestoreInvInvariant, PTL

\* The database is never opened on a mixture of the two systems, unless an
\* earlier attempt was cut short between two targets.
THEOREM OldOrNew == RestoreSpec => []ServesOldOrNew
<1>1. RestoreInv => ServesOldOrNew
  BY DEF RestoreInv, SettledInv, TornInv, ServesOldOrNew
<1>2. QED
  BY <1>1, RestoreInvInvariant, PTL

\* However many times the process crashes, an intact package is completely
\* restored before the server serves: each attempt starts over from the marker.
THEOREM CrashTolerance == RestoreSpec => []CrashesAloneAreHarmless
<1>1. RestoreInv => CrashesAloneAreHarmless
  BY DEF RestoreInv, MarkerInv, CrashesAloneAreHarmless
<1>2. QED
  BY <1>1, RestoreInvInvariant, PTL

\* No attempt leaves the marker behind for a later restart to apply again.
THEOREM MarkerGone == RestoreSpec => []MarkerConsumed
<1>1. RestoreInv => MarkerConsumed
  BY DEF RestoreInv, MarkerInv, MarkerConsumed
<1>2. QED
  BY <1>1, RestoreInvInvariant, PTL
=============================================================================
