---------------------------- MODULE ListProofs ----------------------------
(***************************************************************************)
(* What the lists of Compose files and of Compose stacks show, for any     *)
(* number of files, stacks, browsers, scans and refreshes.                 *)
(*                                                                         *)
(* Of the index of Compose files: it is true after a scan that nothing     *)
(* disturbed and of which no call failed, and the page shows it; whatever  *)
(* failed, it has nothing that is not so.  Of the list of stacks, whose    *)
(* refreshes overlap and share maps and objects: a full refresh that       *)
(* nothing disturbed shows what there is, and so does every list after one *)
(* that was alone at its end.                                              *)
(***************************************************************************)
EXTENDS ComposeRepository, StackListing, FiniteSetTheorems, TLAPS

-----------------------------------------------------------------------------
(* The index of Compose files *)

\* One scan runs at a time, the one that is waited for.
OneScan ==
  \A s \in Scan : IF scan[s].phase = "idle" THEN scan[s].alone ELSE scanPromise = s

\* Once the index is settled the scan under way is undisturbed too.
SettledIsAlone == settled => \A s \in Scan : scan[s].alone

\* What an undisturbed scan has found is so, and if no call of it failed, what
\* it has not found is still to be looked at.
Looked(s) ==
  scan[s].alone =>
    /\ scan[s].phase = "runtime" => scan[s].index = EmptyIndex /\ scan[s].files = {}
    /\ scan[s].phase = "walk" =>
         /\ scan[s].ran \subseteq running
         /\ scan[s].files \subseteq present
         /\ NothingInvented(scan[s].index)
         /\ Complete(scan[s].index) =>
              /\ scan[s].ran = running
              /\ \A f \in File :
                   \/ scan[s].index.items[f] = TrueItems[f]
                   \/ f \in scan[s].files
                   \/ f \in present /\ DirectoryOf[f] \in scan[s].directories

\* The page is a record with data.
IsView(v) == "data" \in DOMAIN v

Types ==
  /\ present \in SUBSET File /\ running \in SUBSET File
  /\ scan \in [Scan -> ScanState]
  /\ IsView(view)

IndexInv ==
  /\ Types /\ OneScan /\ SettledIsAlone /\ IndexIsTrue
  /\ \A s \in Scan : Looked(s)

-----------------------------------------------------------------------------
(* Operators *)

LEMMA NothingInIndex == EmptyIndex \in Index
BY RepositoryAssumption DEF EmptyIndex, Index

LEMMA NoScanType ==
  /\ NoScan \in ScanState
  /\ NoScan.phase = "idle" /\ NoScan.files = {} /\ NoScan.alone = TRUE
  /\ NoScan.index = EmptyIndex
BY NothingInIndex DEF NoScan, ScanState

LEMMA Statuses == \A f, ran : StatusOf(f, ran) \in Status
BY DEF StatusOf, Status

\* A project that runs among fewer runs.
LEMMA RunningToo ==
  ASSUME NEW ran, ran \subseteq running, NEW f \in present, f \in File,
         StatusOf(f, ran) = "running"
  PROVE  TrueItems[f] = "running"
BY DEF StatusOf, TrueItems

LEMMA TrueItemsType == TrueItems \in [File -> Status \union {"none"}]
BY Statuses DEF TrueItems

\* The fields of the states a scan goes through.
LEMMA Started ==
  ASSUME NEW q, q = [NoScan EXCEPT !.phase = "runtime", !.index = NothingFound]
  PROVE  /\ q \in ScanState
         /\ q.phase = "runtime" /\ q.files = {} /\ q.alone = TRUE
         /\ q.index = EmptyIndex
<1>. DEFINE q1 == [NoScan EXCEPT !.phase = "runtime"]
            q2 == [q1 EXCEPT !.index = EmptyIndex]
<1>1. q = q2
  BY Zenon DEF NothingFound
<1>2. /\ q1 \in ScanState /\ q1.phase = "runtime" /\ q1.files = {} /\ q1.alone = TRUE
  BY NoScanType DEF ScanState
<1>. HIDE DEF q1
<1>3. /\ q2 \in ScanState /\ q2.phase = "runtime" /\ q2.files = {} /\ q2.alone = TRUE
      /\ q2.index = EmptyIndex
  BY <1>2, NothingInIndex DEF ScanState
<1>. HIDE DEF q2
<1>. QED BY <1>1, <1>3

\* What a scan goes on with.
Walks(p, ran, x) ==
  [p EXCEPT !.phase = "walk", !.ran = ran, !.directories = Directory, !.index = x]

LEMMA Walking ==
  ASSUME NEW p \in ScanState, NEW ran \in SUBSET File, NEW x \in Index,
         NEW q, q = Walks(p, ran, x)
  PROVE  /\ q \in ScanState /\ q.phase = "walk" /\ q.ran = ran /\ q.index = x
         /\ q.directories = Directory /\ q.files = p.files /\ q.alone = p.alone
<1>. DEFINE q1 == [p EXCEPT !.phase = "walk"]
            q2 == [q1 EXCEPT !.ran = ran]
            q3 == [q2 EXCEPT !.directories = Directory]
            q4 == [q3 EXCEPT !.index = x]
<1>1. q = q4
  BY Zenon DEF Walks
<1>2. /\ q1 \in ScanState /\ q1.phase = "walk" /\ q1.files = p.files
      /\ q1.alone = p.alone
  BY DEF ScanState
<1>. HIDE DEF q1
<1>3. /\ q2 \in ScanState /\ q2.phase = "walk" /\ q2.files = p.files
      /\ q2.alone = p.alone /\ q2.ran = ran
  BY <1>2 DEF ScanState
<1>. HIDE DEF q2
<1>4. /\ q3 \in ScanState /\ q3.phase = "walk" /\ q3.files = p.files
      /\ q3.alone = p.alone /\ q3.ran = ran /\ q3.directories = Directory
  BY <1>3 DEF ScanState
<1>. HIDE DEF q3
<1>5. /\ q4 \in ScanState /\ q4.phase = "walk" /\ q4.files = p.files
      /\ q4.alone = p.alone /\ q4.ran = ran /\ q4.directories = Directory
      /\ q4.index = x
  BY <1>4 DEF ScanState
<1>. HIDE DEF q4
<1>. QED BY <1>1, <1>5

Reads(p, rest, files, x) ==
  [p EXCEPT !.directories = rest, !.files = files, !.index = x]

LEMMA Reading ==
  ASSUME NEW p \in ScanState, NEW rest \in SUBSET Directory,
         NEW files \in SUBSET File, NEW x \in Index, NEW q, q = Reads(p, rest, files, x)
  PROVE  /\ q \in ScanState /\ q.phase = p.phase /\ q.ran = p.ran /\ q.alone = p.alone
         /\ q.directories = rest /\ q.files = files /\ q.index = x
<1>. DEFINE q1 == [p EXCEPT !.directories = rest]
            q2 == [q1 EXCEPT !.files = files]
            q3 == [q2 EXCEPT !.index = x]
<1>1. q = q3
  BY Zenon DEF Reads
<1>2. /\ q1 \in ScanState /\ q1.phase = p.phase /\ q1.ran = p.ran
      /\ q1.alone = p.alone /\ q1.directories = rest
  BY DEF ScanState
<1>. HIDE DEF q1
<1>3. /\ q2 \in ScanState /\ q2.phase = p.phase /\ q2.ran = p.ran
      /\ q2.alone = p.alone /\ q2.directories = rest
      /\ q2.files = files
  BY <1>2 DEF ScanState
<1>. HIDE DEF q2
<1>4. /\ q3 \in ScanState /\ q3.phase = p.phase /\ q3.ran = p.ran
      /\ q3.alone = p.alone /\ q3.directories = rest
      /\ q3.files = files /\ q3.index = x
  BY <1>3 DEF ScanState
<1>. HIDE DEF q3
<1>. QED BY <1>1, <1>4

CutShort(p) ==
  [p EXCEPT !.directories = {}, !.files = {}, !.index = [p.index EXCEPT !.truncated = TRUE]]

LEMMA CuttingShort ==
  ASSUME NEW p \in ScanState,
         NEW q, q = CutShort(p)
  PROVE  /\ q \in ScanState /\ q.phase = p.phase /\ q.ran = p.ran /\ q.alone = p.alone
         /\ q.files = {} /\ q.index.items = p.index.items /\ q.index.truncated = TRUE
<1>. DEFINE x == [p.index EXCEPT !.truncated = TRUE]
            q1 == [p EXCEPT !.directories = {}]
            q2 == [q1 EXCEPT !.files = {}]
            q3 == [q2 EXCEPT !.index = x]
<1>1. q = q3
  BY Zenon DEF CutShort
<1>2. x \in Index /\ x.items = p.index.items /\ x.truncated = TRUE
  BY DEF ScanState, Index
<1>. HIDE DEF x
<1>3. /\ q1 \in ScanState /\ q1.phase = p.phase /\ q1.ran = p.ran
      /\ q1.alone = p.alone
  BY DEF ScanState
<1>. HIDE DEF q1
<1>4. /\ q2 \in ScanState /\ q2.phase = p.phase /\ q2.ran = p.ran
      /\ q2.alone = p.alone /\ q2.files = {}
  BY <1>3 DEF ScanState
<1>. HIDE DEF q2
<1>5. /\ q3 \in ScanState /\ q3.phase = p.phase /\ q3.ran = p.ran
      /\ q3.alone = p.alone /\ q3.files = {} /\ q3.index = x
  BY <1>2, <1>4 DEF ScanState
<1>. HIDE DEF q3
<1>. QED BY <1>1, <1>2, <1>5

OneLess(p, f, x) ==
  [p EXCEPT !.scanned = p.scanned + 1, !.files = p.files \ {f}, !.index = x]

LEMMA Inspected ==
  ASSUME NEW p \in ScanState, NEW f \in File, NEW x \in Index,
         NEW q, q = OneLess(p, f, x)
  PROVE  /\ q \in ScanState /\ q.phase = p.phase /\ q.ran = p.ran /\ q.alone = p.alone
         /\ q.directories = p.directories /\ q.files = p.files \ {f} /\ q.index = x
<1>. DEFINE q1 == [p EXCEPT !.scanned = p.scanned + 1]
            q2 == [q1 EXCEPT !.files = p.files \ {f}]
            q3 == [q2 EXCEPT !.index = x]
<1>1. q = q3
  BY Zenon DEF OneLess
<1>2. /\ q1 \in ScanState /\ q1.phase = p.phase /\ q1.ran = p.ran
      /\ q1.alone = p.alone /\ q1.directories = p.directories
  BY DEF ScanState
<1>. HIDE DEF q1
<1>3. /\ q2 \in ScanState /\ q2.phase = p.phase /\ q2.ran = p.ran
      /\ q2.alone = p.alone /\ q2.directories = p.directories
      /\ q2.files = p.files \ {f}
  BY <1>2 DEF ScanState
<1>. HIDE DEF q2
<1>4. /\ q3 \in ScanState /\ q3.phase = p.phase /\ q3.ran = p.ran
      /\ q3.alone = p.alone /\ q3.index = x /\ q3.directories = p.directories
      /\ q3.files = p.files \ {f}
  BY <1>3 DEF ScanState
<1>. HIDE DEF q3
<1>. QED BY <1>1, <1>4

\* A call that fails makes the index incomplete for good, and adds nothing.
LEMMA Failing ==
  ASSUME NEW x \in Index, x.failures < MaxFailure
  PROVE  /\ WithFailure(x) \in Index /\ WithFailure(x).items = x.items
         /\ ~Complete(WithFailure(x))
<1>1. x.failures + 1 \in 0..MaxFailure /\ x.failures + 1 # 0
  BY RepositoryAssumption DEF Index
<1>. QED BY <1>1 DEF WithFailure, Complete, Index

LEMMA Adding ==
  ASSUME NEW x \in Index, NEW f \in File, NEW ran
  PROVE  /\ WithItem(x, f, ran) \in Index
         /\ WithItem(x, f, ran).items =
              [x.items EXCEPT ![f] = IF f \in present THEN StatusOf(f, ran) ELSE @]
         /\ Complete(WithItem(x, f, ran)) = Complete(x)
<1>. DEFINE v == IF f \in present THEN StatusOf(f, ran) ELSE x.items[f]
<1>1. v \in Status \union {"none"}
  BY Statuses DEF Index
<1>2. WithItem(x, f, ran) = [x EXCEPT !.items[f] = v]
  BY DEF WithItem
<1>3. [x.items EXCEPT ![f] = v]
        = [x.items EXCEPT ![f] = IF f \in present THEN StatusOf(f, ran) ELSE @]
  OBVIOUS
<1>. HIDE DEF v
<1>4. /\ [x EXCEPT !.items[f] = v] \in Index
      /\ [x EXCEPT !.items[f] = v].items = [x.items EXCEPT ![f] = v]
      /\ [x EXCEPT !.items[f] = v].truncated = x.truncated
      /\ [x EXCEPT !.items[f] = v].failures = x.failures
  BY <1>1 DEF Index
<1>. QED BY <1>2, <1>3, <1>4 DEF Complete

\* Whatever happens to the page, it stays one.
LEMMA LoadingIsView ==
  ASSUME IsView(view), NEW query
  PROVE  IsView(Loading(query))
<1>. DEFINE v1 == [view EXCEPT !.query = query]
            v2 == [v1 EXCEPT !.loading = TRUE]
            v3 == [v2 EXCEPT !.error = FALSE]
<1>1. Loading(query) = v3
  BY Zenon DEF Loading
<1>2. DOMAIN v1 = DOMAIN view
  OBVIOUS
<1>. HIDE DEF v1
<1>3. DOMAIN v2 = DOMAIN v1
  OBVIOUS
<1>. HIDE DEF v2
<1>4. DOMAIN v3 = DOMAIN v2
  OBVIOUS
<1>. HIDE DEF v3
<1>. QED BY <1>1, <1>2, <1>3, <1>4 DEF IsView

LEMMA LoadFailedIsView ==
  ASSUME NEW v, IsView(v)
  PROVE  IsView(LoadFailed(v))
<1>. DEFINE v1 == [v EXCEPT !.loading = FALSE]
            v2 == [v1 EXCEPT !.error = TRUE]
<1>1. LoadFailed(v) = v2
  BY Zenon DEF LoadFailed
<1>2. DOMAIN v1 = DOMAIN v
  OBVIOUS
<1>. HIDE DEF v1
<1>3. DOMAIN v2 = DOMAIN v1
  OBVIOUS
<1>. HIDE DEF v2
<1>. QED BY <1>1, <1>2, <1>3 DEF IsView

LEMMA ReceivedIsView ==
  ASSUME NEW v, NEW data, IsView(v)
  PROVE  IsView(Received(v, data)) /\ Received(v, data).data = data
<1>. DEFINE v1 == [v EXCEPT !.data = data]
            v2 == [v1 EXCEPT !.loading = FALSE]
<1>1. Received(v, data) = v2
  BY Zenon DEF Received
<1>2. DOMAIN v1 = DOMAIN v /\ v1.data = data
  BY DEF IsView
<1>. HIDE DEF v1
<1>3. DOMAIN v2 = DOMAIN v1 /\ v2.data = v1.data
  BY <1>2 DEF IsView
<1>. HIDE DEF v2
<1>. QED BY <1>1, <1>2, <1>3 DEF IsView

-----------------------------------------------------------------------------
(* The invariant *)

LEMMA IndexInvInit == Init => IndexInv
<1> SUFFICES ASSUME Init PROVE IndexInv
  OBVIOUS
<1>1. Types
  BY NoScanType DEF Init, Types, IsView
<1>2. \A s \in Scan : scan[s].phase = "idle" /\ scan[s].alone
  BY NoScanType DEF Init
<1>3. OneScan /\ SettledIsAlone /\ \A s \in Scan : Looked(s)
  BY <1>2 DEF OneScan, SettledIsAlone, Looked
<1>. QED BY <1>1, <1>3 DEF IndexInv, Init, IndexIsTrue, NothingInvented

\* A step of a scan that leaves the rest as it is.
LEMMA ScanSteps ==
  ASSUME IndexInv, NEW s \in Scan, scan[s].phase # "idle",
         NEW q \in ScanState, scan' = [scan EXCEPT ![s] = q],
         q.phase \in {"runtime", "walk"}, q.alone = scan[s].alone,
         UNCHANGED <<world, scanPromise, cache, view, settled>>, Looked(s)'
  PROVE  IndexInv'
<1>1. Types'
  BY DEF IndexInv, Types, world
<1>2. OneScan' /\ SettledIsAlone'
  BY DEF IndexInv, Types, OneScan, SettledIsAlone
<1>3. IndexIsTrue'
  BY DEF IndexInv, IndexIsTrue, NothingInvented, Complete, TrueIndex, TrueItems, world
<1>4. ASSUME NEW t \in Scan, t # s PROVE Looked(t)'
  BY <1>4 DEF IndexInv, Types, Looked, NothingInvented, Complete, TrueItems, world
<1>. QED BY <1>1, <1>2, <1>3, <1>4 DEF IndexInv

LEMMA ChangedStep ==
  ASSUME IndexInv, Changed, present' \in SUBSET File, running' \in SUBSET File
  PROVE  IndexInv'
<1>. DEFINE new(s) == [scan[s] EXCEPT !.alone = scan[s].phase = "idle"]
<1>1. ASSUME NEW s \in Scan
      PROVE  /\ new(s) \in ScanState /\ new(s).phase = scan[s].phase
             /\ new(s).alone = (scan[s].phase = "idle")
  BY DEF IndexInv, Types, ScanState
<1>2. scan' = [s \in Scan |-> new(s)] /\ settled' = FALSE
      /\ UNCHANGED <<scanPromise, cache, view>>
  BY DEF Changed
<1>. HIDE DEF new
<1>3. \A s \in Scan : scan'[s] = new(s)
  BY <1>2
<1>4. Types'
  BY <1>1, <1>2 DEF IndexInv, Types
<1>5. OneScan' /\ SettledIsAlone' /\ IndexIsTrue'
  BY <1>1, <1>2, <1>3
     DEF IndexInv, OneScan, SettledIsAlone, IndexIsTrue, NothingInvented
<1>6. \A s \in Scan : Looked(s)'
  BY <1>1, <1>3 DEF Looked
<1>. QED BY <1>4, <1>5, <1>6 DEF IndexInv

LEMMA FileChangesStep == ASSUME IndexInv, NEW f \in File, FileChanges(f) PROVE IndexInv'
<1>1. present' \in SUBSET File /\ running' \in SUBSET File
  BY DEF IndexInv, Types, FileChanges
<1>. QED BY <1>1, ChangedStep DEF FileChanges

LEMMA ProjectChangesStep == ASSUME IndexInv, NEW f \in File, ProjectChanges(f) PROVE IndexInv'
<1>1. present' \in SUBSET File /\ running' \in SUBSET File
  BY DEF IndexInv, Types, ProjectChanges
<1>. QED BY <1>1, ChangedStep DEF ProjectChanges

\* What touches only the page, the queries and the time.
LEMMA PageStep ==
  ASSUME IndexInv, UNCHANGED <<world, scan, scanPromise, cache, settled>>, IsView(view')
  PROVE  IndexInv'
BY DEF IndexInv, Types, OneScan, SettledIsAlone, IndexIsTrue, NothingInvented, Looked,
   Complete, TrueIndex, TrueItems, world

LEMMA TickStep == ASSUME IndexInv, Tick PROVE IndexInv'
<1>1. IsView(view')
  BY DEF IndexInv, Types, Tick
<1>. QED BY <1>1, PageStep DEF Tick

LEMMA TimeOutStep == ASSUME IndexInv, NEW i \in DOMAIN waiting, TimeOut(i) PROVE IndexInv'
<1>1. IsView(view')
  BY LoadFailedIsView DEF IndexInv, Types, TimeOut
<1>. QED BY <1>1, PageStep DEF TimeOut

LEMMA AskStep ==
  ASSUME IndexInv, NEW query, NEW anew, Ask(query, anew)
  PROVE  IndexInv'
<1>1. CASE ~anew /\ Valid
  <2>1. /\ view' = Received(Loading(query), Answer(cache, query))
        /\ UNCHANGED <<world, scan, scanPromise, cache, settled>>
    BY <1>1 DEF Ask
  <2>2. IsView(view')
    BY <2>1, LoadingIsView, ReceivedIsView DEF IndexInv, Types
  <2>. QED BY <2>1, <2>2, PageStep
<1>2. CASE ~(~anew /\ Valid)
  <2>1. PICK s \in ScanToJoin :
          /\ scan' = IF s = scanPromise THEN scan
                     ELSE [scan EXCEPT ![s] =
                            [NoScan EXCEPT !.phase = "runtime", !.index = NothingFound]]
          /\ scanPromise' = s
          /\ view' = Loading(query)
    BY <1>2 DEF Ask
  <2>2. UNCHANGED <<world, cache, settled>>
    BY DEF Ask
  <2>3. IsView(view')
    BY <2>1, LoadingIsView DEF IndexInv, Types
  <2>4. CASE s = scanPromise
    BY <2>1, <2>2, <2>3, <2>4, PageStep
  <2>5. CASE s # scanPromise
    <3>1. scanPromise = None /\ s \in Scan /\ scan[s].phase = "idle"
      BY <2>5 DEF ScanToJoin, Idle
    <3>2. \A t \in Scan : scan[t].phase = "idle"
      BY <3>1, RepositoryAssumption DEF IndexInv, OneScan
    <3>. DEFINE q == [NoScan EXCEPT !.phase = "runtime", !.index = NothingFound]
    <3>3. scan' = [scan EXCEPT ![s] = q] /\ scanPromise' = s
      BY <2>1, <2>5
    <3>4. /\ q \in ScanState /\ q.phase = "runtime" /\ q.files = {} /\ q.alone = TRUE
          /\ q.index = EmptyIndex
      BY Started
    <3>. HIDE DEF q
    <3>5. Types'
      BY <3>1, <3>3, <3>4, <2>2, <2>3 DEF IndexInv, Types, world
    <3>6. OneScan' /\ SettledIsAlone'
      BY <3>1, <3>2, <3>3, <3>4 DEF IndexInv, Types, OneScan, SettledIsAlone
    <3>7. IndexIsTrue'
      BY <2>2
         DEF IndexInv, IndexIsTrue, NothingInvented, Complete, TrueIndex, TrueItems, world
    <3>8. \A t \in Scan : Looked(t)'
      BY <3>1, <3>2, <3>3, <3>4 DEF IndexInv, Types, Looked
    <3>. QED BY <3>5, <3>6, <3>7, <3>8 DEF IndexInv
  <2>. QED BY <2>4, <2>5
<1>. QED BY <1>1, <1>2

\* What ReadRuntime and ReadDirectory do to their scan; the index stays as it is,
\* or is from then on incomplete.
SameOrFailed(x, y) ==
  /\ y \in Index /\ y.items = x.items
  /\ y = x \/ ~Complete(y)

LEMMA RuntimeRead ==
  ASSUME IndexInv, NEW s \in Scan, ReadRuntime(s)
  PROVE  \E q \in ScanState :
           /\ scan' = [scan EXCEPT ![s] = q]
           /\ q.phase = "walk" /\ q.directories = Directory
           /\ q.files = scan[s].files /\ q.alone = scan[s].alone
           /\ SameOrFailed(scan[s].index, q.index)
           /\ q.ran \subseteq running /\ (Complete(q.index) => q.ran = running)
<1>1. scan[s] \in ScanState /\ running \in SUBSET File /\ scan[s].index \in Index
  BY DEF IndexInv, Types, ScanState
<1>2. PICK ran \in SUBSET File, x \in Index :
        /\ scan' = [scan EXCEPT ![s] = Walks(scan[s], ran, x)]
        /\ SameOrFailed(scan[s].index, x)
        /\ ran \subseteq running /\ (Complete(x) => ran = running)
  <2>1. CASE Walk(s, running, scan[s].index)
    <3>1. scan' = [scan EXCEPT ![s] = Walks(scan[s], running, scan[s].index)]
      BY <2>1, Zenon DEF Walk, Walks
    <3>. QED BY <1>1, <3>1 DEF SameOrFailed
  <2>2. CASE MayFail(s) /\ Walk(s, NoneRunning, WithFailure(scan[s].index))
    <3>. DEFINE x == WithFailure(scan[s].index)
    <3>1. scan' = [scan EXCEPT ![s] = Walks(scan[s], {}, x)]
      BY <2>2, Zenon DEF Walk, Walks, NoneRunning
    <3>2. x \in Index /\ x.items = scan[s].index.items /\ ~Complete(x)
      BY <1>1, <2>2, Failing DEF MayFail
    <3>3. SameOrFailed(scan[s].index, x)
      BY <3>2 DEF SameOrFailed
    <3>. HIDE DEF x
    <3>. USE <3>2
    <3>. WITNESS {} \in SUBSET File, x \in Index
    <3>. QED BY <3>1, <3>3
  <2>. QED BY <2>1, <2>2 DEF ReadRuntime
<1>. DEFINE q == Walks(scan[s], ran, x)
<1>3. /\ q \in ScanState /\ q.phase = "walk" /\ q.ran = ran /\ q.index = x
      /\ q.directories = Directory /\ q.files = scan[s].files /\ q.alone = scan[s].alone
  BY <1>1, Walking
<1>4. scan' = [scan EXCEPT ![s] = q]
  BY <1>2
<1>. HIDE DEF q
<1>. QED BY <1>2, <1>3, <1>4

LEMMA ReadRuntimeStep == ASSUME IndexInv, NEW s \in Scan, ReadRuntime(s) PROVE IndexInv'
<1>1. PICK q \in ScanState :
        /\ scan' = [scan EXCEPT ![s] = q]
        /\ q.phase = "walk" /\ q.directories = Directory
        /\ q.files = scan[s].files /\ q.alone = scan[s].alone
        /\ SameOrFailed(scan[s].index, q.index)
        /\ q.ran \subseteq running /\ (Complete(q.index) => q.ran = running)
  BY RuntimeRead
<1>2. scan[s].phase = "runtime"
      /\ UNCHANGED <<world, scanPromise, cache, view, settled>>
  BY DEF ReadRuntime
<1>3. scan'[s] = q
  BY <1>1 DEF IndexInv, Types
<1>4. Looked(s)'
  <2>1. SUFFICES ASSUME scan[s].alone
                 PROVE  /\ q.files \subseteq present
                        /\ NothingInvented(q.index)
                        /\ \A f \in File :
                             \/ q.index.items[f] = TrueItems[f]
                             \/ f \in q.files
                             \/ f \in present /\ DirectoryOf[f] \in q.directories
    BY <1>1, <1>2, <1>3 DEF Looked, NothingInvented, Complete, TrueItems, world
  <2>2. q.index.items = EmptyIndex.items /\ q.files = {}
    BY <2>1, <1>1, <1>2 DEF IndexInv, Looked, SameOrFailed
  <2>3. ASSUME NEW f \in File
        PROVE  /\ EmptyIndex.items[f] = "none"
               /\ \/ TrueItems[f] = "none"
                  \/ f \in present /\ DirectoryOf[f] \in Directory
    BY DEF EmptyIndex, TrueItems, Directory
  <2>. QED BY <1>1, <2>2, <2>3 DEF NothingInvented
<1>. QED BY <1>1, <1>2, <1>4, ScanSteps

LEMMA DirectoryRead ==
  ASSUME IndexInv, NEW s \in Scan, NEW d \in Directory, ReadDirectory(s, d)
  PROVE  \E q \in ScanState :
           /\ scan' = [scan EXCEPT ![s] = q]
           /\ q.phase = scan[s].phase /\ q.ran = scan[s].ran /\ q.alone = scan[s].alone
           /\ q.directories = scan[s].directories \ {d}
           /\ SameOrFailed(scan[s].index, q.index)
           /\ q.files \subseteq present
           /\ Complete(q.index) => q.files = {f \in present : DirectoryOf[f] = d}
<1>1. scan[s] \in ScanState /\ present \in SUBSET File /\ scan[s].index \in Index
  BY DEF IndexInv, Types, ScanState
<1>. DEFINE rest == scan[s].directories \ {d}
<1>2. rest \in SUBSET Directory
  BY <1>1 DEF ScanState
<1>3. PICK files \in SUBSET File, x \in Index :
        /\ scan' = [scan EXCEPT ![s] = Reads(scan[s], rest, files, x)]
        /\ SameOrFailed(scan[s].index, x)
        /\ files \subseteq present
        /\ Complete(x) => files = {f \in present : DirectoryOf[f] = d}
  <2>. DEFINE found == {f \in present : DirectoryOf[f] = d}
  <2>1. CASE Listed(s, d, found, scan[s].index)
    <3>1. scan' = [scan EXCEPT ![s] = Reads(scan[s], rest, found, scan[s].index)]
      BY <2>1, Zenon DEF Listed, Reads
    <3>2. found \in SUBSET File /\ found \subseteq present
      BY <1>1
    <3>. QED BY <1>1, <3>1, <3>2 DEF SameOrFailed
  <2>2. CASE MayFail(s) /\ Listed(s, d, {}, WithFailure(scan[s].index))
    <3>. DEFINE x == WithFailure(scan[s].index)
    <3>1. scan' = [scan EXCEPT ![s] = Reads(scan[s], rest, {}, x)]
      BY <2>2, Zenon DEF Listed, Reads
    <3>2. x \in Index /\ x.items = scan[s].index.items /\ ~Complete(x)
      BY <1>1, <2>2, Failing DEF MayFail
    <3>3. SameOrFailed(scan[s].index, x)
      BY <3>2 DEF SameOrFailed
    <3>. HIDE DEF x
    <3>. USE <3>2
    <3>. WITNESS {} \in SUBSET File, x \in Index
    <3>. QED BY <3>1, <3>3
  <2>. QED BY <2>1, <2>2 DEF ReadDirectory
<1>. DEFINE q == Reads(scan[s], rest, files, x)
<1>4. q = Reads(scan[s], rest, files, x)
  OBVIOUS
<1>. HIDE DEF q, rest
<1>5. /\ q \in ScanState /\ q.phase = scan[s].phase /\ q.ran = scan[s].ran
      /\ q.alone = scan[s].alone /\ q.directories = rest
      /\ q.files = files /\ q.index = x
  BY <1>1, <1>4, <1>2, Reading
<1>. QED BY <1>3, <1>4, <1>5 DEF rest

LEMMA ReadDirectoryStep ==
  ASSUME IndexInv, NEW s \in Scan, NEW d \in Directory, ReadDirectory(s, d)
  PROVE  IndexInv'
<1>1. PICK q \in ScanState :
        /\ scan' = [scan EXCEPT ![s] = q]
        /\ q.phase = scan[s].phase /\ q.ran = scan[s].ran /\ q.alone = scan[s].alone
        /\ q.directories = scan[s].directories \ {d}
        /\ SameOrFailed(scan[s].index, q.index)
        /\ q.files \subseteq present
        /\ Complete(q.index) => q.files = {f \in present : DirectoryOf[f] = d}
  BY DirectoryRead
<1>2. scan[s].phase = "walk" /\ scan[s].files = {}
      /\ UNCHANGED <<world, scanPromise, cache, view, settled>>
  BY DEF ReadDirectory
<1>3. scan'[s] = q
  BY <1>1 DEF IndexInv, Types
<1>4. Looked(s)'
  <2>1. SUFFICES ASSUME scan[s].alone
                 PROVE  /\ q.ran \subseteq running
                        /\ NothingInvented(q.index)
                        /\ Complete(q.index) =>
                             /\ q.ran = running
                             /\ \A g \in File :
                                  \/ q.index.items[g] = TrueItems[g]
                                  \/ g \in q.files
                                  \/ g \in present /\ DirectoryOf[g] \in q.directories
    BY <1>1, <1>2, <1>3 DEF Looked, NothingInvented, Complete, TrueItems, world
  <2>2. /\ scan[s].ran \subseteq running /\ NothingInvented(scan[s].index)
        /\ Complete(scan[s].index) =>
             /\ scan[s].ran = running
             /\ \A g \in File :
                  \/ scan[s].index.items[g] = TrueItems[g]
                  \/ g \in present /\ DirectoryOf[g] \in scan[s].directories
    BY <2>1, <1>2 DEF IndexInv, Looked
  <2>3. NothingInvented(q.index)
    BY <1>1, <2>2 DEF NothingInvented, SameOrFailed
  <2>4. ASSUME Complete(q.index)
        PROVE  /\ q.ran = running
               /\ \A g \in File :
                    \/ q.index.items[g] = TrueItems[g]
                    \/ g \in q.files
                    \/ g \in present /\ DirectoryOf[g] \in q.directories
    <3>1. q.index = scan[s].index
      BY <1>1, <2>4 DEF SameOrFailed
    <3>. QED BY <1>1, <2>2, <2>4, <3>1
  <2>. QED BY <1>1, <2>2, <2>3, <2>4
<1>. QED BY <1>1, <1>2, <1>4, ScanSteps

\* InspectComposeFile cuts the walk short, leaves the file out as it fails, or
\* notes the status of the file as the scan knows it.
LEMMA FileInspected ==
  ASSUME IndexInv, NEW s \in Scan, NEW f \in File, InspectComposeFile(s, f)
  PROVE  \E q \in ScanState :
           /\ scan' = [scan EXCEPT ![s] = q]
           /\ q.phase = scan[s].phase /\ q.ran = scan[s].ran /\ q.alone = scan[s].alone
           /\ q.files \subseteq scan[s].files
           /\ \/ q.index.items = scan[s].index.items /\ ~Complete(q.index)
              \/ /\ q.directories = scan[s].directories
                 /\ q.files = scan[s].files \ {f}
                 /\ Complete(q.index) = Complete(scan[s].index)
                 /\ q.index.items =
                      [scan[s].index.items EXCEPT ![f] =
                         IF f \in present THEN StatusOf(f, scan[s].ran) ELSE @]
<1>1. scan[s] \in ScanState /\ scan[s].index \in Index
  BY DEF IndexInv, Types, ScanState
<1>2. CASE CutOff(s)
  <2>. DEFINE q == CutShort(scan[s])
  <2>1. scan' = [scan EXCEPT ![s] = q]
    BY <1>2, Zenon DEF CutOff, CutShort
  <2>2. /\ q \in ScanState /\ q.phase = scan[s].phase /\ q.ran = scan[s].ran
        /\ q.alone = scan[s].alone /\ q.files = {}
        /\ q.index.items = scan[s].index.items /\ q.index.truncated = TRUE
    BY <1>1, CuttingShort
  <2>. HIDE DEF q
  <2>. QED BY <2>1, <2>2 DEF Complete
<1>3. CASE Counted(s, f, WithItem(scan[s].index, f, scan[s].ran))
  <2>. DEFINE x == WithItem(scan[s].index, f, scan[s].ran)
              q == OneLess(scan[s], f, x)
  <2>1. scan' = [scan EXCEPT ![s] = q]
    BY <1>3, Zenon DEF Counted, OneLess
  <2>2. /\ x \in Index /\ Complete(x) = Complete(scan[s].index)
        /\ x.items = [scan[s].index.items EXCEPT ![f] =
                        IF f \in present THEN StatusOf(f, scan[s].ran) ELSE @]
    BY <1>1, Adding
  <2>. HIDE DEF x
  <2>3. /\ q \in ScanState /\ q.phase = scan[s].phase /\ q.ran = scan[s].ran
        /\ q.alone = scan[s].alone
        /\ q.directories = scan[s].directories /\ q.files = scan[s].files \ {f}
        /\ q.index = x
    BY <1>1, <2>2, Inspected
  <2>. HIDE DEF q
  <2>. QED BY <2>1, <2>2, <2>3
<1>4. CASE MayFail(s) /\ Counted(s, f, WithFailure(scan[s].index))
  <2>. DEFINE x == WithFailure(scan[s].index)
              q == OneLess(scan[s], f, x)
  <2>1. scan' = [scan EXCEPT ![s] = q]
    BY <1>4, Zenon DEF Counted, OneLess
  <2>2. x \in Index /\ x.items = scan[s].index.items /\ ~Complete(x)
    BY <1>1, <1>4, Failing DEF MayFail
  <2>. HIDE DEF x
  <2>3. /\ q \in ScanState /\ q.phase = scan[s].phase /\ q.ran = scan[s].ran
        /\ q.alone = scan[s].alone /\ q.files = scan[s].files \ {f} /\ q.index = x
    BY <1>1, <2>2, Inspected
  <2>. HIDE DEF q
  <2>. QED BY <2>1, <2>2, <2>3
<1>. QED BY <1>2, <1>3, <1>4 DEF InspectComposeFile

LEMMA InspectComposeFileStep ==
  ASSUME IndexInv, NEW s \in Scan, NEW f \in File, InspectComposeFile(s, f)
  PROVE  IndexInv'
<1>1. PICK q \in ScanState :
        /\ scan' = [scan EXCEPT ![s] = q]
        /\ q.phase = scan[s].phase /\ q.ran = scan[s].ran /\ q.alone = scan[s].alone
        /\ q.files \subseteq scan[s].files
        /\ \/ q.index.items = scan[s].index.items /\ ~Complete(q.index)
           \/ /\ q.directories = scan[s].directories
              /\ q.files = scan[s].files \ {f}
              /\ Complete(q.index) = Complete(scan[s].index)
              /\ q.index.items =
                   [scan[s].index.items EXCEPT ![f] =
                      IF f \in present THEN StatusOf(f, scan[s].ran) ELSE @]
  BY FileInspected
<1>2. scan[s].phase = "walk" /\ f \in scan[s].files
      /\ UNCHANGED <<world, scanPromise, cache, view, settled>>
  BY DEF InspectComposeFile
<1>3. scan'[s] = q
  BY <1>1 DEF IndexInv, Types
<1>4. Looked(s)'
  <2>1. SUFFICES ASSUME scan[s].alone
                 PROVE  /\ q.ran \subseteq running /\ q.files \subseteq present
                        /\ NothingInvented(q.index)
                        /\ Complete(q.index) =>
                             /\ q.ran = running
                             /\ \A g \in File :
                                  \/ q.index.items[g] = TrueItems[g]
                                  \/ g \in q.files
                                  \/ g \in present /\ DirectoryOf[g] \in q.directories
    BY <1>1, <1>2, <1>3 DEF Looked, NothingInvented, Complete, TrueItems, world
  <2>2. /\ scan[s].ran \subseteq running /\ scan[s].files \subseteq present
        /\ NothingInvented(scan[s].index)
        /\ Complete(scan[s].index) =>
             /\ scan[s].ran = running
             /\ \A g \in File :
                  \/ scan[s].index.items[g] = TrueItems[g]
                  \/ g \in scan[s].files
                  \/ g \in present /\ DirectoryOf[g] \in scan[s].directories
    BY <2>1, <1>2 DEF IndexInv, Looked
  <2>3. f \in present
    BY <1>2, <2>2
  <2>4. scan[s].index.items \in [File -> Status \union {"none"}]
    BY DEF IndexInv, Types, ScanState, Index
  <2>5. NothingInvented(q.index)
    <3>1. CASE q.index.items = scan[s].index.items
      BY <2>2, <3>1 DEF NothingInvented
    <3>2. CASE q.index.items = [scan[s].index.items EXCEPT ![f] =
                                  IF f \in present THEN StatusOf(f, scan[s].ran) ELSE @]
      <4>1. StatusOf(f, scan[s].ran) = "running" => TrueItems[f] = "running"
        BY <2>2, <2>3, RunningToo
      <4>2. \A g \in File : q.index.items[g] = IF g = f THEN StatusOf(f, scan[s].ran)
                                               ELSE scan[s].index.items[g]
        BY <2>3, <2>4, <3>2
      <4>. QED BY <2>2, <2>3, <4>1, <4>2 DEF NothingInvented
    <3>. QED BY <1>1, <3>1, <3>2
  <2>6. ASSUME Complete(q.index)
        PROVE  /\ q.ran = running
               /\ \A g \in File :
                    \/ q.index.items[g] = TrueItems[g]
                    \/ g \in q.files
                    \/ g \in present /\ DirectoryOf[g] \in q.directories
    <3>1. /\ scan[s].ran = running
          /\ q.directories = scan[s].directories /\ q.files = scan[s].files \ {f}
          /\ q.index.items = [scan[s].index.items EXCEPT ![f] = StatusOf(f, running)]
      BY <1>1, <2>2, <2>3, <2>6
    <3>2. StatusOf(f, running) = TrueItems[f]
      BY <2>3 DEF TrueItems
    <3>. QED BY <1>1, <2>2, <2>4, <2>6, <3>1, <3>2
  <2>. QED BY <1>1, <2>2, <2>5, <2>6
<1>. QED BY <1>1, <1>2, <1>4, ScanSteps

\* An undisturbed scan none of whose calls failed ends with what there is, or has
\* been cut off.
LEMMA EndsTrue ==
  ASSUME IndexInv, NEW s \in Scan, scan[s].phase = "walk", scan[s].alone,
         scan[s].directories = {}, scan[s].files = {}, Complete(scan[s].index)
  PROVE  scan[s].index = TrueIndex
<1>1. scan[s].index \in Index
  BY DEF IndexInv, Types, ScanState
<1>2. \A f \in File : scan[s].index.items[f] = TrueItems[f]
  BY DEF IndexInv, Looked
<1>3. scan[s].index.items = TrueItems
  BY <1>1, <1>2, TrueItemsType DEF Index
<1>. QED BY <1>1, <1>3 DEF Index, TrueIndex, Complete

LEMMA ScanEndsStep == ASSUME IndexInv, NEW s \in Scan, ScanEnds(s) PROVE IndexInv'
<1>. DEFINE answered == SelectSeq(waiting, LAMBDA q : WaitsFor(s, q) /\ q.open)
<1>1. /\ scan[s].phase = "walk" /\ scan[s].directories = {} /\ scan[s].files = {}
      /\ cache' = scan[s].index /\ scanPromise' = None
      /\ settled' = (settled \/ scan[s].alone)
      /\ scan' = [scan EXCEPT ![s] = NoScan] /\ UNCHANGED world
  BY DEF ScanEnds
<1>2. view' = IF answered = <<>> THEN view
              ELSE Received(view, Answer(scan[s].index, Last(answered).query))
  BY DEF ScanEnds
<1>. HIDE DEF answered
<1>3. Types'
  <2>1. IsView(view')
    BY <1>2, ReceivedIsView DEF IndexInv, Types
  <2>. QED BY <1>1, <2>1, NoScanType DEF IndexInv, Types, world
<1>4. \A t \in Scan : scan'[t].phase = "idle" /\ scan'[t].alone
  BY <1>1, NoScanType DEF IndexInv, Types, OneScan
<1>5. OneScan' /\ SettledIsAlone' /\ \A t \in Scan : Looked(t)'
  BY <1>4 DEF OneScan, SettledIsAlone, Looked
<1>6. settled' => scan[s].alone
  BY <1>1 DEF IndexInv, SettledIsAlone
<1>7. settled' => NothingInvented(cache)'
  <2>1. UNCHANGED <<present, TrueItems>>
    BY <1>1 DEF TrueItems, world
  <2>2. settled' => NothingInvented(scan[s].index)
    BY <1>1, <1>6 DEF IndexInv, Looked
  <2>. QED BY <1>1, <2>1, <2>2 DEF NothingInvented
<1>8. settled' /\ Complete(cache)' => cache' = TrueIndex'
  <2>1. UNCHANGED TrueIndex
    BY <1>1 DEF TrueIndex, TrueItems, world
  <2>. QED BY <1>1, <1>6, <2>1, EndsTrue DEF Complete
<1>9. IndexIsTrue'
  BY <1>7, <1>8 DEF IndexIsTrue
<1>. QED BY <1>3, <1>5, <1>9 DEF IndexInv

LEMMA IndexInvStep == IndexInv /\ [Next]_vars => IndexInv'
<1> SUFFICES ASSUME IndexInv, [Next]_vars PROVE IndexInv'
  OBVIOUS
<1>1. CASE \E query, anew : Ask(query, anew)
  BY <1>1, AskStep
<1>2. CASE \E i \in DOMAIN waiting : TimeOut(i)
  BY <1>2, TimeOutStep
<1>3. CASE \E s \in Scan : Step(s)
  BY <1>3, ReadRuntimeStep, ScanEndsStep, ReadDirectoryStep, InspectComposeFileStep
     DEF Step
<1>4. CASE \E f \in File : FileChanges(f) \/ ProjectChanges(f)
  BY <1>4, FileChangesStep, ProjectChangesStep
<1>5. CASE Tick
  BY <1>5, TickStep
<1>6. CASE UNCHANGED vars
  <2>1. IsView(view')
    BY <1>6 DEF IndexInv, Types, vars
  <2>. QED BY <1>6, <2>1, PageStep DEF vars, world
<1>. QED BY <1>1, <1>2, <1>3, <1>4, <1>5, <1>6 DEF Next

\* A walk ends with the scan.
LEMMA WalkEnds ==
  ASSUME IndexInv, Next, NEW s \in Scan, scan[s].phase = "walk", scan'[s].phase = "idle"
  PROVE  ScanEnds(s)
<1>1. ASSUME NEW query, NEW anew, Ask(query, anew) PROVE FALSE
  <2>1. CASE ~anew /\ Valid
    BY <1>1, <2>1 DEF Ask
  <2>2. CASE ~(~anew /\ Valid)
    <3>. DEFINE q == [NoScan EXCEPT !.phase = "runtime", !.index = NothingFound]
    <3>1. PICK t \in ScanToJoin :
            scan' = IF t = scanPromise THEN scan ELSE [scan EXCEPT ![t] = q]
      BY <1>1, <2>2, Zenon DEF Ask
    <3>. HIDE DEF q
    <3>2. t # scanPromise => t \in Scan /\ scan[t].phase = "idle"
      BY DEF ScanToJoin, Idle
    <3>. QED BY <3>1, <3>2 DEF IndexInv, Types
  <2>. QED BY <2>1, <2>2
<1>2. ASSUME NEW t \in Scan, ReadRuntime(t) PROVE FALSE
  BY <1>2, RuntimeRead DEF IndexInv, Types
<1>3. ASSUME NEW t \in Scan, NEW d \in Directory, ReadDirectory(t, d) PROVE FALSE
  BY <1>3, DirectoryRead DEF IndexInv, Types
<1>4. ASSUME NEW t \in Scan, NEW f \in File, InspectComposeFile(t, f) PROVE FALSE
  BY <1>4, FileInspected DEF IndexInv, Types
<1>5. ASSUME NEW t \in Scan, t # s, ScanEnds(t) PROVE FALSE
  BY <1>5 DEF ScanEnds, IndexInv, Types
<1>6. ASSUME Changed PROVE FALSE
  <2>. DEFINE new(t) == [scan[t] EXCEPT !.alone = scan[t].phase = "idle"]
  <2>1. new(s).phase = scan[s].phase
    BY DEF IndexInv, Types, ScanState
  <2>2. scan' = [t \in Scan |-> new(t)]
    BY <1>6 DEF Changed
  <2>. HIDE DEF new
  <2>. QED BY <2>1, <2>2
<1>7. ASSUME UNCHANGED scan PROVE FALSE
  BY <1>7
<1>. QED BY <1>1, <1>2, <1>3, <1>4, <1>5, <1>6, <1>7
        DEF Next, Step, TimeOut, FileChanges, ProjectChanges, Tick

LEMMA IndexInvAlways == Spec => []IndexInv
BY IndexInvInit, IndexInvStep, PTL DEF Spec

-----------------------------------------------------------------------------
\* After a scan that nothing disturbed, and until something changes, getIndex
\* serves an index that lists no file that is not there and none as running that
\* does not run, whatever calls of the scan failed (getRuntimeEntries, walk and
\* inspectComposeFile swallow their errors); if none did, it serves what there is,
\* unless there are more files than are looked at.
THEOREM IndexAlwaysTrue == Spec => []IndexIsTrue
<1>1. IndexInv => IndexIsTrue
  BY DEF IndexInv
<1>. QED BY <1>1, IndexInvAlways, PTL

\* Of the queries that wait for a scan (scanPromise), the page shows the answer
\* to the one asked last, and it is true if nothing disturbed the scan and no
\* call of it failed.
THEOREM RefreshAnswersTheLast == Spec => RefreshIsTrue
<1>. DEFINE Holds ==
       \A s \in Scan :
         scan[s].phase = "walk" /\ scan'[s].phase = "idle" /\ scan[s].alone
           /\ Complete(scan[s].index) =>
           LET open == SelectSeq(waiting, LAMBDA q : q.for = s /\ q.open)
           IN  open # <<>> => view'.data = Answer(TrueIndex, Last(open).query)
<1>1. IndexInv /\ [Next]_vars => [Holds]_vars
  <2>1. SUFFICES ASSUME IndexInv, Next, NEW s \in Scan,
                        scan[s].phase = "walk", scan'[s].phase = "idle",
                        scan[s].alone, Complete(scan[s].index)
                 PROVE  LET open == SelectSeq(waiting, LAMBDA q : q.for = s /\ q.open)
                        IN  open # <<>> =>
                              view'.data = Answer(TrueIndex, Last(open).query)
    OBVIOUS
  <2>2. ScanEnds(s)
    BY <2>1, WalkEnds
  <2>. DEFINE open == SelectSeq(waiting, LAMBDA q : q.for = s /\ q.open)
  <2>3. SUFFICES ASSUME open # <<>>
                 PROVE  view'.data = Answer(TrueIndex, Last(open).query)
    OBVIOUS
  <2>4. view' = IF open = <<>> THEN view
                ELSE Received(view, Answer(scan[s].index, Last(open).query))
    BY <2>2 DEF ScanEnds, WaitsFor
  <2>. HIDE DEF open
  <2>5. scan[s].index = TrueIndex
    BY <2>1, <2>2, EndsTrue DEF ScanEnds
  <2>6. view' = Received(view, Answer(scan[s].index, Last(open).query))
    BY <2>3, <2>4
  <2>7. view' = Received(view, Answer(TrueIndex, Last(open).query))
    BY <2>5, <2>6
  <2>8. IsView(view)
    BY <2>1 DEF IndexInv, Types
  <2>. QED BY <2>7, <2>8, ReceivedIsView
<1>. QED BY <1>1, IndexInvAlways, PTL DEF Spec, RefreshIsTrue

-----------------------------------------------------------------------------
(* The list of stacks *)

\* An object is of one stack.
OneStackEach ==
  \A i, j \in 1..Len(map), s, t \in Stack :
    map[i][s] # 0 /\ map[i][s] = map[j][t] => s = t

\* What holds of a refresh by itself.
FitsPhase(q) ==
  /\ q.phase \in {"scan", "check", "get", "nested"} => q.full
  /\ q.phase \in {"get", "nested"} => q.name \in q.names
  /\ q.phase = "nested" => ~q.alone
  /\ q.for # 0 => q.to = {}

\* Who waits for a refresh is waiting, and for no other.
Calls(r) ==
  refresh[r].for # 0 =>
    /\ refresh[refresh[r].for].phase = "nested"
    /\ \A e \in Number \ {r} : Working(e) => refresh[e].for # refresh[r].for

\* A full refresh has a map of its own.
OwnMap(r) ==
  refresh[r].full =>
    /\ refresh[r].map # managedStackList
    /\ \A e \in Number \ {r} : Working(e) => refresh[e].map # refresh[r].map

ProjectList == [s \in Stack |-> IF project[s] = {} THEN "none" ELSE StatusConvert(project[s])]

\* And, undisturbed, objects of its own, for the stacks it has looked at.
LookedAt(r) ==
  LET q == refresh[r] IN
  /\ q.alone /\ q.phase = "listed" => q.result = ProjectList
  /\ q.alone /\ q.full =>
       /\ q.phase = "scan" => \A s \in Stack : map[q.map][s] = 0
       /\ q.phase \in {"check", "get"} =>
            /\ q.names \subseteq dir
            /\ \A s \in Stack : map[q.map][s] # 0 <=> s \in dir \ q.names
       /\ q.phase \in {"list", "listed"} =>
            \A s \in Stack : map[q.map][s] # 0 <=> s \in dir
       /\ \A s \in Stack : map[q.map][s] # 0 =>
            /\ object[map[q.map][s]] = "file"
            /\ \A j \in 1..Len(map) \ {q.map}, t \in Stack : map[j][t] # map[q.map][s]

\* What a map says of a stack.
Says(i, s) == IF map[i][s] = 0 THEN "none" ELSE object[map[i][s]]
TrueMap(i) == \A s \in Stack : Says(i, s) = Truth[s]

\* Once steady, what is cached is true, and so is what works on it.
SteadyIsTrue ==
  steady =>
    /\ TrueMap(managedStackList)
    /\ \A r \in Number : Working(r) =>
         /\ refresh[r].alone
         /\ ~refresh[r].full => TrueMap(refresh[r].map)

ListInv ==
  /\ ListingTypeOK
  /\ OneStackEach
  /\ \A r \in Number : Working(r) =>
       FitsPhase(refresh[r]) /\ Calls(r) /\ OwnMap(r) /\ LookedAt(r)
  /\ SteadyIsTrue

-----------------------------------------------------------------------------
(* Records *)

LEMMA NewType ==
  /\ New \in Refresh /\ New.phase = "new" /\ New.full = FALSE /\ New.to = {}
  /\ New.names = {} /\ New.name = NoStack /\ New.for = 0 /\ New.alone = TRUE /\ New.map = 1
<1>1. Empty \in List
  BY DEF Empty, List
<1>. QED BY <1>1, ListingAssumption DEF New, Refresh, Phase

\* A refresh that is over has forgotten all.
LEMMA OverType ==
  ASSUME NEW q, q = [New EXCEPT !.phase = "done"]
  PROVE  q \in Refresh /\ q.phase = "done" /\ q.map = 1
BY NewType DEF Refresh, Phase

\* A refresh that begins.
Beginning(phase, full, to, for, m) ==
  [New EXCEPT !.phase = phase, !.full = full, !.to = to, !.for = for, !.map = m]

HasBegun(q, phase, full, to, for, m) ==
  /\ q \in Refresh /\ q.phase = phase /\ q.full = full /\ q.to = to
  /\ q.for = for /\ q.map = m /\ q.alone = TRUE

LEMMA BegunType ==
  ASSUME NEW phase \in Phase, NEW full \in BOOLEAN, NEW to \in SUBSET Browser,
         NEW for \in 0..MaxRefresh, NEW m \in Nat, NEW q,
         q = Beginning(phase, full, to, for, m)
  PROVE  HasBegun(q, phase, full, to, for, m)
<1>. DEFINE q1 == [New EXCEPT !.phase = phase]
            q2 == [q1 EXCEPT !.full = full]
            q3 == [q2 EXCEPT !.to = to]
            q4 == [q3 EXCEPT !.for = for]
            q5 == [q4 EXCEPT !.map = m]
<1>1. q = q5
  BY Zenon DEF Beginning
<1>2. q1 \in Refresh /\ q1.phase = phase /\ q1.alone = TRUE
  BY NewType DEF Refresh
<1>. HIDE DEF q1
<1>3. q2 \in Refresh /\ q2.phase = phase /\ q2.alone = TRUE /\ q2.full = full
  BY <1>2 DEF Refresh
<1>. HIDE DEF q2
<1>4. /\ q3 \in Refresh /\ q3.phase = phase /\ q3.alone = TRUE /\ q3.full = full
      /\ q3.to = to
  BY <1>3 DEF Refresh
<1>. HIDE DEF q3
<1>5. /\ q4 \in Refresh /\ q4.phase = phase /\ q4.alone = TRUE /\ q4.full = full
      /\ q4.to = to /\ q4.for = for
  BY <1>4 DEF Refresh
<1>. HIDE DEF q4
<1>6. /\ q5 \in Refresh /\ q5.phase = phase /\ q5.alone = TRUE /\ q5.full = full
      /\ q5.to = to /\ q5.for = for /\ q5.map = m
  BY <1>5 DEF Refresh
<1>. HIDE DEF q5
<1>. QED BY <1>1, <1>6 DEF HasBegun

\* Nothing but its phase, the entries and the result changes while it works.
SameRun(q, p) ==
  /\ p \in Refresh
  /\ p.full = q.full /\ p.map = q.map /\ p.for = q.for /\ p.to = q.to /\ p.alone = q.alone

LEMMA AdvancedType ==
  ASSUME NEW q \in Refresh
  PROVE  /\ SameRun(q, Advanced(q))
         /\ Advanced(q).names = q.names \ {q.name}
         /\ Advanced(q).phase = IF q.names = {q.name} THEN "list" ELSE "check"
<1>. DEFINE p == IF q.names = {q.name} THEN "list" ELSE "check"
            q1 == [q EXCEPT !.names = q.names \ {q.name}]
            q2 == [q1 EXCEPT !.name = NoStack]
            q3 == [q2 EXCEPT !.phase = p]
<1>1. Advanced(q) = q3
  BY Zenon DEF Advanced
<1>2. p \in Phase
  BY DEF Phase
<1>. HIDE DEF p
<1>3. SameRun(q, q1) /\ q1.names = q.names \ {q.name}
  BY DEF SameRun, Refresh
<1>. HIDE DEF q1
<1>4. SameRun(q, q2) /\ q2.names = q.names \ {q.name}
  BY <1>3 DEF SameRun, Refresh
<1>. HIDE DEF q2
<1>5. SameRun(q, q3) /\ q3.names = q.names \ {q.name} /\ q3.phase = p
  BY <1>2, <1>4 DEF SameRun, Refresh
<1>. HIDE DEF q3
<1>. QED BY <1>1, <1>5 DEF p

LEMMA Appended ==
  ASSUME NEW S, NEW q \in Seq(S), NEW x \in S
  PROVE  /\ Append(q, x) \in Seq(S) /\ Len(Append(q, x)) = Len(q) + 1
         /\ Append(q, x)[Len(q) + 1] = x
         /\ \A i \in 1..Len(q) : Append(q, x)[i] = q[i]
OBVIOUS

LEMMA StatusType ==
  ASSUME NEW x
  PROVE  StatusConvert(x) \in StackStatus /\ StatusConvert(x) # "none"
BY DEF StatusConvert, StackStatus

LEMMA ProjectListType == ProjectList \in List
BY StatusType DEF ProjectList, List

-----------------------------------------------------------------------------
(* What a step leaves alone *)

Counts ==
  /\ browser \in [Browser -> View] /\ events \in 0..MaxEvent /\ faults \in 0..MaxFault
  /\ steady \in BOOLEAN

\* A full refresh that is undisturbed keeps its map and its objects.
Spared(e) ==
  LET i == refresh[e].map IN
  /\ i \in 1..Len(map)'
  /\ map'[i] = map[i]
  /\ \A s \in Stack : map[i][s] # 0 =>
       /\ object'[map[i][s]] = object[map[i][s]]
       /\ \A j \in 1..Len(map)' \ {i}, t \in Stack : map'[j][t] # map[i][s]

LEMMA LookedStays ==
  ASSUME NEW e \in Number, UNCHANGED reality, LookedAt(e),
         refresh'[e] = refresh[e],
         refresh[e].full /\ refresh[e].alone => Spared(e)
  PROVE  LookedAt(e)'
<1>. DEFINE q == refresh[e]
<1>1. q.alone /\ q.phase = "listed" => q.result = ProjectList'
  BY DEF LookedAt, ProjectList, reality
<1>2. CASE q.full /\ q.alone
  BY <1>1, <1>2 DEF LookedAt, Spared, reality
<1>3. CASE ~(q.full /\ q.alone)
  BY <1>1, <1>3 DEF LookedAt
<1>. QED BY <1>2, <1>3

LEMMA HeapSpares ==
  ASSUME UNCHANGED heap, NEW e \in Number, refresh[e].map \in 1..Len(map),
         LookedAt(e), refresh[e].full /\ refresh[e].alone
  PROVE  Spared(e)
BY DEF Spared, heap, LookedAt

\* A refresh goes on, and nothing else does.
LEMMA ProceedKeeps ==
  ASSUME ListInv, NEW r \in Number, NEW p, Working(r), refresh[r].phase # "nested",
         refresh' = [refresh EXCEPT ![r] = p],
         SameRun(refresh[r], p), FitsPhase(p), p.phase \notin {"new", "done"},
         LookedAt(r)', UNCHANGED <<reality, heap, steady>>, Counts'
  PROVE  ListInv'
<1>0. /\ ListingTypeOK /\ refresh \in [Number -> Refresh] /\ OneStackEach
      /\ \A e \in Number : Working(e) =>
           FitsPhase(refresh[e]) /\ Calls(e) /\ OwnMap(e) /\ LookedAt(e)
  BY DEF ListInv, ListingTypeOK
<1>1. refresh'[r] = p /\ \A e \in Number \ {r} : refresh'[e] = refresh[e]
  BY <1>0
<1>2. ListingTypeOK'
  BY <1>0, <1>1 DEF ListingTypeOK, SameRun, Counts, reality, heap
<1>3. OneStackEach'
  BY <1>0 DEF OneStackEach, heap
<1>4. \A e \in Number : Working(e)' <=> Working(e)
  BY <1>1 DEF Working
<1>5. ASSUME NEW e \in Number, Working(e)
      PROVE  FitsPhase(refresh[e])' /\ Calls(e)' /\ OwnMap(e)' /\ LookedAt(e)'
  <2>1. FitsPhase(refresh'[e])
    BY <1>0, <1>1, <1>5
  <2>2. Calls(e)'
    <3>1. refresh'[e].for = refresh[e].for
      BY <1>1 DEF SameRun
    <3>2. \A f \in Number : refresh'[f].for = refresh[f].for
      BY <1>1 DEF SameRun
    <3>3. refresh[e].for \in 0..MaxRefresh
      BY <1>0 DEF Refresh
    <3>4. refresh[e].for # 0 => refresh[e].for \in Number \ {r}
      BY <1>0, <1>5, <3>3, ListingAssumption DEF Calls, Number
    <3>. QED BY <1>0, <1>1, <1>4, <1>5, <3>1, <3>2, <3>4 DEF Calls
  <2>3. OwnMap(e)'
    BY <1>0, <1>1, <1>4, <1>5 DEF OwnMap, SameRun, heap
  <2>4. LookedAt(e)'
    <3>1. CASE e = r
      BY <3>1
    <3>2. CASE e # r
      <4>1. refresh[e].map \in 1..Len(map)
        BY <1>0 DEF ListingTypeOK
      <4>. QED BY <1>0, <1>1, <1>5, <3>2, <4>1, HeapSpares, LookedStays
    <3>. QED BY <3>1, <3>2
  <2>. QED BY <2>1, <2>2, <2>3, <2>4
<1>6. SteadyIsTrue'
  <2>1. \A i : TrueMap(i)' <=> TrueMap(i)
    BY DEF TrueMap, Says, Truth, reality, heap
  <2>2. \A e \in Number : /\ refresh'[e].alone = refresh[e].alone
                          /\ refresh'[e].full = refresh[e].full
                          /\ refresh'[e].map = refresh[e].map
    BY <1>1 DEF SameRun
  <2>3. SteadyIsTrue
    BY DEF ListInv
  <2>. QED BY <1>4, <2>1, <2>2, <2>3 DEF SteadyIsTrue, heap
<1>. QED BY <1>2, <1>3, <1>4, <1>5, <1>6 DEF ListInv

-----------------------------------------------------------------------------
(* Refreshes that go on *)

LEMMA Inside ==
  ASSUME ListInv, NEW r \in Number, Working(r)
  PROVE  /\ refresh \in [Number -> Refresh] /\ refresh[r] \in Refresh
         /\ refresh[r].map \in 1..Len(map)
         /\ FitsPhase(refresh[r]) /\ Calls(r) /\ OwnMap(r) /\ LookedAt(r)
BY DEF ListInv, ListingTypeOK

LEMMA ScanKeeps ==
  ASSUME ListInv, NEW r \in Number, AddManagedStacks(r)
  PROVE  ListInv'
<1>. DEFINE q == refresh[r]
            p == IF dir = {} THEN "list" ELSE "check"
            q1 == [q EXCEPT !.phase = p]
            q2 == [q1 EXCEPT !.names = dir]
<1>0. q.phase = "scan" /\ Working(r)
  BY DEF AddManagedStacks, Working
<1>1. /\ refresh \in [Number -> Refresh] /\ q \in Refresh /\ dir \in SUBSET Stack
      /\ FitsPhase(q) /\ LookedAt(r)
  BY <1>0, Inside DEF ListInv, ListingTypeOK
<1>2. refresh' = [refresh EXCEPT ![r] = q2]
  BY <1>1, Zenon DEF AddManagedStacks
<1>3. p \in Phase
  BY DEF Phase
<1>. HIDE DEF p
<1>4. SameRun(q, q1) /\ q1.phase = p
  BY <1>1, <1>3 DEF SameRun, Refresh
<1>. HIDE DEF q1
<1>5. SameRun(q, q2) /\ q2.phase = p /\ q2.names = dir
  BY <1>1, <1>4 DEF SameRun, Refresh
<1>. HIDE DEF q2
<1>6. refresh'[r] = q2
  BY <1>1, <1>2
<1>7. UNCHANGED <<reality, heap, steady>> /\ Counts'
  BY DEF AddManagedStacks, Counts, ListInv, ListingTypeOK
<1>8. FitsPhase(q2)
  BY <1>0, <1>1, <1>5 DEF FitsPhase, SameRun, p
<1>9. LookedAt(r)'
  BY <1>0, <1>1, <1>5, <1>6, <1>7 DEF LookedAt, SameRun, p, reality, heap
<1>. QED BY <1>0, <1>2, <1>5, <1>7, <1>8, <1>9, ProceedKeeps DEF p

LEMMA CheckKeeps ==
  ASSUME ListInv, NEW r \in Number, NEW s \in Stack, Check(r, s)
  PROVE  ListInv'
<1>. DEFINE q == [refresh[r] EXCEPT !.name = s]
            p == [q EXCEPT !.phase = "get"]
<1>0. refresh[r].phase = "check" /\ s \in refresh[r].names /\ Working(r)
  BY DEF Check, Working
<1>1. /\ refresh \in [Number -> Refresh] /\ refresh[r] \in Refresh
      /\ FitsPhase(refresh[r]) /\ LookedAt(r)
  BY <1>0, Inside
<1>2. UNCHANGED <<reality, heap, steady>> /\ Counts'
  BY DEF Check, Counts, ListInv, ListingTypeOK
<1>3. SameRun(refresh[r], q) /\ q.phase = "check" /\ q.name = s /\ q.names = refresh[r].names
  BY <1>0, <1>1 DEF SameRun, Refresh
<1>4. refresh' = [refresh EXCEPT ![r] = IF s \in dir THEN p ELSE Advanced(q)]
  BY DEF Check
<1>. HIDE DEF q
<1>5. CASE s \in dir
  <2>1. SameRun(refresh[r], p) /\ p.phase = "get" /\ p.name = s /\ p.names = refresh[r].names
    BY <1>3 DEF SameRun, Refresh, Phase
  <2>. HIDE DEF p
  <2>2. refresh' = [refresh EXCEPT ![r] = p] /\ refresh'[r] = p
    BY <1>1, <1>4, <1>5
  <2>3. FitsPhase(p)
    BY <1>0, <1>1, <2>1 DEF FitsPhase, SameRun
  <2>4. LookedAt(r)'
    BY <1>0, <1>1, <1>2, <2>1, <2>2 DEF LookedAt, SameRun, reality, heap
  <2>. QED BY <1>0, <1>2, <2>1, <2>2, <2>3, <2>4, ProceedKeeps
<1>6. CASE s \notin dir
  <2>. DEFINE z == Advanced(q)
  <2>1. /\ SameRun(refresh[r], z) /\ z.names = refresh[r].names \ {s}
        /\ z.phase = "list" \/ z.phase = "check"
    BY <1>3, AdvancedType DEF SameRun
  <2>. HIDE DEF z
  <2>2. refresh' = [refresh EXCEPT ![r] = z] /\ refresh'[r] = z
    BY <1>1, <1>4, <1>6 DEF z
  <2>3. FitsPhase(z)
    BY <1>0, <1>1, <2>1 DEF FitsPhase, SameRun
  <2>4. ~(refresh[r].alone /\ refresh[r].full)
    BY <1>0, <1>1, <1>6 DEF LookedAt
  <2>5. LookedAt(r)'
    BY <2>1, <2>2, <2>4 DEF LookedAt, SameRun
  <2>. QED BY <1>0, <1>2, <2>1, <2>2, <2>3, <2>5, ProceedKeeps
<1>. QED BY <1>5, <1>6

LEMMA ComposeLsKeeps ==
  ASSUME ListInv, NEW r \in Number, ComposeLs(r)
  PROVE  ListInv'
<1>. DEFINE q == refresh[r]
            q1 == [q EXCEPT !.phase = "listed"]
            q2 == [q1 EXCEPT !.result = ProjectList]
<1>0. q.phase = "list" /\ Working(r)
  BY DEF ComposeLs, Working
<1>1. /\ refresh \in [Number -> Refresh] /\ q \in Refresh
      /\ FitsPhase(q) /\ LookedAt(r)
  BY <1>0, Inside
<1>2. refresh' = [refresh EXCEPT ![r] = q2]
  BY <1>1, Zenon DEF ComposeLs, ProjectList
<1>3. SameRun(q, q1) /\ q1.phase = "listed"
  BY <1>1 DEF SameRun, Refresh, Phase
<1>. HIDE DEF q1
<1>4. SameRun(q, q2) /\ q2.phase = "listed" /\ q2.result = ProjectList
  BY <1>3, ProjectListType DEF SameRun, Refresh
<1>. HIDE DEF q2
<1>5. refresh'[r] = q2
  BY <1>1, <1>2
<1>6. UNCHANGED <<reality, heap, steady>> /\ Counts'
  BY DEF ComposeLs, Counts, ListInv, ListingTypeOK
<1>7. FitsPhase(q2)
  BY <1>0, <1>1, <1>4 DEF FitsPhase, SameRun
<1>8. ProjectList' = ProjectList
  BY <1>6 DEF ProjectList, reality
<1>9. LookedAt(r)'
  BY <1>0, <1>1, <1>4, <1>5, <1>6, <1>8 DEF LookedAt, SameRun, reality, heap
<1>. QED BY <1>0, <1>2, <1>4, <1>6, <1>7, <1>9, ProceedKeeps

\* A refresh that passed something over is no longer undisturbed, and what is
\* shown no longer steady.
LEMMA SwallowedKeeps ==
  ASSUME ListInv, NEW r \in Number, NEW p, Working(r), refresh[r].phase # "nested",
         Swallowed(r, p), SameRun(refresh[r], p), p.phase \in {"list", "check"},
         p.phase = "check" => refresh[r].full
  PROVE  ListInv'
<1>. DEFINE z == [p EXCEPT !.alone = FALSE]
<1>0. /\ ListingTypeOK /\ refresh \in [Number -> Refresh] /\ OneStackEach
      /\ \A e \in Number : Working(e) =>
           FitsPhase(refresh[e]) /\ Calls(e) /\ OwnMap(e) /\ LookedAt(e)
  BY DEF ListInv, ListingTypeOK
<1>1. /\ z \in Refresh /\ ~z.alone /\ z.phase = p.phase
      /\ z.full = refresh[r].full /\ z.map = refresh[r].map
      /\ z.for = refresh[r].for /\ z.to = refresh[r].to
  BY DEF SameRun, Refresh
<1>2. refresh' = [refresh EXCEPT ![r] = z]
  BY DEF Swallowed
<1>. HIDE DEF z
<1>3. refresh'[r] = z /\ \A e \in Number \ {r} : refresh'[e] = refresh[e]
  BY <1>0, <1>2
<1>4. /\ UNCHANGED <<reality, heap, browser, events>> /\ steady' = FALSE
      /\ faults' \in 0..MaxFault
  BY <1>0, ListingAssumption DEF Swallowed, ListingTypeOK
<1>5. ListingTypeOK'
  <2>1. refresh' \in [Number -> Refresh] /\ \A e \in Number : refresh'[e].map \in 1..Len(map)
    BY <1>0, <1>1, <1>2, <1>3 DEF ListingTypeOK
  <2>. QED BY <1>0, <1>4, <2>1 DEF ListingTypeOK, reality, heap
<1>6. OneStackEach'
  BY <1>0, <1>4 DEF OneStackEach, heap
<1>7. \A e \in Number : Working(e)' <=> Working(e)
  BY <1>1, <1>3 DEF Working
<1>8. \A e \in Number : /\ refresh'[e].full = refresh[e].full
                       /\ refresh'[e].map = refresh[e].map
                       /\ refresh'[e].for = refresh[e].for
  BY <1>1, <1>3
<1>9. ASSUME NEW e \in Number, Working(e)
      PROVE  FitsPhase(refresh[e])' /\ Calls(e)' /\ OwnMap(e)' /\ LookedAt(e)'
  <2>1. FitsPhase(refresh'[e])
    <3>1. FitsPhase(z)
      BY <1>0, <1>1 DEF FitsPhase
    <3>. QED BY <1>0, <1>3, <1>9, <3>1
  <2>2. Calls(e)'
    <3>1. refresh[e].for # 0 => refresh[e].for \in Number \ {r}
      BY <1>0, <1>9, ListingAssumption DEF Calls, Number, Refresh
    <3>. QED BY <1>0, <1>3, <1>7, <1>8, <1>9, <3>1 DEF Calls
  <2>3. OwnMap(e)'
    BY <1>0, <1>4, <1>7, <1>8, <1>9 DEF OwnMap, heap
  <2>4. LookedAt(e)'
    <3>1. CASE e = r
      BY <1>1, <1>3, <3>1 DEF LookedAt
    <3>2. CASE e # r
      <4>1. refresh[e].map \in 1..Len(map)
        BY <1>0 DEF ListingTypeOK
      <4>. QED BY <1>0, <1>3, <1>4, <1>9, <3>2, <4>1, HeapSpares, LookedStays
    <3>. QED BY <3>1, <3>2
  <2>. QED BY <2>1, <2>2, <2>3, <2>4
<1>10. SteadyIsTrue'
  BY <1>4 DEF SteadyIsTrue
<1>. QED BY <1>5, <1>6, <1>7, <1>9, <1>10 DEF ListInv

LEMMA ReaddirFailsKeeps ==
  ASSUME ListInv, NEW r \in Number, ReaddirFails(r)
  PROVE  ListInv'
<1>. DEFINE p == [refresh[r] EXCEPT !.phase = "list"]
<1>1. refresh[r].phase = "scan" /\ Working(r) /\ Swallowed(r, p)
  BY DEF ReaddirFails, Working
<1>2. SameRun(refresh[r], p) /\ p.phase = "list"
  BY <1>1, Inside DEF SameRun, Refresh, Phase
<1>. HIDE DEF p
<1>. QED BY <1>1, <1>2, SwallowedKeeps

LEMMA EntryFailsKeeps ==
  ASSUME ListInv, NEW r \in Number, EntryFails(r)
  PROVE  ListInv'
<1>1. refresh[r].phase \in {"check", "get"} /\ Working(r)
  BY DEF EntryFails, Working
<1>2. refresh[r] \in Refresh /\ FitsPhase(refresh[r])
  BY <1>1, Inside
<1>3. ASSUME NEW q \in Refresh, SameRun(refresh[r], q), Swallowed(r, Advanced(q))
      PROVE  ListInv'
  <2>. DEFINE z == Advanced(q)
  <2>1. SameRun(q, z) /\ z.phase \in {"list", "check"}
    BY AdvancedType
  <2>2. SameRun(refresh[r], z) /\ Swallowed(r, z)
    BY <1>3, <2>1 DEF SameRun
  <2>. HIDE DEF z
  <2>. QED BY <1>1, <1>2, <2>1, <2>2, SwallowedKeeps DEF FitsPhase
<1>4. CASE refresh[r].phase = "get"
  <2>1. Swallowed(r, Advanced(refresh[r])) /\ SameRun(refresh[r], refresh[r])
    BY <1>2, <1>4 DEF EntryFails, SameRun
  <2>. QED BY <1>2, <1>3, <2>1
<1>5. CASE refresh[r].phase = "check"
  <2>1. PICK s \in refresh[r].names : Swallowed(r, Advanced([refresh[r] EXCEPT !.name = s]))
    BY <1>5 DEF EntryFails
  <2>. DEFINE q == [refresh[r] EXCEPT !.name = s]
  <2>2. q \in Refresh /\ SameRun(refresh[r], q)
    BY <1>2 DEF SameRun, Refresh
  <2>. HIDE DEF q
  <2>3. Swallowed(r, Advanced(q))
    BY <2>1 DEF q
  <2>. QED BY <1>3, <2>2, <2>3
<1>. QED BY <1>1, <1>4, <1>5

-----------------------------------------------------------------------------
(* The world and the browsers *)

LEMMA WorldKeeps ==
  ASSUME ListInv, WorldChanges, dir' \in SUBSET Stack,
         project' \in [Stack -> States \union {{}}]
  PROVE  ListInv'
<1>. DEFINE z(e) == [refresh[e] EXCEPT !.alone = ~Working(e)]
<1>0. /\ ListingTypeOK /\ refresh \in [Number -> Refresh] /\ OneStackEach
      /\ \A e \in Number : Working(e) =>
           FitsPhase(refresh[e]) /\ Calls(e) /\ OwnMap(e) /\ LookedAt(e)
  BY DEF ListInv, ListingTypeOK
<1>1. \A e \in Number :
        /\ z(e) \in Refresh /\ z(e).alone = ~Working(e)
        /\ z(e).phase = refresh[e].phase /\ z(e).full = refresh[e].full
        /\ z(e).map = refresh[e].map /\ z(e).for = refresh[e].for /\ z(e).to = refresh[e].to
        /\ z(e).names = refresh[e].names /\ z(e).name = refresh[e].name
  BY <1>0 DEF Refresh, Working
<1>. HIDE DEF z
<1>2. refresh' \in [Number -> Refresh] /\ \A e \in Number : refresh'[e] = z(e)
  BY <1>1 DEF WorldChanges, z
<1>3. ListingTypeOK'
  <2>1. UNCHANGED <<object, map, managedStackList, browser, faults>> /\ steady' = FALSE
    BY DEF WorldChanges, heap
  <2>2. events' \in 0..MaxEvent
    BY <1>0, ListingAssumption DEF ListingTypeOK, WorldChanges
  <2>3. \A r \in Number : refresh'[r].map \in 1..Len(map)
    BY <1>0, <1>1, <1>2 DEF ListingTypeOK
  <2>. QED BY <1>0, <1>2, <2>1, <2>2, <2>3 DEF ListingTypeOK
<1>4. OneStackEach'
  BY <1>0 DEF OneStackEach, WorldChanges, heap
<1>5. \A e \in Number : Working(e)' <=> Working(e)
  BY <1>1, <1>2 DEF Working
<1>6. ASSUME NEW e \in Number, Working(e)
      PROVE  FitsPhase(refresh[e])' /\ Calls(e)' /\ OwnMap(e)' /\ LookedAt(e)'
  <2>0. refresh'[e] = z(e) /\ ~z(e).alone /\ FitsPhase(refresh[e])
    BY <1>0, <1>1, <1>2, <1>6
  <2>a. FitsPhase(z(e))
    BY <1>1, <2>0 DEF FitsPhase
  <2>b. LookedAt(e)'
    BY <2>0 DEF LookedAt
  <2>1. FitsPhase(refresh'[e]) /\ LookedAt(e)'
    BY <2>0, <2>a, <2>b
  <2>2. refresh[e].for # 0 => refresh[e].for \in Number
    BY <1>0, ListingAssumption DEF Refresh, Number
  <2>3. Calls(e)'
    BY <1>0, <1>1, <1>2, <1>5, <1>6, <2>2 DEF Calls
  <2>4. OwnMap(e)'
    BY <1>0, <1>1, <1>2, <1>5, <1>6 DEF OwnMap, WorldChanges, heap
  <2>. QED BY <2>1, <2>3, <2>4
<1>7. SteadyIsTrue'
  BY DEF SteadyIsTrue, WorldChanges
<1>. QED BY <1>3, <1>4, <1>5, <1>6, <1>7 DEF ListInv

LEMMA DirectoryKeeps ==
  ASSUME ListInv, NEW s \in Stack, DirectoryChanges(s)
  PROVE  ListInv'
BY WorldKeeps DEF DirectoryChanges, ListInv, ListingTypeOK

LEMMA ServicesKeep ==
  ASSUME ListInv, NEW s \in Stack, NEW states \in States \union {{}}, ServicesChange(s, states)
  PROVE  ListInv'
BY WorldKeeps DEF ServicesChange, ListInv, ListingTypeOK

\* What is shown does not matter to the refreshes.
LEMMA LogoutKeeps ==
  ASSUME ListInv, NEW b \in Browser, Logout(b)
  PROVE  ListInv'
<1>. DEFINE v1 == [browser[b] EXCEPT !.list = Empty]
            v2 == [v1 EXCEPT !.error = FALSE]
            v3 == [v2 EXCEPT !.waiting = FALSE]
<1>1. browser \in [Browser -> View] /\ Empty \in List
  BY DEF ListInv, ListingTypeOK, Empty, List
<1>2. v1 \in View
  BY <1>1 DEF View
<1>. HIDE DEF v1
<1>3. v2 \in View
  BY <1>2 DEF View
<1>. HIDE DEF v2
<1>4. v3 \in View
  BY <1>3 DEF View
<1>. HIDE DEF v3
<1>5. browser' = [browser EXCEPT ![b] = v3]
  BY <1>1, Zenon DEF Logout, v1, v2, v3
<1>6. browser' \in [Browser -> View]
  BY <1>1, <1>4, <1>5
<1>7. UNCHANGED <<dir, project, object, map, managedStackList, refresh, events, faults, steady>>
  BY DEF Logout, reality, heap
<1>8. ListingTypeOK'
  BY <1>6, <1>7 DEF ListInv, ListingTypeOK
<1>9. OneStackEach' /\ SteadyIsTrue'
  BY <1>7 DEF ListInv, OneStackEach, SteadyIsTrue, TrueMap, Says, Truth, Working
<1>10. \A r \in Number : Working(r)' =>
         FitsPhase(refresh[r])' /\ Calls(r)' /\ OwnMap(r)' /\ LookedAt(r)'
  BY <1>7 DEF ListInv, FitsPhase, Calls, OwnMap, LookedAt, ProjectList, Working
<1>. QED BY <1>8, <1>9, <1>10 DEF ListInv

LEMMA DisconnectKeeps ==
  ASSUME ListInv, NEW b \in Browser, Disconnect(b)
  PROVE  ListInv'
<1>. DEFINE z(e) == [refresh[e] EXCEPT !.to = refresh[e].to \ {b}]
            v1 == [browser[b] EXCEPT !.in = FALSE]
            v2 == [v1 EXCEPT !.waiting = FALSE]
<1>0. /\ ListingTypeOK /\ refresh \in [Number -> Refresh] /\ OneStackEach
      /\ \A e \in Number : Working(e) =>
           FitsPhase(refresh[e]) /\ Calls(e) /\ OwnMap(e) /\ LookedAt(e)
  BY DEF ListInv, ListingTypeOK
<1>1. \A e \in Number :
        /\ z(e) \in Refresh /\ z(e).alone = refresh[e].alone
        /\ z(e).phase = refresh[e].phase /\ z(e).full = refresh[e].full
        /\ z(e).map = refresh[e].map /\ z(e).for = refresh[e].for
        /\ z(e).to = refresh[e].to \ {b} /\ z(e).result = refresh[e].result
        /\ z(e).names = refresh[e].names /\ z(e).name = refresh[e].name
  BY <1>0 DEF Refresh
<1>2. refresh' = [r \in Number |-> z(r)]
  BY Zenon DEF Disconnect
<1>. HIDE DEF z
<1>3. refresh' \in [Number -> Refresh] /\ \A e \in Number : refresh'[e] = z(e)
  BY <1>1, <1>2
<1>4. v1 \in View
  BY <1>0 DEF ListingTypeOK, View
<1>. HIDE DEF v1
<1>5. v2 \in View
  BY <1>4 DEF View
<1>. HIDE DEF v2
<1>6. browser' = [browser EXCEPT ![b] = v2]
  BY Zenon DEF Disconnect, v1, v2
<1>7. browser' \in [Browser -> View]
  BY <1>0, <1>5, <1>6 DEF ListingTypeOK
<1>8. UNCHANGED <<dir, project, object, map, managedStackList, events, faults, steady>>
  BY DEF Disconnect, reality, heap
<1>9. ListingTypeOK'
  <2>1. \A r \in Number : refresh'[r].map \in 1..Len(map)
    BY <1>0, <1>1, <1>3 DEF ListingTypeOK
  <2>. QED BY <1>0, <1>3, <1>7, <1>8, <2>1 DEF ListingTypeOK
<1>10. \A e \in Number : Working(e)' <=> Working(e)
  BY <1>1, <1>3 DEF Working
<1>11. ASSUME NEW e \in Number, Working(e)
       PROVE  FitsPhase(refresh[e])' /\ Calls(e)' /\ OwnMap(e)' /\ LookedAt(e)'
  <2>1. FitsPhase(refresh'[e])
    BY <1>0, <1>1, <1>3, <1>11 DEF FitsPhase
  <2>2. refresh[e].for # 0 => refresh[e].for \in Number
    BY <1>0, ListingAssumption DEF Refresh, Number
  <2>3. Calls(e)'
    BY <1>0, <1>1, <1>3, <1>10, <1>11, <2>2 DEF Calls
  <2>4. OwnMap(e)'
    BY <1>0, <1>1, <1>3, <1>8, <1>10, <1>11 DEF OwnMap
  <2>5. ProjectList' = ProjectList
    BY <1>8 DEF ProjectList
  <2>6. LookedAt(e)'
    BY <1>0, <1>1, <1>3, <1>8, <1>11, <2>5 DEF LookedAt
  <2>. QED BY <2>1, <2>3, <2>4, <2>6
<1>12. OneStackEach'
  BY <1>0, <1>8 DEF OneStackEach
<1>13. SteadyIsTrue'
  <2>1. \A i : TrueMap(i)' <=> TrueMap(i)
    BY <1>8 DEF TrueMap, Says, Truth
  <2>. QED BY <1>1, <1>3, <1>8, <1>10, <2>1 DEF ListInv, SteadyIsTrue
<1>. QED BY <1>9, <1>11, <1>10, <1>12, <1>13 DEF ListInv

-----------------------------------------------------------------------------
(* Refreshes that begin *)

LEMMA BeginKeeps ==
  ASSUME ListInv, NEW n \in Number, refresh[n].phase = "new", NEW useCache \in BOOLEAN,
         NEW to \in SUBSET Browser, NEW for \in 0..MaxRefresh,
         NEW refreshes \in [Number -> Refresh],
         \A e \in Number : e # for => refreshes[e] = refresh[e],
         for # 0 => /\ to = {} /\ refresh[for].phase = "get" /\ ~refresh[for].alone
                    /\ refreshes[for] = [refresh[for] EXCEPT !.phase = "nested"],
         Begun(refreshes, n, useCache, to, for),
         UNCHANGED <<reality, object, managedStackList, steady>>, Counts'
  PROVE  ListInv'
<1>. DEFINE cached == useCache /\ map[managedStackList] # NoObjects
            phase == IF cached THEN "list" ELSE "scan"
            full == ~cached
            m == IF cached THEN managedStackList ELSE Len(map) + 1
            p == Beginning(phase, full, to, for, m)
<1>0. /\ ListingTypeOK /\ refresh \in [Number -> Refresh] /\ OneStackEach
      /\ \A e \in Number : refresh[e].map \in 1..Len(map)
      /\ \A e \in Number : Working(e) =>
           FitsPhase(refresh[e]) /\ Calls(e) /\ OwnMap(e) /\ LookedAt(e)
  BY DEF ListInv, ListingTypeOK
<1>a. map \in Seq([Stack -> 0..Len(object)]) /\ managedStackList \in 1..Len(map)
  BY DEF ListInv, ListingTypeOK
<1>b. /\ Len(map) \in Nat /\ \A i \in 1..Len(map) : map[i] \in [Stack -> 0..Len(object)]
  BY <1>a
<1>1. refresh' = [refreshes EXCEPT ![n] = p]
  BY Zenon DEF Begun, Beginning
<1>2. phase \in Phase /\ full \in BOOLEAN /\ m \in Nat
  BY <1>a, <1>b DEF Phase
<1>3. map' = IF cached THEN map ELSE Append(map, NoObjects)
  BY DEF Begun, Fresh
<1>4. p \in Refresh /\ p.phase = phase /\ p.full = full /\ p.to = to /\ p.for = for
      /\ p.map = m /\ p.alone = TRUE
  <2>. HIDE DEF phase, full, m
  <2>. HIDE DEF p
  <2>1. p = Beginning(phase, full, to, for, m)
    BY DEF p
  <2>2. HasBegun(p, phase, full, to, for, m)
    BY <1>2, <2>1, BegunType
  <2>. QED BY <2>2 DEF HasBegun
<1>5. p.phase = (IF p.full THEN "scan" ELSE "list") /\ p.full \in BOOLEAN
  BY <1>4
<1>6. p.full => p.map = Len(map) + 1 /\ map' = Append(map, NoObjects)
  BY <1>3, <1>4
<1>7. ~p.full => p.map = managedStackList /\ map' = map
  BY <1>3, <1>4
<1>. HIDE DEF p, m, cached, phase, full
<1>8. n # for
  BY DEF Number
<1>9. refresh'[n] = p /\ \A e \in Number \ {n} : refresh'[e] = refreshes[e]
  BY <1>1
<1>10. /\ Len(map)' \in Nat /\ Len(map)' >= Len(map) /\ (p.full => Len(map)' = Len(map) + 1)
       /\ \A i \in 1..Len(map) : map'[i] = map[i]
       /\ \A i \in 1..Len(map)' : i \in 1..Len(map) \/ (map'[i] = NoObjects /\ p.full /\ i = p.map)
       /\ p.map \in 1..Len(map)' /\ (p.full => map'[p.map] = NoObjects)
       /\ map' \in Seq([Stack -> 0..Len(object)])
  <2>1. NoObjects \in [Stack -> 0..Len(object)]
    BY DEF NoObjects, ListInv, ListingTypeOK
  <2>2. CASE p.full
    <3>1. /\ map' \in Seq([Stack -> 0..Len(object)]) /\ Len(map') = Len(map) + 1
          /\ \A i \in 1..Len(map) : map'[i] = map[i]
          /\ map'[Len(map) + 1] = NoObjects
      <4>. DEFINE S == [Stack -> 0..Len(object)]
      <4>1. map' = Append(map, NoObjects)
        BY <1>6, <2>2
      <4>. HIDE DEF S
      <4>2. map \in Seq(S) /\ NoObjects \in S
        BY <1>a, <2>1 DEF S
      <4>3. map' \in Seq(S)
        BY <4>1, <4>2, Appended
      <4>4. Len(map') = Len(map) + 1 /\ map'[Len(map) + 1] = NoObjects
        BY <4>1, <4>2, Appended
      <4>5. \A i \in 1..Len(map) : map'[i] = map[i]
        BY <4>1, <4>2, Appended
      <4>. QED BY <4>3, <4>4, <4>5 DEF S
    <3>. QED BY <1>6, <1>b, <2>2, <3>1
  <2>3. CASE ~p.full
    BY <1>a, <1>5, <1>7, <2>3
  <2>. QED BY <1>5, <2>2, <2>3
<1>c. \A i \in 1..Len(map)' : i \in 1..Len(map) \/ \A s \in Stack : map'[i][s] = 0
  BY <1>10 DEF NoObjects
\* A refresh that was there is as it was, or has the one it waits for.
<1>11. ASSUME NEW e \in Number \ {n}
       PROVE  /\ refresh'[e].full = refresh[e].full /\ refresh'[e].map = refresh[e].map
              /\ refresh'[e].for = refresh[e].for /\ refresh'[e].to = refresh[e].to
              /\ refresh'[e].alone = refresh[e].alone /\ refresh'[e].names = refresh[e].names
              /\ refresh'[e].name = refresh[e].name
              /\ (e # for => refresh'[e] = refresh[e])
              /\ (e = for => refresh'[e].phase = "nested" /\ refresh[e].phase = "get"
                             /\ ~refresh[e].alone /\ Working(e))
              /\ (Working(e)' <=> Working(e))
  <2>1. CASE e # for
    BY <1>9, <2>1 DEF Working
  <2>2. CASE e = for
    <3>1. for # 0
      BY <2>2, ListingAssumption DEF Number
    <3>2. refresh'[e] = [refresh[e] EXCEPT !.phase = "nested"] /\ refresh[e] \in Refresh
      BY <1>0, <1>9, <2>2, <3>1
    <3>. QED BY <1>0, <2>2, <3>1, <3>2 DEF Refresh, Working
  <2>. QED BY <2>1, <2>2
<1>12. Working(n)' /\ ~Working(n)
  BY <1>5, <1>9 DEF Working
<1>13. ListingTypeOK'
  <2>1. refresh' \in [Number -> Refresh]
    BY <1>1, <1>4
  <2>2. \A e \in Number : refresh'[e].map \in 1..Len(map)'
    BY <1>0, <1>9, <1>10, <1>11
  <2>. QED BY <1>0, <1>a, <1>b, <1>10, <2>1, <2>2 DEF ListingTypeOK, Counts, reality
<1>14. OneStackEach'
  <2>1. ASSUME NEW i \in 1..Len(map)', NEW j \in 1..Len(map)', NEW s \in Stack, NEW t \in Stack,
               map'[i][s] # 0, map'[i][s] = map'[j][t]
        PROVE  s = t
    <3>1. i \in 1..Len(map) /\ j \in 1..Len(map)
      BY <1>c, <2>1
    <3>2. map'[i] = map[i] /\ map'[j] = map[j]
      BY <1>10, <3>1
    <3>. QED BY <1>0, <2>1, <3>1, <3>2 DEF OneStackEach
  <2>. QED BY <2>1 DEF OneStackEach
<1>15. \A e \in Number : refresh[e].for # 0 => refresh[e].for \in Number
  BY <1>0, ListingAssumption DEF Refresh, Number
<1>16. FitsPhase(refresh[n])' /\ Calls(n)' /\ OwnMap(n)' /\ LookedAt(n)'
  <2>1. FitsPhase(p)
    BY <1>4, <1>5 DEF FitsPhase
  <2>2. for # 0 => for \in Number \ {n}
    BY <1>8, ListingAssumption DEF Number
  <2>3. \A e \in Number \ {n} : Working(e) /\ for # 0 => refresh[e].for # for
    BY <1>0 DEF Calls
  <2>4. Calls(n)'
    BY <1>4, <1>9, <1>11, <2>2, <2>3 DEF Calls
  <2>5. OwnMap(n)'
    <3>1. p.full => p.map # managedStackList /\ \A e \in Number : refresh[e].map # p.map
      BY <1>0, <1>a, <1>b, <1>6
    <3>. QED BY <1>9, <1>11, <3>1 DEF OwnMap
  <2>6. LookedAt(n)'
    BY <1>5, <1>9, <1>10 DEF LookedAt, NoObjects
  <2>. QED BY <1>9, <2>1, <2>4, <2>5, <2>6
<1>17. ASSUME NEW e \in Number \ {n}, Working(e)
       PROVE  FitsPhase(refresh[e])' /\ Calls(e)' /\ OwnMap(e)' /\ LookedAt(e)'
  <2>1. FitsPhase(refresh'[e])
    BY <1>0, <1>11, <1>17 DEF FitsPhase
  <2>2. Calls(e)'
    <3>1. refresh[e].for # 0 =>
            refresh[e].for \in Number \ {n} /\ refresh[e].for # for
            /\ refresh'[refresh[e].for].phase = "nested"
      BY <1>0, <1>11, <1>15, <1>17 DEF Calls
    <3>2. refresh[e].for # 0 =>
            \A f \in Number \ {e} : Working(f)' => refresh'[f].for # refresh[e].for
      <4>1. ASSUME refresh[e].for # 0, NEW f \in Number \ {e}, Working(f)'
            PROVE  refresh'[f].for # refresh[e].for
        <5>1. CASE f = n
          BY <1>4, <1>9, <3>1, <4>1, <5>1
        <5>2. CASE f # n
          BY <1>0, <1>11, <1>17, <4>1, <5>2 DEF Calls
        <5>. QED BY <5>1, <5>2
      <4>. QED BY <4>1
    <3>. QED BY <1>11, <3>1, <3>2 DEF Calls
  <2>3. OwnMap(e)'
    <3>1. refresh[e].full => p.map # refresh[e].map
      BY <1>0, <1>b, <1>6, <1>7, <1>5, <1>17 DEF OwnMap
    <3>. QED BY <1>0, <1>9, <1>11, <1>17, <3>1 DEF OwnMap
  <2>4. LookedAt(e)'
    <3>1. CASE e = for
      BY <1>11, <3>1 DEF LookedAt
    <3>2. CASE e # for
      <4>1. refresh[e].full /\ refresh[e].alone => Spared(e)
        <5>. DEFINE i == refresh[e].map
        <5>1. i \in 1..Len(map) /\ i \in 1..Len(map)' /\ map'[i] = map[i]
          BY <1>0, <1>10
        <5>2. ASSUME refresh[e].full /\ refresh[e].alone, NEW s \in Stack, map[i][s] # 0,
                     NEW j \in 1..Len(map)' \ {i}, NEW t \in Stack
              PROVE  map'[j][t] # map[i][s]
          <6>1. \A k \in 1..Len(map) \ {i} : map[k][t] # map[i][s]
            BY <1>0, <1>17, <5>2 DEF LookedAt
          <6>2. CASE j \in 1..Len(map)
            BY <1>10, <5>2, <6>1, <6>2
          <6>3. CASE j \notin 1..Len(map)
            <7>1. map'[j][t] = 0
              BY <1>10, <6>3 DEF NoObjects
            <7>. QED BY <5>2, <7>1
          <6>. QED BY <6>2, <6>3
        <5>. QED BY <5>1, <5>2 DEF Spared
      <4>. QED BY <1>0, <1>11, <1>17, <3>2, <4>1, LookedStays
    <3>. QED BY <3>1, <3>2
  <2>. QED BY <2>1, <2>2, <2>3, <2>4
<1>18. SteadyIsTrue'
  <2>1. \A i \in 1..Len(map) : TrueMap(i)' <=> TrueMap(i)
    <3>1. Truth' = Truth /\ object' = object
      BY DEF Truth, reality
    <3>. QED BY <1>10, <3>1 DEF TrueMap, Says
  <2>2. SteadyIsTrue
    BY DEF ListInv
  <2>3. CASE steady
    <3>1. /\ TrueMap(managedStackList)'
          /\ \A e \in Number \ {n} : Working(e) => refresh[e].alone
                 /\ (~refresh[e].full => TrueMap(refresh[e].map)')
      <4>1. managedStackList' = managedStackList
        OBVIOUS
      <4>2. TrueMap(managedStackList)'
        <5>1. TrueMap(managedStackList)
          BY <2>2, <2>3 DEF SteadyIsTrue
        <5>. QED BY <1>a, <2>1, <4>1, <5>1
      <4>3. ASSUME NEW e \in Number \ {n}, Working(e)
            PROVE  refresh[e].alone /\ (~refresh[e].full => TrueMap(refresh[e].map)')
        <5>1. refresh[e].alone /\ (~refresh[e].full => TrueMap(refresh[e].map))
          BY <2>2, <2>3, <4>3 DEF SteadyIsTrue
        <5>2. PICK i \in 1..Len(map) : i = refresh[e].map /\ i = refresh'[e].map
          BY <1>0, <1>11
        <5>. QED BY <2>1, <5>1, <5>2
      <4>. QED BY <4>2, <4>3
    <3>. QED BY <1>4, <1>7, <1>9, <1>11, <3>1 DEF SteadyIsTrue
  <2>4. CASE ~steady
    BY <2>4 DEF SteadyIsTrue
  <2>. QED BY <2>3, <2>4
<1>. QED BY <1>13, <1>14, <1>16, <1>17, <1>11, <1>12, <1>18 DEF ListInv

\* The refresh of one that waits ends: it goes on to its next entry.
LEMMA OverIs ==
  ASSUME ListInv, NEW r \in Number, Working(r), refresh[r].phase # "nested", Over(r)
  PROVE  /\ refresh' \in [Number -> Refresh]
         /\ refresh'[r].phase = "done" /\ refresh'[r].map = 1
         /\ \A e \in Number \ {r} :
              /\ e # refresh[r].for => refresh'[e] = refresh[e]
              /\ e = refresh[r].for => refresh'[e] = Advanced(refresh[e])
<1>. DEFINE d == [New EXCEPT !.phase = "done"]
<1>0. refresh \in [Number -> Refresh] /\ refresh[r].for # r
  BY Inside, ListingAssumption DEF Calls, Number
<1>1. d \in Refresh /\ d.phase = "done" /\ d.map = 1
  BY OverType
<1>. HIDE DEF d
<1>2. refresh' = [q \in Number |-> CASE q = r -> d
                                     [] q = refresh[r].for -> Advanced(refresh[q])
                                     [] OTHER -> refresh[q]]
  BY Zenon DEF Over, d
<1>3. \A q \in Number : Advanced(refresh[q]) \in Refresh
  BY <1>0, AdvancedType DEF SameRun
<1>4. refresh' \in [Number -> Refresh]
  <2>. DEFINE z(q) == CASE q = r -> d
                        [] q = refresh[r].for -> Advanced(refresh[q])
                        [] OTHER -> refresh[q]
  <2>1. \A q \in Number : z(q) \in Refresh
    BY <1>0, <1>1, <1>3
  <2>2. refresh' = [q \in Number |-> z(q)]
    BY <1>2, Zenon
  <2>. HIDE DEF z
  <2>. QED BY <2>1, <2>2
<1>5. refresh'[r] = d
  BY <1>0, <1>2
<1>6. ASSUME NEW e \in Number \ {r}
      PROVE  /\ e # refresh[r].for => refresh'[e] = refresh[e]
             /\ e = refresh[r].for => refresh'[e] = Advanced(refresh[e])
  BY <1>2
<1>. QED BY <1>1, <1>4, <1>5, <1>6

\* What a refresh that is over leaves to the others.
LEMMA OverLeaves ==
  ASSUME ListInv, NEW r \in Number, Working(r), refresh[r].phase # "nested", Over(r),
         NEW e \in Number \ {r}
  PROVE  /\ refresh'[e].full = refresh[e].full /\ refresh'[e].map = refresh[e].map
         /\ refresh'[e].for = refresh[e].for /\ refresh'[e].to = refresh[e].to
         /\ refresh'[e].alone = refresh[e].alone
         /\ (Working(e)' <=> Working(e))
         /\ \/ refresh'[e] = refresh[e]
            \/ /\ e = refresh[r].for /\ refresh[e].phase = "nested" /\ ~refresh[e].alone
               /\ refresh'[e].phase \in {"list", "check"} /\ refresh[e].full
<1>1. refresh \in [Number -> Refresh] /\ Calls(r) /\ refresh[e] \in Refresh
  BY Inside
<1>2. CASE e # refresh[r].for
  BY <1>1, <1>2, OverIs DEF Working
<1>3. CASE e = refresh[r].for
  <2>1. e # 0
    BY ListingAssumption DEF Number
  <2>2. refresh[e].phase = "nested" /\ Working(e)
    BY <1>1, <1>3, <2>1 DEF Calls, Working
  <2>3. FitsPhase(refresh[e])
    BY <2>2 DEF ListInv
  <2>4. refresh'[e] = Advanced(refresh[e])
    BY <1>1, <1>3, OverIs
  <2>. QED BY <1>1, <1>3, <2>2, <2>3, <2>4, AdvancedType DEF FitsPhase, SameRun, Working
<1>. QED BY <1>2, <1>3

\* When a refresh is over, what the others have stays so, if it spared them and
\* did not make what they work on the cached list.
LEMMA OverKeeps ==
  ASSUME ListInv, NEW r \in Number, Working(r), Over(r), UNCHANGED reality,
         refresh[r].phase # "nested",
         \A e \in Number \ {r} : Working(e) /\ refresh[e].full =>
           refresh[e].map # managedStackList' /\ (refresh[e].alone => Spared(e)),
         NEW e \in Number, Working(e)'
  PROVE  FitsPhase(refresh[e])' /\ Calls(e)' /\ OwnMap(e)' /\ LookedAt(e)'
<1>0. refresh \in [Number -> Refresh]
  BY Inside
<1>1. e # r
  BY <1>0, OverIs DEF Working
<1>2. Working(e) /\ FitsPhase(refresh[e]) /\ Calls(e) /\ OwnMap(e) /\ LookedAt(e)
  BY <1>1, OverLeaves DEF ListInv
<1>3. FitsPhase(refresh'[e])
  BY <1>1, <1>2, OverLeaves DEF FitsPhase
<1>4. ~Working(r)'
  BY <1>0, OverIs DEF Working
<1>5. OwnMap(e)'
  BY <1>1, <1>2, <1>4, OverLeaves DEF OwnMap
<1>6. LookedAt(e)'
  <2>1. CASE refresh'[e] = refresh[e]
    BY <1>1, <1>2, <2>1, LookedStays
  <2>2. CASE refresh'[e] # refresh[e]
    <3>1. ~refresh'[e].alone
      BY <1>1, <2>2, OverLeaves
    <3>. QED BY <3>1 DEF LookedAt
  <2>. QED BY <2>1, <2>2
<1>7. Calls(e)'
  <2>. DEFINE f == refresh[e].for
  <2>1. refresh'[e].for = f /\ f \in 0..MaxRefresh
    BY <1>0, <1>1, OverLeaves DEF Refresh
  <2>2. SUFFICES ASSUME f # 0
                 PROVE  /\ refresh'[f].phase = "nested"
                        /\ \A g \in Number \ {e} : Working(g)' => refresh'[g].for # f
    BY <2>1 DEF Calls
  <2>3. f \in Number /\ refresh[f].phase = "nested"
    BY <1>2, <2>1, <2>2, ListingAssumption DEF Calls, Number
  <2>4. refresh[r].for # f
    BY <1>1, <1>2, <2>2 DEF Calls
  <2>5. f # r
    BY <2>3
  <2>6. refresh'[f] = refresh[f]
    BY <1>0, <2>3, <2>4, <2>5, OverIs
  <2>7. ASSUME NEW g \in Number \ {e}, Working(g)'
        PROVE  refresh'[g].for # f
    <3>1. g # r
      BY <1>4, <2>7
    <3>. QED BY <1>2, <2>2, <2>7, <3>1, OverLeaves DEF Calls
  <2>. QED BY <2>3, <2>6, <2>7
<1>. QED BY <1>3, <1>5, <1>6, <1>7

LEMMA FailsKeeps ==
  ASSUME ListInv, NEW r \in Number, ComposeLsFails(r)
  PROVE  ListInv'
<1>1. /\ Working(r) /\ Over(r)
      /\ UNCHANGED <<dir, project, object, map, managedStackList, events, steady>>
      /\ refresh[r].phase = "list"
  BY DEF ComposeLsFails, Working, reality, heap
<1>2. /\ ListingTypeOK /\ OneStackEach /\ SteadyIsTrue /\ refresh \in [Number -> Refresh]
      /\ \A e \in Number : Working(e) => OwnMap(e) /\ LookedAt(e)
  BY DEF ListInv, ListingTypeOK
<1>3. ASSUME NEW b \in Browser
      PROVE  Failed(b) \in View
  <2>1. [browser[b] EXCEPT !.error = TRUE] \in View
    BY <1>2 DEF ListingTypeOK, View
  <2>. QED BY <2>1 DEF Failed, View
<1>4. browser' \in [Browser -> View]
  BY <1>2, <1>3 DEF ListingTypeOK, ComposeLsFails, Shown
<1>5. faults' \in 0..MaxFault
  BY <1>2, ListingAssumption DEF ListingTypeOK, ComposeLsFails
<1>6. ListingTypeOK'
  <2>1. \A e \in Number : refresh'[e].map \in 1..Len(map)
    <3>1. 1 \in 1..Len(map) /\ \A e \in Number : refresh[e].map \in 1..Len(map)
      BY <1>2 DEF ListingTypeOK
    <3>2. refresh'[r].map = 1
      BY <1>1, <1>2, OverIs
    <3>3. \A e \in Number \ {r} : refresh'[e].map = refresh[e].map
      BY <1>1, OverLeaves
    <3>. QED BY <3>1, <3>2, <3>3
  <2>2. refresh' \in [Number -> Refresh]
    BY <1>1, <1>2, OverIs
  <2>. QED BY <1>1, <1>2, <1>4, <1>5, <2>1, <2>2 DEF ListingTypeOK
<1>7. OneStackEach'
  BY <1>1, <1>2 DEF OneStackEach
<1>8. \A e \in Number : Working(e)' =>
        FitsPhase(refresh[e])' /\ Calls(e)' /\ OwnMap(e)' /\ LookedAt(e)'
  <2>1. ASSUME NEW e \in Number, Working(e), refresh[e].full, refresh[e].alone
        PROVE  Spared(e)
    <3>1. refresh[e].map \in 1..Len(map)
      BY <1>2 DEF ListingTypeOK
    <3>. QED BY <1>1, <1>2, <2>1, <3>1, HeapSpares DEF heap
  <2>2. UNCHANGED reality
    BY <1>1 DEF reality
  <2>. QED BY <1>1, <1>2, <2>1, <2>2, OverKeeps DEF OwnMap
<1>9. SteadyIsTrue'
  <2>1. \A i : TrueMap(i)' <=> TrueMap(i)
    BY <1>1 DEF TrueMap, Says, Truth
  <2>2. ~Working(r)'
    BY <1>2, <1>1, OverIs DEF Working
  <2>. QED BY <1>1, <1>2, <2>1, <2>2, OverLeaves DEF SteadyIsTrue
<1>. QED BY <1>6, <1>7, <1>8, <1>9 DEF ListInv

-----------------------------------------------------------------------------
(* A stack is given an object *)

LEMMA GetsKeeps ==
  ASSUME ListInv, NEW r \in Number, Get(r), refresh[r].name \in dir
  PROVE  ListInv'
<1>. DEFINE q == refresh[r]
            s == q.name
            k == Len(object) + 1
<1>0. q.phase = "get" /\ Working(r)
  BY DEF Get, Working
<1>1. /\ refresh \in [Number -> Refresh] /\ q \in Refresh /\ q.map \in 1..Len(map)
      /\ FitsPhase(q) /\ Calls(r) /\ OwnMap(r) /\ LookedAt(r)
  BY <1>0, Inside
<1>2. s \in Stack /\ s \in q.names /\ q.full
  BY <1>0, <1>1 DEF FitsPhase, Refresh
<1>3. /\ ListingTypeOK /\ OneStackEach /\ SteadyIsTrue
      /\ \A e \in Number : Working(e) =>
           FitsPhase(refresh[e]) /\ Calls(e) /\ OwnMap(e) /\ LookedAt(e)
  BY DEF ListInv
<1>a. object \in Seq(StackStatus) /\ map \in Seq([Stack -> 0..Len(object)])
  BY <1>3 DEF ListingTypeOK
<1>b. /\ k \in Nat /\ Len(map) \in Nat
      /\ \A i \in 1..Len(map) : map[i] \in [Stack -> 0..Len(object)]
  BY <1>a
<1>4. object' = Append(object, "file")
  BY DEF Get
<1>5. /\ object' \in Seq(StackStatus) /\ Len(object') = k
      /\ object'[k] = "file" /\ \A i \in 1..Len(object) : object'[i] = object[i]
  <2>1. "file" \in StackStatus
    BY DEF StackStatus
  <2>. QED BY <1>4, <1>a, <2>1, Appended
<1>6. map' = [map EXCEPT ![q.map][s] = k]
  BY <1>5 DEF Get
<1>7. /\ map' \in Seq([Stack -> 0..k]) /\ Len(map') = Len(map)
      /\ \A i \in 1..Len(map) : i # q.map => map'[i] = map[i]
      /\ \A t \in Stack : map'[q.map][t] = IF t = s THEN k ELSE map[q.map][t]
  <2>1. map \in Seq([Stack -> 0..k])
    BY <1>a, <1>b
  <2>. QED BY <1>1, <1>2, <1>6, <1>b, <2>1
<1>8. /\ refresh' = [refresh EXCEPT ![r] = Advanced(q)]
      /\ UNCHANGED <<dir, project, managedStackList, browser, events, faults, steady>>
  BY DEF Get, reality
<1>9. /\ SameRun(q, Advanced(q)) /\ Advanced(q).names = q.names \ {s}
      /\ Advanced(q).phase = IF q.names = {s} THEN "list" ELSE "check"
  BY <1>1, AdvancedType
<1>10. refresh'[r] = Advanced(q) /\ \A e \in Number \ {r} : refresh'[e] = refresh[e]
  BY <1>1, <1>8
<1>11. \A e \in Number : Working(e)' <=> Working(e)
  BY <1>0, <1>9, <1>10 DEF Working
<1>12. \A e \in Number : /\ refresh'[e].full = refresh[e].full /\ refresh'[e].map = refresh[e].map
                         /\ refresh'[e].for = refresh[e].for /\ refresh'[e].alone = refresh[e].alone
                         /\ refresh'[e].to = refresh[e].to
  BY <1>9, <1>10 DEF SameRun
<1>13. ListingTypeOK'
  <2>1. refresh' \in [Number -> Refresh]
    BY <1>1, <1>8, <1>9 DEF SameRun
  <2>2. \A e \in Number : refresh'[e].map \in 1..Len(map)'
    BY <1>3, <1>7, <1>12 DEF ListingTypeOK
  <2>. QED BY <1>3, <1>5, <1>7, <1>8, <2>1, <2>2 DEF ListingTypeOK
<1>14. \A i \in 1..Len(map), t \in Stack :
         map'[i][t] # map[i][t] => i = q.map /\ t = s /\ map'[i][t] = k
  BY <1>7
<1>15. OneStackEach'
  <2>1. ASSUME NEW i \in 1..Len(map), NEW j \in 1..Len(map), NEW t \in Stack, NEW u \in Stack,
               map'[i][t] # 0, map'[i][t] = map'[j][u]
        PROVE  t = u
    <3>1. map[i][t] \in 0..Len(object) /\ map[j][u] \in 0..Len(object)
      BY <1>b
    <3>2. CASE map'[i][t] = map[i][t] /\ map'[j][u] = map[j][u]
      <4>1. map[i][t] # 0 /\ map[i][t] = map[j][u]
        BY <2>1, <3>2
      <4>2. OneStackEach
        BY <1>3
      <4>. QED BY <4>1, <4>2 DEF OneStackEach
    <3>3. CASE map'[i][t] = k \/ map'[j][u] = k
      <4>1. map'[i][t] # map[i][t] /\ map'[j][u] # map[j][u]
        BY <1>b, <2>1, <3>1, <3>3
      <4>. QED BY <1>14, <4>1
    <3>. QED BY <1>14, <3>2, <3>3
  <2>. QED BY <1>7, <2>1 DEF OneStackEach
<1>16. ASSUME NEW e \in Number \ {r}, Working(e), refresh[e].full, refresh[e].alone
       PROVE  Spared(e)
  <2>. DEFINE i == refresh[e].map
  <2>1. i \in 1..Len(map) /\ i # q.map
    BY <1>1, <1>2, <1>3, <1>16 DEF ListingTypeOK, OwnMap
  <2>2. ASSUME NEW t \in Stack, map[i][t] # 0
        PROVE  /\ object'[map[i][t]] = object[map[i][t]]
               /\ \A j \in 1..Len(map)' \ {i}, u \in Stack : map'[j][u] # map[i][t]
    <3>1. map[i][t] \in 1..Len(object)
      BY <1>b, <2>1, <2>2
    <3>2. \A j \in 1..Len(map) \ {i}, u \in Stack : map[j][u] # map[i][t]
      BY <1>3, <1>16, <2>2 DEF LookedAt
    <3>3. map[i][t] # k
      BY <1>b, <3>1
    <3>4. ASSUME NEW j \in 1..Len(map)' \ {i}, NEW u \in Stack
          PROVE  map'[j][u] # map[i][t]
      <4>1. j \in 1..Len(map)
        BY <1>7
      <4>2. map[j][u] # map[i][t]
        BY <3>2, <3>4, <4>1
      <4>3. map'[j][u] = map[j][u] \/ map'[j][u] = k
        BY <1>14, <4>1
      <4>. QED BY <3>3, <4>2, <4>3
    <3>5. object'[map[i][t]] = object[map[i][t]]
      BY <1>5, <3>1
    <3>. QED BY <3>4, <3>5
  <2>. QED BY <1>7, <2>1, <2>2 DEF Spared
<1>17. FitsPhase(refresh[r])' /\ Calls(r)' /\ OwnMap(r)' /\ LookedAt(r)'
  <2>1. FitsPhase(refresh'[r])
    BY <1>1, <1>2, <1>9, <1>10 DEF FitsPhase, SameRun
  <2>2. q.for # 0 => q.for \in Number \ {r}
    BY <1>0, <1>1, ListingAssumption DEF Calls, Refresh, Number
  <2>3. Calls(r)'
    BY <1>1, <1>10, <1>11, <1>12, <2>2 DEF Calls
  <2>4. OwnMap(r)'
    BY <1>1, <1>8, <1>11, <1>12 DEF OwnMap
  <2>5. LookedAt(r)'
    <3>1. SUFFICES ASSUME q.alone
                   PROVE  LookedAt(r)'
      BY <1>12 DEF LookedAt
    <3>2. refresh'[r].map = q.map /\ refresh'[r].phase \in {"list", "check"}
          /\ refresh'[r].names = q.names \ {s} /\ (refresh'[r].phase = "list" => q.names = {s})
      BY <1>9, <1>10, <1>12
    <3>3. q.names \subseteq dir /\ \A t \in Stack : map[q.map][t] # 0 <=> t \in dir \ q.names
      BY <1>0, <1>1, <1>2, <3>1 DEF LookedAt
    <3>4. \A t \in Stack : map'[q.map][t] # 0 <=> t \in dir \ (q.names \ {s})
      <4>1. ASSUME NEW t \in Stack
            PROVE  map'[q.map][t] # 0 <=> t \in dir \ (q.names \ {s})
        <5>1. CASE t = s
          <6>1. map'[q.map][t] = k /\ k # 0
            BY <1>7, <1>b, <5>1
          <6>. QED BY <5>1, <6>1
        <5>2. CASE t # s
          BY <1>7, <3>3, <5>2
        <5>. QED BY <5>1, <5>2
      <4>. QED BY <4>1
    <3>5. ASSUME NEW t \in Stack, map'[q.map][t] # 0
          PROVE  /\ object'[map'[q.map][t]] = "file"
                 /\ \A j \in 1..Len(map)' \ {q.map}, u \in Stack : map'[j][u] # map'[q.map][t]
      <4>1. CASE t = s
        <5>1. \A j \in 1..Len(map), u \in Stack : map[j][u] # k
          BY <1>b
        <5>. QED BY <1>5, <1>7, <4>1, <5>1
      <4>2. CASE t # s
        <5>1. map'[q.map][t] = map[q.map][t] /\ map[q.map][t] \in 1..Len(object)
          BY <1>1, <1>7, <1>b, <3>5, <4>2
        <5>2. /\ object[map[q.map][t]] = "file"
              /\ \A j \in 1..Len(map) \ {q.map}, u \in Stack : map[j][u] # map[q.map][t]
          BY <1>1, <1>2, <3>1, <3>5, <5>1 DEF LookedAt
        <5>. QED BY <1>5, <1>7, <5>1, <5>2
      <4>. QED BY <4>1, <4>2
    <3>. QED BY <1>8, <3>2, <3>3, <3>4, <3>5 DEF LookedAt
  <2>. QED BY <2>1, <2>3, <2>4, <2>5
<1>18. ASSUME NEW e \in Number \ {r}, Working(e)
       PROVE  FitsPhase(refresh[e])' /\ Calls(e)' /\ OwnMap(e)' /\ LookedAt(e)'
  <2>1. FitsPhase(refresh'[e])
    BY <1>3, <1>10, <1>18
  <2>2. refresh[e].for # 0 => refresh[e].for \in Number \ {r}
    BY <1>0, <1>1, <1>3, <1>18, ListingAssumption DEF Calls, Refresh, Number
  <2>3. Calls(e)'
    BY <1>3, <1>10, <1>11, <1>12, <1>18, <2>2 DEF Calls
  <2>4. OwnMap(e)'
    BY <1>3, <1>8, <1>11, <1>12, <1>18 DEF OwnMap
  <2>5. LookedAt(e)'
    BY <1>3, <1>8, <1>10, <1>16, <1>18, LookedStays DEF reality
  <2>. QED BY <2>1, <2>3, <2>4, <2>5
<1>19. SteadyIsTrue'
  <2>1. ASSUME NEW i \in 1..Len(map), i # q.map, TrueMap(i)
        PROVE  TrueMap(i)'
    <3>1. map'[i] = map[i] /\ Truth' = Truth
      BY <1>7, <1>8, <2>1 DEF Truth
    <3>2. ASSUME NEW t \in Stack, map[i][t] # 0
          PROVE  object'[map[i][t]] = object[map[i][t]]
      BY <1>5, <1>b, <3>2
    <3>. QED BY <2>1, <3>1, <3>2 DEF TrueMap, Says
  <2>2. SUFFICES ASSUME steady
                 PROVE  SteadyIsTrue'
    BY <1>8 DEF SteadyIsTrue
  <2>3. TrueMap(managedStackList)'
    <3>1. managedStackList \in 1..Len(map) /\ managedStackList # q.map
      BY <1>1, <1>2, <1>3 DEF OwnMap, ListingTypeOK
    <3>2. TrueMap(managedStackList)
      BY <1>3, <2>2 DEF SteadyIsTrue
    <3>3. PICK i \in 1..Len(map) : i = managedStackList /\ i = managedStackList'
      BY <1>8, <3>1
    <3>. QED BY <2>1, <3>1, <3>2, <3>3
  <2>4. ASSUME NEW e \in Number, Working(e)
        PROVE  refresh[e].alone /\ (~refresh[e].full => TrueMap(refresh[e].map)')
    <3>1. refresh[e].alone /\ (~refresh[e].full => TrueMap(refresh[e].map))
      BY <1>3, <2>2, <2>4 DEF SteadyIsTrue
    <3>2. ~refresh[e].full => refresh[e].map # q.map
      BY <1>1, <1>2, <2>4 DEF OwnMap
    <3>3. PICK i \in 1..Len(map) : i = refresh[e].map /\ i = refresh'[e].map
      BY <1>3, <1>12 DEF ListingTypeOK
    <3>. QED BY <2>1, <3>1, <3>2, <3>3
  <2>. QED BY <1>11, <1>12, <2>3, <2>4 DEF SteadyIsTrue
<1>. QED BY <1>11, <1>13, <1>15, <1>17, <1>18, <1>19 DEF ListInv

LEMMA GetKeeps ==
  ASSUME ListInv, NEW r \in Number, Get(r)
  PROVE  ListInv'
<1>. DEFINE q == refresh[r]
<1>0. q.phase = "get" /\ Working(r)
  BY DEF Get, Working
<1>1. /\ refresh \in [Number -> Refresh] /\ q \in Refresh
      /\ FitsPhase(q) /\ LookedAt(r)
  BY <1>0, Inside
<1>2. CASE q.name \in dir
  BY <1>2, GetsKeeps
<1>3. CASE q.name \notin dir
  <2>1. ~q.alone
    BY <1>0, <1>1, <1>3 DEF FitsPhase, LookedAt
  <2>2. UNCHANGED <<reality, object, managedStackList, steady>> /\ Counts'
    BY <1>3 DEF Get, Counts, ListInv, ListingTypeOK
  <2>3. CASE Available = {}
    <3>1. /\ SameRun(q, Advanced(q)) /\ Advanced(q).names = q.names \ {q.name}
          /\ Advanced(q).phase = IF q.names = {q.name} THEN "list" ELSE "check"
      BY <1>1, AdvancedType
    <3>2. refresh' = [refresh EXCEPT ![r] = Advanced(q)] /\ UNCHANGED map
      BY <1>3, <2>3 DEF Get
    <3>3. refresh'[r] = Advanced(q)
      BY <1>1, <3>2
    <3>4. FitsPhase(Advanced(q)) /\ LookedAt(r)'
      BY <1>0, <1>1, <2>1, <3>1, <3>3 DEF FitsPhase, SameRun, LookedAt
    <3>5. UNCHANGED heap
      BY <2>2, <3>2 DEF heap
    <3>6. Advanced(q).phase \notin {"new", "done"}
      BY <3>1
    <3>. QED BY <1>0, <2>2, <3>1, <3>2, <3>4, <3>5, <3>6, ProceedKeeps
  <2>4. CASE Available # {}
    <3>. DEFINE waits == [q EXCEPT !.phase = "nested"]
                refreshes == [refresh EXCEPT ![r] = waits]
    <3>1. PICK n \in Number : IsNext(n) /\ Begun(refreshes, n, TRUE, {}, r)
      BY <1>3, <2>4 DEF Get
    <3>2. refresh[n].phase = "new"
      BY <3>1 DEF IsNext, Available
    <3>3. waits \in Refresh
      BY <1>1 DEF Refresh, Phase
    <3>. HIDE DEF waits
    <3>4. refreshes \in [Number -> Refresh] /\ refreshes[r] = waits
          /\ \A e \in Number : e # r => refreshes[e] = refresh[e]
      BY <1>1, <3>3
    <3>5. r \in 0..MaxRefresh
      BY ListingAssumption DEF Number
    <3>. HIDE DEF refreshes
    <3>. QED BY <1>0, <2>1, <2>2, <3>1, <3>2, <3>4, <3>5, BeginKeeps DEF waits
  <2>. QED BY <2>3, <2>4
<1>. QED BY <1>2, <1>3

LEMMA SendKeeps ==
  ASSUME ListInv, NEW useCache \in BOOLEAN, SendStackList(useCache)
  PROVE  ListInv'
<1>1. PICK n \in Number : IsNext(n) /\ Begun(refresh, n, useCache, LoggedIn, 0)
  BY DEF SendStackList
<1>2. refresh[n].phase = "new"
  BY <1>1 DEF IsNext, Available
<1>3. refresh \in [Number -> Refresh] /\ LoggedIn \in SUBSET Browser /\ 0 \in 0..MaxRefresh
  BY ListingAssumption DEF ListInv, ListingTypeOK, LoggedIn
<1>4. UNCHANGED <<reality, object, managedStackList, steady>> /\ Counts'
  BY DEF SendStackList, Counts, ListInv, ListingTypeOK
<1>. QED BY <1>1, <1>2, <1>3, <1>4, BeginKeeps

LEMMA LookUpKeeps ==
  ASSUME ListInv, LookUp
  PROVE  ListInv'
<1>1. PICK n \in Number : IsNext(n) /\ Begun(refresh, n, TRUE, {}, 0)
  BY DEF LookUp
<1>2. refresh[n].phase = "new"
  BY <1>1 DEF IsNext, Available
<1>3. refresh \in [Number -> Refresh] /\ 0 \in 0..MaxRefresh
  BY ListingAssumption DEF ListInv, ListingTypeOK
<1>4. UNCHANGED <<reality, object, managedStackList, steady>> /\ Counts'
  BY DEF LookUp, Counts, ListInv, ListingTypeOK
<1>. QED BY <1>1, <1>2, <1>3, <1>4, BeginKeeps

LEMMA LoginKeeps ==
  ASSUME ListInv, NEW b \in Browser, Login(b)
  PROVE  ListInv'
<1>. DEFINE v1 == [browser[b] EXCEPT !.in = TRUE]
            v2 == [v1 EXCEPT !.waiting = TRUE]
<1>1. PICK n \in Number : IsNext(n) /\ Begun(refresh, n, FALSE, LoggedIn \union {b}, 0)
  BY DEF Login
<1>2. refresh[n].phase = "new"
  BY <1>1 DEF IsNext, Available
<1>3. /\ refresh \in [Number -> Refresh] /\ LoggedIn \union {b} \in SUBSET Browser
      /\ 0 \in 0..MaxRefresh /\ browser \in [Browser -> View]
  BY ListingAssumption DEF ListInv, ListingTypeOK, LoggedIn
<1>4. v1 \in View
  BY <1>3 DEF View
<1>. HIDE DEF v1
<1>5. v2 \in View
  BY <1>4 DEF View
<1>. HIDE DEF v2
<1>6. browser' = [browser EXCEPT ![b] = v2]
  BY Zenon DEF Login, v1, v2
<1>7. UNCHANGED <<reality, object, managedStackList, steady, events, faults>>
  BY DEF Login
<1>8. Counts'
  BY <1>3, <1>5, <1>6, <1>7 DEF Counts, ListInv, ListingTypeOK
<1>. QED BY <1>1, <1>2, <1>3, <1>7, <1>8, BeginKeeps

-----------------------------------------------------------------------------
(* The end of a refresh *)

\* A set as a sequence has each element once.
LEMMA SetToSeqIs ==
  ASSUME NEW S, IsFiniteSet(S)
  PROVE  \E k \in Nat :
           /\ SetToSeq(S) \in [1..k -> S]
           /\ \A i, j \in 1..k : SetToSeq(S)[i] = SetToSeq(S)[j] => i = j
           /\ \A x \in S : \E i \in 1..k : SetToSeq(S)[i] = x
<1>. DEFINE k == Cardinality(S)
            f == SetToSeq(S)
<1>1. k \in Nat /\ ExistsBijection(1..k, S)
  BY FS_CardinalityType
<1>2. \E g \in [1..k -> S] : IsInjective(g)
  BY <1>1 DEF ExistsBijection, Bijection, Injection
<1>3. f \in [1..k -> S] /\ IsInjective(f)
  BY <1>2, Zenon DEF SetToSeq
<1>. HIDE DEF f, k
<1>4. \A i, j \in 1..k : f[i] = f[j] => i = j
  BY <1>3 DEF IsInjective
<1>. DEFINE T == {f[i] : i \in 1..k}
<1>5. T \in SUBSET S
  BY <1>3
<1>6. ExistsBijection(1..k, T)
  <2>1. f \in [1..k -> T]
    BY <1>3
  <2>2. f \in Bijection(1..k, T)
    BY <1>3, <2>1 DEF Bijection, Injection, Surjection
  <2>. QED BY <2>2 DEF ExistsBijection
<1>7. IsFiniteSet(1..k) /\ Cardinality(1..k) = k
  BY <1>1, FS_Interval
<1>8. Cardinality(T) = Cardinality(S)
  BY <1>6, <1>7, FS_Bijection DEF k
<1>9. T = S
  BY <1>5, <1>8, FS_Subset
<1>10. \A x \in S : \E i \in 1..k : f[i] = x
  BY <1>9
<1>. QED BY <1>1, <1>3, <1>4, <1>10 DEF f

\* What a refresh makes of the list: the projects listed, those new to it, the
\* object of each stack and the status of each object.
ListedBy(r) == {s \in Stack : refresh[r].result[s] # "none"}
NewIn(r) == {s \in ListedBy(r) \ Hidden : map[refresh[r].map][s] = 0}
AddedBy(r) == SetToSeq(NewIn(r))
MapAfter(r) ==
  [s \in Stack |-> IF s \in Range(AddedBy(r))
                   THEN Len(object) + CHOOSE i \in DOMAIN AddedBy(r) : AddedBy(r)[i] = s
                   ELSE map[refresh[r].map][s]]
ObjectsAfter(r) ==
  [i \in 1..Len(object) + Len(AddedBy(r)) |->
     IF \E s \in ListedBy(r) : MapAfter(r)[s] = i
     THEN refresh[r].result[CHOOSE s \in ListedBy(r) : MapAfter(r)[s] = i] ELSE object[i]]
FoundBy(r) ==
  IF refresh[r].for = 0 THEN 0 ELSE MapAfter(r)[refresh[refresh[r].for].name]

\* The new objects come after those there are.
LEMMA MapAfterIs ==
  ASSUME ListInv, NEW r \in Number, Working(r)
  PROVE  /\ Len(object) \in Nat /\ Len(AddedBy(r)) \in Nat
         /\ MapAfter(r) \in [Stack -> 0..Len(object) + Len(AddedBy(r))]
         /\ \A s \in Stack \ NewIn(r) : MapAfter(r)[s] = map[refresh[r].map][s]
         /\ \A s \in NewIn(r) : MapAfter(r)[s] > Len(object)
         /\ \A s, t \in Stack : MapAfter(r)[s] # 0 /\ MapAfter(r)[s] = MapAfter(r)[t] => s = t
         /\ \A i \in 1..Len(object) + Len(AddedBy(r)) :
              i > Len(object) => \E s \in NewIn(r) : MapAfter(r)[s] = i
<1>. DEFINE m == MapAfter(r)
            added == AddedBy(r)
            old == map[refresh[r].map]
            L == Len(object)
<1>1. NewIn(r) \in SUBSET Stack
  BY DEF NewIn, ListedBy
<1>2. IsFiniteSet(NewIn(r))
  BY <1>1, FS_Subset, ListingAssumption
<1>3. PICK k \in Nat :
        /\ added \in [1..k -> NewIn(r)]
        /\ \A i, j \in 1..k : added[i] = added[j] => i = j
        /\ \A x \in NewIn(r) : \E i \in 1..k : added[i] = x
  BY <1>2, SetToSeqIs DEF AddedBy
<1>4. DOMAIN added = 1..k /\ Len(added) = k /\ Range(added) = NewIn(r)
  BY <1>3 DEF Range
<1>5. L \in Nat /\ old \in [Stack -> 0..L]
  <2>1. /\ map \in Seq([Stack -> 0..L]) /\ object \in Seq(StackStatus)
        /\ refresh[r].map \in 1..Len(map)
    BY DEF ListInv, ListingTypeOK
  <2>. QED BY <2>1
<1>. DEFINE pos(s) == CHOOSE i \in DOMAIN added : added[i] = s
<1>6. \A s \in NewIn(r) : pos(s) \in 1..k /\ added[pos(s)] = s
  BY <1>3, <1>4
<1>7. \A s \in Stack : m[s] = IF s \in NewIn(r) THEN L + pos(s) ELSE old[s]
  BY <1>4 DEF MapAfter
<1>8. m = [s \in Stack |-> IF s \in NewIn(r) THEN L + pos(s) ELSE old[s]]
  BY <1>4 DEF MapAfter
<1>. HIDE DEF m, pos, added, old, L
<1>9. m \in [Stack -> 0..L + k]
  BY <1>5, <1>6, <1>8
<1>10. \A s \in NewIn(r) : m[s] > L
  BY <1>1, <1>5, <1>6, <1>7
<1>11. ASSUME NEW s \in Stack, NEW t \in Stack, m[s] # 0, m[s] = m[t]
       PROVE  s = t
  <2>1. CASE s \in NewIn(r) /\ t \in NewIn(r)
    <3>1. pos(s) = pos(t)
      BY <1>5, <1>6, <1>7, <1>11, <2>1
    <3>. QED BY <1>6, <2>1, <3>1
  <2>2. CASE s \notin NewIn(r) /\ t \notin NewIn(r)
    <3>1. old[s] # 0 /\ old[s] = old[t]
      BY <1>7, <1>11, <2>2
    <3>2. refresh[r].map \in 1..Len(map) /\ OneStackEach
      BY DEF ListInv, ListingTypeOK
    <3>. QED BY <3>1, <3>2 DEF OneStackEach, old
  <2>3. CASE ~(s \in NewIn(r) <=> t \in NewIn(r))
    BY <1>5, <1>7, <1>10, <1>11, <2>3
  <2>. QED BY <2>1, <2>2, <2>3
<1>12. ASSUME NEW i \in 1..L + k, i > L
       PROVE  \E s \in NewIn(r) : m[s] = i
  <2>1. i - L \in 1..k
    BY <1>3, <1>5, <1>12
  <2>2. added[i - L] \in NewIn(r)
    BY <1>3, <2>1
  <2>3. pos(added[i - L]) = i - L
    BY <1>3, <1>6, <2>1, <2>2
  <2>4. m[added[i - L]] = i
    BY <1>1, <1>5, <1>7, <1>12, <2>2, <2>3
  <2>. QED BY <2>2, <2>4
<1>. QED BY <1>3, <1>4, <1>5, <1>7, <1>9, <1>10, <1>11, <1>12 DEF m, added, old, L

\* The objects of what is listed have its status, the others what they had.
LEMMA ObjectsAfterIs ==
  ASSUME ListInv, NEW r \in Number, Working(r)
  PROVE  /\ ObjectsAfter(r) \in Seq(StackStatus)
         /\ Len(ObjectsAfter(r)) = Len(object) + Len(AddedBy(r))
         /\ \A s \in ListedBy(r) : MapAfter(r)[s] # 0 =>
              ObjectsAfter(r)[MapAfter(r)[s]] = refresh[r].result[s]
         /\ \A i \in 1..Len(object) :
              (\A s \in ListedBy(r) : MapAfter(r)[s] # i) => ObjectsAfter(r)[i] = object[i]
<1>. DEFINE m == MapAfter(r)
            n == Len(object) + Len(AddedBy(r))
            x(i) == IF \E s \in ListedBy(r) : m[s] = i
                    THEN refresh[r].result[CHOOSE s \in ListedBy(r) : m[s] = i] ELSE object[i]
<1>1. /\ Len(object) \in Nat /\ n \in Nat /\ m \in [Stack -> 0..n]
      /\ \A s, t \in Stack : m[s] # 0 /\ m[s] = m[t] => s = t
      /\ \A i \in 1..n : i > Len(object) => \E s \in NewIn(r) : m[s] = i
  BY MapAfterIs
<1>2. /\ refresh[r].result \in [Stack -> StackStatus \union {"none"}]
      /\ object \in Seq(StackStatus)
  BY Inside DEF Refresh, List, ListInv, ListingTypeOK
<1>3. \A s \in ListedBy(r) : s \in Stack /\ refresh[r].result[s] \in StackStatus
  BY <1>2 DEF ListedBy
<1>4. NewIn(r) \subseteq ListedBy(r)
  BY DEF NewIn
<1>5. ObjectsAfter(r) = [i \in 1..n |-> x(i)]
  BY Zenon DEF ObjectsAfter
<1>. HIDE DEF m, n
<1>6. ASSUME NEW s \in ListedBy(r), m[s] # 0
      PROVE  x(m[s]) = refresh[r].result[s]
  <2>1. (CHOOSE t \in ListedBy(r) : m[t] = m[s]) = s
    BY <1>1, <1>3, <1>6
  <2>. QED BY <1>6, <2>1
<1>7. ASSUME NEW i \in 1..Len(object), \A s \in ListedBy(r) : m[s] # i
      PROVE  x(i) = object[i]
  BY <1>7
<1>8. ASSUME NEW i \in 1..n
      PROVE  x(i) \in StackStatus
  <2>1. CASE \E s \in ListedBy(r) : m[s] = i
    BY <1>1, <1>3, <1>6, <2>1
  <2>2. CASE \A s \in ListedBy(r) : m[s] # i
    <3>1. i \in 1..Len(object)
      BY <1>1, <1>4, <2>2
    <3>. QED BY <1>2, <1>7, <2>2, <3>1
  <2>. QED BY <2>1, <2>2
<1>. HIDE DEF x
<1>9. \A s \in ListedBy(r) : m[s] # 0 => m[s] \in 1..n
  BY <1>1, <1>3
<1>10. 1..Len(object) \subseteq 1..n
  BY <1>1, MapAfterIs DEF n
<1>11. ObjectsAfter(r) \in Seq(StackStatus) /\ Len(ObjectsAfter(r)) = n
  BY <1>1, <1>5, <1>8
<1>. QED BY <1>5, <1>6, <1>7, <1>9, <1>10, <1>11 DEF m, n

ListAfter(r) ==
  [s \in Stack |-> IF MapAfter(r)[s] = 0 THEN "none" ELSE object'[MapAfter(r)[s]]]
Parent(r) == refresh[refresh[r].for]
MapsAfter(r) == Append([map EXCEPT ![refresh[r].map] = MapAfter(r)], MapAfter(r))

LEMMA FinishDoes ==
  ASSUME NEW r \in Number, Finish(r)
  PROVE  /\ refresh[r].phase = "listed" /\ Working(r) /\ Over(r)
         /\ UNCHANGED <<dir, project, events, faults>> /\ UNCHANGED reality
         /\ object' = IF FoundBy(r) = 0 THEN ObjectsAfter(r)
                      ELSE [ObjectsAfter(r) EXCEPT ![FoundBy(r)] = "file"]
         /\ map' = IF FoundBy(r) = 0 THEN MapsAfter(r)
                   ELSE [MapsAfter(r) EXCEPT ![Parent(r).map][Parent(r).name] = FoundBy(r)]
         /\ managedStackList' = Len(MapsAfter(r))
         /\ browser' = [b \in Browser |-> IF b \in refresh[r].to THEN ListReceived(ListAfter(r), b)
                                          ELSE browser[b]]
         /\ steady' = (steady \/ (/\ refresh[r].full /\ refresh[r].alone
                                  /\ \A p \in Number \ {r} : ~Working(p)))
<1>. USE DEF ListedBy, NewIn, AddedBy, MapAfter, ObjectsAfter, FoundBy, Parent, MapsAfter
<1>1. /\ refresh[r].phase = "listed" /\ Working(r) /\ Over(r)
      /\ UNCHANGED <<dir, project, events, faults>> /\ UNCHANGED reality
  BY DEF Finish, Working, reality
<1>2. object' = IF FoundBy(r) = 0 THEN ObjectsAfter(r)
                ELSE [ObjectsAfter(r) EXCEPT ![FoundBy(r)] = "file"]
  BY Zenon DEF Finish
<1>3. map' = IF FoundBy(r) = 0 THEN MapsAfter(r)
             ELSE [MapsAfter(r) EXCEPT ![Parent(r).map][Parent(r).name] = FoundBy(r)]
  BY Zenon DEF Finish
<1>4. managedStackList' = Len(MapsAfter(r))
  BY Zenon DEF Finish, Cached
<1>5. Shown(refresh[r].to, [b \in Browser |-> ListReceived(ListAfter(r), b)])
  BY Zenon DEF Finish, ListAfter
<1>6. steady' = (steady \/ (/\ refresh[r].full /\ refresh[r].alone
                            /\ \A p \in Number \ {r} : ~Working(p)))
  BY Zenon DEF Finish
<1>7. browser' = [b \in Browser |-> IF b \in refresh[r].to THEN ListReceived(ListAfter(r), b)
                                    ELSE browser[b]]
  <2>. DEFINE views == [b \in Browser |-> ListReceived(ListAfter(r), b)]
  <2>1. browser' = [b \in Browser |-> IF b \in refresh[r].to THEN views[b] ELSE browser[b]]
    BY <1>5, Zenon DEF Shown
  <2>2. \A b \in Browser : views[b] = ListReceived(ListAfter(r), b)
    OBVIOUS
  <2>. HIDE DEF views
  <2>. QED BY <2>1, <2>2, Zenon
<1>. QED BY <1>1, <1>2, <1>3, <1>4, <1>6, <1>7, Zenon

\* The one that waits for it works on a map of its own.
LEMMA ParentIs ==
  ASSUME ListInv, NEW r \in Number, Working(r), refresh[r].phase # "nested", refresh[r].for # 0
  PROVE  /\ refresh[r].for \in Number \ {r} /\ Working(refresh[r].for)
         /\ Parent(r).name \in Stack /\ Parent(r).map \in 1..Len(map)
         /\ Parent(r).map # refresh[r].map /\ ~Parent(r).alone
         /\ \A e \in Number : Working(e) /\ refresh[e].full /\ refresh[e].alone =>
              refresh[e].map # Parent(r).map
         /\ Parent(r).full
<1>. DEFINE f == refresh[r].for
<1>1. refresh[r] \in Refresh /\ Calls(r)
  BY Inside
<1>2. f \in Number \ {r} /\ refresh[f].phase = "nested" /\ Working(f)
  BY <1>1, ListingAssumption DEF Calls, Refresh, Number, Working
<1>3. refresh[f] \in Refresh /\ refresh[f].map \in 1..Len(map) /\ FitsPhase(refresh[f]) /\ OwnMap(f)
  BY <1>2, Inside
<1>4. refresh[f].full /\ ~refresh[f].alone /\ refresh[f].name \in Stack
  BY <1>2, <1>3 DEF FitsPhase, Refresh
<1>. QED BY <1>2, <1>3, <1>4 DEF Parent, OwnMap

LEMMA FoundIs ==
  ASSUME ListInv, NEW r \in Number, Working(r), refresh[r].phase # "nested"
  PROVE  /\ FoundBy(r) \in 0..Len(object) + Len(AddedBy(r))
         /\ FoundBy(r) # 0 => refresh[r].for # 0 /\ FoundBy(r) = MapAfter(r)[Parent(r).name]
                              /\ Parent(r).name \in Stack
BY MapAfterIs, ParentIs DEF FoundBy, Parent

\* The objects after it.
LEMMA ObjectsAre ==
  ASSUME ListInv, NEW r \in Number, Finish(r)
  PROVE  /\ object' \in Seq(StackStatus)
         /\ Len(object') = Len(object) + Len(AddedBy(r))
         /\ \A i \in 1..Len(object) + Len(AddedBy(r)) :
              i # FoundBy(r) => object'[i] = ObjectsAfter(r)[i]
<1>1. refresh[r].phase # "nested" /\ Working(r)
  BY FinishDoes
<1>2. /\ ObjectsAfter(r) \in Seq(StackStatus)
      /\ Len(ObjectsAfter(r)) = Len(object) + Len(AddedBy(r))
  BY <1>1, ObjectsAfterIs
<1>3. FoundBy(r) \in 0..Len(object) + Len(AddedBy(r))
  BY <1>1, FoundIs
<1>4. "file" \in StackStatus
  BY DEF StackStatus
<1>5. CASE FoundBy(r) = 0
  BY <1>2, <1>5, FinishDoes
<1>6. CASE FoundBy(r) # 0
  <2>1. object' = [ObjectsAfter(r) EXCEPT ![FoundBy(r)] = "file"]
    BY <1>6, FinishDoes
  <2>. QED BY <1>2, <1>3, <1>4, <1>6, <2>1
<1>. QED BY <1>5, <1>6

\* The maps after it: its own and the one cached are the list it made, and the
\* one that waits for it is given what was found.
LEMMA MapsAre ==
  ASSUME ListInv, NEW r \in Number, Finish(r)
  PROVE  /\ Len(map) \in Nat /\ Len(map') = Len(map) + 1
         /\ map' \in Seq([Stack -> 0..Len(object')])
         /\ map'[refresh[r].map] = MapAfter(r) /\ map'[Len(map) + 1] = MapAfter(r)
         /\ managedStackList' = Len(map) + 1
         /\ \A i \in 1..Len(map) \ {refresh[r].map} :
              FoundBy(r) = 0 \/ i # Parent(r).map => map'[i] = map[i]
         /\ \A i \in 1..Len(map) \ {refresh[r].map}, s \in Stack :
              map'[i][s] = map[i][s] \/ map'[i][s] = MapAfter(r)[s]
<1>. DEFINE m == MapAfter(r)
            q == refresh[r]
            L == Len(object) + Len(AddedBy(r))
            S == [Stack -> 0..L]
            m1 == [map EXCEPT ![q.map] = m]
            m2 == Append(m1, m)
<1>1. q.phase # "nested" /\ Working(r) /\ q.map \in 1..Len(map)
  BY FinishDoes DEF ListInv, ListingTypeOK
<1>2. Len(object) \in Nat /\ Len(AddedBy(r)) \in Nat /\ m \in S
  BY <1>1, MapAfterIs
<1>3. map \in Seq([Stack -> 0..Len(object)])
  BY DEF ListInv, ListingTypeOK
<1>4. [Stack -> 0..Len(object)] \subseteq S
  BY <1>2
<1>5. map \in Seq(S) /\ Len(map) \in Nat
  BY <1>3, <1>4
<1>6. Len(object') = L
  BY ObjectsAre
<1>7. MapsAfter(r) = m2
  BY DEF MapsAfter
<1>8. FoundBy(r) \in 0..L
  BY <1>1, FoundIs
<1>. HIDE DEF S, L, m
<1>9. /\ m1 \in Seq(S) /\ Len(m1) = Len(map) /\ m1[q.map] = m
      /\ \A i \in 1..Len(map) \ {q.map} : m1[i] = map[i]
  BY <1>1, <1>2, <1>5
<1>. HIDE DEF m1
<1>10. m2 \in Seq(S) /\ Len(m2) = Len(map) + 1 /\ m2[Len(map) + 1] = m
       /\ \A i \in 1..Len(map) : m2[i] = m1[i]
  BY <1>2, <1>9, Appended
<1>. HIDE DEF m2
<1>11. managedStackList' = Len(map) + 1
  BY <1>7, <1>10, FinishDoes
<1>12. CASE FoundBy(r) = 0
  <2>1. map' = m2
    BY <1>7, <1>12, FinishDoes
  <2>. QED BY <1>1, <1>5, <1>6, <1>9, <1>10, <1>11, <2>1 DEF S, m
<1>13. CASE FoundBy(r) # 0
  <2>. DEFINE f == FoundBy(r)
              p == Parent(r)
  <2>1. /\ p.map \in 1..Len(map) /\ p.map # q.map /\ p.name \in Stack
        /\ f = m[p.name]
    BY <1>1, <1>13, FoundIs, ParentIs DEF m
  <2>2. map' = [m2 EXCEPT ![p.map][p.name] = f]
    BY <1>7, <1>13, FinishDoes
  <2>. HIDE DEF p, f
  <2>3. p.map \in 1..Len(m2) /\ m2[p.map] \in S
    BY <1>5, <1>10, <2>1
  <2>4. [m2[p.map] EXCEPT ![p.name] = f] \in S
    BY <1>8, <2>1, <2>3 DEF S, f
  <2>5. /\ map' \in Seq(S) /\ Len(map') = Len(m2)
        /\ \A i \in 1..Len(m2) : i # p.map => map'[i] = m2[i]
        /\ map'[p.map] = [m2[p.map] EXCEPT ![p.name] = f]
    BY <1>10, <2>2, <2>3, <2>4
  <2>6. \A s \in Stack : map'[p.map][s] = map[p.map][s] \/ map'[p.map][s] = m[s]
    <3>1. m2[p.map] = map[p.map] /\ map[p.map] \in S
      BY <1>5, <1>9, <1>10, <2>1
    <3>. QED BY <2>1, <2>5, <3>1 DEF S
  <2>7. \A i \in 1..Len(map) \ {q.map} : i # p.map => map'[i] = map[i]
    <3>1. \A i \in 1..Len(map) \ {q.map} : m2[i] = map[i]
      BY <1>9, <1>10
    <3>2. 1..Len(map) \subseteq 1..Len(m2)
      BY <1>5, <1>10
    <3>. QED BY <2>5, <3>1, <3>2
  <2>8. map'[q.map] = m /\ map'[Len(map) + 1] = m
    BY <1>1, <1>5, <1>9, <1>10, <2>1, <2>5
  <2>9. \A i \in 1..Len(map) \ {q.map}, s \in Stack :
          map'[i][s] = map[i][s] \/ map'[i][s] = m[s]
    BY <2>6, <2>7
  <2>10. map' \in Seq([Stack -> 0..Len(object')]) /\ Len(map') = Len(map) + 1
    BY <1>6, <1>10, <2>5 DEF S
  <2>. QED BY <1>5, <1>11, <1>13, <2>7, <2>8, <2>9, <2>10 DEF m, p
<1>. QED BY <1>12, <1>13

\* What was in a map that a full refresh has to itself is nothing of the others'.
LEMMA FinishSpares ==
  ASSUME ListInv, NEW r \in Number, Finish(r), NEW e \in Number \ {r}, Working(e),
         refresh[e].full, refresh[e].alone
  PROVE  Spared(e)
<1>. DEFINE i == refresh[e].map
            m == MapAfter(r)
<1>1. Working(r) /\ refresh[r].phase # "nested"
  BY FinishDoes
<1>2. /\ i \in 1..Len(map) /\ OwnMap(e) /\ LookedAt(e)
      /\ refresh[r].map \in 1..Len(map) /\ i # refresh[r].map
  BY <1>1, Inside DEF OwnMap
<1>3. map \in Seq([Stack -> 0..Len(object)]) /\ object \in Seq(StackStatus)
  BY DEF ListInv, ListingTypeOK
<1>4. /\ Len(object) \in Nat /\ Len(map) \in Nat
      /\ \A j \in 1..Len(map) : map[j] \in [Stack -> 0..Len(object)]
  BY <1>3
<1>5. FoundBy(r) # 0 => i # Parent(r).map
  BY <1>1, FoundIs, ParentIs
<1>6. map'[i] = map[i]
  BY <1>2, <1>5, MapsAre
<1>7. i \in 1..Len(map)'
  BY <1>2, <1>4, MapsAre
<1>8. ASSUME NEW s \in Stack, map[i][s] # 0
      PROVE  /\ object'[map[i][s]] = object[map[i][s]]
             /\ \A j \in 1..Len(map)' \ {i}, t \in Stack : map'[j][t] # map[i][s]
  <2>1. map[i][s] \in 1..Len(object)
    BY <1>2, <1>4, <1>8
  <2>2. \A j \in 1..Len(map) \ {i}, t \in Stack : map[j][t] # map[i][s]
    BY <1>2, <1>8 DEF LookedAt
  <2>3. ASSUME NEW t \in Stack
        PROVE  m[t] # map[i][s]
    <3>1. m[t] = map[refresh[r].map][t] \/ m[t] > Len(object)
      BY <1>1, MapAfterIs
    <3>2. map[refresh[r].map][t] # map[i][s]
      BY <1>2, <2>2
    <3>. QED BY <1>4, <2>1, <3>1, <3>2
  <2>4. ASSUME NEW j \in 1..Len(map)' \ {i}, NEW t \in Stack
        PROVE  map'[j][t] # map[i][s]
    <3>1. j \in 1..Len(map) + 1
      BY MapsAre
    <3>2. CASE j = refresh[r].map \/ j = Len(map) + 1
      <4>1. map'[j] = m
        BY <3>2, MapsAre
      <4>. QED BY <2>3, <4>1
    <3>3. CASE j \in 1..Len(map) \ {refresh[r].map}
      <4>1. map'[j][t] = map[j][t] \/ map'[j][t] = m[t]
        BY <3>3, MapsAre
      <4>2. map[j][t] # map[i][s]
        BY <2>2, <2>4, <3>3
      <4>. QED BY <2>3, <4>1, <4>2
    <3>. QED BY <1>4, <3>1, <3>2, <3>3
  <2>5. object'[map[i][s]] = object[map[i][s]]
    <3>1. map[i][s] # FoundBy(r)
      BY <1>1, <1>8, <2>3, FoundIs
    <3>2. map[i][s] \in 1..Len(object) + Len(AddedBy(r))
      BY <1>1, <1>4, <2>1, MapAfterIs
    <3>3. object'[map[i][s]] = ObjectsAfter(r)[map[i][s]]
      BY <3>1, <3>2, ObjectsAre
    <3>4. \A t \in ListedBy(r) : m[t] # map[i][s]
      BY <2>3 DEF ListedBy
    <3>. QED BY <1>1, <2>1, <3>3, <3>4, ObjectsAfterIs
  <2>. QED BY <2>4, <2>5
<1>. QED BY <1>6, <1>7, <1>8 DEF Spared

\* A refresh that was undisturbed has made a true list, if it was full or what
\* it started from was true.
LEMMA FinishIsTrue ==
  ASSUME ListInv, NEW r \in Number, Finish(r), refresh[r].alone, refresh[r].for = 0,
         refresh[r].full \/ TrueMap(refresh[r].map), NEW s \in Stack
  PROVE  ListAfter(r)[s] = Truth[s]
<1>. DEFINE q == refresh[r]
            m == MapAfter(r)
            old == map[q.map]
<1>1. Working(r) /\ q.phase = "listed"
  BY FinishDoes
<1>2. q.map \in 1..Len(map) /\ LookedAt(r)
  BY <1>1, Inside
<1>3. q.result[s] = IF project[s] = {} THEN "none" ELSE StatusConvert(project[s])
  BY <1>1, <1>2 DEF LookedAt, ProjectList
<1>4. s \in ListedBy(r) <=> project[s] # {}
  BY <1>3, StatusType DEF ListedBy
<1>5. Truth[s] = IF project[s] # {} /\ (s \in dir \/ s \notin Hidden)
                 THEN StatusConvert(project[s])
                 ELSE IF s \in dir THEN "file" ELSE "none"
  BY DEF Truth
<1>6. map \in Seq([Stack -> 0..Len(object)]) /\ object \in Seq(StackStatus)
  BY DEF ListInv, ListingTypeOK
<1>7. Len(object) \in Nat /\ old[s] \in 0..Len(object)
  BY <1>2, <1>6
<1>8. FoundBy(r) = 0
  BY DEF FoundBy
<1>9. m[s] \in 0..Len(object) + Len(AddedBy(r)) /\ Len(AddedBy(r)) \in Nat
  BY <1>1, MapAfterIs
<1>10. m[s] # 0 => object'[m[s]] = ObjectsAfter(r)[m[s]]
  BY <1>7, <1>8, <1>9, ObjectsAre
<1>11. s \in ListedBy(r) /\ m[s] # 0 => object'[m[s]] = StatusConvert(project[s])
  BY <1>1, <1>3, <1>4, <1>10, ObjectsAfterIs
<1>12. s \notin ListedBy(r) /\ m[s] # 0 => m[s] = old[s] /\ object'[m[s]] = object[old[s]]
  <2>1. SUFFICES ASSUME s \notin ListedBy(r), m[s] # 0
                 PROVE  m[s] = old[s] /\ object'[m[s]] = object[old[s]]
    OBVIOUS
  <2>2. m[s] = old[s] /\ old[s] \in 1..Len(object)
    BY <1>1, <1>7, <2>1, MapAfterIs DEF NewIn
  <2>3. \A t \in ListedBy(r) : m[t] # m[s]
    BY <1>1, <2>1, MapAfterIs DEF ListedBy
  <2>4. ObjectsAfter(r)[m[s]] = object[m[s]]
    BY <1>1, <2>2, <2>3, ObjectsAfterIs
  <2>. QED BY <1>10, <2>1, <2>2, <2>4
<1>13. m[s] # 0 <=> old[s] # 0 \/ (s \in ListedBy(r) /\ s \notin Hidden)
  <2>1. CASE s \in NewIn(r)
    BY <1>1, <1>7, <2>1, MapAfterIs DEF NewIn
  <2>2. CASE s \notin NewIn(r)
    BY <1>1, <2>2, MapAfterIs DEF NewIn
  <2>. QED BY <2>1, <2>2
<1>14. ListAfter(r)[s] = IF m[s] = 0 THEN "none" ELSE object'[m[s]]
  BY DEF ListAfter
<1>15. CASE q.full
  <2>1. (old[s] # 0 <=> s \in dir) /\ (old[s] # 0 => object[old[s]] = "file")
    BY <1>1, <1>2, <1>15 DEF LookedAt
  <2>. QED BY <1>4, <1>5, <1>11, <1>12, <1>13, <1>14, <2>1
<1>16. CASE TrueMap(q.map)
  <2>1. (IF old[s] = 0 THEN "none" ELSE object[old[s]]) = Truth[s]
    BY <1>16 DEF TrueMap, Says
  <2>2. old[s] # 0 => object[old[s]] # "none"
    <3>1. old[s] # 0 => object[old[s]] \in StackStatus
      BY <1>6, <1>7
    <3>. QED BY <3>1 DEF StackStatus
  <2>. QED BY <1>4, <1>5, <1>11, <1>12, <1>13, <1>14, <2>1, <2>2, StatusType
<1>. QED BY <1>15, <1>16

\* Of a stack that a true map has an object for, the project says the same.
LEMMA TrueEntry ==
  ASSUME ListInv, NEW i \in 1..Len(map), TrueMap(i), NEW s \in Stack, map[i][s] # 0,
         project[s] # {}
  PROVE  object[map[i][s]] = StatusConvert(project[s])
<1>1. object \in Seq(StackStatus) /\ map \in Seq([Stack -> 0..Len(object)])
  BY DEF ListInv, ListingTypeOK
<1>2. map[i][s] \in 1..Len(object)
  BY <1>1
<1>3. object[map[i][s]] \in StackStatus
  BY <1>1, <1>2
<1>4. object[map[i][s]] = Truth[s]
  BY DEF TrueMap, Says
<1>5. Truth[s] # "none"
  BY <1>3, <1>4 DEF StackStatus
<1>. QED BY <1>4, <1>5 DEF Truth

\* Who ends a steady list was not disturbed, nor called by another, and starts
\* from what is true.
LEMMA SteadyEnd ==
  ASSUME ListInv, NEW r \in Number, Finish(r), steady'
  PROVE  /\ refresh[r].alone /\ refresh[r].for = 0
         /\ refresh[r].full \/ TrueMap(refresh[r].map)
<1>. DEFINE q == refresh[r]
<1>0. Working(r) /\ q.phase = "listed"
  BY FinishDoes
<1>1. CASE steady
  <2>1. SteadyIsTrue
    BY DEF ListInv
  <2>2. q.alone /\ (q.full \/ TrueMap(q.map))
    BY <1>0, <1>1, <2>1 DEF SteadyIsTrue
  <2>3. q.for = 0
    <3>1. SUFFICES ASSUME q.for # 0 PROVE FALSE
      OBVIOUS
    <3>2. q.for \in Number /\ Working(q.for) /\ ~refresh[q.for].alone
      BY <1>0, <3>1, ParentIs DEF Parent
    <3>. QED BY <1>1, <2>1, <3>2 DEF SteadyIsTrue
  <2>. QED BY <2>2, <2>3
<1>2. CASE ~steady
  <2>1. q.full /\ q.alone /\ \A p \in Number \ {r} : ~Working(p)
    BY <1>2, FinishDoes
  <2>2. q.for # 0 => q.for \in Number \ {r} /\ Working(q.for)
    BY <1>0, ParentIs
  <2>. QED BY <2>1, <2>2
<1>. QED BY <1>1, <1>2

LEMMA FinishSteady ==
  ASSUME ListInv, NEW r \in Number, Finish(r)
  PROVE  SteadyIsTrue'
<1>. DEFINE q == refresh[r]
            m == MapAfter(r)
            n == Len(map) + 1
<1>0. Working(r) /\ q.phase = "listed" /\ Over(r)
  BY FinishDoes
<1>1. SUFFICES ASSUME steady'
               PROVE  SteadyIsTrue'
  BY DEF SteadyIsTrue
<1>2. Truth' = Truth
  BY FinishDoes DEF Truth
<1>3. /\ q.map \in 1..Len(map) /\ LookedAt(r) /\ OwnMap(r)
      /\ map \in Seq([Stack -> 0..Len(object)]) /\ object \in Seq(StackStatus)
  BY <1>0, Inside DEF ListInv, ListingTypeOK
<1>4. /\ Len(object) \in Nat /\ Len(map) \in Nat
      /\ \A j \in 1..Len(map) : map[j] \in [Stack -> 0..Len(object)]
  BY <1>3
<1>5. q.alone /\ q.for = 0 /\ (q.full \/ TrueMap(q.map))
  BY <1>1, SteadyEnd
<1>6. \A s \in Stack : (IF m[s] = 0 THEN "none" ELSE object'[m[s]]) = Truth[s]
  <2>1. \A s \in Stack : ListAfter(r)[s] = Truth[s]
    BY <1>5, FinishIsTrue
  <2>2. \A s \in Stack : ListAfter(r)[s] = IF m[s] = 0 THEN "none" ELSE object'[m[s]]
    BY DEF ListAfter
  <2>. QED BY <2>1, <2>2
<1>7. FoundBy(r) = 0
  BY <1>5 DEF FoundBy
<1>8. map'[q.map] = m /\ map'[n] = m /\ managedStackList' = n
      /\ \A i \in 1..Len(map) \ {q.map} : map'[i] = map[i]
  BY <1>7, MapsAre
<1>9. ASSUME NEW i, map'[i] = m
      PROVE  TrueMap(i)'
  BY <1>2, <1>6, <1>9 DEF TrueMap, Says
\* A true map stays so.
<1>10. ASSUME NEW i \in 1..Len(map), TrueMap(i)
       PROVE  TrueMap(i)'
  <2>1. CASE i = q.map
    BY <1>8, <1>9, <2>1
  <2>2. CASE i # q.map
    <3>1. map'[i] = map[i]
      BY <1>8, <2>2
    <3>2. ASSUME NEW s \in Stack, map[i][s] # 0
          PROVE  object'[map[i][s]] = object[map[i][s]]
      <4>1. map[i][s] \in 1..Len(object)
        BY <1>4, <3>2
      <4>2. map[i][s] \in 1..Len(object) + Len(AddedBy(r))
        BY <1>0, <1>4, <4>1, MapAfterIs
      <4>3. object'[map[i][s]] = ObjectsAfter(r)[map[i][s]]
        BY <1>7, <4>1, <4>2, ObjectsAre
      <4>4. CASE \A t \in ListedBy(r) : m[t] # map[i][s]
        BY <1>0, <4>1, <4>3, <4>4, ObjectsAfterIs
      <4>5. CASE \E t \in ListedBy(r) : m[t] = map[i][s]
        <5>1. PICK t \in ListedBy(r) : m[t] = map[i][s]
          BY <4>5
        <5>2. t \in Stack /\ q.result[t] # "none"
          BY <5>1 DEF ListedBy
        <5>3. m[t] = map[q.map][t]
          <6>1. ~(m[t] > Len(object))
            BY <1>4, <4>1, <5>1
          <6>. QED BY <1>0, <5>2, <6>1, MapAfterIs
        <5>4. t = s
          <6>1. OneStackEach
            BY DEF ListInv
          <6>. QED BY <1>3, <3>2, <5>1, <5>2, <5>3, <6>1 DEF OneStackEach
        <5>5. ObjectsAfter(r)[map[i][s]] = q.result[s]
          BY <1>0, <3>2, <5>1, <5>4, ObjectsAfterIs
        <5>6. q.result[s] = IF project[s] = {} THEN "none" ELSE StatusConvert(project[s])
          BY <1>0, <1>3, <1>5 DEF LookedAt, ProjectList
        <5>7. object[map[i][s]] = StatusConvert(project[s])
          BY <1>10, <3>2, <5>2, <5>4, <5>6, TrueEntry
        <5>. QED BY <4>3, <5>2, <5>4, <5>5, <5>6, <5>7
      <4>. QED BY <4>4, <4>5
    <3>. QED BY <1>2, <1>10, <3>1, <3>2 DEF TrueMap, Says
  <2>. QED BY <2>1, <2>2
<1>11. TrueMap(managedStackList)'
  BY <1>8, <1>9
<1>12. ASSUME NEW e \in Number, Working(e)'
       PROVE  refresh'[e].alone /\ (~refresh'[e].full => TrueMap(refresh[e].map)')
  <2>1. e # r
    BY <1>0, <1>12, OverIs DEF Working
  <2>2. /\ Working(e) /\ refresh'[e].alone = refresh[e].alone /\ refresh'[e].full = refresh[e].full
        /\ refresh'[e].map = refresh[e].map
    BY <1>0, <1>12, <2>1, OverLeaves
  <2>3. steady
    BY <1>1, <2>1, <2>2, FinishDoes
  <2>4. refresh[e].alone /\ (~refresh[e].full => TrueMap(refresh[e].map))
    BY <2>2, <2>3 DEF ListInv, SteadyIsTrue
  <2>5. PICK i \in 1..Len(map) : i = refresh[e].map /\ i = refresh'[e].map
    BY <2>2 DEF ListInv, ListingTypeOK
  <2>. QED BY <1>10, <2>2, <2>4, <2>5
<1>. QED BY <1>11, <1>12 DEF SteadyIsTrue

LEMMA FinishKeeps ==
  ASSUME ListInv, NEW r \in Number, Finish(r)
  PROVE  ListInv'
<1>. DEFINE q == refresh[r]
            m == MapAfter(r)
            n == Len(map) + 1
<1>0. /\ Working(r) /\ q.phase # "nested" /\ Over(r)
      /\ UNCHANGED <<dir, project, events, faults>> /\ UNCHANGED reality
  BY FinishDoes
<1>1. /\ ListingTypeOK /\ OneStackEach /\ refresh \in [Number -> Refresh]
      /\ q.map \in 1..Len(map)
  BY DEF ListInv, ListingTypeOK
<1>2. /\ map \in Seq([Stack -> 0..Len(object)]) /\ object \in Seq(StackStatus)
      /\ browser \in [Browser -> View]
  BY <1>1 DEF ListingTypeOK
<1>3. /\ Len(object) \in Nat /\ Len(map) \in Nat
      /\ \A j \in 1..Len(map) : map[j] \in [Stack -> 0..Len(object)]
  BY <1>2
<1>4. browser' \in [Browser -> View]
  <2>1. ListAfter(r) \in List
    <3>1. \A s \in Stack : m[s] # 0 => m[s] \in 1..Len(object')
      BY <1>0, MapAfterIs, ObjectsAre
    <3>2. \A s \in Stack : m[s] # 0 => object'[m[s]] \in StackStatus
      BY <3>1, ObjectsAre
    <3>. QED BY <3>2 DEF ListAfter, List
  <2>2. ASSUME NEW b \in Browser
        PROVE  ListReceived(ListAfter(r), b) \in View
    <3>. DEFINE v1 == [browser[b] EXCEPT !.list = ListAfter(r)]
                v2 == [v1 EXCEPT !.error = FALSE]
                v3 == [v2 EXCEPT !.waiting = FALSE]
    <3>1. v1 \in View
      BY <1>2, <2>1 DEF View
    <3>. HIDE DEF v1
    <3>2. v2 \in View
      BY <3>1 DEF View
    <3>. HIDE DEF v2
    <3>3. v3 \in View
      BY <3>2 DEF View
    <3>4. ListReceived(ListAfter(r), b) = v3
      BY Zenon DEF ListReceived, v1, v2
    <3>. QED BY <3>3, <3>4
  <2>. DEFINE v(b) == IF b \in q.to THEN ListReceived(ListAfter(r), b) ELSE browser[b]
  <2>3. \A b \in Browser : v(b) \in View
    BY <1>2, <2>2
  <2>4. browser' = [b \in Browser |-> v(b)]
    BY FinishDoes
  <2>. HIDE DEF v
  <2>. QED BY <2>3, <2>4
<1>5. ListingTypeOK'
  <2>1. refresh' \in [Number -> Refresh] /\ refresh'[r].map = 1
    BY <1>0, OverIs
  <2>2. \A e \in Number \ {r} : refresh'[e].map = refresh[e].map
    BY <1>0, OverLeaves
  <2>3. \A e \in Number : refresh'[e].map \in 1..Len(map')
    <3>1. \A e \in Number : refresh[e].map \in 1..Len(map)
      BY <1>1 DEF ListingTypeOK
    <3>2. Len(map') = Len(map) + 1
      BY MapsAre
    <3>3. 1 \in 1..Len(map') /\ \A i \in 1..Len(map) : i \in 1..Len(map')
      BY <1>3, <3>2
    <3>. QED BY <2>1, <2>2, <3>1, <3>3
  <2>4. managedStackList' \in 1..Len(map')
    BY <1>3, MapsAre
  <2>5. object' \in Seq(StackStatus) /\ map' \in Seq([Stack -> 0..Len(object')])
    BY ObjectsAre, MapsAre
  <2>6. steady' \in BOOLEAN
    BY <1>1, FinishDoes DEF ListingTypeOK
  <2>. QED BY <1>0, <1>1, <1>4, <2>1, <2>3, <2>4, <2>5, <2>6 DEF ListingTypeOK
<1>6. OneStackEach'
  <2>1. \A i \in 1..Len(map'), s \in Stack :
          map'[i][s] = m[s] \/ (i \in 1..Len(map) /\ map'[i][s] = map[i][s])
    <3>1. \A i \in 1..Len(map') : i = q.map \/ i = n \/ i \in 1..Len(map) \ {q.map}
      BY <1>3, MapsAre
    <3>2. map'[q.map] = m /\ map'[n] = m
      BY MapsAre
    <3>. QED BY <3>1, <3>2, MapsAre
\* What the list it made has is its own, or was in its map.
  <2>2. ASSUME NEW j \in 1..Len(map), NEW s \in Stack, NEW t \in Stack,
               map[j][t] # 0, m[s] = map[j][t]
        PROVE  s = t
    <3>1. ~(m[s] > Len(object))
      BY <1>3, <2>2
    <3>2. m[s] = map[q.map][s]
      BY <1>0, <3>1, MapAfterIs
    <3>3. map[q.map][s] # 0 /\ map[q.map][s] = map[j][t]
      BY <2>2, <3>2
    <3>4. OneStackEach
      BY <1>1
    <3>. QED BY <1>1, <3>3, <3>4 DEF OneStackEach
  <2>3. ASSUME NEW i \in 1..Len(map'), NEW j \in 1..Len(map'), NEW s \in Stack, NEW t \in Stack,
               map'[i][s] # 0, map'[i][s] = map'[j][t]
        PROVE  s = t
    <3>1. CASE map'[i][s] = m[s] /\ map'[j][t] = m[t]
      <4>1. m[s] # 0 /\ m[s] = m[t]
        BY <2>3, <3>1
      <4>. QED BY <1>0, <4>1, MapAfterIs
    <3>2. CASE map'[i][s] = m[s] /\ j \in 1..Len(map) /\ map'[j][t] = map[j][t]
      BY <2>2, <2>3, <3>2
    <3>3. CASE map'[j][t] = m[t] /\ i \in 1..Len(map) /\ map'[i][s] = map[i][s]
      BY <2>2, <2>3, <3>3
    <3>4. CASE /\ i \in 1..Len(map) /\ map'[i][s] = map[i][s]
               /\ j \in 1..Len(map) /\ map'[j][t] = map[j][t]
      <4>1. map[i][s] # 0 /\ map[i][s] = map[j][t]
        BY <2>3, <3>4
      <4>2. OneStackEach
        BY <1>1
      <4>. QED BY <3>4, <4>1, <4>2 DEF OneStackEach
    <3>. QED BY <2>1, <3>1, <3>2, <3>3, <3>4
  <2>. QED BY <2>3 DEF OneStackEach
<1>7. \A e \in Number : Working(e)' =>
        FitsPhase(refresh[e])' /\ Calls(e)' /\ OwnMap(e)' /\ LookedAt(e)'
  <2>1. \A e \in Number : refresh[e].map # managedStackList'
    BY <1>1, <1>3, MapsAre DEF ListingTypeOK
  <2>2. \A e \in Number \ {r} : Working(e) /\ refresh[e].full /\ refresh[e].alone => Spared(e)
    BY FinishSpares
  <2>. QED BY <1>0, <2>1, <2>2, OverKeeps
<1>8. SteadyIsTrue'
  BY FinishSteady
<1>. QED BY <1>5, <1>6, <1>7, <1>8 DEF ListInv

-----------------------------------------------------------------------------
LEMMA ListInvInit == ListingInit => ListInv
<1> SUFFICES ASSUME ListingInit PROVE ListInv
  OBVIOUS
<1>1. NoObjects \in [Stack -> 0..0]
  BY DEF NoObjects
<1>2. object = <<>> /\ Len(object) = 0 /\ object \in Seq(StackStatus)
  BY DEF ListingInit
<1>3. map = <<NoObjects>> /\ Len(map) = 1 /\ map \in Seq([Stack -> 0..Len(object)])
  BY <1>1, <1>2 DEF ListingInit
<1>4. refresh \in [Number -> Refresh] /\ \A r \in Number : refresh[r] = New
  BY NewType DEF ListingInit
<1>5. browser \in [Browser -> View]
  <2>1. Empty \in List
    BY DEF Empty, List
  <2>. QED BY <2>1 DEF ListingInit, View
<1>6. \A r \in Number : refresh[r].map \in 1..Len(map) /\ ~Working(r)
  BY <1>3, <1>4, NewType DEF Working
<1>7. ListingTypeOK
  <2>1. managedStackList \in 1..Len(map)
    BY <1>3 DEF ListingInit
  <2>2. dir \in SUBSET Stack /\ project \in [Stack -> States \union {{}}] /\ steady \in BOOLEAN
    BY DEF ListingInit
  <2>3. events \in 0..MaxEvent /\ faults \in 0..MaxFault
    BY ListingAssumption DEF ListingInit
  <2>4. \A r \in Number : refresh[r].map \in 1..Len(map)
    BY <1>6
  <2>. QED BY <1>2, <1>3, <1>4, <1>5, <2>1, <2>2, <2>3, <2>4 DEF ListingTypeOK
<1>8. OneStackEach
  BY <1>3 DEF OneStackEach, NoObjects
<1>9. SteadyIsTrue
  BY DEF SteadyIsTrue, ListingInit
<1>. QED BY <1>6, <1>7, <1>8, <1>9 DEF ListInv

LEMMA ListInvNext == ListInv /\ [ListingNext]_listingVars => ListInv'
<1> SUFFICES ASSUME ListInv, [ListingNext]_listingVars PROVE ListInv'
  OBVIOUS
<1>1. ASSUME NEW s \in Stack, DirectoryChanges(s) PROVE ListInv'
  BY <1>1, DirectoryKeeps
<1>2. ASSUME NEW s \in Stack, NEW states \in States \union {{}}, ServicesChange(s, states)
      PROVE  ListInv'
  BY <1>2, ServicesKeep
<1>3. ASSUME NEW useCache \in BOOLEAN, SendStackList(useCache) PROVE ListInv'
  BY <1>3, SendKeeps
<1>4. ASSUME LookUp PROVE ListInv'
  BY <1>4, LookUpKeeps
<1>5. ASSUME NEW r \in Number, RefreshStep(r) PROVE ListInv'
  BY <1>5, ScanKeeps, GetKeeps, ComposeLsKeeps, FinishKeeps, FailsKeeps, CheckKeeps,
     ReaddirFailsKeeps, EntryFailsKeeps DEF RefreshStep
<1>6. ASSUME NEW b \in Browser, Login(b) \/ Logout(b) \/ Disconnect(b) PROVE ListInv'
  BY <1>6, LoginKeeps, LogoutKeeps, DisconnectKeeps
<1>7. ASSUME UNCHANGED listingVars PROVE ListInv'
  <2>1. UNCHANGED <<dir, project, object, map, managedStackList, refresh, browser,
                    events, faults, steady>>
    BY <1>7 DEF listingVars
  <2>2. ListingTypeOK'
    BY <2>1 DEF ListInv, ListingTypeOK
  <2>3. OneStackEach'
    BY <2>1 DEF ListInv, OneStackEach
  <2>5. SteadyIsTrue'
    BY <2>1 DEF ListInv, SteadyIsTrue, TrueMap, Says, Truth, Working
  <2>4. ASSUME NEW r \in Number, Working(r)'
        PROVE  FitsPhase(refresh[r])' /\ Calls(r)' /\ OwnMap(r)' /\ LookedAt(r)'
    <3>1. FitsPhase(refresh[r]) /\ Calls(r) /\ OwnMap(r) /\ LookedAt(r)
      BY <2>1, <2>4 DEF ListInv, Working
    <3>2. FitsPhase(refresh[r])' /\ LookedAt(r)'
      BY <2>1, <3>1 DEF FitsPhase, LookedAt, ProjectList
    <3>3. Calls(r)' /\ OwnMap(r)'
      BY <2>1, <3>1 DEF Calls, OwnMap, Working
    <3>. QED BY <3>2, <3>3
  <2>. QED BY <2>5, <2>2, <2>3, <2>4 DEF ListInv
<1>. QED BY <1>1, <1>2, <1>3, <1>4, <1>5, <1>6, <1>7 DEF ListingNext

\* Every variable of the list of stacks has its type.
THEOREM ListingTypeCorrect == ListingSpec => []ListingTypeOK
<1>1. ListInv => ListingTypeOK
  BY DEF ListInv
<1>. QED BY <1>1, ListInvInit, ListInvNext, PTL DEF ListingSpec

\* A step that ends a refresh which had heard from docker is its end.
LEMMA OnlyFinishEnds ==
  ASSUME ListInv, [ListingNext]_listingVars, NEW r \in Number, refresh[r].phase = "listed",
         refresh'[r].phase = "done"
  PROVE  Finish(r)
<1>0. refresh \in [Number -> Refresh]
  BY DEF ListInv, ListingTypeOK
<1>1. ASSUME NEW e \in Number, RefreshStep(e)
      PROVE  Finish(r)
  <2>1. CASE AddManagedStacks(e)
    <3>1. e # r
      BY <2>1 DEF AddManagedStacks
    <3>. QED BY <1>0, <2>1, <3>1 DEF AddManagedStacks
  <2>2. CASE ComposeLs(e)
    <3>1. e # r
      BY <2>2 DEF ComposeLs
    <3>. QED BY <1>0, <2>2, <3>1 DEF ComposeLs
  <2>3. CASE \E s \in Stack : Check(e, s)
    <3>1. e # r
      BY <2>3 DEF Check
    <3>. QED BY <1>0, <2>3, <3>1 DEF Check
  <2>4. CASE Get(e)
    <3>1. e # r
      BY <2>4 DEF Get
    <3>2. CASE refresh' = [refresh EXCEPT ![e] = Advanced(@)]
      BY <1>0, <3>1, <3>2
    <3>3. CASE \E n \in Number :
                 IsNext(n) /\ Begun([refresh EXCEPT ![e].phase = "nested"], n, TRUE, {}, e)
      <4>1. PICK n \in Number :
               IsNext(n) /\ Begun([refresh EXCEPT ![e].phase = "nested"], n, TRUE, {}, e)
        BY <3>3
      <4>2. n # r
        BY <4>1 DEF IsNext, Available
      <4>3. refresh'[r] = [refresh EXCEPT ![e].phase = "nested"][r]
        BY <1>0, <4>1, <4>2 DEF Begun
      <4>. QED BY <1>0, <3>1, <4>3
    <3>. QED BY <2>4, <3>2, <3>3 DEF Get
  <2>5. CASE Finish(e) \/ ComposeLsFails(e)
    <3>1. Working(e) /\ refresh[e].phase \in {"list", "listed"} /\ Over(e)
      BY <2>5 DEF Finish, ComposeLsFails, Working
    <3>2. CASE e = r
      BY <2>5, <3>2 DEF ComposeLsFails
    <3>3. CASE e # r
      <4>1. refresh'[r] = refresh[r] \/ refresh'[r].phase \in {"list", "check"}
        BY <3>1, <3>3, OverLeaves
      <4>. QED BY <4>1
    <3>. QED BY <3>2, <3>3
  <2>6. ASSUME NEW p, Swallowed(e, p), refresh[e].phase # "listed"
        PROVE  Finish(r)
    BY <1>0, <2>6 DEF Swallowed
  <2>7. CASE ReaddirFails(e) \/ EntryFails(e)
    BY <2>6, <2>7 DEF ReaddirFails, EntryFails
  <2>. QED BY <1>1, <2>1, <2>2, <2>3, <2>4, <2>5, <2>7 DEF RefreshStep
<1>2. CASE UNCHANGED refresh
  BY <1>2
<1>3. ASSUME NEW n \in Number, IsNext(n), NEW useCache, NEW to, NEW for,
             Begun(refresh, n, useCache, to, for)
      PROVE  FALSE
  <2>1. n # r
    BY <1>3 DEF IsNext, Available
  <2>. QED BY <1>0, <1>3, <2>1 DEF Begun
<1>4. CASE \E useCache \in BOOLEAN : SendStackList(useCache)
  BY <1>3, <1>4 DEF SendStackList
<1>5. CASE LookUp
  BY <1>3, <1>5 DEF LookUp
<1>6. CASE \E b \in Browser : Login(b)
  BY <1>3, <1>6 DEF Login
<1>7. CASE \E b \in Browser : Logout(b)
  BY <1>7 DEF Logout
<1>8. CASE \E b \in Browser : Disconnect(b)
  <2>1. PICK b \in Browser : Disconnect(b)
    BY <1>8
  <2>2. refresh'[r] = [refresh[r] EXCEPT !.to = refresh[r].to \ {b}]
    BY <2>1 DEF Disconnect
  <2>. QED BY <1>0, <2>2 DEF Refresh
<1>9. CASE WorldChanges
  <2>1. refresh'[r] = [refresh[r] EXCEPT !.alone = ~Working(r)]
    BY <1>9 DEF WorldChanges
  <2>. QED BY <1>0, <2>1 DEF Refresh
<1>. QED BY <1>1, <1>2, <1>4, <1>5, <1>6, <1>7, <1>8, <1>9
         DEF ListingNext, DirectoryChanges, ServicesChange, listingVars

\* A full refresh that nothing disturbed, and that could read everything, shows
\* the stacks there are (sendStackList in dockge-server.ts).
THEOREM FullAlwaysTrue == ListingSpec => FullIsTrue
<1>1. ASSUME ListInv, [ListingNext]_listingVars, NEW r \in Number, refresh[r].phase = "listed",
             refresh[r].full, refresh[r].alone, refresh'[r].phase = "done",
             NEW b \in refresh[r].to
      PROVE  browser'[b].list = Truth
  <2>1. Finish(r)
    BY <1>1, OnlyFinishEnds
  <2>2. Working(r)
    BY <2>1, FinishDoes
  <2>3. refresh[r] \in Refresh /\ FitsPhase(refresh[r])
    BY <1>1, <2>2, Inside
  <2>4. refresh[r].for = 0 /\ b \in Browser
    BY <1>1, <2>3 DEF FitsPhase, Refresh
  <2>5. \A s \in Stack : ListAfter(r)[s] = Truth[s]
    BY <1>1, <2>1, <2>4, FinishIsTrue
  <2>6. ListAfter(r) = Truth
    BY <2>5 DEF ListAfter, Truth
  <2>7. browser'[b] = ListReceived(ListAfter(r), b)
    BY <1>1, <2>1, <2>4, FinishDoes
  <2>8. browser[b] \in View
    BY <1>1, <2>4 DEF ListInv, ListingTypeOK
  <2>. QED BY <2>6, <2>7, <2>8 DEF ListReceived, View
<1>2. ListInv /\ [ListingNext]_listingVars =>
        [\A r \in Number :
           LET q == refresh[r]
           IN  q.phase = "listed" /\ q.full /\ q.alone /\ refresh'[r].phase = "done" =>
                 \A b \in q.to : browser'[b].list = Truth]_listingVars
  BY <1>1
<1>. QED BY <1>2, ListInvInit, ListInvNext, PTL DEF ListingSpec, FullIsTrue

\* As long as nothing changes after a full refresh that was alone at its end,
\* every list that is shown is true (managedStackList in stack.ts).
THEOREM SettledAlwaysTrue == ListingSpec => SettledIsTrue
<1>1. ASSUME ListInv, [ListingNext]_listingVars, steady', NEW b \in Browser,
             browser'[b].list # browser[b].list
      PROVE  browser'[b].list \in {Empty, Truth}
  <2>0. browser[b] \in View
    BY <1>1 DEF ListInv, ListingTypeOK
  <2>1. ASSUME NEW r \in Number, Finish(r)
        PROVE  browser'[b].list = Truth
    <3>1. ListAfter(r) = Truth
      <4>1. \A s \in Stack : ListAfter(r)[s] = Truth[s]
        BY <1>1, <2>1, SteadyEnd, FinishIsTrue
      <4>. QED BY <4>1 DEF ListAfter, Truth
    <3>2. browser'[b] = IF b \in refresh[r].to THEN ListReceived(ListAfter(r), b) ELSE browser[b]
      <4>1. browser' = [c \in Browser |-> IF c \in refresh[r].to
                                         THEN ListReceived(ListAfter(r), c) ELSE browser[c]]
        BY <2>1, FinishDoes, Zenon
      <4>. QED BY <4>1, Zenon
    <3>3. ListReceived(Truth, b).list = Truth
      BY <2>0 DEF ListReceived, View
    <3>. QED BY <1>1, <3>1, <3>2, <3>3
  <2>2. ASSUME NEW r \in Number, ComposeLsFails(r)
        PROVE  FALSE
    <3>1. browser'[b] = IF b \in refresh[r].to THEN Failed(b) ELSE browser[b]
      BY <2>2 DEF ComposeLsFails, Shown
    <3>. QED BY <1>1, <2>0, <3>1 DEF Failed, View
  <2>3. ASSUME NEW c \in Browser, Logout(c)
        PROVE  browser'[b].list = Empty
    <3>1. browser \in [Browser -> View]
      BY <1>1 DEF ListInv, ListingTypeOK
    <3>2. c = b
      BY <1>1, <2>3, <3>1 DEF Logout
    <3>. QED BY <2>0, <2>3, <3>1, <3>2 DEF Logout, View
  <2>4. ASSUME NEW c \in Browser, Login(c) \/ Disconnect(c)
        PROVE  FALSE
    <3>1. browser \in [Browser -> View]
      BY <1>1 DEF ListInv, ListingTypeOK
    <3>2. CASE Login(c)
      <4>1. browser'[b] = IF b = c THEN [[browser[b] EXCEPT !.in = TRUE] EXCEPT !.waiting = TRUE]
                          ELSE browser[b]
        BY <3>1, <3>2, Zenon DEF Login
      <4>. QED BY <1>1, <2>0, <4>1 DEF View
    <3>3. CASE Disconnect(c)
      <4>1. browser'[b] = IF b = c THEN [[browser[b] EXCEPT !.in = FALSE] EXCEPT !.waiting = FALSE]
                          ELSE browser[b]
        BY <3>1, <3>3, Zenon DEF Disconnect
      <4>. QED BY <1>1, <2>0, <4>1 DEF View
    <3>. QED BY <2>4, <3>2, <3>3
  <2>5. ASSUME UNCHANGED browser
        PROVE  FALSE
    BY <1>1, <2>5
  <2>6. ASSUME NEW r \in Number, RefreshStep(r)
        PROVE  browser'[b].list = Truth
    BY <2>1, <2>2, <2>5, <2>6
       DEF RefreshStep, AddManagedStacks, Get, ComposeLs, Check, ReaddirFails, EntryFails, Swallowed
  <2>7. CASE \/ \E s \in Stack : DirectoryChanges(s)
             \/ \E s \in Stack, states \in States \union {{}} : ServicesChange(s, states)
             \/ \E useCache \in BOOLEAN : SendStackList(useCache)
             \/ LookUp \/ UNCHANGED listingVars
    BY <2>5, <2>7
       DEF DirectoryChanges, ServicesChange, WorldChanges, SendStackList, LookUp, listingVars
  <2>. QED BY <1>1, <2>3, <2>4, <2>6, <2>7 DEF ListingNext
<1>2. ListInv /\ [ListingNext]_listingVars =>
        [steady /\ steady' =>
           \A b \in Browser :
             browser'[b].list # browser[b].list => browser'[b].list \in {Empty, Truth}]_listingVars
  BY <1>1
<1>. QED BY <1>2, ListInvInit, ListInvNext, PTL DEF ListingSpec, SettledIsTrue
=============================================================================
