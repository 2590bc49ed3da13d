------------------------- MODULE ComposeRepository -------------------------
(***************************************************************************)
(* The index of the Compose files of the host (ComposeRepository in        *)
(* backend/compose-repository.ts) and the page that shows it.              *)
(*                                                                         *)
(* A scan asks docker what runs, then reads one directory after the other  *)
(* and looks at each file, while files and projects change.  There is one  *)
(* scan at a time: whoever needs one while it runs waits for it, and so    *)
(* may be given less than there was when he asked.  The index is cached.   *)
(* A call of a scan that fails is not reported: the scan goes on without   *)
(* what that call would have told it.                                      *)
(*                                                                         *)
(* A query is a status to filter by and a page.  Files are numbers, in the *)
(* order in which they are listed.  Time counts in steps shorter than the  *)
(* life of the cache.                                                      *)
(***************************************************************************)
EXTENDS Naturals, Sequences, FiniteSets, SequencesExt

CONSTANTS File,          \* numbers
          DirectoryOf,   \* the directory of each
          ProjectOf,     \* the name inferred for each, from its directory
          Filter,        \* the statuses asked for
          PageSize,
          ScanLimit,     \* files that are looked at
          CacheDuration,
          Scan,          \* identities of scans
          None,
          MaxFailure,    \* bound on the calls of one scan that fail
          MaxAsk, MaxChange, MaxTime  \* bounds

ASSUME RepositoryAssumption ==
  /\ File \subseteq Nat /\ IsFiniteSet(File)
  /\ "all" \in Filter
  /\ None \notin Scan
  /\ PageSize \in Nat \ {0} /\ ScanLimit \in Nat /\ CacheDuration \in Nat
  /\ MaxAsk \in Nat /\ MaxChange \in Nat /\ MaxTime \in Nat
  /\ MaxFailure \in Nat

VARIABLES
  present,         \* the files there are that are Compose files
  running,         \* the files whose project runs
  scan,            \* the scans
  scanPromise,     \* the one to wait for, if any
  cache,           \* the index, if any
  cacheCreatedAt,
  waiting,         \* the queries that wait for a scan, in order
  view,            \* the page
  now, asked, changes,  \* the time; counted, to bound them
  settled          \* nothing changed since a scan began that has ended

vars == <<present, running, scan, scanPromise, cache, cacheCreatedAt, waiting,
          view, now, asked, changes, settled>>
world == <<present, running>>

Directory == {DirectoryOf[f] : f \in File}
Status == {"inactive", "running"}
Query == [status : Filter, page : Nat \ {0}]

\* items: the status of each file found; truncated: there were too many;
\* failures (history): the calls of its scan that failed.
Index == [items : [File -> Status \union {"none"}], truncated : BOOLEAN,
          failures : 0..MaxFailure]

\* directories, files: still to be read, or looked at; ran: the files whose
\* projects ran; scanned: the files counted; alone: nothing changed since.
ScanState == [phase : {"idle", "runtime", "walk"}, directories : SUBSET Directory,
              files : SUBSET File, ran : SUBSET File, index : Index,
              scanned : Nat, alone : BOOLEAN]

Asked == [query : Query, for : Scan, open : BOOLEAN]

\* What the page shows: the items, and the page they are and of how many.
Data == [items : Seq(File), page : Nat, pageCount : Nat, truncated : BOOLEAN]

EmptyIndex == [items |-> [f \in File |-> "none"], truncated |-> FALSE,
               failures |-> 0]
NoScan == [phase |-> "idle", directories |-> {}, files |-> {}, ran |-> {},
           index |-> EmptyIndex, scanned |-> 0, alone |-> TRUE]

TypeOK ==
  /\ present \in SUBSET File /\ running \in SUBSET File
  /\ scan \in [Scan -> ScanState]
  /\ scanPromise \in Scan \union {None}
  /\ cache = None \/ cache \in Index
  /\ cacheCreatedAt \in 0..MaxTime
  /\ \A i \in DOMAIN waiting : waiting[i] \in Asked
  /\ view.query \in Query /\ view.loading \in BOOLEAN /\ view.error \in BOOLEAN
  /\ view.data = None \/ view.data \in Data
  /\ now \in 0..MaxTime /\ asked \in 0..MaxAsk /\ changes \in 0..MaxChange
  /\ settled \in BOOLEAN

Init ==
  /\ present \in SUBSET File /\ running \in SUBSET File
  /\ scan = [s \in Scan |-> NoScan]
  /\ scanPromise = None
  /\ cache = None
  /\ cacheCreatedAt = 0
  /\ waiting = <<>>
  /\ view = [query |-> [status |-> "all", page |-> 1], data |-> None,
             loading |-> FALSE, error |-> FALSE]
  /\ now = 0 /\ asked = 0 /\ changes = 0
  /\ settled = FALSE

-----------------------------------------------------------------------------
(* The index and its pages *)

\* The status of a file: that of the project that was started from it, or of
\* one with the name inferred for it.
StatusOf(f, ran) ==
  IF \E g \in ran : g = f \/ ProjectOf[g] = ProjectOf[f] THEN "running" ELSE "inactive"

\* What there is.
TrueItems == [f \in File |-> IF f \in present THEN StatusOf(f, running) ELSE "none"]

Matching(index, query) ==
  SetToSortSeq({f \in File : /\ index.items[f] # "none"
                             /\ query.status \in {"all", index.items[f]}},
               LAMBDA f, g : f < g)

PageCount(total) ==
  LET pages == (total + PageSize - 1) \div PageSize
  IN  IF pages = 0 THEN 1 ELSE pages

\* query: the last page for one beyond it.
Answer(index, query) ==
  LET items == Matching(index, query)
      count == PageCount(Len(items))
      page == IF query.page > count THEN count ELSE query.page
      last == IF page * PageSize > Len(items) THEN Len(items) ELSE page * PageSize
  IN  [items |-> SubSeq(items, (page - 1) * PageSize + 1, last), page |-> page,
       pageCount |-> count, truncated |-> index.truncated]

-----------------------------------------------------------------------------
(* The world *)

Changed ==
  /\ changes < MaxChange /\ changes' = changes + 1
  /\ scan' = [s \in Scan |-> [scan[s] EXCEPT !.alone = scan[s].phase = "idle"]]
  /\ settled' = FALSE
  /\ UNCHANGED <<scanPromise, cache, cacheCreatedAt, waiting, view, now, asked>>

\* A Compose file is made or removed, or becomes another file than one.
FileChanges(f) ==
  /\ Changed
  /\ present' = IF f \in present THEN present \ {f} ELSE present \union {f}
  /\ UNCHANGED running

ProjectChanges(f) ==
  /\ Changed
  /\ running' = IF f \in running THEN running \ {f} ELSE running \union {f}
  /\ UNCHANGED present

Tick ==
  /\ now < MaxTime /\ now' = now + 1
  /\ UNCHANGED <<world, scan, scanPromise, cache, cacheCreatedAt, waiting, view,
                 asked, changes, settled>>

-----------------------------------------------------------------------------
(* Queries *)

\* repositoryLoading, repositoryReceived, repositoryFailed
Loading(query) == [view EXCEPT !.query = query, !.loading = TRUE, !.error = FALSE]
Received(v, data) == [v EXCEPT !.data = data, !.loading = FALSE]
LoadFailed(v) == [v EXCEPT !.loading = FALSE, !.error = TRUE]

Valid == cache # None /\ now - cacheCreatedAt < CacheDuration

Idle == {s \in Scan : scan[s].phase = "idle"}

\* The scan to wait for: the one under way, or one that is started.
ScanToJoin == IF scanPromise = None THEN Idle ELSE {scanPromise}

\* Mutant: what was found before stays in the index.
Remembered == IF cache = None THEN EmptyIndex
              ELSE [cache EXCEPT !.truncated = FALSE, !.failures = 0]

\* A scan starts with nothing found.
NothingFound == EmptyIndex

\* query and getIndex: the index in the cache answers at once, or the query
\* waits for a scan.
Ask(query, anew) ==
  /\ asked < MaxAsk /\ asked' = asked + 1
  /\ IF ~anew /\ Valid
     THEN /\ view' = Received(Loading(query), Answer(cache, query))
          /\ UNCHANGED <<scan, scanPromise, waiting>>
     ELSE \E s \in ScanToJoin :
            /\ scan' = IF s = scanPromise THEN scan
                       ELSE [scan EXCEPT ![s] =
                              [NoScan EXCEPT !.phase = "runtime", !.index = NothingFound]]
            /\ scanPromise' = s
            /\ waiting' = Append(waiting, [query |-> query, for |-> s, open |-> TRUE])
            /\ view' = Loading(query)
  /\ UNCHANGED <<world, cache, cacheCreatedAt, now, changes, settled>>

\* The page gives up; the server does not.
TimeOut(i) ==
  /\ waiting[i].open
  /\ waiting' = [waiting EXCEPT ![i].open = FALSE]
  /\ view' = LoadFailed(view)
  /\ UNCHANGED <<world, scan, scanPromise, cache, cacheCreatedAt, now, asked,
                 changes, settled>>

-----------------------------------------------------------------------------
(* Scans *)

\* What runs for a scan that docker did not answer.
NoneRunning == {}

MayFail(s) == scan[s].index.failures < MaxFailure
WithFailure(index) == [index EXCEPT !.failures = @ + 1]

Walk(s, ran, index) ==
  scan' = [scan EXCEPT ![s] = [@ EXCEPT !.phase = "walk", !.ran = ran,
                                        !.directories = Directory, !.index = index]]

\* getRuntimeEntries: docker compose ls answers, or fails or prints what cannot
\* be parsed, and the scan goes on.
ReadRuntime(s) ==
  /\ scan[s].phase = "runtime"
  /\ \/ Walk(s, running, scan[s].index)
     \/ MayFail(s) /\ Walk(s, NoneRunning, WithFailure(scan[s].index))
  /\ UNCHANGED <<world, scanPromise, cache, cacheCreatedAt, waiting, view, now,
                 asked, changes, settled>>

Listed(s, d, files, index) ==
  LET q == scan[s]
  IN  scan' = [scan EXCEPT ![s] = [q EXCEPT !.directories = q.directories \ {d},
                                            !.files = files, !.index = index]]

\* A directory that cannot be read, or whose root cannot, is passed over.
ReadDirectory(s, d) ==
  /\ scan[s].phase = "walk" /\ scan[s].files = {} /\ d \in scan[s].directories
  /\ \/ Listed(s, d, {f \in present : DirectoryOf[f] = d}, scan[s].index)
     \/ MayFail(s) /\ Listed(s, d, {}, WithFailure(scan[s].index))
  /\ UNCHANGED <<world, scanPromise, cache, cacheCreatedAt, waiting, view, now,
                 asked, changes, settled>>

WithItem(index, f, ran) ==
  [index EXCEPT !.items[f] = IF f \in present THEN StatusOf(f, ran) ELSE @]

Counted(s, f, index) ==
  LET q == scan[s]
  IN  scan' = [scan EXCEPT ![s] = [q EXCEPT !.scanned = q.scanned + 1,
                                            !.files = q.files \ {f}, !.index = index]]

CutOff(s) ==
  LET q == scan[s]
      index == [q.index EXCEPT !.truncated = TRUE]
  IN  scan' = [scan EXCEPT ![s] = [q EXCEPT !.directories = {}, !.files = {},
                                            !.index = index]]

\* inspectComposeFile: a file that is gone or cannot be read is left out.  One
\* too many ends the walk.
InspectComposeFile(s, f) ==
  /\ scan[s].phase = "walk" /\ f \in scan[s].files
  /\ IF scan[s].scanned = ScanLimit THEN CutOff(s)
     ELSE \/ Counted(s, f, WithItem(scan[s].index, f, scan[s].ran))
          \/ MayFail(s) /\ Counted(s, f, WithFailure(scan[s].index))
  /\ UNCHANGED <<world, scanPromise, cache, cacheCreatedAt, waiting, view, now,
                 asked, changes, settled>>

\* Mutant: only the one that started the scan hears of its end.
OnlyTheFirst(s, q) == q.for = s /\ q = Head(waiting)

\* Those who wait for it.
WaitsFor(s, q) == q.for = s

\* The index is cached, and all who wait are answered, in order.
ScanEnds(s) ==
  /\ scan[s].phase = "walk"
  /\ scan[s].directories = {} /\ scan[s].files = {}
  /\ LET index == scan[s].index
         answered == SelectSeq(waiting, LAMBDA q : WaitsFor(s, q) /\ q.open)
     IN  /\ cache' = index /\ cacheCreatedAt' = now
         /\ view' = IF answered = <<>> THEN view
                    ELSE Received(view, Answer(index, Last(answered).query))
  /\ waiting' = SelectSeq(waiting, LAMBDA q : q.for # s)
  /\ scanPromise' = None
  /\ settled' = (settled \/ scan[s].alone)
  /\ scan' = [scan EXCEPT ![s] = NoScan]
  /\ UNCHANGED <<world, now, asked, changes>>

Step(s) ==
  \/ ReadRuntime(s) \/ ScanEnds(s)
  \/ \E d \in Directory : ReadDirectory(s, d)
  \/ \E f \in File : InspectComposeFile(s, f)

\* The page asks for another status or page of what it shows, or for a new scan.
Pages == {1} \union (IF view.data = None THEN {}
                     ELSE {n \in {view.query.page - 1, view.query.page + 1} :
                             n >= 1 /\ view.data.page # n /\ n <= view.data.pageCount})

Next ==
  \/ \E status \in Filter : Ask([status |-> status, page |-> 1], FALSE)
  \/ \E n \in Pages : ~view.loading /\ Ask([view.query EXCEPT !.page = n], FALSE)
  \/ Ask(view.query, TRUE)
  \/ \E i \in DOMAIN waiting : TimeOut(i)
  \/ \E s \in Scan : Step(s)
  \/ \E f \in File : FileChanges(f) \/ ProjectChanges(f)
  \/ Tick

Spec == Init /\ [][Next]_vars

-----------------------------------------------------------------------------
TrueIndex == [items |-> TrueItems, truncated |-> FALSE, failures |-> 0]

\* Not cut off, and no call failed.
Complete(index) == ~index.truncated /\ index.failures = 0

\* It has no file that is not there and none as running whose project does not
\* run: what a scan could not learn is left out, and nothing is kept of before.
NothingInvented(index) ==
  \A f \in File :
    /\ index.items[f] # "none" => f \in present
    /\ index.items[f] = "running" => TrueItems[f] = "running"

\* Once a scan has ended during which nothing changed, the index that is served
\* invents nothing until something changes, whatever calls failed; and it is what
\* there is, if its scan was not cut off and no call of it failed.  No scan that
\* looked earlier comes later.
IndexIsTrue ==
  settled => /\ NothingInvented(cache)
             /\ Complete(cache) => cache = TrueIndex

\* A scan during which nothing changed answers those who wait for it, if it was
\* not cut off and no call failed, with the files and states there are: the
\* page shown is of the query asked last.
RefreshIsTrue ==
  [][\A s \in Scan :
       scan[s].phase = "walk" /\ scan'[s].phase = "idle" /\ scan[s].alone
         /\ Complete(scan[s].index) =>
         LET open == SelectSeq(waiting, LAMBDA q : q.for = s /\ q.open)
         IN  open # <<>> => view'.data = Answer(TrueIndex, Last(open).query)]_vars
=============================================================================
