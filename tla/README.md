# DockerBridge in TLA+

DockerBridge manages Docker containers and Compose projects of one or several
hosts from a browser. This directory holds TLA+ models of the parts of its
server whose correctness depends on interleaving, failure and restart, the TLC
configurations that check them, and TLAPS proofs of the properties that matter
most. Paths are relative to the repository.

## The system

The server (`backend/`, Node.js) is one process with one thread. Browsers talk
to it over socket.io; each event runs a handler. Handlers interleave **only where
they await** a promise or wait for a callback, and there they do interleave: with
other handlers, timers, exits of child processes and disconnections. Its state is
in memory (sockets, terminals, agent connections, caches), in SQLite, in the
stacks directory and in dockerd. The process may die at any moment; compose.yaml
asks for it to be restarted.

| component | state | operations | what is hard | what makes it correct |
|---|---|---|---|---|
| backup and restore: `backup-manager.ts`, its socket handler, `DockgeServer.serve` | backup packages, the marker of a staged restore, live files, rollback directory, `activeOperation` | create, list, validate, preview, stage, delete; apply at start-up | crash or failing call between any two file operations; requests interleaved; timed restart | all or nothing, honest reports, the pending package is safe, the lock is released |
| Compose editor: `compose-editor.ts`, `docker-socket-handler.ts` | compose.yaml, .env, revision history | load, preview, commit, restore a revision | version checked long before the write; two files, no transaction; retention | atomic if undisturbed, what is overwritten is kept, one creator |
| web console: `terminal.ts`, `terminal-socket-handler.ts` | `terminalMap`, idle timers, owners, close listeners | open, input, resize, close, time out, exit, disconnect | close is asynchronous; audit awaits; names are reused; a socket changes its user | session limit, one shell per name, sessions end |
| command terminals and stacks: `terminal.ts`, `stack.ts` | progress, combined and container terminals, project directory | deploy, start, stop, restart, down, update, delete | exclusion by terminal name, stale status, partial failure | terminal names are exact, no container is abandoned, every request is answered |
| agents: `agent-manager.ts` and handlers | per-socket clients, login and status, the row | connect, add, enable, disable, rotate, remove, forward | callbacks of remote sockets, retries, replacement while others wait | one connection per manager, honest status, requests leave over their own login |
| accounts: main and user handlers, `util-server.ts` | users, roles, sessions of sockets | setup, login, token login, create, update, reset and change a password, send sockets away | check then act over awaits, roles cached on sockets, a timer | an active administrator always, sessions follow their accounts |
| containers: `dockerbridge-socket-handler.ts`, `ContainersPage.tsx` | rebuild and clean-up sets, rollback payloads in the browser, compose.yaml | start, stop, rename, recreate, check, change and roll back a port, preview and clean caches | ten docker commands, each may fail, nothing excludes a second request; the restoration may fail too | a container is never lost, success is true, a failure leaves things as they were |
| networks, volumes and images: `docker-resource-manager.ts`, its handler and dialogs, image handlers | `activeOperations`, `pullingImages`, previews in the browser | preview, create, remove, disconnect, pull, tag, prune, delete | the second look is several commands, some parallel; things change between it and the command | what is removed is what was shown, and unused |
| stack list: `stack.ts`, `dockge-server.ts`, `runtimeSlice.ts` | `managedStackList`, maps and `Stack` objects shared by refreshes | full and cached refresh, look-up, log in and out | refreshes overlap and change one another's maps | after a full refresh the list is true; a login is answered |
| compose repository: `compose-repository.ts`, its handler, page and store | cached index, `scanPromise`, waiting queries | query, refresh, scan, page, time out | queries join a scan that looked earlier | an undisturbed scan gives a true index and answers the last query |
| settings, events watcher, metrics, rate limiter, operation log | caches, rings, timers, child process | get, set, restart, sample | stop against restart | bounded buffers |
| frontend: `frontend-react` | redux slices, dialogs, pending requests | confirm, refresh, merge, reconnect | late answers, previews that are old | in the module of each protocol |

`PROJECT.json` lists every component with its status and every hazard with its line.

## The models

A handler that awaits is a process; an action is everything the code does from one
await to the next, the early returns and catch blocks included. Calls to the file
system, docker, the database and a remote instance may fail where they are made, also where the code
swallows the failure and goes on. What is left out of that is named under the module or
under *Not modelled*.

### `SystemRestore`: applying a staged restore at start-up

`BackupManager.applyPendingRestore` (backup-manager.ts). `live` is the content of every
target (absent, the old system's, the package's), `pending` the marker file
`system-restore.pending.json`, `recorded` and `saved` the array `restoreRecords` with
the rollback directory, `i` the loop's position, `pc` the await it is at. `Start` reads
the marker and validates the package, `Forward`/`ForwardFails` are the try block,
`Rollback` the catch block, `Finish` the end in which the server serves; `Crash` loses
the memory and keeps the disk (`CrashWhileRestoring`). `orig`, `base` and `torn` are history.
A staged package is intact, corrupt or unreadable. A corrupt one, whose manifest is not the one that was
staged or whose files are not those it lists, is rejected (`RejectPackage`). If the marker is no marker, or
there is no manifest to hash, the code throws outside any `try` (backup-manager.ts:252-254) at every start, as
the marker stays (`MarkerOrManifestUnreadable`); `CheckFails` is a call that fails once.

### `BackupStore`, `BackupCatalog`: creating, staging and deleting backups

The running half of `BackupManager` with its handlers: the state of each package, the
marker, the static `activeOperation`, what each request waits for, and the restart timer
of the restore handler. `BackupCatalog` is what operators are promised: backups appear
and disappear in one step and the one a pending restore names stays. `BackupStore`
implements it with `available` as the complete packages and `pending` as the marker.
Start-up is the one action `Boot` here, which is what `SystemRestore` proves of it.

### `ComposeEditor`: commits of compose.yaml and .env

`commit` and `restoreRevision` of compose-editor.ts. `compose` and `dotenv` are the two
files, `revisions` the history with its retention, `pc` and `req` each commit's await and
what it remembers. A source stands for its version, which is a digest of it. `DeleteStack`
and `Crash` come at any moment. Two saves of one version can both pass the version check, and
the second overwrites the first: the model has it, and `OverwrittenSourceIsKept` is about the commits
that nobody disturbs.

### `ConsoleSessions`: shells in the browser

`MainTerminal` and the terminal handlers. `terminalMap` is the map of that name, `session`
the fields of each object, `userID` the socket's. `Open` and `Opened` are the two halves of
the open handler around its audit record; `ProcessExit` is `Terminal.exit`, which alone
takes a name out of the map; `IdleTimeout` the timer; `ProcessData` the output that arms it
anew.

### `StackOperations`: docker compose commands

The operations of stack.ts on one project and `Terminal.execWithOutput`. `progressTerminals` gives
each endpoint's progress terminal the request that runs in it: the terminal's name is made of
endpoint and project, and a name in use refuses a second command. `Arrive` and `GetStack` are the
handler and its lookup, `Execute`/`Refuse` the start of a command, `Exits`/`ExitsInError` its end
and what the operation goes on with (`update` pulls, reads the status, and runs up; `delete`
removes the directory), `Answer` the end after the operation log. What a command does to
the containers (`Done`, `Halfway`) is docker's and marked external.

### `AgentManager`: connections to a remote instance

agent-manager.ts keeps the endpoints apart in all its tables, so the model has one endpoint:
its row (`agent`), and for each browser's socket the entries of `agentSocketList`,
`agentLoggedInList` and `agentStatusList` (`manager`), the socket.io clients (`client`) and the
handlers in progress (`task`). The listeners of `connect` are `Connected`, `LoginAnswered`,
`ConnectError`, `Dropped` and `OldVersion`. The fingerprint of a row is its last change.
`connectAll`, `updateManaged`, `rotateCredentials`, `removeManaged`, `update`, `addAgent` and
`emitToEndpoint` are tasks with a phase for every await.

### `Accounts`: users and the sessions logged in with them

main-socket-handler.ts, user-socket-handler.ts and what they use of util-server.ts. `user` is the
table, `session` the fields `userID` and `userRole` of each socket, `request` a handler in
progress. The database pool has one connection (database.ts:121), so a step is everything from
the answer to one query to the next query, and `transaction` names the update that keeps the
connection from `Begin` to `Commit` while the others wait. `Login` is the one step that begins with
the answer to its query. `Timer` sends the sockets of a changed user away 100 ms after the answer;
`Restart` comes at any moment. A password is a number, new each time one is set. A session's
`password` and `unannounced` are history: which password its account had, and that an update of its
account was answered as failed.

### `ContainerOperations`: recreating, republishing and cleaning containers

dockerbridge-socket-handler.ts works through the docker command line. `docker` is the container under
each name, `file` the ports in compose.yaml, `req` the requests with the command each is suspended at,
`rebuilding` and `cleaning` the sets of that name, `offered` the rollback payload that browsers hold. `Exists`
to `Verify` are recreateStandaloneContainer, run once more by restoreStandaloneContainerAfterFailure
(`pass = "restore"`) when a command fails after the removal (`Broken`); `Edit`, `Up` and `Confirm` are the
way of a Compose service. `Preflight` and `PreviewCache` are dialogs the user confirms (`AskUpdate`,
`AskClean`) or cancels, by which time the container may have gone or changed its name. `crossed` and a
request's `alone` and `hits` are history: which apps were mixed up, when a rename put one container under a
name that others were at work on, or a rollback went by a name that another container has by now; whether
another request touched the same container; and the failures a request met. Restarting is stopping and starting; a
paused container goes
through the same steps as a running one.

### `DockerObjects`: networks, volumes and images

docker-resource-manager.ts, its handler, and the image handlers. A dialog (`dialog`) holds a preview; on
confirmation the server looks again (`ListContainers`, `ListResources`, `InspectContainers`,
`InspectResource` in any order within their phase), compares with `AsExpected` and acts (`Remove`,
`Disconnect`, `Create`, `RemoveImage`). `active` and `pulling` are the two tables of what is in progress.
Every network or volume made under a name is a new `instance`, which stands for the id or time of
creation in the fingerprint. `ContainerChanges` is what happens outside DockerBridge.

### `StackListing`: the list of stacks

`Stack.getStackList`, `sendStackList` and the browser's store. A full refresh fills a map of its own; the
one of every ten seconds takes `managedStackList` itself and changes it, and the `Stack` objects in it, in
place: so `map` and `object` are heaps. A directory that goes between two looks sends a full refresh
through a cached one (`Get`, phase "nested"). A failing `docker compose ls` ends a refresh (`ComposeLsFails`);
a directory or an entry that cannot be read is only logged, and the refresh goes on without it (`ReaddirFails`,
`EntryFails`). `alone` and `steady` are history: since a refresh began nothing changed and it passed nothing
over; and such a full refresh was alone at its end and nothing changed or was passed over since. One set,
`dir`, stands for the directories and for the Compose files in them, and a `docker compose ls` that succeeds
and prints nothing is left out: docker prints an empty list.

### `ComposeRepository`: the index of Compose files

compose-repository.ts, its page and store. A scan reads what docker runs, one directory after
the other and each file; there is one at a time, and `waiting` is the queue of queries that joined it.
The cache has an age. A scan swallows the failures of its calls: without an answer of `docker compose ls`
(364-370, 391) every file is inactive, a root or directory that cannot be read is passed over, a file that cannot
be read is left out; and the index is cached and served like any other. `ReadRuntime`, `ReadDirectory` and
`InspectComposeFile` each have that disjunct. `failures`, in the index, is history and counts them. `settled` is
history: a scan that nothing disturbed ended and nothing changed since. So of an index none of
whose calls failed `IndexIsTrue` says that it is what there is, and of every other that it invents nothing: it
lists no file that is not there and shows none as running whose project does not run (`NothingInvented`).
`RefreshIsTrue` is about scans none of whose calls failed.

## The runs

| run | what it shows | bounds, and why they are enough |
|---|---|---|
| `system_restore` | a start-up restores all or nothing, reports the truth, consumes the marker and comes up; with a marker or manifest that cannot be read it never does | two files and two sidecars: one target behind, one at and one ahead of the loop; three failing calls: one in the loop, one in its rollback, one in writing the record; two crashes |
| `system_restore_rolled_back` | *violated*: "rolled back" may leave a half-restored system | one failure and one crash suffice |
| `backup_store` | lock, integrity of the pending package, catalog, liveness | three backups, three requests: one in an operation, one refused, one that follows; failures and crashes are not bounded |
| `compose_editor` | a commit nobody disturbs is atomic, what it overwrites is kept, one creator | two editors, two commits, two texts, one .env, retention 2, one deletion |
| `console_sessions` | session limit, names, timers, ends | two of everything and a limit of one: the second session is over the limit, a name is used again, a socket changes its user |
| `stack_operations` | names are held exactly, nothing is abandoned, everything is answered | two requests, two endpoints; the slots are used again without a bound |
| `agent_manager` | one connection per manager, honest status, forwarding | one browser, two handlers, three connections (one in use, its replacement, and the replacement of that one), two changes of the row |
| `accounts` | an active administrator remains, sessions follow their accounts | two users, so that each may be the other's last administrator; two sockets; two requests at a time, their slots used again without a bound; the roles viewer and admin; one new password, which tells a session from its account |
| `container_operations` | no container is lost but after a failure or a rename, success is true, one failure restores, a clean-up empties what was shown | one container outside Compose and one service that compete for a free port, a spare name, two cache directories, two requests at a time, three requests or commands in all (change, rename or stop, roll back), one failure: about a million states |
| `docker_objects` | what runs is marked and excludes, what is removed or pruned is what was confirmed | a network, a volume, two images, a reference and a container; two dialogs; one change from outside besides what the dialogs do: 760 000 states |
| `stack_listing` | a full refresh nobody disturbed and that read everything is true, later cached ones too, a login is answered | one stack, one browser, one state a project's services can be in, three refreshes (one to fill the cache, a cached and a full one that overlap), one change, one failure of any call: 550 000 states. Hidden stacks are left empty here |
| `compose_repository` | after an undisturbed scan the index is true if no call of it failed and invents nothing if one did, and the query asked last is shown | three files in two directories, pages of one, a limit of two files; two queries, one change, one failing call per scan, a cache that lives one tick: 4.5 million states |

Safety and liveness share a run where they share their model; such a run uses no symmetry. `accounts`,
which checks safety only, is symmetric in users, sockets and requests, and its view leaves out what a socket
that is gone, or a request that has taken effect, still holds and nothing reads.
The other safety-only runs are symmetric in their model values, ports, images and identities included.
Deadlock is checked except where the model stops for a bound: `ConsoleSessions` and `AgentManager`, whose
objects are made once each, and the four modules `ContainerOperations`, `DockerObjects`, `StackListing`
and `ComposeRepository`, which count requests, changes or refreshes.

Type invariants are not among the properties of the runs: the types are proved for every module with a
run but `ComposeRepository`, which states its `TypeOK` for a reader to add to the configuration and was checked so.
The inductive invariants of the proofs were checked the same way, on the instances of the runs, that of
`StackListing` also with a second stack, which is hidden. The safety properties of `StackListing` were also
checked with two states of a project (1.1 million states), those of `ComposeRepository` with three queries and no
failing call (4.3 million): together with liveness or failures these take longer than a run should.

Every `MaxX` (`MaxFailure` bounds the failing calls of one scan) is a bound of the check, not of the code, except
`MaxSessions` and `Retention`,
which are settings of the server. The proofs hold for every value.

## Fairness

- `SystemRestore`: the process takes its next step and a supervisor restarts it
  (`restart: unless-stopped`, compose.yaml:8). Nothing obliges a call to fail or to succeed; the
  failures are bounded instead. That no bound helps against a cause that stays is the second half of
  `EventuallyServes`.
- `BackupStore`: a pending call settles, the armed restart timer fires, a supervisor
  restarts. Requests and crashes are not obliged to come.
- `ConsoleSessions`: a shell that was told to end does exit. No fairness for idle timers: a shell
  that keeps writing keeps its session.
- `StackOperations`: a handler that has begun goes on: commands end, calls settle.
- `StackListing`: refreshes that have begun go on, one or another of them: the event loop runs what is
  ready and docker answers. As each takes a bounded number of steps, none waits for ever.
- `AgentManager`: ten seconds pass, and a sleeping request looks again. No fairness for
  the network. `ForwardSettles` excludes a browser that logs in for ever, which opens
  the ten seconds again each time.

## What is proved

All for any number of requests, files, sessions, connections and failures. The only
assumptions are those of the ASSUMEs: model values differ from `None`, bounds are
natural numbers, a limit is at least one, the sets of terminal names, of containers, of requests, of
stacks and of ids of containers are finite, and there are more ids than can be in use. One theorem has a hypothesis of
its
own, `Uncrowded`, below.

- `BackupProofs`, of `SystemRestore`: types; *applied* means complete, *rolled back* and *rejected*
  mean untouched, the database is opened on the old or the new system unless an attempt was
  cut short, crashes alone do no harm, the marker is consumed. None of these is inductive. The
  invariant says what the loop has done behind its position and left alone ahead of it
  (`LoopInv`), that a target without a record is as the attempt found it
  (`UnrecordedInv`), that a record holds what the attempt found (`RecordsInv`), and what
  this means at each exit (`SettledInv`, `TornInv`, `MarkerInv`).
- `BackupProofs`, of `BackupStore`: types, exclusion, integrity of the pending package and the
  refinement of `BackupCatalog`. The argument is that of a lock: what a request read before an
  await is still true after it (`AwaitInv`), because every other request is idle.
- `TerminalProofs`, of `ConsoleSessions`: types, the limit, the names, the timers. The shells that run inject into the
  names in use (`NameFindsItsShell`), and `mainTerminal` counts those.
- `TerminalProofs`, of `StackOperations`: types, exact names, and that `delete` abandons no container by
  itself. The strengthening: a request that calls itself alone is (`AloneIsAlone`), each operation
  runs its own commands (`CommandFits`), and when `delete` gets to the directory its
  down has succeeded (`DownIsDone`).
- `AgentManagerProofs`: types, one connection, honest status, and that a request leaves over its own
  manager's login although it was waiting while connections were replaced. The
  strengthening: a manager knows only connections of its own that were made (`KnowsItsOwn`), a login
  is due only on a connection that stands (`AckingIsConnected`), and a waiting request has a connection
  of its own socket (`TaskInv`). Every step is one that changes only the managers of some sockets with
  their connections (`StepOf`), which keeps the invariant.
- `AccountsProofs`: types, the administrator and the sessions. What an update has read is still true
  when it writes, because exactly the update inside its transaction has the connection
  (`TransactionIsHeld`): a demotion that gets to its write has counted two (`Safe`). A session
  becomes outdated only by a write, and the request that wrote is about to send it away; a later login
  reads the row as it is by then. A request stays within the steps of its operation
  (`RequestFits`), and who is logged in has a row (`SessionFits`).

- `ComposeEditorProofs`: types; an undisturbed commit is atomic; one creator; what is overwritten is
  kept. At each await the disk, what the request captured and the disk it was submitted to agree as far as
  the code has got (`Agrees`), as long as nobody disturbed it (`UndisturbedAgrees`), and whoever is past making
  a directory is the only one who made it (`OneMaker`). The last theorem follows the history instead
  (`HistoryInv`): a commit pushes its draft to the front, so a draft that was written is pushed out only by
  as many later ones as are kept. It therefore assumes that no more editors commit at once than revisions are
  kept (`Uncrowded`), and needs to: with two editors and a retention of one, TLC finds the second commit's
  record pushing out what the first has just written. The code keeps between 5 and 500 revisions, 50 unless it
  is told otherwise (compose-editor.ts:710).
- `ContainerOperationsProofs`: types; no container is lost; what is shown as restarting; clean-ups are exact;
  an answer of success is true; one failure restores. The invariant follows a request from the removal to
  the creation. A request that removes a container is about to create it, and the one it finds under its name
  is of the app it means, or both apps are crossed (`FoundAsMeant`, `OneMeant`): so whoever removes or creates
  for another does it for the same app. Requests that are alone share no container (`Apart`). For the two
  action properties the invariant is joined by `InOrder`, which says at each phase how the container of such a
  request stands: as it was found until it is stopped, there or not there as the restoration saw it, and as
  asked for once created. A request keeps its own order (`Well`), and what the others do leaves it alone
  (`OthersAreWell`). That a new id is new is counted (`NewIdIsNew`): the containers, and twice the requests,
  are fewer than the ids.

- `DockerObjectsProofs`: types; what runs is marked and excludes; only what was confirmed is removed or
  pruned. The comparison comes before the command, and between them are awaits. The invariant therefore says
  what each phase of a dialog goes with (`Fits`), and of a dialog that nobody disturbed that what its
  second look has seen so far is still so: of the network or volume (`ResourceSeen`) and of the images
  (`ImagesSeen`). A dialog is disturbed by
  whoever touches what it is about, and by the same token the others leave it alone.
- `ListProofs`, of `ComposeRepository`: after a scan that nothing disturbed the index is true and the query
  asked last is shown, if no call of the scan failed; whatever failed, nothing is invented.
  One scan runs at a time, the one that is waited for (`OneScan`). What an undisturbed
  scan has found is so, and what it has not found is still to be looked at, unless the index was cut off
  or a call failed (`Looked`): the two halves meet at its end. Its types are not proved: the page's items are a sorted
  sequence that is chosen, and the queries left after a scan are filtered with `SelectSeq`. That there is
  something to choose, and what a filter returns, are inductions over sets and sequences.
- `ListProofs`, of `StackListing`: types; a full refresh that nothing disturbed, and that read everything, shows the
  truth; so does
  every list after one that was alone at its end. The refreshes write into shared maps and objects, so the invariant
  is about who shares what: an object is of one stack, whatever map it is in (`OneStackEach`); a full refresh
  has a map no other works on and that is not the cached one (`OwnMap`), and while undisturbed its objects
  are in no other map, there for what it has looked at and for nothing else (`LookedAt`). Who waits for a refresh
  is the caller of no other (`Calls`). Once steady, the cached map is true, and so is every map a
  refresh works on, and whoever is at work was not disturbed (`SteadyIsTrue`).

Only model-checked: liveness (`EventuallyServes`, `LockReleased`, `AnnouncedRestoreReachesStartup`,
`DisconnectEndsSession`, `EveryRequestIsAnswered`, `ForwardSettles`, `LoginIsAnswered`), since TLAPS has no rules
for fairness here, and the types of `ComposeRepository`. Every invariant and action property that
a passing run checks is proved. Nothing is proved about recursive definitions; none of the models has any.

## Findings

One run is of a disagreement: after a crash in the middle of a restore, the next attempt captures
half-restored files as what to roll back to, and reports "rolled back" when it has put those back.

The models also contain these, which no run states, because a property that excluded them would simply fail:

- two saves of one version both pass the check and one overwrites the other, although the refusal
  (compose-editor.ts:586) is there to avoid it;
- a console session may end without its closing record, when its socket goes while the opening one is written;
- Compose operations exclude one another per endpoint and name of a terminal, not per project
  (terminal.ts:506 says that another operation is running);
- disabling an agent disconnects only the browser that did it (AgentsPage.tsx:392 says it is disconnected);
- a clean-up that fails half-way has emptied the directories before (ContainersPage.tsx:364 says that none was
  deleted), and two clean-ups of one container may run at once, as the set that excludes them
  (dockerbridge-socket-handler.ts:460) is written two awaits after it is read;
- a rollback of a port change puts the whole compose.yaml back as it was, other edits since included.

## Not modelled

- Reading, formatting and layout (container lists, statistics, logs, inspection, diagnostics), pages and
  components of the frontend as far as they are not dialogs of a protocol, HTTP and TLS set-up, migrations,
  packaging and build scripts: no state whose order matters.
- Settings: a cache of a minute before a table with unique keys, read and written over the one connection of
  the database pool; nothing the other modules promise depends on the value that is read.
- The events watcher, metrics and the shutdown: one timer or one child process each, whose loss is tolerated.
- Shared terminals (combined logs, shells in containers), whose output is all they have.
- Within the modelled components: the operation log beyond being an await, encryption of credentials, digests, a
  password that an older version stored in clear; the validation of packages and drafts, which passes or fails;
  what a container is recreated with apart from its port and whether it runs; the files in cache
    directories, and cleaning as a step of recreation; the texts of compose files; that docker's times of creation,
  which stand in
  fingerprints, have seconds; built-in and Swarm networks; the automatic
  login when authentication is disabled, a second factor, the rate limiter and the strength of passwords; the
  reset tool (`extra/reset-password.ts`), which writes the table from a process of its own.

## Plan

Modelled and checked: the eleven modules above with `BackupCatalog`; proved: their safety properties. What is left:

1. In `ComposeRepository`, a page given by the ranks of its items instead of a sorted sequence: then it can be
   proved that every file that matches is on exactly one page.
2. The hazards that no property covers yet (`PROJECT.json` says of each why): the shutdown, a shell that ends before
   its listener is registered.
3. Abstract specifications, as `BackupCatalog` is one, of the index and the list of stacks: a register that is
   read and written at once as long as nothing is disturbed.
