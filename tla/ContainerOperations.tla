------------------------ MODULE ContainerOperations ------------------------
(***************************************************************************)
(* What DockerBridge does to containers: start and stop, renaming,         *)
(* recreating, publishing on another host port and rolling that back       *)
(* (backend/socket-handlers/dockerbridge-socket-handler.ts).               *)
(*                                                                         *)
(* A request works with the docker command line, one command at a time, and *)
(* is suspended at each of them; nothing keeps two requests from working on *)
(* the same container.  A container outside Compose is recreated by         *)
(* removing it and creating another under its name; the request that fails  *)
(* to create or to start it tries once to bring the old one back.  For a    *)
(* service of a stack the compose file is changed and docker compose does   *)
(* the rest.  An app is what a container is an instance of: it tells, after *)
(* a rename, which container stands under a name.                           *)
(*                                                                         *)
(* A container has one published port; what else recreation copies is not   *)
(* modelled.  What is asked of docker or found by inspecting may fail as    *)
(* long as there are faults left.                                           *)
(***************************************************************************)
EXTENDS Naturals, FiniteSets, TLC

CONSTANTS Standalone,  \* apps outside Compose
          Service,     \* services of one stack
          Name,        \* container names
          Port, Id,
          CacheDir,    \* the cache directories that a container declares
          Req,         \* slots for requests in progress
          None,
          MaxAsk,      \* bound on the requests and other commands
          MaxFault     \* bound on the failures injected

App == Standalone \union Service

VARIABLES
  docker,      \* the container under each name
  file,        \* the port of each service in the compose file
  req,         \* the requests
  rebuilding,  \* rebuildingContainers
  cleaning,    \* cleaningCaches
  offered,     \* the last rollback payload a browser got for each name
  asked,       \* the number of requests and other commands so far
  faults,      \* the number of failures so far
  crossed      \* apps mixed up: one was meant, the other found under the name

vars == <<docker, file, req, rebuilding, cleaning, offered, asked, faults, crossed>>
noted == <<rebuilding, cleaning, offered>>

Container == [id : Id, app : App, port : Port, running : BOOLEAN]
Inspect == [name : Name, id : Id \union {None}, app : App, port : Port,
            running : BOOLEAN]

\* The backup behind a payload: the inspected container, or the whole file.
Payload == [app : Standalone, port : Port, running : BOOLEAN]
           \union [app : Service, file : [Service -> Port]]

ASSUME ContainerAssumption ==
  /\ Standalone \intersect Service = {}
  /\ App \subseteq Name
  /\ None \notin Name \union Port \union Id
  /\ None \notin Container \union Inspect \union Payload
  /\ IsFiniteSet(Name) /\ IsFiniteSet(Req) /\ IsFiniteSet(Id)
  /\ IsFiniteSet(CacheDir)
  /\ Cardinality(Id) > Cardinality(Name) + 2 * Cardinality(Req)
  /\ MaxAsk \in Nat /\ MaxFault \in Nat

Kind == {"none", "recreate", "update", "rollback", "clean"}
Phase == {"shown", "check", "edit", "exists", "look", "stop", "remove", "create",
          "start", "verify", "up", "confirm", "inspect", "empty", "ok", "error"}

\* pass: the request itself, or restoreStandaloneContainerAfterFailure; seen:
\* the container it inspected or read from the backup; target: the new port;
\* made: the container it created; alone: nothing else was done to the
\* container meanwhile; hits: the commands of the request that failed; shown,
\* left, emptied: cache directories shown to be cleaned, still to be emptied,
\* and emptied.  A slot is also a dialog that waits for the user, "shown".
Request == [kind : Kind, phase : Phase,
            pass : {"do", "restore"}, seen : Inspect \union {None},
            target : Port \union {None}, made : Id \union {None},
            backup : Payload \union {None}, alone : BOOLEAN, hits : 0..3,
            shown : SUBSET CacheDir, left : SUBSET CacheDir,
            emptied : SUBSET CacheDir]

Done(phase) ==
  [kind |-> "none", phase |-> phase, pass |-> "do", seen |-> None,
   target |-> None, made |-> None, backup |-> None, alone |-> TRUE, hits |-> 0,
   shown |-> {}, left |-> {}, emptied |-> {}]

TypeOK ==
  /\ docker \in [Name -> Container \union {None}]
  /\ file \in [Service -> Port]
  /\ req \in [Req -> Request]
  /\ rebuilding \in SUBSET Name
  /\ cleaning \in SUBSET Id
  /\ offered \in [Name -> Payload \union {None}]
  /\ asked \in 0..MaxAsk
  /\ faults \in 0..MaxFault
  /\ crossed \in SUBSET App

Injections(S, T) == {f \in [S -> T] : \A x, y \in S : f[x] = f[y] => x = y}

\* Every app runs under its own name, no two on one port.  Which ids they
\* have makes no difference.
Init ==
  /\ \E port \in Injections(App, Port) :
       LET id == CHOOSE i \in Injections(App, Id) : TRUE
       IN  docker = [n \in Name |->
             IF n \in App
             THEN [id |-> id[n], app |-> n, port |-> port[n], running |-> TRUE]
             ELSE None]
  /\ file = [s \in Service |-> docker[s].port]
  /\ req = [r \in Req |-> Done("ok")]
  /\ rebuilding = {}
  /\ cleaning = {}
  /\ offered = [n \in Name |-> None]
  /\ asked = 0
  /\ faults = 0
  /\ crossed = {}

-----------------------------------------------------------------------------
Busy(r) == req[r].kind # "none"
At(r, phase) == Busy(r) /\ req[r].phase = phase

\* It works on the container.
Working(r) == Busy(r) /\ req[r].kind # "clean" /\ req[r].phase # "shown"

NameOf(r) == req[r].seen.name
Restoring(r) == req[r].pass = "restore"
Compose(r) == req[r].seen.app \in Service

Present(n) == docker[n] # None
UsedIds == {docker[n].id : n \in {m \in Name : Present(m)}}
           \union {req[r].seen.id : r \in {x \in Req : Busy(x)}}
           \union {req[r].made : r \in Req}
NewId == CHOOSE i \in Id : i \notin UsedIds

\* Docker refuses to start a container on a port that another one has.
Taken(port, id) ==
  \E n \in Name : /\ Present(n) /\ docker[n].running
                  /\ docker[n].port = port /\ docker[n].id # id

\* Mutant: a name is not taken out of rebuildingContainers.
AnswerOnly(r, outcome) ==
  /\ req' = [req EXCEPT ![r] = Done(outcome)]
  /\ offered' = IF req[r].backup = None THEN offered
                ELSE [offered EXCEPT ![NameOf(r)] = req[r].backup]
  /\ UNCHANGED <<rebuilding, cleaning>>

\* The answer, with the payload for undoing the update if there is a backup.
Answer(r, outcome) ==
  /\ req' = [req EXCEPT ![r] = Done(outcome)]
  /\ rebuilding' = IF req[r].kind = "recreate"
                   THEN rebuilding \ {NameOf(r)} ELSE rebuilding
  /\ cleaning' = IF req[r].phase = "empty"
                 THEN cleaning \ {req[r].seen.id} ELSE cleaning
  /\ offered' = IF req[r].backup = None THEN offered
                ELSE [offered EXCEPT ![NameOf(r)] = req[r].backup]

Continue(r, phase) ==
  /\ req' = [req EXCEPT ![r].phase = phase]
  /\ UNCHANGED noted

\* Mutant: the old container is not restored.
BrokenForGood(r) == Answer(r, "error")

\* A command failed.  From the creation on, the old container is restored,
\* once; what fails while restoring is only logged.
Broken(r) ==
  IF ~Restoring(r) /\ req[r].phase \in {"create", "start", "verify"}
  THEN /\ req' = [req EXCEPT ![r].phase = "exists", ![r].pass = "restore",
                             ![r].hits = @ + 1]
       /\ UNCHANGED noted
  ELSE Answer(r, "error")

Going == UNCHANGED <<asked, faults, crossed>>

\* Something new is done, as far as the bound goes.
Counted == asked < MaxAsk /\ asked' = asked + 1 /\ UNCHANGED faults
Asked == Counted /\ UNCHANGED crossed

-----------------------------------------------------------------------------
(* A request arrives and inspects the container *)

\* A rollback of a stack's file reaches all its services.
Reach(q) == IF q.kind = "rollback" /\ q.seen.app \in Service
            THEN Service ELSE {q.seen.name}

WorksOn(r, names) == Working(r) /\ names \intersect Reach(req[r]) # {}

\* The app and the others that stand, or are worked on, under the name.
Mixed(n, app) ==
  LET apps == {app} \union {docker[m].app : m \in {k \in {n} : Present(k)}}
              \union {req[r].seen.app : r \in {x \in Req : Working(x) /\ NameOf(x) = n}}
  IN  IF apps = {app} THEN {} ELSE apps

Disturbed(names) ==
  [r \in Req |-> IF WorksOn(r, names) THEN [req[r] EXCEPT !.alone = FALSE]
                 ELSE req[r]]

Open(r, q) ==
  req' = [Disturbed(Reach(q)) EXCEPT
            ![r] = [q EXCEPT !.alone = \A x \in Req : ~WorksOn(x, Reach(q))]]

Seen(n) ==
  [name |-> n, id |-> docker[n].id, app |-> docker[n].app,
   port |-> docker[n].port, running |-> docker[n].running]

New(kind, phase, seen) ==
  [Done(phase) EXCEPT !.kind = kind, !.seen = seen, !.target = seen.port]

AskRecreate(r, n) ==
  /\ ~Busy(r) /\ Present(n)
  /\ Open(r, New("recreate", IF docker[n].app \in Service THEN "up" ELSE "exists",
                 Seen(n)))
  /\ rebuilding' = rebuilding \union {n}
  /\ UNCHANGED <<docker, file, cleaning, offered>>
  /\ Asked

\* preflightHostPort: the dialog shows that the port is free, and in the file
\* for a service; otherwise it says why not, and nothing happens.
Preflight(r, n, port) ==
  /\ ~Busy(r) /\ Present(n)
  /\ ~Taken(port, docker[n].id)
  /\ docker[n].app \in Service => file[docker[n].app] = docker[n].port
  /\ req' = [req EXCEPT ![r] = [New("update", "shown", Seen(n)) EXCEPT !.target = port]]
  /\ UNCHANGED <<docker, file, noted>>
  /\ Asked

\* The container that was shown, under whatever name it has now.
Named(r) == {n \in Name : Present(n) /\ docker[n].id = req[r].seen.id}

\* The user confirms; the container is inspected again, if it is there.
AskUpdate(r) ==
  /\ At(r, "shown") /\ req[r].kind = "update"
  /\ \/ \E n \in Named(r) :
          /\ Open(r, [New("update", "check", Seen(n)) EXCEPT !.target = req[r].target])
          /\ UNCHANGED noted
     \/ Named(r) = {} /\ Answer(r, "error")
  /\ UNCHANGED <<docker, file>>
  /\ Going

Cancel(r) ==
  /\ At(r, "shown")
  /\ req' = [req EXCEPT ![r] = Done("ok")]
  /\ UNCHANGED <<docker, file, noted>>
  /\ Going

\* rollbackDockerBridgeHostPort: the backup stands for the container.
AskRollback(r, n) ==
  /\ ~Busy(r) /\ offered[n] # None
  /\ LET old == offered[n]
         stack == old.app \in Service
         seen == [name |-> n, id |-> None, app |-> old.app,
                  port |-> IF stack THEN old.file[old.app] ELSE old.port,
                  running |-> stack \/ old.running]
     IN  Open(r, [New("rollback", IF stack THEN "edit" ELSE "exists", seen)
                    EXCEPT !.backup = IF stack THEN old ELSE None])
  /\ crossed' = crossed \union Mixed(n, offered[n].app)
  /\ UNCHANGED <<docker, file, noted>>
  /\ Counted

-----------------------------------------------------------------------------
(* The steps of a request *)

\* assertHostPortAvailable; outside Compose the inspected container is backed
\* up in the same step.
Check(r) ==
  /\ At(r, "check")
  /\ IF Taken(req[r].target, req[r].seen.id)
     THEN Answer(r, "error")
     ELSE IF Compose(r) THEN Continue(r, "edit")
     ELSE /\ req' = [req EXCEPT ![r].phase = "exists",
               ![r].backup = [app |-> req[r].seen.app, port |-> req[r].seen.port,
                              running |-> req[r].seen.running]]
          /\ UNCHANGED noted
  /\ UNCHANGED <<docker, file>>
  /\ Going

\* updateComposePort: the port to change must be in the file.
Editable(r) == file[req[r].seen.app] = req[r].seen.port

\* The stack has been found: the file is read, backed up and written, or
\* overwritten with the backup, without a pause.
Edit(r) ==
  /\ At(r, "edit")
  /\ LET s == req[r].seen.app
     IN  \/ /\ req[r].kind = "rollback"
            /\ file' = req[r].backup.file
            /\ req' = [req EXCEPT ![r].phase = "up", ![r].backup = None]
            /\ UNCHANGED noted
         \/ /\ req[r].kind = "update" /\ Editable(r)
            /\ file' = [file EXCEPT ![s] = req[r].target]
            /\ req' = [req EXCEPT ![r].phase = "up",
                                  ![r].backup = [app |-> s, file |-> file]]
            /\ UNCHANGED noted
         \/ /\ req[r].kind = "update" /\ ~Editable(r)
            /\ Answer(r, "error")
            /\ UNCHANGED file
  /\ UNCHANGED docker
  /\ Going

\* docker compose up -d --force-recreate: a container with the port in the
\* file, started if the port is free.
Up(r) ==
  /\ At(r, "up")
  /\ LET s == req[r].seen.app
         free == ~Taken(file[s], IF Present(s) THEN docker[s].id ELSE None)
     IN  /\ docker' = [docker EXCEPT ![s] =
              [id |-> NewId, app |-> s, port |-> file[s], running |-> free]]
         /\ IF free THEN Continue(r, "confirm") ELSE Answer(r, "error")
  /\ UNCHANGED file
  /\ Going

\* verifyComposeServiceRunning
Confirm(r) ==
  /\ At(r, "confirm")
  /\ LET c == docker[req[r].seen.app]
     IN  Answer(r, IF c # None /\ c.running THEN "ok" ELSE "error")
  /\ UNCHANGED <<docker, file>>
  /\ Going

\* assertStandaloneRecreateSupported: what recreation cannot reproduce.
Unsupported(r) ==
  /\ At(r, "exists") /\ ~Restoring(r)
  /\ Answer(r, "error")
  /\ UNCHANGED <<docker, file>>
  /\ Going

\* containerExists
Exists(r) ==
  /\ At(r, "exists")
  /\ Continue(r, IF Present(NameOf(r)) THEN "look" ELSE "create")
  /\ UNCHANGED <<docker, file>>
  /\ Going

\* The container is inspected again, and its declared caches are cleaned.
Look(r) ==
  /\ At(r, "look")
  /\ IF ~Present(NameOf(r)) THEN Broken(r)
     ELSE Continue(r, IF docker[NameOf(r)].running THEN "stop" ELSE "remove")
  /\ UNCHANGED <<docker, file>>
  /\ Going

Stop(r) ==
  /\ At(r, "stop")
  /\ IF ~Present(NameOf(r)) THEN UNCHANGED docker /\ Broken(r)
     ELSE /\ docker' = [docker EXCEPT ![NameOf(r)].running = FALSE]
          /\ Continue(r, "remove")
  /\ UNCHANGED file
  /\ Going

\* Docker does not remove a running container.
Remove(r) ==
  /\ At(r, "remove")
  /\ LET c == docker[NameOf(r)]
     IN  IF c = None \/ (c # None /\ c.running)
         THEN UNCHANGED docker /\ Broken(r)
         ELSE /\ docker' = [docker EXCEPT ![NameOf(r)] = None]
              /\ Continue(r, "create")
  /\ UNCHANGED file
  /\ Going

\* Mutant: the container is created as it was inspected.
CreatedAsSeen(r) ==
  [id |-> NewId, app |-> req[r].seen.app, port |-> req[r].seen.port,
   running |-> FALSE]

Created(r) ==
  [id |-> NewId, app |-> req[r].seen.app,
   port |-> IF Restoring(r) THEN req[r].seen.port ELSE req[r].target,
   running |-> FALSE]

\* Mutant: only a container that ran is created again.
CreateToStart(r) ==
  /\ At(r, "create")
  /\ IF Present(NameOf(r)) THEN UNCHANGED docker /\ Broken(r)
     ELSE IF ~req[r].seen.running
     THEN UNCHANGED docker /\ Answer(r, IF Restoring(r) THEN "error" ELSE "ok")
     ELSE /\ docker' = [docker EXCEPT ![NameOf(r)] = Created(r)]
          /\ req' = [req EXCEPT ![r].phase = "start", ![r].made = NewId]
          /\ UNCHANGED noted
  /\ UNCHANGED file
  /\ Going

\* docker create with what was inspected, on the new port or, restoring, the
\* old one.  A container that did not run is not started.
Create(r) ==
  /\ At(r, "create")
  /\ IF Present(NameOf(r)) THEN UNCHANGED docker /\ Broken(r)
     ELSE /\ docker' = [docker EXCEPT ![NameOf(r)] = Created(r)]
          /\ IF req[r].seen.running
             THEN /\ req' = [req EXCEPT ![r].phase = "start", ![r].made = NewId]
                  /\ UNCHANGED noted
             ELSE Answer(r, IF Restoring(r) THEN "error" ELSE "ok")
  /\ UNCHANGED file
  /\ Going

Start(r) ==
  /\ At(r, "start")
  /\ LET c == docker[NameOf(r)]
     IN  IF c = None \/ (c # None /\ Taken(c.port, c.id))
         THEN UNCHANGED docker /\ Broken(r)
         ELSE /\ docker' = [docker EXCEPT ![NameOf(r)].running = TRUE]
              /\ IF Restoring(r) THEN Answer(r, "error") ELSE Continue(r, "verify")
  /\ UNCHANGED file
  /\ Going

\* The created container is inspected by its id.
Verify(r) ==
  /\ At(r, "verify")
  /\ IF \E n \in Name : Present(n) /\ docker[n].id = req[r].made
     THEN Answer(r, "ok") ELSE Broken(r)
  /\ UNCHANGED <<docker, file>>
  /\ Going

-----------------------------------------------------------------------------
(* Cleaning the declared cache directories.  Which of them may be cleaned,    *)
(* safe places that are mounted and are directories, anything may change.     *)

\* previewDockerBridgeContainerCache
PreviewCache(r, n, dirs) ==
  /\ ~Busy(r) /\ Present(n) /\ dirs # {}
  /\ req' = [req EXCEPT ![r] = [New("clean", "shown", Seen(n)) EXCEPT !.shown = dirs]]
  /\ UNCHANGED <<docker, file, noted>>
  /\ Asked

\* The user confirms; refused while the container is being cleaned.
AskClean(r) ==
  /\ At(r, "shown") /\ req[r].kind = "clean"
  /\ IF req[r].seen.id \in cleaning THEN Answer(r, "error") ELSE Continue(r, "inspect")
  /\ UNCHANGED <<docker, file>>
  /\ Going

\* Mutant: as many directories as were shown, not the same.
AsManyAsShown(r, dirs) == Cardinality(dirs) = Cardinality(req[r].shown)

AsShown(r, dirs) == dirs = req[r].shown

\* The directories that may be cleaned now are compared with those shown.
InspectCache(r, dirs) ==
  /\ At(r, "inspect")
  /\ IF Named(r) # {} /\ AsShown(r, dirs)
     THEN /\ req' = [req EXCEPT ![r].phase = "empty", ![r].left = dirs]
          /\ cleaning' = cleaning \union {req[r].seen.id}
          /\ UNCHANGED <<rebuilding, offered>>
     ELSE Answer(r, "error")
  /\ UNCHANGED <<docker, file>>
  /\ Going

\* cleanCacheDirectoryContents, for one directory after the other.  One that
\* has changed is refused, and those before it stay empty.
Empty(r, d) ==
  /\ At(r, "empty") /\ d \in req[r].left
  /\ \/ Answer(r, "error")
     \/ /\ req[r].left = {d}
        /\ Answer(r, "ok")
     \/ /\ req[r].left # {d}
        /\ req' = [req EXCEPT ![r].left = @ \ {d}, ![r].emptied = @ \union {d}]
        /\ UNCHANGED noted
  /\ UNCHANGED <<docker, file>>
  /\ Going

-----------------------------------------------------------------------------
(* One command each: dockerBridgeContainerAction other than "recreate", and *)
(* renameDockerBridgeContainer.  What they inspect before is only logged.  *)

StartContainer(n) ==
  /\ Present(n) /\ ~docker[n].running /\ ~Taken(docker[n].port, docker[n].id)
  /\ docker' = [docker EXCEPT ![n].running = TRUE]
  /\ req' = Disturbed({n})
  /\ UNCHANGED <<file, noted>>
  /\ Asked

\* A container that ends by itself looks the same.
StopContainer(n) ==
  /\ Present(n) /\ docker[n].running
  /\ docker' = [docker EXCEPT ![n].running = FALSE]
  /\ req' = Disturbed({n})
  /\ UNCHANGED <<file, noted>>
  /\ Asked

\* The page offers it for containers outside Compose; docker refuses a name
\* that is in use.
RenameContainer(n, to) ==
  /\ Present(n) /\ docker[n].app \in Standalone
  /\ ~Present(to) /\ to \notin Service
  /\ docker' = [docker EXCEPT ![n] = None, ![to] = docker[n]]
  /\ req' = Disturbed({n, to})
  /\ crossed' = crossed \union Mixed(to, docker[n].app)
  /\ UNCHANGED <<file, noted>>
  /\ Counted

\* A command fails, without effect, except that a failed up may have created
\* a container that does not run, and that the container started may have
\* come out abnormal.  containerExists takes a failure for a no.
Fault(r) ==
  /\ Busy(r) /\ req[r].phase # "shown" /\ faults < MaxFault
  /\ faults' = faults + 1
  /\ IF req[r].phase = "exists"
     THEN /\ req' = [req EXCEPT ![r].phase = "create", ![r].hits = @ + 1]
          /\ UNCHANGED noted
     ELSE Broken(r)
  /\ \/ UNCHANGED docker
     \/ /\ req[r].phase = "up"
        /\ docker' = [docker EXCEPT ![req[r].seen.app] =
             [id |-> NewId, app |-> req[r].seen.app, port |-> file[req[r].seen.app],
              running |-> FALSE]]
     \/ /\ req[r].phase = "verify" /\ Present(NameOf(r))
        /\ docker' = [docker EXCEPT ![NameOf(r)].running = FALSE]
  /\ UNCHANGED <<file, asked, crossed>>

Step(r) ==
  \/ Check(r) \/ Edit(r) \/ Up(r) \/ Confirm(r)
  \/ Unsupported(r) \/ Exists(r) \/ Look(r) \/ Stop(r) \/ Remove(r)
  \/ Create(r) \/ Start(r) \/ Verify(r)
  \/ \E dirs \in SUBSET CacheDir : InspectCache(r, dirs)
  \/ \E d \in CacheDir : Empty(r, d)

Next ==
  \/ \E r \in Req, n \in Name :
       \/ AskRecreate(r, n)
       \/ \E port \in Port : Preflight(r, n, port)
       \/ AskRollback(r, n)
       \/ \E dirs \in SUBSET CacheDir : PreviewCache(r, n, dirs)
  \/ \E r \in Req : AskUpdate(r) \/ AskClean(r) \/ Cancel(r) \/ Step(r) \/ Fault(r)
  \/ \E n \in Name :
       \/ StartContainer(n) \/ StopContainer(n)
       \/ \E to \in Name : RenameContainer(n, to)

Spec == Init /\ [][Next]_vars

-----------------------------------------------------------------------------
Lost(a) == \A n \in Name : Present(n) => docker[n].app # a

\* The request has removed the container of the app, or found it removed, and
\* is about to create it.
AboutToCreate(r, a) ==
  /\ Busy(r) /\ req[r].seen.app = a
  /\ req[r].phase = "create" \/ (Restoring(r) /\ req[r].phase = "exists")

\* However requests on the same containers interleave, an app is without its
\* container only while a request is about to create it again, after a
\* failure, or because of a rename: it put another container under the name
\* that a request was at work on, or that a rollback still goes by.
NeverLost ==
  \A a \in App :
    Lost(a) => \/ \E r \in Req : AboutToCreate(r, a)
               \/ faults > 0
               \/ a \in crossed

\* While a recreation runs that no other request disturbed, the container is
\* shown as restarting; and it is shown so by a recreation only.
ShownWhileRebuilt ==
  /\ \A r \in Req : Busy(r) /\ req[r].kind = "recreate" /\ req[r].alone
                      => NameOf(r) \in rebuilding
  /\ \A n \in rebuilding :
       \E r \in Req : Busy(r) /\ req[r].kind = "recreate" /\ NameOf(r) = n

\* What a clean-up has emptied and is going to empty are the directories shown
\* to whoever confirmed it, whatever changed since the preview; and only a
\* clean-up at work keeps others away, however the earlier ones ended.
CleanUpIsExact ==
  /\ \A r \in Req : At(r, "empty") => req[r].emptied \union req[r].left = req[r].shown
  /\ \A i \in cleaning : \E r \in Req : At(r, "empty") /\ req[r].seen.id = i

Ends(r, outcome) ==
  Working(r) /\ req'[r].kind = "none" /\ req'[r].phase = outcome

\* Recreating, changing a port or rolling it back, answered "ok" and not
\* disturbed by another request, has left a container of that app under its
\* name with the port asked for, also in the file, and running if it was to
\* run.
AnswerIsTrue ==
  [][\A r \in Req :
       Ends(r, "ok") /\ req[r].alone =>
         LET n == NameOf(r)
         IN  /\ docker'[n] # None
             /\ docker'[n].app = req[r].seen.app
             /\ Compose(r) => file'[n] = docker'[n].port
             /\ req[r].kind # "recreate" => docker'[n].port = req[r].target
             /\ Compose(r) \/ req[r].seen.running => docker'[n].running]_vars

\* A recreation or port change outside Compose that fails, of which one command
\* failed (besides starting the restored container), and that met nothing else
\* done to the container, leaves it as it was found: its port, and running if
\* it ran.  It is left stopped if its port
\* was given away meanwhile, or if removing it was what failed.
FailureRestores ==
  [][\A r \in Req :
       /\ Ends(r, "error") /\ req[r].alone /\ ~Compose(r)
       /\ req[r].kind \in {"recreate", "update"}
       /\ req[r].hits + (faults' - faults) <= 1
       => LET c == docker'[NameOf(r)]
          IN  /\ c # None
              /\ c.port = req[r].seen.port
              /\ \/ c.running = req[r].seen.running
                 \/ \E n \in Name \ {NameOf(r)} :
                      /\ docker'[n] # None /\ docker'[n].running
                      /\ docker'[n].port = c.port
                 \/ req[r].phase = "remove" /\ ~Restoring(r)]_vars
=============================================================================
