--------------------------- MODULE StackOperations ---------------------------
(***************************************************************************)
(* Compose operations on one project: Stack's operations                   *)
(* (backend/stack.ts), the progress terminal each of them runs a docker    *)
(* compose command in (Terminal.execWithOutput, backend/terminal.ts), and  *)
(* their handlers (backend/agent-socket-handlers/docker-socket-handler.ts). *)
(*                                                                         *)
(* A request looks its project up, runs one command or two, and is         *)
(* answered.  The terminal's name is made of the endpoint the socket came  *)
(* through and the project, and a command is refused while that name is in  *)
(* use: this is all that keeps operations apart.  Requests interleave at    *)
(* every await: the lookup, the commands, reading the status, removing the  *)
(* directory and writing the operation log.  What a command does to the     *)
(* containers is taken to happen when it exits.                             *)
(*                                                                         *)
(* Names that ConsoleSessions has too carry a prefix, and the entries of   *)
(* terminalMap for this project are progressTerminals, apart from those of  *)
(* consoles: TerminalProofs is about both modules.                          *)
(***************************************************************************)
EXTENDS FiniteSets

CONSTANTS Request,   \* slots for requests in flight, used again and again
          Endpoint,  \* the ways to reach this server: directly or as an agent
          Vacant     \* no request, no endpoint

ASSUME StackAssumption == Vacant \notin Request \union Endpoint

VARIABLES
  directory,    \* does the project have its directory in stacksDir?
  containers,   \* the state of the project's containers
  progressTerminals,  \* terminalMap: the request whose command has the
                      \* endpoint's terminal
  request       \* the request in each slot

stackVars == <<directory, containers, progressTerminals, request>>

\* The operations, and the docker compose command each starts with.
Command == [deploy |-> "up", start |-> "up", startService |-> "up",
            stop |-> "stop", stopService |-> "stop",
            restart |-> "restart", restartService |-> "restart",
            down |-> "down", delete |-> "down", update |-> "pull"]

Op == DOMAIN Command
Commands == {"up", "stop", "restart", "down", "pull"}

\* The operations whose handler writes the operation log before it answers.
Logged == Op \ {"deploy", "delete"}

Phase == {"idle", "lookup", "ready", "command", "status", "removing", "logging"}
ContainerState == {"none", "exited", "running"}

\* elsewhere: the project was found by the compose file docker knows of,
\* outside stacksDir.  alone: no other request was in flight at any moment.
RequestFields == [phase : Phase, op : Op, endpoint : Endpoint \union {Vacant},
           command : Commands, elsewhere : BOOLEAN, alone : BOOLEAN]

Idle == [phase |-> "idle", op |-> "down", endpoint |-> Vacant,
         command |-> "down", elsewhere |-> FALSE, alone |-> FALSE]

At(r, phase) == request[r].phase = phase
InFlight(r) == ~At(r, "idle")

StackTypeOK ==
  /\ directory \in BOOLEAN
  /\ containers \in ContainerState
  /\ progressTerminals \in [Endpoint -> Request \union {Vacant}]
  /\ request \in [Request -> RequestFields]
  /\ \A r \in Request : InFlight(r) => request[r].endpoint # Vacant

StackInit ==
  /\ directory \in BOOLEAN
  /\ containers \in ContainerState
  /\ progressTerminals = [e \in Endpoint |-> Vacant]
  /\ request = [r \in Request |-> Idle]

Alone(r) == \A q \in Request \ {r} : At(q, "idle")

-----------------------------------------------------------------------------
(* Steps of a request *)

MoveTo(r, phase) == request' = [request EXCEPT ![r].phase = phase]

\* Returned or thrown to the handler: most write the operation log first.
Settle(r) ==
  IF request[r].op \in Logged
  THEN MoveTo(r, "logging")
  ELSE request' = [request EXCEPT ![r] = Idle]

Arrive(r, op, e) ==
  /\ At(r, "idle")
  /\ request' = [q \in Request |->
       IF q = r
       THEN [phase |-> "lookup", op |-> op, endpoint |-> e,
             command |-> Command[op], elsewhere |-> FALSE, alone |-> Alone(r)]
       ELSE [request[q] EXCEPT !.alone = FALSE]]
  /\ UNCHANGED <<directory, containers, progressTerminals>>

\* deployStack saves the source first; for a new project this makes its
\* directory.  (ComposeEditor has the details.)
SaveSource(r) ==
  /\ At(r, "lookup") /\ request[r].op = "deploy"
  /\ directory' = TRUE
  /\ MoveTo(r, "ready")
  /\ UNCHANGED <<containers, progressTerminals>>

\* getStack.  Without its directory a project may still be found in the
\* cached list or in docker's, there perhaps with a file in another place.
\* restartService asks for no look at the file system.
GetStack(r) ==
  /\ At(r, "lookup") /\ request[r].op # "deploy"
  /\ \E elsewhere \in IF directory \/ request[r].op = "restartService"
                      THEN {FALSE} ELSE BOOLEAN :
       request' = [request EXCEPT ![r].phase = "ready",
                                  ![r].elsewhere = elsewhere]
  /\ UNCHANGED <<directory, containers, progressTerminals>>

\* The source is refused, or the project is not found.
LookupFails(r) ==
  /\ At(r, "lookup")
  /\ directory => request[r].op = "deploy"
  /\ request[r].op # "restartService"
  /\ Settle(r)
  /\ UNCHANGED <<directory, containers, progressTerminals>>

\* Mutant: execWithOutput does not look whether the name is in use.
ExecuteAnyway(r) ==
  /\ At(r, "ready")
  /\ progressTerminals' = [progressTerminals EXCEPT ![request[r].endpoint] = r]
  /\ MoveTo(r, "command")
  /\ UNCHANGED <<directory, containers>>

Execute(r) ==
  /\ At(r, "ready")
  /\ progressTerminals[request[r].endpoint] = Vacant
  /\ progressTerminals' = [progressTerminals EXCEPT ![request[r].endpoint] = r]
  /\ MoveTo(r, "command")
  /\ UNCHANGED <<directory, containers>>

\* "Another operation is already running", or the process cannot be started.
Refuse(r) ==
  /\ At(r, "ready")
  /\ Settle(r)
  /\ UNCHANGED <<directory, containers, progressTerminals>>

\* exit(): the name is free again before anybody hears of the exit.
Released(r) ==
  progressTerminals' = [progressTerminals EXCEPT ![request[r].endpoint] = Vacant]

\* What the command leaves when it succeeds.
Done(command) ==
  CASE command = "up" -> "running"
    [] command = "stop" -> IF containers = "none" THEN "none" ELSE "exited"
    [] command = "restart" -> IF containers = "none" THEN "none" ELSE "running"
    [] command = "down" -> "none"
    [] command = "pull" -> containers

\* ... and when it fails halfway.
Halfway(command) ==
  {containers} \union
    CASE command = "up" -> {"exited", "running"}
      [] command \in {"stop", "down"} -> {Done("stop"), Done(command)}
      [] command = "restart" -> {Done("stop"), Done("restart")}
      [] command = "pull" -> {}

\* What follows the exit: update reads the status between its two commands,
\* delete removes the directory of a project in stacksDir.
Exits(r) ==
  /\ At(r, "command")
  /\ directory \/ request[r].elsewhere
  /\ Released(r)
  /\ containers' = Done(request[r].command)
  /\ IF request[r].command = "pull" THEN MoveTo(r, "status")
     ELSE IF request[r].op = "delete" /\ ~request[r].elsewhere
     THEN MoveTo(r, "removing")
     ELSE Settle(r)
  /\ UNCHANGED directory

\* Mutant: delete does not look at the exit code of down.
ExitIgnored(r) ==
  /\ At(r, "command")
  /\ Released(r)
  /\ containers' \in Halfway(request[r].command)
  /\ IF request[r].op = "delete" THEN MoveTo(r, "removing") ELSE Settle(r)
  /\ UNCHANGED directory

\* Mutant: nobody is told of an error.
ExitUnheard(r) ==
  /\ At(r, "command")
  /\ Released(r)
  /\ containers' \in Halfway(request[r].command)
  /\ MoveTo(r, "command")
  /\ UNCHANGED directory

\* A non-zero exit code is thrown as an error.
ExitsInError(r) ==
  /\ At(r, "command")
  /\ Released(r)
  /\ containers' \in Halfway(request[r].command)
  /\ Settle(r)
  /\ UNCHANGED directory

\* updateStatus, then the second command if the project was seen running.
UpdateStatus(r) ==
  /\ At(r, "status")
  /\ IF containers = "running"
     THEN request' = [request EXCEPT ![r].phase = "ready", ![r].command = "up"]
     ELSE Settle(r)
  /\ UNCHANGED <<directory, containers, progressTerminals>>

RemoveDirectory(r) ==
  /\ At(r, "removing")
  /\ directory' = FALSE
  /\ Settle(r)
  /\ UNCHANGED <<containers, progressTerminals>>

RemoveFails(r) ==
  /\ At(r, "removing")
  /\ Settle(r)
  /\ UNCHANGED <<directory, containers, progressTerminals>>

Answer(r) ==
  /\ At(r, "logging")
  /\ request' = [request EXCEPT ![r] = Idle]
  /\ UNCHANGED <<directory, containers, progressTerminals>>

\* Containers exit by themselves, and docker's restart policy starts them.
ContainersChange ==
  /\ containers # "none"
  /\ containers' \in {"exited", "running"}
  /\ UNCHANGED <<directory, progressTerminals, request>>

-----------------------------------------------------------------------------
Step(r) ==
  \/ SaveSource(r) \/ GetStack(r) \/ LookupFails(r)
  \/ Execute(r) \/ Refuse(r) \/ Exits(r) \/ ExitsInError(r)
  \/ UpdateStatus(r) \/ RemoveDirectory(r) \/ RemoveFails(r) \/ Answer(r)

StackNext ==
  \/ \E r \in Request, op \in Op, e \in Endpoint : Arrive(r, op, e)
  \/ \E r \in Request : Step(r)
  \/ ContainersChange

StackSpec == StackInit /\ [][StackNext]_stackVars

\* Commands end, calls settle: a handler that has begun is continued.
StackFairSpec == StackSpec /\ \A r \in Request : WF_stackVars(Step(r))

-----------------------------------------------------------------------------
(* Properties *)

\* A terminal name is held exactly as long as its command runs: no command
\* runs in a terminal another one has, none gives up another's name, and no
\* name stays behind to refuse every later operation.
TerminalIsHeld ==
  \A e \in Endpoint, r \in Request :
    progressTerminals[e] = r <=> At(r, "command") /\ request[r].endpoint = e

\* delete removes the directory only after down has succeeded: unless another
\* request came in between, no container is left without its project.
NoContainerIsAbandoned ==
  [][directory /\ ~directory' =>
       \E r \in Request : /\ At(r, "removing")
                          /\ request[r].alone => containers' = "none"]_stackVars

\* Every request is answered, whatever its commands and the others do.
EveryRequestIsAnswered ==
  \A r \in Request : InFlight(r) ~> ~InFlight(r)
=============================================================================
