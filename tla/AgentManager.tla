---------------------------- MODULE AgentManager ----------------------------
(***************************************************************************)
(* Connections to a remote instance: AgentManager                          *)
(* (backend/agent-manager.ts), one object for every browser connected, and  *)
(* the handlers that manage and use agents                                 *)
(* (backend/socket-handlers/manage-agent- and agent-proxy-socket-handler).  *)
(*                                                                         *)
(* The managers keep the endpoints apart in all their tables, so the model *)
(* has one endpoint: its row in the database, which all managers share, and *)
(* for each browser's socket the client object with its login and status.   *)
(* A handler is a task that is suspended wherever the code awaits: reading *)
(* and writing the row, testing an agent, asking it for diagnostics,        *)
(* waiting for it to be connected.  A task goes on when its browser is      *)
(* gone.  What the network does to a client may happen at any moment, as    *)
(* long as the client has not been told to stop: socket.io drops listeners, *)
(* and acknowledgements still due, with the connection.                     *)
(***************************************************************************)
EXTENDS Naturals

CONSTANTS Socket,     \* browsers' connections, each with its manager
          Client,     \* connections to the agent, each made once
          Task,       \* slots for handlers in progress
          None,
          MaxChange   \* bound on the changes of the agent's row

ASSUME AgentAssumption ==
  /\ None \notin Socket \union Client \union Task
  /\ MaxChange \in Nat

VARIABLES
  agent,      \* the agent's row
  changes,    \* the number of changes made to the table
  connected,  \* the sockets whose browser is there
  fresh,      \* the sockets whose first ten seconds run (firstConnectTime)
  manager,    \* each socket's entry for the endpoint
  client,     \* the connections
  task        \* the handlers in progress

vars == <<agent, changes, connected, fresh, manager, client, task>>

\* id: the row; version: its last change, which the fingerprint stands for.
Row == [id : 1..MaxChange, version : 1..MaxChange, active : BOOLEAN]

\* "connecting" is also what is reported when there is no status yet.
Status == {"connecting", "online", "offline"}
Entry == [client : Client \union {None}, loggedIn : BOOLEAN, status : Status]

Life == {"unused", "connecting", "connected", "stopped"}

\* acking: login was sent on this connection and its answer is due.
Connection == [socket : Socket \union {None}, life : Life, acking : BOOLEAN]

Managing == {"connectAll", "rename", "enable", "disable", "rotate", "remove"}
Kind == Managing \union {"none", "add", "forward"}
Phase == {"idle", "find", "test", "store", "password", "diagnose", "check",
          "trash", "announce", "wait", "sent"}

\* row: the agent as the task read it; client: the connection it waits for;
\* expected: the version whose removal was previewed.
Handler == [kind : Kind, socket : Socket \union {None}, phase : Phase,
            row : Row \union {None}, client : Client \union {None},
            expected : 0..MaxChange]

Idle == [kind |-> "none", socket |-> None, phase |-> "idle", row |-> None,
         client |-> None, expected |-> 0]

TypeOK ==
  /\ agent \in Row \union {None}
  /\ changes \in 0..MaxChange
  /\ connected \in SUBSET Socket
  /\ fresh \in SUBSET Socket
  /\ manager \in [Socket -> Entry]
  /\ client \in [Client -> Connection]
  /\ task \in [Task -> Handler]

Init ==
  /\ agent = None
  /\ changes = 0
  /\ connected = Socket
  /\ fresh = Socket
  /\ manager = [s \in Socket |->
                 [client |-> None, loggedIn |-> FALSE, status |-> "connecting"]]
  /\ client = [c \in Client |->
                [socket |-> None, life |-> "unused", acking |-> FALSE]]
  /\ task = [t \in Task |-> Idle]

-----------------------------------------------------------------------------
Live(c) == client[c].life \in {"connecting", "connected"}

SocketOf(c) == client[c].socket
At(t, kind, phase) == task[t].kind = kind /\ task[t].phase = phase
Goto(t, phase) == task' = [task EXCEPT ![t].phase = phase]
Finish(t) == task' = [task EXCEPT ![t] = Idle]

\* Disconnecting a connected client calls its "disconnect" listener, unless
\* the listeners are gone; one that is still connecting goes silently.
Stop(c) == [client EXCEPT ![c].life = "stopped", ![c].acking = FALSE]

\* forgetConnection
Forgotten(s) ==
  /\ client' = IF manager[s].client = None THEN client ELSE Stop(manager[s].client)
  /\ manager' = [manager EXCEPT ![s] =
       [client |-> None, loggedIn |-> FALSE, status |-> "offline"]]

New(s) == [socket |-> s, life |-> "connecting", acking |-> FALSE]

\* Mutant: connect does not look whether there is a client already.
ConnectAgain(s) ==
  \E c \in Client :
    /\ client[c].life = "unused"
    /\ client' = [client EXCEPT ![c] = New(s)]
    /\ manager' = [manager EXCEPT ![s].client = c, ![s].status = "connecting"]

\* connect: the status is reported first, then an existing client is kept,
\* even if it has been stopped.
Connect(s) ==
  IF manager[s].client # None
  THEN /\ manager' = [manager EXCEPT ![s].status = "connecting"]
       /\ UNCHANGED client
  ELSE \E c \in Client :
         /\ client[c].life = "unused"
         /\ client' = [client EXCEPT ![c] = New(s)]
         /\ manager' = [manager EXCEPT ![s].client = c,
                                       ![s].status = "connecting"]

\* reconnect
Reconnect(s) ==
  \E c \in Client :
    /\ client[c].life = "unused"
    /\ client' = [(IF manager[s].client = None THEN client
                   ELSE Stop(manager[s].client)) EXCEPT ![c] = New(s)]
    /\ manager' = [manager EXCEPT ![s] =
         [client |-> c, loggedIn |-> FALSE, status |-> "connecting"]]

-----------------------------------------------------------------------------
(* The connection to the agent: its listeners *)

Report(s, in, status) ==
  manager' = [manager EXCEPT ![s].loggedIn = in, ![s].status = status]

Unchanged == UNCHANGED <<agent, changes, connected, fresh, task>>

\* "connect": the credentials are sent.
Connected(c) ==
  /\ client[c].life = "connecting"
  /\ client' = [client EXCEPT ![c].life = "connected", ![c].acking = TRUE]
  /\ UNCHANGED manager
  /\ Unchanged

LoginAnswered(c) ==
  /\ client[c].acking
  /\ client' = [client EXCEPT ![c].acking = FALSE]
  /\ \/ Report(SocketOf(c), TRUE, "online")
     \/ Report(SocketOf(c), FALSE, "offline")
  /\ Unchanged

ConnectError(c) ==
  /\ client[c].life = "connecting"
  /\ Report(SocketOf(c), FALSE, "offline")
  /\ UNCHANGED client
  /\ Unchanged

\* Mutant: the status is reported, the login not taken back.
DroppedQuietly(c) ==
  /\ client[c].life = "connected"
  /\ \E life \in {"connecting", "stopped"} :
       client' = [client EXCEPT ![c].life = life, ![c].acking = FALSE]
  /\ manager' = [manager EXCEPT ![SocketOf(c)].status = "offline"]
  /\ Unchanged

\* "disconnect": the client tries again, unless the agent has sent it away.
Dropped(c) ==
  /\ client[c].life = "connected"
  /\ \E life \in {"connecting", "stopped"} :
       client' = [client EXCEPT ![c].life = life, ![c].acking = FALSE]
  /\ Report(SocketOf(c), FALSE, "offline")
  /\ Unchanged

\* "info" of an agent older than 1.4.0: the client disconnects, and hears it.
OldVersion(c) ==
  /\ client[c].life = "connected"
  /\ client' = Stop(c)
  /\ Report(SocketOf(c), FALSE, "offline")
  /\ Unchanged

-----------------------------------------------------------------------------
(* The browsers *)

\* disconnectAll, which keeps the entries.
Gone(gone) ==
  LET stopped == {c \in Client : \E s \in gone : manager[s].client = c}
  IN /\ connected' = connected \ gone
     /\ client' = [c \in Client |-> IF c \in stopped THEN Stop(c)[c] ELSE client[c]]
     /\ manager' = [s \in Socket |->
          IF \E c \in stopped : manager[s].client = c /\ client[c].life = "connected"
          THEN [manager[s] EXCEPT !.loggedIn = FALSE, !.status = "offline"]
          ELSE manager[s]]

Disconnect(s) ==
  /\ s \in connected
  /\ Gone({s})
  /\ UNCHANGED <<agent, changes, fresh, task>>

\* Ten seconds after the manager was made or its last connectAll began.
WindowEnds(s) ==
  /\ fresh' = fresh \ {s}
  /\ UNCHANGED <<agent, changes, connected, manager, client, task>>

Begin(t, s, kind, phase) ==
  [Idle EXCEPT !.kind = kind, !.socket = s, !.phase = phase]

\* Logging in, the first time or again, calls connectAll; remove names the
\* version it was previewed for.
Arrive(t, s, kind) ==
  /\ task[t] = Idle /\ s \in connected
  /\ task' = [task EXCEPT ![t] =
       [Begin(t, s, kind, "find") EXCEPT
          !.expected = IF kind = "remove" /\ agent # None
                       THEN agent.version ELSE 0]]
  /\ fresh' = IF kind = "connectAll" THEN fresh \union {s} ELSE fresh
  /\ UNCHANGED <<agent, changes, connected, manager, client>>

\* A new agent is tested first, unless its endpoint has a connection.
ArriveAdd(t, s) ==
  /\ task[t] = Idle /\ s \in connected
  /\ manager[s].client = None
  /\ task' = [task EXCEPT ![t] = Begin(t, s, "add", "test")]
  /\ UNCHANGED <<agent, changes, connected, fresh, manager, client>>

Ready(c, s) == client[c].life = "connected" /\ manager[s].loggedIn

\* emitToEndpoint: a request is sent at once, or waits for the connection it
\* found, or is refused (no step).
Forward(t, s) ==
  /\ task[t] = Idle /\ s \in connected
  /\ manager[s].client # None
  /\ Ready(manager[s].client, s) \/ s \in fresh
  /\ task' = [task EXCEPT ![t] =
       [Begin(t, s, "forward",
              IF Ready(manager[s].client, s) THEN "sent" ELSE "wait")
        EXCEPT !.client = manager[s].client]]
  /\ UNCHANGED <<agent, changes, connected, fresh, manager, client>>

-----------------------------------------------------------------------------
(* The tasks *)

\* A task ends in an error: not found, refused, a call that failed.
Fail(t) ==
  /\ task[t].phase \in {"find", "test", "store", "check", "trash"}
     \/ At(t, "enable", "password")
  /\ Finish(t)
  /\ UNCHANGED <<agent, changes, connected, fresh, manager, client>>

\* The agent is read, for connectAll only if it is active; credentials are
\* tried before they are stored, and an online agent is asked for diagnostics
\* before it is removed.
Find(t) ==
  /\ task[t].phase = "find" /\ agent # None
  /\ task[t].kind = "connectAll" => agent.active
  /\ LET online == agent.active /\ manager[task[t].socket].status = "online"
         next == CASE task[t].kind = "connectAll" -> "password"
                   [] task[t].kind = "rotate" -> "test"
                   [] task[t].kind = "remove" ->
                        IF online THEN "diagnose" ELSE "check"
                   [] OTHER -> "store"
     IN task' = [task EXCEPT ![t].phase = next, ![t].row = agent]
  /\ UNCHANGED <<agent, changes, connected, fresh, manager, client>>

Tested(t) ==
  /\ task[t].phase = "test"
  /\ task[t].kind = "add" => agent = None
  /\ Goto(t, "store")
  /\ UNCHANGED <<agent, changes, connected, fresh, manager, client>>

\* connectAll goes on with the agent as it read it.
ConnectAll(t) ==
  /\ At(t, "connectAll", "password")
  /\ Connect(task[t].socket)
  /\ Finish(t)
  /\ UNCHANGED <<agent, changes, connected, fresh>>

\* The stored password cannot be read.
ConnectAllFails(t) ==
  /\ At(t, "connectAll", "password")
  /\ manager' = [manager EXCEPT ![task[t].socket].status = "offline"]
  /\ Finish(t)
  /\ UNCHANGED <<agent, changes, connected, fresh, client>>

\* The row cannot be stored twice: its url is unique.
Add(t) ==
  /\ At(t, "add", "store") /\ agent = None /\ changes < MaxChange
  /\ changes' = changes + 1
  /\ agent' = [id |-> changes', version |-> changes', active |-> TRUE]
  /\ Connect(task[t].socket)
  /\ Goto(t, "announce")
  /\ UNCHANGED <<connected, fresh>>

\* 200 ms after the answer all other browsers are sent away.
Announce(t) ==
  /\ At(t, "add", "announce")
  /\ Gone(connected \ {task[t].socket})
  /\ Finish(t)
  /\ UNCHANGED <<agent, changes, fresh>>

\* A changed row is stored; if it is there no longer, nothing is, and the
\* task does not learn of it.
Stored(t, active) ==
  /\ changes < MaxChange
  /\ changes' = changes + 1
  /\ agent' = IF agent # None /\ agent.id = task[t].row.id
              THEN [agent EXCEPT !.version = changes', !.active = active]
              ELSE agent

\* Whether storing also writes the fields that were not changed, as they were
\* when the row was read, is up to the database library.
StoredOtherwise(t) ==
  \E row \in {task[t].row, agent} \ {None} : Stored(t, row.active)

\* update: the display name only.
Rename(t) ==
  /\ At(t, "rename", "store")
  /\ StoredOtherwise(t)
  /\ Finish(t)
  /\ UNCHANGED <<connected, fresh, manager, client>>

\* updateManaged with active set; reading the password is one more await.
Enable(t) ==
  /\ At(t, "enable", "store")
  /\ Stored(t, TRUE)
  /\ Goto(t, "password")
  /\ UNCHANGED <<connected, fresh, manager, client>>

Enabled(t) ==
  /\ At(t, "enable", "password")
  /\ Reconnect(task[t].socket)
  /\ Finish(t)
  /\ UNCHANGED <<agent, changes, connected, fresh>>

Disable(t) ==
  /\ At(t, "disable", "store")
  /\ Stored(t, FALSE)
  /\ Forgotten(task[t].socket)
  /\ Finish(t)
  /\ UNCHANGED <<connected, fresh>>

\* rotateCredentials connects again if the agent was active when it was read.
Rotate(t) ==
  /\ At(t, "rotate", "store")
  /\ StoredOtherwise(t)
  /\ IF task[t].row.active THEN Reconnect(task[t].socket)
     ELSE UNCHANGED <<manager, client>>
  /\ Finish(t)
  /\ UNCHANGED <<connected, fresh>>

\* Diagnostics arrive, fail or time out; removal goes on in any case.
Diagnosed(t) ==
  /\ At(t, "remove", "diagnose")
  /\ Goto(t, "check")
  /\ UNCHANGED <<agent, changes, connected, fresh, manager, client>>

\* The fingerprint is of the row that was read before the diagnostics.
Check(t) ==
  /\ At(t, "remove", "check")
  /\ task[t].row.version = task[t].expected
  /\ Goto(t, "trash")
  /\ UNCHANGED <<agent, changes, connected, fresh, manager, client>>

\* The agent is looked up again and its row removed.
Remove(t) ==
  /\ At(t, "remove", "trash") /\ agent # None
  /\ agent' = None
  /\ Forgotten(task[t].socket)
  /\ Finish(t)
  /\ UNCHANGED <<changes, connected, fresh>>

\* Mutant: a request is sent as soon as the endpoint is logged in.
EmitWhenLoggedIn(t) ==
  /\ At(t, "forward", "wait") /\ task[t].socket \in fresh
  /\ manager[task[t].socket].loggedIn
  /\ Goto(t, "sent")
  /\ UNCHANGED <<agent, changes, connected, fresh, manager, client>>

\* Once a second, in the first ten seconds, the client found is looked at.
Emit(t) ==
  /\ At(t, "forward", "wait") /\ task[t].socket \in fresh
  /\ Ready(task[t].client, task[t].socket)
  /\ Goto(t, "sent")
  /\ UNCHANGED <<agent, changes, connected, fresh, manager, client>>

\* Mutant: a request goes on waiting while there is a client.
GiveUpWithoutClient(t) ==
  /\ At(t, "forward", "wait") /\ task[t].socket \notin fresh
  /\ manager[task[t].socket].client = None
  /\ Finish(t)
  /\ UNCHANGED <<agent, changes, connected, fresh, manager, client>>

GiveUp(t) ==
  /\ At(t, "forward", "wait") /\ task[t].socket \notin fresh
  /\ Finish(t)
  /\ UNCHANGED <<agent, changes, connected, fresh, manager, client>>

\* The agent answers, or the browser waits no more.
Answered(t) ==
  /\ At(t, "forward", "sent")
  /\ Finish(t)
  /\ UNCHANGED <<agent, changes, connected, fresh, manager, client>>

-----------------------------------------------------------------------------
Network(c) ==
  \/ Connected(c) \/ LoginAnswered(c) \/ ConnectError(c) \/ Dropped(c)
  \/ OldVersion(c)

Continue(t) ==
  \/ Find(t) \/ Tested(t) \/ ConnectAll(t) \/ ConnectAllFails(t)
  \/ Add(t) \/ Announce(t) \/ Rename(t)
  \/ Enable(t) \/ Enabled(t) \/ Disable(t) \/ Rotate(t) \/ Diagnosed(t)
  \/ Check(t) \/ Remove(t) \/ Emit(t) \/ GiveUp(t) \/ Answered(t) \/ Fail(t)

Next ==
  \/ \E c \in Client : Network(c)
  \/ \E s \in Socket : Disconnect(s) \/ WindowEnds(s)
  \/ \E t \in Task, s \in Socket, kind \in Managing : Arrive(t, s, kind)
  \/ \E t \in Task, s \in Socket : ArriveAdd(t, s) \/ Forward(t, s)
  \/ \E t \in Task : Continue(t)

Spec == Init /\ [][Next]_vars

\* Ten seconds pass, and then a waiting request looks again.
FairSpec ==
  /\ Spec
  /\ \A s \in Socket : WF_vars(WindowEnds(s))
  /\ \A t \in Task : WF_vars(GiveUp(t))

-----------------------------------------------------------------------------
(* Properties *)

\* A manager has one connection to an agent at most, the one it knows: what
\* disconnects that one leaves none behind, and no other writes its status.
OneConnection ==
  \A c \in Client : Live(c) =>
    SocketOf(c) \in Socket /\ manager[SocketOf(c)].client = c

\* An agent is online, and logged in, only over a connection that stands and
\* whose login was answered.
OnlineIsTrue ==
  \A s \in Socket :
    /\ manager[s].status = "online" => manager[s].loggedIn
    /\ manager[s].loggedIn =>
         \E c \in Client : /\ manager[s].client = c
                           /\ client[c].life = "connected"
                           /\ ~client[c].acking

\* A request goes out over a connection its own manager holds and has logged
\* in, though the connection may have been replaced while it waited.
ForwardsOverItsLogin ==
  [][\A t \in Task : ~At(t, "forward", "sent") /\ At(t, "forward", "sent")' =>
       LET c == task'[t].client
       IN /\ manager[task'[t].socket].client = c
          /\ client[c].life = "connected" /\ ~client[c].acking]_vars

\* A waiting request is sent or refused, unless its browser logs in for ever.
ForwardSettles ==
  \A t \in Task, s \in Socket :
    <>[](s \notin fresh) =>
      (At(t, "forward", "wait") /\ task[t].socket = s
         ~> ~At(t, "forward", "wait"))
=============================================================================
