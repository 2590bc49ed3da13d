------------------------- MODULE AgentManagerProofs -------------------------
(***************************************************************************)
(* One connection per manager, the truth of its status, and the connection *)
(* requests are sent over, for any number of browsers, connections and      *)
(* handlers.  The invariant is about managers and connections; of the tasks *)
(* it only needs to know whose they are.                                    *)
(***************************************************************************)
EXTENDS AgentManager, TLAPS

\* What a manager knows is a connection of its own that has been made.
KnowsItsOwn ==
  \A s \in Socket : manager[s].client # None =>
    /\ SocketOf(manager[s].client) = s
    /\ client[manager[s].client].life # "unused"

AckingIsConnected ==
  \A c \in Client : client[c].acking => client[c].life = "connected"

ConnectionInv ==
  /\ manager \in [Socket -> Entry]
  /\ client \in [Client -> Connection]
  /\ OneConnection
  /\ OnlineIsTrue
  /\ KnowsItsOwn
  /\ AckingIsConnected

\* A handler in progress has a socket, and a request waits for a connection of
\* its own socket.
Rightly(h) ==
  /\ h.kind # "none" => h.socket \in Socket
  /\ h.kind = "forward" /\ h.phase = "wait" =>
       /\ h.client \in Client
       /\ SocketOf(h.client) = h.socket
       /\ client[h.client].life # "unused"

TaskInv == task \in [Task -> Handler] /\ \A t \in Task : Rightly(task[t])

RowInv ==
  /\ agent \in Row \union {None}
  /\ changes \in 0..MaxChange
  /\ connected \in SUBSET Socket
  /\ fresh \in SUBSET Socket

IInv == RowInv /\ ConnectionInv /\ TaskInv

\* Connections keep their socket once they are made.
Lasting ==
  \A c \in Client : client[c].life # "unused" =>
    client'[c].socket = client[c].socket /\ client'[c].life # "unused"

-----------------------------------------------------------------------------
(* Connections *)

\* What Stop does to the connections.
LEMMA StopEffect ==
  ASSUME ConnectionInv, NEW c \in Client
  PROVE  /\ Stop(c) \in [Client -> Connection]
         /\ Stop(c)[c].life = "stopped" /\ ~Stop(c)[c].acking
         /\ Stop(c)[c].socket = client[c].socket
         /\ \A d \in Client \ {c} : Stop(c)[d] = client[d]
BY DEF Stop, ConnectionInv, Connection, Life

\* A step in which only the managers of S change, with their connections.
StepOf(S) ==
  /\ client' \in [Client -> Connection]
  /\ manager' \in [Socket -> Entry]
  /\ \A r \in Socket \ S : manager'[r] = manager[r]
  /\ Lasting
  /\ \A d \in Client : client[d].life # "unused" /\ SocketOf(d) \notin S =>
       client'[d] = client[d]
  /\ \A d \in Client : client'[d].life \in {"connecting", "connected"} =>
       \/ client'[d] = client[d] /\ SocketOf(d) \notin S
       \/ client'[d].socket \in S /\ manager'[client'[d].socket].client = d
  /\ \A d \in Client : client'[d].acking => client'[d].life = "connected"
  /\ \A s \in S :
       /\ manager'[s].client # None =>
            /\ client'[manager'[s].client].socket = s
            /\ client'[manager'[s].client].life # "unused"
       /\ manager'[s].status = "online" => manager'[s].loggedIn
       /\ manager'[s].loggedIn =>
            \E c \in Client : /\ manager'[s].client = c
                              /\ client'[c].life = "connected"
                              /\ ~client'[c].acking

LEMMA StepOfManagers ==
  ASSUME ConnectionInv, NEW S \in SUBSET Socket, StepOf(S)
  PROVE  ConnectionInv'
<1>1. OneConnection'
  <2>. SUFFICES ASSUME NEW d \in Client, Live(d)'
       PROVE  client'[d].socket \in Socket /\ manager'[client'[d].socket].client = d
    BY DEF OneConnection, SocketOf
  <2>1. CASE client'[d] = client[d] /\ SocketOf(d) \notin S
    <3>1. SocketOf(d) \in Socket /\ manager[SocketOf(d)].client = d
      BY <2>1 DEF Live, ConnectionInv, OneConnection
    <3>. QED BY <2>1, <3>1 DEF StepOf, SocketOf
  <2>2. CASE client'[d].socket \in S /\ manager'[client'[d].socket].client = d
    BY <2>2
  <2>. QED BY <2>1, <2>2 DEF StepOf, Live
<1>2. \A r \in Socket \ S : manager[r].client # None =>
        /\ manager[r].client \in Client
        /\ client'[manager[r].client] = client[manager[r].client]
        /\ client[manager[r].client].socket = r
        /\ client[manager[r].client].life # "unused"
  <2>. SUFFICES ASSUME NEW r \in Socket \ S, manager[r].client # None
       PROVE  /\ manager[r].client \in Client
              /\ client'[manager[r].client] = client[manager[r].client]
              /\ client[manager[r].client].socket = r
              /\ client[manager[r].client].life # "unused"
    OBVIOUS
  <2>1. manager[r].client \in Client
    BY DEF ConnectionInv, Entry
  <2>2. client[manager[r].client].socket = r /\ client[manager[r].client].life # "unused"
    BY DEF ConnectionInv, KnowsItsOwn, SocketOf
  <2>. QED BY <2>1, <2>2 DEF StepOf, SocketOf
<1>3. OnlineIsTrue'
  <2>. SUFFICES ASSUME NEW r \in Socket
       PROVE  /\ manager'[r].status = "online" => manager'[r].loggedIn
              /\ manager'[r].loggedIn =>
                   \E d \in Client : /\ manager'[r].client = d
                                     /\ client'[d].life = "connected"
                                     /\ ~client'[d].acking
    BY DEF OnlineIsTrue
  <2>1. CASE r \in S
    BY <2>1 DEF StepOf
  <2>2. CASE r \notin S
    <3>1. manager'[r] = manager[r]
      BY <2>2 DEF StepOf
    <3>2. manager[r].status = "online" => manager[r].loggedIn
      BY DEF ConnectionInv, OnlineIsTrue
    <3>3. ASSUME manager[r].loggedIn
          PROVE \E d \in Client : /\ manager'[r].client = d
                                  /\ client'[d].life = "connected"
                                  /\ ~client'[d].acking
      <4>1. PICK d \in Client : /\ manager[r].client = d
                                /\ client[d].life = "connected"
                                /\ ~client[d].acking
        BY <3>3 DEF ConnectionInv, OnlineIsTrue
      <4>2. client'[d] = client[d]
        BY <1>2, <2>2, <4>1, AgentAssumption
      <4>. QED BY <3>1, <4>1, <4>2
    <3>. QED BY <3>1, <3>2, <3>3
  <2>. QED BY <2>1, <2>2
<1>4. KnowsItsOwn'
  BY <1>2 DEF StepOf, KnowsItsOwn, SocketOf
<1>5. AckingIsConnected'
  BY DEF StepOf, AckingIsConnected
<1>. QED BY <1>1, <1>3, <1>4, <1>5 DEF StepOf, ConnectionInv

\* What the five listeners do to their connection and its manager's entry.
Reported(c, s) ==
  /\ client' \in [Client -> Connection]
  /\ \A d \in Client \ {c} : client'[d] = client[d]
  /\ client'[c].socket = s
  /\ client'[c].life # "unused"
  /\ client'[c].acking => client'[c].life = "connected"
  /\ manager' \in [Socket -> Entry]
  /\ \A r \in Socket \ {s} : manager'[r] = manager[r]
  /\ manager'[s].client = c
  /\ manager'[s].status = "online" => manager'[s].loggedIn
  /\ manager'[s].loggedIn => client'[c].life = "connected" /\ ~client'[c].acking

LEMMA NetworkReports ==
  ASSUME ConnectionInv, NEW c \in Client, Network(c)
  PROVE  /\ SocketOf(c) \in Socket /\ manager[SocketOf(c)].client = c
         /\ client[c].life # "unused"
         /\ Reported(c, SocketOf(c))
<1>1. Live(c) /\ SocketOf(c) \in Socket /\ manager[SocketOf(c)].client = c
  BY DEF Network, Connected, LoginAnswered, ConnectError, Dropped, OldVersion,
    Live, ConnectionInv, OneConnection, AckingIsConnected
<1>2. client[c].life # "unused"
  BY <1>1 DEF Live
<1>. DEFINE s == SocketOf(c)
<1>3. /\ client \in [Client -> Connection] /\ client[c] \in Connection
      /\ manager \in [Socket -> Entry] /\ manager[s] \in Entry
  BY <1>1 DEF ConnectionInv
<1>4. ASSUME NEW in \in BOOLEAN, NEW status \in Status, Report(s, in, status)
      PROVE  /\ manager' \in [Socket -> Entry]
             /\ \A r \in Socket \ {s} : manager'[r] = manager[r]
             /\ manager'[s].client = c
             /\ manager'[s].status = status /\ manager'[s].loggedIn = in
  BY <1>1, <1>3, <1>4 DEF Report, Entry
<1>5. CASE Connected(c)
  <2>1. /\ client' \in [Client -> Connection]
        /\ \A d \in Client \ {c} : client'[d] = client[d]
        /\ client'[c].socket = s /\ client'[c].life = "connected"
    BY <1>3, <1>5 DEF Connected, Connection, Life, SocketOf
  <2>2. ~manager[s].loggedIn
    <3>1. ASSUME manager[s].loggedIn PROVE FALSE
      BY <1>1, <1>5, <3>1 DEF Connected, ConnectionInv, OnlineIsTrue
    <3>. QED BY <3>1
  <2>3. manager[s].status = "online" => manager[s].loggedIn
    BY <1>1 DEF ConnectionInv, OnlineIsTrue
  <2>. QED BY <1>1, <1>2, <1>3, <1>5, <2>1, <2>2, <2>3 DEF Connected, Reported
<1>6. CASE LoginAnswered(c)
  <2>1. /\ client' \in [Client -> Connection]
        /\ \A d \in Client \ {c} : client'[d] = client[d]
        /\ client'[c].socket = s /\ client'[c].life = client[c].life
        /\ ~client'[c].acking
    BY <1>3, <1>6 DEF LoginAnswered, Connection, SocketOf
  <2>2. client[c].life = "connected"
    BY <1>6 DEF LoginAnswered, ConnectionInv, AckingIsConnected
  <2>3. CASE Report(s, TRUE, "online")
    BY <1>1, <1>2, <1>4, <2>1, <2>2, <2>3 DEF Reported, Status
  <2>4. CASE Report(s, FALSE, "offline")
    BY <1>1, <1>2, <1>4, <2>1, <2>2, <2>4 DEF Reported, Status
  <2>. QED BY <1>6, <2>3, <2>4 DEF LoginAnswered
<1>7. CASE ConnectError(c)
  <2>1. client' = client /\ Report(s, FALSE, "offline")
    BY <1>7 DEF ConnectError
  <2>2. client[c].acking => client[c].life = "connected"
    BY DEF ConnectionInv, AckingIsConnected
  <2>. QED BY <1>1, <1>2, <1>3, <1>4, <2>1, <2>2 DEF Reported, Status, SocketOf
<1>8. CASE Dropped(c)
  <2>1. PICK life \in {"connecting", "stopped"} :
          client' = [client EXCEPT ![c].life = life, ![c].acking = FALSE]
    BY <1>8 DEF Dropped
  <2>2. /\ client' \in [Client -> Connection]
        /\ \A d \in Client \ {c} : client'[d] = client[d]
        /\ client'[c].socket = s /\ client'[c].life = life
        /\ ~client'[c].acking
    BY <1>3, <2>1 DEF Connection, Life, SocketOf
  <2>3. Report(s, FALSE, "offline")
    BY <1>8 DEF Dropped
  <2>. QED BY <1>1, <1>2, <1>4, <2>2, <2>3 DEF Reported, Status
<1>9. CASE OldVersion(c)
  <2>1. client' = Stop(c) /\ Report(s, FALSE, "offline")
    BY <1>9 DEF OldVersion
  <2>. QED BY <1>1, <1>2, <1>4, <2>1, StopEffect DEF Reported, Status, SocketOf
<1>. QED BY <1>5, <1>6, <1>7, <1>8, <1>9 DEF Network

LEMMA NetworkStep ==
  ASSUME ConnectionInv, NEW c \in Client, Network(c)
  PROVE  ConnectionInv' /\ Lasting
<1>. DEFINE s == SocketOf(c)
<1>1. s \in Socket /\ manager[s].client = c /\ client[c].life # "unused"
  BY NetworkReports
<1>2. Reported(c, s)
  BY NetworkReports
<1>3. Lasting
  BY <1>1, <1>2 DEF Reported, Lasting, SocketOf
<1>4. \A d \in Client \ {c} : client'[d] = client[d]
        /\ (Live(d) => SocketOf(d) # s)
  BY <1>1, <1>2 DEF Reported, ConnectionInv, OneConnection
<1>5. StepOf({s})
  BY <1>1, <1>2, <1>3, <1>4 DEF Reported, StepOf, ConnectionInv,
    AckingIsConnected, Live
<1>. QED BY <1>1, <1>3, <1>5, StepOfManagers

-----------------------------------------------------------------------------
(* What the handlers do to connections *)

\* A manager loses its connection, if it has one, or has it replaced.
LEMMA ForgottenStep ==
  ASSUME ConnectionInv, NEW s \in Socket, Forgotten(s)
  PROVE  ConnectionInv' /\ Lasting
<1>1. manager[s] \in Entry /\ manager \in [Socket -> Entry]
      /\ client \in [Client -> Connection]
  BY DEF ConnectionInv
<1>2. /\ manager' \in [Socket -> Entry]
      /\ \A r \in Socket \ {s} : manager'[r] = manager[r]
      /\ manager'[s].client = None /\ ~manager'[s].loggedIn
      /\ manager'[s].status = "offline"
  BY <1>1 DEF Forgotten, Entry, Status
<1>3. \A d \in Client : Live(d) /\ SocketOf(d) = s => manager[s].client = d
  BY DEF ConnectionInv, OneConnection
<1>4. \A d \in Client : client[d].acking => client[d].life = "connected"
  BY DEF ConnectionInv, AckingIsConnected
<1>5. CASE manager[s].client = None
  <2>1. client' = client
    BY <1>5 DEF Forgotten
  <2>2. \A d \in Client : Live(d) => SocketOf(d) # s
    BY <1>3, <1>5, AgentAssumption
  <2>3. Lasting
    BY <2>1 DEF Lasting
  <2>4. StepOf({s})
    BY <1>1, <1>2, <1>4, <2>1, <2>2, <2>3 DEF StepOf, Live
  <2>. QED BY <2>3, <2>4, StepOfManagers
<1>6. CASE manager[s].client # None
  <2>. DEFINE c == manager[s].client
  <2>1. c \in Client /\ client[c].socket = s /\ client[c].life # "unused"
    BY <1>1, <1>6 DEF Entry, ConnectionInv, KnowsItsOwn, SocketOf
  <2>2. client' = Stop(c)
    BY <1>6 DEF Forgotten
  <2>3. /\ client' \in [Client -> Connection]
        /\ client'[c].life = "stopped" /\ ~client'[c].acking
        /\ client'[c].socket = s
        /\ \A d \in Client \ {c} : client'[d] = client[d]
    BY <2>1, <2>2, StopEffect
  <2>4. \A d \in Client \ {c} : Live(d) => SocketOf(d) # s
    BY <1>3
  <2>5. Lasting
    BY <2>1, <2>3 DEF Lasting
  <2>6. StepOf({s})
    BY <1>2, <1>4, <2>1, <2>3, <2>4, <2>5 DEF StepOf, Live, SocketOf
  <2>. QED BY <2>5, <2>6, StepOfManagers
<1>. QED BY <1>5, <1>6

LEMMA ConnectStep ==
  ASSUME ConnectionInv, NEW s \in Socket, Connect(s)
  PROVE  ConnectionInv' /\ Lasting
<1>1. manager[s] \in Entry /\ manager \in [Socket -> Entry]
      /\ client \in [Client -> Connection]
  BY DEF ConnectionInv
<1>2. \A d \in Client : client[d].acking => client[d].life = "connected"
  BY DEF ConnectionInv, AckingIsConnected
<1>3. \A d \in Client : Live(d) /\ SocketOf(d) = s => manager[s].client = d
  BY DEF ConnectionInv, OneConnection
<1>4. manager[s].loggedIn =>
        \E c \in Client : /\ manager[s].client = c
                          /\ client[c].life = "connected"
                          /\ ~client[c].acking
  BY DEF ConnectionInv, OnlineIsTrue
<1>5. CASE manager[s].client # None
  <2>1. client' = client /\ manager' = [manager EXCEPT ![s].status = "connecting"]
    BY <1>5 DEF Connect
  <2>2. /\ manager' \in [Socket -> Entry]
        /\ \A r \in Socket \ {s} : manager'[r] = manager[r]
        /\ manager'[s].client = manager[s].client
        /\ manager'[s].loggedIn = manager[s].loggedIn
        /\ manager'[s].status = "connecting"
    BY <1>1, <2>1 DEF Entry, Status
  <2>3. client[manager[s].client].socket = s /\ client[manager[s].client].life # "unused"
    BY <1>5 DEF ConnectionInv, KnowsItsOwn, SocketOf
  <2>4. Lasting
    BY <2>1 DEF Lasting
  <2>5. StepOf({s})
    BY <1>1, <1>2, <1>3, <1>4, <2>1, <2>2, <2>3, <2>4 DEF StepOf, Live, SocketOf
  <2>. QED BY <2>4, <2>5, StepOfManagers
<1>6. CASE manager[s].client = None
  <2>1. PICK c \in Client :
          /\ client[c].life = "unused"
          /\ client' = [client EXCEPT ![c] = New(s)]
          /\ manager' = [manager EXCEPT ![s].client = c, ![s].status = "connecting"]
    BY <1>6 DEF Connect
  <2>2. /\ client' \in [Client -> Connection]
        /\ client'[c].socket = s /\ client'[c].life = "connecting"
        /\ ~client'[c].acking
        /\ \A d \in Client \ {c} : client'[d] = client[d]
    BY <1>1, <2>1 DEF New, Connection, Life
  <2>3. /\ manager' \in [Socket -> Entry]
        /\ \A r \in Socket \ {s} : manager'[r] = manager[r]
        /\ manager'[s].client = c /\ manager'[s].loggedIn = manager[s].loggedIn
        /\ manager'[s].status = "connecting"
    BY <1>1, <2>1 DEF Entry, Status
  <2>4. ~manager[s].loggedIn
    BY <1>4, <1>6, AgentAssumption
  <2>5. \A d \in Client : Live(d) => SocketOf(d) # s
    BY <1>3, <1>6, AgentAssumption
  <2>6. Lasting
    BY <2>1, <2>2 DEF Lasting
  <2>7. StepOf({s})
    BY <1>2, <2>1, <2>2, <2>3, <2>4, <2>5, <2>6 DEF StepOf, Live, SocketOf
  <2>. QED BY <2>6, <2>7, StepOfManagers
<1>. QED BY <1>5, <1>6

LEMMA ReconnectStep ==
  ASSUME ConnectionInv, NEW s \in Socket, Reconnect(s)
  PROVE  ConnectionInv' /\ Lasting
<1>1. manager[s] \in Entry /\ manager \in [Socket -> Entry]
      /\ client \in [Client -> Connection]
  BY DEF ConnectionInv
<1>2. \A d \in Client : client[d].acking => client[d].life = "connected"
  BY DEF ConnectionInv, AckingIsConnected
<1>3. \A d \in Client : Live(d) /\ SocketOf(d) = s => manager[s].client = d
  BY DEF ConnectionInv, OneConnection
<1>. DEFINE stopped == IF manager[s].client = None THEN client
                       ELSE Stop(manager[s].client)
<1>4. PICK c \in Client :
        /\ client[c].life = "unused"
        /\ client' = [stopped EXCEPT ![c] = New(s)]
        /\ manager' = [manager EXCEPT ![s] =
             [client |-> c, loggedIn |-> FALSE, status |-> "connecting"]]
  BY DEF Reconnect
<1>. DEFINE Kept(d) == /\ stopped[d] = client[d]
                       /\ client[d].acking => client[d].life = "connected"
                       /\ Live(d) => SocketOf(d) # s
            Ended(d) == /\ stopped[d].socket = client[d].socket
                        /\ SocketOf(d) = s
                        /\ stopped[d].life = "stopped" /\ client[d].life # "unused"
                        /\ ~stopped[d].acking
<1>5. /\ stopped \in [Client -> Connection]
      /\ \A d \in Client : Kept(d) \/ Ended(d)
  <2>1. CASE manager[s].client = None
    <3>1. \A d \in Client : Live(d) => SocketOf(d) # s
      BY <1>3, <2>1, AgentAssumption
    <3>2. stopped = client
      BY <2>1
    <3>3. \A d \in Client : Kept(d)
      BY <1>2, <3>1, <3>2
    <3>. QED BY <1>1, <3>2, <3>3
  <2>2. CASE manager[s].client # None
    <3>. DEFINE b == manager[s].client
    <3>1. b \in Client /\ client[b].socket = s /\ client[b].life # "unused"
      BY <1>1, <2>2 DEF Entry, ConnectionInv, KnowsItsOwn, SocketOf
    <3>2. /\ stopped \in [Client -> Connection]
          /\ stopped[b].life = "stopped" /\ ~stopped[b].acking
          /\ stopped[b].socket = client[b].socket
          /\ \A d \in Client \ {b} : stopped[d] = client[d]
      BY <2>2, <3>1, StopEffect
    <3>3. \A d \in Client \ {b} : Live(d) => SocketOf(d) # s
      BY <1>3
    <3>. HIDE DEF stopped
    <3>4. \A d \in Client \ {b} : Kept(d)
      BY <1>2, <3>2, <3>3
    <3>5. Ended(b)
      BY <3>1, <3>2 DEF SocketOf
    <3>. HIDE DEF Kept, Ended, b
    <3>. QED BY <3>2, <3>4, <3>5
  <2>. QED BY <2>1, <2>2
<1>. HIDE DEF stopped
<1>6. /\ client' \in [Client -> Connection]
      /\ client'[c].socket = s /\ client'[c].life = "connecting"
      /\ ~client'[c].acking
      /\ \A d \in Client \ {c} : client'[d] = stopped[d]
  BY <1>4, <1>5 DEF New, Connection, Life
<1>7. /\ manager' \in [Socket -> Entry]
      /\ \A r \in Socket \ {s} : manager'[r] = manager[r]
      /\ manager'[s].client = c /\ ~manager'[s].loggedIn
      /\ manager'[s].status = "connecting"
  BY <1>1, <1>4 DEF Entry, Status
<1>8. Lasting
  BY <1>4, <1>5, <1>6 DEF Lasting
<1>9. \A d \in Client \ {c} :
        /\ client'[d].life \in {"connecting", "connected"} =>
             client'[d] = client[d] /\ SocketOf(d) # s
        /\ SocketOf(d) # s => client'[d] = client[d]
        /\ client'[d].acking => client'[d].life = "connected"
  BY <1>5, <1>6 DEF Live
<1>10. StepOf({s})
  BY <1>4, <1>6, <1>7, <1>8, <1>9 DEF StepOf
<1>. QED BY <1>8, <1>10, StepOfManagers

\* Browsers go, or are sent away.
LEMMA GoneStep ==
  ASSUME ConnectionInv, NEW gone \in SUBSET Socket, Gone(gone)
  PROVE  ConnectionInv' /\ Lasting
<1>1. /\ manager \in [Socket -> Entry] /\ client \in [Client -> Connection]
      /\ \A s \in Socket : manager[s] \in Entry
      /\ \A c \in Client : client[c] \in Connection
  BY DEF ConnectionInv
<1>. DEFINE stopped == {c \in Client : \E s \in gone : manager[s].client = c}
<1>2. \A c \in Client : client'[c] = IF c \in stopped THEN Stop(c)[c] ELSE client[c]
  BY DEF Gone
<1>3. \A c \in stopped : SocketOf(c) \in gone /\ client[c].life # "unused"
  BY AgentAssumption DEF ConnectionInv, KnowsItsOwn
<1>4. client' = [c \in Client |-> IF c \in stopped THEN Stop(c)[c] ELSE client[c]]
  BY DEF Gone
<1>5. \A c \in Client : Stop(c)[c] \in Connection
  BY StopEffect
<1>6. client' \in [Client -> Connection]
  BY <1>1, <1>4, <1>5
<1>7. \A s \in Socket : manager'[s] =
        IF \E c \in stopped : manager[s].client = c /\ client[c].life = "connected"
        THEN [manager[s] EXCEPT !.loggedIn = FALSE, !.status = "offline"]
        ELSE manager[s]
  BY DEF Gone
<1>8. manager' = [s \in Socket |->
        IF \E c \in stopped : manager[s].client = c /\ client[c].life = "connected"
        THEN [manager[s] EXCEPT !.loggedIn = FALSE, !.status = "offline"]
        ELSE manager[s]]
  BY DEF Gone
<1>. HIDE DEF stopped
<1>9. \A s \in Socket : manager'[s] \in Entry /\ manager'[s].client = manager[s].client
  BY <1>1, <1>7 DEF Entry, Status
<1>10. manager' \in [Socket -> Entry]
  BY <1>8, <1>9
<1>11. \A c \in Client :
         /\ c \in stopped => /\ client'[c].life = "stopped" /\ ~client'[c].acking
                             /\ client'[c].socket = client[c].socket
         /\ c \notin stopped => client'[c] = client[c]
  BY <1>2, StopEffect
<1>12. Lasting
  BY <1>3, <1>11 DEF Lasting
<1>13. \A s \in Socket \ gone : manager'[s] = manager[s]
  <2>. SUFFICES ASSUME NEW s \in Socket \ gone,
                       NEW c \in stopped, manager[s].client = c
       PROVE  FALSE
    BY <1>7
  <2>1. SocketOf(c) \in gone /\ c \in Client
    BY <1>3 DEF stopped
  <2>2. SocketOf(c) = s
    BY <2>1, AgentAssumption DEF ConnectionInv, KnowsItsOwn
  <2>. QED BY <2>1, <2>2
<1>14. \A s \in gone :
         /\ manager'[s].client # None =>
              /\ client'[manager'[s].client].socket = s
              /\ client'[manager'[s].client].life # "unused"
         /\ manager'[s].status = "online" => manager'[s].loggedIn
         /\ manager'[s].loggedIn =>
              \E c \in Client : /\ manager'[s].client = c
                                /\ client'[c].life = "connected"
                                /\ ~client'[c].acking
  <2>. SUFFICES ASSUME NEW s \in gone
       PROVE  /\ manager'[s].client # None =>
                   /\ client'[manager'[s].client].socket = s
                   /\ client'[manager'[s].client].life # "unused"
              /\ manager'[s].status = "online" => manager'[s].loggedIn
              /\ ~manager'[s].loggedIn
    OBVIOUS
  <2>0. s \in Socket
    OBVIOUS
  <2>1. manager[s].client # None =>
          /\ manager[s].client \in Client
          /\ client[manager[s].client].socket = s
          /\ client[manager[s].client].life # "unused"
    BY <1>1, <2>0 DEF Entry, ConnectionInv, KnowsItsOwn, SocketOf
  <2>2. /\ manager[s].status = "online" => manager[s].loggedIn
        /\ manager[s].loggedIn => \E c \in Client : /\ manager[s].client = c
                                                    /\ client[c].life = "connected"
    BY <2>0 DEF ConnectionInv, OnlineIsTrue
  <2>3. \A c \in Client : manager[s].client = c => c \in stopped
    BY DEF stopped
  <2>4. CASE manager[s].loggedIn
    <3>1. manager'[s] = [manager[s] EXCEPT !.loggedIn = FALSE, !.status = "offline"]
      BY <1>7, <2>0, <2>2, <2>3, <2>4
    <3>2. ~manager'[s].loggedIn /\ manager'[s].status = "offline"
      BY <1>1, <2>0, <3>1 DEF Entry
    <3>. QED BY <1>9, <1>12, <2>0, <2>1, <3>2 DEF Lasting
  <2>5. CASE ~manager[s].loggedIn
    <3>1. ~manager'[s].loggedIn /\ manager'[s].status # "online"
      BY <1>1, <1>7, <2>0, <2>2, <2>5 DEF Entry
    <3>. QED BY <1>9, <1>12, <2>0, <2>1, <3>1 DEF Lasting
  <2>. QED BY <2>4, <2>5
<1>15. \A d \in Client : client[d].life # "unused" /\ SocketOf(d) \notin gone =>
         client'[d] = client[d]
  BY <1>3, <1>11
<1>16. \A d \in Client : client'[d].life \in {"connecting", "connected"} =>
         client'[d] = client[d] /\ SocketOf(d) \notin gone
  <2>. SUFFICES ASSUME NEW d \in Client, client'[d].life \in {"connecting", "connected"}
       PROVE  client'[d] = client[d] /\ SocketOf(d) \notin gone
    OBVIOUS
  <2>1. d \notin stopped /\ client'[d] = client[d]
    BY <1>11
  <2>2. manager[SocketOf(d)].client = d
    BY <2>1 DEF ConnectionInv, OneConnection, Live
  <2>. QED BY <2>1, <2>2 DEF stopped
<1>17. \A d \in Client : client'[d].acking => client'[d].life = "connected"
  BY <1>11 DEF ConnectionInv, AckingIsConnected
<1>18. StepOf(gone)
  BY <1>6, <1>10, <1>12, <1>13, <1>14, <1>15, <1>16, <1>17 DEF StepOf
<1>. QED BY <1>12, <1>18, StepOfManagers

\* A password that cannot be read is only reported.
LEMMA FailedStep ==
  ASSUME ConnectionInv, NEW s \in Socket, client' = client,
         manager' = [manager EXCEPT ![s].status = "offline"]
  PROVE  ConnectionInv' /\ Lasting
<1>1. /\ manager' \in [Socket -> Entry]
      /\ \A r \in Socket : /\ manager'[r].client = manager[r].client
                           /\ manager'[r].loggedIn = manager[r].loggedIn
                           /\ manager'[r].status # manager[r].status =>
                                manager'[r].status = "offline"
  BY DEF ConnectionInv, Entry, Status
<1>2. OneConnection' /\ KnowsItsOwn' /\ AckingIsConnected' /\ OnlineIsTrue'
  BY <1>1 DEF ConnectionInv, OneConnection, KnowsItsOwn, AckingIsConnected,
    OnlineIsTrue, Live, SocketOf
<1>. QED BY <1>1, <1>2 DEF ConnectionInv, Lasting

-----------------------------------------------------------------------------
(* What the handlers do to themselves *)

LEMMA TasksKeep ==
  ASSUME TaskInv, Lasting, task' = task
  PROVE  TaskInv'
BY DEF TaskInv, Rightly, Lasting, SocketOf

LEMMA TaskMoves ==
  ASSUME TaskInv, Lasting, NEW t \in Task, NEW h \in Handler,
         task' = [task EXCEPT ![t] = h], Rightly(h)
  PROVE  TaskInv'
<1>1. task' \in [Task -> Handler] /\ task'[t] = h
      /\ \A u \in Task \ {t} : task'[u] = task[u]
  BY DEF TaskInv
<1>2. \A u \in Task : Rightly(task'[u])
  BY <1>1 DEF TaskInv
<1>3. \A u \in Task : Rightly(task[u])'
  BY <1>2 DEF Rightly, Lasting, SocketOf
<1>. QED BY <1>1, <1>3 DEF TaskInv

LEMMA IdleHandler == Idle \in Handler /\ Idle.expected = 0
BY AgentAssumption DEF Idle, Handler, Kind, Phase

LEMMA TaskEnds ==
  ASSUME TaskInv, Lasting, NEW t \in Task, Finish(t)
  PROVE  TaskInv'
<1>1. Rightly(Idle)
  BY DEF Rightly, Idle
<1>. QED BY <1>1, IdleHandler, TaskMoves DEF Finish

LEMMA TaskGoes ==
  ASSUME TaskInv, Lasting, NEW t \in Task, NEW phase \in Phase \ {"wait"},
         Goto(t, phase)
  PROVE  TaskInv'
<1>. DEFINE h == [task[t] EXCEPT !.phase = phase]
<1>1. h \in Handler /\ h.kind = task[t].kind /\ h.socket = task[t].socket
      /\ h.phase = phase
  BY DEF TaskInv, Handler
<1>2. task' = [task EXCEPT ![t] = h]
  BY DEF Goto, TaskInv
<1>. HIDE DEF h
<1>3. Rightly(h)
  BY <1>1 DEF Rightly, TaskInv
<1>. QED BY <1>1, <1>2, <1>3, TaskMoves

\* A step that leaves the connections alone.
LEMMA ConnectionsKeep ==
  ASSUME ConnectionInv, UNCHANGED <<manager, client>>
  PROVE  ConnectionInv' /\ Lasting
<1>1. OneConnection' /\ OnlineIsTrue' /\ KnowsItsOwn' /\ AckingIsConnected'
  BY DEF ConnectionInv, OneConnection, OnlineIsTrue, KnowsItsOwn,
    AckingIsConnected, Live, SocketOf
<1>. QED BY <1>1 DEF ConnectionInv, Lasting

\* The row a task stores over.
LEMMA StoredRow ==
  ASSUME RowInv, NEW t \in Task, NEW active \in BOOLEAN, Stored(t, active)
  PROVE  agent' \in Row \union {None} /\ changes' \in 0..MaxChange
<1>1. changes' \in 1..MaxChange /\ changes' \in 0..MaxChange
  BY AgentAssumption DEF Stored, RowInv
<1>2. CASE agent # None /\ agent.id = task[t].row.id
  <2>1. agent' = [agent EXCEPT !.version = changes', !.active = active]
    BY <1>2 DEF Stored
  <2>2. agent \in Row
    BY <1>2 DEF RowInv
  <2>. QED BY <1>1, <2>1, <2>2 DEF Row
<1>3. CASE ~(agent # None /\ agent.id = task[t].row.id)
  BY <1>1, <1>3 DEF Stored, RowInv
<1>. QED BY <1>2, <1>3

LEMMA StoredOtherwiseRow ==
  ASSUME RowInv, TaskInv, NEW t \in Task, StoredOtherwise(t)
  PROVE  agent' \in Row \union {None} /\ changes' \in 0..MaxChange
<1>1. PICK row \in {task[t].row, agent} \ {None} : Stored(t, row.active)
  BY DEF StoredOtherwise
<1>2. row \in Row
  BY DEF RowInv, TaskInv, Handler
<1>3. row.active \in BOOLEAN
  BY <1>2 DEF Row
<1>. QED BY <1>1, <1>3, StoredRow

-----------------------------------------------------------------------------
(* The steps *)

LEMMA Initially == Init => IInv
<1>. SUFFICES ASSUME Init PROVE IInv
  OBVIOUS
<1>1. RowInv
  BY AgentAssumption DEF Init, RowInv
<1>2. TaskInv
  <2>1. Rightly(Idle)
    BY DEF Rightly, Idle
  <2>. QED BY <2>1, IdleHandler DEF Init, TaskInv
<1>3. ConnectionInv
  BY AgentAssumption DEF Init, ConnectionInv, Entry, Status, Connection, Life,
    OneConnection, OnlineIsTrue, KnowsItsOwn, AckingIsConnected, Live
<1>. QED BY <1>1, <1>2, <1>3 DEF IInv

\* A new handler.
LEMMA Begins ==
  ASSUME NEW t \in Task, NEW s \in Socket, NEW kind \in Kind, NEW phase \in Phase
  PROVE  /\ Begin(t, s, kind, phase) \in Handler
         /\ Begin(t, s, kind, phase).kind = kind
         /\ Begin(t, s, kind, phase).socket = s
         /\ Begin(t, s, kind, phase).phase = phase
BY IdleHandler DEF Begin, Handler

LEMMA BrowserStep ==
  ASSUME IInv, NEW s \in Socket,
         \/ Disconnect(s) \/ WindowEnds(s)
         \/ \E t \in Task : \/ ArriveAdd(t, s) \/ Forward(t, s)
                            \/ \E kind \in Managing : Arrive(t, s, kind)
  PROVE  IInv'
<1>. USE DEF IInv
<1>1. CASE Disconnect(s)
  <2>1. Gone({s})
    BY <1>1 DEF Disconnect
  <2>2. ConnectionInv' /\ Lasting
    BY <2>1, GoneStep
  <2>3. TaskInv'
    BY <1>1, <2>2, TasksKeep DEF Disconnect
  <2>4. RowInv'
    BY <1>1 DEF Disconnect, Gone, RowInv
  <2>. QED BY <2>2, <2>3, <2>4
<1>2. CASE WindowEnds(s)
  <2>1. ConnectionInv' /\ Lasting
    BY <1>2, ConnectionsKeep DEF WindowEnds
  <2>2. TaskInv'
    BY <1>2, <2>1, TasksKeep DEF WindowEnds
  <2>3. RowInv'
    BY <1>2 DEF WindowEnds, RowInv
  <2>. QED BY <2>1, <2>2, <2>3
<1>3. ASSUME NEW t \in Task, ArriveAdd(t, s) PROVE IInv'
  <2>1. ConnectionInv' /\ Lasting
    BY <1>3, ConnectionsKeep DEF ArriveAdd
  <2>. DEFINE h == Begin(t, s, "add", "test")
  <2>2. h \in Handler /\ Rightly(h)
    BY Begins DEF Kind, Phase, Rightly
  <2>3. TaskInv'
    BY <1>3, <2>1, <2>2, TaskMoves DEF ArriveAdd
  <2>4. RowInv'
    BY <1>3 DEF ArriveAdd, RowInv
  <2>. QED BY <2>1, <2>3, <2>4
<1>4. ASSUME NEW t \in Task, Forward(t, s) PROVE IInv'
  <2>1. ConnectionInv' /\ Lasting
    BY <1>4, ConnectionsKeep DEF Forward
  <2>2. PICK phase \in {"sent", "wait"} :
          task' = [task EXCEPT ![t] =
            [Begin(t, s, "forward", phase) EXCEPT !.client = manager[s].client]]
    BY <1>4 DEF Forward
  <2>. DEFINE h == [Begin(t, s, "forward", phase) EXCEPT !.client = manager[s].client]
  <2>3. /\ manager[s].client \in Client
        /\ client[manager[s].client].socket = s
        /\ client[manager[s].client].life # "unused"
    BY <1>4 DEF Forward, ConnectionInv, Entry, KnowsItsOwn, SocketOf
  <2>4. h \in Handler /\ h.socket = s /\ h.client = manager[s].client
    BY <2>3, Begins DEF Handler, Kind, Phase
  <2>. HIDE DEF h
  <2>5. Rightly(h)
    BY <2>3, <2>4 DEF Rightly, SocketOf
  <2>6. TaskInv'
    BY <2>1, <2>2, <2>4, <2>5, TaskMoves DEF h
  <2>7. RowInv'
    BY <1>4 DEF Forward, RowInv
  <2>. QED BY <2>1, <2>6, <2>7
<1>5. ASSUME NEW t \in Task, NEW kind \in Managing, Arrive(t, s, kind) PROVE IInv'
  <2>1. ConnectionInv' /\ Lasting
    BY <1>5, ConnectionsKeep DEF Arrive
  <2>. DEFINE e == IF kind = "remove" /\ agent # None THEN agent.version ELSE 0
              h == [Begin(t, s, kind, "find") EXCEPT !.expected = e]
  <2>2. e \in 0..MaxChange
    BY AgentAssumption DEF RowInv, Row
  <2>. HIDE DEF e
  <2>3. h \in Handler /\ h.socket = s /\ h.phase = "find"
    BY <2>2, Begins DEF Handler, Kind, Phase
  <2>4. task' = [task EXCEPT ![t] = h]
    BY <1>5 DEF Arrive, e
  <2>. HIDE DEF h
  <2>5. Rightly(h)
    BY <2>3 DEF Rightly
  <2>6. TaskInv'
    BY <2>1, <2>3, <2>4, <2>5, TaskMoves
  <2>7. RowInv'
    BY <1>5 DEF Arrive, RowInv
  <2>. QED BY <2>1, <2>6, <2>7
<1>. QED BY <1>1, <1>2, <1>3, <1>4, <1>5

\* Handlers that change connections.
LEMMA ConnectingStep ==
  ASSUME IInv, NEW t \in Task,
         \/ ConnectAll(t) \/ ConnectAllFails(t) \/ Add(t) \/ Announce(t)
         \/ Enabled(t) \/ Disable(t) \/ Rotate(t) \/ Remove(t)
  PROVE  IInv'
<1>. USE DEF IInv
<1>. DEFINE s == task[t].socket
<1>0. s \in Socket
  BY DEF ConnectAll, ConnectAllFails, Add, Announce, Enabled, Disable, Rotate,
    Remove, At, TaskInv, Rightly
<1>1. CASE ConnectAll(t)
  <2>1. ConnectionInv' /\ Lasting
    BY <1>0, <1>1, ConnectStep DEF ConnectAll
  <2>2. TaskInv'
    BY <1>1, <2>1, TaskEnds DEF ConnectAll
  <2>3. RowInv'
    BY <1>1 DEF ConnectAll, RowInv
  <2>. QED BY <2>1, <2>2, <2>3
<1>2. CASE ConnectAllFails(t)
  <2>1. ConnectionInv' /\ Lasting
    BY <1>0, <1>2, FailedStep DEF ConnectAllFails
  <2>2. TaskInv'
    BY <1>2, <2>1, TaskEnds DEF ConnectAllFails
  <2>3. RowInv'
    BY <1>2 DEF ConnectAllFails, RowInv
  <2>. QED BY <2>1, <2>2, <2>3
<1>3. CASE Add(t)
  <2>1. ConnectionInv' /\ Lasting
    BY <1>0, <1>3, ConnectStep DEF Add
  <2>2. TaskInv'
    BY <1>3, <2>1, TaskGoes DEF Add, Phase
  <2>3. changes' \in 1..MaxChange /\ changes' \in 0..MaxChange
    BY <1>3, AgentAssumption DEF Add, RowInv
  <2>4. RowInv'
    BY <1>3, <2>3 DEF Add, RowInv, Row
  <2>. QED BY <2>1, <2>2, <2>4
<1>4. CASE Announce(t)
  <2>1. ConnectionInv' /\ Lasting
    BY <1>4, GoneStep DEF Announce, RowInv
  <2>2. TaskInv'
    BY <1>4, <2>1, TaskEnds DEF Announce
  <2>3. RowInv'
    BY <1>4 DEF Announce, Gone, RowInv
  <2>. QED BY <2>1, <2>2, <2>3
<1>5. CASE Enabled(t)
  <2>1. ConnectionInv' /\ Lasting
    BY <1>0, <1>5, ReconnectStep DEF Enabled
  <2>2. TaskInv'
    BY <1>5, <2>1, TaskEnds DEF Enabled
  <2>3. RowInv'
    BY <1>5 DEF Enabled, RowInv
  <2>. QED BY <2>1, <2>2, <2>3
<1>6. CASE Disable(t)
  <2>1. ConnectionInv' /\ Lasting
    BY <1>0, <1>6, ForgottenStep DEF Disable
  <2>2. TaskInv'
    BY <1>6, <2>1, TaskEnds DEF Disable
  <2>3. RowInv'
    BY <1>6, StoredRow DEF Disable, RowInv
  <2>. QED BY <2>1, <2>2, <2>3
<1>7. CASE Rotate(t)
  <2>1. ConnectionInv' /\ Lasting
    BY <1>0, <1>7, ReconnectStep, ConnectionsKeep DEF Rotate
  <2>2. TaskInv'
    BY <1>7, <2>1, TaskEnds DEF Rotate
  <2>3. RowInv'
    BY <1>7, StoredOtherwiseRow DEF Rotate, RowInv
  <2>. QED BY <2>1, <2>2, <2>3
<1>8. CASE Remove(t)
  <2>1. ConnectionInv' /\ Lasting
    BY <1>0, <1>8, ForgottenStep DEF Remove
  <2>2. TaskInv'
    BY <1>8, <2>1, TaskEnds DEF Remove
  <2>3. RowInv'
    BY <1>8 DEF Remove, RowInv
  <2>. QED BY <2>1, <2>2, <2>3
<1>. QED BY <1>1, <1>2, <1>3, <1>4, <1>5, <1>6, <1>7, <1>8

\* Handlers that leave the connections alone.
LEMMA QuietStep ==
  ASSUME IInv, NEW t \in Task,
         \/ Find(t) \/ Tested(t) \/ Rename(t) \/ Enable(t) \/ Diagnosed(t)
         \/ Check(t) \/ Emit(t) \/ GiveUp(t) \/ Answered(t) \/ Fail(t)
  PROVE  IInv'
<1>. USE DEF IInv
<1>1. ConnectionInv' /\ Lasting
  BY ConnectionsKeep DEF Find, Tested, Rename, Enable, Diagnosed, Check, Emit,
    GiveUp, Answered, Fail
<1>2. RowInv'
  <2>1. CASE Rename(t)
    BY <2>1, StoredOtherwiseRow DEF Rename, RowInv
  <2>2. CASE Enable(t)
    BY <2>2, StoredRow DEF Enable, RowInv
  <2>3. CASE UNCHANGED <<agent, changes, connected, fresh>>
    BY <2>3 DEF RowInv
  <2>. QED BY <2>1, <2>2, <2>3 DEF Find, Tested, Diagnosed, Check, Emit, GiveUp,
         Answered, Fail
<1>3. TaskInv'
  <2>1. CASE Finish(t)
    BY <1>1, <2>1, TaskEnds
  <2>2. ASSUME NEW phase \in Phase \ {"wait"}, Goto(t, phase) PROVE TaskInv'
    BY <1>1, <2>2, TaskGoes
  <2>3. CASE Find(t)
    <3>1. agent \in Row
      BY <2>3 DEF Find, RowInv
    <3>2. PICK next \in {"password", "test", "diagnose", "check", "store"} :
            task' = [task EXCEPT ![t].phase = next, ![t].row = agent]
      BY <2>3 DEF Find
    <3>. DEFINE h == [task[t] EXCEPT !.phase = next, !.row = agent]
    <3>3. h \in Handler /\ h.kind = task[t].kind /\ h.socket = task[t].socket
          /\ h.phase = next
      BY <3>1, <3>2 DEF TaskInv, Handler, Phase
    <3>4. task' = [task EXCEPT ![t] = h]
      BY <3>2 DEF TaskInv
    <3>. HIDE DEF h
    <3>5. Rightly(h)
      BY <3>2, <3>3 DEF Rightly, TaskInv
    <3>. QED BY <1>1, <3>3, <3>4, <3>5, TaskMoves
  <2>. QED BY <2>1, <2>2, <2>3 DEF Tested, Rename, Enable, Diagnosed, Check,
         Emit, GiveUp, Answered, Fail, Phase
<1>. QED BY <1>1, <1>2, <1>3

LEMMA Inductive == IInv /\ [Next]_vars => IInv'
<1>. SUFFICES ASSUME IInv, [Next]_vars PROVE IInv'
  OBVIOUS
<1>1. ASSUME NEW c \in Client, Network(c) PROVE IInv'
  <2>1. ConnectionInv' /\ Lasting
    BY <1>1, NetworkStep DEF IInv
  <2>2. UNCHANGED <<agent, changes, connected, fresh, task>>
    BY <1>1 DEF Network, Connected, LoginAnswered, ConnectError, Dropped,
      OldVersion, Unchanged
  <2>3. TaskInv'
    BY <2>1, <2>2, TasksKeep DEF IInv
  <2>. QED BY <2>1, <2>2, <2>3 DEF IInv, RowInv
<1>2. ASSUME NEW t \in Task, Continue(t) PROVE IInv'
  BY <1>2, ConnectingStep, QuietStep DEF Continue
<1>3. CASE UNCHANGED vars
  <2>1. ConnectionInv' /\ Lasting
    BY <1>3, ConnectionsKeep DEF vars, IInv
  <2>2. TaskInv'
    BY <1>3, <2>1, TasksKeep DEF vars, IInv
  <2>. QED BY <1>3, <2>1, <2>2 DEF vars, IInv, RowInv
<1>. QED BY <1>1, <1>2, <1>3, BrowserStep DEF Next

THEOREM Invariance == Spec => []IInv
BY Initially, Inductive, PTL DEF Spec

-----------------------------------------------------------------------------
(* The theorems *)

\* Every variable has its type, for any number of browsers, connections and
\* handlers, and any bound on the changes.
THEOREM TypeCorrect == Spec => []TypeOK
<1>1. IInv => TypeOK
  BY DEF IInv, RowInv, ConnectionInv, TaskInv, TypeOK
<1>. QED BY <1>1, Invariance, PTL

\* A connection to an agent that lives, or tries to, is the one its manager
\* knows (connect, reconnect, forgetConnection and disconnectAll).
THEOREM OneConnectionAlways == Spec => []OneConnection
<1>1. IInv => OneConnection
  BY DEF IInv, ConnectionInv
<1>. QED BY <1>1, Invariance, PTL

\* "online" is reported, and a login kept, only while the connection stands and
\* its login was answered, however connections are dropped and replaced.
THEOREM OnlineIsTrueAlways == Spec => []OnlineIsTrue
<1>1. IInv => OnlineIsTrue
  BY DEF IInv, ConnectionInv
<1>. QED BY <1>1, Invariance, PTL

\* What a step promises a request that leaves.
SentOverItsLogin ==
  \A t \in Task : ~At(t, "forward", "sent") /\ At(t, "forward", "sent")' =>
    LET c == task'[t].client
    IN /\ manager[task'[t].socket].client = c
       /\ client[c].life = "connected" /\ ~client[c].acking

LEMMA ReadyIsLoggedIn ==
  ASSUME ConnectionInv, NEW s \in Socket, NEW c \in Client,
         SocketOf(c) = s, Ready(c, s)
  PROVE  manager[s].client = c /\ client[c].life = "connected" /\ ~client[c].acking
<1>1. client[c].life = "connected" /\ manager[s].loggedIn
  BY DEF Ready
<1>2. manager[s].client = c
  BY <1>1 DEF ConnectionInv, OneConnection, Live
<1>3. PICK d \in Client : manager[s].client = d /\ ~client[d].acking
  BY <1>1 DEF ConnectionInv, OnlineIsTrue
<1>. QED BY <1>1, <1>2, <1>3

\* emitToEndpoint sends a request over a connection of its browser's manager,
\* logged in, whatever happened to connections while the request waited.
THEOREM ForwardsOverItsLoginAlways == Spec => ForwardsOverItsLogin
<1>1. ASSUME IInv, Next, NEW t \in Task,
             ~At(t, "forward", "sent"), At(t, "forward", "sent")'
      PROVE  /\ manager[task'[t].socket].client = task'[t].client
             /\ client[task'[t].client].life = "connected"
             /\ ~client[task'[t].client].acking
  <2>. USE DEF IInv
  <2>0. task \in [Task -> Handler] /\ Rightly(task[t])
    BY <1>1 DEF TaskInv
  <2>1. \/ Emit(t)
        \/ \E s \in Socket : Forward(t, s)
    <3>. USE DEF At
    <3>1. ASSUME NEW u \in Task, NEW h, task' = [task EXCEPT ![u] = h],
                 u # t \/ h.kind # "forward" \/ h.phase # "sent"
          PROVE  FALSE
      BY <1>1, <2>0, <3>1
    <3>2. ASSUME NEW u \in Task, NEW phase, Goto(u, phase), u # t \/ phase # "sent"
          PROVE  FALSE
      BY <1>1, <2>0, <3>2 DEF Goto, Handler
    <3>3. ASSUME NEW u \in Task, Finish(u) PROVE FALSE
      BY <3>1, <3>3 DEF Finish, Idle
    <3>4. task' # task
      BY <1>1
    <3>5. ASSUME NEW u \in Task, NEW s \in Socket, Forward(u, s), u # t PROVE FALSE
      BY <1>1, <2>0, <3>5 DEF Forward
    <3>6. ASSUME NEW u \in Task, NEW s \in Socket, ArriveAdd(u, s) PROVE FALSE
      BY <3>1, <3>6, Begins DEF ArriveAdd, Kind, Phase
    <3>7. ASSUME NEW u \in Task, NEW s \in Socket, NEW kind \in Managing,
                 Arrive(u, s, kind)
          PROVE  FALSE
      <4>1. Begin(u, s, kind, "find") \in Handler /\ Begin(u, s, kind, "find").phase = "find"
        BY Begins DEF Kind, Phase
      <4>2. PICK e : task' = [task EXCEPT ![u] =
                       [Begin(u, s, kind, "find") EXCEPT !.expected = e]]
        BY <3>7 DEF Arrive
      <4>. QED BY <3>1, <4>1, <4>2 DEF Handler
    <3>8. ASSUME NEW u \in Task, Find(u) PROVE FALSE
      <4>1. PICK next \in {"password", "test", "diagnose", "check", "store"} :
              task' = [task EXCEPT ![u].phase = next, ![u].row = agent]
        BY <3>8 DEF Find
      <4>. QED BY <1>1, <2>0, <4>1 DEF Handler
    <3>9. ASSUME NEW c \in Client, Network(c) PROVE FALSE
      BY <3>4, <3>9 DEF Network, Connected, LoginAnswered, ConnectError, Dropped,
        OldVersion, Unchanged
    <3>10. ASSUME NEW s \in Socket, Disconnect(s) \/ WindowEnds(s) PROVE FALSE
      BY <3>4, <3>10 DEF Disconnect, WindowEnds
    <3>11. ASSUME NEW u \in Task, Continue(u), ~(u = t /\ Emit(u)) PROVE FALSE
      BY <3>2, <3>3, <3>8, <3>11 DEF Continue, Tested, ConnectAll,
        ConnectAllFails, Add, Announce, Rename, Enable, Enabled, Disable, Rotate,
        Diagnosed, Check, Remove, Emit, GiveUp, Answered, Fail
    <3>. QED BY <1>1, <3>5, <3>6, <3>7, <3>9, <3>10, <3>11 DEF Next
  <2>2. CASE Emit(t)
    <3>1. At(t, "forward", "wait") /\ Ready(task[t].client, task[t].socket)
      BY <2>2 DEF Emit
    <3>2. /\ task[t].socket \in Socket /\ task[t].client \in Client
          /\ SocketOf(task[t].client) = task[t].socket
      BY <2>0, <3>1 DEF Rightly, At
    <3>3. task'[t].socket = task[t].socket /\ task'[t].client = task[t].client
      BY <2>0, <2>2 DEF Emit, Goto, Handler
    <3>. QED BY <1>1, <3>1, <3>2, <3>3, ReadyIsLoggedIn
  <2>3. ASSUME NEW s \in Socket, Forward(t, s)
        PROVE  /\ manager[task'[t].socket].client = task'[t].client
               /\ client[task'[t].client].life = "connected"
               /\ ~client[task'[t].client].acking
    <3>. DEFINE c == manager[s].client
    <3>1. c \in Client /\ SocketOf(c) = s
      BY <1>1, <2>3 DEF Forward, ConnectionInv, Entry, KnowsItsOwn
    <3>. HIDE DEF c
    <3>2. task'[t] = [Begin(t, s, "forward", IF Ready(c, s) THEN "sent" ELSE "wait")
                      EXCEPT !.client = c]
      BY <2>0, <2>3 DEF Forward, c
    <3>3. Ready(c, s) /\ task'[t].socket = s /\ task'[t].client = c
      BY <1>1, <3>2 DEF At, Begin, Idle
    <3>. QED BY <1>1, <3>1, <3>3, ReadyIsLoggedIn
  <2>. QED BY <2>1, <2>2, <2>3
<1>2. IInv /\ Next => SentOverItsLogin
  BY <1>1 DEF SentOverItsLogin
<1>3. IInv /\ [Next]_vars => [SentOverItsLogin]_vars
  BY <1>2
<1>4. ForwardsOverItsLogin <=> [][SentOverItsLogin]_vars
  BY PTL DEF ForwardsOverItsLogin, SentOverItsLogin
<1>. QED BY <1>3, <1>4, Invariance, PTL DEF Spec
=============================================================================
