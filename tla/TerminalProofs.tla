--------------------------- MODULE TerminalProofs ---------------------------
(***************************************************************************)
(* What runs in a Terminal (backend/terminal.ts): consoles and the commands *)
(* of Compose operations.                                                   *)
(*                                                                         *)
(* The console limit for any number of sockets, users, names and sessions: *)
(* the shells that run inject into the names in use, and mainTerminal       *)
(* counts those before it opens another.  And for operations the exactness  *)
(* of terminal names, and what delete may remove.                            *)
(***************************************************************************)
EXTENDS ConsoleSessions, StackOperations, FiniteSetTheorems, TLAPS

WithinLimit == Cardinality(ActiveSessions) <= MaxSessions

IInv == TypeOK /\ NameFindsItsShell /\ WithinLimit /\ RunningIsTimed

-----------------------------------------------------------------------------
\* No name is in use at first.
LEMMA InvInit == Init => IInv
<1> SUFFICES ASSUME Init PROVE IInv
  OBVIOUS
<1>1. TypeOK
  BY DEF Init, TypeOK, Fields, Unused, Life, Reason
<1>2. ActiveSessions = {}
  BY DEF Init, ActiveSessions
<1>3. WithinLimit
  BY <1>2, FS_EmptySet, ConsoleAssumption DEF WithinLimit
<1>4. NameFindsItsShell /\ RunningIsTimed
  BY DEF Init, NameFindsItsShell, RunningIsTimed, Alive, Unused
<1>5. QED
  BY <1>1, <1>3, <1>4 DEF IInv

\* Closing changes only the life, the reason and the timer, and keeps a shell
\* that runs running.
LEMMA ClosedFields ==
  ASSUME NEW f \in Fields, NEW why \in Reason
  PROVE  /\ Closed(f, why) \in Fields
         /\ Closed(f, why).name = f.name
         /\ f.life \in {"running", "closing"} <=>
              Closed(f, why).life \in {"running", "closing"}
         /\ Closed(f, why).life # "running"
BY DEF Closed, Fields, Life

\* The names in use are a finite set.
LEMMA ActiveIsFinite == IsFiniteSet(ActiveSessions) /\ Cardinality(ActiveSessions) \in Nat
<1>1. ActiveSessions \in SUBSET Name
  BY DEF ActiveSessions
<1>2. IsFiniteSet(ActiveSessions)
  BY <1>1, FS_Subset, ConsoleAssumption
<1>3. QED
  BY <1>2, FS_CardinalityType

\* A session whose shell runs.
LiveState == {"running", "closing"}

\* A step that neither opens nor ends a shell keeps the invariant if it leaves
\* every running session timed.
LEMMA SameShells ==
  ASSUME IInv, TypeOK', UNCHANGED terminalMap,
         \A x \in Session :
           /\ session'[x].name = session[x].name
           /\ session'[x].life \in LiveState <=> session[x].life \in LiveState
           /\ session'[x].life = "running" => session'[x].idleTimer
  PROVE  IInv'
<1>1. NameFindsItsShell'
  BY ConsoleAssumption DEF IInv, TypeOK, NameFindsItsShell, Alive, LiveState
<1>2. ActiveSessions' = ActiveSessions
  BY DEF ActiveSessions
<1>3. WithinLimit'
  BY <1>2 DEF IInv, WithinLimit
<1>4. RunningIsTimed'
  BY DEF RunningIsTimed
<1>5. QED
  BY <1>1, <1>3, <1>4 DEF IInv

\* The same for a step that changes one session.
LEMMA OneSession ==
  ASSUME IInv, NEW x \in Session, NEW f \in Fields,
         session' = [session EXCEPT ![x] = f],
         f.name = session[x].name,
         f.life \in LiveState <=> session[x].life \in LiveState,
         f.life = "running" => f.idleTimer,
         UNCHANGED <<terminalMap, connected, userID, audited>>
  PROVE  IInv'
<1>1. TypeOK'
  BY DEF IInv, TypeOK
<1>2. \A y \in Session : session'[y] = IF y = x THEN f ELSE session[y]
  BY DEF IInv, TypeOK
<1>3. QED
  BY <1>1, <1>2, SameShells DEF IInv, RunningIsTimed

\* close() of a session, whatever its state.
LEMMA CloseStep ==
  ASSUME IInv, NEW x \in Session, NEW why \in Reason, Close(x, why),
         UNCHANGED <<terminalMap, connected, userID, audited>>
  PROVE  IInv'
<1> DEFINE f == Closed(session[x], why)
<1>1. session[x] \in Fields
  BY DEF IInv, TypeOK
<1>2. f \in Fields /\ f.name = session[x].name /\ f.life # "running"
      /\ (f.life \in LiveState <=> session[x].life \in LiveState)
  BY <1>1, ClosedFields DEF LiveState
<1>3. session' = [session EXCEPT ![x] = f]
  BY DEF Close
<1>4. QED
  BY <1>2, <1>3, OneSession

\* touch() of a session.
LEMMA TouchStep ==
  ASSUME IInv, NEW x \in Session, Touch(x),
         UNCHANGED <<terminalMap, connected, userID, audited>>
  PROVE  IInv'
<1> DEFINE f == [session[x] EXCEPT !.idleTimer = TRUE]
<1>1. session[x] \in Fields
  BY DEF IInv, TypeOK
<1>2. f \in Fields /\ f.name = session[x].name /\ f.life = session[x].life
      /\ f.idleTimer
  BY <1>1 DEF Fields
<1>3. session' = [session EXCEPT ![x] = f]
  BY DEF Touch
<1>4. QED
  BY <1>2, <1>3, OneSession

\* The listener of a disconnection closes what belongs to the socket.
LEMMA DisconnectStep ==
  ASSUME IInv, NEW s \in Socket, Disconnect(s) PROVE IInv'
<1>1. \A x \in Session :
        /\ session[x] \in Fields
        /\ session'[x] \in {session[x], Closed(session[x], "socket_disconnect")}
  BY DEF Disconnect, IInv, TypeOK
<1>2. "socket_disconnect" \in Reason
  BY DEF Reason
<1>3. \A x \in Session :
        /\ session'[x] \in Fields
        /\ session'[x].name = session[x].name
        /\ session'[x].life \in LiveState <=> session[x].life \in LiveState
        /\ session'[x].life = "running" => session'[x].idleTimer
  <2> SUFFICES ASSUME NEW x \in Session
               PROVE  /\ session'[x] \in Fields
                      /\ session'[x].name = session[x].name
                      /\ session'[x].life \in LiveState <=> session[x].life \in LiveState
                      /\ session'[x].life = "running" => session'[x].idleTimer
    OBVIOUS
  <2>1. CASE session'[x] = session[x]
    BY <1>1, <2>1 DEF IInv, RunningIsTimed
  <2>2. CASE session'[x] = Closed(session[x], "socket_disconnect")
    BY <1>1, <1>2, <2>2, ClosedFields DEF LiveState
  <2>3. QED
    BY <1>1, <2>1, <2>2
<1>4. session' \in [Session -> Fields]
  BY <1>3 DEF Disconnect
<1>5. TypeOK'
  BY <1>4 DEF Disconnect, IInv, TypeOK
<1>6. QED
  BY <1>3, <1>5, SameShells DEF Disconnect

\* Opening takes a free name while fewer than the limit are taken.
LEMMA OpenStep ==
  ASSUME IInv, NEW s \in Socket, NEW n \in Name, NEW x \in Session, Open(s, n, x)
  PROVE  IInv'
<1> DEFINE f == [Unused EXCEPT !.name = n, !.socket = s, !.user = userID[s],
                   !.life = "running", !.idleTimer = TRUE, !.opening = TRUE]
<1>1. f \in Fields /\ f.name = n /\ f.life = "running" /\ f.idleTimer
  BY DEF Unused, Fields, Life, Reason, Open, LoggedIn, IInv, TypeOK
<1>2. session' = [session EXCEPT ![x] = f]
      /\ terminalMap' = [terminalMap EXCEPT ![n] = x]
  BY DEF Open
<1>3. TypeOK'
  BY <1>1, <1>2 DEF Open, IInv, TypeOK
<1>4. \A y \in Session : session'[y] = IF y = x THEN f ELSE session[y]
  BY <1>2 DEF IInv, TypeOK
<1>5. \A m \in Name : terminalMap'[m] = IF m = n THEN x ELSE terminalMap[m]
  BY <1>2 DEF IInv, TypeOK
<1>6. terminalMap[n] = None /\ session[x].life = "unused"
  BY DEF Open
<1>7. NameFindsItsShell'
  <2>1. \A y \in Session : session[y].life \in LiveState =>
          session[y].name \in Name /\ terminalMap[session[y].name] = y
    BY DEF IInv, NameFindsItsShell, Alive, LiveState
  <2>2. \A m \in Name : terminalMap[m] # None =>
          /\ terminalMap[m] \in Session
          /\ session[terminalMap[m]].life \in LiveState
          /\ session[terminalMap[m]].name = m
    BY DEF IInv, NameFindsItsShell, Alive, LiveState, TypeOK
  <2>3. \A y \in Session : y # None
    BY ConsoleAssumption
  <2>4. ASSUME NEW y \in Session, session'[y].life \in LiveState
        PROVE  session'[y].name \in Name /\ terminalMap'[session'[y].name] = y
    <3>1. CASE y = x
      BY <1>1, <1>4, <1>5, <1>6, <2>4, <3>1 DEF LiveState
    <3>2. CASE y # x
      <4>1. session'[y] = session[y]
        BY <1>4, <3>2
      <4>2. session[y].name \in Name /\ terminalMap[session[y].name] = y
        BY <2>1, <2>4, <4>1
      <4>3. session[y].name # n
        BY <1>6, <2>3, <3>2, <4>2
      <4>4. QED
        BY <1>5, <4>1, <4>2, <4>3
    <3>3. QED
      BY <3>1, <3>2
  <2>5. ASSUME NEW m \in Name, terminalMap'[m] # None
        PROVE  /\ session'[terminalMap'[m]].life \in LiveState
               /\ session'[terminalMap'[m]].name = m
    <3>1. CASE m = n
      BY <1>1, <1>4, <1>5, <1>6, <2>5, <3>1 DEF LiveState
    <3>2. CASE m # n
      <4>1. terminalMap'[m] = terminalMap[m] /\ terminalMap[m] # None
        BY <1>5, <2>5, <3>2
      <4>2. terminalMap[m] # x
        BY <1>6, <2>2, <3>2, <4>1 DEF LiveState
      <4>3. QED
        BY <1>4, <2>2, <4>1, <4>2
    <3>3. QED
      BY <3>1, <3>2
  <2>6. QED
    BY <2>4, <2>5 DEF NameFindsItsShell, Alive, LiveState
<1>8. ActiveSessions' = ActiveSessions \union {n} /\ n \notin ActiveSessions
  BY <1>5, <1>6, ConsoleAssumption DEF ActiveSessions
<1>9. Cardinality(ActiveSessions') = Cardinality(ActiveSessions) + 1
  BY <1>8, ActiveIsFinite, FS_AddElement
<1>10. WithinLimit'
  BY <1>9, ActiveIsFinite, ConsoleAssumption DEF WithinLimit, Open
<1>11. RunningIsTimed'
  BY <1>1, <1>4 DEF IInv, RunningIsTimed
<1>12. QED
  BY <1>3, <1>7, <1>10, <1>11 DEF IInv

\* The exit of a shell gives its name, and no other, back.
LEMMA ExitStep ==
  ASSUME IInv, NEW x \in Session, ProcessExit(x) PROVE IInv'
<1> DEFINE f == [session[x] EXCEPT !.life = "closed"]
           n == session[x].name
<1>1. session[x] \in Fields
  BY DEF IInv, TypeOK
<1>2. f \in Fields /\ f.name = n /\ f.life = "closed"
  BY <1>1 DEF Fields, Life
<1>3. terminalMap[n] = x /\ n \in Name
  BY <1>1, ConsoleAssumption
     DEF ProcessExit, IInv, NameFindsItsShell, TypeOK, Fields
<1>4. session' = [session EXCEPT ![x] = f]
      /\ terminalMap' = [terminalMap EXCEPT ![n] = None]
  BY DEF ProcessExit
<1>5. TypeOK'
  BY <1>2, <1>3, <1>4 DEF ProcessExit, IInv, TypeOK
<1>6. \A y \in Session : session'[y] = IF y = x THEN f ELSE session[y]
  BY <1>4 DEF IInv, TypeOK
<1>7. \A m \in Name : terminalMap'[m] = IF m = n THEN None ELSE terminalMap[m]
  BY <1>4 DEF IInv, TypeOK
<1>8. NameFindsItsShell'
  <2>1. \A y \in Session : session[y].life \in LiveState =>
          session[y].name \in Name /\ terminalMap[session[y].name] = y
    BY DEF IInv, NameFindsItsShell, Alive, LiveState
  <2>2. \A m \in Name : terminalMap[m] # None =>
          /\ terminalMap[m] \in Session
          /\ session[terminalMap[m]].life \in LiveState
          /\ session[terminalMap[m]].name = m
    BY DEF IInv, NameFindsItsShell, Alive, LiveState, TypeOK
  <2>3. \A y \in Session : y # None
    BY ConsoleAssumption
  <2>4. ASSUME NEW y \in Session, session'[y].life \in LiveState
        PROVE  session'[y].name \in Name /\ terminalMap'[session'[y].name] = y
    <3>1. CASE y = x
      BY <1>2, <1>3, <1>6, <1>7, <2>4, <3>1 DEF LiveState
    <3>2. CASE y # x
      <4>1. session'[y] = session[y]
        BY <1>6, <3>2
      <4>2. session[y].name \in Name /\ terminalMap[session[y].name] = y
        BY <2>1, <2>4, <4>1
      <4>3. session[y].name # n
        BY <1>3, <2>3, <3>2, <4>2
      <4>4. QED
        BY <1>7, <4>1, <4>2, <4>3
    <3>3. QED
      BY <3>1, <3>2
  <2>5. ASSUME NEW m \in Name, terminalMap'[m] # None
        PROVE  /\ session'[terminalMap'[m]].life \in LiveState
               /\ session'[terminalMap'[m]].name = m
    <3>1. CASE m = n
      BY <1>2, <1>3, <1>6, <1>7, <2>5, <3>1 DEF LiveState
    <3>2. CASE m # n
      <4>1. terminalMap'[m] = terminalMap[m] /\ terminalMap[m] # None
        BY <1>7, <2>5, <3>2
      <4>2. terminalMap[m] # x
        BY <1>3, <2>2, <3>2, <4>1 DEF LiveState
      <4>3. QED
        BY <1>6, <2>2, <4>1, <4>2
    <3>3. QED
      BY <3>1, <3>2
  <2>6. QED
    BY <2>4, <2>5 DEF NameFindsItsShell, Alive, LiveState
<1>9. ActiveSessions' \in SUBSET ActiveSessions
  BY <1>7 DEF ActiveSessions
<1>10. WithinLimit'
  <2>1. Cardinality(ActiveSessions') <= Cardinality(ActiveSessions)
        /\ IsFiniteSet(ActiveSessions')
    BY <1>9, ActiveIsFinite, FS_Subset
  <2>2. Cardinality(ActiveSessions') \in Nat
    BY <2>1, FS_CardinalityType
  <2>3. QED
    BY <2>1, <2>2, ActiveIsFinite, ConsoleAssumption DEF IInv, WithinLimit
<1>11. RunningIsTimed'
  BY <1>2, <1>6 DEF IInv, RunningIsTimed
<1>12. QED
  BY <1>5, <1>8, <1>10, <1>11 DEF IInv

\* Every step keeps the invariant.
LEMMA InvStep == IInv /\ [Next]_vars => IInv'
<1> SUFFICES ASSUME IInv, [Next]_vars PROVE IInv'
  OBVIOUS
<1>1. ASSUME NEW s \in Socket, NEW u \in User, Login(s, u) PROVE IInv'
  <2>1. TypeOK'
    BY <1>1 DEF Login, IInv, TypeOK
  <2>2. QED
    BY <1>1, <2>1, SameShells DEF Login, IInv, RunningIsTimed
<1>2. ASSUME NEW s \in Socket, Disconnect(s) PROVE IInv'
  BY <1>2, DisconnectStep
<1>3. ASSUME NEW s \in Socket, NEW n \in Name, NEW x \in Session, Open(s, n, x)
      PROVE  IInv'
  BY <1>3, OpenStep
<1>4. ASSUME NEW s \in Socket, NEW n \in Name, NEW x \in Session, OpenFails(s, n, x)
      PROVE  IInv'
  <2> DEFINE f == [session[x] EXCEPT !.life = "closed"]
  <2>1. session[x] \in Fields /\ session[x].life = "unused"
    BY <1>4 DEF IInv, TypeOK, OpenFails
  <2>2. f \in Fields /\ f.name = session[x].name /\ f.life = "closed"
    BY <2>1 DEF Fields, Life
  <2>3. session' = [session EXCEPT ![x] = f]
    BY <1>4 DEF OpenFails
  <2>4. QED
    BY <1>4, <2>1, <2>2, <2>3, OneSession DEF OpenFails, LiveState
<1>5. ASSUME NEW s \in Socket, NEW n \in Name, Use(s, n) PROVE IInv'
  <2>1. terminalMap[n] \in Session
    BY <1>5 DEF Use, IInv, TypeOK
  <2>2. QED
    BY <1>5, <2>1, TouchStep DEF Use
<1>6. ASSUME NEW s \in Socket, NEW n \in Name, CloseMainTerminal(s, n) PROVE IInv'
  <2>1. terminalMap[n] \in Session /\ "client_close" \in Reason
    BY <1>6 DEF CloseMainTerminal, IInv, TypeOK, Reason
  <2>2. QED
    BY <1>6, <2>1, CloseStep DEF CloseMainTerminal
<1>7. ASSUME NEW x \in Session, Opened(x) PROVE IInv'
  <2> DEFINE f == [session[x] EXCEPT !.opening = FALSE, !.listening = TRUE]
  <2>1. session[x] \in Fields
    BY DEF IInv, TypeOK
  <2>2. f \in Fields /\ f.name = session[x].name /\ f.life = session[x].life
        /\ f.idleTimer = session[x].idleTimer
    BY <2>1 DEF Fields
  <2>3. session' = [session EXCEPT ![x] = f]
    BY <1>7, <2>1 DEF Opened, IInv, TypeOK
  <2>4. QED
    BY <1>7, <2>2, <2>3, OneSession DEF Opened, IInv, RunningIsTimed
<1>8. ASSUME NEW x \in Session, ProcessData(x) PROVE IInv'
  BY <1>8, TouchStep DEF ProcessData
<1>9. ASSUME NEW x \in Session, IdleTimeout(x) PROVE IInv'
  <2>1. "idle_timeout" \in Reason
    BY DEF Reason
  <2>2. QED
    BY <1>9, <2>1, CloseStep DEF IdleTimeout
<1>10. ASSUME NEW x \in Session, ProcessExit(x) PROVE IInv'
  BY <1>10, ExitStep
<1>11. CASE UNCHANGED vars
  <2>1. TypeOK'
    BY <1>11 DEF IInv, TypeOK, vars
  <2>2. QED
    BY <1>11, <2>1, SameShells DEF vars, IInv, RunningIsTimed
<1>12. QED
  BY <1>1, <1>2, <1>3, <1>4, <1>5, <1>6, <1>7, <1>8, <1>9, <1>10, <1>11 DEF Next

\* The invariant holds in every reachable state.
LEMMA InvInvariant == Spec => []IInv
<1>1. QED
  BY InvInit, InvStep, PTL DEF Spec

-----------------------------------------------------------------------------
\* Each running shell has its own name in use, so there are no more of them.
LEMMA ShellsAreNames == IInv => ShellsWithinLimit
<1> SUFFICES ASSUME IInv PROVE ShellsWithinLimit
  OBVIOUS
<1> DEFINE Shells == {x \in Session : Alive(x)}
           nameOf == [x \in Shells |-> session[x].name]
<1>1. \A x \in Shells : session[x].name \in Name /\ terminalMap[session[x].name] = x
  BY ConsoleAssumption DEF IInv, TypeOK, Fields, NameFindsItsShell, Alive
<1>2. \A x \in Shells : session[x].name \in ActiveSessions
  BY <1>1, ConsoleAssumption DEF ActiveSessions
<1>3. nameOf \in [Shells -> ActiveSessions]
  BY <1>2
<1>4. \A x, y \in Shells : nameOf[x] = nameOf[y] => x = y
  BY <1>1
<1>5. nameOf \in Injection(Shells, ActiveSessions)
  BY <1>3, <1>4 DEF Injection, IsInjective
<1>6. Cardinality(Shells) <= Cardinality(ActiveSessions) /\ IsFiniteSet(Shells)
  BY <1>5, ActiveIsFinite, FS_Injection
<1>7. Cardinality(Shells) \in Nat
  BY <1>6, FS_CardinalityType
<1>8. QED
  BY <1>6, <1>7, ActiveIsFinite, ConsoleAssumption
     DEF IInv, WithinLimit, ShellsWithinLimit

\* Whatever opens, closes, times out or disconnects, no more shells run than
\* the limit allows: the count of names that mainTerminal makes is enough.
THEOREM ConsoleLimit == Spec => []ShellsWithinLimit
<1>1. QED
  BY InvInvariant, ShellsAreNames, PTL

\* A shell that runs is the one its name finds, for every reuse of a name.
THEOREM NamesAreExact == Spec => []NameFindsItsShell
<1>1. IInv => NameFindsItsShell
  BY DEF IInv
<1>2. QED
  BY <1>1, InvInvariant, PTL

\* No running session is ever without an idle timer.
THEOREM AlwaysTimed == Spec => []RunningIsTimed
<1>1. IInv => RunningIsTimed
  BY DEF IInv
<1>2. QED
  BY <1>1, InvInvariant, PTL

-----------------------------------------------------------------------------
(* The progress terminals: StackOperations, for any number of requests and   *)
(* endpoints.                                                                *)

\* A request that believes it has been alone is.
AloneIsAlone == \A r \in Request : request[r].alone => Alone(r)

\* delete only ever runs down, and a status is only read after a pull.
CommandFits ==
  \A r \in Request :
    /\ request[r].op = "delete" => request[r].command = "down"
    /\ At(r, "status") => request[r].command = "pull"

DownIsDone ==
  \A r \in Request :
    At(r, "removing") /\ request[r].alone => containers = "none"

StackInv ==
  StackTypeOK /\ TerminalIsHeld /\ AloneIsAlone /\ CommandFits /\ DownIsDone

-----------------------------------------------------------------------------
\* The table of operations: each starts with a command, delete with down.
LEMMA CommandTable ==
  /\ \A op \in Op : Command[op] \in Commands
  /\ Command["delete"] = "down"
  /\ "delete" \in Op /\ "down" \in Op
  /\ Idle \in RequestFields
  /\ Idle.phase = "idle" /\ ~Idle.alone /\ Idle.op # "delete"
BY DEF Command, Op, Commands, Idle, RequestFields, Phase

\* What every step of a request keeps of the other requests, and of its own
\* endpoint and loneliness while it is in flight.
Kept(r) ==
  /\ \A q \in Request \ {r} : request'[q] = request[q]
  /\ request'[r] \in RequestFields
  /\ \/ request'[r] = Idle
     \/ /\ request'[r].endpoint = request[r].endpoint
        /\ request'[r].alone = request[r].alone
        /\ request'[r].op = request[r].op

LEMMA MoveToEffect ==
  ASSUME StackTypeOK, NEW r \in Request, NEW phase \in Phase, MoveTo(r, phase)
  PROVE  /\ request' \in [Request -> RequestFields]
         /\ Kept(r)
         /\ request'[r].phase = phase
         /\ request'[r].endpoint = request[r].endpoint
         /\ request'[r].alone = request[r].alone
         /\ request'[r].op = request[r].op
         /\ request'[r].command = request[r].command
BY DEF StackTypeOK, MoveTo, Kept, RequestFields

LEMMA SettleEffect ==
  ASSUME StackTypeOK, NEW r \in Request, InFlight(r), Settle(r)
  PROVE  /\ request' \in [Request -> RequestFields]
         /\ Kept(r)
         /\ request'[r].phase \in {"idle", "logging"}
         /\ request'[r] # Idle => /\ request'[r].command = request[r].command
                                  /\ request'[r].op = request[r].op
<1>1. CASE request[r].op \in Logged
  BY <1>1, MoveToEffect DEF Settle, Phase, Kept
<1>2. CASE request[r].op \notin Logged
  <2>1. request' = [request EXCEPT ![r] = Idle]
    BY <1>2 DEF Settle
  <2>2. request'[r] = Idle /\ request' \in [Request -> RequestFields]
    BY <2>1, CommandTable DEF StackTypeOK
  <2>. QED BY <2>1, <2>2, CommandTable DEF Kept, StackTypeOK
<1>. QED BY <1>1, <1>2

-----------------------------------------------------------------------------
\* Facts about one step of one request, from which the invariant follows.
LEMMA InitInv == StackInit => StackInv
BY CommandTable, StackAssumption DEF StackInit, StackInv, StackTypeOK, TerminalIsHeld,
  AloneIsAlone, CommandFits, DownIsDone, At, InFlight, ContainerState

\* Where a request keeps its terminal, names stay exact.
LEMMA HeldKept ==
  ASSUME StackInv, NEW r \in Request, Kept(r), UNCHANGED progressTerminals,
         ~At(r, "command"), request'[r].phase # "command"
  PROVE  TerminalIsHeld'
BY DEF StackInv, TerminalIsHeld, Kept, At

LEMMA TypeKept ==
  ASSUME StackInv, NEW r \in Request, InFlight(r), Kept(r),
         request' \in [Request -> RequestFields]
  PROVE  \A q \in Request : InFlight(q)' => request'[q].endpoint # Vacant
BY CommandTable DEF StackInv, StackTypeOK, Kept, InFlight, At

LEMMA AloneKept ==
  ASSUME StackInv, NEW r \in Request, InFlight(r), Kept(r)
  PROVE  AloneIsAlone'
<1>. SUFFICES ASSUME NEW p \in Request, request'[p].alone, NEW q \in Request \ {p}
     PROVE  request'[q].phase = "idle"
  BY DEF AloneIsAlone, Alone, At
<1>1. CASE p = r
  BY <1>1, CommandTable DEF StackInv, AloneIsAlone, Alone, At, Kept
<1>2. CASE p # r
  BY <1>2 DEF StackInv, AloneIsAlone, Alone, At, Kept, InFlight
<1>. QED BY <1>1, <1>2

LEMMA FitsKept ==
  ASSUME StackInv, NEW r \in Request, Kept(r),
         request'[r].op = "delete" => request'[r].command = "down",
         request'[r].phase = "status" => request'[r].command = "pull"
  PROVE  CommandFits'
BY DEF StackInv, CommandFits, Kept, At

\* Containers may change for a request in flight: no other request is alone.
LEMMA DownKept ==
  ASSUME StackInv, NEW r \in Request, InFlight(r), Kept(r),
         request'[r].phase = "removing" /\ request'[r].alone => containers' = "none"
  PROVE  DownIsDone'
<1>. SUFFICES ASSUME NEW q \in Request, request'[q].phase = "removing",
                     request'[q].alone
     PROVE  containers' = "none"
  BY DEF DownIsDone, At
<1>1. CASE q = r
  BY <1>1
<1>2. CASE q # r
  BY <1>2 DEF StackInv, AloneIsAlone, Alone, At, Kept, InFlight
<1>. QED BY <1>1, <1>2

\* A step of a request that neither begins nor ends a command, nor comes to
\* removing the directory.
LEMMA QuietStep ==
  ASSUME StackInv, NEW r \in Request, InFlight(r), ~At(r, "command"),
         Kept(r), request' \in [Request -> RequestFields],
         request'[r].phase \notin {"command", "removing"},
         request'[r].op = "delete" => request'[r].command = "down",
         request'[r].phase = "status" => request'[r].command = "pull",
         UNCHANGED <<containers, progressTerminals>>, directory' \in BOOLEAN
  PROVE  StackInv'
<1>1. StackTypeOK'
  BY TypeKept DEF StackInv, StackTypeOK
<1>2. TerminalIsHeld'
  BY HeldKept
<1>. QED BY <1>1, <1>2, AloneKept, FitsKept, DownKept DEF StackInv

LEMMA SettledStep ==
  ASSUME StackInv, NEW r \in Request, InFlight(r), ~At(r, "command"), Settle(r),
         UNCHANGED <<containers, progressTerminals>>, directory' \in BOOLEAN
  PROVE  StackInv'
<1>1. StackTypeOK
  BY DEF StackInv
<1>2. request'[r].op = "delete" => request'[r].command = "down"
  BY <1>1, SettleEffect, CommandTable DEF StackInv, CommandFits
<1>. QED BY <1>1, <1>2, SettleEffect, QuietStep

-----------------------------------------------------------------------------
\* The steps that use the terminal.
LEMMA ExecuteStep ==
  ASSUME StackInv, NEW r \in Request, Execute(r)
  PROVE  StackInv'
<1>1. /\ StackTypeOK /\ InFlight(r) /\ MoveTo(r, "command")
      /\ UNCHANGED <<directory, containers>>
  BY DEF StackInv, Execute, InFlight, At
<1>2. /\ request' \in [Request -> RequestFields] /\ Kept(r)
      /\ request'[r].phase = "command"
      /\ request'[r].endpoint = request[r].endpoint
      /\ request'[r].op = request[r].op
      /\ request'[r].command = request[r].command
  BY <1>1, MoveToEffect DEF Phase
<1>3. request[r].endpoint \in Endpoint
  BY <1>1, CommandTable DEF StackTypeOK, RequestFields, InFlight, At
<1>4. /\ progressTerminals' = [progressTerminals EXCEPT ![request[r].endpoint] = r]
      /\ progressTerminals[request[r].endpoint] = Vacant
  BY DEF Execute
<1>5. StackTypeOK'
  BY <1>1, <1>2, <1>3, <1>4, TypeKept DEF StackTypeOK
<1>6. TerminalIsHeld'
  <2>. SUFFICES ASSUME NEW e \in Endpoint, NEW q \in Request
       PROVE  progressTerminals'[e] = q
                <=> request'[q].phase = "command" /\ request'[q].endpoint = e
    BY DEF TerminalIsHeld, At
  <2>0. progressTerminals[e] = q
          <=> request[q].phase = "command" /\ request[q].endpoint = e
    BY DEF StackInv, TerminalIsHeld, At
  <2>00. progressTerminals[e] = r
          <=> request[r].phase = "command" /\ request[r].endpoint = e
    BY DEF StackInv, TerminalIsHeld, At
  <2>1. CASE q = r
    <3>1. request[r].phase # "command"
      BY DEF Execute, At
    <3>. QED BY <2>1, <2>00, <3>1, <1>1, <1>2, <1>3, <1>4 DEF StackTypeOK
  <2>2. CASE q # r
    <3>1. request'[q] = request[q]
      BY <2>2, <1>2 DEF Kept
    <3>2. CASE e = request[r].endpoint
      <4>1. progressTerminals'[e] = r /\ progressTerminals[e] = Vacant
        BY <3>2, <1>1, <1>3, <1>4 DEF StackTypeOK
      <4>2. progressTerminals[e] # q
        BY <4>1, StackAssumption
      <4>. QED BY <4>1, <4>2, <2>0, <2>2, <3>1
    <3>3. CASE e # request[r].endpoint
      BY <3>1, <3>3, <2>0, <1>1, <1>4 DEF StackTypeOK
    <3>. QED BY <3>2, <3>3
  <2>. QED BY <2>1, <2>2
<1>7. request'[r].op = "delete" => request'[r].command = "down"
  BY <1>2 DEF StackInv, CommandFits
<1>. QED BY <1>1, <1>2, <1>5, <1>6, <1>7, AloneKept, FitsKept, DownKept DEF StackInv

\* The end of a command gives its name back, and nobody else's.
LEMMA ReleasedHeld ==
  ASSUME StackInv, NEW r \in Request, At(r, "command"), Released(r), Kept(r),
         request'[r].phase # "command"
  PROVE  /\ progressTerminals' \in [Endpoint -> Request \union {Vacant}]
         /\ TerminalIsHeld'
<1>1. request[r].endpoint \in Endpoint /\ progressTerminals[request[r].endpoint] = r
  BY CommandTable DEF StackInv, StackTypeOK, RequestFields, TerminalIsHeld, At, InFlight
<1>2. progressTerminals' = [progressTerminals EXCEPT ![request[r].endpoint] = Vacant]
  BY DEF Released
<1>3. progressTerminals' \in [Endpoint -> Request \union {Vacant}]
  BY <1>2 DEF StackInv, StackTypeOK
<1>4. ASSUME NEW e \in Endpoint, NEW q \in Request
      PROVE  progressTerminals'[e] = q
               <=> request'[q].phase = "command" /\ request'[q].endpoint = e
  <2>0. progressTerminals[e] = q
          <=> request[q].phase = "command" /\ request[q].endpoint = e
    BY DEF StackInv, TerminalIsHeld, At
  <2>1. CASE e = request[r].endpoint
    <3>1. progressTerminals'[e] = Vacant /\ progressTerminals'[e] # q
      BY <2>1, <1>2, StackAssumption DEF StackInv, StackTypeOK
    <3>2. CASE q = r
      BY <3>1, <3>2
    <3>3. CASE q # r
      <4>1. progressTerminals[e] # q
        BY <2>1, <1>1, <3>3
      <4>. QED BY <3>1, <3>3, <4>1, <2>0 DEF Kept
    <3>. QED BY <3>2, <3>3
  <2>2. CASE e # request[r].endpoint
    <3>1. progressTerminals'[e] = progressTerminals[e]
      BY <2>2, <1>2 DEF StackInv, StackTypeOK
    <3>2. CASE q = r
      BY <3>1, <3>2, <2>2, <2>0
    <3>3. CASE q # r
      BY <3>1, <3>3, <2>0 DEF Kept
    <3>. QED BY <3>2, <3>3
  <2>. QED BY <2>1, <2>2
<1>. QED BY <1>3, <1>4 DEF TerminalIsHeld, At

\* What Done and Halfway leave is a state containers can be in.
LEMMA CommandEffect ==
  ASSUME StackTypeOK, NEW r \in Request
  PROVE  /\ Done(request[r].command) \in ContainerState
         /\ request[r].command = "down" => Done(request[r].command) = "none"
         /\ \A c \in Halfway(request[r].command) : c \in ContainerState
<1>1. request[r].command \in Commands /\ containers \in ContainerState
  BY CommandTable DEF StackTypeOK, RequestFields
<1>. QED BY <1>1 DEF Done, Halfway, Commands, ContainerState

LEMMA CommandExits ==
  ASSUME StackInv, NEW r \in Request, At(r, "command"), Released(r), Kept(r),
         request' \in [Request -> RequestFields], UNCHANGED directory,
         containers' \in ContainerState,
         request'[r].phase # "command",
         request'[r].op = "delete" => request'[r].command = "down",
         request'[r].phase = "status" => request'[r].command = "pull",
         request'[r].phase = "removing" => containers' = "none"
  PROVE  StackInv'
<1>1. InFlight(r)
  BY DEF InFlight, At
<1>2. TerminalIsHeld' /\ progressTerminals' \in [Endpoint -> Request \union {Vacant}]
  BY ReleasedHeld
<1>3. StackTypeOK'
  BY <1>1, <1>2, TypeKept DEF StackInv, StackTypeOK
<1>. QED BY <1>1, <1>2, <1>3, AloneKept, FitsKept, DownKept DEF StackInv

LEMMA ExitsInv ==
  ASSUME StackInv, NEW r \in Request, Exits(r)
  PROVE  StackInv'
<1>1. /\ StackTypeOK /\ At(r, "command") /\ InFlight(r) /\ Released(r)
      /\ containers' = Done(request[r].command) /\ UNCHANGED directory
  BY DEF StackInv, Exits, InFlight, At
<1>2. request[r].op = "delete" => request[r].command = "down"
  BY DEF StackInv, CommandFits
<1>3. CASE request[r].command = "pull"
  <2>1. MoveTo(r, "status")
    BY <1>3 DEF Exits
  <2>. QED BY <2>1, <1>1, <1>2, <1>3, MoveToEffect, CommandEffect, CommandExits DEF Phase
<1>4. CASE request[r].command # "pull" /\ request[r].op = "delete" /\ ~request[r].elsewhere
  <2>1. MoveTo(r, "removing")
    BY <1>4 DEF Exits
  <2>. QED BY <2>1, <1>1, <1>2, <1>4, MoveToEffect, CommandEffect, CommandExits DEF Phase
<1>5. CASE request[r].command # "pull" /\ ~(request[r].op = "delete" /\ ~request[r].elsewhere)
  <2>1. Settle(r)
    BY <1>5 DEF Exits
  <2>. QED BY <2>1, <1>1, <1>2, SettleEffect, CommandTable, CommandEffect, CommandExits
<1>. QED BY <1>3, <1>4, <1>5

LEMMA ExitsInErrorInv ==
  ASSUME StackInv, NEW r \in Request, ExitsInError(r)
  PROVE  StackInv'
<1>1. /\ StackTypeOK /\ At(r, "command") /\ InFlight(r) /\ Released(r) /\ Settle(r)
      /\ containers' \in Halfway(request[r].command) /\ UNCHANGED directory
  BY DEF StackInv, ExitsInError, InFlight, At
<1>2. request[r].op = "delete" => request[r].command = "down"
  BY DEF StackInv, CommandFits
<1>. QED BY <1>1, <1>2, SettleEffect, CommandTable, CommandEffect, CommandExits

LEMMA ArriveInv ==
  ASSUME StackInv, NEW r \in Request, NEW op \in Op, NEW e \in Endpoint,
         Arrive(r, op, e)
  PROVE  StackInv'
<1>1. /\ StackTypeOK /\ request[r].phase = "idle"
      /\ UNCHANGED <<directory, containers, progressTerminals>>
  BY DEF StackInv, Arrive, At
<1>2. ASSUME NEW q \in Request, q # r
      PROVE  /\ request'[q] = [request[q] EXCEPT !.alone = FALSE]
             /\ request'[q] \in RequestFields
             /\ request'[q].phase = request[q].phase
             /\ request'[q].op = request[q].op
             /\ request'[q].command = request[q].command
             /\ request'[q].endpoint = request[q].endpoint
             /\ ~request'[q].alone
  <2>1. request'[q] = [request[q] EXCEPT !.alone = FALSE]
    BY <1>2 DEF Arrive
  <2>2. request[q] \in RequestFields
    BY <1>1 DEF StackTypeOK
  <2>. QED BY <2>1, <2>2 DEF RequestFields
<1>3. /\ request'[r] \in RequestFields /\ request'[r].phase = "lookup"
      /\ request'[r].op = op /\ request'[r].command = Command[op]
      /\ request'[r].endpoint = e /\ request'[r].alone = Alone(r)
  <2>1. request'[r] = [phase |-> "lookup", op |-> op, endpoint |-> e,
             command |-> Command[op], elsewhere |-> FALSE, alone |-> Alone(r)]
    BY DEF Arrive
  <2>. QED BY <2>1, CommandTable DEF RequestFields, Phase, Alone
<1>4. request' \in [Request -> RequestFields]
  BY <1>2, <1>3 DEF Arrive
<1>5. StackTypeOK'
  <2>1. e # Vacant
    BY StackAssumption
  <2>. QED BY <1>1, <1>2, <1>3, <1>4, <2>1 DEF StackTypeOK, InFlight, At
<1>6. TerminalIsHeld'
  <2>1. ASSUME NEW d \in Endpoint, NEW q \in Request
        PROVE  progressTerminals'[d] = q
                 <=> request'[q].phase = "command" /\ request'[q].endpoint = d
    <3>0. progressTerminals[d] = q
            <=> request[q].phase = "command" /\ request[q].endpoint = d
      BY DEF StackInv, TerminalIsHeld, At
    <3>1. CASE q = r
      BY <3>0, <3>1, <1>1, <1>3
    <3>2. CASE q # r
      BY <3>0, <3>2, <1>1, <1>2
    <3>. QED BY <3>1, <3>2
  <2>. QED BY <2>1 DEF TerminalIsHeld, At
<1>7. AloneIsAlone'
  BY <1>2, <1>3 DEF AloneIsAlone, Alone, At
<1>8. CommandFits'
  <2>1. ASSUME NEW q \in Request
        PROVE  /\ request'[q].op = "delete" => request'[q].command = "down"
               /\ request'[q].phase = "status" => request'[q].command = "pull"
    <3>1. CASE q = r
      BY <3>1, <1>3, CommandTable
    <3>2. CASE q # r
      BY <3>2, <1>2 DEF StackInv, CommandFits, At
    <3>. QED BY <3>1, <3>2
  <2>. QED BY <2>1 DEF CommandFits, At
<1>9. DownIsDone'
  BY <1>2, <1>3 DEF DownIsDone, At
<1>. QED BY <1>5, <1>6, <1>7, <1>8, <1>9 DEF StackInv

LEMMA ContainersChangeInv == StackInv /\ ContainersChange => StackInv'
BY DEF StackInv, ContainersChange, StackTypeOK, ContainerState, TerminalIsHeld,
  AloneIsAlone, Alone, CommandFits, DownIsDone, At, InFlight

-----------------------------------------------------------------------------
\* One case for every action.
LEMMA StepInv ==
  ASSUME StackInv, NEW r \in Request, Step(r)
  PROVE  StackInv'
<1>. StackTypeOK
  BY DEF StackInv
<1>1. CASE SaveSource(r)
  <2>1. MoveTo(r, "ready") /\ InFlight(r) /\ ~At(r, "command") /\ request[r].op = "deploy"
    BY <1>1 DEF SaveSource, InFlight, At
  <2>2. UNCHANGED <<containers, progressTerminals>> /\ directory' \in BOOLEAN
    BY <1>1 DEF SaveSource
  <2>. QED BY <2>1, <2>2, MoveToEffect, QuietStep DEF Phase
<1>2. CASE GetStack(r)
  <2>1. PICK elsewhere \in BOOLEAN :
          request' = [request EXCEPT ![r].phase = "ready",
                                     ![r].elsewhere = elsewhere]
    BY <1>2 DEF GetStack
  <2>2. /\ InFlight(r) /\ ~At(r, "command")
        /\ UNCHANGED <<containers, progressTerminals>> /\ directory' \in BOOLEAN
    BY <1>2 DEF GetStack, InFlight, At, StackTypeOK
  <2>3. /\ request' \in [Request -> RequestFields] /\ Kept(r)
        /\ request'[r].phase = "ready" /\ request'[r].op = request[r].op
        /\ request'[r].command = request[r].command
    BY <2>1 DEF StackTypeOK, RequestFields, Phase, Kept
  <2>4. request[r].op = "delete" => request[r].command = "down"
    BY DEF StackInv, CommandFits
  <2>. QED BY <2>2, <2>3, <2>4, QuietStep
<1>3. CASE LookupFails(r)
  BY <1>3, SettledStep DEF LookupFails, InFlight, At, StackTypeOK
<1>4. CASE Execute(r)
  BY <1>4, ExecuteStep
<1>5. CASE Refuse(r)
  BY <1>5, SettledStep DEF Refuse, InFlight, At, StackTypeOK
<1>6. CASE Exits(r)
  BY <1>6, ExitsInv
<1>7. CASE ExitsInError(r)
  BY <1>7, ExitsInErrorInv
<1>8. CASE UpdateStatus(r)
  <2>1. /\ InFlight(r) /\ ~At(r, "command") /\ At(r, "status")
        /\ UNCHANGED <<containers, progressTerminals>> /\ directory' \in BOOLEAN
    BY <1>8 DEF UpdateStatus, InFlight, At, StackTypeOK
  <2>2. CASE Settle(r)
    BY <2>1, <2>2, SettledStep
  <2>3. CASE request' = [request EXCEPT ![r].phase = "ready", ![r].command = "up"]
    <3>1. /\ request' \in [Request -> RequestFields] /\ Kept(r)
          /\ request'[r].phase = "ready" /\ request'[r].op = request[r].op
      BY <2>3 DEF StackTypeOK, RequestFields, Phase, Commands, Kept
    <3>2. request[r].op # "delete"
      BY <2>1 DEF StackInv, CommandFits
    <3>. QED BY <2>1, <3>1, <3>2, QuietStep
  <2>. QED BY <1>8, <2>2, <2>3 DEF UpdateStatus
<1>9. CASE RemoveDirectory(r)
  BY <1>9, SettledStep DEF RemoveDirectory, InFlight, At
<1>10. CASE RemoveFails(r)
  BY <1>10, SettledStep DEF RemoveFails, InFlight, At, StackTypeOK
<1>11. CASE Answer(r)
  <2>1. /\ InFlight(r) /\ ~At(r, "command") /\ request' = [request EXCEPT ![r] = Idle]
        /\ UNCHANGED <<containers, progressTerminals>> /\ directory' \in BOOLEAN
    BY <1>11 DEF Answer, InFlight, At, StackTypeOK
  <2>2. request' \in [Request -> RequestFields] /\ Kept(r) /\ request'[r] = Idle
    BY <2>1, CommandTable DEF StackTypeOK, Kept
  <2>. QED BY <2>1, <2>2, CommandTable, QuietStep
<1>. QED BY <1>1, <1>2, <1>3, <1>4, <1>5, <1>6, <1>7, <1>8, <1>9, <1>10, <1>11
     DEF Step

LEMMA Inductive == StackInv /\ [StackNext]_stackVars => StackInv'
<1>. SUFFICES ASSUME StackInv, [StackNext]_stackVars PROVE StackInv'
  OBVIOUS
<1>1. CASE UNCHANGED stackVars
  BY <1>1 DEF stackVars, StackInv, StackTypeOK, TerminalIsHeld, AloneIsAlone, Alone,
    CommandFits, DownIsDone, At, InFlight
<1>2. CASE ContainersChange
  BY <1>2, ContainersChangeInv
<1>3. ASSUME NEW r \in Request, NEW op \in Op, NEW e \in Endpoint, Arrive(r, op, e)
      PROVE  StackInv'
  BY <1>3, ArriveInv
<1>4. ASSUME NEW r \in Request, Step(r)
      PROVE  StackInv'
  BY <1>4, StepInv
<1>. QED BY <1>1, <1>2, <1>3, <1>4 DEF StackNext

LEMMA Invariance == StackSpec => []StackInv
BY InitInv, Inductive, PTL DEF StackSpec

-----------------------------------------------------------------------------
\* Types: no request is in flight without the endpoint it came through.
THEOREM StackTypeCorrect == StackSpec => []StackTypeOK
<1>1. StackInv => StackTypeOK
  BY DEF StackInv
<1>. QED BY <1>1, Invariance, PTL

\* Terminal names are exact: a name is in use exactly while its command runs,
\* so that on one endpoint no two commands of the project run at once.
THEOREM NamesAreHeld == StackSpec => []TerminalIsHeld
<1>1. StackInv => TerminalIsHeld
  BY DEF StackInv
<1>. QED BY <1>1, Invariance, PTL

RemovedByDelete ==
  directory /\ ~directory' =>
    \E r \in Request : /\ At(r, "removing")
                       /\ request[r].alone => containers' = "none"

\* The directory goes only in delete's last step, and if no other request
\* came in between the project has no containers then.
THEOREM NothingIsAbandoned == StackSpec => NoContainerIsAbandoned
<1>1. StackInv /\ StackNext => RemovedByDelete
  <2>1. SUFFICES ASSUME StackInv, StackNext, directory /\ ~directory'
        PROVE  \E r \in Request : At(r, "removing")
                                  /\ (request[r].alone => containers' = "none")
    BY DEF RemovedByDelete
  <2>2. PICK r \in Request : RemoveDirectory(r)
    BY <2>1 DEF StackNext, Step, Arrive, SaveSource, GetStack, LookupFails, Execute,
      Refuse, Exits, ExitsInError, UpdateStatus, RemoveFails, Answer,
      ContainersChange
  <2>. QED BY <2>1, <2>2 DEF RemoveDirectory, StackInv, DownIsDone
<1>2. StackInv /\ [StackNext]_stackVars => [RemovedByDelete]_stackVars
  BY <1>1
<1>3. StackSpec => [][RemovedByDelete]_stackVars
  BY <1>2, Invariance, PTL DEF StackSpec
<1>. QED BY <1>3 DEF NoContainerIsAbandoned, RemovedByDelete

=============================================================================
