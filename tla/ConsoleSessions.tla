--------------------------- MODULE ConsoleSessions ---------------------------
(***************************************************************************)
(* The web console: MainTerminal and the life of a Terminal                *)
(* (backend/terminal.ts) with the handlers that open, use and close it     *)
(* (backend/agent-socket-handlers/terminal-socket-handler.ts).             *)
(*                                                                         *)
(* A session is one MainTerminal object, found by its name while it is in  *)
(* terminalMap, and the shell it runs.  close() only asks the shell to end; *)
(* the session stays in the map, "closing", until the shell has exited.     *)
(* Handlers run without interruption except that opening a session awaits  *)
(* the audit record before it registers the listener that will write the   *)
(* closing one.  Output, timers, exits and disconnects come at any moment.  *)
(***************************************************************************)
EXTENDS Integers, FiniteSets

CONSTANTS Session,      \* MainTerminal objects, each created at most once
          Name,         \* terminal names the clients choose
          Socket, User,
          None,
          MaxSessions   \* DOCKERBRIDGE_CONSOLE_MAX_SESSIONS

ASSUME ConsoleAssumption ==
  /\ None \notin Session \union Name \union Socket \union User
  /\ IsFiniteSet(Name)
  /\ MaxSessions \in Nat \ {0}

VARIABLES
  terminalMap,  \* the session each name finds
  session,      \* the fields of each session
  connected,    \* the sockets that are connected
  userID,       \* the user each socket has logged in
  audited       \* the sessions whose terminal_close record was written

vars == <<terminalMap, session, connected, userID, audited>>

Life == {"unused", "running", "closing", "closed"}
Reason == {"process_exit", "client_close", "idle_timeout", "socket_disconnect"}

\* idleTimer: is it armed?  opening: is the terminal_open record being written?
\* listening: is the onClose listener registered?
Fields == [name : Name \union {None}, socket : Socket \union {None},
           user : User \union {None}, life : Life, reason : Reason,
           idleTimer : BOOLEAN, opening : BOOLEAN, listening : BOOLEAN]

Unused == [name |-> None, socket |-> None, user |-> None, life |-> "unused",
           reason |-> "process_exit", idleTimer |-> FALSE, opening |-> FALSE,
           listening |-> FALSE]

TypeOK ==
  /\ terminalMap \in [Name -> Session \union {None}]
  /\ session \in [Session -> Fields]
  /\ connected \in SUBSET Socket
  /\ userID \in [Socket -> User \union {None}]
  /\ audited \in SUBSET Session

Init ==
  /\ terminalMap = [n \in Name |-> None]
  /\ session = [x \in Session |-> Unused]
  /\ connected = Socket
  /\ userID = [s \in Socket |-> None]
  /\ audited = {}

-----------------------------------------------------------------------------
\* Does the session's shell run?
Alive(x) == session[x].life \in {"running", "closing"}

BelongsTo(x, s) == session[x].socket = s /\ session[x].user = userID[s]

LoggedIn(s) == s \in connected /\ userID[s] # None

ActiveSessions == {n \in Name : terminalMap[n] # None}

\* close(): the idle timer goes in any case; only a running session is killed.
Closed(f, why) ==
  IF f.life = "running"
  THEN [f EXCEPT !.idleTimer = FALSE, !.life = "closing", !.reason = why]
  ELSE [f EXCEPT !.idleTimer = FALSE]

Close(x, why) == session' = [session EXCEPT ![x] = Closed(@, why)]

\* Mutant: the idle timer is stopped and not started again.
TouchOnce(x) == session' = [session EXCEPT ![x].idleTimer = FALSE]

\* touch(): the idle timer starts again, whatever the session's state.
Touch(x) == session' = [session EXCEPT ![x].idleTimer = TRUE]

-----------------------------------------------------------------------------
(* The sockets *)

\* A socket may log in again as somebody else: there is no logout.
Login(s, u) ==
  /\ s \in connected
  /\ userID' = [userID EXCEPT ![s] = u]
  /\ UNCHANGED <<terminalMap, session, connected, audited>>

\* Mutant: nobody listens to the disconnection.
DisconnectUnheard(s) ==
  /\ s \in connected
  /\ connected' = connected \ {s}
  /\ UNCHANGED <<terminalMap, session, userID, audited>>

\* The disconnect listener closes every session in the map that belongs to s.
Disconnect(s) ==
  /\ s \in connected
  /\ connected' = connected \ {s}
  /\ session' = [x \in Session |->
       IF \E n \in Name : terminalMap[n] = x /\ BelongsTo(x, s)
       THEN Closed(session[x], "socket_disconnect")
       ELSE session[x]]
  /\ UNCHANGED <<terminalMap, userID, audited>>

-----------------------------------------------------------------------------
(* The handlers *)

\* Mutant: the limit is compared with > instead of >=.
OpenOneTooMany(s, n, x) ==
  /\ LoggedIn(s)
  /\ terminalMap[n] = None
  /\ Cardinality(ActiveSessions) <= MaxSessions
  /\ session[x].life = "unused"
  /\ session' = [session EXCEPT ![x] =
       [Unused EXCEPT !.name = n, !.socket = s, !.user = userID[s],
                      !.life = "running", !.idleTimer = TRUE, !.opening = TRUE]]
  /\ terminalMap' = [terminalMap EXCEPT ![n] = x]
  /\ UNCHANGED <<connected, userID, audited>>

\* mainTerminal with a name that is free, below the limit: the constructor, join
\* and start.
Open(s, n, x) ==
  /\ LoggedIn(s)
  /\ terminalMap[n] = None
  /\ Cardinality(ActiveSessions) < MaxSessions
  /\ session[x].life = "unused"
  /\ session' = [session EXCEPT ![x] =
       [Unused EXCEPT !.name = n, !.socket = s, !.user = userID[s],
                      !.life = "running", !.idleTimer = TRUE, !.opening = TRUE]]
  /\ terminalMap' = [terminalMap EXCEPT ![n] = x]
  /\ UNCHANGED <<connected, userID, audited>>

\* The same when no shell can be spawned: the name is given back.
OpenFails(s, n, x) ==
  /\ LoggedIn(s)
  /\ terminalMap[n] = None
  /\ Cardinality(ActiveSessions) < MaxSessions
  /\ session[x].life = "unused"
  /\ session' = [session EXCEPT ![x].life = "closed"]
  /\ UNCHANGED <<terminalMap, connected, userID, audited>>

\* The audit record of the opening is written; only now is onClose called.
Opened(x) ==
  /\ session[x].opening
  /\ session' = [session EXCEPT ![x].opening = FALSE, ![x].listening = TRUE]
  /\ UNCHANGED <<terminalMap, connected, userID, audited>>

\* terminalInput and terminalResize of the owner: both count as activity.
Use(s, n) ==
  /\ LoggedIn(s)
  /\ terminalMap[n] # None
  /\ BelongsTo(terminalMap[n], s)
  /\ Touch(terminalMap[n])
  /\ UNCHANGED <<terminalMap, connected, userID, audited>>

\* Mutant: closing gives the name back before the shell has ended.
CloseForgetting(s, n) ==
  /\ LoggedIn(s)
  /\ terminalMap[n] # None
  /\ BelongsTo(terminalMap[n], s)
  /\ Close(terminalMap[n], "client_close")
  /\ terminalMap' = [terminalMap EXCEPT ![n] = None]
  /\ UNCHANGED <<connected, userID, audited>>

CloseMainTerminal(s, n) ==
  /\ LoggedIn(s)
  /\ terminalMap[n] # None
  /\ BelongsTo(terminalMap[n], s)
  /\ Close(terminalMap[n], "client_close")
  /\ UNCHANGED <<terminalMap, connected, userID, audited>>

-----------------------------------------------------------------------------
(* The shell and the timer *)

ProcessData(x) ==
  /\ Alive(x)
  /\ Touch(x)
  /\ UNCHANGED <<terminalMap, connected, userID, audited>>

IdleTimeout(x) ==
  /\ session[x].idleTimer
  /\ Close(x, "idle_timeout")
  /\ UNCHANGED <<terminalMap, connected, userID, audited>>

\* exit(): the name is free again and the registered listener, if there is one,
\* writes the record.  The idle timer is not cleared.
ProcessExit(x) ==
  /\ Alive(x)
  /\ session' = [session EXCEPT ![x].life = "closed"]
  /\ terminalMap' = [terminalMap EXCEPT ![session[x].name] = None]
  /\ audited' = IF session[x].listening THEN audited \union {x} ELSE audited
  /\ UNCHANGED <<connected, userID>>

-----------------------------------------------------------------------------
Next ==
  \/ \E s \in Socket :
       \/ \E u \in User : Login(s, u)
       \/ Disconnect(s)
       \/ \E n \in Name :
            \/ \E x \in Session : Open(s, n, x) \/ OpenFails(s, n, x)
            \/ Use(s, n)
            \/ CloseMainTerminal(s, n)
  \/ \E x \in Session :
       Opened(x) \/ ProcessData(x) \/ IdleTimeout(x) \/ ProcessExit(x)

Spec == Init /\ [][Next]_vars

\* A shell that was sent the signal of close() ends.  Nothing else is obliged to
\* happen: the idle timer of a shell that keeps writing never fires.
FairSpec ==
  /\ Spec
  /\ \A x \in Session : WF_vars(session[x].life = "closing" /\ ProcessExit(x))

-----------------------------------------------------------------------------
(* Properties *)

\* No more shells run than the limit allows: the limit counts the names in the
\* map, and no shell outlives its entry, whatever closes it and whenever.
ShellsWithinLimit == Cardinality({x \in Session : Alive(x)}) <= MaxSessions

\* A running shell is always the one its name finds, so that input, resizing and
\* closing reach it and no second shell takes the name; a name never finds a
\* shell that has ended.
NameFindsItsShell ==
  /\ \A x \in Session : Alive(x) =>
       session[x].name \in Name /\ terminalMap[session[x].name] = x
  /\ \A n \in Name : terminalMap[n] # None =>
       Alive(terminalMap[n]) /\ session[terminalMap[n]].name = n

\* A running session is never left without an idle timer, even when no socket
\* can reach it any more (its socket is gone or belongs to another user now).
RunningIsTimed == \A x \in Session : session[x].life = "running" => session[x].idleTimer

\* A session whose socket has disconnected under the user who opened it ends,
\* and with it its place among MaxSessions is free.
DisconnectEndsSession ==
  \A x \in Session :
    (Alive(x) /\ session[x].socket \notin connected
              /\ userID[session[x].socket] = session[x].user)
      ~> session[x].life = "closed"
=============================================================================
