------------------------------ MODULE Accounts ------------------------------
(***************************************************************************)
(* Accounts and the sessions logged in with them: first setup, login by    *)
(* password and by token, the administration of users and passwords        *)
(* (backend/socket-handlers/main-socket-handler.ts and                     *)
(* user-socket-handler.ts), the role a socket keeps from its login         *)
(* (backend/util-server.ts), and sending a user's sockets away             *)
(* (disconnectAllSocketClients, backend/dockge-server.ts).                 *)
(*                                                                         *)
(* A handler's step starts with the answer to a query and goes on to the   *)
(* next query.  The database pool has one connection (backend/database.ts), *)
(* so queries are answered one at a time, and a transaction keeps all      *)
(* others waiting.  A socket keeps the role of its login, whatever becomes *)
(* of the account, until it is sent away.                                  *)
(*                                                                         *)
(* A password is a number, new whenever a password is set, and stands for  *)
(* its hash: salted, so never the same twice.                              *)
(***************************************************************************)
EXTENDS Naturals, FiniteSets

CONSTANTS Name,         \* user names; a row's id is its name, rows stay
          Socket,       \* sockets of browsers, used again when they are gone
          Request,      \* slots for requests in flight, used again and again
          Role,         \* the roles in use
          Nobody,       \* no user, no socket
          MaxPassword   \* bound: passwords that requests may bring

Permissions == [viewer |-> {"read"},
                operator |-> {"read", "operate"},
                admin |-> {"read", "operate", "destructive", "terminal",
                           "settings", "users", "agents", "admin"}]

ASSUME AccountsAssumption ==
  /\ Nobody \notin Name \union Socket \union Request
  /\ "admin" \in Role /\ Role \subseteq DOMAIN Permissions
  /\ MaxPassword \in Nat

VARIABLES
  user,        \* the user table
  passwords,   \* passwords made so far
  connected,   \* sockets that are connected
  session,     \* what a socket keeps of its login
  transaction, \* the request whose transaction has the connection
  request      \* the request in each slot

vars == <<user, passwords, connected, session, transaction, request>>

NoRow == [role |-> "none", active |-> FALSE, password |-> 0]
Row == [role : Role, active : BOOLEAN, password : Nat]
Exists(n) == user[n] # NoRow

\* userID and userRole are the socket's fields.  password is the one the session
\* goes with, and unannounced says that the update which changed its account
\* was answered as failed; the code keeps neither.
Session == [userID : Name \union {Nobody}, userRole : Role \union {"none"},
            password : Nat, unannounced : BOOLEAN]
LoggedOut == [userID |-> Nobody, userRole |-> "none", password |-> 0,
              unannounced |-> FALSE]

Op == {"setup", "create", "update", "reset", "change"}
Phase == {"idle", "find", "count", "write", "begin", "select", "answer", "timer"}

\* name: the user a request is about.  changed: does an update differ from
\* the row it found?
Fields == [op : Op, phase : Phase, socket : Socket \union {Nobody},
           name : Name \union {Nobody}, role : Role, active : BOOLEAN,
           password : Nat, changed : BOOLEAN]

Idle == [op |-> "setup", phase |-> "idle", socket |-> Nobody, name |-> Nobody,
         role |-> "admin", active |-> TRUE, password |-> 0, changed |-> FALSE]

At(r, op, phase) == request[r].op = op /\ request[r].phase = phase
InFlight(r) == request[r].phase # "idle"

TypeOK ==
  /\ user \in [Name -> Row \union {NoRow}]
  /\ passwords \in Nat
  /\ connected \subseteq Socket
  /\ session \in [Socket -> Session]
  /\ transaction \in Request \union {Nobody}
  /\ request \in [Request -> Fields]
  /\ \A r \in Request :
       /\ InFlight(r) => request[r].name # Nobody
       /\ request[r].op \in {"update", "change"} => request[r].socket # Nobody

\* A new installation, or one from before roles, where everyone became an
\* administrator.
Init ==
  /\ \E old \in SUBSET Name :
       user = [n \in Name |->
                 IF n \in old
                 THEN [role |-> "admin", active |-> TRUE, password |-> 0]
                 ELSE NoRow]
  /\ passwords = 0
  /\ connected = {}
  /\ session = [s \in Socket |-> LoggedOut]
  /\ transaction = Nobody
  /\ request = [r \in Request |-> Idle]

-----------------------------------------------------------------------------
(* Sockets *)

\* A slot for a socket is used again once nothing refers to the old one.
Connect(s) ==
  /\ s \notin connected
  /\ \A r \in Request : request[r].socket # s
  /\ connected' = connected \union {s}
  /\ session' = [session EXCEPT ![s] = LoggedOut]
  /\ UNCHANGED <<user, passwords, transaction, request>>

\* Requests of a socket that leaves go on.
Leave(s) ==
  /\ s \in connected
  /\ connected' = connected \ {s}
  /\ UNCHANGED <<user, passwords, session, transaction, request>>

SocketsOf(n) == {s \in connected : session[s].userID = n}

\* A socket whose account has changed since its login: the role, being active,
\* or the password.
Outdated(s) ==
  LET n == session[s].userID
  IN /\ s \in connected /\ n # Nobody
     /\ \/ ~user[n].active
        \/ session[s].userRole # user[n].role
        \/ session[s].password # user[n].password

\* disconnectAllSocketClients: a user's sockets, but for one.
SendAway(n, but) == connected' = connected \ (SocketsOf(n) \ {but})

\* afterLogin
AfterLogin(s, n) ==
  session' = [session EXCEPT ![s] = [userID |-> n, userRole |-> user[n].role,
                                     password |-> user[n].password,
                                     unannounced |-> FALSE]]

\* Disconnect all other socket clients of the user.
DisconnectOtherSocketClients(s) ==
  /\ s \in connected
  /\ session[s].userID # Nobody
  /\ SendAway(session[s].userID, s)
  /\ UNCHANGED <<user, passwords, session, transaction, request>>

-----------------------------------------------------------------------------
(* Requests *)

Permitted(s, permission) ==
  /\ session[s].userID # Nobody
  /\ permission \in Permissions[session[s].userRole]

MoveTo(r, phase) == request' = [request EXCEPT ![r].phase = phase]
Finish(r) == request' = [request EXCEPT ![r] = Idle]

\* Is the connection free for the query of a request?
Free(r) == transaction \in {Nobody, r}

\* What a request brings: a new password, an update's role and activation, the
\* role of a user to be created.
Payload(op) ==
  {p \in [role : Role, active : BOOLEAN, password : 0 .. MaxPassword] :
     /\ op \notin {"create", "update"} => p.role = "admin"
     /\ op # "update" => p.active
     /\ p.password = IF op = "update" THEN 0 ELSE passwords + 1}

StartAt(r, phase, op, s, n, p) ==
  /\ ~InFlight(r)
  /\ passwords' = IF op = "update" THEN passwords ELSE p.password
  /\ request' = [request EXCEPT ![r] =
       [op |-> op, phase |-> phase, socket |-> s, name |-> n, role |-> p.role,
        active |-> p.active, password |-> p.password, changed |-> FALSE]]

\* The operations on users check the permission of the socket as it is now.
Administer(r, s, op, n, p) ==
  /\ s \in connected
  /\ Permitted(s, "users")
  /\ StartAt(r, IF op = "update" THEN "begin" ELSE "find", op,
             IF op = "update" THEN s ELSE Nobody, n, p)
  /\ UNCHANGED <<user, connected, session, transaction>>

\* changePassword is for the user of the socket, whoever that is later.
StartChange(r, s, p) ==
  /\ s \in connected
  /\ session[s].userID # Nobody
  /\ StartAt(r, "find", "change", s, session[s].userID, p)
  /\ UNCHANGED <<user, connected, session, transaction>>

\* setup checks nothing before it counts the users, and goes on if there is
\* none.
Setup(r, n, p) ==
  /\ Free(r)
  /\ ~\E m \in Name : Exists(m)
  /\ StartAt(r, "write", "setup", Nobody, n, p)
  /\ UNCHANGED <<user, connected, session, transaction>>

\* login and loginByToken read the user, and go on if it is active and the
\* password is right, or the one the token was made with; else nothing changes.
Login(s, n) ==
  /\ s \in connected
  /\ transaction = Nobody
  /\ user[n].active
  /\ AfterLogin(s, n)
  /\ UNCHANGED <<user, passwords, connected, transaction, request>>

\* What a query's answer leaves alone unless it says otherwise.
Reads == UNCHANGED <<user, passwords, connected, session, transaction>>

\* create looks for the name, reset for the row, and change checks the
\* current password, which may be wrong, of an active user.
Find(r) ==
  /\ request[r].op \in {"create", "reset", "change"}
  /\ request[r].phase = "find" /\ Free(r)
  /\ LET n == request[r].name
         goesOn == CASE request[r].op = "create" -> {~Exists(n)}
                     [] request[r].op = "reset" -> {Exists(n)}
                     [] OTHER -> {FALSE, user[n].active}
     IN \E on \in goesOn : IF on THEN MoveTo(r, "write") ELSE Finish(r)
  /\ Reads

\* The insert of setup and create; names are unique.
Insert(r) ==
  /\ request[r].op \in {"setup", "create"}
  /\ request[r].phase = "write" /\ Free(r)
  /\ user' = IF Exists(request[r].name) THEN user
             ELSE [user EXCEPT ![request[r].name] =
                     [role |-> request[r].role, active |-> TRUE,
                      password |-> request[r].password]]
  /\ Finish(r)
  /\ UNCHANGED <<passwords, connected, session, transaction>>

\* The administrator's new password for the user.
Reset(r) ==
  /\ At(r, "reset", "write") /\ Free(r)
  /\ user' = [user EXCEPT ![request[r].name].password = request[r].password]
  /\ MoveTo(r, "answer")
  /\ UNCHANGED <<passwords, connected, session, transaction>>

\* A user changes the own password: the other sockets are sent away at once.
\* The session of this one is known to go with the new password.
ChangePassword(r) ==
  /\ At(r, "change", "write") /\ Free(r)
  /\ LET n == request[r].name
         s == request[r].socket
     IN /\ user' = [user EXCEPT ![n].password = request[r].password]
        /\ SendAway(n, s)
        /\ session' = IF session[s].userID = n
                      THEN [session EXCEPT ![s].password = request[r].password]
                      ELSE session
  /\ Finish(r)
  /\ UNCHANGED <<passwords, transaction>>

-----------------------------------------------------------------------------
(* updateDockerBridgeUser: a transaction, an answer, and a timer *)

Administrators == {n \in Name : user[n].role = "admin" /\ user[n].active}

\* Mutant: the update does not keep the connection from its check to its write.
BeginWithoutTransaction(r) ==
  /\ At(r, "update", "begin") /\ Free(r)
  /\ MoveTo(r, "select")
  /\ Reads

Begin(r) ==
  /\ At(r, "update", "begin") /\ Free(r)
  /\ transaction' = r
  /\ MoveTo(r, "select")
  /\ UNCHANGED <<user, passwords, connected, session>>

Rollback(r) == transaction' = Nobody /\ Finish(r)

\* The row as it is: to be changed at once, to be counted first, or refused.
Select(r) ==
  /\ At(r, "update", "select") /\ Free(r)
  /\ LET n == request[r].name
         demotes == request[r].role # "admin" \/ ~request[r].active
         refused == \/ ~Exists(n)
                    \/ n = session[request[r].socket].userID
                       /\ ~request[r].active
     IN IF refused THEN Rollback(r)
        ELSE /\ request' = [request EXCEPT
                  ![r].phase = IF n \in Administrators /\ demotes
                               THEN "count" ELSE "write",
                  ![r].changed = \/ user[n].role # request[r].role
                                 \/ user[n].active # request[r].active]
             /\ UNCHANGED transaction
  /\ UNCHANGED <<user, passwords, connected, session>>

\* The last active administrator stays one.
CountAdministrators(r) ==
  /\ At(r, "update", "count") /\ Free(r)
  /\ IF Cardinality(Administrators) <= 1
     THEN Rollback(r)
     ELSE MoveTo(r, "write") /\ UNCHANGED transaction
  /\ UNCHANGED <<user, passwords, connected, session>>

\* The update and the commit.
Commit(r) ==
  /\ At(r, "update", "write") /\ Free(r)
  /\ user' = [user EXCEPT ![request[r].name].role = request[r].role,
                          ![request[r].name].active = request[r].active]
  /\ transaction' = Nobody
  /\ MoveTo(r, "answer")
  /\ UNCHANGED <<passwords, connected, session>>

\* Does a request end the sessions of the user it is about?
Changes(r) == request[r].op = "reset" \/ request[r].changed

\* After the operation log, and an update's list of users, the request is
\* answered, and a timer is set if anything has changed.
Answer(r) ==
  /\ request[r].phase = "answer" /\ Free(r)
  /\ IF Changes(r)
     THEN MoveTo(r, "timer") ELSE Finish(r)
  /\ Reads

\* Listing the users fails: the update is answered as failed, and there is no
\* timer.
ListFails(r) ==
  /\ At(r, "update", "answer") /\ Free(r)
  /\ session' = [s \in Socket |->
       IF request[r].changed /\ session[s].userID = request[r].name /\ Outdated(s)
       THEN [session[s] EXCEPT !.unannounced = TRUE] ELSE session[s]]
  /\ Finish(r)
  /\ UNCHANGED <<user, passwords, connected, transaction>>

\* Mutant: the socket that asked for the change is left alone.
SendAwayOthers(r) ==
  /\ request[r].phase = "timer"
  /\ SendAway(request[r].name, request[r].socket)
  /\ Finish(r)
  /\ UNCHANGED <<user, passwords, session, transaction>>

Timer(r) ==
  /\ request[r].phase = "timer"
  /\ SendAway(request[r].name, Nobody)
  /\ Finish(r)
  /\ UNCHANGED <<user, passwords, session, transaction>>

\* A query before the answer fails: the error is answered, a transaction rolled
\* back.
QueryFails(r) ==
  /\ request[r].phase \in {"find", "count", "write", "begin", "select"}
  /\ Free(r)
  /\ Rollback(r)
  /\ UNCHANGED <<user, passwords, connected, session>>

\* The server stops at any moment and starts again: tokens stay valid.
Restart ==
  /\ connected' = {}
  /\ session' = [s \in Socket |-> LoggedOut]
  /\ transaction' = Nobody
  /\ request' = [r \in Request |-> Idle]
  /\ UNCHANGED <<user, passwords>>

-----------------------------------------------------------------------------
Query(r) == \/ Find(r) \/ Insert(r) \/ Reset(r) \/ ChangePassword(r)
            \/ Begin(r) \/ Select(r) \/ CountAdministrators(r) \/ Commit(r)
            \/ Answer(r) \/ ListFails(r) \/ QueryFails(r)

Next ==
  \/ \E s \in Socket : Connect(s) \/ Leave(s) \/ DisconnectOtherSocketClients(s)
  \/ \E s \in Socket, n \in Name : Login(s, n)
  \/ \E r \in Request, n \in Name :
       \/ \E p \in Payload("setup") : Setup(r, n, p)
       \/ \E s \in Socket, op \in {"create", "update", "reset"} :
            \E p \in Payload(op) : Administer(r, s, op, n, p)
  \/ \E r \in Request, s \in Socket :
       \E p \in Payload("change") : StartChange(r, s, p)
  \/ \E r \in Request : Query(r) \/ Timer(r)
  \/ Restart

Spec == Init /\ [][Next]_vars

-----------------------------------------------------------------------------
(* Properties *)

\* Once there are users, one of them is an active administrator
\* (user-socket-handler.ts:95-100), however updates, setups and crashes mix.
AdministratorRemains == (\E n \in Name : Exists(n)) => Administrators # {}

\* A request is going to send the sockets of a user away.
AboutToSendAway(n) ==
  \E r \in Request :
    /\ request[r].name = n
    /\ request[r].phase \in {"answer", "timer"}
    /\ Changes(r)

\* A connected session has the role and the password of its account, which is
\* active, unless a request is just about to send it away; updates that were
\* answered as failed are excepted (user-socket-handler.ts:116-118,153).
SessionsFollowAccounts ==
  \A s \in Socket :
    Outdated(s) => \/ AboutToSendAway(session[s].userID)
                   \/ session[s].unannounced
=============================================================================
