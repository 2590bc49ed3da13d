--------------------------- MODULE AccountsProofs ---------------------------
(***************************************************************************)
(* Types, the administrator that remains, and the sessions that follow     *)
(* their accounts, for any number of users, sockets and requests.          *)
(***************************************************************************)
EXTENDS Accounts, FiniteSetTheorems, TLAPS

\* The steps each operation goes through.
Steps == [setup |-> {"write"},
          create |-> {"find", "write"},
          reset |-> {"find", "write", "answer", "timer"},
          change |-> {"find", "write"},
          update |-> {"begin", "select", "count", "write", "answer", "timer"}]

InTransaction(r) ==
  request[r].op = "update" /\ request[r].phase \in {"select", "count", "write"}

\* The connection is kept by exactly the update that is in its transaction.
TransactionIsHeld == \A r \in Request : InTransaction(r) <=> transaction = r

Differs(r) ==
  \/ user[request[r].name].role # request[r].role
  \/ user[request[r].name].active # request[r].active

\* What an update has seen stays so until it commits.
Checked(r) ==
  /\ Exists(request[r].name)
  /\ request[r].changed = Differs(r)

\* An update may be written: an administrator is left.
Safe(r) ==
  \/ request[r].role = "admin" /\ request[r].active
  \/ request[r].name \notin Administrators
  \/ \E m \in Administrators : m # request[r].name

Fits(r) ==
  /\ request[r].phase \in Steps[request[r].op]
  /\ request[r].op = "setup" => request[r].role = "admin" /\ request[r].active
  /\ request[r].op = "create" => \E n \in Name : Exists(n)
  /\ request[r].op = "change" => Exists(request[r].name)
  /\ request[r].op = "reset" /\ request[r].phase # "find"
       => Exists(request[r].name)
  /\ request[r].op = "update" /\ request[r].phase \in {"count", "write"}
       => Checked(r)
  /\ At(r, "update", "write") => Safe(r)

RequestFits == \A r \in Request : InFlight(r) => Fits(r)

\* Only users log in, and rows stay.
SessionFits ==
  \A s \in Socket : session[s].userID # Nobody => Exists(session[s].userID)

IInv == /\ TypeOK /\ TransactionIsHeld /\ RequestFits /\ SessionFits
        /\ AdministratorRemains /\ SessionsFollowAccounts

-----------------------------------------------------------------------------
\* A step of one request leaves the others alone.
Others(r) == \A q \in Request \ {r} : request'[q] = request[q]

RowsStay == \A n \in Name : Exists(n) => Exists(n)'

LEMMA Constants ==
  /\ Idle \in Fields /\ Idle.phase = "idle" /\ Idle.op = "setup"
  /\ LoggedOut \in Session /\ LoggedOut.userID = Nobody
  /\ "none" \notin Role
  /\ NoRow \notin Row
  /\ Nobody \notin Name /\ Nobody \notin Socket /\ Nobody \notin Request
  /\ "admin" \in Role
  /\ NoRow.role = "none" /\ NoRow.active = FALSE
BY AccountsAssumption DEF Idle, Fields, Op, Phase, LoggedOut, Session, NoRow, Row,
  Permissions

LEMMA MoveToEffect ==
  ASSUME TypeOK, NEW r \in Request, NEW phase \in Phase, InFlight(r), MoveTo(r, phase)
  PROVE  /\ request' \in [Request -> Fields] /\ Others(r)
         /\ request'[r].phase = phase
         /\ request'[r].op = request[r].op /\ request'[r].name = request[r].name
         /\ request'[r].role = request[r].role
         /\ request'[r].active = request[r].active
         /\ request'[r].changed = request[r].changed
         /\ request'[r].socket = request[r].socket
BY DEF TypeOK, MoveTo, Others, Fields, InFlight

LEMMA FinishEffect ==
  ASSUME TypeOK, NEW r \in Request, Finish(r)
  PROVE  /\ request' \in [Request -> Fields] /\ Others(r)
         /\ request'[r] = Idle
BY Constants DEF TypeOK, Finish, Others

\* The requests' part of the type invariant.
LEMMA RequestTypeKept ==
  ASSUME TypeOK, NEW r \in Request, Others(r),
         request'[r].phase # "idle" => request'[r].name # Nobody,
         request'[r].op \in {"update", "change"} => request'[r].socket # Nobody
  PROVE  \A q \in Request :
           /\ InFlight(q)' => request'[q].name # Nobody
           /\ request'[q].op \in {"update", "change"} => request'[q].socket # Nobody
BY DEF TypeOK, Others, InFlight

\* The connection changes hands only between nobody and the request.
LEMMA HeldKept ==
  ASSUME IInv, NEW r \in Request, Others(r),
         InTransaction(r)' <=> transaction' = r,
         transaction' = transaction \/ {transaction, transaction'} \subseteq {Nobody, r}
  PROVE  TransactionIsHeld'
BY Constants DEF IInv, TransactionIsHeld, InTransaction, Others

\* Others fit as before: the table is as it was, or nobody else is inside a
\* transaction.
LEMMA FitsKept ==
  ASSUME IInv, NEW r \in Request, Others(r), RowsStay,
         UNCHANGED user \/ Free(r),
         request'[r].phase # "idle" => Fits(r)'
  PROVE  RequestFits'
<1>. SUFFICES ASSUME NEW q \in Request, q # r, request[q].phase # "idle"
     PROVE  Fits(q)'
  BY DEF RequestFits, InFlight, Others
<1>1. request'[q] = request[q] /\ Fits(q) /\ q \in Request \ {r}
  BY DEF Others, IInv, RequestFits, InFlight
<1>2. request[q].name \in Name
  BY DEF IInv, TypeOK, Fields, InFlight
<1>3. CASE UNCHANGED user
  <2>1. Differs(q)' = Differs(q)
    BY <1>1, <1>3, Zenon DEF Differs
  <2>2. Checked(q) => Checked(q)'
    BY <1>1, <1>3, <2>1, Zenon DEF Checked, Exists
  <2>3. Safe(q) => Safe(q)'
    BY <1>1, <1>3 DEF Safe, Administrators
  <2>. QED BY <1>1, <1>3, <2>2, <2>3 DEF Fits, Exists, At
<1>4. CASE Free(r)
  <2>1. ~InTransaction(q)
    BY <1>4, Constants DEF IInv, TransactionIsHeld, Free
  <2>. QED BY <2>1, <1>1, <1>2 DEF Fits, InTransaction, RowsStay, At
<1>. QED BY <1>3, <1>4

\* No session becomes outdated, and the request keeps what it is about to do.
LEMMA FollowsKept ==
  ASSUME IInv, NEW r \in Request, Others(r),
         \A s \in Socket : Outdated(s)' =>
           /\ Outdated(s)
           /\ session'[s].userID = session[s].userID
           /\ session'[s].unannounced = session[s].unannounced,
         \/ request[r].phase \notin {"answer", "timer"}
         \/ ~Changes(r)
         \/ /\ request'[r].phase \in {"answer", "timer"} /\ Changes(r)'
            /\ request'[r].name = request[r].name
  PROVE  SessionsFollowAccounts'
<1>. SUFFICES ASSUME NEW s \in Socket, Outdated(s)', ~session[s].unannounced
     PROVE  \E q \in Request : /\ request'[q].name = session[s].userID
                              /\ request'[q].phase \in {"answer", "timer"}
                              /\ Changes(q)'
  BY Zenon DEF SessionsFollowAccounts, AboutToSendAway
<1>1. AboutToSendAway(session[s].userID) /\ session'[s].userID = session[s].userID
  BY DEF IInv, SessionsFollowAccounts
<1>2. PICK q \in Request : /\ request[q].name = session[s].userID
                          /\ request[q].phase \in {"answer", "timer"} /\ Changes(q)
  BY <1>1 DEF AboutToSendAway
<1>3. CASE q = r
  BY <1>1, <1>2, <1>3, Zenon
<1>4. CASE q # r
  BY <1>1, <1>2, <1>4 DEF Others, Changes
<1>. QED BY <1>3, <1>4

LEMMA InitInv == Init => IInv
<1>. SUFFICES ASSUME Init PROVE IInv
  OBVIOUS
<1>1. TypeOK
  BY Constants DEF Init, TypeOK, InFlight, Row
<1>2. TransactionIsHeld /\ RequestFits
  BY Constants DEF Init, TransactionIsHeld, InTransaction, RequestFits, InFlight
<1>3. SessionFits /\ SessionsFollowAccounts
  BY Constants DEF Init, SessionFits, SessionsFollowAccounts, Outdated
<1>4. AdministratorRemains
  BY DEF Init, AdministratorRemains, Exists, Administrators
<1>. QED BY <1>1, <1>2, <1>3, <1>4 DEF IInv

-----------------------------------------------------------------------------
\* A step that touches no user and no session.
LEMMA RequestOnly ==
  ASSUME IInv, NEW r \in Request, Others(r), request' \in [Request -> Fields],
         UNCHANGED <<user, connected, session>>, passwords' \in Nat,
         request'[r].phase # "idle" => request'[r].name # Nobody,
         request'[r].op \in {"update", "change"} => request'[r].socket # Nobody,
         InTransaction(r)' <=> transaction' = r,
         transaction' = transaction \/ {transaction, transaction'} \subseteq {Nobody, r},
         request'[r].phase # "idle" => Fits(r)',
         \/ request[r].phase \notin {"answer", "timer"}
         \/ ~Changes(r)
         \/ /\ request'[r].phase \in {"answer", "timer"} /\ Changes(r)'
            /\ request'[r].name = request[r].name
  PROVE  IInv'
<1>1. TypeOK'
  BY RequestTypeKept DEF IInv, TypeOK
<1>2. TransactionIsHeld'
  BY HeldKept
<1>3. RowsStay
  BY DEF RowsStay, Exists
<1>4. RequestFits'
  BY <1>3, FitsKept
<1>5. SessionFits'
  BY DEF IInv, SessionFits, Exists
<1>6. AdministratorRemains'
  BY DEF IInv, AdministratorRemains, Exists, Administrators
<1>7. \A s \in Socket : Outdated(s)' => Outdated(s)
  BY DEF Outdated
<1>8. SessionsFollowAccounts'
  <2>1. \A s \in Socket : Outdated(s)' =>
           /\ Outdated(s)
           /\ session'[s].userID = session[s].userID
           /\ session'[s].unannounced = session[s].unannounced
    BY <1>7
  <2>. QED BY <2>1, FollowsKept
<1>. QED BY <1>1, <1>2, <1>4, <1>5, <1>6, <1>8 DEF IInv

\* A request that ends, with its transaction if it has one.
LEMMA Ends ==
  ASSUME IInv, NEW r \in Request, Finish(r), UNCHANGED <<user, connected, session>>,
         passwords' = passwords,
         \/ transaction' = Nobody /\ Free(r)
         \/ UNCHANGED transaction /\ ~InTransaction(r),
         request[r].phase \notin {"answer", "timer"} \/ ~Changes(r)
  PROVE  IInv'
<1>. USE FinishEffect, Constants DEF IInv
<1>1. /\ request' \in [Request -> Fields] /\ Others(r) /\ request'[r] = Idle
  OBVIOUS
<1>2. ~InTransaction(r)' /\ transaction' # r
  BY <1>1 DEF InTransaction, TransactionIsHeld
<1>3. transaction' = transaction \/ {transaction, transaction'} \subseteq {Nobody, r}
  BY DEF Free
<1>. QED BY <1>1, <1>2, <1>3, RequestOnly DEF TypeOK

LEMMA StartStep ==
  ASSUME IInv, NEW r \in Request, NEW phase \in Phase, NEW op \in Op,
         NEW s \in Socket \union {Nobody}, NEW n \in Name, NEW p \in Payload(op),
         StartAt(r, phase, op, s, n, p),
         op \in {"update", "change"} => s # Nobody,
         phase \in Steps[op],
         phase \notin {"select", "count", "answer", "timer"},
         phase = "write" => op = "setup",
         op = "setup" => p.role = "admin" /\ p.active,
         op = "create" => \E m \in Name : Exists(m),
         op = "change" => Exists(n),
         UNCHANGED <<user, connected, session, transaction>>
  PROVE  IInv'
<1>1. /\ p \in [role : Role, active : BOOLEAN, password : 0 .. MaxPassword]
      /\ passwords' \in Nat
  BY AccountsAssumption DEF Payload, StartAt, IInv, TypeOK
<1>. DEFINE new == [op |-> op, phase |-> phase, socket |-> s, name |-> n,
                    role |-> p.role, active |-> p.active, password |-> p.password,
                    changed |-> FALSE]
<1>2. request' = [request EXCEPT ![r] = new] /\ ~InFlight(r)
  BY DEF StartAt
<1>3. p.password \in Nat
  BY <1>1, AccountsAssumption
<1>4. new \in Fields
  BY <1>1, <1>3 DEF Fields
<1>5. /\ new.op = op /\ new.phase = phase /\ new.socket = s /\ new.name = n
      /\ new.role = p.role /\ new.active = p.active
  OBVIOUS
<1>. HIDE DEF new
<1>6. request' \in [Request -> Fields] /\ Others(r) /\ request'[r] = new
  BY <1>2, <1>4 DEF IInv, TypeOK, Others
<1>7. request[r].phase = "idle"
  BY <1>2 DEF InFlight
<1>8. ~InTransaction(r) /\ ~InTransaction(r)'
  BY <1>5, <1>6, <1>7 DEF InTransaction
<1>9. transaction # r
  BY <1>8 DEF IInv, TransactionIsHeld
<1>10. Fits(r)'
  <2>1. ~(request'[r].op = "update" /\ request'[r].phase \in {"count", "write"})
    BY <1>5, <1>6
  <2>2. request'[r].op = "reset" => request'[r].phase = "find"
    BY <1>5, <1>6 DEF Steps
  <2>3. ~At(r, "update", "write")'
    BY <1>5, <1>6 DEF At
  <2>4. /\ request'[r].phase \in Steps[request'[r].op]
        /\ request'[r].op = "setup" => request'[r].role = "admin" /\ request'[r].active
        /\ request'[r].op = "create" => \E m \in Name : user'[m] # NoRow
        /\ request'[r].op = "change" => user'[request'[r].name] # NoRow
    BY <1>5, <1>6 DEF Exists
  <2>. QED BY <2>1, <2>2, <2>3, <2>4 DEF Fits, Exists
<1>. QED BY <1>1, <1>5, <1>6, <1>7, <1>8, <1>9, <1>10, Constants, RequestOnly

LEMMA SetupStep ==
  ASSUME IInv, NEW r \in Request, NEW n \in Name, NEW p \in Payload("setup"),
         Setup(r, n, p)
  PROVE  IInv'
<1>1. p.role = "admin" /\ p.active
  BY DEF Payload
<1>. QED BY <1>1, StartStep DEF Setup, Op, Phase, Steps

LEMMA AdministerStep ==
  ASSUME IInv, NEW r \in Request, NEW s \in Socket,
         NEW op \in {"create", "update", "reset"}, NEW n \in Name,
         NEW p \in Payload(op), Administer(r, s, op, n, p)
  PROVE  IInv'
<1>1. session[s].userID \in Name /\ Exists(session[s].userID)
  BY DEF Administer, Permitted, IInv, SessionFits, TypeOK, Session
<1>2. CASE op = "update"
  <2>1. StartAt(r, "begin", "update", s, n, p)
    BY <1>2 DEF Administer
  <2>. QED BY <1>2, <2>1, StartStep, Constants DEF Administer, Op, Phase, Steps
<1>3. CASE op # "update"
  <2>1. StartAt(r, "find", op, Nobody, n, p)
    BY <1>3 DEF Administer
  <2>. QED BY <1>1, <1>3, <2>1, StartStep DEF Administer, Op, Phase, Steps
<1>. QED BY <1>2, <1>3

LEMMA StartChangeStep ==
  ASSUME IInv, NEW r \in Request, NEW s \in Socket, NEW p \in Payload("change"),
         StartChange(r, s, p)
  PROVE  IInv'
<1>1. session[s].userID \in Name /\ Exists(session[s].userID)
  BY DEF StartChange, IInv, SessionFits, TypeOK, Session
<1>. QED BY <1>1, StartStep, Constants DEF StartChange, Op, Phase, Steps

\* What is known of a request in flight.
LEMMA InFlightFacts ==
  ASSUME IInv, NEW r \in Request, InFlight(r)
  PROVE  /\ request[r] \in Fields /\ request[r].name \in Name
         /\ Fits(r)
         /\ request[r].op \in {"update", "change"} => request[r].socket \in Socket
BY DEF IInv, TypeOK, RequestFits, InFlight, Fields

\* A request goes on to its next query, with the transaction it has or none.
LEMMA MovesOn ==
  ASSUME IInv, NEW r \in Request, NEW phase \in Phase, InFlight(r), MoveTo(r, phase),
         UNCHANGED <<user, connected, session, passwords>>,
         InTransaction(r)' <=> transaction' = r,
         transaction' = transaction \/ {transaction, transaction'} \subseteq {Nobody, r},
         Fits(r)',
         \/ request[r].phase \notin {"answer", "timer"}
         \/ phase \in {"answer", "timer"}
  PROVE  IInv'
<1>1. /\ request' \in [Request -> Fields] /\ Others(r)
      /\ request'[r].phase = phase
      /\ request'[r].op = request[r].op /\ request'[r].name = request[r].name
      /\ request'[r].changed = request[r].changed
      /\ request'[r].socket = request[r].socket
  BY MoveToEffect DEF IInv
<1>2. Changes(r)' = Changes(r)
  BY <1>1, Zenon DEF Changes
<1>3. request'[r].name # Nobody
  BY <1>1, InFlightFacts, Constants
<1>4. request'[r].op \in {"update", "change"} => request'[r].socket # Nobody
  BY <1>1, InFlightFacts, Constants
<1>5. passwords' \in Nat
  BY DEF IInv, TypeOK
<1>. QED BY <1>1, <1>2, <1>3, <1>4, <1>5, RequestOnly

LEMMA FindStep ==
  ASSUME IInv, NEW r \in Request, Find(r)
  PROVE  IInv'
<1>1. InFlight(r) /\ request[r].phase = "find" /\ ~InTransaction(r)
      /\ UNCHANGED <<user, passwords, connected, session, transaction>>
  BY DEF Find, InFlight, InTransaction, Reads
<1>2. CASE Finish(r)
  BY <1>1, <1>2, Ends
<1>3. CASE MoveTo(r, "write") /\ (request[r].op = "reset" => Exists(request[r].name))
  <2>1. /\ request'[r].phase = "write"
        /\ request'[r].op = request[r].op /\ request'[r].name = request[r].name
    BY <1>1, <1>3, MoveToEffect DEF IInv, Phase
  <2>2. Fits(r) /\ request[r].op \in {"create", "reset", "change"}
    BY <1>1, InFlightFacts DEF Find
  <2>3. Fits(r)'
    BY <1>1, <1>3, <2>1, <2>2 DEF Fits, Exists, Steps, At
  <2>4. ~InTransaction(r)' /\ transaction' # r
    BY <1>1, <2>1, <2>2 DEF InTransaction, IInv, TransactionIsHeld
  <2>. QED BY <1>1, <1>3, <2>3, <2>4, MovesOn DEF Phase
<1>4. \/ Finish(r)
      \/ MoveTo(r, "write") /\ (request[r].op = "reset" => Exists(request[r].name))
  BY DEF Find
<1>. QED BY <1>2, <1>3, <1>4

LEMMA BeginStep ==
  ASSUME IInv, NEW r \in Request, Begin(r)
  PROVE  IInv'
<1>1. InFlight(r) /\ request[r].phase = "begin" /\ request[r].op = "update"
  BY DEF Begin, At, InFlight
<1>2. request'[r].phase = "select" /\ request'[r].op = "update"
  BY <1>1, MoveToEffect DEF Begin, IInv, Phase
<1>3. Fits(r)'
  BY <1>2 DEF Fits, Steps, At
<1>4. InTransaction(r)' /\ transaction' = r
  BY <1>2 DEF InTransaction, Begin
<1>. QED BY <1>1, <1>3, <1>4, MovesOn DEF Begin, Phase, Free

LEMMA AnswerStep ==
  ASSUME IInv, NEW r \in Request, Answer(r)
  PROVE  IInv'
<1>1. InFlight(r) /\ request[r].phase = "answer" /\ ~InTransaction(r)
      /\ UNCHANGED <<user, passwords, connected, session, transaction>>
  BY DEF Answer, InFlight, InTransaction, Reads
<1>2. CASE Changes(r)
  <2>1. MoveTo(r, "timer")
    BY <1>2 DEF Answer
  <2>2. /\ request'[r].phase = "timer"
        /\ request'[r].op = request[r].op /\ request'[r].name = request[r].name
    BY <1>1, <2>1, MoveToEffect DEF IInv, Phase
  <2>3. Fits(r) /\ request[r].op \in {"reset", "update"}
    BY <1>1, InFlightFacts DEF Fits, Steps, Fields, Op
  <2>4. Fits(r)'
    BY <1>1, <2>2, <2>3 DEF Fits, Exists, Steps, At
  <2>5. ~InTransaction(r)' /\ transaction' # r
    BY <1>1, <2>2 DEF InTransaction, IInv, TransactionIsHeld
  <2>. QED BY <1>1, <2>1, <2>4, <2>5, MovesOn DEF Phase
<1>3. CASE ~Changes(r)
  BY <1>1, <1>3, Ends DEF Answer
<1>. QED BY <1>2, <1>3

LEMMA QueryFailsStep ==
  ASSUME IInv, NEW r \in Request, QueryFails(r)
  PROVE  IInv'
<1>1. /\ request[r].phase \notin {"answer", "timer"} /\ Free(r)
      /\ transaction' = Nobody /\ Finish(r)
      /\ UNCHANGED <<user, connected, session>> /\ passwords' = passwords
  BY DEF QueryFails, Rollback
<1>. QED BY <1>1, Ends

LEMMA SelectStep ==
  ASSUME IInv, NEW r \in Request, Select(r)
  PROVE  IInv'
<1>. DEFINE n == request[r].name
<1>1. /\ InFlight(r) /\ request[r].phase = "select" /\ request[r].op = "update"
      /\ UNCHANGED <<user, passwords, connected, session>>
  BY DEF Select, At, InFlight
<1>2. InTransaction(r) /\ transaction = r
  BY <1>1 DEF InTransaction, IInv, TransactionIsHeld
<1>3. CASE Rollback(r)
  <2>1. Free(r) /\ transaction' = Nobody /\ Finish(r) /\ passwords' = passwords
    BY <1>1, <1>2, <1>3 DEF Rollback, Free
  <2>. QED BY <1>1, <2>1, Ends
<1>4. CASE ~Rollback(r)
  <2>. DEFINE demotes == \/ request[r].role # "admin"
                         \/ ~request[r].active
              phase == IF n \in Administrators /\ demotes THEN "count" ELSE "write"
  <2>1. /\ Exists(n)
        /\ request' = [request EXCEPT ![r].phase = phase, ![r].changed = Differs(r)]
        /\ transaction' = r
    BY <1>2, <1>4, Zenon DEF Select, Differs
  <2>2. phase \in {"count", "write"}
        /\ (phase = "write" =>
              (n \in Administrators => request[r].role = "admin" /\ request[r].active))
    <3>1. CASE n \in Administrators /\ demotes
      BY <3>1
    <3>2. CASE ~(n \in Administrators /\ demotes)
      <4>1. phase = "write"
        BY <3>2
      <4>2. n \in Administrators => request[r].role = "admin" /\ request[r].active
        BY <3>2, Zenon
      <4>. QED BY <4>1, <4>2, Zenon
    <3>. QED BY <3>1, <3>2
  <2>3. request[r] \in Fields /\ n \in Name /\ request[r].socket \in Socket
    BY <1>1, InFlightFacts
  <2>4. Differs(r) \in BOOLEAN
    BY DEF Differs
  <2>. HIDE DEF phase
  <2>5. /\ request' \in [Request -> Fields] /\ Others(r)
        /\ request'[r].phase = phase /\ request'[r].op = "update"
        /\ request'[r].name = request[r].name
        /\ request'[r].role = request[r].role
        /\ request'[r].active = request[r].active
        /\ request'[r].socket = request[r].socket
        /\ request'[r].changed = Differs(r)
    BY <1>1, <2>1, <2>2, <2>3, <2>4 DEF IInv, TypeOK, Fields, Phase, Others
  <2>6. Differs(r)' = Differs(r)
    BY <1>1, <2>5, Zenon DEF Differs
  <2>7. Checked(r)'
    BY <1>1, <2>1, <2>5, <2>6, Zenon DEF Checked, Exists
  <2>8. At(r, "update", "write")' => Safe(r)'
    BY <1>1, <2>2, <2>5 DEF At, Safe, Administrators
  <2>9. Fits(r)'
    BY <2>2, <2>5, <2>7, <2>8 DEF Fits, Steps
  <2>10. InTransaction(r)'
    BY <2>2, <2>5 DEF InTransaction
  <2>11. passwords' \in Nat /\ request'[r].name # Nobody /\ request'[r].socket # Nobody
    BY <1>1, <2>3, <2>5, Constants DEF IInv, TypeOK
  <2>. QED BY <1>1, <1>2, <2>1, <2>5, <2>9, <2>10, <2>11, RequestOnly
<1>. QED BY <1>3, <1>4

\* More than one administrator: one is left.
LEMMA CountStep ==
  ASSUME IInv, NEW r \in Request, CountAdministrators(r)
  PROVE  IInv'
<1>1. /\ InFlight(r) /\ request[r].phase = "count" /\ request[r].op = "update"
      /\ UNCHANGED <<user, passwords, connected, session>>
  BY DEF CountAdministrators, At, InFlight
<1>2. InTransaction(r) /\ transaction = r
  BY <1>1 DEF InTransaction, IInv, TransactionIsHeld
<1>3. CASE Cardinality(Administrators) <= 1
  <2>1. Rollback(r)
    BY <1>3 DEF CountAdministrators
  <2>2. Free(r) /\ transaction' = Nobody /\ Finish(r) /\ passwords' = passwords
    BY <1>1, <1>2, <2>1 DEF Rollback, Free
  <2>. QED BY <1>1, <2>2, Ends
<1>4. CASE ~(Cardinality(Administrators) <= 1)
  <2>1. MoveTo(r, "write") /\ transaction' = r
    BY <1>2, <1>4 DEF CountAdministrators
  <2>2. Safe(r)
    <3>1. CASE request[r].name \in Administrators
      <4>1. Administrators # {request[r].name}
        BY <1>4, FS_Singleton
      <4>. QED BY <3>1, <4>1 DEF Safe
    <3>. QED BY <3>1 DEF Safe
  <2>3. /\ request'[r].phase = "write" /\ request'[r].op = "update"
        /\ request'[r].name = request[r].name
        /\ request'[r].role = request[r].role
        /\ request'[r].active = request[r].active
        /\ request'[r].changed = request[r].changed
    BY <1>1, <2>1, MoveToEffect DEF IInv, Phase
  <2>4. Checked(r)
    BY <1>1, InFlightFacts DEF Fits
  <2>5. Differs(r)' = Differs(r)
    BY <1>1, <2>3, Zenon DEF Differs
  <2>6. Checked(r)'
    BY <1>1, <2>3, <2>4, <2>5, Zenon DEF Checked, Exists
  <2>7. Safe(r)'
    BY <1>1, <2>2, <2>3 DEF Safe, Administrators
  <2>8. Fits(r)' /\ InTransaction(r)'
    BY <2>3, <2>6, <2>7 DEF Fits, Steps, InTransaction
  <2>. QED BY <1>1, <2>1, <1>2, <2>8, MovesOn DEF Phase
<1>. QED BY <1>3, <1>4

-----------------------------------------------------------------------------
\* A step that writes the table, by the one request that has the connection.
LEMMA CommitStep ==
  ASSUME IInv, NEW r \in Request, Commit(r)
  PROVE  IInv'
<1>. DEFINE n == request[r].name
<1>1. /\ InFlight(r) /\ request[r].phase = "write" /\ request[r].op = "update"
      /\ UNCHANGED <<passwords, connected, session>> /\ transaction' = Nobody
      /\ MoveTo(r, "answer") /\ Free(r)
      /\ user' = [user EXCEPT ![n].role = request[r].role,
                              ![n].active = request[r].active]
  BY DEF Commit, At, InFlight
<1>2. InTransaction(r) /\ transaction = r
  BY <1>1 DEF InTransaction, IInv, TransactionIsHeld
<1>3. /\ request[r] \in Fields /\ n \in Name /\ Fits(r)
  BY <1>1, InFlightFacts
<1>4. Exists(n) /\ request[r].changed = Differs(r) /\ Safe(r)
  BY <1>1, <1>3 DEF Fits, Checked, At
<1>5. user[n] \in Row /\ n \in Name
  BY <1>3, <1>4 DEF IInv, TypeOK, Exists
<1>6. /\ user' \in [Name -> Row \union {NoRow}]
      /\ user'[n].role = request[r].role /\ user'[n].active = request[r].active
      /\ user'[n].password = user[n].password
      /\ user'[n] \in Row
      /\ \A m \in Name \ {n} : user'[m] = user[m]
  BY <1>1, <1>3, <1>5 DEF IInv, TypeOK, Row, Fields
<1>7. /\ request' \in [Request -> Fields] /\ Others(r)
      /\ request'[r].phase = "answer" /\ request'[r].op = "update"
      /\ request'[r].name = n /\ request'[r].changed = request[r].changed
      /\ request'[r].socket = request[r].socket
  BY <1>1, MoveToEffect DEF IInv, Phase
<1>8. TypeOK'
  <2>1. n # Nobody /\ request[r].socket # Nobody
    BY <1>1, <1>3, InFlightFacts, Constants
  <2>2. \A q \in Request :
           /\ InFlight(q)' => request'[q].name # Nobody
           /\ request'[q].op \in {"update", "change"} => request'[q].socket # Nobody
    BY <1>7, <2>1, RequestTypeKept DEF IInv
  <2>. QED BY <1>1, <1>6, <1>7, <2>2 DEF IInv, TypeOK
<1>9. TransactionIsHeld'
  BY <1>1, <1>2, <1>7, HeldKept, Constants DEF InTransaction
<1>10. RowsStay
  BY <1>6, Constants DEF RowsStay, Exists
<1>11. RequestFits'
  <2>1. Fits(r)'
    BY <1>7 DEF Fits, Steps, At
  <2>. QED BY <1>1, <1>7, <1>10, <2>1, FitsKept
<1>12. SessionFits'
  BY <1>1, <1>10 DEF IInv, SessionFits, RowsStay, TypeOK, Session
<1>13. AdministratorRemains'
  <2>1. PICK a \in Name : a \in Administrators
    BY <1>3, <1>4 DEF IInv, AdministratorRemains, Administrators
  <2>2. CASE request[r].role = "admin" /\ request[r].active
    BY <1>3, <1>6, <2>2 DEF AdministratorRemains, Administrators
  <2>3. CASE n \notin Administrators
    BY <1>6, <2>1, <2>3 DEF AdministratorRemains, Administrators
  <2>4. CASE \E m \in Administrators : m # n
    BY <1>6, <2>4 DEF AdministratorRemains, Administrators
  <2>. QED BY <1>4, <2>2, <2>3, <2>4 DEF Safe
<1>14. SessionsFollowAccounts'
  <2>1. CASE ~request[r].changed
    <3>1. user'[n].role = user[n].role /\ user'[n].active = user[n].active
      BY <1>4, <1>6, <2>1 DEF Differs
    <3>2. \A m \in Name : /\ user'[m].role = user[m].role
                          /\ user'[m].active = user[m].active
                          /\ user'[m].password = user[m].password
      BY <1>6, <3>1
    <3>3. \A s \in Socket : Outdated(s)' =>
             /\ Outdated(s)
             /\ session'[s].userID = session[s].userID
             /\ session'[s].unannounced = session[s].unannounced
      BY <1>1, <3>2 DEF Outdated, IInv, TypeOK, Session
    <3>. QED BY <1>1, <1>7, <3>3, FollowsKept
  <2>2. CASE request[r].changed
    <3>1. Changes(r)'
      BY <1>7, <2>2 DEF Changes
    <3>. SUFFICES ASSUME NEW s \in Socket, Outdated(s)', ~session[s].unannounced
         PROVE  \E q \in Request : /\ request'[q].name = session[s].userID
                                  /\ request'[q].phase \in {"answer", "timer"}
                                  /\ Changes(q)'
      BY <1>1, Zenon DEF SessionsFollowAccounts, AboutToSendAway
    <3>2. CASE session[s].userID = n
      BY <1>7, <3>1, <3>2
    <3>3. CASE session[s].userID # n
      <4>1. Outdated(s)
        BY <1>1, <1>6, <3>3 DEF Outdated, IInv, TypeOK, Session
      <4>2. PICK q \in Request : /\ request[q].name = session[s].userID
                                /\ request[q].phase \in {"answer", "timer"}
                                /\ Changes(q)
        BY <4>1 DEF IInv, SessionsFollowAccounts, AboutToSendAway
      <4>3. q # r /\ request'[q] = request[q]
        BY <1>1, <1>7, <4>2 DEF Others
      <4>. QED BY <4>2, <4>3 DEF Changes
    <3>. QED BY <3>2, <3>3
  <2>. QED BY <2>1, <2>2
<1>. QED BY <1>8, <1>9, <1>11, <1>12, <1>13, <1>14 DEF IInv

\* A new row is nobody's session, and keeps the administrators.
LEMMA InsertStep ==
  ASSUME IInv, NEW r \in Request, Insert(r)
  PROVE  IInv'
<1>. DEFINE n == request[r].name
<1>1. /\ InFlight(r) /\ request[r].phase = "write"
      /\ request[r].op \in {"setup", "create"}
      /\ UNCHANGED <<passwords, connected, session, transaction>>
      /\ Finish(r) /\ Free(r)
  BY DEF Insert, InFlight
<1>2. CASE Exists(n)
  <2>1. user' = user /\ ~InTransaction(r) /\ passwords' = passwords
    BY <1>1, <1>2 DEF Insert, InTransaction
  <2>. QED BY <1>1, <2>1, Ends
<1>3. CASE ~Exists(n)
  <2>. DEFINE new == [role |-> request[r].role, active |-> TRUE,
                      password |-> request[r].password]
  <2>1. user' = [user EXCEPT ![n] = new]
    BY <1>3 DEF Insert
  <2>2. /\ request[r] \in Fields /\ n \in Name /\ Fits(r)
    BY <1>1, InFlightFacts
  <2>3. new \in Row /\ new.role = request[r].role /\ new.active
    BY <2>2 DEF Row, Fields
  <2>. HIDE DEF new
  <2>4. /\ user' \in [Name -> Row \union {NoRow}] /\ user'[n] = new
        /\ \A m \in Name \ {n} : user'[m] = user[m]
        /\ user'[n] # NoRow
    BY <2>1, <2>2, <2>3, Constants DEF IInv, TypeOK
  <2>5. /\ request' \in [Request -> Fields] /\ Others(r) /\ request'[r] = Idle
    BY <1>1, FinishEffect DEF IInv
  <2>6. TypeOK'
    <3>1. \A q \in Request :
           /\ InFlight(q)' => request'[q].name # Nobody
           /\ request'[q].op \in {"update", "change"} => request'[q].socket # Nobody
      BY <2>5, Constants, RequestTypeKept DEF IInv
    <3>. QED BY <1>1, <2>4, <2>5, <3>1 DEF IInv, TypeOK
  <2>7. TransactionIsHeld'
    <3>1. ~InTransaction(r) /\ ~InTransaction(r)'
      BY <1>1, <2>5, Constants DEF InTransaction
    <3>. QED BY <1>1, <2>5, <3>1, HeldKept DEF IInv, TransactionIsHeld
  <2>8. RowsStay
    BY <2>4 DEF RowsStay, Exists
  <2>9. RequestFits'
    BY <1>1, <2>5, <2>8, Constants, FitsKept
  <2>10. SessionFits'
    BY <1>1, <2>8 DEF IInv, SessionFits, RowsStay, TypeOK, Session
  <2>11. AdministratorRemains'
    <3>1. CASE request[r].op = "setup"
      BY <2>2, <2>3, <2>4, <3>1 DEF Fits, AdministratorRemains, Administrators
    <3>2. CASE request[r].op = "create"
      <4>1. PICK a \in Name : a \in Administrators
        BY <2>2, <3>2 DEF Fits, IInv, AdministratorRemains, Administrators
      <4>2. a # n
        BY <1>3, <4>1, Constants DEF Exists, Administrators
      <4>. QED BY <2>4, <4>1, <4>2 DEF AdministratorRemains, Administrators
    <3>. QED BY <1>1, <3>1, <3>2
  <2>12. SessionsFollowAccounts'
    <3>1. \A s \in Socket : session[s].userID # Nobody => session[s].userID # n
      BY <1>3 DEF IInv, SessionFits
    <3>2. \A s \in Socket : Outdated(s)' =>
             /\ Outdated(s)
             /\ session'[s].userID = session[s].userID
             /\ session'[s].unannounced = session[s].unannounced
      BY <1>1, <2>4, <3>1 DEF Outdated, IInv, TypeOK, Session
    <3>. QED BY <1>1, <2>5, <3>2, FollowsKept
  <2>. QED BY <2>6, <2>7, <2>9, <2>10, <2>11, <2>12 DEF IInv
<1>. QED BY <1>2, <1>3

\* What a new password changes in the table: nothing but that.
LEMMA NewPassword ==
  ASSUME IInv, NEW r \in Request, InFlight(r), Exists(request[r].name),
         user' = [user EXCEPT ![request[r].name].password = request[r].password]
  PROVE  /\ user' \in [Name -> Row \union {NoRow}]
         /\ RowsStay
         /\ \A m \in Name : /\ user'[m].role = user[m].role
                            /\ user'[m].active = user[m].active
         /\ \A m \in Name \ {request[r].name} : user'[m] = user[m]
         /\ user'[request[r].name].password = request[r].password
         /\ AdministratorRemains'
<1>. DEFINE n == request[r].name
<1>1. n \in Name /\ request[r] \in Fields
  BY InFlightFacts
<1>2. user[n] \in Row
  BY <1>1 DEF IInv, TypeOK, Exists
<1>3. /\ user'[n] \in Row /\ user'[n].role = user[n].role
      /\ user'[n].active = user[n].active
      /\ user'[n].password = request[r].password
      /\ \A m \in Name \ {n} : user'[m] = user[m]
      /\ user' \in [Name -> Row \union {NoRow}]
  BY <1>1, <1>2 DEF IInv, TypeOK, Row, Fields
<1>4. RowsStay
  BY <1>3, Constants DEF RowsStay, Exists
<1>5. \A m \in Name : user'[m].role = user[m].role /\ user'[m].active = user[m].active
  BY <1>3
<1>6. Administrators' = Administrators
  BY <1>5 DEF Administrators
<1>7. AdministratorRemains'
  BY <1>1, <1>6 DEF IInv, AdministratorRemains
<1>. QED BY <1>1, <1>3, <1>4, <1>5, <1>7

LEMMA ResetStep ==
  ASSUME IInv, NEW r \in Request, Reset(r)
  PROVE  IInv'
<1>. DEFINE n == request[r].name
<1>1. /\ InFlight(r) /\ request[r].phase = "write" /\ request[r].op = "reset"
      /\ UNCHANGED <<passwords, connected, session, transaction>>
      /\ MoveTo(r, "answer") /\ Free(r) /\ ~InTransaction(r)
  BY DEF Reset, At, InFlight, InTransaction
<1>2. Fits(r) /\ n \in Name /\ Exists(n)
  BY <1>1, InFlightFacts DEF Fits
<1>3. /\ user' \in [Name -> Row \union {NoRow}] /\ RowsStay
      /\ \A m \in Name \ {n} : user'[m] = user[m]
      /\ AdministratorRemains'
  BY <1>1, <1>2, NewPassword DEF Reset
<1>4. /\ request' \in [Request -> Fields] /\ Others(r)
      /\ request'[r].phase = "answer" /\ request'[r].op = "reset"
      /\ request'[r].name = n
  BY <1>1, MoveToEffect DEF IInv, Phase
<1>5. TypeOK'
  <2>1. \A q \in Request :
           /\ InFlight(q)' => request'[q].name # Nobody
           /\ request'[q].op \in {"update", "change"} => request'[q].socket # Nobody
    BY <1>2, <1>4, Constants, RequestTypeKept DEF IInv
  <2>. QED BY <1>1, <1>3, <1>4, <2>1 DEF IInv, TypeOK
<1>6. TransactionIsHeld'
  BY <1>1, <1>4, HeldKept DEF InTransaction, IInv, TransactionIsHeld
<1>7. RequestFits'
  <2>1. Fits(r)'
    BY <1>2, <1>3, <1>4 DEF Fits, Steps, At, RowsStay
  <2>. QED BY <1>1, <1>3, <1>4, <2>1, FitsKept
<1>8. SessionFits'
  BY <1>1, <1>3 DEF IInv, SessionFits, RowsStay, TypeOK, Session
<1>9. SessionsFollowAccounts'
  <2>1. Changes(r)'
    BY <1>4 DEF Changes
  <2>. SUFFICES ASSUME NEW s \in Socket, Outdated(s)', ~session[s].unannounced
       PROVE  \E q \in Request : /\ request'[q].name = session[s].userID
                                /\ request'[q].phase \in {"answer", "timer"}
                                /\ Changes(q)'
    BY <1>1, Zenon DEF SessionsFollowAccounts, AboutToSendAway
  <2>2. CASE session[s].userID = n
    BY <1>4, <2>1, <2>2
  <2>3. CASE session[s].userID # n
    <3>1. Outdated(s)
      BY <1>1, <1>3, <2>3 DEF Outdated, IInv, TypeOK, Session
    <3>2. PICK q \in Request : /\ request[q].name = session[s].userID
                              /\ request[q].phase \in {"answer", "timer"}
                              /\ Changes(q)
      BY <3>1 DEF IInv, SessionsFollowAccounts, AboutToSendAway
    <3>3. q # r /\ request'[q] = request[q]
      BY <1>1, <1>4, <3>2 DEF Others
    <3>. QED BY <3>2, <3>3 DEF Changes
  <2>. QED BY <2>2, <2>3
<1>. QED BY <1>3, <1>5, <1>6, <1>7, <1>8, <1>9 DEF IInv

\* The user's other sockets are gone at once, and this one goes along.
LEMMA ChangeStep ==
  ASSUME IInv, NEW r \in Request, ChangePassword(r)
  PROVE  IInv'
<1>. DEFINE n == request[r].name
            t == request[r].socket
<1>1. /\ InFlight(r) /\ request[r].phase = "write" /\ request[r].op = "change"
      /\ UNCHANGED <<passwords, transaction>>
      /\ Finish(r) /\ Free(r) /\ ~InTransaction(r)
      /\ connected' = connected \ (SocketsOf(n) \ {t})
      /\ session' = IF session[t].userID = n
                    THEN [session EXCEPT ![t].password = request[r].password]
                    ELSE session
  BY DEF ChangePassword, At, InFlight, InTransaction, SendAway
<1>2. Fits(r) /\ n \in Name /\ Exists(n) /\ t \in Socket /\ request[r] \in Fields
  BY <1>1, InFlightFacts DEF Fits
<1>3. /\ user' \in [Name -> Row \union {NoRow}] /\ RowsStay
      /\ \A m \in Name : /\ user'[m].role = user[m].role
                         /\ user'[m].active = user[m].active
      /\ \A m \in Name \ {n} : user'[m] = user[m]
      /\ user'[n].password = request[r].password
      /\ AdministratorRemains'
  BY <1>1, <1>2, NewPassword DEF ChangePassword
<1>4. /\ request' \in [Request -> Fields] /\ Others(r) /\ request'[r] = Idle
  BY <1>1, FinishEffect DEF IInv
<1>5. /\ session' \in [Socket -> Session] /\ connected' \subseteq connected
      /\ \A s \in Socket : /\ session'[s].userID = session[s].userID
                           /\ session'[s].userRole = session[s].userRole
                           /\ session'[s].unannounced = session[s].unannounced
                           /\ s # t => session'[s] = session[s]
      /\ session[t].userID = n => session'[t].password = request[r].password
      /\ session[t].userID # n => session'[t] = session[t]
  <2>1. connected' \subseteq connected
    BY <1>1
  <2>2. CASE session[t].userID = n
    BY <1>1, <1>2, <2>1, <2>2 DEF IInv, TypeOK, Session, Fields
  <2>3. CASE session[t].userID # n
    BY <1>1, <2>1, <2>3 DEF IInv, TypeOK
  <2>. QED BY <2>2, <2>3
<1>6. TypeOK'
  <2>1. \A q \in Request :
           /\ InFlight(q)' => request'[q].name # Nobody
           /\ request'[q].op \in {"update", "change"} => request'[q].socket # Nobody
    BY <1>4, Constants, RequestTypeKept DEF IInv
  <2>. QED BY <1>1, <1>3, <1>4, <1>5, <2>1 DEF IInv, TypeOK
<1>7. TransactionIsHeld'
  <2>1. ~InTransaction(r)'
    BY <1>4, Constants DEF InTransaction
  <2>. QED BY <1>1, <1>4, <2>1, HeldKept DEF IInv, TransactionIsHeld
<1>8. RequestFits'
  BY <1>1, <1>3, <1>4, Constants, FitsKept
<1>9. SessionFits'
  BY <1>3, <1>5 DEF IInv, SessionFits, RowsStay, TypeOK, Session
<1>10. SessionsFollowAccounts'
  <2>1. ASSUME NEW s \in Socket, Outdated(s)' PROVE Outdated(s)
    <3>1. CASE session[s].userID = n
      <4>1. s = t
        BY <1>1, <1>5, <2>1, <3>1 DEF Outdated, SocketsOf
      <4>2. session'[s].password = user'[n].password
        BY <1>3, <1>5, <3>1, <4>1
      <4>. QED BY <1>2, <1>3, <1>5, <2>1, <3>1, <4>2 DEF Outdated
    <3>2. CASE session[s].userID # n
      <4>1. session'[s] = session[s]
        BY <1>5, <3>2
      <4>2. session[s].userID \in Name \ {n}
        BY <2>1, <3>2, <4>1 DEF Outdated, IInv, TypeOK, Session
      <4>. QED BY <1>3, <1>5, <2>1, <4>1, <4>2 DEF Outdated
    <3>. QED BY <3>1, <3>2
  <2>. QED BY <1>1, <1>4, <1>5, <2>1, FollowsKept
<1>. QED BY <1>3, <1>6, <1>7, <1>8, <1>9, <1>10 DEF IInv

\* The sessions that the failed answer leaves behind are known to be so.
LEMMA ListFailsStep ==
  ASSUME IInv, NEW r \in Request, ListFails(r)
  PROVE  IInv'
<1>. DEFINE left(s) == /\ request[r].changed /\ session[s].userID = request[r].name
                       /\ Outdated(s)
<1>1. /\ InFlight(r) /\ request[r].phase = "answer" /\ request[r].op = "update"
      /\ UNCHANGED <<user, passwords, connected, transaction>>
      /\ Finish(r) /\ ~InTransaction(r)
      /\ session' = [s \in Socket |->
           IF left(s) THEN [session[s] EXCEPT !.unannounced = TRUE] ELSE session[s]]
  BY DEF ListFails, At, InFlight, InTransaction
<1>2. /\ request' \in [Request -> Fields] /\ Others(r) /\ request'[r] = Idle
  BY <1>1, FinishEffect DEF IInv
<1>3. ASSUME NEW s \in Socket
      PROVE  /\ session'[s] \in Session
             /\ session'[s].userID = session[s].userID
             /\ session'[s].userRole = session[s].userRole
             /\ session'[s].password = session[s].password
             /\ left(s) => session'[s].unannounced = TRUE
             /\ ~left(s) => session'[s] = session[s]
  <2>1. session[s] \in Session
    BY DEF IInv, TypeOK
  <2>2. CASE left(s)
    <3>1. session'[s] = [session[s] EXCEPT !.unannounced = TRUE]
      BY <1>1, <2>2
    <3>. HIDE DEF left
    <3>. QED BY <2>1, <2>2, <3>1 DEF Session
  <2>3. CASE ~left(s)
    <3>1. session'[s] = session[s]
      BY <1>1, <2>3, Zenon
    <3>. HIDE DEF left
    <3>. QED BY <2>1, <2>3, <3>1
  <2>. QED BY <2>2, <2>3
<1>4. session' \in [Socket -> Session]
  <2>. HIDE DEF left
  <2>. QED BY <1>1, <1>3
<1>5. TypeOK'
  <2>1. \A q \in Request :
           /\ InFlight(q)' => request'[q].name # Nobody
           /\ request'[q].op \in {"update", "change"} => request'[q].socket # Nobody
    BY <1>2, Constants, RequestTypeKept DEF IInv
  <2>. QED BY <1>1, <1>2, <1>4, <2>1 DEF IInv, TypeOK
<1>6. TransactionIsHeld'
  <2>1. ~InTransaction(r)'
    BY <1>2, Constants DEF InTransaction
  <2>. QED BY <1>1, <1>2, <2>1, HeldKept DEF IInv, TransactionIsHeld
<1>7. RowsStay
  BY <1>1 DEF RowsStay, Exists
<1>8. RequestFits'
  BY <1>1, <1>2, <1>7, Constants, FitsKept
<1>9. SessionFits'
  BY <1>1, <1>3 DEF IInv, SessionFits, Exists
<1>10. AdministratorRemains'
  BY <1>1 DEF IInv, AdministratorRemains, Exists, Administrators
<1>11. SessionsFollowAccounts'
  <2>. SUFFICES ASSUME NEW s \in Socket, Outdated(s)', session'[s].unannounced # TRUE
       PROVE  \E q \in Request : /\ request'[q].name = session[s].userID
                                /\ request'[q].phase \in {"answer", "timer"}
                                /\ Changes(q)'
    BY <1>3, Zenon DEF SessionsFollowAccounts, AboutToSendAway
  <2>1. Outdated(s)
    BY <1>1, <1>3 DEF Outdated
  <2>2. ~left(s) /\ session'[s] = session[s]
    BY <1>3
  <2>3. session[s].unannounced = FALSE
    BY <2>2 DEF IInv, TypeOK, Session
  <2>4. PICK q \in Request : /\ request[q].name = session[s].userID
                            /\ request[q].phase \in {"answer", "timer"}
                            /\ Changes(q)
    BY <2>1, <2>3 DEF IInv, SessionsFollowAccounts, AboutToSendAway
  <2>5. q # r
    BY <1>1, <2>1, <2>2, <2>4 DEF Changes
  <2>6. request'[q] = request[q]
    BY <1>2, <2>5 DEF Others
  <2>. QED BY <2>4, <2>6 DEF Changes
<1>. QED BY <1>5, <1>6, <1>8, <1>9, <1>10, <1>11 DEF IInv

\* The user's sockets are sent away: none of its sessions is outdated.
LEMMA TimerStep ==
  ASSUME IInv, NEW r \in Request, Timer(r)
  PROVE  IInv'
<1>. DEFINE n == request[r].name
<1>1. /\ InFlight(r) /\ request[r].phase = "timer"
      /\ UNCHANGED <<user, passwords, session, transaction>>
      /\ Finish(r) /\ ~InTransaction(r)
      /\ connected' = connected \ (SocketsOf(n) \ {Nobody})
  BY DEF Timer, InFlight, InTransaction, SendAway
<1>2. /\ request' \in [Request -> Fields] /\ Others(r) /\ request'[r] = Idle
  BY <1>1, FinishEffect DEF IInv
<1>3. TypeOK'
  <2>1. \A q \in Request :
           /\ InFlight(q)' => request'[q].name # Nobody
           /\ request'[q].op \in {"update", "change"} => request'[q].socket # Nobody
    BY <1>2, Constants, RequestTypeKept DEF IInv
  <2>. QED BY <1>1, <1>2, <2>1 DEF IInv, TypeOK
<1>4. TransactionIsHeld'
  <2>1. ~InTransaction(r)'
    BY <1>2, Constants DEF InTransaction
  <2>. QED BY <1>1, <1>2, <2>1, HeldKept DEF IInv, TransactionIsHeld
<1>5. RowsStay
  BY <1>1 DEF RowsStay, Exists
<1>6. RequestFits'
  BY <1>1, <1>2, <1>5, Constants, FitsKept
<1>7. SessionFits'
  BY <1>1 DEF IInv, SessionFits, Exists
<1>8. AdministratorRemains'
  BY <1>1 DEF IInv, AdministratorRemains, Exists, Administrators
<1>9. SessionsFollowAccounts'
  <2>. SUFFICES ASSUME NEW s \in Socket, Outdated(s)', ~session[s].unannounced
       PROVE  \E q \in Request : /\ request'[q].name = session[s].userID
                                /\ request'[q].phase \in {"answer", "timer"}
                                /\ Changes(q)'
    BY <1>1, Zenon DEF SessionsFollowAccounts, AboutToSendAway
  <2>1. Outdated(s) /\ session[s].userID # n
    BY <1>1, Constants DEF Outdated, SocketsOf
  <2>2. PICK q \in Request : /\ request[q].name = session[s].userID
                            /\ request[q].phase \in {"answer", "timer"}
                            /\ Changes(q)
    BY <2>1 DEF IInv, SessionsFollowAccounts, AboutToSendAway
  <2>3. q # r /\ request'[q] = request[q]
    BY <1>2, <2>1, <2>2 DEF Others
  <2>. QED BY <2>2, <2>3 DEF Changes
<1>. QED BY <1>3, <1>4, <1>6, <1>7, <1>8, <1>9 DEF IInv

-----------------------------------------------------------------------------
\* A step of sockets and sessions, by which no session becomes outdated.
LEMMA SocketsOnly ==
  ASSUME IInv, UNCHANGED <<user, passwords, transaction, request>>,
         connected' \subseteq Socket, session' \in [Socket -> Session],
         \A s \in Socket : session'[s].userID # Nobody => Exists(session'[s].userID),
         \A s \in Socket : Outdated(s)' => Outdated(s) /\ session'[s] = session[s]
  PROVE  IInv'
<1>1. TypeOK'
  BY DEF IInv, TypeOK, InFlight
<1>2. TransactionIsHeld'
  BY DEF IInv, TransactionIsHeld, InTransaction
<1>3. RequestFits'
  <2>. SUFFICES ASSUME NEW q \in Request, request[q].phase # "idle"
       PROVE  Fits(q)'
    BY DEF RequestFits, InFlight
  <2>1. Fits(q)
    BY DEF IInv, RequestFits, InFlight
  <2>2. Differs(q)' = Differs(q)
    BY Zenon DEF Differs
  <2>3. Checked(q) => Checked(q)'
    BY <2>2, Zenon DEF Checked, Exists
  <2>4. Safe(q) => Safe(q)'
    BY DEF Safe, Administrators
  <2>. QED BY <2>1, <2>3, <2>4 DEF Fits, Exists, At
<1>4. SessionFits'
  BY DEF SessionFits, Exists
<1>5. AdministratorRemains'
  BY DEF IInv, AdministratorRemains, Exists, Administrators
<1>6. SessionsFollowAccounts'
  BY DEF IInv, SessionsFollowAccounts, AboutToSendAway, Changes
<1>. QED BY <1>1, <1>2, <1>3, <1>4, <1>5, <1>6 DEF IInv

\* A socket that goes away takes nothing with it.
LEMMA FewerSockets ==
  ASSUME IInv, UNCHANGED <<user, passwords, transaction, request, session>>,
         connected' \subseteq connected
  PROVE  IInv'
<1>1. \A s \in Socket : Outdated(s)' => Outdated(s) /\ session'[s] = session[s]
  BY DEF Outdated
<1>2. \A s \in Socket : session'[s].userID # Nobody => Exists(session'[s].userID)
  BY DEF IInv, SessionFits
<1>. QED BY <1>1, <1>2, SocketsOnly DEF IInv, TypeOK

LEMMA ConnectStep ==
  ASSUME IInv, NEW s \in Socket, Connect(s)
  PROVE  IInv'
<1>1. /\ session' \in [Socket -> Session] /\ session'[s] = LoggedOut
      /\ \A t \in Socket \ {s} : session'[t] = session[t]
  BY Constants DEF Connect, IInv, TypeOK
<1>2. \A t \in Socket : Outdated(t)' => Outdated(t) /\ session'[t] = session[t]
  BY <1>1, Constants DEF Outdated, Connect
<1>3. \A t \in Socket : session'[t].userID # Nobody => Exists(session'[t].userID)
  BY <1>1, Constants DEF IInv, SessionFits
<1>. QED BY <1>1, <1>2, <1>3, SocketsOnly DEF Connect, IInv, TypeOK

LEMMA LoginStep ==
  ASSUME IInv, NEW s \in Socket, NEW n \in Name, Login(s, n)
  PROVE  IInv'
<1>1. user[n].active /\ user[n] \in Row /\ Exists(n)
  BY Constants DEF Login, IInv, TypeOK, Exists
<1>. DEFINE new == [userID |-> n, userRole |-> user[n].role,
                    password |-> user[n].password, unannounced |-> FALSE]
<1>2. new \in Session /\ new.userID = n /\ new.userRole = user[n].role
      /\ new.password = user[n].password
  BY <1>1 DEF Session, Row
<1>3. session' = [session EXCEPT ![s] = new]
  BY DEF Login, AfterLogin
<1>. HIDE DEF new
<1>4. /\ session' \in [Socket -> Session] /\ session'[s] = new
      /\ \A t \in Socket \ {s} : session'[t] = session[t]
  BY <1>2, <1>3 DEF IInv, TypeOK
<1>5. ~Outdated(s)'
  BY <1>1, <1>2, <1>4 DEF Outdated, Login
<1>6. \A t \in Socket : Outdated(t)' => Outdated(t) /\ session'[t] = session[t]
  BY <1>4, <1>5 DEF Outdated, Login
<1>7. \A t \in Socket : session'[t].userID # Nobody => Exists(session'[t].userID)
  BY <1>1, <1>2, <1>4 DEF IInv, SessionFits
<1>. QED BY <1>4, <1>6, <1>7, SocketsOnly DEF Login, IInv, TypeOK

LEMMA RestartStep == ASSUME IInv, Restart PROVE IInv'
<1>1. /\ TypeOK' /\ \A r \in Request : request'[r] = Idle
      /\ transaction' = Nobody /\ connected' = {}
      /\ \A s \in Socket : session'[s] = LoggedOut
  BY Constants DEF Restart, IInv, TypeOK, InFlight
<1>2. TransactionIsHeld' /\ RequestFits'
  BY <1>1, Constants DEF TransactionIsHeld, InTransaction, RequestFits, InFlight
<1>3. SessionFits' /\ SessionsFollowAccounts'
  BY <1>1, Constants DEF SessionFits, SessionsFollowAccounts, Outdated
<1>4. AdministratorRemains'
  BY DEF Restart, IInv, AdministratorRemains, Exists, Administrators
<1>. QED BY <1>1, <1>2, <1>3, <1>4 DEF IInv

LEMMA Inductive == IInv /\ [Next]_vars => IInv'
<1>. SUFFICES ASSUME IInv, [Next]_vars PROVE IInv'
  OBVIOUS
<1>1. ASSUME NEW s \in Socket,
             Connect(s) \/ Leave(s) \/ DisconnectOtherSocketClients(s)
      PROVE  IInv'
  <2>1. CASE Connect(s)
    BY <2>1, ConnectStep
  <2>2. CASE Leave(s)
    BY <2>2, FewerSockets DEF Leave
  <2>3. CASE DisconnectOtherSocketClients(s)
    BY <2>3, FewerSockets DEF DisconnectOtherSocketClients, SendAway
  <2>. QED BY <1>1, <2>1, <2>2, <2>3
<1>2. ASSUME NEW s \in Socket, NEW n \in Name, Login(s, n) PROVE IInv'
  BY <1>2, LoginStep
<1>3. ASSUME NEW r \in Request, NEW n \in Name, NEW p \in Payload("setup"), Setup(r, n, p)
      PROVE  IInv'
  BY <1>3, SetupStep
<1>4. ASSUME NEW r \in Request, NEW n \in Name, NEW s \in Socket,
             NEW op \in {"create", "update", "reset"}, NEW p \in Payload(op),
             Administer(r, s, op, n, p)
      PROVE  IInv'
  BY <1>4, AdministerStep
<1>5. ASSUME NEW r \in Request, NEW s \in Socket, NEW p \in Payload("change"),
             StartChange(r, s, p)
      PROVE  IInv'
  BY <1>5, StartChangeStep
<1>6. ASSUME NEW r \in Request, Query(r) \/ Timer(r) PROVE IInv'
  BY <1>6, FindStep, InsertStep, ResetStep, ChangeStep, BeginStep, SelectStep,
     CountStep, CommitStep, AnswerStep, ListFailsStep, QueryFailsStep, TimerStep
     DEF Query
<1>7. CASE Restart
  BY <1>7, RestartStep
<1>8. CASE UNCHANGED vars
  BY <1>8, FewerSockets DEF vars
<1>. QED BY <1>1, <1>2, <1>3, <1>4, <1>5, <1>6, <1>7, <1>8 DEF Next

\* The types of the table, the sessions and the requests.
THEOREM TypeCorrect == Spec => []TypeOK
<1>1. IInv => TypeOK
  BY DEF IInv
<1>. QED BY <1>1, InitInv, Inductive, PTL DEF Spec

\* Of any number of users one active administrator remains, however many
\* administrators demote and disable each other at once
\* (user-socket-handler.ts:95-100).
THEOREM AdministratorAlwaysRemains == Spec => []AdministratorRemains
<1>1. IInv => AdministratorRemains
  BY DEF IInv
<1>. QED BY <1>1, InitInv, Inductive, PTL DEF Spec

\* A connected session goes with the role, the activation and the password of
\* its account, or is about to be sent away (user-socket-handler.ts:116-118,153,
\* main-socket-handler.ts:246).
THEOREM SessionsAlwaysFollowAccounts == Spec => []SessionsFollowAccounts
<1>1. IInv => SessionsFollowAccounts
  BY DEF IInv
<1>. QED BY <1>1, InitInv, Inductive, PTL DEF Spec
=============================================================================
