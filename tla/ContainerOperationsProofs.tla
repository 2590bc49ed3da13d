--------------------- MODULE ContainerOperationsProofs ---------------------
(***************************************************************************)
(* For any number of containers, requests, commands and failures: types, no *)
(* container lost, the containers shown as restarting, clean-ups that empty *)
(* what was shown, answers that are true, and failures that restore.        *)
(***************************************************************************)
EXTENDS ContainerOperations, FiniteSetTheorems, FunctionTheorems, TLAPS

\* The phases of a request outside Compose and of one for a service.
ByHand == {"check", "exists", "look", "stop", "remove", "create", "start", "verify"}
ByCompose == {"check", "edit", "up", "confirm"}

\* A service's container has the service's name, and no other has it.
RightName(name, app) == name \in Service \/ app \in Service => app = name

\* What holds of a request by itself.
Fits(q) ==
  q.kind # "none" =>
    /\ q.seen \in Inspect /\ q.target \in Port
    /\ RightName(q.seen.name, q.seen.app)
    /\ q.backup # None => q.backup.app = q.seen.app
    /\ q.phase = "shown" => q.kind \in {"update", "clean"}
    /\ q.phase = "check" => q.kind = "update" /\ q.hits = 0
    /\ q.phase = "edit" /\ q.kind = "rollback" => q.backup # None
    /\ q.kind = "clean" => q.phase \in {"shown", "inspect", "empty"}
    /\ q.kind # "clean" /\ q.phase # "shown"
         => /\ q.seen.app \in Service => q.phase \in ByCompose
            /\ q.seen.app \notin Service => q.phase \in ByHand
    /\ q.kind = "clean" /\ q.phase # "empty" => q.emptied = {}
    /\ q.kind = "clean" /\ q.phase = "empty" => q.emptied \union q.left = q.shown
    /\ q.pass = "do" => q.hits <= 1
    /\ q.pass = "do" /\ q.phase = "exists" => q.hits = 0
    /\ q.phase = "exists" => q.hits <= 2
    /\ q.pass = "restore" => q.hits >= 1 /\ q.phase \in ByHand \ {"check", "verify"}

RequestsFit == \A r \in Req : Fits(req[r])

ServicesNamed ==
  \A n \in Name : /\ Present(n) => RightName(n, docker[n].app)
                  /\ offered[n] # None => RightName(n, offered[n].app)

\* Where one app was meant and the other is found, both are crossed.
Meant(a, b) == a = b \/ (a \in crossed /\ b \in crossed)

\* The container under the name that a request works on is the one it means.
FoundAsMeant ==
  \A r \in Req : Working(r) /\ Present(NameOf(r)) =>
                   Meant(docker[NameOf(r)].app, req[r].seen.app)

\* Requests that work on one name mean the same container.
OneMeant ==
  \A r, x \in Req : Working(r) /\ Working(x) /\ NameOf(r) = NameOf(x) =>
                      Meant(req[r].seen.app, req[x].seen.app)

\* A request that is alone shares its containers with no other.
Apart ==
  \A r, x \in Req : r # x /\ Working(r) /\ Working(x) /\ req[r].alone =>
                      Reach(req[r]) \intersect Reach(req[x]) = {}

IInv ==
  /\ TypeOK /\ RequestsFit /\ ServicesNamed
  /\ FoundAsMeant /\ OneMeant /\ Apart
  /\ NeverLost /\ ShownWhileRebuilt /\ CleanUpIsExact

\* Where the container is, at each phase, for a request that nothing else
\* interfered with: as it was found until it is stopped and removed; there or
\* not there as the restoration found it; and as it was to be created from then
\* on.  For a service it is the file that says how.
InOrder(r) ==
  LET q == req[r]  n == NameOf(r)  c == docker[n]
      fresh == q.kind \in {"recreate", "update"} /\ ~Restoring(r)
      once == Restoring(r) /\ q.hits <= 1
  IN  /\ Compose(r) /\ q.kind # "recreate" /\ q.phase \in {"up", "confirm"}
           => file[n] = q.target
      /\ Compose(r) /\ q.phase = "confirm" => Present(n) /\ c.port = file[n]
      /\ Compose(r) /\ q.kind = "rollback" /\ q.phase = "edit"
           => q.target = q.backup.file[n]
      /\ ~Compose(r) =>
           /\ fresh /\ q.phase \in {"check", "exists", "look", "stop", "remove"}
                => Present(n) /\ c.port = q.seen.port
           /\ fresh /\ q.phase \in {"check", "exists", "look", "stop"}
                => c.running = q.seen.running
           /\ once /\ q.phase \in {"look", "stop", "remove"} => Present(n)
           /\ (fresh \/ once) /\ q.phase = "remove" => ~c.running
           /\ once /\ q.phase = "create" => ~Present(n)
           /\ q.phase \in {"start", "verify"}
                => /\ Present(n) /\ c.app = q.seen.app /\ q.seen.running
                   /\ c.port = IF Restoring(r) THEN q.seen.port ELSE q.target
           /\ q.phase = "verify" => c.running

AllInOrder == \A r \in Req : Working(r) /\ req[r].alone => InOrder(r)

\* The answer "ok" of a request that was alone, as AnswerIsTrue has it.
TruthOf(r) ==
  Ends(r, "ok") /\ req[r].alone =>
    LET n == NameOf(r)
    IN  /\ docker'[n] # None
        /\ docker'[n].app = req[r].seen.app
        /\ Compose(r) => file'[n] = docker'[n].port
        /\ req[r].kind # "recreate" => docker'[n].port = req[r].target
        /\ Compose(r) \/ req[r].seen.running => docker'[n].running

\* The answer "error" of one that met one failure, as FailureRestores has it.
RestoredBy(r) ==
  /\ Ends(r, "error") /\ req[r].alone /\ ~Compose(r)
  /\ req[r].kind \in {"recreate", "update"}
  /\ req[r].hits + (faults' - faults) <= 1
  => LET c == docker'[NameOf(r)]
     IN  /\ c # None
         /\ c.port = req[r].seen.port
         /\ \/ c.running = req[r].seen.running
            \/ \E n \in Name \ {NameOf(r)} :
                 /\ docker'[n] # None /\ docker'[n].running
                 /\ docker'[n].port = c.port
            \/ req[r].phase = "remove" /\ ~Restoring(r)

\* What a step does to a request: it keeps its order, or its answer is right.
Well(r) ==
  /\ TruthOf(r) /\ RestoredBy(r)
  /\ Working(r)' /\ req'[r].alone => InOrder(r)'

AllWell == AllInOrder => \A r \in Req : Well(r)

-----------------------------------------------------------------------------
(* Ids, records, and the parts of the state *)

\* No more ids are in use than there are names and, twice, requests.
LEMMA NewIdIsNew == NewId \in Id /\ NewId \notin UsedIds
<1>. DEFINE names == {n \in Name : Present(n)}
            busy == {x \in Req : Busy(x)}
            A == {docker[n].id : n \in names}
            B == {req[r].seen.id : r \in busy}
            C == {req[r].made : r \in Req}
<1>1. /\ IsFiniteSet(names) /\ Cardinality(names) <= Cardinality(Name)
      /\ IsFiniteSet(busy) /\ Cardinality(busy) <= Cardinality(Req)
      /\ IsFiniteSet(Req)
  BY ContainerAssumption, FS_Subset
<1>2. IsFiniteSet(A) /\ Cardinality(A) <= Cardinality(names)
  <2>. DEFINE f == [n \in names |-> docker[n].id]
  <2>1. f \in Surjection(names, A)
    BY DEF Surjection
  <2>. QED BY <1>1, <2>1, FS_Surjection
<1>3. IsFiniteSet(B) /\ Cardinality(B) <= Cardinality(busy)
  <2>. DEFINE f == [r \in busy |-> req[r].seen.id]
  <2>1. f \in Surjection(busy, B)
    BY DEF Surjection
  <2>. QED BY <1>1, <2>1, FS_Surjection
<1>4. IsFiniteSet(C) /\ Cardinality(C) <= Cardinality(Req)
  <2>. DEFINE f == [r \in Req |-> req[r].made]
  <2>1. f \in Surjection(Req, C)
    BY DEF Surjection
  <2>. QED BY <1>1, <2>1, FS_Surjection
<1>. HIDE DEF A, B, C, names, busy
<1>5. IsFiniteSet(A \union B) /\ Cardinality(A \union B) <= Cardinality(A) + Cardinality(B)
  <2>1. /\ IsFiniteSet(A \union B)
        /\ Cardinality(A \union B) =
             Cardinality(A) + Cardinality(B) - Cardinality(A \intersect B)
    BY <1>2, <1>3, FS_Union
  <2>2. IsFiniteSet(A \intersect B)
    BY <1>2, FS_Intersection
  <2>. QED BY <1>2, <1>3, <2>1, <2>2, FS_CardinalityType
<1>6. /\ IsFiniteSet(A \union B \union C)
      /\ Cardinality(A \union B \union C) <= Cardinality(A \union B) + Cardinality(C)
  <2>1. /\ IsFiniteSet((A \union B) \union C)
        /\ Cardinality((A \union B) \union C) =
             Cardinality(A \union B) + Cardinality(C) - Cardinality((A \union B) \intersect C)
    BY <1>4, <1>5, FS_Union
  <2>2. IsFiniteSet((A \union B) \intersect C)
    BY <1>5, FS_Intersection
  <2>. QED BY <1>4, <1>5, <2>1, <2>2, FS_CardinalityType
<1>7. UsedIds = A \union B \union C
  BY DEF UsedIds, A, B, C, names, busy
<1>8. \E i \in Id : i \notin UsedIds
  <2>. SUFFICES ASSUME Id \subseteq UsedIds PROVE FALSE
    OBVIOUS
  <2>1. Cardinality(Id) <= Cardinality(UsedIds)
    BY <1>6, <1>7, FS_Subset
  <2>. QED
    BY <2>1, <1>1, <1>2, <1>3, <1>4, <1>5, <1>6, <1>7, FS_CardinalityType,
       ContainerAssumption
<1>. QED BY <1>8 DEF NewId

LEMMA NoneIsNothing ==
  /\ None \notin Name /\ None \notin Port /\ None \notin Id
  /\ None \notin Container /\ None \notin Inspect /\ None \notin Payload
BY ContainerAssumption

LEMMA PayloadIs ==
  ASSUME NEW old \in Payload
  PROVE  /\ old.app \in App
         /\ old.app \in Service => old.file \in [Service -> Port]
         /\ old.app \notin Service => old.port \in Port /\ old.running \in BOOLEAN
BY ContainerAssumption DEF Payload, App

LEMMA DoneIs ==
  ASSUME NEW phase \in Phase
  PROVE  Done(phase) \in Request /\ Done(phase).kind = "none"
BY DEF Done, Request, Kind

LEMMA NewIs ==
  ASSUME NEW kind \in Kind, NEW phase \in Phase, NEW seen \in Inspect
  PROVE  /\ New(kind, phase, seen) \in Request
         /\ New(kind, phase, seen).kind = kind
         /\ New(kind, phase, seen).phase = phase
         /\ New(kind, phase, seen).seen = seen
         /\ New(kind, phase, seen).target = seen.port
         /\ New(kind, phase, seen).backup = None
         /\ New(kind, phase, seen).pass = "do"
         /\ New(kind, phase, seen).hits = 0
         /\ New(kind, phase, seen).emptied = {}
         /\ New(kind, phase, seen).left = {}
<1>. DEFINE q0 == Done(phase)
            q1 == [q0 EXCEPT !.kind = kind]
            q2 == [q1 EXCEPT !.seen = seen]
            q3 == [q2 EXCEPT !.target = seen.port]
<1>1. New(kind, phase, seen) = q3
  BY Zenon DEF New
<1>2. q0 \in Request /\ q0.phase = phase /\ q0.backup = None /\ q0.pass = "do"
      /\ q0.hits = 0 /\ q0.emptied = {} /\ q0.left = {}
  BY DEF Done, Request, Kind
<1>. HIDE DEF q0
<1>3. q1 \in Request /\ q1.phase = phase /\ q1.backup = None /\ q1.pass = "do"
      /\ q1.hits = 0 /\ q1.emptied = {} /\ q1.left = {} /\ q1.kind = kind
  BY <1>2 DEF Request
<1>. HIDE DEF q1
<1>4. q2 \in Request /\ q2.phase = phase /\ q2.backup = None /\ q2.pass = "do"
      /\ q2.hits = 0 /\ q2.emptied = {} /\ q2.left = {} /\ q2.kind = kind
      /\ q2.seen = seen
  BY <1>3 DEF Request
<1>. HIDE DEF q2
<1>5. seen.port \in Port
  BY DEF Inspect
<1>. QED BY <1>1, <1>4, <1>5 DEF Request

-----------------------------------------------------------------------------
(* A request goes on or ends *)

OnlyOf(r) ==
  /\ req' \in [Req -> Request]
  /\ \A x \in Req \ {r} : req'[x] = req[x]

\* It stays the request it is, and works on the container if it did.
GoesOn(r) ==
  LET q == req[r]  p == req'[r]
  IN  /\ p.kind = q.kind /\ p.seen = q.seen /\ p.alone = q.alone
      /\ p.phase # "shown" /\ (q.kind = "clean" \/ q.phase # "shown")
      /\ Fits(p)

Ended(r) == req'[r].kind = "none"

Advances(r) == Busy(r) /\ OnlyOf(r) /\ (Ended(r) \/ GoesOn(r))

Emptying(r) == At(r, "empty")

\* What is noted about the request while it works.
Notes(r) ==
  /\ rebuilding' = IF req[r].kind = "recreate" /\ Ended(r)
                   THEN rebuilding \ {NameOf(r)} ELSE rebuilding
  /\ \/ cleaning' = cleaning /\ (Emptying(r) => Emptying(r)')
     \/ cleaning' = cleaning \ {req[r].seen.id} /\ Emptying(r)
     \/ /\ cleaning' = cleaning \union {req[r].seen.id} /\ req[r].seen.id \in Id
        /\ ~Emptying(r) /\ Emptying(r)'
  /\ \/ offered' = offered
     \/ /\ req[r].backup # None
        /\ offered' = [offered EXCEPT ![NameOf(r)] = req[r].backup]

\* The request is about to create the container it means.
Creating(r) == AboutToCreate(r, req[r].seen.app)

\* It removes only what it is about to create, and creates only what it means.
Handles(r) ==
  LET n == NameOf(r)  a == req[r].seen.app
  IN  /\ docker' \in [Name -> Container \union {None}]
      /\ ~Working(r) => docker' = docker
      /\ \A m \in Name \ {n} : docker'[m] = docker[m]
      /\ docker'[n] # None =>
           \/ Working(r) /\ docker'[n].app = a
           \/ Present(n) /\ docker'[n].app = docker[n].app
      /\ Present(n) => \/ docker'[n] # None /\ docker'[n].app = docker[n].app
                       \/ Creating(r)'

\* It does not give up creating unless there is a container under the name.
Persists(r) ==
  Creating(r) => Creating(r)' \/ docker'[NameOf(r)] # None \/ faults' > 0

Proceeds(r) ==
  /\ Advances(r) /\ Notes(r) /\ Handles(r) /\ Persists(r)
  /\ file' \in [Service -> Port]
  /\ file' # file => Working(r) /\ \A s \in Service \ Reach(req[r]) : file'[s] = file[s]
  /\ asked' = asked /\ faults' \in 0 .. MaxFault /\ faults' >= faults
  /\ crossed' = crossed

LEMMA BusyIs ==
  ASSUME TypeOK, RequestsFit, NEW r \in Req, Busy(r)
  PROVE  /\ req[r] \in Request /\ Fits(req[r]) /\ req[r].seen \in Inspect
         /\ NameOf(r) \in Name /\ req[r].seen.app \in App /\ req[r].seen.port \in Port
         /\ req[r].target \in Port /\ RightName(NameOf(r), req[r].seen.app)
BY DEF TypeOK, RequestsFit, Fits, Busy, NameOf, Inspect

LEMMA FitAlways ==
  ASSUME IInv, NEW r \in Req, Proceeds(r)
  PROVE  RequestsFit'
BY DEF IInv, Proceeds, Advances, OnlyOf, Ended, GoesOn, RequestsFit, Fits

LEMMA ApartAlways ==
  ASSUME IInv, NEW r \in Req, Proceeds(r)
  PROVE  Apart'
<1>. SUFFICES ASSUME NEW p \in Req, NEW x \in Req, p # x, Working(p)', Working(x)',
                     req'[p].alone
              PROVE  Reach(req'[p]) \intersect Reach(req'[x]) = {}
  BY DEF Apart
<1>1. \A y \in Req : Working(y)' =>
        /\ Working(y) /\ req'[y].alone = req[y].alone
        /\ Reach(req'[y]) = Reach(req[y])
  BY DEF Proceeds, Advances, OnlyOf, Ended, GoesOn, Working, Busy, Reach
<1>. QED BY <1>1 DEF IInv, Apart

LEMMA OneMeantAlways ==
  ASSUME IInv, NEW r \in Req, Proceeds(r)
  PROVE  OneMeant'
<1>1. \A y \in Req : Working(y)' => Working(y) /\ req'[y].seen = req[y].seen
  BY DEF Proceeds, Advances, OnlyOf, Ended, GoesOn, Working, Busy
<1>2. crossed' = crossed
  BY DEF Proceeds
<1>. QED BY <1>1, <1>2 DEF IInv, OneMeant, Meant, NameOf

LEMMA FoundAlways ==
  ASSUME IInv, NEW r \in Req, Proceeds(r)
  PROVE  FoundAsMeant'
<1>1. \A y \in Req : Working(y)' => Working(y) /\ req'[y].seen = req[y].seen
  BY DEF Proceeds, Advances, OnlyOf, Ended, GoesOn, Working, Busy
<1>2. crossed' = crossed
  BY DEF Proceeds
<1>. SUFFICES ASSUME NEW y \in Req, Working(y), docker'[NameOf(y)] # None
              PROVE  Meant(docker'[NameOf(y)].app, req[y].seen.app)
  BY <1>1, <1>2 DEF FoundAsMeant, Present, Meant, NameOf
<1>3. Busy(r) /\ Busy(y) /\ NameOf(y) \in Name /\ NameOf(r) \in Name
  BY BusyIs DEF IInv, Proceeds, Advances, Working
<1>4. CASE NameOf(y) # NameOf(r) \/ (Present(NameOf(r)) /\ docker'[NameOf(r)].app = docker[NameOf(r)].app)
  BY <1>3, <1>4 DEF Proceeds, Handles, IInv, FoundAsMeant, Present
<1>5. CASE NameOf(y) = NameOf(r) /\ Working(r) /\ docker'[NameOf(r)].app = req[r].seen.app
  BY <1>5 DEF IInv, OneMeant
<1>. QED BY <1>3, <1>4, <1>5 DEF Proceeds, Handles

LEMMA NamedAlways ==
  ASSUME IInv, NEW r \in Req, Proceeds(r)
  PROVE  ServicesNamed'
<1>1. /\ req[r] \in Request /\ NameOf(r) \in Name /\ RightName(NameOf(r), req[r].seen.app)
      /\ req[r].backup # None => req[r].backup.app = req[r].seen.app
  BY BusyIs DEF IInv, Proceeds, Advances, Fits, Busy
<1>2. ASSUME NEW n \in Name, docker'[n] # None PROVE RightName(n, docker'[n].app)
  BY <1>1, <1>2 DEF Proceeds, Handles, IInv, ServicesNamed, Present
<1>3. ASSUME NEW n \in Name, offered'[n] # None PROVE RightName(n, offered'[n].app)
  <2>1. offered \in [Name -> Payload \union {None}]
    BY DEF IInv, TypeOK
  <2>. QED BY <1>1, <1>3, <2>1 DEF Proceeds, Notes, IInv, ServicesNamed
<1>. QED BY <1>2, <1>3 DEF ServicesNamed, Present

\* Nobody's container is lost as long as no container there is lost, and
\* whoever stops creating finds one under the name.
LEMMA NothingLost ==
  ASSUME IInv, faults \in Nat, faults' \in Nat, faults' >= faults, crossed \subseteq crossed',
         \A a \in App : ~Lost(a) => ~Lost(a)' \/ a \in crossed' \/ \E r \in Req : AboutToCreate(r, a)',
         \A r \in Req, a \in App : AboutToCreate(r, a) =>
           \/ AboutToCreate(r, a)' \/ ~Lost(a)' \/ a \in crossed' \/ faults' > 0
  PROVE  NeverLost'
<1>. SUFFICES ASSUME NEW a \in App, Lost(a)', ~(faults' > 0), a \notin crossed'
              PROVE  \E r \in Req : AboutToCreate(r, a)'
  BY DEF NeverLost
<1>1. ~(faults > 0) /\ a \notin crossed
  OBVIOUS
<1>2. (\E r \in Req : AboutToCreate(r, a)) \/ ~Lost(a)
  BY <1>1 DEF IInv, NeverLost
<1>. QED BY <1>2

LEMMA CreatesWorking ==
  ASSUME IInv, NEW r \in Req, NEW a, AboutToCreate(r, a)
  PROVE  Working(r) /\ Busy(r) /\ req[r].seen.app = a /\ NameOf(r) \in Name
BY BusyIs DEF IInv, AboutToCreate, Working, Fits, ByHand

LEMMA NeverLostAlways ==
  ASSUME IInv, NEW r \in Req, Proceeds(r)
  PROVE  NeverLost'
<1>1. Busy(r) /\ NameOf(r) \in Name /\ req[r].seen.app \in App
  BY BusyIs DEF IInv, Proceeds, Advances
<1>2. \A m \in Name : docker'[m] # None <=> Present(m)'
  BY DEF Present
<1>3. crossed' = crossed /\ faults \in Nat /\ faults' \in Nat /\ faults' >= faults
  BY ContainerAssumption DEF Proceeds, IInv, TypeOK
<1>4. ASSUME NEW a \in App, ~Lost(a)
      PROVE  ~Lost(a)' \/ a \in crossed' \/ \E x \in Req : AboutToCreate(x, a)'
  <2>1. PICK m \in Name : Present(m) /\ docker[m].app = a
    BY <1>4 DEF Lost
  <2>2. CASE docker'[m] # None /\ docker'[m].app = a
    BY <2>2, <1>2 DEF Lost
  <2>3. CASE m = NameOf(r) /\ Creating(r)'
    <3>1. /\ ~Ended(r) /\ req'[r].seen = req[r].seen /\ GoesOn(r)
          /\ req'[r].phase \in {"create", "exists"} /\ req'[r].kind # "none"
      BY <2>3 DEF Creating, AboutToCreate, Busy, Proceeds, Advances, GoesOn, Ended
    <3>2. Working(r)
      BY <3>1, <1>1 DEF GoesOn, Working, Fits
    <3>3. a = req[r].seen.app \/ a \in crossed
      BY <2>1, <2>3, <3>2 DEF IInv, FoundAsMeant, Meant
    <3>. QED BY <2>3, <3>1, <3>3, <1>3 DEF Creating, AboutToCreate, Busy, Restoring
  <2>. QED BY <2>1, <2>2, <2>3, <1>1 DEF Proceeds, Handles, Present
<1>5. ASSUME NEW x \in Req, NEW a \in App, AboutToCreate(x, a)
      PROVE  AboutToCreate(x, a)' \/ ~Lost(a)' \/ a \in crossed' \/ faults' > 0
  <2>1. CASE x # r
    BY <2>1, <1>5 DEF Proceeds, Advances, OnlyOf, AboutToCreate, Busy, Restoring
  <2>2. CASE x = r
    <3>1. Working(r) /\ req[r].seen.app = a
      BY <1>5, <2>2, CreatesWorking
    <3>2. CASE docker'[NameOf(r)] # None
      <4>1. Meant(docker'[NameOf(r)].app, a)
        BY <3>1, <3>2 DEF Proceeds, Handles, IInv, FoundAsMeant, Meant
      <4>. QED BY <4>1, <3>2, <1>1, <1>3 DEF Meant, Lost, Present
    <3>3. CASE Creating(r)'
      <4>1. req'[r].seen.app = a
        BY <3>1, <3>3 DEF Creating, AboutToCreate, Busy, Proceeds, Advances, Ended, GoesOn
      <4>. QED BY <4>1, <3>3, <2>2 DEF Creating, AboutToCreate, Busy, Restoring
    <3>. QED BY <1>5, <2>2, <3>1, <3>2, <3>3 DEF Proceeds, Persists, Creating
  <2>. QED BY <2>1, <2>2
<1>. QED BY <1>3, <1>4, <1>5, NothingLost

LEMMA ShownAlways ==
  ASSUME IInv, NEW r \in Req, Proceeds(r)
  PROVE  ShownWhileRebuilt'
<1>1. ASSUME NEW y \in Req, Busy(y)', req'[y].kind = "recreate", req'[y].alone
      PROVE  NameOf(y)' \in rebuilding'
  <2>1. /\ Busy(y) /\ req[y].kind = "recreate" /\ req[y].alone /\ req'[y].seen = req[y].seen
        /\ NameOf(y) \in rebuilding
    BY <1>1 DEF Proceeds, Advances, OnlyOf, Ended, GoesOn, Busy, IInv, ShownWhileRebuilt
  <2>2. CASE rebuilding' = rebuilding
    BY <2>1, <2>2 DEF NameOf
  <2>3. CASE req[r].kind = "recreate" /\ Ended(r) /\ rebuilding' = rebuilding \ {NameOf(r)}
    <3>1. r # y
      BY <1>1, <2>3 DEF Ended, Busy
    <3>2. Working(r) /\ Working(y)
      BY <2>1, <2>3, BusyIs DEF Working, Proceeds, Advances, IInv, RequestsFit, Fits, Busy
    <3>3. Reach(req[y]) = {NameOf(y)} /\ Reach(req[r]) = {NameOf(r)}
      BY <2>1, <2>3 DEF Reach, NameOf
    <3>4. NameOf(y) # NameOf(r)
      BY <3>1, <3>2, <3>3, <2>1 DEF IInv, Apart
    <3>. QED BY <2>1, <2>3, <3>4 DEF NameOf
  <2>. QED BY <2>2, <2>3 DEF Proceeds, Notes
<1>2. ASSUME NEW n \in rebuilding'
      PROVE  \E y \in Req : Busy(y)' /\ req'[y].kind = "recreate" /\ NameOf(y)' = n
  <2>1. n \in rebuilding /\ ~(req[r].kind = "recreate" /\ Ended(r) /\ NameOf(r) = n)
    BY <1>2 DEF Proceeds, Notes
  <2>2. PICK y \in Req : Busy(y) /\ req[y].kind = "recreate" /\ NameOf(y) = n
    BY <2>1 DEF IInv, ShownWhileRebuilt
  <2>. QED BY <2>1, <2>2 DEF Proceeds, Advances, OnlyOf, Ended, GoesOn, Busy, NameOf
<1>. QED BY <1>1, <1>2 DEF ShownWhileRebuilt

LEMMA CleanUpAlways ==
  ASSUME IInv, NEW r \in Req, Proceeds(r)
  PROVE  CleanUpIsExact'
<1>1. ASSUME NEW y \in Req, At(y, "empty")'
      PROVE  req'[y].emptied \union req'[y].left = req'[y].shown
  BY <1>1, FitAlways DEF RequestsFit, Fits, At, Busy, ByHand, ByCompose
<1>2. ASSUME NEW i \in cleaning'
      PROVE  \E y \in Req : At(y, "empty")' /\ req'[y].seen.id = i
  <2>1. \A y \in Req \ {r} : Emptying(y) => Emptying(y)' /\ req'[y].seen = req[y].seen
    BY DEF Proceeds, Advances, OnlyOf, Emptying, At, Busy
  <2>2. Emptying(r)' => req'[r].seen = req[r].seen
    BY DEF Proceeds, Advances, Ended, GoesOn, Emptying, At, Busy
  <2>3. ASSUME i \in cleaning PROVE \E y \in Req : Emptying(y) /\ req[y].seen.id = i
    BY <2>3 DEF IInv, CleanUpIsExact, Emptying
  <2>4. \E y \in Req : Emptying(y)' /\ req'[y].seen.id = i
    BY <1>2, <2>1, <2>2, <2>3 DEF Proceeds, Notes
  <2>. QED BY <2>4 DEF Emptying
<1>. QED BY <1>1, <1>2 DEF CleanUpIsExact

LEMMA TypesAlways ==
  ASSUME IInv, NEW r \in Req, Proceeds(r)
  PROVE  TypeOK'
<1>1. NameOf(r) \in Name /\ req[r] \in Request
  BY BusyIs DEF IInv, Proceeds, Advances
<1>2. rebuilding' \in SUBSET Name /\ cleaning' \in SUBSET Id
  BY DEF IInv, TypeOK, Proceeds, Notes
<1>3. offered' \in [Name -> Payload \union {None}]
  BY <1>1 DEF IInv, TypeOK, Proceeds, Notes, Request
<1>. QED BY <1>2, <1>3 DEF IInv, TypeOK, Proceeds, Advances, OnlyOf, Handles

LEMMA ProceedInv ==
  ASSUME IInv, NEW r \in Req, Proceeds(r)
  PROVE  IInv'
BY FitAlways, ApartAlways, OneMeantAlways, FoundAlways, NamedAlways, NeverLostAlways,
   ShownAlways, CleanUpAlways, TypesAlways DEF IInv

-----------------------------------------------------------------------------
(* The ways in which a request goes on *)

LEMMA AnswerIs ==
  ASSUME IInv, NEW r \in Req, Busy(r), NEW outcome \in {"ok", "error"}, Answer(r, outcome)
  PROVE  Advances(r) /\ Notes(r) /\ Ended(r) /\ req'[r].phase = outcome
<1>1. outcome \in Phase /\ req \in [Req -> Request]
  BY DEF Phase, IInv, TypeOK
<1>2. /\ Done(outcome) \in Request /\ Done(outcome).kind = "none"
      /\ Done(outcome).phase = outcome
  BY <1>1, DoneIs DEF Done
<1>3. req' = [req EXCEPT ![r] = Done(outcome)]
  BY DEF Answer
<1>4. Advances(r) /\ Ended(r) /\ req'[r].phase = outcome
  BY <1>1, <1>2, <1>3 DEF Advances, OnlyOf, Ended
<1>. QED BY <1>4 DEF Answer, Notes, Emptying, At

\* What a request works on and for.
SameWork(r) ==
  LET q == req[r]  p == req'[r]
  IN  p.kind = q.kind /\ p.seen = q.seen /\ p.target = q.target /\ p.alone = q.alone

\* The next phase, and the turn to restoring the container.
Turns(r, phase) ==
  /\ SameWork(r)
  /\ req'[r].phase = phase /\ req'[r].pass = req[r].pass /\ req'[r].hits = req[r].hits

TurnsBack(r) ==
  /\ SameWork(r) /\ ~Restoring(r) /\ req[r].phase \in {"create", "start", "verify"}
  /\ req'[r].phase = "exists" /\ req'[r].pass = "restore"
  /\ req'[r].hits = req[r].hits + 1

\* Another phase is all that changes; the conditions are those of Fits.
LEMMA ContinueIs ==
  ASSUME IInv, NEW r \in Req, Working(r), NEW phase \in Phase, Continue(r, phase),
         Compose(r) => phase \in ByCompose, ~Compose(r) => phase \in ByHand,
         phase = "edit" => req[r].kind = "update",
         phase \notin {"check", "exists"}, phase = "verify" => ~Restoring(r)
  PROVE  Advances(r) /\ Notes(r) /\ Turns(r, phase)
<1>1. req \in [Req -> Request] /\ req[r] \in Request /\ Busy(r) /\ Fits(req[r])
  BY BusyIs DEF IInv, TypeOK, Working
<1>. DEFINE p == [req[r] EXCEPT !.phase = phase]
<1>2. /\ p \in Request /\ p.phase = phase /\ p.kind = req[r].kind /\ p.seen = req[r].seen
      /\ p.alone = req[r].alone /\ p.target = req[r].target /\ p.backup = req[r].backup
      /\ p.pass = req[r].pass /\ p.hits = req[r].hits
  BY <1>1 DEF Request
<1>. HIDE DEF p
<1>3. req' = [req EXCEPT ![r] = p]
  BY DEF Continue, p
<1>4. Fits(p)
  BY <1>1, <1>2 DEF Fits, Working, Compose, Restoring, ByHand, ByCompose
<1>5. GoesOn(r) /\ OnlyOf(r) /\ req'[r] = p
  BY <1>1, <1>2, <1>3, <1>4 DEF GoesOn, OnlyOf, Working, ByHand, ByCompose
<1>6. Notes(r)
  BY <1>1, <1>2, <1>5 DEF Continue, noted, Notes, Ended, Emptying, At, Busy, Working, Fits,
       ByHand, ByCompose
<1>. QED BY <1>1, <1>2, <1>5, <1>6 DEF Advances, Turns, SameWork

LEMMA BrokenIs ==
  ASSUME IInv, NEW r \in Req, Busy(r), req[r].phase # "shown", Broken(r)
  PROVE  /\ Advances(r) /\ Notes(r)
         /\ Creating(r) /\ ~Restoring(r) => Creating(r)'
         /\ TurnsBack(r) \/ (Ended(r) /\ req'[r].phase = "error")
         /\ Ended(r) => Restoring(r) \/ req[r].phase \notin {"create", "start", "verify"}
<1>1. req \in [Req -> Request] /\ req[r] \in Request /\ Fits(req[r])
  BY BusyIs DEF IInv, TypeOK
<1>2. CASE ~(~Restoring(r) /\ req[r].phase \in {"create", "start", "verify"})
  <2>1. Answer(r, "error")
    BY <1>2 DEF Broken
  <2>. QED BY <1>2, <2>1, AnswerIs DEF Creating, AboutToCreate
<1>3. CASE ~Restoring(r) /\ req[r].phase \in {"create", "start", "verify"}
  <2>. DEFINE f1 == [req EXCEPT ![r].phase = "exists"]
              f2 == [f1 EXCEPT ![r].pass = "restore"]
              f3 == [f2 EXCEPT ![r].hits = req[r].hits + 1]
              Like(f) == /\ f[r].kind = req[r].kind /\ f[r].seen = req[r].seen
                         /\ f[r].alone = req[r].alone /\ f[r].target = req[r].target
                         /\ f[r].backup = req[r].backup /\ f[r].phase = "exists"
                         /\ \A x \in Req \ {r} : f[x] = req[x]
  <2>1. req' = f3 /\ UNCHANGED noted
    BY <1>3, Zenon DEF Broken
  <2>2. req[r].pass = "do" /\ req[r].kind \notin {"none", "clean"} /\ req[r].hits \in 0 .. 1
    BY <1>1, <1>3 DEF Restoring, Request, Fits, Busy
  <2>3. f1 \in [Req -> Request] /\ Like(f1) /\ f1[r].hits = req[r].hits
    BY <1>1 DEF Request, Phase
  <2>. HIDE DEF f1
  <2>4. f2 \in [Req -> Request] /\ Like(f2) /\ f2[r].hits = req[r].hits /\ f2[r].pass = "restore"
    BY <2>3 DEF Request
  <2>. HIDE DEF f2
  <2>5. f3 \in [Req -> Request] /\ Like(f3) /\ f3[r].hits = req[r].hits + 1 /\ f3[r].pass = "restore"
    BY <2>2, <2>4 DEF Request
  <2>. HIDE DEF f3
  <2>6. Fits(req'[r])
    BY <1>1, <1>3, <2>1, <2>2, <2>5 DEF Fits, ByHand, ByCompose
  <2>7. GoesOn(r) /\ OnlyOf(r)
    BY <1>3, <2>1, <2>5, <2>6 DEF GoesOn, OnlyOf
  <2>8. Notes(r)
    BY <1>3, <2>1, <2>2, <2>5 DEF Notes, noted, Ended, Emptying, At
  <2>9. Creating(r)'
    BY <2>1, <2>2, <2>5 DEF Creating, AboutToCreate, Busy, Restoring
  <2>10. TurnsBack(r) /\ ~Ended(r)
    BY <1>3, <2>1, <2>2, <2>5 DEF TurnsBack, SameWork, Ended
  <2>11. Advances(r)
    BY <2>7 DEF Advances
  <2>. QED BY <2>8, <2>9, <2>10, <2>11
<1>. QED BY <1>2, <1>3

\* No container is touched, or one is started or stopped.
LEMMA UntouchedIs ==
  ASSUME IInv, NEW r \in Req, Busy(r), UNCHANGED docker
  PROVE  Handles(r)
BY BusyIs DEF Handles, IInv, TypeOK, Present

LEMMA RunningIs ==
  ASSUME TypeOK, NEW n \in Name, Present(n), NEW running \in BOOLEAN,
         docker' = [docker EXCEPT ![n].running = running]
  PROVE  /\ docker' \in [Name -> Container \union {None}]
         /\ \A m \in Name \ {n} : docker'[m] = docker[m]
         /\ docker'[n] # None /\ docker'[n].app = docker[n].app
         /\ docker'[n].port = docker[n].port /\ docker'[n].running = running
<1>. DEFINE c == [docker[n] EXCEPT !.running = running]
<1>1. docker \in [Name -> Container \union {None}] /\ docker[n] \in Container
  BY DEF TypeOK, Present
<1>2. /\ c \in Container /\ c.app = docker[n].app
      /\ c.port = docker[n].port /\ c.running = running
  BY <1>1 DEF Container
<1>. HIDE DEF c
<1>3. docker' = [docker EXCEPT ![n] = c]
  BY DEF c
<1>. QED BY <1>1, <1>2, <1>3, NoneIsNothing

LEMMA QuietStep ==
  ASSUME IInv, NEW r \in Req, Advances(r), Notes(r), UNCHANGED <<docker, file>>, Going,
         Creating(r) => Creating(r)' \/ Present(NameOf(r))
  PROVE  Proceeds(r)
<1>1. Handles(r)
  BY UntouchedIs DEF Advances
<1>. QED BY <1>1, ContainerAssumption DEF Proceeds, Going, Persists, Present, IInv, TypeOK

-----------------------------------------------------------------------------
(* The steps of a request *)

\* A request whose phase belongs to the work on a container does that work.
LEMMA WorkingAt ==
  ASSUME IInv, NEW r \in Req, Busy(r), req[r].phase \notin {"shown", "inspect", "empty"}
  PROVE  /\ Working(r) /\ Fits(req[r]) /\ req[r] \in Request /\ req \in [Req -> Request]
         /\ Compose(r) => req[r].phase \in ByCompose
         /\ ~Compose(r) => req[r].phase \in ByHand
BY BusyIs DEF IInv, TypeOK, Working, Busy, Fits, Compose

LEMMA CheckStep ==
  ASSUME IInv, NEW r \in Req, Check(r)
  PROVE  /\ Proceeds(r)
         /\ \/ Ended(r) /\ req'[r].phase = "error"
            \/ Turns(r, IF Compose(r) THEN "edit" ELSE "exists")
<1>1. /\ Working(r) /\ Busy(r) /\ req[r].kind = "update" /\ req[r].phase = "check"
      /\ Fits(req[r]) /\ req[r] \in Request /\ req \in [Req -> Request]
      /\ ~Creating(r)
  BY WorkingAt DEF Check, At, Fits, Busy, Creating, AboutToCreate
<1>2. CASE Answer(r, "error")
  BY <1>1, <1>2, AnswerIs, QuietStep DEF Check
<1>3. CASE Compose(r) /\ Continue(r, "edit")
  <2>1. Advances(r) /\ Notes(r) /\ Turns(r, "edit")
    BY <1>1, <1>3, ContinueIs DEF Phase, ByCompose
  <2>. QED BY <1>1, <1>3, <2>1, QuietStep DEF Check
<1>4. CASE /\ ~Compose(r)
           /\ req' = [req EXCEPT ![r].phase = "exists",
                ![r].backup = [app |-> req[r].seen.app, port |-> req[r].seen.port,
                               running |-> req[r].seen.running]]
           /\ UNCHANGED noted
  <2>. DEFINE backup == [app |-> req[r].seen.app, port |-> req[r].seen.port,
                         running |-> req[r].seen.running]
              f1 == [req EXCEPT ![r].phase = "exists"]
              f2 == [f1 EXCEPT ![r].backup = backup]
              Like(f) == /\ f[r].kind = req[r].kind /\ f[r].seen = req[r].seen
                         /\ f[r].alone = req[r].alone /\ f[r].target = req[r].target
                         /\ f[r].pass = req[r].pass /\ f[r].hits = req[r].hits
                         /\ f[r].phase = "exists"
                         /\ \A x \in Req \ {r} : f[x] = req[x]
  <2>1. req' = f2
    BY <1>4, Zenon
  <2>2. req[r].seen \in Inspect /\ req[r].seen.app \in Standalone
    BY <1>1, <1>4, BusyIs DEF IInv, Compose, App
  <2>3. backup \in Payload /\ backup.app = req[r].seen.app /\ req[r].hits \in 0 .. 3
    BY <1>1, <2>2 DEF Payload, Inspect, Request
  <2>. HIDE DEF backup
  <2>4. f1 \in [Req -> Request] /\ Like(f1)
    BY <1>1 DEF Request, Phase
  <2>. HIDE DEF f1
  <2>5. f2 \in [Req -> Request] /\ Like(f2) /\ f2[r].backup = backup
    BY <2>3, <2>4 DEF Request
  <2>. HIDE DEF f2
  <2>6. Fits(req'[r])
    BY <1>1, <1>4, <2>1, <2>2, <2>3, <2>5, BusyIs DEF IInv, Fits, ByHand, Compose
  <2>7. Advances(r)
    BY <1>1, <2>1, <2>5, <2>6 DEF Advances, OnlyOf, GoesOn
  <2>8. Notes(r)
    BY <1>1, <1>4, <2>1, <2>5 DEF Notes, noted, Ended, Emptying, At
  <2>9. Turns(r, "exists")
    BY <2>1, <2>5 DEF Turns, SameWork
  <2>. QED BY <1>1, <1>4, <2>7, <2>8, <2>9, QuietStep DEF Check
<1>. QED BY <1>2, <1>3, <1>4 DEF Check

\* The file is written, or the answer is that it cannot be.
LEMMA EditStep ==
  ASSUME IInv, NEW r \in Req, Edit(r)
  PROVE  /\ Proceeds(r)
         /\ (Ended(r) /\ req'[r].phase = "error") \/ Turns(r, "up")
<1>1. /\ Working(r) /\ Busy(r) /\ req[r].phase = "edit"
      /\ Fits(req[r]) /\ req[r] \in Request /\ req \in [Req -> Request]
      /\ Compose(r) /\ ~Creating(r) /\ file \in [Service -> Port]
  BY WorkingAt DEF Edit, At, Creating, AboutToCreate, ByHand, IInv, TypeOK
<1>2. /\ req[r].seen \in Inspect /\ req[r].seen.app \in Service /\ req[r].target \in Port
      /\ req[r].backup # None => req[r].backup.app = req[r].seen.app
      /\ req[r].seen.name = req[r].seen.app
  BY <1>1, BusyIs DEF IInv, Compose, Fits, Busy, RightName
<1>. DEFINE f1 == [req EXCEPT ![r].phase = "up"]
            Like(f) == /\ f[r].kind = req[r].kind /\ f[r].seen = req[r].seen
                       /\ f[r].alone = req[r].alone /\ f[r].target = req[r].target
                       /\ f[r].pass = req[r].pass /\ f[r].hits = req[r].hits
                       /\ f[r].phase = "up"
                       /\ \A x \in Req \ {r} : f[x] = req[x]
<1>3. f1 \in [Req -> Request] /\ Like(f1)
  BY <1>1 DEF Request, Phase
<1>4. ASSUME NEW backup \in Payload \union {None}, backup # None => backup.app = req[r].seen.app,
             req' = [f1 EXCEPT ![r].backup = backup], UNCHANGED noted
      PROVE  Advances(r) /\ Notes(r) /\ Turns(r, "up")
  <2>. HIDE DEF f1
  <2>1. req' \in [Req -> Request] /\ Like(req') /\ req'[r].backup = backup
    BY <1>3, <1>4 DEF Request
  <2>2. Fits(req'[r])
    BY <1>1, <1>4, <2>1 DEF Fits, ByCompose, ByHand, Compose
  <2>3. Advances(r)
    BY <1>1, <2>1, <2>2 DEF Advances, OnlyOf, GoesOn, Working
  <2>4. Turns(r, "up")
    BY <2>1 DEF Turns, SameWork
  <2>. QED BY <1>1, <1>4, <2>1, <2>3, <2>4 DEF Notes, noted, Ended, Emptying, At
<1>5. CASE /\ req[r].kind = "rollback" /\ file' = req[r].backup.file
           /\ req' = [req EXCEPT ![r].phase = "up", ![r].backup = None]
           /\ UNCHANGED noted
  <2>1. req' = [f1 EXCEPT ![r].backup = None]
    BY <1>5, Zenon
  <2>2. Advances(r) /\ Notes(r) /\ Turns(r, "up")
    BY <1>4, <1>5, <2>1
  <2>3. req[r].backup # None
    BY <1>1, <1>5 DEF Fits, Busy
  <2>4. req[r].backup \in Payload /\ req[r].backup.app \in Service
    BY <1>1, <1>2, <2>3 DEF Request
  <2>5. file' \in [Service -> Port] /\ Reach(req[r]) = Service
    BY <1>2, <1>5, <2>4, PayloadIs DEF Reach
  <2>. QED BY <1>1, <2>2, <2>5, UntouchedIs, ContainerAssumption
           DEF Edit, Proceeds, Going, Persists, IInv, TypeOK
<1>6. CASE /\ req[r].kind = "update" /\ file' = [file EXCEPT ![req[r].seen.app] = req[r].target]
           /\ req' = [req EXCEPT ![r].phase = "up",
                        ![r].backup = [app |-> req[r].seen.app, file |-> file]]
           /\ UNCHANGED noted
  <2>. DEFINE backup == [app |-> req[r].seen.app, file |-> file]
  <2>1. req' = [f1 EXCEPT ![r].backup = backup]
    BY <1>6, Zenon
  <2>2. backup \in Payload /\ backup.app = req[r].seen.app
    BY <1>1, <1>2 DEF Payload
  <2>. HIDE DEF backup, f1
  <2>3. Advances(r) /\ Notes(r) /\ Turns(r, "up")
    BY <1>4, <1>6, <2>1, <2>2
  <2>4. /\ file' \in [Service -> Port]
        /\ \A s \in Service \ Reach(req[r]) : file'[s] = file[s]
    BY <1>1, <1>2, <1>6 DEF Reach
  <2>. QED BY <1>1, <2>3, <2>4, UntouchedIs, ContainerAssumption
           DEF Edit, Proceeds, Going, Persists, IInv, TypeOK
<1>7. CASE Answer(r, "error") /\ UNCHANGED file
  BY <1>1, <1>7, AnswerIs, QuietStep DEF Edit
<1>. QED BY <1>5, <1>6, <1>7 DEF Edit

\* docker compose puts the service's own container under its name.
LEMMA ComposePuts ==
  ASSUME IInv, NEW r \in Req, Working(r), Compose(r), NEW running \in BOOLEAN,
         docker' = [docker EXCEPT ![req[r].seen.app] =
           [id |-> NewId, app |-> req[r].seen.app, port |-> file[req[r].seen.app],
            running |-> running]]
  PROVE  Handles(r)
<1>. DEFINE s == req[r].seen.app
            c == [id |-> NewId, app |-> s, port |-> file[s], running |-> running]
<1>1. NameOf(r) = s /\ s \in Service /\ s \in App /\ s \in Name
  BY BusyIs DEF IInv, Working, RightName, Compose
<1>2. c \in Container /\ c.app = s
  BY <1>1, NewIdIsNew DEF Container, IInv, TypeOK
<1>3. docker' = [docker EXCEPT ![s] = c] /\ docker \in [Name -> Container \union {None}]
  BY DEF IInv, TypeOK
<1>. HIDE DEF c
<1>4. Present(s) => docker[s].app = s
  BY <1>1 DEF IInv, ServicesNamed, RightName
<1>. HIDE DEF s
<1>5. Handles(r) <=>
        /\ docker' \in [Name -> Container \union {None}]
        /\ \A m \in Name \ {s} : docker'[m] = docker[m]
        /\ docker'[s] # None =>
             \/ Working(r) /\ docker'[s].app = s
             \/ Present(s) /\ docker'[s].app = docker[s].app
        /\ Present(s) => \/ docker'[s] # None /\ docker'[s].app = docker[s].app
                         \/ Creating(r)'
  BY <1>1 DEF Handles, s
<1>. QED BY <1>1, <1>2, <1>3, <1>4, <1>5, NoneIsNothing

LEMMA UpStep ==
  ASSUME IInv, NEW r \in Req, Up(r)
  PROVE  Proceeds(r)
<1>1. /\ Working(r) /\ Busy(r) /\ req[r].phase = "up" /\ Compose(r) /\ ~Creating(r)
      /\ file \in [Service -> Port]
  BY WorkingAt DEF Up, At, Creating, AboutToCreate, ByHand, IInv, TypeOK
<1>2. Handles(r)
  BY <1>1, ComposePuts DEF Up
<1>3. CASE Continue(r, "confirm")
  <2>1. Advances(r) /\ Notes(r)
    BY <1>1, <1>3, ContinueIs DEF Phase, ByCompose
  <2>. QED BY <1>1, <1>2, <2>1, ContainerAssumption
           DEF Up, Proceeds, Going, Persists, IInv, TypeOK
<1>4. CASE Answer(r, "error")
  <2>1. Advances(r) /\ Notes(r)
    BY <1>1, <1>4, AnswerIs
  <2>. QED BY <1>1, <1>2, <2>1, ContainerAssumption
           DEF Up, Proceeds, Going, Persists, IInv, TypeOK
<1>. QED BY <1>3, <1>4 DEF Up

LEMMA ConfirmStep ==
  ASSUME IInv, NEW r \in Req, Confirm(r)
  PROVE  Proceeds(r)
<1>1. Busy(r) /\ ~Creating(r) /\ \E outcome \in {"ok", "error"} : Answer(r, outcome)
  BY DEF Confirm, At, Creating, AboutToCreate
<1>. QED BY <1>1, AnswerIs, QuietStep DEF Confirm

LEMMA LoudStep ==
  ASSUME IInv, NEW r \in Req, Advances(r), Notes(r), Handles(r), UNCHANGED file, Going,
         Creating(r) => Creating(r)' \/ docker'[NameOf(r)] # None
  PROVE  Proceeds(r)
BY ContainerAssumption DEF Proceeds, Going, Persists, IInv, TypeOK

LEMMA StandaloneAt ==
  ASSUME IInv, NEW r \in Req,
         NEW phase \in {"exists", "look", "stop", "remove", "create", "start", "verify"},
         At(r, phase)
  PROVE  /\ Working(r) /\ Busy(r) /\ ~Compose(r) /\ NameOf(r) \in Name
         /\ Fits(req[r]) /\ req[r] \in Request /\ req \in [Req -> Request]
         /\ phase \notin {"create", "exists"} => ~Creating(r)
BY WorkingAt, BusyIs DEF IInv, At, Creating, AboutToCreate, ByCompose

LEMMA UnsupportedStep ==
  ASSUME IInv, NEW r \in Req, Unsupported(r)
  PROVE  Proceeds(r)
<1>1. Busy(r) /\ ~Creating(r) /\ Answer(r, "error")
  BY DEF Unsupported, At, Creating, AboutToCreate
<1>. QED BY <1>1, AnswerIs, QuietStep DEF Unsupported

LEMMA ExistsStep ==
  ASSUME IInv, NEW r \in Req, Exists(r)
  PROVE  Proceeds(r)
<1>1. Working(r) /\ Busy(r) /\ ~Compose(r) /\ NameOf(r) \in Name
  BY StandaloneAt DEF Exists
<1>2. PICK phase \in {"look", "create"} :
        Continue(r, phase) /\ (~Present(NameOf(r)) => phase = "create")
  BY DEF Exists
<1>3. /\ Advances(r) /\ Notes(r) /\ req'[r].phase = phase /\ req'[r].seen = req[r].seen
      /\ req'[r].kind = req[r].kind
  BY <1>1, <1>2, ContinueIs DEF Phase, ByHand, Turns, SameWork
<1>4. ~Present(NameOf(r)) => Creating(r)'
  BY <1>1, <1>2, <1>3 DEF Creating, AboutToCreate, Busy
<1>. QED BY <1>3, <1>4, QuietStep DEF Exists

LEMMA LookStep ==
  ASSUME IInv, NEW r \in Req, Look(r)
  PROVE  Proceeds(r)
<1>1. /\ Working(r) /\ Busy(r) /\ ~Compose(r) /\ ~Creating(r) /\ req[r].phase # "shown"
  BY StandaloneAt DEF Look, At
<1>2. CASE Broken(r)
  BY <1>1, <1>2, BrokenIs, QuietStep DEF Look
<1>3. ASSUME NEW phase \in {"stop", "remove"}, Continue(r, phase) PROVE Proceeds(r)
  <2>1. Advances(r) /\ Notes(r)
    BY <1>1, <1>3, ContinueIs DEF Phase, ByHand
  <2>. QED BY <1>1, <2>1, QuietStep DEF Look
<1>. QED BY <1>2, <1>3 DEF Look

LEMMA StopStep ==
  ASSUME IInv, NEW r \in Req, Stop(r)
  PROVE  Proceeds(r)
<1>1. /\ Working(r) /\ Busy(r) /\ ~Compose(r) /\ ~Creating(r) /\ req[r].phase # "shown"
      /\ NameOf(r) \in Name
  BY StandaloneAt DEF Stop, At
<1>2. CASE UNCHANGED docker /\ Broken(r)
  BY <1>1, <1>2, BrokenIs, QuietStep DEF Stop
<1>3. CASE /\ Present(NameOf(r)) /\ docker' = [docker EXCEPT ![NameOf(r)].running = FALSE]
           /\ Continue(r, "remove")
  <2>1. Advances(r) /\ Notes(r)
    BY <1>1, <1>3, ContinueIs DEF Phase, ByHand
  <2>2. Handles(r)
    BY <1>1, <1>3, RunningIs DEF IInv, Handles
  <2>. QED BY <1>1, <2>1, <2>2, LoudStep DEF Stop
<1>. QED BY <1>2, <1>3 DEF Stop

LEMMA RemoveStep ==
  ASSUME IInv, NEW r \in Req, Remove(r)
  PROVE  Proceeds(r)
<1>1. /\ Working(r) /\ Busy(r) /\ ~Compose(r) /\ ~Creating(r) /\ req[r].phase # "shown"
      /\ NameOf(r) \in Name
  BY StandaloneAt DEF Remove, At
<1>2. CASE UNCHANGED docker /\ Broken(r)
  BY <1>1, <1>2, BrokenIs, QuietStep DEF Remove
<1>3. CASE docker' = [docker EXCEPT ![NameOf(r)] = None] /\ Continue(r, "create")
  <2>1. /\ Advances(r) /\ Notes(r) /\ req'[r].phase = "create" /\ req'[r].seen = req[r].seen
        /\ req'[r].kind = req[r].kind
    BY <1>1, <1>3, ContinueIs DEF Phase, ByHand, Turns, SameWork
  <2>2. Creating(r)'
    BY <1>1, <2>1 DEF Creating, AboutToCreate, Busy
  <2>3. Handles(r)
    BY <1>1, <1>3, <2>2 DEF IInv, TypeOK, Handles
  <2>. QED BY <1>1, <2>1, <2>3, LoudStep DEF Remove
<1>. QED BY <1>2, <1>3 DEF Remove

LEMMA CreateStep ==
  ASSUME IInv, NEW r \in Req, Create(r)
  PROVE  /\ Proceeds(r)
         /\ ~Present(NameOf(r)) /\ req[r].seen.running => Turns(r, "start")
<1>1. /\ Working(r) /\ Busy(r) /\ ~Compose(r) /\ req[r].phase = "create"
      /\ NameOf(r) \in Name /\ Fits(req[r]) /\ req[r] \in Request /\ req \in [Req -> Request]
  BY StandaloneAt DEF Create, At
<1>2. CASE Present(NameOf(r)) /\ UNCHANGED docker /\ Broken(r)
  BY <1>1, <1>2, BrokenIs, QuietStep DEF Create
<1>3. CASE ~Present(NameOf(r)) /\ docker' = [docker EXCEPT ![NameOf(r)] = Created(r)]
  <2>1. Created(r) \in Container /\ Created(r).app = req[r].seen.app /\ NewId \in Id
    BY <1>1, BusyIs, NewIdIsNew DEF Created, Container, IInv
  <2>2. Handles(r) /\ docker'[NameOf(r)] # None
    BY <1>1, <1>3, <2>1, NoneIsNothing DEF IInv, TypeOK, Handles
  <2>3. CASE ~req[r].seen.running /\ Answer(r, IF Restoring(r) THEN "error" ELSE "ok")
    <3>1. Advances(r) /\ Notes(r) /\ Ended(r)
      BY <1>1, <2>3, AnswerIs
    <3>2. Proceeds(r)
      BY <2>2, <3>1, LoudStep DEF Create
    <3>. QED BY <1>3, <2>3, <3>1, <3>2
  <2>4. CASE /\ req[r].seen.running
             /\ req' = [req EXCEPT ![r].phase = "start", ![r].made = NewId]
             /\ UNCHANGED noted
    <3>. DEFINE f1 == [req EXCEPT ![r].phase = "start"]
                f2 == [f1 EXCEPT ![r].made = NewId]
                Like(f) == /\ f[r].kind = req[r].kind /\ f[r].seen = req[r].seen
                           /\ f[r].alone = req[r].alone /\ f[r].target = req[r].target
                           /\ f[r].pass = req[r].pass /\ f[r].hits = req[r].hits
                           /\ f[r].phase = "start" /\ f[r].backup = req[r].backup
                           /\ \A x \in Req \ {r} : f[x] = req[x]
    <3>1. req' = f2
      BY <2>4, Zenon
    <3>2. f1 \in [Req -> Request] /\ Like(f1)
      BY <1>1 DEF Request, Phase
    <3>. HIDE DEF f1
    <3>3. f2 \in [Req -> Request] /\ Like(f2)
      BY <2>1, <3>2 DEF Request
    <3>. HIDE DEF f2
    <3>4. Fits(req'[r])
      BY <1>1, <3>1, <3>3 DEF Fits, Compose, ByHand, Working
    <3>5. Advances(r)
      BY <1>1, <3>1, <3>3, <3>4 DEF Advances, OnlyOf, GoesOn
    <3>6. Notes(r)
      BY <1>1, <2>4, <3>1, <3>3 DEF Notes, noted, Ended, Emptying, At, Busy
    <3>7. Turns(r, "start")
      BY <3>1, <3>3 DEF Turns, SameWork
    <3>. QED BY <1>3, <2>2, <2>4, <3>5, <3>6, <3>7, LoudStep DEF Create
  <2>. QED BY <1>3, <2>3, <2>4 DEF Create
<1>. QED BY <1>2, <1>3 DEF Create

LEMMA StartStep ==
  ASSUME IInv, NEW r \in Req, Start(r)
  PROVE  Proceeds(r)
<1>1. /\ Working(r) /\ Busy(r) /\ ~Compose(r) /\ ~Creating(r) /\ req[r].phase # "shown"
      /\ NameOf(r) \in Name
  BY StandaloneAt DEF Start, At
<1>2. CASE UNCHANGED docker /\ Broken(r)
  BY <1>1, <1>2, BrokenIs, QuietStep DEF Start
<1>3. CASE /\ Present(NameOf(r)) /\ docker' = [docker EXCEPT ![NameOf(r)].running = TRUE]
           /\ IF Restoring(r) THEN Answer(r, "error") ELSE Continue(r, "verify")
  <2>1. Advances(r) /\ Notes(r)
    BY <1>1, <1>3, ContinueIs, AnswerIs DEF Phase, ByHand
  <2>2. Handles(r)
    BY <1>1, <1>3, RunningIs DEF IInv, Handles
  <2>. QED BY <1>1, <2>1, <2>2, LoudStep DEF Start
<1>. QED BY <1>2, <1>3 DEF Start, Present

LEMMA VerifyStep ==
  ASSUME IInv, NEW r \in Req, Verify(r)
  PROVE  Proceeds(r)
<1>1. Busy(r) /\ ~Creating(r) /\ req[r].phase # "shown"
  BY StandaloneAt DEF Verify, At
<1>2. Answer(r, "ok") \/ Broken(r)
  BY DEF Verify
<1>. QED BY <1>1, <1>2, AnswerIs, BrokenIs, QuietStep DEF Verify

-----------------------------------------------------------------------------
(* Clean-ups, dialogs and failures *)

LEMMA AskCleanStep ==
  ASSUME IInv, NEW r \in Req, AskClean(r)
  PROVE  Proceeds(r)
<1>1. /\ Busy(r) /\ ~Creating(r) /\ req[r].kind = "clean" /\ req[r].phase = "shown"
      /\ Fits(req[r]) /\ req[r] \in Request /\ req \in [Req -> Request]
  BY BusyIs DEF IInv, TypeOK, AskClean, At, Creating, AboutToCreate
<1>2. CASE Answer(r, "error")
  BY <1>1, <1>2, AnswerIs, QuietStep DEF AskClean
<1>3. CASE Continue(r, "inspect")
  <2>. DEFINE p == [req[r] EXCEPT !.phase = "inspect"]
  <2>1. /\ p \in Request /\ p.phase = "inspect" /\ p.kind = "clean" /\ p.seen = req[r].seen
        /\ p.alone = req[r].alone /\ p.target = req[r].target /\ p.backup = req[r].backup
        /\ p.pass = req[r].pass /\ p.hits = req[r].hits /\ p.emptied = req[r].emptied
    BY <1>1 DEF Request, Phase
  <2>. HIDE DEF p
  <2>2. req' = [req EXCEPT ![r] = p] /\ UNCHANGED noted
    BY <1>3 DEF Continue, p
  <2>3. Fits(p)
    BY <1>1, <2>1 DEF Fits, ByHand
  <2>4. Advances(r)
    BY <1>1, <2>1, <2>2, <2>3 DEF Advances, OnlyOf, GoesOn
  <2>5. Notes(r)
    BY <1>1, <2>1, <2>2 DEF Notes, noted, Ended, Emptying, At
  <2>. QED BY <1>1, <2>4, <2>5, QuietStep DEF AskClean
<1>. QED BY <1>2, <1>3 DEF AskClean

LEMMA InspectCacheStep ==
  ASSUME IInv, NEW r \in Req, NEW dirs \in SUBSET CacheDir, InspectCache(r, dirs)
  PROVE  Proceeds(r)
<1>1. /\ Busy(r) /\ ~Creating(r) /\ req[r].kind = "clean" /\ req[r].phase = "inspect"
      /\ Fits(req[r]) /\ req[r] \in Request /\ req \in [Req -> Request]
  BY BusyIs DEF IInv, TypeOK, InspectCache, At, Creating, AboutToCreate, Fits, Busy,
     ByHand, ByCompose
<1>2. CASE Answer(r, "error")
  BY <1>1, <1>2, AnswerIs, QuietStep DEF InspectCache
<1>3. CASE /\ Named(r) # {} /\ AsShown(r, dirs)
           /\ req' = [req EXCEPT ![r].phase = "empty", ![r].left = dirs]
           /\ cleaning' = cleaning \union {req[r].seen.id}
           /\ UNCHANGED <<rebuilding, offered>>
  <2>. DEFINE f1 == [req EXCEPT ![r].phase = "empty"]
              f2 == [f1 EXCEPT ![r].left = dirs]
              Like(f) == /\ f[r].kind = req[r].kind /\ f[r].seen = req[r].seen
                         /\ f[r].alone = req[r].alone /\ f[r].target = req[r].target
                         /\ f[r].pass = req[r].pass /\ f[r].hits = req[r].hits
                         /\ f[r].phase = "empty" /\ f[r].backup = req[r].backup
                         /\ f[r].emptied = req[r].emptied /\ f[r].shown = req[r].shown
                         /\ \A x \in Req \ {r} : f[x] = req[x]
  <2>1. req' = f2
    BY <1>3, Zenon
  <2>2. f1 \in [Req -> Request] /\ Like(f1)
    BY <1>1 DEF Request, Phase
  <2>. HIDE DEF f1
  <2>3. f2 \in [Req -> Request] /\ Like(f2) /\ f2[r].left = dirs
    BY <2>2 DEF Request
  <2>. HIDE DEF f2
  <2>4. Fits(req'[r])
    BY <1>1, <1>3, <2>1, <2>3 DEF Fits, AsShown, ByHand
  <2>5. Advances(r)
    BY <1>1, <2>1, <2>3, <2>4 DEF Advances, OnlyOf, GoesOn
  <2>6. req[r].seen.id \in Id
    BY <1>3 DEF Named, Present, IInv, TypeOK, Container
  <2>7. Notes(r)
    BY <1>1, <1>3, <2>1, <2>3, <2>6 DEF Notes, noted, Ended, Emptying, At, Busy
  <2>. QED BY <1>1, <2>5, <2>7, QuietStep DEF InspectCache
<1>. QED BY <1>2, <1>3 DEF InspectCache

LEMMA EmptyStep ==
  ASSUME IInv, NEW r \in Req, NEW d \in CacheDir, Empty(r, d)
  PROVE  Proceeds(r)
<1>1. /\ Busy(r) /\ ~Creating(r) /\ req[r].kind = "clean" /\ req[r].phase = "empty"
      /\ Fits(req[r]) /\ req[r] \in Request /\ req \in [Req -> Request]
  BY BusyIs DEF IInv, TypeOK, Empty, At, Creating, AboutToCreate, Fits, Busy,
     ByHand, ByCompose
<1>2. ASSUME NEW outcome \in {"ok", "error"}, Answer(r, outcome) PROVE Proceeds(r)
  BY <1>1, <1>2, AnswerIs, QuietStep DEF Empty
<1>3. CASE /\ req' = [req EXCEPT ![r].left = @ \ {d}, ![r].emptied = @ \union {d}]
           /\ UNCHANGED noted
  <2>. DEFINE f1 == [req EXCEPT ![r].left = req[r].left \ {d}]
              f2 == [f1 EXCEPT ![r].emptied = req[r].emptied \union {d}]
              Like(f) == /\ f[r].kind = req[r].kind /\ f[r].seen = req[r].seen
                         /\ f[r].alone = req[r].alone /\ f[r].target = req[r].target
                         /\ f[r].pass = req[r].pass /\ f[r].hits = req[r].hits
                         /\ f[r].phase = "empty" /\ f[r].backup = req[r].backup
                         /\ f[r].left = req[r].left \ {d} /\ f[r].shown = req[r].shown
                         /\ \A x \in Req \ {r} : f[x] = req[x]
  <2>1. req' = f2
    BY <1>3, Zenon
  <2>2. f1 \in [Req -> Request] /\ Like(f1)
    BY <1>1 DEF Request, Phase
  <2>. HIDE DEF f1
  <2>3. /\ f2 \in [Req -> Request] /\ Like(f2)
        /\ f2[r].emptied = req[r].emptied \union {d}
    BY <1>1, <2>2 DEF Request
  <2>. HIDE DEF f2
  <2>4. d \in req[r].left
    BY DEF Empty
  <2>5. Fits(req'[r])
    BY <1>1, <1>3, <2>1, <2>3, <2>4 DEF Fits
  <2>6. Advances(r)
    BY <1>1, <2>1, <2>3, <2>5 DEF Advances, OnlyOf, GoesOn
  <2>7. Notes(r)
    BY <1>1, <1>3, <2>1, <2>3 DEF Notes, noted, Ended, Emptying, At, Busy
  <2>. QED BY <1>1, <2>6, <2>7, QuietStep DEF Empty
<1>. QED BY <1>2, <1>3 DEF Empty

LEMMA CancelStep ==
  ASSUME IInv, NEW r \in Req, Cancel(r)
  PROVE  Proceeds(r)
<1>1. Busy(r) /\ ~Creating(r) /\ req[r].kind # "recreate" /\ ~Emptying(r)
  BY BusyIs DEF IInv, Cancel, At, Creating, AboutToCreate, Emptying, Fits, Busy
<1>2. Done("ok") \in Request /\ Done("ok").kind = "none"
  BY DoneIs DEF Phase
<1>3. Advances(r) /\ Ended(r)
  BY <1>1, <1>2 DEF Cancel, Advances, OnlyOf, Ended, IInv, TypeOK
<1>4. Notes(r)
  BY <1>1, <1>3 DEF Cancel, Notes, noted
<1>. QED BY <1>1, <1>3, <1>4, QuietStep DEF Cancel

\* The request gives up, restores the container, or takes it for gone.
Fails(r) ==
  \/ /\ Ended(r) /\ req'[r].phase = "error"
     /\ Restoring(r) \/ req[r].phase \notin {"create", "start", "verify"}
  \/ TurnsBack(r)
  \/ /\ req[r].phase = "exists" /\ SameWork(r) /\ req'[r].phase = "create"
     /\ req'[r].hits = req[r].hits + 1 /\ req'[r].pass = req[r].pass

LEMMA FaultStep ==
  ASSUME IInv, NEW r \in Req, Fault(r)
  PROVE  Proceeds(r) /\ faults' = faults + 1 /\ Fails(r)
<1>1. /\ Busy(r) /\ req[r].phase # "shown"
      /\ Fits(req[r]) /\ req[r] \in Request /\ req \in [Req -> Request]
  BY BusyIs DEF IInv, TypeOK, Fault
<1>2. /\ UNCHANGED <<file, asked, crossed>> /\ faults' \in 0 .. MaxFault
      /\ faults' >= faults /\ faults' > 0 /\ faults' = faults + 1
  BY ContainerAssumption DEF Fault, IInv, TypeOK
<1>3. Advances(r) /\ Notes(r) /\ Fails(r)
  <2>1. CASE req[r].phase = "exists"
    <3>. DEFINE f1 == [req EXCEPT ![r].phase = "create"]
                f2 == [f1 EXCEPT ![r].hits = req[r].hits + 1]
                Like(f) == /\ f[r].kind = req[r].kind /\ f[r].seen = req[r].seen
                           /\ f[r].alone = req[r].alone /\ f[r].target = req[r].target
                           /\ f[r].pass = req[r].pass /\ f[r].backup = req[r].backup
                           /\ f[r].phase = "create"
                           /\ \A x \in Req \ {r} : f[x] = req[x]
    <3>1. req' = f2
      BY <2>1, Zenon DEF Fault
    <3>2. UNCHANGED noted
      BY <2>1 DEF Fault
    <3>3. /\ ~Compose(r) /\ req[r].kind \notin {"none", "clean"}
          /\ req[r].hits \in 0 .. 2 /\ (req[r].pass = "do" => req[r].hits = 0)
      BY <1>1, <2>1 DEF Fits, Busy, Compose, ByCompose, Request
    <3>4. f1 \in [Req -> Request] /\ Like(f1)
      BY <1>1 DEF Request, Phase
    <3>. HIDE DEF f1
    <3>5. f2 \in [Req -> Request] /\ Like(f2) /\ f2[r].hits = req[r].hits + 1
      BY <3>3, <3>4 DEF Request
    <3>. HIDE DEF f2
    <3>6. Fits(req'[r])
      BY <1>1, <3>1, <3>3, <3>5 DEF Fits, ByHand, ByCompose, Compose
    <3>7. Advances(r)
      BY <1>1, <3>1, <3>5, <3>6 DEF Advances, OnlyOf, GoesOn
    <3>8. Fails(r)
      BY <2>1, <3>1, <3>5 DEF SameWork, Fails
    <3>. QED BY <2>1, <3>1, <3>2, <3>3, <3>5, <3>7, <3>8 DEF Notes, noted, Ended, Emptying, At
  <2>2. CASE Broken(r)
    BY <1>1, <2>2, BrokenIs DEF Fails
  <2>. QED BY <2>1, <2>2 DEF Fault
<1>4. ASSUME UNCHANGED docker PROVE Proceeds(r)
  BY <1>1, <1>2, <1>3, <1>4, UntouchedIs DEF Proceeds, Persists, IInv, TypeOK
<1>5. ASSUME req[r].phase = "up",
             docker' = [docker EXCEPT ![req[r].seen.app] =
               [id |-> NewId, app |-> req[r].seen.app, port |-> file[req[r].seen.app],
                running |-> FALSE]]
      PROVE  Proceeds(r)
  <2>1. Working(r) /\ Compose(r)
    BY <1>1, <1>5, WorkingAt DEF ByHand
  <2>2. Handles(r)
    BY <1>5, <2>1, ComposePuts
  <2>. QED BY <1>2, <1>3, <2>2 DEF Proceeds, Persists, IInv, TypeOK
<1>6. ASSUME req[r].phase = "verify", Present(NameOf(r)),
             docker' = [docker EXCEPT ![NameOf(r)].running = FALSE]
      PROVE  Proceeds(r)
  <2>1. Handles(r)
    BY <1>1, <1>6, BusyIs, WorkingAt, RunningIs DEF IInv, Handles
  <2>. QED BY <1>2, <1>3, <2>1 DEF Proceeds, Persists, IInv, TypeOK
<1>. QED BY <1>2, <1>3, <1>4, <1>5, <1>6 DEF Fault

-----------------------------------------------------------------------------
(* A request that is alone keeps its order *)

\* What does not end a request leaves it without an answer.
LEMMA NoAnswer ==
  ASSUME NEW r \in Req, Ended(r) => ~Working(r), Working(r)' /\ req'[r].alone => InOrder(r)'
  PROVE  Well(r)
BY DEF Well, TruthOf, RestoredBy, Ends, Ended

\* An answer ends the request.
LEMMA OnlyAnswer ==
  ASSUME NEW r \in Req, Ended(r), TruthOf(r), RestoredBy(r)
  PROVE  Well(r)
BY DEF Well, Working, Busy, Ended

\* Of one that is not alone nothing is claimed.
LEMMA NotAlone ==
  ASSUME IInv, NEW r \in Req, Proceeds(r), ~(Working(r) /\ req[r].alone)
  PROVE  Well(r)
<1>1. Working(r)' => Working(r) /\ req'[r].alone = req[r].alone
  BY DEF Proceeds, Advances, OnlyOf, Ended, GoesOn, Working, Busy
<1>2. TruthOf(r) /\ RestoredBy(r)
  BY DEF TruthOf, RestoredBy, Ends
<1>. QED BY <1>1, <1>2 DEF Well

LEMMA NameIsReached ==
  ASSUME IInv, NEW r \in Req, Working(r)
  PROVE  NameOf(r) \in Reach(req[r]) /\ NameOf(r) \in Name
BY BusyIs DEF IInv, Working, Reach, NameOf, RightName

\* The order depends on the request, and on the container and the line of the
\* file under its name.
LEMMA SameOrder ==
  ASSUME NEW r \in Req, InOrder(r), req'[r] = req[r], docker'[NameOf(r)] = docker[NameOf(r)],
         Compose(r) => file'[NameOf(r)] = file[NameOf(r)]
  PROVE  InOrder(r)'
BY DEF InOrder, NameOf, Compose, Restoring, Present

LEMMA OthersAreWell ==
  ASSUME IInv, AllInOrder, NEW r \in Req, Proceeds(r), NEW x \in Req \ {r}
  PROVE  Well(x)
<1>1. req'[x] = req[x]
  BY DEF Proceeds, Advances, OnlyOf
<1>2. Ended(x) => ~Working(x)
  BY <1>1 DEF Ended, Working, Busy
<1>3. ASSUME Working(x)', req'[x].alone PROVE InOrder(x)'
  <2>1. Working(x) /\ req[x].alone /\ InOrder(x) /\ Busy(x)
    BY <1>1, <1>3 DEF AllInOrder, Working, Busy
  <2>2. NameOf(x) \in Reach(req[x]) /\ NameOf(x) \in Name /\ (Compose(x) => NameOf(x) \in Service)
    BY <2>1, NameIsReached, BusyIs DEF IInv, Compose, RightName
  <2>3. CASE ~Working(r)
    <3>1. docker' = docker /\ file' = file
      BY <2>3 DEF Proceeds, Handles
    <3>. QED BY <1>1, <2>1, <3>1, SameOrder
  <2>4. CASE Working(r)
    <3>1. NameOf(x) \notin Reach(req[r]) /\ NameOf(r) \in Reach(req[r])
      BY <2>1, <2>2, <2>4, NameIsReached DEF IInv, Apart
    <3>2. docker'[NameOf(x)] = docker[NameOf(x)]
      BY <2>2, <3>1 DEF Proceeds, Handles
    <3>3. Compose(x) => file'[NameOf(x)] = file[NameOf(x)]
      BY <2>2, <3>1 DEF Proceeds
    <3>. QED BY <1>1, <2>1, <3>2, <3>3, SameOrder
  <2>. QED BY <2>3, <2>4
<1>. QED BY <1>2, <1>3, NoAnswer

\* What is known of a request that is alone, by the way it works.
LEMMA AloneAt ==
  ASSUME IInv, AllInOrder, NEW r \in Req, Working(r), req[r].alone
  PROVE  /\ InOrder(r) /\ Busy(r) /\ Fits(req[r]) /\ NameOf(r) \in Name
         /\ req[r].seen \in Inspect /\ req[r].target \in Port
         /\ req[r].hits \in 0 .. 3 /\ faults \in Nat
         /\ docker \in [Name -> Container \union {None}]
         /\ Present(NameOf(r)) => docker[NameOf(r)] \in Container
         /\ Compose(r) => NameOf(r) = req[r].seen.app
         /\ Restoring(r) => req[r].hits >= 1
         /\ req[r].kind \in {"recreate", "update", "rollback"}
<1>1. Busy(r) /\ req[r] \in Request
  BY BusyIs DEF IInv, Working
<1>2. /\ Fits(req[r]) /\ NameOf(r) \in Name /\ req[r].seen \in Inspect /\ req[r].target \in Port
      /\ req[r].hits \in 0 .. 3 /\ RightName(NameOf(r), req[r].seen.app)
      /\ req[r].kind \in {"recreate", "update", "rollback"}
  BY <1>1, BusyIs DEF IInv, Request, Kind, Working, Busy
<1>3. docker \in [Name -> Container \union {None}] /\ faults \in Nat
  BY ContainerAssumption DEF IInv, TypeOK
<1>. QED
  BY <1>1, <1>2, <1>3 DEF AllInOrder, Present, Compose, Restoring, RightName, Fits, Busy

\* Turning to the restoration, nothing is expected of the container yet.
LEMMA TurnsBackWell ==
  ASSUME IInv, NEW r \in Req, TurnsBack(r)
  PROVE  Well(r)
<1>1. req'[r].phase = "exists" /\ Restoring(r)' /\ req'[r].seen = req[r].seen
  BY DEF TurnsBack, SameWork, Restoring
<1>2. InOrder(r)'
  BY <1>1 DEF InOrder
<1>3. ~Ends(r, "ok") /\ ~Ends(r, "error")
  BY <1>1 DEF Ends
<1>. QED BY <1>2, <1>3 DEF Well, TruthOf, RestoredBy

\* Refused or failed before the container was touched: it is as it was found,
\* or stopped, if removing it failed.
LEMMA FailsUntouched ==
  ASSUME IInv, AllInOrder, NEW r \in Req, Working(r), req[r].alone, UNCHANGED docker,
         Ended(r), req'[r].phase = "error",
         \/ Compose(r) \/ ~(req[r].hits + (faults' - faults) <= 1)
         \/ ~Restoring(r) /\ req[r].phase \in {"check", "exists", "look", "stop", "remove"}
  PROVE  Well(r)
<1>1. TruthOf(r)
  BY DEF TruthOf, Ends
<1>2. RestoredBy(r)
  <2>. SUFFICES ASSUME ~Compose(r), req[r].kind \in {"recreate", "update"},
                       req[r].hits + (faults' - faults) <= 1
                PROVE  LET c == docker'[NameOf(r)]
                       IN  /\ c # None
                           /\ c.port = req[r].seen.port
                           /\ \/ c.running = req[r].seen.running
                              \/ req[r].phase = "remove" /\ ~Restoring(r)
    BY DEF RestoredBy
  <2>1. InOrder(r)
    BY AloneAt
  <2>. QED BY <2>1 DEF InOrder, Present
<1>. QED BY <1>1, <1>2, OnlyAnswer

\* Nothing is claimed of an error of a service's request, of a rollback, or of a
\* request of which more than one command failed.
LEMMA FailsElsewhere ==
  ASSUME NEW r \in Req, Ended(r), req'[r].phase = "error",
         \/ Compose(r) \/ req[r].kind = "rollback"
         \/ ~(req[r].hits + (faults' - faults) <= 1)
  PROVE  Well(r)
<1>1. TruthOf(r)
  BY DEF TruthOf, Ends
<1>2. RestoredBy(r)
  BY DEF RestoredBy
<1>. QED BY <1>1, <1>2, OnlyAnswer

\* A command that finds no container, or a running one, to work on: that happens
\* to no request that is alone, unless it is a rollback, or a restoration that
\* failed before.
LEMMA FindsNothing ==
  ASSUME IInv, AllInOrder, NEW r \in Req, Working(r), req[r].alone, ~Compose(r),
         Broken(r), UNCHANGED faults,
         \/ req[r].phase \in {"look", "stop"} /\ ~Present(NameOf(r))
         \/ req[r].phase = "remove" /\ (~Present(NameOf(r)) \/ docker[NameOf(r)].running)
  PROVE  Well(r)
<1>1. /\ InOrder(r) /\ Busy(r) /\ req[r].hits \in 0 .. 3 /\ faults \in Nat
      /\ req[r].kind \in {"recreate", "update", "rollback"}
  BY AloneAt
<1>2. Ended(r) /\ req'[r].phase = "error"
  BY <1>1, BrokenIs DEF TurnsBack
<1>3. req[r].kind = "rollback" \/ req[r].hits > 1
  BY <1>1 DEF InOrder
<1>4. req[r].kind = "rollback" \/ ~(req[r].hits + (faults' - faults) <= 1)
  BY <1>1, <1>3
<1>. QED BY <1>2, <1>4, FailsElsewhere

LEMMA CheckWell ==
  ASSUME IInv, AllInOrder, NEW r \in Req, Check(r), Working(r), req[r].alone
  PROVE  Well(r)
<1>1. /\ Busy(r) /\ InOrder(r) /\ docker' = docker /\ req[r].phase = "check"
      /\ req[r].kind = "update" /\ ~Restoring(r)
  <2>1. Fits(req[r]) /\ InOrder(r) /\ Busy(r) /\ (Restoring(r) => req[r].hits >= 1)
    BY AloneAt
  <2>. QED BY <2>1 DEF Check, At, Fits, Busy
<1>2. \/ Ended(r) /\ req'[r].phase = "error"
      \/ Turns(r, IF Compose(r) THEN "edit" ELSE "exists")
  BY CheckStep
<1>3. CASE Ended(r) /\ req'[r].phase = "error"
  BY <1>1, <1>3, FailsUntouched
<1>4. CASE Turns(r, IF Compose(r) THEN "edit" ELSE "exists")
  <2>1. InOrder(r)'
    BY <1>1, <1>4 DEF InOrder, Turns, SameWork, NameOf, Compose, Restoring, Present
  <2>2. ~Ended(r)
    BY <1>1, <1>4 DEF Turns, SameWork, Ended, Busy
  <2>. QED BY <2>1, <2>2, NoAnswer
<1>. QED BY <1>2, <1>3, <1>4

LEMMA EditWell ==
  ASSUME IInv, AllInOrder, NEW r \in Req, Edit(r), Working(r), req[r].alone
  PROVE  Well(r)
<1>1. /\ Busy(r) /\ InOrder(r) /\ docker' = docker /\ req[r].phase = "edit" /\ Compose(r)
      /\ NameOf(r) = req[r].seen.app /\ file \in [Service -> Port]
  <2>1. /\ InOrder(r) /\ Busy(r) /\ (Compose(r) => NameOf(r) = req[r].seen.app)
        /\ Fits(req[r])
    BY AloneAt
  <2>. QED BY <2>1 DEF Edit, At, Fits, Busy, Working, Compose, ByHand, IInv, TypeOK
<1>2. (Ended(r) /\ req'[r].phase = "error") \/ Turns(r, "up")
  BY EditStep
<1>3. CASE Ended(r) /\ req'[r].phase = "error"
  BY <1>1, <1>3, FailsElsewhere
<1>4. CASE Turns(r, "up")
  <2>1. ~Ended(r)
    BY <1>1, <1>4 DEF Turns, SameWork, Ended, Busy
  <2>2. file'[NameOf(r)] = req[r].target
    <3>1. req[r].kind = "rollback" => req[r].target = req[r].backup.file[NameOf(r)]
      BY <1>1 DEF InOrder
    <3>2. ~Answer(r, "error")
      BY <1>1, <2>1, AnswerIs
    <3>3. \/ req[r].kind = "rollback" /\ file' = req[r].backup.file
          \/ file' = [file EXCEPT ![req[r].seen.app] = req[r].target]
      BY <3>2 DEF Edit
    <3>. QED BY <1>1, <3>1, <3>3 DEF Compose
  <2>3. InOrder(r)'
    BY <1>1, <1>4, <2>2 DEF InOrder, Turns, SameWork, NameOf, Compose
  <2>. QED BY <2>1, <2>3, NoAnswer
<1>. QED BY <1>2, <1>3, <1>4

LEMMA UpWell ==
  ASSUME IInv, AllInOrder, NEW r \in Req, Up(r), Working(r), req[r].alone
  PROVE  Well(r)
<1>1. /\ Busy(r) /\ InOrder(r) /\ file' = file /\ req[r].phase = "up" /\ Compose(r)
      /\ NameOf(r) = req[r].seen.app /\ NameOf(r) \in Name
      /\ docker \in [Name -> Container \union {None}]
  <2>1. /\ InOrder(r) /\ Busy(r) /\ (Compose(r) => NameOf(r) = req[r].seen.app)
        /\ Fits(req[r]) /\ NameOf(r) \in Name
        /\ docker \in [Name -> Container \union {None}]
    BY AloneAt
  <2>. QED BY <2>1 DEF Up, At, Fits, Busy, Working, Compose, ByHand
<1>2. CASE Answer(r, "error")
  <2>1. Ended(r) /\ req'[r].phase = "error"
    BY <1>1, <1>2, AnswerIs
  <2>. QED BY <1>1, <2>1, FailsElsewhere
<1>3. CASE Continue(r, "confirm")
  <2>1. Turns(r, "confirm")
    BY <1>1, <1>3, ContinueIs DEF Phase, ByCompose
  <2>2. PICK running \in BOOLEAN :
          docker' = [docker EXCEPT ![NameOf(r)] =
            [id |-> NewId, app |-> NameOf(r), port |-> file[NameOf(r)], running |-> running]]
    BY <1>1 DEF Up
  <2>3. /\ docker'[NameOf(r)] =
            [id |-> NewId, app |-> NameOf(r), port |-> file[NameOf(r)], running |-> running]
        /\ docker'[NameOf(r)] \in Container
    <3>1. NewId \in Id /\ file[NameOf(r)] \in Port /\ NameOf(r) \in App
      BY <1>1, NewIdIsNew DEF IInv, TypeOK, Compose, App
    <3>. QED BY <1>1, <2>2, <3>1 DEF Container
  <2>4. docker'[NameOf(r)] # None /\ docker'[NameOf(r)].port = file[NameOf(r)]
    BY <2>3, NoneIsNothing
  <2>5. InOrder(r)'
    BY <1>1, <2>1, <2>4 DEF InOrder, Turns, SameWork, NameOf, Compose, Present
  <2>6. ~Ended(r)
    BY <1>1, <2>1 DEF Turns, SameWork, Ended, Busy
  <2>. QED BY <2>5, <2>6, NoAnswer
<1>. QED BY <1>2, <1>3 DEF Up

LEMMA ConfirmWell ==
  ASSUME IInv, AllInOrder, NEW r \in Req, Confirm(r), Working(r), req[r].alone
  PROVE  Well(r)
<1>1. /\ Busy(r) /\ InOrder(r) /\ UNCHANGED <<docker, file>> /\ req[r].phase = "confirm"
      /\ Compose(r) /\ NameOf(r) = req[r].seen.app /\ NameOf(r) \in Name
  <2>1. /\ InOrder(r) /\ Busy(r) /\ (Compose(r) => NameOf(r) = req[r].seen.app)
        /\ Fits(req[r]) /\ NameOf(r) \in Name
    BY AloneAt
  <2>. QED BY <2>1 DEF Confirm, At, Fits, Busy, Working, Compose, ByHand
<1>2. CASE Answer(r, "error")
  <2>1. Ended(r) /\ req'[r].phase = "error"
    BY <1>1, <1>2, AnswerIs
  <2>. QED BY <1>1, <2>1, FailsElsewhere
<1>3. CASE Answer(r, "ok") /\ docker[NameOf(r)] # None /\ docker[NameOf(r)].running
  <2>1. Ended(r) /\ req'[r].phase = "ok"
    BY <1>1, <1>3, AnswerIs
  <2>2. /\ docker[NameOf(r)].port = file[NameOf(r)]
        /\ req[r].kind # "recreate" => file[NameOf(r)] = req[r].target
    BY <1>1 DEF InOrder
  <2>3. docker[NameOf(r)].app = req[r].seen.app
    BY <1>1, <1>3 DEF IInv, ServicesNamed, Present, RightName, Compose
  <2>4. TruthOf(r)
    BY <1>1, <1>3, <2>2, <2>3 DEF TruthOf
  <2>5. RestoredBy(r)
    BY <2>1 DEF RestoredBy, Ends
  <2>. QED BY <2>1, <2>4, <2>5, OnlyAnswer
<1>4. \/ Answer(r, "ok") /\ docker[NameOf(r)] # None /\ docker[NameOf(r)].running
      \/ Answer(r, "error")
  BY <1>1 DEF Confirm
<1>. QED BY <1>2, <1>3, <1>4

\* The phases of a request outside Compose, as it comes to its next command.
LEMMA ByHandAt ==
  ASSUME IInv, AllInOrder, NEW r \in Req, Working(r), req[r].alone,
         req[r].phase \in {"exists", "look", "stop", "remove", "create", "start", "verify"}
  PROVE  /\ ~Compose(r) /\ Busy(r) /\ InOrder(r) /\ NameOf(r) \in Name
         /\ req[r].seen \in Inspect /\ req[r].target \in Port
         /\ docker \in [Name -> Container \union {None}]
         /\ Present(NameOf(r)) => docker[NameOf(r)] \in Container
         /\ req[r].hits \in 0 .. 3 /\ faults \in Nat
         /\ req[r].kind \in {"recreate", "update", "rollback"}
         /\ Restoring(r) => req[r].hits >= 1 /\ req[r].phase # "verify"
<1>1. Fits(req[r]) /\ Busy(r)
  BY AloneAt
<1>2. ~Compose(r) /\ (Restoring(r) => req[r].phase # "verify")
  BY <1>1 DEF Fits, Busy, Working, Compose, ByCompose, Restoring, ByHand
<1>. QED BY <1>2, AloneAt

LEMMA UnsupportedWell ==
  ASSUME IInv, AllInOrder, NEW r \in Req, Unsupported(r), Working(r), req[r].alone
  PROVE  Well(r)
<1>1. Busy(r) /\ ~Restoring(r) /\ req[r].phase = "exists" /\ docker' = docker
      /\ Answer(r, "error")
  BY DEF Unsupported, At
<1>2. Ended(r) /\ req'[r].phase = "error"
  BY <1>1, AnswerIs
<1>. QED BY <1>1, <1>2, FailsUntouched

LEMMA ExistsWell ==
  ASSUME IInv, AllInOrder, NEW r \in Req, Exists(r), Working(r), req[r].alone
  PROVE  Well(r)
<1>1. /\ req[r].phase = "exists" /\ docker' = docker
      /\ Continue(r, IF Present(NameOf(r)) THEN "look" ELSE "create")
  BY DEF Exists, At
<1>2. ~Compose(r) /\ Busy(r) /\ InOrder(r)
  BY <1>1, ByHandAt
<1>3. Turns(r, IF Present(NameOf(r)) THEN "look" ELSE "create")
  BY <1>1, <1>2, ContinueIs DEF Phase, ByHand
<1>4. InOrder(r)'
  BY <1>1, <1>2, <1>3 DEF InOrder, Turns, SameWork, NameOf, Compose, Restoring, Present
<1>5. ~Ended(r)
  BY <1>2, <1>3 DEF Turns, SameWork, Ended, Busy
<1>. QED BY <1>4, <1>5, NoAnswer

LEMMA LookWell ==
  ASSUME IInv, AllInOrder, NEW r \in Req, Look(r), Working(r), req[r].alone
  PROVE  Well(r)
<1>1. /\ req[r].phase = "look" /\ docker' = docker /\ faults' = faults
      /\ IF ~Present(NameOf(r)) THEN Broken(r)
         ELSE Continue(r, IF docker[NameOf(r)].running THEN "stop" ELSE "remove")
  BY DEF Look, At, Going
<1>2. /\ ~Compose(r) /\ Busy(r) /\ InOrder(r)
      /\ Present(NameOf(r)) => docker[NameOf(r)] \in Container
  BY <1>1, ByHandAt
<1>3. CASE ~Present(NameOf(r))
  BY <1>1, <1>2, <1>3, FindsNothing
<1>4. CASE Present(NameOf(r))
  <2>1. Turns(r, IF docker[NameOf(r)].running THEN "stop" ELSE "remove")
    BY <1>1, <1>2, <1>4, ContinueIs DEF Phase, ByHand
  <2>2. InOrder(r)'
    BY <1>1, <1>2, <1>4, <2>1
       DEF InOrder, Turns, SameWork, NameOf, Compose, Restoring, Present, Container
  <2>3. ~Ended(r)
    BY <1>2, <2>1 DEF Turns, SameWork, Ended, Busy
  <2>. QED BY <2>2, <2>3, NoAnswer
<1>. QED BY <1>3, <1>4

LEMMA StopWell ==
  ASSUME IInv, AllInOrder, NEW r \in Req, Stop(r), Working(r), req[r].alone
  PROVE  Well(r)
<1>1. /\ req[r].phase = "stop" /\ faults' = faults
      /\ IF ~Present(NameOf(r)) THEN UNCHANGED docker /\ Broken(r)
         ELSE /\ docker' = [docker EXCEPT ![NameOf(r)].running = FALSE]
              /\ Continue(r, "remove")
  BY DEF Stop, At, Going
<1>2. ~Compose(r) /\ Busy(r) /\ InOrder(r) /\ NameOf(r) \in Name
  BY <1>1, ByHandAt
<1>3. CASE ~Present(NameOf(r))
  BY <1>1, <1>2, <1>3, FindsNothing
<1>4. CASE Present(NameOf(r))
  <2>1. Turns(r, "remove")
    BY <1>1, <1>2, <1>4, ContinueIs DEF Phase, ByHand
  <2>2. /\ docker'[NameOf(r)] # None /\ docker'[NameOf(r)].running = FALSE
        /\ docker'[NameOf(r)].port = docker[NameOf(r)].port
    BY <1>1, <1>2, <1>4, RunningIs DEF IInv
  <2>3. InOrder(r)'
    BY <1>1, <1>2, <1>4, <2>1, <2>2
       DEF InOrder, Turns, SameWork, NameOf, Compose, Restoring, Present
  <2>4. ~Ended(r)
    BY <1>2, <2>1 DEF Turns, SameWork, Ended, Busy
  <2>. QED BY <2>3, <2>4, NoAnswer
<1>. QED BY <1>3, <1>4

LEMMA RemoveWell ==
  ASSUME IInv, AllInOrder, NEW r \in Req, Remove(r), Working(r), req[r].alone
  PROVE  Well(r)
<1>1. /\ req[r].phase = "remove" /\ faults' = faults
      /\ \/ /\ ~Present(NameOf(r)) \/ docker[NameOf(r)].running
            /\ UNCHANGED docker /\ Broken(r)
         \/ docker' = [docker EXCEPT ![NameOf(r)] = None] /\ Continue(r, "create")
  BY DEF Remove, At, Going, Present
<1>2. /\ ~Compose(r) /\ Busy(r) /\ InOrder(r) /\ NameOf(r) \in Name
      /\ docker \in [Name -> Container \union {None}]
  BY <1>1, ByHandAt
<1>3. CASE /\ ~Present(NameOf(r)) \/ docker[NameOf(r)].running
           /\ UNCHANGED docker /\ Broken(r)
  BY <1>1, <1>2, <1>3, FindsNothing
<1>4. CASE docker' = [docker EXCEPT ![NameOf(r)] = None] /\ Continue(r, "create")
  <2>1. Turns(r, "create")
    BY <1>1, <1>2, <1>4, ContinueIs DEF Phase, ByHand
  <2>2. docker'[NameOf(r)] = None
    BY <1>2, <1>4
  <2>3. InOrder(r)'
    BY <1>2, <2>1, <2>2
       DEF InOrder, Turns, SameWork, NameOf, Compose, Restoring, Present
  <2>4. ~Ended(r)
    BY <1>2, <2>1 DEF Turns, SameWork, Ended, Busy
  <2>. QED BY <2>3, <2>4, NoAnswer
<1>. QED BY <1>1, <1>3, <1>4

\* What is created is the app that was meant, on the new port or, restoring, the
\* old one.
LEMMA CreateWell ==
  ASSUME IInv, AllInOrder, NEW r \in Req, Create(r), Working(r), req[r].alone
  PROVE  Well(r)
<1>1. req[r].phase = "create" /\ faults' = faults
  BY DEF Create, At, Going
<1>2. /\ ~Compose(r) /\ Busy(r) /\ InOrder(r) /\ NameOf(r) \in Name
      /\ docker \in [Name -> Container \union {None}] /\ req[r].seen \in Inspect
      /\ req[r].target \in Port /\ req[r].hits \in 0 .. 3 /\ faults \in Nat
      /\ req[r].kind \in {"recreate", "update", "rollback"}
  BY <1>1, ByHandAt
<1>3. CASE Present(NameOf(r)) /\ UNCHANGED docker /\ Broken(r)
  <2>1. CASE TurnsBack(r)
    BY <2>1, TurnsBackWell
  <2>2. CASE ~TurnsBack(r)
    <3>1. Ended(r) /\ req'[r].phase = "error" /\ Restoring(r)
      BY <1>1, <1>2, <1>3, <2>2, BrokenIs
    <3>2. req[r].hits > 1
      BY <1>1, <1>2, <1>3, <3>1 DEF InOrder
    <3>3. ~(req[r].hits + (faults' - faults) <= 1)
      BY <1>1, <1>2, <3>2
    <3>. QED BY <3>1, <3>3, FailsElsewhere
  <2>. QED BY <2>1, <2>2
<1>4. CASE ~Present(NameOf(r)) /\ docker' = [docker EXCEPT ![NameOf(r)] = Created(r)]
  <2>. DEFINE c == Created(r)
  <2>1. /\ c \in Container /\ c.app = req[r].seen.app /\ c.running = FALSE
        /\ c.port = IF Restoring(r) THEN req[r].seen.port ELSE req[r].target
    BY <1>2, BusyIs, NewIdIsNew DEF Created, Container, IInv
  <2>2. docker'[NameOf(r)] = c /\ c # None
    BY <1>2, <1>4, <2>1, NoneIsNothing
  <2>. HIDE DEF c
  <2>3. CASE ~req[r].seen.running /\ Answer(r, IF Restoring(r) THEN "error" ELSE "ok")
    <3>1. Ended(r) /\ req'[r].phase = IF Restoring(r) THEN "error" ELSE "ok"
      BY <1>2, <2>3, AnswerIs
    <3>2. TruthOf(r)
      BY <1>2, <2>1, <2>2, <2>3, <3>1 DEF TruthOf, Ends
    <3>3. RestoredBy(r)
      <4>1. req[r].seen.running = FALSE
        BY <1>2, <2>3 DEF Inspect
      <4>2. Ends(r, "error") => Restoring(r)
        BY <3>1 DEF Ends
      <4>. QED BY <2>1, <2>2, <4>1, <4>2 DEF RestoredBy
    <3>. QED BY <3>1, <3>2, <3>3, OnlyAnswer
  <2>4. CASE Turns(r, "start") /\ req[r].seen.running
    <3>1. InOrder(r)'
      BY <1>2, <2>1, <2>2, <2>4
         DEF InOrder, Turns, SameWork, NameOf, Compose, Restoring, Present
    <3>2. ~Ended(r)
      BY <1>2, <2>4 DEF Turns, SameWork, Ended, Busy
    <3>. QED BY <3>1, <3>2, NoAnswer
  <2>5. \/ ~req[r].seen.running /\ Answer(r, IF Restoring(r) THEN "error" ELSE "ok")
        \/ Turns(r, "start") /\ req[r].seen.running
    <3>1. CASE ~req[r].seen.running
      BY <1>4, <3>1 DEF Create
    <3>2. CASE req[r].seen.running
      BY <1>4, <3>2, CreateStep
    <3>. QED BY <3>1, <3>2
  <2>. QED BY <2>3, <2>4, <2>5
<1>. QED BY <1>3, <1>4 DEF Create

LEMMA StartWell ==
  ASSUME IInv, AllInOrder, NEW r \in Req, Start(r), Working(r), req[r].alone
  PROVE  Well(r)
<1>1. /\ req[r].phase = "start" /\ faults' = faults
      /\ \/ /\ ~Present(NameOf(r)) \/ Taken(docker[NameOf(r)].port, docker[NameOf(r)].id)
            /\ UNCHANGED docker /\ Broken(r)
         \/ /\ docker' = [docker EXCEPT ![NameOf(r)].running = TRUE]
            /\ IF Restoring(r) THEN Answer(r, "error") ELSE Continue(r, "verify")
  BY DEF Start, At, Going, Present
<1>2. /\ ~Compose(r) /\ Busy(r) /\ NameOf(r) \in Name /\ req[r].seen \in Inspect
      /\ Present(NameOf(r)) /\ docker[NameOf(r)].app = req[r].seen.app
      /\ req[r].seen.running
      /\ docker[NameOf(r)].port = IF Restoring(r) THEN req[r].seen.port ELSE req[r].target
  <2>1. ~Compose(r) /\ Busy(r) /\ InOrder(r) /\ NameOf(r) \in Name /\ req[r].seen \in Inspect
    BY <1>1, ByHandAt
  <2>. QED BY <1>1, <2>1 DEF InOrder
<1>3. CASE /\ ~Present(NameOf(r)) \/ Taken(docker[NameOf(r)].port, docker[NameOf(r)].id)
           /\ UNCHANGED docker /\ Broken(r)
  <2>1. CASE TurnsBack(r)
    BY <2>1, TurnsBackWell
  <2>2. CASE ~TurnsBack(r)
    <3>1. Ended(r) /\ req'[r].phase = "error" /\ Restoring(r)
      BY <1>1, <1>2, <1>3, <2>2, BrokenIs
    <3>2. TruthOf(r)
      BY <3>1 DEF TruthOf, Ends
    <3>3. PICK n \in Name : /\ Present(n) /\ docker[n].running
                            /\ docker[n].port = docker[NameOf(r)].port
                            /\ docker[n].id # docker[NameOf(r)].id
      BY <1>2, <1>3 DEF Taken
    <3>4. RestoredBy(r)
      BY <1>2, <1>3, <3>1, <3>3 DEF RestoredBy, Present
    <3>. QED BY <3>1, <3>2, <3>4, OnlyAnswer
  <2>. QED BY <2>1, <2>2
<1>4. CASE /\ docker' = [docker EXCEPT ![NameOf(r)].running = TRUE]
           /\ IF Restoring(r) THEN Answer(r, "error") ELSE Continue(r, "verify")
  <2>1. /\ docker'[NameOf(r)] # None /\ docker'[NameOf(r)].running = TRUE
        /\ docker'[NameOf(r)].port = docker[NameOf(r)].port
        /\ docker'[NameOf(r)].app = docker[NameOf(r)].app
    BY <1>2, <1>4, RunningIs DEF IInv
  <2>2. CASE Restoring(r)
    <3>1. Ended(r) /\ req'[r].phase = "error"
      BY <1>2, <1>4, <2>2, AnswerIs
    <3>2. TruthOf(r)
      BY <3>1 DEF TruthOf, Ends
    <3>3. RestoredBy(r)
      <4>1. req[r].seen.running = TRUE
        BY <1>2 DEF Inspect
      <4>. QED BY <1>2, <2>1, <2>2, <4>1 DEF RestoredBy
    <3>. QED BY <3>1, <3>2, <3>3, OnlyAnswer
  <2>3. CASE ~Restoring(r)
    <3>1. Turns(r, "verify")
      BY <1>2, <1>4, <2>3, ContinueIs DEF Phase, ByHand
    <3>2. InOrder(r)'
      BY <1>2, <2>1, <2>3, <3>1
         DEF InOrder, Turns, SameWork, NameOf, Compose, Restoring, Present
    <3>3. ~Ended(r)
      BY <1>2, <3>1 DEF Turns, SameWork, Ended, Busy
    <3>. QED BY <3>2, <3>3, NoAnswer
  <2>. QED BY <2>2, <2>3
<1>. QED BY <1>1, <1>3, <1>4

LEMMA VerifyWell ==
  ASSUME IInv, AllInOrder, NEW r \in Req, Verify(r), Working(r), req[r].alone
  PROVE  Well(r)
<1>1. /\ req[r].phase = "verify" /\ docker' = docker
      /\ Answer(r, "ok") \/ Broken(r)
  BY DEF Verify, At
<1>2. ~Compose(r) /\ Busy(r) /\ InOrder(r) /\ ~Restoring(r)
  BY <1>1, ByHandAt
<1>3. CASE Answer(r, "ok")
  <2>1. Ended(r) /\ req'[r].phase = "ok"
    BY <1>2, <1>3, AnswerIs
  <2>2. TruthOf(r)
    BY <1>1, <1>2 DEF TruthOf, InOrder, Present
  <2>3. RestoredBy(r)
    BY <2>1 DEF RestoredBy, Ends
  <2>. QED BY <2>1, <2>2, <2>3, OnlyAnswer
<1>4. CASE Broken(r)
  <2>1. TurnsBack(r)
    BY <1>1, <1>2, <1>4, BrokenIs
  <2>. QED BY <2>1, TurnsBackWell
<1>. QED BY <1>1, <1>3, <1>4

\* The first failure of a request comes before it touched the container, or is
\* followed by the restoration; a second one is more than FailureRestores allows.
LEMMA FaultWell ==
  ASSUME IInv, AllInOrder, NEW r \in Req, Fault(r), Working(r), req[r].alone
  PROVE  Well(r)
<1>1. /\ Busy(r) /\ InOrder(r) /\ req[r].hits \in 0 .. 3 /\ faults \in Nat /\ Fits(req[r])
      /\ Restoring(r) => req[r].hits >= 1
  BY AloneAt
<1>2. faults' = faults + 1 /\ Fails(r)
  BY FaultStep
<1>3. CASE TurnsBack(r)
  BY <1>3, TurnsBackWell
<1>4. CASE /\ req[r].phase = "exists" /\ SameWork(r) /\ req'[r].phase = "create"
           /\ req'[r].hits = req[r].hits + 1 /\ req'[r].pass = req[r].pass
  <2>1. ~Compose(r)
    BY <1>4, ByHandAt
  <2>2. Restoring(r)' => ~(req'[r].hits <= 1)
    BY <1>1, <1>4 DEF Restoring
  <2>3. InOrder(r)'
    BY <1>4, <2>1, <2>2 DEF InOrder, SameWork, NameOf, Compose
  <2>4. ~Ended(r)
    BY <1>1, <1>4 DEF SameWork, Ended, Busy
  <2>. QED BY <2>3, <2>4, NoAnswer
<1>5. CASE /\ Ended(r) /\ req'[r].phase = "error"
           /\ Restoring(r) \/ req[r].phase \notin {"create", "start", "verify"}
  <2>1. CASE Compose(r) \/ Restoring(r)
    <3>1. Restoring(r) => ~(req[r].hits + (faults' - faults) <= 1)
      BY <1>1, <1>2
    <3>. QED BY <1>5, <2>1, <3>1, FailsElsewhere
  <2>2. CASE ~Compose(r) /\ ~Restoring(r)
    <3>1. req[r].phase \in {"check", "exists", "look", "stop", "remove"}
      BY <1>1, <1>5, <2>2 DEF Fits, Busy, Working, Compose, ByHand
    <3>2. docker' = docker
      BY <3>1 DEF Fault
    <3>. QED BY <1>5, <2>2, <3>1, <3>2, FailsUntouched
  <2>. QED BY <2>1, <2>2
<1>. QED BY <1>2, <1>3, <1>4, <1>5 DEF Fails

\* A clean-up or a dialog does not work on the container.
LEMMA IdleWell ==
  ASSUME IInv, NEW r \in Req, Proceeds(r),
         AskClean(r) \/ Cancel(r) \/ (\E dirs \in SUBSET CacheDir : InspectCache(r, dirs))
           \/ (\E d \in CacheDir : Empty(r, d))
  PROVE  Well(r)
<1>1. req[r].phase \in {"shown", "inspect", "empty"} /\ Busy(r)
  BY DEF AskClean, Cancel, InspectCache, Empty, At
<1>2. ~Working(r)
  BY <1>1, BusyIs DEF IInv, Fits, Working, Busy, ByHand, ByCompose
<1>. QED BY <1>2, NotAlone

LEMMA ProceedsWell ==
  ASSUME IInv, AllInOrder, NEW r \in Req, Proceeds(r), Well(r)
  PROVE  AllInOrder' /\ \A x \in Req : Well(x)
<1>1. \A x \in Req : Well(x)
  BY OthersAreWell
<1>. QED BY <1>1 DEF Well, AllInOrder

-----------------------------------------------------------------------------
(* A request begins, a dialog is shown, or one command is given *)

Cut(q) == [q EXCEPT !.alone = FALSE]

\* All that can have happened to the request is that it is not alone any more.
Goes(x) == req'[x] = req[x] \/ req'[x] = Cut(req[x])

LEMMA GoesIs ==
  ASSUME IInv, NEW x \in Req, Goes(x)
  PROVE  /\ req'[x] \in Request /\ Fits(req'[x]) /\ Reach(req'[x]) = Reach(req[x])
         /\ req'[x].kind = req[x].kind /\ req'[x].phase = req[x].phase
         /\ req'[x].pass = req[x].pass /\ req'[x].seen = req[x].seen
         /\ req'[x].alone => req[x].alone
<1>1. req[x] \in Request /\ Fits(req[x])
  BY DEF IInv, TypeOK, RequestsFit
<1>2. /\ Cut(req[x]) \in Request /\ Fits(Cut(req[x])) /\ Reach(Cut(req[x])) = Reach(req[x])
      /\ Cut(req[x]).kind = req[x].kind /\ Cut(req[x]).phase = req[x].phase
      /\ Cut(req[x]).pass = req[x].pass /\ Cut(req[x]).seen = req[x].seen
      /\ ~Cut(req[x]).alone
  <2>. DEFINE q == req[x]
              p == [q EXCEPT !.alone = FALSE]
  <2>. HIDE DEF q
  <2>1. q \in Request /\ Fits(q)
    BY <1>1 DEF q
  <2>2. /\ p \in Request /\ p.kind = q.kind /\ p.phase = q.phase /\ p.pass = q.pass
        /\ p.seen = q.seen /\ ~p.alone /\ p.target = q.target /\ p.backup = q.backup
        /\ p.hits = q.hits /\ p.shown = q.shown /\ p.left = q.left /\ p.emptied = q.emptied
    BY <2>1 DEF Request
  <2>. HIDE DEF p
  <2>3. Fits(p) /\ Reach(p) = Reach(q)
    BY <2>1, <2>2 DEF Fits, Reach
  <2>4. Cut(q) = p
    BY DEF Cut, p
  <2>. QED BY <2>2, <2>3, <2>4 DEF q
<1>. QED BY <1>1, <1>2 DEF Goes

LEMMA DisturbedIs ==
  ASSUME IInv, NEW names, NEW x \in Req
  PROVE  /\ Disturbed(names)[x] \in {req[x], Cut(req[x])}
         /\ WorksOn(x, names) => Disturbed(names)[x] = Cut(req[x])
         /\ Disturbed(names) = [y \in Req |-> Disturbed(names)[y]]
BY DEF Disturbed, Cut

\* What the opened request is, and what it has done to the others.
Opened(r, q) ==
  /\ req' \in [Req -> Request]
  /\ \A x \in Req \ {r} : Goes(x) /\ (WorksOn(x, Reach(q)) => ~req'[x].alone)
  /\ LET p == req'[r]
     IN  /\ p.kind = q.kind /\ p.phase = q.phase /\ p.seen = q.seen /\ p.pass = q.pass
         /\ p.target = q.target /\ p.backup = q.backup
         /\ Fits(p) /\ Reach(p) = Reach(q)
         /\ p.alone => \A x \in Req : ~WorksOn(x, Reach(q))

LEMMA OpenIs ==
  ASSUME IInv, NEW r \in Req, NEW q \in Request, Fits(q), Open(r, q)
  PROVE  Opened(r, q)
<1>. DEFINE alone == \A x \in Req : ~WorksOn(x, Reach(q))
            p == [q EXCEPT !.alone = alone]
            d == Disturbed(Reach(q))
<1>1. alone \in BOOLEAN
  OBVIOUS
<1>. HIDE DEF alone
<1>2. /\ p \in Request /\ p.kind = q.kind /\ p.phase = q.phase /\ p.pass = q.pass
      /\ p.seen = q.seen /\ p.alone = alone /\ p.target = q.target /\ p.backup = q.backup
      /\ p.hits = q.hits /\ p.shown = q.shown /\ p.left = q.left /\ p.emptied = q.emptied
  BY <1>1 DEF Request
<1>3. req' = [d EXCEPT ![r] = p]
  BY DEF Open, d, p, alone
<1>. HIDE DEF p
<1>4. Fits(p) /\ Reach(p) = Reach(q)
  BY <1>2 DEF Fits, Reach
<1>5. \A x \in Req : d[x] \in {req[x], Cut(req[x])} /\ (WorksOn(x, Reach(q)) => d[x] = Cut(req[x]))
  BY DisturbedIs
<1>6. d = [y \in Req |-> d[y]]
  BY DEF Disturbed
<1>. HIDE DEF d
<1>7. DOMAIN req' = Req /\ req'[r] = p /\ req' = [y \in Req |-> req'[y]]
      /\ \A x \in Req \ {r} : req'[x] = d[x]
  BY <1>3, <1>6
<1>8. \A x \in Req \ {r} : Goes(x) /\ req'[x] \in Request
  BY <1>5, <1>7, GoesIs DEF Goes
<1>9. \A x \in Req \ {r} : WorksOn(x, Reach(q)) => ~req'[x].alone
  <2>1. \A x \in Req : req[x] \in Request
    BY DEF IInv, TypeOK
  <2>2. \A y \in Request : ~Cut(y).alone
    BY DEF Cut, Request
  <2>. QED BY <1>5, <1>7, <2>1, <2>2
<1>10. req' \in [Req -> Request]
  BY <1>2, <1>7, <1>8
<1>. QED BY <1>2, <1>4, <1>7, <1>8, <1>9, <1>10 DEF Opened, alone

LEMMA MixedIs ==
  ASSUME IInv, NEW n \in Name, NEW app \in App
  PROVE  /\ Mixed(n, app) \subseteq App
         /\ Present(n) => docker[n].app = app \/ {app, docker[n].app} \subseteq Mixed(n, app)
         /\ \A x \in Req : Working(x) /\ NameOf(x) = n =>
              req[x].seen.app = app \/ {app, req[x].seen.app} \subseteq Mixed(n, app)
<1>. DEFINE there == {docker[m].app : m \in {k \in {n} : Present(k)}}
            meant == {req[r].seen.app : r \in {x \in Req : Working(x) /\ NameOf(x) = n}}
            apps == {app} \union there \union meant
<1>1. Mixed(n, app) = IF apps = {app} THEN {} ELSE apps
  BY DEF Mixed
<1>2. there \subseteq App /\ (Present(n) => docker[n].app \in there)
  BY DEF IInv, TypeOK, Present, Container
<1>3. /\ meant \subseteq App
      /\ \A x \in Req : Working(x) /\ NameOf(x) = n => req[x].seen.app \in meant
  BY BusyIs DEF IInv, Working
<1>. HIDE DEF there, meant
<1>. QED BY <1>1, <1>2, <1>3

\* What it goes by is what was found, unless it is a rollback.
AsFound(q) ==
  LET n == q.seen.name
  IN  /\ q.kind # "rollback" => /\ Present(n) /\ docker[n].port = q.seen.port
                                /\ docker[n].running = q.seen.running
      /\ q.kind = "rollback" /\ q.phase = "edit" => q.target = q.backup.file[n]
      /\ q.phase \in {"check", "edit", "up", "exists"}
      /\ q.phase = "up" => q.kind = "recreate"

\* A slot without work takes one up, of which crossed knows what it mixes up.
Begins(r, q) ==
  LET n == q.seen.name  a == q.seen.app
  IN  /\ ~Working(r) /\ ~Emptying(r) /\ req[r].kind # "recreate"
      /\ Opened(r, q) /\ q.kind \notin {"none", "clean"} /\ AsFound(q)
      /\ n \in Name /\ crossed \subseteq crossed' /\ crossed' \subseteq App
      /\ Present(n) => docker[n].app = a \/ {a, docker[n].app} \subseteq crossed'
      /\ \A x \in Req : Working(x) /\ NameOf(x) = n =>
           req[x].seen.app = a \/ {a, req[x].seen.app} \subseteq crossed'
      /\ rebuilding' = IF q.kind = "recreate" THEN rebuilding \union {n} ELSE rebuilding
      /\ UNCHANGED <<docker, file, cleaning, offered, faults>>
      /\ asked' \in 0 .. MaxAsk

\* The others are what they were.
LEMMA OthersAre ==
  ASSUME IInv, NEW r \in Req, NEW q, Opened(r, q), NEW x \in Req \ {r}
  PROVE  /\ Working(x)' <=> Working(x)
         /\ req'[x].seen = req[x].seen /\ req'[x].kind = req[x].kind
         /\ req'[x].phase = req[x].phase /\ req'[x].pass = req[x].pass
         /\ Reach(req'[x]) = Reach(req[x]) /\ Fits(req'[x])
         /\ req'[x].alone => req[x].alone /\ ~WorksOn(x, Reach(q))
<1>1. Goes(x) /\ (WorksOn(x, Reach(q)) => ~req'[x].alone)
  BY DEF Opened
<1>. QED BY <1>1, GoesIs DEF Working, Busy

LEMMA BeginFits ==
  ASSUME IInv, NEW r \in Req, NEW q, Begins(r, q)
  PROVE  RequestsFit' /\ ServicesNamed'
<1>1. RequestsFit'
  BY OthersAre DEF Begins, Opened, RequestsFit
<1>2. ServicesNamed'
  BY DEF Begins, IInv, ServicesNamed, Present
<1>. QED BY <1>1, <1>2

LEMMA BeginApart ==
  ASSUME IInv, NEW r \in Req, NEW q, Begins(r, q)
  PROVE  Apart'
<1>. SUFFICES ASSUME NEW p \in Req, NEW x \in Req, p # x, Working(p)', Working(x)',
                     req'[p].alone
              PROVE  Reach(req'[p]) \intersect Reach(req'[x]) = {}
  BY DEF Apart
<1>1. CASE p # r /\ x # r
  BY <1>1, OthersAre DEF Begins, IInv, Apart
<1>2. CASE p = r
  <2>1. ~WorksOn(x, Reach(q)) /\ Working(x) /\ Reach(req'[x]) = Reach(req[x])
        /\ Reach(req'[r]) = Reach(q)
    BY <1>2, OthersAre DEF Begins, Opened
  <2>. QED BY <1>2, <2>1 DEF WorksOn
<1>3. CASE x = r
  <2>1. ~WorksOn(p, Reach(q)) /\ Working(p) /\ Reach(req'[p]) = Reach(req[p])
        /\ Reach(req'[r]) = Reach(q)
    BY <1>3, OthersAre DEF Begins, Opened
  <2>. QED BY <1>3, <2>1 DEF WorksOn
<1>. QED BY <1>1, <1>2, <1>3

LEMMA BeginMeant ==
  ASSUME IInv, NEW r \in Req, NEW q, Begins(r, q)
  PROVE  FoundAsMeant' /\ OneMeant'
<1>1. \A x \in Req \ {r} : (Working(x)' => Working(x)) /\ req'[x].seen = req[x].seen
  BY OthersAre DEF Begins
<1>2. req'[r].seen = q.seen /\ crossed \subseteq crossed' /\ docker' = docker
  BY DEF Begins, Opened
<1>3. ASSUME NEW x \in Req, Working(x)', docker[NameOf(x)'] # None
      PROVE  LET b == docker[NameOf(x)'].app  a == req'[x].seen.app
             IN  b = a \/ (b \in crossed' /\ a \in crossed')
  <2>1. CASE x = r
    BY <1>2, <1>3, <2>1 DEF Begins, NameOf, Present
  <2>2. CASE x # r
    BY <1>1, <1>2, <1>3, <2>2 DEF IInv, FoundAsMeant, Meant, NameOf, Present
  <2>. QED BY <2>1, <2>2
<1>4. FoundAsMeant'
  BY <1>2, <1>3 DEF FoundAsMeant, Meant, Present, NameOf
<1>5. ASSUME NEW x \in Req, NEW y \in Req, Working(x)', Working(y)', NameOf(x)' = NameOf(y)'
      PROVE  LET b == req'[y].seen.app  a == req'[x].seen.app
             IN  a = b \/ (a \in crossed' /\ b \in crossed')
  <2>1. CASE x # r /\ y # r
    BY <1>1, <1>2, <1>5, <2>1 DEF IInv, OneMeant, Meant, NameOf
  <2>2. CASE x = r /\ y # r
    BY <1>1, <1>2, <1>5, <2>2 DEF Begins, NameOf
  <2>3. CASE x # r /\ y = r
    BY <1>1, <1>2, <1>5, <2>3 DEF Begins, NameOf
  <2>. QED BY <2>1, <2>2, <2>3
<1>6. OneMeant'
  BY <1>5 DEF OneMeant, Meant
<1>. QED BY <1>4, <1>6

LEMMA BeginShows ==
  ASSUME IInv, NEW r \in Req, NEW q, Begins(r, q)
  PROVE  ShownWhileRebuilt' /\ CleanUpIsExact'
<1>1. \A x \in Req \ {r} : /\ req'[x].seen = req[x].seen /\ req'[x].kind = req[x].kind
                           /\ req'[x].phase = req[x].phase /\ (req'[x].alone => req[x].alone)
  BY OthersAre DEF Begins
<1>2. req'[r].seen = q.seen /\ req'[r].kind = q.kind /\ req'[r].phase = q.phase
  BY DEF Begins, Opened
<1>3. ASSUME NEW y \in Req, Busy(y)', req'[y].kind = "recreate", req'[y].alone
      PROVE  NameOf(y)' \in rebuilding'
  BY <1>1, <1>2, <1>3 DEF Begins, IInv, ShownWhileRebuilt, Busy, NameOf
<1>4. ASSUME NEW n \in rebuilding'
      PROVE  \E y \in Req : Busy(y)' /\ req'[y].kind = "recreate" /\ NameOf(y)' = n
  <2>1. CASE n \in rebuilding
    <3>1. PICK y \in Req : Busy(y) /\ req[y].kind = "recreate" /\ NameOf(y) = n
      BY <2>1 DEF IInv, ShownWhileRebuilt
    <3>. QED BY <3>1, <1>1 DEF Begins, Busy, NameOf
  <2>2. CASE q.kind = "recreate" /\ n = q.seen.name
    BY <2>2, <1>2 DEF Busy, NameOf
  <2>. QED BY <1>4, <2>1, <2>2 DEF Begins
<1>5. ASSUME NEW y \in Req, At(y, "empty")'
      PROVE  req'[y].emptied \union req'[y].left = req'[y].shown
  BY <1>5, BeginFits DEF RequestsFit, Fits, At, Busy, ByHand, ByCompose
<1>6. ASSUME NEW i \in cleaning'
      PROVE  \E y \in Req : At(y, "empty")' /\ req'[y].seen.id = i
  <2>1. PICK y \in Req : At(y, "empty") /\ req[y].seen.id = i
    BY <1>6 DEF Begins, IInv, CleanUpIsExact
  <2>. QED BY <2>1, <1>1 DEF Begins, Emptying, At, Busy
<1>. QED BY <1>3, <1>4, <1>5, <1>6 DEF ShownWhileRebuilt, CleanUpIsExact

LEMMA BeginLoses ==
  ASSUME IInv, NEW r \in Req, NEW q, Begins(r, q)
  PROVE  NeverLost'
<1>1. \A a \in App : ~Lost(a) => ~Lost(a)'
  BY DEF Begins, Lost, Present
<1>2. ASSUME NEW x \in Req, NEW a \in App, AboutToCreate(x, a) PROVE AboutToCreate(x, a)'
  <2>1. x # r
    BY <1>2, CreatesWorking DEF Begins
  <2>2. /\ req'[x].seen = req[x].seen /\ req'[x].kind = req[x].kind
        /\ req'[x].phase = req[x].phase /\ req'[x].pass = req[x].pass
    BY <2>1, OthersAre DEF Begins
  <2>. QED BY <1>2, <2>2 DEF AboutToCreate, Busy, Restoring
<1>3. faults \in Nat /\ faults' \in Nat /\ faults' >= faults /\ crossed \subseteq crossed'
  BY ContainerAssumption DEF Begins, IInv, TypeOK
<1>. QED BY <1>1, <1>2, <1>3, NothingLost

\* A request that is not cut off is what it was.
LEMMA GoesAlone ==
  ASSUME IInv, NEW x \in Req, Goes(x)
  PROVE  /\ req'[x].alone => req'[x] = req[x]
         /\ Ended(x) => ~Working(x)
<1>1. req[x] \in Request
  BY DEF IInv, TypeOK
<1>2. ~Cut(req[x]).alone
  BY <1>1 DEF Cut, Request
<1>3. req'[x].kind = req[x].kind
  BY GoesIs
<1>. QED BY <1>2, <1>3 DEF Goes, Ended, Working, Busy

LEMMA BeginWell ==
  ASSUME IInv, AllInOrder, NEW r \in Req, NEW q, Begins(r, q), NEW x \in Req
  PROVE  Well(x)
<1>1. docker' = docker /\ file' = file
  BY DEF Begins
<1>2. CASE x = r
  <2>1. ~Working(r) /\ AsFound(q)
    BY DEF Begins
  <2>2. /\ req'[r].seen = q.seen /\ req'[r].kind = q.kind /\ req'[r].phase = q.phase
        /\ req'[r].pass = q.pass /\ req'[r].target = q.target
        /\ req'[r].backup = q.backup
    BY DEF Begins, Opened
  <2>3. InOrder(r)'
    BY <1>1, <2>1, <2>2 DEF InOrder, AsFound, NameOf, Compose, Restoring, Present
  <2>. QED BY <1>2, <2>1, <2>3, NoAnswer
<1>3. CASE x # r
  <2>1. Goes(x)
    BY <1>3 DEF Begins, Opened
  <2>2. Ended(x) => ~Working(x)
    BY <2>1, GoesAlone
  <2>3. ASSUME Working(x)', req'[x].alone PROVE InOrder(x)'
    <3>1. req'[x] = req[x]
      BY <2>1, <2>3, GoesAlone
    <3>2. InOrder(x)
      BY <2>3, <3>1 DEF AllInOrder, Working, Busy
    <3>. QED BY <1>1, <3>1, <3>2, SameOrder
  <2>. QED BY <2>2, <2>3, NoAnswer
<1>. QED BY <1>2, <1>3

LEMMA BeginInv ==
  ASSUME IInv, NEW r \in Req, NEW q, Begins(r, q)
  PROVE  IInv' /\ AllWell
<1>1. TypeOK'
  BY DEF Begins, Opened, IInv, TypeOK
<1>2. IInv'
  BY <1>1, BeginFits, BeginApart, BeginMeant, BeginShows, BeginLoses DEF IInv
<1>3. AllWell
  BY BeginWell DEF AllWell
<1>. QED BY <1>2, <1>3

LEMMA SeenIs ==
  ASSUME IInv, NEW n \in Name, Present(n)
  PROVE  /\ Seen(n) \in Inspect /\ Seen(n).name = n /\ Seen(n).app = docker[n].app
         /\ docker[n].app \in App /\ RightName(n, docker[n].app) /\ Seen(n).port \in Port
         /\ \A x \in Req : Working(x) /\ NameOf(x) = n =>
              \/ req[x].seen.app = docker[n].app
              \/ {docker[n].app, req[x].seen.app} \subseteq crossed
<1>1. docker[n] \in Container
  BY DEF IInv, TypeOK, Present
<1>2. \A x \in Req : Working(x) /\ NameOf(x) = n => Meant(docker[n].app, req[x].seen.app)
  BY DEF IInv, FoundAsMeant
<1>. QED BY <1>1, <1>2 DEF Seen, Inspect, Container, IInv, ServicesNamed, Meant

\* A request for the container that was just inspected mixes up nothing.
LEMMA BeginSeen ==
  ASSUME IInv, NEW r \in Req, ~Working(r), ~Emptying(r), req[r].kind # "recreate",
         NEW n \in Name, Present(n), NEW q \in Request, Fits(q), q.seen = Seen(n),
         q.kind \in {"recreate", "update"}, Open(r, q),
         q.phase \in {"check", "up", "exists"}, q.phase = "up" => q.kind = "recreate",
         rebuilding' = IF q.kind = "recreate" THEN rebuilding \union {n} ELSE rebuilding,
         UNCHANGED <<docker, file, cleaning, offered, faults, crossed>>, asked' \in 0 .. MaxAsk
  PROVE  IInv' /\ AllWell
<1>1. Opened(r, q)
  BY OpenIs
<1>2. /\ q.seen.name = n /\ q.seen.app = docker[n].app
      /\ \A x \in Req : Working(x) /\ NameOf(x) = n =>
           \/ req[x].seen.app = docker[n].app
           \/ {docker[n].app, req[x].seen.app} \subseteq crossed
  BY SeenIs
<1>3. crossed \subseteq App /\ crossed' = crossed
  BY DEF IInv, TypeOK
<1>4. AsFound(q)
  BY <1>2 DEF AsFound, Seen
<1>5. Begins(r, q)
  BY <1>1, <1>2, <1>3, <1>4 DEF Begins
<1>. QED BY <1>5, BeginInv

LEMMA IdleIs ==
  ASSUME IInv, NEW r \in Req, ~Busy(r)
  PROVE  ~Working(r) /\ ~Emptying(r) /\ req[r].kind = "none"
BY DEF Working, Emptying, At, Busy

LEMMA AskedIs ==
  ASSUME IInv, Counted
  PROVE  asked' \in 0 .. MaxAsk /\ faults' = faults
BY ContainerAssumption DEF IInv, TypeOK, Counted

LEMMA AskRecreateStep ==
  ASSUME IInv, NEW r \in Req, NEW n \in Name, AskRecreate(r, n)
  PROVE  IInv' /\ AllWell
<1>1. PICK phase \in {"up", "exists"} :
        /\ Open(r, New("recreate", phase, Seen(n)))
        /\ phase = "up" <=> docker[n].app \in Service
  BY DEF AskRecreate
<1>. DEFINE q == New("recreate", phase, Seen(n))
<1>2. ~Busy(r) /\ Present(n)
  BY DEF AskRecreate
<1>3. Seen(n) \in Inspect /\ phase \in Phase /\ "recreate" \in Kind
  BY <1>2, SeenIs DEF Phase, Kind
<1>4. /\ q \in Request /\ q.kind = "recreate" /\ q.phase = phase /\ q.seen = Seen(n)
      /\ q.target = Seen(n).port /\ q.backup = None /\ q.pass = "do" /\ q.hits = 0
  BY <1>3, NewIs
<1>. HIDE DEF q
<1>5. Fits(q)
  BY <1>1, <1>2, <1>3, <1>4, SeenIs DEF Fits, ByHand, ByCompose
<1>6. Open(r, q)
  BY <1>1 DEF q
<1>7. asked' \in 0 .. MaxAsk /\ UNCHANGED <<faults, crossed>>
  BY AskedIs DEF AskRecreate, Asked
<1>8. /\ rebuilding' = rebuilding \union {n}
      /\ UNCHANGED <<docker, file, cleaning, offered>>
  BY DEF AskRecreate
<1>. QED BY <1>2, <1>4, <1>5, <1>6, <1>7, <1>8, BeginSeen, IdleIs

LEMMA AskUpdateStep ==
  ASSUME IInv, NEW r \in Req, AskUpdate(r)
  PROVE  IInv' /\ AllWell
<1>1. /\ Busy(r) /\ req[r].kind = "update" /\ req[r].phase = "shown"
      /\ ~Working(r) /\ ~Emptying(r) /\ ~Creating(r) /\ req[r].target \in Port
  BY BusyIs DEF IInv, AskUpdate, At, Working, Emptying, Creating, AboutToCreate
<1>2. UNCHANGED <<docker, file>> /\ Going
  BY DEF AskUpdate
<1>3. CASE Answer(r, "error")
  <2>1. Proceeds(r)
    BY <1>1, <1>2, <1>3, AnswerIs, QuietStep
  <2>2. Well(r)
    BY <1>1, <2>1, NotAlone
  <2>. QED BY <2>1, <2>2, ProceedInv, ProceedsWell DEF AllWell
<1>4. ASSUME NEW n \in Named(r), UNCHANGED noted,
             Open(r, [New("update", "check", Seen(n)) EXCEPT !.target = req[r].target])
      PROVE  IInv' /\ AllWell
  <2>. DEFINE p == New("update", "check", Seen(n))
              q == [p EXCEPT !.target = req[r].target]
  <2>1. n \in Name /\ Present(n)
    BY DEF Named
  <2>2. Seen(n) \in Inspect /\ "check" \in Phase /\ "update" \in Kind
    BY <2>1, SeenIs DEF Phase, Kind
  <2>3. /\ p \in Request /\ p.kind = "update" /\ p.phase = "check" /\ p.seen = Seen(n)
        /\ p.backup = None /\ p.pass = "do" /\ p.hits = 0
    BY <2>2, NewIs
  <2>. HIDE DEF p
  <2>4. /\ q \in Request /\ q.kind = "update" /\ q.phase = "check" /\ q.seen = Seen(n)
        /\ q.backup = None /\ q.pass = "do" /\ q.hits = 0 /\ q.target \in Port
    BY <1>1, <2>3 DEF Request
  <2>5. Open(r, q)
    BY <1>4 DEF p
  <2>. HIDE DEF q
  <2>6. Fits(q)
    BY <2>1, <2>2, <2>4, SeenIs DEF Fits, ByHand, ByCompose
  <2>7. /\ rebuilding' = IF q.kind = "recreate" THEN rebuilding \union {n} ELSE rebuilding
        /\ UNCHANGED <<docker, file, cleaning, offered, faults, crossed>>
        /\ asked' \in 0 .. MaxAsk
    BY <1>2, <1>4, <2>4 DEF noted, Going, IInv, TypeOK
  <2>. QED BY <1>1, <2>1, <2>4, <2>5, <2>6, <2>7, BeginSeen
<1>. QED BY <1>3, <1>4 DEF AskUpdate

\* A rollback takes up what a browser was given under the name: the one request
\* that can mean another container than stands there.
LEMMA AskRollbackStep ==
  ASSUME IInv, NEW r \in Req, NEW n \in Name, AskRollback(r, n)
  PROVE  IInv' /\ AllWell
<1>. DEFINE old == offered[n]
            stack == old.app \in Service
            seen == [name |-> n, id |-> None, app |-> old.app,
                     port |-> IF stack THEN old.file[old.app] ELSE old.port,
                     running |-> stack \/ old.running]
            phase == IF stack THEN "edit" ELSE "exists"
            p == New("rollback", phase, seen)
            q == [p EXCEPT !.backup = IF stack THEN old ELSE None]
<1>1. ~Busy(r) /\ old \in Payload /\ RightName(n, old.app)
  BY DEF AskRollback, IInv, TypeOK, ServicesNamed
<1>2. /\ Open(r, q) /\ crossed' = crossed \union Mixed(n, old.app)
      /\ UNCHANGED <<docker, file, noted>> /\ Counted
  BY DEF AskRollback
<1>3. /\ old.app \in App /\ (stack => old.file[old.app] \in Port)
      /\ (~stack => old.port \in Port /\ old.running \in BOOLEAN)
  BY <1>1, PayloadIs
<1>. HIDE DEF old
<1>4. stack \in BOOLEAN
  OBVIOUS
<1>. HIDE DEF stack
<1>5. seen \in Inspect /\ seen.name = n /\ seen.app = old.app
  <2>. DEFINE port == IF stack THEN old.file[old.app] ELSE old.port
              running == stack \/ old.running
  <2>1. port \in Port
    BY <1>3, <1>4
  <2>2. CASE stack
    <3>1. running = TRUE
      BY <2>2
    <3>. QED BY <1>3, <2>1, <3>1 DEF Inspect
  <2>3. CASE ~stack
    <3>1. running = old.running
      BY <1>3, <2>3
    <3>. QED BY <1>3, <2>1, <2>3, <3>1 DEF Inspect
  <2>. QED BY <1>4, <2>2, <2>3
<1>. HIDE DEF seen
<1>6. phase \in Phase /\ "rollback" \in Kind
  BY DEF Phase, Kind
<1>7. /\ p \in Request /\ p.kind = "rollback" /\ p.phase = phase /\ p.seen = seen
      /\ p.backup = None /\ p.pass = "do" /\ p.hits = 0 /\ p.target = seen.port
  BY <1>5, <1>6, NewIs
<1>. HIDE DEF p
<1>8. /\ q \in Request /\ q.kind = "rollback" /\ q.phase = phase /\ q.seen = seen
      /\ q.backup = (IF stack THEN old ELSE None)
      /\ q.pass = "do" /\ q.hits = 0 /\ q.target = seen.port
  BY <1>1, <1>7 DEF Request
<1>. HIDE DEF q
<1>9. Fits(q)
  <2>1. seen.port \in Port
    BY <1>5 DEF Inspect
  <2>2. old # None
    BY <1>1, NoneIsNothing
  <2>. QED BY <1>1, <1>5, <1>8, <2>1, <2>2 DEF Fits, ByHand, ByCompose, stack
<1>10. Opened(r, q)
  BY <1>2, <1>8, <1>9, OpenIs
<1>11. /\ Mixed(n, old.app) \subseteq App
       /\ Present(n) => docker[n].app = old.app \/ {old.app, docker[n].app} \subseteq crossed'
       /\ \A x \in Req : Working(x) /\ NameOf(x) = n =>
            req[x].seen.app = old.app \/ {old.app, req[x].seen.app} \subseteq crossed'
  BY <1>2, <1>3, MixedIs
<1>12. Begins(r, q)
  <2>1. ~Working(r) /\ ~Emptying(r) /\ req[r].kind = "none"
    BY <1>1, IdleIs
  <2>2. asked' \in 0 .. MaxAsk /\ faults' = faults
    BY <1>2, AskedIs
  <2>3. crossed \subseteq crossed' /\ crossed' \subseteq App
    BY <1>2, <1>11 DEF IInv, TypeOK
  <2>4. AsFound(q)
    <3>1. stack => old.app = n
      BY <1>1 DEF stack, RightName
    <3>2. stack => seen.port = old.file[old.app]
      BY DEF seen
    <3>. QED BY <1>5, <1>8, <3>1, <3>2 DEF AsFound
  <2>. QED BY <1>2, <1>5, <1>8, <1>10, <1>11, <2>1, <2>2, <2>3, <2>4 DEF Begins, noted
<1>. QED BY <1>12, BeginInv

\* A dialog that waits for the user does no work.
LEMMA DialogInv ==
  ASSUME IInv, NEW r \in Req, ~Busy(r), NEW q \in Request, Fits(q),
         q.kind \in {"update", "clean"}, q.phase = "shown", req' = [req EXCEPT ![r] = q],
         UNCHANGED <<docker, file, noted>>, Asked
  PROVE  IInv' /\ AllWell
<1>1. ~Working(r) /\ ~Emptying(r) /\ req[r].kind = "none"
  BY IdleIs
<1>2. /\ req' \in [Req -> Request] /\ req'[r] = q /\ \A x \in Req \ {r} : req'[x] = req[x]
  BY DEF IInv, TypeOK
<1>3. /\ asked' \in 0 .. MaxAsk
      /\ UNCHANGED <<docker, file, rebuilding, cleaning, offered, faults, crossed>>
  BY AskedIs DEF Asked, noted
<1>4. \A x \in Req : Working(x)' => Working(x) /\ req'[x] = req[x]
  BY <1>2 DEF Working, Busy
<1>5. TypeOK' /\ RequestsFit' /\ ServicesNamed'
  BY <1>2, <1>3 DEF IInv, TypeOK, RequestsFit, ServicesNamed, Present
<1>6. FoundAsMeant'
  BY <1>3, <1>4 DEF IInv, FoundAsMeant, Meant, Present, NameOf
<1>7. OneMeant'
  BY <1>3, <1>4 DEF IInv, OneMeant, Meant, NameOf
<1>8. Apart'
  BY <1>4 DEF IInv, Apart
<1>9. NeverLost'
  <2>1. \A a \in App : ~Lost(a) => ~Lost(a)'
    BY <1>3 DEF Lost, Present
  <2>2. ASSUME NEW x \in Req, NEW a \in App, AboutToCreate(x, a) PROVE AboutToCreate(x, a)'
    <3>1. x # r
      BY <2>2, <1>1, CreatesWorking
    <3>. QED BY <2>2, <3>1, <1>2 DEF AboutToCreate, Busy, Restoring
  <2>3. faults \in Nat
    BY ContainerAssumption DEF IInv, TypeOK
  <2>. QED BY <1>3, <2>1, <2>2, <2>3, NothingLost
<1>10. ShownWhileRebuilt'
  <2>1. \A x \in Req : Busy(x)' /\ req'[x].kind = "recreate" => Busy(x) /\ req'[x] = req[x]
    BY <1>2 DEF Busy
  <2>2. \A x \in Req : Busy(x) => Busy(x)' /\ req'[x] = req[x]
    BY <1>1, <1>2 DEF Busy
  <2>. QED BY <1>3, <2>1, <2>2 DEF IInv, ShownWhileRebuilt, NameOf
<1>11. CleanUpIsExact'
  <2>1. \A x \in Req : At(x, "empty")' => At(x, "empty") /\ req'[x] = req[x]
    BY <1>2 DEF At, Busy
  <2>2. \A x \in Req : At(x, "empty") => At(x, "empty")' /\ req'[x] = req[x]
    BY <1>1, <1>2 DEF At, Busy
  <2>. QED BY <1>3, <2>1, <2>2 DEF IInv, CleanUpIsExact
<1>12. ASSUME AllInOrder, NEW x \in Req PROVE Well(x)
  <2>1. Ended(x) => ~Working(x)
    BY <1>1, <1>2 DEF Ended, Working, Busy
  <2>2. ASSUME Working(x)', req'[x].alone PROVE InOrder(x)'
    <3>1. Working(x) /\ req'[x] = req[x] /\ docker' = docker /\ file' = file
      BY <1>3, <1>4, <2>2
    <3>. QED BY <1>12, <2>2, <3>1, SameOrder DEF AllInOrder
  <2>. QED BY <2>1, <2>2, NoAnswer
<1>. QED BY <1>5, <1>6, <1>7, <1>8, <1>9, <1>10, <1>11, <1>12 DEF IInv, AllWell

LEMMA PreflightStep ==
  ASSUME IInv, NEW r \in Req, NEW n \in Name, NEW port \in Port, Preflight(r, n, port)
  PROVE  IInv' /\ AllWell
<1>. DEFINE p == New("update", "shown", Seen(n))
            q == [p EXCEPT !.target = port]
<1>1. ~Busy(r) /\ Present(n) /\ UNCHANGED <<docker, file, noted>> /\ Asked
      /\ req' = [req EXCEPT ![r] = q]
  BY DEF Preflight
<1>2. Seen(n) \in Inspect /\ "shown" \in Phase /\ "update" \in Kind
  BY <1>1, SeenIs DEF Phase, Kind
<1>3. /\ p \in Request /\ p.kind = "update" /\ p.phase = "shown" /\ p.seen = Seen(n)
      /\ p.backup = None /\ p.pass = "do" /\ p.hits = 0
  BY <1>2, NewIs
<1>. HIDE DEF p
<1>4. /\ q \in Request /\ q.kind = "update" /\ q.phase = "shown" /\ q.seen = Seen(n)
      /\ q.backup = None /\ q.pass = "do" /\ q.hits = 0 /\ q.target \in Port
  BY <1>3 DEF Request
<1>. HIDE DEF q
<1>5. Fits(q)
  BY <1>1, <1>2, <1>4, SeenIs DEF Fits
<1>. QED BY <1>1, <1>4, <1>5, DialogInv

LEMMA PreviewCacheStep ==
  ASSUME IInv, NEW r \in Req, NEW n \in Name, NEW dirs \in SUBSET CacheDir,
         PreviewCache(r, n, dirs)
  PROVE  IInv' /\ AllWell
<1>. DEFINE p == New("clean", "shown", Seen(n))
            q == [p EXCEPT !.shown = dirs]
<1>1. ~Busy(r) /\ Present(n) /\ UNCHANGED <<docker, file, noted>> /\ Asked
      /\ req' = [req EXCEPT ![r] = q]
  BY DEF PreviewCache
<1>2. Seen(n) \in Inspect /\ "shown" \in Phase /\ "clean" \in Kind
  BY <1>1, SeenIs DEF Phase, Kind
<1>3. /\ p \in Request /\ p.kind = "clean" /\ p.phase = "shown" /\ p.seen = Seen(n)
      /\ p.backup = None /\ p.pass = "do" /\ p.hits = 0 /\ p.target = Seen(n).port
      /\ p.emptied = {}
  BY <1>2, NewIs
<1>. HIDE DEF p
<1>4. /\ q \in Request /\ q.kind = "clean" /\ q.phase = "shown" /\ q.seen = Seen(n)
      /\ q.backup = None /\ q.pass = "do" /\ q.hits = 0 /\ q.target = Seen(n).port
      /\ q.emptied = {}
  BY <1>3 DEF Request
<1>. HIDE DEF q
<1>5. Fits(q)
  BY <1>1, <1>2, <1>4, SeenIs DEF Fits
<1>. QED BY <1>1, <1>4, <1>5, DialogInv

-----------------------------------------------------------------------------
(* One command: no request goes on, and some are not alone any more *)

LEMMA CommandInv ==
  ASSUME IInv, NEW names, req' = Disturbed(names),
         \A n \in Name \ names : docker'[n] = docker[n],
         docker' \in [Name -> Container \union {None}], UNCHANGED <<file, noted, faults>>,
         asked' \in 0 .. MaxAsk, crossed \subseteq crossed', crossed' \subseteq App,
         \A n \in Name : docker'[n] # None => RightName(n, docker'[n].app),
         \A a \in App : ~Lost(a) => ~Lost(a)',
         \A x \in Req : Working(x) /\ docker'[NameOf(x)] # None =>
           \/ docker'[NameOf(x)].app = req[x].seen.app
           \/ {docker'[NameOf(x)].app, req[x].seen.app} \subseteq crossed'
  PROVE  IInv' /\ AllWell
<1>1. \A x \in Req : Goes(x)
  BY DisturbedIs DEF Goes
<1>2. \A x \in Req : /\ req'[x] \in Request /\ Fits(req'[x]) /\ Reach(req'[x]) = Reach(req[x])
                     /\ req'[x].kind = req[x].kind /\ req'[x].phase = req[x].phase
                     /\ req'[x].pass = req[x].pass /\ req'[x].seen = req[x].seen
                     /\ (req'[x].alone => req[x].alone)
  BY <1>1, GoesIs
<1>3. req' = [y \in Req |-> req'[y]]
  BY DEF Disturbed
<1>4. /\ UNCHANGED <<rebuilding, cleaning, offered>>
      /\ \A x \in Req : (Working(x)' <=> Working(x)) /\ (Busy(x)' <=> Busy(x))
  BY <1>2 DEF noted, Working, Busy
<1>5. TypeOK'
  BY <1>2, <1>3, <1>4 DEF IInv, TypeOK
<1>6. RequestsFit' /\ ServicesNamed'
  BY <1>2, <1>4 DEF IInv, RequestsFit, ServicesNamed, Present
<1>7. FoundAsMeant'
  BY <1>2, <1>4 DEF FoundAsMeant, Meant, Present, NameOf
<1>8. OneMeant'
  BY <1>2, <1>4 DEF IInv, OneMeant, Meant, NameOf
<1>9. Apart'
  BY <1>2, <1>4 DEF IInv, Apart
<1>10. NeverLost'
  <2>1. \A x \in Req, a \in App : AboutToCreate(x, a) => AboutToCreate(x, a)'
    BY <1>2, <1>4 DEF AboutToCreate, Restoring
  <2>2. faults \in Nat /\ faults' = faults
    BY ContainerAssumption DEF IInv, TypeOK
  <2>. QED BY <2>1, <2>2, NothingLost
<1>11. ShownWhileRebuilt'
  BY <1>2, <1>4 DEF IInv, ShownWhileRebuilt, NameOf
<1>12. CleanUpIsExact'
  <2>1. \A x \in Req : At(x, "empty") => At(x, "empty")'
    BY <1>2, <1>4 DEF At
  <2>2. ASSUME NEW y \in Req, At(y, "empty")'
        PROVE  req'[y].emptied \union req'[y].left = req'[y].shown
    BY <1>6, <2>2 DEF RequestsFit, Fits, At, Busy, ByHand, ByCompose
  <2>3. ASSUME NEW i \in cleaning'
        PROVE  \E y \in Req : At(y, "empty")' /\ req'[y].seen.id = i
    <3>1. PICK y \in Req : At(y, "empty") /\ req[y].seen.id = i
      BY <1>4, <2>3 DEF IInv, CleanUpIsExact
    <3>. QED BY <1>2, <2>1, <3>1
  <2>. QED BY <2>2, <2>3 DEF CleanUpIsExact
<1>13. ASSUME AllInOrder, NEW x \in Req PROVE Well(x)
  <2>1. Ended(x) => ~Working(x)
    BY <1>1, GoesAlone
  <2>2. ASSUME Working(x)', req'[x].alone PROVE InOrder(x)'
    <3>1. req'[x] = req[x] /\ Working(x)
      BY <1>1, <1>4, <2>2, GoesAlone
    <3>2. ~WorksOn(x, names)
      <4>1. ~Cut(req[x]).alone
        BY DEF IInv, TypeOK, Cut, Request
      <4>. QED BY <2>2, <4>1, DisturbedIs
    <3>3. NameOf(x) \in Name \ names
      BY <3>1, <3>2, NameIsReached DEF WorksOn
    <3>. QED BY <1>13, <2>2, <3>1, <3>3, SameOrder DEF AllInOrder
  <2>. QED BY <2>1, <2>2, NoAnswer
<1>. QED BY <1>5, <1>6, <1>7, <1>8, <1>9, <1>10, <1>11, <1>12, <1>13 DEF IInv, AllWell

\* A container that starts or stops keeps its name and its app.
LEMMA RunInv ==
  ASSUME IInv, NEW n \in Name, Present(n), NEW running \in BOOLEAN,
         docker' = [docker EXCEPT ![n].running = running], req' = Disturbed({n}),
         UNCHANGED <<file, noted>>, Asked
  PROVE  IInv' /\ AllWell
<1>1. /\ docker' \in [Name -> Container \union {None}]
      /\ \A m \in Name : (docker'[m] # None <=> Present(m))
                         /\ (Present(m) => docker'[m].app = docker[m].app)
      /\ \A m \in Name \ {n} : docker'[m] = docker[m]
  BY RunningIs DEF IInv, Present
<1>2. /\ asked' \in 0 .. MaxAsk /\ UNCHANGED <<faults, crossed>> /\ crossed \subseteq App
  BY AskedIs DEF Asked, IInv, TypeOK
<1>3. \A m \in Name : docker'[m] # None => RightName(m, docker'[m].app)
  BY <1>1 DEF IInv, ServicesNamed
<1>4. \A a \in App : ~Lost(a) => ~Lost(a)'
  BY <1>1 DEF Lost, Present
<1>5. ASSUME NEW x \in Req, Working(x), docker'[NameOf(x)] # None
      PROVE  \/ docker'[NameOf(x)].app = req[x].seen.app
             \/ {docker'[NameOf(x)].app, req[x].seen.app} \subseteq crossed
  <2>1. NameOf(x) \in Name
    BY <1>5, BusyIs DEF IInv, Working
  <2>. QED BY <1>1, <1>5, <2>1 DEF IInv, FoundAsMeant, Meant
<1>. QED BY <1>1, <1>2, <1>3, <1>4, <1>5, CommandInv

\* A container that is renamed is found, from then on, by whoever works on the
\* new name: that is where apps are mixed up.
LEMMA RenameStep ==
  ASSUME IInv, NEW n \in Name, NEW to \in Name, RenameContainer(n, to)
  PROVE  IInv' /\ AllWell
<1>1. /\ Present(n) /\ docker[n].app \in Standalone /\ ~Present(to) /\ to \notin Service
      /\ n # to /\ req' = Disturbed({n, to}) /\ UNCHANGED <<file, noted>>
      /\ crossed' = crossed \union Mixed(to, docker[n].app) /\ Counted
  BY DEF RenameContainer
<1>2. docker \in [Name -> Container \union {None}] /\ docker[n].app \in App
  BY <1>1 DEF IInv, TypeOK, App
<1>3. /\ docker' \in [Name -> Container \union {None}]
      /\ docker'[n] = None /\ docker'[to] = docker[n]
      /\ \A m \in Name \ {n, to} : docker'[m] = docker[m]
  <2>. DEFINE f1 == [docker EXCEPT ![n] = None]
              f2 == [f1 EXCEPT ![to] = docker[n]]
  <2>1. docker' = f2
    BY Zenon DEF RenameContainer
  <2>2. f1 \in [Name -> Container \union {None}] /\ f1[n] = None
        /\ \A m \in Name \ {n} : f1[m] = docker[m]
    BY <1>2
  <2>. HIDE DEF f1
  <2>. QED BY <1>1, <1>2, <2>1, <2>2
<1>4. /\ Mixed(to, docker[n].app) \subseteq App
      /\ \A x \in Req : Working(x) /\ NameOf(x) = to =>
           \/ req[x].seen.app = docker[n].app
           \/ {docker[n].app, req[x].seen.app} \subseteq Mixed(to, docker[n].app)
  BY <1>2, MixedIs
<1>5. asked' \in 0 .. MaxAsk /\ faults' = faults /\ crossed \subseteq crossed' /\ crossed' \subseteq App
  BY <1>1, <1>4, AskedIs DEF IInv, TypeOK
<1>6. \A m \in Name : docker'[m] # None => RightName(m, docker'[m].app)
  BY <1>1, <1>3, ContainerAssumption DEF IInv, ServicesNamed, Present, RightName
<1>7. ASSUME NEW a \in App, ~Lost(a) PROVE ~Lost(a)'
  <2>1. PICK m \in Name : Present(m) /\ docker[m].app = a
    BY <1>7 DEF Lost
  <2>2. CASE m = n
    BY <1>1, <1>3, <2>1, <2>2 DEF Lost, Present
  <2>3. CASE m # n
    BY <1>1, <1>3, <2>1, <2>3 DEF Lost, Present
  <2>. QED BY <2>2, <2>3
<1>8. ASSUME NEW x \in Req, Working(x), docker'[NameOf(x)] # None
      PROVE  \/ docker'[NameOf(x)].app = req[x].seen.app
             \/ {docker'[NameOf(x)].app, req[x].seen.app} \subseteq crossed'
  <2>1. NameOf(x) \in Name
    BY <1>8, BusyIs DEF IInv, Working
  <2>2. CASE NameOf(x) = to
    BY <1>1, <1>3, <1>4, <1>8, <2>2
  <2>3. CASE NameOf(x) # to
    <3>1. docker'[NameOf(x)] = docker[NameOf(x)] /\ Present(NameOf(x))
      BY <1>3, <1>8, <2>1, <2>3 DEF Present
    <3>. QED BY <1>5, <1>8, <3>1 DEF IInv, FoundAsMeant, Meant
  <2>. QED BY <2>2, <2>3
<1>. QED BY <1>1, <1>3, <1>5, <1>6, <1>7, <1>8, CommandInv

-----------------------------------------------------------------------------
(* The theorems *)

\* There are ids enough for the containers that are there at first.
LEMMA IdsSuffice == Injections(App, Id) # {}
<1>. DEFINE k == Cardinality(App)
            m == Cardinality(Id)
<1>1. IsFiniteSet(App) /\ Cardinality(App) <= Cardinality(Name)
  BY ContainerAssumption, FS_Subset
<1>2. k \in Nat /\ m \in Nat /\ k <= m
  BY <1>1, ContainerAssumption, FS_CardinalityType
<1>3. ExistsBijection(1 .. k, App) /\ ExistsBijection(1 .. m, Id)
  BY <1>1, ContainerAssumption, FS_CardinalityType
<1>. HIDE DEF k, m
<1>4. ExistsBijection(App, 1 .. k)
  BY <1>3, Fun_ExistsBijSymmetric
<1>5. PICK f : f \in Bijection(App, 1 .. k)
  BY <1>4 DEF ExistsBijection
<1>6. PICK g : g \in Bijection(1 .. m, Id)
  BY <1>3 DEF ExistsBijection
<1>7. /\ f \in [App -> 1 .. k] /\ g \in [1 .. m -> Id]
      /\ \A x, y \in App : f[x] = f[y] => x = y
      /\ \A i, j \in 1 .. m : g[i] = g[j] => i = j
  BY <1>5, <1>6 DEF Bijection, Injection, IsInjective
<1>8. \A x \in App : f[x] \in 1 .. m
  BY <1>2, <1>7
<1>9. [x \in App |-> g[f[x]]] \in Injections(App, Id)
  BY <1>7, <1>8 DEF Injections
<1>. QED BY <1>9

LEMMA InitInv == Init => IInv
<1>. SUFFICES ASSUME Init PROVE IInv
  OBVIOUS
<1>1. PICK port \in Injections(App, Port) :
        LET id == CHOOSE i \in Injections(App, Id) : TRUE
        IN  docker = [n \in Name |->
              IF n \in App
              THEN [id |-> id[n], app |-> n, port |-> port[n], running |-> TRUE]
              ELSE None]
  BY DEF Init
<1>2. PICK id \in Injections(App, Id) :
        docker = [n \in Name |->
          IF n \in App
          THEN [id |-> id[n], app |-> n, port |-> port[n], running |-> TRUE]
          ELSE None]
  BY <1>1, IdsSuffice
<1>3. /\ \A n \in Name : n \in App => docker[n] \in Container /\ docker[n].app = n
      /\ \A n \in Name : n \notin App => docker[n] = None
      /\ docker \in [Name -> Container \union {None}]
  BY <1>2 DEF Injections, Container
<1>4. \A n \in App : n \in Name /\ Present(n)
  BY <1>3, NoneIsNothing, ContainerAssumption DEF Present
<1>5. \A s \in Service : s \in App
  BY DEF App
<1>6. Done("ok") \in Request /\ Done("ok").kind = "none"
  BY DoneIs DEF Phase
<1>7. req \in [Req -> Request] /\ \A r \in Req : req[r].kind = "none"
  BY <1>6 DEF Init
<1>8. TypeOK
  <2>1. file \in [Service -> Port]
    BY <1>3, <1>4, <1>5 DEF Init, Container
  <2>2. /\ rebuilding = {} /\ cleaning = {} /\ offered = [n \in Name |-> None]
        /\ asked = 0 /\ faults = 0 /\ crossed = {}
    BY DEF Init
  <2>3. asked \in 0 .. MaxAsk /\ faults \in 0 .. MaxFault
    BY <2>2, ContainerAssumption
  <2>. QED BY <1>3, <1>7, <2>1, <2>2, <2>3 DEF TypeOK
<1>9. \A r \in Req : ~Busy(r) /\ ~Working(r)
  BY <1>7 DEF Busy, Working
<1>10. RequestsFit /\ FoundAsMeant /\ OneMeant /\ Apart
  BY <1>7, <1>9 DEF RequestsFit, Fits, FoundAsMeant, OneMeant, Apart
<1>11. ServicesNamed
  BY <1>3, <1>5 DEF ServicesNamed, Present, RightName, Init
<1>12. NeverLost
  BY <1>3, <1>4 DEF NeverLost, Lost
<1>13. ShownWhileRebuilt /\ CleanUpIsExact
  BY <1>9 DEF ShownWhileRebuilt, CleanUpIsExact, At, Init
<1>. QED BY <1>8, <1>10, <1>11, <1>12, <1>13 DEF IInv

LEMMA StepInv ==
  ASSUME IInv, NEW r \in Req, AskClean(r) \/ Cancel(r) \/ Step(r) \/ Fault(r)
  PROVE  IInv' /\ AllWell
<1>1. Proceeds(r)
  BY AskCleanStep, CancelStep, FaultStep, CheckStep, EditStep, UpStep, ConfirmStep,
     UnsupportedStep, ExistsStep, LookStep, StopStep, RemoveStep, CreateStep, StartStep,
     VerifyStep, InspectCacheStep, EmptyStep, Zenon DEF Step
<1>2. ASSUME AllInOrder PROVE Well(r)
  <2>1. CASE ~(Working(r) /\ req[r].alone)
    BY <1>1, <2>1, NotAlone
  <2>2. CASE Working(r) /\ req[r].alone
    BY <1>1, <1>2, <2>2, IdleWell, FaultWell, CheckWell, EditWell, UpWell, ConfirmWell,
       UnsupportedWell, ExistsWell, LookWell, StopWell, RemoveWell, CreateWell, StartWell,
       VerifyWell, Zenon DEF Step
  <2>. QED BY <2>1, <2>2
<1>. QED BY <1>1, <1>2, ProceedInv, ProceedsWell DEF AllWell

LEMMA NextIs ==
  ASSUME IInv, Next
  PROVE  IInv' /\ AllWell
<1>1. ASSUME NEW r \in Req, NEW n \in Name,
             \/ AskRecreate(r, n)
             \/ \E port \in Port : Preflight(r, n, port)
             \/ AskRollback(r, n)
             \/ \E dirs \in SUBSET CacheDir : PreviewCache(r, n, dirs)
      PROVE  IInv' /\ AllWell
  BY <1>1, AskRecreateStep, PreflightStep, AskRollbackStep, PreviewCacheStep, Zenon
<1>2. ASSUME NEW r \in Req,
             AskUpdate(r) \/ AskClean(r) \/ Cancel(r) \/ Step(r) \/ Fault(r)
      PROVE  IInv' /\ AllWell
  BY <1>2, AskUpdateStep, StepInv, Zenon
<1>3. ASSUME NEW n \in Name, StartContainer(n) PROVE IInv' /\ AllWell
  BY <1>3, RunInv DEF StartContainer
<1>4. ASSUME NEW n \in Name, StopContainer(n) PROVE IInv' /\ AllWell
  BY <1>4, RunInv DEF StopContainer
<1>5. ASSUME NEW n \in Name, NEW to \in Name, RenameContainer(n, to) PROVE IInv' /\ AllWell
  BY <1>5, RenameStep
<1>. QED BY <1>1, <1>2, <1>3, <1>4, <1>5, Zenon DEF Next

LEMMA NextInv == IInv /\ [Next]_vars => IInv'
<1>. SUFFICES ASSUME IInv, [Next]_vars PROVE IInv'
  OBVIOUS
<1>1. CASE UNCHANGED vars
  BY <1>1 DEF vars, IInv, TypeOK, RequestsFit, Fits, ServicesNamed, FoundAsMeant, OneMeant,
     Apart, Meant, Working, Busy, NameOf, Present, Reach, NeverLost, Lost, AboutToCreate,
     Restoring, ShownWhileRebuilt, CleanUpIsExact, At
<1>2. CASE Next
  BY <1>2, NextIs
<1>. QED BY <1>1, <1>2

\* At first nobody works; from then on whoever is alone keeps the order.
LEMMA InitOrder == Init => AllInOrder
BY DEF Init, AllInOrder, Working, Busy, Done

LEMMA NextOrder == IInv /\ AllInOrder /\ [Next]_vars => AllInOrder'
<1>. SUFFICES ASSUME IInv, AllInOrder, [Next]_vars PROVE AllInOrder'
  OBVIOUS
<1>1. CASE UNCHANGED vars
  <2>1. UNCHANGED <<docker, file, req>>
    BY <1>1 DEF vars
  <2>2. ASSUME NEW x \in Req, Working(x)', req'[x].alone PROVE InOrder(x)'
    BY <2>1, <2>2, SameOrder DEF AllInOrder, Working, Busy
  <2>. QED BY <2>2 DEF AllInOrder
<1>2. CASE Next
  BY <1>2, NextIs DEF AllWell, Well, AllInOrder
<1>. QED BY <1>1, <1>2

\* The inductive invariant holds throughout.
LEMMA InvariantAlways == Spec => []IInv
BY InitInv, NextInv, PTL DEF Spec

\* Types of the containers, requests, sets and rollbacks, and so at most three
\* commands of a request that fail.
THEOREM TypeCorrect == Spec => []TypeOK
BY InvariantAlways, PTL DEF IInv

\* However recreations, port changes, rollbacks, renames and docker compose
\* interleave, at every docker command, an app is without its container only
\* while a request is about to create it, after a failure, or through a rename.
THEOREM NoContainerIsLost == Spec => []NeverLost
BY InvariantAlways, PTL DEF IInv

\* rebuildingContainers has the name of every recreation that no other request
\* disturbed, and only names of recreations that run.
THEOREM ShownExactly == Spec => []ShownWhileRebuilt
BY InvariantAlways, PTL DEF IInv

\* A clean-up empties what it showed, and cleaningCaches keeps nobody away once
\* the clean-ups of the container have ended.
THEOREM CleansWhatItShowed == Spec => []CleanUpIsExact
BY InvariantAlways, PTL DEF IInv

LEMMA OrderAlways == Spec => [](IInv /\ AllInOrder)
BY InitInv, NextInv, InitOrder, NextOrder, PTL DEF Spec

\* Recreating, changing a port or rolling it back, answered "ok" to a request
\* that shared its containers with no other, has done what was asked for: in
\* docker and in the compose file.
THEOREM AnswersAreTrue == Spec => AnswerIsTrue
<1>1. IInv /\ AllInOrder /\ [Next]_vars =>
        [\A r \in Req :
           Ends(r, "ok") /\ req[r].alone =>
             LET n == NameOf(r)
             IN  /\ docker'[n] # None
                 /\ docker'[n].app = req[r].seen.app
                 /\ Compose(r) => file'[n] = docker'[n].port
                 /\ req[r].kind # "recreate" => docker'[n].port = req[r].target
                 /\ Compose(r) \/ req[r].seen.running => docker'[n].running]_vars
  BY NextIs DEF AllWell, Well, TruthOf
<1>. QED BY <1>1, OrderAlways, PTL DEF Spec, AnswerIsTrue

\* A recreation or a port change outside Compose that fails, of which one command
\* failed, leaves the container with the port it had, and running if it ran,
\* whichever command that was: the exceptions are the ones FailureRestores names.
THEOREM FailuresRestore == Spec => FailureRestores
<1>1. IInv /\ AllInOrder /\ [Next]_vars =>
        [\A r \in Req :
           /\ Ends(r, "error") /\ req[r].alone /\ ~Compose(r)
           /\ req[r].kind \in {"recreate", "update"}
           /\ req[r].hits + (faults' - faults) <= 1
           => LET c == docker'[NameOf(r)]
              IN  /\ c # None
                  /\ c.port = req[r].seen.port
                  /\ \/ c.running = req[r].seen.running
                     \/ \E n \in Name \ {NameOf(r)} :
                          /\ docker'[n] # None /\ docker'[n].running
                          /\ docker'[n].port = c.port
                     \/ req[r].phase = "remove" /\ ~Restoring(r)]_vars
  BY NextIs DEF AllWell, Well, RestoredBy
<1>. QED BY <1>1, OrderAlways, PTL DEF Spec, FailureRestores
=============================================================================
