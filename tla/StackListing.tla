---------------------------- MODULE StackListing ----------------------------
(***************************************************************************)
(* The list of Compose stacks: how the server puts it together and what    *)
(* the browsers are shown (Stack.getStackList in backend/stack.ts,         *)
(* sendStackList in backend/dockge-server.ts, the stack list in            *)
(* frontend-react/src/store/runtimeSlice.ts).                              *)
(*                                                                         *)
(* A full refresh, after every operation, looks into the directory of the  *)
(* stacks and asks `docker compose ls`; the one of every ten seconds starts *)
(* from Stack.managedStackList, the list that the last one to end left.     *)
(* Refreshes overlap, and the maps they work on and the Stack objects in    *)
(* these are shared: one that starts from managedStackList changes it in    *)
(* place.  So maps and objects have identities here, and every refresh has  *)
(* one of the numbers 1..MaxRefresh, in the order in which they begin.      *)
(***************************************************************************)
EXTENDS Naturals, Sequences, FiniteSets, SequencesExt

CONSTANTS Stack,       \* names
          Hidden,      \* those not shown unless they are managed ("dockge")
          Browser,
          States,      \* what the services of a project may be doing
          NoStack,
          MaxRefresh, MaxEvent, MaxFault  \* bounds

ASSUME ListingAssumption ==
  /\ IsFiniteSet(Stack) /\ Hidden \subseteq Stack
  /\ MaxRefresh \in Nat /\ MaxEvent \in Nat /\ MaxFault \in Nat

VARIABLES
  dir,      \* the stacks that have a directory with a Compose file
  project,  \* what the services of each project are doing; {}: no project
  object,   \* the Stack objects made so far: the status of each
  map,      \* the maps made so far: the object of each stack, 0 if none
  managedStackList,  \* the map that is cached
  refresh,  \* the refreshes
  browser,  \* the browsers
  events, faults,  \* counted, to bound them
  steady    \* a full refresh found all as it is, and nothing is left of others

listingVars == <<dir, project, object, map, managedStackList, refresh, browser,
                 events, faults, steady>>
reality == <<dir, project>>
heap == <<object, map, managedStackList>>

Number == 1..MaxRefresh
StackStatus == {"file", "created", "running", "exited", "unknown"}
List == [Stack -> StackStatus \union {"none"}]
Phase == {"new", "scan", "check", "get", "nested", "list", "listed", "done"}

\* full: not from managedStackList; to: the browsers it is for; map: the one it
\* works on; names: the entries of the directory still to be looked at; name:
\* the one looked at; for: the refresh whose getStack called it; result: what
\* `docker compose ls` said; alone: since it began nothing changed and nothing
\* was passed over because it could not be read.
Refresh == [phase : Phase, full : BOOLEAN, to : SUBSET Browser, map : Nat,
            names : SUBSET Stack, name : Stack \union {NoStack}, for : 0..MaxRefresh,
            result : List, alone : BOOLEAN]

Empty == [s \in Stack |-> "none"]
NoObjects == [s \in Stack |-> 0]

New == [phase |-> "new", full |-> FALSE, to |-> {}, map |-> 1, names |-> {},
        name |-> NoStack, for |-> 0, result |-> Empty, alone |-> TRUE]

\* in: the socket is logged in; list: what the store has; error: the message of
\* a list that failed; waiting: no list and no error came since the login.
View == [in : BOOLEAN, list : List, error : BOOLEAN, waiting : BOOLEAN]

ListingTypeOK ==
  /\ dir \in SUBSET Stack
  /\ project \in [Stack -> States \union {{}}]
  /\ object \in Seq(StackStatus)
  /\ map \in Seq([Stack -> 0..Len(object)])
  /\ managedStackList \in 1..Len(map)
  /\ refresh \in [Number -> Refresh]
  /\ \A r \in Number : refresh[r].map \in 1..Len(map)
  /\ browser \in [Browser -> View]
  /\ events \in 0..MaxEvent
  /\ faults \in 0..MaxFault
  /\ steady \in BOOLEAN

ListingInit ==
  /\ dir \in SUBSET Stack
  /\ project \in [Stack -> States \union {{}}]
  /\ object = <<>>
  /\ map = <<NoObjects>>
  /\ managedStackList = 1
  /\ refresh = [r \in Number |-> New]
  /\ browser = [b \in Browser |-> [in |-> FALSE, list |-> Empty,
                                   error |-> FALSE, waiting |-> FALSE]]
  /\ events = 0
  /\ faults = 0
  /\ steady = FALSE

-----------------------------------------------------------------------------
LoggedIn == {b \in Browser : browser[b].in}
Working(r) == refresh[r].phase \notin {"new", "done"}
Available == {r \in Number : refresh[r].phase = "new"}
IsNext(n) == n \in Available /\ \A q \in Available : n <= q

\* statusConvert, of "created(1), exited(2), running(1)": the states of the
\* services in the order of the alphabet.
StatusConvert(states) ==
  CASE "created" \in states -> "created"
    [] "created" \notin states /\ "exited" \in states -> "exited"
    [] states = {"running"} -> "running"
    [] OTHER -> "unknown"

\* What a list should say.
Truth == [s \in Stack |->
            IF project[s] # {} /\ (s \in dir \/ s \notin Hidden)
            THEN StatusConvert(project[s])
            ELSE IF s \in dir THEN "file" ELSE "none"]

-----------------------------------------------------------------------------
(* The world *)

\* A stack is written, deployed, stopped, taken down or deleted, by DockerBridge
\* or behind its back.
WorldChanges ==
  /\ events < MaxEvent /\ events' = events + 1
  /\ refresh' = [r \in Number |-> [refresh[r] EXCEPT !.alone = ~Working(r)]]
  /\ steady' = FALSE
  /\ UNCHANGED <<heap, browser, faults>>

DirectoryChanges(s) ==
  /\ WorldChanges
  /\ dir' = IF s \in dir THEN dir \ {s} ELSE dir \union {s}
  /\ UNCHANGED project

ServicesChange(s, states) ==
  /\ WorldChanges
  /\ project' = [project EXCEPT ![s] = states]
  /\ UNCHANGED dir

-----------------------------------------------------------------------------
(* Refreshes *)

\* Mutant: the full refresh adds to the list there is.
OverCached == map[managedStackList]

\* A full refresh starts from an empty map.
Fresh == NoObjects

\* getStackList begins, for the browsers or for the getStack of another.  An
\* empty managedStackList is not used.
Begun(refreshes, r, useCache, to, for) ==
  LET cached == useCache /\ map[managedStackList] # NoObjects
  IN  /\ refresh' = [refreshes EXCEPT ![r] =
           [New EXCEPT !.phase = IF cached THEN "list" ELSE "scan",
                       !.full = ~cached, !.to = to, !.for = for,
                       !.map = IF cached THEN managedStackList ELSE Len(map) + 1]]
      /\ map' = IF cached THEN map ELSE Append(map, Fresh)

\* sendStackList, for the sockets logged in then: every ten seconds, or at a
\* request and after an operation.
SendStackList(useCache) ==
  /\ LoggedIn # {}
  /\ \E n \in Number : IsNext(n) /\ Begun(refresh, n, useCache, LoggedIn, 0)
  /\ UNCHANGED <<reality, object, managedStackList, browser, events, faults, steady>>

\* An operation looks for a stack that has no directory.
LookUp ==
  /\ LoggedIn # {}
  /\ \E n \in Number : IsNext(n) /\ Begun(refresh, n, TRUE, {}, 0)
  /\ UNCHANGED <<reality, object, managedStackList, browser, events, faults, steady>>

\* addManagedStacks reads the directory, then looks at each of its entries.
AddManagedStacks(r) ==
  /\ refresh[r].phase = "scan"
  /\ refresh' = [refresh EXCEPT ![r].phase = IF dir = {} THEN "list" ELSE "check",
                                ![r].names = dir]
  /\ UNCHANGED <<reality, heap, browser, events, faults, steady>>

\* The entry is left out, or given an object.
Advanced(q) ==
  [q EXCEPT !.names = @ \ {q.name}, !.name = NoStack,
            !.phase = IF q.names = {q.name} THEN "list" ELSE "check"]

\* It is a directory with a Compose file, or skipped.
Check(r, s) ==
  /\ refresh[r].phase = "check" /\ s \in refresh[r].names
  /\ LET q == [refresh[r] EXCEPT !.name = s]
     IN  refresh' = [refresh EXCEPT ![r] =
           IF s \in dir THEN [q EXCEPT !.phase = "get"] ELSE Advanced(q)]
  /\ UNCHANGED <<reality, heap, browser, events, faults, steady>>

\* getStack looks once more.  If the directory is gone it looks for the name in
\* a list from the cache; without a number left for that, as if it failed.
Get(r) ==
  /\ refresh[r].phase = "get"
  /\ LET s == refresh[r].name
     IN  IF s \in dir
         THEN /\ object' = Append(object, "file")
              /\ map' = [map EXCEPT ![refresh[r].map][s] = Len(object')]
              /\ refresh' = [refresh EXCEPT ![r] = Advanced(@)]
         ELSE /\ IF Available = {}
                 THEN refresh' = [refresh EXCEPT ![r] = Advanced(@)] /\ UNCHANGED map
                 ELSE \E n \in Number :
                        /\ IsNext(n)
                        /\ Begun([refresh EXCEPT ![r].phase = "nested"], n, TRUE, {}, r)
              /\ UNCHANGED object
  /\ UNCHANGED <<reality, managedStackList, browser, events, faults, steady>>

\* A call fails and is only logged: the refresh goes on as p.
Swallowed(r, p) ==
  /\ faults < MaxFault /\ faults' = faults + 1
  /\ refresh' = [refresh EXCEPT ![r] = [p EXCEPT !.alone = FALSE]]
  /\ steady' = FALSE
  /\ UNCHANGED <<reality, heap, browser, events>>

\* The directory cannot be read: the list has only what docker knows.
ReaddirFails(r) ==
  /\ refresh[r].phase = "scan"
  /\ Swallowed(r, [refresh[r] EXCEPT !.phase = "list"])

\* An entry cannot be looked at, or getStack throws: it is left out.
EntryFails(r) ==
  \/ /\ refresh[r].phase = "check"
     /\ \E s \in refresh[r].names : Swallowed(r, Advanced([refresh[r] EXCEPT !.name = s]))
  \/ /\ refresh[r].phase = "get"
     /\ Swallowed(r, Advanced(refresh[r]))

\* `docker compose ls` lists the projects there are then.
ComposeLs(r) ==
  /\ refresh[r].phase = "list"
  /\ refresh' = [refresh EXCEPT ![r].phase = "listed",
       ![r].result = [s \in Stack |-> IF project[s] = {} THEN "none"
                                      ELSE StatusConvert(project[s])]]
  /\ UNCHANGED <<reality, heap, browser, events, faults, steady>>

-----------------------------------------------------------------------------
(* The end of a refresh *)

\* stackListReceived: the list replaces what the store has of the endpoint.
ListReceived(list, b) == [browser[b] EXCEPT !.list = list, !.error = FALSE, !.waiting = FALSE]

\* Mutant: a refresh that failed tells nobody.
FailedSilently(b) == browser[b]

\* stackListError: the message is shown and the list kept.
Failed(b) == [browser[b] EXCEPT !.error = TRUE, !.waiting = FALSE]

\* The browsers it is for show it.
Shown(to, views) ==
  browser' = [b \in Browser |-> IF b \in to THEN views[b] ELSE browser[b]]

\* The refresh is over, and the getStack that called it goes on to the next
\* entry.
Over(r) ==
  refresh' = [q \in Number |->
    CASE q = r -> [New EXCEPT !.phase = "done"]
      [] q = refresh[r].for -> Advanced(refresh[q])
      [] OTHER -> refresh[q]]

\* Mutant: a list that is cached stays.
CacheKept(m, copy) == IF m = managedStackList \/ map[managedStackList] = NoObjects
                      THEN copy ELSE managedStackList

\* managedStackList becomes a copy of the list.
Cached(m, copy) == copy

\* The objects of the projects listed get their status, the others keep what
\* they have; a project without an object gets one, unless it is hidden.  A
\* stack that getStack finds in the list is taken over, as a file.
Finish(r) ==
  /\ refresh[r].phase = "listed"
  /\ LET q == refresh[r]
         old == map[q.map]
         listed == {s \in Stack : q.result[s] # "none"}
         added == SetToSeq({s \in listed \ Hidden : old[s] = 0})
         m == [s \in Stack |-> IF s \in Range(added)
                               THEN Len(object) + CHOOSE i \in DOMAIN added : added[i] = s
                               ELSE old[s]]
         objects == [i \in 1..Len(object) + Len(added) |->
                       IF \E s \in listed : m[s] = i
                       THEN q.result[CHOOSE s \in listed : m[s] = i] ELSE object[i]]
         parent == refresh[q.for]
         found == IF q.for = 0 THEN 0 ELSE m[parent.name]
         maps == Append([map EXCEPT ![q.map] = m], m)
     IN  /\ object' = IF found = 0 THEN objects ELSE [objects EXCEPT ![found] = "file"]
         /\ map' = IF found = 0 THEN maps
                   ELSE [maps EXCEPT ![parent.map][parent.name] = found]
         /\ managedStackList' = Cached(q.map, Len(maps))
         /\ LET list == [s \in Stack |-> IF m[s] = 0 THEN "none" ELSE object'[m[s]]]
            IN  Shown(q.to, [b \in Browser |-> ListReceived(list, b)])
         /\ steady' = (steady \/ (/\ q.full /\ q.alone
                                  /\ \A p \in Number \ {r} : ~Working(p)))
  /\ Over(r)
  /\ UNCHANGED <<reality, events, faults>>

\* `docker compose ls` fails.
ComposeLsFails(r) ==
  /\ refresh[r].phase = "list"
  /\ faults < MaxFault /\ faults' = faults + 1
  /\ Shown(refresh[r].to, [b \in Browser |-> Failed(b)])
  /\ Over(r)
  /\ UNCHANGED <<reality, heap, events, steady>>

-----------------------------------------------------------------------------
(* Browsers *)

\* afterLogin sends the list to all that are logged in, this one included.
Login(b) ==
  /\ ~browser[b].waiting
  /\ browser' = [browser EXCEPT ![b].in = TRUE, ![b].waiting = TRUE]
  /\ \E n \in Number : IsNext(n) /\ Begun(refresh, n, FALSE, LoggedIn \union {b}, 0)
  /\ UNCHANGED <<reality, object, managedStackList, events, faults, steady>>

\* logout clears the store; the server does not hear of it.
Logout(b) ==
  /\ browser[b].in
  /\ browser' = [browser EXCEPT ![b].list = Empty, ![b].error = FALSE,
                                ![b].waiting = FALSE]
  /\ UNCHANGED <<reality, heap, refresh, events, faults, steady>>

\* What was to be sent to the socket is lost; the store keeps its list.
Disconnect(b) ==
  /\ browser[b].in
  /\ browser' = [browser EXCEPT ![b].in = FALSE, ![b].waiting = FALSE]
  /\ refresh' = [r \in Number |-> [refresh[r] EXCEPT !.to = @ \ {b}]]
  /\ UNCHANGED <<reality, heap, events, faults, steady>>

RefreshStep(r) ==
  \/ AddManagedStacks(r) \/ Get(r) \/ ComposeLs(r) \/ Finish(r) \/ ComposeLsFails(r)
  \/ ReaddirFails(r) \/ EntryFails(r)
  \/ \E s \in Stack : Check(r, s)

ListingNext ==
  \/ \E s \in Stack : DirectoryChanges(s)
  \/ \E s \in Stack, states \in States \union {{}} : ServicesChange(s, states)
  \/ \E useCache \in BOOLEAN : SendStackList(useCache)
  \/ LookUp
  \/ \E r \in Number : RefreshStep(r)
  \/ \E b \in Browser : Login(b) \/ Logout(b) \/ Disconnect(b)

\* The event loop runs what is ready, and docker answers; as a refresh takes a
\* few steps, none is put off for ever.
ListingFairness == WF_listingVars(\E r \in Number : RefreshStep(r))

ListingSpec == ListingInit /\ [][ListingNext]_listingVars /\ ListingFairness

-----------------------------------------------------------------------------
\* A full refresh during which nothing changed, and which could read all there
\* is, shows the stacks there are, each with its status, and no other, whatever
\* refreshes overlap with it and whatever they could not read.
FullIsTrue ==
  [][\A r \in Number :
       LET q == refresh[r]
       IN  q.phase = "listed" /\ q.full /\ q.alone /\ refresh'[r].phase = "done" =>
             \A b \in q.to : browser'[b].list = Truth]_listingVars

\* After such a refresh that was alone at its end, as long as nothing changes and
\* nothing is passed over, every list that is shown is true, those from the cache
\* included.  (With an older refresh under way this does not hold: its list is
\* cached again.)
SettledIsTrue ==
  [][steady /\ steady' =>
       \A b \in Browser :
         browser'[b].list # browser[b].list => browser'[b].list \in {Empty, Truth}]_listingVars

\* A browser that logs in is shown a list or the error, unless it goes away or
\* logs out.
LoginIsAnswered ==
  \A b \in Browser : browser[b].waiting ~> ~browser[b].waiting
=============================================================================
