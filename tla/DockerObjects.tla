--------------------------- MODULE DockerObjects ---------------------------
(***************************************************************************)
(* Networks, volumes and images: looking at what would be removed, and     *)
(* removing it on confirmation (backend/docker-resource-manager.ts and its *)
(* handler; the image handlers of dockerbridge-socket-handler.ts).         *)
(*                                                                         *)
(* A dialog of a browser holds a preview.  When the user confirms, the     *)
(* server looks again, compares, and then acts; it looks with several      *)
(* docker commands, some of them at once, so that what it sees need not    *)
(* have been true at any one moment.  Containers change meanwhile, by other *)
(* operations of DockerBridge or behind its back, and so does everything    *)
(* else that other dialogs work on.                                        *)
(*                                                                         *)
(* Every network or volume made under a name is another instance of it: the *)
(* fingerprint covers the id or the time of creation.                      *)
(***************************************************************************)
EXTENDS Naturals, FiniteSets

CONSTANTS Network, Volume,  \* names, of local ones that are not built in
          Image,            \* image ids
          Ref,              \* image references
          Container,
          Dialog,
          None,
          MaxChange         \* bound on the changes of docker's state

Resource == Network \union Volume

\* A container: whether it runs, and what it was made of and uses.
Use == [running : BOOLEAN, image : Image, uses : SUBSET Resource]

ASSUME ObjectsAssumption ==
  /\ Network \intersect Volume = {}
  /\ None \notin Resource \union Image \union Ref \union Container \union Use
  /\ MaxChange \in Nat

VARIABLES
  instance,   \* the instance of each network and volume, 0 if there is none
  container,  \* the containers: what they use, and whether they run
  tagged,     \* the image each reference stands for
  images,     \* the images there are
  changes,    \* the number of changes so far
  dialog,     \* the dialogs, and what the server does for them
  active,     \* DockerResourceManager.activeOperations
  pulling     \* pullingImages

vars == <<instance, container, tagged, images, changes, dialog, active, pulling>>
docker == <<instance, container, tagged, images>>

Dependency == [container : Container, running : BOOLEAN]

\* What a fingerprint covers.
Fingerprint == [instance : 0..MaxChange + 1, dependencies : SUBSET Dependency]

Kind == {"none", "remove", "disconnect", "create", "prune", "delete", "pull"}
Phase == {"idle", "shown", "list", "inspect", "act"}
Pending == {"resource", "containers", "images"}

\* what: the object it is about; from: the container to disconnect; all:
\* unused images, not only dangling ones; expected, ids: the preview; pending:
\* the commands of the phase that have not returned; listed, seen: what they
\* returned; rest: the images still to be removed; failed: one was not; alone:
\* what it is about was not touched since the confirmation.
Request == [kind : Kind, phase : Phase,
            what : Resource \union Image \union Ref \union {None},
            from : Container \union {None}, all : BOOLEAN,
            expected : Fingerprint, ids : SUBSET Image,
            pending : SUBSET Pending, listed : SUBSET Container, seen : Fingerprint,
            rest : SUBSET Image, failed : BOOLEAN, alone : BOOLEAN]

Nothing == [instance |-> 0, dependencies |-> {}]
Idle == [kind |-> "none", phase |-> "idle", what |-> None, from |-> None,
         all |-> FALSE, expected |-> Nothing, ids |-> {}, pending |-> {}, listed |-> {},
         seen |-> Nothing, rest |-> {}, failed |-> FALSE, alone |-> TRUE]

Key == Resource \union (Network \X Container)

TypeOK ==
  /\ instance \in [Resource -> 0..MaxChange + 1]
  /\ container \in [Container -> Use \union {None}]
  /\ tagged \in [Ref -> Image \union {None}]
  /\ images \in SUBSET Image
  /\ changes \in 0..MaxChange
  /\ dialog \in [Dialog -> Request]
  /\ active \in SUBSET Key
  /\ pulling \in SUBSET Ref

Init ==
  /\ instance = [x \in Resource |-> 1]
  /\ \E i \in Image :
       container \in [Container -> [running : BOOLEAN, image : {i},
                                    uses : {{}, Resource}] \union {None}]
  /\ images = Image
  /\ tagged = [ref \in Ref |-> None]
  /\ changes = 0
  /\ dialog = [d \in Dialog |-> Idle]
  /\ active = {}
  /\ pulling = {}

-----------------------------------------------------------------------------
Present(c) == container[c] # None
At(d, kinds, phase) == dialog[d].kind \in kinds /\ dialog[d].phase = phase
Working(d) == dialog[d].phase \in {"list", "inspect", "act"}

Managing == {"remove", "disconnect", "create"}
OfImages == {"prune", "delete"}

\* The key that exclusive is given.
KeyOf(q) == IF q.kind = "disconnect" THEN <<q.what, q.from>> ELSE q.what
Keyed(q) == q.kind \in {"remove", "disconnect"} /\ q.phase \in {"list", "inspect", "act"}

UsedImages(containers) == {container[c].image : c \in {x \in containers : Present(x)}}
Tags(i) == {ref \in Ref : tagged[ref] = i}

\* getImagePruneCandidates
Candidates(used, all) == {i \in images \ used : all \/ Tags(i) = {}}

DependenciesOf(x, containers) ==
  {[container |-> c, running |-> container[c].running] :
     c \in {y \in containers : Present(y) /\ x \in container[y].uses}}

\* A change of docker's state, seen by the requests on what it touches.
Touches(q, things) ==
  \/ q.kind \in Managing /\ q.what \in things
  \/ q.kind \in OfImages /\ things \intersect Image # {}
Touched(things) ==
  [d \in Dialog |-> IF Working(d) /\ Touches(dialog[d], things)
                    THEN [dialog[d] EXCEPT !.alone = FALSE] ELSE dialog[d]]
Change == changes < MaxChange /\ changes' = changes + 1

\* The dialog is answered, and whatever it held is released.
Answered(d) ==
  /\ dialog' = [dialog EXCEPT ![d] = Idle]
  /\ active' = IF Keyed(dialog[d]) THEN active \ {KeyOf(dialog[d])} ELSE active
AnsweredTouching(d, things) ==
  /\ dialog' = [Touched(things) EXCEPT ![d] = Idle]
  /\ active' = IF Keyed(dialog[d]) THEN active \ {KeyOf(dialog[d])} ELSE active

-----------------------------------------------------------------------------
(* Previews *)

\* previewRemoval, previewNetworkDisconnect.  (One that was inconsistent shows
\* nothing that confirming could accept later and this would not.)
Preview(d, kind, x, c) ==
  /\ dialog[d].phase = "idle"
  /\ instance[x] # 0
  /\ kind = "disconnect" => x \in Network /\ Present(c) /\ x \in container[c].uses
  /\ dialog' = [dialog EXCEPT ![d] =
       [Idle EXCEPT !.kind = kind, !.phase = "shown", !.what = x,
          !.from = IF kind = "disconnect" THEN c ELSE None,
          !.expected = [instance |-> instance[x],
                        dependencies |-> DependenciesOf(x, Container)]]]
  /\ UNCHANGED <<docker, changes, active, pulling>>

\* previewDockerBridgeImagePrune
PreviewPrune(d, all) ==
  /\ dialog[d].phase = "idle"
  /\ dialog' = [dialog EXCEPT ![d] =
       [Idle EXCEPT !.kind = "prune", !.phase = "shown", !.all = all,
                    !.ids = Candidates(UsedImages(Container), all)]]
  /\ UNCHANGED <<docker, changes, active, pulling>>

\* remove, disconnectNetwork and pruneDockerBridgeImages begin; the first two
\* in exclusive.
Confirm(d) ==
  /\ dialog[d].phase = "shown"
  /\ LET q == [dialog[d] EXCEPT !.phase = "list",
                 !.pending = IF dialog[d].kind = "prune" THEN {"containers"}
                             ELSE {"resource", "containers"}]
     IN  IF Keyed(q) /\ KeyOf(q) \in active
         THEN dialog' = [dialog EXCEPT ![d] = Idle] /\ UNCHANGED active
         ELSE /\ dialog' = [dialog EXCEPT ![d] = q]
              /\ active' = IF Keyed(q) THEN active \union {KeyOf(q)} ELSE active
  /\ UNCHANGED <<docker, changes, pulling>>

\* createNetwork, createVolume, deleteDockerBridgeImage need no preview.
Begin(d, kind, x) ==
  /\ dialog[d].phase = "idle"
  /\ dialog' = [dialog EXCEPT ![d] =
       [Idle EXCEPT !.kind = kind, !.phase = "list", !.what = x,
                    !.pending = IF kind = "create" THEN {"resource"}
                                ELSE {"containers"}]]
  /\ UNCHANGED <<docker, changes, active, pulling>>

-----------------------------------------------------------------------------
(* The second look: the lists are asked for at once, then what was listed is *)
(* inspected, at once; images are looked at after the containers.            *)

\* Mutant: only the instance is compared with the preview.
UnchangedInstance(q) == q.seen.instance = q.expected.instance

\* The fingerprint is that of the preview.
AsExpected(q) == q.seen = q.expected

\* A resource is removed if nothing depends on it, a container disconnected if
\* it is attached.
Allowed(q) ==
  IF q.kind = "remove" THEN q.seen.dependencies = {}
  ELSE \E dep \in q.seen.dependencies : dep.container = q.from

Inspections(kind) ==
  IF kind \in OfImages THEN {"containers", "images"} ELSE {"resource", "containers"}

\* A command of q has returned.  After the last one the request goes on to the
\* next phase, or is refused.
Goes(d, q) ==
  CASE q.pending # {} -> dialog' = [dialog EXCEPT ![d] = q] /\ UNCHANGED active
    [] q.pending = {} /\ q.phase = "list" ->
         /\ dialog' = [dialog EXCEPT ![d] =
              IF q.kind = "create" THEN [q EXCEPT !.phase = "act"]
              ELSE [q EXCEPT !.phase = "inspect", !.pending = Inspections(q.kind)]]
         /\ UNCHANGED active
    [] q.pending = {} /\ q.phase = "inspect" ->
         IF AsExpected(q) /\ Allowed(q)
         THEN /\ dialog' = [dialog EXCEPT ![d] = [q EXCEPT !.phase = "act"]]
              /\ UNCHANGED active
         ELSE Answered(d)

ListContainers(d) ==
  /\ dialog[d].phase = "list" /\ "containers" \in dialog[d].pending
  /\ Goes(d, [dialog[d] EXCEPT !.pending = @ \ {"containers"},
                               !.listed = {c \in Container : Present(c)}])
  /\ UNCHANGED <<docker, changes, pulling>>

\* A resource that is not listed is not found, or not yet there.
ListResources(d) ==
  /\ dialog[d].phase = "list" /\ "resource" \in dialog[d].pending
  /\ IF (instance[dialog[d].what] = 0) # (dialog[d].kind = "create")
     THEN Answered(d)
     ELSE Goes(d, [dialog[d] EXCEPT !.pending = @ \ {"resource"}])
  /\ UNCHANGED <<docker, changes, pulling>>

\* Inspecting fails if one that was listed is gone.  For images only the image
\* each container uses counts.
InspectContainers(d) ==
  /\ dialog[d].phase = "inspect" /\ "containers" \in dialog[d].pending
  /\ LET q == [dialog[d] EXCEPT !.pending = @ \ {"containers"}, !.listed = {}]
         listed == dialog[d].listed
     IN  IF \E c \in listed : ~Present(c) THEN Answered(d)
         ELSE Goes(d, IF q.kind \in OfImages
                      THEN [q EXCEPT !.rest = UsedImages(listed)]
                      ELSE [q EXCEPT !.seen.dependencies =
                              DependenciesOf(q.what, listed)])
  /\ UNCHANGED <<docker, changes, pulling>>

InspectResource(d) ==
  /\ dialog[d].phase = "inspect" /\ "resource" \in dialog[d].pending
  /\ IF instance[dialog[d].what] = 0 THEN Answered(d)
     ELSE Goes(d, [dialog[d] EXCEPT !.pending = @ \ {"resource"},
                     !.seen.instance = instance[dialog[d].what]])
  /\ UNCHANGED <<docker, changes, pulling>>

\* Mutant: what is candidate now is removed, whatever was shown.
AcceptAny(q, candidates) == TRUE

\* The ids are compared with those of the preview.
Accept(q, candidates) == candidates = q.ids

\* The images to be removed are the candidates; one that is deleted by its id
\* must not be used.
InspectImages(d) ==
  /\ dialog[d].phase = "inspect" /\ dialog[d].pending = {"images"}
  /\ LET q == dialog[d]
         candidates == IF q.kind = "prune" THEN Candidates(q.rest, q.all)
                       ELSE {q.what} \intersect (images \ q.rest)
     IN  IF IF q.kind = "prune" THEN Accept(q, candidates) ELSE candidates # {}
         THEN /\ dialog' = [dialog EXCEPT ![d] =
                   [q EXCEPT !.phase = "act", !.pending = {}, !.rest = candidates]]
              /\ UNCHANGED active
         ELSE Answered(d)
  /\ UNCHANGED <<docker, changes, pulling>>

-----------------------------------------------------------------------------
(* Acting *)

\* Docker refuses to remove a volume that a container uses, and a network that
\* a running one uses.
Refused(x) ==
  \E c \in Container : /\ Present(c) /\ x \in container[c].uses
                       /\ x \in Network => container[c].running

Remove(d) ==
  /\ At(d, {"remove"}, "act")
  /\ LET x == dialog[d].what
     IN  \/ /\ instance[x] # 0 /\ ~Refused(x)
            /\ instance' = [instance EXCEPT ![x] = 0]
            /\ container' = [c \in Container |->
                 IF Present(c) THEN [container[c] EXCEPT !.uses = @ \ {x}]
                 ELSE None]
            /\ AnsweredTouching(d, {x})
         \/ /\ instance[x] = 0 \/ Refused(x)
            /\ UNCHANGED <<instance, container>>
            /\ Answered(d)
  /\ UNCHANGED <<tagged, images, changes, pulling>>

Disconnect(d) ==
  /\ At(d, {"disconnect"}, "act")
  /\ LET x == dialog[d].what
         c == dialog[d].from
     IN  \/ /\ Present(c) /\ x \in container[c].uses
            /\ container' = [container EXCEPT ![c].uses = @ \ {x}]
            /\ AnsweredTouching(d, {x})
         \/ /\ ~Present(c) \/ (Present(c) /\ x \notin container[c].uses)
            /\ UNCHANGED container
            /\ Answered(d)
  /\ UNCHANGED <<instance, tagged, images, changes, pulling>>

\* Creating a volume that is there already does nothing, and succeeds.
Create(d) ==
  /\ At(d, {"create"}, "act")
  /\ LET x == dialog[d].what
     IN  IF instance[x] # 0 THEN UNCHANGED <<instance, changes>> /\ Answered(d)
         ELSE /\ Change
              /\ instance' = [instance EXCEPT ![x] = changes' + 1]
              /\ AnsweredTouching(d, {x})
  /\ UNCHANGED <<container, tagged, images, pulling>>

\* Docker removes the image, unless a container uses it or it has several
\* tags.  The images of one command are tried whatever becomes of the others;
\* after a command that failed there is no other.
RemoveImage(d, i) ==
  /\ At(d, OfImages, "act") /\ i \in dialog[d].rest
  /\ IF i \in images \ UsedImages(Container) /\ Cardinality(Tags(i)) <= 1
     THEN /\ images' = images \ {i}
          /\ tagged' = [ref \in Ref |-> IF tagged[ref] = i THEN None ELSE tagged[ref]]
          /\ dialog' = [Touched({i}) EXCEPT
               ![d] = [dialog[d] EXCEPT !.rest = @ \ {i}]]
     ELSE /\ dialog' = [dialog EXCEPT ![d].rest = @ \ {i}, ![d].failed = TRUE]
          /\ UNCHANGED <<images, tagged>>
  /\ UNCHANGED <<instance, container, changes, active, pulling>>

ImagesRemoved(d) ==
  /\ At(d, OfImages, "act")
  /\ dialog[d].rest = {} \/ dialog[d].failed
  /\ Answered(d)
  /\ UNCHANGED <<docker, changes, pulling>>

-----------------------------------------------------------------------------
(* Pulling and tagging *)

\* pullDockerBridgeImage, while the image is not being pulled.
Pull(d, ref) ==
  /\ dialog[d].phase = "idle" /\ ref \notin pulling
  /\ pulling' = pulling \union {ref}
  /\ dialog' = [dialog EXCEPT ![d] =
       [Idle EXCEPT !.kind = "pull", !.phase = "act", !.what = ref]]
  /\ UNCHANGED <<docker, changes, active>>

\* Mutant: the one refused takes the image out of pullingImages.
ReleasePull(ref) == pulling' = pulling \ {ref}

\* A second request for it is refused, and does not own the pull.
RefusePull(ref) == pulling' = pulling

PullRefused(ref) ==
  /\ ref \in pulling
  /\ RefusePull(ref)
  /\ UNCHANGED <<docker, changes, dialog, active>>

\* The reference stands for the image pulled, the old one may be left without.
Pulled(d, i) ==
  /\ At(d, {"pull"}, "act")
  /\ Change
  /\ images' = images \union {i}
  /\ tagged' = [tagged EXCEPT ![dialog[d].what] = i]
  /\ pulling' = pulling \ {dialog[d].what}
  /\ AnsweredTouching(d, Image)
  /\ UNCHANGED <<instance, container>>

\* tagDockerBridgeImage
Tag(ref, i) ==
  /\ Change /\ i \in images
  /\ tagged' = [tagged EXCEPT ![ref] = i]
  /\ dialog' = Touched(Image)
  /\ UNCHANGED <<instance, container, images, active, pulling>>

\* Containers are created, started, stopped, connected and removed.
ContainerChanges(c, new) ==
  /\ Change
  /\ IF new = None THEN TRUE
     ELSE new.image \in images /\ \A x \in new.uses : instance[x] # 0
  /\ container' = [container EXCEPT ![c] = new]
  /\ dialog' = Touched(Image \union (IF Present(c) THEN container[c].uses ELSE {})
                       \union (IF new = None THEN {} ELSE new.uses))
  /\ UNCHANGED <<instance, tagged, images, active, pulling>>

\* A docker command of a request fails.
Fails(d) ==
  /\ Working(d)
  /\ Answered(d)
  /\ pulling' = IF dialog[d].kind = "pull" THEN pulling \ {dialog[d].what}
                ELSE pulling
  /\ UNCHANGED <<docker, changes>>

Step(d) ==
  \/ ListContainers(d) \/ ListResources(d)
  \/ InspectContainers(d) \/ InspectResource(d) \/ InspectImages(d)
  \/ Remove(d) \/ Disconnect(d) \/ Create(d)
  \/ \E i \in Image : RemoveImage(d, i)
  \/ ImagesRemoved(d)
  \/ Fails(d)

Next ==
  \/ \E d \in Dialog :
       \/ \E x \in Resource : \/ Preview(d, "remove", x, None)
                              \/ \E c \in Container : Preview(d, "disconnect", x, c)
                              \/ Begin(d, "create", x)
       \/ \E i \in Image : Begin(d, "delete", i) \/ Pulled(d, i)
       \/ \E all \in BOOLEAN : PreviewPrune(d, all)
       \/ \E ref \in Ref : Pull(d, ref)
       \/ Confirm(d) \/ Step(d)
  \/ \E ref \in Ref : PullRefused(ref) \/ \E i \in Image : Tag(ref, i)
  \/ \E c \in Container, new \in Use \union {None} : ContainerChanges(c, new)

Spec == Init /\ [][Next]_vars

-----------------------------------------------------------------------------
\* A resource operation runs once at a time for a key, an image is pulled
\* once at a time, and what is marked as running runs.
OneOperation ==
  /\ active = {KeyOf(dialog[d]) : d \in {x \in Dialog : Keyed(dialog[x])}}
  /\ pulling = {dialog[d].what : d \in {x \in Dialog : dialog[x].kind = "pull"}}
  /\ \A d, e \in Dialog :
       d # e => /\ Keyed(dialog[d]) /\ Keyed(dialog[e])
                     => KeyOf(dialog[d]) # KeyOf(dialog[e])
                /\ dialog[d].kind = "pull" /\ dialog[e].kind = "pull"
                     => dialog[d].what # dialog[e].what

\* A network or volume is removed, or a container disconnected, by a request
\* whose resource was not touched since it was confirmed, only if it is the
\* very instance the user was shown, used by the very containers shown: none,
\* when it is removed.
RemovedAsConfirmed ==
  [][\A d \in Dialog :
       /\ At(d, {"remove", "disconnect"}, "act") /\ dialog[d].alone
       /\ instance' # instance \/ container' # container
       /\ dialog'[d] = Idle
       => LET x == dialog[d].what
          IN  /\ instance[x] = dialog[d].expected.instance
              /\ DependenciesOf(x, Container) = dialog[d].expected.dependencies
              /\ dialog[d].kind = "remove" => DependenciesOf(x, Container) = {}]_vars

\* Pruning removes only images that the user was shown and that are still
\* unused, and dangling if only those were asked for, unless images or their
\* users changed since it was confirmed.
PrunedAsConfirmed ==
  [][\A d \in Dialog : At(d, {"prune"}, "act") /\ dialog[d].alone =>
       \A i \in dialog[d].rest \ dialog'[d].rest :
         i \notin images' =>
           /\ i \in dialog[d].ids
           /\ i \notin UsedImages(Container)
           /\ dialog[d].all \/ Tags(i) = {}]_vars
=============================================================================
