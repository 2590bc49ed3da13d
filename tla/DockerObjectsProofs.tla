------------------------- MODULE DockerObjectsProofs -------------------------
(***************************************************************************)
(* For any number of networks, volumes, images, containers and dialogs: one *)
(* operation at a time, and nothing is removed but what the user was shown. *)
(***************************************************************************)
EXTENDS DockerObjects, TLAPS

\* What holds of a dialog by itself.
Fits(q) ==
  /\ q.phase = "idle" <=> q.kind = "none"
  /\ q.kind \in Managing => q.what \in Resource
  /\ q.kind = "disconnect" => q.what \in Network /\ q.from \in Container
  /\ q.kind = "delete" => q.what \in Image
  /\ q.kind = "pull" => q.phase = "act" /\ q.what \in Ref
  /\ q.phase = "shown" => q.kind \in {"remove", "disconnect", "prune"}
  /\ q.phase \in {"list", "inspect"} => q.pending # {}
  /\ q.phase = "list" =>
       /\ q.kind \in OfImages => q.pending = {"containers"}
       /\ q.kind = "create" => q.pending = {"resource"}
       /\ q.kind \in {"remove", "disconnect"} => q.pending \subseteq {"resource", "containers"}
  /\ q.phase = "inspect" =>
       /\ q.kind \in {"remove", "disconnect"} \union OfImages
       /\ q.pending \subseteq Inspections(q.kind)
       /\ q.kind \in OfImages => "images" \in q.pending

Attached(x) == {c \in Container : Present(c) /\ x \in container[c].uses}

\* What a removal or disconnection that is alone has seen is still so.
ResourceSeen(q) ==
  q.kind \in {"remove", "disconnect"} /\ q.alone =>
    /\ q.phase = "list" /\ "containers" \notin q.pending => Attached(q.what) \subseteq q.listed
    /\ q.phase = "inspect" /\ "containers" \in q.pending => Attached(q.what) \subseteq q.listed
    /\ q.phase = "inspect" /\ "containers" \notin q.pending
         => q.seen.dependencies = DependenciesOf(q.what, Container)
    /\ q.phase = "inspect" /\ "resource" \notin q.pending
         => q.seen.instance = instance[q.what]
    /\ q.phase = "act" =>
         /\ q.expected.instance = instance[q.what]
         /\ q.expected.dependencies = DependenciesOf(q.what, Container)
         /\ q.kind = "remove" => DependenciesOf(q.what, Container) = {}

\* And what a pruning that is alone has seen.
ImagesSeen(q) ==
  q.kind = "prune" /\ q.alone =>
    /\ q.phase = "list" /\ "containers" \notin q.pending
         => q.listed = {c \in Container : Present(c)}
    /\ q.phase = "inspect" /\ "containers" \in q.pending
         => q.listed = {c \in Container : Present(c)}
    /\ q.phase = "inspect" /\ "containers" \notin q.pending
         => q.rest = UsedImages(Container)
    /\ q.phase = "act" =>
         q.rest \subseteq q.ids \intersect Candidates(UsedImages(Container), q.all)

IInv ==
  /\ TypeOK
  /\ OneOperation
  /\ \A d \in Dialog : Fits(dialog[d]) /\ ResourceSeen(dialog[d]) /\ ImagesSeen(dialog[d])

-----------------------------------------------------------------------------
\* A dialog that was not worked on: at most it was disturbed.
Follows(q, p) ==
  /\ p \in Request
  /\ p.kind = q.kind /\ p.phase = q.phase /\ p.what = q.what /\ p.from = q.from
  /\ p.all = q.all /\ p.expected = q.expected /\ p.ids = q.ids
  /\ p.pending = q.pending /\ p.listed = q.listed /\ p.seen = q.seen
  /\ p.rest = q.rest /\ p.failed = q.failed
  /\ p.alone => q.alone

\* What a request looks at does not change in a step.
Kept(x) ==
  /\ instance'[x] = instance[x]
  /\ Attached(x)' = Attached(x)
  /\ DependenciesOf(x, Container)' = DependenciesOf(x, Container)
ImagesKept ==
  /\ {c \in Container : Present(c)}' = {c \in Container : Present(c)}
  /\ UsedImages(Container)' = UsedImages(Container)
  /\ images' = images /\ tagged' = tagged
Steady(q) ==
  /\ q.kind \in Managing => \A x \in Resource : x = q.what => Kept(x)
  /\ q.kind \in OfImages => ImagesKept

Follow(e) ==
  /\ Follows(dialog[e], dialog'[e])
  /\ dialog'[e].alone /\ Working(e) => Steady(dialog[e])

KeysOf(q) == IF Keyed(q) THEN {KeyOf(q)} ELSE {}
PullsOf(q) == IF q.kind = "pull" THEN {q.what} ELSE {}

\* What is marked as running follows the dialog.
Marks(d) ==
  /\ active' = (active \ KeysOf(dialog[d])) \union KeysOf(dialog'[d])
  /\ KeysOf(dialog'[d]) \intersect (active \ KeysOf(dialog[d])) = {}
  /\ pulling' = (pulling \ PullsOf(dialog[d])) \union PullsOf(dialog'[d])
  /\ PullsOf(dialog'[d]) \intersect (pulling \ PullsOf(dialog[d])) = {}

WorldTyped ==
  /\ instance \in [Resource -> 0..MaxChange + 1]
  /\ container \in [Container -> Use \union {None}]
  /\ tagged \in [Ref -> Image \union {None}]
  /\ images \in SUBSET Image
  /\ changes \in 0..MaxChange

\* A step on one dialog.
Proceeds(d) ==
  /\ WorldTyped'
  /\ dialog' \in [Dialog -> Request]
  /\ \A e \in Dialog \ {d} : Follow(e)
  /\ Fits(dialog'[d]) /\ ResourceSeen(dialog[d])' /\ ImagesSeen(dialog[d])'
  /\ Marks(d)

-----------------------------------------------------------------------------
LEMMA InvInit == Init => IInv
<1> SUFFICES ASSUME Init PROVE IInv
  OBVIOUS
<1>1. Nothing \in Fingerprint
  BY ObjectsAssumption DEF Nothing, Fingerprint
<1>2. Idle \in Request
  BY <1>1 DEF Idle, Request, Kind, Phase
<1>3. container \in [Container -> Use \union {None}]
  BY DEF Init, Use
<1>4. TypeOK
  BY <1>2, <1>3, ObjectsAssumption DEF Init, TypeOK
<1>5. OneOperation
  BY DEF Init, OneOperation, Keyed, Idle
<1>6. \A d \in Dialog : Fits(dialog[d]) /\ ResourceSeen(dialog[d]) /\ ImagesSeen(dialog[d])
  BY DEF Init, Fits, ResourceSeen, ImagesSeen, Idle, Managing, OfImages
<1>. QED BY <1>4, <1>5, <1>6 DEF IInv

LEMMA IdleFits == Idle \in Request /\ Fits(Idle) /\ KeysOf(Idle) = {} /\ PullsOf(Idle) = {}
<1>1. Nothing \in Fingerprint
  BY ObjectsAssumption DEF Nothing, Fingerprint
<1>2. Idle \in Request
  BY <1>1 DEF Idle, Request, Kind, Phase
<1>. QED BY <1>2 DEF Idle, Fits, KeysOf, Keyed, PullsOf, Managing, OfImages

\* A dialog that was not worked on keeps what holds of it.
LEMMA FollowKeeps ==
  ASSUME NEW e \in Dialog, Follow(e), dialog[e] \in Request,
         Fits(dialog[e]), ResourceSeen(dialog[e]), ImagesSeen(dialog[e])
  PROVE  /\ dialog'[e] \in Request
         /\ Fits(dialog'[e]) /\ ResourceSeen(dialog[e])' /\ ImagesSeen(dialog[e])'
         /\ KeysOf(dialog'[e]) = KeysOf(dialog[e])
         /\ PullsOf(dialog'[e]) = PullsOf(dialog[e])
<1>. DEFINE q == dialog[e]
            p == dialog'[e]
<1>1. Follows(q, p)
  BY DEF Follow
<1>2. Fits(p)
  BY <1>1 DEF Follows, Fits
<1>3. ResourceSeen(dialog[e])'
  <2>1. CASE Working(e) /\ q.kind \in {"remove", "disconnect"} /\ p.alone
    <3>1. PICK x \in Resource : x = q.what /\ Kept(x)
      BY <2>1 DEF Follow, Steady, Managing, Fits
    <3>. QED BY <1>1, <2>1, <3>1 DEF Follows, ResourceSeen, Kept
  <2>2. CASE ~(Working(e) /\ q.kind \in {"remove", "disconnect"} /\ p.alone)
    BY <1>1, <2>2 DEF Follows, ResourceSeen, Working
  <2>. QED BY <2>1, <2>2
<1>4. ImagesSeen(dialog[e])'
  <2>1. CASE Working(e) /\ q.kind = "prune" /\ p.alone
    <3>1. ImagesKept
      BY <2>1 DEF Follow, Steady, OfImages
    <3>2. Candidates(UsedImages(Container), q.all)' = Candidates(UsedImages(Container), q.all)
      BY <3>1, <1>1 DEF ImagesKept, Candidates, Tags, Follows
    <3>. QED BY <1>1, <2>1, <3>1, <3>2 DEF Follows, ImagesSeen, ImagesKept
  <2>2. CASE ~(Working(e) /\ q.kind = "prune" /\ p.alone)
    BY <1>1, <2>2 DEF Follows, ImagesSeen, Working
  <2>. QED BY <2>1, <2>2
<1>5. KeysOf(p) = KeysOf(q) /\ PullsOf(p) = PullsOf(q)
  BY <1>1 DEF Follows, KeysOf, Keyed, KeyOf, PullsOf
<1>. QED BY <1>1, <1>2, <1>3, <1>4, <1>5 DEF Follows

\* One operation at a time, if the marks follow the dialog that is worked on.
LEMMA KeysFollow ==
  ASSUME IInv, NEW d \in Dialog, Marks(d),
         \A e \in Dialog \ {d} : /\ KeysOf(dialog'[e]) = KeysOf(dialog[e])
                                 /\ PullsOf(dialog'[e]) = PullsOf(dialog[e])
  PROVE  OneOperation'
<1>1. active = UNION {KeysOf(dialog[e]) : e \in Dialog}
  BY DEF IInv, OneOperation, KeysOf
<1>2. pulling = UNION {PullsOf(dialog[e]) : e \in Dialog}
  BY DEF IInv, OneOperation, PullsOf
<1>3. \A e, f \in Dialog : e # f =>
         /\ KeysOf(dialog[e]) \intersect KeysOf(dialog[f]) = {}
         /\ PullsOf(dialog[e]) \intersect PullsOf(dialog[f]) = {}
  BY DEF IInv, OneOperation, KeysOf, PullsOf
<1>4. \A e \in Dialog : KeysOf(dialog[e]) \subseteq active /\ PullsOf(dialog[e]) \subseteq pulling
  BY <1>1, <1>2
<1>5. \A e, f \in Dialog : e # f =>
         /\ KeysOf(dialog'[e]) \intersect KeysOf(dialog'[f]) = {}
         /\ PullsOf(dialog'[e]) \intersect PullsOf(dialog'[f]) = {}
  BY <1>3, <1>4 DEF Marks
<1>6. active' = UNION {KeysOf(dialog'[e]) : e \in Dialog}
  <2>1. ASSUME NEW k \in active' PROVE \E e \in Dialog : k \in KeysOf(dialog'[e])
    BY <2>1, <1>1 DEF Marks
  <2>2. ASSUME NEW e \in Dialog, NEW k \in KeysOf(dialog'[e]) PROVE k \in active'
    BY <2>2, <1>3, <1>4 DEF Marks
  <2>. QED BY <2>1, <2>2
<1>7. pulling' = UNION {PullsOf(dialog'[e]) : e \in Dialog}
  <2>1. ASSUME NEW k \in pulling' PROVE \E e \in Dialog : k \in PullsOf(dialog'[e])
    BY <2>1, <1>2 DEF Marks
  <2>2. ASSUME NEW e \in Dialog, NEW k \in PullsOf(dialog'[e]) PROVE k \in pulling'
    BY <2>2, <1>3, <1>4 DEF Marks
  <2>. QED BY <2>1, <2>2
<1>8. active' = {KeyOf(dialog'[e]) : e \in {x \in Dialog : Keyed(dialog'[x])}}
  BY <1>6 DEF KeysOf
<1>9. pulling' = {dialog'[e].what : e \in {x \in Dialog : dialog'[x].kind = "pull"}}
  BY <1>7 DEF PullsOf
<1>10. \A e, f \in Dialog : e # f =>
          /\ Keyed(dialog'[e]) /\ Keyed(dialog'[f]) => KeyOf(dialog'[e]) # KeyOf(dialog'[f])
          /\ dialog'[e].kind = "pull" /\ dialog'[f].kind = "pull"
               => dialog'[e].what # dialog'[f].what
  BY <1>5 DEF KeysOf, PullsOf
<1>. QED BY <1>8, <1>9, <1>10 DEF OneOperation

\* The marks are keys and references.
LEMMA MarksTyped ==
  ASSUME NEW dialogs \in [Dialog -> Request], \A e \in Dialog : Fits(dialogs[e])
  PROVE  /\ {KeyOf(dialogs[e]) : e \in {x \in Dialog : Keyed(dialogs[x])}} \in SUBSET Key
         /\ {dialogs[e].what : e \in {x \in Dialog : dialogs[x].kind = "pull"}} \in SUBSET Ref
<1>1. \A e \in Dialog : Keyed(dialogs[e]) => KeyOf(dialogs[e]) \in Key
  BY DEF Keyed, KeyOf, Key, Fits, Managing
<1>2. \A e \in Dialog : dialogs[e].kind = "pull" => dialogs[e].what \in Ref
  BY DEF Fits
<1>. QED BY <1>1, <1>2

LEMMA OneWorks ==
  ASSUME IInv, NEW d \in Dialog, Proceeds(d)
  PROVE  IInv'
<1>1. \A e \in Dialog : /\ dialog[e] \in Request
                        /\ Fits(dialog[e]) /\ ResourceSeen(dialog[e]) /\ ImagesSeen(dialog[e])
  BY DEF IInv, TypeOK
<1>2. \A e \in Dialog \ {d} :
        /\ Fits(dialog'[e]) /\ ResourceSeen(dialog[e])' /\ ImagesSeen(dialog[e])'
        /\ KeysOf(dialog'[e]) = KeysOf(dialog[e])
        /\ PullsOf(dialog'[e]) = PullsOf(dialog[e])
  BY <1>1, FollowKeeps DEF Proceeds
<1>3. OneOperation'
  BY <1>2, KeysFollow DEF Proceeds
<1>4. \A e \in Dialog : Fits(dialog'[e]) /\ ResourceSeen(dialog[e])' /\ ImagesSeen(dialog[e])'
  BY <1>2 DEF Proceeds
<1>5. active' \in SUBSET Key /\ pulling' \in SUBSET Ref
  <2>1. dialog' \in [Dialog -> Request] /\ \A e \in Dialog : Fits(dialog'[e])
    BY <1>4 DEF Proceeds
  <2>. QED BY <1>3, <2>1, MarksTyped DEF OneOperation
<1>6. TypeOK'
  BY <1>5 DEF Proceeds, WorldTyped, TypeOK
<1>. QED BY <1>3, <1>4, <1>6 DEF IInv

\* A step that works on no dialog.
LEMMA NobodyWorks ==
  ASSUME IInv, WorldTyped', dialog' \in [Dialog -> Request], \A e \in Dialog : Follow(e),
         UNCHANGED <<active, pulling>>
  PROVE  IInv'
<1>1. \A e \in Dialog : /\ dialog[e] \in Request
                        /\ Fits(dialog[e]) /\ ResourceSeen(dialog[e]) /\ ImagesSeen(dialog[e])
  BY DEF IInv, TypeOK
<1>2. \A e \in Dialog :
        /\ Fits(dialog'[e]) /\ ResourceSeen(dialog[e])' /\ ImagesSeen(dialog[e])'
        /\ KeysOf(dialog'[e]) = KeysOf(dialog[e])
        /\ PullsOf(dialog'[e]) = PullsOf(dialog[e])
  BY <1>1, FollowKeeps
<1>3. OneOperation'
  <2>1. \A e \in Dialog : /\ Keyed(dialog'[e]) <=> Keyed(dialog[e])
                          /\ KeyOf(dialog'[e]) = KeyOf(dialog[e])
                          /\ dialog'[e].kind = dialog[e].kind
                          /\ dialog'[e].what = dialog[e].what
    BY DEF Follow, Follows, Keyed, KeyOf
  <2>. QED BY <2>1 DEF IInv, OneOperation
<1>4. TypeOK'
  BY DEF IInv, TypeOK, WorldTyped
<1>. QED BY <1>2, <1>3, <1>4 DEF IInv

\* What is looked at stays where docker does.
LEMMA DockerKept ==
  ASSUME UNCHANGED docker, NEW q
  PROVE  Steady(q)
BY DEF docker, Steady, Kept, ImagesKept, Attached, DependenciesOf, UsedImages, Present

LEMMA TouchedTyped ==
  ASSUME IInv, NEW things
  PROVE  Touched(things) \in [Dialog -> Request]
<1>1. dialog \in [Dialog -> Request]
  BY DEF IInv, TypeOK
<1>2. \A f \in Dialog : [dialog[f] EXCEPT !.alone = FALSE] \in Request
  BY <1>1 DEF Request
<1>. QED BY <1>1, <1>2 DEF Touched

\* A change disturbs whoever it touches, and does no more.
LEMMA Disturbs ==
  ASSUME IInv, NEW things, NEW e \in Dialog
  PROVE  /\ Touched(things) \in [Dialog -> Request]
         /\ Follows(dialog[e], Touched(things)[e])
         /\ Touched(things)[e].alone /\ Working(e) => ~Touches(dialog[e], things)
<1>1. dialog \in [Dialog -> Request]
  BY DEF IInv, TypeOK
<1>2. \A f \in Dialog : /\ [dialog[f] EXCEPT !.alone = FALSE] \in Request
                        /\ Follows(dialog[f], [dialog[f] EXCEPT !.alone = FALSE])
                        /\ Follows(dialog[f], dialog[f])
                        /\ ~[dialog[f] EXCEPT !.alone = FALSE].alone
  BY <1>1 DEF Request, Follows
<1>. QED BY <1>2, TouchedTyped DEF Touched

\* A step on one dialog that leaves docker alone.
LEMMA Looks ==
  ASSUME IInv, NEW d \in Dialog, NEW q \in Request,
         dialog' = [dialog EXCEPT ![d] = q], UNCHANGED <<docker, changes>>,
         Fits(q), ResourceSeen(dialog[d])', ImagesSeen(dialog[d])', Marks(d)
  PROVE  Proceeds(d)
<1>1. WorldTyped'
  BY DEF IInv, TypeOK, WorldTyped, docker
<1>2. dialog \in [Dialog -> Request] /\ dialog' \in [Dialog -> Request] /\ dialog'[d] = q
  BY DEF IInv, TypeOK
<1>3. \A e \in Dialog \ {d} : Follow(e)
  <2>. SUFFICES ASSUME NEW e \in Dialog \ {d} PROVE Follow(e)
    OBVIOUS
  <2>1. dialog'[e] = dialog[e] /\ dialog[e] \in Request
    BY <1>2
  <2>. QED BY <2>1, DockerKept DEF Follow, Follows
<1>. QED BY <1>1, <1>2, <1>3 DEF Proceeds

\* A step on one dialog that changes docker.
LEMMA Acts ==
  ASSUME IInv, NEW d \in Dialog, NEW q \in Request, NEW things,
         dialog' = [Touched(things) EXCEPT ![d] = q],
         \A e \in Dialog \ {d} : ~Touches(dialog[e], things) => Steady(dialog[e]),
         WorldTyped', Fits(q), ResourceSeen(dialog[d])', ImagesSeen(dialog[d])', Marks(d)
  PROVE  Proceeds(d)
<1>1. Touched(things) \in [Dialog -> Request]
  BY Disturbs
<1>2. dialog' \in [Dialog -> Request] /\ dialog'[d] = q
  BY <1>1
<1>3. \A e \in Dialog \ {d} : Follow(e)
  <2>. SUFFICES ASSUME NEW e \in Dialog \ {d} PROVE Follow(e)
    OBVIOUS
  <2>1. dialog'[e] = Touched(things)[e]
    BY <1>1
  <2>. QED BY <2>1, Disturbs DEF Follow
<1>. QED BY <1>2, <1>3 DEF Proceeds

\* The answer releases what was held.
LEMMA AnswerSeen ==
  ASSUME NEW d \in Dialog, dialog'[d] = Idle
  PROVE  ResourceSeen(dialog[d])' /\ ImagesSeen(dialog[d])'
BY DEF ResourceSeen, ImagesSeen, Idle

LEMMA AnswerMarks ==
  ASSUME NEW d \in Dialog, dialog'[d] = Idle,
         active' = IF Keyed(dialog[d]) THEN active \ {KeyOf(dialog[d])} ELSE active,
         pulling' = pulling \ PullsOf(dialog[d])
  PROVE  Marks(d)
BY IdleFits DEF Marks, KeysOf

LEMMA AnsweredProceeds ==
  ASSUME IInv, NEW d \in Dialog, Answered(d), UNCHANGED <<docker, changes>>,
         pulling' = pulling \ PullsOf(dialog[d])
  PROVE  Proceeds(d)
<1>1. dialog' = [dialog EXCEPT ![d] = Idle] /\ dialog'[d] = Idle
  BY DEF Answered, IInv, TypeOK
<1>2. Marks(d)
  BY <1>1, AnswerMarks DEF Answered
<1>. QED BY <1>1, <1>2, AnswerSeen, IdleFits, Looks

LEMMA AnsweredActs ==
  ASSUME IInv, NEW d \in Dialog, NEW things, AnsweredTouching(d, things), WorldTyped',
         \A e \in Dialog \ {d} : ~Touches(dialog[e], things) => Steady(dialog[e]),
         pulling' = pulling \ PullsOf(dialog[d])
  PROVE  Proceeds(d)
<1>1. dialog' = [Touched(things) EXCEPT ![d] = Idle] /\ dialog'[d] = Idle
  BY Disturbs DEF AnsweredTouching
<1>2. Marks(d)
  BY <1>1, AnswerMarks DEF AnsweredTouching
<1>. QED BY <1>1, <1>2, AnswerSeen, IdleFits, Acts

-----------------------------------------------------------------------------
LEMMA HeldByMarks ==
  ASSUME IInv, NEW d \in Dialog
  PROVE  KeysOf(dialog[d]) \subseteq active /\ PullsOf(dialog[d]) \subseteq pulling
BY DEF IInv, OneOperation, KeysOf, PullsOf

LEMMA SameMarks ==
  ASSUME IInv, NEW d \in Dialog, NEW q, dialog'[d] = q, UNCHANGED <<active, pulling>>,
         KeysOf(q) = KeysOf(dialog[d]), PullsOf(q) = PullsOf(dialog[d])
  PROVE  Marks(d)
BY HeldByMarks DEF Marks

LEMMA DockerSeen ==
  ASSUME UNCHANGED docker, NEW d \in Dialog, NEW q, dialog'[d] = q,
         ResourceSeen(q), ImagesSeen(q)
  PROVE  ResourceSeen(dialog[d])' /\ ImagesSeen(dialog[d])'
<1>1. ResourceSeen(dialog[d])'
  BY DEF docker, ResourceSeen, Attached, DependenciesOf, Present
<1>2. ImagesSeen(dialog[d])'
  BY DEF docker, ImagesSeen, UsedImages, Candidates, Tags, Present
<1>. QED BY <1>1, <1>2

\* What a look returned leaves the rest of the request as it was.
Looked(q, p) ==
  /\ p \in Request
  /\ p.kind = q.kind /\ p.phase = q.phase /\ p.what = q.what /\ p.from = q.from
  /\ p.all = q.all /\ p.expected = q.expected /\ p.ids = q.ids
  /\ p.failed = q.failed /\ p.alone = q.alone

\* A request that is still under way, with the same key.
LEMMA GoesOn ==
  ASSUME IInv, NEW d \in Dialog, NEW q \in Request,
         dialog[d].phase \in {"list", "inspect"}, q.phase \in {"list", "inspect", "act"},
         q.kind = dialog[d].kind, q.what = dialog[d].what, q.from = dialog[d].from,
         dialog' = [dialog EXCEPT ![d] = q], UNCHANGED <<docker, changes, pulling, active>>,
         Fits(q), ResourceSeen(q), ImagesSeen(q)
  PROVE  Proceeds(d)
<1>1. dialog'[d] = q
  BY DEF IInv, TypeOK
<1>2. Marks(d)
  BY <1>1, SameMarks DEF KeysOf, Keyed, KeyOf, PullsOf
<1>3. ResourceSeen(dialog[d])' /\ ImagesSeen(dialog[d])'
  BY <1>1, DockerSeen
<1>. QED BY <1>2, <1>3, Looks

LEMMA GoesProceeds ==
  ASSUME IInv, NEW d \in Dialog, NEW q, NEW command, Looked(dialog[d], q),
         dialog[d].phase \in {"list", "inspect"},
         command \in dialog[d].pending, q.pending = dialog[d].pending \ {command},
         q.kind \in OfImages /\ q.phase = "inspect" => "images" \in q.pending,
         ResourceSeen(q), ImagesSeen(q),
         Goes(d, q), UNCHANGED <<docker, changes, pulling>>
  PROVE  Proceeds(d)
<1>1. dialog[d] \in Request /\ Fits(dialog[d])
  BY DEF IInv, TypeOK
<1>2. CASE q.pending # {}
  <2>1. dialog' = [dialog EXCEPT ![d] = q] /\ UNCHANGED active
    BY <1>2 DEF Goes
  <2>2. Fits(q)
    BY <1>1, <1>2 DEF Looked, Fits, OfImages
  <2>. QED BY <2>1, <2>2, GoesOn DEF Looked
<1>3. CASE q.pending = {} /\ q.phase = "list" /\ q.kind = "create"
  <2>. DEFINE p == [q EXCEPT !.phase = "act"]
  <2>1. dialog' = [dialog EXCEPT ![d] = p] /\ UNCHANGED active
    BY <1>3 DEF Goes
  <2>2. p \in Request /\ p.kind = q.kind /\ p.phase = "act" /\ p.what = q.what /\ p.from = q.from
    BY DEF Looked, Request, Phase
  <2>3. Fits(p) /\ ResourceSeen(p) /\ ImagesSeen(p)
    BY <1>1, <1>3, <2>2 DEF Fits, ResourceSeen, ImagesSeen, Looked, Managing, OfImages
  <2>. HIDE DEF p
  <2>. QED BY <2>1, <2>2, <2>3, GoesOn DEF Looked
<1>4. CASE q.pending = {} /\ q.phase = "list" /\ q.kind # "create"
  <2>. DEFINE q1 == [q EXCEPT !.phase = "inspect"]
              p == [q1 EXCEPT !.pending = Inspections(q.kind)]
  <2>1. dialog' = [dialog EXCEPT ![d] = p] /\ UNCHANGED active
    <3>1. dialog' = [dialog EXCEPT ![d] =
                       [q EXCEPT !.phase = "inspect", !.pending = Inspections(q.kind)]]
          /\ UNCHANGED active
      BY <1>4 DEF Goes
    <3>. QED BY <3>1, Zenon
  <2>2. q \in Request /\ Inspections(q.kind) \in SUBSET Pending /\ Inspections(q.kind) # {}
    BY DEF Looked, Inspections, Pending
  <2>3. q1 \in Request /\ q1.phase = "inspect" /\ q1.kind = q.kind /\ q1.what = q.what /\ q1.from = q.from
        /\ q1.alone = q.alone /\ q1.listed = q.listed /\ q1.rest = q.rest /\ q1.seen = q.seen
        /\ q1.expected = q.expected
    BY <2>2 DEF Looked, Request, Phase
  <2>. HIDE DEF q1
  <2>4. p \in Request /\ p.phase = "inspect" /\ p.kind = q.kind /\ p.what = q.what /\ p.from = q.from
        /\ p.alone = q.alone /\ p.listed = q.listed /\ p.pending = Inspections(q.kind)
    BY <2>2, <2>3 DEF Request
  <2>. HIDE DEF p
  <2>5. Fits(p)
    BY <1>1, <1>4, <2>2, <2>4 DEF Looked, Fits, OfImages, Managing, Inspections, Request, Kind
  <2>6. ResourceSeen(p)
    BY <1>4, <2>4 DEF ResourceSeen, Inspections, OfImages
  <2>7. ImagesSeen(p)
    BY <1>4, <2>4 DEF ImagesSeen, Inspections, OfImages
  <2>. QED BY <2>1, <2>4, <2>5, <2>6, <2>7, GoesOn DEF Looked
<1>5. CASE q.pending = {} /\ q.phase = "inspect" /\ AsExpected(q) /\ Allowed(q)
  <2>. DEFINE p == [q EXCEPT !.phase = "act"]
  <2>1. dialog' = [dialog EXCEPT ![d] = p] /\ UNCHANGED active
    BY <1>5 DEF Goes
  <2>2. p \in Request /\ p.kind = q.kind /\ p.phase = "act" /\ p.what = q.what /\ p.from = q.from
        /\ p.alone = q.alone /\ p.expected = q.expected
    BY DEF Looked, Request, Phase
  <2>. HIDE DEF p
  <2>3. q.kind \in {"remove", "disconnect"}
    BY <1>1, <1>5 DEF Fits, Looked
  <2>4. Fits(p) /\ ImagesSeen(p)
    BY <1>1, <1>5, <2>2, <2>3 DEF Fits, ImagesSeen, Looked, Managing, OfImages
  <2>5. ResourceSeen(p)
    BY <1>5, <2>2, <2>3 DEF ResourceSeen, AsExpected, Allowed
  <2>. QED BY <2>1, <2>2, <2>4, <2>5, GoesOn DEF Looked
<1>6. CASE q.pending = {} /\ q.phase = "inspect" /\ ~(AsExpected(q) /\ Allowed(q))
  <2>1. Answered(d)
    BY <1>6 DEF Goes
  <2>2. PullsOf(dialog[d]) = {}
    BY <1>1 DEF Fits, PullsOf
  <2>. QED BY <2>1, <2>2, AnsweredProceeds
<1>. QED BY <1>2, <1>3, <1>4, <1>5, <1>6 DEF Looked

-----------------------------------------------------------------------------
(* The looks *)

LEMMA DependenciesAre ==
  ASSUME IInv, NEW x \in Resource, NEW listed \in SUBSET Container,
         \A c \in listed : Present(c)
  PROVE  /\ UsedImages(listed) \in SUBSET Image
         /\ DependenciesOf(x, listed) \in SUBSET Dependency
         /\ Attached(x) \subseteq listed => DependenciesOf(x, listed) = DependenciesOf(x, Container)
<1>1. \A c \in Container : Present(c) => container[c] \in Use
  BY DEF IInv, TypeOK, Present
<1>2. UsedImages(listed) \in SUBSET Image
  BY <1>1 DEF UsedImages, Use
<1>3. DependenciesOf(x, listed) \in SUBSET Dependency
  BY <1>1 DEF DependenciesOf, Use, Dependency
<1>4. ASSUME Attached(x) \subseteq listed
      PROVE  {c \in listed : Present(c) /\ x \in container[c].uses} =
             {c \in Container : Present(c) /\ x \in container[c].uses}
  BY <1>4 DEF Attached
<1>. QED BY <1>2, <1>3, <1>4 DEF DependenciesOf

LEMMA DialogTyped ==
  ASSUME IInv, NEW d \in Dialog
  PROVE  /\ dialog[d] \in Request /\ Fits(dialog[d])
         /\ ResourceSeen(dialog[d]) /\ ImagesSeen(dialog[d])
BY DEF IInv, TypeOK

LEMMA ListContainersStep ==
  ASSUME IInv, NEW d \in Dialog, ListContainers(d)
  PROVE  Proceeds(d)
<1>. DEFINE there == {c \in Container : Present(c)}
            q1 == [dialog[d] EXCEPT !.pending = dialog[d].pending \ {"containers"}]
            q2 == [q1 EXCEPT !.listed = there]
<1>1. /\ dialog[d].phase = "list" /\ "containers" \in dialog[d].pending
      /\ Goes(d, q2) /\ UNCHANGED <<docker, changes, pulling>>
  BY Zenon DEF ListContainers
<1>2. q1 \in Request /\ Looked(dialog[d], q1) /\ q1.pending = dialog[d].pending \ {"containers"}
  BY DialogTyped DEF Looked, Request
<1>. HIDE DEF q1
<1>3. Looked(dialog[d], q2) /\ q2.pending = dialog[d].pending \ {"containers"} /\ q2.listed = there
  BY <1>2 DEF Looked, Request
<1>. HIDE DEF q2
<1>4. ResourceSeen(q2) /\ ImagesSeen(q2)
  BY <1>1, <1>3 DEF ResourceSeen, ImagesSeen, Looked, Attached
<1>. QED BY <1>1, <1>3, <1>4, GoesProceeds DEF Looked

LEMMA ListResourcesStep ==
  ASSUME IInv, NEW d \in Dialog, ListResources(d)
  PROVE  Proceeds(d)
<1>. DEFINE q == [dialog[d] EXCEPT !.pending = dialog[d].pending \ {"resource"}]
<1>0. /\ dialog[d].phase = "list" /\ "resource" \in dialog[d].pending
      /\ UNCHANGED <<docker, changes, pulling>>
  BY DEF ListResources
<1>1. CASE Answered(d)
  <2>1. PullsOf(dialog[d]) = {}
    BY <1>0, DialogTyped DEF Fits, PullsOf
  <2>. QED BY <1>0, <1>1, <2>1, AnsweredProceeds
<1>2. CASE Goes(d, q)
  <2>1. Looked(dialog[d], q) /\ q.pending = dialog[d].pending \ {"resource"} /\ q.listed = dialog[d].listed
    BY DialogTyped DEF Looked, Request
  <2>. HIDE DEF q
  <2>2. ResourceSeen(q)
    BY <1>0, <2>1, DialogTyped DEF ResourceSeen, Looked
  <2>3. ImagesSeen(q)
    BY <1>0, <2>1, DialogTyped DEF ImagesSeen, Looked, Fits, OfImages
  <2>. QED BY <1>0, <1>2, <2>1, <2>2, <2>3, GoesProceeds DEF Looked
<1>. QED BY <1>1, <1>2 DEF ListResources

LEMMA InspectContainersStep ==
  ASSUME IInv, NEW d \in Dialog, InspectContainers(d)
  PROVE  Proceeds(d)
<1>. DEFINE listed == dialog[d].listed
            q1 == [dialog[d] EXCEPT !.pending = dialog[d].pending \ {"containers"}]
            q2 == [q1 EXCEPT !.listed = {}]
<1>0. /\ dialog[d].phase = "inspect" /\ "containers" \in dialog[d].pending
      /\ UNCHANGED <<docker, changes, pulling>>
  BY DEF InspectContainers
<1>1. CASE Answered(d)
  <2>1. PullsOf(dialog[d]) = {}
    BY <1>0, DialogTyped DEF Fits, PullsOf
  <2>. QED BY <1>0, <1>1, <2>1, AnsweredProceeds
<1>2. CASE ~\E c \in listed : ~Present(c)
  <2>1. Goes(d, IF q2.kind \in OfImages
                THEN [q2 EXCEPT !.rest = UsedImages(listed)]
                ELSE [q2 EXCEPT !.seen.dependencies = DependenciesOf(q2.what, listed)])
    BY <1>2, Zenon DEF InspectContainers
  <2>2. q1 \in Request /\ Looked(dialog[d], q1) /\ q1.pending = dialog[d].pending \ {"containers"}
        /\ q1.seen = dialog[d].seen
    BY DialogTyped DEF Looked, Request
  <2>. HIDE DEF q1
  <2>3. Looked(dialog[d], q2) /\ q2.pending = dialog[d].pending \ {"containers"}
        /\ q2.seen = dialog[d].seen
    BY <2>2 DEF Looked, Request
  <2>. HIDE DEF q2
  <2>4. listed \in SUBSET Container /\ \A c \in listed : Present(c)
    BY <1>2, DialogTyped DEF Request
  <2>5. CASE q2.kind \in OfImages
    <3>. DEFINE p == [q2 EXCEPT !.rest = UsedImages(listed)]
    <3>1. UsedImages(listed) \in SUBSET Image
      BY <2>4, <1>0 DEF UsedImages, IInv, TypeOK, Present, Use
    <3>2. Looked(dialog[d], p) /\ p.pending = q2.pending /\ p.rest = UsedImages(listed)
      BY <2>3, <3>1 DEF Looked, Request
    <3>. HIDE DEF p
    <3>3. ResourceSeen(p)
      BY <2>5, <3>2, <2>3 DEF ResourceSeen, Looked, OfImages
    <3>4. ImagesSeen(p)
      <4>1. SUFFICES ASSUME p.kind = "prune", p.alone PROVE p.rest = UsedImages(Container)
        BY <1>0, <2>3, <3>2 DEF ImagesSeen, Looked
      <4>2. listed = {c \in Container : Present(c)}
        BY <4>1, <1>0, <3>2, DialogTyped DEF ImagesSeen, Looked
      <4>. QED BY <4>2, <3>2, <2>4 DEF UsedImages
    <3>5. "images" \in p.pending
      BY <1>0, <2>3, <2>5, <3>2, DialogTyped DEF Fits, Looked
    <3>6. Goes(d, p)
      BY <2>1, <2>5 DEF p
    <3>. QED BY <1>0, <2>3, <3>2, <3>3, <3>4, <3>5, <3>6, GoesProceeds DEF Looked
  <2>6. CASE q2.kind \notin OfImages
    <3>. DEFINE dependencies == DependenciesOf(q2.what, listed)
                p == [q2 EXCEPT !.seen.dependencies = dependencies]
    <3>1. q2.kind \in {"remove", "disconnect"} /\ q2.what \in Resource
      BY <1>0, <2>3, <2>6, DialogTyped DEF Fits, Looked, Managing
    <3>2. dependencies \in SUBSET Dependency
      BY <3>1, <2>4, DependenciesAre
    <3>. HIDE DEF dependencies
    <3>3. /\ p = [q2 EXCEPT !.seen = [q2.seen EXCEPT !.dependencies = dependencies]]
          /\ [q2.seen EXCEPT !.dependencies = dependencies] \in Fingerprint
          /\ [q2.seen EXCEPT !.dependencies = dependencies].dependencies = dependencies
          /\ [q2.seen EXCEPT !.dependencies = dependencies].instance = q2.seen.instance
      BY <3>2, <2>3 DEF Looked, Request, Fingerprint
    <3>4. Looked(dialog[d], p) /\ p.pending = q2.pending /\ p.seen.dependencies = dependencies
          /\ p.seen.instance = q2.seen.instance
      BY <2>3, <3>3 DEF Looked, Request
    <3>. HIDE DEF p
    <3>5. ImagesSeen(p)
      BY <2>6, <3>4, <2>3 DEF ImagesSeen, Looked, OfImages
    <3>6. ResourceSeen(p)
      <4>. SUFFICES ASSUME p.alone
                    PROVE  /\ dependencies = DependenciesOf(p.what, Container)
                           /\ "resource" \notin p.pending => p.seen.instance = instance[p.what]
        BY <1>0, <2>3, <3>1, <3>4 DEF ResourceSeen, Looked
      <4>1. /\ Attached(p.what) \subseteq listed
            /\ "resource" \notin p.pending => p.seen.instance = instance[p.what]
        BY <1>0, <2>3, <3>1, <3>4, DialogTyped DEF ResourceSeen, Looked
      <4>2. dependencies = DependenciesOf(p.what, Container)
        BY <4>1, <2>3, <2>4, <3>1, <3>4, DependenciesAre DEF dependencies, Looked
      <4>. QED BY <4>1, <4>2
    <3>. QED BY <1>0, <2>1, <2>3, <2>6, <3>1, <3>4, <3>5, <3>6, GoesProceeds DEF Looked, dependencies, p, OfImages
  <2>. QED BY <2>5, <2>6
<1>. QED BY <1>1, <1>2 DEF InspectContainers

LEMMA InspectResourceStep ==
  ASSUME IInv, NEW d \in Dialog, InspectResource(d)
  PROVE  Proceeds(d)
<1>. DEFINE n == instance[dialog[d].what]
            q1 == [dialog[d] EXCEPT !.pending = dialog[d].pending \ {"resource"}]
            p == [q1 EXCEPT !.seen.instance = n]
<1>0. /\ dialog[d].phase = "inspect" /\ "resource" \in dialog[d].pending
      /\ UNCHANGED <<docker, changes, pulling>>
  BY DEF InspectResource
<1>1. CASE Answered(d)
  <2>1. PullsOf(dialog[d]) = {}
    BY <1>0, DialogTyped DEF Fits, PullsOf
  <2>. QED BY <1>0, <1>1, <2>1, AnsweredProceeds
<1>2. CASE Goes(d, p)
  <2>0. dialog[d].kind \in {"remove", "disconnect"} /\ n \in 0..MaxChange + 1
    BY <1>0, DialogTyped DEF Fits, Inspections, OfImages, Managing, IInv, TypeOK
  <2>1. q1 \in Request /\ Looked(dialog[d], q1) /\ q1.pending = dialog[d].pending \ {"resource"}
        /\ q1.seen = dialog[d].seen /\ q1.listed = dialog[d].listed
    BY DialogTyped DEF Looked, Request
  <2>. HIDE DEF n
  <2>. HIDE DEF q1
  <2>2. /\ p = [q1 EXCEPT !.seen = [q1.seen EXCEPT !.instance = n]]
        /\ [q1.seen EXCEPT !.instance = n] \in Fingerprint
        /\ [q1.seen EXCEPT !.instance = n].dependencies = q1.seen.dependencies
        /\ [q1.seen EXCEPT !.instance = n].instance = n
    BY <2>0, <2>1 DEF Request, Fingerprint
  <2>3. Looked(dialog[d], p) /\ p.pending = q1.pending /\ p.seen.instance = n
        /\ p.seen.dependencies = q1.seen.dependencies /\ p.listed = q1.listed
    BY <2>1, <2>2 DEF Looked, Request
  <2>. HIDE DEF p
  <2>4. ImagesSeen(p)
    BY <2>0, <2>3 DEF ImagesSeen, Looked
  <2>5. ResourceSeen(p)
    <3>1. p.kind = dialog[d].kind /\ p.phase = "inspect" /\ p.what = dialog[d].what
          /\ p.alone = dialog[d].alone /\ p.listed = dialog[d].listed
          /\ p.seen.dependencies = dialog[d].seen.dependencies
          /\ ("containers" \in p.pending <=> "containers" \in dialog[d].pending)
      BY <1>0, <2>1, <2>3 DEF Looked
    <3>2. p.seen.instance = instance[p.what]
      BY <2>3, <3>1 DEF n
    <3>. QED BY <1>0, <3>1, <3>2, DialogTyped DEF ResourceSeen
  <2>. QED BY <1>0, <1>2, <2>0, <2>1, <2>3, <2>4, <2>5, GoesProceeds DEF Looked, OfImages
<1>. QED
  <2>1. Answered(d) \/ Goes(d, p)
    BY Zenon DEF InspectResource
  <2>. QED BY <1>1, <1>2, <2>1

LEMMA InspectImagesStep ==
  ASSUME IInv, NEW d \in Dialog, InspectImages(d)
  PROVE  Proceeds(d)
<1>. DEFINE q == dialog[d]
            candidates == IF q.kind = "prune" THEN Candidates(q.rest, q.all)
                          ELSE {q.what} \intersect (images \ q.rest)
            q1 == [q EXCEPT !.phase = "act"]
            q2 == [q1 EXCEPT !.pending = {}]
            p == [q2 EXCEPT !.rest = candidates]
<1>0. /\ q.phase = "inspect" /\ q.pending = {"images"} /\ q.kind \in OfImages
      /\ UNCHANGED <<docker, changes, pulling>>
  <2>1. q.phase = "inspect" /\ q.pending = {"images"} /\ UNCHANGED <<docker, changes, pulling>>
    BY DEF InspectImages
  <2>. QED BY <2>1, DialogTyped DEF Fits, Inspections, OfImages
<1>1. CASE Answered(d)
  <2>1. PullsOf(dialog[d]) = {}
    BY <1>0, DialogTyped DEF Fits, PullsOf, OfImages
  <2>. QED BY <1>0, <1>1, <2>1, AnsweredProceeds
<1>2. CASE /\ q.kind = "prune" => Accept(q, candidates)
           /\ dialog' = [dialog EXCEPT ![d] = p] /\ UNCHANGED active
  <2>1. candidates \in SUBSET Image
    BY DEF Candidates, IInv, TypeOK
  <2>2. q1 \in Request /\ q1.phase = "act" /\ q1.kind = q.kind
        /\ q1.what = q.what /\ q1.from = q.from /\ q1.all = q.all /\ q1.ids = q.ids
        /\ q1.alone = q.alone
    BY DialogTyped DEF Looked, Request, Phase
  <2>. HIDE DEF q1
  <2>3. q2 \in Request /\ Looked(q1, q2)
    BY <2>2 DEF Looked, Request
  <2>. HIDE DEF q2
  <2>. HIDE DEF candidates
  <2>4. p \in Request /\ Looked(q1, p) /\ p.rest = candidates
    BY <2>1, <2>3 DEF Looked, Request
  <2>. HIDE DEF p
  <2>5. Fits(p) /\ ResourceSeen(p)
    BY <1>0, <2>2, <2>4, DialogTyped DEF Looked, Fits, ResourceSeen, OfImages, Managing
  <2>6. ImagesSeen(p)
    <3>. SUFFICES ASSUME p.kind = "prune", p.alone
                  PROVE  p.rest \subseteq p.ids \intersect Candidates(UsedImages(Container), p.all)
      BY <2>2, <2>4 DEF ImagesSeen, Looked
    <3>1. q.rest = UsedImages(Container)
      BY <1>0, <2>2, <2>4, DialogTyped DEF ImagesSeen, Looked
    <3>2. candidates = q.ids /\ candidates = Candidates(q.rest, q.all)
      BY <1>2, <2>2, <2>4 DEF Accept, candidates, Looked
    <3>. QED BY <3>1, <3>2, <2>2, <2>4 DEF Looked
  <2>. QED BY <1>0, <1>2, <2>2, <2>4, <2>5, <2>6, GoesOn DEF Looked
<1>. QED
  <2>1. Answered(d) \/ (/\ q.kind = "prune" => Accept(q, candidates)
                        /\ dialog' = [dialog EXCEPT ![d] = p] /\ UNCHANGED active)
    BY Zenon DEF InspectImages
  <2>. QED BY <1>1, <1>2, <2>1

-----------------------------------------------------------------------------
(* Previews and beginnings *)

\* A dialog that was idle shows a preview, or begins, without a key.
LEMMA Starts ==
  ASSUME IInv, NEW d \in Dialog, NEW p \in Request, dialog[d].phase = "idle",
         dialog' = [dialog EXCEPT ![d] = p], UNCHANGED <<docker, changes, active, pulling>>,
         ~Keyed(p), p.kind # "pull", p.phase \in {"shown", "list"},
         p.phase = "list" => p.kind \notin {"remove", "disconnect", "prune"}, Fits(p)
  PROVE  Proceeds(d)
<1>1. dialog'[d] = p
  BY DEF IInv, TypeOK
<1>2. KeysOf(dialog[d]) = {} /\ PullsOf(dialog[d]) = {}
  BY DialogTyped DEF Fits, KeysOf, Keyed, PullsOf
<1>3. Marks(d)
  BY <1>1, <1>2, SameMarks DEF KeysOf, PullsOf
<1>4. ResourceSeen(p) /\ ImagesSeen(p)
  BY DEF ResourceSeen, ImagesSeen
<1>. QED BY <1>1, <1>3, <1>4, DockerSeen, Looks

LEMMA PreviewStep ==
  ASSUME IInv, NEW d \in Dialog, NEW kind \in {"remove", "disconnect"}, NEW x \in Resource,
         NEW c \in Container \union {None}, kind = "disconnect" => c \in Container,
         Preview(d, kind, x, c)
  PROVE  Proceeds(d)
<1>. DEFINE from == IF kind = "disconnect" THEN c ELSE None
            expected == [instance |-> instance[x], dependencies |-> DependenciesOf(x, Container)]
            q1 == [Idle EXCEPT !.kind = kind]
            q2 == [q1 EXCEPT !.phase = "shown"]
            q3 == [q2 EXCEPT !.what = x]
            q4 == [q3 EXCEPT !.from = from]
            p == [q4 EXCEPT !.expected = expected]
<1>1. /\ dialog[d].phase = "idle" /\ dialog' = [dialog EXCEPT ![d] = p]
      /\ UNCHANGED <<docker, changes, active, pulling>>
      /\ kind = "disconnect" => x \in Network
  BY Zenon DEF Preview
<1>2. expected \in Fingerprint
  <2>1. \A y \in Container : Present(y) => container[y] \in Use
    BY DEF IInv, TypeOK, Present
  <2>2. DependenciesOf(x, Container) \in SUBSET Dependency
    BY <2>1 DEF DependenciesOf, Use, Dependency
  <2>. QED BY <2>2 DEF Fingerprint, IInv, TypeOK
<1>. HIDE DEF expected
<1>3. q1 \in Request /\ q1.kind = kind
  BY IdleFits DEF Request, Kind
<1>. HIDE DEF q1
<1>4. q2 \in Request /\ q2.kind = kind /\ q2.phase = "shown"
  BY <1>3 DEF Request, Phase
<1>. HIDE DEF q2
<1>5. q3 \in Request /\ q3.kind = kind /\ q3.phase = "shown" /\ q3.what = x
  BY <1>4 DEF Request
<1>. HIDE DEF q3
<1>6. q4 \in Request /\ q4.kind = kind /\ q4.phase = "shown" /\ q4.what = x /\ q4.from = from
  BY <1>5 DEF Request
<1>. HIDE DEF q4
<1>7. p \in Request /\ p.kind = kind /\ p.phase = "shown" /\ p.what = x /\ p.from = from
  BY <1>2, <1>6 DEF Request
<1>. HIDE DEF p
<1>8. Fits(p) /\ ~Keyed(p)
  BY <1>1, <1>7 DEF Fits, Keyed, Managing, OfImages
<1>. QED BY <1>1, <1>7, <1>8, Starts

LEMMA PreviewPruneStep ==
  ASSUME IInv, NEW d \in Dialog, NEW all \in BOOLEAN, PreviewPrune(d, all)
  PROVE  Proceeds(d)
<1>. DEFINE ids == Candidates(UsedImages(Container), all)
            q1 == [Idle EXCEPT !.kind = "prune"]
            q2 == [q1 EXCEPT !.phase = "shown"]
            q3 == [q2 EXCEPT !.all = all]
            p == [q3 EXCEPT !.ids = ids]
<1>1. /\ dialog[d].phase = "idle" /\ dialog' = [dialog EXCEPT ![d] = p]
      /\ UNCHANGED <<docker, changes, active, pulling>>
  BY Zenon DEF PreviewPrune
<1>2. ids \in SUBSET Image
  BY DEF Candidates, IInv, TypeOK
<1>. HIDE DEF ids
<1>3. q1 \in Request /\ q1.kind = "prune"
  BY IdleFits DEF Request, Kind
<1>. HIDE DEF q1
<1>4. q2 \in Request /\ q2.kind = "prune" /\ q2.phase = "shown"
  BY <1>3 DEF Request, Phase
<1>. HIDE DEF q2
<1>5. q3 \in Request /\ q3.kind = "prune" /\ q3.phase = "shown"
  BY <1>4 DEF Request
<1>. HIDE DEF q3
<1>6. p \in Request /\ p.kind = "prune" /\ p.phase = "shown"
  BY <1>2, <1>5 DEF Request
<1>. HIDE DEF p
<1>7. Fits(p) /\ ~Keyed(p)
  BY <1>6 DEF Fits, Keyed, Managing, OfImages
<1>. QED BY <1>1, <1>6, <1>7, Starts

LEMMA BeginStep ==
  ASSUME IInv, NEW d \in Dialog, NEW kind \in {"create", "delete"}, NEW x,
         kind = "create" => x \in Resource, kind = "delete" => x \in Image,
         Begin(d, kind, x)
  PROVE  Proceeds(d)
<1>. DEFINE commands == IF kind = "create" THEN {"resource"} ELSE {"containers"}
            q1 == [Idle EXCEPT !.kind = kind]
            q2 == [q1 EXCEPT !.phase = "list"]
            q3 == [q2 EXCEPT !.what = x]
            p == [q3 EXCEPT !.pending = commands]
<1>1. /\ dialog[d].phase = "idle" /\ dialog' = [dialog EXCEPT ![d] = p]
      /\ UNCHANGED <<docker, changes, active, pulling>>
  BY Zenon DEF Begin
<1>2. q1 \in Request /\ q1.kind = kind
  BY IdleFits DEF Request, Kind
<1>. HIDE DEF q1
<1>3. q2 \in Request /\ q2.kind = kind /\ q2.phase = "list"
  BY <1>2 DEF Request, Phase
<1>. HIDE DEF q2
<1>4. q3 \in Request /\ q3.kind = kind /\ q3.phase = "list" /\ q3.what = x
  BY <1>3 DEF Request
<1>. HIDE DEF q3
<1>5. commands \in SUBSET Pending
  BY DEF Pending
<1>6. p \in Request /\ p.kind = kind /\ p.phase = "list" /\ p.what = x /\ p.pending = commands
  BY <1>4, <1>5 DEF Request
<1>. HIDE DEF p
<1>7. Fits(p) /\ ~Keyed(p)
  BY <1>6 DEF Fits, Keyed, Managing, OfImages
<1>. QED BY <1>1, <1>6, <1>7, Starts

LEMMA ConfirmStep ==
  ASSUME IInv, NEW d \in Dialog, Confirm(d)
  PROVE  Proceeds(d)
<1>. DEFINE q == dialog[d]
            commands == IF q.kind = "prune" THEN {"containers"} ELSE {"resource", "containers"}
            q1 == [q EXCEPT !.phase = "list"]
            p == [q1 EXCEPT !.pending = commands]
<1>1. /\ q.phase = "shown" /\ UNCHANGED <<docker, changes, pulling>>
      /\ \/ /\ Keyed(p) /\ KeyOf(p) \in active
            /\ dialog' = [dialog EXCEPT ![d] = Idle] /\ UNCHANGED active
         \/ /\ ~(Keyed(p) /\ KeyOf(p) \in active)
            /\ dialog' = [dialog EXCEPT ![d] = p]
            /\ active' = IF Keyed(p) THEN active \union {KeyOf(p)} ELSE active
  BY Zenon DEF Confirm
<1>2. /\ q \in Request /\ q.kind \in {"remove", "disconnect", "prune"} /\ Fits(q)
      /\ KeysOf(q) = {} /\ PullsOf(q) = {}
  BY <1>1, DialogTyped DEF Fits, KeysOf, Keyed, PullsOf
<1>3. commands \in SUBSET Pending
  BY DEF Pending
<1>4. q1 \in Request /\ q1.phase = "list" /\ q1.kind = q.kind /\ q1.what = q.what /\ q1.from = q.from
  BY <1>2 DEF Request, Phase
<1>. HIDE DEF q1
<1>5. p \in Request /\ p.phase = "list" /\ p.kind = q.kind /\ p.what = q.what /\ p.from = q.from
      /\ p.pending = commands
  BY <1>3, <1>4 DEF Request
<1>. HIDE DEF p
<1>6. CASE dialog' = [dialog EXCEPT ![d] = Idle] /\ UNCHANGED active
  <2>1. Answered(d)
    BY <1>2, <1>6 DEF Answered, KeysOf
  <2>. QED BY <1>1, <1>2, <2>1, AnsweredProceeds
<1>7. CASE /\ ~(Keyed(p) /\ KeyOf(p) \in active)
           /\ dialog' = [dialog EXCEPT ![d] = p]
           /\ active' = IF Keyed(p) THEN active \union {KeyOf(p)} ELSE active
  <2>1. dialog'[d] = p
    BY <1>7 DEF IInv, TypeOK
  <2>2. Marks(d)
    BY <1>1, <1>2, <1>5, <1>7, <2>1 DEF Marks, KeysOf, PullsOf
  <2>3. Fits(p)
    BY <1>2, <1>5 DEF Fits, Managing, OfImages
  <2>4. ResourceSeen(p) /\ ImagesSeen(p)
    BY <1>2, <1>5 DEF ResourceSeen, ImagesSeen
  <2>. QED BY <1>1, <1>5, <1>7, <2>1, <2>2, <2>3, <2>4, DockerSeen, Looks
<1>. QED BY <1>1, <1>6, <1>7

LEMMA PullStep ==
  ASSUME IInv, NEW d \in Dialog, NEW ref \in Ref, Pull(d, ref)
  PROVE  Proceeds(d)
<1>. DEFINE q1 == [Idle EXCEPT !.kind = "pull"]
            q2 == [q1 EXCEPT !.phase = "act"]
            p == [q2 EXCEPT !.what = ref]
<1>1. /\ dialog[d].phase = "idle" /\ ref \notin pulling /\ pulling' = pulling \union {ref}
      /\ dialog' = [dialog EXCEPT ![d] = p] /\ UNCHANGED <<docker, changes, active>>
  BY Zenon DEF Pull
<1>2. q1 \in Request /\ q1.kind = "pull"
  BY IdleFits DEF Request, Kind
<1>. HIDE DEF q1
<1>3. q2 \in Request /\ q2.kind = "pull" /\ q2.phase = "act"
  BY <1>2 DEF Request, Phase
<1>. HIDE DEF q2
<1>4. p \in Request /\ p.kind = "pull" /\ p.phase = "act" /\ p.what = ref
  BY <1>3 DEF Request
<1>. HIDE DEF p
<1>5. dialog'[d] = p
  BY <1>1 DEF IInv, TypeOK
<1>6. Marks(d)
  <2>1. KeysOf(dialog[d]) = {} /\ PullsOf(dialog[d]) = {}
    BY <1>1, DialogTyped DEF Fits, KeysOf, Keyed, PullsOf
  <2>2. KeysOf(p) = {} /\ PullsOf(p) = {ref}
    BY <1>4 DEF KeysOf, Keyed, PullsOf
  <2>. QED BY <1>1, <1>5, <2>1, <2>2 DEF Marks
<1>7. Fits(p) /\ ResourceSeen(p) /\ ImagesSeen(p)
  BY <1>4 DEF Fits, ResourceSeen, ImagesSeen, Managing, OfImages
<1>. QED BY <1>1, <1>4, <1>5, <1>6, <1>7, DockerSeen, Looks

-----------------------------------------------------------------------------
(* Acting *)

LEMMA PresentUses ==
  ASSUME IInv, NEW c \in Container, Present(c)
  PROVE  container[c] \in Use /\ container[c] # None
BY DEF IInv, TypeOK, Present

LEMMA ManagedOf ==
  ASSUME IInv, NEW e \in Dialog, NEW things
  PROVE  /\ dialog[e].kind \in Managing => dialog[e].what \in Resource
         /\ ~Touches(dialog[e], things) /\ dialog[e].kind \in Managing => dialog[e].what \notin things
         /\ ~Touches(dialog[e], things) /\ dialog[e].kind \in OfImages => things \intersect Image = {}
BY DialogTyped DEF Fits, Touches

\* A change of one network or volume and of who uses it.
LEMMA ResourceChanges ==
  ASSUME IInv, NEW x \in Resource, UNCHANGED <<images, tagged>>,
         \A y \in Resource \ {x} : instance'[y] = instance[y],
         \A c \in Container :
           \/ container'[c] = container[c]
           \/ /\ Present(c) /\ container'[c] # None
              /\ container'[c].running = container[c].running
              /\ container'[c].image = container[c].image
              /\ container'[c].uses = container[c].uses \ {x}
  PROVE  \A e \in Dialog : ~Touches(dialog[e], {x}) => Steady(dialog[e])
<1>1. \A c \in Container : Present(c)' <=> Present(c)
  BY DEF Present
<1>2. ImagesKept
  <2>1. {c \in Container : Present(c)}' = {c \in Container : Present(c)}
    BY <1>1
  <2>2. UsedImages(Container)' = UsedImages(Container)
    BY <1>1 DEF UsedImages
  <2>. QED BY <2>1, <2>2 DEF ImagesKept
<1>3. ASSUME NEW y \in Resource, y # x PROVE Kept(y)
  <2>1. \A c \in Container : /\ (Present(c) /\ y \in container[c].uses)' <=>
                                 (Present(c) /\ y \in container[c].uses)
                             /\ Present(c) => container'[c].running = container[c].running
    BY <1>1, <1>3
  <2>2. Attached(y)' = Attached(y)
    BY <2>1 DEF Attached
  <2>3. DependenciesOf(y, Container)' = DependenciesOf(y, Container)
    BY <2>1 DEF DependenciesOf
  <2>. QED BY <1>3, <2>2, <2>3 DEF Kept
<1>. QED BY <1>2, <1>3, ManagedOf DEF Steady

LEMMA RemoveStep ==
  ASSUME IInv, NEW d \in Dialog, Remove(d)
  PROVE  Proceeds(d)
<1>. DEFINE x == dialog[d].what
<1>1. /\ dialog[d].kind = "remove" /\ x \in Resource /\ PullsOf(dialog[d]) = {}
      /\ UNCHANGED <<tagged, images, changes, pulling>>
  BY DialogTyped DEF Remove, At, Fits, Managing, PullsOf
<1>2. CASE UNCHANGED <<instance, container>> /\ Answered(d)
  BY <1>1, <1>2, AnsweredProceeds DEF docker
<1>3. CASE /\ instance' = [instance EXCEPT ![x] = 0]
           /\ container' = [c \in Container |->
                IF Present(c) THEN [container[c] EXCEPT !.uses = @ \ {x}] ELSE None]
           /\ AnsweredTouching(d, {x})
  <2>1. \A c \in Container :
           \/ container'[c] = container[c]
           \/ /\ Present(c) /\ container'[c] # None /\ container'[c] \in Use
              /\ container'[c].running = container[c].running
              /\ container'[c].image = container[c].image
              /\ container'[c].uses = container[c].uses \ {x}
    <3>. SUFFICES ASSUME NEW c \in Container, Present(c)
                  PROVE  /\ container'[c] # None /\ container'[c] \in Use
                         /\ container'[c].running = container[c].running
                         /\ container'[c].image = container[c].image
                         /\ container'[c].uses = container[c].uses \ {x}
      BY <1>3 DEF Present
    <3>1. container'[c] = [container[c] EXCEPT !.uses = @ \ {x}] /\ container[c] \in Use
      BY <1>3, PresentUses
    <3>. QED BY <3>1, ObjectsAssumption DEF Use
  <2>2. \A e \in Dialog : ~Touches(dialog[e], {x}) => Steady(dialog[e])
    BY <1>1, <1>3, <2>1, ResourceChanges DEF IInv, TypeOK
  <2>3. WorldTyped'
    <3>1. instance' \in [Resource -> 0..MaxChange + 1]
      <4>1. instance \in [Resource -> 0..MaxChange + 1] /\ 0 \in 0..MaxChange + 1
        BY ObjectsAssumption DEF IInv, TypeOK
      <4>. QED BY <1>3, <4>1
    <3>2. \A c \in Container : container'[c] \in Use \union {None}
      BY <2>1 DEF IInv, TypeOK
    <3>3. container' \in [Container -> Use \union {None}]
      BY <1>3, <3>2
    <3>. QED BY <1>1, <3>1, <3>3 DEF WorldTyped, IInv, TypeOK
  <2>. QED BY <1>1, <1>3, <2>2, <2>3, AnsweredActs
<1>. QED BY <1>2, <1>3 DEF Remove

LEMMA DisconnectStep ==
  ASSUME IInv, NEW d \in Dialog, Disconnect(d)
  PROVE  Proceeds(d)
<1>. DEFINE x == dialog[d].what
            c == dialog[d].from
<1>1. /\ dialog[d].kind = "disconnect" /\ x \in Resource /\ c \in Container
      /\ PullsOf(dialog[d]) = {} /\ UNCHANGED <<instance, tagged, images, changes, pulling>>
  BY DialogTyped DEF Disconnect, At, Fits, Managing, PullsOf
<1>2. CASE UNCHANGED container /\ Answered(d)
  BY <1>1, <1>2, AnsweredProceeds DEF docker
<1>3. CASE /\ Present(c)
           /\ container' = [container EXCEPT ![c].uses = @ \ {x}]
           /\ AnsweredTouching(d, {x})
  <2>. DEFINE new == [container[c] EXCEPT !.uses = container[c].uses \ {x}]
  <2>1. container \in [Container -> Use \union {None}] /\ container[c] \in Use
    BY <1>1, <1>3, PresentUses DEF IInv, TypeOK
  <2>2. container' = [container EXCEPT ![c] = new]
    BY <1>3, <2>1
  <2>3. /\ new \in Use /\ new # None /\ new.running = container[c].running
        /\ new.image = container[c].image /\ new.uses = container[c].uses \ {x}
    BY <2>1, ObjectsAssumption DEF Use
  <2>. HIDE DEF new
  <2>4. WorldTyped'
    BY <1>1, <2>1, <2>2, <2>3 DEF WorldTyped, IInv, TypeOK
  <2>5. \A y \in Container :
           \/ container'[y] = container[y]
           \/ /\ Present(y) /\ container'[y] # None
              /\ container'[y].running = container[y].running
              /\ container'[y].image = container[y].image
              /\ container'[y].uses = container[y].uses \ {x}
    BY <1>1, <1>3, <2>1, <2>2, <2>3
  <2>6. \A e \in Dialog : ~Touches(dialog[e], {x}) => Steady(dialog[e])
    BY <1>1, <2>5, ResourceChanges
  <2>. QED BY <1>1, <1>3, <2>4, <2>6, AnsweredActs
<1>. QED BY <1>2, <1>3 DEF Disconnect

LEMMA CreateStep ==
  ASSUME IInv, NEW d \in Dialog, Create(d)
  PROVE  Proceeds(d)
<1>. DEFINE x == dialog[d].what
<1>1. /\ dialog[d].kind = "create" /\ x \in Resource /\ PullsOf(dialog[d]) = {}
      /\ UNCHANGED <<container, tagged, images, pulling>>
  BY DialogTyped DEF Create, At, Fits, Managing, PullsOf
<1>2. CASE UNCHANGED <<instance, changes>> /\ Answered(d)
  BY <1>1, <1>2, AnsweredProceeds DEF docker
<1>3. CASE Change /\ instance' = [instance EXCEPT ![x] = changes' + 1] /\ AnsweredTouching(d, {x})
  <2>1. changes' \in 0..MaxChange /\ changes' + 1 \in 0..MaxChange + 1
    BY <1>3, ObjectsAssumption DEF Change, IInv, TypeOK
  <2>2. WorldTyped'
    BY <1>1, <1>3, <2>1 DEF WorldTyped, IInv, TypeOK
  <2>3. \A e \in Dialog : ~Touches(dialog[e], {x}) => Steady(dialog[e])
    BY <1>1, <1>3, ResourceChanges DEF IInv, TypeOK
  <2>. QED BY <1>1, <1>3, <2>2, <2>3, AnsweredActs
<1>. QED BY <1>2, <1>3 DEF Create

\* A change of the images and their tags.
LEMMA ImagesChange ==
  ASSUME IInv, NEW things, NEW i \in Image, i \in things, UNCHANGED <<instance, container>>
  PROVE  \A e \in Dialog : ~Touches(dialog[e], things) => Steady(dialog[e])
<1>1. \A y \in Resource : Kept(y)
  BY DEF Kept, Attached, DependenciesOf, Present
<1>. QED BY <1>1, ManagedOf DEF Steady

LEMMA RemoveImageStep ==
  ASSUME IInv, NEW d \in Dialog, NEW i \in Image, RemoveImage(d, i)
  PROVE  Proceeds(d)
<1>. DEFINE q == dialog[d]
            p == [q EXCEPT !.rest = q.rest \ {i}]
            f1 == [dialog EXCEPT ![d].rest = q.rest \ {i}]
<1>1. /\ q.kind \in OfImages /\ q.phase = "act"
      /\ UNCHANGED <<instance, container, changes, active, pulling>>
      /\ q \in Request /\ Fits(q)
  BY DialogTyped DEF RemoveImage, At
<1>2. /\ p \in Request /\ p.kind = q.kind /\ p.phase = "act" /\ p.what = q.what /\ p.from = q.from
      /\ p.all = q.all /\ p.ids = q.ids /\ p.alone = q.alone /\ p.rest = q.rest \ {i}
  BY <1>1 DEF Request
<1>3. CASE /\ images' = images \ {i}
           /\ tagged' = [ref \in Ref |-> IF tagged[ref] = i THEN None ELSE tagged[ref]]
           /\ dialog' = [Touched({i}) EXCEPT ![d] = [dialog[d] EXCEPT !.rest = @ \ {i}]]
  <2>1. dialog' = [Touched({i}) EXCEPT ![d] = p]
    BY <1>3
  <2>. HIDE DEF p
  <2>2. dialog'[d] = p
    BY <2>1, Disturbs
  <2>3. Marks(d)
    BY <1>1, <1>2, <2>2, SameMarks DEF KeysOf, Keyed, KeyOf, PullsOf
  <2>4. WorldTyped'
    BY <1>1, <1>3 DEF WorldTyped, IInv, TypeOK
  <2>5. \A e \in Dialog : ~Touches(dialog[e], {i}) => Steady(dialog[e])
    BY <1>1, ImagesChange
  <2>6. Fits(p)
    BY <1>1, <1>2 DEF Fits, OfImages, Managing
  <2>7. ResourceSeen(dialog[d])'
    BY <1>1, <1>2, <2>2 DEF ResourceSeen, OfImages
  <2>8. ImagesSeen(dialog[d])'
    <3>. SUFFICES ASSUME p.kind = "prune", p.alone, NEW j \in p.rest
                  PROVE  /\ j \in p.ids
                         /\ j \in images' /\ j \notin UsedImages(Container)'
                         /\ p.all \/ Tags(j)' = {}
      BY <1>2, <2>2 DEF ImagesSeen, Candidates
    <3>1. j \in q.ids /\ j \in Candidates(UsedImages(Container), q.all) /\ j # i
      BY <1>1, <1>2, DialogTyped DEF ImagesSeen
    <3>2. j \in images /\ j \notin UsedImages(Container) /\ (q.all \/ Tags(j) = {})
      BY <3>1 DEF Candidates
    <3>3. j \in Image /\ j # None
      BY <3>2, ObjectsAssumption DEF IInv, TypeOK
    <3>4. Tags(j)' \subseteq Tags(j)
      BY <1>3, <3>1, <3>3 DEF Tags
    <3>5. UsedImages(Container)' = UsedImages(Container)
      BY <1>1 DEF UsedImages, Present
    <3>. QED BY <1>2, <1>3, <3>1, <3>2, <3>4, <3>5
  <2>. QED BY <1>2, <2>1, <2>3, <2>4, <2>5, <2>6, <2>7, <2>8, Acts
<1>4. CASE /\ dialog' = [dialog EXCEPT ![d].rest = @ \ {i}, ![d].failed = TRUE]
           /\ UNCHANGED <<images, tagged>>
  <2>. DEFINE p2 == [p EXCEPT !.failed = TRUE]
  <2>1. dialog' = [f1 EXCEPT ![d].failed = TRUE]
    BY <1>4, Zenon
  <2>2. dialog \in [Dialog -> Request] /\ f1 = [dialog EXCEPT ![d] = p]
    BY DEF IInv, TypeOK
  <2>. HIDE DEF f1, p
  <2>3. dialog' = [dialog EXCEPT ![d] = p2]
    BY <2>1, <2>2
  <2>4. /\ p2 \in Request /\ p2.kind = q.kind /\ p2.phase = "act" /\ p2.what = q.what /\ p2.from = q.from
        /\ p2.all = q.all /\ p2.ids = q.ids /\ p2.alone = q.alone /\ p2.rest = q.rest \ {i}
    BY <1>2 DEF Request
  <2>. HIDE DEF p2
  <2>5. dialog'[d] = p2
    BY <2>2, <2>3
  <2>6. Marks(d)
    BY <1>1, <2>4, <2>5, SameMarks DEF KeysOf, Keyed, KeyOf, PullsOf
  <2>7. Fits(p2) /\ ResourceSeen(p2)
    BY <1>1, <2>4 DEF Fits, ResourceSeen, OfImages, Managing
  <2>8. ImagesSeen(p2)
    BY <1>1, <2>4, DialogTyped DEF ImagesSeen
  <2>9. UNCHANGED <<docker, changes>>
    BY <1>1, <1>4 DEF docker
  <2>. QED BY <2>3, <2>4, <2>5, <2>6, <2>7, <2>8, <2>9, DockerSeen, Looks
<1>. QED BY <1>3, <1>4 DEF RemoveImage

LEMMA ImagesRemovedStep ==
  ASSUME IInv, NEW d \in Dialog, ImagesRemoved(d)
  PROVE  Proceeds(d)
<1>1. PullsOf(dialog[d]) = {}
  BY DEF ImagesRemoved, At, OfImages, PullsOf
<1>. QED BY <1>1, AnsweredProceeds DEF ImagesRemoved

LEMMA FailsStep ==
  ASSUME IInv, NEW d \in Dialog, Fails(d)
  PROVE  Proceeds(d)
<1>1. pulling' = pulling \ PullsOf(dialog[d])
  BY DEF Fails, PullsOf
<1>. QED BY <1>1, AnsweredProceeds DEF Fails

LEMMA PulledStep ==
  ASSUME IInv, NEW d \in Dialog, NEW i \in Image, Pulled(d, i)
  PROVE  Proceeds(d)
<1>1. /\ dialog[d].kind = "pull" /\ dialog[d].what \in Ref
      /\ Change /\ images' = images \union {i}
      /\ tagged' = [tagged EXCEPT ![dialog[d].what] = i]
      /\ pulling' = pulling \ {dialog[d].what} /\ AnsweredTouching(d, Image)
      /\ UNCHANGED <<instance, container>>
  BY DialogTyped DEF Pulled, At, Fits
<1>2. WorldTyped'
  <2>1. changes' \in 0..MaxChange
    BY <1>1, ObjectsAssumption DEF Change, IInv, TypeOK
  <2>. QED BY <1>1, <2>1 DEF WorldTyped, IInv, TypeOK
<1>3. \A e \in Dialog : ~Touches(dialog[e], Image) => Steady(dialog[e])
  BY <1>1, ImagesChange
<1>4. pulling' = pulling \ PullsOf(dialog[d])
  BY <1>1 DEF PullsOf
<1>. QED BY <1>1, <1>2, <1>3, <1>4, AnsweredActs

-----------------------------------------------------------------------------
(* The world *)

LEMMA WorldMoves ==
  ASSUME IInv, NEW things, dialog' = Touched(things), WorldTyped', UNCHANGED <<active, pulling>>,
         \A e \in Dialog : ~Touches(dialog[e], things) => Steady(dialog[e])
  PROVE  IInv'
<1>1. dialog' \in [Dialog -> Request]
  BY TouchedTyped
<1>2. \A e \in Dialog : Follow(e)
  BY Disturbs DEF Follow
<1>. QED BY <1>1, <1>2, NobodyWorks

LEMMA TagStep ==
  ASSUME IInv, NEW ref \in Ref, NEW i \in Image, Tag(ref, i)
  PROVE  IInv'
<1>1. WorldTyped'
  <2>1. changes' \in 0..MaxChange
    BY ObjectsAssumption DEF Tag, Change, IInv, TypeOK
  <2>. QED BY <2>1 DEF Tag, WorldTyped, IInv, TypeOK
<1>2. \A e \in Dialog : ~Touches(dialog[e], Image) => Steady(dialog[e])
  BY ImagesChange DEF Tag
<1>. QED BY <1>1, <1>2, WorldMoves DEF Tag

LEMMA ContainerChangesStep ==
  ASSUME IInv, NEW c \in Container, NEW new \in Use \union {None}, ContainerChanges(c, new)
  PROVE  IInv'
<1>. DEFINE used == IF Present(c) THEN container[c].uses ELSE {}
            uses == IF new = None THEN {} ELSE new.uses
            things == Image \union used \union uses
<1>1. /\ dialog' = Touched(things) /\ container' = [container EXCEPT ![c] = new]
      /\ UNCHANGED <<instance, tagged, images, active, pulling>>
  BY DEF ContainerChanges
<1>2. WorldTyped'
  <2>1. changes' \in 0..MaxChange
    BY ObjectsAssumption DEF ContainerChanges, Change, IInv, TypeOK
  <2>. QED BY <1>1, <2>1 DEF WorldTyped, IInv, TypeOK
<1>3. ASSUME NEW y \in Resource, y \notin things PROVE Kept(y)
  <2>1. \A x \in Container : x # c => container'[x] = container[x]
    BY <1>1 DEF IInv, TypeOK
  <2>2. container'[c] = new
    BY <1>1 DEF IInv, TypeOK
  <2>3. /\ ~(Present(c) /\ y \in container[c].uses)
        /\ ~(Present(c) /\ y \in container[c].uses)'
    BY <1>3, <2>2 DEF Present
  <2>4. \A x \in Container : /\ (Present(x) /\ y \in container[x].uses)' <=>
                                 (Present(x) /\ y \in container[x].uses)
                             /\ Present(x) /\ y \in container[x].uses
                                  => container'[x].running = container[x].running
    BY <2>1, <2>3 DEF Present
  <2>5. Attached(y)' = Attached(y)
    BY <2>4 DEF Attached
  <2>6. DependenciesOf(y, Container)' = DependenciesOf(y, Container)
    BY <2>4 DEF DependenciesOf
  <2>. QED BY <1>1, <2>5, <2>6 DEF Kept
<1>4. ASSUME Image = {} PROVE ImagesKept
  <2>1. new = None /\ container[c] = None
    BY <1>4 DEF IInv, TypeOK, Use
  <2>2. container' = container
    BY <1>1, <2>1 DEF IInv, TypeOK
  <2>. QED BY <1>1, <2>2 DEF ImagesKept, UsedImages, Present
<1>5. \A e \in Dialog : ~Touches(dialog[e], things) => Steady(dialog[e])
  <2>. SUFFICES ASSUME NEW e \in Dialog, ~Touches(dialog[e], things) PROVE Steady(dialog[e])
    OBVIOUS
  <2>1. dialog[e].kind \in Managing => dialog[e].what \notin things
    BY ManagedOf
  <2>2. dialog[e].kind \in OfImages => Image = {}
    BY ManagedOf
  <2>. HIDE DEF things
  <2>. QED BY <1>3, <1>4, <2>1, <2>2 DEF Steady
<1>. QED BY <1>1, <1>2, <1>5, WorldMoves

LEMMA Unchanged ==
  ASSUME IInv, UNCHANGED vars
  PROVE  IInv'
<1>1. WorldTyped' /\ dialog' \in [Dialog -> Request] /\ UNCHANGED docker
  BY DEF vars, WorldTyped, IInv, TypeOK, docker
<1>2. \A e \in Dialog : Follow(e)
  BY <1>1, DockerKept, DialogTyped DEF vars, Follow, Follows
<1>. QED BY <1>1, <1>2, NobodyWorks DEF vars

LEMMA InvStep == IInv /\ [Next]_vars => IInv'
<1>. SUFFICES ASSUME IInv, [Next]_vars PROVE IInv'
  OBVIOUS
<1>1. ASSUME NEW d \in Dialog, NEW x \in Resource, Preview(d, "remove", x, None)
      PROVE  IInv'
  BY <1>1, PreviewStep, OneWorks
<1>2. ASSUME NEW d \in Dialog, NEW x \in Resource, NEW c \in Container, Preview(d, "disconnect", x, c)
      PROVE  IInv'
  BY <1>2, PreviewStep, OneWorks
<1>3. ASSUME NEW d \in Dialog, NEW x \in Resource, Begin(d, "create", x)
      PROVE  IInv'
  BY <1>3, BeginStep, OneWorks
<1>4. ASSUME NEW d \in Dialog, NEW i \in Image, Begin(d, "delete", i) \/ Pulled(d, i)
      PROVE  IInv'
  BY <1>4, BeginStep, PulledStep, OneWorks
<1>5. ASSUME NEW d \in Dialog, NEW all \in BOOLEAN, PreviewPrune(d, all)
      PROVE  IInv'
  BY <1>5, PreviewPruneStep, OneWorks
<1>6. ASSUME NEW d \in Dialog, NEW ref \in Ref, Pull(d, ref)
      PROVE  IInv'
  BY <1>6, PullStep, OneWorks
<1>7. ASSUME NEW d \in Dialog, Confirm(d)
      PROVE  IInv'
  BY <1>7, ConfirmStep, OneWorks
<1>8. ASSUME NEW d \in Dialog, Step(d)
      PROVE  IInv'
  <2>1. Proceeds(d)
    BY <1>8, ListContainersStep, ListResourcesStep, InspectContainersStep, InspectResourceStep,
       InspectImagesStep, RemoveStep, DisconnectStep, CreateStep, RemoveImageStep,
       ImagesRemovedStep, FailsStep DEF Step
  <2>. QED BY <2>1, OneWorks
<1>9. ASSUME NEW ref \in Ref, PullRefused(ref)
      PROVE  IInv'
  BY <1>9, Unchanged DEF PullRefused, RefusePull, docker, vars
<1>10. ASSUME NEW ref \in Ref, NEW i \in Image, Tag(ref, i)
       PROVE  IInv'
  BY <1>10, TagStep
<1>11. ASSUME NEW c \in Container, NEW new \in Use \union {None}, ContainerChanges(c, new)
       PROVE  IInv'
  BY <1>11, ContainerChangesStep
<1>12. CASE UNCHANGED vars
  BY <1>12, Unchanged
<1>. QED BY <1>1, <1>2, <1>3, <1>4, <1>5, <1>6, <1>7, <1>8, <1>9, <1>10, <1>11, <1>12 DEF Next

LEMMA InvAlways == Spec => []IInv
BY InvInit, InvStep, PTL DEF Spec

-----------------------------------------------------------------------------
\* Every variable has its type.
THEOREM TypeCorrect == Spec => []TypeOK
<1>1. IInv => TypeOK
  BY DEF IInv
<1>. QED BY <1>1, InvAlways, PTL

\* One operation on a network, a volume or a connection at a time, and one pull
\* of an image, and what is marked as running (activeOperations, pullingImages)
\* is what runs, whatever fails.
THEOREM OneOperationAlways == Spec => []OneOperation
<1>1. IInv => OneOperation
  BY DEF IInv
<1>. QED BY <1>1, InvAlways, PTL

\* What remove and disconnectNetwork act on is the instance that was shown, and
\* it is used by the containers that were shown, if nobody touched it meanwhile.
THEOREM OnlyWhatWasShown == Spec => RemovedAsConfirmed
<1>. DEFINE Holds ==
       \A d \in Dialog :
         /\ At(d, {"remove", "disconnect"}, "act") /\ dialog[d].alone
         /\ instance' # instance \/ container' # container
         /\ dialog'[d] = Idle
         => LET x == dialog[d].what
            IN  /\ instance[x] = dialog[d].expected.instance
                /\ DependenciesOf(x, Container) = dialog[d].expected.dependencies
                /\ dialog[d].kind = "remove" => DependenciesOf(x, Container) = {}
<1>1. IInv /\ [Next]_vars => [Holds]_vars
  BY DEF IInv, ResourceSeen, At
<1>. QED BY <1>1, InvAlways, PTL DEF Spec, RemovedAsConfirmed

\* Pruning removes images that were shown and that no container uses, if images
\* and containers stayed as they were.
THEOREM OnlyShownImages == Spec => PrunedAsConfirmed
<1>. DEFINE Holds ==
       \A d \in Dialog : At(d, {"prune"}, "act") /\ dialog[d].alone =>
         \A i \in dialog[d].rest \ dialog'[d].rest :
           i \notin images' =>
             /\ i \in dialog[d].ids
             /\ i \notin UsedImages(Container)
             /\ dialog[d].all \/ Tags(i) = {}
<1>1. IInv => \A d \in Dialog : At(d, {"prune"}, "act") /\ dialog[d].alone =>
                \A i \in dialog[d].rest :
                  /\ i \in dialog[d].ids
                  /\ i \notin UsedImages(Container)
                  /\ dialog[d].all \/ Tags(i) = {}
  BY DEF IInv, ImagesSeen, At, Candidates
<1>2. IInv /\ [Next]_vars => [Holds]_vars
  BY <1>1
<1>. QED BY <1>2, InvAlways, PTL DEF Spec, PrunedAsConfirmed
=============================================================================
