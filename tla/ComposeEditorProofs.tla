------------------------- MODULE ComposeEditorProofs -------------------------
(***************************************************************************)
(* Types, one creator, the atomicity of a commit nobody disturbs, and the  *)
(* source it overwrites that stays in the history, for any number of        *)
(* editors, texts, commits and deletions.                                   *)
(***************************************************************************)
EXTENDS ComposeEditor, FiniteSetTheorems, TLAPS

\* What holds of a request whoever disturbs it.
Fits(c) ==
  /\ pc[c] = "idle" => req[c] = Blank
  /\ pc[c] # "idle" => req[c].draft \in Source
  /\ pc[c] \in {"readCompose", "readEnv", "preChange"} => ~req[c].isAdd
  /\ pc[c] = "removeDirectory" => req[c].isAdd
  /\ pc[c] \in {"readEnv", "validate", "preChange"} /\ ~req[c].isAdd
       => req[c].current.yaml \in Yaml

RequestFits == \A c \in Editor : Fits(c)

\* The new project's directory is the creator's.
Making(c) == req[c].isAdd /\ pc[c] \in {"captureCompose", "captureEnv",
                "writeCompose", "writeEnv", "own", "record",
                "restoreCompose", "restoreEnv", "removeDirectory"}
OneMaker ==
  deletes = 0 => /\ \A c \in Editor : Making(c) => directory
                 /\ \A c, d \in Editor : Making(c) /\ Making(d) => c = d

\* The await before which nothing is written.
Untouched == {"readCompose", "readEnv", "validate", "preChange", "makeDirectory"}

\* What the disk, the request's memory and the disk it was submitted to have to
\* do with one another at each await.
Agrees(c) ==
  LET q == req[c]
  IN  /\ pc[c] \in Untouched => Disk = q.before
      /\ q.isAdd => q.before = [directory |-> FALSE, yaml |-> Absent, env |-> Absent]
      /\ pc[c] \notin Untouched => directory /\ (~q.isAdd => q.before.directory)
      /\ pc[c] \in {"captureCompose", "captureEnv", "writeCompose", "restoreEnv",
                    "removeDirectory"} => compose = q.before.yaml
      /\ pc[c] \in {"captureCompose", "captureEnv", "writeCompose", "writeEnv",
                    "removeDirectory"} => dotenv = q.before.env
      /\ pc[c] \in {"captureEnv", "writeCompose", "writeEnv", "own",
                    "restoreCompose", "restoreEnv"} => q.captured.yaml = q.before.yaml
      /\ pc[c] \in {"writeCompose", "writeEnv", "own", "restoreCompose", "restoreEnv"}
           => q.captured.env = q.before.env
      /\ pc[c] \in {"writeEnv", "own", "record"} => compose = q.draft.yaml
      /\ pc[c] \in {"own", "record"} => TextOf(dotenv) = q.draft.env
      /\ pc[c] = "readEnv" => q.current.yaml = compose
      /\ pc[c] \in {"validate", "preChange"} /\ ~q.isAdd => q.current = OnDisk

UndisturbedAgrees == \A c \in Editor : Undisturbed(c) => Agrees(c)

IInv == TypeOK /\ RequestFits /\ OneMaker /\ UndisturbedAgrees

\* The others that may still put a source into the history that is not on disk,
\* before anything they write disturbs c: each of them once.
Pushers(c) ==
  {d \in Editor \ {c} : ~Undisturbed(d) /\ pc[d] \in
     {"readCompose", "readEnv", "validate", "preChange", "own", "record"}}

\* The commit has seen to it that the source it overwrites is in the history.
Preserving(c) ==
  /\ Undisturbed(c) /\ ~req[c].isAdd
  /\ pc[c] \in {"makeDirectory", "captureCompose", "captureEnv", "writeCompose"}

\* There that source is, and so far from the end that nobody can push it out.
SafeInHistory(c) ==
  \E i \in 1 .. Len(revisions) :
    revisions[i] = OnDisk /\ i + Cardinality(Pushers(c)) <= Retention

HistoryInv == \A c \in Editor : Preserving(c) => SafeInHistory(c)

-----------------------------------------------------------------------------
\* The newest revision comes first, and the others move on by one until they are
\* beyond the retention.
LEMMA KeptIs ==
  ASSUME TypeOK, NEW source \in Source
  PROVE  /\ Kept(source) \in Seq(Source) /\ Len(Kept(source)) <= Retention
         /\ 1 \in 1 .. Len(Kept(source)) /\ Kept(source)[1] = source
         /\ \A i \in 1 .. Len(revisions) : i + 1 <= Retention =>
              i + 1 \in 1 .. Len(Kept(source)) /\ Kept(source)[i + 1] = revisions[i]
<1>. DEFINE all == <<source>> \o revisions
            n == IF Len(all) < Retention THEN Len(all) ELSE Retention
<1>1. /\ all \in Seq(Source) /\ Len(all) = Len(revisions) + 1 /\ all[1] = source
      /\ Len(revisions) \in Nat
      /\ \A i \in 1 .. Len(revisions) : all[i + 1] = revisions[i]
  BY DEF TypeOK
<1>. HIDE DEF all
<1>2. n \in 1 .. Len(all) /\ n <= Retention
  BY <1>1, EditorAssumption
<1>3. n = Len(all) \/ n = Retention
  OBVIOUS
<1>. HIDE DEF n
<1>4. /\ SubSeq(all, 1, n) \in Seq(Source) /\ Len(SubSeq(all, 1, n)) = n
      /\ \A i \in 1 .. n : SubSeq(all, 1, n)[i] = all[i]
  BY <1>1, <1>2
<1>5. Kept(source) = SubSeq(all, 1, n)
  BY DEF Kept, all, n
<1>6. \A i \in 1 .. Len(revisions) : i + 1 <= Retention => i + 1 \in 1 .. n
  BY <1>1, <1>2, <1>3, EditorAssumption
<1>. QED BY <1>1, <1>2, <1>4, <1>5, <1>6

LEMMA LatestIs ==
  ASSUME TypeOK, NEW source \in Source, IsLatest(source)
  PROVE  1 \in 1 .. Len(revisions) /\ revisions[1] = source
<1>1. revisions # <<>> /\ Head(revisions) = source /\ revisions \in Seq(Source)
  BY DEF IsLatest, TypeOK
<1>. QED BY <1>1

\* Texts and files, and the memory of a request that has not begun.
LEMMA Constants ==
  /\ \A text \in Env \union {Empty} :
       FileOf(text) \in Env \union {Absent} /\ TextOf(FileOf(text)) = text
  /\ \A file \in Env \union {Absent} : TextOf(file) \in Env \union {Empty}
  /\ Blank \in Req /\ Blank.before = Absent
  /\ ~Blank.isAdd
  /\ Absent \notin DiskState /\ Absent \notin Yaml
  /\ Retention \in Nat /\ Retention >= 1
BY EditorAssumption DEF FileOf, TextOf, Blank, Req, Files

LEMMA DiskIs ==
  ASSUME TypeOK
  PROVE  /\ Disk \in DiskState
         /\ directory \in BOOLEAN /\ compose \in Yaml \union {Absent}
         /\ dotenv \in Env \union {Absent}
         /\ compose \in Yaml => OnDisk \in Source
BY Constants DEF TypeOK, Disk, DiskState, OnDisk, Source

-----------------------------------------------------------------------------
(* What a step of one editor does to the others *)

Cut(q) == [q EXCEPT !.before = Absent]

\* They stay where they are; if the disk may change, they are disturbed.
Others(c) ==
  /\ pc' \in [Editor -> PC] /\ req' \in [Editor -> Req]
  /\ \A d \in Editor \ {c} :
       /\ pc'[d] = pc[d]
       /\ \/ req'[d] = req[d] /\ UNCHANGED disk
          \/ req'[d] = Cut(req[d])

LEMMA CutIs ==
  ASSUME NEW q \in Req
  PROVE  /\ Cut(q) \in Req /\ Cut(q).before = Absent /\ Cut(q).draft = q.draft
         /\ Cut(q).isAdd = q.isAdd /\ Cut(q).current = q.current
         /\ q = Blank => Cut(q) = Blank
<1>1. q.before = Absent => Cut(q) = q
  BY DEF Cut, Req
<1>. QED BY <1>1, Constants DEF Cut, Req

LEMMA OthersAgree ==
  ASSUME IInv, NEW c \in Editor, Others(c), NEW d \in Editor \ {c}
  PROVE  /\ Fits(d)' /\ (Undisturbed(d)' => Agrees(d)')
         /\ Making(d)' <=> Making(d)
<1>1. /\ req[d] \in Req /\ Fits(d) /\ (Undisturbed(d) => Agrees(d)) /\ pc'[d] = pc[d]
  BY DEF IInv, TypeOK, RequestFits, UndisturbedAgrees, Others
<1>2. CASE req'[d] = req[d] /\ UNCHANGED disk
  <2>1. Disk' = Disk /\ OnDisk' = OnDisk
    BY <1>2 DEF Disk, OnDisk, disk
  <2>2. Fits(d)' /\ (Making(d)' <=> Making(d)) /\ (Undisturbed(d)' => Undisturbed(d))
    BY <1>1, <1>2 DEF Fits, Making, Undisturbed
  <2>3. Agrees(d) => Agrees(d)'
    BY <1>1, <1>2, <2>1 DEF Agrees, disk
  <2>. QED
    BY <1>1, <2>2, <2>3
<1>3. CASE req'[d] = Cut(req[d])
  BY <1>1, <1>3, CutIs DEF Fits, Undisturbed, Making
<1>. QED BY <1>2, <1>3 DEF Others

\* A directory appears only where there was none, and disappears only with its
\* maker.
LEMMA MakerKept ==
  ASSUME IInv, NEW c \in Editor, Others(c), deletes' = deletes,
         \/ UNCHANGED directory /\ (Making(c)' => Making(c))
         \/ ~directory /\ directory'
         \/ Making(c) /\ ~Making(c)'
  PROVE  OneMaker'
<1>. SUFFICES ASSUME deletes = 0
     PROVE  /\ \A d \in Editor : Making(d)' => directory'
            /\ \A d, e \in Editor : Making(d)' /\ Making(e)' => d = e
  BY DEF OneMaker
<1>1. \A d \in Editor : d # c => (Making(d)' <=> Making(d))
  BY OthersAgree
<1>2. /\ \A d \in Editor : Making(d) => directory
      /\ \A d, e \in Editor : Making(d) /\ Making(e) => d = e
  BY DEF IInv, OneMaker
<1>3. CASE UNCHANGED directory /\ (Making(c)' => Making(c))
  BY <1>1, <1>2, <1>3
<1>4. CASE ~directory /\ directory'
  BY <1>1, <1>2, <1>4
<1>5. CASE Making(c) /\ ~Making(c)'
  BY <1>1, <1>2, <1>5
<1>. QED BY <1>3, <1>4, <1>5

LEMMA OneStep ==
  ASSUME IInv, NEW c \in Editor, Others(c), TypeOK', OneMaker',
         Fits(c)', Undisturbed(c)' => Agrees(c)'
  PROVE  IInv'
<1>1. \A d \in Editor : Fits(d)' /\ (Undisturbed(d)' => Agrees(d)')
  BY OthersAgree
<1>. QED BY <1>1 DEF IInv, RequestFits, UndisturbedAgrees

\* A step that leaves the disk alone.
LEMMA QuietStep ==
  ASSUME IInv, NEW c \in Editor, NEW where \in PC, NEW q \in Req,
         pc' = [pc EXCEPT ![c] = where], req' = [req EXCEPT ![c] = q],
         answer' \in Answer, UNCHANGED <<disk, deletes>>,
         commits' \in 0 .. MaxCommits,
         revisions' \in Seq(Source), Len(revisions') <= Retention,
         Making(c)' => Making(c), Fits(c)', Undisturbed(c)' => Agrees(c)'
  PROVE  IInv'
<1>1. Others(c)
  BY DEF Others, IInv, TypeOK
<1>2. TypeOK'
  BY DEF IInv, TypeOK, Disk, disk
<1>3. OneMaker'
  BY <1>1, MakerKept DEF disk
<1>. QED BY <1>1, <1>2, <1>3, OneStep

\* The request is over and nothing is written.
LEMMA EndStep ==
  ASSUME IInv, NEW c \in Editor, NEW how \in Answer, Finish(c, how), Done(c),
         UNCHANGED <<disk, counters>>,
         revisions' \in Seq(Source), Len(revisions') <= Retention
  PROVE  IInv'
<1>1. pc'[c] = "idle" /\ req'[c] = Blank
  BY DEF Finish, Done, IInv, TypeOK
<1>2. ~Making(c)' /\ Fits(c)' /\ ~Undisturbed(c)'
  BY <1>1, Constants DEF Making, Fits, Undisturbed
<1>3. "idle" \in PC /\ commits \in 0 .. MaxCommits
  BY DEF PC, IInv, TypeOK
<1>. QED BY <1>2, <1>3, QuietStep, Constants DEF Finish, Done, counters

\* A step that writes: the others are disturbed.
LEMMA LoudStep ==
  ASSUME IInv, NEW c \in Editor, NEW where \in PC, NEW q \in Req,
         pc' = [pc EXCEPT ![c] = where],
         req' = [Disturbed(c) EXCEPT ![c] = q],
         answer' \in Answer, UNCHANGED <<revisions, counters>>,
         directory' \in BOOLEAN,
         compose' \in Yaml \union {Absent}, dotenv' \in Env \union {Absent},
         ~directory' => compose' = Absent /\ dotenv' = Absent,
         \/ UNCHANGED directory /\ (Making(c)' => Making(c))
         \/ ~directory /\ directory'
         \/ Making(c) /\ ~Making(c)',
         Fits(c)', Undisturbed(c)' => Agrees(c)'
  PROVE  IInv'
<1>1. /\ req \in [Editor -> Req] /\ pc \in [Editor -> PC]
  BY DEF IInv, TypeOK
<1>2. Disturbed(c) = [d \in Editor |-> IF d = c THEN req[d] ELSE Cut(req[d])]
  BY DEF Disturbed, Cut
<1>3. Disturbed(c) \in [Editor -> Req]
  BY <1>1, <1>2, CutIs
<1>4. \A d \in Editor \ {c} : req'[d] = Cut(req[d])
  BY <1>1, <1>2, <1>3
<1>5. Others(c)
  BY <1>1, <1>3, <1>4 DEF Others
<1>6. TypeOK'
  BY <1>5 DEF IInv, TypeOK, Others, Disk, DiskState, counters
<1>7. OneMaker'
  BY <1>5, MakerKept DEF counters
<1>. QED BY <1>5, <1>6, <1>7, OneStep

-----------------------------------------------------------------------------
(* The steps of a commit before it writes *)

LEMMA SubmitStep ==
  ASSUME IInv, NEW c \in Editor, NEW source \in Source, NEW add \in BOOLEAN,
         NEW version \in Source \union {Unversioned}, NEW where \in PC,
         Submit(c, source, add, version, where),
         add => ~directory /\ where = "validate",
         ~add => where = "readCompose"
  PROVE  IInv'
<1>. DEFINE q == [Blank EXCEPT !.draft = source, !.isAdd = add,
                               !.expected = version, !.before = Disk]
<1>1. /\ q \in Req /\ q.draft = source /\ q.isAdd = add /\ q.before = Disk
  BY Constants, DiskIs DEF IInv, Blank, Req
<1>2. /\ req' = [req EXCEPT ![c] = q] /\ pc' = [pc EXCEPT ![c] = where]
      /\ answer' \in Answer /\ commits' \in 0 .. MaxCommits
      /\ UNCHANGED <<disk, revisions, deletes>>
  <2>1. req' = [req EXCEPT ![c] = q] /\ pc' = [pc EXCEPT ![c] = where]
    BY DEF Submit, Goto
  <2>2. commits' \in 0 .. MaxCommits
    BY EditorAssumption DEF Submit, IInv, TypeOK
  <2>. QED BY <2>1, <2>2 DEF Submit, Goto, Answer
<1>. HIDE DEF q
<1>3. req'[c] = q /\ pc'[c] = where /\ Disk' = Disk
  BY <1>2 DEF IInv, TypeOK, Disk, disk
<1>4. ~directory => Disk = [directory |-> FALSE, yaml |-> Absent, env |-> Absent]
  BY DEF IInv, TypeOK, Disk, DiskState
<1>5. Fits(c)' /\ ~Making(c)'
  BY <1>1, <1>3 DEF Fits, Making
<1>6. Agrees(c)'
  BY <1>1, <1>3, <1>4 DEF Agrees, Untouched
<1>. QED BY <1>1, <1>2, <1>5, <1>6, QuietStep DEF IInv, TypeOK

LEMMA ArriveStep ==
  ASSUME IInv, NEW c \in Editor, Arrive(c)
  PROVE  IInv'
<1>. {"readCompose", "validate"} \subseteq PC
  BY DEF PC
<1>1. CASE Edit(c)
  BY <1>1, SubmitStep DEF Edit
<1>2. CASE RestoreRevision(c)
  <2>1. Readable \subseteq Source
    BY DEF Readable, ToSet, IInv, TypeOK
  <2>. QED BY <1>2, <2>1, SubmitStep DEF RestoreRevision
<1>3. CASE Add(c)
  BY <1>3, SubmitStep DEF Add
<1>. QED BY <1>1, <1>2, <1>3 DEF Arrive

LEMMA ReadComposeStep ==
  ASSUME IInv, NEW c \in Editor, ReadCompose(c)
  PROVE  IInv'
<1>1. CASE compose = Absent /\ Finish(c, "refused") /\ Done(c)
  BY <1>1, EndStep DEF ReadCompose, Answer, IInv, TypeOK
<1>. DEFINE q == [req[c] EXCEPT !.current.yaml = compose]
<1>2. CASE /\ compose # Absent /\ req' = [req EXCEPT ![c] = q]
           /\ Goto(c, "readEnv")
  <2>1. /\ q \in Req /\ q.draft = req[c].draft /\ q.isAdd = req[c].isAdd
        /\ q.before = req[c].before /\ q.current.yaml = compose
    BY DiskIs DEF IInv, TypeOK, Req
  <2>. HIDE DEF q
  <2>2. /\ req'[c] = q /\ pc'[c] = "readEnv" /\ pc[c] = "readCompose"
        /\ Disk' = Disk /\ compose' = compose
    BY <1>2 DEF ReadCompose, At, Goto, IInv, TypeOK, Disk, disk
  <2>3. Fits(c)' /\ ~Making(c)'
    BY <1>2, <2>1, <2>2, DiskIs DEF Fits, Making, IInv, RequestFits
  <2>4. Undisturbed(c)' => Agrees(c)'
    BY <2>1, <2>2 DEF Undisturbed, Agrees, Untouched, IInv, UndisturbedAgrees
  <2>. QED BY <1>2, <2>1, <2>3, <2>4, QuietStep
           DEF ReadCompose, Goto, IInv, TypeOK, PC, Answer, counters
<1>. QED BY <1>1, <1>2 DEF ReadCompose

LEMMA ReadEnvStep ==
  ASSUME IInv, NEW c \in Editor, ReadEnv(c)
  PROVE  IInv'
<1>. DEFINE source == [yaml |-> req[c].current.yaml, env |-> TextOf(dotenv)]
            q == [req[c] EXCEPT !.current = source]
<1>1. CASE Finish(c, "refused") /\ Done(c)
  BY <1>1, EndStep DEF ReadEnv, Answer, IInv, TypeOK
<1>2. CASE req' = [req EXCEPT ![c] = q] /\ Goto(c, "validate")
  <2>1. /\ pc[c] = "readEnv" /\ ~req[c].isAdd /\ req[c].current.yaml \in Yaml
    BY DEF ReadEnv, At, IInv, RequestFits, Fits
  <2>2. /\ source \in Source /\ source.yaml = req[c].current.yaml
        /\ source.env = TextOf(dotenv)
    BY <2>1, DiskIs, Constants DEF Source, IInv
  <2>3. /\ q \in Req /\ q.draft = req[c].draft /\ q.isAdd = req[c].isAdd
        /\ q.before = req[c].before /\ q.current = source
    BY <2>2, Constants DEF IInv, TypeOK, Req, Source
  <2>. HIDE DEF q
  <2>4. /\ req'[c] = q /\ pc'[c] = "validate" /\ Disk' = Disk /\ OnDisk' = OnDisk
    BY <1>2 DEF ReadEnv, Goto, IInv, TypeOK, Disk, OnDisk, disk
  <2>5. Fits(c)' /\ ~Making(c)'
    BY <2>1, <2>2, <2>3, <2>4 DEF Fits, Making, IInv, RequestFits
  <2>6. Undisturbed(c)' => Agrees(c)'
    BY <2>1, <2>2, <2>3, <2>4
       DEF Undisturbed, Agrees, Untouched, OnDisk, IInv, UndisturbedAgrees
  <2>. QED BY <1>2, <2>3, <2>5, <2>6, QuietStep
           DEF ReadEnv, Goto, IInv, TypeOK, PC, Answer, counters
<1>. QED BY <1>1, <1>2 DEF ReadEnv

\* A step to the next await, with the disk and the request's memory as they were.
LEMMA GoStep ==
  ASSUME IInv, NEW c \in Editor, NEW where \in PC, Goto(c, where),
         UNCHANGED <<disk, req, counters>>,
         revisions' \in Seq(Source), Len(revisions') <= Retention,
         pc[c] # "idle", where \notin {"idle", "readCompose", "readEnv", "validate"},
         where = "preChange" => ~req[c].isAdd /\ req[c].current.yaml \in Yaml,
         where = "removeDirectory" => req[c].isAdd,
         Making(c)' => Making(c), Undisturbed(c) => Agrees(c)'
  PROVE  IInv'
<1>1. pc'[c] = where /\ req'[c] = req[c] /\ req[c] \in Req
  BY DEF Goto, IInv, TypeOK
<1>2. Fits(c)'
  BY <1>1 DEF Fits, IInv, RequestFits
<1>3. Undisturbed(c)' => Undisturbed(c)
  BY <1>1 DEF Undisturbed
<1>4. req' = [req EXCEPT ![c] = req[c]] /\ commits' \in 0 .. MaxCommits /\ answer' \in Answer
  BY DEF counters, IInv, TypeOK, Goto, Answer
<1>. QED BY <1>1, <1>2, <1>3, <1>4, QuietStep DEF Goto, counters

LEMMA ValidateStep ==
  ASSUME IInv, NEW c \in Editor, Validate(c)
  PROVE  IInv'
<1>1. CASE Finish(c, "refused") /\ Done(c)
  BY <1>1, EndStep DEF Validate, Answer, IInv, TypeOK
<1>. DEFINE where == IF req[c].isAdd THEN "makeDirectory" ELSE "preChange"
<1>2. CASE Goto(c, where) /\ UNCHANGED req
  <2>1. /\ pc[c] = "validate" /\ pc'[c] = where
        /\ Disk' = Disk /\ OnDisk' = OnDisk
    BY <1>2 DEF Validate, At, Goto, IInv, TypeOK, Disk, OnDisk, disk
  <2>2. Undisturbed(c) => Agrees(c)'
    BY <1>2, <2>1 DEF Agrees, Untouched, IInv, UndisturbedAgrees
  <2>3. req[c].isAdd \/ req[c].current.yaml \in Yaml
    BY <2>1 DEF IInv, RequestFits, Fits
  <2>. QED BY <1>2, <2>1, <2>2, <2>3, GoStep
           DEF Validate, IInv, TypeOK, PC, Making
<1>. QED BY <1>1, <1>2 DEF Validate

\* What createRevision makes of the history.
LEMMA HistoryTyped ==
  ASSUME TypeOK, NEW source \in Source, revisions' \in {revisions, Kept(source)}
  PROVE  revisions' \in Seq(Source) /\ Len(revisions') <= Retention
BY KeptIs DEF TypeOK

\* A source that was read is one.
LEMMA CurrentIs ==
  ASSUME IInv, NEW c \in Editor, pc[c] = "preChange"
  PROVE  req[c].current \in Source /\ ~req[c].isAdd
<1>1. ~req[c].isAdd /\ req[c].current.yaml \in Yaml
  BY DEF IInv, RequestFits, Fits
<1>2. req[c].current \in [yaml : Yaml \union {Absent}, env : Env \union {Empty}]
  BY DEF IInv, TypeOK, Req
<1>. QED BY <1>1, <1>2 DEF Source

LEMMA PreChangeStep ==
  ASSUME IInv, NEW c \in Editor, PreChange(c)
  PROVE  IInv'
<1>1. /\ pc[c] = "preChange" /\ req[c].current \in Source /\ ~req[c].isAdd
      /\ revisions' \in {revisions, Kept(req[c].current)}
  BY CurrentIs DEF PreChange, At
<1>2. revisions' \in Seq(Source) /\ Len(revisions') <= Retention
  BY <1>1, HistoryTyped DEF IInv
<1>3. CASE Finish(c, "refused") /\ Done(c)
  BY <1>2, <1>3, EndStep DEF PreChange, Answer
<1>4. CASE Goto(c, "makeDirectory") /\ UNCHANGED req
  <2>1. pc'[c] = "makeDirectory" /\ Disk' = Disk
    BY <1>4 DEF PreChange, Goto, IInv, TypeOK, Disk, disk
  <2>2. Undisturbed(c) => Agrees(c)'
    BY <1>1, <1>4, <2>1 DEF Agrees, Untouched, IInv, UndisturbedAgrees
  <2>. QED BY <1>1, <1>2, <1>4, <2>1, <2>2, GoStep DEF PreChange, PC, Making
<1>. QED BY <1>3, <1>4 DEF PreChange

-----------------------------------------------------------------------------
(* The steps that write, and take back what was written *)

LEMMA MakeDirectoryStep ==
  ASSUME IInv, NEW c \in Editor, MakeDirectory(c)
  PROVE  IInv'
<1>. /\ pc[c] = "makeDirectory" /\ UNCHANGED <<compose, dotenv, revisions, counters>>
  BY DEF MakeDirectory, At
<1>1. CASE Finish(c, "refused") /\ Done(c) /\ UNCHANGED directory
  BY <1>1, EndStep DEF Answer, IInv, TypeOK, disk
<1>2. CASE ~req[c].isAdd /\ directory /\ Goto(c, "captureCompose") /\ UNCHANGED <<directory, req>>
  <2>1. pc'[c] = "captureCompose"
    BY <1>2 DEF Goto, IInv, TypeOK
  <2>2. Undisturbed(c) => Agrees(c)'
    <3>1. Undisturbed(c) => /\ Disk = req[c].before
            /\ req[c].before.directory = directory
            /\ req[c].before.yaml = compose /\ req[c].before.env = dotenv
      BY DEF Agrees, Untouched, IInv, UndisturbedAgrees, Disk
    <3>. QED BY <1>2, <2>1, <3>1 DEF Agrees, Untouched
  <2>. QED BY <1>2, <2>1, <2>2, GoStep DEF PC, Making, IInv, TypeOK, disk
<1>3. CASE /\ req[c].isAdd /\ ~directory /\ directory' = TRUE
           /\ req' = Disturbed(c) /\ Goto(c, "captureCompose")
  <2>1. /\ pc'[c] = "captureCompose" /\ req'[c] = req[c] /\ req[c] \in Req
        /\ req' = [Disturbed(c) EXCEPT ![c] = req[c]]
    BY <1>3 DEF Goto, IInv, TypeOK, Disturbed
  <2>2. Undisturbed(c)' => Agrees(c)'
    <3>1. Undisturbed(c) =>
            req[c].before = [directory |-> FALSE, yaml |-> Absent, env |-> Absent]
      BY <1>3 DEF Agrees, IInv, UndisturbedAgrees
    <3>2. compose = Absent /\ dotenv = Absent
      BY <1>3 DEF IInv, TypeOK
    <3>. QED BY <1>3, <2>1, <3>1, <3>2 DEF Undisturbed, Agrees, Untouched
  <2>3. Fits(c)'
    BY <2>1 DEF Fits, IInv, RequestFits
  <2>. QED BY <1>3, <2>1, <2>2, <2>3, LoudStep DEF Goto, PC, Answer, IInv, TypeOK, Disk, DiskState
<1>. QED BY <1>1, <1>2, <1>3 DEF MakeDirectory

\* Inside writeSource and its catch block the undisturbed commit knows what it
\* knew, and is not before its first write.
LEMMA Knows ==
  ASSUME IInv, NEW c \in Editor, pc[c] \notin Untouched, Undisturbed(c)
  PROVE  /\ Agrees(c) /\ directory
         /\ req[c].isAdd =>
              req[c].before = [directory |-> FALSE, yaml |-> Absent, env |-> Absent]
         /\ ~req[c].isAdd => req[c].before.directory
BY DEF IInv, UndisturbedAgrees, Agrees

WithYaml(q, file) == [q EXCEPT !.captured.yaml = file]
WithEnv(q, file) == [q EXCEPT !.captured.env = file]

LEMMA CapturedYaml ==
  ASSUME NEW q \in Req, NEW file \in Yaml \union {Absent}
  PROVE  /\ WithYaml(q, file) \in Req /\ WithYaml(q, file).draft = q.draft
         /\ WithYaml(q, file).isAdd = q.isAdd /\ WithYaml(q, file).before = q.before
         /\ WithYaml(q, file).captured.yaml = file
BY DEF WithYaml, Req, Files

LEMMA CapturedEnv ==
  ASSUME NEW q \in Req, NEW file \in Env \union {Absent}
  PROVE  /\ WithEnv(q, file) \in Req /\ WithEnv(q, file).draft = q.draft
         /\ WithEnv(q, file).isAdd = q.isAdd /\ WithEnv(q, file).before = q.before
         /\ WithEnv(q, file).captured.env = file
         /\ WithEnv(q, file).captured.yaml = q.captured.yaml
BY DEF WithEnv, Req, Files

LEMMA CaptureStep ==
  ASSUME IInv, NEW c \in Editor, CaptureCompose(c) \/ CaptureEnv(c)
  PROVE  IInv'
<1>. pc[c] \in {"captureCompose", "captureEnv"} /\ UNCHANGED <<disk, revisions, counters>>
  BY DEF CaptureCompose, CaptureEnv, At
<1>. /\ req[c] \in Req /\ compose \in Yaml \union {Absent} /\ dotenv \in Env \union {Absent}
     /\ UNCHANGED <<directory, compose, dotenv>>
  BY DiskIs DEF IInv, TypeOK, disk
<1>1. CASE NotCaptured(c)
  BY <1>1, EndStep DEF NotCaptured, Answer, IInv, TypeOK
<1>2. ASSUME NEW q \in Req, NEW where \in {"captureEnv", "writeCompose"},
             q.draft = req[c].draft, q.isAdd = req[c].isAdd, q.before = req[c].before,
             req' = [req EXCEPT ![c] = q], Goto(c, where),
             Undisturbed(c) => Agrees(c)'
      PROVE  IInv'
  <2>1. req'[c] = q /\ pc'[c] = where
    BY <1>2 DEF Goto, IInv, TypeOK
  <2>2. Fits(c)' /\ (Making(c)' => Making(c)) /\ (Undisturbed(c)' => Undisturbed(c))
    BY <1>2, <2>1 DEF Fits, Making, Undisturbed, IInv, RequestFits
  <2>. QED BY <1>2, <2>2, QuietStep DEF Goto, IInv, TypeOK, PC, Answer, counters
<1>3. Undisturbed(c) =>
        /\ Agrees(c) /\ directory /\ compose = req[c].before.yaml
        /\ dotenv = req[c].before.env
  BY Knows DEF Agrees, Untouched
<1>4. CASE /\ pc[c] = "captureCompose" /\ Goto(c, "captureEnv")
           /\ req' = [req EXCEPT ![c] = WithYaml(req[c], compose)]
  <2>1. req'[c] = WithYaml(req[c], compose) /\ pc'[c] = "captureEnv"
    BY <1>4 DEF Goto, IInv, TypeOK
  <2>2. Undisturbed(c) => Agrees(c)'
    BY <1>3, <1>4, <2>1, CapturedYaml DEF Agrees, Untouched
  <2>. QED BY <1>2, <1>4, <2>2, CapturedYaml
<1>5. CASE /\ pc[c] = "captureEnv" /\ Goto(c, "writeCompose")
           /\ req' = [req EXCEPT ![c] = WithEnv(req[c], dotenv)]
  <2>1. req'[c] = WithEnv(req[c], dotenv) /\ pc'[c] = "writeCompose"
    BY <1>5 DEF Goto, IInv, TypeOK
  <2>2. Undisturbed(c) => Agrees(c)'
    BY <1>3, <1>5, <2>1, CapturedEnv DEF Agrees, Untouched
  <2>. QED BY <1>2, <1>5, <2>2, CapturedEnv
<1>. QED BY <1>1, <1>4, <1>5, Zenon
         DEF CaptureCompose, CaptureEnv, At, WithYaml, WithEnv

\* What a request is going to write, or to put back.
LEMMA TextsTyped ==
  ASSUME IInv, NEW c \in Editor, pc[c] # "idle"
  PROVE  /\ req[c].draft \in Source /\ req[c].draft.yaml \in Yaml
         /\ FileOf(req[c].draft.env) \in Env \union {Absent}
         /\ TextOf(FileOf(req[c].draft.env)) = req[c].draft.env
         /\ req[c].draft.env = Empty => FileOf(req[c].draft.env) = Absent
         /\ req[c].captured.yaml \in Yaml \union {Absent}
         /\ req[c].captured.env \in Env \union {Absent}
<1>1. req[c].draft \in Source /\ req[c].captured \in Files
  BY DEF IInv, RequestFits, Fits, TypeOK, Req
<1>2. FileOf(Empty) = Absent
  BY DEF FileOf
<1>. QED BY <1>1, <1>2, Constants DEF Source, Files

\* Writing a file, with the request's memory as it was.
LEMMA WriteStep ==
  ASSUME IInv, NEW c \in Editor, NEW where \in PC, Goto(c, where),
         UNCHANGED <<directory, revisions, counters>>, req' = Disturbed(c),
         compose' \in Yaml \union {Absent}, dotenv' \in Env \union {Absent},
         ~directory => compose' = Absent /\ dotenv' = Absent,
         pc[c] # "idle",
         where \in {"writeEnv", "restoreCompose", "own", "restoreEnv", "removeDirectory"},
         where = "removeDirectory" => req[c].isAdd,
         Making(c)' => Making(c), Undisturbed(c) => Agrees(c)'
  PROVE  IInv'
<1>1. /\ pc'[c] = where /\ req'[c] = req[c] /\ req[c] \in Req
      /\ req' = [Disturbed(c) EXCEPT ![c] = req[c]]
  BY DEF Goto, IInv, TypeOK, Disturbed
<1>2. Fits(c)' /\ (Undisturbed(c)' => Undisturbed(c))
  BY <1>1 DEF Fits, Undisturbed, IInv, RequestFits
<1>3. directory' \in BOOLEAN /\ answer' \in Answer
  BY DiskIs DEF IInv, Goto, Answer
<1>. QED BY <1>1, <1>2, <1>3, LoudStep DEF Goto

LEMMA WriteComposeStep ==
  ASSUME IInv, NEW c \in Editor, WriteCompose(c)
  PROVE  IInv'
<1>. /\ pc[c] = "writeCompose" /\ UNCHANGED <<directory, dotenv, revisions, counters>>
     /\ {"writeEnv", "restoreCompose"} \subseteq PC
  BY DEF WriteCompose, At, PC
<1>1. CASE Goto(c, "restoreCompose") /\ UNCHANGED <<compose, req>>
  <2>1. pc'[c] = "restoreCompose"
    BY <1>1 DEF Goto, IInv, TypeOK
  <2>2. Undisturbed(c) => Agrees(c)'
    BY <1>1, <2>1, Knows DEF Agrees, Untouched
  <2>. QED BY <1>1, <2>1, <2>2, GoStep DEF Making, IInv, TypeOK, disk
<1>2. CASE directory /\ compose' = req[c].draft.yaml /\ req' = Disturbed(c)
  <2>1. ASSUME NEW where \in {"writeEnv", "restoreCompose"}, Goto(c, where)
        PROVE  IInv'
    <3>1. pc'[c] = where /\ req'[c] = req[c]
      BY <1>2, <2>1 DEF Goto, IInv, TypeOK, Disturbed
    <3>2. ASSUME Undisturbed(c) PROVE Agrees(c)'
      <4>1. Agrees(c)
        BY <3>2, Knows DEF Untouched
      <4>2. CASE where = "writeEnv"
        BY <1>2, <3>1, <4>1, <4>2 DEF Agrees, Untouched
      <4>3. CASE where = "restoreCompose"
        BY <1>2, <3>1, <4>1, <4>3 DEF Agrees, Untouched
      <4>. QED BY <2>1, <4>2, <4>3
    <3>. QED BY <1>2, <2>1, <3>1, <3>2, TextsTyped, DiskIs, WriteStep DEF Making, IInv
  <2>. QED BY <1>2, <2>1 DEF WriteCompose, Goto
<1>. QED BY <1>1, <1>2 DEF WriteCompose

LEMMA WriteEnvStep ==
  ASSUME IInv, NEW c \in Editor, WriteEnv(c)
  PROVE  IInv'
<1>. /\ pc[c] = "writeEnv" /\ UNCHANGED <<directory, compose, revisions, counters>>
     /\ {"own", "restoreCompose"} \subseteq PC
  BY DEF WriteEnv, At, PC
<1>1. CASE Goto(c, "restoreCompose") /\ UNCHANGED <<dotenv, req>>
  <2>1. pc'[c] = "restoreCompose"
    BY <1>1 DEF Goto, IInv, TypeOK
  <2>2. Undisturbed(c) => Agrees(c)'
    BY <1>1, <2>1, Knows DEF Agrees, Untouched
  <2>. QED BY <1>1, <2>1, <2>2, GoStep DEF Making, IInv, TypeOK, disk
<1>2. CASE /\ directory \/ req[c].draft.env = Empty
           /\ dotenv' = FileOf(req[c].draft.env) /\ req' = Disturbed(c)
  <2>1. ASSUME NEW where \in {"own", "restoreCompose"}, Goto(c, where)
        PROVE  IInv'
    <3>1. pc'[c] = where /\ req'[c] = req[c]
      BY <1>2, <2>1 DEF Goto, IInv, TypeOK, Disturbed
    <3>2. ASSUME Undisturbed(c) PROVE Agrees(c)'
      <4>1. Agrees(c)
        BY <3>2, Knows DEF Untouched
      <4>2. CASE where = "own"
        BY <1>2, <3>1, <4>1, <4>2, TextsTyped DEF Agrees, Untouched
      <4>3. CASE where = "restoreCompose"
        BY <1>2, <3>1, <4>1, <4>3, TextsTyped DEF Agrees, Untouched
      <4>. QED BY <2>1, <4>2, <4>3
    <3>3. ~directory => compose' = Absent /\ dotenv' = Absent
      BY <1>2, TextsTyped DEF IInv, TypeOK
    <3>. QED BY <1>2, <2>1, <3>1, <3>2, <3>3, TextsTyped, DiskIs, WriteStep
             DEF Making, IInv
  <2>. QED BY <1>2, <2>1 DEF WriteEnv, Goto
<1>. QED BY <1>1, <1>2 DEF WriteEnv

LEMMA ApplyOwnershipStep ==
  ASSUME IInv, NEW c \in Editor, ApplyOwnership(c)
  PROVE  IInv'
<1>. pc[c] = "own" /\ UNCHANGED <<disk, revisions, req, counters>>
  BY DEF ApplyOwnership, At
<1>1. ASSUME NEW where \in {"record", "restoreCompose"}, Goto(c, where)
      PROVE  IInv'
  <2>1. pc'[c] = where /\ req'[c] = req[c] /\ UNCHANGED <<directory, compose, dotenv>>
    BY <1>1 DEF Goto, IInv, TypeOK, disk
  <2>2. Undisturbed(c) => Agrees(c)'
    BY <2>1, Knows DEF Agrees, Untouched
  <2>. QED BY <1>1, <2>1, <2>2, GoStep DEF Making, IInv, TypeOK, PC
<1>. QED BY <1>1 DEF ApplyOwnership

LEMMA RecordRevisionStep ==
  ASSUME IInv, NEW c \in Editor, RecordRevision(c)
  PROVE  IInv'
<1>1. req[c].draft \in Source /\ revisions' \in {revisions, Kept(req[c].draft)}
  BY TextsTyped DEF RecordRevision, At
<1>2. revisions' \in Seq(Source) /\ Len(revisions') <= Retention
  BY <1>1, HistoryTyped DEF IInv
<1>3. \E how \in Answer : Finish(c, how)
  BY DEF RecordRevision, Answer
<1>. QED BY <1>2, <1>3, EndStep DEF RecordRevision

LEMMA RestoreComposeStep ==
  ASSUME IInv, NEW c \in Editor, RestoreCompose(c)
  PROVE  IInv'
<1>. /\ pc[c] = "restoreCompose" /\ UNCHANGED <<directory, dotenv, revisions, counters>>
     /\ "restoreEnv" \in PC
  BY DEF RestoreCompose, At, PC
<1>1. CASE Finish(c, "broken") /\ Done(c) /\ UNCHANGED compose
  BY <1>1, EndStep DEF Answer, IInv, TypeOK, disk
<1>2. CASE /\ directory \/ req[c].captured.yaml = Absent
           /\ compose' = req[c].captured.yaml /\ req' = Disturbed(c)
           /\ Goto(c, "restoreEnv")
  <2>1. pc'[c] = "restoreEnv" /\ req'[c] = req[c]
    BY <1>2 DEF Goto, IInv, TypeOK, Disturbed
  <2>2. Undisturbed(c) => Agrees(c)'
    BY <1>2, <2>1, Knows DEF Agrees, Untouched
  <2>3. ~directory => compose' = Absent /\ dotenv' = Absent
    BY <1>2 DEF IInv, TypeOK
  <2>. QED BY <1>2, <2>1, <2>2, <2>3, TextsTyped, DiskIs, WriteStep DEF Making, IInv
<1>. QED BY <1>1, <1>2 DEF RestoreCompose

\* The request is over, and the disk is as it puts it.
LEMMA UndoneStep ==
  ASSUME IInv, NEW c \in Editor, Finish(c, "undone"),
         req' = [Disturbed(c) EXCEPT ![c] = Blank],
         UNCHANGED <<revisions, counters>>,
         directory' \in BOOLEAN,
         compose' \in Yaml \union {Absent}, dotenv' \in Env \union {Absent},
         ~directory' => compose' = Absent /\ dotenv' = Absent,
         UNCHANGED directory \/ Making(c)
  PROVE  IInv'
<1>1. pc'[c] = "idle" /\ req'[c] = Blank
  BY DEF Finish, Disturbed, IInv, TypeOK
<1>2. Fits(c)' /\ ~Making(c)' /\ ~Undisturbed(c)'
  BY <1>1, Constants DEF Fits, Making, Undisturbed
<1>3. "idle" \in PC /\ answer' \in Answer
  BY DEF Finish, PC, Answer
<1>. QED BY <1>2, <1>3, Constants, LoudStep DEF Finish

LEMMA RestoreEnvStep ==
  ASSUME IInv, NEW c \in Editor, RestoreEnv(c)
  PROVE  IInv'
<1>. /\ pc[c] = "restoreEnv" /\ UNCHANGED <<directory, compose, revisions, counters>>
     /\ "removeDirectory" \in PC
  BY DEF RestoreEnv, At, PC
<1>1. CASE Finish(c, "broken") /\ Done(c) /\ UNCHANGED dotenv
  BY <1>1, EndStep DEF Answer, IInv, TypeOK, disk
<1>2. CASE /\ directory \/ req[c].captured.env = Absent
           /\ dotenv' = req[c].captured.env
           /\ \/ Finish(c, "undone") /\ req' = [Disturbed(c) EXCEPT ![c] = Blank]
              \/ req[c].isAdd /\ Goto(c, "removeDirectory") /\ req' = Disturbed(c)
  <2>1. ~directory => compose' = Absent /\ dotenv' = Absent
    BY <1>2 DEF IInv, TypeOK
  <2>2. CASE Finish(c, "undone") /\ req' = [Disturbed(c) EXCEPT ![c] = Blank]
    BY <1>2, <2>1, <2>2, TextsTyped, DiskIs, UndoneStep DEF IInv
  <2>3. CASE /\ req[c].isAdd /\ Goto(c, "removeDirectory") /\ req' = Disturbed(c)
    <3>1. pc'[c] = "removeDirectory" /\ req'[c] = req[c]
      BY <2>3 DEF Goto, IInv, TypeOK, Disturbed
    <3>2. Undisturbed(c) => Agrees(c)'
      BY <1>2, <3>1, Knows DEF Agrees, Untouched
    <3>. QED BY <1>2, <2>1, <2>3, <3>1, <3>2, TextsTyped, DiskIs, WriteStep
             DEF Making, IInv
  <2>. QED BY <1>2, <2>2, <2>3
<1>. QED BY <1>1, <1>2, Zenon DEF RestoreEnv

LEMMA RemoveDirectoryStep ==
  ASSUME IInv, NEW c \in Editor, RemoveDirectory(c)
  PROVE  IInv'
<1>1. CASE UNCHANGED disk /\ Done(c) /\ Finish(c, "broken")
  BY <1>1, EndStep DEF RemoveDirectory, Answer, IInv, TypeOK
<1>2. CASE /\ Erased /\ req' = [Disturbed(c) EXCEPT ![c] = Blank]
           /\ Finish(c, "undone")
  <2>1. Making(c)
    BY DEF RemoveDirectory, At, Making, IInv, RequestFits, Fits
  <2>. QED BY <1>2, <2>1, UndoneStep DEF RemoveDirectory, Erased
<1>. QED BY <1>1, <1>2 DEF RemoveDirectory

-----------------------------------------------------------------------------
(* The others, and the theorems of types, creators and atomicity *)

LEMMA DeleteStackStep ==
  ASSUME IInv, DeleteStack
  PROVE  IInv'
<1>1. /\ pc \in [Editor -> PC] /\ req \in [Editor -> Req]
      /\ deletes \in 0 .. MaxDeletes /\ deletes < MaxDeletes /\ deletes' = deletes + 1
      /\ UNCHANGED <<revisions, pc, commits>> /\ answer' \in Answer
  BY DEF IInv, TypeOK, DeleteStack, Answer
<1>2. deletes' \in 0 .. MaxDeletes /\ deletes' # 0
  BY <1>1, EditorAssumption
<1>3. req' = [c \in Editor |-> IF At(c, "idle") THEN Blank ELSE Cut(req[c])]
  BY DEF DeleteStack, Cut
<1>4. \A c \in Editor : /\ req'[c] \in {Blank, Cut(req[c])} /\ req'[c].before = Absent
                        /\ req'[c] \in Req /\ Fits(c)'
  <2>. SUFFICES ASSUME NEW c \in Editor
       PROVE  /\ req'[c] \in {Blank, Cut(req[c])} /\ req'[c].before = Absent
              /\ req'[c] \in Req /\ Fits(c)'
    OBVIOUS
  <2>1. CASE pc[c] = "idle"
    BY <1>1, <1>3, <2>1, Constants DEF At, Fits
  <2>2. CASE pc[c] # "idle"
    BY <1>1, <1>3, <2>2, CutIs DEF At, Fits, IInv, RequestFits
  <2>. QED BY <2>1, <2>2
<1>5. req' \in [Editor -> Req]
  BY <1>3, <1>4
<1>6. TypeOK'
  BY <1>1, <1>2, <1>5 DEF IInv, TypeOK, DeleteStack, Erased, Disk, DiskState
<1>. QED BY <1>2, <1>4, <1>6
         DEF IInv, RequestFits, OneMaker, UndisturbedAgrees, Undisturbed

LEMMA CrashStep ==
  ASSUME IInv, Crash
  PROVE  IInv'
<1>1. /\ pc' = [c \in Editor |-> "idle"] /\ req' = [c \in Editor |-> Blank]
      /\ answer' \in Answer /\ UNCHANGED <<disk, revisions, counters>>
  BY DEF Crash, Answer
<1>2. TypeOK'
  BY <1>1, Constants DEF IInv, TypeOK, PC, Disk, disk, counters
<1>. QED BY <1>1, <1>2, Constants
         DEF IInv, RequestFits, Fits, OneMaker, Making, UndisturbedAgrees, Undisturbed

LEMMA StutterStep ==
  ASSUME IInv, UNCHANGED vars
  PROVE  IInv'
<1>1. UNCHANGED <<directory, compose, dotenv, revisions, pc, req, answer, commits, deletes>>
  BY DEF vars, disk, counters
<1>. QED BY <1>1
         DEF IInv, TypeOK, RequestFits, Fits, OneMaker, Making, UndisturbedAgrees,
             Undisturbed, Agrees, Disk, OnDisk

LEMMA InitInv == Init => IInv
<1>. SUFFICES ASSUME Init PROVE IInv
  OBVIOUS
<1>1. \A c \in Editor : pc[c] = "idle" /\ req[c] = Blank
  BY DEF Init
<1>2. TypeOK
  <2>1. Disk \in DiskState /\ (~directory => compose = Absent /\ dotenv = Absent)
    BY DEF Init, Disk, DiskState
  <2>2. revisions \in Seq(Source) /\ Len(revisions) <= Retention
    BY Constants DEF Init
  <2>3. pc \in [Editor -> PC] /\ req \in [Editor -> Req] /\ answer \in Answer
    BY Constants DEF Init, PC, Answer
  <2>. QED BY <2>1, <2>2, <2>3, EditorAssumption DEF Init, TypeOK
<1>. QED BY <1>1, <1>2, Constants
         DEF IInv, RequestFits, Fits, OneMaker, Making, UndisturbedAgrees, Undisturbed

LEMMA StepInv ==
  ASSUME IInv, NEW c \in Editor, Step(c)
  PROVE  IInv'
BY ReadComposeStep, ReadEnvStep, ValidateStep, PreChangeStep, MakeDirectoryStep,
   CaptureStep, WriteComposeStep, WriteEnvStep, ApplyOwnershipStep, RecordRevisionStep,
   RestoreComposeStep, RestoreEnvStep, RemoveDirectoryStep DEF Step

LEMMA NextInv == IInv /\ [Next]_vars => IInv'
BY ArriveStep, StepInv, DeleteStackStep, CrashStep, StutterStep DEF Next, Rest

LEMMA Invariance == Spec => []IInv
BY InitInv, NextInv, PTL DEF Spec

\* The state of compose-editor.ts stays well-formed, and so do the project's
\* directory and its history.
THEOREM TypeCorrect == Spec => []TypeOK
<1>1. IInv => TypeOK
  BY DEF IInv
<1>. QED BY <1>1, Invariance, PTL

\* Of any number of commits that create the project at once, one gets past
\* mkdir, as long as nobody deletes the project.
THEOREM OneCreatorAlways == Spec => []OneCreator
<1>1. IInv => OneCreator
  BY DEF IInv, OneMaker, OneCreator, Making, Creating
<1>. QED BY <1>1, Invariance, PTL

-----------------------------------------------------------------------------
(* Atomicity *)

\* A step of one editor: the others stay where they are, and either nothing
\* happens to them and the disk, or all of them are disturbed.
Alone(c) ==
  /\ \A d \in Editor \ {c} : pc'[d] = pc[d]
  /\ \/ UNCHANGED disk /\ \A d \in Editor \ {c} : req'[d] = req[d]
     \/ \A d \in Editor \ {c} : req'[d] = Cut(req[d])

LEMMA AloneInArrive ==
  ASSUME IInv, NEW c \in Editor, Arrive(c)
  PROVE  Alone(c) /\ UNCHANGED <<disk, revisions>>
<1>1. pc \in [Editor -> PC] /\ req \in [Editor -> Req]
  BY DEF IInv, TypeOK
<1>2. ASSUME NEW source, NEW add, NEW version, NEW where,
             Submit(c, source, add, version, where)
      PROVE  Alone(c) /\ UNCHANGED <<disk, revisions>>
  <2>1. \E q : req' = [req EXCEPT ![c] = q]
    BY <1>2 DEF Submit
  <2>. QED BY <1>1, <1>2, <2>1 DEF Submit, Goto, Alone
<1>. QED BY <1>2 DEF Arrive, Edit, RestoreRevision, Add

\* A step that only disturbs others, or only changes its own request.
LEMMA AloneIf ==
  ASSUME IInv, NEW c \in Editor, NEW where, pc' = [pc EXCEPT ![c] = where],
         \/ UNCHANGED disk /\ \E q : req' = [req EXCEPT ![c] = q]
         \/ UNCHANGED <<disk, req>>
         \/ req' = Disturbed(c)
         \/ \E q : req' = [Disturbed(c) EXCEPT ![c] = q]
  PROVE  Alone(c)
<1>1. pc \in [Editor -> PC] /\ req \in [Editor -> Req]
  BY DEF IInv, TypeOK
<1>2. Disturbed(c) = [d \in Editor |-> IF d = c THEN req[d] ELSE Cut(req[d])]
  BY DEF Disturbed, Cut
<1>. QED BY <1>1, <1>2 DEF Alone

LEMMA AloneInStep ==
  ASSUME IInv, NEW c \in Editor, Step(c)
  PROVE  Alone(c)
<1>1. \E where : pc' = [pc EXCEPT ![c] = where]
  BY DEF Step, ReadCompose, ReadEnv, Validate, PreChange, MakeDirectory, CaptureCompose,
         CaptureEnv, WriteCompose, WriteEnv, ApplyOwnership, RecordRevision,
         RestoreCompose, RestoreEnv, RemoveDirectory, NotCaptured, Goto, Finish
<1>2. ASSUME \/ ReadCompose(c) \/ ReadEnv(c) \/ Validate(c) \/ PreChange(c)
             \/ CaptureCompose(c) \/ CaptureEnv(c) \/ ApplyOwnership(c)
             \/ RecordRevision(c)
      PROVE  UNCHANGED disk /\ ((\E q : req' = [req EXCEPT ![c] = q]) \/ UNCHANGED req)
  BY <1>2, Zenon DEF ReadCompose, ReadEnv, Validate, PreChange, CaptureCompose,
     CaptureEnv, ApplyOwnership, RecordRevision, NotCaptured, Done
<1>3. ASSUME MakeDirectory(c) \/ WriteCompose(c) \/ WriteEnv(c) \/ RestoreCompose(c)
      PROVE  \/ req' = Disturbed(c)
             \/ UNCHANGED disk /\ ((\E q : req' = [req EXCEPT ![c] = q]) \/ UNCHANGED req)
  BY <1>3, Zenon DEF MakeDirectory, WriteCompose, WriteEnv, RestoreCompose, Done, disk
<1>4. ASSUME RestoreEnv(c) \/ RemoveDirectory(c)
      PROVE  \/ req' = Disturbed(c) \/ \E q : req' = [Disturbed(c) EXCEPT ![c] = q]
             \/ UNCHANGED disk /\ \E q : req' = [req EXCEPT ![c] = q]
  BY <1>4, Zenon DEF RestoreEnv, RemoveDirectory, Done, disk
<1>. QED BY <1>1, <1>2, <1>3, <1>4, AloneIf DEF Step

\* How the request of c has ended.
Atomic(c) ==
  /\ answer' = "saved" => OnDisk' = req[c].draft /\ req[c].draft \in ToSet(revisions')
  /\ answer' \in {"refused", "undone"} => Disk' = req[c].before

\* What the undisturbed commit may find on disk when it ends.
LEMMA UntouchedDisk ==
  ASSUME IInv, NEW c \in Editor, Undisturbed(c)
  PROVE  /\ pc[c] # "idle" /\ req[c].before \in DiskState
         /\ pc[c] \in Untouched => Disk = req[c].before
         /\ pc[c] \in {"captureCompose", "captureEnv"} /\ ~req[c].isAdd
              => Disk = req[c].before
<1>1. req[c] \in Req /\ (pc[c] = "idle" => req[c] = Blank) /\ Agrees(c)
  BY DEF IInv, TypeOK, RequestFits, Fits, UndisturbedAgrees
<1>2. pc[c] # "idle" /\ req[c].before \in DiskState
  BY <1>1, Constants DEF Undisturbed, Req
<1>3. ASSUME pc[c] \in {"captureCompose", "captureEnv"}, ~req[c].isAdd
      PROVE  Disk = req[c].before
  BY <1>1, <1>2, <1>3, DiskIs DEF Agrees, Untouched, Disk, DiskState, IInv
<1>. QED BY <1>1, <1>2, <1>3 DEF Agrees

LEMMA RefusedIsAtomic ==
  ASSUME IInv, NEW c \in Editor, Undisturbed(c), pc'[c] = "idle",
         \/ ReadCompose(c) \/ ReadEnv(c) \/ Validate(c) \/ PreChange(c)
         \/ MakeDirectory(c) \/ CaptureCompose(c) \/ CaptureEnv(c)
  PROVE  Atomic(c)
<1>. pc \in [Editor -> PC]
  BY DEF IInv, TypeOK
<1>1. \A where : where # "idle" => ~Goto(c, where)
  BY DEF Goto
<1>2. pc[c] \in Untouched \union {"captureCompose", "captureEnv"}
  BY DEF ReadCompose, ReadEnv, Validate, PreChange, MakeDirectory, CaptureCompose,
         CaptureEnv, At, Untouched
<1>3. UNCHANGED disk
  BY <1>1 DEF ReadCompose, ReadEnv, Validate, PreChange, MakeDirectory, CaptureCompose,
              CaptureEnv, disk
<1>4. /\ answer' \in {"refused", "broken"}
      /\ pc[c] \in {"captureCompose", "captureEnv"} /\ req[c].isAdd => answer' = "broken"
  BY <1>1 DEF ReadCompose, ReadEnv, Validate, PreChange, MakeDirectory, CaptureCompose,
              CaptureEnv, NotCaptured, Finish, At
<1>. QED BY <1>2, <1>3, <1>4, UntouchedDisk DEF Atomic, Disk, disk

LEMMA EndIsAtomic ==
  ASSUME IInv, NEW c \in Editor, Undisturbed(c), pc'[c] = "idle",
         \/ WriteCompose(c) \/ WriteEnv(c) \/ ApplyOwnership(c) \/ RecordRevision(c)
         \/ RestoreCompose(c) \/ RestoreEnv(c) \/ RemoveDirectory(c)
  PROVE  Atomic(c)
<1>. pc \in [Editor -> PC]
  BY DEF IInv, TypeOK
<1>1. \A where : where # "idle" => ~Goto(c, where)
  BY DEF Goto
<1>2. ~WriteCompose(c) /\ ~WriteEnv(c) /\ ~ApplyOwnership(c)
  BY <1>1 DEF WriteCompose, WriteEnv, ApplyOwnership
<1>3. CASE RecordRevision(c)
  <2>1. pc[c] = "record" /\ UNCHANGED <<directory, compose, dotenv>>
    BY <1>3 DEF RecordRevision, At, disk
  <2>2. req[c].draft \in Source /\ compose = req[c].draft.yaml
        /\ TextOf(dotenv) = req[c].draft.env
    BY <2>1, TextsTyped, Knows DEF Agrees, Untouched
  <2>3. OnDisk' = req[c].draft
    BY <2>1, <2>2 DEF OnDisk, Source
  <2>4. answer' = "saved" => revisions' = Kept(req[c].draft)
    BY <1>3 DEF RecordRevision, Finish
  <2>5. answer' = "saved" => req[c].draft \in ToSet(revisions')
    BY <2>2, <2>4, KeptIs DEF ToSet, IInv
  <2>. QED BY <1>3, <2>3, <2>5 DEF Atomic, RecordRevision, Finish
<1>4. CASE RestoreCompose(c)
  BY <1>1, <1>4 DEF RestoreCompose, Finish, Atomic
<1>5. CASE RestoreEnv(c)
  <2>1. /\ pc[c] = "restoreEnv" /\ UNCHANGED <<directory, compose>>
        /\ answer' \in {"undone", "broken"}
        /\ answer' = "undone" => ~req[c].isAdd /\ dotenv' = req[c].captured.env
    BY <1>1, <1>5 DEF RestoreEnv, At, Finish
  <2>2. /\ directory /\ compose = req[c].before.yaml
        /\ req[c].captured.env = req[c].before.env
        /\ ~req[c].isAdd => req[c].before.directory
    BY <2>1, Knows DEF Agrees, Untouched
  <2>3. req[c].before \in DiskState /\ directory \in BOOLEAN
    BY UntouchedDisk, DiskIs DEF IInv
  <2>. QED BY <2>1, <2>2, <2>3 DEF Atomic, Disk, DiskState
<1>6. CASE RemoveDirectory(c)
  <2>1. /\ pc[c] = "removeDirectory" /\ req[c].isAdd
        /\ answer' \in {"undone", "broken"} /\ (answer' = "undone" => Erased)
    BY <1>6 DEF RemoveDirectory, At, Finish, IInv, RequestFits, Fits
  <2>2. req[c].before = [directory |-> FALSE, yaml |-> Absent, env |-> Absent]
    BY <2>1, Knows DEF Untouched
  <2>. QED BY <2>1, <2>2 DEF Atomic, Disk, Erased
<1>. QED BY <1>2, <1>3, <1>4, <1>5, <1>6

LEMMA NextIsAtomic ==
  ASSUME IInv, Next, NEW c \in Editor, Undisturbed(c), pc'[c] = "idle"
  PROVE  Atomic(c)
<1>1. pc[c] # "idle"
  BY UntouchedDisk
<1>2. ASSUME NEW d \in Editor, Arrive(d) \/ Step(d)
      PROVE  Atomic(c)
  <2>1. d = c
    BY <1>1, <1>2, AloneInArrive, AloneInStep DEF Alone
  <2>2. ~Arrive(c)
    BY <1>1 DEF Arrive, Edit, RestoreRevision, Add, Submit, At
  <2>. QED BY <1>2, <2>1, <2>2, RefusedIsAtomic, EndIsAtomic DEF Step
<1>3. CASE DeleteStack
  BY <1>1, <1>3 DEF DeleteStack
<1>4. CASE Crash
  BY <1>4 DEF Crash, Atomic
<1>5. CASE Rest
  BY <1>1, <1>5 DEF Rest, At
<1>. QED BY <1>2, <1>3, <1>4, <1>5 DEF Next

\* A commit that nobody disturbs writes both files and the history, or neither:
\* wherever writeSource and createRevision fail, except where taking back what
\* was written fails too.
THEOREM UndisturbedCommitsAreAtomic == Spec => UndisturbedCommitIsAtomic
<1>1. IInv /\ [Next]_vars =>
        [\A c \in Editor : Undisturbed(c) /\ pc'[c] = "idle" =>
           /\ answer' = "saved" =>
                OnDisk' = req[c].draft /\ req[c].draft \in ToSet(revisions')
           /\ answer' \in {"refused", "undone"} => Disk' = req[c].before]_vars
  BY NextIsAtomic DEF Atomic
<1>. QED BY <1>1, Invariance, PTL DEF Spec, UndisturbedCommitIsAtomic

-----------------------------------------------------------------------------
(* The source that is overwritten stays in the history *)

\* No more commits are in flight at once than revisions are kept: 5 at least, 50
\* unless DOCKERBRIDGE_COMPOSE_REVISION_RETENTION says otherwise.
Uncrowded == IsFiniteSet(Editor) /\ Cardinality(Editor) <= Retention

LEMMA PushersFinite ==
  ASSUME Uncrowded, NEW c \in Editor
  PROVE  /\ IsFiniteSet(Pushers(c)) /\ Cardinality(Pushers(c)) \in Nat
         /\ 1 + Cardinality(Pushers(c)) <= Retention
<1>1. IsFiniteSet(Editor) /\ Cardinality(Editor) \in Nat /\ Cardinality(Editor) <= Retention
  BY FS_CardinalityType DEF Uncrowded
<1>2. IsFiniteSet(Editor \ {c}) /\ Cardinality(Editor \ {c}) = Cardinality(Editor) - 1
  BY <1>1, FS_RemoveElement
<1>3. Pushers(c) \subseteq Editor \ {c}
  BY DEF Pushers
<1>4. /\ IsFiniteSet(Pushers(c)) /\ Cardinality(Pushers(c)) \in Nat
      /\ Cardinality(Pushers(c)) <= Cardinality(Editor) - 1
  BY <1>2, <1>3, FS_Subset, FS_CardinalityType
<1>. QED BY <1>1, <1>4, Constants

\* The same with the pushers there are after a step.
LEMMA FewerPushers ==
  ASSUME Uncrowded, NEW c \in Editor, Pushers(c)' \subseteq Pushers(c)
  PROVE  /\ Cardinality(Pushers(c)') \in Nat
         /\ Cardinality(Pushers(c)') <= Cardinality(Pushers(c))
         /\ \A d \in Pushers(c) : d \notin Pushers(c)' =>
              Cardinality(Pushers(c)') + 1 <= Cardinality(Pushers(c))
<1>. DEFINE P == Pushers(c)  Q == Pushers(c)'
<1>1. IsFiniteSet(P) /\ Cardinality(P) \in Nat /\ Q \subseteq P
  BY PushersFinite
<1>. HIDE DEF P, Q
<1>2. Cardinality(Q) \in Nat /\ Cardinality(Q) <= Cardinality(P)
  BY <1>1, FS_Subset, FS_CardinalityType
<1>3. ASSUME NEW d \in P, d \notin Q
      PROVE  Cardinality(Q) + 1 <= Cardinality(P)
  <2>1. IsFiniteSet(P \ {d}) /\ Cardinality(P \ {d}) = Cardinality(P) - 1
    BY <1>1, <1>3, FS_RemoveElement
  <2>2. Q \subseteq P \ {d}
    BY <1>1, <1>3
  <2>3. Cardinality(Q) <= Cardinality(P) - 1
    BY <2>1, <2>2, FS_Subset
  <2>. QED BY <1>1, <1>2, <2>3
<1>. QED BY <1>2, <1>3 DEF P, Q

\* Nothing is recorded.
LEMMA NotPushed ==
  ASSUME Uncrowded, TypeOK, NEW c \in Editor, Pushers(c)' \subseteq Pushers(c),
         UNCHANGED revisions, OnDisk' = OnDisk, SafeInHistory(c)
  PROVE  SafeInHistory(c)'
<1>1. PICK i \in 1 .. Len(revisions) :
        revisions[i] = OnDisk /\ i + Cardinality(Pushers(c)) <= Retention
  BY DEF SafeInHistory
<1>2. i \in Int /\ i + Cardinality(Pushers(c)') <= Retention
  BY <1>1, FewerPushers, PushersFinite, Constants DEF TypeOK
<1>. QED BY <1>1, <1>2 DEF SafeInHistory

\* What is on disk is recorded, or was recorded last.
LEMMA Recorded ==
  ASSUME Uncrowded, TypeOK, NEW c \in Editor, Pushers(c)' \subseteq Pushers(c),
         OnDisk \in Source, OnDisk' = OnDisk,
         revisions' = Kept(OnDisk) \/ (IsLatest(OnDisk) /\ UNCHANGED revisions)
  PROVE  SafeInHistory(c)'
<1>1. 1 \in 1 .. Len(revisions') /\ revisions'[1] = OnDisk'
  BY KeptIs, LatestIs
<1>2. 1 + Cardinality(Pushers(c)') <= Retention
  BY FewerPushers, PushersFinite, Constants
<1>. QED BY <1>1, <1>2 DEF SafeInHistory

\* One of the others records a source that is not on disk: it will not do so
\* again.
LEMMA Pushed ==
  ASSUME Uncrowded, TypeOK, NEW c \in Editor, Pushers(c)' \subseteq Pushers(c),
         NEW d \in Pushers(c), d \notin Pushers(c)', NEW source \in Source,
         revisions' = Kept(source), OnDisk' = OnDisk, SafeInHistory(c)
  PROVE  SafeInHistory(c)'
<1>1. PICK i \in 1 .. Len(revisions) :
        revisions[i] = OnDisk /\ i + Cardinality(Pushers(c)) <= Retention
  BY DEF SafeInHistory
<1>2. /\ i \in Int /\ (i + 1) + Cardinality(Pushers(c)') <= Retention
      /\ i + 1 <= Retention
  BY <1>1, FewerPushers, PushersFinite, Constants DEF TypeOK
<1>3. i + 1 \in 1 .. Len(revisions') /\ revisions'[i + 1] = OnDisk'
  BY <1>1, <1>2, KeptIs
<1>. QED BY <1>2, <1>3 DEF SafeInHistory

\* A commit that is preserving after another's step was so before, and the
\* step has disturbed nobody.
LEMMA PreservedByOthers ==
  ASSUME IInv, NEW c \in Editor, NEW d \in Editor \ {c}, Alone(d), Preserving(c)'
  PROVE  /\ Preserving(c) /\ UNCHANGED disk /\ OnDisk' = OnDisk
         /\ \A e \in Editor \ {d} : req'[e] = req[e] /\ pc'[e] = pc[e]
<1>1. req[c] \in Req /\ req'[c].before # Absent
  BY DEF IInv, TypeOK, Preserving, Undisturbed
<1>2. UNCHANGED disk /\ \A e \in Editor \ {d} : req'[e] = req[e]
  BY <1>1, CutIs DEF Alone
<1>3. OnDisk' = OnDisk
  BY <1>2 DEF OnDisk, disk
<1>. QED BY <1>2, <1>3 DEF Alone, Preserving, Undisturbed

Pushing == {"readCompose", "readEnv", "validate", "preChange", "own", "record"}

\* A request that arrives knows the disk, and no step makes one a pusher that
\* was none without disturbing the others.
LEMMA NoNewPusher ==
  ASSUME IInv, NEW c \in Editor, NEW d \in Editor \ {c}, Arrive(d) \/ Step(d),
         Preserving(c)', ~Undisturbed(d)', pc'[d] \in Pushing
  PROVE  ~Undisturbed(d) /\ pc[d] \in Pushing
<1>. pc \in [Editor -> PC] /\ req \in [Editor -> Req] /\ req[d] \in Req
  BY DEF IInv, TypeOK
<1>1. ~Arrive(d)
  <2>1. ASSUME NEW source \in Source, NEW add \in BOOLEAN,
               NEW version \in Source \union {Unversioned}, NEW where,
               Submit(d, source, add, version, where)
        PROVE  req'[d].before = Disk
    <3>1. [Blank EXCEPT !.draft = source, !.isAdd = add,
                        !.expected = version, !.before = Disk].before = Disk
      BY Constants DEF Req
    <3>. QED BY <2>1, <3>1 DEF Submit
  <2>2. Readable \subseteq Source
    BY DEF Readable, ToSet, IInv, TypeOK
  <2>3. Arrive(d) => req'[d].before = Disk
    BY <2>1, <2>2 DEF Arrive, Edit, RestoreRevision, Add
  <2>. QED BY <2>3, DiskIs, Constants DEF Undisturbed, IInv
<1>2. /\ \A where : where \notin Pushing => ~Goto(d, where)
      /\ \A how : ~Finish(d, how)
  BY DEF Goto, Finish, Pushing
<1>3. req'[d].before = req[d].before =>  (Undisturbed(d) <=> Undisturbed(d)')
  BY DEF Undisturbed
<1>4. CASE ReadCompose(d)
  <2>1. req' = [req EXCEPT ![d].current.yaml = compose] /\ pc[d] \in Pushing
    BY <1>2, <1>4 DEF ReadCompose, At, Pushing
  <2>2. req'[d].before = req[d].before
    BY <2>1 DEF Req
  <2>. QED BY <1>3, <2>1, <2>2
<1>5. CASE ReadEnv(d)
  <2>1. ~Goto(d, "validate") => FALSE
    BY <1>2, <1>5 DEF ReadEnv
  <2>2. /\ pc[d] \in Pushing
        /\ \E q : req' = [req EXCEPT ![d].current = q]
    BY <1>2, <1>5, <2>1 DEF ReadEnv, At, Pushing
  <2>3. req'[d].before = req[d].before
    BY <2>2 DEF Req
  <2>. QED BY <1>3, <2>2, <2>3
<1>6. CASE Validate(d) \/ PreChange(d) \/ ApplyOwnership(d)
  <2>1. UNCHANGED req /\ pc[d] \in Pushing
    BY <1>2, <1>6 DEF Validate, PreChange, ApplyOwnership, At, Pushing
  <2>. QED BY <1>3, <2>1
<1>7. CASE WriteEnv(d)
  <2>1. req' = Disturbed(d)
    BY <1>2, <1>7 DEF WriteEnv, Pushing
  <2>2. req'[c].before = Absent
    BY <2>1 DEF Disturbed, IInv, TypeOK, Req
  <2>. QED BY <2>2 DEF Preserving, Undisturbed
<1>8. CASE \/ MakeDirectory(d) \/ CaptureCompose(d) \/ CaptureEnv(d) \/ WriteCompose(d)
           \/ RecordRevision(d) \/ RestoreCompose(d) \/ RestoreEnv(d) \/ RemoveDirectory(d)
  BY <1>2, <1>8 DEF MakeDirectory, CaptureCompose, CaptureEnv, WriteCompose, NotCaptured,
     RecordRevision, RestoreCompose, RestoreEnv, RemoveDirectory, Pushing
<1>. QED BY <1>1, <1>4, <1>5, <1>6, <1>7, <1>8 DEF Step

LEMMA OthersDoNotPush ==
  ASSUME IInv, NEW c \in Editor, NEW d \in Editor \ {c}, Arrive(d) \/ Step(d),
         Preserving(c)'
  PROVE  Pushers(c)' \subseteq Pushers(c)
<1>1. \A e \in Editor \ {d} : req'[e] = req[e] /\ pc'[e] = pc[e]
  BY AloneInArrive, AloneInStep, PreservedByOthers
<1>. QED BY <1>1, NoNewPusher DEF Pushers, Undisturbed, Pushing

\* Another's step keeps the source safe.
LEMMA SafeFromOthers ==
  ASSUME Uncrowded, IInv, HistoryInv, NEW c \in Editor, NEW d \in Editor \ {c},
         Arrive(d) \/ Step(d), Preserving(c)'
  PROVE  SafeInHistory(c)'
<1>1. /\ Preserving(c) /\ SafeInHistory(c) /\ UNCHANGED disk /\ OnDisk' = OnDisk
      /\ Pushers(c)' \subseteq Pushers(c)
  BY AloneInArrive, AloneInStep, PreservedByOthers, OthersDoNotPush DEF HistoryInv
<1>2. TypeOK
  BY DEF IInv
<1>3. CASE UNCHANGED revisions
  BY <1>1, <1>2, <1>3, NotPushed
<1>4. ASSUME NEW source \in Source, revisions' = Kept(source),
             pc[d] \in Pushing, pc'[d] \notin Pushing,
             Undisturbed(d) => source = OnDisk
      PROVE  SafeInHistory(c)'
  <2>1. CASE Undisturbed(d)
    BY <1>1, <1>2, <1>4, <2>1, Recorded
  <2>2. CASE ~Undisturbed(d)
    <3>1. d \in Pushers(c) /\ d \notin Pushers(c)'
      BY <1>4, <2>2 DEF Pushers, Pushing
    <3>. QED BY <1>1, <1>2, <1>4, <3>1, Pushed
  <2>. QED BY <2>1, <2>2
<1>5. CASE PreChange(d)
  <2>1. /\ pc[d] = "preChange" /\ pc'[d] \in {"makeDirectory", "idle"}
        /\ revisions' \in {revisions, Kept(req[d].current)}
    BY <1>5 DEF PreChange, At, Goto, Finish, IInv, TypeOK
  <2>2. req[d].current \in Source /\ (Undisturbed(d) => req[d].current = OnDisk)
    BY <2>1, CurrentIs DEF IInv, UndisturbedAgrees, Agrees
  <2>. QED BY <1>3, <1>4, <2>1, <2>2 DEF Pushing
<1>6. CASE RecordRevision(d)
  <2>1. /\ pc[d] = "record" /\ pc'[d] = "idle"
        /\ revisions' \in {revisions, Kept(req[d].draft)}
    BY <1>6 DEF RecordRevision, At, Finish, IInv, TypeOK
  <2>2. req[d].draft \in Source
    BY <2>1, TextsTyped
  <2>3. Undisturbed(d) => req[d].draft = OnDisk
    BY <2>1, <2>2 DEF IInv, UndisturbedAgrees, Agrees, Source, OnDisk
  <2>. QED BY <1>3, <1>4, <2>1, <2>2, <2>3 DEF Pushing
<1>7. CASE ~PreChange(d) /\ ~RecordRevision(d)
  BY <1>3, <1>7, AloneInArrive
     DEF Step, ReadCompose, ReadEnv, Validate, MakeDirectory, CaptureCompose,
         CaptureEnv, WriteCompose, WriteEnv, ApplyOwnership, RestoreCompose,
         RestoreEnv, RemoveDirectory
<1>. QED BY <1>5, <1>6, <1>7

\* Its own steps: the source is recorded, and stays until it is overwritten.
LEMMA SafeFromItself ==
  ASSUME Uncrowded, IInv, HistoryInv, NEW c \in Editor, Arrive(c) \/ Step(c),
         Preserving(c)'
  PROVE  SafeInHistory(c)'
<1>. pc \in [Editor -> PC] /\ req \in [Editor -> Req] /\ TypeOK
  BY DEF IInv, TypeOK
<1>1. pc'[c] \in {"makeDirectory", "captureCompose", "captureEnv", "writeCompose"}
  BY DEF Preserving
<1>2. Alone(c) /\ ~Arrive(c)
  BY <1>1, AloneInArrive, AloneInStep
     DEF Arrive, Edit, RestoreRevision, Add, Submit, Goto
<1>3. \A where : Goto(c, where) => where = pc'[c]
  BY DEF Goto
<1>4. \A how : ~Finish(c, how)
  BY <1>1 DEF Finish
<1>5. ASSUME UNCHANGED disk, \E q : req' = [req EXCEPT ![c] = q]
      PROVE  OnDisk' = OnDisk /\ Pushers(c)' \subseteq Pushers(c)
  BY <1>2, <1>5 DEF OnDisk, disk, Pushers, Alone, Undisturbed
<1>6. req = [req EXCEPT ![c] = req[c]]
  OBVIOUS
<1>7. CASE PreChange(c)
  <2>1. /\ pc[c] = "preChange" /\ UNCHANGED <<disk, req>>
        /\ revisions' = IF IsLatest(req[c].current) THEN revisions
                                                   ELSE Kept(req[c].current)
    BY <1>4, <1>7 DEF PreChange, At
  <2>2. req[c].current = OnDisk /\ OnDisk \in Source
    BY <2>1, CurrentIs DEF Preserving, Undisturbed, IInv, UndisturbedAgrees, Agrees
  <2>3. OnDisk' = OnDisk /\ Pushers(c)' \subseteq Pushers(c)
    BY <1>5, <1>6, <2>1
  <2>. QED BY <2>1, <2>2, <2>3, Recorded
<1>8. ASSUME UNCHANGED <<disk, revisions>>, NEW q \in Req, req' = [req EXCEPT ![c] = q],
             q.before = req[c].before, q.isAdd = req[c].isAdd,
             pc[c] \in {"makeDirectory", "captureCompose", "captureEnv"}
      PROVE  SafeInHistory(c)'
  <2>1. Preserving(c)
    BY <1>8 DEF Preserving, Undisturbed
  <2>2. OnDisk' = OnDisk /\ Pushers(c)' \subseteq Pushers(c)
    BY <1>5, <1>8
  <2>. QED BY <1>8, <2>1, <2>2, NotPushed DEF HistoryInv
<1>9. CASE MakeDirectory(c)
  <2>1. ~req[c].isAdd
    BY <1>4, <1>9 DEF MakeDirectory, Preserving, Disturbed
  <2>2. UNCHANGED <<disk, req, revisions>> /\ pc[c] = "makeDirectory"
    BY <1>4, <1>9, <2>1 DEF MakeDirectory, At, disk
  <2>. QED BY <1>6, <1>8, <2>2
<1>10. CASE CaptureCompose(c)
  <2>1. /\ pc[c] = "captureCompose" /\ UNCHANGED <<disk, revisions>>
        /\ req' = [req EXCEPT ![c] = WithYaml(req[c], compose)]
    BY <1>4, <1>10, Zenon DEF CaptureCompose, At, NotCaptured, WithYaml
  <2>. QED BY <1>8, <2>1, CapturedYaml, DiskIs
<1>11. CASE CaptureEnv(c)
  <2>1. /\ pc[c] = "captureEnv" /\ UNCHANGED <<disk, revisions>>
        /\ req' = [req EXCEPT ![c] = WithEnv(req[c], dotenv)]
    BY <1>4, <1>11, Zenon DEF CaptureEnv, At, NotCaptured, WithEnv
  <2>. QED BY <1>8, <2>1, CapturedEnv, DiskIs
<1>12. ~Validate(c)
  <2>1. SUFFICES ASSUME Validate(c) PROVE FALSE
    OBVIOUS
  <2>2. Goto(c, IF req[c].isAdd THEN "makeDirectory" ELSE "preChange") /\ UNCHANGED req
    BY <1>4, <2>1 DEF Validate
  <2>. QED BY <1>1, <1>3, <2>2 DEF Preserving
<1>13. /\ ~ReadCompose(c) /\ ~ReadEnv(c) /\ ~WriteCompose(c) /\ ~WriteEnv(c)
       /\ ~ApplyOwnership(c) /\ ~RecordRevision(c) /\ ~RestoreCompose(c)
       /\ ~RestoreEnv(c) /\ ~RemoveDirectory(c)
  BY <1>1, <1>3, <1>4
     DEF ReadCompose, ReadEnv, WriteCompose, WriteEnv, ApplyOwnership, RecordRevision,
         RestoreCompose, RestoreEnv, RemoveDirectory
<1>. QED BY <1>2, <1>7, <1>9, <1>10, <1>11, <1>12, <1>13 DEF Step

LEMMA NextHistory ==
  ASSUME Uncrowded, IInv, HistoryInv, [Next]_vars
  PROVE  HistoryInv'
<1>. SUFFICES ASSUME NEW c \in Editor, Preserving(c)'
     PROVE  SafeInHistory(c)'
  BY DEF HistoryInv
<1>1. ASSUME NEW d \in Editor, Arrive(d) \/ Step(d)
      PROVE  SafeInHistory(c)'
  BY <1>1, SafeFromItself, SafeFromOthers
<1>2. ~DeleteStack
  <2>1. SUFFICES ASSUME DeleteStack PROVE FALSE
    OBVIOUS
  <2>2. req'[c] \in {Blank, Cut(req[c])}
    BY <2>1 DEF DeleteStack, Cut
  <2>3. req'[c].before = Absent
    BY <2>2, CutIs, Constants DEF IInv, TypeOK
  <2>. QED BY <2>3 DEF Preserving, Undisturbed
<1>3. ~Crash
  BY DEF Crash, Preserving
<1>4. CASE UNCHANGED vars
  <2>1. /\ UNCHANGED <<revisions, pc, req>> /\ OnDisk' = OnDisk
    BY <1>4 DEF vars, disk, OnDisk
  <2>2. Pushers(c)' = Pushers(c) /\ Preserving(c)
    BY <2>1 DEF Pushers, Preserving, Undisturbed
  <2>. QED BY <2>1, <2>2, NotPushed DEF HistoryInv, IInv
<1>. QED BY <1>1, <1>2, <1>3, <1>4 DEF Next, Rest

\* What a commit overwrites has been recorded and is still there, whatever the
\* other commits record meanwhile, if no more are in flight than are kept.  The
\* undisturbed ones among them record what is on disk, the others one source at
\* most before they write or give up.
THEOREM OverwrittenAlwaysKept ==
  ASSUME Uncrowded
  PROVE  Spec => []OverwrittenSourceIsKept
<1>1. Init => HistoryInv
  BY Constants DEF Init, HistoryInv, Preserving
<1>2. IInv /\ HistoryInv /\ [Next]_vars => HistoryInv'
  BY NextHistory
<1>3. HistoryInv => OverwrittenSourceIsKept
  BY DEF HistoryInv, SafeInHistory, OverwrittenSourceIsKept, Preserving, At, ToSet
<1>. QED BY <1>1, <1>2, <1>3, Invariance, PTL DEF Spec
=============================================================================
