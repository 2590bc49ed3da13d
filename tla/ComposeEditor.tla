---------------------------- MODULE ComposeEditor ----------------------------
(***************************************************************************)
(* Editing one Compose project (backend/compose-editor.ts): commit and     *)
(* restoreRevision, the files compose.yaml and .env they read and write,   *)
(* and the revision history.  Several administrators edit at the same time: *)
(* a commit is suspended at every await, and between two of its steps the   *)
(* others take theirs, the project may be deleted (Stack.delete) and the    *)
(* server may crash.  Nothing in the code orders two commits.               *)
(*                                                                         *)
(* A source is the pair of the two files' texts; its version is a digest of *)
(* both, so the source itself stands for its version.  An empty .env is     *)
(* stored as no .env.  File-system calls and docker compose config may      *)
(* fail whenever they are made.  load and preview change nothing; the        *)
(* version a page got from load comes back as expectedSourceVersion, which   *)
(* may be that of any source, or be left out.                               *)
(***************************************************************************)
EXTENDS Integers, Sequences, SequencesExt

CONSTANTS Editor,      \* the commits in flight, one per editor
          Yaml, Env,   \* texts of compose.yaml and of a non-empty .env
          Absent,      \* no such file
          Unversioned, \* no expectedSourceVersion, as saveStack sends
          Retention,   \* DOCKERBRIDGE_COMPOSE_REVISION_RETENTION
          MaxCommits,  \* bound on the commits submitted
          MaxDeletes   \* bound on the deletions of the project

Empty == ""

Source == [yaml : Yaml, env : Env \union {Empty}]
DiskState == [directory : BOOLEAN, yaml : Yaml \union {Absent},
              env : Env \union {Absent}]

ASSUME EditorAssumption ==
  /\ Absent \notin Yaml \union Env
  /\ Absent \notin DiskState
  /\ Empty \notin Env
  /\ Retention \in Nat \ {0}
  /\ MaxCommits \in Nat
  /\ MaxDeletes \in Nat

VARIABLES
  directory,   \* disk: does the project's directory exist?
  compose,     \* disk: compose.yaml
  dotenv,      \* disk: .env
  revisions,   \* disk: the revisions' sources, the newest first
  pc,          \* where each editor's request is suspended
  req,         \* what each suspended request holds in memory
  answer,      \* how the commit that has just ended did
  commits, deletes

disk     == <<directory, compose, dotenv>>
counters == <<commits, deletes>>
vars == <<disk, revisions, pc, req, answer, counters>>

PC == {"idle", "readCompose", "readEnv", "validate",
       "preChange", "makeDirectory", "captureCompose", "captureEnv",
       "writeCompose", "writeEnv", "own", "record",
       "restoreCompose", "restoreEnv", "removeDirectory"}

\* refused: nothing was written; undone: a failed write was taken back;
\* broken: taking it back failed, or was not tried; unrecorded: written, but its revision
\* was not; lost: the server crashed.
Answer == {"none", "refused", "undone", "broken", "unrecorded", "saved", "lost"}

Disk == [directory |-> directory, yaml |-> compose, env |-> dotenv]
Files == [yaml : Yaml \union {Absent}, env : Env \union {Absent}]

\* readStackSource: a missing .env reads as an empty one.
TextOf(file) == IF file = Absent THEN Empty ELSE file
FileOf(text) == IF text = Empty THEN Absent ELSE text
OnDisk == [yaml |-> compose, env |-> TextOf(dotenv)]

\* draft, isAdd and expectedSourceVersion are the payload, current what the
\* commit has read, captured the composeState and environmentState of
\* writeSource; before is history: the disk at submission, until somebody else
\* changes the project.
Blank == [draft |-> Absent, isAdd |-> FALSE, expected |-> Unversioned,
          current |-> [yaml |-> Absent, env |-> Empty],
          captured |-> [yaml |-> Absent, env |-> Absent],
          before |-> Absent]

Req == [draft : Source \union {Absent}, isAdd : BOOLEAN,
        expected : Source \union {Unversioned},
        current : [yaml : Yaml \union {Absent}, env : Env \union {Empty}],
        captured : Files, before : DiskState \union {Absent}]

TypeOK ==
  /\ Disk \in DiskState
  /\ ~directory => compose = Absent /\ dotenv = Absent
  /\ revisions \in Seq(Source) /\ Len(revisions) <= Retention
  /\ pc \in [Editor -> PC]
  /\ req \in [Editor -> Req]
  /\ answer \in Answer
  /\ commits \in 0 .. MaxCommits /\ deletes \in 0 .. MaxDeletes

\* Either there is no project yet, or a complete one nobody has edited.
Init ==
  /\ \/ directory = FALSE /\ compose = Absent /\ dotenv = Absent
     \/ directory = TRUE /\ compose \in Yaml /\ dotenv \in Env \union {Absent}
  /\ revisions = <<>>
  /\ pc = [c \in Editor |-> "idle"]
  /\ req = [c \in Editor |-> Blank]
  /\ answer = "none"
  /\ commits = 0
  /\ deletes = 0

-----------------------------------------------------------------------------
At(c, where) == pc[c] = where
Goto(c, where) == pc' = [pc EXCEPT ![c] = where] /\ answer' = "none"
Finish(c, how) == pc' = [pc EXCEPT ![c] = "idle"] /\ answer' = how

\* What the others' suspended requests see of a change made by c.
Disturbed(c) == [d \in Editor |->
  IF d = c THEN req[d] ELSE [req[d] EXCEPT !.before = Absent]]

Undisturbed(c) == req[c].before # Absent

\* createRevision publishes the newest revision and pruneRevisions drops what
\* exceeds the retention.
Kept(source) == LET all == <<source>> \o revisions
                IN  SubSeq(all, 1, IF Len(all) < Retention THEN Len(all) ELSE Retention)

IsLatest(source) == IF revisions = <<>> THEN FALSE ELSE Head(revisions) = source

-----------------------------------------------------------------------------
(* commit: what it checks before it writes *)

Submit(c, source, add, version, where) ==
  /\ At(c, "idle")
  /\ commits < MaxCommits
  /\ commits' = commits + 1
  /\ req' = [req EXCEPT ![c] = [Blank EXCEPT !.draft = source, !.isAdd = add,
                                             !.expected = version, !.before = Disk]]
  /\ Goto(c, where)
  /\ UNCHANGED <<disk, revisions, deletes>>

\* A save or deploy of the draft on a page; saveStack sends no version.
Edit(c) == \E source \in Source, version \in Source \union {Unversioned} :
             Submit(c, source, FALSE, version, "readCompose")

\* readRevision: what was published, or nothing if a file of it was changed,
\* which does not happen here.
Readable == ToSet(revisions)

\* restoreRevision commits a revision's source.
RestoreRevision(c) ==
  \E source \in Readable, version \in Source :
    Submit(c, source, FALSE, version, "readCompose")

\* currentSource of a new project: the directory must not be there.
Add(c) ==
  /\ ~directory
  /\ \E source \in Source : Submit(c, source, TRUE, Unversioned, "validate")

\* The request is over: its memory goes.
Done(c) == req' = [req EXCEPT ![c] = Blank]

ReadCompose(c) ==
  /\ At(c, "readCompose")
  /\ \/ compose = Absent /\ Finish(c, "refused") /\ Done(c)
     \/ /\ compose # Absent
        /\ req' = [req EXCEPT ![c].current.yaml = compose]
        /\ Goto(c, "readEnv")
  /\ UNCHANGED <<disk, revisions, counters>>

\* assertExpectedVersion follows the second read without an await.
ExpectedIs(c, source) == req[c].expected \in {Unversioned, source}

ReadEnv(c) ==
  /\ At(c, "readEnv")
  /\ LET source == [yaml |-> req[c].current.yaml, env |-> TextOf(dotenv)]
     IN  \/ /\ ExpectedIs(c, source)
            /\ req' = [req EXCEPT ![c].current = source]
            /\ Goto(c, "validate")
         \/ ~ExpectedIs(c, source) /\ Finish(c, "refused") /\ Done(c)
  /\ UNCHANGED <<disk, revisions, counters>>

\* docker compose config accepts or rejects the draft, or times out after 15 s.
Validate(c) ==
  /\ At(c, "validate")
  /\ \/ Goto(c, IF req[c].isAdd THEN "makeDirectory" ELSE "preChange") /\ UNCHANGED req
     \/ Finish(c, "refused") /\ Done(c)
  /\ UNCHANGED <<disk, revisions, counters>>

\* Mutant: the draft is recorded instead of the source it replaces.
PreChangeOfDraft(c) ==
  /\ At(c, "preChange")
  /\ revisions' = Kept(req[c].draft)
  /\ Goto(c, "makeDirectory")
  /\ UNCHANGED <<disk, req, counters>>

\* createRevision(..., "pre-change", true) of the source that was read, unless
\* it is the latest revision already.  A failure may follow the publication.
PreChange(c) ==
  /\ At(c, "preChange")
  /\ \/ /\ revisions' = IF IsLatest(req[c].current) THEN revisions
                                                    ELSE Kept(req[c].current)
        /\ Goto(c, "makeDirectory")
        /\ UNCHANGED req
     \/ /\ revisions' \in {revisions, Kept(req[c].current)}
        /\ Finish(c, "refused")
        /\ Done(c)
  /\ UNCHANGED <<disk, counters>>

-----------------------------------------------------------------------------
(* writeSource *)

\* Mutant: mkdir with recursive: true.
MakeDirectoryAnyway(c) ==
  /\ At(c, "makeDirectory")
  /\ directory \/ req[c].isAdd
  /\ directory' = TRUE
  /\ req' = Disturbed(c)
  /\ Goto(c, "captureCompose")
  /\ UNCHANGED <<compose, dotenv, revisions, counters>>

\* mkdir without recursive: it fails when somebody else made the directory.
MakeDirectory(c) ==
  /\ At(c, "makeDirectory")
  /\ \/ /\ req[c].isAdd /\ ~directory
        /\ directory' = TRUE
        /\ req' = Disturbed(c)
        /\ Goto(c, "captureCompose")
     \/ /\ ~req[c].isAdd /\ directory
        /\ Goto(c, "captureCompose")
        /\ UNCHANGED <<directory, req>>
     \/ /\ req[c].isAdd = directory
        /\ Finish(c, "refused")
        /\ Done(c)
        /\ UNCHANGED directory
  /\ UNCHANGED <<compose, dotenv, revisions, counters>>

\* captureFile is called before the try: when it throws, nothing is undone, and
\* the new project's empty directory stays.
NotCaptured(c) ==
  /\ Finish(c, IF req[c].isAdd THEN "broken" ELSE "refused")
  /\ Done(c)

CaptureCompose(c) ==
  /\ At(c, "captureCompose")
  /\ \/ /\ req' = [req EXCEPT ![c].captured.yaml = compose]
        /\ Goto(c, "captureEnv")
     \/ NotCaptured(c)
  /\ UNCHANGED <<disk, revisions, counters>>

CaptureEnv(c) ==
  /\ At(c, "captureEnv")
  /\ \/ /\ req' = [req EXCEPT ![c].captured.env = dotenv]
        /\ Goto(c, "writeCompose")
     \/ NotCaptured(c)
  /\ UNCHANGED <<disk, revisions, counters>>

\* atomicWrite replaces the file by a rename, which needs the directory.  The
\* call can still fail after the rename.
WriteCompose(c) ==
  /\ At(c, "writeCompose")
  /\ \/ /\ directory
        /\ compose' = req[c].draft.yaml
        /\ req' = Disturbed(c)
        /\ Goto(c, "writeEnv") \/ Goto(c, "restoreCompose")
     \/ Goto(c, "restoreCompose") /\ UNCHANGED <<compose, req>>
  /\ UNCHANGED <<directory, dotenv, revisions, counters>>

WriteEnv(c) ==
  /\ At(c, "writeEnv")
  /\ \/ /\ directory \/ req[c].draft.env = Empty
        /\ dotenv' = FileOf(req[c].draft.env)
        /\ req' = Disturbed(c)
        /\ Goto(c, "own") \/ Goto(c, "restoreCompose")
     \/ Goto(c, "restoreCompose") /\ UNCHANGED <<dotenv, req>>
  /\ UNCHANGED <<directory, compose, revisions, counters>>

\* applyOwnership with PUID and PGID: it can fail after everything is written.
ApplyOwnership(c) ==
  /\ At(c, "own")
  /\ Goto(c, "record") \/ Goto(c, "restoreCompose")
  /\ UNCHANGED <<disk, revisions, req, counters>>

\* restoreFile puts back what was captured, whatever is there by now.  If it
\* throws, the rest of the catch block does not run.
RestoreCompose(c) ==
  /\ At(c, "restoreCompose")
  /\ \/ /\ directory \/ req[c].captured.yaml = Absent
        /\ compose' = req[c].captured.yaml
        /\ req' = Disturbed(c)
        /\ Goto(c, "restoreEnv")
     \/ Finish(c, "broken") /\ Done(c) /\ UNCHANGED compose
  /\ UNCHANGED <<directory, dotenv, revisions, counters>>

\* Mutant: only compose.yaml is put back.
RestoreEnvForgotten(c) ==
  /\ At(c, "restoreEnv")
  /\ Finish(c, "undone")
  /\ Done(c)
  /\ UNCHANGED <<disk, revisions, counters>>

RestoreEnv(c) ==
  /\ At(c, "restoreEnv")
  /\ \/ /\ directory \/ req[c].captured.env = Absent
        /\ dotenv' = req[c].captured.env
        /\ \/ ~req[c].isAdd /\ Finish(c, "undone")
              /\ req' = [Disturbed(c) EXCEPT ![c] = Blank]
           \/ req[c].isAdd /\ Goto(c, "removeDirectory") /\ req' = Disturbed(c)
     \/ Finish(c, "broken") /\ Done(c) /\ UNCHANGED dotenv
  /\ UNCHANGED <<directory, compose, revisions, counters>>

Erased == directory' = FALSE /\ compose' = Absent /\ dotenv' = Absent

RemoveDirectory(c) ==
  /\ At(c, "removeDirectory")
  /\ \/ /\ Erased
        /\ req' = [Disturbed(c) EXCEPT ![c] = Blank]
        /\ Finish(c, "undone")
     \/ UNCHANGED disk /\ Done(c) /\ Finish(c, "broken")
  /\ UNCHANGED <<revisions, counters>>

-----------------------------------------------------------------------------
\* createRevision of the draft comes after it is on disk; if it fails, the
\* commit reports an error although the source is replaced.
RecordRevision(c) ==
  /\ At(c, "record")
  /\ \/ /\ revisions' = Kept(req[c].draft)
        /\ Finish(c, "saved")
     \/ /\ revisions' \in {revisions, Kept(req[c].draft)}
        /\ Finish(c, "unrecorded")
  /\ Done(c)
  /\ UNCHANGED <<disk, counters>>

\* Stack.delete removes the directory while commits are suspended.
DeleteStack ==
  /\ directory
  /\ deletes < MaxDeletes
  /\ deletes' = deletes + 1
  /\ Erased
  /\ req' = [c \in Editor |-> IF At(c, "idle") THEN Blank
                              ELSE [req[c] EXCEPT !.before = Absent]]
  /\ answer' = "none"
  /\ UNCHANGED <<revisions, pc, commits>>

\* The server dies; only the disk remains.
Crash ==
  /\ \E c \in Editor : ~At(c, "idle")
  /\ answer' = "lost"
  /\ pc' = [c \in Editor |-> "idle"]
  /\ req' = [c \in Editor |-> Blank]
  /\ UNCHANGED <<disk, revisions, counters>>

-----------------------------------------------------------------------------
Arrive(c) == Edit(c) \/ RestoreRevision(c) \/ Add(c)

Step(c) ==
  \/ ReadCompose(c) \/ ReadEnv(c) \/ Validate(c) \/ PreChange(c)
  \/ MakeDirectory(c) \/ CaptureCompose(c) \/ CaptureEnv(c)
  \/ WriteCompose(c) \/ WriteEnv(c) \/ ApplyOwnership(c) \/ RecordRevision(c)
  \/ RestoreCompose(c) \/ RestoreEnv(c) \/ RemoveDirectory(c)

\* Nothing is suspended and nobody sends anything.
Rest == (\A c \in Editor : At(c, "idle")) /\ UNCHANGED vars

Next == (\E c \in Editor : Arrive(c) \/ Step(c)) \/ DeleteStack \/ Crash \/ Rest

Spec == Init /\ [][Next]_vars

-----------------------------------------------------------------------------
(* Properties *)

\* A commit nobody interferes with is atomic: it reports success only with its
\* draft on disk and in the history, and if it is refused or undone the two
\* files and the directory are exactly as they were when it was submitted.
UndisturbedCommitIsAtomic ==
  [][\A c \in Editor :
       Undisturbed(c) /\ pc'[c] = "idle" =>
         /\ answer' = "saved" =>
              OnDisk' = req[c].draft /\ req[c].draft \in ToSet(revisions')
         /\ answer' \in {"refused", "undone"} => Disk' = req[c].before]_vars

\* When a commit is about to overwrite the source it has read, that source is
\* in the history: what the editor replaces can be brought back.
OverwrittenSourceIsKept ==
  \A c \in Editor :
    At(c, "writeCompose") /\ ~req[c].isAdd /\ Undisturbed(c) =>
      OnDisk \in ToSet(revisions)

\* Of concurrent commits that create the same project only one gets to write.
Creating(c) == req[c].isAdd /\ pc[c] \in {"captureCompose", "captureEnv",
                                          "writeCompose", "writeEnv", "own"}
OneCreator ==
  deletes = 0 => \A c, d \in Editor : Creating(c) /\ Creating(d) => c = d
=============================================================================
