-------------------------------- MODULE Lsp --------------------------------
(***************************************************************************)
(* `htl lsp` (crates/htl-cli/src/lsp.rs): one thread that takes messages   *)
(* in batches, applies them, and checks the open files they made stale;    *)
(* the client that sends them; and the disk, which the client and others   *)
(* write while the server works.                                           *)
(*                                                                         *)
(* One project directory, with the files below it in a directory of their  *)
(* own.  The three manifests at its root are one value; what a check       *)
(* reports is the text of each file it reached, which of those were open,  *)
(* and the manifests the project was loaded from.  The requests that list  *)
(* symbols and uses, and the declarations under types/, are left out.      *)
(***************************************************************************)
EXTENDS Naturals, Sequences, FiniteSets

CONSTANTS
  Files,       \* the .tl files of the project, a URI each
  UriOrder,    \* the files in the order of their URIs
  Texts,       \* what a file or a buffer may hold
  Requires,    \* the files each text requires
  MayHold,     \* what each file may hold
  Manifests,   \* what the manifests may say
  Unparsed,    \* those for which the walk up for the project fails
  Refused,     \* those it is found with, and which then do not load
  FirstDisk, FirstManifest,
  MaxWrites, MaxMessages,  \* bounds on a behaviour
  Empty,       \* published: nothing
  Failed,      \* published: why the check could not be made
  None         \* no file, text, document or project

Unsynced == "unsynced"

ASSUME LspAssumption ==
  /\ UriOrder \in Seq(Files)
  /\ \A f \in Files : \E i \in DOMAIN UriOrder : UriOrder[i] = f
  /\ \A i, j \in DOMAIN UriOrder : UriOrder[i] = UriOrder[j] => i = j
  /\ Requires \in [Texts -> SUBSET Files]
  /\ MayHold \in [Files -> SUBSET (Texts \union {None})]
  /\ FirstDisk \in [Files -> Texts \union {None}]
  /\ FirstManifest \in Manifests
  /\ None \notin Texts \union Files \union Manifests
  /\ Empty # Failed /\ Unsynced \notin Texts

VARIABLES
  disk,       \* what each file holds
  manifest,   \* what the manifests say
  writes,     \* how often either was written
  watches,    \* whether the client says that files changed
  taken,      \* how many of its messages the server took
  untold,     \* history: the files written since a save of theirs was applied
  manUntold,  \* history: the same of the manifests, and watcher events
  compared,   \* history: whether the manifests were compared since they were written
  docs,       \* Server.open
  projects,   \* Server.projects
  shuttingDown, \* Server.shutting_down
  at,         \* where the loop is
  stale,      \* what the batch left to check
  request,    \* the request the checks under way precede
  todo,       \* the files check_all has yet to check
  job,        \* the check under way
  published,  \* what the client shows of each file
  answer      \* the last answer to a request

worldVars == <<disk, manifest, writes>>
clientVars == <<watches, taken>>
toldVars == <<untold, manUntold, compared>>
serverVars == <<docs, projects, shuttingDown>>
loopVars == <<at, stale, request, todo, job>>
vars == <<worldVars, clientVars, toldVars, serverVars, loopVars,
          published, answer>>

\* The key of the project, and of a file's directory where no project is found.
Root == "root"
Dir == "dir"

Open == {f \in Files : docs[f] # None}
OnDisk(f) == disk[f] # None

\* The members of a list that are in a set, in the order of the list.
Retained(s, S) ==
  LET kept[n \in 0 .. Len(s)] ==
        IF n = 0 THEN <<>>
        ELSE IF s[n] \in S THEN Append(kept[n - 1], s[n]) ELSE kept[n - 1]
  IN  kept[Len(s)]
InOrder(S) == Retained(UriOrder, S)
Elements(s) == {s[i] : i \in DOMAIN s}

\* The files a check of f reaches: f, and those that exist of what their texts
\* require.
RequiredOf(g) == IF OnDisk(g) THEN {h \in Requires[disk[g]] : OnDisk(h)} ELSE {}
Closure(f) ==
  LET Cs == {C \in SUBSET Files :
               f \in C /\ \A g \in C : RequiredOf(g) \subseteq C}
  IN  {g \in Files : \A C \in Cs : g \in C}

\* What is known of a document, of a loaded project, of a check under way and of the
\* request it precedes; and what a check says of a file.
Docs == [project : {Root, None}, deps : SUBSET Files, buffer : Texts \union {Unsynced, None},
         checked : [text : Texts, fixes : Texts \union {None}, writes : Nat] \union {None}]
Loaded == [seen : Manifests \union {None}, man : Manifests]
Reports == [read : UNION {[C -> Texts \union {None}] : C \in SUBSET Files},
            open : SUBSET Files, man : Manifests]
Jobs == [file : Files, key : {Root, Dir}, text : Texts, writes : Nat,
         seen : Manifests \union {None}, said : Reports \union {Failed, None}]
Requests == [kind : {"codeAction", "formatting"}, file : Files, key : {None}]
              \union [kind : {"format"}, file : Files, key : {Root, Dir}]
              \union [kind : {"shutdown"}, file : {None}, key : {None}]

ASSUME NoRecordAssumption ==
  /\ None \notin Docs \union Loaded \union Jobs \union Requests
  /\ {None, Empty, Failed} \intersect Reports = {}
  /\ None \notin {Empty, Failed}

NewDoc == [project |-> None, deps |-> {}, buffer |-> None, checked |-> None]
NoStale == [files |-> <<>>, changed |-> {}]

-----------------------------------------------------------------------------
Init ==
  /\ disk = FirstDisk /\ manifest = FirstManifest /\ writes = 0
  /\ watches \in BOOLEAN /\ taken = 0
  /\ untold = {} /\ manUntold = FALSE /\ compared = FALSE
  /\ docs = [f \in Files |-> None]
  /\ projects = [k \in {Root, Dir} |-> None]
  /\ shuttingDown = FALSE
  /\ at = "recv" /\ stale = NoStale /\ request = None
  /\ todo = <<>> /\ job = None
  /\ published = [f \in Files |-> Empty]
  /\ answer = None

\* The disk is written, by the editor or by anyone; a write of the file under
\* check is counted.
Write(f, t) ==
  /\ writes < MaxWrites
  /\ disk[f] # t
  /\ disk' = [disk EXCEPT ![f] = t]
  /\ writes' = writes + 1
  /\ untold' = untold \union {f}
  /\ job' = IF job # None /\ job.file = f
            THEN [job EXCEPT !.writes = @ + 1] ELSE job
  /\ UNCHANGED <<manifest, clientVars, manUntold, compared, serverVars, at,
                 stale, request, todo, published, answer>>

WriteManifest(m) ==
  /\ writes < MaxWrites
  /\ manifest # m
  /\ manifest' = m
  /\ writes' = writes + 1
  /\ manUntold' = TRUE
  /\ compared' = FALSE
  /\ UNCHANGED <<disk, clientVars, untold, serverVars, loopVars,
                 published, answer>>

-----------------------------------------------------------------------------
\* run(): the next message.  The first one is waited for, and those queued
\* behind it are of the same batch.  All the server knows of the channel is
\* whether a message is there, so what a message says is chosen when it is taken.
Take ==
  /\ at \in {"recv", "apply"}
  /\ taken < MaxMessages
  /\ taken' = taken + 1

Named(f) == IF f \in Elements(stale.files) THEN stale.files ELSE Append(stale.files, f)

\* The walk up for the project of a file.
WalkFails == manifest \in Unparsed
KnownProject(f) == IF docs[f] = None THEN None ELSE docs[f].project
ProjectKey == IF WalkFails THEN None ELSE Root
FoundKey == IF WalkFails THEN Dir ELSE Root

\* Server::opened, for didOpen and didSave.
Opened(f, text, saved) ==
  LET newly == docs[f] = None
      doc == IF newly THEN [NewDoc EXCEPT !.project = ProjectKey] ELSE docs[f]
  IN  /\ docs' = [docs EXCEPT ![f] =
                    IF text = None THEN doc ELSE [doc EXCEPT !.buffer = text]]
      /\ stale' = [files |-> Named(f),
                   changed |-> IF saved \/ newly THEN stale.changed \union {f}
                               ELSE stale.changed]

\* The documents the client has open: those it gave a text of.
Editing == {f \in Open : docs[f].buffer # None}

DidOpen(f, text) ==
  /\ Take /\ at' = "apply"
  /\ f \notin Editing
  /\ Opened(f, text, FALSE)
  /\ UNCHANGED <<worldVars, watches, toldVars, projects, shuttingDown, request,
                 todo, job, published, answer>>

\* A save may be of a file that was never opened.
DidSave(f) ==
  /\ Take /\ at' = "apply"
  /\ Opened(f, None, TRUE)
  /\ untold' = untold \ {f}
  /\ UNCHANGED <<worldVars, watches, manUntold, compared, projects, shuttingDown, request,
                 todo, job, published, answer>>

\* Server::changed.  A change that is not the whole text, which the server did
\* not ask for, leaves it without a buffer.
DidChange(f, text) ==
  /\ Take /\ at' = "apply"
  /\ f \in Editing
  /\ docs' = [docs EXCEPT ![f].buffer = text]
  /\ UNCHANGED <<worldVars, watches, toldVars, projects, shuttingDown, stale,
                 request, todo, job, published, answer>>

\* Mutant: what requires a file that is closed is not checked again.
ChangedByCloseNot(f) == stale.changed

\* A close is a change to what the files that require f report.
ChangedByClose(f) == stale.changed \union {f}

DidClose(f) ==
  /\ Take /\ at' = "apply"
  /\ f \in Editing
  /\ stale' = [files |-> Retained(stale.files, Files \ {f}),
               changed |-> ChangedByClose(f)]
  /\ docs' = [docs EXCEPT ![f] = None]
  /\ published' = [published EXCEPT ![f] = Empty]
  /\ UNCHANGED <<worldVars, watches, toldVars, projects, shuttingDown, request,
                 todo, job, answer>>

\* Server::watched, for a manifest: the project is dropped, and the open files
\* under its directory have theirs looked up again.
DidChangeWatchedFiles ==
  /\ Take /\ at' = "apply"
  /\ watches /\ manUntold
  /\ projects' = [k \in {Root, Dir} |-> None]
  /\ docs' = [f \in Files |-> IF f \in Open THEN [docs[f] EXCEPT !.project = None]
                              ELSE None]
  /\ stale' = [stale EXCEPT !.files =
                 @ \o InOrder(Open \ Elements(stale.files))]
  /\ manUntold' = FALSE
  /\ UNCHANGED <<worldVars, watches, untold, compared, shuttingDown, request, todo, job,
                 published, answer>>

-----------------------------------------------------------------------------
\* The stamp of a directory's manifests; a file's own directory has none.
Stamp(k) == IF k = Root THEN manifest ELSE None
Moved(K) == {k \in K : projects[k] # None /\ projects[k].seen # Stamp(k)}

\* Mutant: a project that moved is rebuilt for the file that asks.
FilesOfNone(K) == {}

\* drop_moved: the files whose project moved.
FilesOf(K) == {f \in Open : docs[f].project \in K}
Dropped(K) == [k \in {Root, Dir} |-> IF k \in Moved(K) THEN None ELSE projects[k]]

Dependents ==
  {f \in Open : docs[f].deps \intersect stale.changed # {}} \ Elements(stale.files)
\* The projects of the files to check; a walk up not yet answered is asked.
KeysOf(files) ==
  {IF KnownProject(f) = None THEN ProjectKey ELSE KnownProject(f) :
     f \in files \intersect Open} \ {None}

\* Mutant: a file found in two ways is checked twice.
CheckListTwice ==
  LET files == stale.files \o InOrder(Dependents)
  IN  files \o InOrder(FilesOf(Moved(KeysOf(Elements(files)))))

\* What check_all checks, in order, each once.
CheckList ==
  LET files == stale.files \o InOrder(Dependents)
      moved == FilesOf(Moved(KeysOf(Elements(files))))
  IN  files \o InOrder(moved \ Elements(files))

\* check_all, up to its first check: at the end of a batch, or before r is
\* answered.
CheckAll(r) ==
  /\ todo' = CheckList
  /\ projects' = Dropped(KeysOf(Elements(stale.files) \union Dependents))
  /\ compared' = TRUE
  /\ stale' = NoStale
  /\ request' = r
  /\ at' = "check"

EndOfBatch ==
  /\ at = "apply"
  /\ IF shuttingDown
       THEN /\ at' = "recv" /\ stale' = NoStale
            /\ UNCHANGED <<projects, request, todo, compared>>
       ELSE CheckAll(None)
  /\ UNCHANGED <<worldVars, clientVars, untold, manUntold, docs, shuttingDown,
                 job, published, answer>>

\* Mutant: a shutdown is answered at once.
ChecksFirstNotForShutdown(kind) == kind # "shutdown"

\* A request is answered after the checks the messages before it asked for, a
\* shutdown too.
ChecksFirst(kind) == kind \in {"codeAction", "formatting", "shutdown"}

\* A request: what is stale is checked, and then it is answered.  After a
\* shutdown it is refused.
Requested(kind, f) ==
  /\ Take
  /\ IF shuttingDown
       THEN at' = "apply" /\ UNCHANGED <<shuttingDown, projects, stale, request, todo, compared>>
       ELSE IF ChecksFirst(kind)
         THEN CheckAll([kind |-> kind, file |-> f, key |-> None]) /\ UNCHANGED shuttingDown
         ELSE /\ at' = "apply"
              /\ shuttingDown' = TRUE
              /\ UNCHANGED <<projects, stale, request, todo, compared>>
  /\ UNCHANGED <<worldVars, watches, untold, manUntold, docs, job, published, answer>>

\* `exit`, or a client that is gone.
DidExit ==
  /\ Take /\ at' = "ended"
  /\ UNCHANGED <<worldVars, watches, toldVars, serverVars, stale, request, todo,
                 job, published, answer>>

-----------------------------------------------------------------------------
\* check_one, for the next file: one that is closed is passed over, one that
\* is not on disk has nothing to report, and otherwise its text is read and
\* its project, which may have to be loaded, looked for.
CheckOne ==
  /\ at = "check" /\ todo # <<>>
  /\ LET f == Head(todo)
         key == IF KnownProject(f) # None THEN KnownProject(f)
                ELSE FoundKey
     IN  \/ /\ f \notin Open
            /\ todo' = Tail(todo)
            /\ UNCHANGED <<docs, published, job, at>>
         \/ /\ f \in Open /\ ~OnDisk(f)
            /\ docs' = [docs EXCEPT ![f].deps = {}, ![f].checked = None]
            /\ published' = [published EXCEPT ![f] = Empty]
            /\ todo' = Tail(todo)
            /\ UNCHANGED <<job, at>>
         \/ /\ f \in Open /\ OnDisk(f)
            /\ docs' = IF KnownProject(f) = None
                       THEN [docs EXCEPT ![f].project = ProjectKey] ELSE docs
            /\ job' = [file |-> f, key |-> key, text |-> disk[f], writes |-> 0,
                       seen |-> Stamp(key), said |-> None]
            /\ at' = IF projects[key] = None THEN "load" ELSE "run"
            /\ UNCHANGED <<todo, published>>
  /\ UNCHANGED <<worldVars, clientVars, toldVars, projects, shuttingDown,
                 stale, request, answer>>

\* Project::load, once the manifests were stamped: a project that does not
\* load is not remembered.
Load ==
  /\ at = "load"
  /\ IF manifest \in Unparsed \union Refused
       THEN /\ job' = [job EXCEPT !.said = Failed]
            /\ at' = "record"
            /\ UNCHANGED projects
       ELSE /\ projects' = [projects EXCEPT ![job.key] =
                              [seen |-> job.seen, man |-> manifest]]
            /\ at' = "run"
            /\ UNCHANGED job
  /\ UNCHANGED <<worldVars, clientVars, toldVars, docs, shuttingDown,
                 stale, request, todo, published, answer>>

\* Project::check; a file that went since it was looked for cannot be checked.
Report(f, key) ==
  [read |-> [g \in Closure(f) |-> disk[g]],
   open |-> Closure(f) \intersect Open,
   man |-> projects[key].man]

RunCheck ==
  /\ at = "run"
  /\ job' = [job EXCEPT !.said = IF OnDisk(job.file) THEN Report(job.file, job.key)
                                 ELSE Failed]
  /\ at' = "record"
  /\ UNCHANGED <<worldVars, clientVars, toldVars, serverVars,
                 stale, request, todo, published, answer>>

\* Mutant: the file is not read again.
StillTheText == TRUE

\* The file is read again after the check: it may not be what was read before.
SameText == disk[job.file] = job.text

\* The end of check_one.  A fix is positions in the text the checker read, and
\* is kept if the file still is the text read before.
Record ==
  /\ at = "record"
  /\ LET f == job.file
         deps == IF job.said = Failed THEN {} ELSE DOMAIN job.said.read \ {f}
         fixes == IF job.said = Failed \/ ~SameText THEN None ELSE job.said.read[f]
     IN  /\ docs' = [docs EXCEPT ![f].deps = deps,
                       ![f].checked = [text |-> job.text, fixes |-> fixes,
                                       writes |-> job.writes]]
         /\ published' = [published EXCEPT ![f] = job.said]
  /\ job' = None
  /\ todo' = Tail(todo)
  /\ at' = "check"
  /\ UNCHANGED <<worldVars, clientVars, toldVars, projects, shuttingDown,
                 stale, request, answer>>

-----------------------------------------------------------------------------
\* The checks are done.
Checked(kind) == at = "check" /\ todo = <<>> /\ request # None /\ request.kind = kind
Answered == request' = None /\ at' = "apply"

BatchDone ==
  /\ at = "check" /\ todo = <<>> /\ request = None
  /\ at' = "recv"
  /\ UNCHANGED <<worldVars, clientVars, toldVars, serverVars,
                 stale, request, todo, job, published, answer>>

ShutDown ==
  /\ Checked("shutdown")
  /\ shuttingDown' = TRUE
  /\ Answered
  /\ UNCHANGED <<worldVars, clientVars, toldVars, docs, projects,
                 stale, todo, job, published, answer>>

\* code_actions: the fixes of the last check, if the client still has the text
\* that was checked.
Offered(f) ==
  IF docs[f] = None THEN None
  ELSE LET doc == docs[f]
           buffer == IF doc.buffer = None THEN disk[f] ELSE doc.buffer
       IN  IF /\ doc.buffer # Unsynced
              /\ doc.checked # None /\ doc.project # None
              /\ buffer = doc.checked.text
              /\ projects[doc.project] # None
              /\ doc.checked.fixes # None
           THEN [of |-> doc.checked.fixes, for |-> buffer,
                 writes |-> doc.checked.writes]
           ELSE None

CodeAction ==
  /\ Checked("codeAction")
  /\ answer' = Offered(request.file)
  /\ Answered
  /\ UNCHANGED <<worldVars, clientVars, toldVars, serverVars,
                 stale, todo, job, published>>

\* formatting(): a project that moved is dropped, and its open files checked,
\* before the buffer is formatted with it.
Formatting ==
  /\ Checked("formatting")
  /\ IF docs[request.file] # None /\ docs[request.file].buffer = Unsynced
       THEN Answered /\ UNCHANGED <<projects, todo>>
       ELSE /\ todo' = InOrder(FilesOf(Moved({FoundKey})))
            /\ projects' = Dropped({FoundKey})
            /\ request' = [request EXCEPT !.kind = "format", !.key = FoundKey]
            /\ UNCHANGED at
  /\ UNCHANGED <<worldVars, clientVars, toldVars, docs, shuttingDown,
                 stale, job, published, answer>>

\* The text to format: the buffer, or the disk where there is none.
HasText(f) == OnDisk(f) \/ (docs[f] # None /\ docs[f].buffer # None)

\* Formatting loads the project if it has to: here in one step.
Format ==
  /\ Checked("format")
  /\ projects' =
       IF /\ HasText(request.file)
          /\ projects[request.key] = None
          /\ manifest \notin Unparsed \union Refused
       THEN [projects EXCEPT ![request.key] =
               [seen |-> Stamp(request.key), man |-> manifest]]
       ELSE projects
  /\ Answered
  /\ UNCHANGED <<worldVars, clientVars, toldVars, docs, shuttingDown,
                 stale, todo, job, published, answer>>

Next ==
  \/ \E f \in Files :
       \/ \E t \in MayHold[f] : Write(f, t)
       \/ \E t \in MayHold[f] \ {None} : DidOpen(f, t)
       \/ \E t \in (MayHold[f] \ {None}) \union {Unsynced} : DidChange(f, t)
       \/ DidSave(f) \/ DidClose(f)
       \/ \E kind \in {"codeAction", "formatting"} : Requested(kind, f)
  \/ \E m \in Manifests : WriteManifest(m)
  \/ DidChangeWatchedFiles \/ Requested("shutdown", None) \/ DidExit
  \/ EndOfBatch
  \/ CheckOne \/ Load \/ RunCheck \/ Record
  \/ BatchDone \/ ShutDown \/ CodeAction \/ Formatting \/ Format

Spec == Init /\ [][Next]_vars

-----------------------------------------------------------------------------
\* The type invariant; a file is on the list of a round of checks once.
TypeOK ==
  /\ disk \in [Files -> Texts \union {None}]
  /\ manifest \in Manifests
  /\ at \in {"recv", "apply", "check", "load", "run", "record", "ended"}
  /\ Elements(stale.files) \subseteq Files /\ stale.changed \subseteq Files
  /\ \A i, j \in DOMAIN todo : todo[i] = todo[j] => i = j
  /\ at \in {"load", "run", "record"} <=> job # None
  /\ job # None => Head(todo) = job.file /\ job.file \in Open
  /\ \A f \in Open : docs[f].deps \subseteq Files /\ docs[f].project \in {None, Root}

\* What the client shows of f is what checking f now would report, but for what
\* the server has not been told of.
Current(f) ==
  LET said == published[f] IN
  /\ f \notin Open => said = Empty
  /\ f \in Open /\ said = Empty => ~OnDisk(f) \/ f \in untold
  /\ f \in Open /\ said = Failed =>
       manUntold \/ f \in untold \/ manifest \in Unparsed \union Refused
  /\ f \in Open /\ said \notin {Empty, Failed} =>
       /\ \A g \in DOMAIN said.read \ untold : said.read[g] = disk[g]
       /\ said.open = DOMAIN said.read \intersect Open
       /\ manUntold \/ said.man = manifest

\* When the server waits, what the client shows is current: every open file
\* that requires a file that was saved, opened or closed, however many requires
\* away and however the messages were batched, was checked after it; and, for a
\* client that watches files, after the manifests changed.
PublishedIsCurrent ==
  at = "recv" /\ ~shuttingDown => \A f \in Files : Current(f)

\* So it is when a request is answered, or a shutdown: what the messages before
\* it made stale was checked first.
AnswersFollowChecks ==
  [][shuttingDown' # shuttingDown \/ (at = "check" /\ at' = "apply") =>
       \A f \in Files : Current(f)]_vars

\* When the server waits, the open files of a project that could be checked
\* were checked with the same manifests, watched or not: no project is rebuilt
\* for some of its files.
RebuiltTogether ==
  at = "recv" /\ ~shuttingDown =>
    \A f, g \in Open :
      /\ docs[f].project = docs[g].project /\ docs[f].project # None
      /\ published[f] \notin {Empty, Failed} /\ published[g] \notin {Empty, Failed}
      => published[f].man = published[g].man

\* The edits of a code action are positions in the buffer they are made for:
\* the text the checker read is the client's text, whatever was written while
\* the check ran or typed since.  (A file written twice during one check, away
\* and back, is not noticed.)
ActionsFitTheBuffer ==
  answer # None /\ answer.writes <= 1 => answer.of = answer.for

\* What the module doc says of the comparison of manifests: if any differs,
\* every open file of the project is checked, not only the one that asked.
EveryOpenFileIsRechecked ==
  at = "recv" /\ ~shuttingDown /\ compared =>
    \A f, g \in Open \ untold :
      /\ docs[f].project = docs[g].project /\ docs[f].project # None
      /\ published[f] \notin {Empty, Failed} /\ published[f].man = manifest
      /\ OnDisk(g)
      => published[g] \notin {Empty, Failed} /\ published[g].man = manifest
=============================================================================
