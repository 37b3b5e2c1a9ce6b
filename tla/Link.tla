-------------------------------- MODULE Link --------------------------------
(***************************************************************************)
(* The link of a bundle (htl-core/src/link.rs): from the entry, every        *)
(* `require` with a literal name is followed once per name, breadth first,   *)
(* until nothing is left to take.  Whether a name is bundled is asked of the *)
(* project's resolver twice: with the requiring file, as the check asked it, *)
(* and with no file, as a run will.                                         *)
(*                                                                         *)
(* Here a project also has the `require`s of its files in order, an entry,   *)
(* the names of `[build] extra`, and those the caller says the host has.     *)
(* What a module says beyond its `require`s is left out, and so are the      *)
(* store, the payloads, `htl.trait`, and names only `package.path` has.      *)
(***************************************************************************)
EXTENDS Resolver

CONSTANT Programs  \* the projects that are linked, with what their files require

ASSUME ProgramsTyped ==
    /\ Programs \subseteq Projects
    /\ \A p \in Programs :
         /\ p.requires \in [p.files -> Seq([name : Seq(STRING), erased : BOOLEAN])]
         /\ p.extra \in Seq([by : STRING, of : Seq(STRING)])
         /\ p.entry \in Walked(p, p.files) /\ p.entry.ext = "tl" /\ Placed[p][p.entry] # None
         /\ p.imports \in Seq([key : Seq(STRING), own : BOOLEAN, to : Seq(STRING)])
\* No dependency is called as the two other kinds of name are written here.
ASSUME ImportsTyped ==
    \A p \in Programs : \A i \in DOMAIN p.imports :
      ~p.imports[i].own => Head(p.imports[i].to) \notin {"anyone", "own"}

VARIABLES
    program,  \* the project; nothing of it changes while it is linked
    sources,  \* the files of it there are
    queue,    \* the modules to take: a name and its file, in order
    queued,   \* every name that was ever put there
    host,     \* the names filed with the host's
    taken,    \* the modules taken from the queue
    failed,   \* an error was recorded: no bundle is handed out
    stage     \* the extra modules first, then the queue

linkVars == <<program, sources, queue, queued, host, taken, failed, stage>>

Known(p, files) == Walked(p, files)
Answer(requirer, name) == Resolve(program, Known(program, sources), requirer, name)

\* The file a search answers with: an implementation, else a declaration, else
\* plain Lua; a hidden file is answered with itself, a shadowed name with its
\* declaration.
FirstFound(answer) ==
    IF answer.impl # None THEN answer.impl
    ELSE IF answer.decl # None THEN answer.decl ELSE answer.lua
Searched(answer) ==
    CASE answer.kind = "found" -> FirstFound(answer)
      [] answer.kind = "hidden" -> answer.file
      [] answer.kind = "shadowed" -> answer.decl
      [] OTHER -> None

Typed(f) == f.ext # "lua"
Sites(f) == program.requires[f]

\* The name a site is followed under: both kinds of file are parsed through the
\* wrapper that rewrites names.
Followed(f, site) == Rewrite(program, f, site.name)

\* The check of a typed file finds an error at a `require`, erased or not: no file
\* with types, the file itself, or a name it may not have.
ErrorAt(f, answer) ==
    \/ answer.kind # "found"
    \/ answer.impl = None /\ answer.decl = None
    \/ Searched(answer) = f
Rejected(f) ==
    Typed(f) /\ \E i \in DOMAIN Sites(f) : ErrorAt(f, Answer(f, Followed(f, Sites(f)[i])))

\* `model_provides`: the host has the name, or the project only a declaration.
Provided(name, run) ==
    \/ name.by = "anyone" /\ name.of \in program.provided
    \/ /\ run.kind = "found" /\ run.decl # None
       /\ run.impl = None /\ run.lua = None

PlainLua(run) == IF run.kind = "found" THEN run.lua ELSE None

\* Mutant: a declaration is the host's, whatever is behind it.
ClassifyDeclared(name, run, found) ==
    IF found = None THEN [kind |-> "missing"]
    ELSE IF found.ext = "d.tl" THEN [kind |-> "host"]
    ELSE [kind |-> "file", file |-> found]

\* What a name is to the linker: `run` is what a run would be answered, `found` the
\* file a search found.
Classify(name, run, found) ==
    LET declared == found = None \/ found.ext = "d.tl"
    IN  IF ~declared THEN [kind |-> "file", file |-> found]
        ELSE IF run.kind = "shadowed" THEN [kind |-> "shadowed"]
        ELSE IF found = None THEN [kind |-> IF run.kind = "ambiguous" THEN "ambiguous" ELSE "missing"]
        ELSE IF Provided(name, run) \/ PlainLua(run) = None THEN [kind |-> "host"]
        ELSE [kind |-> "file", file |-> PlainLua(run)]

\* The search is the requirer's own, when it found a file, or a run's.
Target(name, run, path) == Classify(name, run, IF path # None THEN path ELSE Searched(run))

\* The walk's own state, as one value to fold over.
Walk == [queue |-> queue, queued |-> queued, host |-> host, failed |-> failed]
Becomes(w) ==
    /\ queue' = w.queue /\ queued' = w.queued /\ host' = w.host /\ failed' = w.failed

Queue(w, name, file) == [w EXCEPT !.queue = Append(@, [name |-> name, file |-> file]),
                                  !.queued = @ \cup {name}]
File(w, name) == [w EXCEPT !.host = @ \cup {name}]
Fail(w) == [w EXCEPT !.failed = TRUE]

\* A site whose name is followed now: the host's, as the caller said or as it was
\* filed already, or whatever the name is.
FollowHost(w, f, name) ==
    IF ~Typed(f) /\ Answer(None, name).kind = "shadowed" THEN Fail(w) ELSE File(w, name)
FollowTarget(w, f, name, target) ==
    CASE target.kind = "file" -> Queue(w, name, target.file)
      [] target.kind = "host" -> File(w, name)
      [] target.kind = "missing" -> Fail(w)
      [] target.kind = "ambiguous" -> IF Typed(f) THEN w ELSE Fail(w)
      [] target.kind = "shadowed" -> IF Typed(f) THEN File(w, name) ELSE Fail(w)
FollowName(w, f, name) ==
    IF name \in w.queued THEN w
    ELSE IF name \in program.hosts \cup w.host THEN FollowHost(w, f, name)
    ELSE FollowTarget(w, f, name,
                      Target(name, Answer(None, name), Searched(Answer(f, name))))

\* Mutant: what the generator erased is followed with the rest.
FollowErased(w, f, site) == FollowName(w, f, Followed(f, site))

\* One `require` of a taken module; the generator erased some.
Follow(w, f, site) == IF site.erased THEN w ELSE FollowName(w, f, Followed(f, site))

\* A module of `[build] extra`.
ExtraOf(w, name, target) ==
    CASE target.kind = "file" ->
           IF name \in w.queued THEN w ELSE Queue(w, name, target.file)
      [] target.kind = "host" -> File(w, name)
      [] OTHER -> Fail(w)
Extra(w, name) == ExtraOf(w, name, Target(name, Answer(None, name), None))

ExtraAll(w) == FoldLeft(Extra, w, program.extra)
FollowAll(w, f) == FoldLeft(LAMBDA v, site : Follow(v, f, site), w, Sites(f))

EntryName(p) == Plain(Placed[p][p.entry].name)

LinkInit ==
    /\ program \in Programs
    /\ sources \in {files \in SUBSET program.files : program.entry \in files}
    /\ queue = <<[name |-> EntryName(program), file |-> program.entry]>>
    /\ queued = {EntryName(program)}
    /\ host = {}
    /\ taken = {}
    /\ failed = FALSE
    /\ stage = "extras"

\* The names of `[build] extra`, before anything is taken.
TakeExtras ==
    /\ stage = "extras"
    /\ stage' = "walking"
    /\ Becomes(ExtraAll(Walk))
    /\ UNCHANGED <<program, sources, taken>>

\* One turn of the loop: the first module of the queue, checked if it is typed,
\* and what it requires followed - of a module with an error too.
Take ==
    /\ stage = "walking" /\ queue # <<>>
    /\ LET m == Head(queue)
           left == [Walk EXCEPT !.queue = Tail(@), !.failed = @ \/ Rejected(m.file)]
       IN  /\ Becomes(FollowAll(left, m.file))
           /\ taken' = taken \cup {m}
    /\ UNCHANGED <<program, sources, stage>>

LinkNext == TakeExtras \/ Take

LinkSpec == LinkInit /\ [][LinkNext]_linkVars
-----------------------------------------------------------------------------
\* The modules with code: a typed one the check refused has none.
Bundle == {m \in taken : ~Rejected(m.file)}

\* `Linked::bundle` hands the bundle out.
HandedOut == stage = "walking" /\ queue = <<>> /\ ~failed

\* The name the bundled code asks for: a plain Lua file is bundled as it is.
Written(f, site) == IF Typed(f) THEN Followed(f, site) ELSE Plain(site.name)

\* Some of the files of a name are hidden from a file that asks for it.
SeesPart(f, name) ==
    /\ name.by = "anyone"
    /\ \E e \in Claims(program, Known(program, sources), name.of) : Hides(program, f, e)

\* The unerased names a file is followed by.
AsksFor(f) == {Followed(f, site) : site \in {site \in Range(Sites(f)) : ~site.erased}}

\* Nobody who asks for a name sees but a part of its files.
SeenWhole(name) == \A m \in taken : name \in AsksFor(m.file) => ~SeesPart(m.file, name)

Files(name) == {m.file : m \in {m \in Bundle : m.name = name}}

\* A bundle has for a name what the check of the file that requires it saw: the
\* implementation, the plain Lua behind its declaration, or a note that the host
\* has the module.
Runs(answer) ==
    IF answer.kind # "found" THEN None
    ELSE IF answer.impl # None THEN answer.impl ELSE answer.lua
AsAnswered(name, answer, runs) ==
    IF name \in program.hosts THEN name \in host \cup queued
    ELSE /\ answer.kind = "found"
         /\ IF runs # None THEN Files(name) = {runs} /\ name \notin host
            ELSE Files(name) = {} /\ name \in host
AsChecked(f, site) ==
    LET answer == Answer(f, Followed(f, site))
    IN  AsAnswered(Written(f, site), answer, Runs(answer))

\* The entry is bundled under its name, which other files may have as well.
EntryIsClear == Answer(None, EntryName(program)).kind = "found"

\* A bundle that is handed out is whole, and is what was checked: "module not
\* found" does not happen on the customer's machine, and no module is another
\* file than the one its requirer was checked against (link.rs, 9-11), whichever
\* requirer came first - unless the code asks for another name than the one that
\* was followed, one of those who ask sees only a part of what a run does, or the
\* name is the entry's and somebody else's too.
LinkedAsChecked ==
    HandedOut => \A m \in Bundle : \A site \in Range(Sites(m.file)) :
      LET name == Followed(m.file, site)
      IN  /\ ~site.erased /\ Written(m.file, site) = name /\ SeenWhole(name)
          /\ name = EntryName(program) => EntryIsClear
          => AsChecked(m.file, site)

\* With the second exception for the requirer's own sake only.
LinkedWhoeverAsksFirst ==
    HandedOut => \A m \in Bundle : \A site \in Range(Sites(m.file)) :
      LET name == Followed(m.file, site)
      IN  /\ ~site.erased /\ Written(m.file, site) = name /\ ~SeesPart(m.file, name)
          /\ name = EntryName(program) => EntryIsClear
          => AsChecked(m.file, site)

\* Without the first exception: what the doc says.
BundleIsWhole ==
    HandedOut => \A m \in Bundle : \A site \in Range(Sites(m.file)) :
      ~site.erased => Written(m.file, site) \in queued \cup host

\* A name is taken once, whoever asks for it and however often, and nothing is
\* bundled or asked of the host but the entry, the extra modules and what the code
\* of a taken module asks for: types that leave no `require` behind bring nothing.
OnlyWhatRuns ==
    /\ {m.name : m \in Range(queue) \cup taken} = queued
    /\ Cardinality(queued) = Len(queue) + Cardinality(taken)
    /\ \A name \in queued \cup host :
         \/ name = EntryName(program) \/ name \in Range(program.extra)
         \/ \E m \in taken : name \in AsksFor(m.file)
=============================================================================
