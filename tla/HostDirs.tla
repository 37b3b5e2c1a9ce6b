------------------------------ MODULE HostDirs ------------------------------
(***************************************************************************)
(* A host that serves directories of modules while files come and go in     *)
(* them.  The run asks a TealResolver (htl-core/src/pkg.rs), which looks in  *)
(* the directories at every `require`; the check asks the resolver of the    *)
(* project model (model.rs, model/resolver.rs), whose table was read when    *)
(* the host set it up.  The table is read again before a file it does not    *)
(* have is checked, and, once the host is known to be running, for a name    *)
(* it does not have when a directory now does.                              *)
(***************************************************************************)
EXTENDS Resolver

VARIABLES
    project,  \* the directories, as the host described them; they never change
    disk,     \* the files in them
    table,    \* the files the checker's table was made from
    live      \* `watch_model` was called: the table is a running host's

vars == <<project, disk, table, live>>

\* Mutant: a file that a nested root owns is served by the outer one as well.
ServedWhole(p) == {[module |-> r.module, dir |-> r.dir, inner |-> {}] : r \in WalkRoots(p)}

\* The directories a run is served from: every root but the contracts', without
\* what is under another root inside it.
Served(p) ==
    {[module |-> r.module, dir |-> r.dir,
      inner |-> {o.dir : o \in {o \in Roots(p) : IsStrictPrefix(r.dir, o.dir)}}] :
        r \in WalkRoots(p)}

\* The files the served directories have under a name, read at the `require`.
Serves(p, files, n) ==
    UNION {{[module |-> s.module, file |-> f] :
              f \in {g \in {Below(s.dir, c) : c \in Candidates(p.modules[s.module].mount, n)} :
                       g \in files /\ ~\E i \in s.inner : IsPrefix(i, g.dir)}} :
             s \in Served(p)}

\* What the run does with a `require`: loads a file, refuses, or steps aside
\* for the next resolver, a declaration noted or not.  Files can be read: a Lua
\* file that cannot is as if absent, and any other makes the `require` raise
\* before anything is read again or loaded.
Run(p, files, n) ==
    LET of == Serves(p, files, n)
        tl == {x \in of : x.file.ext = "tl"}
        others == IF Cardinality(Served(p)) > 1 THEN {x \in of : x.file.ext = "lua"} ELSE {}
    IN  IF Cardinality(tl) > 1 \/ Cardinality({x.module : x \in tl \cup others}) > 1
        THEN [kind |-> "ambiguous"]
        ELSE IF tl # {} THEN [kind |-> "loaded", file |-> (CHOOSE x \in tl : TRUE).file]
        ELSE [kind |-> "aside", declared |-> \E x \in of : x.file.ext = "d.tl"]

\* `apply_model` and `from_project`, on the same directories.
Init ==
    /\ project \in Projects
    /\ disk \in SUBSET project.files
    /\ table = Walked(project, disk)
    /\ live = FALSE

\* Somebody puts a file into a directory, or takes one out.
Added(f) ==
    /\ f \notin disk
    /\ disk' = disk \cup {f}
    /\ UNCHANGED <<project, table, live>>

Removed(f) ==
    /\ f \in disk
    /\ disk' = disk \ {f}
    /\ UNCHANGED <<project, table, live>>

\* `require(n)` of the run: `refresh_if_unknown`, before the file is checked.
Load(n) ==
    LET answer == Run(project, disk, n)
    IN  /\ answer.kind = "loaded"
        /\ live' = TRUE
        /\ table' = IF answer.file \in table THEN table ELSE Walked(project, disk)
        /\ UNCHANGED <<project, disk>>

\* The table a name is answered from: a new one, when the name is outside the
\* one there is and a directory gained a file of it.
TableFor(requirer, name) ==
    IF /\ Resolve(project, table, requirer, name).kind \in {"outside", "missing"}
       /\ live
       /\ Gained(project, table, disk, name)
    THEN Walked(project, disk) ELSE table

\* A check asks for a name: `resolve_name`.
Ask(requirer, name) ==
    /\ table' = TableFor(requirer, name)
    /\ UNCHANGED <<project, disk, live>>

Next ==
    \/ \E f \in project.files : Added(f) \/ Removed(f)
    \/ \E n \in Names(project) : Load(n)
    \/ \E n \in Names(project), r \in disk \cup {None} : Ask(r, Plain(n))

Spec == Init /\ [][Next]_vars
-----------------------------------------------------------------------------
\* The table holds files of the directories only.
TypeOK ==
    /\ project \in Projects
    /\ disk \subseteq project.files
    /\ table \subseteq Walked(project, project.files)
    /\ live \in BOOLEAN

\* What a run and a check make of one name: the same file, a refusal of both,
\* or nothing of the directories to run.
Agree(run, check) ==
    CASE run.kind = "loaded" -> check.kind = "found" /\ check.impl = run.file
      [] run.kind = "ambiguous" -> check.kind = "ambiguous"
      [] OTHER -> \/ check.kind = "outside" /\ ~run.declared
                  \/ /\ check.kind = "found" /\ check.impl = None
                     /\ run.declared = (check.decl # None)

\* The table has nothing under the name, or what the directories have.
UpToDate(n) ==
    Claims(project, table, n) \in {{}, Claims(project, Walked(project, disk), n)}

\* No file of the name is where the walk does not go, in a contract directory
\* or of a name with a dot in it, and the host has no module of the name.
Ordinary(n) ==
    /\ n \notin project.provided
    /\ \A f \in disk : Placed[project][f] # None /\ Placed[project][f].name = n =>
         /\ f \in Walked(project, disk)
         /\ Owner(project, Placed[project][f].module) # "contract"
         /\ Len(f.stem) = 1

\* A running host's modules are checked against what runs: whatever was dropped
\* into the directories or taken out, in whatever order, a name is the same file
\* to the check and to the run or an error to both (pkg.rs, `from_project`) -
\* unless the table has other files of the name than the directories do.
OneDescription ==
    live => \A n \in Names(project) : UpToDate(n) /\ Ordinary(n) =>
      Agree(Run(project, disk, n),
            Resolve(project, TableFor(None, Plain(n)), None, Plain(n)))

\* A name a directory gained is in the table once that is read again, and no
\* name has every check read it again (model/resolver.rs, `gained`).
GainedSettles ==
    \A n \in Names(project) : Gained(project, table, disk, Plain(n)) =>
      LET fresh == Walked(project, disk)
      IN  /\ ~Gained(project, fresh, disk, Plain(n))
          /\ ~(Claims(project, fresh, n) \subseteq Claims(project, table, n))

\* Without the first condition of OneDescription: what the doc says.
AlwaysOneDescription ==
    live => \A n \in Names(project) : Ordinary(n) =>
      Agree(Run(project, disk, n),
            Resolve(project, TableFor(None, Plain(n)), None, Plain(n)))

\* Without the second.
OneDescriptionOfAll ==
    live => \A n \in Names(project) : UpToDate(n) =>
      Agree(Run(project, disk, n),
            Resolve(project, TableFor(None, Plain(n)), None, Plain(n)))

\* No name of the table is answered with a contract directory's file.
ContractsLeftOut ==
    \A n \in Names(project) : \A e \in Claims(project, table, n) :
      Owner(project, e.module) # "contract"

\* A name a file was checked with is the same file to the run, which asks under
\* the name the generated code has and says nothing of who asks.
RunAsChecked ==
    \A n \in Names(project), f \in disk :
      LET check == Resolve(project, table, f, Plain(n))
      IN  From(project, f) # None /\ check.kind = "found" =>
            Resolve(project, table, None, Rewrite(project, f, n)) = check
=============================================================================
