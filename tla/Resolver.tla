------------------------------ MODULE Resolver ------------------------------
(***************************************************************************)
(* Which file a module name is, asked from a file (htl-core/src/naming.rs   *)
(* and model/resolver.rs).  A project is modules with their roots; a file  *)
(* has one name, by the root that holds it most specifically; the table a   *)
(* resolver answers from is the set of files its walk of the roots met.     *)
(*                                                                         *)
(* A directory and a dotted name are sequences of segments, so `a.b` in     *)
(* a/b.tl is <<"a", "b">>.  A name as it is written in a `require` is one   *)
(* anybody may answer, or `@/n`, the project's own, or `@dep/n`.            *)
(***************************************************************************)
EXTENDS Naturals, Sequences, FiniteSets, SequencesExt

CONSTANTS
    Projects,  \* the projects: modules, imports and the names the host provides
    Skipped,   \* the directory names a walk does not enter: target, .git, ...
    None       \* no file, no place, no requirer

Exts == {"tl", "d.tl", "lua"}
Dependencies == {"installed", "vendored", "patched"}

Plain(n) == [by |-> "anyone", of |-> n]
OwnName(n) == [by |-> "own", of |-> n]
DepName(d, n) == [by |-> d, of |-> n]

\* A file's name under a mount: `init` names its directory, and so does the
\* file at the top of a mounted module that is called as the mount is.
NameOf(mount, dir, stem) ==
    mount \o dir \o
      IF \/ stem = <<"init">>
         \/ dir = <<>> /\ mount # <<>> /\ stem = <<Last(mount)>>
      THEN <<>> ELSE stem

\* The paths below a root whose file could have the name: the rule above read
\* backwards, so that none is kept that it does not name back.
Candidates(mount, name) ==
    LET rest == SubSeq(name, Len(mount) + 1, Len(name))
        spelled == IF rest = <<>>
                   THEN {<<<<>>, <<Last(mount)>>>>, <<<<>>, <<"init">>>>}
                   ELSE {<<Front(rest), <<Last(rest)>>>>, <<rest, <<"init">>>>}
    IN  IF ~IsPrefix(mount, name) THEN {}
        ELSE {[dir |-> s[1], stem |-> s[2], ext |-> e] :
                s \in {s \in spelled : NameOf(mount, s[1], s[2]) = name}, e \in Exts}

Below(root, c) == [c EXCEPT !.dir = root \o c.dir]

\* Every root of every module, in the order the project lists them.
RoleOrder == [source |-> 1, test |-> 2, decl |-> 3]
Roots(p) == UNION {{[module |-> i, role |-> r.role, dir |-> r.dir] : r \in p.modules[i].roots} :
                     i \in DOMAIN p.modules}
Listed(r) == 3 * r.module + RoleOrder[r.role]

Owner(p, i) == p.modules[i].owner

WalkSkips(root, dir) == \E i \in Len(root) + 1 .. Len(dir) : dir[i] \in Skipped

\* The roots a walk starts from: each contract directory holds the names the
\* next one does, and is no root of the walk.
WalkRoots(p) == {r \in Roots(p) : Owner(p, r.module) # "contract"}

\* The root whose walk meets a file first.
Met(p, f) ==
    LET met == {Listed(r) : r \in {r \in WalkRoots(p) :
                  IsPrefix(r.dir, f.dir) /\ ~WalkSkips(r.dir, f.dir)}}
    IN  IF met = {} THEN 0 ELSE Min(met)

\* The root that holds a file most specifically names it; of two that are the
\* same directory the last one listed does.
Place(p, f) ==
    LET holding == {r \in Roots(p) : IsPrefix(r.dir, f.dir)}
        r == CHOOSE r \in holding : \A q \in holding :
               \/ Len(q.dir) < Len(r.dir)
               \/ Len(q.dir) = Len(r.dir) /\ Listed(q) <= Listed(r)
        name == NameOf(p.modules[r.module].mount,
                       SubSeq(f.dir, Len(r.dir) + 1, Len(f.dir)), f.stem)
    IN  IF holding = {} \/ name = <<>> THEN None
        ELSE [file |-> f, module |-> r.module, name |-> name, root |-> Met(p, f),
              role |-> IF r.role = "test" THEN "test"
                       ELSE IF f.ext = "d.tl" THEN "decl" ELSE "source"]

Placed == [p \in Projects |-> [f \in p.files |-> Place(p, f)]]

\* Every name a file could be asked for by.
Names(p) == {Placed[p][f].name : f \in {f \in p.files : Placed[p][f] # None}} \cup p.asked

\* What a file is placed as.
Places(p) ==
    [file : p.files, module : DOMAIN p.modules, name : Seq(STRING), root : Nat,
     role : {"source", "test", "decl"}]

ASSUME ProjectsTyped ==
    \A p \in Projects :
      /\ Len(p.modules) \in Nat /\ DOMAIN p.modules = 1 .. Len(p.modules)
      /\ IsFiniteSet(Roots(p))
      /\ \A r \in Roots(p) : /\ r.dir \in Seq(STRING) /\ r.role \in DOMAIN RoleOrder
                            /\ p.modules[r.module].mount \in Seq(STRING)
      /\ IsFiniteSet(p.files)
      /\ p.files \subseteq [dir : Seq(STRING), stem : Seq(STRING), ext : Exts]
      /\ Names(p) \subseteq Seq(STRING) \ {<<>>}
ASSUME NonePlaced == \A p \in Projects : None \notin p.files \cup Places(p)

\* The files a walk of the roots meets.
Walked(p, files) ==
    {f \in files : \E r \in WalkRoots(p) : IsPrefix(r.dir, f.dir) /\ ~WalkSkips(r.dir, f.dir)}

\* The entries of a name in a table.
Claims(p, known, n) == {e \in {Placed[p][f] : f \in known} \ {None} : e.name = n}

\* Mutant: a spelling is not asked whether the walk would meet it.
GainedAnywhere(p, known, files, name) ==
    \E r \in WalkRoots(p) : \E c \in Candidates(p.modules[r.module].mount, name.of) :
      Below(r.dir, c) \in files \ known

\* A directory of the model holds a file under the name that the table lacks.
Gained(p, known, files, name) ==
    \E r \in WalkRoots(p) : \E c \in Candidates(p.modules[r.module].mount, name.of) :
      LET f == Below(r.dir, c)
      IN  /\ f \in files \ known
          /\ ~WalkSkips(r.dir, f.dir)
          /\ Placed[p][f] # None
          /\ Placed[p][f].module = r.module /\ Placed[p][f].name = name.of

Missing == [kind |-> "missing"]
Outside == [kind |-> "outside"]

\* The first entry of a name: modules in the order the project lists them, then the
\* walk, a root at a time, in which `n/init.tl` comes before `n.d.tl` before `n.lua`
\* before `n.tl`.  (A mounted module is taken to be called something after `init`.)
ExtOrder == [e \in Exts |-> CASE e = "d.tl" -> 0 [] e = "lua" -> 1 [] e = "tl" -> 2]
Rank(e) == (IF e.file.stem = <<"init">> THEN 0 ELSE 3) + ExtOrder[e.file.ext]
Before(e, g) ==
    \/ e.module < g.module
    \/ e.module = g.module /\ e.root < g.root
    \/ e.module = g.module /\ e.root = g.root /\ Rank(e) <= Rank(g)
FirstOf(entries) ==
    IF entries = {} THEN None ELSE (CHOOSE e \in entries : \A g \in entries : Before(e, g)).file

\* The entries of one name as one answer.
Pick(entries) ==
    LET implementations == {e \in entries : e.file.ext # "d.tl"}
        modules == {e.module : e \in implementations}
        Of(ext) == {e \in entries : e.file.ext = ext}
        First(ext) == FirstOf(Of(ext))
    IN  IF entries = {} THEN Missing
        ELSE IF Cardinality(Of("tl")) > 1 \/ Cardinality(modules) > 1
        THEN [kind |-> "ambiguous", files |-> {e.file : e \in implementations}]
        ELSE [kind |-> "found", impl |-> First("tl"), decl |-> First("d.tl"), lua |-> First("lua")]

\* The `[imports]` entry for a name or for a name above it, the first in order.
Importing(p, n) == {i \in DOMAIN p.imports : IsPrefix(p.imports[i].key, n)}
Imported(p, n) ==
    LET i == CHOOSE i \in Importing(p, n) : \A j \in Importing(p, n) : i <= j
        entry == p.imports[i]
        to == entry.to \o SubSeq(n, Len(entry.key) + 1, Len(n))
    IN  IF entry.own THEN OwnName(to) ELSE DepName(Head(entry.to), to)

From(p, requirer) == IF requirer = None THEN None ELSE Placed[p][requirer]
FromOwn(p, requirer) ==
    From(p, requirer) # None /\ Owner(p, From(p, requirer).module) = "own"
FromDependency(p, requirer) ==
    From(p, requirer) # None /\ Owner(p, From(p, requirer).module) \in Dependencies

\* The entries a requirer does not see: a test's helpers if it is no test, and
\* the project's own if it is a dependency's.  Nothing is hidden from a run.
Hides(p, requirer, e) ==
    \/ e.role = "test" /\ From(p, requirer) # None /\ From(p, requirer).role # "test"
    \/ FromDependency(p, requirer) /\ Owner(p, e.module) = "own"

\* An implementation of a name the host provides is refused.
UnlessProvided(p, n, found) ==
    IF n \in p.provided /\ {found.impl, found.lua} # {None}
    THEN [kind |-> "shadowed", decl |-> found.decl] ELSE found

\* `picked` is what the entries the requirer sees make, `hidden` those of the
\* project's own a dependency does not.
PlainAnswer(p, requirer, n, picked, hidden) ==
    IF picked.kind = "found" THEN UnlessProvided(p, n, picked)
    ELSE IF picked.kind = "ambiguous" THEN picked
    ELSE IF FromDependency(p, requirer) /\ hidden # {}
         THEN [kind |-> "hidden", file |-> FirstOf(hidden)] ELSE Outside
ResolvePlain(p, requirer, n, claims) ==
    PlainAnswer(p, requirer, n, Pick({e \in claims : ~Hides(p, requirer, e)}),
                {e \in claims : Owner(p, e.module) = "own" /\ e.role # "test"})

ResolveAs(p, requirer, asked, claims) ==
    CASE asked.by = "anyone" -> ResolvePlain(p, requirer, asked.of, claims)
      [] asked.by = "own" -> Pick({e \in claims : Owner(p, e.module) = "own"})
      [] OTHER -> Pick({e \in claims : /\ p.modules[e.module].name = asked.by
                                       /\ Owner(p, e.module) \in Dependencies})

\* The name that is looked up: an import of the project's own file is applied first.
Asked(p, requirer, name) ==
    IF FromOwn(p, requirer) /\ name.by = "anyone" /\ Importing(p, name.of) # {}
    THEN Imported(p, name.of) ELSE name

Resolve(p, known, requirer, name) ==
    LET asked == Asked(p, requirer, name)
    IN  ResolveAs(p, requirer, asked, Claims(p, known, asked.of))

\* The name a `require` of a plain name is written as in generated Lua.
Rewrite(p, requirer, n) ==
    LET dep == p.modules[From(p, requirer).module].name
        named == \E i \in DOMAIN p.imports : ~p.imports[i].own /\ Head(p.imports[i].to) = dep
    IN  IF FromOwn(p, requirer) /\ Importing(p, n) # {} THEN Imported(p, n)
        ELSE IF FromDependency(p, requirer) /\ named /\ Head(n) = dep THEN DepName(dep, n)
        ELSE Plain(n)
=============================================================================
