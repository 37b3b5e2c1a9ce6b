----------------------------- MODULE ModuleStore -----------------------------
(***************************************************************************)
(* The store of checked modules (htl-core/src/prelude.lua): one checker     *)
(* walks every file in a fresh environment and keeps what the walk of a     *)
(* required module found, so that a later check is served that result in   *)
(* place of a second walk.  A result that is served registers nothing, so  *)
(* the globals a walk would have declared are handed over at the `require` *)
(* from a closure the entry remembers.                                     *)
(*                                                                         *)
(* A check is a run of small steps: an entry is seeded (in any order, as   *)
(* `pairs` gives them), a `require` is answered, a file is finished, the   *)
(* check ends.  The text of a file is what it requires, the globals its    *)
(* top level declares and the globals it reads.  Names are numbers: a walk *)
(* of a table of names visits them sorted.                                 *)
(***************************************************************************)
EXTENDS Naturals, Sequences, FiniteSets, SequencesExt, FiniteSetsExt, Folds

CONSTANTS
    Sources,      \* the files
    ModuleNames,  \* the module names, numbered in the order of their sort
    Dirs,         \* the search paths a file can be checked under
    Globals,      \* the global names
    Projects,     \* the projects: what the files say and where names are found
    MaxChecks,    \* bound: checks in one behaviour
    Nil           \* no file, no entry, no module

ASSUME NamesAssumption == IsFiniteSet(ModuleNames) /\ ModuleNames = 1 .. Cardinality(ModuleNames)
ASSUME SourcesAssumption == IsFiniteSet(Sources)
ASSUME ProjectsAssumption ==
    Projects \subseteq [find : [Dirs -> [ModuleNames -> Sources \cup {Nil}]],
                        reqs : [Sources -> Seq(ModuleNames)],
                        decl : [Sources -> SUBSET Globals],
                        uses : [Sources -> SUBSET Globals]]

\* What the walk of a file found, and what the store keeps of it.
Result == [walk : Nat, file : Sources, deps : [ModuleNames -> Sources \cup {Nil}],
           errs : SUBSET (Globals \cup ModuleNames)]
Entry == [result : Result, closure : (SUBSET Globals) \cup {Nil}]
\* An entry is made for a name and the file it was found at.
Slots == ModuleNames \X Sources

ASSUME NilAssumption ==
    /\ Nil \notin Sources /\ Nil \notin Nat
    /\ Nil \notin Result /\ Nil \notin Entry /\ \A G \in SUBSET Globals : Nil # G
ASSUME BoundAssumption == MaxChecks \in Nat

VARIABLES
    project,  \* the project on disk; no file is edited while the checks run
    entries,  \* slot -> its entry: the result of a walk, and the closure kept on it
    store,    \* name -> the file of the entry it holds
    byFile,   \* file -> the name of the entry the index holds
    env,      \* the environment of the running check
    stack,    \* the files being walked, innermost last
    asked,    \* the running check
    checks,   \* how many checks were begun
    walks,    \* how many walks there were: the identity of a result
    said      \* what the checks that ended answered

storeVars == <<project, entries, store, byFile, env, stack, asked, checks, walks, said>>

Found(n) == project.find[asked.dir][n]
\* Where the names are found.
Places == {slot \in Slots : \E d \in Dirs : project.find[d][slot[1]] = slot[2]}

\* A module's type in an environment: the walk it came from, or the
\* placeholder of a module still being walked.
Circular == 0
NewEnv == [modules |-> [n \in ModuleNames |-> Nil], filenames |-> [n \in ModuleNames |-> Nil],
           loaded |-> [f \in Sources |-> Nil], globals |-> {}]

NoCheck == [phase |-> "idle", file |-> Nil, dir |-> Nil, cold |-> FALSE, toSeed |-> {}]

-----------------------------------------------------------------------------
(* The closure of an entry                                                 *)

\* The entry the index has of a file.
SlotOf(f) == <<byFile[f], f>>

\* A call of globals_below is made for an entry, with the one `visited` that serves the
\* whole recursion and the closures the entries keep; it leaves both, and its answer.
Query == [slot : Slots, visited : SUBSET Sources, memo : [Slots -> (SUBSET Globals) \cup {Nil}]]
Ask(slot, visited, memo) == [slot |-> slot, visited |-> visited, memo |-> memo]

\* What a file named in a result adds, unless it has no entry or was visited.
Gathered(acc, d, below) ==
    IF d = Nil \/ byFile[d] = Nil \/ d \in acc.visited THEN acc
    ELSE LET r == below[Ask(SlotOf(d), acc.visited, acc.memo)] IN [r EXCEPT !.out = @ \cup acc.out]

GatheredAll(start, deps, below) ==
    MapThenFoldSet(LAMBDA n, acc : Gathered(acc, deps[n], below), start,
                   LAMBDA n : n, Max, ModuleNames)

\* One call, where `below` answers the calls it makes, name by name.  It keeps its answer
\* on its entry.
GlobalsOf(q, below) ==
    IF q.memo[q.slot] # Nil
    THEN [visited |-> q.visited, memo |-> q.memo, out |-> q.memo[q.slot]]
    ELSE LET f == q.slot[2]
             start == [visited |-> q.visited \cup {f}, memo |-> q.memo, out |-> project.decl[f]]
             end == GatheredAll(start, entries[q.slot].result.deps, below)
         IN  [end EXCEPT !.memo[q.slot] = end.out]

Closures == [s \in Slots |-> IF entries[s] = Nil THEN Nil ELSE entries[s].closure]

\* globals_below: the globals a require of an entry's module brings into scope.  No call
\* is nested deeper than there are files.
GlobalsBelow(slot) ==
    LET below[depth \in 0 .. Cardinality(Sources)] ==
            [q \in Query |-> IF depth = 0 THEN [visited |-> q.visited, memo |-> q.memo, out |-> {}]
                             ELSE GlobalsOf(q, below[depth - 1])]
    IN  below[Cardinality(Sources)][Ask(slot, {}, Closures)]

Remember(memo) ==
    [s \in Slots |-> IF entries[s] = Nil THEN Nil ELSE [entries[s] EXCEPT !.closure = memo[s]]]

-----------------------------------------------------------------------------
(* One check                                                               *)

\* H.check: a fresh environment for file f under search path d.  `cold` is
\* H.check_written, which neither seeds nor stores.
Begin(f, d, cold) ==
    /\ asked.phase = "idle"
    /\ f \in {project.find[d][n] : n \in ModuleNames}
    /\ checks < MaxChecks
    /\ checks' = checks + 1
    /\ asked' = [phase |-> "seed", file |-> f, dir |-> d, cold |-> cold,
                 toSeed |-> IF cold THEN {} ELSE {n \in ModuleNames : store[n] # Nil}]
    /\ env' = NewEnv
    /\ UNCHANGED <<project, entries, store, byFile, stack, walks, said>>

\* Mutated form: an entry with a global below it is not seeded, so that its requirers
\* walk the file again.
SeedWholeOnly(n) ==
    /\ asked.phase = "seed"
    /\ n \in asked.toSeed
    /\ asked' = [asked EXCEPT !.toSeed = @ \ {n}]
    /\ LET f == store[n]
           r == entries[<<n, f>>].result
       IN  IF Found(n) = f /\ GlobalsBelow(<<n, f>>).out = {}
           THEN env' = [env EXCEPT !.loaded[f] = r, !.filenames[n] = f, !.modules[n] = r.walk]
           ELSE UNCHANGED env
    /\ UNCHANGED <<project, checks, entries, byFile, store, stack, walks, said>>

\* seed_env, one entry: taken when its name is still found at its file; whole
\* when no global is below it, else by its result only.
SeedEntry(n) ==
    /\ asked.phase = "seed"
    /\ n \in asked.toSeed
    /\ asked' = [asked EXCEPT !.toSeed = @ \ {n}]
    /\ LET f == store[n] IN
       IF Found(n) # f THEN UNCHANGED <<env, entries>>
       ELSE LET g == GlobalsBelow(<<n, f>>)
                r == entries[<<n, f>>].result
                whole == g.out = {}
            IN  /\ entries' = Remember(g.memo)
                /\ env' = [env EXCEPT
                             !.loaded[f] = r,
                             !.modules[n] = IF whole THEN r.walk ELSE @,
                             !.filenames[n] = IF whole THEN f ELSE @]
    /\ UNCHANGED <<project, checks, store, byFile, stack, walks, said>>

Frame(f, n) == [file |-> f, name |-> n, todo |-> project.reqs[f],
                deps |-> [m \in ModuleNames |-> Nil], missing |-> {}]

\* tl.check_file of the file asked about: walked, unless its result was seeded.
OpenFile ==
    /\ asked.phase = "seed"
    /\ asked.toSeed = {}
    /\ asked' = [asked EXCEPT !.phase = "walk"]
    /\ stack' = IF env.loaded[asked.file] = Nil THEN <<Frame(asked.file, Nil)>> ELSE <<>>
    /\ UNCHANGED <<project, checks, entries, store, byFile, env, walks, said>>

\* Mutated form: a module is served and its globals are not.
DeliveredNothing(f) == [globals |-> {}, entries |-> entries]

\* deliver_globals: what a served module hands the environment, and the entries
\* with the closures it made them remember.
Delivered(f) ==
    IF byFile[f] # Nil /\ env.loaded[f] = entries[SlotOf(f)].result
    THEN LET g == GlobalsBelow(SlotOf(f)) IN [globals |-> g.out, entries |-> Remember(g.memo)]
    ELSE [globals |-> {}, entries |-> entries]

Top == stack[Len(stack)]
Answered(n, f) == [stack EXCEPT ![Len(stack)].todo = Tail(@), ![Len(stack)].deps[n] = f]
NotFound(n) == [stack EXCEPT ![Len(stack)].todo = Tail(@), ![Len(stack)].missing = @ \cup {n}]

\* require_module: the next require of the innermost file.
Require ==
    /\ asked.phase = "walk"
    /\ stack # <<>>
    /\ Top.todo # <<>>
    /\ LET n == Head(Top.todo)
           f == Found(n)
       IN  \/ /\ env.modules[n] # Nil
              /\ stack' = Answered(n, env.filenames[n])
              /\ UNCHANGED <<env, entries>>
           \/ /\ env.modules[n] = Nil
              /\ f = Nil
              /\ stack' = NotFound(n)
              /\ UNCHANGED <<env, entries>>
           \/ /\ env.modules[n] = Nil
              /\ f # Nil /\ env.loaded[f] # Nil
              /\ stack' = Answered(n, f)
              /\ LET d == Delivered(f) IN
                 /\ entries' = d.entries
                 /\ env' = [env EXCEPT !.globals = @ \cup d.globals, !.filenames[n] = f,
                                       !.modules[n] = env.loaded[f].walk]
           \/ /\ env.modules[n] = Nil
              /\ f # Nil /\ env.loaded[f] = Nil
              /\ stack' = Append(Answered(n, f), Frame(f, n))
              /\ env' = [env EXCEPT !.modules[n] = Circular, !.filenames[n] = f]
              /\ UNCHANGED entries
    /\ UNCHANGED <<project, checks, store, byFile, asked, walks, said>>

\* Mutated form: the placeholder stays.
FinishHalf ==
    /\ asked.phase = "walk"
    /\ stack # <<>>
    /\ Top.todo = <<>>
    /\ env' = [env EXCEPT !.globals = @ \cup project.decl[Top.file],
                !.loaded[Top.file] = [walk |-> walks + 1, file |-> Top.file, deps |-> Top.deps,
                                      errs |-> {}]]
    /\ walks' = walks + 1
    /\ stack' = Front(stack)
    /\ UNCHANGED <<project, checks, entries, store, byFile, asked, said>>

\* The end of a file's walk: its globals are registered, what it reads is
\* looked up, and its result takes the place of the placeholder.
FinishFile ==
    /\ asked.phase = "walk"
    /\ stack # <<>>
    /\ Top.todo = <<>>
    /\ LET f == Top.file
           known == env.globals \cup project.decl[f]
           r == [walk |-> walks + 1, file |-> f, deps |-> Top.deps,
                 errs |-> (project.uses[f] \ known) \cup Top.missing]
       IN  env' = [env EXCEPT !.loaded[f] = r, !.globals = known,
                     !.modules = IF Top.name = Nil THEN @
                                 ELSE [@ EXCEPT ![Top.name] = r.walk]]
    /\ walks' = walks + 1
    /\ stack' = Front(stack)
    /\ UNCHANGED <<project, checks, entries, store, byFile, asked, said>>

-----------------------------------------------------------------------------
(* The end of a check                                                      *)

\* store_from: the modules of the environment whose result is finished and is
\* the one their requirers were typed with.
Stored == {n \in ModuleNames : /\ env.filenames[n] # Nil
                               /\ env.loaded[env.filenames[n]] # Nil
                               /\ env.loaded[env.filenames[n]].walk = env.modules[n]}
Kept == IF asked.cold THEN {} ELSE Stored
KeptFiles == {env.filenames[n] : n \in Kept}

\* Each has a new entry; the index keeps the last one made for a file.  An entry that
\* neither its name nor its file leads to is gone.
StoreFrom(last) ==
    LET names == [n \in ModuleNames |-> IF n \in Kept THEN env.filenames[n] ELSE store[n]]
        index == [f \in Sources |-> IF f \in KeptFiles THEN last[f] ELSE byFile[f]]
    IN  [names |-> names, index |-> index,
         entries |-> [s \in Slots |->
             IF s[1] \in Kept /\ env.filenames[s[1]] = s[2]
             THEN [result |-> env.loaded[s[2]], closure |-> Nil]
             ELSE IF names[s[1]] = s[2] \/ index[s[2]] = s[1] THEN entries[s] ELSE Nil]]

\* What is reached in T from start, where below gives what is directly below each.
ReachedIn(T, start, below) ==
    {g \in T : \A S \in SUBSET T :
        start \subseteq S /\ (\A h \in S : below[h] \subseteq S) => g \in S}
Reached(f, below) == ReachedIn(Sources, below[f], below)

DepsOf(r) == IF r = Nil THEN {} ELSE {r.deps[n] : n \in ModuleNames} \ {Nil}

\* dependency_errors: the errors of what the file pulled in.  A result that is not in the
\* environment is looked for in the store, by the name it was required by.  (The code goes
\* on below a file it reaches under two names from the first of them, here from each.)
NamedResult(s, slot) ==
    IF env.loaded[slot[2]] # Nil THEN env.loaded[slot[2]]
    ELSE IF s.names[slot[1]] = slot[2] THEN s.entries[slot].result ELSE Nil
SlotsOf(r) == IF r = Nil THEN {} ELSE {<<n, r.deps[n]>> : n \in {m \in ModuleNames : r.deps[m] # Nil}}
DependencyErrors(s) ==
    LET below == [slot \in Places |-> SlotsOf(NamedResult(s, slot))]
        pulled == {slot \in ReachedIn(Places, SlotsOf(env.loaded[asked.file]), below) :
                      slot[2] # asked.file /\ NamedResult(s, slot) # Nil}
    IN  UNION {{<<slot[2], e>> : e \in NamedResult(s, slot).errs} : slot \in pulled}

\* Mutated form: what is below a file served from the store is not followed.
RequireClosureOfWalked(s) ==
    LET below == [g \in Sources |->
            DepsOf(IF env.loaded[g] # Nil /\ byFile[g] = Nil THEN env.loaded[g] ELSE Nil)]
    IN  Reached(asked.file, below) \ {asked.file}

\* require_closure: every file the check read.  A result that is not in the
\* environment is looked for by its file.
ResultOf(s, g) == IF env.loaded[g] # Nil THEN env.loaded[g]
                  ELSE IF s.index[g] # Nil THEN s.entries[<<s.index[g], g>>].result ELSE Nil
RequireClosure(s) ==
    Reached(asked.file, [g \in Sources |-> DepsOf(ResultOf(s, g))]) \ {asked.file}

EndCheck ==
    /\ asked.phase = "walk"
    /\ stack = <<>>
    /\ \E last \in [KeptFiles -> Kept] : LET s == StoreFrom(last) IN
       /\ \A f \in KeptFiles : env.filenames[last[f]] = f
       /\ store' = s.names
       /\ byFile' = s.index
       /\ entries' = s.entries
       /\ said' = said \cup {[file |-> asked.file, dir |-> asked.dir, cold |-> asked.cold,
                              errs |-> env.loaded[asked.file].errs,
                              depErrs |-> DependencyErrors(s), closure |-> RequireClosure(s)]}
    /\ asked' = NoCheck
    /\ env' = NewEnv
    /\ UNCHANGED <<project, checks, stack, walks>>

-----------------------------------------------------------------------------
StoreInit ==
    /\ project \in Projects
    /\ store = [n \in ModuleNames |-> Nil]
    /\ byFile = [f \in Sources |-> Nil]
    /\ entries = [s \in Slots |-> Nil]
    /\ env = NewEnv
    /\ stack = <<>>
    /\ asked = NoCheck
    /\ checks = 0
    /\ walks = 0
    /\ said = {}

StoreNext ==
    \/ \E f \in Sources, d \in Dirs, cold \in BOOLEAN : Begin(f, d, cold)
    \/ \E n \in ModuleNames : SeedEntry(n)
    \/ OpenFile
    \/ Require
    \/ FinishFile
    \/ EndCheck

StoreSpec == StoreInit /\ [][StoreNext]_storeVars
-----------------------------------------------------------------------------
(* Properties                                                              *)

\* The shape of the state: an entry is of its own file, every name and every file the
\* store knows leads to an entry, and no more than the walk in hand is Circular.
StoreTypeOK ==
    /\ project \in Projects
    /\ store \in [ModuleNames -> Sources \cup {Nil}]
    /\ byFile \in [Sources -> ModuleNames \cup {Nil}]
    /\ entries \in [Slots -> Entry \cup {Nil}]
    /\ \A s \in Slots : entries[s] # Nil => entries[s].result.file = s[2]
    /\ \A n \in ModuleNames : store[n] # Nil => entries[<<n, store[n]>>] # Nil
    /\ \A f \in Sources : byFile[f] # Nil => entries[SlotOf(f)] # Nil
    /\ env.modules \in [ModuleNames -> Nat \cup {Nil}]
    /\ env.loaded \in [Sources -> Result \cup {Nil}]
    /\ env.globals \subseteq Globals
    /\ walks \in Nat /\ checks \in 0..MaxChecks
    /\ {n \in ModuleNames : env.modules[n] = Circular} = {stack[i].name : i \in DOMAIN stack} \ {Nil}

\* What a check says of a file does not depend on what was checked before it: a
\* check served from the store and a check in a cold environment find the same
\* errors, in it and in what it pulled in, in every order of the files.  (The comment
\* over `store`: the result of checking a file does not depend on who required it.)
OneAnswer ==
    \A a, b \in said : a.file = b.file /\ a.dir = b.dir =>
        a.errs = b.errs /\ a.depErrs = b.depErrs

\* Nothing goes missing because it was served: a check names every file it stands
\* on, whoever walked it (a cached answer is stamped with them).
Required(f, dir) == {project.find[dir][n] : n \in Range(project.reqs[f])} \ {Nil}
WholeClosure ==
    \A a \in said :
        a.closure = Reached(a.file, [f \in Sources |-> Required(f, a.dir)]) \ {a.file}

\* A file is walked once for as long as the store holds it under its name: its
\* records are one instance in every file that requires it.
OneInstance ==
    [][\A n \in ModuleNames : store[n] # Nil /\ store'[n] = store[n] =>
          entries'[<<n, store[n]>>].result = entries[<<n, store[n]>>].result]_storeVars
=============================================================================
