----------------------------- MODULE CheckCache -----------------------------
(***************************************************************************)
(* The check cache (crates/htl-core/src/cache.rs) and the runs of          *)
(* `htl check` that read, write and sweep it (project.rs, check).          *)
(*                                                                         *)
(* A file is a model value, its contents a model value that stands for its *)
(* hash too, and what contents matter for is the names they require.       *)
(* What checking a file reports is everything the check reads: the         *)
(* contents of the file's require closure and what each name in it         *)
(* resolved to, by the checker of one build; two reports are equal when    *)
(* the diagnostics would be.  A name asked from a file resolves to the     *)
(* files that implement it: to one, which is read; to several, which is an *)
(* error that names them; or to none.  (Of the declarations a name may     *)
(* have instead, the first is read; they are left out.)  Beside that, a    *)
(* file under a contract's directory is held to a record another file      *)
(* declares.                                                               *)
(*                                                                         *)
(* Per-module entries of a store with the project model: a probe is the    *)
(* model's answer to each name asked.  An entry is renamed into place, so  *)
(* a key names a whole entry or none.                                      *)
(***************************************************************************)
EXTENDS Naturals, Sequences, FiniteSets

CONSTANTS
  Files,         \* every path a file may be at
  Config,        \* htl.toml, one of them
  Contents,      \* what a file may hold
  Names,         \* module names
  Asks,          \* the names each contents requires
  Offers,        \* the files that implement a name, as each file may see it
  MayHold,       \* what an edit may leave in each file
  HeldTo,        \* the file whose record's contract each file is held to
  Walk,          \* the files each invocation checks, in order
  FirstWorlds,   \* what the files may hold at first
  Specs,         \* the ways of invoking the check: what keys differ by
  Builds,        \* the binaries, each with a checker of its own
  Runs,          \* processes
  MaxEntries,    \* HTL_CACHE_MAX_ENTRIES, or four times the files
  MaxEdits, MaxRuns, MaxCrashes,  \* bounds on a behaviour
  EditsDuringRuns,  \* whether a file may change while a run is on
  None           \* no file, no contents, no entry

ASSUME CheckCacheAssumption ==
  /\ Config \in Files
  /\ Asks \in [Contents -> SUBSET Names]
  /\ Offers \in [Files -> [Names -> SUBSET Files]]
  /\ MayHold \in [Files -> SUBSET (Contents \union {None})]
  /\ HeldTo \in [Files -> Files \union {None}]
  /\ Walk \in [Specs -> Seq(Files)]
  /\ FirstWorlds \subseteq [Files -> Contents \union {None}]
  /\ MaxEntries \in Nat
  /\ None \notin Files /\ None \notin Contents
  /\ EditsDuringRuns \in BOOLEAN

Keys == Specs \X Files
Unread == "unread"   \* a hash not taken yet

-----------------------------------------------------------------------------
(* What a check reads.                                                     *)

\* The project model's answer for a name n required in g.  A run reads the
\* directories once; here the answer is of the moment, which is the same thing
\* in a run during which nothing changes.
Resolve(w, g, n) == {f \in Offers[g][n] : w[f] # None}

AsksIn(w, f) == IF w[f] = None THEN {} ELSE Asks[w[f]]

\* The require closure of f: the least set with f that is closed under what
\* its members' names resolve to.
Closed(w, C) ==
  \A g \in C : \A n \in AsksIn(w, g) :
    \A h \in Offers[g][n] : Resolve(w, g, n) = {h} => h \in C
Closure(w, f) ==
  LET Cs == {C \in SUBSET Files : f \in C /\ Closed(w, C)}
  IN  {g \in Files : \A C \in Cs : g \in C}

\* What the members of C ask.
Asked(w, C) == UNION {{g} \X AsksIn(w, g) : g \in C}

\* Mutants: the files a module names alone; the config is no input.
DirectDeps(w, f) ==
  {f} \union {h \in Files : \E n \in AsksIn(w, f) : Resolve(w, f, n) = {h}}
DepsAlone(w, cfg, f) == Closure(w, f)

\* Cache::questions: each name a member of the closure required, from it.
Questions(w, f) == Asked(w, Closure(w, f))
\* CheckInfo.deps, the file itself among them.
Deps(w, f) == Closure(w, f)
\* What an entry is compared on: the config too, if the run read one.
Inputs(w, cfg, f) == Deps(w, f) \union (IF cfg = None THEN {} ELSE {Config})

Report(b, w, f) ==
  LET C == Closure(w, f)
  IN  [by |-> b,
       read |-> [g \in C |-> w[g]],
       resolved |-> [q \in Asked(w, C) |-> Resolve(w, q[1], q[2])]]

Contract(w, f) == IF HeldTo[f] = None THEN None ELSE w[HeldTo[f]]

\* What a check of closure C that asked Q reports, and the entry of one with
\* inputs I: stamp, hashes, the project model's answers, what was reported.
Held == Contents \union {None}
Reports(C, Q) == [by : Builds, read : [C -> Held], resolved : [Q -> SUBSET Files]]
Entries(I, C, Q) ==
  [stamp : Builds, inputs : [I -> Contents], probes : [Q -> SUBSET Files],
   report : Reports(C, Q), law : Held, config : Held]

ASSUME NoEntryAssumption ==
  \A I, C \in SUBSET Files : \A Q \in SUBSET (Files \X Names) :
    None \notin Entries(I, C, Q)

-----------------------------------------------------------------------------
VARIABLES
  world,   \* what each file holds
  disk,    \* the entry each key names
  recent,  \* the keys of the entries, the least recently used first
  run,     \* where each process is, and what it has in memory
  edits, runs, crashes,  \* how many there have been
  stable   \* history: the keys stored since the last edit, by build

vars == <<world, disk, recent, run, edits, runs, crashes, stable>>

\* A process of build b, invoked in the way s, that has read the config; and
\* one that is not running.
Started(b, s) ==
  [at |-> "walk", build |-> b, spec |-> s, next |-> 1, todo |-> <<>>,
   memo |-> [f \in Files |-> Unread], said |-> [f \in Files |-> None],
   config |-> world[Config], from |-> edits, seen |-> None, tmp |-> None, listed |-> <<>>]
Idle == [at |-> "idle"]

Active(p) == run[p].at # "idle"
LookedUp(p) == run[p].next > Len(Walk[run[p].spec])
KeyOf(p, f) == <<run[p].spec, f>>
\* The files a run has findings of, and the keys it used.
Said(p) == {f \in Files : run[p].said[f] # None}
RunKeys(p) == {KeyOf(p, f) : f \in Said(p)}

Init ==
  /\ world \in FirstWorlds
  /\ disk = [k \in Keys |-> None]
  /\ recent = <<>>
  /\ run = [p \in Runs |-> Idle]
  /\ edits = 0 /\ runs = 0 /\ crashes = 0
  /\ stable = {}

SeqRange(s) == {s[i] : i \in DOMAIN s}

\* What is left of s without the members of S, in its order.
Without(s, S) ==
  LET left[n \in 0 .. Len(s)] ==
        IF n = 0 THEN <<>>
        ELSE IF s[n] \in S THEN left[n - 1] ELSE Append(left[n - 1], s[n])
  IN  left[Len(s)]

\* Mutant: an entry used again keeps its old place too.
UsedAgain(k) == Append(recent, k)

\* The order of use, once k is written or touched.
UsedNow(k) == Append(Without(recent, {k}), k)

Edit(f, c) ==
  /\ edits < MaxEdits
  /\ EditsDuringRuns \/ \A p \in Runs : ~Active(p)
  /\ world[f] # c
  /\ world' = [world EXCEPT ![f] = c]
  /\ edits' = edits + 1
  /\ stable' = {}
  /\ UNCHANGED <<disk, recent, run, runs, crashes>>

\* A run starts, of some build, invoked in some way.
Start(p, b, s) ==
  /\ ~Active(p)
  /\ runs < MaxRuns
  /\ runs' = runs + 1
  /\ run' = [run EXCEPT ![p] = Started(b, s)]
  /\ UNCHANGED <<world, disk, recent, edits, crashes, stable>>

\* hash_of: the hash of a file, taken once per run.
HashIn(memo, f) == IF memo[f] = Unread THEN world[f] ELSE memo[f]
Memoised(memo, S) == [f \in Files |-> IF f \in S THEN HashIn(memo, f) ELSE memo[f]]

\* Mutant: a name that resolved to nothing never matches.
ProbesFound(e) == \A q \in DOMAIN e.probes :
  e.probes[q] # {} /\ Resolve(world, q[1], q[2]) = e.probes[q]

\* still_valid: the stamp, the inputs and the probes.
StampHolds(b, e) == e.stamp = b
InputsHold(memo, e) == \A f \in DOMAIN e.inputs : HashIn(memo, f) = e.inputs[f]
ProbesHold(e) == \A q \in DOMAIN e.probes : Resolve(world, q[1], q[2]) = e.probes[q]
StillValid(b, memo, e) ==
  StampHolds(b, e) /\ InputsHold(memo, e) /\ ProbesHold(e)

\* lookup, for the next file of the walk that exists; a hit is touched and
\* replayed.
Lookup(p) ==
  /\ run[p].at = "walk" /\ ~LookedUp(p)
  /\ LET r == run[p]
         f == Walk[r.spec][r.next]
         k == KeyOf(p, f)
         e == disk[k]
         hit == e # None /\ StillValid(r.build, r.memo, e)
         memo == IF e = None \/ ~StampHolds(r.build, e) THEN r.memo
                 ELSE Memoised(r.memo, DOMAIN e.inputs)
         moved == [r EXCEPT !.next = @ + 1, !.memo = memo]
     IN  IF world[f] = None
           THEN run' = [run EXCEPT ![p].next = @ + 1] /\ UNCHANGED recent
           ELSE IF hit
             THEN /\ run' = [run EXCEPT ![p] =
                       [moved EXCEPT !.said[f] =
                          [report |-> e.report, law |-> e.law,
                           config |-> e.config]]]
                  /\ recent' = UsedNow(k)
             ELSE /\ run' = [run EXCEPT ![p] =
                       [moved EXCEPT !.todo = Append(@, f)]]
                  /\ UNCHANGED recent
  /\ UNCHANGED <<world, disk, edits, runs, crashes, stable>>

\* check_one, for the next file that missed.
Check(p) ==
  /\ run[p].at = "walk" /\ LookedUp(p)
  /\ run[p].todo # <<>>
  /\ LET f == Head(run[p].todo)
         found == [report |-> Report(run[p].build, world, f),
                   law |-> Contract(world, f), config |-> run[p].config]
         seen == [inputs |-> Inputs(world, run[p].config, f),
                  questions |-> Questions(world, f)]
     IN  run' = [run EXCEPT ![p].at = "hash", ![p].said[f] = found,
                            ![p].seen = seen]
  /\ UNCHANGED <<world, disk, recent, edits, runs, crashes, stable>>

\* store_module, up to the temporary file.  An input that cannot be read drops
\* the entry.
Hash(p) ==
  /\ run[p].at = "hash"
  /\ LET r == run[p]
         f == Head(r.todo)
         memo == Memoised(r.memo, r.seen.inputs)
         entry == [stamp |-> r.build,
                   inputs |-> [g \in r.seen.inputs |-> memo[g]],
                   probes |-> [q \in r.seen.questions |-> Resolve(world, q[1], q[2])],
                   report |-> r.said[f].report,
                   law |-> r.said[f].law,
                   config |-> r.said[f].config]
         whole == \A g \in r.seen.inputs : memo[g] # None
     IN  run' = [run EXCEPT ![p] =
           [r EXCEPT !.memo = memo, !.seen = None,
                     !.tmp = IF whole THEN entry ELSE None,
                     !.todo = IF whole THEN @ ELSE Tail(@),
                     !.at = IF whole THEN "publish" ELSE "walk"]]
  /\ UNCHANGED <<world, disk, recent, edits, runs, crashes, stable>>

\* write: the rename.
Publish(p) ==
  /\ run[p].at = "publish"
  /\ LET k == KeyOf(p, Head(run[p].todo)) IN
     /\ disk' = [disk EXCEPT ![k] = run[p].tmp]
     /\ recent' = UsedNow(k)
     /\ stable' = {x \in stable : x[1] # k} \union
                    (IF run[p].from = edits THEN {<<k, run[p].build>>} ELSE {})
  /\ run' = [run EXCEPT ![p].at = "walk", ![p].tmp = None, ![p].todo = Tail(@)]
  /\ UNCHANGED <<world, edits, runs, crashes>>

\* sweep: the directory is listed.
List(p) ==
  /\ run[p].at = "walk" /\ LookedUp(p)
  /\ run[p].todo = <<>>
  /\ run' = [run EXCEPT ![p].at = "sweep", ![p].listed = recent]
  /\ UNCHANGED <<world, disk, recent, edits, runs, crashes, stable>>

\* is_orphan: none of the files an entry recorded exists.
Orphan(k) == disk[k] = None \/ \A f \in DOMAIN disk[k].inputs : world[f] = None

FirstOf(s, n) == SubSeq(s, 1, IF n < Len(s) THEN n ELSE Len(s))
Over(n) == IF n > MaxEntries THEN n - MaxEntries ELSE 0

\* Mutant: the most recently used goes first.
SweepableNewestFirst(p) ==
  LET s == Without(run[p].listed, RunKeys(p))
  IN  [i \in DOMAIN s |-> s[Len(s) + 1 - i]]

\* The listed entries this run did not use, the least recently used first.
Sweepable(p) == Without(run[p].listed, RunKeys(p))

\* What a sweep drops: orphans first, in the order the directory has them, and
\* then by age, until the rest fits.  An entry that another process removed since
\* the listing cannot be removed again and does not count towards the excess.
Drops(p, gone) ==
  LET over == Over(Len(run[p].listed))
      absent == {k \in SeqRange(Sweepable(p)) : disk[k] = None}
      orphans == {k \in SeqRange(Sweepable(p)) : Orphan(k)} \ absent
  IN  \E first \in SUBSET orphans :
        /\ Cardinality(first) = over \/ first = orphans
        /\ Cardinality(first) <= over
        /\ gone = first \union SeqRange(FirstOf(Without(Sweepable(p), first \union absent),
                                            over - Cardinality(first)))

\* The sweep, and the end of the run.
Sweep(p) ==
  /\ run[p].at = "sweep"
  /\ \E gone \in SUBSET SeqRange(run[p].listed) :
       /\ Drops(p, gone)
       /\ disk' = [k \in Keys |-> IF k \in gone THEN None ELSE disk[k]]
       /\ recent' = Without(recent, gone)
       /\ stable' = {x \in stable : x[1] \notin gone}
  /\ run' = [run EXCEPT ![p] = Idle]
  /\ UNCHANGED <<world, edits, runs, crashes>>

\* The process is killed; a temporary file it leaves is never read.
Crash(p) ==
  /\ Active(p)
  /\ crashes < MaxCrashes
  /\ crashes' = crashes + 1
  /\ run' = [run EXCEPT ![p] = Idle]
  /\ UNCHANGED <<world, disk, recent, edits, runs, stable>>

Next ==
  \/ \E f \in Files : \E c \in MayHold[f] : Edit(f, c)
  \/ \E p \in Runs :
       \/ \E b \in Builds, s \in Specs : Start(p, b, s)
       \/ Lookup(p) \/ Check(p) \/ Hash(p) \/ Publish(p)
       \/ List(p) \/ Sweep(p) \/ Crash(p)

Spec == Init /\ [][Next]_vars

-----------------------------------------------------------------------------
\* The type invariant: the order of use names each entry once, and nothing else.
TypeOK ==
  /\ \A k \in Keys : disk[k] # None <=> \E i \in DOMAIN recent : recent[i] = k
  /\ \A i, j \in DOMAIN recent : recent[i] = recent[j] => i = j
  /\ \A k \in Keys : disk[k] # None =>
       /\ disk[k].stamp \in Builds
       /\ k[2] \in DOMAIN disk[k].inputs /\ DOMAIN disk[k].inputs \subseteq Files
       /\ DOMAIN disk[k].probes \subseteq Files \X Names

Quiet(p) == Active(p) /\ run[p].from = edits

\* A run during which nothing changed says of every file, replayed or checked,
\* what checking it now with this build would say: whatever was edited, added,
\* removed or shadowed since the entry was written, two requires away or more,
\* by whichever build and however many runs ago.
HitsAreExact ==
  \A p \in Runs : Quiet(p) =>
    \A f \in Said(p) : run[p].said[f].report = Report(run[p].build, world, f)

\* And a config that was there when the entry was written is still the same.
HitsSeeConfigEdits ==
  \A p \in Runs : Quiet(p) =>
    \A f \in Said(p) : run[p].said[f].config # None =>
                         run[p].said[f].config = world[Config]

\* A run that changed nothing pays nothing: what a run stored since the last
\* edit is a hit for the same build, until it is dropped or written over.
StableEntriesHold ==
  \A x \in stable :
    /\ disk[x[1]] # None
    /\ StillValid(x[2], [f \in Files |-> Unread], disk[x[1]])

\* A sweep never drops an entry of its own run, drops nothing while the store
\* fits, and leaves no entry behind that is older than one it dropped for its
\* age, whatever other runs use or drop after it listed the store.
SweepDropsTheOldest ==
  [][\A p \in Runs : run[p].at = "sweep" /\ run'[p].at = "idle" =>
       LET gone == {k \in Keys : disk[k] # None /\ disk'[k] = None}
           listed == run[p].listed
           place(k) == CHOOSE i \in DOMAIN listed : listed[i] = k
       IN  /\ gone \intersect RunKeys(p) = {}
           /\ gone # {} => Len(listed) > MaxEntries
           /\ \A k \in gone, l \in SeqRange(listed) :
                disk'[l] # None /\ l \notin RunKeys(p) /\ ~Orphan(k)
                  => place(k) < place(l)]_vars

\* A contract's record is declared outside the closure of the files held to it.
HitsSeeContractEdits ==
  \A p \in Runs : Quiet(p) =>
    \A f \in Said(p) : run[p].said[f].law = Contract(world, f)
=============================================================================
