----------------------------- MODULE CachesProofs -----------------------------
(***************************************************************************)
(* Proofs about the two stores that a check is answered from.  The first   *)
(* half is about CheckCache, the answers kept on disk, for any project,    *)
(* any number of processes and builds, any edits between runs, any crashes *)
(* and any sweeps: what a cached run says is what the original would say   *)
(* now, what was stored is found again, and a sweep drops the oldest.  The *)
(* second is about ModuleStore, the modules one process has checked, for   *)
(* any project and any order of checks: its types, that a file keeps one   *)
(* instance of its records, that a check names every file it stands on,    *)
(* and that what it says does not depend on the checks before it.          *)
(***************************************************************************)
EXTENDS CheckCache, ModuleStore, FiniteSetTheorems, WellFoundedInduction, TLAPS

Worlds == [Files -> Contents \union {None}]

-----------------------------------------------------------------------------
(* What a check reads determines what it says.                             *)

LEMMA ClosureHas ==
  ASSUME NEW w \in Worlds, NEW f \in Files
  PROVE  /\ f \in Closure(w, f)
         /\ Closure(w, f) \subseteq Files
         /\ Closed(w, Closure(w, f))
<1>1. f \in Closure(w, f) /\ Closure(w, f) \subseteq Files
  BY DEF Closure
<1>2. ASSUME NEW g \in Closure(w, f), NEW n \in AsksIn(w, g), NEW h \in Offers[g][n],
             Resolve(w, g, n) = {h}
      PROVE  h \in Closure(w, f)
  <2>1. ASSUME NEW C \in SUBSET Files, f \in C, Closed(w, C)
        PROVE  h \in C
    <3>1. g \in C
      BY <2>1 DEF Closure
    <3> QED
      BY <2>1, <3>1, <1>2 DEF Closed
  <2>2. n \in Names
    BY <1>1, CheckCacheAssumption DEF AsksIn, Worlds
  <2>3. h \in Files
    BY <1>1, <2>2, CheckCacheAssumption
  <2> QED
    BY <2>1, <2>3 DEF Closure
<1> QED
  BY <1>1, <1>2 DEF Closed

LEMMA ClosureIsLeast ==
  ASSUME NEW w \in Worlds, NEW f \in Files, NEW C \in SUBSET Files,
         f \in C, Closed(w, C)
  PROVE  Closure(w, f) \subseteq C
BY DEF Closure

\* Two worlds that agree on a set of files, and on what its members ask.
Agree(w, v, C) ==
  /\ \A g \in C : v[g] = w[g]
  /\ \A q \in Asked(w, C) : Resolve(v, q[1], q[2]) = Resolve(w, q[1], q[2])

LEMMA AgreeOnAsks ==
  ASSUME NEW w \in Worlds, NEW v \in Worlds, NEW C \in SUBSET Files, Agree(w, v, C)
  PROVE  /\ \A g \in C : AsksIn(v, g) = AsksIn(w, g)
         /\ \A g \in C : \A n \in AsksIn(w, g) : Resolve(v, g, n) = Resolve(w, g, n)
         /\ Asked(v, C) = Asked(w, C)
<1>1. \A g \in C : AsksIn(v, g) = AsksIn(w, g)
  BY DEF Agree, AsksIn
<1>2. Asked(v, C) = Asked(w, C)
  BY <1>1 DEF Asked
<1>3. ASSUME NEW g \in C, NEW n \in AsksIn(w, g)
      PROVE  Resolve(v, g, n) = Resolve(w, g, n)
  <2>1. <<g, n>> \in Asked(w, C)
    BY DEF Asked
  <2> QED
    BY <2>1 DEF Agree
<1> QED
  BY <1>1, <1>2, <1>3

LEMMA AgreeingClosure ==
  ASSUME NEW w \in Worlds, NEW v \in Worlds, NEW f \in Files,
         Agree(w, v, Closure(w, f))
  PROVE  Closure(v, f) = Closure(w, f)
<1> DEFINE C == Closure(w, f)
           D == Closure(v, f)
<1>1. /\ C \in SUBSET Files /\ f \in C /\ Closed(w, C)
      /\ D \in SUBSET Files /\ f \in D /\ Closed(v, D)
  BY ClosureHas
<1>2. /\ \A g \in C : AsksIn(v, g) = AsksIn(w, g)
      /\ \A g \in C : \A n \in AsksIn(w, g) : Resolve(v, g, n) = Resolve(w, g, n)
  BY <1>1, AgreeOnAsks
<1> HIDE DEF C, D
<1>3. Closed(v, C)
  BY <1>1, <1>2 DEF Closed
<1>4. D \subseteq C
  BY <1>1, <1>3, ClosureIsLeast DEF D
<1>5. Closed(w, D)
  BY <1>1, <1>2, <1>4 DEF Closed
<1>6. C \subseteq D
  BY <1>1, <1>5, ClosureIsLeast DEF C
<1> QED
  BY <1>4, <1>6 DEF C, D

\* The report of a file is a function of its closure's contents and of what
\* the names asked in it resolve to: nothing else an edit changes matters.
LEMMA AgreeingReport ==
  ASSUME NEW w \in Worlds, NEW v \in Worlds, NEW f \in Files, NEW b,
         Agree(w, v, Closure(w, f))
  PROVE  Report(b, v, f) = Report(b, w, f)
<1> DEFINE C == Closure(w, f)
<1>1. Closure(v, f) = C
  BY AgreeingClosure
<1>2. Asked(v, C) = Asked(w, C)
  BY ClosureHas, AgreeOnAsks
<1>3. [g \in C |-> v[g]] = [g \in C |-> w[g]]
  BY DEF Agree
<1>4. [q \in Asked(w, C) |-> Resolve(v, q[1], q[2])]
        = [q \in Asked(w, C) |-> Resolve(w, q[1], q[2])]
  BY DEF Agree
<1> QED
  BY <1>1, <1>2, <1>3, <1>4 DEF Report

-----------------------------------------------------------------------------
(* The inductive invariant.                                                *)

\* An entry that is compared equal in a world is right in that world, however
\* the world came about.
Matches(e, w) ==
  /\ \A f \in DOMAIN e.inputs : w[f] = e.inputs[f]
  /\ \A q \in DOMAIN e.probes : Resolve(w, q[1], q[2]) = e.probes[q]
Right(e, f) ==
  /\ DOMAIN e.inputs \subseteq Files
  /\ \A w \in Worlds : Matches(e, w) => e.report = Report(e.stamp, w, f)
  /\ e.config # None => Config \in DOMAIN e.inputs /\ e.inputs[Config] = e.config

\* A process in memory: r with what a step changes of it.
RunOf(r, at, next, todo, memo, saying, seen, tmp, listed) ==
  [at |-> at, build |-> r.build, spec |-> r.spec, next |-> next, todo |-> todo,
   memo |-> memo, said |-> saying, config |-> r.config, from |-> r.from,
   seen |-> seen, tmp |-> tmp, listed |-> listed]
IsRun(r) ==
  r = RunOf(r, r.at, r.next, r.todo, r.memo, r.said, r.seen, r.tmp, r.listed)

RunTypes(r) ==
  /\ IsRun(r)
  /\ r.at \in {"walk", "hash", "publish", "sweep"}
  /\ r.spec \in Specs
  /\ r.next \in Nat \ {0}
  /\ r.todo \in Seq(Files)
  /\ r.memo = [f \in Files |-> r.memo[f]]
  /\ r.said = [f \in Files |-> r.said[f]]

\* What a run has in memory is of the world as it is, or not yet read.
MemoRight(memo, w) == \A f \in Files : memo[f] \in {Unread, w[f]}

SaidRight(r, w, f) ==
  /\ r.said[f].report = Report(r.build, w, f)
  /\ r.said[f].config # None => r.said[f].config = w[Config]

RunRight(r, w) ==
  /\ RunTypes(r)
  /\ MemoRight(r.memo, w)
  /\ r.config = w[Config]
  /\ \A f \in Files : r.said[f] # None => SaidRight(r, w, f)
  /\ r.at = "hash" =>
       /\ r.todo # <<>>
       /\ SaidRight(r, w, Head(r.todo))
       /\ r.said[Head(r.todo)].config = r.config
       /\ r.seen.inputs = Inputs(w, r.config, Head(r.todo))
       /\ r.seen.questions = Questions(w, Head(r.todo))
  /\ r.at = "publish" =>
       /\ r.todo # <<>>
       /\ r.tmp # None => Right(r.tmp, Head(r.todo))

Shapes ==
  /\ world \in Worlds
  /\ disk = [k \in Keys |-> disk[k]]
  /\ run = [p \in Runs |-> run[p]]
RunsRight == \A p \in Runs : Active(p) => RunRight(run[p], world)
EntriesRight == \A k \in Keys : disk[k] # None => Right(disk[k], k[2])
Inv == Shapes /\ RunsRight /\ EntriesRight

LEMMA InitInv == Init => Inv
<1> SUFFICES ASSUME Init PROVE Inv
  OBVIOUS
<1>1. Shapes
  BY CheckCacheAssumption DEF Init, Shapes, Worlds
<1>2. RunsRight
  BY DEF Init, RunsRight, Active, Idle
<1>3. EntriesRight
  BY DEF Init, EntriesRight
<1> QED
  BY <1>1, <1>2, <1>3 DEF Inv

\* A step of p that leaves the world and the entries, and p's memory right.
LEMMA RunStepInv ==
  ASSUME Inv, NEW p \in Runs, NEW r, RunRight(r, world),
         run' = [run EXCEPT ![p] = r], world' = world, disk' = disk
  PROVE  Inv'
<1>1. Shapes'
  BY DEF Inv, Shapes
<1>2. RunsRight'
  BY DEF Inv, Shapes, RunsRight, Active
<1>3. EntriesRight'
  BY DEF Inv, EntriesRight
<1> QED
  BY <1>1, <1>2, <1>3 DEF Inv

\* A hash taken in a run is the file's, whether it is remembered or not.
LEMMA HashesAreRight ==
  ASSUME NEW w \in Worlds, w = world, NEW memo, MemoRight(memo, w), NEW S
  PROVE  /\ \A f \in Files : HashIn(memo, f) = w[f]
         /\ Memoised(memo, S) = [f \in Files |-> Memoised(memo, S)[f]]
         /\ MemoRight(Memoised(memo, S), w)
         /\ \A f \in Files : f \in S => Memoised(memo, S)[f] = w[f]
<1>1. \A f \in Files : HashIn(memo, f) = w[f]
  BY DEF HashIn, MemoRight
<1> QED
  BY <1>1 DEF Memoised, MemoRight

LEMMA EditInv ==
  ASSUME ~EditsDuringRuns, Inv, NEW f \in Files, NEW c \in MayHold[f], Edit(f, c)
  PROVE  Inv'
<1>1. c \in Contents \union {None}
  BY CheckCacheAssumption
<1>2. Shapes'
  BY <1>1 DEF Edit, Inv, Shapes, Worlds
<1>3. RunsRight'
  BY DEF Edit, RunsRight, Active
<1>4. EntriesRight'
  BY DEF Edit, Inv, EntriesRight
<1> QED
  BY <1>2, <1>3, <1>4 DEF Inv

LEMMA StartInv ==
  ASSUME Inv, NEW p \in Runs, NEW b \in Builds, NEW s \in Specs, Start(p, b, s)
  PROVE  Inv'
<1> DEFINE r == Started(b, s)
<1>1. RunTypes(r)
  BY DEF Started, RunTypes, IsRun, RunOf
<1>2. RunRight(r, world)
  BY <1>1 DEF Started, RunRight, MemoRight
<1>3. run' = [run EXCEPT ![p] = r] /\ world' = world /\ disk' = disk
  BY DEF Start
<1> HIDE DEF r
<1> QED
  BY <1>2, <1>3, RunStepInv

LEMMA NextFile ==
  ASSUME NEW r, RunTypes(r), r.next <= Len(Walk[r.spec])
  PROVE  Walk[r.spec][r.next] \in Files
<1>1. Walk[r.spec] \in Seq(Files)
  BY CheckCacheAssumption DEF RunTypes
<1>2. r.next \in 1 .. Len(Walk[r.spec])
  BY <1>1 DEF RunTypes
<1> QED
  BY <1>1, <1>2

\* What a step leaves of a process in memory, field by field.
LEMMA MovedRun ==
  ASSUME NEW r, IsRun(r), NEW memo
  PROVE  [r EXCEPT !.next = @ + 1, !.memo = memo]
           = RunOf(r, r.at, r.next + 1, r.todo, memo, r.said, r.seen, r.tmp, r.listed)
<1> DEFINE moved == [r EXCEPT !.next = @ + 1, !.memo = memo]
<1>1. moved = [[r EXCEPT !.next = @ + 1] EXCEPT !.memo = memo]
  OBVIOUS
<1> HIDE DEF moved
<1>2. moved = RunOf(r, r.at, r.next + 1, r.todo, memo, r.said, r.seen, r.tmp, r.listed)
  BY <1>1 DEF IsRun, RunOf
<1> QED
  BY <1>2 DEF moved

LEMMA SkippedRun ==
  ASSUME NEW r, IsRun(r)
  PROVE  [r EXCEPT !.next = @ + 1]
           = RunOf(r, r.at, r.next + 1, r.todo, r.memo, r.said, r.seen, r.tmp, r.listed)
BY DEF IsRun, RunOf

AfterHit(r, memo, f, found) ==
  [[r EXCEPT !.next = @ + 1, !.memo = memo] EXCEPT !.said[f] = found]
LEMMA HitRun ==
  ASSUME NEW r, IsRun(r), NEW memo, NEW f, NEW found
  PROVE  AfterHit(r, memo, f, found)
           = RunOf(r, r.at, r.next + 1, r.todo, memo, [r.said EXCEPT ![f] = found],
                   r.seen, r.tmp, r.listed)
<1> DEFINE moved == [r EXCEPT !.next = @ + 1, !.memo = memo]
<1>1. moved = RunOf(r, r.at, r.next + 1, r.todo, memo, r.said, r.seen, r.tmp, r.listed)
  BY MovedRun
<1> HIDE DEF moved
<1>2. [moved EXCEPT !.said[f] = found]
        = RunOf(r, r.at, r.next + 1, r.todo, memo, [r.said EXCEPT ![f] = found],
                r.seen, r.tmp, r.listed)
  BY <1>1 DEF RunOf
<1> QED
  BY <1>2 DEF moved, AfterHit

LEMMA MissedRun ==
  ASSUME NEW r, IsRun(r), NEW memo, NEW f
  PROVE  [[r EXCEPT !.next = @ + 1, !.memo = memo] EXCEPT !.todo = Append(@, f)]
           = RunOf(r, r.at, r.next + 1, Append(r.todo, f), memo, r.said,
                   r.seen, r.tmp, r.listed)
<1> DEFINE moved == [r EXCEPT !.next = @ + 1, !.memo = memo]
           todo == Append(r.todo, f)
<1>1. moved = RunOf(r, r.at, r.next + 1, r.todo, memo, r.said, r.seen, r.tmp, r.listed)
  BY MovedRun
<1> HIDE DEF moved
<1>2. moved.todo = r.todo
  BY <1>1 DEF RunOf
<1>3. [moved EXCEPT !.todo = Append(@, f)] = [moved EXCEPT !.todo = todo]
  BY <1>2
<1> HIDE DEF todo
<1>4. [moved EXCEPT !.todo = todo]
        = RunOf(r, r.at, r.next + 1, todo, memo, r.said, r.seen, r.tmp, r.listed)
  BY <1>1 DEF RunOf
<1> QED
  BY <1>3, <1>4 DEF moved, todo

AfterCheck(r, f, found, seen) ==
  [r EXCEPT !.at = "hash", !.said[f] = found, !.seen = seen]
LEMMA CheckedRun ==
  ASSUME NEW r, IsRun(r), NEW f, NEW found, NEW seen
  PROVE  AfterCheck(r, f, found, seen)
           = RunOf(r, "hash", r.next, r.todo, r.memo, [r.said EXCEPT ![f] = found],
                   seen, r.tmp, r.listed)
<1> DEFINE s == AfterCheck(r, f, found, seen)
<1>1. s = [[[r EXCEPT !.at = "hash"] EXCEPT !.said[f] = found] EXCEPT !.seen = seen]
  BY DEF AfterCheck
<1> HIDE DEF s
<1>2. s = RunOf(r, "hash", r.next, r.todo, r.memo, [r.said EXCEPT ![f] = found],
                seen, r.tmp, r.listed)
  BY <1>1 DEF IsRun, RunOf
<1> QED
  BY <1>2 DEF s

AfterHash(r, memo, tmp, whole) ==
  [r EXCEPT !.memo = memo, !.seen = None, !.tmp = tmp,
            !.todo = IF whole THEN @ ELSE Tail(@),
            !.at = IF whole THEN "publish" ELSE "walk"]
LEMMA HashedRun ==
  ASSUME NEW r, IsRun(r), NEW memo, NEW tmp, NEW whole \in BOOLEAN
  PROVE  AfterHash(r, memo, tmp, whole)
           = RunOf(r, IF whole THEN "publish" ELSE "walk", r.next,
                   IF whole THEN r.todo ELSE Tail(r.todo), memo, r.said, None, tmp,
                   r.listed)
<1> DEFINE at == IF whole THEN "publish" ELSE "walk"
           todo == IF whole THEN r.todo ELSE Tail(r.todo)
           s == AfterHash(r, memo, tmp, whole)
<1> HIDE DEF at
<1>1. s = [[[[[r EXCEPT !.memo = memo] EXCEPT !.seen = None] EXCEPT !.tmp = tmp]
              EXCEPT !.todo = todo] EXCEPT !.at = at]
  BY DEF AfterHash, at
<1> HIDE DEF s, todo
<1>2. s = RunOf(r, at, r.next, todo, memo, r.said, None, tmp, r.listed)
  BY <1>1 DEF IsRun, RunOf
<1> QED
  BY <1>2 DEF s, todo, at

LEMMA PublishedRun ==
  ASSUME NEW r, IsRun(r)
  PROVE  [r EXCEPT !.at = "walk", !.tmp = None, !.todo = Tail(@)]
           = RunOf(r, "walk", r.next, Tail(r.todo), r.memo, r.said, r.seen, None,
                   r.listed)
<1> DEFINE todo == Tail(r.todo)
           s == [r EXCEPT !.at = "walk", !.tmp = None, !.todo = Tail(@)]
<1>1. s = [[[r EXCEPT !.at = "walk"] EXCEPT !.tmp = None] EXCEPT !.todo = todo]
  OBVIOUS
<1> HIDE DEF s, todo
<1>2. s = RunOf(r, "walk", r.next, todo, r.memo, r.said, r.seen, None, r.listed)
  BY <1>1 DEF IsRun, RunOf
<1> QED
  BY <1>2 DEF s, todo

LEMMA ListedRun ==
  ASSUME NEW r, IsRun(r), NEW listed
  PROVE  [r EXCEPT !.at = "sweep", !.listed = listed]
           = RunOf(r, "sweep", r.next, r.todo, r.memo, r.said, r.seen, r.tmp, listed)
<1> DEFINE s == [r EXCEPT !.at = "sweep", !.listed = listed]
<1>1. s = [[r EXCEPT !.at = "sweep"] EXCEPT !.listed = listed]
  OBVIOUS
<1> HIDE DEF s
<1>2. s = RunOf(r, "sweep", r.next, r.todo, r.memo, r.said, r.seen, r.tmp, listed)
  BY <1>1 DEF IsRun, RunOf
<1> QED
  BY <1>2 DEF s

LEMMA LookupInv ==
  ASSUME Inv, NEW p \in Runs, Lookup(p)
  PROVE  Inv'
<1> DEFINE r == run[p]
           f == Walk[r.spec][r.next]
           k == KeyOf(p, f)
           e == disk[k]
           hit == e # None /\ StillValid(r.build, r.memo, e)
           memo == IF e = None \/ ~StampHolds(r.build, e) THEN r.memo
                   ELSE Memoised(r.memo, DOMAIN e.inputs)
           moved == [r EXCEPT !.next = @ + 1, !.memo = memo]
           found == [report |-> e.report, law |-> e.law, config |-> e.config]
<1>1. r.at = "walk" /\ ~(r.next > Len(Walk[r.spec]))
  BY DEF Lookup, LookedUp
<1>2. RunRight(r, world) /\ world \in Worlds
  BY <1>1 DEF Inv, RunsRight, Active, Shapes
<1>3. RunTypes(r)
  BY <1>2 DEF RunRight
<1>4. Walk[r.spec] \in Seq(Files)
  BY <1>3, CheckCacheAssumption DEF RunTypes
<1>5. f \in Files /\ k \in Keys /\ k[2] = f
  <2>1. r.next \in Nat /\ r.spec \in Specs /\ Len(Walk[r.spec]) \in Nat
    BY <1>3, <1>4 DEF RunTypes
  <2>2. f \in Files
    BY <1>1, <1>3, <2>1, NextFile
  <2> QED
    BY <2>1, <2>2 DEF Keys, KeyOf
<1>6. /\ MemoRight(r.memo, world)
      /\ MemoRight(memo, world) /\ memo = [g \in Files |-> memo[g]]
  <2>1. MemoRight(r.memo, world) /\ r.memo = [g \in Files |-> r.memo[g]]
    BY <1>2, <1>3 DEF RunRight, RunTypes
  <2> DEFINE read == Memoised(r.memo, DOMAIN e.inputs)
  <2>2. MemoRight(read, world) /\ read = [g \in Files |-> read[g]]
    BY <1>2, <2>1, HashesAreRight
  <2> HIDE DEF read
  <2>3. memo = r.memo \/ memo = read
    BY DEF read
  <2> HIDE DEF memo
  <2> QED
    BY <2>1, <2>2, <2>3
<1>7. world' = world /\ disk' = disk
  BY DEF Lookup
<1>8. CASE run' = [run EXCEPT ![p].next = @ + 1]
  <2> DEFINE s == [r EXCEPT !.next = @ + 1]
  <2>1. s = RunOf(r, "walk", r.next + 1, r.todo, r.memo, r.said, r.seen, r.tmp, r.listed)
    BY <1>1, <1>3, SkippedRun DEF RunTypes
  <2>2. run' = [run EXCEPT ![p] = s]
    BY <1>8
  <2> HIDE DEF s
  <2>3. RunRight(s, world)
    BY <1>2, <1>3, <2>1 DEF RunRight, SaidRight, RunTypes, IsRun, RunOf
  <2> QED
    BY <2>2, <2>3, <1>7, RunStepInv
<1>9. CASE e # None /\ hit /\ run' = [run EXCEPT ![p] = [moved EXCEPT !.said[f] = found]]
  <2> DEFINE s == AfterHit(r, memo, f, found)
             saying == [r.said EXCEPT ![f] = found]
  <2>1. Right(e, f)
    <3>1. Right(e, k[2])
      BY <1>5, <1>9 DEF Inv, EntriesRight
    <3> QED
      BY <1>5, <3>1
  <2>2. Matches(e, world) /\ e.stamp = r.build
    <3>1. \A g \in Files : HashIn(r.memo, g) = world[g]
      BY <1>2, <1>6, HashesAreRight
    <3>2. StillValid(r.build, r.memo, e)
      BY <1>9
    <3>3. DOMAIN e.inputs \subseteq Files
      BY <2>1 DEF Right
    <3> HIDE DEF r, e
    <3> QED
      BY <3>1, <3>2, <3>3 DEF StillValid, StampHolds, InputsHold, ProbesHold, Matches
  <2>3. found.report = Report(r.build, world, f)
    BY <1>2, <2>1, <2>2 DEF Right
  <2>4. found.config # None => found.config = world[Config]
    BY <2>1, <2>2 DEF Right, Matches
  <2>5. /\ saying = [g \in Files |-> saying[g]]
        /\ \A g \in Files : saying[g] = IF g = f THEN found ELSE r.said[g]
    BY <1>3 DEF RunTypes
  <2>6. run' = [run EXCEPT ![p] = s]
    BY <1>9 DEF AfterHit
  <2> HIDE DEF found, memo
  <2>7. s = RunOf(r, "walk", r.next + 1, r.todo, memo, saying, r.seen, r.tmp, r.listed)
    <3>1. IsRun(r) /\ r.at = "walk"
      BY <1>1, <1>3 DEF RunTypes
    <3> HIDE DEF r, f
    <3> QED
      BY <3>1, HitRun DEF saying
  <2> HIDE DEF s, saying
  <2>8. RunTypes(s)
    BY <1>3, <1>6, <2>5, <2>7 DEF RunTypes, IsRun, RunOf
  <2>9. RunRight(s, world)
    BY <1>2, <1>6, <2>3, <2>4, <2>5, <2>7, <2>8 DEF RunRight, SaidRight, RunOf
  <2> QED
    BY <2>6, <2>9, <1>7, RunStepInv
<1>10. CASE run' = [run EXCEPT ![p] = [moved EXCEPT !.todo = Append(@, f)]]
  <2> DEFINE s == [moved EXCEPT !.todo = Append(@, f)]
  <2>1. Append(r.todo, f) \in Seq(Files)
    BY <1>3, <1>5 DEF RunTypes
  <2>2. run' = [run EXCEPT ![p] = s]
    BY <1>10
  <2> HIDE DEF memo
  <2>3. s = RunOf(r, "walk", r.next + 1, Append(r.todo, f), memo, r.said, r.seen, r.tmp, r.listed)
    <3>1. IsRun(r)
      BY <1>3 DEF RunTypes
    <3>2. moved = [r EXCEPT !.next = @ + 1, !.memo = memo]
      BY DEF moved
    <3> HIDE DEF r, f, moved
    <3>3. [moved EXCEPT !.todo = Append(@, f)]
            = RunOf(r, r.at, r.next + 1, Append(r.todo, f), memo, r.said, r.seen, r.tmp, r.listed)
      BY <3>1, <3>2, MissedRun
    <3> QED
      BY <1>1, <3>3 DEF r
  <2> HIDE DEF s
  <2>4. RunTypes(s)
    BY <1>3, <1>6, <2>1, <2>3 DEF RunTypes, IsRun, RunOf
  <2>5. RunRight(s, world)
    BY <1>2, <1>6, <2>3, <2>4 DEF RunRight, SaidRight, RunOf
  <2> QED
    BY <2>2, <2>5, <1>7, RunStepInv
<1> QED
  BY <1>8, <1>9, <1>10 DEF Lookup

LEMMA CheckInv ==
  ASSUME Inv, NEW p \in Runs, Check(p)
  PROVE  Inv'
<1> DEFINE r == run[p]
           f == Head(r.todo)
           found == [report |-> Report(r.build, world, f),
                     law |-> Contract(world, f), config |-> r.config]
           seen == [inputs |-> Inputs(world, r.config, f),
                    questions |-> Questions(world, f)]
           s == AfterCheck(r, f, found, seen)
<1>1. r.at = "walk" /\ r.todo # <<>>
  BY DEF Check
<1>2. RunRight(r, world)
  BY <1>1 DEF Inv, RunsRight, Active
<1>3. RunTypes(r) /\ f \in Files
  BY <1>1, <1>2 DEF RunRight, RunTypes
<1> DEFINE saying == [r.said EXCEPT ![f] = found]
<1>4. run' = [run EXCEPT ![p] = s] /\ world' = world /\ disk' = disk
  BY DEF Check, Inv, Shapes, AfterCheck
<1> HIDE DEF found, seen
<1>5. s = RunOf(r, "hash", r.next, r.todo, r.memo, saying, seen, r.tmp, r.listed)
  <2>1. IsRun(r)
    BY <1>3 DEF RunTypes
  <2> HIDE DEF r, f
  <2> QED
    BY <2>1, CheckedRun DEF saying
<1>6. /\ saying = [g \in Files |-> saying[g]]
      /\ \A g \in Files : saying[g] = IF g = f THEN found ELSE r.said[g]
  BY <1>3 DEF RunTypes
<1> HIDE DEF s, saying
<1>7. RunTypes(s)
  BY <1>3, <1>5, <1>6 DEF RunTypes, IsRun, RunOf
<1>8. SaidRight(s, world, f) /\ s.said[f].config = s.config
  BY <1>2, <1>3, <1>5, <1>6 DEF RunRight, SaidRight, RunOf, found
<1>9. RunRight(s, world)
  BY <1>1, <1>2, <1>3, <1>5, <1>6, <1>7, <1>8 DEF RunRight, SaidRight, RunOf, seen
<1> QED
  BY <1>4, <1>9, RunStepInv

LEMMA PopTodo ==
  ASSUME NEW todo \in Seq(Files), todo # <<>>
  PROVE  Tail(todo) \in Seq(Files) /\ Head(todo) \in Files
OBVIOUS

\* What is stored of a check is right in every world it matches: this is where
\* the inputs and the probes have to cover all that the report depends on.
LEMMA StoredIsRight ==
  ASSUME NEW w \in Worlds, NEW f \in Files, NEW b, NEW cfg, cfg = w[Config], NEW e,
         DOMAIN e.inputs = Inputs(w, cfg, f),
         \A g \in Inputs(w, cfg, f) : e.inputs[g] = w[g],
         DOMAIN e.probes = Questions(w, f),
         \A q \in Questions(w, f) : e.probes[q] = Resolve(w, q[1], q[2]),
         e.stamp = b, e.report = Report(b, w, f), e.config = cfg
  PROVE  Right(e, f)
<1>1. Closure(w, f) \subseteq Inputs(w, cfg, f) /\ Inputs(w, cfg, f) \subseteq Files
  BY ClosureHas, CheckCacheAssumption DEF Inputs, Deps
<1>2. ASSUME NEW v \in Worlds, Matches(e, v)
      PROVE  e.report = Report(e.stamp, v, f)
  <2>1. \A g \in Closure(w, f) : v[g] = w[g]
    BY <1>1, <1>2 DEF Matches
  <2>2. \A q \in Asked(w, Closure(w, f)) : Resolve(v, q[1], q[2]) = Resolve(w, q[1], q[2])
    BY <1>2 DEF Matches, Questions
  <2> QED
    BY <2>1, <2>2, AgreeingReport DEF Agree
<1>3. ASSUME cfg # None PROVE Config \in DOMAIN e.inputs /\ e.inputs[Config] = cfg
  BY <1>3 DEF Inputs
<1> QED
  BY <1>1, <1>2, <1>3 DEF Right

LEMMA HashInv ==
  ASSUME Inv, NEW p \in Runs, Hash(p)
  PROVE  Inv'
<1> DEFINE r == run[p]
           f == Head(r.todo)
           memo == Memoised(r.memo, r.seen.inputs)
           entry == [stamp |-> r.build,
                     inputs |-> [g \in r.seen.inputs |-> memo[g]],
                     probes |-> [q \in r.seen.questions |-> Resolve(world, q[1], q[2])],
                     report |-> r.said[f].report,
                     law |-> r.said[f].law,
                     config |-> r.said[f].config]
           whole == \A g \in r.seen.inputs : memo[g] # None
           at == IF whole THEN "publish" ELSE "walk"
           todo == IF whole THEN r.todo ELSE Tail(r.todo)
           tmp == IF whole THEN entry ELSE None
           s == AfterHash(r, memo, tmp, whole)
<1>1. r.at = "hash" /\ run' = [run EXCEPT ![p] = s] /\ world' = world /\ disk' = disk
  BY DEF Hash, AfterHash
<1>2. RunRight(r, world) /\ world \in Worlds
  BY <1>1 DEF Inv, RunsRight, Active, Shapes
<1>3. RunTypes(r) /\ r.todo # <<>> /\ f \in Files /\ Tail(r.todo) \in Seq(Files)
  BY <1>1, <1>2, PopTodo DEF RunRight, RunTypes
<1>4. /\ SaidRight(r, world, f) /\ r.said[f].config = world[Config]
      /\ r.seen.inputs = Inputs(world, world[Config], f)
      /\ r.seen.questions = Questions(world, f)
  BY <1>1, <1>2 DEF RunRight
<1>5. r.seen.inputs \subseteq Files
  BY <1>2, <1>3, <1>4, ClosureHas, CheckCacheAssumption DEF Inputs, Deps
<1>6. /\ MemoRight(memo, world) /\ memo = [g \in Files |-> memo[g]]
      /\ \A g \in r.seen.inputs : memo[g] = world[g]
  <2>1. MemoRight(r.memo, world)
    BY <1>2 DEF RunRight
  <2> QED
    BY <1>2, <1>5, <2>1, HashesAreRight
<1>7. Right(entry, f)
  BY <1>2, <1>3, <1>4, <1>6, StoredIsRight DEF SaidRight
<1> HIDE DEF memo, entry
<1>8. tmp # None => Right(tmp, f)
  BY <1>7
<1>9. /\ at \in {"publish", "walk"} /\ todo \in Seq(Files)
      /\ at = "publish" => todo = r.todo
  BY <1>3 DEF RunTypes
<1> HIDE DEF at, tmp
<1>10. s = RunOf(r, at, r.next, todo, memo, r.said, None, tmp, r.listed)
  <2>1. whole \in BOOLEAN
    OBVIOUS
  <2>2. IsRun(r)
    BY <1>3 DEF RunTypes
  <2> HIDE DEF r, f, whole
  <2> QED
    BY <2>1, <2>2, HashedRun DEF at
<1> HIDE DEF s, todo
<1>11. RunTypes(s)
  BY <1>3, <1>6, <1>9, <1>10 DEF RunTypes, IsRun, RunOf
<1>12. RunRight(s, world)
  BY <1>2, <1>3, <1>6, <1>8, <1>9, <1>10, <1>11 DEF RunRight, SaidRight, RunOf
<1> QED
  BY <1>1, <1>12, RunStepInv

LEMMA PublishInv ==
  ASSUME Inv, NEW p \in Runs, Publish(p)
  PROVE  Inv'
<1> DEFINE r == run[p]
           f == Head(r.todo)
           k == KeyOf(p, f)
           s == [r EXCEPT !.at = "walk", !.tmp = None, !.todo = Tail(@)]
<1>1. /\ r.at = "publish" /\ world' = world
      /\ run' = [run EXCEPT ![p] = s]
      /\ disk' = [disk EXCEPT ![k] = r.tmp]
  BY DEF Publish
<1>2. RunRight(r, world)
  BY <1>1 DEF Inv, RunsRight, Active
<1>3. /\ RunTypes(r) /\ r.todo # <<>> /\ f \in Files /\ Tail(r.todo) \in Seq(Files)
      /\ r.tmp # None => Right(r.tmp, f)
  BY <1>1, <1>2, PopTodo DEF RunRight, RunTypes
<1>4. s = RunOf(r, "walk", r.next, Tail(r.todo), r.memo, r.said, r.seen, None, r.listed)
  BY <1>3, PublishedRun DEF RunTypes
<1> HIDE DEF s
<1>5. RunTypes(s)
  BY <1>3, <1>4 DEF RunTypes, IsRun, RunOf
<1>6. RunRight(s, world)
  BY <1>2, <1>4, <1>5 DEF RunRight, SaidRight, RunOf
<1>7. Shapes'
  BY <1>1 DEF Inv, Shapes
<1>8. RunsRight'
  BY <1>1, <1>6 DEF Inv, Shapes, RunsRight, Active
<1>9. EntriesRight'
  <2> SUFFICES ASSUME NEW l \in Keys, disk'[l] # None PROVE Right(disk'[l], l[2])
    BY DEF EntriesRight
  <2>1. k[2] = f
    BY DEF KeyOf
  <2>2. disk'[l] = IF l = k THEN r.tmp ELSE disk[l]
    BY <1>1 DEF Inv, Shapes
  <2> HIDE DEF k, r, f
  <2>3. CASE l = k
    BY <1>3, <2>1, <2>2, <2>3
  <2>4. CASE l # k
    BY <2>2, <2>4 DEF Inv, EntriesRight
  <2> QED
    BY <2>3, <2>4
<1> QED
  BY <1>7, <1>8, <1>9 DEF Inv

LEMMA ListInv ==
  ASSUME Inv, NEW p \in Runs, List(p)
  PROVE  Inv'
<1> DEFINE r == run[p]
           s == [r EXCEPT !.at = "sweep", !.listed = recent]
<1>1. r.at = "walk" /\ run' = [run EXCEPT ![p] = s] /\ world' = world /\ disk' = disk
  BY DEF List
<1>2. RunRight(r, world)
  BY <1>1 DEF Inv, RunsRight, Active
<1>3. RunTypes(r)
  BY <1>2 DEF RunRight
<1>4. s = RunOf(r, "sweep", r.next, r.todo, r.memo, r.said, r.seen, r.tmp, recent)
  BY <1>3, ListedRun DEF RunTypes
<1> HIDE DEF s
<1>5. RunTypes(s)
  BY <1>3, <1>4 DEF RunTypes, IsRun, RunOf
<1>6. RunRight(s, world)
  BY <1>2, <1>4, <1>5 DEF RunRight, SaidRight, RunOf
<1> QED
  BY <1>1, <1>6, RunStepInv

\* A run that ends, however it ends, leaves nothing in memory.
LEMMA IdleInv ==
  ASSUME Inv, NEW p \in Runs, run' = [run EXCEPT ![p] = Idle], world' = world,
         Shapes', \A k \in Keys : disk'[k] \in {None, disk[k]}
  PROVE  Inv'
<1>1. RunsRight'
  BY DEF Inv, Shapes, RunsRight, Active, Idle
<1>2. EntriesRight'
  BY DEF Inv, EntriesRight
<1> QED
  BY <1>1, <1>2 DEF Inv

LEMMA SweepInv ==
  ASSUME Inv, NEW p \in Runs, Sweep(p)
  PROVE  Inv'
<1>1. PICK gone \in SUBSET SeqRange(run[p].listed) :
        disk' = [k \in Keys |-> IF k \in gone THEN None ELSE disk[k]]
  BY DEF Sweep
<1>2. run' = [run EXCEPT ![p] = Idle] /\ world' = world
  BY DEF Sweep
<1>3. Shapes'
  BY <1>1, <1>2 DEF Inv, Shapes
<1> QED
  BY <1>1, <1>2, <1>3, IdleInv

LEMMA CrashInv ==
  ASSUME Inv, NEW p \in Runs, Crash(p)
  PROVE  Inv'
<1>1. run' = [run EXCEPT ![p] = Idle] /\ world' = world /\ disk' = disk
  BY DEF Crash
<1>2. Shapes'
  BY <1>1 DEF Inv, Shapes
<1> QED
  BY <1>1, <1>2, IdleInv

LEMMA StutterInv == Inv /\ UNCHANGED vars => Inv'
<1> SUFFICES ASSUME Inv, UNCHANGED vars PROVE Inv'
  OBVIOUS
<1>1. world' = world /\ disk' = disk /\ run' = run
  BY DEF vars
<1> QED
  BY <1>1 DEF Inv, Shapes, RunsRight, EntriesRight, Active

LEMMA NextInv == ~EditsDuringRuns /\ Inv /\ [Next]_vars => Inv'
BY EditInv, StartInv, LookupInv, CheckInv, HashInv, PublishInv, ListInv, SweepInv,
   CrashInv, StutterInv DEF Next

-----------------------------------------------------------------------------
(* What is left of a sequence.                                             *)

Below == {x \in Nat \X Nat : x[1] < x[2]}

LEMMA BelowIsWellFounded == IsWellFoundedOn(Below, Nat)
BY NatLessThanWellFounded DEF Below, OpToRel

\* Induction, over a set of numbers rather than an operator.
LEMMA Inductive ==
  ASSUME NEW T, 0 \in T, \A n \in Nat : n \in T => n + 1 \in T
  PROVE  Nat \subseteq T
<1> SUFFICES ASSUME ~(Nat \subseteq T) PROVE FALSE
  OBVIOUS
<1>1. PICK n \in Nat \ T : \A m \in Nat \ T : ~(<<m, n>> \in Below)
  BY BelowIsWellFounded, WFMin
<1>2. n # 0 /\ n - 1 \in Nat /\ <<n - 1, n>> \in Below
  BY DEF Below
<1> QED
  BY <1>1, <1>2

Distinct(s) == \A i, j \in DOMAIN s : s[i] = s[j] => i = j
Filters(kept, s, S, n) ==
  /\ kept = [i \in 0 .. n |-> kept[i]]
  /\ kept[0] = <<>>
  /\ \A i \in 1 .. n : kept[i] = IF s[i] \in S THEN kept[i - 1] ELSE Append(kept[i - 1], s[i])

LEMMA FiltersExist ==
  ASSUME NEW T, NEW s \in Seq(T), NEW S
  PROVE  \E kept : Filters(kept, s, S, Len(s)) /\ Without(s, S) = kept[Len(s)]
<1> DEFINE Step(kept, n) == IF n = 0 THEN <<>>
        ELSE IF s[n] \in S THEN kept[n - 1] ELSE Append(kept[n - 1], s[n])
        Some == {n \in Nat : \E kept : Filters(kept, s, S, n)}
<1>1. 0 \in Some
  <2> DEFINE k == [i \in 0 .. 0 |-> <<>>]
  <2>1. Filters(k, s, S, 0)
    BY DEF Filters
  <2> QED
    BY <2>1
<1>2. ASSUME NEW n \in Nat, n \in Some PROVE n + 1 \in Some
  <2>1. PICK k : Filters(k, s, S, n)
    BY <1>2
  <2> DEFINE m == [i \in 0 .. n + 1 |-> IF i <= n THEN k[i] ELSE
                   IF s[n + 1] \in S THEN k[n] ELSE Append(k[n], s[n + 1])]
  <2>2. /\ m = [i \in 0 .. n + 1 |-> m[i]]
        /\ \A i \in 0 .. n : m[i] = k[i]
        /\ m[n + 1] = IF s[n + 1] \in S THEN k[n] ELSE Append(k[n], s[n + 1])
    OBVIOUS
  <2> HIDE DEF m
  <2>3. \A i \in 1 .. n + 1 : m[i] = IF s[i] \in S THEN m[i - 1] ELSE Append(m[i - 1], s[i])
    <3> SUFFICES ASSUME NEW i \in 1 .. n + 1
                 PROVE m[i] = IF s[i] \in S THEN m[i - 1] ELSE Append(m[i - 1], s[i])
      OBVIOUS
    <3>1. i - 1 \in 0 .. n
      OBVIOUS
    <3>2. m[i - 1] = k[i - 1]
      BY <2>2, <3>1
    <3>3. ASSUME i \in 1 .. n
          PROVE  m[i] = k[i] /\ k[i] = IF s[i] \in S THEN k[i - 1] ELSE Append(k[i - 1], s[i])
      <4>1. i \in 0 .. n
        BY <3>3
      <4>2. m[i] = k[i]
        BY <2>2, <4>1
      <4> QED
        BY <2>1, <3>3, <4>2 DEF Filters
    <3>4. CASE i \in 1 .. n
      BY <3>2, <3>3, <3>4
    <3>5. CASE i = n + 1
      <4>1. k[n] = m[i - 1]
        BY <3>2, <3>5
      <4> QED
        BY <2>2, <4>1, <3>5
    <3> QED
      BY <3>4, <3>5
  <2>4. m[0] = <<>>
    <3>1. 0 \in 0 .. n
      OBVIOUS
    <3>2. m[0] = k[0]
      BY <2>2, <3>1
    <3> QED
      BY <2>1, <3>2 DEF Filters
  <2>5. Filters(m, s, S, n + 1)
    BY <2>2, <2>3, <2>4 DEF Filters
  <2> QED
    BY <2>5
<1>3. Nat \subseteq Some
  <2> HIDE DEF Some
  <2> QED
    BY <1>1, <1>2, Inductive
<1>4. PICK k : Filters(k, s, S, Len(s))
  BY <1>3
<1> DEFINE F == CHOOSE kept : kept = [n \in 0 .. Len(s) |-> Step(kept, n)]
<1>5. k = [n \in 0 .. Len(s) |-> Step(k, n)]
  <2>1. \A n \in 0 .. Len(s) : k[n] = Step(k, n)
    BY <1>4 DEF Filters
  <2> HIDE DEF Step
  <2> QED
    BY <1>4, <2>1 DEF Filters
<1>6. F = [n \in 0 .. Len(s) |-> Step(F, n)]
  <2> HIDE DEF Step
  <2> QED
    BY <1>5
<1>7. Without(s, S) = F[Len(s)]
  BY DEF Without
<1> HIDE DEF F
<1>8. Filters(F, s, S, Len(s))
  <2>1. \A n \in 0 .. Len(s) : F[n] = Step(F, n)
    <3> HIDE DEF Step
    <3> QED BY <1>6
  <2>2. F = [n \in 0 .. Len(s) |-> F[n]]
    <3> HIDE DEF Step
    <3> QED BY <1>6
  <2> QED
    BY <2>1, <2>2 DEF Filters
<1> QED
  BY <1>7, <1>8

\* The sequence t is what the first n of s leave of s without S, in its order:
\* at says where in s each of t is.
Leaves(t, at, s, S, n) ==
  /\ at \in [1 .. Len(t) -> 1 .. n]
  /\ \A a \in 1 .. Len(t) : t[a] = s[at[a]] /\ t[a] \notin S
  /\ \A a, b \in 1 .. Len(t) : a < b => at[a] < at[b]
  /\ \A i \in 1 .. n : s[i] \notin S => \E a \in 1 .. Len(t) : t[a] = s[i]

LEMMA LeavesNext ==
  ASSUME NEW T, NEW s \in Seq(T), NEW S, NEW n \in Nat, n + 1 <= Len(s),
         NEW t \in Seq(T), NEW at, Leaves(t, at, s, S, n)
  PROVE  /\ s[n + 1] \in S => Leaves(t, at, s, S, n + 1)
         /\ s[n + 1] \notin S =>
              /\ Append(t, s[n + 1]) \in Seq(T)
              /\ \E to : Leaves(Append(t, s[n + 1]), to, s, S, n + 1)
<1> DEFINE x == s[n + 1]
           u == Append(t, x)
           m == Len(t)
<1>1. x \in T /\ m \in Nat /\ at \in [1 .. m -> 1 .. n + 1]
  <2>1. at \in [1 .. m -> 1 .. n]
    BY DEF Leaves
  <2> QED
    BY <2>1
<1>2. CASE x \in S
  BY <1>1, <1>2 DEF Leaves
<1>3. CASE x \notin S
  <2> DEFINE to == [a \in 1 .. m + 1 |-> IF a = m + 1 THEN n + 1 ELSE at[a]]
  <2>1. /\ u \in Seq(T) /\ Len(u) = m + 1 /\ u[m + 1] = x
        /\ \A a \in 1 .. m : u[a] = t[a]
    BY <1>1
  <2>2. /\ to \in [1 .. m + 1 -> 1 .. n + 1] /\ to[m + 1] = n + 1
        /\ \A a \in 1 .. m : to[a] = at[a] /\ to[a] \in 1 .. n
    <3>1. at \in [1 .. m -> 1 .. n]
      BY DEF Leaves
    <3> HIDE DEF m
    <3>2. m + 1 \in 1 .. m + 1 /\ n + 1 \in 1 .. n + 1
      BY <1>1
    <3>3. \A a \in 1 .. m : a # m + 1 /\ a \in 1 .. m + 1
      BY <1>1
    <3>4. \A a \in 1 .. m + 1 : a # m + 1 => a \in 1 .. m
      BY <1>1
    <3>5. \A i \in 1 .. n : i \in 1 .. n + 1
      OBVIOUS
    <3> QED
      BY <3>1, <3>2, <3>3, <3>4, <3>5
  <2> HIDE DEF to, u
  <2>3. \A a \in 1 .. m + 1 : a \in 1 .. m \/ a = m + 1
    BY <1>1
  <2>4. \A a \in 1 .. m + 1 : u[a] = s[to[a]] /\ u[a] \notin S
    BY <1>3, <2>1, <2>2, <2>3 DEF Leaves
  <2>5. ASSUME NEW a \in 1 .. m + 1, NEW b \in 1 .. m + 1, a < b
        PROVE  to[a] < to[b]
    <3>1. a \in 1 .. m
      BY <1>1, <2>5
    <3>2. CASE b = m + 1
      BY <2>2, <3>1, <3>2
    <3>3. CASE b \in 1 .. m
      BY <2>2, <2>5, <3>1, <3>3 DEF Leaves
    <3> QED
      BY <2>3, <3>2, <3>3
  <2>6. ASSUME NEW i \in 1 .. n + 1, s[i] \notin S
        PROVE  \E a \in 1 .. m + 1 : u[a] = s[i]
    <3>1. CASE i = n + 1
      BY <1>1, <2>1, <3>1
    <3>2. CASE i \in 1 .. n
      BY <1>1, <2>1, <2>6, <3>2 DEF Leaves
    <3> QED
      BY <3>1, <3>2
  <2>7. Leaves(u, to, s, S, n + 1)
    BY <2>1, <2>2, <2>4, <2>5, <2>6 DEF Leaves
  <2> QED
    BY <1>3, <2>1, <2>7 DEF u
<1> QED
  BY <1>2, <1>3

LEMMA WithoutLeaves ==
  ASSUME NEW T, NEW s \in Seq(T), NEW S
  PROVE  /\ Without(s, S) \in Seq(T)
         /\ \E at : Leaves(Without(s, S), at, s, S, Len(s))
<1>1. PICK kept : Filters(kept, s, S, Len(s)) /\ Without(s, S) = kept[Len(s)]
  BY FiltersExist
<1> DEFINE Done == {n \in Nat : n <= Len(s) =>
                     kept[n] \in Seq(T) /\ \E at : Leaves(kept[n], at, s, S, n)}
<1>2. 0 \in Done
  <2>1. kept[0] = <<>>
    BY <1>1 DEF Filters
  <2>2. <<>> \in Seq(T) /\ Leaves(<<>>, <<>>, s, S, 0)
    BY DEF Leaves
  <2> QED
    BY <2>1, <2>2
<1>3. ASSUME NEW n \in Nat, n \in Done PROVE n + 1 \in Done
  <2> SUFFICES ASSUME n + 1 <= Len(s)
               PROVE  kept[n + 1] \in Seq(T) /\ \E at : Leaves(kept[n + 1], at, s, S, n + 1)
    OBVIOUS
  <2>1. PICK at : kept[n] \in Seq(T) /\ Leaves(kept[n], at, s, S, n)
    BY <1>3
  <2>2. n + 1 \in 1 .. Len(s) /\ (n + 1) - 1 = n
    OBVIOUS
  <2>3. kept[n + 1] = IF s[n + 1] \in S THEN kept[n] ELSE Append(kept[n], s[n + 1])
    BY <1>1, <2>2 DEF Filters
  <2> DEFINE t == kept[n]
  <2>4. t \in Seq(T) /\ Leaves(t, at, s, S, n)
    BY <2>1
  <2> HIDE DEF t
  <2>5. /\ s[n + 1] \in S => Leaves(t, at, s, S, n + 1)
        /\ s[n + 1] \notin S =>
              /\ Append(t, s[n + 1]) \in Seq(T)
              /\ \E to : Leaves(Append(t, s[n + 1]), to, s, S, n + 1)
    BY <2>4, LeavesNext
  <2> QED
    BY <2>3, <2>4, <2>5 DEF t
<1>4. Nat \subseteq Done
  <2> HIDE DEF Done
  <2> QED
    BY <1>2, <1>3, Inductive
<1> QED
  BY <1>1, <1>4

\* What is left is what was there, in its order, and still each once.
LEMMA WithoutFacts ==
  ASSUME NEW T, NEW s \in Seq(T), NEW S
  PROVE  /\ Without(s, S) \in Seq(T)
         /\ SeqRange(Without(s, S)) = SeqRange(s) \ S
         /\ Distinct(s) => Distinct(Without(s, S))
<1> DEFINE t == Without(s, S)
<1>1. PICK at : t \in Seq(T) /\ Leaves(t, at, s, S, Len(s))
  BY WithoutLeaves
<1>2. DOMAIN t = 1 .. Len(t) /\ DOMAIN s = 1 .. Len(s) /\ Len(t) \in Nat /\ Len(s) \in Nat
  BY <1>1
<1> HIDE DEF t
<1>3. SeqRange(t) = SeqRange(s) \ S
  <2>1. ASSUME NEW a \in DOMAIN t PROVE t[a] \in SeqRange(s) \ S
    <3>1. at[a] \in DOMAIN s /\ t[a] = s[at[a]] /\ t[a] \notin S
      BY <1>1, <1>2, <2>1 DEF Leaves
    <3> QED
      BY <3>1 DEF SeqRange
  <2>2. ASSUME NEW i \in DOMAIN s, s[i] \notin S PROVE s[i] \in SeqRange(t)
    <3>1. \E a \in DOMAIN t : t[a] = s[i]
      BY <1>1, <1>2, <2>2 DEF Leaves
    <3> QED
      BY <3>1 DEF SeqRange
  <2>3. \A x \in SeqRange(t) : x \in SeqRange(s) \ S
    BY <2>1 DEF SeqRange
  <2>4. \A x \in SeqRange(s) \ S : x \in SeqRange(t)
    BY <2>2 DEF SeqRange
  <2> QED
    BY <2>3, <2>4
<1>4. ASSUME Distinct(s), NEW i \in DOMAIN t, NEW j \in DOMAIN t, t[i] = t[j]
      PROVE  i = j
  <2>1. at[i] \in DOMAIN s /\ at[j] \in DOMAIN s /\ s[at[i]] = s[at[j]]
    BY <1>1, <1>2, <1>4 DEF Leaves
  <2>2. at[i] = at[j]
    BY <1>4, <2>1 DEF Distinct
  <2>3. ~(i < j) /\ ~(j < i)
    BY <1>1, <1>2, <2>1, <2>2 DEF Leaves
  <2> QED
    BY <1>2, <2>3
<1> QED
  BY <1>1, <1>3, <1>4 DEF Distinct, t

-----------------------------------------------------------------------------
(* What holds whatever is edited, and whenever.                            *)

\* An entry of f, whole.
IsEntry(e) ==
  \E I, C \in SUBSET Files : \E Q \in SUBSET (Files \X Names) : e \in Entries(I, C, Q)
OwnEntry(e, f) == IsEntry(e) /\ f \in DOMAIN e.inputs

Ordered(s) == s \in Seq(Keys) /\ Distinct(s)

\* A process in memory, when there were n edits.
RunTyped(r, n) ==
  /\ RunTypes(r)
  /\ r.build \in Builds /\ r.config \in Held
  /\ r.from \in Nat /\ r.from <= n
  /\ \A f \in Files : r.memo[f] \in Held \union {Unread}
  /\ r.at = "sweep" => Ordered(r.listed)
  /\ r.at \in {"hash", "publish"} => r.todo # <<>>
  /\ r.at = "hash" =>
       /\ Head(r.todo) \in r.seen.inputs
       /\ r.seen.inputs \subseteq Files /\ r.seen.questions \subseteq Files \X Names
       /\ \E C \in SUBSET Files :
            r.said[Head(r.todo)].report \in Reports(C, r.seen.questions)
       /\ r.said[Head(r.todo)].law \in Held /\ r.said[Head(r.todo)].config \in Held
  /\ r.at = "publish" => OwnEntry(r.tmp, Head(r.todo))

\* What a process that saw no edit has in memory is of the world as it is, and
\* what it is about to store is a hit for its own build.
Fresh(e, b, w) == e.stamp = b /\ Matches(e, w)
RunFresh(r, w, n) ==
  r.from = n => MemoRight(r.memo, w) /\ (r.at = "publish" => Fresh(r.tmp, r.build, w))

Store ==
  /\ Ordered(recent)
  /\ \A k \in Keys : disk[k] # None <=> k \in SeqRange(recent)
  /\ \A k \in Keys : disk[k] # None => OwnEntry(disk[k], k[2])
RunsKept == \A p \in Runs : Active(p) =>
  RunTyped(run[p], edits) /\ RunFresh(run[p], world, edits)
StableKept == \A x \in stable :
  x[1] \in Keys /\ disk[x[1]] # None /\ Fresh(disk[x[1]], x[2], world)
CacheKept == Shapes /\ edits \in Nat /\ Store /\ RunsKept /\ StableKept

LEMMA EntryFacts ==
  ASSUME NEW e, IsEntry(e)
  PROVE  /\ e # None /\ e.stamp \in Builds
         /\ DOMAIN e.inputs \subseteq Files /\ DOMAIN e.probes \subseteq Files \X Names
<1>1. PICK I \in SUBSET Files, C \in SUBSET Files, Q \in SUBSET (Files \X Names) :
        e \in Entries(I, C, Q)
  BY DEF IsEntry
<1>2. e # None
  BY <1>1, NoEntryAssumption
<1> QED
  BY <1>1, <1>2 DEF Entries

LEMMA ReportFacts ==
  ASSUME NEW w \in Worlds, NEW f \in Files, NEW b \in Builds
  PROVE  /\ Questions(w, f) \subseteq Files \X Names
         /\ \E C \in SUBSET Files : Report(b, w, f) \in Reports(C, Questions(w, f))
<1> DEFINE C == Closure(w, f)
<1>1. C \in SUBSET Files
  BY ClosureHas
<1> HIDE DEF C
<1>2. \A g \in C : AsksIn(w, g) \subseteq Names
  BY <1>1, CheckCacheAssumption DEF AsksIn, Worlds
<1>3. Asked(w, C) \subseteq Files \X Names
  BY <1>1, <1>2 DEF Asked
<1>4. \A q \in Asked(w, C) : Resolve(w, q[1], q[2]) \in SUBSET Files
  BY <1>3, CheckCacheAssumption DEF Resolve
<1>5. \A g \in C : w[g] \in Held
  BY <1>1 DEF Worlds, Held
<1>6. Report(b, w, f) \in Reports(C, Asked(w, C))
  BY <1>4, <1>5 DEF Report, Reports, C
<1> QED
  BY <1>1, <1>3, <1>6 DEF Questions, C

LEMMA InitKept == Init => CacheKept
<1> SUFFICES ASSUME Init PROVE CacheKept
  OBVIOUS
<1>1. Shapes /\ edits \in Nat
  BY CheckCacheAssumption DEF Init, Shapes, Worlds
<1>2. Store
  BY DEF Init, Store, Ordered, Distinct, SeqRange
<1>3. RunsKept /\ StableKept
  BY DEF Init, RunsKept, StableKept, Active, Idle
<1> QED
  BY <1>1, <1>2, <1>3 DEF CacheKept

\* A step of p that leaves the world and the entries.
LEMMA RunStepKept ==
  ASSUME CacheKept, NEW p \in Runs, NEW r, RunTyped(r, edits), RunFresh(r, world, edits),
         run' = [run EXCEPT ![p] = r], world' = world, disk' = disk, edits' = edits,
         stable' = stable, Store'
  PROVE  CacheKept'
<1>1. Shapes' /\ edits' \in Nat
  BY DEF CacheKept, Shapes
<1>2. RunsKept'
  BY DEF CacheKept, Shapes, RunsKept, Active
<1>3. StableKept'
  BY DEF CacheKept, StableKept
<1> QED
  BY <1>1, <1>2, <1>3 DEF CacheKept

LEMMA SameStore ==
  ASSUME Store, disk' = disk, recent' = recent
  PROVE  Store'
BY DEF Store

\* An edit makes nothing stable, and no run that is on quiet any more.
LEMMA EditKept ==
  ASSUME CacheKept, NEW f \in Files, NEW x \in MayHold[f], Edit(f, x)
  PROVE  CacheKept'
<1>1. x \in Contents \union {None}
  BY CheckCacheAssumption
<1>2. /\ world' = [world EXCEPT ![f] = x] /\ edits' = edits + 1 /\ stable' = {}
      /\ disk' = disk /\ recent' = recent /\ run' = run
  BY DEF Edit
<1>3. Shapes' /\ edits' \in Nat
  BY <1>1, <1>2 DEF CacheKept, Shapes, Worlds
<1>4. Store'
  BY <1>2, SameStore DEF CacheKept
<1>5. RunsKept'
  <2> SUFFICES ASSUME NEW p \in Runs, Active(p)
               PROVE  RunTyped(run[p], edits + 1) /\ RunFresh(run[p], world', edits + 1)
    BY <1>2 DEF RunsKept, Active
  <2>1. RunTyped(run[p], edits) /\ edits \in Nat
    BY DEF CacheKept, RunsKept
  <2>2. run[p].from \in Nat /\ run[p].from <= edits
    BY <2>1 DEF RunTyped
  <2>3. run[p].from <= edits + 1 /\ run[p].from # edits + 1
    BY <2>1, <2>2
  <2> QED
    BY <2>1, <2>3 DEF RunTyped, RunFresh
<1>6. StableKept'
  BY <1>2 DEF StableKept
<1> QED
  BY <1>3, <1>4, <1>5, <1>6 DEF CacheKept

LEMMA StartKept ==
  ASSUME CacheKept, NEW p \in Runs, NEW b \in Builds, NEW s \in Specs, Start(p, b, s)
  PROVE  CacheKept'
<1> DEFINE r == Started(b, s)
<1>1. RunTypes(r)
  BY DEF Started, RunTypes, IsRun, RunOf
<1>2. world[Config] \in Held /\ edits \in Nat
  BY CheckCacheAssumption DEF CacheKept, Shapes, Worlds, Held
<1>3. RunTyped(r, edits) /\ RunFresh(r, world, edits)
  BY <1>1, <1>2 DEF Started, RunTyped, RunFresh, MemoRight
<1>4. /\ run' = [run EXCEPT ![p] = r] /\ world' = world /\ disk' = disk
      /\ recent' = recent /\ edits' = edits /\ stable' = stable
  BY DEF Start
<1>5. Store'
  BY <1>4, SameStore DEF CacheKept
<1> HIDE DEF r
<1> QED
  BY <1>3, <1>4, <1>5, RunStepKept

\* A hash taken is of contents, or of none.
LEMMA HashesAreHeld ==
  ASSUME NEW w \in Worlds, w = world, NEW memo, memo = [f \in Files |-> memo[f]],
         \A f \in Files : memo[f] \in Held \union {Unread}, NEW S
  PROVE  /\ Memoised(memo, S) = [f \in Files |-> Memoised(memo, S)[f]]
         /\ \A f \in Files : Memoised(memo, S)[f] \in Held \union {Unread}
         /\ \A f \in Files : f \in S => Memoised(memo, S)[f] \in Held
<1>1. \A f \in Files : HashIn(memo, f) \in Held
  BY DEF HashIn, Worlds, Held
<1> QED
  BY <1>1 DEF Memoised

\* The order of use, with k last.
LEMMA UsedStore ==
  ASSUME CacheKept, NEW k \in Keys, recent' = UsedNow(k),
         \A l \in Keys : l # k => disk'[l] = disk[l], OwnEntry(disk'[k], k[2])
  PROVE  Store'
<1> DEFINE s == Without(recent, {k})
<1>1. Ordered(recent) /\ recent \in Seq(Keys)
  BY DEF CacheKept, Store, Ordered
<1>2. s \in Seq(Keys) /\ SeqRange(s) = SeqRange(recent) \ {k} /\ Distinct(s)
  BY <1>1, WithoutFacts DEF Ordered
<1>3. recent' = Append(s, k)
  BY DEF UsedNow
<1> HIDE DEF s
<1>4. /\ recent' \in Seq(Keys) /\ DOMAIN recent' = 1 .. Len(s) + 1
      /\ recent'[Len(s) + 1] = k /\ \A i \in DOMAIN s : recent'[i] = s[i]
      /\ DOMAIN s = 1 .. Len(s) /\ Len(s) \in Nat
  BY <1>2, <1>3
<1>5. SeqRange(recent') = SeqRange(recent) \union {k}
  <2>1. \A i \in DOMAIN recent' : i \in DOMAIN s \/ i = Len(s) + 1
    BY <1>4
  <2>2. \A i \in DOMAIN s : i \in DOMAIN recent'
    BY <1>4
  <2>3. Len(s) + 1 \in DOMAIN recent'
    BY <1>4
  <2>4. SeqRange(recent') = SeqRange(s) \union {k}
    BY <1>4, <2>1, <2>2, <2>3 DEF SeqRange
  <2> QED
    BY <1>2, <2>4
<1>6. Distinct(recent')
  <2> SUFFICES ASSUME NEW i \in DOMAIN recent', NEW j \in DOMAIN recent',
                      recent'[i] = recent'[j]
               PROVE  i = j
    BY DEF Distinct
  <2>1. \A n \in DOMAIN s : s[n] # k
    BY <1>2 DEF SeqRange
  <2>2. (i \in DOMAIN s \/ i = Len(s) + 1) /\ (j \in DOMAIN s \/ j = Len(s) + 1)
    BY <1>4
  <2> QED
    BY <1>2, <1>4, <2>1, <2>2 DEF Distinct
<1>7. ASSUME NEW l \in Keys
      PROVE  /\ disk'[l] # None <=> l \in SeqRange(recent')
             /\ disk'[l] # None => OwnEntry(disk'[l], l[2])
  <2>1. CASE l = k
    <3>1. disk'[k] # None
      BY EntryFacts DEF OwnEntry
    <3> QED
      BY <1>5, <2>1, <3>1
  <2>2. CASE l # k
    BY <1>5, <2>2 DEF CacheKept, Store
  <2> QED
    BY <2>1, <2>2
<1> QED
  BY <1>4, <1>6, <1>7 DEF Store, Ordered

\* What a lookup leaves of a run that it moves on by a file.
LEMMA WalksOn ==
  ASSUME NEW r, NEW n, RunTyped(r, n), RunFresh(r, world, n), r.at = "walk", NEW memo,
         memo = [f \in Files |-> memo[f]], NEW saying, saying = [f \in Files |-> saying[f]],
         \A f \in Files : memo[f] \in Held \union {Unread},
         r.from = n => MemoRight(memo, world), NEW todo \in Seq(Files), NEW s,
         s = RunOf(r, r.at, r.next + 1, todo, memo, saying, r.seen, r.tmp, r.listed)
  PROVE  RunTyped(s, n) /\ RunFresh(s, world, n)
<1>1. /\ s.at = "walk" /\ s.memo = memo /\ s.from = r.from /\ s.build = r.build
      /\ s.config = r.config
  BY DEF RunOf
<1>2. RunTypes(s)
  BY DEF RunTyped, RunTypes, IsRun, RunOf
<1>3. RunTyped(s, n)
  BY <1>1, <1>2 DEF RunTyped
<1>4. RunFresh(s, world, n)
  BY <1>1 DEF RunFresh
<1> QED
  BY <1>3, <1>4

LEMMA LookupKept ==
  ASSUME CacheKept, NEW p \in Runs, Lookup(p)
  PROVE  CacheKept'
<1> DEFINE r == run[p]
           f == Walk[r.spec][r.next]
           k == KeyOf(p, f)
           e == disk[k]
           hit == e # None /\ StillValid(r.build, r.memo, e)
           memo == IF e = None \/ ~StampHolds(r.build, e) THEN r.memo
                   ELSE Memoised(r.memo, DOMAIN e.inputs)
           moved == [r EXCEPT !.next = @ + 1, !.memo = memo]
           found == [report |-> e.report, law |-> e.law, config |-> e.config]
<1>1. /\ r.at = "walk" /\ ~(r.next > Len(Walk[r.spec]))
      /\ world' = world /\ disk' = disk /\ edits' = edits /\ stable' = stable
  BY DEF Lookup, LookedUp
<1>2. RunTyped(r, edits) /\ RunFresh(r, world, edits) /\ world \in Worlds
  BY <1>1 DEF CacheKept, RunsKept, Active, Shapes
<1>3. RunTypes(r) /\ r.todo \in Seq(Files) /\ IsRun(r) /\ r.spec \in Specs
  BY <1>2 DEF RunTyped, RunTypes
<1>4. Walk[r.spec] \in Seq(Files)
  BY <1>3, CheckCacheAssumption
<1>5. f \in Files /\ k \in Keys /\ k[2] = f
  <2>1. r.next \in Nat /\ Len(Walk[r.spec]) \in Nat
    BY <1>3, <1>4 DEF RunTypes
  <2>2. f \in Files
    BY <1>1, <1>3, <2>1, NextFile
  <2> QED
    BY <1>3, <2>2 DEF Keys, KeyOf
<1>6. /\ memo = [g \in Files |-> memo[g]]
      /\ \A g \in Files : memo[g] \in Held \union {Unread}
      /\ r.from = edits => MemoRight(memo, world)
  <2> DEFINE read == Memoised(r.memo, DOMAIN e.inputs)
  <2>1. /\ r.memo = [g \in Files |-> r.memo[g]]
        /\ \A g \in Files : r.memo[g] \in Held \union {Unread}
        /\ r.from = edits => MemoRight(r.memo, world)
    BY <1>2 DEF RunTyped, RunTypes, RunFresh
  <2>2. /\ read = [g \in Files |-> read[g]]
        /\ \A g \in Files : read[g] \in Held \union {Unread}
    BY <1>2, <2>1, HashesAreHeld
  <2>3. r.from = edits => MemoRight(read, world)
    BY <1>2, <2>1, HashesAreRight
  <2> HIDE DEF read
  <2>4. memo = r.memo \/ memo = read
    BY DEF read
  <2> HIDE DEF memo, r
  <2> QED
    BY <2>1, <2>2, <2>3, <2>4
<1>7. CASE run' = [run EXCEPT ![p].next = @ + 1] /\ recent' = recent
  <2> DEFINE s == [r EXCEPT !.next = @ + 1]
  <2>1. run' = [run EXCEPT ![p] = s]
    BY <1>7
  <2>2. s = RunOf(r, r.at, r.next + 1, r.todo, r.memo, r.said, r.seen, r.tmp, r.listed)
    BY <1>3, SkippedRun
  <2>3. /\ r.memo = [g \in Files |-> r.memo[g]] /\ r.said = [g \in Files |-> r.said[g]]
        /\ \A g \in Files : r.memo[g] \in Held \union {Unread}
        /\ r.from = edits => MemoRight(r.memo, world)
    BY <1>2 DEF RunTyped, RunTypes, RunFresh
  <2> HIDE DEF s
  <2>4. RunTyped(s, edits) /\ RunFresh(s, world, edits)
    <3> HIDE DEF r
    <3> QED
      BY <1>1, <1>2, <1>3, <2>2, <2>3, WalksOn
  <2>5. Store'
    BY <1>1, <1>7, SameStore DEF CacheKept
  <2> QED
    BY <1>1, <2>1, <2>4, <2>5, RunStepKept
<1>8. CASE /\ hit /\ recent' = UsedNow(k)
           /\ run' = [run EXCEPT ![p] = [moved EXCEPT !.said[f] = found]]
  <2> DEFINE s == AfterHit(r, memo, f, found)
             saying == [r.said EXCEPT ![f] = found]
  <2>1. run' = [run EXCEPT ![p] = s]
    BY <1>8 DEF AfterHit
  <2>2. saying = [g \in Files |-> saying[g]]
    BY <1>3 DEF RunTypes
  <2>3. OwnEntry(disk[k], k[2])
    BY <1>5, <1>8 DEF CacheKept, Store
  <2>4. Store'
    BY <1>1, <1>5, <1>8, <2>3, UsedStore
  <2> HIDE DEF found, memo
  <2>5. s = RunOf(r, r.at, r.next + 1, r.todo, memo, saying, r.seen, r.tmp, r.listed)
    <3>1. IsRun(r)
      BY <1>3
    <3> HIDE DEF r, f
    <3> QED
      BY <3>1, HitRun DEF saying
  <2> HIDE DEF s, saying
  <2>6. RunTyped(s, edits) /\ RunFresh(s, world, edits)
    <3> HIDE DEF r
    <3> QED
      BY <1>1, <1>2, <1>3, <1>6, <2>2, <2>5, WalksOn
  <2> QED
    BY <1>1, <2>1, <2>4, <2>6, RunStepKept
<1>9. CASE /\ run' = [run EXCEPT ![p] = [moved EXCEPT !.todo = Append(@, f)]]
           /\ recent' = recent
  <2> DEFINE s == [moved EXCEPT !.todo = Append(@, f)]
  <2>1. run' = [run EXCEPT ![p] = s]
    BY <1>9
  <2>2. Append(r.todo, f) \in Seq(Files)
    BY <1>3, <1>5
  <2> HIDE DEF memo
  <2>3. s = RunOf(r, r.at, r.next + 1, Append(r.todo, f), memo, r.said, r.seen, r.tmp, r.listed)
    <3> HIDE DEF r, f
    <3> QED
      BY <1>3, MissedRun DEF moved
  <2>4. r.said = [g \in Files |-> r.said[g]]
    BY <1>3 DEF RunTypes
  <2> HIDE DEF s
  <2>5. RunTyped(s, edits) /\ RunFresh(s, world, edits)
    <3> DEFINE todo == Append(r.todo, f)
    <3>1. todo \in Seq(Files)
      BY <2>2
    <3> HIDE DEF r, todo
    <3> QED
      BY <1>1, <1>2, <1>3, <1>6, <2>3, <2>4, <3>1, WalksOn DEF todo
  <2>6. Store'
    BY <1>1, <1>9, SameStore DEF CacheKept
  <2> QED
    BY <1>1, <2>1, <2>5, <2>6, RunStepKept
<1> QED
  BY <1>7, <1>8, <1>9 DEF Lookup

LEMMA CheckKept ==
  ASSUME CacheKept, NEW p \in Runs, Check(p)
  PROVE  CacheKept'
<1> DEFINE r == run[p]
           f == Head(r.todo)
           found == [report |-> Report(r.build, world, f),
                     law |-> Contract(world, f), config |-> r.config]
           seen == [inputs |-> Inputs(world, r.config, f),
                    questions |-> Questions(world, f)]
           s == AfterCheck(r, f, found, seen)
           saying == [r.said EXCEPT ![f] = found]
<1>1. /\ r.at = "walk" /\ r.todo # <<>> /\ run' = [run EXCEPT ![p] = s]
      /\ world' = world /\ disk' = disk /\ recent' = recent
      /\ edits' = edits /\ stable' = stable
  BY DEF Check, AfterCheck
<1>2. RunTyped(r, edits) /\ RunFresh(r, world, edits) /\ world \in Worlds
  BY <1>1 DEF CacheKept, RunsKept, Active, Shapes
<1>3. RunTypes(r) /\ IsRun(r) /\ f \in Files /\ r.build \in Builds /\ r.config \in Held
  BY <1>1, <1>2, PopTodo DEF RunTyped, RunTypes
<1>4. /\ f \in seen.inputs /\ seen.inputs \subseteq Files
      /\ seen.questions \subseteq Files \X Names
      /\ \E C \in SUBSET Files : found.report \in Reports(C, seen.questions)
      /\ found.law \in Held /\ found.config \in Held
  <2>1. f \in seen.inputs /\ seen.inputs \subseteq Files
    BY <1>2, <1>3, ClosureHas, CheckCacheAssumption DEF Inputs, Deps
  <2>2. found.law \in Held
    BY <1>2, <1>3, CheckCacheAssumption DEF Contract, Worlds, Held
  <2> QED
    BY <1>2, <1>3, <2>1, <2>2, ReportFacts
<1>5. /\ saying = [g \in Files |-> saying[g]] /\ saying[f] = found
  BY <1>3 DEF RunTypes
<1> HIDE DEF found, seen
<1>6. s = RunOf(r, "hash", r.next, r.todo, r.memo, saying, seen, r.tmp, r.listed)
  <2> HIDE DEF r, f
  <2> QED
    BY <1>3, CheckedRun DEF saying
<1> HIDE DEF s, saying
<1>7. RunTypes(s)
  BY <1>3, <1>5, <1>6 DEF RunTypes, IsRun, RunOf
<1>8. RunTyped(s, edits)
  BY <1>1, <1>2, <1>4, <1>5, <1>6, <1>7 DEF RunTyped, RunOf
<1>9. RunFresh(s, world, edits)
  BY <1>2, <1>6 DEF RunFresh, RunOf
<1>10. Store'
  BY <1>1, SameStore DEF CacheKept
<1> QED
  BY <1>1, <1>8, <1>9, <1>10, RunStepKept

LEMMA HashKept ==
  ASSUME CacheKept, NEW p \in Runs, Hash(p)
  PROVE  CacheKept'
<1> DEFINE r == run[p]
           f == Head(r.todo)
           memo == Memoised(r.memo, r.seen.inputs)
           entry == [stamp |-> r.build,
                     inputs |-> [g \in r.seen.inputs |-> memo[g]],
                     probes |-> [q \in r.seen.questions |-> Resolve(world, q[1], q[2])],
                     report |-> r.said[f].report,
                     law |-> r.said[f].law,
                     config |-> r.said[f].config]
           whole == \A g \in r.seen.inputs : memo[g] # None
           at == IF whole THEN "publish" ELSE "walk"
           todo == IF whole THEN r.todo ELSE Tail(r.todo)
           tmp == IF whole THEN entry ELSE None
           s == AfterHash(r, memo, tmp, whole)
<1>1. /\ r.at = "hash" /\ run' = [run EXCEPT ![p] = s]
      /\ world' = world /\ disk' = disk /\ recent' = recent
      /\ edits' = edits /\ stable' = stable
  BY DEF Hash, AfterHash
<1>2. RunTyped(r, edits) /\ RunFresh(r, world, edits) /\ world \in Worlds
  BY <1>1 DEF CacheKept, RunsKept, Active, Shapes
<1>3. /\ RunTypes(r) /\ IsRun(r) /\ r.todo # <<>> /\ f \in Files
      /\ Tail(r.todo) \in Seq(Files) /\ r.todo \in Seq(Files)
  BY <1>1, <1>2, PopTodo DEF RunTyped, RunTypes
<1>4. /\ f \in r.seen.inputs /\ r.seen.inputs \subseteq Files
      /\ r.seen.questions \subseteq Files \X Names
      /\ \E C \in SUBSET Files : r.said[f].report \in Reports(C, r.seen.questions)
      /\ r.said[f].law \in Held /\ r.said[f].config \in Held /\ r.build \in Builds
  BY <1>1, <1>2 DEF RunTyped
<1>5. /\ memo = [g \in Files |-> memo[g]]
      /\ \A g \in Files : memo[g] \in Held \union {Unread}
      /\ \A g \in r.seen.inputs : memo[g] \in Held
  <2>1. /\ r.memo = [g \in Files |-> r.memo[g]]
        /\ \A g \in Files : r.memo[g] \in Held \union {Unread}
    BY <1>2 DEF RunTyped, RunTypes
  <2> QED
    BY <1>2, <1>4, <2>1, HashesAreHeld
<1>6. ASSUME r.from = edits
      PROVE  /\ MemoRight(memo, world)
             /\ \A g \in r.seen.inputs : memo[g] = world[g]
  <2>1. MemoRight(r.memo, world)
    BY <1>2, <1>6 DEF RunFresh
  <2> QED
    BY <1>2, <1>4, <2>1, HashesAreRight
<1> HIDE DEF memo
<1>7. ASSUME whole PROVE OwnEntry(entry, f)
  <2>1. PICK C \in SUBSET Files : r.said[f].report \in Reports(C, r.seen.questions)
    BY <1>4
  <2>2. entry.inputs \in [r.seen.inputs -> Contents]
    BY <1>5, <1>7 DEF Held
  <2>3. entry.probes \in [r.seen.questions -> SUBSET Files]
    <3>1. \A q \in r.seen.questions : Resolve(world, q[1], q[2]) \in SUBSET Files
      BY <1>4, CheckCacheAssumption DEF Resolve
    <3> QED
      BY <3>1
  <2>4. entry \in Entries(r.seen.inputs, C, r.seen.questions)
    BY <1>4, <2>1, <2>2, <2>3 DEF Entries
  <2>5. IsEntry(entry) /\ DOMAIN entry.inputs = r.seen.inputs
    BY <1>4, <2>4 DEF IsEntry
  <2> QED
    BY <1>4, <2>5 DEF OwnEntry
<1>8. ASSUME whole, r.from = edits PROVE Fresh(entry, r.build, world)
  BY <1>6, <1>8 DEF Fresh, Matches
<1> HIDE DEF entry
<1>9. s = RunOf(r, at, r.next, todo, memo, r.said, None, tmp, r.listed)
  <2>1. whole \in BOOLEAN
    OBVIOUS
  <2> HIDE DEF r, f, whole
  <2> QED
    BY <1>3, <2>1, HashedRun DEF at
<1>10. /\ at \in {"publish", "walk"} /\ todo \in Seq(Files)
       /\ at = "publish" => whole /\ todo = r.todo /\ tmp = entry
  BY <1>3
<1> HIDE DEF s, at, todo, tmp, whole
<1>11. RunTypes(s)
  BY <1>3, <1>5, <1>9, <1>10 DEF RunTypes, IsRun, RunOf
<1>12. RunTyped(s, edits)
  BY <1>2, <1>3, <1>5, <1>7, <1>9, <1>10, <1>11 DEF RunTyped, RunOf
<1>13. RunFresh(s, world, edits)
  BY <1>6, <1>8, <1>9, <1>10 DEF RunFresh, RunOf
<1>14. Store'
  BY <1>1, SameStore DEF CacheKept
<1> QED
  BY <1>1, <1>12, <1>13, <1>14, RunStepKept

\* What a run stores is stable until the next edit if it saw none itself.
LEMMA PublishKept ==
  ASSUME CacheKept, NEW p \in Runs, Publish(p)
  PROVE  CacheKept'
<1> DEFINE r == run[p]
           f == Head(r.todo)
           k == KeyOf(p, f)
           s == [r EXCEPT !.at = "walk", !.tmp = None, !.todo = Tail(@)]
<1>1. /\ r.at = "publish" /\ world' = world /\ edits' = edits
      /\ run' = [run EXCEPT ![p] = s]
      /\ disk' = [disk EXCEPT ![k] = r.tmp] /\ recent' = UsedNow(k)
      /\ stable' = {x \in stable : x[1] # k} \union
                     (IF r.from = edits THEN {<<k, r.build>>} ELSE {})
  BY DEF Publish
<1>2. RunTyped(r, edits) /\ RunFresh(r, world, edits) /\ Shapes
  BY <1>1 DEF CacheKept, RunsKept, Active
<1>3. /\ RunTypes(r) /\ IsRun(r) /\ f \in Files /\ Tail(r.todo) \in Seq(Files)
      /\ r.spec \in Specs /\ OwnEntry(r.tmp, f)
  BY <1>1, <1>2, PopTodo DEF RunTyped, RunTypes
<1>4. k \in Keys /\ k[2] = f
  BY <1>3 DEF Keys, KeyOf
<1>5. s = RunOf(r, "walk", r.next, Tail(r.todo), r.memo, r.said, r.seen, None, r.listed)
  BY <1>3, PublishedRun
<1> HIDE DEF s
<1>6. RunTypes(s)
  BY <1>3, <1>5 DEF RunTypes, IsRun, RunOf
<1>7. RunTyped(s, edits) /\ RunFresh(s, world, edits)
  BY <1>2, <1>5, <1>6 DEF RunTyped, RunFresh, RunOf
<1>8. Shapes'
  BY <1>1, <1>2 DEF Shapes
<1>9. RunsKept'
  BY <1>1, <1>2, <1>7 DEF CacheKept, Shapes, RunsKept, Active
<1>10. disk'[k] = r.tmp /\ \A l \in Keys : l # k => disk'[l] = disk[l]
  BY <1>1, <1>2, <1>4 DEF Shapes
<1>11. Store'
  <2>1. OwnEntry(disk'[k], k[2])
    BY <1>3, <1>4, <1>10
  <2> QED
    BY <1>1, <1>4, <1>10, <2>1, UsedStore
<1>12. StableKept'
  <2> SUFFICES ASSUME NEW x \in stable'
               PROVE  x[1] \in Keys /\ disk'[x[1]] # None /\ Fresh(disk'[x[1]], x[2], world)
    BY <1>1 DEF StableKept
  <2>1. CASE x \in stable /\ x[1] # k
    BY <1>10, <2>1 DEF CacheKept, StableKept
  <2>2. CASE r.from = edits /\ x = <<k, r.build>>
    <3>1. Fresh(r.tmp, r.build, world) /\ r.tmp # None
      BY <1>1, <1>2, <1>3, <2>2, EntryFacts DEF RunFresh, OwnEntry
    <3>2. x[1] = k /\ x[2] = r.build
      BY <2>2
    <3> QED
      BY <1>4, <1>10, <3>1, <3>2
  <2> QED
    BY <1>1, <2>1, <2>2
<1> QED
  BY <1>1, <1>8, <1>9, <1>11, <1>12 DEF CacheKept

LEMMA ListKept ==
  ASSUME CacheKept, NEW p \in Runs, List(p)
  PROVE  CacheKept'
<1> DEFINE r == run[p]
           s == [r EXCEPT !.at = "sweep", !.listed = recent]
<1>1. /\ r.at = "walk" /\ run' = [run EXCEPT ![p] = s]
      /\ world' = world /\ disk' = disk /\ recent' = recent
      /\ edits' = edits /\ stable' = stable
  BY DEF List
<1>2. RunTyped(r, edits) /\ RunFresh(r, world, edits)
  BY <1>1 DEF CacheKept, RunsKept, Active
<1>3. RunTypes(r) /\ IsRun(r) /\ Ordered(recent)
  BY <1>2 DEF RunTyped, RunTypes, CacheKept, Store
<1>4. s = RunOf(r, "sweep", r.next, r.todo, r.memo, r.said, r.seen, r.tmp, recent)
  BY <1>3, ListedRun
<1> HIDE DEF s
<1>5. RunTypes(s)
  BY <1>3, <1>4 DEF RunTypes, IsRun, RunOf
<1>6. RunTyped(s, edits) /\ RunFresh(s, world, edits)
  BY <1>2, <1>3, <1>4, <1>5 DEF RunTyped, RunFresh, RunOf
<1>7. Store'
  BY <1>1, SameStore DEF CacheKept
<1> QED
  BY <1>1, <1>6, <1>7, RunStepKept

LEMMA SweepKept ==
  ASSUME CacheKept, NEW p \in Runs, Sweep(p)
  PROVE  CacheKept'
<1>1. PICK gone \in SUBSET SeqRange(run[p].listed) :
        /\ disk' = [k \in Keys |-> IF k \in gone THEN None ELSE disk[k]]
        /\ recent' = Without(recent, gone)
        /\ stable' = {x \in stable : x[1] \notin gone}
  BY DEF Sweep
<1>2. run' = [run EXCEPT ![p] = Idle] /\ world' = world /\ edits' = edits
  BY DEF Sweep
<1>3. Shapes'
  BY <1>1, <1>2 DEF CacheKept, Shapes
<1>4. RunsKept'
  BY <1>2 DEF CacheKept, Shapes, RunsKept, Active, Idle
<1>5. Store'
  <2>1. Ordered(recent)
    BY DEF CacheKept, Store
  <2>2. Ordered(recent') /\ SeqRange(recent') = SeqRange(recent) \ gone
    BY <1>1, <2>1, WithoutFacts DEF Ordered
  <2> QED
    BY <1>1, <2>2 DEF CacheKept, Store
<1>6. StableKept'
  BY <1>1, <1>2 DEF CacheKept, StableKept
<1> QED
  BY <1>2, <1>3, <1>4, <1>5, <1>6 DEF CacheKept

LEMMA CrashKept ==
  ASSUME CacheKept, NEW p \in Runs, Crash(p)
  PROVE  CacheKept'
<1>1. /\ run' = [run EXCEPT ![p] = Idle] /\ world' = world /\ disk' = disk
      /\ recent' = recent /\ edits' = edits /\ stable' = stable
  BY DEF Crash
<1>2. Shapes' /\ StableKept'
  BY <1>1 DEF CacheKept, Shapes, StableKept
<1>3. RunsKept'
  BY <1>1 DEF CacheKept, Shapes, RunsKept, Active, Idle
<1>4. Store'
  BY <1>1, SameStore DEF CacheKept
<1> QED
  BY <1>1, <1>2, <1>3, <1>4 DEF CacheKept

LEMMA NextKept == CacheKept /\ [Next]_vars => CacheKept'
<1> SUFFICES ASSUME CacheKept, [Next]_vars PROVE CacheKept'
  OBVIOUS
<1>1. CASE UNCHANGED vars
  <2>1. /\ world' = world /\ disk' = disk /\ recent' = recent /\ run' = run
        /\ edits' = edits /\ stable' = stable
    BY <1>1 DEF vars
  <2>2. Store'
    BY <2>1, SameStore DEF CacheKept
  <2> QED
    BY <2>1, <2>2 DEF CacheKept, Shapes, RunsKept, Active, StableKept
<1>2. CASE Next
  BY <1>2, EditKept, StartKept, LookupKept, CheckKept, HashKept, PublishKept, ListKept,
     SweepKept, CrashKept DEF Next
<1> QED
  BY <1>1, <1>2

-----------------------------------------------------------------------------
(* What a sweep drops.                                                     *)

Place(s, k) == CHOOSE i \in DOMAIN s : s[i] = k

LEMMA PlaceOf ==
  ASSUME NEW s, Distinct(s), NEW i \in DOMAIN s
  PROVE  Place(s, s[i]) = i
BY DEF Place, Distinct

LEMMA FiniteRange ==
  ASSUME NEW T, NEW s \in Seq(T)
  PROVE  IsFiniteSet(SeqRange(s))
<1>1. s \in Surjection(1 .. Len(s), SeqRange(s))
  BY DEF Surjection, SeqRange
<1>2. IsFiniteSet(1 .. Len(s))
  BY FS_Interval
<1> QED
  BY <1>1, <1>2, FS_Surjection

\* Of the sequence t, its first n are what is in t[1], ..., t[n].
LEMMA FirstFacts ==
  ASSUME NEW T, NEW t \in Seq(T), NEW n \in Nat
  PROVE  SeqRange(FirstOf(t, n)) = {t[i] : i \in {j \in 1 .. Len(t) : j <= n}}
<1> DEFINE m == IF n < Len(t) THEN n ELSE Len(t)
<1>1. m \in Nat /\ m <= Len(t) /\ \A j \in 1 .. Len(t) : j <= n <=> j <= m
  OBVIOUS
<1>2. FirstOf(t, n) = SubSeq(t, 1, m)
  BY DEF FirstOf
<1> HIDE DEF m
<1> DEFINE u == SubSeq(t, 1, m)
<1>3. DOMAIN u = 1 .. m /\ \A j \in 1 .. m : u[j] = t[j]
  BY <1>1
<1> HIDE DEF u
<1>4. {i \in 1 .. Len(t) : i <= n} = 1 .. m
  BY <1>1
<1>5. SeqRange(u) = {t[i] : i \in 1 .. m}
  BY <1>3 DEF SeqRange
<1> QED
  BY <1>2, <1>4, <1>5 DEF u

\* The two parts of what goes: orphans, and the oldest of what is left of what
\* the run did not use.
LEMMA DropsFacts ==
  ASSUME NEW p \in Runs, Ordered(run[p].listed), NEW gone, Drops(p, gone)
  PROVE  /\ gone \subseteq SeqRange(run[p].listed) \ RunKeys(p)
         /\ gone # {} => Len(run[p].listed) > MaxEntries
         /\ \A k \in gone, l \in SeqRange(run[p].listed) :
              disk[l] # None /\ l \notin gone /\ l \notin RunKeys(p) /\ ~Orphan(k)
                => Place(run[p].listed, k) < Place(run[p].listed, l)
<1> DEFINE listed == run[p].listed
           s == Sweepable(p)
           absent == {k \in SeqRange(s) : disk[k] = None}
           over == Over(Len(listed))
<1>1. listed \in Seq(Keys) /\ Distinct(listed) /\ Len(listed) \in Nat
  BY DEF Ordered
<1>2. s \in Seq(Keys) /\ SeqRange(s) = SeqRange(listed) \ RunKeys(p) /\ Distinct(s)
  BY <1>1, WithoutFacts DEF Sweepable
<1>3. PICK first \in SUBSET {k \in SeqRange(s) : Orphan(k)} :
        /\ Cardinality(first) <= over
        /\ gone = first \union SeqRange(FirstOf(Without(s, first \union absent),
                                            over - Cardinality(first)))
  BY DEF Drops
<1> DEFINE t == Without(s, first \union absent)
           n == over - Cardinality(first)
<1>4. t \in Seq(Keys) /\ SeqRange(t) = SeqRange(s) \ (first \union absent)
  BY <1>2, WithoutFacts
<1>5. Cardinality(first) \in Nat /\ IsFiniteSet(first) /\ over \in Nat /\ n \in Nat
  <2>1. IsFiniteSet(SeqRange(s))
    BY <1>2, FiniteRange
  <2>2. IsFiniteSet(first)
    BY <2>1, FS_Subset
  <2>3. over \in Nat
    BY <1>1, CheckCacheAssumption DEF Over
  <2> QED
    BY <1>3, <2>2, <2>3, FS_CardinalityType
<1>6. gone = first \union {t[i] : i \in {j \in 1 .. Len(t) : j <= n}}
  BY <1>3, <1>4, <1>5, FirstFacts
<1>7. PICK far : Leaves(s, far, listed, RunKeys(p), Len(listed))
  BY <1>1, WithoutLeaves DEF Sweepable
<1>8. PICK near : Leaves(t, near, s, first \union absent, Len(s))
  BY <1>2, WithoutLeaves
<1>9. /\ DOMAIN t = 1 .. Len(t) /\ Len(t) \in Nat /\ DOMAIN s = 1 .. Len(s) /\ Len(s) \in Nat
      /\ DOMAIN listed = 1 .. Len(listed)
  BY <1>1, <1>2, <1>4
<1>10. gone \subseteq SeqRange(listed) \ RunKeys(p)
  <2>1. first \subseteq SeqRange(s)
    BY <1>3
  <2>2. \A i \in DOMAIN t : t[i] \in SeqRange(s)
    BY <1>4 DEF SeqRange
  <2> QED
    BY <1>2, <1>6, <1>9, <2>1, <2>2
<1>11. ASSUME ~(Len(listed) > MaxEntries) PROVE gone = {}
  <2>1. over = 0
    BY <1>11 DEF Over
  <2>2. Cardinality(first) = 0 /\ n = 0
    BY <1>3, <1>5, <2>1
  <2>3. first = {}
    BY <1>5, <2>2, FS_EmptySet
  <2> QED
    BY <1>6, <1>9, <2>2, <2>3
<1>12. ASSUME NEW k \in gone, NEW l \in SeqRange(listed),
              disk[l] # None, l \notin gone, l \notin RunKeys(p), ~Orphan(k)
       PROVE  Place(listed, k) < Place(listed, l)
  <2>1. k \notin first
    BY <1>3, <1>12
  <2>2. PICK i \in 1 .. Len(t) : i <= n /\ k = t[i]
    BY <1>6, <1>12, <2>1
  <2>3. l \in SeqRange(t)
    BY <1>2, <1>4, <1>6, <1>12
  <2>4. PICK j \in 1 .. Len(t) : l = t[j]
    BY <1>9, <2>3 DEF SeqRange
  <2>5. ~(j <= n)
    BY <1>6, <1>12, <2>4
  <2>6. i < j
    BY <1>5, <1>9, <2>2, <2>5
  <2>7. near[i] \in 1 .. Len(s) /\ near[j] \in 1 .. Len(s) /\ near[i] < near[j]
        /\ k = s[near[i]] /\ l = s[near[j]]
    BY <1>8, <2>2, <2>4, <2>6 DEF Leaves
  <2> DEFINE a == far[near[i]]
             b == far[near[j]]
  <2>8. a \in DOMAIN listed /\ b \in DOMAIN listed /\ a < b
        /\ k = listed[a] /\ l = listed[b]
    BY <1>7, <1>9, <2>7 DEF Leaves
  <2>9. Place(listed, k) = a /\ Place(listed, l) = b
    BY <1>1, <2>8, PlaceOf
  <2> QED
    BY <2>8, <2>9
<1> QED
  BY <1>10, <1>11, <1>12

\* What SweepDropsTheOldest says of one process.
DropsTheOldest(p) ==
  LET gone == {k \in Keys : disk[k] # None /\ disk'[k] = None}
      listed == run[p].listed
  IN  /\ gone \intersect RunKeys(p) = {}
      /\ gone # {} => Len(listed) > MaxEntries
      /\ \A k \in gone, l \in SeqRange(listed) :
           disk'[l] # None /\ l \notin RunKeys(p) /\ ~Orphan(k)
             => Place(listed, k) < Place(listed, l)

LEMMA SweepIsByAge ==
  ASSUME CacheKept, NEW p \in Runs, Sweep(p)
  PROVE  DropsTheOldest(p)
<1> DEFINE listed == run[p].listed
<1>1. PICK gone \in SUBSET SeqRange(listed) :
        /\ Drops(p, gone)
        /\ disk' = [k \in Keys |-> IF k \in gone THEN None ELSE disk[k]]
  BY DEF Sweep
<1>2. Ordered(listed) /\ SeqRange(listed) \subseteq Keys
  <2>1. Ordered(listed)
    BY DEF Sweep, CacheKept, RunsKept, Active, RunTyped
  <2> QED
    BY <2>1 DEF Ordered, SeqRange
<1>3. /\ gone \subseteq SeqRange(listed) \ RunKeys(p)
      /\ gone # {} => Len(listed) > MaxEntries
      /\ \A k \in gone, l \in SeqRange(listed) :
           disk[l] # None /\ l \notin gone /\ l \notin RunKeys(p) /\ ~Orphan(k)
             => Place(listed, k) < Place(listed, l)
  BY <1>1, <1>2, DropsFacts
<1>4. {k \in Keys : disk[k] # None /\ disk'[k] = None} \subseteq gone
  BY <1>1
<1>5. \A l \in SeqRange(listed) : disk'[l] # None => disk[l] # None /\ l \notin gone
  BY <1>1, <1>2
<1> QED
  BY <1>3, <1>4, <1>5 DEF DropsTheOldest

\* Only a sweep or a crash ends a run that is about to sweep.
LEMMA SweepsAreByAge ==
  ASSUME CacheKept, [Next]_vars, NEW p \in Runs, run[p].at = "sweep", run'[p].at = "idle"
  PROVE  DropsTheOldest(p)
<1>1. run[p].at # run'[p].at /\ run = [q \in Runs |-> run[q]]
  BY DEF CacheKept, Shapes
<1>2. CASE Sweep(p)
  BY <1>2, SweepIsByAge
<1>3. CASE Crash(p)
  BY <1>3 DEF Crash, DropsTheOldest
<1>4. CASE UNCHANGED run
  BY <1>1, <1>4
<1>5. ASSUME NEW q \in Runs, NEW r, run' = [run EXCEPT ![q] = r], q # p PROVE FALSE
  BY <1>1, <1>5
<1>6. \A q \in Runs : \A b, s : Start(q, b, s) => q # p
  BY DEF Start, Active
<1>7. \A q \in Runs : Lookup(q) \/ Check(q) \/ Hash(q) \/ Publish(q) \/ List(q) => q # p
  BY DEF Lookup, Check, Hash, Publish, List
<1>8. ASSUME NEW q \in Runs, Lookup(q) PROVE \E r : run' = [run EXCEPT ![q] = r]
  BY <1>8 DEF Lookup
<1>9. ASSUME NEW q \in Runs, NEW b, NEW s, Start(q, b, s) PROVE FALSE
  BY <1>5, <1>6, <1>9 DEF Start
<1>10. ASSUME NEW q \in Runs, Lookup(q) \/ Check(q) \/ Hash(q) \/ Publish(q) \/ List(q) PROVE FALSE
  <2>1. q # p
    BY <1>7, <1>10
  <2>2. CASE Lookup(q)
    BY <1>5, <1>8, <2>1, <2>2
  <2>3. CASE Check(q)
    BY <1>1, <2>1, <2>3 DEF Check
  <2>4. CASE Hash(q)
    BY <1>1, <2>1, <2>4 DEF Hash
  <2>5. CASE Publish(q)
    BY <1>1, <2>1, <2>5 DEF Publish
  <2>6. CASE List(q)
    BY <1>1, <2>1, <2>6 DEF List
  <2> QED
    BY <1>10, <2>2, <2>3, <2>4, <2>5, <2>6
<1>11. ASSUME NEW q \in Runs, q # p, Sweep(q) \/ Crash(q) PROVE FALSE
  BY <1>5, <1>11 DEF Sweep, Crash
<1>12. CASE Next /\ run' # run
  <2>1. \A f \in Files : \A x \in MayHold[f] : ~Edit(f, x)
    BY <1>12 DEF Edit
  <2>2. PICK q \in Runs : Sweep(q) \/ Crash(q)
    BY <1>9, <1>10, <1>12, <2>1 DEF Next
  <2> QED
    BY <1>2, <1>3, <1>11, <2>2
<1> QED
  BY <1>4, <1>12 DEF vars

-----------------------------------------------------------------------------
(* The theorems.                                                           *)

\* What the entries of the store, and what every run has in memory, are worth,
\* if nothing is edited while a run is on.
THEOREM CacheInvariant ==
  ASSUME ~EditsDuringRuns
  PROVE  Spec => []Inv
<1>1. Init => Inv
  BY InitInv
<1>2. Inv /\ [Next]_vars => Inv'
  BY NextInv
<1> QED
  BY <1>1, <1>2, PTL DEF Spec

\* A replayed diagnostic is the one a check would make now: for every project,
\* every history of edits, builds, crashes and sweeps between and beside runs.
THEOREM ReplayedRunsSayTheSame ==
  ASSUME ~EditsDuringRuns
  PROVE  Spec => []HitsAreExact
<1>1. Inv => HitsAreExact
  BY DEF Inv, RunsRight, RunRight, SaidRight, HitsAreExact, Quiet, Said
<1> QED
  BY <1>1, CacheInvariant, PTL

\* A replayed diagnostic is never of a config that has changed since.
THEOREM ReplayedRunsSeeTheConfig ==
  ASSUME ~EditsDuringRuns
  PROVE  Spec => []HitsSeeConfigEdits
<1>1. Inv => HitsSeeConfigEdits
  BY DEF Inv, RunsRight, RunRight, SaidRight, HitsSeeConfigEdits, Quiet, Said
<1> QED
  BY <1>1, CacheInvariant, PTL

\* Whatever is edited, and whenever: the order of use names each entry once and
\* nothing else, and an entry on disk is a whole one of its own file.
THEOREM StoreInvariant == Spec => []CacheKept
<1>1. Init => CacheKept
  BY InitKept
<1>2. CacheKept /\ [Next]_vars => CacheKept'
  BY NextKept
<1> QED
  BY <1>1, <1>2, PTL DEF Spec

\* The order of use names the entries on disk, each once, and an entry has its own file
\* among its inputs, however stores, sweeps and crashes interleave.
THEOREM TypesHold == Spec => []TypeOK
<1>1. CacheKept => TypeOK
  <2> SUFFICES ASSUME CacheKept PROVE TypeOK
    OBVIOUS
  <2>1. \A k \in Keys : disk[k] # None <=> \E i \in DOMAIN recent : recent[i] = k
    BY DEF CacheKept, Store, SeqRange
  <2>2. \A i, j \in DOMAIN recent : recent[i] = recent[j] => i = j
    BY DEF CacheKept, Store, Ordered, Distinct
  <2>3. ASSUME NEW k \in Keys, disk[k] # None
        PROVE  /\ disk[k].stamp \in Builds
               /\ k[2] \in DOMAIN disk[k].inputs /\ DOMAIN disk[k].inputs \subseteq Files
               /\ DOMAIN disk[k].probes \subseteq Files \X Names
    BY <2>3, EntryFacts DEF CacheKept, Store, OwnEntry
  <2> QED
    BY <2>1, <2>2, <2>3 DEF TypeOK
<1> QED
  BY <1>1, StoreInvariant, PTL

\* A run that changed nothing pays nothing: what was stored since the last edit,
\* by a run that saw none itself, is a hit for its build, whatever other runs
\* store, sweep or leave behind, and also if files change during runs.
THEOREM WhatWasStoredIsAHit == Spec => []StableEntriesHold
<1>1. CacheKept => StableEntriesHold
  <2> SUFFICES ASSUME CacheKept, NEW x \in stable
               PROVE  /\ disk[x[1]] # None
                      /\ StillValid(x[2], [f \in Files |-> Unread], disk[x[1]])
    BY DEF StableEntriesHold
  <2> DEFINE e == disk[x[1]]
  <2>1. x[1] \in Keys /\ e # None /\ Fresh(e, x[2], world)
    BY DEF CacheKept, StableKept
  <2>2. DOMAIN e.inputs \subseteq Files
    BY <2>1, EntryFacts DEF CacheKept, Store, OwnEntry
  <2> HIDE DEF e
  <2>3. \A f \in DOMAIN e.inputs : HashIn([g \in Files |-> Unread], f) = e.inputs[f]
    BY <2>1, <2>2 DEF HashIn, Fresh, Matches
  <2>4. StillValid(x[2], [f \in Files |-> Unread], e)
    BY <2>1, <2>3 DEF StillValid, StampHolds, InputsHold, ProbesHold, Fresh, Matches
  <2> QED
    BY <2>1, <2>4 DEF e
<1> QED
  BY <1>1, StoreInvariant, PTL

\* A sweep drops no entry of its own run, drops nothing while the store fits, and
\* leaves none behind that is older than one it dropped for its age.
THEOREM SweepsGoByAge == Spec => SweepDropsTheOldest
<1>1. CacheKept /\ [Next]_vars =>
        [\A p \in Runs : run[p].at = "sweep" /\ run'[p].at = "idle" =>
           DropsTheOldest(p)]_vars
  BY SweepsAreByAge
<1>2. [\A p \in Runs : run[p].at = "sweep" /\ run'[p].at = "idle" =>
         DropsTheOldest(p)]_vars =>
      [\A p \in Runs : run[p].at = "sweep" /\ run'[p].at = "idle" =>
         LET gone == {k \in Keys : disk[k] # None /\ disk'[k] = None}
             listed == run[p].listed
             place(k) == CHOOSE i \in DOMAIN listed : listed[i] = k
         IN  /\ gone \intersect RunKeys(p) = {}
             /\ gone # {} => Len(listed) > MaxEntries
             /\ \A k \in gone, l \in SeqRange(listed) :
                  disk'[l] # None /\ l \notin RunKeys(p) /\ ~Orphan(k)
                    => place(k) < place(l)]_vars
  BY DEF DropsTheOldest, Place
<1> QED
  BY <1>1, <1>2, StoreInvariant, PTL DEF Spec, SweepDropsTheOldest

-----------------------------------------------------------------------------
(* The fold over the names of a result.                                     *)

\* The fold's equation for one set of names, over what F gives for smaller ones.
GatheredBy(F, start, deps, below, s) ==
  IF s = {} THEN start ELSE Gathered(F[s \ {Max(s)}], deps[Max(s)], below)
IsGathering(F, start, deps, below, T) ==
  F = [s \in SUBSET T |-> GatheredBy(F, start, deps, below, s)]

LEMMA GatheredAllIs ==
  ASSUME NEW start, NEW deps, NEW below
  PROVE  GatheredAll(start, deps, below) =
           (CHOOSE F : IsGathering(F, start, deps, below, ModuleNames))[ModuleNames]
BY DEF GatheredAll, MapThenFoldSet, IsGathering, GatheredBy

\* The greatest of a set of names is taken from it.
LEMMA WithoutMax ==
  ASSUME NEW n \in Nat, NEW s \in SUBSET (1 .. n + 1), s # {}
  PROVE  s \ {Max(s)} \subseteq 1 .. n
<1>1. CASE n + 1 \in s
  <2>1. \A y \in s : n + 1 >= y
    OBVIOUS
  <2>2. Max(s) \in s /\ \A y \in s : Max(s) >= y
    BY <1>1, <2>1 DEF Max
  <2>3. Max(s) = n + 1
    <3>1. Max(s) \in 1 .. n + 1 /\ Max(s) >= n + 1
      BY <1>1, <2>2
    <3> QED
      BY <3>1
  <2> QED
    BY <2>3
<1>2. CASE n + 1 \notin s
  <2>1. ASSUME NEW x \in s PROVE x \in 1 .. n
    <3>1. x \in 1 .. n + 1 /\ x # n + 1
      BY <1>2
    <3> QED
      BY <3>1
  <2> QED
    BY <2>1
<1> QED
  BY <1>1, <1>2

LEMMA GatheringExists ==
  ASSUME NEW n \in Nat, NEW start, NEW deps, NEW below
  PROVE  \E F : IsGathering(F, start, deps, below, 1 .. n)
<1> DEFINE G(F, s) == GatheredBy(F, start, deps, below, s)
           N == {k \in Nat : \E F : F = [s \in SUBSET (1 .. k) |-> G(F, s)]}
<1>1. 0 \in N
  <2> DEFINE F == [s \in SUBSET (1 .. 0) |-> start]
  <2>1. \A s \in SUBSET (1 .. 0) : s = {}
    OBVIOUS
  <2>2. F = [s \in SUBSET (1 .. 0) |-> G(F, s)]
    BY <2>1 DEF GatheredBy
  <2> QED
    BY <2>2
<1>2. ASSUME NEW k \in Nat, k \in N PROVE k + 1 \in N
  <2>1. PICK F : F = [s \in SUBSET (1 .. k) |-> G(F, s)]
    BY <1>2
  <2> DEFINE H == [s \in SUBSET (1 .. k + 1) |-> G(F, s)]
  <2>2. ASSUME NEW s \in SUBSET (1 .. k + 1) PROVE G(F, s) = G(H, s)
    <3>1. CASE s = {}
      BY <3>1 DEF GatheredBy
    <3>2. CASE s # {}
      <4> DEFINE r == s \ {Max(s)}
      <4>1. r \in SUBSET (1 .. k) /\ r \in SUBSET (1 .. k + 1)
        BY <3>2, WithoutMax
      <4>2. F[r] = H[r]
        BY <4>1, <2>1
      <4> QED
        BY <3>2, <4>2 DEF GatheredBy
    <3> QED
      BY <3>1, <3>2
  <2> HIDE DEF H
  <2>3. H = [s \in SUBSET (1 .. k + 1) |-> G(H, s)]
    BY <2>2 DEF H
  <2> QED
    BY <2>3
<1>3. n \in N
  <2> HIDE DEF N
  <2> QED
    BY <1>1, <1>2, Inductive
<1> QED
  BY <1>3 DEF IsGathering

\* What every name makes of what those before left, the fold makes of them all.
LEMMA GatheringKeeps ==
  ASSUME NEW n \in Nat, ModuleNames = 1 .. n, NEW deps, NEW below,
         NEW I, NEW start \in I[0],
         \A i \in 1 .. n : \A acc \in I[i - 1] : Gathered(acc, deps[i], below) \in I[i]
  PROVE  GatheredAll(start, deps, below) \in I[n]
<1> DEFINE F == CHOOSE F : IsGathering(F, start, deps, below, 1 .. n)
           N == {k \in Nat : k <= n => F[1 .. k] \in I[k]}
<1>1. F = [s \in SUBSET (1 .. n) |-> GatheredBy(F, start, deps, below, s)]
  <2>1. IsGathering(F, start, deps, below, 1 .. n)
    BY GatheringExists
  <2> HIDE DEF F
  <2> QED
    BY <2>1 DEF IsGathering
<1>0. GatheredAll(start, deps, below) = F[1 .. n]
  BY GatheredAllIs
<1> HIDE DEF F
<1>2. 0 \in N
  <2>1. {} \in SUBSET (1 .. n) /\ 1 .. 0 = {}
    OBVIOUS
  <2>2. F[{}] = start
    BY <1>1, <2>1 DEF GatheredBy
  <2> QED
    BY <2>1, <2>2
<1>3. ASSUME NEW k \in Nat, k \in N PROVE k + 1 \in N
  <2> SUFFICES ASSUME k + 1 <= n PROVE F[1 .. k + 1] \in I[k + 1]
    OBVIOUS
  <2>1. 1 .. k + 1 \in SUBSET (1 .. n) /\ 1 .. k + 1 # {} /\ k + 1 \in 1 .. n
    <3>1. k + 1 \in 1 .. k + 1 /\ k + 1 \in 1 .. n
      OBVIOUS
    <3>2. \A x \in 1 .. k + 1 : x \in 1 .. n
      OBVIOUS
    <3> QED
      BY <3>1, <3>2
  <2>2. Max(1 .. k + 1) = k + 1
    <3>1. k + 1 \in 1 .. k + 1 /\ \A y \in 1 .. k + 1 : k + 1 >= y
      OBVIOUS
    <3>2. Max(1 .. k + 1) \in 1 .. k + 1 /\ \A y \in 1 .. k + 1 : Max(1 .. k + 1) >= y
      BY <3>1 DEF Max
    <3> QED
      BY <3>1, <3>2
  <2>3. (1 .. k + 1) \ {k + 1} = 1 .. k
    OBVIOUS
  <2>4. F[1 .. k + 1] = Gathered(F[1 .. k], deps[k + 1], below)
    <3>1. F[1 .. k + 1] = GatheredBy(F, start, deps, below, 1 .. k + 1)
      BY <1>1, <2>1
    <3> QED
      BY <2>1, <2>2, <2>3, <3>1 DEF GatheredBy
  <2>5. F[1 .. k] \in I[k] /\ (k + 1) - 1 = k
    BY <1>3
  <2> QED
    BY <2>1, <2>4, <2>5
<1>4. n \in N
  <2> HIDE DEF N
  <2> QED
    BY <1>2, <1>3, Inductive
<1> QED
  BY <1>0, <1>4

-----------------------------------------------------------------------------
(* The recursion over what is below a file.                                 *)

Memos == [Slots -> (SUBSET Globals) \cup {Nil}]
Scope == [visited : SUBSET Sources, memo : Memos, out : SUBSET Globals]

\* Over globals in G, where the closure of a file's entry has at least those in H[file].
MemosOf(G, H) ==
  {m \in [Slots -> (SUBSET G) \cup {Nil}] : \A s \in Slots : m[s] # Nil => H[s[2]] \subseteq m[s]}
ScopeOf(G, H) == [visited : SUBSET Sources, memo : MemosOf(G, H), out : SUBSET G]
ScopeAbove(G, H, low) == {r \in ScopeOf(G, H) : low \subseteq r.out}

\* One depth of it.
LevelOf(B, k) ==
  [q \in Query |-> IF k = 0 THEN [visited |-> q.visited, memo |-> q.memo, out |-> {}]
                   ELSE GlobalsOf(q, B[k - 1])]
AreLevels(B, n) == B = [k \in 0 .. n |-> LevelOf(B, k)]

LEMMA GlobalsBelowIs ==
  ASSUME NEW slot
  PROVE  GlobalsBelow(slot) = (CHOOSE B : AreLevels(B, Cardinality(Sources)))
                                [Cardinality(Sources)][Ask(slot, {}, Closures)]
BY DEF GlobalsBelow, AreLevels, LevelOf

LEMMA LevelsExist ==
  ASSUME NEW n \in Nat
  PROVE  \E B : AreLevels(B, n)
<1> DEFINE N == {k \in Nat : \E B : B = [j \in 0 .. k |-> LevelOf(B, j)]}
<1>1. 0 \in N
  <2> DEFINE B == [j \in 0 .. 0 |-> LevelOf({}, j)]
  <2>1. \A j \in 0 .. 0 : LevelOf(B, j) = LevelOf({}, j)
    BY DEF LevelOf
  <2> HIDE DEF B
  <2>2. B = [j \in 0 .. 0 |-> LevelOf(B, j)]
    BY <2>1 DEF B
  <2> QED
    BY <2>2
<1>2. ASSUME NEW k \in Nat, k \in N PROVE k + 1 \in N
  <2>1. PICK B : B = [j \in 0 .. k |-> LevelOf(B, j)]
    BY <1>2
  <2> DEFINE C == [j \in 0 .. k + 1 |-> LevelOf(B, j)]
  <2>2. ASSUME NEW j \in 0 .. k + 1 PROVE LevelOf(B, j) = LevelOf(C, j)
    <3>1. CASE j = 0
      BY <3>1 DEF LevelOf
    <3>2. CASE j # 0
      <4>1. j - 1 \in 0 .. k /\ j - 1 \in 0 .. k + 1
        BY <3>2
      <4>2. B[j - 1] = C[j - 1]
        BY <4>1, <2>1
      <4> QED
        BY <3>2, <4>2 DEF LevelOf
    <3> QED
      BY <3>1, <3>2
  <2> HIDE DEF C
  <2>3. C = [j \in 0 .. k + 1 |-> LevelOf(C, j)]
    BY <2>2 DEF C
  <2> QED
    BY <2>3
<1>3. n \in N
  <2> HIDE DEF N
  <2> QED
    BY <1>1, <1>2, Inductive
<1> QED
  BY <1>3 DEF AreLevels

\* The answer is that of the last depth, and each depth asks the one before.
AnswersBy(B) ==
  /\ \A slot : GlobalsBelow(slot) = B[Cardinality(Sources)][Ask(slot, {}, Closures)]
  /\ B[0] = [q \in Query |-> [visited |-> q.visited, memo |-> q.memo, out |-> {}]]
  /\ \A k \in Nat : k + 1 <= Cardinality(Sources) =>
       B[k + 1] = [q \in Query |-> GlobalsOf(q, B[k])]
LEMMA LevelsAnswer == \E B : AnswersBy(B)
<1> DEFINE n == Cardinality(Sources)
           B == CHOOSE B : AreLevels(B, n)
<1>1. n \in Nat
  BY SourcesAssumption, FS_CardinalityType
<1>2. B = [k \in 0 .. n |-> LevelOf(B, k)]
  <2>1. AreLevels(B, n)
    BY <1>1, LevelsExist
  <2> HIDE DEF B
  <2> QED
    BY <2>1 DEF AreLevels
<1>3. ASSUME NEW slot PROVE GlobalsBelow(slot) = B[n][Ask(slot, {}, Closures)]
  BY GlobalsBelowIs
<1> HIDE DEF B
<1>4. B[0] = [q \in Query |-> [visited |-> q.visited, memo |-> q.memo, out |-> {}]]
  <2>1. B[0] = LevelOf(B, 0)
    BY <1>1, <1>2
  <2> QED
    BY <2>1 DEF LevelOf
<1>5. ASSUME NEW k \in Nat, k + 1 <= n PROVE B[k + 1] = [q \in Query |-> GlobalsOf(q, B[k])]
  <2>1. k + 1 \in 0 .. n /\ k + 1 # 0 /\ (k + 1) - 1 = k
    BY <1>1, <1>5
  <2>2. B[k + 1] = LevelOf(B, k + 1)
    BY <1>2, <2>1
  <2> QED
    BY <2>1, <2>2 DEF LevelOf
<1>6. AnswersBy(B)
  BY <1>3, <1>4, <1>5 DEF AnswersBy
<1> QED
  BY <1>6

-----------------------------------------------------------------------------
(* Types.                                                                   *)

Stores == [Slots -> Entry \cup {Nil}]
Envs == [modules : [ModuleNames -> Nat \cup {Nil}],
         filenames : [ModuleNames -> Sources \cup {Nil}],
         loaded : [Sources -> Result \cup {Nil}],
         globals : SUBSET Globals]
Frames == [file : Sources, name : ModuleNames \cup {Nil}, todo : Seq(ModuleNames),
           deps : [ModuleNames -> Sources \cup {Nil}], missing : SUBSET ModuleNames]
Askings == [phase : {"idle", "seed", "walk"}, file : Sources \cup {Nil},
            dir : Dirs \cup {Nil}, cold : BOOLEAN, toSeed : SUBSET ModuleNames]

LEMMA ProjectTyped ==
  ASSUME project \in Projects
  PROVE  /\ project.find \in [Dirs -> [ModuleNames -> Sources \cup {Nil}]]
         /\ project.reqs \in [Sources -> Seq(ModuleNames)]
         /\ project.decl \in [Sources -> SUBSET Globals]
         /\ project.uses \in [Sources -> SUBSET Globals]
BY ProjectsAssumption

\* The index has a name for a file whose entry it holds.
Indexed ==
  /\ byFile \in [Sources -> ModuleNames \cup {Nil}]
  /\ \A f \in Sources : byFile[f] # Nil => entries[SlotOf(f)] # Nil

LEMMA SlotOfTyped ==
  ASSUME Indexed, NEW f \in Sources, byFile[f] # Nil
  PROVE  SlotOf(f) \in Slots /\ SlotOf(f)[2] = f /\ entries[SlotOf(f)] # Nil
BY DEF Indexed, SlotOf, Slots

\* Below, a call is made for slots that have an entry, over such closures.
Answering(L, G, H) ==
  \A q \in Query : entries[q.slot] # Nil /\ q.memo \in MemosOf(G, H) => L[q] \in ScopeOf(G, H)

LEMMA MemosTyped ==
  ASSUME NEW G \in SUBSET Globals, NEW H
  PROVE  MemosOf(G, H) \subseteq Memos
BY DEF MemosOf, Memos

LEMMA GatheredTyped ==
  ASSUME Indexed, NEW G \in SUBSET Globals, NEW H, NEW L, Answering(L, G, H),
         NEW low, NEW acc \in ScopeAbove(G, H, low), NEW d \in Sources \cup {Nil}
  PROVE  Gathered(acc, d, L) \in ScopeAbove(G, H, low)
<1>0. acc \in ScopeOf(G, H) /\ low \subseteq acc.out
  BY DEF ScopeAbove
<1>1. CASE d = Nil \/ byFile[d] = Nil \/ d \in acc.visited
  BY <1>1 DEF Gathered
<1>2. CASE ~(d = Nil \/ byFile[d] = Nil \/ d \in acc.visited)
  <2> DEFINE s == SlotOf(d)
             q == Ask(s, acc.visited, acc.memo)
  <2>0. s \in Slots /\ entries[s] # Nil
    BY <1>2, SlotOfTyped
  <2> HIDE DEF s
  <2>1. q \in Query /\ q.slot = s /\ q.memo \in MemosOf(G, H)
    <3>1. acc.visited \in SUBSET Sources /\ acc.memo \in MemosOf(G, H)
      BY <1>0 DEF ScopeOf
    <3>2. acc.memo \in [Slots -> (SUBSET Globals) \cup {Nil}]
      BY <3>1, MemosTyped DEF Memos
    <3> QED
      BY <2>0, <3>1, <3>2 DEF Ask, Query
  <2>2. L[q] \in ScopeOf(G, H)
    BY <2>0, <2>1 DEF Answering
  <2>4. Gathered(acc, d, L) = [L[q] EXCEPT !.out = @ \cup acc.out]
    BY <1>2 DEF Gathered, s
  <2> HIDE DEF q
  <2>3. /\ [L[q] EXCEPT !.out = @ \cup acc.out] \in ScopeOf(G, H)
        /\ [L[q] EXCEPT !.out = @ \cup acc.out].out = L[q].out \cup acc.out
    BY <1>0, <2>2 DEF ScopeOf
  <2> QED
    BY <1>0, <2>3, <2>4 DEF ScopeAbove
<1> QED
  BY <1>1, <1>2

LEMMA GatheredAllTyped ==
  ASSUME Indexed, NEW G \in SUBSET Globals, NEW H, NEW L, Answering(L, G, H),
         NEW low, NEW start \in ScopeAbove(G, H, low),
         NEW deps \in [ModuleNames -> Sources \cup {Nil}]
  PROVE  GatheredAll(start, deps, L) \in ScopeAbove(G, H, low)
<1> DEFINE n == Cardinality(ModuleNames)
           S == ScopeAbove(G, H, low)
           I == [i \in 0 .. n |-> S]
<1>1. n \in Nat /\ ModuleNames = 1 .. n
  BY NamesAssumption, FS_CardinalityType
<1>2. start \in I[0] /\ I[n] = S
  BY <1>1
<1>3. ASSUME NEW i \in 1 .. n, NEW acc \in I[i - 1] PROVE Gathered(acc, deps[i], L) \in I[i]
  <2>1. I[i - 1] = S /\ I[i] = S /\ deps[i] \in Sources \cup {Nil}
    BY <1>1
  <2> QED
    BY <2>1, GatheredTyped
<1> HIDE DEF I, n
<1>4. GatheredAll(start, deps, L) \in I[n]
  BY <1>1, <1>2, <1>3, GatheringKeeps
<1> QED
  BY <1>2, <1>4

LEMMA GlobalsOfTyped ==
  ASSUME project \in Projects, entries \in Stores, Indexed,
         NEW G \in SUBSET Globals, NEW H,
         \A f \in Sources : H[f] \subseteq project.decl[f] /\ project.decl[f] \subseteq G,
         NEW L, Answering(L, G, H),
         NEW q \in Query, entries[q.slot] # Nil, q.memo \in MemosOf(G, H)
  PROVE  GlobalsOf(q, L) \in ScopeAbove(G, H, H[q.slot[2]])
<1> DEFINE f == q.slot[2]
<1>1. q.slot \in Slots /\ f \in Sources /\ q.visited \in SUBSET Sources
  BY DEF Query, Slots
<1>2. CASE q.memo[q.slot] # Nil
  <2>0. q.memo[q.slot] \in (SUBSET G) \cup {Nil} /\ H[f] \subseteq q.memo[q.slot]
    BY <1>1, <1>2 DEF MemosOf
  <2>1. q.memo[q.slot] \in SUBSET G
    BY <1>2, <2>0
  <2> DEFINE r == [visited |-> q.visited, memo |-> q.memo, out |-> q.memo[q.slot]]
  <2>2. r \in ScopeOf(G, H)
    BY <1>1, <2>1 DEF ScopeOf
  <2>3. GlobalsOf(q, L) = r /\ r.out = q.memo[q.slot]
    BY <1>2 DEF GlobalsOf
  <2> HIDE DEF r
  <2> QED
    BY <2>0, <2>2, <2>3 DEF ScopeAbove
<1>3. CASE q.memo[q.slot] = Nil
  <2> DEFINE start == [visited |-> q.visited \cup {f}, memo |-> q.memo, out |-> project.decl[f]]
             end == GatheredAll(start, entries[q.slot].result.deps, L)
  <2>4. GlobalsOf(q, L) = [end EXCEPT !.memo[q.slot] = end.out]
    BY <1>3 DEF GlobalsOf
  <2> HIDE DEF f
  <2>1. start \in ScopeAbove(G, H, H[f])
    <3>1. start \in ScopeOf(G, H)
      BY <1>1 DEF ScopeOf
    <3> QED
      BY <1>1, <3>1 DEF ScopeAbove
  <2>2. entries[q.slot].result.deps \in [ModuleNames -> Sources \cup {Nil}]
    BY <1>1 DEF Stores, Entry, Result
  <2>3. end \in ScopeAbove(G, H, H[f])
    BY <2>1, <2>2, GatheredAllTyped
  <2> HIDE DEF end
  <2>5. end \in ScopeOf(G, H) /\ H[f] \subseteq end.out /\ end.out \in SUBSET G
    BY <2>3 DEF ScopeAbove, ScopeOf
  <2>6. [end.memo EXCEPT ![q.slot] = end.out] \in MemosOf(G, H)
    BY <1>1, <2>5 DEF ScopeOf, MemosOf, f
  <2>7. [end EXCEPT !.memo[q.slot] = end.out]
          = [visited |-> end.visited, memo |-> [end.memo EXCEPT ![q.slot] = end.out],
             out |-> end.out]
    BY <2>5 DEF ScopeOf
  <2> QED
    BY <2>4, <2>5, <2>6, <2>7 DEF ScopeOf, ScopeAbove, f
<1> QED
  BY <1>2, <1>3

LEMMA ClosuresTyped ==
  ASSUME entries \in Stores
  PROVE  Closures \in Memos
<1>1. ASSUME NEW s \in Slots
      PROVE  (IF entries[s] = Nil THEN Nil ELSE entries[s].closure) \in (SUBSET Globals) \cup {Nil}
  <2>1. CASE entries[s] = Nil
    BY <2>1
  <2>2. CASE entries[s] # Nil
    <3>1. entries[s] \in Entry
      BY <2>2 DEF Stores
    <3>2. entries[s].closure \in (SUBSET Globals) \cup {Nil}
      BY <3>1 DEF Entry
    <3> QED
      BY <2>2, <3>2
  <2> QED
    BY <2>1, <2>2
<1> QED
  BY <1>1 DEF Closures, Memos

\* What is below an entry is among the globals that are declared, and in the closures; it has
\* what its own file declares, where every closure has.
LEMMA GlobalsBelowAmong ==
  ASSUME project \in Projects, entries \in Stores, Indexed,
         NEW G \in SUBSET Globals, NEW H,
         \A f \in Sources : H[f] \subseteq project.decl[f] /\ project.decl[f] \subseteq G,
         Closures \in MemosOf(G, H), NEW s \in Slots, entries[s] # Nil
  PROVE  GlobalsBelow(s) \in ScopeAbove(G, H, H[s[2]])
<1> DEFINE n == Cardinality(Sources)
<1>0. PICK B : AnswersBy(B)
  BY LevelsAnswer
<1>1. /\ GlobalsBelow(s) = B[n][Ask(s, {}, Closures)]
      /\ B[0] = [q \in Query |-> [visited |-> q.visited, memo |-> q.memo, out |-> {}]]
      /\ \A k \in Nat : k + 1 <= n => B[k + 1] = [q \in Query |-> GlobalsOf(q, B[k])]
  BY <1>0 DEF AnswersBy
<1> DEFINE N == {k \in Nat : k <= n => Answering(B[k], G, H)}
<1>2. n \in Nat /\ n # 0
  <2>1. Sources # {}
    BY DEF Slots
  <2> QED
    BY <2>1, SourcesAssumption, FS_CardinalityType, FS_EmptySet
<1>3. 0 \in N
  <2> SUFFICES ASSUME NEW q \in Query, q.memo \in MemosOf(G, H) PROVE B[0][q] \in ScopeOf(G, H)
    BY DEF Answering
  <2>1. B[0][q] = [visited |-> q.visited, memo |-> q.memo, out |-> {}]
    BY <1>1
  <2>2. q.visited \in SUBSET Sources /\ {} \in SUBSET G
    BY DEF Query
  <2> QED
    BY <2>1, <2>2 DEF ScopeOf
<1>4. ASSUME NEW k \in Nat, k \in N PROVE k + 1 \in N
  <2> SUFFICES ASSUME k + 1 <= n, NEW q \in Query, entries[q.slot] # Nil, q.memo \in MemosOf(G, H)
               PROVE  B[k + 1][q] \in ScopeOf(G, H)
    BY DEF Answering
  <2>1. Answering(B[k], G, H)
    BY <1>2, <1>4
  <2>2. B[k + 1][q] = GlobalsOf(q, B[k])
    BY <1>1
  <2> QED
    BY <2>1, <2>2, GlobalsOfTyped DEF ScopeAbove
<1>5. n - 1 \in N /\ n - 1 \in Nat /\ n - 1 <= n /\ (n - 1) + 1 = n
  <2> HIDE DEF N, n
  <2> QED
    BY <1>2, <1>3, <1>4, Inductive
<1> DEFINE q == Ask(s, {}, Closures)
<1>6. q \in Query /\ q.slot = s /\ q.memo = Closures
  BY ClosuresTyped DEF Ask, Query, Memos
<1>7. GlobalsBelow(s) = GlobalsOf(q, B[n - 1]) /\ Answering(B[n - 1], G, H)
  <2>1. B[n] = [x \in Query |-> GlobalsOf(x, B[n - 1])]
    BY <1>1, <1>2, <1>5
  <2> HIDE DEF n
  <2> QED
    BY <1>1, <1>5, <1>6, <2>1
<1> HIDE DEF q
<1> QED
  BY <1>6, <1>7, GlobalsOfTyped

LEMMA GlobalsBelowTyped ==
  ASSUME project \in Projects, entries \in Stores, Indexed, NEW s \in Slots, entries[s] # Nil
  PROVE  GlobalsBelow(s) \in Scope
<1> DEFINE H == [f \in Sources |-> {}]
<1>1. \A f \in Sources : H[f] \subseteq project.decl[f] /\ project.decl[f] \subseteq Globals
  BY ProjectTyped
<1>2. Closures \in MemosOf(Globals, H)
  BY ClosuresTyped DEF Memos, MemosOf, Slots
<1> HIDE DEF H
<1>3. GlobalsBelow(s) \in ScopeAbove(Globals, H, H[s[2]])
  BY <1>1, <1>2, GlobalsBelowAmong
<1> QED
  BY <1>3, MemosTyped DEF ScopeAbove, ScopeOf, Scope

\* An entry that remembers a closure is of the same result.
SameResults(es) ==
  /\ es \in Stores
  /\ \A s \in Slots : es[s] = Nil <=> entries[s] = Nil
  /\ \A s \in Slots : entries[s] # Nil => es[s].result = entries[s].result
LEMMA Remembers ==
  ASSUME entries \in Stores, NEW memo \in Memos
  PROVE  SameResults(Remember(memo))
<1>1. ASSUME NEW s \in Slots
      PROVE  /\ Remember(memo)[s] \in Entry \cup {Nil}
             /\ Remember(memo)[s] = Nil <=> entries[s] = Nil
             /\ entries[s] # Nil => Remember(memo)[s].result = entries[s].result
  <2>1. CASE entries[s] = Nil
    BY <2>1 DEF Remember
  <2>2. CASE entries[s] # Nil
    <3>1. entries[s] \in Entry
      BY <2>2 DEF Stores
    <3>2. Remember(memo)[s] = [entries[s] EXCEPT !.closure = memo[s]]
      BY <2>2 DEF Remember
    <3>3. [entries[s] EXCEPT !.closure = memo[s]] = [result |-> entries[s].result, closure |-> memo[s]]
      BY <3>1 DEF Entry
    <3>4. memo[s] \in (SUBSET Globals) \cup {Nil}
      BY DEF Memos
    <3>5. [result |-> entries[s].result, closure |-> memo[s]] \in Entry
      BY <3>1, <3>4 DEF Entry
    <3>6. Nil \notin Entry
      BY NilAssumption
    <3> QED
      BY <2>2, <3>2, <3>3, <3>5, <3>6
  <2> QED
    BY <2>1, <2>2
<1>2. Remember(memo) = [s \in Slots |-> Remember(memo)[s]]
  BY DEF Remember
<1> QED
  BY <1>1, <1>2 DEF Stores, SameResults

-----------------------------------------------------------------------------
(* The type invariant.                                                      *)

Types ==
  /\ project \in Projects
  /\ store \in [ModuleNames -> Sources \cup {Nil}]
  /\ entries \in Stores
  /\ env \in Envs
  /\ stack \in Seq(Frames)
  /\ asked \in Askings
  /\ checks \in 0 .. MaxChecks
  /\ walks \in Nat

\* Results are of their own file and have a number, in the store and in an environment.
IsOf(r, f) == r.file = f /\ r.walk # Circular
Owned ==
  /\ \A s \in Slots : entries[s] # Nil => IsOf(entries[s].result, s[2])
  /\ \A f \in Sources : env.loaded[f] # Nil => IsOf(env.loaded[f], f)
Leads ==
  /\ \A n \in ModuleNames : store[n] # Nil => entries[<<n, store[n]>>] # Nil
  /\ Indexed
Phases ==
  /\ asked.phase # "walk" => stack = <<>>
  /\ asked.phase = "idle" => env = NewEnv
  /\ asked.phase # "idle" => /\ asked.dir \in Dirs /\ asked.file \in Sources
                             /\ \E n \in ModuleNames : Found(n) = asked.file
  /\ \A n \in asked.toSeed : store[n] # Nil

\* A name stands for the file it is found at; the placeholders are the names walked.
Placed ==
  /\ \A n \in ModuleNames : env.modules[n] # Nil => env.filenames[n] # Nil
  /\ \A n \in ModuleNames : env.filenames[n] # Nil => env.filenames[n] = Found(n)
Walked ==
  /\ \A i \in DOMAIN stack :
       /\ stack[i].name = Nil <=> i = 1
       /\ stack[i].file = IF i = 1 THEN asked.file ELSE Found(stack[i].name)
  /\ \A i, j \in DOMAIN stack : stack[i].name = stack[j].name => i = j
  /\ \A n \in ModuleNames : env.modules[n] = Circular <=> \E i \in DOMAIN stack : stack[i].name = n
  /\ \A i \in DOMAIN stack : i # 1 => env.filenames[stack[i].name] = stack[i].file
Shape == Types /\ Owned /\ Leads /\ Phases /\ Placed /\ Walked

LEMMA FoundTyped ==
  ASSUME Types, Phases, asked.phase # "idle", NEW n \in ModuleNames
  PROVE  Found(n) \in Sources \cup {Nil}
BY ProjectTyped DEF Types, Phases, Found

LEMMA NothingIs == NewEnv \in Envs /\ Nil \notin Nat /\ Circular \in Nat
BY NilAssumption DEF NewEnv, Envs, Circular

LEMMA ShapeBegins == StoreInit => Shape
<1> SUFFICES ASSUME StoreInit PROVE Shape
  OBVIOUS
<1>1. Types
  <2>1. NoCheck \in Askings
    BY DEF NoCheck, Askings
  <2>2. entries \in Stores
    BY DEF StoreInit, Stores
  <2>3. <<>> \in Seq(Frames)
    OBVIOUS
  <2>4. 0 \in 0 .. MaxChecks
    BY BoundAssumption
  <2> QED
    BY <2>1, <2>2, <2>3, <2>4, NothingIs DEF StoreInit, Types
<1>2. Owned /\ Leads
  BY DEF StoreInit, Owned, Leads, Indexed, NewEnv
<1>3. Phases
  BY DEF StoreInit, Phases, NoCheck
<1>4. Placed /\ Walked
  <2>1. DOMAIN stack = {}
    BY DEF StoreInit
  <2>2. \A n \in ModuleNames : env.modules[n] = Nil /\ env.filenames[n] = Nil
    BY DEF StoreInit, NewEnv
  <2> QED
    BY <2>1, <2>2, NothingIs DEF Placed, Walked
<1> QED
  BY <1>1, <1>2, <1>3, <1>4 DEF Shape

LEMMA ShapeBegin ==
  ASSUME Shape, NEW f \in Sources, NEW d \in Dirs, NEW cold \in BOOLEAN, Begin(f, d, cold)
  PROVE  Shape'
<1>1. Types'
  <2>1. asked' \in Askings
    BY DEF Begin, Askings
  <2>2. checks' \in 0 .. MaxChecks
    BY BoundAssumption DEF Shape, Types, Begin
  <2> QED
    BY <2>1, <2>2, NothingIs DEF Shape, Types, Begin
<1>2. stack' = <<>> /\ DOMAIN stack' = {}
  BY DEF Shape, Phases, Begin
<1>3. \A n \in ModuleNames : env'.modules[n] = Nil /\ env'.filenames[n] = Nil
  BY DEF Begin, NewEnv
<1>4. \A g \in Sources : env'.loaded[g] = Nil
  BY DEF Begin, NewEnv
<1>5. Owned' /\ Leads'
  BY <1>4 DEF Shape, Owned, Leads, Indexed, SlotOf, Begin
<1>6. Phases'
  <2>1. \E n \in ModuleNames : Found(n)' = f
    BY DEF Begin, Found
  <2>2. \A n \in asked'.toSeed : store'[n] # Nil
    BY DEF Begin
  <2> QED
    BY <1>2, <2>1, <2>2 DEF Begin, Phases
<1>7. Placed' /\ Walked'
  BY <1>2, <1>3, NothingIs DEF Placed, Walked
<1> QED
  BY <1>1, <1>5, <1>6, <1>7 DEF Shape

\* What the store holds of a name that is seeded.
LEMMA SeededIs ==
  ASSUME Shape, NEW n \in asked.toSeed
  PROVE  /\ n \in ModuleNames /\ store[n] \in Sources /\ <<n, store[n]>> \in Slots
         /\ entries[<<n, store[n]>>] \in Entry /\ entries[<<n, store[n]>>] # Nil
         /\ entries[<<n, store[n]>>].result \in Result
         /\ IsOf(entries[<<n, store[n]>>].result, store[n])
         /\ entries[<<n, store[n]>>].result.walk \in Nat
         /\ entries[<<n, store[n]>>].result.walk # Circular
<1> DEFINE s == <<n, store[n]>>
<1>1. n \in ModuleNames /\ store[n] # Nil
  BY DEF Shape, Types, Phases, Askings
<1>2. store[n] \in Sources /\ entries[s] # Nil
  BY <1>1 DEF Shape, Types, Leads
<1>3. s \in Slots /\ s[2] = store[n]
  BY <1>1, <1>2 DEF Slots
<1> HIDE DEF s
<1>4. entries[s] \in Entry
  BY <1>2, <1>3 DEF Shape, Types, Stores
<1>5. IsOf(entries[s].result, store[n])
  BY <1>2, <1>3 DEF Shape, Owned
<1>6. entries[s].result \in Result /\ entries[s].result.walk \in Nat /\ entries[s].result.walk # Circular
  BY <1>4, <1>5 DEF Entry, Result, IsOf
<1> QED
  BY <1>1, <1>2, <1>3, <1>4, <1>5, <1>6 DEF s

\* Entries that remember more are of the same shape.
LEMMA SameShape ==
  ASSUME Shape, SameResults(entries'), UNCHANGED <<store, byFile>>
  PROVE  /\ entries' \in Stores /\ Leads'
         /\ \A s \in Slots : entries'[s] # Nil => IsOf(entries'[s].result, s[2])
<1>1. entries' \in Stores /\ \A s \in Slots : entries'[s] # Nil => IsOf(entries'[s].result, s[2])
  BY DEF SameResults, Shape, Owned
<1>2. ASSUME NEW n \in ModuleNames, store[n] # Nil PROVE entries'[<<n, store[n]>>] # Nil
  <2>1. <<n, store[n]>> \in Slots /\ entries[<<n, store[n]>>] # Nil
    BY <1>2 DEF Shape, Types, Leads, Slots
  <2> QED
    BY <2>1 DEF SameResults
<1>3. ASSUME NEW f \in Sources, byFile[f] # Nil PROVE entries'[SlotOf(f)] # Nil
  <2>1. SlotOf(f) \in Slots /\ entries[SlotOf(f)] # Nil
    BY <1>3, SlotOfTyped DEF Shape, Leads
  <2> QED
    BY <2>1 DEF SameResults
<1>4. Leads'
  BY <1>2, <1>3 DEF Shape, Leads, Indexed, SlotOf
<1> QED
  BY <1>1, <1>4

LEMMA ShapeSeeds ==
  ASSUME Shape, NEW n \in ModuleNames, SeedEntry(n)
  PROVE  Shape'
<1> DEFINE f == store[n]
           g == GlobalsBelow(<<n, f>>)
           r == entries[<<n, f>>].result
           whole == g.out = {}
<1>1. asked.phase = "seed" /\ n \in asked.toSeed
  BY DEF SeedEntry
<1>2. /\ f \in Sources /\ <<n, f>> \in Slots /\ entries[<<n, f>>] # Nil
      /\ r \in Result /\ r.walk \in Nat /\ r.walk # Circular /\ IsOf(r, f)
  BY <1>1, SeededIs
<1>3. stack' = <<>> /\ DOMAIN stack' = {} /\ stack = <<>>
  BY <1>1 DEF SeedEntry, Shape, Phases
<1>4. /\ asked' \in Askings /\ asked'.phase = "seed" /\ asked'.dir = asked.dir
      /\ asked'.file = asked.file /\ asked'.toSeed \subseteq asked.toSeed
  BY <1>1 DEF SeedEntry, Shape, Types, Askings
<1>5. UNCHANGED <<project, checks, store, byFile, stack, walks>>
  BY DEF SeedEntry
<1>6. Phases'
  <2>1. \A m \in ModuleNames : Found(m)' = Found(m)
    BY <1>4, <1>5 DEF Found
  <2> QED
    BY <1>1, <1>3, <1>4, <1>5, <2>1 DEF Shape, Phases
<1>7. CASE Found(n) # f
  <2>1. UNCHANGED <<env, entries>>
    BY <1>7 DEF SeedEntry
  <2>2. Placed' /\ Walked'
    BY <1>3, <1>4, <1>5, <2>1 DEF Shape, Placed, Walked, Found
  <2>3. Types' /\ Owned' /\ Leads'
    BY <1>4, <1>5, <2>1 DEF Shape, Types, Owned, Leads, Indexed, SlotOf
  <2> QED
    BY <1>6, <2>2, <2>3 DEF Shape
<1>8. CASE Found(n) = f
  <2>1. /\ entries' = Remember(g.memo)
        /\ env' = [env EXCEPT !.loaded[f] = r, !.modules[n] = IF whole THEN r.walk ELSE @,
                              !.filenames[n] = IF whole THEN f ELSE @]
    BY <1>8 DEF SeedEntry
  <2>2. g \in Scope
    BY <1>2, GlobalsBelowTyped DEF Shape, Types, Leads
  <2>3. g.memo \in Memos
    BY <2>2 DEF Scope
  <2>4. SameResults(entries')
    BY <2>1, <2>3, Remembers DEF Shape, Types
  <2>5. /\ env'.modules = [env.modules EXCEPT ![n] = IF whole THEN r.walk ELSE @]
        /\ env'.filenames = [env.filenames EXCEPT ![n] = IF whole THEN f ELSE @]
        /\ env'.loaded = [env.loaded EXCEPT ![f] = r]
        /\ env'.globals = env.globals
        /\ env' = [modules |-> env'.modules, filenames |-> env'.filenames,
                   loaded |-> env'.loaded, globals |-> env'.globals]
    <3> HIDE DEF g, whole, r, f
    <3> QED
      BY <2>1 DEF Shape, Types, Envs
  <2> HIDE DEF g, whole, r
  <2>6. env' \in Envs
    <3> HIDE DEF f
    <3>1. env'.modules \in [ModuleNames -> Nat \cup {Nil}]
      BY <1>2, <2>5 DEF Shape, Types, Envs
    <3>2. env'.filenames \in [ModuleNames -> Sources \cup {Nil}]
      BY <1>2, <2>5 DEF Shape, Types, Envs
    <3>3. env'.loaded \in [Sources -> Result \cup {Nil}]
      BY <1>2, <2>5 DEF Shape, Types, Envs
    <3> QED
      BY <2>5, <3>1, <3>2, <3>3 DEF Shape, Types, Envs
  <2>7. Types'
    BY <1>4, <1>5, <2>4, <2>6, SameShape DEF Shape, Types
  <2>8. Owned' /\ Leads'
    <3>1. \A h \in Sources : env'.loaded[h] = IF h = f THEN r ELSE env.loaded[h]
      BY <1>2, <2>5 DEF Shape, Types, Envs
    <3> QED
      BY <1>2, <1>5, <2>4, <3>1, SameShape DEF Shape, Owned
  <2>9. Placed' /\ Walked'
    <3>1. \A m \in ModuleNames : Found(m)' = Found(m)
      BY <1>4, <1>5 DEF Found
    <3>2. \A m \in ModuleNames : m # n => env'.modules[m] = env.modules[m] /\ env'.filenames[m] = env.filenames[m]
      BY <2>5 DEF Shape, Types, Envs
    <3>3. \/ env'.modules[n] = r.walk /\ env'.filenames[n] = f
          \/ env'.modules[n] = env.modules[n] /\ env'.filenames[n] = env.filenames[n]
      BY <2>5 DEF Shape, Types, Envs
    <3>4. f # Nil
      BY <1>2, NilAssumption
    <3>5. Placed'
      BY <1>8, <3>1, <3>2, <3>3, <3>4 DEF Shape, Placed
    <3>6. \A m \in ModuleNames : env'.modules[m] # Circular
      BY <1>2, <1>3, <3>2, <3>3 DEF Shape, Walked
    <3> QED
      BY <1>3, <3>5, <3>6 DEF Walked
  <2> QED
    BY <1>6, <2>7, <2>8, <2>9 DEF Shape
<1> QED
  BY <1>7, <1>8

LEMMA ShapeOpens == Shape /\ OpenFile => Shape'
<1> SUFFICES ASSUME Shape, OpenFile PROVE Shape'
  OBVIOUS
<1>1. /\ asked.phase = "seed" /\ asked' = [asked EXCEPT !.phase = "walk"]
      /\ UNCHANGED <<project, checks, entries, store, byFile, env, walks>>
      /\ stack' = <<Frame(asked.file, Nil)>> \/ stack' = <<>>
  BY DEF OpenFile
<1>2. asked' \in Askings /\ asked'.phase = "walk" /\ asked'.dir = asked.dir
      /\ asked'.file = asked.file /\ asked'.toSeed = asked.toSeed
  BY <1>1 DEF Shape, Types, Askings
<1>3. asked.file \in Sources /\ stack = <<>>
  BY <1>1 DEF Shape, Phases
<1>4. Frame(asked.file, Nil) \in Frames /\ Frame(asked.file, Nil).name = Nil
      /\ Frame(asked.file, Nil).file = asked.file
  BY <1>3, ProjectTyped DEF Frame, Frames, Shape, Types
<1>5. stack' \in Seq(Frames)
  <2> DEFINE top == Frame(asked.file, Nil)
  <2>1. top \in Frames /\ (stack' = <<top>> \/ stack' = <<>>)
    BY <1>1, <1>4
  <2> HIDE DEF top
  <2>2. <<top>> \in Seq(Frames) /\ <<>> \in Seq(Frames)
    BY <2>1
  <2> QED
    BY <2>1, <2>2
<1>6. \A i \in DOMAIN stack' : i = 1 /\ stack'[i] = Frame(asked.file, Nil)
  BY <1>1
<1>7. Types' /\ Owned' /\ Leads'
  BY <1>1, <1>2, <1>5 DEF Shape, Types, Owned, Leads, Indexed, SlotOf
<1>8. \A n \in ModuleNames : Found(n)' = Found(n)
  BY <1>1, <1>2 DEF Found
<1>9. Phases' /\ Placed'
  BY <1>1, <1>2, <1>8 DEF Shape, Phases, Placed
<1>10. Walked'
  <2>1. \A n \in ModuleNames : env'.modules[n] # Circular
    BY <1>1, <1>3 DEF Shape, Walked
  <2>2. \A n \in ModuleNames : n # Nil
    BY NamesAssumption, NothingIs, FS_CardinalityType
  <2> QED
    BY <1>2, <1>4, <1>6, <2>1, <2>2 DEF Walked
<1> QED
  BY <1>7, <1>9, <1>10 DEF Shape

\* A frame with one field changed.
LEMMA FrameWithTodo ==
  ASSUME NEW b \in Frames, NEW x
  PROVE  [b EXCEPT !.todo = x] = [file |-> b.file, name |-> b.name, todo |-> x,
                                  deps |-> b.deps, missing |-> b.missing]
BY DEF Frames

\* A `require` takes a name from the top frame, and notes its file or that it has none.
WithDep(n, f) == [file |-> Top.file, name |-> Top.name, todo |-> Tail(Top.todo),
                  deps |-> [Top.deps EXCEPT ![n] = f], missing |-> Top.missing]
WithMissing(n) == [file |-> Top.file, name |-> Top.name, todo |-> Tail(Top.todo),
                   deps |-> Top.deps, missing |-> Top.missing \cup {n}]

\* A new top frame for the same file changes nothing else of the stack.
SameBut(s, t) ==
  /\ s \in Seq(Frames) /\ Len(s) = Len(stack) /\ DOMAIN s = DOMAIN stack
  /\ s[Len(stack)] = t
  /\ \A i \in DOMAIN stack : s[i].name = stack[i].name
  /\ \A i \in DOMAIN stack : s[i].file = stack[i].file
  /\ \A i \in DOMAIN stack : i # Len(stack) => s[i] = stack[i]
LEMMA TopBecomes ==
  ASSUME stack \in Seq(Frames), stack # <<>>, NEW t \in Frames,
         t.name = Top.name, t.file = Top.file
  PROVE  SameBut([stack EXCEPT ![Len(stack)] = t], t)
<1> DEFINE l == Len(stack)
           k == [stack EXCEPT ![l] = t]
<1>1. l \in Nat \ {0} /\ l \in DOMAIN stack
  OBVIOUS
<1>7. k \in Seq(Frames) /\ Len(k) = l /\ DOMAIN k = DOMAIN stack
  BY <1>1
<1>8. \A i \in DOMAIN stack : k[i] = IF i = l THEN t ELSE stack[i]
  BY <1>1
<1>9. t.file = stack[l].file /\ t.name = stack[l].name
  BY DEF Top
<1> HIDE DEF k
<1>10. SameBut(k, t)
  BY <1>1, <1>7, <1>8, <1>9 DEF SameBut
<1> QED
  BY <1>10 DEF k

LEMMA AnsweredIs ==
  ASSUME stack \in Seq(Frames), stack # <<>>, Top.todo # <<>>,
         NEW f \in Sources \cup {Nil}, NEW n \in ModuleNames
  PROVE  /\ Head(Top.todo) \in ModuleNames /\ Top \in Frames /\ WithDep(n, f) \in Frames
         /\ SameBut(Answered(n, f), WithDep(n, f))
<1> DEFINE l == Len(stack)
           t == WithDep(n, f)
<1>1. l \in Nat \ {0} /\ l \in DOMAIN stack /\ Top \in Frames
  BY DEF Top
<1>2. Top.todo \in Seq(ModuleNames)
  BY <1>1 DEF Frames
<1>3. Head(Top.todo) \in ModuleNames /\ Tail(Top.todo) \in Seq(ModuleNames)
  BY <1>2
<1>4. t \in Frames
  BY <1>1, <1>3 DEF Frames, WithDep
<1>5. Answered(n, f) = [stack EXCEPT ![l] = t]
  <2>1. Answered(n, f) = [stack EXCEPT ![l] = [[Top EXCEPT !.todo = Tail(@)] EXCEPT !.deps[n] = f]]
    BY <1>1 DEF Answered, Top
  <2>2. [[Top EXCEPT !.todo = Tail(@)] EXCEPT !.deps[n] = f] = t
    <3> DEFINE u == [Top EXCEPT !.todo = Tail(Top.todo)]
    <3>1. u = [file |-> Top.file, name |-> Top.name, todo |-> Tail(Top.todo),
               deps |-> Top.deps, missing |-> Top.missing]
      BY <1>1, FrameWithTodo
    <3> HIDE DEF u
    <3>2. ASSUME NEW d
          PROVE  [u EXCEPT !.deps = d] =
                   [file |-> Top.file, name |-> Top.name, todo |-> Tail(Top.todo),
                    deps |-> d, missing |-> Top.missing]
      <4> DEFINE v == Top.file
                 w == Top.name
                 y == Tail(Top.todo)
                 z == Top.deps
                 m == Top.missing
      <4>1. u = [file |-> v, name |-> w, todo |-> y, deps |-> z, missing |-> m]
        BY <3>1
      <4> HIDE DEF v, w, y, z, m
      <4>2. [u EXCEPT !.deps = d] = [file |-> v, name |-> w, todo |-> y, deps |-> d, missing |-> m]
        BY <4>1
      <4> QED
        BY <4>2 DEF v, w, y, z, m
    <3>3. u.deps = Top.deps
      BY <3>1
    <3>4. [u EXCEPT !.deps = [u.deps EXCEPT ![n] = f]] = t
      BY <3>2, <3>3 DEF WithDep
    <3> QED
      BY <3>4 DEF u
  <2> QED
    BY <2>1, <2>2
<1>6. t.name = Top.name /\ t.file = Top.file
  BY DEF WithDep
<1> HIDE DEF t
<1>7. SameBut(Answered(n, f), t)
  BY <1>4, <1>5, <1>6, TopBecomes
<1> QED
  BY <1>1, <1>3, <1>4, <1>7 DEF t

LEMMA NotFoundIs ==
  ASSUME stack \in Seq(Frames), stack # <<>>, Top.todo # <<>>, NEW n \in ModuleNames
  PROVE  /\ Head(Top.todo) \in ModuleNames /\ Top \in Frames /\ WithMissing(n) \in Frames
         /\ SameBut(NotFound(n), WithMissing(n))
<1> DEFINE l == Len(stack)
           t == WithMissing(n)
<1>1. l \in Nat \ {0} /\ l \in DOMAIN stack /\ Top \in Frames
  BY DEF Top
<1>2. Top.todo \in Seq(ModuleNames)
  BY <1>1 DEF Frames
<1>3. Head(Top.todo) \in ModuleNames /\ Tail(Top.todo) \in Seq(ModuleNames)
  BY <1>2
<1>4. t \in Frames
  BY <1>1, <1>3 DEF Frames, WithMissing
<1>5. NotFound(n) = [stack EXCEPT ![l] = t]
  <2>1. NotFound(n) = [stack EXCEPT ![l] = [[Top EXCEPT !.todo = Tail(@)] EXCEPT !.missing = @ \cup {n}]]
    BY <1>1 DEF NotFound, Top
  <2>2. [[Top EXCEPT !.todo = Tail(@)] EXCEPT !.missing = @ \cup {n}] = t
    <3> DEFINE u == [Top EXCEPT !.todo = Tail(Top.todo)]
    <3>1. u = [file |-> Top.file, name |-> Top.name, todo |-> Tail(Top.todo),
               deps |-> Top.deps, missing |-> Top.missing]
      BY <1>1, FrameWithTodo
    <3> HIDE DEF u
    <3>2. ASSUME NEW d
          PROVE  [u EXCEPT !.missing = d] =
                   [file |-> Top.file, name |-> Top.name, todo |-> Tail(Top.todo),
                    deps |-> Top.deps, missing |-> d]
      <4> DEFINE v == Top.file
                 w == Top.name
                 y == Tail(Top.todo)
                 z == Top.deps
                 m == Top.missing
      <4>1. u = [file |-> v, name |-> w, todo |-> y, deps |-> z, missing |-> m]
        BY <3>1
      <4> HIDE DEF v, w, y, z, m
      <4>2. [u EXCEPT !.missing = d] = [file |-> v, name |-> w, todo |-> y, deps |-> z, missing |-> d]
        BY <4>1
      <4> QED
        BY <4>2 DEF v, w, y, z, m
    <3>3. u.missing = Top.missing
      BY <3>1
    <3>4. [u EXCEPT !.missing = u.missing \cup {n}] = t
      BY <3>2, <3>3 DEF WithMissing
    <3> QED
      BY <3>4 DEF u
  <2> QED
    BY <2>1, <2>2
<1>6. t.name = Top.name /\ t.file = Top.file
  BY DEF WithMissing
<1> HIDE DEF t
<1>7. SameBut(NotFound(n), t)
  BY <1>4, <1>5, <1>6, TopBecomes
<1> QED
  BY <1>1, <1>3, <1>4, <1>7 DEF t

LEMMA HeadIs ==
  ASSUME stack \in Seq(Frames), stack # <<>>, Top.todo # <<>>
  PROVE  Head(Top.todo) \in ModuleNames /\ Top \in Frames /\ Len(stack) \in Nat \ {0}
<1>1. Len(stack) \in Nat \ {0} /\ Top \in Frames
  BY DEF Top
<1>2. Top.todo \in Seq(ModuleNames)
  BY <1>1 DEF Frames
<1> QED
  BY <1>1, <1>2

LEMMA DeliveredIs ==
  ASSUME Shape, NEW f \in Sources
  PROVE  Delivered(f).globals \in SUBSET Globals /\ SameResults(Delivered(f).entries)
<1>1. CASE byFile[f] # Nil /\ env.loaded[f] = entries[SlotOf(f)].result
  <2> DEFINE g == GlobalsBelow(SlotOf(f))
  <2>1. g \in Scope
    BY <1>1, SlotOfTyped, GlobalsBelowTyped DEF Shape, Types, Leads
  <2>2. Delivered(f).globals = g.out /\ Delivered(f).entries = Remember(g.memo)
    BY <1>1 DEF Delivered
  <2> HIDE DEF g
  <2>3. g.out \in SUBSET Globals /\ g.memo \in Memos /\ entries \in Stores
    BY <2>1 DEF Scope, Shape, Types
  <2> QED
    BY <2>2, <2>3, Remembers
<1>2. CASE ~(byFile[f] # Nil /\ env.loaded[f] = entries[SlotOf(f)].result)
  BY <1>2 DEF Delivered, Shape, Types, SameResults
<1> QED
  BY <1>1, <1>2

\* The four ways a `require` is answered.
AnswersKnown(n) ==
  /\ env.modules[n] # Nil
  /\ stack' = Answered(n, env.filenames[n])
  /\ UNCHANGED <<env, entries>>
AnswersNothing(n) ==
  /\ env.modules[n] = Nil /\ Found(n) = Nil
  /\ stack' = NotFound(n)
  /\ UNCHANGED <<env, entries>>
AnswersServed(n) ==
  /\ env.modules[n] = Nil /\ Found(n) # Nil /\ env.loaded[Found(n)] # Nil
  /\ stack' = Answered(n, Found(n))
  /\ entries' = Delivered(Found(n)).entries
  /\ env' = [env EXCEPT !.globals = @ \cup Delivered(Found(n)).globals, !.filenames[n] = Found(n),
                        !.modules[n] = env.loaded[Found(n)].walk]
AnswersWalking(n) ==
  /\ env.modules[n] = Nil /\ Found(n) # Nil /\ env.loaded[Found(n)] = Nil
  /\ stack' = Append(Answered(n, Found(n)), Frame(Found(n), n))
  /\ env' = [env EXCEPT !.modules[n] = Circular, !.filenames[n] = Found(n)]
  /\ UNCHANGED entries

LEMMA RequireIs ==
  ASSUME Require
  PROVE  /\ asked.phase = "walk" /\ stack # <<>> /\ Top.todo # <<>>
         /\ UNCHANGED <<project, checks, store, byFile, asked, walks, said>>
         /\ \/ AnswersKnown(Head(Top.todo)) \/ AnswersNothing(Head(Top.todo))
            \/ AnswersServed(Head(Top.todo)) \/ AnswersWalking(Head(Top.todo))
BY DEF Require, AnswersKnown, AnswersNothing, AnswersServed, AnswersWalking

LEMMA NamesOfFrames ==
  ASSUME stack \in Seq(Frames)
  PROVE  \A i \in DOMAIN stack : stack[i] \in Frames /\ stack[i].name \in ModuleNames \cup {Nil}
<1>1. \A i \in DOMAIN stack : stack[i] \in Frames
  OBVIOUS
<1> QED
  BY <1>1 DEF Frames

\* What stays as it was in the middle of a walk.
LEMMA ShapeRequires == Shape /\ Require => Shape'
<1> SUFFICES ASSUME Shape, Require PROVE Shape'
  OBVIOUS
<1> DEFINE n == Head(Top.todo)
           f == Found(n)
<1>0. n = Head(Top.todo) /\ f = Found(n)
  OBVIOUS
<1> HIDE DEF n, f
<1>1. /\ asked.phase = "walk" /\ stack # <<>> /\ Top.todo # <<>> /\ stack \in Seq(Frames)
      /\ UNCHANGED <<project, checks, store, byFile, asked, walks>>
  BY RequireIs DEF Shape, Types
<1>2. n \in ModuleNames /\ Top \in Frames /\ Len(stack) \in Nat \ {0}
  BY <1>0, <1>1, HeadIs
<1>13. \A x \in Sources \cup {Nil} : SameBut(Answered(n, x), WithDep(n, x))
  BY <1>1, <1>2, AnsweredIs
<1>3. \A m \in ModuleNames : Found(m)' = Found(m) /\ Found(m) \in Sources \cup {Nil}
  BY <1>1, FoundTyped DEF Found, Shape
<1>4. Phases'
  BY <1>1, <1>3 DEF Shape, Phases
<1>5. \A m \in ModuleNames : m # Nil
  BY NamesAssumption, NothingIs, FS_CardinalityType
\* A step that only answers keeps the names and files of the frames.
<1>6. ASSUME NEW s, stack' = s, s \in Seq(Frames), Len(s) = Len(stack), DOMAIN s = DOMAIN stack,
             \A i \in DOMAIN stack : s[i].name = stack[i].name /\ s[i].file = stack[i].file,
             UNCHANGED <<env, entries>>
      PROVE  Shape'
  <2>1. Types'
    BY <1>1, <1>6 DEF Shape, Types
  <2>2. Owned' /\ Leads' /\ Placed'
    BY <1>1, <1>3, <1>6 DEF Shape, Owned, Leads, Indexed, SlotOf, Placed
  <2>3. \A i \in DOMAIN stack' : i \in DOMAIN stack /\ stack'[i].name = stack[i].name
                                                  /\ stack'[i].file = stack[i].file
    BY <1>6
  <2>4. DOMAIN stack' = DOMAIN stack /\ env' = env /\ asked' = asked
    BY <1>1, <1>6
  <2>5. \A i \in DOMAIN stack : stack[i].name \in ModuleNames \cup {Nil}
    BY <1>1, NamesOfFrames
  <2>7. Walked'
    BY <1>1, <2>3, <2>4, <2>5 DEF Shape, Walked, Found
  <2> QED
    BY <1>4, <2>1, <2>2, <2>7 DEF Shape
<1>7. CASE AnswersKnown(n)
  <2> DEFINE s == Answered(n, env.filenames[n])
  <2>1. env.filenames[n] \in Sources \cup {Nil}
    BY <1>2 DEF Shape, Types, Envs
  <2>2. /\ s \in Seq(Frames) /\ Len(s) = Len(stack) /\ DOMAIN s = DOMAIN stack
        /\ \A i \in DOMAIN stack : s[i].name = stack[i].name /\ s[i].file = stack[i].file
    BY <1>13, <2>1 DEF SameBut
  <2>3. stack' = s /\ UNCHANGED <<env, entries>>
    BY <1>7 DEF AnswersKnown
  <2> HIDE DEF s
  <2> QED
    BY <1>6, <2>2, <2>3
<1>8. CASE AnswersNothing(n)
  <2> DEFINE s == NotFound(n)
  <2>2. /\ s \in Seq(Frames) /\ Len(s) = Len(stack) /\ DOMAIN s = DOMAIN stack
        /\ \A i \in DOMAIN stack : s[i].name = stack[i].name /\ s[i].file = stack[i].file
    BY <1>1, <1>2, NotFoundIs DEF SameBut
  <2>3. stack' = s /\ UNCHANGED <<env, entries>>
    BY <1>8 DEF AnswersNothing
  <2> HIDE DEF s
  <2> QED
    BY <1>6, <2>2, <2>3
<1>9. CASE AnswersServed(n)
  <2>1. f \in Sources /\ env.loaded[f] \in Result /\ env.loaded[f].walk \in Nat
        /\ env.loaded[f].walk # Circular
    BY <1>0, <1>2, <1>3, <1>9 DEF AnswersServed, Shape, Types, Envs, Owned, IsOf, Result
  <2>2. Delivered(f).globals \in SUBSET Globals /\ SameResults(Delivered(f).entries)
    BY <2>1, DeliveredIs
  <2> DEFINE s == Answered(n, f)
             e == Delivered(f).entries
             gs == Delivered(f).globals
  <2>3. /\ stack' = s /\ entries' = e
        /\ env' = [env EXCEPT !.globals = @ \cup gs, !.filenames[n] = f,
                              !.modules[n] = env.loaded[f].walk]
    BY <1>0, <1>9 DEF AnswersServed
  <2>4. /\ s \in Seq(Frames) /\ Len(s) = Len(stack) /\ DOMAIN s = DOMAIN stack
        /\ \A i \in DOMAIN stack : s[i].name = stack[i].name /\ s[i].file = stack[i].file
    BY <1>13, <2>1 DEF SameBut
  <2> HIDE DEF s, e, gs
  <2>5. /\ env'.modules = [env.modules EXCEPT ![n] = env.loaded[f].walk]
        /\ env'.filenames = [env.filenames EXCEPT ![n] = f]
        /\ env'.loaded = env.loaded /\ env'.globals = env.globals \cup gs
        /\ env' = [modules |-> env'.modules, filenames |-> env'.filenames,
                   loaded |-> env'.loaded, globals |-> env'.globals]
    BY <2>3 DEF Shape, Types, Envs
  <2>6. env' \in Envs
    BY <1>2, <2>1, <2>2, <2>5 DEF Shape, Types, Envs, gs
  <2>7. Types'
    BY <1>1, <2>2, <2>3, <2>4, <2>6 DEF Shape, Types, SameResults, e
  <2>8. Owned' /\ Leads'
    BY <1>1, <2>2, <2>3, <2>5, SameShape DEF Shape, Owned, e
  <2>9. \A m \in ModuleNames :
           /\ env'.modules[m] = IF m = n THEN env.loaded[f].walk ELSE env.modules[m]
           /\ env'.filenames[m] = IF m = n THEN f ELSE env.filenames[m]
    BY <1>2, <2>5 DEF Shape, Types, Envs
  <2>10. f # Nil
    BY <2>1, NilAssumption
  <2>11. Placed'
    BY <1>0, <1>3, <2>9, <2>10 DEF Shape, Placed
  <2>12. \A i \in DOMAIN stack : stack[i].name \in ModuleNames \cup {Nil}
    BY <1>1, NamesOfFrames
  <2>13. \A i \in DOMAIN stack : stack[i].name # n
    <3>1. env.modules[n] # Circular
      BY <1>9, NothingIs DEF AnswersServed
    <3> QED
      BY <1>2, <3>1 DEF Shape, Walked
  <2>14. Walked'
    <3>1. \A i \in DOMAIN stack' : i \in DOMAIN stack /\ stack'[i].name = stack[i].name
                                                    /\ stack'[i].file = stack[i].file
      BY <2>3, <2>4
    <3>2. DOMAIN stack' = DOMAIN stack /\ asked' = asked
      BY <1>1, <2>3, <2>4
    <3>4. \A m \in ModuleNames : env'.modules[m] = Circular <=> env.modules[m] = Circular
      BY <1>0, <1>9, <2>1, <2>9, NothingIs DEF AnswersServed
    <3>5. \A i \in DOMAIN stack : i # 1 => /\ stack[i].name \in ModuleNames
                                           /\ env'.filenames[stack[i].name] = env.filenames[stack[i].name]
      BY <2>9, <2>12, <2>13 DEF Shape, Walked
    <3> QED
      BY <1>1, <3>1, <3>2, <3>4, <3>5 DEF Shape, Walked, Found
  <2> QED
    BY <1>4, <2>7, <2>8, <2>11, <2>14 DEF Shape
<1>10. CASE AnswersWalking(n)
  <2>1. f \in Sources /\ f # Nil
    BY <1>0, <1>2, <1>3, <1>10 DEF AnswersWalking
  <2> DEFINE s == Answered(n, f)
             t == Frame(f, n)
             l == Len(stack)
  <2>0. l \in Nat \ {0}
    BY <1>2
  <2>2. /\ s \in Seq(Frames) /\ Len(s) = l /\ DOMAIN s = DOMAIN stack
        /\ \A i \in DOMAIN stack : s[i].name = stack[i].name /\ s[i].file = stack[i].file
    BY <1>13, <2>1 DEF SameBut
  <2>3. t \in Frames /\ t.name = n /\ t.file = f
    BY <1>2, <2>1, ProjectTyped DEF Frame, Frames, Shape, Types
  <2>4. /\ stack' = Append(s, t) /\ UNCHANGED entries
        /\ env' = [env EXCEPT !.modules[n] = Circular, !.filenames[n] = f]
    BY <1>0, <1>10 DEF AnswersWalking
  <2> HIDE DEF s, t
  <2>5. /\ env'.modules = [env.modules EXCEPT ![n] = Circular]
        /\ env'.filenames = [env.filenames EXCEPT ![n] = f]
        /\ env'.loaded = env.loaded /\ env'.globals = env.globals
        /\ env' = [modules |-> env'.modules, filenames |-> env'.filenames,
                   loaded |-> env'.loaded, globals |-> env'.globals]
    BY <2>4 DEF Shape, Types, Envs
  <2>6. env' \in Envs
    <3>1. env'.modules \in [ModuleNames -> Nat \cup {Nil}]
      BY <1>2, <2>5, NothingIs DEF Shape, Types, Envs
    <3>2. env'.filenames \in [ModuleNames -> Sources \cup {Nil}]
      BY <1>2, <2>1, <2>5 DEF Shape, Types, Envs
    <3> QED
      BY <2>5, <3>1, <3>2 DEF Shape, Types, Envs
  <2>7. stack' \in Seq(Frames) /\ Len(stack') = l + 1 /\ DOMAIN stack' = DOMAIN stack \cup {l + 1}
        /\ stack'[l + 1] = t /\ \A i \in DOMAIN stack : stack'[i] = s[i] /\ i # l + 1
    BY <2>2, <2>3, <2>4, <1>2
  <2>8. Types' /\ Owned' /\ Leads'
    BY <1>1, <2>4, <2>5, <2>6, <2>7 DEF Shape, Types, Owned, Leads, Indexed, SlotOf
  <2>9. \A m \in ModuleNames :
           /\ env'.modules[m] = IF m = n THEN Circular ELSE env.modules[m]
           /\ env'.filenames[m] = IF m = n THEN f ELSE env.filenames[m]
    BY <1>2, <2>5 DEF Shape, Types, Envs
  <2>10. Placed'
    BY <1>0, <1>3, <2>1, <2>9 DEF Shape, Placed
  <2>11. \A i \in DOMAIN stack : stack[i].name \in ModuleNames \cup {Nil}
    BY <1>1, NamesOfFrames
  <2>12. \A i \in DOMAIN stack : stack[i].name # n
    <3>1. env.modules[n] # Circular
      BY <1>10, NothingIs DEF AnswersWalking
    <3> QED
      BY <1>2, <3>1 DEF Shape, Walked
  <2>13. l \in Nat \ {0} /\ l + 1 # 1 /\ DOMAIN stack = 1 .. l
    BY <1>1, <1>2
  <2>14. \A i \in DOMAIN stack' : \/ /\ i \in DOMAIN stack /\ i # l + 1
                                     /\ stack'[i].name = stack[i].name
                                     /\ stack'[i].file = stack[i].file
                                  \/ i = l + 1 /\ stack'[i].name = n /\ stack'[i].file = f
    <3>1. ASSUME NEW i \in DOMAIN stack PROVE /\ i # l + 1 /\ stack'[i].name = stack[i].name
                                              /\ stack'[i].file = stack[i].file
      BY <2>2, <2>7
    <3>2. stack'[l + 1].name = n /\ stack'[l + 1].file = f
      BY <2>3, <2>7
    <3>3. \A i \in DOMAIN stack' : i \in DOMAIN stack \/ i = l + 1
      BY <2>7
    <3> HIDE DEF l
    <3> QED
      BY <3>1, <3>2, <3>3
  <2>15. l + 1 \in DOMAIN stack' /\ DOMAIN stack \subseteq DOMAIN stack'
    BY <2>7
  <2>16. Walked'
    <3> DEFINE k == stack'
    <3>1. \A i \in DOMAIN k : (k[i].name = Nil <=> i = 1)
      BY <1>2, <1>5, <2>13, <2>14 DEF Shape, Walked
    <3>2. \A i \in DOMAIN k : k[i].file = IF i = 1 THEN asked'.file ELSE project'.find[asked'.dir][k[i].name]
      BY <1>0, <1>1, <1>2, <2>13, <2>14 DEF Shape, Walked, Found
    <3>3. \A i, j \in DOMAIN k : k[i].name = k[j].name => i = j
      BY <2>12, <2>14 DEF Shape, Walked
    <3>4. ASSUME NEW m \in ModuleNames
          PROVE  env'.modules[m] = Circular <=> \E i \in DOMAIN k : k[i].name = m
      <4>1. CASE m = n
        BY <2>9, <2>14, <2>15, <4>1
      <4>2. CASE m # n
        <5>0. ASSUME NEW i \in DOMAIN k, k[i].name = m
              PROVE  i \in DOMAIN stack /\ stack[i].name = m
          BY <2>14, <4>2, <5>0
        <5>2. ASSUME NEW i \in DOMAIN stack, stack[i].name = m
              PROVE  i \in DOMAIN k /\ k[i].name = m
          BY <2>2, <2>7, <2>15, <5>2
        <5>1. (\E i \in DOMAIN k : k[i].name = m) <=> \E i \in DOMAIN stack : stack[i].name = m
          BY <5>0, <5>2
        <5> QED
          BY <2>9, <4>2, <5>1 DEF Shape, Walked
      <4> QED
        BY <4>1, <4>2
    <3>5. \A i \in DOMAIN k : i # 1 => env'.filenames[k[i].name] = k[i].file
      BY <1>2, <2>9, <2>11, <2>12, <2>14 DEF Shape, Walked
    <3> QED
      BY <3>1, <3>2, <3>3, <3>4, <3>5 DEF Walked, Found
  <2> QED
    BY <1>4, <2>8, <2>10, <2>16 DEF Shape
<1> QED
  BY <1>0, <1>7, <1>8, <1>9, <1>10, RequireIs
\* Without its last frame.
LEMMA FrontIs ==
  ASSUME stack \in Seq(Frames), stack # <<>>
  PROVE  /\ Front(stack) \in Seq(Frames) /\ Len(Front(stack)) = Len(stack) - 1
         /\ DOMAIN Front(stack) = 1 .. Len(stack) - 1
         /\ \A i \in 1 .. Len(stack) - 1 : i \in DOMAIN stack /\ Front(stack)[i] = stack[i]
         /\ Len(stack) \in Nat \ {0} /\ Len(stack) \in DOMAIN stack /\ Top \in Frames
         /\ Top = stack[Len(stack)]
<1> DEFINE l == Len(stack)
           b == SubSeq(stack, 1, l - 1)
<1>1. l \in Nat \ {0} /\ DOMAIN stack = 1 .. l /\ l \in 1 .. l
  OBVIOUS
<1>2. \A i \in 1 .. l - 1 : i \in 1 .. l
  BY <1>1
<1>3. b \in Seq(Frames) /\ Len(b) = l - 1 /\ \A i \in 1 .. l - 1 : b[i] = stack[i]
  BY <1>1, <1>2
<1>4. DOMAIN b = 1 .. l - 1
  BY <1>1, <1>3
<1>5. Top = stack[l] /\ stack[l] \in Frames /\ Front(stack) = b
  BY <1>1 DEF Top, Front
<1> HIDE DEF b
<1> QED
  BY <1>1, <1>2, <1>3, <1>4, <1>5

\* What a finished walk found.
Found_(f) == [walk |-> walks + 1, file |-> f, deps |-> Top.deps,
              errs |-> (project.uses[f] \ (env.globals \cup project.decl[f])) \cup Top.missing]
LEMMA FinishIs ==
  ASSUME Shape, FinishFile
  PROVE  /\ asked.phase = "walk" /\ stack # <<>> /\ Top.todo = <<>>
         /\ stack' = Front(stack) /\ walks' = walks + 1
         /\ UNCHANGED <<project, checks, entries, store, byFile, asked, said>>
         /\ Top.file \in Sources /\ Top.name \in ModuleNames \cup {Nil}
         /\ Found_(Top.file) \in Result /\ IsOf(Found_(Top.file), Top.file)
         /\ env'.modules = IF Top.name = Nil THEN env.modules
                           ELSE [env.modules EXCEPT ![Top.name] = walks + 1]
         /\ env'.filenames = env.filenames
         /\ env'.loaded = [env.loaded EXCEPT ![Top.file] = Found_(Top.file)]
         /\ env'.globals = env.globals \cup project.decl[Top.file]
         /\ env' \in Envs
<1> DEFINE r == Found_(Top.file)
           known == env.globals \cup project.decl[Top.file]
           mods == IF Top.name = Nil THEN env.modules ELSE [env.modules EXCEPT ![Top.name] = r.walk]
<1>1. /\ asked.phase = "walk" /\ stack # <<>> /\ Top.todo = <<>>
      /\ stack' = Front(stack) /\ walks' = walks + 1
      /\ UNCHANGED <<project, checks, entries, store, byFile, asked, said>>
  BY DEF FinishFile
<1>2. env' = [env EXCEPT !.loaded[Top.file] = r, !.globals = known, !.modules = mods]
  BY DEF FinishFile, Found_
<1>3. Top \in Frames
  BY <1>1, FrontIs DEF Shape, Types
<1>4. /\ Top.file \in Sources /\ Top.name \in ModuleNames \cup {Nil}
      /\ Top.deps \in [ModuleNames -> Sources \cup {Nil}] /\ Top.missing \in SUBSET ModuleNames
  BY <1>3 DEF Frames
<1>5. r.walk = walks + 1 /\ r.file = Top.file /\ r.walk \in Nat /\ r.walk # Circular
  BY DEF Found_, Shape, Types, Circular
<1>6. project.uses[Top.file] \in SUBSET Globals /\ project.decl[Top.file] \in SUBSET Globals
  BY <1>4, ProjectTyped DEF Shape, Types
<1>7. r \in Result /\ IsOf(r, Top.file)
  BY <1>4, <1>5, <1>6 DEF Found_, Result, IsOf
<1>8. /\ env.modules \in [ModuleNames -> Nat \cup {Nil}]
      /\ env.filenames \in [ModuleNames -> Sources \cup {Nil}]
      /\ env.loaded \in [Sources -> Result \cup {Nil}] /\ env.globals \in SUBSET Globals
  BY DEF Shape, Types, Envs
<1>9. mods \in [ModuleNames -> Nat \cup {Nil}] /\ known \in SUBSET Globals
      /\ [env.loaded EXCEPT ![Top.file] = r] \in [Sources -> Result \cup {Nil}]
  BY <1>4, <1>5, <1>6, <1>7, <1>8
<1>10. env' = [modules |-> mods, filenames |-> env.filenames,
               loaded |-> [env.loaded EXCEPT ![Top.file] = r], globals |-> known]
  <2> HIDE DEF r, known, mods
  <2> QED
    BY <1>2 DEF Shape, Types, Envs
<1>11. env' \in Envs
  <2> HIDE DEF r, known, mods
  <2> QED
    BY <1>8, <1>9, <1>10 DEF Envs
<1> QED
  BY <1>1, <1>4, <1>5, <1>7, <1>9, <1>10, <1>11

LEMMA ShapeFinishes == Shape /\ FinishFile => Shape'
<1> SUFFICES ASSUME Shape, FinishFile PROVE Shape'
  OBVIOUS
<1> DEFINE l == Len(stack)
           r == Found_(Top.file)
<1>1. /\ asked.phase = "walk" /\ stack # <<>> /\ Top.todo = <<>>
      /\ stack' = Front(stack) /\ walks' = walks + 1
      /\ UNCHANGED <<project, checks, entries, store, byFile, asked, said>>
      /\ Top.file \in Sources /\ Top.name \in ModuleNames \cup {Nil}
      /\ r \in Result /\ IsOf(r, Top.file)
      /\ env'.modules = IF Top.name = Nil THEN env.modules
                        ELSE [env.modules EXCEPT ![Top.name] = walks + 1]
      /\ env'.filenames = env.filenames
      /\ env'.loaded = [env.loaded EXCEPT ![Top.file] = r]
      /\ env' \in Envs
  BY FinishIs
<1>2. /\ stack' \in Seq(Frames) /\ Len(stack') = l - 1 /\ DOMAIN stack' = 1 .. l - 1
      /\ \A i \in 1 .. l - 1 : i \in DOMAIN stack /\ stack'[i] = stack[i]
      /\ l \in Nat \ {0} /\ l \in DOMAIN stack /\ Top = stack[l]
  BY <1>1, FrontIs DEF Shape, Types
<1> HIDE DEF r
<1>3. walks' \in Nat /\ walks + 1 # Circular
  BY <1>1 DEF Shape, Types, Circular
<1>4. Types'
  BY <1>1, <1>2, <1>3 DEF Shape, Types
<1>5. Owned'
  <2>1. \A f \in Sources : env'.loaded[f] = IF f = Top.file THEN r ELSE env.loaded[f]
    BY <1>1 DEF Shape, Types, Envs
  <2> QED
    BY <1>1, <2>1 DEF Shape, Owned
<1>6. Leads'
  BY <1>1 DEF Shape, Leads, Indexed, SlotOf
<1>7. \A m \in ModuleNames : Found(m)' = Found(m)
  BY <1>1 DEF Found
<1>8. Phases'
  BY <1>1, <1>7 DEF Shape, Phases
<1>9. \A m \in ModuleNames : /\ env'.modules[m] = IF m = Top.name THEN walks + 1 ELSE env.modules[m]
                             /\ env'.filenames[m] = env.filenames[m]
                             /\ m # Nil
  <2>1. \A m \in ModuleNames : m # Nil
    BY NamesAssumption, NothingIs, FS_CardinalityType
  <2> QED
    BY <1>1, <2>1 DEF Shape, Types, Envs
<1>10. Placed'
  <2>1. Top.name \in ModuleNames => env.filenames[Top.name] # Nil
    <3>1. Top.name \in ModuleNames => l # 1
      BY <1>2, <1>9 DEF Shape, Walked
    <3>2. Top.file # Nil
      BY <1>1, NilAssumption
    <3> QED
      BY <1>2, <3>1, <3>2 DEF Shape, Walked
  <2> QED
    BY <1>7, <1>9, <2>1 DEF Shape, Placed
<1>11. Walked'
  <2>1. \A i \in DOMAIN stack' : i \in DOMAIN stack /\ stack'[i] = stack[i] /\ i # l
    BY <1>2
  <2>2. \A i \in DOMAIN stack : i # l => i \in DOMAIN stack'
    BY <1>2
  <2>3. ASSUME NEW m \in ModuleNames
        PROVE  env'.modules[m] = Circular <=> \E i \in DOMAIN stack' : stack'[i].name = m
    <3>1. CASE m = Top.name
      <4>1. env'.modules[m] # Circular
        BY <1>3, <1>9, <3>1
      <4>2. \A i \in DOMAIN stack' : stack'[i].name # m
        BY <1>2, <2>1, <3>1 DEF Shape, Walked
      <4> QED
        BY <4>1, <4>2
    <3>2. CASE m # Top.name
      <4>1. env'.modules[m] = env.modules[m]
        BY <1>9, <3>2
      <4>2. (\E i \in DOMAIN stack' : stack'[i].name = m) <=> \E i \in DOMAIN stack : stack[i].name = m
        <5>1. ASSUME NEW i \in DOMAIN stack', stack'[i].name = m PROVE i \in DOMAIN stack /\ stack[i].name = m
          BY <2>1, <5>1
        <5>2. ASSUME NEW i \in DOMAIN stack, stack[i].name = m PROVE i \in DOMAIN stack' /\ stack'[i].name = m
          BY <1>2, <2>1, <2>2, <3>2, <5>2
        <5> QED
          BY <5>1, <5>2
      <4> QED
        BY <4>1, <4>2 DEF Shape, Walked
    <3> QED
      BY <3>1, <3>2
  <2>4. \A i \in DOMAIN stack' : stack'[i].name \in ModuleNames \cup {Nil}
    BY <1>2, <2>1, NamesOfFrames DEF Shape, Types
  <2>5. project' = project /\ asked' = asked /\ env'.filenames = env.filenames
    BY <1>1
  <2> QED
    BY <2>1, <2>3, <2>4, <2>5 DEF Shape, Walked, Found
<1> QED
  BY <1>4, <1>5, <1>6, <1>8, <1>10, <1>11 DEF Shape

LEMMA StoredIs ==
  ASSUME Shape, NEW n \in Stored
  PROVE  /\ n \in ModuleNames /\ env.filenames[n] \in Sources
         /\ env.loaded[env.filenames[n]] \in Result
         /\ IsOf(env.loaded[env.filenames[n]], env.filenames[n])
         /\ env.loaded[env.filenames[n]].walk = env.modules[n]
<1>1. n \in ModuleNames /\ env.filenames[n] \in Sources
  BY DEF Stored, Shape, Types, Envs
<1> QED
  BY <1>1 DEF Stored, Shape, Types, Envs, Owned

LEMMA KeptIs ==
  ASSUME Shape, NEW n \in Kept
  PROVE  /\ n \in Stored /\ n \in ModuleNames /\ env.filenames[n] \in Sources
         /\ env.filenames[n] \in KeptFiles
         /\ env.loaded[env.filenames[n]] \in Result
         /\ IsOf(env.loaded[env.filenames[n]], env.filenames[n])
<1>1. n \in Stored
  BY DEF Kept
<1> QED
  BY <1>1, StoredIs DEF KeptFiles

\* What is stored, one component at a time.
Latest(last) == last \in [KeptFiles -> Kept] /\ \A f \in KeptFiles : env.filenames[last[f]] = f
StoredEntry(last, s) ==
  IF s[1] \in Kept /\ env.filenames[s[1]] = s[2]
  THEN [result |-> env.loaded[s[2]], closure |-> Nil]
  ELSE IF StoreFrom(last).names[s[1]] = s[2] \/ StoreFrom(last).index[s[2]] = s[1]
       THEN entries[s] ELSE Nil
LEMMA StoreFromIs ==
  ASSUME NEW last
  PROVE  /\ StoreFrom(last).names =
              [n \in ModuleNames |-> IF n \in Kept THEN env.filenames[n] ELSE store[n]]
         /\ StoreFrom(last).index = [f \in Sources |-> IF f \in KeptFiles THEN last[f] ELSE byFile[f]]
         /\ StoreFrom(last).entries = [s \in Slots |-> StoredEntry(last, s)]
BY DEF StoreFrom, StoredEntry

LEMMA StoreFromTyped ==
  ASSUME Shape, NEW last, Latest(last)
  PROVE  /\ StoreFrom(last).names \in [ModuleNames -> Sources \cup {Nil}]
         /\ StoreFrom(last).index \in [Sources -> ModuleNames \cup {Nil}]
         /\ StoreFrom(last).entries \in Stores
         /\ \A s \in Slots : StoreFrom(last).entries[s] # Nil =>
              IsOf(StoreFrom(last).entries[s].result, s[2])
         /\ \A n \in ModuleNames : StoreFrom(last).names[n] # Nil =>
              StoreFrom(last).entries[<<n, StoreFrom(last).names[n]>>] # Nil
         /\ \A f \in Sources : StoreFrom(last).index[f] # Nil =>
              StoreFrom(last).entries[<<StoreFrom(last).index[f], f>>] # Nil
<1> DEFINE names == StoreFrom(last).names
           index == StoreFrom(last).index
           new == StoreFrom(last).entries
<1>1. /\ names \in [ModuleNames -> Sources \cup {Nil}]
      /\ \A n \in ModuleNames : names[n] = IF n \in Kept THEN env.filenames[n] ELSE store[n]
  <2>1. names = [n \in ModuleNames |-> IF n \in Kept THEN env.filenames[n] ELSE store[n]]
    BY StoreFromIs
  <2>2. \A n \in ModuleNames : env.filenames[n] \in Sources \cup {Nil} /\ store[n] \in Sources \cup {Nil}
    BY DEF Shape, Types, Envs
  <2> HIDE DEF names
  <2> QED
    BY <2>1, <2>2
<1>2. /\ index \in [Sources -> ModuleNames \cup {Nil}]
      /\ \A f \in Sources : index[f] = IF f \in KeptFiles THEN last[f] ELSE byFile[f]
  <2>1. index = [f \in Sources |-> IF f \in KeptFiles THEN last[f] ELSE byFile[f]]
    BY StoreFromIs
  <2>2. \A f \in KeptFiles : last[f] \in ModuleNames
    BY KeptIs DEF Latest
  <2>3. \A f \in Sources : byFile[f] \in ModuleNames \cup {Nil}
    BY DEF Shape, Leads, Indexed
  <2> HIDE DEF index
  <2> QED
    BY <2>1, <2>2, <2>3
<1>3. new = [s \in Slots |-> StoredEntry(last, s)]
  BY StoreFromIs
<1>4. ASSUME NEW s \in Slots, s[1] \in Kept, env.filenames[s[1]] = s[2]
      PROVE  new[s] \in Entry /\ new[s] # Nil /\ IsOf(new[s].result, s[2])
  <2>1. new[s] = [result |-> env.loaded[s[2]], closure |-> Nil]
    BY <1>3, <1>4 DEF StoredEntry
  <2>2. env.loaded[s[2]] \in Result /\ IsOf(env.loaded[s[2]], s[2])
    BY <1>4, KeptIs
  <2>3. new[s] \in Entry
    BY <2>1, <2>2 DEF Entry
  <2> QED
    BY <2>1, <2>2, <2>3, NilAssumption
<1>5. ASSUME NEW s \in Slots, ~(s[1] \in Kept /\ env.filenames[s[1]] = s[2])
      PROVE  new[s] = entries[s] \/ (new[s] = Nil /\ names[s[1]] # s[2] /\ index[s[2]] # s[1])
  BY <1>3, <1>5 DEF StoredEntry
<1> HIDE DEF new, names, index
<1>6. new \in Stores
  <2>1. \A s \in Slots : new[s] \in Entry \cup {Nil}
    BY <1>4, <1>5 DEF Shape, Types, Stores
  <2> QED
    BY <1>3, <2>1 DEF Stores
<1>7. \A s \in Slots : new[s] # Nil => IsOf(new[s].result, s[2])
  BY <1>4, <1>5 DEF Shape, Owned
<1>8. ASSUME NEW n \in ModuleNames, names[n] # Nil PROVE new[<<n, names[n]>>] # Nil
  <2> DEFINE s == <<n, names[n]>>
  <2>1. s \in Slots /\ s[1] = n /\ s[2] = names[n]
    BY <1>1, <1>8 DEF Slots
  <2> HIDE DEF s
  <2>2. CASE n \in Kept
    BY <1>1, <1>4, <2>1, <2>2 DEF s
  <2>3. CASE n \notin Kept
    <3>1. names[n] = store[n] /\ entries[s] # Nil
      BY <1>1, <1>8, <2>3 DEF Shape, Leads, s
    <3> QED
      BY <1>5, <2>1, <2>3, <3>1 DEF s
  <2> QED
    BY <2>2, <2>3
<1>9. ASSUME NEW f \in Sources, index[f] # Nil PROVE new[<<index[f], f>>] # Nil
  <2> DEFINE s == <<index[f], f>>
  <2>1. s \in Slots /\ s[1] = index[f] /\ s[2] = f
    BY <1>2, <1>9 DEF Slots
  <2> HIDE DEF s
  <2>2. CASE f \in KeptFiles
    <3>1. index[f] \in Kept /\ env.filenames[index[f]] = f
      BY <1>2, <2>2 DEF Latest
    <3> QED
      BY <1>4, <2>1, <3>1 DEF s
  <2>3. CASE f \notin KeptFiles
    <3>1. index[f] = byFile[f] /\ entries[s] # Nil
      BY <1>2, <1>9, <2>3 DEF Shape, Leads, Indexed, SlotOf, s
    <3>2. ~(s[1] \in Kept /\ env.filenames[s[1]] = s[2])
      BY <2>1, <2>3 DEF KeptFiles
    <3> QED
      BY <1>5, <2>1, <3>1, <3>2 DEF s
  <2> QED
    BY <2>2, <2>3
<1> QED
  BY <1>1, <1>2, <1>6, <1>7, <1>8, <1>9 DEF new, names, index

LEMMA EndsIs ==
  ASSUME EndCheck
  PROVE  /\ asked.phase = "walk" /\ stack = <<>>
         /\ asked' = NoCheck /\ env' = NewEnv
         /\ UNCHANGED <<project, checks, stack, walks>>
         /\ \E last : /\ Latest(last)
                      /\ store' = StoreFrom(last).names
                      /\ byFile' = StoreFrom(last).index
                      /\ entries' = StoreFrom(last).entries
                      /\ \A a \in said' \ said : /\ a.file = asked.file /\ a.dir = asked.dir
                                                 /\ a.errs = env.loaded[asked.file].errs
                                                 /\ a.depErrs = DependencyErrors(StoreFrom(last))
                                                 /\ a.closure = RequireClosure(StoreFrom(last))
BY DEF EndCheck, Latest

LEMMA ShapeEnds == Shape /\ EndCheck => Shape'
<1> SUFFICES ASSUME Shape, EndCheck PROVE Shape'
  OBVIOUS
<1>0. PICK last : /\ Latest(last)
                  /\ store' = StoreFrom(last).names
                  /\ byFile' = StoreFrom(last).index
                  /\ entries' = StoreFrom(last).entries
  BY EndsIs
<1>1. Types'
  <2>1. NoCheck \in Askings
    BY DEF NoCheck, Askings
  <2> QED
    BY <1>0, <2>1, EndsIs, StoreFromTyped, NothingIs DEF Shape, Types
<1>2. Owned' /\ Leads'
  <2>1. \A f \in Sources : NewEnv.loaded[f] = Nil
    BY DEF NewEnv
  <2> QED
    BY <1>0, <2>1, EndsIs, StoreFromTyped DEF Owned, Leads, Indexed, SlotOf
<1>3. Phases'
  BY EndsIs DEF Phases, NoCheck
<1>4. Placed' /\ Walked'
  <2>1. DOMAIN stack' = {}
    BY EndsIs
  <2>2. \A n \in ModuleNames : env'.modules[n] = Nil /\ env'.filenames[n] = Nil
    BY EndsIs DEF NewEnv
  <2> QED
    BY <2>1, <2>2, NothingIs DEF Placed, Walked
<1> QED
  BY <1>1, <1>2, <1>3, <1>4 DEF Shape

\* Every step keeps it.
LEMMA ShapeSteps == Shape /\ [StoreNext]_storeVars => Shape'
<1> SUFFICES ASSUME Shape, [StoreNext]_storeVars PROVE Shape'
  OBVIOUS
<1>1. ASSUME NEW f \in Sources, NEW d \in Dirs, NEW cold \in BOOLEAN, Begin(f, d, cold) PROVE Shape'
  BY <1>1, ShapeBegin
<1>2. ASSUME NEW n \in ModuleNames, SeedEntry(n) PROVE Shape'
  BY <1>2, ShapeSeeds
<1>3. CASE UNCHANGED storeVars
  BY <1>3 DEF storeVars, Shape, Types, Owned, Leads, Indexed, SlotOf, Phases, Placed, Walked, Found
<1> QED
  BY <1>1, <1>2, <1>3, ShapeOpens, ShapeRequires, ShapeFinishes, ShapeEnds DEF StoreNext

LEMMA ShapeAlways == StoreSpec => []Shape
<1> QED
  BY ShapeBegins, ShapeSteps, PTL DEF StoreSpec

LEMMA ShapeSuffices == Shape => StoreTypeOK
<1> SUFFICES ASSUME Shape PROVE StoreTypeOK
  OBVIOUS
<1>1. {n \in ModuleNames : env.modules[n] = Circular} = {stack[i].name : i \in DOMAIN stack} \ {Nil}
  <2>1. \A i \in DOMAIN stack : stack[i].name \in ModuleNames \cup {Nil}
    BY NamesOfFrames DEF Shape, Types
  <2>2. \A m \in ModuleNames : m # Nil
    BY NamesAssumption, NothingIs, FS_CardinalityType
  <2>3. ASSUME NEW n \in ModuleNames, env.modules[n] = Circular
        PROVE  n \in {stack[i].name : i \in DOMAIN stack} \ {Nil}
    BY <2>2, <2>3 DEF Shape, Walked
  <2>4. ASSUME NEW n \in {stack[i].name : i \in DOMAIN stack} \ {Nil}
        PROVE  n \in ModuleNames /\ env.modules[n] = Circular
    BY <2>1, <2>4 DEF Shape, Walked
  <2> QED
    BY <2>3, <2>4
<1> QED
  BY <1>1 DEF Shape, StoreTypeOK, Types, Owned, IsOf, Leads, Indexed, SlotOf, Envs, Stores

\* The shape of the state.
THEOREM StoreTypes == StoreSpec => []StoreTypeOK
BY ShapeAlways, ShapeSuffices, PTL

-----------------------------------------------------------------------------
(* One instance of a file's records.                                        *)

\* Two names a file has from one directory, it has from every directory that finds it under
\* one of them.
NamesTogether ==
  \A d, e \in Dirs : \A n, m \in ModuleNames :
    /\ project.find[d][n] # Nil
    /\ project.find[d][m] = project.find[d][n]
    /\ project.find[e][n] = project.find[d][n]
    => project.find[e][m] = project.find[d][n]

ResultAt(n) == entries[<<n, store[n]>>].result
\* The store holds it, and a check in this directory finds it where it was.
Seen(n) == store[n] # Nil /\ Found(n) = store[n]

\* The names one directory has for a file hold one result of it.
OneResult ==
  \A d \in Dirs : \A n, m \in ModuleNames :
    /\ store[n] # Nil /\ store[m] = store[n]
    /\ project.find[d][n] = store[n] /\ project.find[d][m] = store[n]
    => ResultAt(m) = ResultAt(n)
\* A check has the results that were seeded, and walks none of their files.
SeededAsHeld ==
  asked.phase # "idle" /\ ~asked.cold =>
    \A n \in ModuleNames \ asked.toSeed : Seen(n) => env.loaded[store[n]] = ResultAt(n)
SeededFirst == asked.phase = "walk" => asked.toSeed = {}
WalksOthers ==
  ~asked.cold => \A i \in DOMAIN stack : \A n \in ModuleNames : Seen(n) => stack[i].file # store[n]
Once == OneResult /\ SeededAsHeld /\ SeededFirst /\ WalksOthers

\* A name's entry after a check is its file's result in that check's environment, or the
\* one it had.
LEMMA EndsAt ==
  ASSUME Shape, NEW last, Latest(last), NEW n \in ModuleNames, NEW f \in Sources,
         StoreFrom(last).names[n] = f
  PROVE  \/ /\ n \in Kept /\ env.filenames[n] = f
            /\ StoreFrom(last).entries[<<n, f>>].result = env.loaded[f]
         \/ /\ n \notin Kept /\ store[n] = f
            /\ StoreFrom(last).entries[<<n, f>>] = entries[<<n, f>>]
<1> DEFINE s == <<n, f>>
<1>1. s \in Slots /\ s[1] = n /\ s[2] = f
  BY DEF Slots
<1>2. StoreFrom(last).entries[s] = StoredEntry(last, s)
  <2> HIDE DEF s
  <2>1. StoreFrom(last).entries = [t \in Slots |-> StoredEntry(last, t)]
    BY StoreFromIs
  <2> QED
    BY <1>1, <2>1
<1>3. f = IF n \in Kept THEN env.filenames[n] ELSE store[n]
  BY StoreFromIs
<1> HIDE DEF s
<1>4. CASE n \in Kept
  <2>1. StoredEntry(last, s) = [result |-> env.loaded[f], closure |-> Nil]
    BY <1>1, <1>3, <1>4 DEF StoredEntry
  <2> QED
    BY <1>2, <1>3, <1>4, <2>1 DEF s
<1>5. CASE n \notin Kept
  <2>1. StoredEntry(last, s) = entries[s]
    BY <1>1, <1>5 DEF StoredEntry
  <2> QED
    BY <1>2, <1>3, <1>5, <2>1 DEF s
<1> QED
  BY <1>4, <1>5

\* What the store knows under a name is a result.
LEMMA HeldIs ==
  ASSUME Shape, NEW n \in ModuleNames, store[n] # Nil
  PROVE  /\ store[n] \in Sources /\ <<n, store[n]>> \in Slots
         /\ entries[<<n, store[n]>>] # Nil /\ ResultAt(n) \in Result /\ ResultAt(n) # Nil
<1> DEFINE s == <<n, store[n]>>
<1>1. store[n] \in Sources /\ entries[s] # Nil
  BY DEF Shape, Types, Leads
<1>2. s \in Slots
  BY <1>1 DEF Slots
<1> HIDE DEF s
<1>3. entries[s] \in Entry
  BY <1>1, <1>2 DEF Shape, Types, Stores
<1>4. entries[s].result \in Result
  BY <1>3 DEF Entry
<1> QED
  BY <1>1, <1>2, <1>4, NilAssumption DEF s, ResultAt

LEMMA OnceBegins == StoreInit => Once
<1> SUFFICES ASSUME StoreInit PROVE Once
  OBVIOUS
<1>1. DOMAIN stack = {} /\ asked.phase = "idle" /\ \A n \in ModuleNames : store[n] = Nil
  BY DEF StoreInit, NoCheck
<1> QED
  BY <1>1 DEF Once, OneResult, SeededAsHeld, SeededFirst, WalksOthers

\* While no result the store holds changes, its names keep agreeing.
LEMMA SameHeld ==
  ASSUME Shape, OneResult, UNCHANGED <<project, store>>, SameResults(entries')
  PROVE  OneResult' /\ \A n \in ModuleNames : store[n] # Nil => ResultAt(n)' = ResultAt(n)
<1>1. ASSUME NEW n \in ModuleNames, store[n] # Nil PROVE ResultAt(n)' = ResultAt(n)
  <2>1. entries'[<<n, store[n]>>].result = entries[<<n, store[n]>>].result
    BY <1>1, HeldIs DEF SameResults
  <2> QED
    BY <2>1 DEF ResultAt
<1>2. OneResult'
  <2> SUFFICES ASSUME NEW d \in Dirs, NEW n \in ModuleNames, NEW m \in ModuleNames,
                      store[n] # Nil, store[m] = store[n],
                      project.find[d][n] = store[n], project.find[d][m] = store[n]
               PROVE  ResultAt(m)' = ResultAt(n)'
    BY DEF OneResult
  <2>1. ResultAt(m) = ResultAt(n)
    BY DEF OneResult
  <2> QED
    BY <1>1, <2>1
<1> QED
  BY <1>1, <1>2

LEMMA SameEntries ==
  ASSUME Shape, entries' = entries
  PROVE  SameResults(entries')
BY DEF Shape, Types, SameResults

LEMMA OnceBegin ==
  ASSUME Shape, Once, NEW f \in Sources, NEW d \in Dirs, NEW cold \in BOOLEAN, Begin(f, d, cold)
  PROVE  Once'
<1>1. UNCHANGED <<project, entries, store, stack>> /\ DOMAIN stack = {}
  BY DEF Shape, Phases, Begin
<1>2. OneResult'
  BY <1>1, SameHeld, SameEntries DEF Once
<1>3. SeededAsHeld'
  BY <1>1 DEF SeededAsHeld, Begin, Seen
<1>4. SeededFirst' /\ WalksOthers'
  BY <1>1 DEF SeededFirst, WalksOthers, Begin
<1> QED
  BY <1>2, <1>3, <1>4 DEF Once

LEMMA OnceSeeds ==
  ASSUME Shape, Once, NEW n \in ModuleNames, SeedEntry(n)
  PROVE  Once'
<1> DEFINE f == store[n]
           r == entries[<<n, f>>].result
           g == GlobalsBelow(<<n, f>>)
<1>1. /\ asked.phase = "seed" /\ n \in asked.toSeed /\ stack = <<>>
      /\ asked' = [asked EXCEPT !.toSeed = asked.toSeed \ {n}]
      /\ UNCHANGED <<project, store, stack>>
  BY DEF SeedEntry, Shape, Phases
<1>2. /\ asked'.phase = "seed" /\ asked'.dir = asked.dir /\ asked'.cold = asked.cold
      /\ asked'.toSeed = asked.toSeed \ {n} /\ DOMAIN stack' = {}
  BY <1>1 DEF Shape, Types, Askings
<1>3. f \in Sources /\ <<n, f>> \in Slots /\ entries[<<n, f>>] # Nil /\ r = ResultAt(n) /\ f # Nil
  BY <1>1, SeededIs, NilAssumption DEF ResultAt
<1>4. \A m \in ModuleNames : Found(m)' = Found(m) /\ Seen(m)' = Seen(m)
  BY <1>1, <1>2 DEF Found, Seen
<1>5. SeededFirst' /\ WalksOthers'
  BY <1>2 DEF SeededFirst, WalksOthers
<1>6. CASE Found(n) # f
  <2>1. UNCHANGED <<env, entries>>
    BY <1>6 DEF SeedEntry
  <2>2. OneResult' /\ \A m \in ModuleNames : ResultAt(m)' = ResultAt(m)
    BY <1>1, <2>1, SameHeld, SameEntries DEF Once, ResultAt
  <2>3. SeededAsHeld'
    BY <1>1, <1>2, <1>4, <1>6, <2>1, <2>2 DEF Once, SeededAsHeld, Seen
  <2> QED
    BY <1>5, <2>2, <2>3 DEF Once
<1>7. CASE Found(n) = f
  <2>1. /\ entries' = Remember(g.memo)
        /\ env' = [env EXCEPT !.loaded[f] = r, !.modules[n] = IF g.out = {} THEN r.walk ELSE @,
                              !.filenames[n] = IF g.out = {} THEN f ELSE @]
    BY <1>7 DEF SeedEntry
  <2>2. SameResults(entries')
    <3>1. g \in Scope
      BY <1>3, GlobalsBelowTyped DEF Shape, Types, Leads
    <3>2. g.memo \in Memos
      BY <3>1 DEF Scope
    <3> QED
      BY <2>1, <3>2, Remembers DEF Shape, Types
  <2>3. OneResult' /\ \A m \in ModuleNames : store[m] # Nil => ResultAt(m)' = ResultAt(m)
    BY <1>1, <2>2, SameHeld DEF Once
  <2>4. env'.loaded = [env.loaded EXCEPT ![f] = r]
    <3> HIDE DEF g, r, f
    <3> QED
      BY <2>1 DEF Shape, Types, Envs
  <2>5. \A h \in Sources : env'.loaded[h] = IF h = f THEN r ELSE env.loaded[h]
    BY <1>3, <2>4 DEF Shape, Types, Envs
  <2>6. ASSUME ~asked.cold, NEW m \in ModuleNames \ asked'.toSeed, Seen(m)
        PROVE  env'.loaded[store[m]] = ResultAt(m)'
    <3>1. store[m] \in Sources /\ store[m] # Nil /\ ResultAt(m)' = ResultAt(m)
      BY <2>3, <2>6, HeldIs DEF Seen
    <3>2. CASE store[m] = f
      <4>1. asked.dir \in Dirs
        BY <1>1 DEF Shape, Phases
      <4>2. project.find[asked.dir][n] = f /\ project.find[asked.dir][m] = f
        BY <1>7, <2>6, <3>2 DEF Seen, Found
      <4>3. ResultAt(m) = ResultAt(n)
        BY <1>3, <3>2, <4>1, <4>2 DEF Once, OneResult
      <4> QED
        BY <1>3, <2>5, <3>1, <3>2, <4>3
    <3>3. CASE store[m] # f
      <4>1. m \in ModuleNames \ asked.toSeed
        BY <1>2, <2>6, <3>3
      <4>2. env.loaded[store[m]] = ResultAt(m)
        BY <1>1, <2>6, <4>1 DEF Once, SeededAsHeld
      <4> QED
        BY <2>5, <3>1, <3>3, <4>2
    <3> QED
      BY <3>2, <3>3
  <2>7. SeededAsHeld'
    BY <1>1, <1>2, <1>4, <2>6 DEF SeededAsHeld
  <2> QED
    BY <1>5, <2>3, <2>7 DEF Once
<1> QED
  BY <1>6, <1>7

LEMMA OnceOpens == Shape /\ Once /\ OpenFile => Once'
<1> SUFFICES ASSUME Shape, Once, OpenFile PROVE Once'
  OBVIOUS
<1>1. /\ asked.phase = "seed" /\ asked' = [asked EXCEPT !.phase = "walk"] /\ asked.toSeed = {}
      /\ UNCHANGED <<project, entries, store, env>>
      /\ stack' = IF env.loaded[asked.file] = Nil THEN <<Frame(asked.file, Nil)>> ELSE <<>>
  BY DEF OpenFile
<1>2. /\ asked'.dir = asked.dir /\ asked'.cold = asked.cold /\ asked'.toSeed = {}
  BY <1>1 DEF Shape, Types, Askings
<1>3. \A m \in ModuleNames : Found(m)' = Found(m) /\ Seen(m)' = Seen(m) /\ ResultAt(m)' = ResultAt(m)
  BY <1>1, <1>2 DEF Found, Seen, ResultAt
<1>4. OneResult' /\ SeededAsHeld' /\ SeededFirst'
  BY <1>1, <1>2, <1>3, SameHeld, SameEntries DEF Once, SeededAsHeld, SeededFirst
<1>5. WalksOthers'
  <2> SUFFICES ASSUME ~asked.cold, NEW i \in DOMAIN stack', NEW n \in ModuleNames, Seen(n)
               PROVE  stack'[i].file # store[n]
    BY <1>1, <1>2, <1>3 DEF WalksOthers
  <2>1. stack'[i].file = asked.file /\ env.loaded[asked.file] = Nil
    BY <1>1 DEF Frame
  <2>2. env.loaded[store[n]] = ResultAt(n) /\ ResultAt(n) # Nil
    BY <1>1, HeldIs DEF Once, SeededAsHeld, Seen
  <2> QED
    BY <2>1, <2>2
<1> QED
  BY <1>4, <1>5 DEF Once

\* How a `require` leaves the stack's files, the results and the entries.
LEMMA RequireKeeps ==
  ASSUME Shape, Require
  PROVE  /\ SameResults(entries') /\ env'.loaded = env.loaded
         /\ \A i \in DOMAIN stack' : \/ i \in DOMAIN stack /\ stack'[i].file = stack[i].file
                                     \/ stack'[i].file \in Sources /\ env.loaded[stack'[i].file] = Nil
<1> DEFINE n == Head(Top.todo)
           f == Found(n)
<1>0. n = Head(Top.todo) /\ f = Found(n)
  OBVIOUS
<1> HIDE DEF n, f
<1>1. asked.phase = "walk" /\ stack # <<>> /\ Top.todo # <<>> /\ stack \in Seq(Frames)
  BY RequireIs DEF Shape, Types
<1>2. n \in ModuleNames /\ f \in Sources \cup {Nil}
  BY <1>0, <1>1, HeadIs, FoundTyped DEF Shape
<1>3. \A x \in Sources \cup {Nil} : SameBut(Answered(n, x), WithDep(n, x))
  BY <1>1, <1>2, AnsweredIs
<1>4. CASE AnswersKnown(n)
  <2> DEFINE s == Answered(n, env.filenames[n])
  <2>1. env.filenames[n] \in Sources \cup {Nil}
    BY <1>2 DEF Shape, Types, Envs
  <2>2. DOMAIN s = DOMAIN stack /\ \A i \in DOMAIN stack : s[i].file = stack[i].file
    BY <1>3, <2>1 DEF SameBut
  <2> QED
    BY <1>4, <2>2, SameEntries DEF AnswersKnown
<1>5. CASE AnswersNothing(n)
  <2>1. SameBut(NotFound(n), WithMissing(n))
    BY <1>1, <1>2, NotFoundIs
  <2> QED
    BY <1>5, <2>1, SameEntries DEF AnswersNothing, SameBut
<1>6. CASE AnswersServed(n)
  <2>1. f \in Sources
    BY <1>0, <1>2, <1>6 DEF AnswersServed
  <2>2. SameResults(Delivered(f).entries)
    BY <2>1, DeliveredIs
  <2> DEFINE s == Answered(n, f)
             gs == Delivered(f).globals
  <2>3. DOMAIN s = DOMAIN stack /\ \A i \in DOMAIN stack : s[i].file = stack[i].file
    BY <1>3, <2>1 DEF SameBut
  <2>4. /\ stack' = s /\ entries' = Delivered(f).entries
        /\ env' = [env EXCEPT !.globals = @ \cup gs, !.filenames[n] = f,
                              !.modules[n] = env.loaded[f].walk]
    BY <1>0, <1>6 DEF AnswersServed
  <2> HIDE DEF s, gs
  <2>5. env'.loaded = env.loaded
    BY <2>4 DEF Shape, Types, Envs
  <2> QED
    BY <2>2, <2>3, <2>4, <2>5
<1>7. CASE AnswersWalking(n)
  <2>1. f \in Sources /\ env.loaded[f] = Nil
    BY <1>0, <1>2, <1>7 DEF AnswersWalking
  <2> DEFINE s == Answered(n, f)
             t == Frame(f, n)
             l == Len(stack)
  <2>2. /\ s \in Seq(Frames) /\ Len(s) = l /\ DOMAIN s = DOMAIN stack
        /\ \A i \in DOMAIN stack : s[i].file = stack[i].file
    BY <1>3, <2>1 DEF SameBut
  <2>3. t \in Frames /\ t.file = f
    BY <1>2, <2>1, ProjectTyped DEF Frame, Frames, Shape, Types
  <2>4. /\ stack' = Append(s, t) /\ UNCHANGED entries
        /\ env' = [env EXCEPT !.modules[n] = Circular, !.filenames[n] = f]
    BY <1>0, <1>7 DEF AnswersWalking
  <2> HIDE DEF s, t
  <2>5. env'.loaded = env.loaded
    BY <2>4 DEF Shape, Types, Envs
  <2>6. \A i \in DOMAIN stack' : (i \in DOMAIN stack /\ stack'[i] = s[i]) \/ stack'[i] = t
    BY <2>2, <2>3, <2>4
  <2> QED
    BY <2>1, <2>2, <2>3, <2>4, <2>5, <2>6, SameEntries
<1> QED
  BY <1>0, <1>4, <1>5, <1>6, <1>7, RequireIs

LEMMA OnceRequires == Shape /\ Once /\ Require => Once'
<1> SUFFICES ASSUME Shape, Once, Require PROVE Once'
  OBVIOUS
<1>1. asked.phase = "walk" /\ UNCHANGED <<project, store, asked>>
  BY RequireIs
<1>2. SameResults(entries') /\ env'.loaded = env.loaded
  BY RequireKeeps
<1>3. OneResult' /\ \A m \in ModuleNames : store[m] # Nil => ResultAt(m)' = ResultAt(m)
  BY <1>1, <1>2, SameHeld DEF Once
<1>4. \A m \in ModuleNames : Seen(m)' = Seen(m)
  BY <1>1 DEF Found, Seen
<1>5. SeededAsHeld' /\ SeededFirst'
  BY <1>1, <1>2, <1>3, <1>4 DEF Once, SeededAsHeld, SeededFirst, Seen
<1>6. WalksOthers'
  <2> SUFFICES ASSUME ~asked.cold, NEW i \in DOMAIN stack', NEW n \in ModuleNames, Seen(n)
               PROVE  stack'[i].file # store[n]
    BY <1>1, <1>4 DEF WalksOthers
  <2>1. CASE i \in DOMAIN stack /\ stack'[i].file = stack[i].file
    BY <2>1 DEF Once, WalksOthers
  <2>2. CASE env.loaded[stack'[i].file] = Nil
    <3>1. env.loaded[store[n]] = ResultAt(n) /\ ResultAt(n) # Nil
      BY <1>1, HeldIs DEF Once, SeededAsHeld, SeededFirst, Seen
    <3> QED
      BY <2>2, <3>1
  <2> QED
    BY <2>1, <2>2, RequireKeeps
<1> QED
  BY <1>3, <1>5, <1>6 DEF Once

LEMMA OnceFinishes == Shape /\ Once /\ FinishFile => Once'
<1> SUFFICES ASSUME Shape, Once, FinishFile PROVE Once'
  OBVIOUS
<1>1. /\ asked.phase = "walk" /\ stack # <<>> /\ stack' = Front(stack)
      /\ UNCHANGED <<project, entries, store, asked>> /\ Top.file \in Sources
      /\ env'.loaded = [env.loaded EXCEPT ![Top.file] = Found_(Top.file)]
  BY FinishIs
<1>2. /\ \A i \in DOMAIN stack' : i \in DOMAIN stack /\ stack'[i] = stack[i]
      /\ Len(stack) \in DOMAIN stack /\ Top = stack[Len(stack)]
  BY <1>1, FrontIs DEF Shape, Types
<1>3. \A m \in ModuleNames : Found(m)' = Found(m) /\ Seen(m)' = Seen(m) /\ ResultAt(m)' = ResultAt(m)
  BY <1>1 DEF Found, Seen, ResultAt
<1>4. OneResult' /\ SeededFirst'
  BY <1>1, SameHeld, SameEntries DEF Once, SeededFirst
<1>5. WalksOthers'
  BY <1>1, <1>2, <1>3 DEF Once, WalksOthers
<1>6. SeededAsHeld'
  <2> SUFFICES ASSUME ~asked.cold, NEW n \in ModuleNames \ asked.toSeed, Seen(n)
               PROVE  env'.loaded[store[n]] = ResultAt(n)
    BY <1>1, <1>3 DEF SeededAsHeld
  <2>1. store[n] \in Sources /\ store[n] # Top.file
    BY <1>2, HeldIs DEF Once, WalksOthers, Seen
  <2>2. env'.loaded[store[n]] = env.loaded[store[n]]
    BY <1>1, <2>1 DEF Shape, Types, Envs
  <2> QED
    BY <1>1, <2>2 DEF Once, SeededAsHeld
<1> QED
  BY <1>4, <1>5, <1>6 DEF Once

\* What a check that ends says of a file the store has under a name it finds it by.
LEMMA EndsAsHeld ==
  ASSUME Shape, Once, asked.phase = "walk", ~asked.cold, NEW n \in ModuleNames, Seen(n)
  PROVE  env.loaded[store[n]] = ResultAt(n)
BY DEF Once, SeededAsHeld, SeededFirst

LEMMA OnceEnds == Shape /\ NamesTogether /\ Once /\ EndCheck => Once'
<1> SUFFICES ASSUME Shape, NamesTogether, Once, EndCheck PROVE Once'
  OBVIOUS
<1>0. PICK last : /\ Latest(last)
                  /\ store' = StoreFrom(last).names
                  /\ byFile' = StoreFrom(last).index
                  /\ entries' = StoreFrom(last).entries
  BY EndsIs
<1>1. /\ asked.phase = "walk" /\ asked' = NoCheck /\ DOMAIN stack' = {} /\ project' = project
  BY EndsIs
<1>2. SeededAsHeld' /\ SeededFirst' /\ WalksOthers'
  BY <1>1 DEF SeededAsHeld, SeededFirst, WalksOthers, NoCheck
<1>3. asked.dir \in Dirs
  BY <1>1 DEF Shape, Phases
\* One of the two was made in this check, the other was seeded.
<1>4. ASSUME NEW d \in Dirs, NEW n \in ModuleNames, NEW m \in ModuleNames, NEW f \in Sources,
             project.find[d][n] = f, project.find[d][m] = f,
             n \in Kept, env.filenames[n] = f, store[m] = f
      PROVE  entries[<<m, f>>].result = env.loaded[f]
  <2>1. f # Nil /\ ~asked.cold
    BY <1>4, NilAssumption DEF Kept
  <2>2. project.find[asked.dir][n] = f
    BY <1>4, <2>1 DEF Shape, Placed, Found
  <2>3. project.find[asked.dir][m] = f
    BY <1>3, <1>4, <2>1, <2>2 DEF NamesTogether
  <2>4. Seen(m)
    BY <1>4, <2>1, <2>3 DEF Seen, Found
  <2> QED
    BY <1>1, <1>4, <2>1, <2>4, EndsAsHeld DEF ResultAt
<1>5. OneResult'
  <2> SUFFICES ASSUME NEW d \in Dirs, NEW n \in ModuleNames, NEW m \in ModuleNames,
                      store'[n] # Nil, store'[m] = store'[n],
                      project.find[d][n] = store'[n], project.find[d][m] = store'[n]
               PROVE  entries'[<<m, store'[m]>>].result = entries'[<<n, store'[n]>>].result
    BY <1>1 DEF OneResult, ResultAt
  <2> DEFINE f == store'[n]
  <2>1. f \in Sources /\ f # Nil
    BY <1>0, StoreFromTyped
  <2>2. /\ StoreFrom(last).names[n] = f /\ StoreFrom(last).names[m] = f
        /\ project.find[d][n] = f /\ project.find[d][m] = f /\ store'[m] = f
    BY <1>0
  <2> HIDE DEF f
  <2>3. \/ n \in Kept /\ env.filenames[n] = f /\ entries'[<<n, f>>].result = env.loaded[f]
        \/ store[n] = f /\ entries'[<<n, f>>] = entries[<<n, f>>]
    BY <1>0, <2>1, <2>2, EndsAt
  <2>4. \/ m \in Kept /\ env.filenames[m] = f /\ entries'[<<m, f>>].result = env.loaded[f]
        \/ store[m] = f /\ entries'[<<m, f>>] = entries[<<m, f>>]
    BY <1>0, <2>1, <2>2, EndsAt
  <2>5. store[n] = f /\ store[m] = f => entries[<<m, f>>].result = entries[<<n, f>>].result
    BY <2>1, <2>2 DEF Once, OneResult, ResultAt
  <2>6. entries'[<<m, f>>].result = entries'[<<n, f>>].result
    BY <1>4, <2>1, <2>2, <2>3, <2>4, <2>5
  <2> QED
    BY <2>2, <2>6 DEF f
<1> QED
  BY <1>2, <1>5 DEF Once

LEMMA OnceSteps == Shape /\ NamesTogether /\ Once /\ [StoreNext]_storeVars => Once'
<1> SUFFICES ASSUME Shape, NamesTogether, Once, [StoreNext]_storeVars PROVE Once'
  OBVIOUS
<1>1. ASSUME NEW f \in Sources, NEW d \in Dirs, NEW cold \in BOOLEAN, Begin(f, d, cold) PROVE Once'
  BY <1>1, OnceBegin
<1>2. ASSUME NEW n \in ModuleNames, SeedEntry(n) PROVE Once'
  BY <1>2, OnceSeeds
<1>3. CASE UNCHANGED storeVars
  BY <1>3 DEF storeVars, Once, OneResult, SeededAsHeld, SeededFirst, WalksOthers, ResultAt, Seen, Found
<1> QED
  BY <1>1, <1>2, <1>3, OnceOpens, OnceRequires, OnceFinishes, OnceEnds DEF StoreNext

\* The project is the one the checks began with.
LEMMA ProjectStays == [StoreNext]_storeVars => project' = project
BY DEF StoreNext, storeVars, Begin, SeedEntry, OpenFile, Require, FinishFile, EndCheck

LEMMA TogetherStays == NamesTogether /\ [StoreNext]_storeVars => NamesTogether'
BY ProjectStays DEF NamesTogether

\* What a step does to the entry of a name that keeps its file.
LEMMA OnceHolds ==
  ASSUME Shape, Once, [StoreNext]_storeVars
  PROVE  \A n \in ModuleNames : store[n] # Nil /\ store'[n] = store[n] =>
           entries'[<<n, store[n]>>].result = entries[<<n, store[n]>>].result
<1> SUFFICES ASSUME NEW n \in ModuleNames, store[n] # Nil, store'[n] = store[n]
             PROVE  entries'[<<n, store[n]>>].result = entries[<<n, store[n]>>].result
  OBVIOUS
<1>1. store[n] \in Sources /\ <<n, store[n]>> \in Slots /\ entries[<<n, store[n]>>] # Nil
  BY HeldIs
<1>2. ASSUME SameResults(entries') PROVE entries'[<<n, store[n]>>].result = entries[<<n, store[n]>>].result
  BY <1>1, <1>2 DEF SameResults
<1>3. ASSUME NEW m \in ModuleNames, SeedEntry(m) PROVE SameResults(entries')
  <2> DEFINE s == <<m, store[m]>>
             g == GlobalsBelow(s)
  <2>1. s \in Slots /\ entries[s] # Nil
    BY <1>3, SeededIs DEF SeedEntry
  <2>2. g \in Scope
    BY <2>1, GlobalsBelowTyped DEF Shape, Types, Leads
  <2>3. g.memo \in Memos
    BY <2>2 DEF Scope
  <2>4. entries' = entries \/ entries' = Remember(g.memo)
    BY <1>3 DEF SeedEntry
  <2> HIDE DEF g
  <2> QED
    BY <2>3, <2>4, SameEntries, Remembers DEF Shape, Types
<1>4. CASE EndCheck
  <2>0. PICK last : /\ Latest(last)
                    /\ store' = StoreFrom(last).names
                    /\ entries' = StoreFrom(last).entries
    BY <1>4, EndsIs
  <2>1. asked.phase = "walk"
    BY <1>4, EndsIs
  <2>2. CASE n \in Kept /\ env.filenames[n] = store[n]
             /\ entries'[<<n, store[n]>>].result = env.loaded[store[n]]
    <3>1. ~asked.cold /\ Seen(n)
      BY <2>2 DEF Kept, Shape, Placed, Seen
    <3> QED
      BY <2>1, <2>2, <3>1, EndsAsHeld DEF ResultAt
  <2>3. CASE entries'[<<n, store[n]>>] = entries[<<n, store[n]>>]
    BY <2>3
  <2> QED
    BY <1>1, <2>0, <2>2, <2>3, EndsAt
<1>5. CASE UNCHANGED entries
  BY <1>5
<1>6. CASE Require
  BY <1>2, <1>6, RequireKeeps
<1> QED
  BY <1>2, <1>3, <1>4, <1>5, <1>6 DEF StoreNext, storeVars, Begin, OpenFile, FinishFile

\* However many checks run, and in whatever order, a module found where it was keeps the one
\* result its first walk made.
THEOREM OneInstanceHolds == StoreSpec /\ NamesTogether => OneInstance
<1>1. StoreInit => Shape /\ Once
  BY ShapeBegins, OnceBegins
<1>2. Shape /\ NamesTogether /\ Once /\ [StoreNext]_storeVars => (Shape /\ NamesTogether /\ Once)'
  BY ShapeSteps, TogetherStays, OnceSteps
<1>3. Shape /\ Once /\ [StoreNext]_storeVars =>
        [\A n \in ModuleNames : store[n] # Nil /\ store'[n] = store[n] =>
           entries'[<<n, store[n]>>].result = entries[<<n, store[n]>>].result]_storeVars
  BY OnceHolds
<1> QED
  BY <1>1, <1>2, <1>3, PTL DEF StoreSpec, OneInstance

-----------------------------------------------------------------------------
(* Nothing a check stands on is missing from its closure.                   *)

FoundIn(f, d) == \E n \in ModuleNames : project.find[d][n] = f

\* A file that two directories find requires the same files from both.
DirsAgree ==
  \A d, e \in Dirs : \A f \in Sources : FoundIn(f, d) /\ FoundIn(f, e) =>
    \A n \in Range(project.reqs[f]) : project.find[d][n] = project.find[e][n]

\* No file requires itself, directly or through others: a rank falls along the requires.
Falls(rank) ==
  \A d \in Dirs : \A f \in Sources : FoundIn(f, d) =>
    \A n \in Range(project.reqs[f]) :
      project.find[d][n] # Nil => rank[project.find[d][n]] < rank[f]
Loopless == \E rank \in [Sources -> Nat] : Falls(rank)

\* What a directory makes of what a file requires.
DepsIn(f, d) ==
  [n \in ModuleNames |-> IF n \in Range(project.reqs[f]) THEN project.find[d][n] ELSE Nil]
Rightly(r, f) == \A d \in Dirs : FoundIn(f, d) => r.deps = DepsIn(f, d)

\* The index has the file, or the check has a finished module of it to store.
Known(h) == byFile[h] # Nil \/ \E n \in Stored : env.filenames[n] = h

\* A result names what its file requires.
ResultsRight == \A s \in Slots : entries[s] # Nil => Rightly(entries[s].result, s[2])
LoadedRight ==
  \A f \in Sources : env.loaded[f] # Nil => FoundIn(f, asked.dir) /\ Rightly(env.loaded[f], f)
\* The index has every file a stored result names, and a check knows every file a result of
\* its environment names.
EntriesBelow ==
  \A s \in Slots : entries[s] # Nil => \A n \in ModuleNames :
    entries[s].result.deps[n] # Nil => byFile[entries[s].result.deps[n]] # Nil
NamesIndexed == \A n \in ModuleNames : store[n] # Nil => byFile[store[n]] # Nil
LoadedBelow ==
  \A f \in Sources : env.loaded[f] # Nil => \A n \in ModuleNames :
    env.loaded[f].deps[n] # Nil => Known(env.loaded[f].deps[n])
\* A module that stands in the environment, and is not being walked, is one of these.
ModulesKnown ==
  \A n \in ModuleNames : env.modules[n] # Nil /\ env.modules[n] # Circular =>
    env.loaded[env.filenames[n]] # Nil /\ Known(env.filenames[n])
\* No file is walked twice at once.
Unwalked == \A i \in DOMAIN stack : env.loaded[stack[i].file] = Nil
Sinks(rank) ==
  \A i, j \in DOMAIN stack : i < j => rank[stack[j].file] < rank[stack[i].file]
Descends == \E rank \in [Sources -> Nat] : Falls(rank) /\ Sinks(rank)
\* What a walk has noted so far of what its file requires.
DepsRight(i) ==
  \A n \in ModuleNames : stack[i].deps[n] # Nil =>
    /\ n \in Range(project.reqs[stack[i].file]) /\ stack[i].deps[n] = Found(n)
    /\ Known(stack[i].deps[n]) \/ (i < Len(stack) /\ stack[i + 1].name = n)
FrameRight(i) ==
  /\ FoundIn(stack[i].file, asked.dir)
  /\ Range(stack[i].todo) \subseteq Range(project.reqs[stack[i].file])
  /\ \A n \in Range(project.reqs[stack[i].file]) :
       n \in Range(stack[i].todo) \/ stack[i].deps[n] = Found(n)
  /\ DepsRight(i)
FramesRight == \A i \in DOMAIN stack : FrameRight(i)
RootWalked == asked.phase = "walk" => env.loaded[asked.file] # Nil \/ stack # <<>>

StoreRight == ResultsRight /\ EntriesBelow /\ NamesIndexed
EnvRight == LoadedRight /\ LoadedBelow /\ ModulesKnown
WalkRight == Unwalked /\ Descends /\ FramesRight /\ RootWalked
Whole == DirsAgree /\ StoreRight /\ EnvRight /\ WalkRight

LEMMA RequiresTyped ==
  ASSUME Shape, NEW f \in Sources
  PROVE  project.reqs[f] \in Seq(ModuleNames) /\ Range(project.reqs[f]) \subseteq ModuleNames
BY ProjectTyped DEF Shape, Types, Range

LEMMA DirsStay ==
  ASSUME project' = project, DirsAgree
  PROVE  DirsAgree'
BY DEF DirsAgree, FoundIn

LEMMA RankStays ==
  ASSUME project' = project, NEW rank, Falls(rank)
  PROVE  Falls(rank)'
BY DEF Falls, FoundIn

\* An empty stack is right.
LEMMA NoWalk ==
  ASSUME Descends, project' = project, stack' = <<>>, asked'.phase # "walk"
  PROVE  WalkRight'
<1>1. PICK rank \in [Sources -> Nat] : Falls(rank)
  BY DEF Descends
<1>2. DOMAIN stack' = {}
  OBVIOUS
<1>3. Falls(rank)' /\ Sinks(rank)'
  BY <1>1, <1>2, RankStays DEF Sinks
<1>4. Descends'
  BY <1>3 DEF Descends
<1> QED
  BY <1>2, <1>4 DEF WalkRight, Unwalked, FramesRight, RootWalked

LEMMA NewEnvRight ==
  ASSUME env' = NewEnv
  PROVE  EnvRight'
<1>1. /\ \A f \in Sources : env'.loaded[f] = Nil
      /\ \A n \in ModuleNames : env'.modules[n] = Nil
  BY DEF NewEnv
<1> QED
  BY <1>1 DEF EnvRight, LoadedRight, LoadedBelow, ModulesKnown

LEMMA WholeBegins == StoreInit /\ DirsAgree /\ Loopless => Whole /\ WholeClosure
<1> SUFFICES ASSUME StoreInit, DirsAgree, Loopless PROVE Whole /\ WholeClosure
  OBVIOUS
<1>1. StoreRight
  BY DEF StoreInit, StoreRight, ResultsRight, EntriesBelow, NamesIndexed
<1>2. EnvRight
  BY DEF StoreInit, NewEnv, EnvRight, LoadedRight, LoadedBelow, ModulesKnown
<1>3. WalkRight
  <2>1. DOMAIN stack = {} /\ asked.phase = "idle"
    BY DEF StoreInit, NoCheck
  <2>2. PICK rank \in [Sources -> Nat] : Falls(rank)
    BY DEF Loopless
  <2>3. Sinks(rank)
    BY <2>1 DEF Sinks
  <2> QED
    BY <2>1, <2>2, <2>3 DEF WalkRight, Unwalked, Descends, FramesRight, RootWalked
<1>4. WholeClosure
  BY DEF StoreInit, WholeClosure
<1> QED
  BY <1>1, <1>2, <1>3, <1>4 DEF Whole

\* Entries that remember more name the same files.
LEMMA SameStoreRight ==
  ASSUME Shape, StoreRight, SameResults(entries'), UNCHANGED <<project, store, byFile>>
  PROVE  StoreRight'
<1>1. \A s \in Slots : entries'[s] # Nil => entries[s] # Nil /\ entries'[s].result = entries[s].result
  BY DEF SameResults
<1>2. ResultsRight'
  BY <1>1 DEF StoreRight, ResultsRight, Rightly, FoundIn, DepsIn
<1>3. EntriesBelow' /\ NamesIndexed'
  BY <1>1 DEF StoreRight, EntriesBelow, NamesIndexed
<1> QED
  BY <1>2, <1>3 DEF StoreRight

LEMMA WholeBegin ==
  ASSUME Shape, Whole, NEW f \in Sources, NEW d \in Dirs, NEW cold \in BOOLEAN, Begin(f, d, cold)
  PROVE  Whole'
<1>1. /\ UNCHANGED <<project, entries, store, byFile>> /\ stack' = <<>> /\ env' = NewEnv
      /\ asked'.phase = "seed"
  BY DEF Shape, Phases, Begin
<1>2. StoreRight'
  BY <1>1, SameStoreRight, SameEntries DEF Whole
<1>3. WalkRight'
  BY <1>1, NoWalk DEF Whole, WalkRight
<1> QED
  BY <1>1, <1>2, <1>3, NewEnvRight, DirsStay DEF Whole

\* The environment's part, while what is known stays known and no result changes.
LEMMA SameLoaded ==
  ASSUME Shape, LoadedRight, LoadedBelow, project' = project, asked'.dir = asked.dir,
         env'.loaded = env.loaded, \A h \in Sources : Known(h) => Known(h)'
  PROVE  LoadedRight' /\ LoadedBelow'
<1>1. LoadedRight'
  BY DEF LoadedRight, Rightly, FoundIn, DepsIn
<1>2. ASSUME NEW f \in Sources, env.loaded[f] # Nil, NEW n \in ModuleNames, env.loaded[f].deps[n] # Nil
      PROVE  env.loaded[f].deps[n] \in Sources
  <2>1. env.loaded[f] \in Result
    BY <1>2 DEF Shape, Types, Envs
  <2> QED
    BY <1>2, <2>1 DEF Result
<1>3. LoadedBelow'
  <2> SUFFICES ASSUME NEW f \in Sources, env.loaded[f] # Nil, NEW n \in ModuleNames,
                      NEW h, h = env.loaded[f].deps[n], h # Nil
               PROVE  Known(h)'
    BY DEF LoadedBelow, Known, Stored
  <2> QED
    BY <1>2 DEF LoadedBelow
<1> QED
  BY <1>1, <1>3

LEMMA WholeSeeds ==
  ASSUME Shape, Whole, NEW n \in ModuleNames, SeedEntry(n)
  PROVE  Whole'
<1> DEFINE f == store[n]
           r == entries[<<n, f>>].result
           g == GlobalsBelow(<<n, f>>)
<1>1. /\ asked.phase = "seed" /\ n \in asked.toSeed /\ stack = <<>> /\ stack' = <<>>
      /\ asked' = [asked EXCEPT !.toSeed = asked.toSeed \ {n}]
      /\ UNCHANGED <<project, store, byFile>>
  BY DEF SeedEntry, Shape, Phases
<1>2. asked'.phase = "seed" /\ asked'.dir = asked.dir /\ asked.dir \in Dirs
  BY <1>1 DEF Shape, Types, Askings, Phases
<1>3. /\ f \in Sources /\ <<n, f>> \in Slots /\ entries[<<n, f>>] # Nil /\ f # Nil
      /\ r \in Result /\ r # Nil
  BY <1>1, SeededIs, NilAssumption
<1>4. WalkRight' /\ DirsAgree'
  BY <1>1, <1>2, NoWalk, DirsStay DEF Whole, WalkRight
<1>5. CASE Found(n) # f
  <2>1. UNCHANGED <<env, entries>>
    BY <1>5 DEF SeedEntry
  <2>2. StoreRight'
    BY <1>1, <2>1, SameStoreRight, SameEntries DEF Whole
  <2>3. \A h \in Sources : Known(h) => Known(h)'
    BY <1>1, <2>1 DEF Known, Stored
  <2>4. ModulesKnown'
    BY <1>1, <2>1 DEF Whole, EnvRight, ModulesKnown, Known, Stored
  <2> QED
    BY <1>1, <1>2, <1>4, <2>1, <2>2, <2>3, <2>4, SameLoaded DEF Whole, EnvRight
<1>6. CASE Found(n) = f
  <2>1. /\ entries' = Remember(g.memo)
        /\ env' = [env EXCEPT !.loaded[f] = r, !.modules[n] = IF g.out = {} THEN r.walk ELSE @,
                              !.filenames[n] = IF g.out = {} THEN f ELSE @]
    BY <1>6 DEF SeedEntry
  <2>2. SameResults(entries')
    <3>1. g \in Scope
      BY <1>3, GlobalsBelowTyped DEF Shape, Types, Leads
    <3>2. g.memo \in Memos
      BY <3>1 DEF Scope
    <3> QED
      BY <2>1, <3>2, Remembers DEF Shape, Types
  <2>3. StoreRight'
    BY <1>1, <2>2, SameStoreRight DEF Whole
  <2>4. /\ env'.loaded = [env.loaded EXCEPT ![f] = r]
        /\ env'.modules = [env.modules EXCEPT ![n] = IF g.out = {} THEN r.walk ELSE @]
        /\ env'.filenames = [env.filenames EXCEPT ![n] = IF g.out = {} THEN f ELSE @]
    <3> HIDE DEF g, r, f
    <3> QED
      BY <2>1 DEF Shape, Types, Envs
  <2> HIDE DEF g
  <2>5. \A h \in Sources : env'.loaded[h] = IF h = f THEN r ELSE env.loaded[h]
    BY <1>3, <2>4 DEF Shape, Types, Envs
  <2>6. /\ \A m \in ModuleNames : m # n => /\ env'.modules[m] = env.modules[m]
                                           /\ env'.filenames[m] = env.filenames[m]
        /\ \/ env'.modules[n] = env.modules[n] /\ env'.filenames[n] = env.filenames[n]
           \/ env'.modules[n] = r.walk /\ env'.filenames[n] = f
    BY <2>4 DEF Shape, Types, Envs
  <2>7. byFile[f] # Nil /\ byFile' = byFile
    BY <1>1, <1>3 DEF Whole, StoreRight, NamesIndexed
  <2> HIDE DEF f, r
  <2>8. ASSUME NEW h \in Sources, Known(h) PROVE Known(h)'
    <3>1. CASE byFile[h] # Nil
      BY <2>7, <3>1 DEF Known
    <3>2. ASSUME NEW m \in Stored, env.filenames[m] = h, h # f PROVE Known(h)'
      <4>1. m # n /\ m \in ModuleNames
        BY <1>6, <3>2 DEF Stored, Shape, Placed
      <4>2. m \in Stored'
        BY <2>5, <2>6, <3>2, <4>1 DEF Stored
      <4> QED
        BY <2>6, <3>2, <4>1, <4>2 DEF Known
    <3> QED
      BY <2>7, <2>8, <3>1, <3>2 DEF Known
  <2>9. FoundIn(f, asked.dir) /\ Rightly(r, f)
    <3>1. FoundIn(f, asked.dir)
      BY <1>6 DEF FoundIn, Found
    <3>2. Rightly(entries[<<n, f>>].result, <<n, f>>[2])
      BY <1>3 DEF Whole, StoreRight, ResultsRight
    <3> QED
      BY <3>1, <3>2 DEF r
  <2>10. LoadedRight'
    <3> SUFFICES ASSUME NEW h \in Sources, env'.loaded[h] # Nil
                 PROVE  FoundIn(h, asked.dir) /\ Rightly(env'.loaded[h], h)
      BY <1>1, <1>2 DEF LoadedRight, FoundIn, Rightly, DepsIn
    <3>1. CASE h = f
      BY <2>5, <2>9, <3>1
    <3>2. CASE h # f
      BY <2>5, <3>2 DEF Whole, EnvRight, LoadedRight
    <3> QED
      BY <3>1, <3>2
  <2>11. LoadedBelow'
    <3> SUFFICES ASSUME NEW h \in Sources, env'.loaded[h] # Nil, NEW m \in ModuleNames,
                        NEW x, x = env'.loaded[h].deps[m], x # Nil
                 PROVE  Known(x)'
      BY DEF LoadedBelow, Known, Stored
    <3>1. CASE h = f
      <4>1. byFile[x] # Nil
        BY <1>3, <2>5, <3>1 DEF Whole, StoreRight, EntriesBelow, r
      <4> QED
        BY <2>7, <4>1 DEF Known
    <3>2. CASE h # f
      <4>1. env.loaded[h] \in Result /\ x = env.loaded[h].deps[m]
        BY <2>5, <3>2 DEF Shape, Types, Envs
      <4>2. x \in Sources /\ Known(x)
        BY <2>5, <3>2, <4>1 DEF Result, Whole, EnvRight, LoadedBelow
      <4> QED
        BY <2>8, <4>2
    <3> QED
      BY <3>1, <3>2
  <2>12. ModulesKnown'
    <3> SUFFICES ASSUME NEW m \in ModuleNames, env'.modules[m] # Nil, env'.modules[m] # Circular,
                        NEW h, h = env'.filenames[m]
                 PROVE  env'.loaded[h] # Nil /\ Known(h)'
      BY DEF ModulesKnown, Known, Stored
    <3>1. CASE h = f
      BY <1>3, <2>5, <2>7, <3>1 DEF Known
    <3>2. CASE h # f
      <4>1. env'.modules[m] = env.modules[m] /\ h = env.filenames[m]
        BY <2>6, <3>2
      <4>2. h \in Sources
        BY <4>1, NothingIs DEF Shape, Types, Envs, Placed
      <4>3. env.loaded[h] # Nil /\ Known(h)
        BY <4>1 DEF Whole, EnvRight, ModulesKnown
      <4> QED
        BY <2>5, <2>8, <3>2, <4>2, <4>3
    <3> QED
      BY <3>1, <3>2
  <2> QED
    BY <1>4, <2>3, <2>10, <2>11, <2>12 DEF Whole, EnvRight
<1> QED
  BY <1>5, <1>6

LEMMA WholeOpens == Shape /\ Whole /\ OpenFile => Whole'
<1> SUFFICES ASSUME Shape, Whole, OpenFile PROVE Whole'
  OBVIOUS
<1> DEFINE f == asked.file
           t == Frame(f, Nil)
<1>1. /\ asked.phase = "seed" /\ asked' = [asked EXCEPT !.phase = "walk"]
      /\ UNCHANGED <<project, entries, store, byFile, env>>
      /\ stack' = IF env.loaded[f] = Nil THEN <<t>> ELSE <<>>
  BY DEF OpenFile
<1>2. /\ asked'.dir = asked.dir /\ asked'.file = f /\ f \in Sources /\ asked.dir \in Dirs
      /\ FoundIn(f, asked.dir)
  BY <1>1 DEF Shape, Types, Askings, Phases, FoundIn, Found
<1>3. t.file = f /\ t.todo = project.reqs[f] /\ \A n \in ModuleNames : t.deps[n] = Nil
  BY DEF Frame
<1> HIDE DEF t, f
<1>4. StoreRight'
  BY <1>1, SameStoreRight, SameEntries DEF Whole
<1>5. EnvRight'
  <2>1. \A h \in Sources : Known(h) => Known(h)'
    BY <1>1 DEF Known, Stored
  <2>2. ModulesKnown'
    BY <1>1 DEF Whole, EnvRight, ModulesKnown, Known, Stored
  <2> QED
    BY <1>1, <1>2, <2>1, <2>2, SameLoaded DEF Whole, EnvRight
<1>6. \A i \in DOMAIN stack' : i = 1 /\ stack'[i] = t /\ env.loaded[f] = Nil
  BY <1>1
<1>7. Unwalked' /\ RootWalked'
  BY <1>1, <1>2, <1>3, <1>6 DEF Unwalked, RootWalked
<1>8. Descends'
  <2>1. PICK rank \in [Sources -> Nat] : Falls(rank)
    BY DEF Whole, WalkRight, Descends
  <2>2. Sinks(rank)'
    BY <1>6 DEF Sinks
  <2> QED
    BY <1>1, <2>1, <2>2, RankStays DEF Descends
<1>9. FramesRight'
  <2> SUFFICES ASSUME NEW i \in DOMAIN stack' PROVE FrameRight(i)'
    BY DEF FramesRight
  <2>1. stack'[i].file = f /\ stack'[i].todo = project.reqs[f]
        /\ \A n \in ModuleNames : stack'[i].deps[n] = Nil
    BY <1>3, <1>6
  <2>2. \E m \in ModuleNames : project'.find[asked'.dir][m] = f
    BY <1>1, <1>2 DEF FoundIn
  <2> QED
    BY <1>1, <1>2, <2>1, <2>2 DEF FrameRight, DepsRight, FoundIn
<1> QED
  BY <1>1, <1>4, <1>5, <1>7, <1>8, <1>9, DirsStay DEF Whole, WalkRight

LEMMA TodoIs ==
  ASSUME NEW s \in Seq(ModuleNames), s # <<>>
  PROVE  Range(s) = {Head(s)} \cup Range(Tail(s))
<1>1. \A i \in DOMAIN s : i = 1 \/ (i - 1 \in DOMAIN Tail(s) /\ Tail(s)[i - 1] = s[i])
  OBVIOUS
<1>2. \A i \in DOMAIN Tail(s) : i + 1 \in DOMAIN s /\ Tail(s)[i] = s[i + 1]
  OBVIOUS
<1>3. 1 \in DOMAIN s /\ Head(s) = s[1]
  OBVIOUS
<1>4. Range(s) \subseteq {Head(s)} \cup Range(Tail(s))
  BY <1>1, <1>3 DEF Range
<1>5. {Head(s)} \cup Range(Tail(s)) \subseteq Range(s)
  BY <1>2, <1>3 DEF Range
<1> QED
  BY <1>4, <1>5

\* What the file walked requires next is found at a file below it, which is not being walked.
LEMMA NextIs ==
  ASSUME Shape, Whole, asked.phase = "walk", stack # <<>>, Top.todo # <<>>,
         NEW n, n = Head(Top.todo)
  PROVE  /\ n \in ModuleNames /\ n \in Range(project.reqs[Top.file])
         /\ Range(Top.todo) = {n} \cup Range(Tail(Top.todo))
         /\ Found(n) \in Sources \cup {Nil}
         /\ \A rank \in [Sources -> Nat] : Falls(rank) /\ Sinks(rank) /\ Found(n) # Nil =>
              \A i \in DOMAIN stack : rank[Found(n)] < rank[stack[i].file]
         /\ env.modules[n] # Circular
<1> DEFINE l == Len(stack)
<1>1. l \in Nat \ {0} /\ l \in DOMAIN stack /\ Top = stack[l] /\ Top \in Frames
  BY FrontIs DEF Shape, Types
<1>2. n \in ModuleNames /\ Top.todo \in Seq(ModuleNames) /\ Top.file \in Sources
  BY <1>1, HeadIs DEF Shape, Types, Frames
<1>3. Range(Top.todo) = {n} \cup Range(Tail(Top.todo))
  BY <1>2, TodoIs
<1>4. FrameRight(l)
  BY <1>1 DEF Whole, WalkRight, FramesRight
<1>5. n \in Range(project.reqs[Top.file]) /\ FoundIn(Top.file, asked.dir)
  BY <1>1, <1>3, <1>4 DEF FrameRight
<1>6. Found(n) \in Sources \cup {Nil} /\ asked.dir \in Dirs
  BY <1>2, FoundTyped DEF Shape, Phases
<1>7. ASSUME NEW rank \in [Sources -> Nat], Falls(rank), Sinks(rank), Found(n) # Nil,
             NEW i \in DOMAIN stack
      PROVE  rank[Found(n)] < rank[stack[i].file]
  <2>1. rank[Found(n)] < rank[Top.file]
    BY <1>2, <1>5, <1>6, <1>7 DEF Falls, Found
  <2>2. stack[i].file \in Sources /\ stack \in Seq(Frames) /\ i \in 1 .. l
    <3>1. stack \in Seq(Frames)
      BY DEF Shape, Types
    <3>2. stack[i] \in Frames /\ i \in 1 .. l
      BY <3>1
    <3> QED
      BY <3>1, <3>2 DEF Frames
  <2>3. i = l \/ i < l
    BY <1>1, <2>2
  <2>4. rank[Top.file] = rank[stack[i].file] \/ rank[Top.file] < rank[stack[i].file]
    BY <1>1, <1>7, <2>3 DEF Sinks
  <2>5. rank[Found(n)] \in Nat /\ rank[Top.file] \in Nat /\ rank[stack[i].file] \in Nat
    BY <1>2, <1>6, <1>7, <2>2
  <2> QED
    BY <2>1, <2>4, <2>5
<1>8. env.modules[n] # Circular
  <2> SUFFICES ASSUME env.modules[n] = Circular PROVE FALSE
    OBVIOUS
  <2>1. PICK i \in DOMAIN stack : stack[i].name = n
    BY <1>2 DEF Shape, Walked
  <2>2. n # Nil
    BY <1>2, NamesAssumption, NothingIs, FS_CardinalityType
  <2>3. stack[i].file = Found(n)
    BY <2>1, <2>2 DEF Shape, Walked
  <2>4. PICK rank \in [Sources -> Nat] : Falls(rank) /\ Sinks(rank)
    BY DEF Whole, WalkRight, Descends
  <2>5. stack[i].file \in Sources
    <3>1. stack \in Seq(Frames)
      BY DEF Shape, Types
    <3>2. stack[i] \in Frames
      BY <3>1
    <3> QED
      BY <3>2 DEF Frames
  <2>6. Found(n) # Nil /\ rank[Found(n)] \in Nat
    BY <2>3, <2>5, NilAssumption
  <2>7. rank[Found(n)] < rank[Found(n)]
    BY <1>7, <2>3, <2>4, <2>6
  <2> QED
    BY <2>6, <2>7
<1> QED
  BY <1>2, <1>3, <1>5, <1>6, <1>7, <1>8

\* A frame deeper in the stack stays right.
LEMMA FrameStays ==
  ASSUME Shape, NEW i \in DOMAIN stack, FrameRight(i), i < Len(stack),
         project' = project, asked' = asked, i < Len(stack'),
         stack'[i] = stack[i], stack'[i + 1].name = stack[i + 1].name,
         \A h \in Sources : Known(h) => Known(h)'
  PROVE  FrameRight(i)'
<1>1. stack[i] \in Frames
  BY DEF Shape, Types
<1>2. stack[i].deps \in [ModuleNames -> Sources \cup {Nil}]
  BY <1>1 DEF Frames
<1>3. \A m \in ModuleNames : stack[i].deps[m] # Nil => stack[i].deps[m] \in Sources
  BY <1>2
<1>4. ASSUME NEW m \in ModuleNames, NEW h, h = stack[i].deps[m], h # Nil
      PROVE  /\ m \in Range(project.reqs[stack[i].file]) /\ h = Found(m)
             /\ Known(h)' \/ stack[i + 1].name = m
  BY <1>3, <1>4 DEF FrameRight, DepsRight
<1>5. ASSUME NEW m \in ModuleNames, NEW h, h = stack'[i].deps[m], h # Nil
      PROVE  /\ m \in Range(project'.reqs[stack'[i].file]) /\ h = Found(m)'
             /\ Known(h)' \/ (i < Len(stack') /\ stack'[i + 1].name = m)
  BY <1>4, <1>5 DEF Found
<1>6. DepsRight(i)'
  BY <1>5 DEF DepsRight, Known, Stored
<1> QED
  BY <1>6 DEF FrameRight, FoundIn, Found

LEMMA WholeAnswers ==
  ASSUME Shape, Whole, asked.phase = "walk", stack # <<>>, Top.todo # <<>>,
         UNCHANGED <<project, asked>>,
         NEW l, l = Len(stack), NEW n, n = Head(Top.todo), NEW f, f = Found(n),
         NEW s, NEW t, SameBut(s, t),
         t.file = Top.file, t.todo = Tail(Top.todo), t.deps[n] = f,
         \A m \in ModuleNames : m # n => t.deps[m] = Top.deps[m],
         \A h \in Sources : Known(h) => Known(h)', env'.loaded = env.loaded,
         \/ stack' = s /\ (f # Nil => Known(f)')
         \/ stack' = Append(s, Frame(f, n)) /\ f # Nil /\ env.loaded[f] = Nil
  PROVE  WalkRight'
<1> DEFINE u == Frame(f, n)
           walking == stack' = Append(s, u) /\ f # Nil /\ env.loaded[f] = Nil
<1>1. /\ l \in Nat \ {0} /\ l \in DOMAIN stack /\ Top = stack[l] /\ Top \in Frames
      /\ stack \in Seq(Frames) /\ DOMAIN stack = 1 .. l
  BY FrontIs DEF Shape, Types
<1>2. /\ n \in ModuleNames /\ n \in Range(project.reqs[Top.file])
      /\ Range(Top.todo) = {n} \cup Range(Tail(Top.todo)) /\ f \in Sources \cup {Nil}
  BY NextIs
<1>3. /\ s \in Seq(Frames) /\ Len(s) = l /\ DOMAIN s = DOMAIN stack /\ s[l] = t
      /\ \A i \in DOMAIN stack : s[i].name = stack[i].name /\ s[i].file = stack[i].file
      /\ \A i \in DOMAIN stack : i # l => s[i] = stack[i]
  BY DEF SameBut
<1>4. u.file = f /\ u.todo = project.reqs[f] /\ u.name = n /\ \A m \in ModuleNames : u.deps[m] = Nil
  BY DEF Frame
<1>5. walking => f \in Sources /\ env.loaded[f] = Nil /\ stack' = Append(s, u) /\ u \in Frames
  <2>1. f \in Sources => u \in Frames
    BY <1>2, ProjectTyped DEF Frame, Frames, Shape, Types
  <2> QED
    BY <1>2, <2>1
<1>5a. ~walking => stack' = s /\ (f # Nil => Known(f)')
  OBVIOUS
<1>6. /\ \A i \in DOMAIN stack : i \in DOMAIN stack' /\ stack'[i] = s[i]
      /\ \A i \in DOMAIN stack' : i \in DOMAIN stack \/ (walking /\ i = l + 1 /\ stack'[i] = u)
      /\ Len(stack') \in Nat /\ Len(stack') >= l
      /\ walking => Len(stack') = l + 1 /\ stack'[l + 1] = u
  <2> HIDE DEF u, walking
  <2>1. CASE ~walking
    <3>1. stack' = s
      BY <1>5a, <2>1
    <3> QED
      BY <1>1, <1>3, <2>1, <3>1
  <2>2. CASE walking
    BY <1>1, <1>3, <1>5, <2>2
  <2> QED
    BY <2>1, <2>2
<1> HIDE DEF walking, u
<1>7. Unwalked'
  <2> SUFFICES ASSUME NEW i \in DOMAIN stack' PROVE env'.loaded[stack'[i].file] = Nil
    BY DEF Unwalked
  <2>1. CASE i \in DOMAIN stack
    BY <1>3, <1>6, <2>1 DEF Whole, WalkRight, Unwalked
  <2>2. CASE walking /\ stack'[i] = u
    BY <1>4, <1>5, <2>2
  <2> QED
    BY <1>6, <2>1, <2>2
<1>8. Descends'
  <2>1. PICK rank \in [Sources -> Nat] : Falls(rank) /\ Sinks(rank)
    BY DEF Whole, WalkRight, Descends
  <2>2. walking => \A i \in DOMAIN stack : rank[f] < rank[stack[i].file]
    BY <1>5, <2>1, NextIs, NilAssumption
  <2>3. ASSUME NEW i \in DOMAIN stack', NEW j \in DOMAIN stack', i < j
        PROVE  rank[stack'[j].file] < rank[stack'[i].file]
    <3>1. CASE j \in DOMAIN stack
      <4>1. i \in DOMAIN stack
        BY <1>1, <1>6, <2>3, <3>1
      <4> QED
        BY <1>3, <1>6, <2>1, <2>3, <3>1, <4>1 DEF Sinks
    <3>2. CASE walking /\ j = l + 1 /\ stack'[j] = u
      <4>1. i \in DOMAIN stack
        BY <1>1, <1>6, <2>3, <3>2
      <4> QED
        BY <1>3, <1>4, <1>6, <2>2, <3>2, <4>1
    <3> QED
      BY <1>6, <3>1, <3>2
  <2>4. Falls(rank)' /\ Sinks(rank)'
    BY <2>1, <2>3, RankStays DEF Sinks
  <2> QED
    BY <2>4 DEF Descends
<1>9. FramesRight'
  <2> SUFFICES ASSUME NEW i \in DOMAIN stack' PROVE FrameRight(i)'
    BY DEF FramesRight
  <2>1. CASE i \in DOMAIN stack /\ i # l
    <3>1. i < l /\ i + 1 \in DOMAIN stack
      BY <1>1, <2>1
    <3>2. i < Len(stack')
      BY <1>1, <1>6, <3>1
    <3>3. stack'[i] = stack[i] /\ stack'[i + 1].name = stack[i + 1].name
      BY <1>3, <1>6, <2>1, <3>1
    <3>4. FrameRight(i)
      BY <2>1 DEF Whole, WalkRight, FramesRight
    <3> QED
      BY <2>1, <3>1, <3>2, <3>3, <3>4, FrameStays
  <2>2. CASE i = l
    <3> DEFINE R == Range(project.reqs[Top.file])
    <3>1. stack'[l] = t /\ FrameRight(l) /\ l \in DOMAIN stack
      BY <1>1, <1>3, <1>6 DEF Whole, WalkRight, FramesRight
    <3>2. FoundIn(Top.file, asked.dir) /\ Range(Top.todo) \subseteq R
      BY <1>1, <3>1 DEF FrameRight
    <3>3. \A m \in R : m \in Range(t.todo) \/ t.deps[m] = Found(m)
      <4>1. R \subseteq ModuleNames
        BY <1>1, RequiresTyped DEF Frames
      <4>2. \A m \in R : m \in Range(Top.todo) \/ Top.deps[m] = Found(m)
        BY <1>1, <3>1 DEF FrameRight
      <4> QED
        BY <1>2, <4>1, <4>2
    <3>4. ASSUME NEW m \in ModuleNames, NEW h, h = t.deps[m], h # Nil
          PROVE  /\ m \in R /\ h = Found(m)
                 /\ Known(h)' \/ (l < Len(stack') /\ stack'[l + 1].name = m)
      <4>1. CASE m = n
        <5>1. h = f
          BY <3>4, <4>1
        <5>2. CASE walking
          BY <1>1, <1>2, <1>4, <1>6, <4>1, <5>1, <5>2
        <5>3. CASE ~walking
          BY <1>2, <1>5a, <3>4, <4>1, <5>1, <5>3
        <5> QED
          BY <5>2, <5>3
      <4>2. CASE m # n
        <5>1. h = stack[l].deps[m]
          BY <1>1, <3>4, <4>2
        <5>2. h \in Sources
          BY <1>1, <3>4, <5>1 DEF Frames
        <5>3. m \in R /\ h = Found(m) /\ Known(h)
          BY <1>1, <3>1, <3>4, <5>1 DEF FrameRight, DepsRight
        <5> QED
          BY <5>2, <5>3
      <4> QED
        BY <4>1, <4>2
    <3>5. \A m \in ModuleNames : Found(m)' = Found(m)
      BY DEF Found
    <3>6. DepsRight(l)'
      <4>1. ASSUME NEW m \in ModuleNames, NEW h, h = stack'[l].deps[m], h # Nil
            PROVE  /\ m \in Range(project'.reqs[stack'[l].file]) /\ h = Found(m)'
                   /\ Known(h)' \/ (l < Len(stack') /\ stack'[l + 1].name = m)
        BY <3>1, <3>4, <3>5, <4>1
      <4> QED
        BY <4>1 DEF DepsRight, Known, Stored
    <3>7. stack'[l].file = Top.file /\ stack'[l].todo = Tail(Top.todo)
          /\ \A m \in R : m \in Range(stack'[l].todo) \/ stack'[l].deps[m] = Found(m)
      BY <3>1, <3>3
    <3>8. Range(stack'[l].todo) \subseteq R
      BY <1>2, <3>2, <3>7
    <3>9. \E m \in ModuleNames : project'.find[asked'.dir][m] = stack'[l].file
      BY <3>2, <3>7 DEF FoundIn
    <3>10. \A m \in Range(project'.reqs[stack'[l].file]) :
             m \in Range(stack'[l].todo) \/ stack'[l].deps[m] = Found(m)'
      BY <3>7 DEF Found
    <3>11. Range(stack'[l].todo) \subseteq Range(project'.reqs[stack'[l].file])
      BY <3>7, <3>8
    <3> HIDE DEF R
    <3> QED
      BY <2>2, <3>6, <3>9, <3>10, <3>11 DEF FrameRight, FoundIn
  <2>3. CASE walking /\ stack'[i] = u
    <3>1. stack'[i].file = f /\ stack'[i].todo = project.reqs[f]
          /\ \A m \in ModuleNames : stack'[i].deps[m] = Nil
      BY <1>4, <2>3
    <3>2. \E m \in ModuleNames : project'.find[asked'.dir][m] = f
      BY <1>2 DEF Found
    <3>3. Range(project.reqs[f]) \subseteq Range(stack'[i].todo)
      BY <3>1
    <3> QED
      BY <3>1, <3>2, <3>3 DEF FrameRight, DepsRight, FoundIn
  <2> QED
    BY <1>6, <2>1, <2>2, <2>3
<1>10. RootWalked'
  <2>1. stack' # <<>>
    BY <1>1, <1>6
  <2> QED
    BY <2>1 DEF RootWalked
<1> QED
  BY <1>7, <1>8, <1>9, <1>10 DEF WalkRight

\* An answer notes the file of one name.
LEMMA WithDepIs ==
  ASSUME Top \in Frames, NEW n \in ModuleNames, NEW x
  PROVE  /\ WithDep(n, x).file = Top.file /\ WithDep(n, x).todo = Tail(Top.todo)
         /\ WithDep(n, x).deps[n] = x
         /\ \A m \in ModuleNames : m # n => WithDep(n, x).deps[m] = Top.deps[m]
<1>1. Top.deps \in [ModuleNames -> Sources \cup {Nil}]
  BY DEF Frames
<1> QED
  BY <1>1 DEF WithDep

\* While the modules that stand stay, what is known stays known.
LEMMA KnownStays ==
  ASSUME Shape, NEW n, env.modules[n] = Nil, byFile' = byFile, env'.loaded = env.loaded,
         \A m \in ModuleNames : m # n => /\ env'.modules[m] = env.modules[m]
                                         /\ env'.filenames[m] = env.filenames[m]
  PROVE  \A h \in Sources : Known(h) => Known(h)'
<1> SUFFICES ASSUME NEW h \in Sources, Known(h) PROVE Known(h)'
  OBVIOUS
<1>1. CASE byFile[h] # Nil
  BY <1>1 DEF Known
<1>2. ASSUME NEW m \in Stored, env.filenames[m] = h PROVE Known(h)'
  <2>1. m \in ModuleNames /\ env.modules[m] # Nil
    <3>1. env.loaded[env.filenames[m]] \in Result /\ env.loaded[env.filenames[m]].walk = env.modules[m]
      BY StoredIs
    <3>2. env.modules[m] \in Nat
      BY <3>1 DEF Result
    <3> QED
      BY <3>2, NothingIs DEF Stored
  <2>2. m # n
    BY <2>1
  <2>3. m \in Stored' /\ env'.filenames[m] = h
    BY <1>2, <2>1, <2>2 DEF Stored
  <2> QED
    BY <2>3 DEF Known
<1> QED
  BY <1>1, <1>2 DEF Known

LEMMA WholeRequires == Shape /\ Whole /\ Require => Whole'
<1> SUFFICES ASSUME Shape, Whole, Require, NEW n, n = Head(Top.todo), NEW f, f = Found(n),
                    NEW l, l = Len(stack)
             PROVE  Whole'
  OBVIOUS
<1>0. n = Head(Top.todo) /\ f = Found(n) /\ l = Len(stack)
  OBVIOUS
<1>1. /\ asked.phase = "walk" /\ stack # <<>> /\ Top.todo # <<>> /\ stack \in Seq(Frames)
      /\ UNCHANGED <<project, store, byFile, asked>>
  BY RequireIs DEF Shape, Types
<1>2. /\ n \in ModuleNames /\ f \in Sources \cup {Nil} /\ Top \in Frames
      /\ env.modules[n] # Circular
  BY <1>0, <1>1, NextIs, HeadIs
<1>3. SameResults(entries') /\ env'.loaded = env.loaded
  BY RequireKeeps
<1>4. StoreRight' /\ DirsAgree'
  BY <1>1, <1>3, SameStoreRight, DirsStay DEF Whole
<1>5. \A x \in Sources \cup {Nil} : SameBut(Answered(n, x), WithDep(n, x))
  BY <1>1, <1>2, AnsweredIs
\* The three parts every way of answering owes.
<1>6. ASSUME \A h \in Sources : Known(h) => Known(h)', ModulesKnown', WalkRight'
      PROVE  Whole'
  BY <1>1, <1>3, <1>4, <1>6, SameLoaded DEF Whole, EnvRight
<1>7. ASSUME \A h \in Sources : Known(h) => Known(h)', NEW x \in Sources \cup {Nil}, x = f,
             \/ stack' = Answered(n, x) /\ (f # Nil => Known(f)')
             \/ stack' = Append(Answered(n, x), Frame(f, n)) /\ f # Nil /\ env.loaded[f] = Nil
      PROVE  WalkRight'
  <2> DEFINE s == Answered(n, x)
             t == WithDep(n, x)
  <2>1. /\ t.file = Top.file /\ t.todo = Tail(Top.todo) /\ t.deps[n] = f
        /\ \A m \in ModuleNames : m # n => t.deps[m] = Top.deps[m]
    BY <1>2, <1>7, WithDepIs
  <2>2. SameBut(s, t)
    BY <1>5, <1>7
  <2>3. \/ stack' = s /\ (f # Nil => Known(f)')
        \/ stack' = Append(s, Frame(f, n)) /\ f # Nil /\ env.loaded[f] = Nil
    BY <1>7
  <2> HIDE DEF s, t
  <2>4. UNCHANGED <<project, asked>>
    BY <1>1
  <2> QED
    BY <1>0, <1>1, <1>3, <1>7, <2>1, <2>2, <2>3, <2>4, WholeAnswers
\* Where the environment does not change, neither does what is known.
<1>8. ASSUME env' = env PROVE (\A h \in Sources : Known(h) => Known(h)') /\ ModulesKnown'
  <2>1. \A h \in Sources : Known(h) => Known(h)'
    BY <1>1, <1>8 DEF Known, Stored
  <2>2. ModulesKnown'
    BY <1>1, <1>8 DEF Whole, EnvRight, ModulesKnown, Known, Stored
  <2> QED
    BY <2>1, <2>2
<1>9. CASE AnswersKnown(n)
  <2>1. env.modules[n] # Nil /\ env' = env /\ stack' = Answered(n, env.filenames[n])
    BY <1>9 DEF AnswersKnown
  <2>2. env.filenames[n] = f
    BY <1>0, <1>2, <2>1 DEF Shape, Placed
  <2>3. Known(f)
    BY <1>2, <2>1, <2>2 DEF Whole, EnvRight, ModulesKnown
  <2>4. (\A h \in Sources : Known(h) => Known(h)') /\ ModulesKnown'
    BY <1>8, <2>1
  <2>5. f # Nil => Known(f)'
    BY <1>2, <2>3, <2>4
  <2> QED
    BY <1>2, <1>6, <1>7, <2>1, <2>2, <2>4, <2>5
<1>10. CASE AnswersNothing(n)
  <2>1. f = Nil /\ env' = env /\ stack' = NotFound(n)
    BY <1>0, <1>10 DEF AnswersNothing
  <2>2. (\A h \in Sources : Known(h) => Known(h)') /\ ModulesKnown'
    BY <1>8, <2>1
  <2> DEFINE s == NotFound(n)
             t == WithMissing(n)
  <2>3. SameBut(s, t)
    BY <1>1, <1>2, NotFoundIs
  <2>4. t.file = Top.file /\ t.todo = Tail(Top.todo) /\ t.deps = Top.deps
    BY DEF WithMissing
  <2>5. Top.deps[n] = f
    <3>1. l \in DOMAIN stack /\ Top = stack[l]
      BY <1>0, <1>1, FrontIs
    <3>2. FrameRight(l)
      BY <3>1 DEF Whole, WalkRight, FramesRight
    <3> QED
      BY <1>0, <1>2, <2>1, <3>1, <3>2 DEF FrameRight, DepsRight
  <2>6. stack' = s /\ (f # Nil => Known(f)')
    BY <2>1
  <2> HIDE DEF s, t
  <2>7. WalkRight'
    BY <1>0, <1>1, <1>3, <2>2, <2>3, <2>4, <2>5, <2>6, WholeAnswers
  <2> QED
    BY <1>6, <2>2, <2>7
<1>11. CASE AnswersServed(n)
  <2>1. f \in Sources /\ env.loaded[f] # Nil /\ env.modules[n] = Nil /\ stack' = Answered(n, f)
    BY <1>0, <1>2, <1>11 DEF AnswersServed
  <2> DEFINE gs == Delivered(f).globals
  <2>2. env' = [env EXCEPT !.globals = @ \cup gs, !.filenames[n] = f,
                           !.modules[n] = env.loaded[f].walk]
    BY <1>0, <1>11 DEF AnswersServed
  <2> HIDE DEF gs
  <2>3. /\ env'.modules = [env.modules EXCEPT ![n] = env.loaded[f].walk]
        /\ env'.filenames = [env.filenames EXCEPT ![n] = f]
    BY <2>2 DEF Shape, Types, Envs
  <2>4. \A m \in ModuleNames :
           /\ env'.modules[m] = IF m = n THEN env.loaded[f].walk ELSE env.modules[m]
           /\ env'.filenames[m] = IF m = n THEN f ELSE env.filenames[m]
    BY <1>2, <2>3 DEF Shape, Types, Envs
  <2>5. \A h \in Sources : Known(h) => Known(h)'
    BY <1>1, <1>3, <2>1, <2>4, KnownStays
  <2>6. Known(f)'
    <3>1. n \in Stored' /\ env'.filenames[n] = f
      BY <1>2, <1>3, <2>1, <2>4, NilAssumption DEF Stored
    <3> QED
      BY <3>1 DEF Known
  <2>7. ModulesKnown'
    <3> SUFFICES ASSUME NEW m \in ModuleNames, env'.modules[m] # Nil, env'.modules[m] # Circular,
                        NEW h, h = env'.filenames[m]
                 PROVE  env.loaded[h] # Nil /\ Known(h)'
      BY <1>3 DEF ModulesKnown, Known, Stored
    <3>1. CASE m = n
      BY <2>1, <2>4, <2>6, <3>1
    <3>2. CASE m # n
      <4>1. h = env.filenames[m] /\ h # Nil /\ h \in Sources \cup {Nil}
        BY <2>4, <3>2 DEF Shape, Types, Envs, Placed
      <4>2. env.loaded[h] # Nil /\ Known(h)
        BY <2>4, <3>2, <4>1 DEF Whole, EnvRight, ModulesKnown
      <4> QED
        BY <2>5, <4>1, <4>2
    <3> QED
      BY <3>1, <3>2
  <2>8. WalkRight'
    BY <1>7, <2>1, <2>5, <2>6
  <2> QED
    BY <1>6, <2>5, <2>7, <2>8
<1>12. CASE AnswersWalking(n)
  <2>1. /\ f \in Sources /\ f # Nil /\ env.loaded[f] = Nil /\ env.modules[n] = Nil
        /\ stack' = Append(Answered(n, f), Frame(f, n))
        /\ env' = [env EXCEPT !.modules[n] = Circular, !.filenames[n] = f]
    BY <1>0, <1>2, <1>12 DEF AnswersWalking
  <2>2. \A m \in ModuleNames :
           /\ env'.modules[m] = IF m = n THEN Circular ELSE env.modules[m]
           /\ env'.filenames[m] = IF m = n THEN f ELSE env.filenames[m]
    <3>1. /\ env'.modules = [env.modules EXCEPT ![n] = Circular]
          /\ env'.filenames = [env.filenames EXCEPT ![n] = f]
      BY <2>1 DEF Shape, Types, Envs
    <3> QED
      BY <1>2, <3>1 DEF Shape, Types, Envs
  <2>3. \A h \in Sources : Known(h) => Known(h)'
    BY <1>1, <1>3, <2>1, <2>2, KnownStays
  <2>4. ModulesKnown'
    <3> SUFFICES ASSUME NEW m \in ModuleNames, env'.modules[m] # Nil, env'.modules[m] # Circular,
                        NEW h, h = env'.filenames[m]
                 PROVE  env.loaded[h] # Nil /\ Known(h)'
      BY <1>3 DEF ModulesKnown, Known, Stored
    <3>1. m # n
      BY <2>2
    <3>2. h = env.filenames[m] /\ h # Nil /\ h \in Sources \cup {Nil}
      BY <2>2, <3>1 DEF Shape, Types, Envs, Placed
    <3>3. env.loaded[h] # Nil /\ Known(h)
      BY <2>2, <3>1, <3>2 DEF Whole, EnvRight, ModulesKnown
    <3> QED
      BY <2>3, <3>2, <3>3
  <2>5. WalkRight'
    BY <1>7, <2>1, <2>3
  <2> QED
    BY <1>6, <2>3, <2>4, <2>5
<1> QED
  BY <1>0, <1>9, <1>10, <1>11, <1>12, RequireIs

LEMMA WholeFinishes == Shape /\ Whole /\ FinishFile => Whole'
<1> SUFFICES ASSUME Shape, Whole, FinishFile, NEW l, l = Len(stack), NEW f, f = Top.file
             PROVE  Whole'
  OBVIOUS
<1> DEFINE r == Found_(f)
<1>1. /\ asked.phase = "walk" /\ stack # <<>> /\ Top.todo = <<>>
      /\ stack' = Front(stack)
      /\ UNCHANGED <<project, entries, store, byFile, asked>>
      /\ f \in Sources /\ Top.name \in ModuleNames \cup {Nil} /\ r \in Result
      /\ env'.modules = IF Top.name = Nil THEN env.modules
                        ELSE [env.modules EXCEPT ![Top.name] = walks + 1]
      /\ env'.filenames = env.filenames
      /\ env'.loaded = [env.loaded EXCEPT ![f] = r]
      /\ r.deps = Top.deps /\ r.walk = walks + 1
  BY FinishIs DEF Found_
<1>2. /\ stack' \in Seq(Frames) /\ Len(stack') = l - 1 /\ DOMAIN stack' = 1 .. l - 1
      /\ \A i \in 1 .. l - 1 : i \in DOMAIN stack /\ stack'[i] = stack[i]
      /\ l \in Nat \ {0} /\ l \in DOMAIN stack /\ Top = stack[l] /\ Top \in Frames
      /\ stack \in Seq(Frames) /\ DOMAIN stack = 1 .. l
  <2>1. stack # <<>> /\ stack' = Front(stack) /\ stack \in Seq(Frames)
    BY <1>1 DEF Shape, Types
  <2> HIDE DEF r
  <2> QED
    BY <2>1, FrontIs
<1>3. env.loaded[f] = Nil /\ FrameRight(l) /\ r # Nil /\ asked.dir \in Dirs
  BY <1>1, <1>2, NilAssumption DEF Whole, WalkRight, Unwalked, FramesRight, Shape, Phases
<1>4. f = stack[l].file
  BY <1>2
<1> HIDE DEF r
<1>5. \A h \in Sources : env'.loaded[h] = IF h = f THEN r ELSE env.loaded[h]
  BY <1>1 DEF Shape, Types, Envs
<1>6. \A m \in ModuleNames : env'.modules[m] = IF m = Top.name THEN walks + 1 ELSE env.modules[m]
  <2>1. \A m \in ModuleNames : m # Nil
    BY NamesAssumption, NothingIs, FS_CardinalityType
  <2> QED
    BY <1>1, <2>1 DEF Shape, Types, Envs
\* The module that was being walked is known now.
<1>7. Top.name \in ModuleNames => env.filenames[Top.name] = f /\ Known(f)'
  <2> SUFFICES ASSUME Top.name \in ModuleNames PROVE env.filenames[Top.name] = f /\ Known(f)'
    OBVIOUS
  <2>1. Top.name # Nil
    BY NamesAssumption, NothingIs, FS_CardinalityType
  <2>2. env.filenames[Top.name] = f
    BY <1>2, <1>4, <2>1 DEF Shape, Walked
  <2>3. Top.name \in Stored'
    BY <1>1, <1>3, <1>5, <1>6, <2>2, NilAssumption DEF Stored
  <2> QED
    BY <1>1, <2>2, <2>3 DEF Known
<1>8. ASSUME NEW h \in Sources, Known(h) PROVE Known(h)'
  <2>1. CASE byFile[h] # Nil
    BY <1>1, <2>1 DEF Known
  <2>2. ASSUME NEW m \in Stored, env.filenames[m] = h PROVE Known(h)'
    <3>1. m \in ModuleNames /\ h # f
      BY <1>3, <2>2 DEF Stored
    <3>2. m # Top.name
      BY <1>7, <2>2, <3>1
    <3>3. m \in Stored'
      BY <1>1, <1>5, <1>6, <2>2, <3>1, <3>2 DEF Stored
    <3> QED
      BY <1>1, <2>2, <3>3 DEF Known
  <2> QED
    BY <1>8, <2>1, <2>2 DEF Known
<1>9. FoundIn(f, asked.dir) /\ Rightly(r, f)
  <2>1. FoundIn(f, asked.dir)
    BY <1>3, <1>4 DEF FrameRight
  <2>2. r.deps = DepsIn(f, asked.dir)
    <3>1. r.deps \in [ModuleNames -> Sources \cup {Nil}]
      BY <1>1 DEF Result
    <3>2. Range(stack[l].todo) = {}
      BY <1>1, <1>2 DEF Range
    <3>3. \A n \in ModuleNames :
            stack[l].deps[n] = IF n \in Range(project.reqs[f]) THEN Found(n) ELSE Nil
      BY <1>3, <1>4, <3>2 DEF FrameRight, DepsRight
    <3> QED
      BY <1>1, <1>2, <3>1, <3>3 DEF DepsIn, Found
  <2>3. ASSUME NEW d \in Dirs, FoundIn(f, d) PROVE DepsIn(f, asked.dir) = DepsIn(f, d)
    BY <1>1, <1>3, <2>1, <2>3 DEF Whole, DirsAgree, DepsIn
  <2> QED
    BY <2>1, <2>2, <2>3 DEF Rightly
<1>10. StoreRight'
  BY <1>1, SameStoreRight, SameEntries DEF Whole
<1>11. LoadedRight'
  <2> SUFFICES ASSUME NEW h \in Sources, env'.loaded[h] # Nil
               PROVE  FoundIn(h, asked.dir) /\ Rightly(env'.loaded[h], h)
    BY <1>1 DEF LoadedRight, FoundIn, Rightly, DepsIn
  <2>1. CASE h = f
    BY <1>5, <1>9, <2>1
  <2>2. CASE h # f
    BY <1>5, <2>2 DEF Whole, EnvRight, LoadedRight
  <2> QED
    BY <2>1, <2>2
<1>12. LoadedBelow'
  <2> SUFFICES ASSUME NEW h \in Sources, env'.loaded[h] # Nil, NEW m \in ModuleNames,
                      NEW x, x = env'.loaded[h].deps[m], x # Nil
               PROVE  Known(x)'
    BY DEF LoadedBelow, Known, Stored
  <2>1. CASE h = f
    <3>1. x = stack[l].deps[m]
      BY <1>1, <1>2, <1>5, <2>1
    <3>2. x \in Sources
      BY <1>2, <3>1 DEF Frames
    <3>3. Known(x)
      BY <1>2, <1>3, <3>1 DEF FrameRight, DepsRight
    <3> QED
      BY <1>8, <3>2, <3>3
  <2>2. CASE h # f
    <3>1. env.loaded[h] \in Result /\ x = env.loaded[h].deps[m]
      BY <1>5, <2>2 DEF Shape, Types, Envs
    <3>2. x \in Sources /\ Known(x)
      BY <1>5, <2>2, <3>1 DEF Result, Whole, EnvRight, LoadedBelow
    <3> QED
      BY <1>8, <3>2
  <2> QED
    BY <2>1, <2>2
<1>13. ModulesKnown'
  <2> SUFFICES ASSUME NEW m \in ModuleNames, env'.modules[m] # Nil, env'.modules[m] # Circular,
                      NEW h, h = env'.filenames[m]
               PROVE  env'.loaded[h] # Nil /\ Known(h)'
    BY DEF ModulesKnown, Known, Stored
  <2>1. CASE m = Top.name
    BY <1>1, <1>3, <1>5, <1>7, <2>1
  <2>2. CASE m # Top.name
    <3>1. env'.modules[m] = env.modules[m] /\ h = env.filenames[m]
      BY <1>1, <1>6, <2>2
    <3>2. h \in Sources
      BY <3>1 DEF Shape, Types, Envs, Placed
    <3>3. env.loaded[h] # Nil /\ Known(h)
      BY <3>1 DEF Whole, EnvRight, ModulesKnown
    <3> QED
      BY <1>3, <1>5, <1>8, <3>2, <3>3
  <2> QED
    BY <2>1, <2>2
<1>14. Descends'
  <2>1. PICK rank \in [Sources -> Nat] : Falls(rank) /\ Sinks(rank)
    BY DEF Whole, WalkRight, Descends
  <2>2. Sinks(rank)'
    BY <1>2, <2>1 DEF Sinks
  <2> QED
    BY <1>1, <2>1, <2>2, RankStays DEF Descends
<1>15. Unwalked'
  <2> SUFFICES ASSUME NEW i \in DOMAIN stack' PROVE env'.loaded[stack'[i].file] = Nil
    BY DEF Unwalked
  <2>1. i \in DOMAIN stack /\ stack'[i] = stack[i] /\ i < l
    BY <1>2
  <2>2. PICK rank \in [Sources -> Nat] : Falls(rank) /\ Sinks(rank)
    BY DEF Whole, WalkRight, Descends
  <2>3. rank[f] < rank[stack[i].file] /\ rank[f] \in Nat
    BY <1>1, <1>2, <1>4, <2>1, <2>2 DEF Sinks
  <2>4. stack[i].file # f /\ stack[i].file \in Sources
    <3>1. stack[i] \in Frames
      BY <1>2, <2>1
    <3>2. stack[i].file # f
      BY <2>3
    <3> QED
      BY <3>1, <3>2 DEF Frames
  <2> QED
    BY <1>5, <2>1, <2>4 DEF Whole, WalkRight, Unwalked
<1>16. FramesRight'
  <2> SUFFICES ASSUME NEW i \in DOMAIN stack' PROVE FrameRight(i)'
    BY DEF FramesRight
  <2>1. i \in DOMAIN stack /\ stack'[i] = stack[i] /\ i < l /\ i \in Nat
    BY <1>2
  <2>2. FrameRight(i)
    BY <2>1 DEF Whole, WalkRight, FramesRight
  <2>3. CASE i < l - 1
    <3>1. i + 1 \in 1 .. l - 1
      BY <1>2, <2>1, <2>3
    <3>2. stack'[i + 1].name = stack[i + 1].name
      BY <1>2, <3>1
    <3> QED
      BY <1>1, <1>2, <1>8, <2>1, <2>2, <2>3, <3>2, FrameStays
  <2>4. CASE i = l - 1
    <3>1. stack[i] \in Frames /\ i + 1 = l
      BY <1>2, <2>1, <2>4
    <3>2. stack[i].deps \in [ModuleNames -> Sources \cup {Nil}]
      BY <3>1 DEF Frames
    <3>3. ASSUME NEW m \in ModuleNames, NEW h, h = stack[i].deps[m], h # Nil
          PROVE  m \in Range(project.reqs[stack[i].file]) /\ h = Found(m) /\ Known(h)'
      <4>1. /\ m \in Range(project.reqs[stack[i].file]) /\ h = Found(m) /\ h \in Sources
            /\ Known(h) \/ stack[l].name = m
        BY <2>2, <3>1, <3>2, <3>3 DEF FrameRight, DepsRight
      <4>2. CASE Known(h)
        BY <1>8, <4>1, <4>2
      <4>3. CASE stack[l].name = m
        <5>1. Top.name = m /\ env.filenames[m] = f /\ Known(f)'
          BY <1>2, <1>7, <4>3
        <5>2. h = f
          <6>1. f # Nil
            BY <1>1, NilAssumption
          <6> QED
            BY <4>1, <5>1, <6>1 DEF Shape, Placed
        <5> QED
          BY <4>1, <5>1, <5>2
      <4> QED
        BY <4>1, <4>2, <4>3
    <3>4. DepsRight(i)'
      <4>1. ASSUME NEW m \in ModuleNames, NEW h, h = stack'[i].deps[m], h # Nil
            PROVE  /\ m \in Range(project'.reqs[stack'[i].file]) /\ h = Found(m)'
                   /\ Known(h)'
        BY <1>1, <2>1, <3>3, <4>1 DEF Found
      <4> QED
        BY <4>1 DEF DepsRight, Known, Stored
    <3> QED
      BY <1>1, <2>1, <2>2, <3>4 DEF FrameRight, FoundIn, Found
  <2> QED
    BY <1>2, <2>1, <2>3, <2>4
<1>17. RootWalked'
  <2>1. CASE l = 1
    <3>1. f = asked.file
      BY <1>2, <1>4, <2>1 DEF Shape, Walked
    <3> QED
      BY <1>1, <1>3, <1>5, <3>1 DEF RootWalked
  <2>2. CASE l # 1
    <3>1. stack' # <<>>
      BY <1>2, <2>2
    <3> QED
      BY <3>1 DEF RootWalked
  <2> QED
    BY <2>1, <2>2
<1> QED
  BY <1>1, <1>10, <1>11, <1>12, <1>13, <1>14, <1>15, <1>16, <1>17, DirsStay
     DEF Whole, EnvRight, WalkRight

\* What the store knows after a check is right too, and it has all a check knew.
LEMMA StoredRight ==
  ASSUME Shape, Whole, NEW last, Latest(last),
         NEW names, names = StoreFrom(last).names,
         NEW index, index = StoreFrom(last).index,
         NEW new, new = StoreFrom(last).entries
  PROVE  /\ \A h \in Sources : index[h] = IF h \in KeptFiles THEN last[h] ELSE byFile[h]
         /\ \A h \in Sources : byFile[h] # Nil \/ h \in KeptFiles => index[h] # Nil
         /\ \A s \in Slots : new[s] # Nil => Rightly(new[s].result, s[2])
         /\ \A s \in Slots : new[s] # Nil => \A n \in ModuleNames :
              new[s].result.deps[n] # Nil => index[new[s].result.deps[n]] # Nil
         /\ \A n \in ModuleNames : names[n] # Nil => index[names[n]] # Nil
<1>1. \A h \in Sources : index[h] = IF h \in KeptFiles THEN last[h] ELSE byFile[h]
  <2>1. index = [h \in Sources |-> IF h \in KeptFiles THEN last[h] ELSE byFile[h]]
    BY StoreFromIs
  <2> QED
    BY <2>1
<1>2. \A h \in Sources : byFile[h] # Nil \/ h \in KeptFiles => index[h] # Nil
  <2>1. \A h \in KeptFiles : last[h] \in ModuleNames
    BY KeptIs DEF Latest
  <2>2. \A n \in ModuleNames : n # Nil
    BY NamesAssumption, NothingIs, FS_CardinalityType
  <2> QED
    BY <1>1, <2>1, <2>2
<1>3. ASSUME NEW s \in Slots, new[s] # Nil
      PROVE  /\ Rightly(new[s].result, s[2])
             /\ \A n \in ModuleNames :
                  new[s].result.deps[n] # Nil => index[new[s].result.deps[n]] # Nil
  <2>1. new[s] = StoredEntry(last, s)
    <3>1. new = [x \in Slots |-> StoredEntry(last, x)]
      BY StoreFromIs
    <3> QED
      BY <3>1
  <2>2. CASE s[1] \in Kept /\ env.filenames[s[1]] = s[2]
    <3> DEFINE f == s[2]
    <3>1. new[s].result = env.loaded[f]
      BY <2>1, <2>2 DEF StoredEntry
    <3>2. f \in Sources /\ env.loaded[f] # Nil /\ env.loaded[f] \in Result /\ ~asked.cold
      BY <2>2, KeptIs, NilAssumption DEF Kept
    <3> HIDE DEF f
    <3>3. Rightly(env.loaded[f], f)
      BY <3>2 DEF Whole, EnvRight, LoadedRight
    <3>4. ASSUME NEW n \in ModuleNames, NEW h, h = env.loaded[f].deps[n], h # Nil PROVE index[h] # Nil
      <4>1. h \in Sources /\ Known(h)
        BY <3>2, <3>4 DEF Result, Whole, EnvRight, LoadedBelow
      <4>2. byFile[h] # Nil \/ h \in KeptFiles
        BY <3>2, <4>1 DEF Known, KeptFiles, Kept
      <4> QED
        BY <1>2, <4>1, <4>2
    <3> QED
      BY <3>1, <3>3, <3>4 DEF f
  <2>3. CASE ~(s[1] \in Kept /\ env.filenames[s[1]] = s[2])
    <3>1. new[s] = entries[s] /\ entries[s] # Nil
      BY <1>3, <2>1, <2>3 DEF StoredEntry
    <3>2. Rightly(entries[s].result, s[2])
      BY <3>1 DEF Whole, StoreRight, ResultsRight
    <3>3. entries[s].result \in Result
      <4>1. entries[s] \in Entry
        BY <3>1 DEF Shape, Types, Stores
      <4> QED
        BY <4>1 DEF Entry
    <3>4. ASSUME NEW n \in ModuleNames, NEW h, h = entries[s].result.deps[n], h # Nil PROVE index[h] # Nil
      <4>1. h \in Sources /\ byFile[h] # Nil
        BY <3>1, <3>3, <3>4 DEF Result, Whole, StoreRight, EntriesBelow
      <4> QED
        BY <1>2, <4>1
    <3> QED
      BY <3>1, <3>2, <3>4
  <2> QED
    BY <2>2, <2>3
<1>4. ASSUME NEW n \in ModuleNames, names[n] # Nil PROVE index[names[n]] # Nil
  <2>1. names[n] = IF n \in Kept THEN env.filenames[n] ELSE store[n]
    BY StoreFromIs
  <2>2. CASE n \in Kept
    BY <1>2, <2>1, <2>2, KeptIs
  <2>3. CASE n \notin Kept
    <3>1. names[n] \in Sources /\ byFile[names[n]] # Nil
      BY <1>4, <2>1, <2>3 DEF Shape, Types, Whole, StoreRight, NamesIndexed
    <3> QED
      BY <1>2, <3>1
  <2> QED
    BY <2>2, <2>3
<1> QED
  BY <1>1, <1>2, <1>3, <1>4

LEMMA WholeEnds == Shape /\ Whole /\ EndCheck => Whole'
<1> SUFFICES ASSUME Shape, Whole, EndCheck PROVE Whole'
  OBVIOUS
<1>0. PICK last : /\ Latest(last)
                  /\ store' = StoreFrom(last).names
                  /\ byFile' = StoreFrom(last).index
                  /\ entries' = StoreFrom(last).entries
  BY EndsIs
<1>1. asked' = NoCheck /\ env' = NewEnv /\ stack' = <<>> /\ project' = project
  BY EndsIs
<1>2. \A s \in Slots : entries'[s] # Nil => Rightly(entries'[s].result, s[2])
  BY <1>0, StoredRight
<1>3. /\ \A s \in Slots : entries'[s] # Nil => \A n \in ModuleNames :
           entries'[s].result.deps[n] # Nil => byFile'[entries'[s].result.deps[n]] # Nil
      /\ \A n \in ModuleNames : store'[n] # Nil => byFile'[store'[n]] # Nil
  BY <1>0, StoredRight
<1>4. StoreRight'
  <2>1. ResultsRight'
    BY <1>1, <1>2 DEF ResultsRight, Rightly, FoundIn, DepsIn
  <2> QED
    BY <1>3, <2>1 DEF StoreRight, EntriesBelow, NamesIndexed
<1>5. WalkRight'
  BY <1>1, NoWalk DEF Whole, WalkRight, NoCheck
<1> QED
  BY <1>1, <1>4, <1>5, NewEnvRight, DirsStay DEF Whole

\* Two ways down that agree on a set they do not leave reach the same, in that set.
LEMMA ReachesNoLess ==
  ASSUME NEW T, NEW A, NEW B, NEW K \in SUBSET T, NEW start \in SUBSET K,
         \A h \in K : A[h] = B[h] /\ A[h] \subseteq K
  PROVE  ReachedIn(T, start, A) \subseteq ReachedIn(T, start, B) \cap K
<1> SUFFICES ASSUME NEW g \in ReachedIn(T, start, A)
             PROVE  g \in K /\ \A S \in SUBSET T :
                      start \subseteq S /\ (\A h \in S : B[h] \subseteq S) => g \in S
  BY DEF ReachedIn
<1>1. g \in K
  BY DEF ReachedIn
<1>2. ASSUME NEW S \in SUBSET T, start \subseteq S, \A h \in S : B[h] \subseteq S
      PROVE  g \in S
  <2>1. S \cap K \in SUBSET T /\ start \subseteq S \cap K
    BY <1>2
  <2>2. \A h \in S \cap K : A[h] \subseteq S \cap K
    BY <1>2
  <2>3. g \in S \cap K
    BY <2>1, <2>2 DEF ReachedIn
  <2> QED
    BY <2>3
<1> QED
  BY <1>1, <1>2
LEMMA ReachesSame ==
  ASSUME NEW T, NEW A, NEW B, NEW K \in SUBSET T, NEW start \in SUBSET K,
         \A h \in K : A[h] = B[h] /\ A[h] \subseteq K
  PROVE  /\ ReachedIn(T, start, A) = ReachedIn(T, start, B)
         /\ ReachedIn(T, start, A) \subseteq K
<1>1. ReachedIn(T, start, A) \subseteq ReachedIn(T, start, B) \cap K
  BY ReachesNoLess
<1>2. \A h \in K : B[h] = A[h] /\ B[h] \subseteq K
  OBVIOUS
<1>3. ReachedIn(T, start, B) \subseteq ReachedIn(T, start, A)
  BY <1>2, ReachesNoLess
<1> QED
  BY <1>1, <1>3

\* What a result names is what its file requires.
LEMMA DepsAre ==
  ASSUME Shape, NEW f \in Sources, NEW d \in Dirs, NEW r, r # Nil, r.deps = DepsIn(f, d)
  PROVE  DepsOf(r) = Required(f, d)
<1>1. Range(project.reqs[f]) \subseteq ModuleNames
  BY RequiresTyped
<1>2. DepsOf(r) = {DepsIn(f, d)[n] : n \in ModuleNames} \ {Nil}
  BY DEF DepsOf
<1>3. \A n \in ModuleNames :
        DepsIn(f, d)[n] = IF n \in Range(project.reqs[f]) THEN project.find[d][n] ELSE Nil
  BY DEF DepsIn
<1>4. {DepsIn(f, d)[n] : n \in ModuleNames} \ {Nil}
        = {project.find[d][n] : n \in Range(project.reqs[f])} \ {Nil}
  BY <1>1, <1>3
<1> QED
  BY <1>2, <1>4 DEF Required

\* The closure a check that ends answers with.
LEMMA ClosureIs ==
  ASSUME Shape, Whole, asked.phase = "walk", stack = <<>>, NEW last, Latest(last)
  PROVE  RequireClosure(StoreFrom(last)) =
           Reached(asked.file, [f \in Sources |-> Required(f, asked.dir)]) \ {asked.file}
<1> DEFINE s == StoreFrom(last)
           d == asked.dir
           A == [g \in Sources |-> DepsOf(ResultOf(s, g))]
           B == [f \in Sources |-> Required(f, d)]
           K == {g \in Sources : FoundIn(g, d) /\ (env.loaded[g] # Nil \/ s.index[g] # Nil)}
<1>1. d \in Dirs /\ asked.file \in Sources /\ FoundIn(asked.file, d) /\ env.loaded[asked.file] # Nil
  BY DEF Shape, Phases, FoundIn, Found, Whole, WalkRight, RootWalked
<1>2. /\ \A h \in Sources : s.index[h] = IF h \in KeptFiles THEN last[h] ELSE byFile[h]
      /\ \A h \in Sources : byFile[h] # Nil \/ h \in KeptFiles => s.index[h] # Nil
      /\ \A x \in Slots : s.entries[x] # Nil => Rightly(s.entries[x].result, x[2])
      /\ \A x \in Slots : s.entries[x] # Nil => \A n \in ModuleNames :
           s.entries[x].result.deps[n] # Nil => s.index[s.entries[x].result.deps[n]] # Nil
  BY StoredRight
<1>3. /\ s.index \in [Sources -> ModuleNames \cup {Nil}] /\ s.entries \in Stores
      /\ \A f \in Sources : s.index[f] # Nil => s.entries[<<s.index[f], f>>] # Nil
  BY StoreFromTyped
<1> HIDE DEF s, d
<1>4. ASSUME NEW g \in K
      PROVE  /\ ResultOf(s, g) # Nil /\ ResultOf(s, g).deps = DepsIn(g, d)
             /\ \A n \in ModuleNames : ResultOf(s, g).deps[n] # Nil =>
                  \/ env.loaded[ResultOf(s, g).deps[n]] # Nil
                  \/ s.index[ResultOf(s, g).deps[n]] # Nil
  <2>1. CASE env.loaded[g] # Nil
    <3>1. ResultOf(s, g) = env.loaded[g] /\ env.loaded[g] \in Result
      BY <2>1 DEF ResultOf, Shape, Types, Envs
    <3>2. env.loaded[g].deps = DepsIn(g, d)
      BY <1>1, <1>4, <2>1 DEF Whole, EnvRight, LoadedRight, Rightly
    <3>3. ASSUME NEW n \in ModuleNames, NEW h, h = env.loaded[g].deps[n], h # Nil
          PROVE  env.loaded[h] # Nil \/ s.index[h] # Nil
      <4>1. h \in Sources /\ Known(h)
        BY <2>1, <3>1, <3>3 DEF Result, Whole, EnvRight, LoadedBelow
      <4>2. CASE byFile[h] # Nil
        BY <1>2, <4>1, <4>2
      <4>3. ASSUME NEW m \in Stored, env.filenames[m] = h PROVE env.loaded[h] # Nil
        BY <4>3 DEF Stored
      <4> QED
        BY <4>1, <4>2, <4>3 DEF Known
    <3> QED
      BY <2>1, <3>1, <3>2, <3>3
  <2>2. CASE env.loaded[g] = Nil
    <3> DEFINE x == <<s.index[g], g>>
    <3>1. s.index[g] # Nil /\ ResultOf(s, g) = s.entries[x].result
      BY <1>4, <2>2 DEF ResultOf
    <3>2. x \in Slots /\ x[2] = g /\ s.entries[x] # Nil
      BY <1>3, <3>1 DEF Slots
    <3> HIDE DEF x
    <3>3. s.entries[x] \in Entry
      BY <1>3, <3>2 DEF Stores
    <3>4. s.entries[x].result \in Result /\ s.entries[x].result # Nil
      BY <3>3, NilAssumption DEF Entry
    <3>5. s.entries[x].result.deps = DepsIn(g, d)
      BY <1>1, <1>2, <1>4, <3>2 DEF Rightly
    <3> QED
      BY <1>2, <3>1, <3>2, <3>4, <3>5
  <2> QED
    BY <2>1, <2>2
<1>5. ASSUME NEW g \in K PROVE A[g] = B[g] /\ A[g] \subseteq K
  <2>1. A[g] = DepsOf(ResultOf(s, g)) /\ B[g] = Required(g, d)
    OBVIOUS
  <2>2. A[g] = B[g]
    BY <1>1, <1>4, <2>1, DepsAre
  <2>3. ASSUME NEW h \in Required(g, d) PROVE h \in K
    <3>1. PICK n \in Range(project.reqs[g]) : h = project.find[d][n]
      BY DEF Required
    <3>2. n \in ModuleNames /\ h # Nil
      BY <2>3, RequiresTyped DEF Required
    <3>3. h \in Sources
      BY <1>1, <3>1, <3>2, ProjectTyped DEF Shape, Types
    <3>4. FoundIn(h, d)
      BY <3>1, <3>2 DEF FoundIn
    <3>5. ResultOf(s, g).deps[n] = h
      BY <1>4, <3>1, <3>2 DEF DepsIn
    <3>6. env.loaded[h] # Nil \/ s.index[h] # Nil
      BY <1>4, <3>2, <3>5
    <3> QED
      BY <3>3, <3>4, <3>6
  <2> QED
    BY <2>1, <2>2, <2>3
<1>6. asked.file \in K /\ K \in SUBSET Sources
  BY <1>1
<1> HIDE DEF A, B, K
<1>7. Reached(asked.file, A) = Reached(asked.file, B)
  <2>1. A[asked.file] = B[asked.file] /\ A[asked.file] \in SUBSET K
    BY <1>5, <1>6
  <2>2. \A h \in K : A[h] = B[h] /\ A[h] \subseteq K
    BY <1>5
  <2>3. ASSUME NEW start \in SUBSET K PROVE ReachedIn(Sources, start, A) = ReachedIn(Sources, start, B)
    BY <1>6, <2>2, ReachesSame
  <2> QED
    BY <2>1, <2>3 DEF Reached
<1> QED
  BY <1>7 DEF RequireClosure, A, B, s, d

LEMMA SaidWhole ==
  ASSUME Shape, Whole, WholeClosure, [StoreNext]_storeVars
  PROVE  WholeClosure'
<1>1. project' = project
  BY ProjectStays
<1>2. ASSUME UNCHANGED said PROVE WholeClosure'
  BY <1>1, <1>2 DEF WholeClosure, Required
<1>3. CASE EndCheck
  <2>1. PICK last : /\ Latest(last)
                    /\ \A a \in said' \ said : /\ a.file = asked.file /\ a.dir = asked.dir
                                               /\ a.closure = RequireClosure(StoreFrom(last))
    BY <1>3, EndsIs
  <2>2. \A a \in said' \ said : a.closure =
          Reached(a.file, [f \in Sources |-> Required(f, a.dir)]) \ {a.file}
    BY <1>3, <2>1, ClosureIs, EndsIs
  <2>3. \A a \in said' : a.closure =
          Reached(a.file, [f \in Sources |-> Required(f, a.dir)]) \ {a.file}
    BY <2>2 DEF WholeClosure
  <2> QED
    BY <1>1, <2>3 DEF WholeClosure, Required
<1>4. Require => UNCHANGED said
  BY RequireIs
<1> QED
  BY <1>2, <1>3, <1>4 DEF StoreNext, storeVars, Begin, SeedEntry, OpenFile, FinishFile

LEMMA WholeSteps == Shape /\ Whole /\ [StoreNext]_storeVars => Whole'
<1> SUFFICES ASSUME Shape, Whole, [StoreNext]_storeVars PROVE Whole'
  OBVIOUS
<1>1. ASSUME NEW f \in Sources, NEW d \in Dirs, NEW cold \in BOOLEAN, Begin(f, d, cold) PROVE Whole'
  BY <1>1, WholeBegin
<1>2. ASSUME NEW n \in ModuleNames, SeedEntry(n) PROVE Whole'
  BY <1>2, WholeSeeds
<1>3. CASE UNCHANGED storeVars
  <2>1. UNCHANGED <<project, entries, store, byFile, env, stack, asked>>
    BY <1>3 DEF storeVars
  <2>2. StoreRight' /\ DirsAgree'
    BY <2>1, SameStoreRight, SameEntries, DirsStay DEF Whole
  <2>3. \A h \in Sources : Known(h) => Known(h)'
    BY <2>1 DEF Known, Stored
  <2>4. EnvRight'
    <3>1. ModulesKnown'
      BY <2>1 DEF Whole, EnvRight, ModulesKnown, Known, Stored
    <3> QED
      BY <2>1, <2>3, <3>1, SameLoaded DEF Whole, EnvRight
  <2>5. Descends'
    BY <2>1 DEF Whole, WalkRight, Descends, Sinks, Falls, FoundIn
  <2>6. FramesRight'
    <3> SUFFICES ASSUME NEW i \in DOMAIN stack PROVE FrameRight(i)'
      BY <2>1 DEF FramesRight
    <3>1. FrameRight(i)
      BY DEF Whole, WalkRight, FramesRight
    <3>2. DepsRight(i)'
      BY <2>1, <3>1 DEF FrameRight, DepsRight, Known, Stored, Found
    <3> QED
      BY <2>1, <3>1, <3>2 DEF FrameRight, FoundIn, Found
  <2> QED
    BY <2>1, <2>2, <2>4, <2>5, <2>6 DEF Whole, WalkRight, Unwalked, RootWalked
<1> QED
  BY <1>1, <1>2, <1>3, WholeOpens, WholeRequires, WholeFinishes, WholeEnds DEF StoreNext

\* Where no file requires itself and the directories agree, a check names every file it
\* stands on, whoever walked it.
THEOREM WholeClosureHolds == StoreSpec /\ DirsAgree /\ Loopless => []WholeClosure
<1>1. StoreInit /\ DirsAgree /\ Loopless => Shape /\ Whole /\ WholeClosure
  BY ShapeBegins, WholeBegins
<1>2. Shape /\ Whole /\ WholeClosure /\ [StoreNext]_storeVars => (Shape /\ Whole /\ WholeClosure)'
  BY ShapeSteps, WholeSteps, SaidWhole
<1> QED
  BY <1>1, <1>2, PTL DEF StoreSpec

-----------------------------------------------------------------------------
(* A check says the same whatever was checked before it.                    *)

\* The globals that some file declares.
Declared == UNION {project.decl[f] : f \in Sources}

\* What a file reads of them, it declares, or a file that it requires by name.
Offered(f, d) ==
  project.decl[f] \cup
    UNION {project.decl[project.find[d][n]] :
           n \in {m \in Range(project.reqs[f]) : project.find[d][m] # Nil}}
ReadsRequired ==
  \A d \in Dirs : \A f \in Sources :
    FoundIn(f, d) => project.uses[f] \cap Declared \subseteq Offered(f, d)

\* The directories that find a name find it at one file, and those that find a file find it
\* under the same names.
NamesKept ==
  \A d, e \in Dirs : \A n \in ModuleNames :
    project.find[d][n] # Nil /\ project.find[e][n] # Nil => project.find[d][n] = project.find[e][n]
FilesKept ==
  \A d, e \in Dirs : \A n \in ModuleNames :
    project.find[e][n] # Nil /\ FoundIn(project.find[e][n], d) => project.find[d][n] = project.find[e][n]

LEMMA FilesTogether == FilesKept => NamesTogether
BY DEF FilesKept, NamesTogether, FoundIn

\* What a check of a file has to say of it: what it reads that nobody declares and what it
\* requires that is not there.
Missing(f, d) == {n \in Range(project.reqs[f]) : project.find[d][n] = Nil}
ErrsIn(f, d) == (project.uses[f] \ Declared) \cup Missing(f, d)

\* The globals handed over are declared somewhere, and a closure has those of its file.
ClosureOf(c, f) == c = Nil \/ (project.decl[f] \subseteq c /\ c \subseteq Declared)
ClosuresDeclared == \A s \in Slots : entries[s] # Nil => ClosureOf(entries[s].closure, s[2])
Apart == env.globals \subseteq Declared /\ ClosuresDeclared

LEMMA DeclaredIs ==
  ASSUME project \in Projects
  PROVE  Declared \in SUBSET Globals /\ \A f \in Sources : project.decl[f] \subseteq Declared
BY ProjectTyped DEF Declared

LEMMA BelowDeclared ==
  ASSUME Shape, ClosuresDeclared, NEW s \in Slots, entries[s] # Nil
  PROVE  GlobalsBelow(s) \in ScopeAbove(Declared, project.decl, project.decl[s[2]])
<1>1. Declared \in SUBSET Globals /\ \A f \in Sources : project.decl[f] \subseteq Declared
  BY DeclaredIs DEF Shape, Types
<1>2. Closures \in MemosOf(Declared, project.decl)
  <2>1. \A t \in Slots : Closures[t] \in (SUBSET Declared) \cup {Nil}
    BY DEF Closures, ClosuresDeclared, ClosureOf
  <2>2. \A t \in Slots : Closures[t] # Nil => project.decl[t[2]] \subseteq Closures[t]
    BY DEF Closures, ClosuresDeclared, ClosureOf
  <2>3. Closures = [t \in Slots |-> Closures[t]]
    BY DEF Closures
  <2>4. Closures \in [Slots -> (SUBSET Declared) \cup {Nil}]
    BY <2>1, <2>3
  <2> QED
    BY <2>2, <2>4 DEF MemosOf
<1> QED
  BY <1>1, <1>2, GlobalsBelowAmong DEF Shape, Types, Leads

LEMMA RemembersDeclared ==
  ASSUME Shape, NEW memo \in MemosOf(Declared, project.decl), NEW s \in Slots, entries[s] # Nil
  PROVE  ClosureOf(Remember(memo)[s].closure, s[2])
<1>1. /\ entries[s] \in Entry /\ memo[s] \in (SUBSET Declared) \cup {Nil}
      /\ memo[s] # Nil => project.decl[s[2]] \subseteq memo[s]
  BY DEF Shape, Types, Stores, MemosOf
<1>2. Remember(memo)[s] = [entries[s] EXCEPT !.closure = memo[s]]
  BY DEF Remember
<1>3. Remember(memo)[s].closure = memo[s]
  BY <1>1, <1>2 DEF Entry
<1> QED
  BY <1>1, <1>3 DEF ClosureOf

LEMMA DeliveredDeclared ==
  ASSUME Shape, ClosuresDeclared, NEW f \in Sources
  PROVE  /\ Delivered(f).globals \subseteq Declared
         /\ byFile[f] # Nil /\ env.loaded[f] = entries[SlotOf(f)].result =>
              project.decl[f] \subseteq Delivered(f).globals
         /\ \A s \in Slots : entries[s] # Nil =>
              ClosureOf(Delivered(f).entries[s].closure, s[2])
<1>1. CASE byFile[f] # Nil /\ env.loaded[f] = entries[SlotOf(f)].result
  <2> DEFINE g == GlobalsBelow(SlotOf(f))
  <2>1. g \in ScopeAbove(Declared, project.decl, project.decl[f])
    BY <1>1, SlotOfTyped, BelowDeclared DEF Shape, Leads
  <2>2. Delivered(f).globals = g.out /\ Delivered(f).entries = Remember(g.memo)
    BY <1>1 DEF Delivered
  <2> HIDE DEF g
  <2>3. /\ g.out \in SUBSET Declared /\ g.memo \in MemosOf(Declared, project.decl)
        /\ project.decl[f] \subseteq g.out
    BY <2>1 DEF ScopeOf, ScopeAbove
  <2> QED
    BY <2>2, <2>3, RemembersDeclared
<1>2. CASE ~(byFile[f] # Nil /\ env.loaded[f] = entries[SlotOf(f)].result)
  BY <1>2 DEF Delivered, ClosuresDeclared
<1> QED
  BY <1>1, <1>2

LEMMA ApartSeeds ==
  ASSUME Shape, Apart, NEW n \in ModuleNames, SeedEntry(n)
  PROVE  env'.globals = env.globals /\ ClosuresDeclared'
<1> DEFINE f == store[n]
           g == GlobalsBelow(<<n, f>>)
           r == entries[<<n, f>>].result
<1>0. project' = project /\ n \in asked.toSeed
  BY DEF SeedEntry
<1>1. CASE Found(n) # f
  BY <1>0, <1>1 DEF SeedEntry, Apart, ClosuresDeclared, ClosureOf, Declared
<1>2. CASE Found(n) = f
  <2>1. <<n, f>> \in Slots /\ entries[<<n, f>>] # Nil
    BY <1>0, SeededIs
  <2>2. g \in ScopeAbove(Declared, project.decl, project.decl[f])
    BY <2>1, BelowDeclared DEF Apart
  <2>3. entries' = Remember(g.memo)
    BY <1>2 DEF SeedEntry
  <2>4. env'.globals = env.globals
    <3>1. env' = [env EXCEPT !.loaded[f] = r, !.modules[n] = IF g.out = {} THEN r.walk ELSE @,
                             !.filenames[n] = IF g.out = {} THEN f ELSE @]
      BY <1>2 DEF SeedEntry
    <3> HIDE DEF g, r, f
    <3> QED
      BY <3>1 DEF Shape, Types, Envs
  <2> HIDE DEF g
  <2>5. g.memo \in MemosOf(Declared, project.decl)
    BY <2>2 DEF ScopeOf, ScopeAbove
  <2>6. \A s \in Slots : entries'[s] # Nil =>
          entries[s] # Nil /\ ClosureOf(entries'[s].closure, s[2])
    <3>1. \A s \in Slots : entries'[s] # Nil => entries[s] # Nil
      BY <2>3 DEF Remember
    <3> QED
      BY <2>3, <2>5, <3>1, RemembersDeclared
  <2> QED
    BY <1>0, <2>4, <2>6 DEF ClosuresDeclared, ClosureOf, Declared
<1> QED
  BY <1>1, <1>2

LEMMA ApartRequires ==
  ASSUME Shape, Apart, Require
  PROVE  Apart'
<1> SUFFICES ASSUME NEW n, n = Head(Top.todo), NEW f, f = Found(n) PROVE Apart'
  OBVIOUS
<1>1. project' = project /\ n \in ModuleNames /\ f \in Sources \cup {Nil}
  BY RequireIs, HeadIs, FoundTyped DEF Shape, Types
<1>2. CASE AnswersKnown(n) \/ AnswersNothing(n)
  BY <1>1, <1>2 DEF AnswersKnown, AnswersNothing, Apart, ClosuresDeclared, ClosureOf, Declared
<1>3. CASE AnswersServed(n)
  <2> DEFINE gs == Delivered(f).globals
  <2>1. /\ f \in Sources /\ entries' = Delivered(f).entries
        /\ env' = [env EXCEPT !.globals = @ \cup gs, !.filenames[n] = f,
                              !.modules[n] = env.loaded[f].walk]
    BY <1>1, <1>3 DEF AnswersServed
  <2>2. /\ gs \subseteq Declared
        /\ \A s \in Slots : entries[s] # Nil => ClosureOf(entries'[s].closure, s[2])
    BY <2>1, DeliveredDeclared DEF Apart
  <2>3. \A s \in Slots : entries'[s] # Nil => entries[s] # Nil
    BY RequireKeeps DEF SameResults
  <2> HIDE DEF gs
  <2>4. env'.globals = env.globals \cup gs
    BY <2>1 DEF Shape, Types, Envs
  <2> QED
    BY <1>1, <2>2, <2>3, <2>4 DEF Apart, ClosuresDeclared, ClosureOf, Declared
<1>4. CASE AnswersWalking(n)
  <2>1. /\ entries' = entries /\ env' = [env EXCEPT !.modules[n] = Circular, !.filenames[n] = f]
    BY <1>4 DEF AnswersWalking
  <2>2. env'.globals = env.globals
    BY <2>1 DEF Shape, Types, Envs
  <2> QED
    BY <1>1, <2>1, <2>2 DEF Apart, ClosuresDeclared, ClosureOf, Declared
<1> QED
  BY <1>2, <1>3, <1>4, RequireIs

LEMMA ApartSteps == Shape /\ Apart /\ [StoreNext]_storeVars => Apart'
<1> SUFFICES ASSUME Shape, Apart, [StoreNext]_storeVars PROVE Apart'
  OBVIOUS
<1>0. project' = project
  BY ProjectStays
<1>1. ASSUME env'.globals = env.globals \/ env'.globals = {}, entries' = entries PROVE Apart'
  BY <1>0, <1>1 DEF Apart, ClosuresDeclared, ClosureOf, Declared
<1>2. ASSUME NEW f \in Sources, NEW d \in Dirs, NEW cold \in BOOLEAN, Begin(f, d, cold) PROVE Apart'
  BY <1>1, <1>2 DEF Begin, NewEnv
<1>3. ASSUME NEW n \in ModuleNames, SeedEntry(n) PROVE Apart'
  BY <1>0, <1>3, ApartSeeds DEF Apart, Declared, ClosureOf
<1>4. CASE OpenFile \/ UNCHANGED storeVars
  BY <1>1, <1>4 DEF OpenFile, storeVars
<1>5. CASE FinishFile
  <2>1. env'.globals = env.globals \cup project.decl[Top.file] /\ Top.file \in Sources
        /\ entries' = entries
    BY <1>5, FinishIs
  <2>2. project.decl[Top.file] \subseteq Declared
    BY <2>1, DeclaredIs DEF Shape, Types
  <2> QED
    BY <1>0, <2>1, <2>2 DEF Apart, ClosuresDeclared, ClosureOf, Declared
<1>6. CASE EndCheck
  <2>1. PICK last : Latest(last) /\ entries' = StoreFrom(last).entries
    BY <1>6, EndsIs
  <2>2. entries' = [s \in Slots |-> StoredEntry(last, s)]
    BY <2>1, StoreFromIs
  <2>3. ASSUME NEW s \in Slots, entries'[s] # Nil
        PROVE  ClosureOf(entries'[s].closure, s[2])
    <3>1. entries'[s] = StoredEntry(last, s)
      BY <2>2
    <3>2. entries'[s].closure = Nil \/ (entries'[s] = entries[s] /\ entries[s] # Nil)
      BY <2>3, <3>1 DEF StoredEntry
    <3> QED
      BY <3>2 DEF Apart, ClosuresDeclared, ClosureOf
  <2>4. env'.globals = {}
    BY <1>6, EndsIs DEF NewEnv
  <2> QED
    BY <1>0, <2>3, <2>4 DEF Apart, ClosuresDeclared, ClosureOf, Declared
<1> QED
  BY <1>2, <1>3, <1>4, <1>5, <1>6, ApartRequires DEF StoreNext

\* A check stands on the module of a name: the store has one, or it is to be stored.
Named(n) == store[n] # Nil \/ (asked.phase = "walk" /\ n \in Stored)

\* The store has a name for the file a directory finds it at, and has every name that a
\* result it holds requires.
StorePlaced ==
  \A n \in ModuleNames : store[n] # Nil => \E d \in Dirs : project.find[d][n] = store[n]
EntriesNamed ==
  \A s \in Slots : entries[s] # Nil => \A n \in ModuleNames :
    entries[s].result.deps[n] # Nil => store[n] # Nil
LoadedNamed ==
  \A f \in Sources : env.loaded[f] # Nil => \A n \in ModuleNames :
    env.loaded[f].deps[n] # Nil => Named(n)
ModulesNamed ==
  \A n \in ModuleNames : env.modules[n] # Nil /\ env.modules[n] # Circular => Named(n)
FrameNamed(i) ==
  \A n \in ModuleNames : stack[i].deps[n] # Nil =>
    Named(n) \/ (i < Len(stack) /\ stack[i + 1].name = n)
FramesNamed == \A i \in DOMAIN stack : FrameNamed(i)
NamesKnown == StorePlaced /\ EntriesNamed /\ LoadedNamed /\ ModulesNamed /\ FramesNamed

\* A result has the errors of its file.
ErrsRight(r, f) == \A d \in Dirs : FoundIn(f, d) => r.errs = ErrsIn(f, d)
EntriesErrs == \A s \in Slots : entries[s] # Nil => ErrsRight(entries[s].result, s[2])
LoadedErrs == \A f \in Sources : env.loaded[f] # Nil => ErrsRight(env.loaded[f], f)
\* A walk has noted what it asked for and did not find.
FrameErrs(i) ==
  /\ stack[i].missing \subseteq Missing(stack[i].file, asked.dir)
  /\ Missing(stack[i].file, asked.dir) \subseteq Range(stack[i].todo) \cup stack[i].missing
FramesErrs == \A i \in DOMAIN stack : FrameErrs(i)
ErrsKnown == EntriesErrs /\ LoadedErrs /\ FramesErrs

\* What a `require` does to the innermost walk, and to the name it asks for.
TopAnswered(n, f, l) ==
  /\ stack'[l].name = Top.name /\ stack'[l].file = Top.file /\ stack'[l].todo = Tail(Top.todo)
  /\ \A m \in ModuleNames : m # n => stack'[l].deps[m] = Top.deps[m]
  /\ f # Nil => stack'[l].missing = Top.missing
  /\ f = Nil => stack'[l].deps = Top.deps /\ stack'[l].missing = Top.missing \cup {n}
OthersStay(n) ==
  \A m \in ModuleNames : m # n => /\ env'.modules[m] = env.modules[m]
                                  /\ env'.filenames[m] = env.filenames[m]
StackStays(l) == DOMAIN stack' = DOMAIN stack /\ Len(stack') = l
NameAnswered(n, f, l) ==
  \/ /\ StackStays(l) /\ env' = env
     /\ f # Nil => env.modules[n] # Nil
  \/ /\ StackStays(l) /\ OthersStay(n)
     /\ f # Nil /\ env.loaded[f] # Nil /\ env.modules[n] = Nil
     /\ env'.modules[n] = env.loaded[f].walk /\ env'.filenames[n] = f
  \/ /\ DOMAIN stack' = DOMAIN stack \cup {l + 1} /\ Len(stack') = l + 1
     /\ stack'[l + 1] = Frame(f, n)
     /\ OthersStay(n) /\ f # Nil /\ env.modules[n] = Nil /\ env'.modules[n] = Circular

TakesName(t, n, f) ==
  /\ t.name = Top.name /\ t.file = Top.file /\ t.todo = Tail(Top.todo)
  /\ \A m \in ModuleNames : m # n => t.deps[m] = Top.deps[m]
  /\ f # Nil => t.missing = Top.missing
  /\ f = Nil => t.deps = Top.deps /\ t.missing = Top.missing \cup {n}
LEMMA FrameBecomes ==
  ASSUME Shape, stack # <<>>, NEW n, NEW f, NEW l, l = Len(stack), NEW s, NEW t,
         SameBut(s, t), TakesName(t, n, f), stack' = s
  PROVE  /\ \A i \in DOMAIN stack : i # l => stack'[i] = stack[i]
         /\ TopAnswered(n, f, l) /\ StackStays(l)
BY FrontIs DEF Shape, Types, SameBut, TakesName, TopAnswered, StackStays

LEMMA FrameAdds ==
  ASSUME Shape, stack # <<>>, NEW n \in ModuleNames, NEW f \in Sources, NEW l, l = Len(stack),
         NEW s, NEW t, SameBut(s, t), TakesName(t, n, f), stack' = Append(s, Frame(f, n))
  PROVE  /\ \A i \in DOMAIN stack : i # l => stack'[i] = stack[i]
         /\ TopAnswered(n, f, l)
         /\ DOMAIN stack' = DOMAIN stack \cup {l + 1} /\ Len(stack') = l + 1
         /\ stack'[l + 1] = Frame(f, n)
<1> DEFINE u == Frame(f, n)
<1>1. l \in Nat \ {0} /\ DOMAIN stack = 1 .. l
  BY FrontIs DEF Shape, Types
<1>2. /\ s \in Seq(Frames) /\ Len(s) = l /\ DOMAIN s = DOMAIN stack /\ s[l] = t
      /\ \A i \in DOMAIN stack : i # l => s[i] = stack[i]
  BY DEF SameBut
<1>3. u \in Frames
  BY ProjectTyped DEF Frame, Frames, Shape, Types
<1> HIDE DEF u
<1>4. /\ DOMAIN stack' = DOMAIN stack \cup {l + 1} /\ Len(stack') = l + 1
      /\ stack'[l + 1] = u /\ \A i \in DOMAIN stack : stack'[i] = s[i]
  BY <1>1, <1>2, <1>3 DEF u
<1>5. TopAnswered(n, f, l)
  <2>1. stack'[l] = t
    BY <1>1, <1>2, <1>4
  <2> QED
    BY <2>1 DEF TopAnswered, TakesName
<1> QED
  BY <1>2, <1>4, <1>5 DEF u

LEMMA RequireSteps ==
  ASSUME Shape, Require, NEW n, n = Head(Top.todo), NEW f, f = Found(n), NEW l, l = Len(stack)
  PROVE  /\ n \in ModuleNames /\ f \in Sources \cup {Nil} /\ asked.phase = "walk"
         /\ l \in Nat \ {0} /\ DOMAIN stack = 1 .. l /\ Top = stack[l] /\ Top \in Frames
         /\ \A i \in DOMAIN stack : i # l => stack'[i] = stack[i]
         /\ TopAnswered(n, f, l) /\ NameAnswered(n, f, l)
<1>1. /\ asked.phase = "walk" /\ stack # <<>> /\ Top.todo # <<>> /\ stack \in Seq(Frames)
  BY RequireIs DEF Shape, Types
<1>2. n \in ModuleNames /\ f \in Sources \cup {Nil} /\ Top \in Frames
  BY <1>1, HeadIs, FoundTyped DEF Shape
<1>3. l \in Nat \ {0} /\ DOMAIN stack = 1 .. l /\ Top = stack[l]
  BY <1>1, FrontIs
<1>4. \A x \in Sources \cup {Nil} : SameBut(Answered(n, x), WithDep(n, x))
  BY <1>1, <1>2, AnsweredIs
<1>5. ASSUME NEW x \in Sources \cup {Nil}, f # Nil PROVE TakesName(WithDep(n, x), n, f)
  BY <1>2, <1>5, WithDepIs DEF WithDep, TakesName
<1>6. CASE AnswersKnown(n)
  <2> DEFINE s == Answered(n, env.filenames[n])
             t == WithDep(n, env.filenames[n])
  <2>1. env.modules[n] # Nil /\ env' = env /\ stack' = s
    BY <1>6 DEF AnswersKnown
  <2>2. env.filenames[n] \in Sources /\ f # Nil
    BY <1>2, <2>1 DEF Shape, Types, Envs, Placed
  <2>3. SameBut(s, t) /\ TakesName(t, n, f)
    BY <1>4, <1>5, <2>2
  <2> HIDE DEF s, t
  <2>4. (\A i \in DOMAIN stack : i # l => stack'[i] = stack[i]) /\ TopAnswered(n, f, l)
        /\ StackStays(l)
    BY <1>1, <2>1, <2>3, FrameBecomes
  <2> QED
    BY <1>1, <1>2, <1>3, <2>1, <2>4 DEF NameAnswered
<1>7. CASE AnswersNothing(n)
  <2> DEFINE s == NotFound(n)
             t == WithMissing(n)
  <2>1. f = Nil /\ env' = env /\ stack' = s
    BY <1>7 DEF AnswersNothing
  <2>2. SameBut(s, t) /\ TakesName(t, n, f)
    BY <1>1, <1>2, <2>1, NotFoundIs DEF WithMissing, TakesName
  <2> HIDE DEF s, t
  <2>3. (\A i \in DOMAIN stack : i # l => stack'[i] = stack[i]) /\ TopAnswered(n, f, l)
        /\ StackStays(l)
    BY <1>1, <2>1, <2>2, FrameBecomes
  <2> QED
    BY <1>1, <1>2, <1>3, <2>1, <2>3 DEF NameAnswered
<1>8. ASSUME f \in Sources, f # Nil
      PROVE  SameBut(Answered(n, f), WithDep(n, f)) /\ TakesName(WithDep(n, f), n, f)
  BY <1>4, <1>5, <1>8
<1>9. CASE AnswersServed(n)
  <2> DEFINE gs == Delivered(f).globals
  <2>1. /\ f \in Sources /\ f # Nil /\ env.loaded[f] # Nil /\ env.modules[n] = Nil
        /\ stack' = Answered(n, f)
        /\ env' = [env EXCEPT !.globals = @ \cup gs, !.filenames[n] = f,
                              !.modules[n] = env.loaded[f].walk]
    BY <1>2, <1>9 DEF AnswersServed
  <2> HIDE DEF gs
  <2>2. /\ env'.modules = [env.modules EXCEPT ![n] = env.loaded[f].walk]
        /\ env'.filenames = [env.filenames EXCEPT ![n] = f]
    BY <2>1 DEF Shape, Types, Envs
  <2>3. OthersStay(n) /\ env'.modules[n] = env.loaded[f].walk /\ env'.filenames[n] = f
    BY <1>2, <2>2 DEF Shape, Types, Envs, OthersStay
  <2>4. (\A i \in DOMAIN stack : i # l => stack'[i] = stack[i]) /\ TopAnswered(n, f, l)
        /\ StackStays(l)
    BY <1>1, <1>8, <2>1, FrameBecomes
  <2> QED
    BY <1>1, <1>2, <1>3, <2>1, <2>3, <2>4 DEF NameAnswered
<1>10. CASE AnswersWalking(n)
  <2>1. /\ f \in Sources /\ f # Nil /\ env.modules[n] = Nil
        /\ stack' = Append(Answered(n, f), Frame(f, n))
        /\ env' = [env EXCEPT !.modules[n] = Circular, !.filenames[n] = f]
    BY <1>2, <1>10 DEF AnswersWalking
  <2>2. /\ env'.modules = [env.modules EXCEPT ![n] = Circular]
        /\ env'.filenames = [env.filenames EXCEPT ![n] = f]
    BY <2>1 DEF Shape, Types, Envs
  <2>3. OthersStay(n) /\ env'.modules[n] = Circular
    BY <1>2, <2>2 DEF Shape, Types, Envs, OthersStay
  <2>4. /\ \A i \in DOMAIN stack : i # l => stack'[i] = stack[i]
        /\ TopAnswered(n, f, l)
        /\ DOMAIN stack' = DOMAIN stack \cup {l + 1} /\ Len(stack') = l + 1
        /\ stack'[l + 1] = Frame(f, n)
    BY <1>1, <1>2, <1>8, <2>1, FrameAdds
  <2> QED
    BY <1>1, <1>2, <1>3, <2>1, <2>3, <2>4 DEF NameAnswered
<1> QED
  BY <1>6, <1>7, <1>9, <1>10, RequireIs

\* What a state knows of the names and of the errors.
Says == NamesKnown /\ ErrsKnown

LEMMA SaysBegins == StoreInit => Says
BY DEF StoreInit, NewEnv, Says, NamesKnown, StorePlaced, EntriesNamed, LoadedNamed, ModulesNamed,
       FramesNamed, ErrsKnown, EntriesErrs, LoadedErrs, FramesErrs

\* The part of the store, where no name and no result changes.
LEMMA SameSaid ==
  ASSUME Says, SameResults(entries'), UNCHANGED <<project, store>>
  PROVE  StorePlaced' /\ EntriesNamed' /\ EntriesErrs'
<1>1. \A s \in Slots : entries'[s] # Nil => entries[s] # Nil /\ entries'[s].result = entries[s].result
  BY DEF SameResults
<1>2. StorePlaced' /\ EntriesNamed'
  BY <1>1 DEF Says, NamesKnown, StorePlaced, EntriesNamed
<1>3. EntriesErrs'
  BY <1>1 DEF Says, ErrsKnown, EntriesErrs, ErrsRight, FoundIn, ErrsIn, Missing, Declared
<1> QED
  BY <1>2, <1>3

\* The part of an environment, where no result changes.
LEMMA SameEnv ==
  ASSUME Says, project' = project, env'.loaded = env.loaded,
         \A m \in ModuleNames : Named(m) => Named(m)'
  PROVE  LoadedNamed' /\ LoadedErrs'
<1>1. LoadedNamed'
  <2> SUFFICES ASSUME NEW f \in Sources, env.loaded[f] # Nil, NEW n \in ModuleNames,
                      env.loaded[f].deps[n] # Nil
               PROVE  Named(n)'
    BY DEF LoadedNamed, Named, Stored
  <2> QED
    BY DEF Says, NamesKnown, LoadedNamed
<1>2. LoadedErrs'
  BY DEF Says, ErrsKnown, LoadedErrs, ErrsRight, FoundIn, ErrsIn, Missing, Declared
<1> QED
  BY <1>1, <1>2

LEMMA NoFrames ==
  ASSUME stack' = <<>>
  PROVE  FramesNamed' /\ FramesErrs'
<1>1. DOMAIN stack' = {}
  OBVIOUS
<1> QED
  BY <1>1 DEF FramesNamed, FramesErrs

LEMMA NewEnvSays ==
  ASSUME env' = NewEnv
  PROVE  LoadedNamed' /\ LoadedErrs' /\ ModulesNamed'
BY DEF NewEnv, LoadedNamed, LoadedErrs, ModulesNamed

LEMMA SaysBegin ==
  ASSUME Shape, Says, NEW f \in Sources, NEW d \in Dirs, NEW cold \in BOOLEAN, Begin(f, d, cold)
  PROVE  Says'
<1>1. UNCHANGED <<project, store, entries>> /\ env' = NewEnv /\ stack' = <<>>
  BY DEF Begin, Shape, Phases
<1> QED
  BY <1>1, SameSaid, SameEntries, NoFrames, NewEnvSays DEF Says, NamesKnown, ErrsKnown

\* What seeding an entry does to the environment.
LEMMA SeedIs ==
  ASSUME Shape, NEW n \in ModuleNames, SeedEntry(n), NEW f, f = store[n],
         NEW r, r = entries[<<n, f>>].result
  PROVE  /\ asked.phase = "seed" /\ asked'.phase = "seed" /\ asked'.dir = asked.dir
         /\ stack = <<>> /\ stack' = <<>> /\ UNCHANGED <<project, store, byFile>>
         /\ SameResults(entries')
         /\ f \in Sources /\ f # Nil /\ <<n, f>> \in Slots /\ entries[<<n, f>>] # Nil
         /\ \/ env' = env
            \/ /\ Found(n) = f
               /\ \A h \in Sources : env'.loaded[h] = IF h = f THEN r ELSE env.loaded[h]
               /\ \A m \in ModuleNames : m # n => env'.modules[m] = env.modules[m]
<1> DEFINE g == GlobalsBelow(<<n, f>>)
<1>1. /\ asked.phase = "seed" /\ n \in asked.toSeed /\ stack = <<>> /\ stack' = <<>>
      /\ asked' = [asked EXCEPT !.toSeed = asked.toSeed \ {n}]
      /\ UNCHANGED <<project, store, byFile>>
  BY DEF SeedEntry, Shape, Phases
<1>2. asked'.phase = "seed" /\ asked'.dir = asked.dir
  BY <1>1 DEF Shape, Types, Askings
<1>3. f \in Sources /\ f # Nil /\ <<n, f>> \in Slots /\ entries[<<n, f>>] # Nil
  BY <1>1, SeededIs, NilAssumption
<1>4. CASE Found(n) # f
  BY <1>1, <1>2, <1>3, <1>4, SameEntries DEF SeedEntry
<1>5. CASE Found(n) = f
  <2>1. /\ entries' = Remember(g.memo)
        /\ env' = [env EXCEPT !.loaded[f] = r, !.modules[n] = IF g.out = {} THEN r.walk ELSE @,
                              !.filenames[n] = IF g.out = {} THEN f ELSE @]
    BY <1>5 DEF SeedEntry
  <2>2. SameResults(entries')
    <3>1. g \in Scope
      BY <1>3, GlobalsBelowTyped DEF Shape, Types, Leads
    <3>2. g.memo \in Memos
      BY <3>1 DEF Scope
    <3> QED
      BY <2>1, <3>2, Remembers DEF Shape, Types
  <2> HIDE DEF g
  <2>3. /\ env'.loaded = [env.loaded EXCEPT ![f] = r]
        /\ env'.modules = [env.modules EXCEPT ![n] = IF g.out = {} THEN r.walk ELSE @]
    BY <2>1 DEF Shape, Types, Envs
  <2>4. \A h \in Sources : env'.loaded[h] = IF h = f THEN r ELSE env.loaded[h]
    BY <1>3, <2>3 DEF Shape, Types, Envs
  <2>5. \A m \in ModuleNames : m # n => env'.modules[m] = env.modules[m]
    BY <2>3 DEF Shape, Types, Envs
  <2> QED
    BY <1>1, <1>2, <1>3, <1>5, <2>2, <2>4, <2>5
<1> QED
  BY <1>4, <1>5

LEMMA SaysSeeds ==
  ASSUME Shape, Says, NEW n \in ModuleNames, SeedEntry(n)
  PROVE  Says'
<1> SUFFICES ASSUME NEW f, f = store[n], NEW r, r = entries[<<n, f>>].result PROVE Says'
  OBVIOUS
<1>1. /\ asked.phase = "seed" /\ asked'.phase = "seed" /\ stack' = <<>>
      /\ UNCHANGED <<project, store>> /\ SameResults(entries')
      /\ f \in Sources /\ f # Nil /\ <<n, f>> \in Slots /\ entries[<<n, f>>] # Nil
  BY SeedIs
<1>2. \A m \in ModuleNames : (Named(m) <=> store[m] # Nil) /\ (Named(m)' <=> store[m] # Nil)
  BY <1>1 DEF Named
<1>3. CASE env' = env
  <2>1. ModulesNamed'
    BY <1>2, <1>3 DEF Says, NamesKnown, ModulesNamed, Named, Stored
  <2> QED
    BY <1>1, <1>2, <1>3, <2>1, SameSaid, SameEnv, NoFrames DEF Says, NamesKnown, ErrsKnown
<1>4. ASSUME \A h \in Sources : env'.loaded[h] = IF h = f THEN r ELSE env.loaded[h],
             \A m \in ModuleNames : m # n => env'.modules[m] = env.modules[m]
      PROVE  Says'
  <2>1. ErrsRight(r, f) /\ \A m \in ModuleNames : r.deps[m] # Nil => store[m] # Nil
    <3>1. ErrsRight(entries[<<n, f>>].result, <<n, f>>[2])
      BY <1>1 DEF Says, ErrsKnown, EntriesErrs
    <3> QED
      BY <1>1, <3>1 DEF Says, NamesKnown, EntriesNamed
  <2>2. LoadedNamed'
    <3> SUFFICES ASSUME NEW h \in Sources, env'.loaded[h] # Nil, NEW m \in ModuleNames,
                        env'.loaded[h].deps[m] # Nil
                 PROVE  Named(m)'
      BY DEF LoadedNamed, Named, Stored
    <3>1. CASE h = f
      BY <1>2, <1>4, <2>1, <3>1
    <3>2. CASE h # f
      BY <1>2, <1>4, <3>2 DEF Says, NamesKnown, LoadedNamed
    <3> QED
      BY <3>1, <3>2
  <2>3. ModulesNamed'
    <3> SUFFICES ASSUME NEW m \in ModuleNames, env'.modules[m] # Nil, env'.modules[m] # Circular
                 PROVE  Named(m)'
      BY DEF ModulesNamed, Named, Stored
    <3>1. CASE m = n
      BY <1>1, <1>2, <3>1
    <3>2. CASE m # n
      BY <1>2, <1>4, <3>2 DEF Says, NamesKnown, ModulesNamed
    <3> QED
      BY <3>1, <3>2
  <2>4. LoadedErrs'
    <3> SUFFICES ASSUME NEW h \in Sources, env'.loaded[h] # Nil
                 PROVE  ErrsRight(env'.loaded[h], h)
      BY <1>1 DEF LoadedErrs, ErrsRight, FoundIn, ErrsIn, Missing, Declared
    <3>1. CASE h = f
      BY <1>4, <2>1, <3>1
    <3>2. CASE h # f
      BY <1>4, <3>2 DEF Says, ErrsKnown, LoadedErrs
    <3> QED
      BY <3>1, <3>2
  <2> QED
    BY <1>1, <2>2, <2>3, <2>4, SameSaid, NoFrames DEF Says, NamesKnown, ErrsKnown
<1> QED
  BY <1>3, <1>4, SeedIs

LEMMA SaysOpens == Shape /\ Says /\ OpenFile => Says'
<1> SUFFICES ASSUME Shape, Says, OpenFile PROVE Says'
  OBVIOUS
<1> DEFINE t == Frame(asked.file, Nil)
<1>1. /\ UNCHANGED <<project, store, entries, env>> /\ asked' = [asked EXCEPT !.phase = "walk"]
      /\ stack' = IF env.loaded[asked.file] = Nil THEN <<t>> ELSE <<>>
      /\ asked.phase = "seed"
  BY DEF OpenFile
<1>2. asked'.phase = "walk" /\ asked'.dir = asked.dir
  BY <1>1 DEF Shape, Types, Askings
<1>3. \A m \in ModuleNames : Named(m) => Named(m)'
  BY <1>1 DEF Named
<1>4. ModulesNamed'
  <2> SUFFICES ASSUME NEW m \in ModuleNames, env.modules[m] # Nil, env.modules[m] # Circular
               PROVE  Named(m)'
    BY <1>1 DEF ModulesNamed, Named, Stored
  <2> QED
    BY <1>3 DEF Says, NamesKnown, ModulesNamed
<1>5. t.file = asked.file /\ t.todo = project.reqs[asked.file] /\ t.missing = {}
      /\ \A n \in ModuleNames : t.deps[n] = Nil
  BY DEF Frame
<1> HIDE DEF t
<1>6. \A i \in DOMAIN stack' : stack'[i] = t
  BY <1>1
<1>7. FramesNamed'
  BY <1>5, <1>6 DEF FramesNamed, FrameNamed
<1>8. FramesErrs'
  <2> SUFFICES ASSUME NEW i \in DOMAIN stack' PROVE FrameErrs(i)'
    BY DEF FramesErrs
  <2>1. Missing(t.file, asked.dir) \subseteq Range(t.todo) \cup t.missing
    BY <1>5 DEF Missing
  <2> QED
    BY <1>1, <1>2, <1>5, <1>6, <2>1 DEF FrameErrs, Missing
<1> QED
  BY <1>1, <1>3, <1>4, <1>7, <1>8, SameSaid, SameEntries, SameEnv DEF Says, NamesKnown, ErrsKnown

\* A frame deeper in the stack.
LEMMA FrameSaysSame ==
  ASSUME Says, NEW i \in DOMAIN stack, UNCHANGED <<project, asked>>, stack'[i] = stack[i],
         \A m \in ModuleNames : Named(m) => Named(m)',
         \A m \in ModuleNames : i < Len(stack) /\ stack[i + 1].name = m =>
           Named(m)' \/ (i < Len(stack') /\ stack'[i + 1].name = m)
  PROVE  FrameNamed(i)' /\ FrameErrs(i)'
<1>1. FrameNamed(i)'
  <2> SUFFICES ASSUME NEW n \in ModuleNames, stack[i].deps[n] # Nil
               PROVE  Named(n)' \/ (i < Len(stack') /\ stack'[i + 1].name = n)
    BY DEF FrameNamed, Named, Stored
  <2> QED
    BY DEF Says, NamesKnown, FramesNamed, FrameNamed
<1>2. FrameErrs(i)'
  BY DEF Says, ErrsKnown, FramesErrs, FrameErrs, Missing
<1> QED
  BY <1>1, <1>2

-----------------------------------------------------------------------------
(* A check has the globals of every module that its walks required.         *)

Decl(f) == project.decl[f]
\* The index holds the result that the names of a file hold.
OneIndex ==
  \A n \in ModuleNames : store[n] # Nil =>
    byFile[store[n]] # Nil /\ entries[SlotOf(store[n])].result = ResultAt(n)
\* A result in hand was walked here, or is the one whose globals are handed over.
Walks(f) == Decl(f) \subseteq env.globals
Indexes(f) == byFile[f] # Nil /\ env.loaded[f] = entries[SlotOf(f)].result
LoadedHanded == \A f \in Sources : env.loaded[f] # Nil => Walks(f) \/ Indexes(f)
ModulesHanded ==
  \A n \in ModuleNames : env.modules[n] # Nil /\ env.modules[n] # Circular => Walks(env.filenames[n])
FrameHanded(i) ==
  \A n \in ModuleNames : stack[i].deps[n] # Nil =>
    Walks(stack[i].deps[n]) \/ (i < Len(stack) /\ stack[i + 1].name = n)
FramesHanded == \A i \in DOMAIN stack : FrameHanded(i)
Handed == OneIndex /\ LoadedHanded /\ ModulesHanded /\ FramesHanded

LEMMA HandedBegins == StoreInit => Handed
BY DEF StoreInit, NewEnv, Handed, OneIndex, LoadedHanded, ModulesHanded, FramesHanded

LEMMA NewEnvHanded ==
  ASSUME env' = NewEnv, stack' = <<>>
  PROVE  LoadedHanded' /\ ModulesHanded' /\ FramesHanded'
BY DEF NewEnv, LoadedHanded, ModulesHanded, FramesHanded

\* While no result of the store changes.
LEMMA SameIndex ==
  ASSUME Shape, OneIndex, UNCHANGED <<project, store, byFile>>, SameResults(entries')
  PROVE  /\ OneIndex'
         /\ \A f \in Sources : Indexes(f) /\ env'.loaded[f] = env.loaded[f] => Indexes(f)'
<1>1. ASSUME NEW f \in Sources, byFile[f] # Nil
      PROVE  SlotOf(f)' = SlotOf(f) /\ entries'[SlotOf(f)].result = entries[SlotOf(f)].result
  BY <1>1, SlotOfTyped DEF Shape, Leads, SameResults, SlotOf
<1>2. OneIndex'
  <2> SUFFICES ASSUME NEW n \in ModuleNames, store[n] # Nil, NEW f, f = store[n]
               PROVE  byFile[f] # Nil /\ entries'[SlotOf(f)'].result = entries'[<<n, f>>].result
    BY DEF OneIndex, ResultAt, SlotOf
  <2>1. f \in Sources /\ byFile[f] # Nil /\ entries[SlotOf(f)].result = entries[<<n, f>>].result
    BY HeldIs DEF OneIndex, ResultAt
  <2>2. entries'[<<n, f>>].result = entries[<<n, f>>].result
    BY HeldIs DEF SameResults
  <2> QED
    BY <1>1, <2>1, <2>2
<1>3. ASSUME NEW f \in Sources, Indexes(f), env'.loaded[f] = env.loaded[f] PROVE Indexes(f)'
  BY <1>1, <1>3 DEF Indexes, SlotOf
<1> QED
  BY <1>2, <1>3

\* While a check has no fewer globals.
LEMMA WalksStay ==
  ASSUME project' = project, env.globals \subseteq env'.globals
  PROVE  \A f : Walks(f) => Walks(f)'
BY DEF Walks, Decl

LEMMA HandedBegin ==
  ASSUME Shape, Handed, NEW f \in Sources, NEW d \in Dirs, NEW cold \in BOOLEAN, Begin(f, d, cold)
  PROVE  Handed'
<1>1. UNCHANGED <<project, store, byFile, entries>> /\ env' = NewEnv /\ stack' = <<>>
  BY DEF Begin, Shape, Phases
<1> QED
  BY <1>1, SameIndex, SameEntries, NewEnvHanded DEF Handed

\* A module is seeded only where its file declares nothing.
LEMMA SeedHands ==
  ASSUME Shape, Apart, NEW n \in ModuleNames, SeedEntry(n), NEW f, f = store[n], f \in Sources,
         env.modules \in [ModuleNames -> Nat \cup {Nil}]
  PROVE  /\ env'.globals = env.globals
         /\ \A m \in ModuleNames :
              \/ env'.modules[m] = env.modules[m] /\ env'.filenames[m] = env.filenames[m]
              \/ env'.filenames[m] = f /\ Decl(f) = {}
<1> DEFINE g == GlobalsBelow(<<n, f>>)
           r == entries[<<n, f>>].result
<1>0. n \in asked.toSeed
  BY DEF SeedEntry
<1>1. CASE Found(n) # f
  BY <1>1 DEF SeedEntry
<1>2. CASE Found(n) = f
  <2>1. <<n, f>> \in Slots /\ entries[<<n, f>>] # Nil
    BY <1>0, SeededIs
  <2>2. g \in ScopeAbove(Declared, project.decl, project.decl[f])
    BY <2>1, BelowDeclared DEF Apart
  <2>3. env' = [env EXCEPT !.loaded[f] = r, !.modules[n] = IF g.out = {} THEN r.walk ELSE @,
                           !.filenames[n] = IF g.out = {} THEN f ELSE @]
    BY <1>2 DEF SeedEntry
  <2> HIDE DEF g, r
  <2>4. Decl(f) \subseteq g.out
    BY <2>2 DEF ScopeAbove, Decl
  <2>5. /\ env'.globals = env.globals
        /\ env'.modules = [env.modules EXCEPT ![n] = IF g.out = {} THEN r.walk ELSE @]
        /\ env'.filenames = [env.filenames EXCEPT ![n] = IF g.out = {} THEN f ELSE @]
    BY <2>3 DEF Shape, Types, Envs
  <2>6. env.modules \in [ModuleNames -> Nat \cup {Nil}]
        /\ env.filenames \in [ModuleNames -> Sources \cup {Nil}]
    BY DEF Shape, Types, Envs
  <2>7. ASSUME NEW m \in ModuleNames
        PROVE  \/ env'.modules[m] = env.modules[m] /\ env'.filenames[m] = env.filenames[m]
               \/ env'.filenames[m] = f /\ Decl(f) = {}
    BY <2>4, <2>5, <2>6
  <2> QED
    BY <2>5, <2>7
<1> QED
  BY <1>1, <1>2

LEMMA HandedSeeds ==
  ASSUME Shape, Apart, Handed, NEW n \in ModuleNames, SeedEntry(n)
  PROVE  Handed'
<1> SUFFICES ASSUME NEW f, f = store[n], NEW r, r = entries[<<n, f>>].result PROVE Handed'
  OBVIOUS
<1>1. /\ stack' = <<>> /\ UNCHANGED <<project, store, byFile>> /\ SameResults(entries')
      /\ f \in Sources /\ f # Nil
      /\ \/ env' = env
         \/ \A h \in Sources : env'.loaded[h] = IF h = f THEN r ELSE env.loaded[h]
  BY SeedIs
<1>2. /\ env'.globals = env.globals
      /\ \A m \in ModuleNames :
           \/ env'.modules[m] = env.modules[m] /\ env'.filenames[m] = env.filenames[m]
           \/ env'.filenames[m] = f /\ Decl(f) = {}
  BY <1>1, SeedHands DEF Shape, Types, Envs
<1>3. OneIndex' /\ \A h \in Sources : Indexes(h) /\ env'.loaded[h] = env.loaded[h] => Indexes(h)'
  BY <1>1, SameIndex DEF Handed
<1>4. \A h : Walks(h) => Walks(h)'
  BY <1>1, <1>2, WalksStay
<1>5. LoadedHanded'
  <2> SUFFICES ASSUME NEW h \in Sources, env'.loaded[h] # Nil PROVE Walks(h)' \/ Indexes(h)'
    BY DEF LoadedHanded, Walks, Indexes, Decl, SlotOf
  <2>1. CASE env'.loaded[h] = env.loaded[h]
    BY <1>3, <1>4, <2>1 DEF Handed, LoadedHanded
  <2>2. CASE h = f /\ env'.loaded[f] = r
    <3>1. byFile[f] # Nil /\ entries[SlotOf(f)].result = r
      BY <1>1 DEF Handed, OneIndex, ResultAt
    <3>2. SlotOf(f) \in Slots /\ entries[SlotOf(f)] # Nil /\ SlotOf(f)' = SlotOf(f)
      BY <1>1, <3>1, SlotOfTyped DEF Shape, Leads, SlotOf
    <3> QED
      BY <1>1, <2>2, <3>1, <3>2 DEF Indexes, SameResults, SlotOf
  <2> QED
    BY <1>1, <2>1, <2>2
<1>6. ModulesHanded'
  <2> SUFFICES ASSUME NEW m \in ModuleNames, env'.modules[m] # Nil, env'.modules[m] # Circular,
                      NEW h, h = env'.filenames[m]
               PROVE  Walks(h)'
    BY DEF ModulesHanded, Walks, Decl
  <2>1. CASE env'.modules[m] = env.modules[m] /\ env'.filenames[m] = env.filenames[m]
    BY <1>4, <2>1 DEF Handed, ModulesHanded
  <2>2. CASE h = f /\ Decl(f) = {}
    BY <1>1, <2>2 DEF Walks, Decl
  <2> QED
    BY <1>2, <2>1, <2>2
<1>7. FramesHanded'
  <2>1. DOMAIN stack' = {}
    BY <1>1
  <2> QED
    BY <2>1 DEF FramesHanded
<1> QED
  BY <1>3, <1>5, <1>6, <1>7 DEF Handed

LEMMA SameLoadedHanded ==
  ASSUME Shape, Handed, UNCHANGED <<project, store, byFile>>, SameResults(entries'),
         env'.loaded = env.loaded, env.globals \subseteq env'.globals
  PROVE  OneIndex' /\ LoadedHanded'
<1>1. OneIndex' /\ \A f \in Sources : Indexes(f) => Indexes(f)'
  BY SameIndex DEF Handed
<1>2. \A f : Walks(f) => Walks(f)'
  BY WalksStay
<1>3. LoadedHanded'
  <2> SUFFICES ASSUME NEW f \in Sources, env.loaded[f] # Nil PROVE Walks(f)' \/ Indexes(f)'
    BY DEF LoadedHanded, Walks, Indexes, Decl, SlotOf
  <2> QED
    BY <1>1, <1>2 DEF Handed, LoadedHanded
<1> QED
  BY <1>1, <1>3

LEMMA HandedOpens == Shape /\ Handed /\ OpenFile => Handed'
<1> SUFFICES ASSUME Shape, Handed, OpenFile PROVE Handed'
  OBVIOUS
<1> DEFINE t == Frame(asked.file, Nil)
<1>1. /\ UNCHANGED <<project, store, byFile, entries, env>>
      /\ stack' = IF env.loaded[asked.file] = Nil THEN <<t>> ELSE <<>>
  BY DEF OpenFile
<1>2. OneIndex' /\ LoadedHanded'
  BY <1>1, SameEntries, SameLoadedHanded
<1>3. ModulesHanded'
  BY <1>1 DEF Handed, ModulesHanded, Walks, Decl
<1>4. \A n \in ModuleNames : t.deps[n] = Nil
  BY DEF Frame
<1> HIDE DEF t
<1>5. \A i \in DOMAIN stack' : stack'[i] = t
  BY <1>1
<1>6. FramesHanded'
  BY <1>4, <1>5 DEF FramesHanded, FrameHanded
<1> QED
  BY <1>2, <1>3, <1>6 DEF Handed

\* A frame deeper in the stack.
LEMMA FrameHandsSame ==
  ASSUME Handed, NEW i \in DOMAIN stack, stack'[i] = stack[i], \A f : Walks(f) => Walks(f)',
         \A m \in ModuleNames : i < Len(stack) /\ stack[i + 1].name = m /\ stack[i].deps[m] # Nil =>
           Walks(stack[i].deps[m])' \/ (i < Len(stack') /\ stack'[i + 1].name = m)
  PROVE  FrameHanded(i)'
<1> SUFFICES ASSUME NEW n \in ModuleNames, stack[i].deps[n] # Nil, NEW f, f = stack[i].deps[n]
             PROVE  Walks(f)' \/ (i < Len(stack') /\ stack'[i + 1].name = n)
  BY DEF FrameHanded, Walks, Decl
<1>1. Walks(f) \/ (i < Len(stack) /\ stack[i + 1].name = n)
  BY DEF Handed, FramesHanded, FrameHanded
<1>2. CASE Walks(f)
  BY <1>2
<1>3. CASE i < Len(stack) /\ stack[i + 1].name = n
  BY <1>3 DEF Walks, Decl
<1> QED
  BY <1>1, <1>2, <1>3

\* A `require` takes no global away, and one that is served brings those of its module.
LEMMA RequireHands ==
  ASSUME Shape, Apart, Handed, Require, NEW n, n = Head(Top.todo), NEW f, f = Found(n)
  PROVE  /\ env.globals \subseteq env'.globals
         /\ env.modules[n] = Nil /\ f # Nil /\ env.loaded[f] # Nil => Walks(f)'
<1>1. n \in ModuleNames /\ f \in Sources \cup {Nil} /\ project' = project
  BY RequireIs, HeadIs, FoundTyped DEF Shape, Types
<1>2. CASE AnswersKnown(n) \/ AnswersNothing(n)
  BY <1>2 DEF AnswersKnown, AnswersNothing
<1>3. CASE AnswersServed(n)
  <2> DEFINE gs == Delivered(f).globals
  <2>1. /\ f \in Sources /\ env.loaded[f] # Nil
        /\ env' = [env EXCEPT !.globals = @ \cup gs, !.filenames[n] = f,
                              !.modules[n] = env.loaded[f].walk]
    BY <1>1, <1>3 DEF AnswersServed
  <2>2. Indexes(f) => Decl(f) \subseteq gs
    BY <2>1, DeliveredDeclared DEF Apart, Indexes, Decl
  <2> HIDE DEF gs
  <2>3. env'.globals = env.globals \cup gs
    BY <2>1 DEF Shape, Types, Envs
  <2>4. Walks(f) \/ Indexes(f)
    BY <2>1 DEF Handed, LoadedHanded
  <2> QED
    BY <1>1, <2>2, <2>3, <2>4 DEF Walks, Decl
<1>4. CASE AnswersWalking(n)
  <2>1. env' = [env EXCEPT !.modules[n] = Circular, !.filenames[n] = f] /\ env.loaded[f] = Nil
    BY <1>4 DEF AnswersWalking
  <2> QED
    BY <2>1 DEF Shape, Types, Envs
<1> QED
  BY <1>2, <1>3, <1>4, RequireIs

LEMMA HandedRequires == Shape /\ Whole /\ Apart /\ Handed /\ Require => Handed'
<1> SUFFICES ASSUME Shape, Whole, Apart, Handed, Require, NEW n, n = Head(Top.todo),
                    NEW f, f = Found(n), NEW l, l = Len(stack)
             PROVE  Handed'
  OBVIOUS
<1>0. UNCHANGED <<project, store, byFile, asked>> /\ SameResults(entries') /\ env'.loaded = env.loaded
      /\ stack # <<>> /\ Top.todo # <<>>
  BY RequireIs, RequireKeeps
<1>1. /\ n \in ModuleNames /\ f \in Sources \cup {Nil} /\ asked.phase = "walk"
      /\ l \in Nat \ {0} /\ DOMAIN stack = 1 .. l /\ Top = stack[l] /\ Top \in Frames
      /\ \A i \in DOMAIN stack : i # l => stack'[i] = stack[i]
      /\ TopAnswered(n, f, l) /\ NameAnswered(n, f, l)
  BY RequireSteps
<1>2. env.modules[n] # Circular
  BY <1>0, <1>1, NextIs
<1>3. /\ env.globals \subseteq env'.globals
      /\ env.modules[n] = Nil /\ f # Nil /\ env.loaded[f] # Nil => Walks(f)'
  BY RequireHands
<1>4. \A h : Walks(h) => Walks(h)'
  BY <1>0, <1>3, WalksStay
<1>5. OneIndex' /\ LoadedHanded'
  BY <1>0, <1>3, SameLoadedHanded
<1>6. Whole' /\ \A m : Found(m)' = Found(m)
  BY <1>0, WholeRequires DEF Found
<1>7. env.modules[n] # Nil => Walks(f)
  <2> SUFFICES ASSUME env.modules[n] # Nil PROVE Walks(f)
    OBVIOUS
  <2>1. env.filenames[n] = f
    BY <1>1 DEF Shape, Placed
  <2> QED
    BY <1>1, <1>2, <2>1 DEF Handed, ModulesHanded
\* The module that is answered with has handed its globals, unless its file is walked now.
<1>8. f # Nil => Walks(f)' \/ (Len(stack') = l + 1 /\ l + 1 \in DOMAIN stack' /\ stack'[l + 1].name = n)
  <2> SUFFICES ASSUME f # Nil
               PROVE  \/ Walks(f)'
                      \/ Len(stack') = l + 1 /\ l + 1 \in DOMAIN stack' /\ stack'[l + 1].name = n
    OBVIOUS
  <2>1. CASE env.modules[n] # Nil
    BY <1>4, <1>7, <2>1
  <2>2. CASE env.modules[n] = Nil /\ env.loaded[f] # Nil
    BY <1>3, <2>2
  <2>3. CASE /\ DOMAIN stack' = DOMAIN stack \cup {l + 1} /\ Len(stack') = l + 1
             /\ stack'[l + 1] = Frame(f, n)
    BY <2>3 DEF Frame
  <2> QED
    BY <1>1, <2>1, <2>2, <2>3 DEF NameAnswered
<1>9. ModulesHanded'
  <2> SUFFICES ASSUME NEW m \in ModuleNames, env'.modules[m] # Nil, env'.modules[m] # Circular,
                      NEW h, h = env'.filenames[m]
               PROVE  Walks(h)'
    BY DEF ModulesHanded, Walks, Decl
  <2>1. CASE env'.modules[m] = env.modules[m] /\ env'.filenames[m] = env.filenames[m]
    BY <1>4, <2>1 DEF Handed, ModulesHanded
  <2>2. CASE m = n /\ f # Nil /\ env.loaded[f] # Nil /\ env.modules[n] = Nil /\ env'.filenames[n] = f
    BY <1>3, <2>2
  <2> QED
    BY <1>1, <2>1, <2>2 DEF NameAnswered, OthersStay
<1>10. \A i \in DOMAIN stack' : i \in DOMAIN stack \/ (i = l + 1 /\ stack'[i] = Frame(f, n))
  BY <1>1 DEF NameAnswered, StackStays
<1>11. Len(stack') \in Nat /\ Len(stack') >= l
  BY <1>1 DEF NameAnswered, StackStays
<1>12. stack'[l].name = Top.name /\ \A m \in ModuleNames : m # n => stack'[l].deps[m] = Top.deps[m]
  BY <1>1 DEF TopAnswered
<1>13. l \in DOMAIN stack'
  BY <1>1 DEF NameAnswered, StackStays
<1>14. ASSUME NEW i \in DOMAIN stack' PROVE FrameHanded(i)'
  <2>1. CASE i \in DOMAIN stack /\ i # l
    <3>1. i < l /\ i + 1 \in DOMAIN stack /\ i < Len(stack')
      BY <1>1, <1>11, <2>1
    <3>2. stack'[i] = stack[i] /\ stack'[i + 1].name = stack[i + 1].name
      BY <1>1, <1>12, <2>1, <3>1
    <3> QED
      BY <1>4, <2>1, <3>1, <3>2, FrameHandsSame
  <2>2. CASE i = l
    <3> SUFFICES ASSUME NEW m \in ModuleNames, stack'[l].deps[m] # Nil, NEW h, h = stack'[l].deps[m]
                 PROVE  Walks(h)' \/ (l < Len(stack') /\ stack'[l + 1].name = m)
      BY <2>2 DEF FrameHanded, Walks, Decl
    <3>1. CASE m = n
      <4>1. h = Found(n)'
        BY <1>6, <1>13, <3>1 DEF Whole, WalkRight, FramesRight, FrameRight, DepsRight
      <4> QED
        BY <1>1, <1>6, <1>8, <3>1, <4>1
    <3>2. CASE m # n
      <4>1. h = Top.deps[m]
        BY <1>12, <3>2
      <4>2. Walks(h)
        BY <1>1, <4>1 DEF Handed, FramesHanded, FrameHanded
      <4> QED
        BY <1>4, <4>2
    <3> QED
      BY <3>1, <3>2
  <2>3. CASE stack'[i] = Frame(f, n)
    <3>1. \A m \in ModuleNames : stack'[i].deps[m] = Nil
      BY <2>3 DEF Frame
    <3> QED
      BY <3>1 DEF FrameHanded
  <2> QED
    BY <1>10, <2>1, <2>2, <2>3
<1> QED
  BY <1>5, <1>9, <1>14 DEF Handed, FramesHanded

LEMMA HandedFinishes == Shape /\ Whole /\ Handed /\ FinishFile => Handed'
<1> SUFFICES ASSUME Shape, Whole, Handed, FinishFile, NEW l, l = Len(stack), NEW f, f = Top.file,
                    NEW k, k = Top.name
             PROVE  Handed'
  OBVIOUS
<1> DEFINE r == Found_(f)
<1>1. /\ stack # <<>> /\ stack' = Front(stack)
      /\ UNCHANGED <<project, entries, store, byFile, asked>>
      /\ f \in Sources /\ k \in ModuleNames \cup {Nil}
      /\ env'.modules = IF k = Nil THEN env.modules ELSE [env.modules EXCEPT ![k] = walks + 1]
      /\ env'.filenames = env.filenames
      /\ env'.loaded = [env.loaded EXCEPT ![f] = r]
      /\ env'.globals = env.globals \cup project.decl[f]
  BY FinishIs
<1> HIDE DEF r
<1>2. /\ Len(stack') = l - 1 /\ DOMAIN stack' = 1 .. l - 1
      /\ \A i \in 1 .. l - 1 : i \in DOMAIN stack /\ stack'[i] = stack[i]
      /\ l \in Nat \ {0} /\ l \in DOMAIN stack /\ Top = stack[l] /\ DOMAIN stack = 1 .. l
  BY <1>1, FrontIs DEF Shape, Types
<1>3. (\A h : Walks(h) => Walks(h)') /\ Walks(f)'
  BY <1>1, WalksStay DEF Walks, Decl
<1>4. \A h \in Sources : h # f => env'.loaded[h] = env.loaded[h]
  BY <1>1 DEF Shape, Types, Envs
<1>5. OneIndex' /\ \A h \in Sources : Indexes(h) /\ env'.loaded[h] = env.loaded[h] => Indexes(h)'
  BY <1>1, SameIndex, SameEntries DEF Handed
<1>6. LoadedHanded'
  <2> SUFFICES ASSUME NEW h \in Sources, env'.loaded[h] # Nil PROVE Walks(h)' \/ Indexes(h)'
    BY DEF LoadedHanded, Walks, Indexes, Decl, SlotOf
  <2> QED
    BY <1>3, <1>4, <1>5 DEF Handed, LoadedHanded
\* The name that was walked is found at the file.
<1>7. k \in ModuleNames => env.filenames[k] = f /\ Found(k) = f
  <2> SUFFICES ASSUME k \in ModuleNames PROVE env.filenames[k] = f /\ Found(k) = f
    OBVIOUS
  <2>1. k # Nil
    BY NamesAssumption, NothingIs, FS_CardinalityType
  <2> QED
    BY <1>2, <2>1 DEF Shape, Walked
<1>8. ModulesHanded'
  <2> SUFFICES ASSUME NEW m \in ModuleNames, env'.modules[m] # Nil, env'.modules[m] # Circular,
                      NEW h, h = env.filenames[m]
               PROVE  Walks(h)'
    BY <1>1 DEF ModulesHanded, Walks, Decl
  <2>1. CASE m = k
    BY <1>3, <1>7, <2>1
  <2>2. CASE m # k
    <3>1. env'.modules[m] = env.modules[m]
      BY <1>1, <2>2 DEF Shape, Types, Envs
    <3> QED
      BY <1>3, <3>1 DEF Handed, ModulesHanded
  <2> QED
    BY <2>1, <2>2
<1>9. ASSUME NEW i \in DOMAIN stack' PROVE FrameHanded(i)'
  <2>1. i \in DOMAIN stack /\ stack'[i] = stack[i] /\ i < l /\ i \in Nat
    BY <1>2
  <2>2. ASSUME NEW m \in ModuleNames, i < Len(stack), stack[i + 1].name = m, stack[i].deps[m] # Nil,
               NEW h, h = stack[i].deps[m]
        PROVE  Walks(h)' \/ (i < Len(stack') /\ stack'[i + 1].name = m)
    <3>1. CASE i = l - 1
      <4>1. m = k
        BY <1>2, <2>1, <2>2, <3>1
      <4>2. h = Found(m)
        BY <2>1, <2>2 DEF Whole, WalkRight, FramesRight, FrameRight, DepsRight
      <4> QED
        BY <1>3, <1>7, <4>1, <4>2
    <3>2. CASE i < l - 1
      <4>1. i + 1 \in 1 .. l - 1
        BY <1>2, <2>1, <3>2
      <4> QED
        BY <1>2, <2>2, <3>2, <4>1
    <3> QED
      BY <1>2, <2>1, <3>1, <3>2
  <2>3. \A m \in ModuleNames : i < Len(stack) /\ stack[i + 1].name = m /\ stack[i].deps[m] # Nil =>
          Walks(stack[i].deps[m])' \/ (i < Len(stack') /\ stack'[i + 1].name = m)
    <3> SUFFICES ASSUME NEW m \in ModuleNames, i < Len(stack), stack[i + 1].name = m,
                        stack[i].deps[m] # Nil, NEW h, h = stack[i].deps[m]
                 PROVE  Walks(h)' \/ (i < Len(stack') /\ stack'[i + 1].name = m)
      BY <2>1 DEF Walks, Decl
    <3> QED
      BY <2>2
  <2> QED
    BY <1>3, <2>1, <2>3, FrameHandsSame
<1> QED
  BY <1>5, <1>6, <1>8, <1>9 DEF Handed, FramesHanded

\* What the index leads to after a check: the check's own result, or what it led to.
LEMMA EndsIndexed ==
  ASSUME Shape, NEW last, Latest(last), NEW f \in Sources,
         NEW m, m = StoreFrom(last).index[f], m # Nil
  PROVE  \/ f \in KeptFiles /\ StoreFrom(last).entries[<<m, f>>].result = env.loaded[f]
         \/ /\ f \notin KeptFiles /\ m = byFile[f]
            /\ StoreFrom(last).entries[<<m, f>>] = entries[<<m, f>>]
<1> DEFINE s == <<m, f>>
<1>1. m = IF f \in KeptFiles THEN last[f] ELSE byFile[f]
  <2>1. StoreFrom(last).index = [h \in Sources |-> IF h \in KeptFiles THEN last[h] ELSE byFile[h]]
    BY StoreFromIs
  <2> QED
    BY <2>1
<1>2. m \in ModuleNames
  BY StoreFromTyped
<1>3. s \in Slots /\ s[1] = m /\ s[2] = f
  BY <1>2 DEF Slots
<1>4. StoreFrom(last).entries[s] = StoredEntry(last, s)
  <2> HIDE DEF s
  <2>1. StoreFrom(last).entries = [t \in Slots |-> StoredEntry(last, t)]
    BY StoreFromIs
  <2> QED
    BY <1>3, <2>1
<1> HIDE DEF s
<1>5. CASE f \in KeptFiles
  <2>1. m \in Kept /\ env.filenames[m] = f
    BY <1>1, <1>5 DEF Latest
  <2>2. StoredEntry(last, s) = [result |-> env.loaded[f], closure |-> Nil]
    BY <1>3, <2>1 DEF StoredEntry
  <2> QED
    BY <1>4, <1>5, <2>2 DEF s
<1>6. CASE f \notin KeptFiles
  <2>1. ~(m \in Kept /\ env.filenames[m] = f)
    BY <1>6 DEF KeptFiles
  <2>2. StoredEntry(last, s) = entries[s]
    BY <1>3, <2>1 DEF StoredEntry
  <2> QED
    BY <1>1, <1>4, <1>6, <2>2 DEF s
<1> QED
  BY <1>5, <1>6

LEMMA HandedEnds ==
  ASSUME Shape, Once, Whole, FilesKept, StorePlaced, Handed, EndCheck
  PROVE  Handed'
<1>0. PICK last : /\ Latest(last)
                  /\ store' = StoreFrom(last).names
                  /\ byFile' = StoreFrom(last).index
                  /\ entries' = StoreFrom(last).entries
  BY EndsIs
<1>1. asked.phase = "walk" /\ env' = NewEnv /\ stack' = <<>> /\ asked.dir \in Dirs
  BY EndsIs DEF Shape, Phases
<1>2. OneIndex'
  <2> SUFFICES ASSUME NEW n \in ModuleNames, NEW f, f = store'[n], f # Nil,
                      NEW m, m = byFile'[f]
               PROVE  m # Nil /\ entries'[<<m, f>>].result = entries'[<<n, f>>].result
    BY DEF OneIndex, ResultAt, SlotOf
  <2>1. f \in Sources /\ StoreFrom(last).names[n] = f /\ m = StoreFrom(last).index[f]
    BY <1>0, StoreFromTyped
  <2>2. \/ n \in Kept /\ env.filenames[n] = f /\ entries'[<<n, f>>].result = env.loaded[f]
        \/ n \notin Kept /\ store[n] = f /\ entries'[<<n, f>>] = entries[<<n, f>>]
    BY <1>0, <2>1, EndsAt
  <2>3. m # Nil
    BY <1>0, <2>1, StoredRight
  <2>4. \/ f \in KeptFiles /\ entries'[<<m, f>>].result = env.loaded[f]
        \/ f \notin KeptFiles /\ m = byFile[f] /\ entries'[<<m, f>>] = entries[<<m, f>>]
    BY <1>0, <2>1, <2>3, EndsIndexed
  <2>5. CASE n \in Kept /\ env.filenames[n] = f /\ entries'[<<n, f>>].result = env.loaded[f]
    BY <2>3, <2>4, <2>5 DEF KeptFiles
  <2>6. CASE n \notin Kept /\ store[n] = f /\ entries'[<<n, f>>] = entries[<<n, f>>]
    <3>1. byFile[f] # Nil /\ entries[<<byFile[f], f>>].result = entries[<<n, f>>].result
      BY <2>6 DEF Handed, OneIndex, ResultAt, SlotOf
\* A check that walked the file anew would not have found it under this name.
    <3>2. ASSUME f \in KeptFiles PROVE env.loaded[f] = entries[<<n, f>>].result
      <4>1. PICK x \in Kept : env.filenames[x] = f
        BY <3>2 DEF KeptFiles
      <4>2. FoundIn(f, asked.dir) /\ ~asked.cold
        BY <4>1, KeptIs, NilAssumption DEF Kept, Shape, Placed, FoundIn, Found
      <4>3. Seen(n)
        <5>1. PICK e \in Dirs : project.find[e][n] = f
          BY <2>6 DEF StorePlaced
        <5> QED
          BY <1>1, <2>6, <4>2, <5>1 DEF FilesKept, Seen, Found
      <4> QED
        BY <1>1, <2>6, <4>2, <4>3, EndsAsHeld DEF ResultAt
    <3> QED
      BY <2>3, <2>4, <2>6, <3>1, <3>2
  <2> QED
    BY <2>2, <2>5, <2>6
<1> QED
  BY <1>1, <1>2, NewEnvHanded DEF Handed

LEMMA HandedSteps ==
  Shape /\ Once /\ Whole /\ Apart /\ FilesKept /\ StorePlaced /\ Handed /\ [StoreNext]_storeVars
    => Handed'
<1> SUFFICES ASSUME Shape, Once, Whole, Apart, FilesKept, StorePlaced, Handed,
                    [StoreNext]_storeVars
             PROVE  Handed'
  OBVIOUS
<1>1. ASSUME NEW f \in Sources, NEW d \in Dirs, NEW cold \in BOOLEAN, Begin(f, d, cold)
      PROVE  Handed'
  BY <1>1, HandedBegin
<1>2. ASSUME NEW n \in ModuleNames, SeedEntry(n) PROVE Handed'
  BY <1>2, HandedSeeds
<1>3. CASE UNCHANGED storeVars
  BY <1>3 DEF storeVars, Handed, OneIndex, LoadedHanded, ModulesHanded, FramesHanded, FrameHanded,
              ResultAt, SlotOf, Walks, Indexes, Decl
<1> QED
  BY <1>1, <1>2, <1>3, HandedOpens, HandedRequires, HandedFinishes, HandedEnds DEF StoreNext

LEMMA SaysRequires == Shape /\ Whole /\ Says /\ Require => Says'
<1> SUFFICES ASSUME Shape, Whole, Says, Require, NEW n, n = Head(Top.todo), NEW f, f = Found(n),
                    NEW l, l = Len(stack)
             PROVE  Says'
  OBVIOUS
<1>0. UNCHANGED <<project, store, asked>> /\ SameResults(entries') /\ env'.loaded = env.loaded
      /\ stack # <<>> /\ Top.todo # <<>>
  BY RequireIs, RequireKeeps
<1>1. /\ n \in ModuleNames /\ f \in Sources \cup {Nil} /\ asked.phase = "walk"
      /\ l \in Nat \ {0} /\ DOMAIN stack = 1 .. l /\ Top = stack[l] /\ Top \in Frames
      /\ \A i \in DOMAIN stack : i # l => stack'[i] = stack[i]
      /\ TopAnswered(n, f, l) /\ NameAnswered(n, f, l)
  BY RequireSteps
<1>2. /\ n \in Range(project.reqs[Top.file])
      /\ Range(Top.todo) = {n} \cup Range(Tail(Top.todo)) /\ env.modules[n] # Circular
  BY <1>0, <1>1, NextIs
<1>3. /\ stack'[l].name = Top.name /\ stack'[l].file = Top.file /\ stack'[l].todo = Tail(Top.todo)
      /\ \A m \in ModuleNames : m # n => stack'[l].deps[m] = Top.deps[m]
      /\ f # Nil => stack'[l].missing = Top.missing
      /\ f = Nil => stack'[l].deps = Top.deps /\ stack'[l].missing = Top.missing \cup {n}
  BY <1>1 DEF TopAnswered
<1>4. \A m \in ModuleNames : Named(m) => Named(m)'
  <2>1. CASE env' = env
    BY <1>0, <2>1 DEF Named, Stored
  <2>2. CASE OthersStay(n) /\ env.modules[n] = Nil
    <3> SUFFICES ASSUME NEW m \in ModuleNames, m \in Stored PROVE m \in Stored'
      BY <1>0, <1>1 DEF Named
    <3>1. env.modules[m] # Nil
      <4>1. env.loaded[env.filenames[m]] \in Result
            /\ env.loaded[env.filenames[m]].walk = env.modules[m]
        BY StoredIs
      <4> QED
        BY <4>1, NothingIs DEF Result
    <3> QED
      BY <1>0, <2>2, <3>1 DEF OthersStay, Stored
  <2> QED
    BY <1>1, <2>1, <2>2 DEF NameAnswered
<1>5. f # Nil => Named(n)' \/ (Len(stack') = l + 1 /\ l + 1 \in DOMAIN stack' /\ stack'[l + 1].name = n)
  <2> SUFFICES ASSUME f # Nil
               PROVE  \/ Named(n)'
                      \/ Len(stack') = l + 1 /\ l + 1 \in DOMAIN stack' /\ stack'[l + 1].name = n
    OBVIOUS
  <2>1. CASE env.modules[n] # Nil
    BY <1>1, <1>2, <1>4, <2>1 DEF Says, NamesKnown, ModulesNamed
  <2>2. CASE /\ env.loaded[f] # Nil
             /\ env'.modules[n] = env.loaded[f].walk /\ env'.filenames[n] = f
    <3>1. n \in Stored'
      BY <1>0, <1>1, <2>2 DEF Stored
    <3> QED
      BY <1>0, <1>1, <3>1 DEF Named
  <2>3. CASE /\ DOMAIN stack' = DOMAIN stack \cup {l + 1} /\ Len(stack') = l + 1
             /\ stack'[l + 1] = Frame(f, n)
    BY <2>3 DEF Frame
  <2> QED
    BY <1>1, <2>1, <2>2, <2>3 DEF NameAnswered
<1>6. ModulesNamed'
  <2> SUFFICES ASSUME NEW m \in ModuleNames, env'.modules[m] # Nil, env'.modules[m] # Circular
               PROVE  Named(m)'
    BY DEF ModulesNamed, Named, Stored
  <2>1. CASE env'.modules[m] = env.modules[m]
    BY <1>4, <2>1 DEF Says, NamesKnown, ModulesNamed
  <2>2. CASE env'.modules[m] # env.modules[m]
    <3>1. m = n /\ f # Nil /\ env.loaded[f] # Nil
          /\ env'.modules[n] = env.loaded[f].walk /\ env'.filenames[n] = f
      BY <1>1, <2>2 DEF NameAnswered, OthersStay
    <3>2. n \in Stored'
      BY <1>0, <1>1, <3>1 DEF Stored
    <3> QED
      BY <1>0, <1>1, <3>1, <3>2 DEF Named
  <2> QED
    BY <2>1, <2>2
<1>7. \A i \in DOMAIN stack' : i \in DOMAIN stack \/ (i = l + 1 /\ f # Nil /\ stack'[i] = Frame(f, n))
  BY <1>1 DEF NameAnswered, StackStays
<1>8. Len(stack') \in Nat /\ Len(stack') >= l
  BY <1>1 DEF NameAnswered, StackStays
<1>9. ASSUME NEW i \in DOMAIN stack' PROVE FrameNamed(i)' /\ FrameErrs(i)'
  <2>1. CASE i \in DOMAIN stack /\ i # l
    <3>1. i < l /\ i + 1 \in DOMAIN stack /\ i < Len(stack')
      BY <1>1, <1>8, <2>1
    <3>2. stack'[i] = stack[i] /\ stack'[i + 1].name = stack[i + 1].name
      BY <1>1, <1>3, <2>1, <3>1
    <3> QED
      BY <1>0, <1>4, <2>1, <3>1, <3>2, FrameSaysSame
  <2>2. CASE i = l
    <3>1. FrameNamed(l) /\ FrameErrs(l)
      BY <1>1 DEF Says, NamesKnown, FramesNamed, ErrsKnown, FramesErrs
    <3>2. ASSUME NEW m \in ModuleNames, stack'[l].deps[m] # Nil
          PROVE  Named(m)' \/ (l < Len(stack') /\ stack'[l + 1].name = m)
      <4>1. CASE m = n /\ f # Nil
        BY <1>1, <1>5, <4>1
      <4>2. CASE m # n \/ f = Nil
        <5>1. Top.deps[m] # Nil
          BY <1>3, <3>2, <4>2
        <5>2. Named(m)
          BY <1>1, <3>1, <5>1 DEF FrameNamed
        <5> QED
          BY <1>4, <5>2
      <4> QED
        BY <4>1, <4>2
    <3>3. FrameNamed(l)'
      BY <3>2 DEF FrameNamed, Named, Stored
    <3>4. n \in Missing(Top.file, asked.dir) <=> f = Nil
      BY <1>2 DEF Missing, Found
    <3>5. /\ stack'[l].missing \subseteq Missing(Top.file, asked.dir)
          /\ Missing(Top.file, asked.dir) \subseteq Range(stack'[l].todo) \cup stack'[l].missing
      <4>1. /\ Top.missing \subseteq Missing(Top.file, asked.dir)
            /\ Missing(Top.file, asked.dir) \subseteq Range(Top.todo) \cup Top.missing
        BY <1>1, <3>1 DEF FrameErrs
      <4>2. CASE f = Nil
        BY <1>2, <1>3, <3>4, <4>1, <4>2
      <4>3. CASE f # Nil
        BY <1>2, <1>3, <3>4, <4>1, <4>3
      <4> QED
        BY <4>2, <4>3
    <3>6. FrameErrs(l)'
      BY <1>0, <1>3, <3>5 DEF FrameErrs, Missing
    <3> QED
      BY <2>2, <3>3, <3>6
  <2>3. CASE f # Nil /\ stack'[i] = Frame(f, n)
    <3>1. /\ stack'[i].file = f /\ stack'[i].todo = project.reqs[f] /\ stack'[i].missing = {}
          /\ \A m \in ModuleNames : stack'[i].deps[m] = Nil
      BY <2>3 DEF Frame
    <3>2. Missing(f, asked.dir) \subseteq Range(project.reqs[f])
      BY DEF Missing
    <3>3. FrameErrs(i)'
      BY <1>0, <3>1, <3>2 DEF FrameErrs, Missing
    <3> QED
      BY <3>1, <3>3 DEF FrameNamed
  <2> QED
    BY <1>7, <2>1, <2>2, <2>3
<1>10. FramesNamed' /\ FramesErrs'
  BY <1>9 DEF FramesNamed, FramesErrs
<1> QED
  BY <1>0, <1>4, <1>6, <1>10, SameSaid, SameEnv DEF Says, NamesKnown, ErrsKnown

LEMMA SaysFinishes == Shape /\ Whole /\ Apart /\ ReadsRequired /\ Handed /\ Says /\ FinishFile => Says'
<1> SUFFICES ASSUME Shape, Whole, Apart, ReadsRequired, Handed, Says, FinishFile,
                    NEW l, l = Len(stack), NEW f, f = Top.file,
                    NEW k, k = Top.name
             PROVE  Says'
  OBVIOUS
<1> DEFINE r == Found_(f)
<1>1. /\ asked.phase = "walk" /\ stack # <<>> /\ Top.todo = <<>>
      /\ stack' = Front(stack)
      /\ UNCHANGED <<project, entries, store, asked>>
      /\ f \in Sources /\ Top.name \in ModuleNames \cup {Nil} /\ r \in Result
      /\ env'.modules = IF Top.name = Nil THEN env.modules
                        ELSE [env.modules EXCEPT ![Top.name] = walks + 1]
      /\ env'.filenames = env.filenames
      /\ env'.loaded = [env.loaded EXCEPT ![f] = r]
      /\ r.deps = Top.deps /\ r.walk = walks + 1
      /\ r.errs = (project.uses[f] \ (env.globals \cup project.decl[f])) \cup Top.missing
  BY FinishIs DEF Found_
<1>2. /\ stack' \in Seq(Frames) /\ Len(stack') = l - 1 /\ DOMAIN stack' = 1 .. l - 1
      /\ \A i \in 1 .. l - 1 : i \in DOMAIN stack /\ stack'[i] = stack[i]
      /\ l \in Nat \ {0} /\ l \in DOMAIN stack /\ Top = stack[l] /\ Top \in Frames
      /\ stack \in Seq(Frames) /\ DOMAIN stack = 1 .. l
  <2>1. stack # <<>> /\ stack' = Front(stack) /\ stack \in Seq(Frames)
    BY <1>1 DEF Shape, Types
  <2> HIDE DEF r
  <2> QED
    BY <2>1, FrontIs
<1>3. /\ env.loaded[f] = Nil /\ FrameRight(l) /\ r # Nil /\ asked.dir \in Dirs
      /\ FrameNamed(l) /\ FrameErrs(l)
  BY <1>1, <1>2, NilAssumption DEF Whole, WalkRight, Unwalked, FramesRight, Shape, Phases,
     Says, NamesKnown, FramesNamed, ErrsKnown, FramesErrs
<1> HIDE DEF r
<1>4. \A h \in Sources : env'.loaded[h] = IF h = f THEN r ELSE env.loaded[h]
  BY <1>1 DEF Shape, Types, Envs
<1>5. \A m \in ModuleNames : env'.modules[m] = IF m = Top.name THEN walks + 1 ELSE env.modules[m]
  <2>1. \A m \in ModuleNames : m # Nil
    BY NamesAssumption, NothingIs, FS_CardinalityType
  <2> QED
    BY <1>1, <2>1 DEF Shape, Types, Envs
<1>6. k \in ModuleNames => env.filenames[k] = f /\ Named(k)'
  <2> SUFFICES ASSUME k \in ModuleNames PROVE env.filenames[k] = f /\ Named(k)'
    OBVIOUS
  <2>1. k # Nil
    BY NamesAssumption, NothingIs, FS_CardinalityType
  <2>2. env.filenames[k] = f
    BY <1>2, <2>1 DEF Shape, Walked
  <2>3. k \in Stored'
    BY <1>1, <1>3, <1>4, <1>5, <2>2, NilAssumption DEF Stored
  <2> QED
    BY <1>1, <2>2, <2>3 DEF Named
<1>7. ASSUME NEW m \in ModuleNames, Named(m) PROVE Named(m)'
  <2>1. CASE store[m] # Nil
    BY <1>1, <2>1 DEF Named
  <2>2. CASE m \in Stored
    <3>1. env.filenames[m] # f
      BY <1>3, <2>2 DEF Stored
    <3>2. m # k
      BY <1>6, <3>1
    <3>3. env.filenames[m] \in Sources
      BY <2>2, StoredIs
    <3>4. m \in Stored'
      BY <1>1, <1>4, <1>5, <2>2, <3>1, <3>2, <3>3 DEF Stored
    <3> QED
      BY <1>1, <3>4 DEF Named
  <2> QED
    BY <1>7, <2>1, <2>2 DEF Named
<1>8. \A m \in ModuleNames : r.deps[m] # Nil => Named(m)
  BY <1>1, <1>2, <1>3 DEF FrameNamed
<1>9. ErrsRight(r, f)
  <2>1. FoundIn(f, asked.dir)
    BY <1>2, <1>3 DEF FrameRight
  <2>2. Top.missing = Missing(f, asked.dir)
    <3>0. stack[l].file = f /\ stack[l].todo = <<>> /\ stack[l].missing = Top.missing
      BY <1>1, <1>2
    <3>1. Range(stack[l].todo) = {}
      BY <3>0 DEF Range
    <3>2. /\ stack[l].missing \subseteq Missing(stack[l].file, asked.dir)
          /\ Missing(stack[l].file, asked.dir) \subseteq Range(stack[l].todo) \cup stack[l].missing
      BY <1>3 DEF FrameErrs
    <3>3. /\ Top.missing \subseteq Missing(f, asked.dir)
          /\ Missing(f, asked.dir) \subseteq {} \cup Top.missing
      BY <3>0, <3>1, <3>2
    <3> QED
      BY <3>3
\* What the file reads and somebody declares has been handed over.
  <2>3. project.uses[f] \ (env.globals \cup project.decl[f]) = project.uses[f] \ Declared
    <3>1. env.globals \cup project.decl[f] \subseteq Declared
      BY <1>1 DEF Apart, Declared
    <3>2. ASSUME NEW n \in Range(project.reqs[f]), project.find[asked.dir][n] # Nil
          PROVE  project.decl[project.find[asked.dir][n]] \subseteq env.globals
      <4>1. stack[l].file = f /\ Range(stack[l].todo) = {}
        BY <1>1, <1>2 DEF Range
      <4>2. stack[l].deps[n] = project.find[asked.dir][n]
        BY <1>3, <4>1 DEF FrameRight, Found
      <4>3. n \in ModuleNames
        BY <1>1, RequiresTyped DEF Shape, Types
      <4> QED
        BY <1>2, <3>2, <4>2, <4>3 DEF Handed, FramesHanded, FrameHanded, Walks, Decl
    <3>3. Offered(f, asked.dir) \subseteq env.globals \cup project.decl[f]
      BY <3>2 DEF Offered
    <3>4. project.uses[f] \cap Declared \subseteq Offered(f, asked.dir)
      BY <1>1, <1>3, <2>1 DEF ReadsRequired
    <3> QED
      BY <3>1, <3>3, <3>4
  <2>4. ASSUME NEW d \in Dirs, FoundIn(f, d) PROVE Missing(f, d) = Missing(f, asked.dir)
    BY <1>1, <1>3, <2>1, <2>4 DEF Whole, DirsAgree, Missing
  <2> QED
    BY <1>1, <2>2, <2>3, <2>4 DEF ErrsRight, ErrsIn
<1>10. LoadedNamed'
  <2> SUFFICES ASSUME NEW h \in Sources, env'.loaded[h] # Nil, NEW m \in ModuleNames,
                      env'.loaded[h].deps[m] # Nil
               PROVE  Named(m)'
    BY DEF LoadedNamed, Named, Stored
  <2>1. CASE h = f
    BY <1>4, <1>7, <1>8, <2>1
  <2>2. CASE h # f
    BY <1>4, <1>7, <2>2 DEF Says, NamesKnown, LoadedNamed
  <2> QED
    BY <2>1, <2>2
<1>11. LoadedErrs'
  <2> SUFFICES ASSUME NEW h \in Sources, env'.loaded[h] # Nil PROVE ErrsRight(env'.loaded[h], h)
    BY <1>1 DEF LoadedErrs, ErrsRight, FoundIn, ErrsIn, Missing, Declared
  <2>1. CASE h = f
    BY <1>4, <1>9, <2>1
  <2>2. CASE h # f
    BY <1>4, <2>2 DEF Says, ErrsKnown, LoadedErrs
  <2> QED
    BY <2>1, <2>2
<1>12. ModulesNamed'
  <2> SUFFICES ASSUME NEW m \in ModuleNames, env'.modules[m] # Nil, env'.modules[m] # Circular
               PROVE  Named(m)'
    BY DEF ModulesNamed, Named, Stored
  <2>1. CASE m = k
    BY <1>6, <2>1
  <2>2. CASE m # k
    BY <1>5, <1>7, <2>2 DEF Says, NamesKnown, ModulesNamed
  <2> QED
    BY <2>1, <2>2
<1>13. ASSUME NEW i \in DOMAIN stack' PROVE FrameNamed(i)' /\ FrameErrs(i)'
  <2>1. i \in DOMAIN stack /\ stack'[i] = stack[i] /\ i < l /\ i \in Nat
    BY <1>2
  <2>2. ASSUME NEW m \in ModuleNames, i < Len(stack), stack[i + 1].name = m
        PROVE  Named(m)' \/ (i < Len(stack') /\ stack'[i + 1].name = m)
    <3>1. CASE i = l - 1
      <4>1. m = k
        BY <1>2, <2>1, <2>2, <3>1
      <4> QED
        BY <1>6, <2>2, <4>1
    <3>2. CASE i < l - 1
      <4>1. i + 1 \in 1 .. l - 1
        BY <1>2, <2>1, <3>2
      <4> QED
        BY <1>2, <2>2, <3>2, <4>1
    <3> QED
      BY <1>2, <2>1, <3>1, <3>2
  <2> QED
    BY <1>1, <1>7, <2>1, <2>2, FrameSaysSame
<1>14. FramesNamed' /\ FramesErrs'
  BY <1>13 DEF FramesNamed, FramesErrs
<1> QED
  BY <1>1, <1>10, <1>11, <1>12, <1>14, SameSaid, SameEntries DEF Says, NamesKnown, ErrsKnown

\* What a check that ends leaves in the store has its errors, and the store has its names.
LEMMA StoredSays ==
  ASSUME Shape, Says, NEW last, Latest(last),
         asked.phase # "idle",
         NEW names, names = StoreFrom(last).names,
         NEW new, new = StoreFrom(last).entries
  PROVE  /\ \A n \in ModuleNames : names[n] # Nil => \E d \in Dirs : project.find[d][n] = names[n]
         /\ \A n \in ModuleNames : store[n] # Nil \/ n \in Kept => names[n] # Nil
         /\ \A s \in Slots : new[s] # Nil =>
              /\ ErrsRight(new[s].result, s[2])
              /\ \A n \in ModuleNames : new[s].result.deps[n] # Nil => names[n] # Nil
<1>1. \A n \in ModuleNames : names[n] = IF n \in Kept THEN env.filenames[n] ELSE store[n]
  <2>1. names = [n \in ModuleNames |-> IF n \in Kept THEN env.filenames[n] ELSE store[n]]
    BY StoreFromIs
  <2> QED
    BY <2>1
<1>2. \A n \in ModuleNames : n \in Kept =>
        env.filenames[n] \in Sources /\ env.filenames[n] # Nil /\ n \in Stored
  BY KeptIs, NilAssumption
<1>3. ASSUME NEW n \in ModuleNames, names[n] # Nil PROVE \E d \in Dirs : project.find[d][n] = names[n]
  <2>1. CASE n \in Kept
    <3>1. names[n] = Found(n) /\ asked.dir \in Dirs
      BY <1>1, <1>2, <2>1 DEF Shape, Placed, Phases
    <3> QED
      BY <3>1 DEF Found
  <2>2. CASE n \notin Kept
    BY <1>1, <1>3, <2>2 DEF Says, NamesKnown, StorePlaced
  <2> QED
    BY <2>1, <2>2
<1>4. \A n \in ModuleNames : store[n] # Nil \/ n \in Kept => names[n] # Nil
  BY <1>1, <1>2
<1>5. ASSUME NEW s \in Slots, new[s] # Nil
      PROVE  /\ ErrsRight(new[s].result, s[2])
             /\ \A n \in ModuleNames : new[s].result.deps[n] # Nil => names[n] # Nil
  <2>1. new[s] = StoredEntry(last, s)
    <3>1. new = [x \in Slots |-> StoredEntry(last, x)]
      BY StoreFromIs
    <3> QED
      BY <3>1
  <2>2. CASE s[1] \in Kept /\ env.filenames[s[1]] = s[2]
    <3> DEFINE f == s[2]
    <3>1. new[s].result = env.loaded[f]
      BY <2>1, <2>2 DEF StoredEntry
    <3>2. f \in Sources /\ env.loaded[f] # Nil /\ ~asked.cold
      BY <2>2, KeptIs, NilAssumption DEF Kept
    <3> HIDE DEF f
    <3>3. ErrsRight(env.loaded[f], f)
      BY <3>2 DEF Says, ErrsKnown, LoadedErrs
    <3>4. ASSUME NEW n \in ModuleNames, env.loaded[f].deps[n] # Nil PROVE names[n] # Nil
      <4>1. Named(n)
        BY <3>2, <3>4 DEF Says, NamesKnown, LoadedNamed
      <4> QED
        BY <1>4, <3>2, <4>1 DEF Named, Kept
    <3> QED
      BY <3>1, <3>3, <3>4 DEF f
  <2>3. CASE ~(s[1] \in Kept /\ env.filenames[s[1]] = s[2])
    <3>1. new[s] = entries[s] /\ entries[s] # Nil
      BY <1>5, <2>1, <2>3 DEF StoredEntry
    <3> QED
      BY <1>4, <3>1 DEF Says, ErrsKnown, EntriesErrs, NamesKnown, EntriesNamed
  <2> QED
    BY <2>2, <2>3
<1> QED
  BY <1>3, <1>4, <1>5

LEMMA SaysEnds == Shape /\ Says /\ EndCheck => Says'
<1> SUFFICES ASSUME Shape, Says, EndCheck PROVE Says'
  OBVIOUS
<1>0. PICK last : /\ Latest(last)
                  /\ store' = StoreFrom(last).names
                  /\ entries' = StoreFrom(last).entries
  BY EndsIs
<1>1. /\ asked.phase # "idle" /\ env' = NewEnv /\ stack' = <<>> /\ project' = project
  BY EndsIs
<1>2. /\ \A n \in ModuleNames : store'[n] # Nil => \E d \in Dirs : project.find[d][n] = store'[n]
      /\ \A s \in Slots : entries'[s] # Nil =>
           /\ ErrsRight(entries'[s].result, s[2])
           /\ \A n \in ModuleNames : entries'[s].result.deps[n] # Nil => store'[n] # Nil
  BY <1>0, <1>1, StoredSays
<1>3. StorePlaced' /\ EntriesNamed'
  BY <1>1, <1>2 DEF StorePlaced, EntriesNamed
<1>4. EntriesErrs'
  BY <1>1, <1>2 DEF EntriesErrs, ErrsRight, FoundIn, ErrsIn, Missing, Declared
<1> QED
  BY <1>1, <1>3, <1>4, NoFrames, NewEnvSays DEF Says, NamesKnown, ErrsKnown

LEMMA SaysSteps ==
  Shape /\ Whole /\ Apart /\ ReadsRequired /\ Handed /\ Says /\ [StoreNext]_storeVars => Says'
<1> SUFFICES ASSUME Shape, Whole, Apart, ReadsRequired, Handed, Says, [StoreNext]_storeVars
             PROVE  Says'
  OBVIOUS
<1>1. ASSUME NEW f \in Sources, NEW d \in Dirs, NEW cold \in BOOLEAN, Begin(f, d, cold) PROVE Says'
  BY <1>1, SaysBegin
<1>2. ASSUME NEW n \in ModuleNames, SeedEntry(n) PROVE Says'
  BY <1>2, SaysSeeds
<1>3. CASE UNCHANGED storeVars
  <2>1. UNCHANGED <<project, entries, store, env, stack, asked>>
    BY <1>3 DEF storeVars
  <2>2. \A m \in ModuleNames : Named(m) => Named(m)'
    BY <2>1 DEF Named, Stored
  <2>3. ModulesNamed'
    BY <2>1 DEF Says, NamesKnown, ModulesNamed, Named, Stored
  <2>4. ASSUME NEW i \in DOMAIN stack PROVE FrameNamed(i)' /\ FrameErrs(i)'
    BY <2>1, <2>2, FrameSaysSame
  <2>5. FramesNamed' /\ FramesErrs'
    BY <2>1, <2>4 DEF FramesNamed, FramesErrs
  <2> QED
    BY <2>1, <2>2, <2>3, <2>5, SameSaid, SameEntries, SameEnv DEF Says, NamesKnown, ErrsKnown
<1> QED
  BY <1>1, <1>2, <1>3, SaysOpens, SaysRequires, SaysFinishes, SaysEnds DEF StoreNext

-----------------------------------------------------------------------------
\* What a check of a file has to say of what the file pulled in.
SlotsIn(f, d) ==
  {<<n, project.find[d][n]>> : n \in {m \in Range(project.reqs[f]) : project.find[d][m] # Nil}}
PulledIn(f, d) ==
  {slot \in ReachedIn(Places, SlotsIn(f, d), [slot \in Places |-> SlotsIn(slot[2], d)]) :
     slot[2] # f}
DepErrsIn(f, d) == UNION {{<<slot[2], e>> : e \in ErrsIn(slot[2], d)} : slot \in PulledIn(f, d)}

LEMMA SlotsAre ==
  ASSUME Shape, NEW f \in Sources, NEW d \in Dirs, NEW r, r # Nil, r.deps = DepsIn(f, d)
  PROVE  /\ SlotsOf(r) = SlotsIn(f, d)
         /\ \A slot \in SlotsOf(r) :
              /\ slot \in Places /\ slot[1] \in ModuleNames /\ slot[2] # Nil
              /\ slot[2] = project.find[d][slot[1]] /\ r.deps[slot[1]] # Nil
<1>1. Range(project.reqs[f]) \subseteq ModuleNames
  BY RequiresTyped
<1>2. \A n \in ModuleNames :
        DepsIn(f, d)[n] = IF n \in Range(project.reqs[f]) THEN project.find[d][n] ELSE Nil
  BY DEF DepsIn
<1>3. SlotsOf(r) = {<<n, r.deps[n]>> : n \in {m \in ModuleNames : r.deps[m] # Nil}}
  BY DEF SlotsOf
<1>4. {m \in ModuleNames : r.deps[m] # Nil}
        = {m \in Range(project.reqs[f]) : project.find[d][m] # Nil}
  BY <1>1, <1>2
<1>5. \A n \in {m \in ModuleNames : r.deps[m] # Nil} : r.deps[n] = project.find[d][n]
  BY <1>1, <1>2
<1>6. SlotsOf(r) = SlotsIn(f, d)
  BY <1>3, <1>4, <1>5 DEF SlotsIn
<1>7. ASSUME NEW slot \in SlotsOf(r)
      PROVE  /\ slot \in Places /\ slot[1] \in ModuleNames /\ slot[2] # Nil
             /\ slot[2] = project.find[d][slot[1]] /\ r.deps[slot[1]] # Nil
  <2>1. PICK n \in ModuleNames : slot = <<n, r.deps[n]>> /\ r.deps[n] # Nil
    BY <1>3
  <2>2. r.deps[n] = project.find[d][n] /\ project.find[d][n] \in Sources
    BY <1>5, <2>1, ProjectTyped DEF Shape, Types
  <2>3. slot[1] = n /\ slot[2] = project.find[d][n] /\ slot \in Slots
    BY <2>1, <2>2 DEF Slots
  <2> QED
    BY <2>1, <2>2, <2>3 DEF Places
<1> QED
  BY <1>6, <1>7

\* The errors a check that ends answers with.
LEMMA ErrorsAre ==
  ASSUME Shape, Whole, NamesKept, Says, asked.phase = "walk", stack = <<>>,
         NEW last, Latest(last)
  PROVE  /\ env.loaded[asked.file].errs = ErrsIn(asked.file, asked.dir)
         /\ DependencyErrors(StoreFrom(last)) = DepErrsIn(asked.file, asked.dir)
<1> SUFFICES ASSUME NEW s, s = StoreFrom(last), NEW d, d = asked.dir, NEW a, a = asked.file
             PROVE  env.loaded[a].errs = ErrsIn(a, d) /\ DependencyErrors(s) = DepErrsIn(a, d)
  OBVIOUS
<1> DEFINE R(slot) == NamedResult(s, slot)
           A == [slot \in Places |-> SlotsOf(R(slot))]
           B == [slot \in Places |-> SlotsIn(slot[2], d)]
           K == {slot \in Places : FoundIn(slot[2], d) /\ R(slot) # Nil}
\* A result the check holds, or one the store does.
           Rights(r, f) ==
             /\ r # Nil /\ r.deps = DepsIn(f, d) /\ r.errs = ErrsIn(f, d)
             /\ \A n \in ModuleNames : r.deps[n] # Nil => s.names[n] # Nil \/ n \in Stored
<1>1. d \in Dirs /\ a \in Sources /\ FoundIn(a, d) /\ env.loaded[a] # Nil /\ Places \subseteq Slots
  BY DEF Shape, Phases, FoundIn, Found, Whole, WalkRight, RootWalked, Places
<1>2. /\ \A n \in ModuleNames : s.names[n] # Nil => \E e \in Dirs : project.find[e][n] = s.names[n]
      /\ \A n \in ModuleNames : store[n] # Nil \/ n \in Kept => s.names[n] # Nil
      /\ \A x \in Slots : s.entries[x] # Nil =>
           /\ ErrsRight(s.entries[x].result, x[2])
           /\ \A n \in ModuleNames : s.entries[x].result.deps[n] # Nil => s.names[n] # Nil
  BY StoredSays
<1>3. \A x \in Slots : s.entries[x] # Nil => Rightly(s.entries[x].result, x[2])
  BY StoredRight
<1>4. /\ s.names \in [ModuleNames -> Sources \cup {Nil}] /\ s.entries \in Stores
      /\ \A n \in ModuleNames : s.names[n] # Nil => s.entries[<<n, s.names[n]>>] # Nil
  BY StoreFromTyped
<1>5. ASSUME NEW f \in Sources, FoundIn(f, d), env.loaded[f] # Nil PROVE Rights(env.loaded[f], f)
  <2>1. Rightly(env.loaded[f], f) /\ ErrsRight(env.loaded[f], f)
    BY <1>5 DEF Whole, EnvRight, LoadedRight, Says, ErrsKnown, LoadedErrs
  <2>2. \A n \in ModuleNames : env.loaded[f].deps[n] # Nil => Named(n)
    BY <1>5 DEF Says, NamesKnown, LoadedNamed
  <2>3. \A n \in ModuleNames : Named(n) => s.names[n] # Nil \/ n \in Stored
    BY <1>2 DEF Named
  <2> QED
    BY <1>1, <1>5, <2>1, <2>2, <2>3 DEF Rightly, ErrsRight
<1>6. ASSUME NEW slot \in K PROVE Rights(R(slot), slot[2])
  <2>1. slot \in Slots /\ FoundIn(slot[2], d) /\ slot[2] \in Sources
    BY <1>1 DEF Slots
  <2>2. CASE env.loaded[slot[2]] # Nil
    BY <1>5, <2>1, <2>2 DEF NamedResult
  <2>3. CASE env.loaded[slot[2]] = Nil
    <3>1. R(slot) # Nil
      OBVIOUS
    <3>2. s.names[slot[1]] = slot[2] /\ R(slot) = s.entries[slot].result
      BY <2>3, <3>1 DEF NamedResult
    <3>3. slot[1] \in ModuleNames /\ slot = <<slot[1], slot[2]>> /\ slot[2] # Nil
      BY <2>1, NilAssumption DEF Slots
    <3>4. s.entries[slot] # Nil
      BY <1>4, <3>2, <3>3
    <3> QED
      BY <1>1, <1>2, <1>3, <2>1, <3>1, <3>2, <3>4 DEF Rightly, ErrsRight
  <2> QED
    BY <2>2, <2>3
<1>7. ASSUME NEW r, NEW f \in Sources, Rights(r, f)
      PROVE  SlotsOf(r) = SlotsIn(f, d) /\ SlotsOf(r) \subseteq K
  <2>1. SlotsOf(r) = SlotsIn(f, d)
    BY <1>1, <1>7, SlotsAre
  <2>2. ASSUME NEW slot \in SlotsOf(r) PROVE slot \in K
    <3>1. /\ slot \in Places /\ slot[1] \in ModuleNames /\ slot[2] # Nil
          /\ slot[2] = project.find[d][slot[1]] /\ r.deps[slot[1]] # Nil
      BY <1>1, <1>7, <2>2, SlotsAre
    <3> DEFINE n == slot[1]
               h == slot[2]
    <3>2. slot \in Slots /\ slot = <<n, h>> /\ h \in Sources /\ FoundIn(h, d)
      BY <1>1, <3>1 DEF Slots, FoundIn
    <3>3. s.names[n] # Nil \/ n \in Stored
      BY <1>7, <3>1
    <3>4. CASE env.loaded[h] # Nil
      BY <3>1, <3>2, <3>4 DEF NamedResult
    <3>5. CASE env.loaded[h] = Nil
      <4>1. n \notin Stored
        <5> SUFFICES ASSUME n \in Stored PROVE FALSE
          OBVIOUS
        <5>1. env.filenames[n] = Found(n)
          BY <3>1 DEF Stored, Shape, Placed
        <5>2. env.loaded[env.filenames[n]] # Nil
          BY DEF Stored
        <5> QED
          BY <3>1, <3>5, <5>1, <5>2 DEF Found
      <4>2. s.names[n] = h
        <5>1. PICK e \in Dirs : project.find[e][n] = s.names[n]
          BY <1>2, <3>1, <3>3, <4>1
        <5> QED
          BY <1>1, <3>1, <3>3, <4>1, <5>1 DEF NamesKept
      <4>3. s.entries[slot] # Nil /\ s.entries[slot] \in Entry
        BY <1>4, <3>1, <3>2, <4>2 DEF Stores
      <4>4. R(slot) = s.entries[slot].result /\ s.entries[slot].result # Nil
        BY <3>5, <4>2, <4>3, NilAssumption DEF NamedResult, Entry
      <4> QED
        BY <3>1, <3>2, <4>4
    <3> QED
      BY <3>4, <3>5
  <2> QED
    BY <2>1, <2>2
<1>8. Rights(env.loaded[a], a)
  BY <1>1, <1>5
<1>9. /\ SlotsOf(env.loaded[a]) = SlotsIn(a, d) /\ SlotsIn(a, d) \in SUBSET K
      /\ env.loaded[a].errs = ErrsIn(a, d)
  BY <1>1, <1>7, <1>8
<1>10. \A slot \in K : A[slot] = B[slot] /\ A[slot] \subseteq K
  <2> SUFFICES ASSUME NEW slot \in K PROVE A[slot] = B[slot] /\ A[slot] \subseteq K
    OBVIOUS
  <2>1. A[slot] = SlotsOf(R(slot)) /\ B[slot] = SlotsIn(slot[2], d)
    OBVIOUS
  <2>2. slot[2] \in Sources
    BY <1>1 DEF Slots
  <2> QED
    BY <1>6, <1>7, <2>1, <2>2
<1>11. \A slot \in K : R(slot) # Nil /\ R(slot).errs = ErrsIn(slot[2], d)
  BY <1>6
<1>12. K \in SUBSET Places
  OBVIOUS
<1>13. DependencyErrors(s) =
         UNION {{<<slot[2], e>> : e \in R(slot).errs} :
                slot \in {x \in ReachedIn(Places, SlotsOf(env.loaded[a]), A) :
                            x[2] # a /\ R(x) # Nil}}
  BY DEF DependencyErrors
<1>14. DepErrsIn(a, d) =
         UNION {{<<slot[2], e>> : e \in ErrsIn(slot[2], d)} :
                slot \in {x \in ReachedIn(Places, SlotsIn(a, d), B) : x[2] # a}}
  BY DEF DepErrsIn, PulledIn
<1> HIDE DEF A, B, K, R
<1>15. /\ ReachedIn(Places, SlotsIn(a, d), A) = ReachedIn(Places, SlotsIn(a, d), B)
       /\ ReachedIn(Places, SlotsIn(a, d), A) \subseteq K
  <2>1. ASSUME NEW start \in SUBSET K
        PROVE  /\ ReachedIn(Places, start, A) = ReachedIn(Places, start, B)
               /\ ReachedIn(Places, start, A) \subseteq K
    BY <1>10, <1>12, ReachesSame
  <2> QED
    BY <1>9, <2>1
<1>16. DependencyErrors(s) = DepErrsIn(a, d)
  BY <1>9, <1>11, <1>13, <1>14, <1>15
<1> QED
  BY <1>9, <1>16

\* A check says what its file and its directory make it say.
SaysWhatIs ==
  \A c \in said : c.errs = ErrsIn(c.file, c.dir) /\ c.depErrs = DepErrsIn(c.file, c.dir)

\* That is a matter of the project alone.
LEMMA ProjectSays ==
  ASSUME project' = project, NEW f, NEW d
  PROVE  ErrsIn(f, d)' = ErrsIn(f, d) /\ DepErrsIn(f, d)' = DepErrsIn(f, d)
<1>1. Places' = Places
  BY DEF Places
<1>2. ASSUME NEW g PROVE ErrsIn(g, d)' = ErrsIn(g, d) /\ SlotsIn(g, d)' = SlotsIn(g, d)
  BY DEF ErrsIn, Missing, Declared, SlotsIn
<1>3. PulledIn(f, d)' = PulledIn(f, d)
  <2> DEFINE B == [slot \in Places |-> SlotsIn(slot[2], d)]
             C == ReachedIn(Places, SlotsIn(f, d), B)
  <2>1. B' = B
    BY <1>1, <1>2
  <2>2. SlotsIn(f, d)' = SlotsIn(f, d)
    BY <1>2
  <2> HIDE DEF B
  <2>3. C' = C
    BY <1>1, <2>1, <2>2 DEF ReachedIn
  <2>4. PulledIn(f, d) = {slot \in C : slot[2] # f}
    BY DEF PulledIn, B
  <2>5. PulledIn(f, d)' = {slot \in C' : slot[2] # f}
    BY DEF PulledIn, B
  <2> HIDE DEF C
  <2> QED
    BY <2>3, <2>4, <2>5
<1> QED
  BY <1>2, <1>3 DEF DepErrsIn

LEMMA SaidIs ==
  ASSUME Shape, Whole, NamesKept, Says, SaysWhatIs, [StoreNext]_storeVars
  PROVE  SaysWhatIs'
<1>1. project' = project
  BY ProjectStays
<1>2. ASSUME \A c \in said' : c.errs = ErrsIn(c.file, c.dir) /\ c.depErrs = DepErrsIn(c.file, c.dir)
      PROVE  SaysWhatIs'
  <2>1. \A f, d : ErrsIn(f, d)' = ErrsIn(f, d) /\ DepErrsIn(f, d)' = DepErrsIn(f, d)
    BY <1>1, ProjectSays
  <2>2. ASSUME NEW c \in said', NEW f, f = c.file, NEW d, d = c.dir
        PROVE  c.errs = ErrsIn(f, d)' /\ c.depErrs = DepErrsIn(f, d)'
    BY <1>2, <2>1, <2>2
  <2> QED
    BY <2>2 DEF SaysWhatIs
<1>3. CASE EndCheck
  <2>1. PICK last : /\ Latest(last)
                    /\ \A c \in said' \ said : /\ c.file = asked.file /\ c.dir = asked.dir
                                               /\ c.errs = env.loaded[asked.file].errs
                                               /\ c.depErrs = DependencyErrors(StoreFrom(last))
    BY <1>3, EndsIs
  <2>2. \A c \in said' \ said : c.errs = ErrsIn(c.file, c.dir) /\ c.depErrs = DepErrsIn(c.file, c.dir)
    BY <1>3, <2>1, ErrorsAre, EndsIs
  <2> QED
    BY <1>2, <2>2 DEF SaysWhatIs
<1>4. CASE UNCHANGED said
  BY <1>2, <1>4 DEF SaysWhatIs
<1>5. Require => UNCHANGED said
  BY RequireIs
<1> QED
  BY <1>3, <1>4, <1>5 DEF StoreNext, storeVars, Begin, SeedEntry, OpenFile, FinishFile

LEMMA ReadsStay ==
  ASSUME project' = project
  PROVE  /\ ReadsRequired => ReadsRequired'
         /\ NamesKept /\ FilesKept => NamesKept' /\ FilesKept'
BY DEF ReadsRequired, Offered, Declared, NamesKept, FilesKept, FoundIn

\* Where a file reads, of the globals somebody declares, those that it declares or that a file
\* it requires does, and the directories agree on names and files, a check of a file under a
\* directory has the same errors, in it and in what it pulled in, whatever was checked before.
THEOREM OneAnswerHolds ==
  StoreSpec /\ DirsAgree /\ Loopless /\ ReadsRequired /\ NamesKept /\ FilesKept => []OneAnswer
<1> DEFINE Reads == ReadsRequired /\ NamesKept /\ FilesKept
           AllOfIt == Shape /\ Once /\ Whole /\ Apart /\ Reads /\ Says /\ Handed /\ SaysWhatIs
<1>1. StoreInit /\ DirsAgree /\ Loopless /\ Reads => AllOfIt
  <2>1. StoreInit => Apart
    BY DEF StoreInit, NewEnv, Apart, ClosuresDeclared
  <2>2. StoreInit => SaysWhatIs
    BY DEF StoreInit, SaysWhatIs
  <2> QED
    BY <2>1, <2>2, ShapeBegins, OnceBegins, WholeBegins, SaysBegins, HandedBegins
<1>2. AllOfIt /\ [StoreNext]_storeVars => AllOfIt'
  <2> SUFFICES ASSUME AllOfIt, [StoreNext]_storeVars PROVE AllOfIt'
    OBVIOUS
  <2>1. Shape' /\ Once' /\ Whole' /\ Apart' /\ Reads'
    BY ShapeSteps, FilesTogether, OnceSteps, WholeSteps, ApartSteps, ReadsStay, ProjectStays
  <2>2. Says' /\ SaysWhatIs'
    BY SaysSteps, SaidIs
  <2>3. Handed'
    BY HandedSteps DEF Says, NamesKnown
  <2> QED
    BY <2>1, <2>2, <2>3
<1>3. AllOfIt => OneAnswer
  BY DEF OneAnswer, SaysWhatIs
<1> QED
  BY <1>1, <1>2, <1>3, PTL DEF StoreSpec
=============================================================================
