--------------------------- MODULE LspIndexProofs ---------------------------
(***************************************************************************)
(* Proofs about LspIndex, for any files that require each other in any     *)
(* way, any number of writes and of requests, a client that watches or     *)
(* does not: what the index says of the symbols and of the uses of a       *)
(* project is what the files as they are would say.                        *)
(***************************************************************************)
EXTENDS LspIndex, FiniteSetTheorems, WellFoundedInduction, TLAPS

Below == {x \in Nat \X Nat : x[1] < x[2]}

LEMMA BelowIsWellFounded == IsWellFoundedOn(Below, Nat)
BY NatLessThanWellFounded DEF Below, OpToRel

\* Induction, over a set of numbers rather than an operator.
LEMMA Inductive ==
  ASSUME NEW T, 0 \in T, \A n \in Nat : n \in T => n + 1 \in T
  PROVE  Nat \subseteq T
<1> SUFFICES ASSUME ~(Nat \subseteq T) PROVE FALSE
  OBVIOUS
<1>1. PICK n \in Nat \ T : \A m \in Nat \ T : ~(<<m, n>> \in Below)
  <2>1. Nat \ T # {} /\ Nat \ T \subseteq Nat
    OBVIOUS
  <2> QED
    BY <2>1, BelowIsWellFounded, WFMin
<1>2. n # 0 /\ n - 1 \in Nat /\ (n - 1) + 1 = n
  OBVIOUS
<1>3. n - 1 \in T
  <2> DEFINE m == n - 1
  <2>1. m \in Nat /\ m < n
    BY <1>2
  <2>2. <<m, n>> \in Below
    BY <2>1 DEF Below
  <2> QED
    BY <1>1, <2>1, <2>2
<1> QED
  BY <1>2, <1>3

-----------------------------------------------------------------------------
(* A fold over the files to put.                                           *)

Choice(s) == CHOOSE x \in s : TRUE

\* The fold's equation for one set of files, over what F gives for smaller ones.
After(F, i, s, m) ==
    IF s = {} THEN i ELSE Put(F[s \ {Choice(s)}], Choice(s), Check(Choice(s), m))

IsFold(F, T, i, m) == F = [s \in SUBSET T |-> After(F, i, s, m)]

\* PutAll is the value of a function over the sets of files that satisfies the equation.
LEMMA PutAllIs ==
  ASSUME NEW i, NEW S, NEW m
  PROVE  LET T == {f \in S : OnDisk(f)}
         IN  PutAll(i, S, m) = (CHOOSE F : IsFold(F, T, i, m))[T]
BY DEF IsFold, PutAll, FoldSet, MapThenFoldSet, After, Choice

\* The subsets of T of at most n files.
UpTo(T, n) == {s \in SUBSET T : Cardinality(s) <= n}

LEMMA OneLess ==
  ASSUME NEW T, IsFiniteSet(T), NEW n \in Nat, NEW s \in UpTo(T, n + 1), s # {}
  PROVE  Choice(s) \in T /\ s \ {Choice(s)} \in UpTo(T, n)
<1>1. Choice(s) \in s
  BY DEF Choice
<1>2. s \subseteq T /\ IsFiniteSet(s) /\ Cardinality(s) <= n + 1 /\ Cardinality(s) \in Nat
  BY FS_Subset, FS_CardinalityType DEF UpTo
<1>3. Cardinality(s \ {Choice(s)}) = Cardinality(s) - 1
  BY <1>1, <1>2, FS_RemoveElement
<1> QED
  BY <1>1, <1>2, <1>3 DEF UpTo

\* There is such a function.
LEMMA FoldExists ==
  ASSUME NEW T, IsFiniteSet(T), NEW i, NEW m
  PROVE  \E F : IsFold(F, T, i, m)
<1> DEFINE N == {n \in Nat : \E F : F = [s \in UpTo(T, n) |-> After(F, i, s, m)]}
<1>1. 0 \in N
  <2> DEFINE F == [s \in UpTo(T, 0) |-> i]
  <2>1. \A s \in UpTo(T, 0) : s = {}
    <3> SUFFICES ASSUME NEW s \in UpTo(T, 0) PROVE s = {}
      OBVIOUS
    <3>1. s \subseteq T /\ IsFiniteSet(s) /\ Cardinality(s) \in Nat /\ Cardinality(s) <= 0
      BY FS_Subset, FS_CardinalityType DEF UpTo
    <3> QED
      BY <3>1, FS_EmptySet
  <2>2. F = [s \in UpTo(T, 0) |-> After(F, i, s, m)]
    BY <2>1 DEF After
  <2> QED
    BY <2>2
<1>2. ASSUME NEW n \in Nat, n \in N PROVE n + 1 \in N
  <2>1. PICK F : F = [s \in UpTo(T, n) |-> After(F, i, s, m)]
    BY <1>2
  <2> DEFINE G == [s \in UpTo(T, n + 1) |-> After(F, i, s, m)]
  <2>2. ASSUME NEW s \in UpTo(T, n + 1) PROVE After(F, i, s, m) = After(G, i, s, m)
    <3>1. CASE s = {}
      BY <3>1 DEF After
    <3>2. CASE s # {}
      <4> DEFINE r == s \ {Choice(s)}
      <4>1. r \in UpTo(T, n)
        BY <2>2, <3>2, OneLess
      <4>3. IsFiniteSet(r)
        BY <4>1, FS_Subset DEF UpTo
      <4>4. Cardinality(r) \in Nat
        BY <4>3, FS_CardinalityType
      <4>5. r \in UpTo(T, n + 1)
        BY <4>1, <4>4 DEF UpTo
      <4>2. F[r] = G[r]
        BY <4>1, <4>5, <2>1
      <4> QED
        BY <3>2, <4>2 DEF After
    <3> QED
      BY <3>1, <3>2
  <2> HIDE DEF G
  <2>3. G = [s \in UpTo(T, n + 1) |-> After(G, i, s, m)]
    BY <2>2 DEF G
  <2> QED
    BY <2>3
<1>3. Cardinality(T) \in N
  <2> HIDE DEF N
  <2>1. Nat \subseteq N
    BY <1>1, <1>2, Inductive
  <2>2. Cardinality(T) \in Nat
    BY FS_CardinalityType
  <2> QED
    BY <2>1, <2>2
<1>4. UpTo(T, Cardinality(T)) = SUBSET T
  BY FS_Subset, FS_CardinalityType DEF UpTo
<1>5. PICK F : F = [s \in UpTo(T, Cardinality(T)) |-> After(F, i, s, m)]
  BY <1>3
<1> QED
  BY <1>4, <1>5 DEF IsFold

\* What a put of one more file makes of the index left by those before, putting all makes.
LEMMA PutAllKeeps ==
  ASSUME NEW S, IsFiniteSet(S), NEW m, NEW I, NEW i \in I[{}],
         \A s \in SUBSET S : \A f \in S : \A j \in I[s \ {f}] :
            f \in s /\ OnDisk(f) => Put(j, f, Check(f, m)) \in I[s]
  PROVE  PutAll(i, S, m) \in I[{f \in S : OnDisk(f)}]
<1> DEFINE T == {f \in S : OnDisk(f)}
           F == CHOOSE F : IsFold(F, T, i, m)
           N == {n \in Nat : \A s \in UpTo(T, n) : F[s] \in I[s]}
<1>1. IsFiniteSet(T)
  <2>1. T \subseteq S
    OBVIOUS
  <2> QED
    BY <2>1, FS_Subset
<1>9. T \subseteq S /\ \A f \in T : OnDisk(f)
  OBVIOUS
<1> HIDE DEF F, T
<1>2. F = [s \in SUBSET T |-> After(F, i, s, m)]
  <2>1. \E G : IsFold(G, T, i, m)
    BY <1>1, FoldExists
  <2>2. IsFold(F, T, i, m)
    BY <2>1 DEF F
  <2> QED
    BY <2>2 DEF IsFold
<1>3. PutAll(i, S, m) = F[T]
  BY PutAllIs DEF F, T
<1>4. T \in UpTo(T, Cardinality(T)) /\ Cardinality(T) \in Nat
  BY <1>1, FS_CardinalityType DEF UpTo
<1>5. \A n \in Nat : \A s \in UpTo(T, n) : F[s] = After(F, i, s, m)
  BY <1>2 DEF UpTo
<1>6. 0 \in N
  <2> SUFFICES ASSUME NEW s \in UpTo(T, 0) PROVE F[s] \in I[s]
    OBVIOUS
  <2>1. s \subseteq T /\ IsFiniteSet(s) /\ Cardinality(s) \in Nat /\ Cardinality(s) <= 0
    BY <1>1, FS_Subset, FS_CardinalityType DEF UpTo
  <2>2. s = {}
    BY <2>1, FS_EmptySet
  <2> QED
    BY <1>5, <2>2 DEF After
<1>7. ASSUME NEW n \in Nat, n \in N PROVE n + 1 \in N
  <2> SUFFICES ASSUME NEW s \in UpTo(T, n + 1), s # {} PROVE F[s] \in I[s]
    <3>1. \A s \in UpTo(T, n + 1) : s = {} => F[s] \in I[s]
      BY <1>5, <1>7 DEF After
    <3> QED
      BY <3>1
  <2>1. Choice(s) \in T /\ s \ {Choice(s)} \in UpTo(T, n)
    BY <1>1, <1>7, OneLess
  <2>4. Choice(s) \in S /\ OnDisk(Choice(s)) /\ s \in SUBSET S /\ Choice(s) \in s
    BY <1>9, <2>1 DEF UpTo, Choice
  <2>2. F[s \ {Choice(s)}] \in I[s \ {Choice(s)}]
    BY <1>7, <2>1
  <2>3. F[s] = Put(F[s \ {Choice(s)}], Choice(s), Check(Choice(s), m))
    BY <1>5, <1>7 DEF After
  <2> QED
    BY <2>2, <2>3, <2>4
<1> HIDE DEF N
<1>8. Nat \subseteq N
  BY <1>6, <1>7, Inductive
<1> QED
  BY <1>3, <1>4, <1>8 DEF N, T

-----------------------------------------------------------------------------
(* What the variables are.                                                 *)

Index == [files : [Files -> Entries \cup {None}], dirty : SUBSET Files, relist : BOOLEAN,
          refsBuilt : BOOLEAN, inputs : Nat \cup {None}]
Stages == {"idle", "stat", "read", "ready", "pending", "fill", "index", "keep", "answer"}
Requests == [stage : Stages, kind : {"symbols", "refs"}, here : Files \cup {None},
             target : Files \cup {None}, round : {0, 1}, todo : SUBSET Files,
             file : Files \cup {None}, read : Nat \cup {None}, changed : SUBSET Files,
             structural : BOOLEAN, all : BOOLEAN, first : BOOLEAN, place : Nat \cup {None},
             made : Uses \cup {None}, quiet : BOOLEAN, reply : Replies \cup {None}]

WorldTyped ==
    /\ disk \in [Files -> (Nat \ {0}) \cup {None}]
    /\ stamp \in [Files -> Nat] /\ calm \in [Files -> BOOLEAN]
    /\ ext \in Nat /\ writes \in Nat
ServerTyped ==
    /\ watching \in BOOLEAN /\ told \subseteq Files \cup {Inputs}
    /\ model \in Nat \cup {None} /\ checked \in [Files -> Uses \cup {None}]
    /\ opened \subseteq Files
\* A request that has a file in hand.
HandTyped ==
    /\ req.stage \in {"read", "index", "keep"} => req.file \in req.todo /\ req.read \in Nat
    /\ req.stage = "keep" => req.made \in Uses
    /\ req.stage # "idle" => model \in Nat /\ req.here \in Files /\ req.target \in Files
Types == WorldTyped /\ ServerTyped /\ ix \in Index /\ req \in Requests /\ HandTyped

LEMMA NotNone ==
  /\ None \notin Nat /\ None \notin Files /\ None \notin Uses /\ None \notin Entries
  /\ None \notin Replies /\ \A S \in SUBSET Files : None # S
BY NoneAssumption

LEMMA ClosureTyped == ASSUME NEW f PROVE Closure(f) \subseteq There
BY DEF Closure, ClosureIn

LEMMA CheckTyped ==
  ASSUME WorldTyped, NEW f \in There, NEW m \in Nat \cup {None}
  PROVE  Check(f, m) \in Uses
<1>1. Closure(f) \in SUBSET Files /\ [g \in Closure(f) |-> disk[g]] \in [Closure(f) -> Nat]
  BY ClosureTyped DEF There, OnDisk, WorldTyped
<1>2. disk[f] \in Nat
  BY DEF There, OnDisk, WorldTyped
<1> QED
  BY <1>1, <1>2 DEF Check, Uses

SameBut(i, j) == j.relist = i.relist /\ j.refsBuilt = i.refsBuilt /\ j.inputs = i.inputs

LEMMA TakenTyped == ASSUME NEW e \in Entries PROVE Taken(e) \in Entries
BY DEF Taken, Entries

LEMMA TakenIs ==
  ASSUME NEW e \in Entries
  PROVE  /\ Taken(e) \in Entries /\ Taken(e).text = e.text /\ Taken(e).stamp = e.stamp
         /\ Taken(e).settled = e.settled /\ Taken(e).deps = e.deps
         /\ Taken(e).refs = None /\ Taken(e).distrust = TRUE
BY DEF Taken, Entries

LEMMA MovedIs ==
  ASSUME NEW i \in Index, NEW changed, NEW structural, NEW j, j = Moved(i, changed, structural)
  PROVE  /\ j \in Index /\ j.dirty = i.dirty /\ SameBut(i, j)
         /\ \A f \in Files : j.files[f] = IF i.files[f] # None /\ Hit(i, changed, structural, f)
                                          THEN Taken(i.files[f]) ELSE i.files[f]
<1> DEFINE files == [f \in Files |-> IF i.files[f] # None /\ Hit(i, changed, structural, f)
                                     THEN Taken(i.files[f]) ELSE i.files[f]]
<1>1. j = [i EXCEPT !.files = files]
  BY DEF Moved, Hit, Taken
<1>2. files \in [Files -> Entries \cup {None}]
  BY TakenTyped DEF Index
<1> HIDE DEF files
<1>3. j \in Index /\ j.dirty = i.dirty /\ SameBut(i, j) /\ j.files = files
  BY <1>1, <1>2 DEF Index, SameBut
<1> QED
  BY <1>3 DEF files

\* The index a put leaves.
HitBy(i, f, g) == Hit(i, {f}, FALSE, g)

LEMMA PutIs ==
  ASSUME WorldTyped, NEW i \in Index, NEW f \in Files, NEW c \in Uses, NEW j, j = Put(i, f, c)
  PROVE  /\ j \in Index /\ SameBut(i, j)
         /\ i.files[f] = None => j = i
         /\ i.files[f] # None =>
              /\ j.dirty = i.dirty \ {f}
              /\ j.files[f] = PutEntry(i, f, c)
              /\ \A g \in Files \ {f} :
                   j.files[g] = IF i.files[g] # None /\ i.files[f].text # c.text /\ HitBy(i, f, g)
                                THEN Taken(i.files[g]) ELSE i.files[g]
<1>1. CASE i.files[f] = None
  BY <1>1 DEF Put, SameBut
<1>2. CASE i.files[f] # None
  <2> DEFINE e == PutEntry(i, f, c)
             k == [i EXCEPT !.files[f] = e, !.dirty = @ \ {f}]
  <2>1. i.files[f] \in Entries
    BY <1>2 DEF Index
  <2>2. DOMAIN c.read \in SUBSET Files /\ c.text \in Nat
    BY DEF Uses
  <2>3. e \in Entries
    BY <2>1, <2>2 DEF PutEntry, Entries, WorldTyped
  <2>4. /\ k \in Index /\ SameBut(i, k) /\ k.dirty = i.dirty \ {f} /\ k.files[f] = e
        /\ \A g \in Files \ {f} : k.files[g] = i.files[g]
    BY <2>3 DEF Index, SameBut
  <2>5. CASE i.files[f].text = c.text
    <3>1. j = k
      BY <1>2, <2>5 DEF Put, PutInto, e
    <3> QED
      BY <1>2, <2>4, <2>5, <3>1 DEF e
  <2>6. CASE i.files[f].text # c.text
    <3>1. j = Moved(k, {f}, FALSE)
      BY <1>2, <2>6 DEF Put, PutInto, e
    <3> HIDE DEF k
    <3> DEFINE st == FALSE
    <3>4. j = Moved(k, {f}, st) /\ k \in Index
      BY <2>4, <3>1
    <3> HIDE DEF st
    <3>5. /\ j \in Index /\ j.dirty = k.dirty /\ SameBut(k, j)
          /\ \A g \in Files : j.files[g] = IF k.files[g] # None /\ Hit(k, {f}, st, g)
                                           THEN Taken(k.files[g]) ELSE k.files[g]
      BY <3>4, MovedIs
    <3>2. /\ j \in Index /\ j.dirty = k.dirty /\ SameBut(k, j)
          /\ \A g \in Files : j.files[g] = IF k.files[g] # None /\ Hit(k, {f}, FALSE, g)
                                           THEN Taken(k.files[g]) ELSE k.files[g]
      BY <3>5 DEF st
    <3>3. ~Hit(k, {f}, FALSE, f) /\ \A g \in Files \ {f} : Hit(k, {f}, FALSE, g) = Hit(i, {f}, FALSE, g)
      BY <2>4 DEF Hit
    <3> QED
      BY <1>2, <2>4, <2>6, <3>2, <3>3 DEF e, SameBut, HitBy
  <2> QED
    BY <2>5, <2>6
<1> QED
  BY <1>1, <1>2

\* What putting checks of files S one after the other may make of an index: of each
\* entry, and of a pair of them.
PutSymbols(i, S, j, f) ==
    \/ /\ j.files[f].text = i.files[f].text
       /\ j.files[f].stamp = i.files[f].stamp /\ j.files[f].settled = i.files[f].settled
       /\ f \in i.dirty => f \in j.dirty
    \/ /\ f \in S /\ OnDisk(f) /\ j.files[f].text = disk[f]
       /\ j.files[f].stamp = stamp[f] /\ j.files[f].settled = calm[f]
PutUses(i, S, j, f) ==
    /\ j.files[f].refs # None =>
         j.files[f].refs = i.files[f].refs /\ j.files[f].text = i.files[f].text
    /\ j.files[f].deps = i.files[f].deps \/ (f \in S /\ j.files[f].deps = Closure(f))
    /\ ~j.files[f].distrust =>
         \/ f \in S /\ OnDisk(f) /\ j.files[f].deps = Closure(f)
         \/ /\ ~i.files[f].distrust /\ j.files[f].refs = i.files[f].refs
            /\ j.files[f].text = i.files[f].text /\ j.files[f].deps = i.files[f].deps
PutPair(i, S, j, f, g) ==
    j.files[g].text # i.files[g].text
    /\ (j.files[f].refs # None \/ (~j.files[f].distrust /\ f \notin S))
    => g \notin Closure(f) \/ (i.files[f].deps # None /\ g \notin i.files[f].deps)
Putting(i, S, j) ==
    /\ j \in Index /\ SameBut(i, j) /\ j.dirty \subseteq i.dirty
    /\ \A f \in Files : /\ j.files[f] = None <=> i.files[f] = None
                        /\ i.files[f] # None => PutSymbols(i, S, j, f) /\ PutUses(i, S, j, f)
    /\ \A f, g \in Files : i.files[f] # None /\ i.files[g] # None /\ f # g => PutPair(i, S, j, f, g)

LEMMA PuttingNothing == ASSUME NEW i \in Index, NEW S PROVE Putting(i, S, i)
BY DEF Putting, SameBut, PutSymbols, PutUses, PutPair

LEMMA PuttingOne ==
  ASSUME WorldTyped, NEW i \in Index, NEW S, NEW j, Putting(i, S, j),
         NEW h \in S, h \in Files, OnDisk(h), NEW m \in Nat \cup {None}
  PROVE  LET k == Put(j, h, Check(h, m))
         IN  /\ Putting(i, S, k)
             /\ \A g \in Files : k.files[g] # None =>
                   k.files[g].text = IF g = h THEN disk[g] ELSE j.files[g].text
<1> DEFINE c == Check(h, m)
           k == Put(j, h, c)
<1>1. j \in Index
  BY DEF Putting
<1>2. c \in Uses /\ c.text = disk[h] /\ DOMAIN c.read = Closure(h)
  <2>1. h \in There
    BY DEF There
  <2> QED
    BY <2>1, CheckTyped DEF Check
<1> HIDE DEF c
<1>3. /\ k \in Index /\ SameBut(j, k)
      /\ j.files[h] = None => k = j
      /\ j.files[h] # None =>
           /\ k.dirty = j.dirty \ {h}
           /\ k.files[h] = PutEntry(j, h, c)
           /\ \A g \in Files \ {h} :
                k.files[g] = IF j.files[g] # None /\ j.files[h].text # c.text /\ HitBy(j, h, g)
                             THEN Taken(j.files[g]) ELSE j.files[g]
  <2>1. k = Put(j, h, c)
    OBVIOUS
  <2> HIDE DEF k
  <2> QED
    BY <1>1, <1>2, <2>1, PutIs
<1> HIDE DEF k
<1>4. CASE j.files[h] = None
  BY <1>3, <1>4 DEF c, k
<1>5. CASE j.files[h] # None
  <2>7. /\ PutEntry(j, h, c).text = disk[h] /\ PutEntry(j, h, c).stamp = stamp[h]
        /\ PutEntry(j, h, c).settled = calm[h] /\ PutEntry(j, h, c).distrust = FALSE
        /\ PutEntry(j, h, c).deps = Closure(h)
        /\ PutEntry(j, h, c).refs = IF j.files[h].text = disk[h] THEN j.files[h].refs ELSE None
    BY <1>2 DEF PutEntry
  <2>8. PutEntry(j, h, c) \in Entries
    <3>1. j.files[h] \in Entries /\ Closure(h) \in SUBSET Files /\ c.text \in Nat
      BY <1>1, <1>2, <1>5, ClosureTyped DEF Index, There, Uses
    <3>2. j.files[h].refs \in Uses \cup {None}
      BY <3>1 DEF Entries
    <3>3. (IF j.files[h].text = c.text THEN j.files[h].refs ELSE None) \in Uses \cup {None}
      BY <3>2
    <3> QED
      BY <3>1, <3>3, <1>2 DEF PutEntry, Entries, WorldTyped
  <2>1. /\ k.files[h] # None /\ k.files[h].text = disk[h] /\ k.files[h].stamp = stamp[h]
        /\ k.files[h].settled = calm[h] /\ k.files[h].distrust = FALSE /\ k.files[h].deps = Closure(h)
        /\ k.files[h].refs = IF j.files[h].text = disk[h] THEN j.files[h].refs ELSE None
    <3>1. k.files[h] = PutEntry(j, h, c)
      BY <1>3, <1>5
    <3>2. k.files[h] # None
      BY <2>8, <3>1, NotNone
    <3> QED
      BY <2>7, <3>1, <3>2
  <2>2. ASSUME NEW g \in Files \ {h}
        PROVE  /\ k.files[g] = None <=> j.files[g] = None
               /\ j.files[g] # None =>
                    /\ k.files[g].text = j.files[g].text /\ k.files[g].stamp = j.files[g].stamp
                    /\ k.files[g].settled = j.files[g].settled /\ k.files[g].deps = j.files[g].deps
                    /\ \/ k.files[g].refs = j.files[g].refs /\ k.files[g].distrust = j.files[g].distrust
                          /\ (j.files[h].text = disk[h] \/ (j.files[g].deps # None /\ h \notin j.files[g].deps))
                       \/ k.files[g].refs = None /\ k.files[g].distrust = TRUE
    <3>1. CASE j.files[g] # None /\ j.files[h].text # c.text /\ HitBy(j, h, g)
      <4>1. k.files[g] = Taken(j.files[g]) /\ j.files[g] \in Entries
        BY <1>1, <1>3, <1>5, <2>2, <3>1 DEF Index
      <4> DEFINE e == j.files[g]
      <4> HIDE DEF e
      <4>2. /\ Taken(e) \in Entries /\ Taken(e).text = e.text /\ Taken(e).stamp = e.stamp
            /\ Taken(e).settled = e.settled /\ Taken(e).deps = e.deps
            /\ Taken(e).refs = None /\ Taken(e).distrust = TRUE
        BY <4>1, TakenIs DEF e
      <4> QED
        BY <3>1, <4>1, <4>2, NotNone DEF e
    <3>2. CASE ~(j.files[g] # None /\ j.files[h].text # c.text /\ HitBy(j, h, g))
      <4>1. k.files[g] = j.files[g]
        BY <1>3, <1>5, <2>2, <3>2
      <4>2. j.files[g] # None => j.files[h].text = c.text \/ (j.files[g].deps # None /\ h \notin j.files[g].deps)
        BY <2>2, <3>2 DEF Hit, HitBy
      <4> QED
        BY <1>2, <4>1, <4>2
    <3> QED
      BY <3>1, <3>2
  <2>3. SameBut(i, k) /\ k.dirty \subseteq i.dirty
    BY <1>3, <1>5 DEF Putting, SameBut
  <2>4. ASSUME NEW f \in Files, i.files[f] # None
        PROVE  PutSymbols(i, S, k, f) /\ PutUses(i, S, k, f)
    <3>1. PutSymbols(i, S, j, f) /\ PutUses(i, S, j, f) /\ j.files[f] # None
      BY <2>4 DEF Putting
    <3>2. CASE f = h
      <4>1. PutSymbols(i, S, k, f)
        BY <2>1, <3>2 DEF PutSymbols
      <4>2. PutUses(i, S, k, f)
        BY <2>1, <3>1, <3>2 DEF PutUses
      <4> QED
        BY <4>1, <4>2
    <3>3. CASE f # h
      <4>1. PutSymbols(i, S, k, f)
        BY <1>3, <1>5, <2>2, <2>4, <3>1, <3>3 DEF PutSymbols
      <4>2. PutUses(i, S, k, f)
        BY <2>2, <2>4, <3>1, <3>3 DEF PutUses
      <4> QED
        BY <4>1, <4>2
    <3> QED
      BY <3>2, <3>3
  <2>5. ASSUME NEW f \in Files, NEW g \in Files, i.files[f] # None, i.files[g] # None, f # g
        PROVE  PutPair(i, S, k, f, g)
    <3>1. /\ PutPair(i, S, j, f, g) /\ PutUses(i, S, j, f)
          /\ j.files[f] # None /\ j.files[g] # None
      BY <2>5 DEF Putting
    <3>2. CASE g = h
      BY <2>1, <2>2, <2>5, <3>1, <3>2 DEF PutPair, PutUses
    <3>3. CASE g # h /\ f = h
      BY <2>1, <2>2, <2>5, <3>1, <3>3 DEF PutPair
    <3>4. CASE g # h /\ f # h
      BY <2>2, <2>5, <3>1, <3>4 DEF PutPair
    <3> QED
      BY <3>2, <3>3, <3>4
  <2>6. \A f \in Files : k.files[f] = None <=> i.files[f] = None
    BY <1>5, <2>1, <2>2 DEF Putting
  <2> QED
    <3>1. Putting(i, S, k)
      BY <1>3, <2>3, <2>4, <2>5, <2>6 DEF Putting
    <3>2. \A g \in Files : k.files[g] # None =>
             k.files[g].text = IF g = h THEN disk[g] ELSE j.files[g].text
      BY <2>1, <2>2
    <3> QED
      BY <3>1, <3>2 DEF k, c
<1> QED
  BY <1>4, <1>5

LEMMA PutAllPuts ==
  ASSUME WorldTyped, NEW i \in Index, NEW S \in SUBSET Files, NEW m \in Nat \cup {None}
  PROVE  /\ Putting(i, S, PutAll(i, S, m))
         /\ \A f \in S : OnDisk(f) /\ PutAll(i, S, m).files[f] # None
                         => PutAll(i, S, m).files[f].text = disk[f]
<1> DEFINE Set(s) == {j \in Index : Putting(i, S, j) /\ \A f \in s : j.files[f] # None => j.files[f].text = disk[f]}
           I == [s \in SUBSET S |-> Set(s)]
<1>1. i \in I[{}]
  BY PuttingNothing
<1>2. \A s \in SUBSET S : \A f \in S : \A j \in I[s \ {f}] :
            f \in s /\ OnDisk(f) => Put(j, f, Check(f, m)) \in I[s]
  <2> SUFFICES ASSUME NEW s \in SUBSET S, NEW f \in S, NEW j \in I[s \ {f}], f \in s, OnDisk(f)
               PROVE  Put(j, f, Check(f, m)) \in I[s]
    OBVIOUS
  <2>1. j \in Index /\ Putting(i, S, j) /\ \A g \in s \ {f} : j.files[g] # None => j.files[g].text = disk[g]
    BY DEF I
  <2> DEFINE k == Put(j, f, Check(f, m))
  <2>2. /\ Putting(i, S, k)
        /\ \A g \in Files : k.files[g] # None =>
                   k.files[g].text = IF g = f THEN disk[g] ELSE j.files[g].text
    BY <2>1, PuttingOne
  <2> HIDE DEF k
  <2>3. k \in Index /\ \A g \in Files : k.files[g] = None <=> j.files[g] = None
    BY <2>1, <2>2 DEF Putting
  <2>4. k \in Set(s)
    BY <2>1, <2>2, <2>3
  <2> QED
    BY <2>4 DEF k
<1>3. IsFiniteSet(S)
  BY FS_Subset, FilesAssumption
<1>5. \A s \in SUBSET S : I[s] = Set(s)
  OBVIOUS
<1> HIDE DEF I
<1>4. PutAll(i, S, m) \in I[{f \in S : OnDisk(f)}]
  BY <1>1, <1>2, <1>3, PutAllKeeps
<1>6. PutAll(i, S, m) \in Set({f \in S : OnDisk(f)})
  BY <1>4, <1>5
<1> QED
  BY <1>6

LEMMA PutAllIsPutting ==
  ASSUME WorldTyped, NEW i \in Index, NEW S \in SUBSET Files, NEW m \in Nat \cup {None}
  PROVE  Putting(i, S, PutAll(i, S, m))
BY PutAllPuts

-----------------------------------------------------------------------------
(* Every step keeps the types.                                             *)

LEMMA ChecksOfTyped ==
  ASSUME WorldTyped, checked \in [Files -> Uses \cup {None}], NEW S, NEW m \in Nat \cup {None}
  PROVE  ChecksOf(S, m) \in [Files -> Uses \cup {None}]
<1>1. \A f \in Files : OnDisk(f) => Check(f, m) \in Uses
  <2> SUFFICES ASSUME NEW f \in Files, OnDisk(f) PROVE Check(f, m) \in Uses
    OBVIOUS
  <2>1. f \in There
    BY DEF There
  <2> QED
    BY <2>1, CheckTyped
<1> QED
  BY <1>1 DEF ChecksOf

LEMMA PutAllTyped ==
  ASSUME WorldTyped, NEW i \in Index, NEW S \in SUBSET Files, NEW m \in Nat \cup {None}
  PROVE  PutAll(i, S, m) \in Index
BY PutAllIsPutting DEF Putting

LEMMA IdleTyped == Idle \in Requests
BY DEF Idle, Requests, Stages

LEMMA TypesInit == ASSUME Init PROVE Types
<1>1. ix \in Index
  BY DEF Init, NoIndex, Index
<1>2. WorldTyped
  BY NotNone DEF Init, WorldTyped
<1>3. ServerTyped
  BY DEF Init, ServerTyped
<1>4. HandTyped
  BY DEF Init, HandTyped, Idle
<1> QED
  BY <1>1, <1>2, <1>3, <1>4, IdleTyped DEF Types, Init

\* A step of the world leaves the index, and of a request only that nothing was said.
WorldStep == World /\ UNCHANGED <<watching, model, checked, opened, ix>>
LEMMA UnquietTyped ==
  ASSUME Types, Unquiet, UNCHANGED model PROVE req' \in Requests /\ HandTyped'
<1>1. req' \in Requests
  BY DEF Types, Unquiet, Requests
<1>2. /\ req'.stage = req.stage /\ req'.file = req.file /\ req'.todo = req.todo
      /\ req'.read = req.read /\ req'.made = req.made
      /\ req'.here = req.here /\ req'.target = req.target
  BY DEF Types, Unquiet, Requests
<1> QED
  BY <1>1, <1>2 DEF Types, HandTyped

LEMMA TypesWrite ==
  ASSUME Types, NEW f \in Files, NEW t \in Texts, NEW same \in BOOLEAN, Write(f, t, same)
  PROVE  Types'
<1>1. WorldTyped'
  BY ConstantsAssumption DEF Types, WorldTyped, Write, Texts
<1>2. ServerTyped' /\ ix' \in Index
  BY DEF Types, ServerTyped, Write, Tell
<1>3. req' \in Requests /\ HandTyped'
  BY UnquietTyped DEF Write
<1> QED
  BY <1>1, <1>2, <1>3 DEF Types

LEMMA TypesDelete ==
  ASSUME Types, NEW f \in Files, NEW named \in BOOLEAN, Delete(f, named)
  PROVE  Types'
<1>1. WorldTyped'
  BY DEF Types, WorldTyped, Delete
<1>2. ServerTyped' /\ ix' \in Index
  BY DEF Types, ServerTyped, Delete, Tell
<1>3. req' \in Requests /\ HandTyped'
  BY UnquietTyped DEF Delete
<1> QED
  BY <1>1, <1>2, <1>3 DEF Types

LEMMA TypesWriteInputs == ASSUME Types, WriteInputs PROVE Types'
<1>1. WorldTyped'
  BY DEF Types, WorldTyped, WriteInputs
<1>2. ServerTyped' /\ ix' \in Index
  BY DEF Types, ServerTyped, WriteInputs, Tell
<1>3. req' \in Requests /\ HandTyped'
  BY UnquietTyped DEF WriteInputs
<1> QED
  BY <1>1, <1>2, <1>3 DEF Types

LEMMA TypesSettle == ASSUME Types, NEW f \in Files, Settle(f) PROVE Types'
<1>1. WorldTyped'
  BY DEF Types, WorldTyped, Settle
<1>2. ServerTyped' /\ ix' \in Index /\ req' \in Requests /\ HandTyped'
  BY DEF Types, ServerTyped, HandTyped, Settle
<1> QED
  BY <1>1, <1>2 DEF Types

LEMMA LoadedTyped == ASSUME Types PROVE LoadedModel \in Nat
BY DEF Types, WorldTyped, ServerTyped, LoadedModel

LEMMA TypesSave == ASSUME Types, NEW f \in Files, Save(f) PROVE Types'
<1> DEFINE S == {f} \cup {g \in opened : checked[g] # None /\ f \in DOMAIN checked[g].read}
<1>1. S \in SUBSET Files
  BY DEF Types, ServerTyped
<1>2. checked' = ChecksOf(S, LoadedModel) /\ ix' = PutAll(ix, S, LoadedModel)
  BY DEF Save
<1> HIDE DEF S
<1>3. checked' \in [Files -> Uses \cup {None}] /\ ix' \in Index
  BY <1>1, <1>2, LoadedTyped, ChecksOfTyped, PutAllTyped DEF Types, ServerTyped
<1>4. WorldTyped' /\ req' \in Requests /\ ServerTyped'
  BY <1>3, LoadedTyped DEF Types, WorldTyped, ServerTyped, Save
<1>5. HandTyped'
  BY DEF Types, HandTyped, Save
<1> QED
  BY <1>3, <1>4, <1>5 DEF Types

LEMMA TypesFileEvent == ASSUME Types, NEW f \in Files, FileEvent(f) PROVE Types'
<1>1. ix' \in Index
  BY DEF Types, Index, FileEvent, Event
<1> QED
  BY <1>1 DEF Types, WorldTyped, ServerTyped, HandTyped, FileEvent

LEMMA TypesInputsEvent == ASSUME Types, InputsEvent PROVE Types'
<1>1. checked' \in [Files -> Uses \cup {None}] /\ ix' \in Index /\ model' \in Nat \cup {None}
  <2>1. CASE opened = {}
    BY <2>1 DEF Types, ServerTyped, InputsEvent
  <2>2. CASE opened # {}
    <3> DEFINE k == Moved(ix, {}, TRUE)
    <3>1. model' = ext /\ checked' = ChecksOf(opened, ext) /\ ix' = PutAll(k, opened, ext)
      BY <2>2 DEF InputsEvent
    <3>2. k \in Index
      BY MovedIs DEF Types
    <3> HIDE DEF k
    <3> QED
      BY <3>1, <3>2, ChecksOfTyped, PutAllTyped DEF Types, ServerTyped, WorldTyped
  <2> QED
    BY <2>1, <2>2
<1>2. WorldTyped' /\ req' \in Requests /\ ServerTyped'
  BY <1>1 DEF Types, WorldTyped, ServerTyped, InputsEvent
<1>3. HandTyped'
  BY DEF Types, HandTyped, InputsEvent
<1> QED
  BY <1>1, <1>2, <1>3 DEF Types

\* A request that moves on.
LEMMA StagesOn ==
  ASSUME NEW r \in Requests, NEW s \in Stages
  PROVE  [r EXCEPT !.stage = s] \in Requests /\ [r EXCEPT !.stage = s].stage = s
BY DEF Requests

LEMMA NamedStages == {"idle", "stat", "read", "ready", "pending", "fill", "index", "keep", "answer"} \subseteq Stages
BY DEF Stages

\* A request that begins to look at the files.
LEMMA BeginsTyped ==
  ASSUME NEW r \in Requests, NEW all \in BOOLEAN, NEW todo \in SUBSET Files,
         NEW structural \in BOOLEAN, NEW first \in BOOLEAN
  PROVE  [r EXCEPT !.stage = "stat", !.all = all, !.changed = {}, !.todo = todo,
                   !.structural = structural, !.first = first] \in Requests
<1> DEFINE k1 == [r EXCEPT !.stage = "stat"]
           k2 == [k1 EXCEPT !.all = all]
           k3 == [k2 EXCEPT !.changed = {}, !.todo = todo]
           k4 == [k3 EXCEPT !.structural = structural]
           k5 == [k4 EXCEPT !.first = first]
<1>1. k5 = [r EXCEPT !.stage = "stat", !.all = all, !.changed = {}, !.todo = todo,
                     !.structural = structural, !.first = first]
  OBVIOUS
<1> HIDE DEF k5
<1>2. k1 \in Requests
  BY StagesOn, NamedStages
<1> HIDE DEF k1
<1>3. k2 \in Requests
  BY <1>2 DEF Requests
<1> HIDE DEF k2
<1>4. k3 \in Requests
  BY <1>3 DEF Requests
<1> HIDE DEF k3
<1>5. k4 \in Requests
  BY <1>4 DEF Requests
<1> HIDE DEF k4
<1>6. k5 \in Requests
  BY <1>5 DEF Requests, k5
<1> QED
  BY <1>1, <1>6

LEMMA TypesAsk ==
  ASSUME Types, NEW kind \in {"symbols", "refs"}, NEW f \in Files, NEW g \in Files, Ask(kind, f, g)
  PROVE  Types'
<1> DEFINE r == [Idle EXCEPT !.kind = kind, !.here = f, !.target = g, !.quiet = AllTold]
<1>1. r \in Requests
  BY DEF Idle, Requests, Stages, AllTold
<1>2. Refresh(r)
  BY DEF Ask
<1> HIDE DEF r
<1>3. There \in SUBSET Files /\ Held \in SUBSET Files
  BY DEF There, Held
<1>4. ix' \in Index
  <2>1. [ix EXCEPT !.files = [h \in Files |-> IF h \in Held \ There THEN None ELSE @[h]]] \in Index
    BY DEF Types, Index
  <2> QED
    BY <1>2, <2>1 DEF Refresh, Types
<1>5. req' \in Requests /\ req'.stage = "stat"
  <2> DEFINE all == ~watching \/ ix.relist
             todo == IF all THEN There ELSE ix.dirty \cap Held
             structural == all /\ Held \ There # {}
             first == Held = {}
  <2>1. all \in BOOLEAN /\ todo \in SUBSET Files /\ structural \in BOOLEAN /\ first \in BOOLEAN
    BY <1>3 DEF Types, Index, ServerTyped
  <2>2. req' = [r EXCEPT !.stage = "stat", !.all = all, !.changed = {}, !.todo = todo,
                         !.structural = structural, !.first = first]
    BY <1>2 DEF Refresh
  <2> HIDE DEF all, todo, structural, first
  <2> QED
    <3>1. req' \in Requests
      BY <1>1, <2>1, <2>2, BeginsTyped
    <3>2. req'.stage = "stat"
      BY <1>1, <2>2 DEF Requests
    <3> QED
      BY <3>1, <3>2
<1>6. model' \in Nat
  BY <1>2, LoadedTyped DEF Refresh
<1>7. WorldTyped' /\ ServerTyped'
  BY <1>6 DEF Ask, Types, WorldTyped, ServerTyped
<1>8. HandTyped'
  <2>1. r.here = f /\ r.target = g
    BY DEF r, Idle
  <2>2. req'.here = r.here /\ req'.target = r.target
    BY <1>1, <1>2 DEF Refresh, Requests
  <2> QED
    BY <1>5, <1>6, <2>1, <2>2 DEF HandTyped
<1> QED
  BY <1>4, <1>5, <1>7, <1>8 DEF Types

\* A step of a request that moves neither the world nor the checks.
Quietly == UNCHANGED <<FreeToMove, model, checked>>
LEMMA TypesQuietly ==
  ASSUME Types, Quietly, ix' \in Index, req' \in Requests, HandTyped' PROVE Types'
BY DEF Types, WorldTyped, ServerTyped, Quietly, FreeToMove

LEMMA TypesStat == ASSUME Types, NEW f \in Files, Stat(f) PROVE Types'
<1>1. ix' \in Index
  BY DEF Types, Index, Stat
<1>4. stamp[f] \in Nat
  BY DEF Types, WorldTyped
<1>2. req' \in Requests
  <2>1. CASE req' = [req EXCEPT !.todo = @ \ {f}, !.structural = TRUE]
    BY <2>1 DEF Types, Requests
  <2>2. CASE req' = [req EXCEPT !.todo = @ \ {f}]
    BY <2>2 DEF Types, Requests
  <2>3. CASE req' = [req EXCEPT !.stage = "read", !.file = f, !.read = stamp[f]]
    BY <1>4, <2>3 DEF Types, Requests, Stages
  <2> QED
    BY <2>1, <2>2, <2>3 DEF Stat
<1>3. HandTyped'
  <2>5. req'.here = req.here /\ req'.target = req.target
    BY DEF Stat, Types, Requests
  <2>1. CASE req'.stage = "stat" /\ UNCHANGED model
    BY <2>1, <2>5 DEF Types, HandTyped, Stat
  <2>2. CASE req' = [req EXCEPT !.stage = "read", !.file = f, !.read = stamp[f]]
    BY <1>4, <2>2 DEF Types, Requests, HandTyped, Stat
  <2>3. UNCHANGED model
    BY DEF Stat
  <2>4. req'.stage = "stat" \/ req' = [req EXCEPT !.stage = "read", !.file = f, !.read = stamp[f]]
    BY DEF Stat, Types, Requests
  <2> QED
    BY <2>1, <2>2, <2>3, <2>4
<1> QED
  BY <1>1, <1>2, <1>3, TypesQuietly DEF Stat, Quietly

LEMMA TypesReadText == ASSUME Types, ReadText PROVE Types'
<1> DEFINE f == req.file
           new == Revalidated(ix.files[f], TextOf(f), req.read, calm[f] \/ stamp[f] # req.read)
<1>1. f \in Files /\ req.read \in Nat
  BY DEF Types, HandTyped, ReadText, Requests
<1>2. TextOf(f) \in Nat /\ (calm[f] \/ stamp[f] # req.read) \in BOOLEAN
  BY <1>1 DEF TextOf, OnDisk, Types, WorldTyped
<1>3. new \in Entries
  <2> DEFINE old == ix.files[f]
             s == calm[f] \/ stamp[f] # req.read
             x == TextOf(f)
             n == req.read
  <2>1. old \in Entries \cup {None} /\ s \in BOOLEAN /\ x \in Nat /\ n \in Nat
    BY <1>1, <1>2 DEF Types, Index
  <2> HIDE DEF old, s, x, n
  <2>2. Entry(x, n, s) \in Entries
    BY <2>1 DEF Entry, Entries
  <2>3. old # None => [old EXCEPT !.stamp = n, !.settled = s] \in Entries
    BY <2>1 DEF Entries
  <2>4. Revalidated(old, x, n, s) \in Entries
    BY <2>2, <2>3 DEF Revalidated
  <2> QED
    BY <2>4 DEF old, s, x, n
<1>4. ix' = [ix EXCEPT !.files[f] = new]
  BY DEF ReadText
<1> HIDE DEF new
<1>5. ix' \in Index
  BY <1>1, <1>3, <1>4 DEF Types, Index
<1>6. req' \in Requests /\ req'.stage = "stat"
  <2> DEFINE c == IF ix.files[f] # None /\ ix.files[f].text # new.text
                  THEN req.changed \cup {f} ELSE req.changed
             b == req.structural \/ (ix.files[f] = None /\ ~req.first)
             r == [req EXCEPT !.stage = "stat"]
  <2>1. c \in SUBSET Files /\ b \in BOOLEAN
    BY <1>1 DEF Types, Requests
  <2>2. req' = [r EXCEPT !.todo = @ \ {f}, !.file = None, !.read = None, !.changed = c,
                         !.structural = b]
    BY DEF ReadText, new
  <2>3. r \in Requests /\ r.stage = "stat"
    BY StagesOn, NamedStages DEF Types
  <2> HIDE DEF c, b, r
  <2> QED
    BY <2>1, <2>2, <2>3 DEF Requests
<1>7. HandTyped'
  BY <1>6 DEF Types, HandTyped, ReadText
<1> QED
  BY <1>5, <1>6, <1>7, TypesQuietly DEF ReadText, Quietly

LEMMA TypesRefreshed == ASSUME Types, Refreshed PROVE Types'
<1>1. ix' \in Index
  <2> DEFINE k == Moved(ix, req.changed, req.structural)
  <2>1. k \in Index
    BY MovedIs DEF Types
  <2>2. ix' = [k EXCEPT !.dirty = {}, !.relist = FALSE]
    BY DEF Refreshed
  <2> HIDE DEF k
  <2> QED
    BY <2>1, <2>2 DEF Index
<1>2. req' \in Requests /\ req'.stage \in {"answer", "ready", "pending"}
  BY DEF Types, Requests, Refreshed, Stages
<1>3. HandTyped'
  BY <1>2 DEF Types, HandTyped, Refreshed
<1> QED
  BY <1>1, <1>2, <1>3, TypesQuietly DEF Refreshed, Quietly

LEMMA TypesPending == ASSUME Types, Pending PROVE Types'
<1>1. req' \in Requests /\ req'.stage = "fill"
  BY DEF Types, Requests, Pending, Stages, Held
<1>2. HandTyped'
  BY <1>1 DEF Types, HandTyped, Pending
<1> QED
  BY <1>1, <1>2, TypesQuietly DEF Pending, Quietly, Types

LEMMA FillTyped ==
  ASSUME NEW i \in Index, NEW f \in Files, NEW hash, NEW made \in Uses
  PROVE  Fill(i, f, hash, made) \in Index
<1>1. DOMAIN made.read \in SUBSET Files
  BY DEF Uses
<1>2. CASE i.files[f] # None /\ i.files[f].text = hash
  <2> DEFINE e == [i.files[f] EXCEPT !.refs = made, !.distrust = FALSE,
                     !.deps = IF made.inputs = None THEN None ELSE DOMAIN made.read]
  <2>1. i.files[f] \in Entries
    BY <1>2 DEF Index
  <2>2. e \in Entries
    BY <1>1, <2>1 DEF Entries
  <2>3. Fill(i, f, hash, made) = [i EXCEPT !.files[f] = e]
    BY <1>2, <2>1 DEF Fill, Index, Entries
  <2> HIDE DEF e
  <2> QED
    BY <2>2, <2>3 DEF Index
<1>3. CASE ~(i.files[f] # None /\ i.files[f].text = hash)
  BY <1>3 DEF Fill
<1> QED
  BY <1>2, <1>3

LEMMA TypesFillFromCheck == ASSUME Types, NEW f \in Files, FillFromCheck(f) PROVE Types'
<1>1. checked[f] \in Uses
  BY DEF Types, ServerTyped, FillFromCheck
<1>2. ix' \in Index
  BY <1>1, FillTyped DEF Types, FillFromCheck
<1>3. req' \in Requests
  BY DEF Types, Requests, FillFromCheck
<1>4. HandTyped'
  BY DEF Types, Requests, HandTyped, FillFromCheck
<1> QED
  BY <1>2, <1>3, <1>4, TypesQuietly DEF FillFromCheck, Quietly

LEMMA TypesFillReads == ASSUME Types, NEW f \in Files, FillReads(f) PROVE Types'
<1>1. TextOf(f) \in Nat
  BY DEF TextOf, OnDisk, Types, WorldTyped
<1>2. req' \in Requests
  BY <1>1 DEF Types, Requests, FillReads, Stages
<1>3. HandTyped'
  BY <1>1 DEF Types, Requests, HandTyped, FillReads
<1> QED
  BY <1>2, <1>3, TypesQuietly DEF FillReads, Quietly, Types

LEMMA TypesFillChecks == ASSUME Types, FillChecks PROVE Types'
<1> DEFINE none == [text |-> 0, read |-> [g \in {} |-> 0], inputs |-> None]
           made == IF OnDisk(req.file) THEN Check(req.file, model) ELSE none
<1>1. req.file \in Files /\ model \in Nat
  BY DEF Types, HandTyped, FillChecks, Requests
<1>2. made \in Uses
  <2>1. none \in Uses
    <3>1. [g \in {} |-> 0] \in [{} -> Nat] /\ {} \in SUBSET Files
      OBVIOUS
    <3> QED
      BY <3>1 DEF Uses
  <2>2. CASE OnDisk(req.file)
    <3>1. req.file \in There
      BY <1>1, <2>2 DEF There
    <3> QED
      BY <1>1, <2>2, <3>1, CheckTyped DEF Types
  <2> QED
    BY <2>1, <2>2
<1>3. req' = [req EXCEPT !.stage = "keep", !.made = made]
  BY DEF FillChecks
<1> HIDE DEF made
<1>4. req' \in Requests
  BY <1>2, <1>3 DEF Types, Requests, Stages
<1>5. HandTyped'
  BY <1>2, <1>3 DEF Types, Requests, HandTyped, FillChecks
<1> QED
  BY <1>4, <1>5, TypesQuietly DEF FillChecks, Quietly, Types

LEMMA TypesFillKeeps == ASSUME Types, FillKeeps PROVE Types'
<1>1. req.file \in Files /\ req.made \in Uses
  BY DEF Types, HandTyped, FillKeeps, Requests
<1>2. ix' \in Index
  BY <1>1, FillTyped DEF Types, FillKeeps
<1>3. req' \in Requests /\ req'.stage = "fill"
  BY DEF Types, Requests, FillKeeps, Stages
<1>4. HandTyped'
  BY <1>3 DEF Types, HandTyped, FillKeeps
<1> QED
  BY <1>2, <1>3, <1>4, TypesQuietly DEF FillKeeps, Quietly

LEMMA TypesFilled == ASSUME Types, Filled PROVE Types'
<1>1. req' \in Requests /\ req'.stage = "answer"
  BY DEF Types, Requests, Filled, Stages
<1>2. HandTyped'
  BY <1>1 DEF Types, HandTyped, Filled
<1> QED
  BY <1>1, <1>2, TypesQuietly DEF Filled, Quietly, Types

LEMMA HitsTyped ==
  ASSUME Types PROVE Hits \subseteq [file : Files, text : Nat, inputs : Nat \cup {None}]
<1>1. \A f \in Held : f \in Files /\ ix.files[f] \in Entries
  BY DEF Held, Types, Index
<1>2. \A f \in Held : \A u \in UsesOf(f) : u \in Uses
  BY <1>1 DEF UsesOf, Entries
<1>3. \A f \in Held : ix.files[f].text \in Nat
  BY <1>1 DEF Entries
<1>4. \A u \in Uses : u.text \in Nat /\ u.inputs \in Nat \cup {None}
  BY DEF Uses
<1> QED
  BY <1>1, <1>2, <1>3, <1>4 DEF Hits

\* Back to no request, with what it is answered.
LEMMA RepliedTyped ==
  ASSUME Types, NEW reply \in Replies, req' = Replied(req, reply)
  PROVE  req' \in Requests /\ HandTyped'
<1>1. req' \in Requests /\ req'.stage = "idle"
  BY DEF Replied, Types, Requests, Stages
<1> QED
  BY <1>1 DEF HandTyped

LEMMA TypesAnswer == ASSUME Types, Answer PROVE Types'
<1>1. CASE req' = Replied(req, Named({h \in Hits : OnDisk(h.file)})) /\ UNCHANGED ix
  <2>1. Named({h \in Hits : OnDisk(h.file)}) \in Replies
    BY HitsTyped DEF Named, Replies
  <2> QED
    BY <1>1, <2>1, RepliedTyped, TypesQuietly DEF Answer, Quietly, Types
<1>2. CASE /\ req' = [req EXCEPT !.stage = "stat", !.round = 1, !.all = TRUE, !.changed = {},
                        !.todo = There, !.first = Held = {},
                        !.structural = \E f \in Held : ~OnDisk(f)]
           /\ LET due == [ix EXCEPT !.relist = TRUE] IN
              ix' = [due EXCEPT !.files = [f \in Files |-> IF OnDisk(f) THEN @[f] ELSE None]]
  <2>1. ix' \in Index
    BY <1>2 DEF Types, Index
  <2>2. req' \in Requests /\ req'.stage = "stat"
    <3> DEFINE todo == There
               structural == \E f \in Held : ~OnDisk(f)
               first == Held = {}
    <3>1. todo \in SUBSET Files /\ structural \in BOOLEAN /\ first \in BOOLEAN
      BY DEF There
    <3>2. req' = [req EXCEPT !.stage = "stat", !.round = 1, !.all = TRUE, !.changed = {},
                             !.todo = todo, !.first = first, !.structural = structural]
      BY <1>2
    <3> HIDE DEF todo, structural, first
    <3> DEFINE r == [req EXCEPT !.stage = "stat", !.round = 1, !.all = TRUE, !.changed = {}, !.todo = todo]
               q == [r EXCEPT !.first = first]
    <3>3. req' = [q EXCEPT !.structural = structural]
      BY <3>2
    <3>4. r \in Requests /\ r.stage = "stat"
      <4> DEFINE k == [req EXCEPT !.stage = "stat"]
      <4>1. k \in Requests /\ k.stage = "stat"
        BY StagesOn, NamedStages DEF Types
      <4>2. r = [k EXCEPT !.round = 1, !.all = TRUE, !.changed = {}, !.todo = todo]
        OBVIOUS
      <4> HIDE DEF k, r
      <4> QED
        BY <3>1, <4>1, <4>2 DEF Requests
    <3> HIDE DEF r
    <3>5. q \in Requests /\ q.stage = "stat"
      BY <3>1, <3>4 DEF Requests
    <3> HIDE DEF q
    <3> QED
      BY <3>1, <3>3, <3>5 DEF Requests
  <2>4. req'.here = req.here /\ req'.target = req.target
    BY <1>2 DEF Types, Requests
  <2>3. HandTyped'
    BY <2>2, <2>4 DEF Types, HandTyped, Answer
  <2> QED
    BY <2>1, <2>2, <2>3, TypesQuietly DEF Answer, Quietly
<1> QED
  BY <1>1, <1>2 DEF Answer

LEMMA FirstRefsTyped ==
  ASSUME NEW i \in Index PROVE FirstRefs(i) \in Index
<1> DEFINE k == Moved(i, {}, TRUE)
<1>1. k \in Index
  BY MovedIs
<1>2. FirstRefs(i) = IF i.refsBuilt THEN i ELSE [k EXCEPT !.refsBuilt = TRUE]
  BY DEF FirstRefs
<1> HIDE DEF k
<1> QED
  BY <1>1, <1>2 DEF Index

\* What Ready makes of the index before the check of the file asked about, when the
\* inputs are as the index knows them or are loaded again.
Seen == IF watching THEN ix ELSE [ix EXCEPT !.inputs = ext]
ReadyModel == IF InputsMoved THEN ext ELSE model
ReadyAgain == IF InputsMoved THEN opened ELSE {}
Rebuilt == IF InputsMoved THEN PutAll(Moved(Seen, {}, TRUE), opened, ext) ELSE Seen
ReadyOwn == IF Rebuilt.files[req.here] # None /\ FirstRefs(Rebuilt).files[req.here].distrust
            THEN {req.here} ELSE {}

LEMMA RebuiltTyped == ASSUME Types PROVE Rebuilt \in Index
<1>1. Seen \in Index
  BY DEF Seen, Types, Index, WorldTyped
<1>2. Moved(Seen, {}, TRUE) \in Index
  BY <1>1, MovedIs
<1> QED
  BY <1>1, <1>2, PutAllTyped DEF Rebuilt, Types, ServerTyped, WorldTyped

LEMMA ReadyIs ==
  ASSUME Ready
  PROVE  LET held == Rebuilt.files[req.here] # None
             done == ChecksOf(ReadyAgain \cup ReadyOwn, ReadyModel)
             place == PlaceIn(done[req.here], req.here, req.target)
         IN  /\ model' = ReadyModel /\ checked' = done
             /\ ix' = IF held THEN PutAll(FirstRefs(Rebuilt), ReadyOwn, ReadyModel) ELSE Rebuilt
             /\ req' = IF held /\ place # None THEN [req EXCEPT !.stage = "pending", !.place = place]
                       ELSE Replied(req, NoPlace)
             /\ req.stage = "ready" /\ UNCHANGED FreeToMove
BY DEF Ready, Rebuilt, Seen, ReadyModel, ReadyAgain, ReadyOwn

LEMMA PlaceTyped ==
  ASSUME Types, NEW c \in Uses \cup {None}, NEW here, NEW target
  PROVE  PlaceIn(c, here, target) \in Nat \cup {None}
<1>1. c # None => c.text \in Nat /\ \A g \in DOMAIN c.read : c.read[g] \in Nat
  BY DEF Uses
<1> QED
  BY <1>1 DEF PlaceIn

LEMMA TypesReady == ASSUME Types, Ready PROVE Types'
<1> DEFINE S == ReadyAgain \cup ReadyOwn
           done == ChecksOf(S, ReadyModel)
           place == PlaceIn(done[req.here], req.here, req.target)
           held == Rebuilt.files[req.here] # None
<1>1. /\ model' = ReadyModel /\ checked' = done
      /\ ix' = IF held THEN PutAll(FirstRefs(Rebuilt), ReadyOwn, ReadyModel) ELSE Rebuilt
      /\ req' = IF held /\ place # None THEN [req EXCEPT !.stage = "pending", !.place = place]
                ELSE Replied(req, NoPlace)
      /\ req.stage = "ready" /\ UNCHANGED FreeToMove
  BY ReadyIs
<1>2. req.here \in Files \cup {None} /\ model \in Nat
  BY <1>1 DEF Types, Requests, HandTyped
<1>3. ReadyModel \in Nat
  BY <1>2 DEF ReadyModel, Types, WorldTyped
<1>4. held => req.here \in Files
  BY <1>1 DEF Types, HandTyped
<1>5. ix' \in Index
  <2>1. held => ReadyOwn \in SUBSET Files
    BY <1>4 DEF ReadyOwn
  <2>2. Rebuilt \in Index /\ FirstRefs(Rebuilt) \in Index
    BY RebuiltTyped, FirstRefsTyped
  <2>3. held => PutAll(FirstRefs(Rebuilt), ReadyOwn, ReadyModel) \in Index
    BY <1>3, <2>1, <2>2, PutAllTyped DEF Types
  <2> QED
    BY <1>1, <2>2, <2>3
<1>6. done \in [Files -> Uses \cup {None}]
  BY <1>3, ChecksOfTyped DEF Types, ServerTyped
<1>7. req' \in Requests /\ HandTyped'
  <2>1. CASE held /\ place # None
    <3>1. place \in Nat
      BY <1>4, <1>6, <2>1, PlaceTyped
    <3>2. req' = [req EXCEPT !.stage = "pending", !.place = place]
      BY <1>1, <2>1
    <3> HIDE DEF place
    <3>3. req' \in Requests /\ req'.stage = "pending"
      BY <3>1, <3>2 DEF Types, Requests, Stages
    <3>4. req'.here = req.here /\ req'.target = req.target
      BY <3>2 DEF Types, Requests
    <3> QED
      BY <1>1, <1>3, <3>3, <3>4 DEF HandTyped, Types
  <2>2. CASE ~(held /\ place # None)
    <3>1. NoPlace \in Replies
      BY DEF NoPlace, Replies
    <3> QED
      BY <1>1, <2>2, <3>1, RepliedTyped
  <2> QED
    BY <2>1, <2>2
<1>8. WorldTyped' /\ ServerTyped'
  BY <1>1, <1>3, <1>6 DEF Types, WorldTyped, ServerTyped, FreeToMove
<1> QED
  BY <1>5, <1>7, <1>8 DEF Types

LEMMA TypesStep == ASSUME Types, [Next]_vars PROVE Types'
<1>1. CASE World
  BY <1>1, TypesWrite, TypesDelete, TypesWriteInputs, TypesSettle DEF World
<1>2. CASE Client
  BY <1>2, TypesSave, TypesFileEvent, TypesInputsEvent, TypesAsk DEF Client
<1>3. CASE Server
  BY <1>3, TypesStat, TypesFillFromCheck, TypesFillReads, TypesReadText, TypesRefreshed, TypesReady,
     TypesPending, TypesFillChecks, TypesFillKeeps, TypesFilled, TypesAnswer DEF Server
<1>4. CASE UNCHANGED vars
  BY <1>4 DEF vars, Types, WorldTyped, ServerTyped, HandTyped
<1> QED
  BY <1>1, <1>2, <1>3, <1>4 DEF Next

\* Every variable of the index and of its server keeps to its set.
THEOREM IndexTyped == Spec => []Types
<1>1. Init => Types
  BY TypesInit
<1>2. Types /\ [Next]_vars => Types'
  BY TypesStep
<1> QED
  BY <1>1, <1>2, PTL DEF Spec

-----------------------------------------------------------------------------
(* Symbols: what makes the entries current.                                *)

Refreshing == req.stage \in {"stat", "read"}

\* Something was said of f, or to be said of it, since the request began.
Later(f) == IF watching THEN f \in told ELSE ~req.quiet

Places ==
    /\ req.stage \notin {"idle", "stat", "read"} => ix.dirty = {} /\ ~ix.relist
    /\ ~Refreshing => ix.dirty \subseteq Held
    /\ ~watching => told = {}
    /\ req.quiet => told = {}
    /\ req.stage \in {"ready", "pending", "fill", "index", "keep"} => req.kind = "refs"

\* A settled stamp that is the file's vouches for the text.
Stamped(i, f) ==
    i.files[f] # None =>
      /\ i.files[f].stamp <= writes + 1
      /\ OnDisk(f) /\ i.files[f].settled /\ i.files[f].stamp = stamp[f]
           => calm[f] /\ i.files[f].text = disk[f]
Stamps ==
    /\ \A f \in Files : stamp[f] <= writes + 1
    /\ req.stage = "read" => req.read <= writes + 1
    /\ \A f \in Files : Stamped(ix, f)

\* The entry of a file that is there has its text, or it is known that it may not.
Fresh(i, f) == i.files[f] # None /\ i.files[f].text = disk[f]
ListedAt(f) ==
    \/ Fresh(ix, f)
    \/ Refreshing /\ f \in req.todo
    \/ req.stage # "idle" /\ Later(f)
    \/ req.stage = "idle" /\ (~watching \/ f \in told \/ f \in ix.dirty \/ ix.relist)
Listed == \A f \in Files : OnDisk(f) => ListedAt(f)

SymbolsInv == Places /\ Stamps /\ Listed /\ SymbolsAreCurrent

\* An index that differs from another in uses, and in entries put from the disk.
Alike(i, j) ==
    /\ j.relist = i.relist /\ j.dirty \subseteq i.dirty
    /\ \A f \in Files : /\ j.files[f] = None <=> i.files[f] = None
                        /\ i.files[f] # None => PutSymbols(i, Files, j, f)

LEMMA AlikeItself == ASSUME NEW i PROVE Alike(i, i)
BY DEF Alike, PutSymbols

LEMMA AlikeTwice == ASSUME NEW i, NEW j, NEW k, Alike(i, j), Alike(j, k) PROVE Alike(i, k)
<1>1. ASSUME NEW f \in Files, i.files[f] # None PROVE PutSymbols(i, Files, k, f)
  <2>1. PutSymbols(i, Files, j, f) /\ PutSymbols(j, Files, k, f)
    BY <1>1 DEF Alike
  <2> QED
    BY <2>1 DEF PutSymbols
<1> QED
  BY <1>1 DEF Alike

LEMMA PuttingAlike == ASSUME NEW i, NEW S \in SUBSET Files, NEW j, Putting(i, S, j) PROVE Alike(i, j)
BY DEF Putting, SameBut, Alike, PutSymbols

LEMMA MovedAlike ==
  ASSUME NEW i \in Index, NEW changed, NEW structural, NEW j, j = Moved(i, changed, structural)
  PROVE  Alike(i, j)
<1>1. /\ j \in Index /\ j.dirty = i.dirty /\ SameBut(i, j)
      /\ \A f \in Files : j.files[f] = IF i.files[f] # None /\ Hit(i, changed, structural, f)
                                       THEN Taken(i.files[f]) ELSE i.files[f]
  BY MovedIs
<1>2. ASSUME NEW f \in Files
      PROVE  /\ j.files[f] = None <=> i.files[f] = None
             /\ i.files[f] # None => PutSymbols(i, Files, j, f)
  <2>1. CASE i.files[f] # None /\ j.files[f] = Taken(i.files[f])
    <3> DEFINE e == i.files[f]
    <3>1. e \in Entries
      BY <2>1 DEF Index
    <3> HIDE DEF e
    <3>2. /\ Taken(e) \in Entries /\ Taken(e).text = e.text /\ Taken(e).stamp = e.stamp
          /\ Taken(e).settled = e.settled
      BY <3>1, TakenIs
    <3> QED
      BY <1>1, <2>1, <3>2, NotNone DEF e, PutSymbols
  <2>2. CASE j.files[f] = i.files[f]
    BY <1>1, <2>2 DEF PutSymbols
  <2> QED
    BY <1>1, <2>1, <2>2
<1> QED
  BY <1>1, <1>2 DEF Alike, SameBut

LEMMA FirstRefsAlike ==
  ASSUME NEW i \in Index PROVE Alike(i, FirstRefs(i))
<1> DEFINE k == Moved(i, {}, TRUE)
<1>1. k \in Index /\ Alike(i, k)
  BY MovedIs, MovedAlike
<1>2. FirstRefs(i) = IF i.refsBuilt THEN i ELSE [k EXCEPT !.refsBuilt = TRUE]
  BY DEF FirstRefs
<1> HIDE DEF k
<1>3. Alike(k, [k EXCEPT !.refsBuilt = TRUE])
  BY <1>1 DEF Alike, Index, PutSymbols
<1> QED
  BY <1>1, <1>2, <1>3, AlikeItself, AlikeTwice

LEMMA FillAlike ==
  ASSUME NEW i \in Index, NEW f \in Files, NEW hash, NEW made \in Uses
  PROVE  Alike(i, Fill(i, f, hash, made))
<1>1. DOMAIN made.read \in SUBSET Files
  BY DEF Uses
<1>2. CASE i.files[f] # None /\ i.files[f].text = hash
  <2> DEFINE e == [i.files[f] EXCEPT !.refs = made, !.distrust = FALSE,
                     !.deps = IF made.inputs = None THEN None ELSE DOMAIN made.read]
  <2>1. i.files[f] \in Entries
    BY <1>2 DEF Index
  <2>2. /\ e \in Entries /\ e.text = i.files[f].text /\ e.stamp = i.files[f].stamp
        /\ e.settled = i.files[f].settled
    BY <1>1, <2>1 DEF Entries
  <2>3. Fill(i, f, hash, made) = [i EXCEPT !.files[f] = e]
    BY <1>2, <2>1 DEF Fill, Index, Entries
  <2> HIDE DEF e
  <2> DEFINE j == [i EXCEPT !.files[f] = e]
  <2>4. /\ j.relist = i.relist /\ j.dirty = i.dirty /\ j.files[f] = e
        /\ \A g \in Files \ {f} : j.files[g] = i.files[g]
    BY DEF Index
  <2>5. e # None
    BY <2>2, NotNone
  <2> HIDE DEF j
  <2>6. Alike(i, j)
    <3>1. ASSUME NEW g \in Files
          PROVE  /\ j.files[g] = None <=> i.files[g] = None
                 /\ i.files[g] # None => PutSymbols(i, Files, j, g)
      <4>1. CASE g = f
        BY <1>2, <2>2, <2>4, <2>5, <4>1 DEF PutSymbols
      <4>2. CASE g # f
        BY <2>4, <4>2 DEF PutSymbols
      <4> QED
        BY <4>1, <4>2
    <3> QED
      BY <2>4, <3>1 DEF Alike
  <2> QED
    BY <2>3, <2>6 DEF j
<1>3. CASE ~(i.files[f] # None /\ i.files[f].text = hash)
  BY <1>3, AlikeItself DEF Fill
<1> QED
  BY <1>2, <1>3

LEMMA AlikeStamped ==
  ASSUME WorldTyped, NEW i \in Index, NEW j, Alike(i, j), NEW f \in Files,
         stamp[f] <= writes + 1, Stamped(i, f)
  PROVE  Stamped(j, f)
BY DEF Alike, PutSymbols, Stamped

LEMMA AlikeFresh ==
  ASSUME NEW i, NEW j, Alike(i, j), NEW f \in Files, OnDisk(f)
  PROVE  /\ Fresh(i, f) => Fresh(j, f)
         /\ f \in i.dirty /\ i.files[f] # None => f \in j.dirty \/ Fresh(j, f)
BY DEF Alike, PutSymbols, Fresh

LEMMA ReplyStays == ASSUME UNCHANGED <<req, disk>>, SymbolsAreCurrent PROVE SymbolsAreCurrent'
BY DEF SymbolsAreCurrent, Answered, Expected, There, OnDisk

LEMMA NoAnswer == ASSUME req'.stage # "idle" \/ ~req'.quiet \/ req'.kind = "refs" PROVE SymbolsAreCurrent'
BY DEF SymbolsAreCurrent, Answered

LEMMA UnquietIs ==
  ASSUME Types, Unquiet
  PROVE  req'.quiet = FALSE /\ req'.stage = req.stage /\ req'.todo = req.todo /\ req'.kind = req.kind
         /\ req'.read = req.read /\ req'.file = req.file
BY DEF Types, Unquiet, Requests

LEMMA SymbolsWrite ==
  ASSUME Types, SymbolsInv, NEW f \in Files, NEW t \in Texts, NEW same \in BOOLEAN, Write(f, t, same)
  PROVE  SymbolsInv'
<1>1. Unquiet /\ UNCHANGED <<watching, ix>> /\ writes' = writes + 1 /\ Tell(f) /\ writes \in Nat
  BY DEF Write, Types, WorldTyped
<1>2. Places'
  BY <1>1, UnquietIs DEF Places, SymbolsInv, Refreshing, Held, Tell
<1>3. Stamps'
  <2>1. ASSUME NEW g \in Files PROVE stamp'[g] <= writes' + 1 /\ Stamped(ix, g)'
    <3>1. /\ stamp[g] <= writes + 1 /\ stamp[g] \in Nat /\ Stamped(ix, g)
          /\ ix.files[g] # None => ix.files[g].stamp \in Nat
      BY DEF SymbolsInv, Stamps, Types, WorldTyped, Index, Entries
    <3>2. CASE g # f
      BY <1>1, <3>1, <3>2 DEF Stamped, Write, Types, WorldTyped, OnDisk
    <3>3. CASE g = f /\ same
      BY <1>1, <3>1, <3>3 DEF Stamped, Write, Types, WorldTyped, OnDisk
    <3>4. CASE g = f /\ ~same
      BY <1>1, <3>1, <3>4 DEF Stamped, Write, Types, WorldTyped, OnDisk
    <3> QED
      BY <3>2, <3>3, <3>4
  <2>2. req'.stage = "read" => req'.read <= writes' + 1
    <3>1. req'.stage = req.stage /\ req'.read = req.read
      BY <1>1, UnquietIs
    <3>2. req.stage = "read" => req.read \in Nat /\ req.read <= writes + 1
      BY DEF SymbolsInv, Stamps, Types, HandTyped
    <3> QED
      BY <1>1, <3>1, <3>2
  <2> QED
    BY <2>1, <2>2 DEF Stamps
<1>4. Listed'
  <2> SUFFICES ASSUME NEW g \in Files, OnDisk(g)' PROVE ListedAt(g)'
    BY DEF Listed
  <2>1. req'.quiet = FALSE /\ req'.stage = req.stage /\ req'.todo = req.todo
    BY <1>1, UnquietIs
  <2>2. CASE g = f
    BY <1>1, <2>1, <2>2 DEF ListedAt, Later, Tell, Types, ServerTyped
  <2>3. CASE g # f
    <3>1. disk'[g] = disk[g]
      BY <2>3 DEF Write, Types, WorldTyped
    <3>2. ListedAt(g)
      BY <3>1 DEF SymbolsInv, Listed, OnDisk
    <3> QED
      BY <1>1, <2>1, <3>1, <3>2 DEF ListedAt, Later, Tell, Types, ServerTyped, Refreshing, Fresh
  <2> QED
    BY <2>2, <2>3
<1>5. SymbolsAreCurrent'
  BY <1>1, UnquietIs, NoAnswer
<1> QED
  BY <1>2, <1>3, <1>4, <1>5 DEF SymbolsInv

LEMMA SymbolsDelete ==
  ASSUME Types, SymbolsInv, NEW f \in Files, NEW named \in BOOLEAN, Delete(f, named)
  PROVE  SymbolsInv'
<1>1. /\ Unquiet /\ UNCHANGED <<watching, ix, stamp, calm>> /\ writes' = writes + 1 /\ writes \in Nat
      /\ told \subseteq told' /\ (~watching => told' = told)
  BY DEF Delete, Types, WorldTyped, Tell
<1>2. Places'
  BY <1>1, UnquietIs DEF Places, SymbolsInv, Refreshing, Held
<1>3. Stamps'
  <2>1. ASSUME NEW g \in Files PROVE stamp'[g] <= writes' + 1 /\ Stamped(ix, g)'
    <3>1. /\ stamp[g] <= writes + 1 /\ stamp[g] \in Nat /\ Stamped(ix, g)
          /\ ix.files[g] # None => ix.files[g].stamp \in Nat
      BY DEF SymbolsInv, Stamps, Types, WorldTyped, Index, Entries
    <3> QED
      BY <1>1, <3>1 DEF Stamped, Delete, Types, WorldTyped, OnDisk
  <2>2. req'.stage = "read" => req'.read <= writes' + 1
    <3>1. req'.stage = req.stage /\ req'.read = req.read
      BY <1>1, UnquietIs
    <3>2. req.stage = "read" => req.read \in Nat /\ req.read <= writes + 1
      BY DEF SymbolsInv, Stamps, Types, HandTyped
    <3> QED
      BY <1>1, <3>1, <3>2
  <2> QED
    BY <2>1, <2>2 DEF Stamps
<1>4. Listed'
  <2> SUFFICES ASSUME NEW g \in Files, OnDisk(g)' PROVE ListedAt(g)'
    BY DEF Listed
  <2>1. req'.quiet = FALSE /\ req'.stage = req.stage /\ req'.todo = req.todo
    BY <1>1, UnquietIs
  <2>2. disk'[g] = disk[g]
    BY DEF Delete, Types, WorldTyped, OnDisk
  <2>3. ListedAt(g)
    BY <2>2 DEF SymbolsInv, Listed, OnDisk
  <2> QED
    BY <1>1, <2>1, <2>2, <2>3 DEF ListedAt, Later, Types, ServerTyped, Refreshing, Fresh
<1>5. SymbolsAreCurrent'
  BY <1>1, UnquietIs, NoAnswer
<1> QED
  BY <1>2, <1>3, <1>4, <1>5 DEF SymbolsInv

LEMMA SymbolsWriteInputs == ASSUME Types, SymbolsInv, WriteInputs PROVE SymbolsInv'
<1>1. /\ Unquiet /\ UNCHANGED <<disk, watching, ix, stamp, calm>> /\ writes' = writes + 1 /\ writes \in Nat
      /\ told \subseteq told' /\ (~watching => told' = told)
  BY DEF WriteInputs, Types, WorldTyped, Tell
<1>2. Places'
  BY <1>1, UnquietIs DEF Places, SymbolsInv, Refreshing, Held
<1>3. Stamps'
  <2>1. ASSUME NEW g \in Files PROVE stamp'[g] <= writes' + 1 /\ Stamped(ix, g)'
    <3>1. /\ stamp[g] <= writes + 1 /\ stamp[g] \in Nat /\ Stamped(ix, g)
          /\ ix.files[g] # None => ix.files[g].stamp \in Nat
      BY DEF SymbolsInv, Stamps, Types, WorldTyped, Index, Entries
    <3> QED
      BY <1>1, <3>1 DEF Stamped, OnDisk
  <2>2. req'.stage = "read" => req'.read <= writes' + 1
    <3>1. req'.stage = req.stage /\ req'.read = req.read
      BY <1>1, UnquietIs
    <3>2. req.stage = "read" => req.read \in Nat /\ req.read <= writes + 1
      BY DEF SymbolsInv, Stamps, Types, HandTyped
    <3> QED
      BY <1>1, <3>1, <3>2
  <2> QED
    BY <2>1, <2>2 DEF Stamps
<1>4. Listed'
  BY <1>1, UnquietIs DEF SymbolsInv, Listed, ListedAt, Later, Types, ServerTyped, Refreshing, Fresh, OnDisk
<1>5. SymbolsAreCurrent'
  BY <1>1, UnquietIs, NoAnswer
<1> QED
  BY <1>2, <1>3, <1>4, <1>5 DEF SymbolsInv

LEMMA SymbolsSettle == ASSUME Types, SymbolsInv, NEW f \in Files, Settle(f) PROVE SymbolsInv'
<1>1. UNCHANGED <<disk, stamp, ext, writes, watching, told, model, checked, opened, ix, req>>
  BY DEF Settle
<1>2. Stamps'
  BY DEF Settle, SymbolsInv, Stamps, Stamped, OnDisk, Types, WorldTyped
<1>3. Places' /\ Listed'
  BY <1>1 DEF SymbolsInv, Places, Listed, ListedAt, Later, Refreshing, Fresh, OnDisk, Held
<1>4. SymbolsAreCurrent'
  BY <1>1, ReplyStays DEF SymbolsInv
<1> QED
  BY <1>2, <1>3, <1>4 DEF SymbolsInv

\* A step that leaves the world, the events and the request, and an index that is alike.
LEMMA SymbolsAlike ==
  ASSUME Types, SymbolsInv, Types', UNCHANGED <<disk, stamp, calm, writes, watching, told, req>>,
         Alike(ix, ix'), req.stage = "idle"
  PROVE  SymbolsInv'
<1>1. Places'
  BY DEF SymbolsInv, Places, Refreshing, Held, Alike, Types, Index
<1>2. Stamps'
  <2>1. ASSUME NEW f \in Files PROVE Stamped(ix', f)
    BY AlikeStamped DEF SymbolsInv, Stamps, Types
  <2> QED
    BY <2>1 DEF SymbolsInv, Stamps, Stamped, OnDisk
<1>3. Listed'
  <2> SUFFICES ASSUME NEW f \in Files, OnDisk(f) PROVE ListedAt(f)'
    BY DEF Listed, OnDisk
  <2>1. ListedAt(f) /\ ix.dirty \subseteq Held
    BY DEF SymbolsInv, Listed, Places, Refreshing
  <2>2. /\ Fresh(ix, f) => Fresh(ix', f)
        /\ f \in ix.dirty => f \in ix'.dirty \/ Fresh(ix', f)
    BY <2>1, AlikeFresh DEF Held
  <2>3. ix'.relist = ix.relist
    BY DEF Alike
  <2> QED
    BY <2>1, <2>2, <2>3 DEF ListedAt, Refreshing, Fresh
<1>4. SymbolsAreCurrent'
  BY ReplyStays DEF SymbolsInv
<1> QED
  BY <1>1, <1>2, <1>3, <1>4 DEF SymbolsInv

LEMMA SymbolsSave == ASSUME Types, SymbolsInv, NEW f \in Files, Save(f) PROVE SymbolsInv'
<1> DEFINE S == {f} \cup {g \in opened : checked[g] # None /\ f \in DOMAIN checked[g].read}
<1>1. S \in SUBSET Files
  BY DEF Types, ServerTyped
<1>2. ix' = PutAll(ix, S, LoadedModel) /\ req.stage = "idle"
      /\ UNCHANGED <<disk, stamp, calm, writes, watching, told, req>>
  BY DEF Save
<1> HIDE DEF S
<1>3. Putting(ix, S, ix')
  BY <1>1, <1>2, LoadedTyped, PutAllIsPutting DEF Types
<1>4. Alike(ix, ix')
  BY <1>1, <1>3, PuttingAlike
<1> QED
  BY <1>2, <1>4, TypesSave, SymbolsAlike

LEMMA SymbolsFileEvent == ASSUME Types, SymbolsInv, NEW f \in Files, FileEvent(f) PROVE SymbolsInv'
<1>1. /\ UNCHANGED <<disk, stamp, calm, writes, watching, req>> /\ told' = told \ {f}
      /\ req.stage = "idle" /\ ix'.files = ix.files
      /\ f \in Held => ix'.dirty = ix.dirty \cup {f} /\ ix'.relist = ix.relist
      /\ f \notin Held => ix'.dirty = ix.dirty /\ ix'.relist = TRUE
  BY DEF FileEvent, Event, Types, Index, Held
<1>2. Places'
  BY <1>1 DEF SymbolsInv, Places, Refreshing, Held
<1>3. Stamps'
  BY <1>1 DEF SymbolsInv, Stamps, Stamped, OnDisk
<1>4. Listed'
  BY <1>1 DEF SymbolsInv, Listed, ListedAt, Refreshing, Fresh, OnDisk
<1>5. SymbolsAreCurrent'
  BY <1>1, ReplyStays DEF SymbolsInv
<1> QED
  BY <1>2, <1>3, <1>4, <1>5 DEF SymbolsInv

LEMMA InputsEventIs ==
  ASSUME Types, InputsEvent, opened # {}
  PROVE  LET k == Moved(ix, {}, TRUE) IN
         k \in Index /\ ix' = PutAll(k, opened, ext) /\ Putting(k, opened, ix')
<1> DEFINE k == Moved(ix, {}, TRUE)
<1>1. k \in Index /\ ix' = PutAll(k, opened, ext)
  BY MovedIs DEF Types, InputsEvent
<1> HIDE DEF k
<1>2. Putting(k, opened, ix')
  BY <1>1, PutAllIsPutting DEF Types, ServerTyped, WorldTyped
<1> QED
  BY <1>1, <1>2 DEF k

LEMMA SymbolsInputsEvent == ASSUME Types, SymbolsInv, InputsEvent PROVE SymbolsInv'
<1>1. /\ UNCHANGED <<disk, stamp, calm, writes, watching, req>> /\ told' = told \ {Inputs}
      /\ req.stage = "idle"
  BY DEF InputsEvent
<1>2. Alike(ix, ix')
  <2>1. CASE opened = {}
    BY <2>1, AlikeItself DEF InputsEvent
  <2>2. CASE opened # {}
    <3> DEFINE k == Moved(ix, {}, TRUE)
    <3>1. k \in Index /\ Putting(k, opened, ix')
      BY <2>2, InputsEventIs
    <3>2. Alike(ix, k)
      BY MovedAlike DEF Types
    <3> HIDE DEF k
    <3>3. Alike(k, ix')
      BY <3>1, PuttingAlike DEF Types, ServerTyped
    <3> QED
      BY <3>2, <3>3, AlikeTwice
  <2> QED
    BY <2>1, <2>2
<1>3. Places'
  BY <1>1, <1>2 DEF SymbolsInv, Places, Refreshing, Held, Alike, Types, Index
<1>4. Stamps'
  <2>1. ASSUME NEW f \in Files PROVE Stamped(ix', f)
    BY <1>2, AlikeStamped DEF SymbolsInv, Stamps, Types
  <2> QED
    BY <1>1, <2>1 DEF SymbolsInv, Stamps, Stamped, OnDisk
<1>5. Listed'
  <2> SUFFICES ASSUME NEW f \in Files, OnDisk(f) PROVE ListedAt(f)'
    BY <1>1 DEF Listed, OnDisk
  <2>1. ListedAt(f) /\ ix.dirty \subseteq Held
    BY <1>1 DEF SymbolsInv, Listed, Places, Refreshing
  <2>2. /\ Fresh(ix, f) => Fresh(ix', f)
        /\ f \in ix.dirty => f \in ix'.dirty \/ Fresh(ix', f)
    BY <1>2, <2>1, AlikeFresh DEF Held
  <2>3. ix'.relist = ix.relist
    BY <1>2 DEF Alike
  <2>4. f # Inputs
    BY FilesAssumption DEF Inputs
  <2> QED
    BY <1>1, <2>1, <2>2, <2>3, <2>4 DEF ListedAt, Refreshing, Fresh
<1>6. SymbolsAreCurrent'
  BY <1>1, ReplyStays DEF SymbolsInv
<1> QED
  BY <1>3, <1>4, <1>5, <1>6 DEF SymbolsInv

\* How a request begins: with the files to look at, and the entries of those that are there.
LEMMA AskIs ==
  ASSUME Types, NEW kind \in {"symbols", "refs"}, NEW f \in Files, NEW g \in Files, Ask(kind, f, g)
  PROVE  LET all == ~watching \/ ix.relist
         IN /\ req.stage = "idle" /\ req'.stage = "stat" /\ req'.kind = kind /\ req'.all = all
            /\ req'.quiet = AllTold /\ req'.changed = {} /\ req'.round = 0 /\ req'.reply = None
            /\ req'.todo = IF all THEN There ELSE ix.dirty \cap Held
            /\ req'.structural = (all /\ Held \ There # {}) /\ req'.place = None
            /\ kind = "refs" => req'.here \in opened
            /\ UNCHANGED <<disk, stamp, calm, ext, writes, watching, told, checked, opened>>
            /\ model' = LoadedModel
            /\ ix'.dirty = ix.dirty /\ SameBut(ix, ix')
            /\ \A h \in Files : ix'.files[h] = IF all /\ h \notin There THEN None ELSE ix.files[h]
<1> DEFINE r == [Idle EXCEPT !.kind = kind, !.here = f, !.target = g, !.quiet = AllTold]
<1>1. r \in Requests
  BY DEF Idle, Requests, Stages, AllTold
<1>2. /\ Refresh(r) /\ req.stage = "idle"
      /\ UNCHANGED <<disk, stamp, calm, ext, writes, watching, told, checked, opened>>
      /\ kind = "refs" => f \in opened
  BY DEF Ask
<1>3. r.kind = kind /\ r.quiet = AllTold /\ r.round = 0 /\ r.reply = None /\ r.place = None /\ r.here = f
  BY DEF Idle
<1> HIDE DEF r
<1>4. req'.kind = kind /\ req'.quiet = AllTold /\ req'.round = 0 /\ req'.reply = None
      /\ req'.place = None /\ req'.here = f
  <2>1. /\ req'.kind = r.kind /\ req'.quiet = r.quiet /\ req'.round = r.round /\ req'.reply = r.reply
        /\ req'.place = r.place /\ req'.here = r.here
    BY <1>1, <1>2 DEF Refresh, Requests
  <2> QED
    BY <1>3, <2>1
<1>5. /\ req'.stage = "stat" /\ req'.changed = {} /\ req'.all = (~watching \/ ix.relist)
      /\ req'.todo = IF ~watching \/ ix.relist THEN There ELSE ix.dirty \cap Held
      /\ req'.structural = ((~watching \/ ix.relist) /\ Held \ There # {})
  BY <1>1, <1>2 DEF Refresh, Requests
<1>6. model' = LoadedModel
  BY <1>2 DEF Refresh
<1>7. /\ ix'.dirty = ix.dirty /\ SameBut(ix, ix')
      /\ \A h \in Files : ix'.files[h] = IF (~watching \/ ix.relist) /\ h \notin There THEN None
                                         ELSE ix.files[h]
  BY <1>2 DEF Refresh, Types, Index, SameBut, Held
<1> QED
  BY <1>2, <1>4, <1>5, <1>6, <1>7

LEMMA SymbolsAsk ==
  ASSUME Types, SymbolsInv, NEW kind \in {"symbols", "refs"}, NEW f \in Files, NEW g \in Files,
         Ask(kind, f, g)
  PROVE  SymbolsInv'
<1> DEFINE all == ~watching \/ ix.relist
<1>1. /\ req.stage = "idle" /\ req'.stage = "stat" /\ req'.quiet = AllTold
      /\ req'.todo = IF all THEN There ELSE ix.dirty \cap Held
      /\ UNCHANGED <<disk, stamp, calm, ext, writes, watching, told, checked, opened>>
      /\ ix'.dirty = ix.dirty
      /\ \A h \in Files : ix'.files[h] = IF all /\ h \notin There THEN None ELSE ix.files[h]
  BY AskIs
<1>2. Places'
  BY <1>1 DEF SymbolsInv, Places, Refreshing, AllTold
<1>3. Stamps'
  BY <1>1 DEF SymbolsInv, Stamps, Stamped, OnDisk
<1>4. Listed'
  <2> SUFFICES ASSUME NEW h \in Files, OnDisk(h) PROVE ListedAt(h)'
    BY <1>1 DEF Listed, OnDisk
  <2>1. ListedAt(h) /\ ix.dirty \subseteq Held /\ h \in There /\ ix'.files[h] = ix.files[h]
    BY <1>1 DEF SymbolsInv, Listed, Places, Refreshing, There
  <2>2. CASE all
    BY <1>1, <2>1, <2>2 DEF ListedAt, Refreshing
  <2>3. CASE ~all
    BY <1>1, <2>1, <2>3 DEF ListedAt, Refreshing, Fresh, Later
  <2> QED
    BY <2>2, <2>3
<1>5. SymbolsAreCurrent'
  BY <1>1, NoAnswer
<1> QED
  BY <1>2, <1>3, <1>4, <1>5 DEF SymbolsInv

\* What every step of a request but the last leaves.
Going == Quietly /\ UNCHANGED req.quiet /\ UNCHANGED req.kind

LEMMA GoingIs ==
  ASSUME Going
  PROVE  /\ UNCHANGED <<disk, stamp, calm, ext, writes, watching, told, opened, model, checked>>
         /\ req'.quiet = req.quiet /\ req'.kind = req.kind /\ \A f \in Files : Later(f)' <=> Later(f)
BY DEF Going, Quietly, FreeToMove, Later

LEMMA StatIs ==
  ASSUME Types, NEW f \in Files, Stat(f)
  PROVE  /\ Going /\ req.stage = "stat" /\ f \in req.todo
         /\ UNCHANGED <<req.changed, req.all, req.round, req.first, req.place, req.here>>
         /\ ix'.dirty = ix.dirty /\ SameBut(ix, ix')
         /\ \A g \in Files \ {f} : ix'.files[g] = ix.files[g]
         /\ \/ /\ ~OnDisk(f) /\ ix'.files[f] = None /\ req'.stage = "stat"
               /\ req'.todo = req.todo \ {f} /\ req'.structural = TRUE
            \/ /\ OnDisk(f) /\ ix'.files[f] = ix.files[f] /\ req'.stage = "stat" /\ ix' = ix
               /\ ix.files[f] # None /\ ix.files[f].stamp = stamp[f] /\ ix.files[f].settled
               /\ req'.todo = req.todo \ {f} /\ req'.structural = req.structural
            \/ /\ OnDisk(f) /\ ix' = ix /\ req'.stage = "read" /\ req'.file = f
               /\ req'.read = stamp[f] /\ req'.todo = req.todo /\ req'.structural = req.structural
<1>1. Quietly /\ req.stage = "stat" /\ f \in req.todo
  BY DEF Stat, Quietly
<1>2. /\ ix'.dirty = ix.dirty /\ SameBut(ix, ix')
      /\ \A g \in Files \ {f} : ix'.files[g] = ix.files[g]
  BY DEF Stat, Types, Index, SameBut
<1>3. UNCHANGED <<req.changed, req.all, req.round, req.first, req.place, req.here, req.quiet, req.kind>>
  BY DEF Stat, Types, Requests
<1>4. \/ /\ ~OnDisk(f) /\ ix'.files[f] = None /\ req'.stage = "stat"
         /\ req'.todo = req.todo \ {f} /\ req'.structural = TRUE
      \/ /\ OnDisk(f) /\ ix'.files[f] = ix.files[f] /\ req'.stage = "stat" /\ ix' = ix
         /\ ix.files[f] # None /\ ix.files[f].stamp = stamp[f] /\ ix.files[f].settled
         /\ req'.todo = req.todo \ {f} /\ req'.structural = req.structural
      \/ /\ OnDisk(f) /\ ix' = ix /\ req'.stage = "read" /\ req'.file = f
         /\ req'.read = stamp[f] /\ req'.todo = req.todo /\ req'.structural = req.structural
  <2>1. CASE ~OnDisk(f) /\ ix' = [ix EXCEPT !.files[f] = None]
             /\ req' = [req EXCEPT !.todo = @ \ {f}, !.structural = TRUE]
    BY <1>1, <2>1 DEF Types, Index, Requests
  <2>2. CASE OnDisk(f) /\ TrustsStamp(ix.files[f], stamp[f], ~req.all \/ f \in ix.dirty)
             /\ req' = [req EXCEPT !.todo = @ \ {f}] /\ UNCHANGED ix
    <3>1. /\ ix.files[f] # None /\ ix.files[f].stamp = stamp[f] /\ ix.files[f].settled
      BY <2>2 DEF TrustsStamp
    <3>2. req'.stage = "stat" /\ req'.todo = req.todo \ {f} /\ req'.structural = req.structural
      BY <1>1, <2>2 DEF Types, Requests
    <3> QED
      BY <2>2, <3>1, <3>2
  <2>3. CASE OnDisk(f) /\ UNCHANGED ix
             /\ req' = [req EXCEPT !.stage = "read", !.file = f, !.read = stamp[f]]
    BY <2>3 DEF Types, Requests
  <2> QED
    BY <2>1, <2>2, <2>3 DEF Stat
<1> QED
  BY <1>1, <1>2, <1>3, <1>4 DEF Going

LEMMA SymbolsStat == ASSUME Types, SymbolsInv, NEW f \in Files, Stat(f) PROVE SymbolsInv'
<1>1. /\ Going /\ req.stage = "stat" /\ req'.stage \in {"stat", "read"} /\ ix'.dirty = ix.dirty
      /\ \A g \in Files \ {f} : ix'.files[g] = ix.files[g]
      /\ ix'.files[f] \in {None, ix.files[f]}
      /\ req'.stage = "read" => req'.read = stamp[f]
      /\ req'.todo \in {req.todo, req.todo \ {f}}
  BY StatIs
<1>2. Places'
  BY <1>1, GoingIs DEF SymbolsInv, Places, Refreshing
<1>3. Stamps'
  <2>1. \A g \in Files : Stamped(ix', g)
    BY <1>1 DEF SymbolsInv, Stamps, Stamped
  <2> QED
    BY <1>1, <2>1, GoingIs DEF SymbolsInv, Stamps, Stamped, OnDisk
<1>4. Listed'
  <2> SUFFICES ASSUME NEW g \in Files, OnDisk(g) PROVE ListedAt(g)'
    BY <1>1, GoingIs DEF Listed, OnDisk
  <2>1. ListedAt(g) /\ Stamped(ix, g)
    BY DEF SymbolsInv, Listed, Stamps
  <2>2. CASE g = f
    BY <1>1, <2>1, <2>2, StatIs, GoingIs DEF ListedAt, Refreshing, Fresh, Stamped
  <2>3. CASE g # f
    BY <1>1, <2>1, <2>3, GoingIs DEF ListedAt, Refreshing, Fresh
  <2> QED
    BY <2>2, <2>3
<1>5. SymbolsAreCurrent'
  BY <1>1, NoAnswer
<1> QED
  BY <1>2, <1>3, <1>4, <1>5 DEF SymbolsInv

LEMMA ReadTextIs ==
  ASSUME Types, ReadText
  PROVE  LET f == req.file
             old == ix.files[f]
             e == ix'.files[f]
         IN /\ Going /\ req.stage = "read" /\ f \in Files /\ f \in req.todo /\ req.read \in Nat
            /\ UNCHANGED <<req.all, req.round, req.first, req.place, req.here>>
            /\ ix'.dirty = ix.dirty /\ SameBut(ix, ix')
            /\ \A g \in Files \ {f} : ix'.files[g] = ix.files[g]
            /\ req'.stage = "stat" /\ req'.todo = req.todo \ {f}
            /\ req'.changed = IF old # None /\ old.text # TextOf(f) THEN req.changed \cup {f}
                              ELSE req.changed
            /\ req'.structural = (req.structural \/ (old = None /\ ~req.first))
            /\ e # None /\ e.text = TextOf(f) /\ e.stamp = req.read
            /\ e.settled = (calm[f] \/ stamp[f] # req.read)
            /\ old # None /\ old.text = TextOf(f) =>
                 e.refs = old.refs /\ e.deps = old.deps /\ e.distrust = old.distrust
            /\ ~(old # None /\ old.text = TextOf(f)) =>
                 e.refs = None /\ e.deps = None /\ e.distrust = FALSE
<1> DEFINE f == req.file
           old == ix.files[f]
           s == calm[f] \/ stamp[f] # req.read
           x == TextOf(f)
           n == req.read
           new == Revalidated(old, x, n, s)
<1>1. f \in Files /\ f \in req.todo /\ n \in Nat
  BY DEF Types, HandTyped, ReadText, Requests
<1>2. x \in Nat /\ s \in BOOLEAN /\ old \in Entries \cup {None}
  BY <1>1 DEF TextOf, OnDisk, Types, WorldTyped, Index
<1>3. /\ ix' = [ix EXCEPT !.files[f] = new] /\ Quietly /\ req.stage = "read"
      /\ req' = [req EXCEPT !.stage = "stat", !.todo = @ \ {f}, !.file = None, !.read = None,
                   !.changed = IF old # None /\ old.text # new.text THEN @ \cup {f} ELSE @,
                   !.structural = @ \/ (old = None /\ ~req.first)]
  BY DEF ReadText, Quietly
<1> HIDE DEF f, old, x, n, s
<1>4. /\ new \in Entries /\ new.text = x /\ new.stamp = n /\ new.settled = s
      /\ old # None /\ old.text = x => new.refs = old.refs /\ new.deps = old.deps /\ new.distrust = old.distrust
      /\ ~(old # None /\ old.text = x) => new.refs = None /\ new.deps = None /\ new.distrust = FALSE
  <2>1. CASE old # None /\ old.text = x
    <3> DEFINE k == [old EXCEPT !.stamp = n, !.settled = s]
    <3>1. new = k /\ old \in Entries
      BY <1>2, <2>1 DEF Revalidated
    <3>2. /\ k \in Entries /\ k.text = old.text /\ k.stamp = n /\ k.settled = s
          /\ k.refs = old.refs /\ k.deps = old.deps /\ k.distrust = old.distrust
      BY <1>1, <1>2, <3>1 DEF Entries
    <3> HIDE DEF k, new
    <3> QED
      BY <2>1, <3>1, <3>2
  <2>2. CASE ~(old # None /\ old.text = x)
    <3>1. new = Entry(x, n, s)
      BY <2>2 DEF Revalidated
    <3>2. /\ Entry(x, n, s) \in Entries /\ Entry(x, n, s).text = x /\ Entry(x, n, s).stamp = n
          /\ Entry(x, n, s).settled = s /\ Entry(x, n, s).refs = None /\ Entry(x, n, s).deps = None
          /\ Entry(x, n, s).distrust = FALSE
      BY <1>1, <1>2 DEF Entry, Entries
    <3> HIDE DEF new
    <3> QED
      BY <2>2, <3>1, <3>2
  <2> QED
    BY <2>1, <2>2
<1> HIDE DEF new
<1>5. /\ ix'.dirty = ix.dirty /\ SameBut(ix, ix') /\ ix'.files[f] = new
      /\ \A g \in Files \ {f} : ix'.files[g] = ix.files[g]
  BY <1>1, <1>3 DEF Types, Index, SameBut
<1>6. UNCHANGED <<req.all, req.round, req.first, req.place, req.here, req.quiet, req.kind>>
      /\ req'.stage = "stat" /\ req'.todo = req.todo \ {f}
      /\ req'.changed = (IF old # None /\ old.text # new.text THEN req.changed \cup {f} ELSE req.changed)
      /\ req'.structural = (req.structural \/ (old = None /\ ~req.first))
  BY <1>3 DEF Types, Requests
<1> QED
  BY <1>1, <1>3, <1>4, <1>5, <1>6, NotNone DEF Going, f, old, s, x, n

LEMMA SymbolsReadText == ASSUME Types, SymbolsInv, ReadText PROVE SymbolsInv'
<1> DEFINE f == req.file
           e == ix'.files[f]
<1>1. /\ Going /\ req.stage = "read" /\ f \in Files /\ f \in req.todo /\ req.read \in Nat
      /\ ix'.dirty = ix.dirty
      /\ \A g \in Files \ {f} : ix'.files[g] = ix.files[g]
      /\ req'.stage = "stat" /\ req'.todo = req.todo \ {f}
      /\ e # None /\ e.text = TextOf(f) /\ e.stamp = req.read
      /\ e.settled = (calm[f] \/ stamp[f] # req.read)
  BY ReadTextIs
<1> HIDE DEF f
<1>2. Places'
  BY <1>1, GoingIs DEF SymbolsInv, Places, Refreshing
<1>3. Stamps'
  <2>1. ASSUME NEW g \in Files PROVE Stamped(ix', g)
    <3>1. CASE g = f
      BY <1>1, <3>1 DEF SymbolsInv, Stamps, Stamped, TextOf
    <3>2. CASE g # f
      BY <1>1, <3>2 DEF SymbolsInv, Stamps, Stamped
    <3> QED
      BY <3>1, <3>2
  <2> QED
    BY <1>1, <2>1, GoingIs DEF SymbolsInv, Stamps, Stamped, OnDisk
<1>4. Listed'
  <2> SUFFICES ASSUME NEW g \in Files, OnDisk(g) PROVE ListedAt(g)'
    BY <1>1, GoingIs DEF Listed, OnDisk
  <2>1. ListedAt(g)
    BY DEF SymbolsInv, Listed
  <2>2. CASE g = f
    BY <1>1, <2>2, GoingIs DEF ListedAt, Fresh, TextOf
  <2>3. CASE g # f
    BY <1>1, <2>1, <2>3, GoingIs DEF ListedAt, Refreshing, Fresh
  <2> QED
    BY <2>2, <2>3
<1>5. SymbolsAreCurrent'
  BY <1>1, NoAnswer
<1> QED
  BY <1>2, <1>3, <1>4, <1>5 DEF SymbolsInv

LEMMA RefreshedIs ==
  ASSUME Types, Refreshed
  PROVE  LET k == Moved(ix, req.changed, req.structural)
         IN /\ Going /\ req.stage = "stat" /\ req.todo = {}
            /\ UNCHANGED <<req.round, req.place, req.here>>
            /\ req'.stage = IF req.kind = "symbols" THEN "answer"
                            ELSE IF req.round = 0 THEN "ready" ELSE "pending"
            /\ ix'.dirty = {} /\ ix'.relist = FALSE /\ ix'.files = k.files
            /\ ix'.refsBuilt = ix.refsBuilt /\ ix'.inputs = ix.inputs
            /\ Alike(ix, k)
            /\ \A f \in Files : ix'.files[f] =
                 IF ix.files[f] # None /\ Hit(ix, req.changed, req.structural, f)
                 THEN Taken(ix.files[f]) ELSE ix.files[f]
<1> DEFINE k == Moved(ix, req.changed, req.structural)
<1>1. /\ k \in Index /\ SameBut(ix, k) /\ Alike(ix, k)
      /\ \A f \in Files : k.files[f] = IF ix.files[f] # None /\ Hit(ix, req.changed, req.structural, f)
                                       THEN Taken(ix.files[f]) ELSE ix.files[f]
  BY MovedIs, MovedAlike DEF Types
<1>2. ix' = [k EXCEPT !.dirty = {}, !.relist = FALSE] /\ Quietly /\ req.stage = "stat" /\ req.todo = {}
  BY DEF Refreshed, Quietly
<1> HIDE DEF k
<1>3. /\ ix'.dirty = {} /\ ix'.relist = FALSE /\ ix'.files = k.files
      /\ ix'.refsBuilt = ix.refsBuilt /\ ix'.inputs = ix.inputs
  BY <1>1, <1>2 DEF Index, SameBut
<1>4. /\ UNCHANGED <<req.round, req.place, req.here, req.quiet, req.kind>>
      /\ req'.stage = IF req.kind = "symbols" THEN "answer"
                      ELSE IF req.round = 0 THEN "ready" ELSE "pending"
  BY DEF Refreshed, Types, Requests
<1> QED
  BY <1>1, <1>2, <1>3, <1>4 DEF Going, k

LEMMA SymbolsRefreshed == ASSUME Types, SymbolsInv, Refreshed PROVE SymbolsInv'
<1> DEFINE k == Moved(ix, req.changed, req.structural)
<1>1. /\ Going /\ req.stage = "stat" /\ req.todo = {} /\ Alike(ix, k) /\ ix'.files = k.files
      /\ ix'.dirty = {} /\ ix'.relist = FALSE
      /\ req'.stage = IF req.kind = "symbols" THEN "answer"
                      ELSE IF req.round = 0 THEN "ready" ELSE "pending"
  BY RefreshedIs
<1> HIDE DEF k
<1>6. req.kind \in {"symbols", "refs"}
  BY DEF Types, Requests
<1>2. Places'
  BY <1>1, <1>6, GoingIs DEF SymbolsInv, Places, Refreshing
<1>3. Stamps'
  <2>1. ASSUME NEW g \in Files PROVE Stamped(k, g)
    BY <1>1, AlikeStamped DEF SymbolsInv, Stamps, Types
  <2> QED
    BY <1>1, <2>1, GoingIs DEF SymbolsInv, Stamps, Stamped, OnDisk
<1>4. Listed'
  <2> SUFFICES ASSUME NEW g \in Files, OnDisk(g) PROVE ListedAt(g)'
    BY <1>1, GoingIs DEF Listed, OnDisk
  <2>1. ListedAt(g)
    BY DEF SymbolsInv, Listed
  <2>2. Fresh(ix, g) => Fresh(k, g)
    BY <1>1, AlikeFresh
  <2> QED
    BY <1>1, <2>1, <2>2, GoingIs DEF ListedAt, Refreshing, Fresh
<1>5. SymbolsAreCurrent'
  BY <1>1, NoAnswer
<1> QED
  BY <1>2, <1>3, <1>4, <1>5 DEF SymbolsInv

\* A step of a references request after its refresh.
After2 == {"ready", "pending", "fill", "index", "keep"}
LEMMA SymbolsGoing ==
  ASSUME Types, Types', SymbolsInv, Going, req.stage \in After2, req'.stage \in After2 \cup {"answer"},
         Alike(ix, ix')
  PROVE  SymbolsInv'
<1>2. Places'
  BY GoingIs DEF SymbolsInv, Places, Refreshing, After2, Alike
<1>3. Stamps'
  <2>1. ASSUME NEW g \in Files PROVE Stamped(ix', g)
    BY AlikeStamped DEF SymbolsInv, Stamps, Types
  <2> QED
    BY <2>1, GoingIs DEF SymbolsInv, Stamps, Stamped, OnDisk, After2
<1>4. Listed'
  <2> SUFFICES ASSUME NEW g \in Files, OnDisk(g) PROVE ListedAt(g)'
    BY GoingIs DEF Listed, OnDisk
  <2>1. ListedAt(g)
    BY DEF SymbolsInv, Listed
  <2>2. Fresh(ix, g) => Fresh(ix', g)
    BY AlikeFresh
  <2> QED
    BY <2>1, <2>2, GoingIs DEF ListedAt, Refreshing, Fresh, After2
<1>5. SymbolsAreCurrent'
  BY NoAnswer DEF After2
<1> QED
  BY <1>2, <1>3, <1>4, <1>5 DEF SymbolsInv

LEMMA PendingIs ==
  ASSUME Types, Pending
  PROVE  /\ Going /\ req.stage = "pending" /\ req'.stage = "fill" /\ ix' = ix
         /\ UNCHANGED <<req.place, req.target, req.here>>
         /\ req'.todo = {f \in Held : ix.files[f].refs = None}
<1>1. UNCHANGED <<req.quiet, req.kind, req.place, req.target, req.here>> /\ req'.stage = "fill"
      /\ req'.todo = {f \in Held : ix.files[f].refs = None}
  BY DEF Pending, Types, Requests
<1> QED
  BY <1>1 DEF Pending, Going, Quietly

LEMMA FillFromCheckIs ==
  ASSUME Types, NEW f \in Files, FillFromCheck(f)
  PROVE  /\ Going /\ req.stage = "fill" /\ req'.stage = "fill" /\ f \in req.todo
         /\ UNCHANGED <<req.place, req.target, req.here>>
         /\ checked[f] \in Uses /\ f \in opened /\ ~ix.files[f].distrust
         /\ checked[f].text = TextOf(f)
         /\ ix' = Fill(ix, f, TextOf(f), checked[f]) /\ req'.todo = req.todo \ {f}
<1>1. UNCHANGED <<req.quiet, req.kind, req.place, req.target, req.here>> /\ req'.stage = req.stage
      /\ req'.todo = req.todo \ {f}
  BY DEF FillFromCheck, Types, Requests
<1>2. checked[f] \in Uses
  BY DEF Types, ServerTyped, FillFromCheck
<1> QED
  BY <1>1, <1>2 DEF FillFromCheck, Going, Quietly

LEMMA FillReadsIs ==
  ASSUME Types, NEW f \in Files, FillReads(f)
  PROVE  /\ Going /\ req.stage = "fill" /\ req'.stage = "index" /\ ix' = ix
         /\ UNCHANGED <<req.place, req.target, req.here, req.todo>>
         /\ f \in req.todo /\ req'.file = f /\ req'.read = TextOf(f)
<1>1. UNCHANGED <<req.quiet, req.kind, req.place, req.target, req.here, req.todo>>
      /\ req'.stage = "index" /\ req'.file = f /\ req'.read = TextOf(f)
  BY DEF FillReads, Types, Requests
<1> QED
  BY <1>1 DEF FillReads, Going, Quietly

NoCheck == [text |-> 0, read |-> [g \in {} |-> 0], inputs |-> None]
LEMMA FillChecksIs ==
  ASSUME Types, FillChecks
  PROVE  /\ Going /\ req.stage = "index" /\ req'.stage = "keep" /\ ix' = ix
         /\ UNCHANGED <<req.place, req.target, req.here, req.todo, req.file, req.read>>
         /\ req'.made = IF OnDisk(req.file) THEN Check(req.file, model) ELSE NoCheck
<1> DEFINE made == IF OnDisk(req.file) THEN Check(req.file, model) ELSE NoCheck
<1>2. req' = [req EXCEPT !.stage = "keep", !.made = made]
  BY DEF FillChecks, NoCheck
<1> HIDE DEF made
<1>1. UNCHANGED <<req.quiet, req.kind, req.place, req.target, req.here, req.todo, req.file, req.read>>
      /\ req'.stage = "keep" /\ req'.made = made
  BY <1>2 DEF Types, Requests
<1> QED
  BY <1>1 DEF FillChecks, Going, Quietly, made

LEMMA FillKeepsIs ==
  ASSUME Types, FillKeeps
  PROVE  /\ Going /\ req.stage = "keep" /\ req'.stage = "fill"
         /\ UNCHANGED <<req.place, req.target, req.here>>
         /\ req.file \in Files /\ req.made \in Uses
         /\ ix' = IF TextOf(req.file) = req.read THEN Fill(ix, req.file, req.read, req.made) ELSE ix
         /\ req'.todo = req.todo \ {req.file}
<1>1. UNCHANGED <<req.quiet, req.kind, req.place, req.target, req.here>>
      /\ req'.stage = "fill" /\ req'.todo = req.todo \ {req.file}
  BY DEF FillKeeps, Types, Requests
<1>2. req.file \in Files /\ req.made \in Uses
  BY DEF Types, HandTyped, FillKeeps, Requests
<1> QED
  BY <1>1, <1>2 DEF FillKeeps, Going, Quietly

LEMMA FilledIs ==
  ASSUME Types, Filled
  PROVE  /\ Going /\ req.stage = "fill" /\ req'.stage = "answer" /\ ix' = ix /\ req.todo = {}
         /\ UNCHANGED <<req.place, req.target, req.here>>
<1>1. UNCHANGED <<req.quiet, req.kind, req.place, req.target, req.here>> /\ req'.stage = "answer"
  BY DEF Filled, Types, Requests
<1> QED
  BY <1>1 DEF Filled, Going, Quietly

LEMMA SymbolsFills ==
  ASSUME Types, SymbolsInv,
         \/ Pending \/ FillChecks \/ FillKeeps \/ Filled
         \/ \E f \in Files : FillFromCheck(f) \/ FillReads(f)
  PROVE  SymbolsInv'
<1>1. CASE Pending
  BY <1>1, PendingIs, TypesPending, AlikeItself, SymbolsGoing DEF After2
<1>2. CASE FillChecks
  BY <1>2, FillChecksIs, TypesFillChecks, AlikeItself, SymbolsGoing DEF After2
<1>3. CASE FillKeeps
  <2>1. Alike(ix, ix')
    BY <1>3, FillKeepsIs, FillAlike, AlikeItself DEF Types
  <2> QED
    BY <1>3, <2>1, FillKeepsIs, TypesFillKeeps, SymbolsGoing DEF After2
<1>4. CASE Filled
  BY <1>4, FilledIs, TypesFilled, AlikeItself, SymbolsGoing DEF After2
<1>5. ASSUME NEW f \in Files, FillFromCheck(f) PROVE SymbolsInv'
  <2>1. Alike(ix, ix')
    BY <1>5, FillFromCheckIs, FillAlike DEF Types
  <2> QED
    BY <1>5, <2>1, FillFromCheckIs, TypesFillFromCheck, SymbolsGoing DEF After2
<1>6. ASSUME NEW f \in Files, FillReads(f) PROVE SymbolsInv'
  BY <1>6, FillReadsIs, TypesFillReads, AlikeItself, SymbolsGoing DEF After2
<1> QED
  BY <1>1, <1>2, <1>3, <1>4, <1>5, <1>6

LEMMA RebuiltAlike == ASSUME Types PROVE Alike(ix, Rebuilt)
<1>1. Seen \in Index /\ Alike(ix, Seen)
  BY DEF Seen, Alike, PutSymbols, Types, Index, WorldTyped
<1>2. CASE InputsMoved
  <2> DEFINE k == Moved(Seen, {}, TRUE)
  <2>1. k \in Index /\ Alike(Seen, k)
    BY <1>1, MovedIs, MovedAlike
  <2> HIDE DEF k
  <2>2. Putting(k, opened, PutAll(k, opened, ext))
    BY <2>1, PutAllIsPutting DEF Types, ServerTyped, WorldTyped
  <2>3. Alike(k, PutAll(k, opened, ext))
    BY <2>2, PuttingAlike DEF Types, ServerTyped
  <2>4. Rebuilt = PutAll(k, opened, ext)
    BY <1>2 DEF Rebuilt, k
  <2> QED
    BY <1>1, <2>1, <2>3, <2>4, AlikeTwice
<1>3. CASE ~InputsMoved
  BY <1>1, <1>3 DEF Rebuilt
<1> QED
  BY <1>2, <1>3

\* The last of Ready's puts: the file the request is about, when its uses are not to be trusted.
LEMMA OwnPut ==
  ASSUME Types, Ready, Rebuilt.files[req.here] # None
  PROVE  /\ FirstRefs(Rebuilt) \in Index /\ ReadyOwn \in SUBSET Files
         /\ Putting(FirstRefs(Rebuilt), ReadyOwn, ix')
<1>1. /\ ix' = PutAll(FirstRefs(Rebuilt), ReadyOwn, ReadyModel) /\ req.stage = "ready"
  BY ReadyIs
<1>2. req.here \in Files /\ model \in Nat
  BY <1>1 DEF Types, HandTyped
<1>3. ReadyModel \in Nat \cup {None} /\ ReadyOwn \in SUBSET Files
  BY <1>2 DEF ReadyModel, ReadyOwn, Types, WorldTyped
<1>4. FirstRefs(Rebuilt) \in Index
  BY RebuiltTyped, FirstRefsTyped
<1> QED
  BY <1>1, <1>3, <1>4, PutAllIsPutting DEF Types

LEMMA ReadyAlike == ASSUME Types, Ready PROVE Alike(ix, ix')
<1>1. CASE Rebuilt.files[req.here] # None
  <2>1. Alike(Rebuilt, FirstRefs(Rebuilt))
    BY RebuiltTyped, FirstRefsAlike
  <2>2. Alike(FirstRefs(Rebuilt), ix')
    BY <1>1, OwnPut, PuttingAlike
  <2> QED
    BY <2>1, <2>2, RebuiltAlike, AlikeTwice
<1>2. CASE Rebuilt.files[req.here] = None
  BY <1>2, ReadyIs, RebuiltAlike
<1> QED
  BY <1>1, <1>2

LEMMA RepliedIs ==
  ASSUME Types, NEW reply, req' = Replied(req, reply)
  PROVE  /\ req'.stage = "idle" /\ req'.reply = reply /\ req'.quiet = req.quiet /\ req'.kind = req.kind
         /\ req'.place = req.place /\ req'.target = req.target /\ req'.here = req.here
         /\ req'.round = req.round /\ req'.todo = {}
BY DEF Replied, Types, Requests

LEMMA SymbolsReady == ASSUME Types, SymbolsInv, Ready PROVE SymbolsInv'
<1>1. /\ Alike(ix, ix') /\ UNCHANGED <<disk, stamp, calm, writes, watching, told>>
      /\ req.stage = "ready" /\ req.kind = "refs"
  BY ReadyAlike, ReadyIs DEF SymbolsInv, Places, FreeToMove
<1>2. req'.stage \in {"pending", "idle"} /\ req'.quiet = req.quiet /\ req'.kind = req.kind
  <2>1. CASE req' = Replied(req, NoPlace)
    BY <2>1, RepliedIs
  <2>2. ASSUME NEW p, req' = [req EXCEPT !.stage = "pending", !.place = p]
        PROVE  req'.stage = "pending" /\ req'.quiet = req.quiet /\ req'.kind = req.kind
    BY <2>2 DEF Types, Requests
  <2> QED
    BY <2>1, <2>2, ReadyIs
<1>3. Places'
  BY <1>1, <1>2 DEF SymbolsInv, Places, Refreshing, Alike
<1>4. Stamps'
  <2>1. ASSUME NEW g \in Files PROVE Stamped(ix', g)
    BY <1>1, AlikeStamped DEF SymbolsInv, Stamps, Types
  <2> QED
    BY <1>1, <1>2, <2>1 DEF SymbolsInv, Stamps, Stamped, OnDisk
<1>5. Listed'
  <2> SUFFICES ASSUME NEW g \in Files, OnDisk(g) PROVE ListedAt(g)'
    BY <1>1 DEF Listed, OnDisk
  <2>1. ListedAt(g)
    BY DEF SymbolsInv, Listed
  <2>2. Fresh(ix, g) => Fresh(ix', g)
    BY <1>1, AlikeFresh
  <2> QED
    BY <1>1, <1>2, <2>1, <2>2 DEF ListedAt, Refreshing, Fresh, Later
<1>6. SymbolsAreCurrent'
  BY <1>1, <1>2, NoAnswer
<1> QED
  BY <1>3, <1>4, <1>5, <1>6 DEF SymbolsInv

LEMMA AnswerIs ==
  ASSUME Types, Answer
  PROVE  /\ Quietly /\ req.stage = "answer"
         /\ \/ /\ req' = Replied(req, Named({h \in Hits : OnDisk(h.file)})) /\ ix' = ix
               /\ (\A h \in Hits : OnDisk(h.file)) \/ req.round = 1
            \/ /\ req'.stage = "stat" /\ req'.round = 1 /\ req'.all = TRUE /\ req'.changed = {}
               /\ req'.todo = There /\ req'.structural = (\E f \in Held : ~OnDisk(f))
               /\ UNCHANGED <<req.quiet, req.kind, req.place, req.target, req.here>>
               /\ ix'.dirty = ix.dirty /\ ix'.relist = TRUE
               /\ ix'.refsBuilt = ix.refsBuilt /\ ix'.inputs = ix.inputs
               /\ \A f \in Files : ix'.files[f] = IF OnDisk(f) THEN ix.files[f] ELSE None
<1>1. Quietly /\ req.stage = "answer"
  BY DEF Answer, Quietly
<1>2. CASE /\ req' = [req EXCEPT !.stage = "stat", !.round = 1, !.all = TRUE, !.changed = {},
                        !.todo = There, !.first = Held = {},
                        !.structural = \E f \in Held : ~OnDisk(f)]
           /\ LET due == [ix EXCEPT !.relist = TRUE] IN
              ix' = [due EXCEPT !.files = [f \in Files |-> IF OnDisk(f) THEN @[f] ELSE None]]
  <2>1. /\ ix'.dirty = ix.dirty /\ ix'.relist = TRUE
        /\ ix'.refsBuilt = ix.refsBuilt /\ ix'.inputs = ix.inputs
        /\ \A f \in Files : ix'.files[f] = IF OnDisk(f) THEN ix.files[f] ELSE None
    BY <1>2 DEF Types, Index
  <2>2. /\ req'.stage = "stat" /\ req'.round = 1 /\ req'.all = TRUE /\ req'.changed = {}
        /\ req'.todo = There /\ req'.structural = (\E f \in Held : ~OnDisk(f))
        /\ UNCHANGED <<req.quiet, req.kind, req.place, req.target, req.here>>
    <3> DEFINE structural == \E f \in Held : ~OnDisk(f)
               first == Held = {}
    <3>1. req' = [req EXCEPT !.stage = "stat", !.round = 1, !.all = TRUE, !.changed = {},
                             !.todo = There, !.first = first, !.structural = structural]
      BY <1>2
    <3> HIDE DEF structural, first
    <3>2. /\ req'.stage = "stat" /\ req'.round = 1 /\ req'.all = TRUE /\ req'.changed = {}
          /\ req'.todo = There /\ req'.structural = structural
          /\ UNCHANGED <<req.quiet, req.kind, req.place, req.target, req.here>>
      BY <3>1 DEF Types, Requests
    <3> QED
      BY <3>2 DEF structural
  <2> QED
    BY <1>1, <2>1, <2>2
<1> QED
  BY <1>1, <1>2 DEF Answer

LEMMA SymbolsAnswer == ASSUME Types, SymbolsInv, Answer PROVE SymbolsInv'
<1>1. /\ Quietly /\ req.stage = "answer"
      /\ UNCHANGED <<disk, stamp, calm, writes, watching, told>>
  BY AnswerIs DEF Quietly, FreeToMove
<1>2. CASE req' = Replied(req, Named({h \in Hits : OnDisk(h.file)})) /\ ix' = ix
  <2>1. /\ req'.stage = "idle" /\ req'.reply = Named({h \in Hits : OnDisk(h.file)})
        /\ req'.quiet = req.quiet /\ req'.kind = req.kind
    BY <1>2, RepliedIs
  <2>2. Places' /\ Stamps'
    BY <1>1, <1>2, <2>1 DEF SymbolsInv, Places, Refreshing, Stamps, Stamped, OnDisk, Held
  <2>3. Listed'
    BY <1>1, <1>2, <2>1 DEF SymbolsInv, Listed, ListedAt, Refreshing, Fresh, OnDisk, Later
  <2>4. ASSUME req.quiet, req.kind = "symbols" PROVE {h \in Hits : OnDisk(h.file)} = Expected
    <3>1. Hits = {[file |-> f, text |-> ix.files[f].text, inputs |-> None] : f \in Held}
      BY <2>4 DEF Hits
    <3>2. Expected = {[file |-> f, text |-> disk[f], inputs |-> None] : f \in There}
      BY <2>4 DEF Expected
    <3>3. ASSUME NEW f \in There PROVE f \in Held /\ ix.files[f].text = disk[f]
      <4>1. f \in Files /\ ListedAt(f)
        BY <3>3 DEF There, SymbolsInv, Listed
      <4>2. ~Later(f)
        BY <2>4 DEF Later, SymbolsInv, Places
      <4> QED
        BY <1>1, <4>1, <4>2 DEF ListedAt, Refreshing, Fresh, Held
    <3>4. \A f \in Held : OnDisk(f) => f \in There
      BY DEF Held, There
    <3>5. \A f \in There : OnDisk(f)
      BY DEF There
    <3> HIDE DEF Held, There
    <3>6. \A h \in Expected : h \in Hits /\ OnDisk(h.file)
      BY <3>1, <3>2, <3>3, <3>5
    <3>7. \A h \in Hits : OnDisk(h.file) => h \in Expected
      BY <3>1, <3>2, <3>3, <3>4
    <3> QED
      BY <3>6, <3>7
  <2>5. Expected' = Expected \/ req.kind # "symbols"
    BY <1>1, <2>1 DEF Expected, There, OnDisk
  <2>6. SymbolsAreCurrent'
    BY <2>1, <2>4, <2>5 DEF SymbolsAreCurrent, Answered, Named
  <2> QED
    BY <2>2, <2>3, <2>6 DEF SymbolsInv
<1>3. CASE /\ req'.stage = "stat" /\ req'.todo = There /\ req'.quiet = req.quiet /\ req'.kind = req.kind
           /\ ix'.dirty = ix.dirty
           /\ \A f \in Files : ix'.files[f] = IF OnDisk(f) THEN ix.files[f] ELSE None
  <2>1. Places'
    BY <1>1, <1>3 DEF SymbolsInv, Places, Refreshing
  <2>2. Stamps'
    BY <1>1, <1>3 DEF SymbolsInv, Stamps, Stamped, OnDisk
  <2>3. Listed'
    BY <1>1, <1>3 DEF Listed, ListedAt, Refreshing, OnDisk, There
  <2>4. SymbolsAreCurrent'
    BY <1>3, NoAnswer
  <2> QED
    BY <2>1, <2>2, <2>3, <2>4 DEF SymbolsInv
<1> QED
  BY <1>2, <1>3, AnswerIs

LEMMA SymbolsInit == ASSUME Init PROVE SymbolsInv
<1>1. Places /\ SymbolsAreCurrent
  BY DEF Init, Places, Refreshing, Idle, NoIndex, Held, SymbolsAreCurrent, Answered
<1>2. Stamps /\ Listed
  BY DEF Init, Stamps, Stamped, Idle, NoIndex, Listed, ListedAt, Refreshing
<1> QED
  BY <1>1, <1>2 DEF SymbolsInv

LEMMA SymbolsStep == ASSUME Types, SymbolsInv, [Next]_vars PROVE SymbolsInv'
<1>1. CASE World
  BY <1>1, SymbolsWrite, SymbolsDelete, SymbolsWriteInputs, SymbolsSettle DEF World
<1>2. CASE Client
  BY <1>2, SymbolsSave, SymbolsFileEvent, SymbolsInputsEvent, SymbolsAsk DEF Client
<1>3. CASE Server
  BY <1>3, SymbolsStat, SymbolsFills, SymbolsReadText, SymbolsRefreshed, SymbolsReady, SymbolsAnswer
     DEF Server
<1>4. CASE UNCHANGED vars
  <2>1. SymbolsAreCurrent'
    BY <1>4, ReplyStays DEF SymbolsInv, vars
  <2>2. Places' /\ Stamps' /\ Listed'
    BY <1>4 DEF vars, SymbolsInv, Places, Stamps, Stamped, Listed, ListedAt, Refreshing, Fresh, OnDisk,
                Later, Held
  <2> QED
    BY <2>1, <2>2 DEF SymbolsInv
<1> QED
  BY <1>1, <1>2, <1>3, <1>4 DEF Next

\* A symbols request made after everything was said names every symbol of every file as the
\* file is, whatever may happen of what is unusual.
THEOREM SymbolsCurrent == Spec => []SymbolsAreCurrent
<1>1. Init => Types /\ SymbolsInv
  BY TypesInit, SymbolsInit
<1>2. Types /\ SymbolsInv /\ [Next]_vars => (Types /\ SymbolsInv)'
  BY TypesStep, SymbolsStep
<1>3. SymbolsInv => SymbolsAreCurrent
  BY DEF SymbolsInv
<1> QED
  BY <1>1, <1>2, <1>3, PTL DEF Spec

-----------------------------------------------------------------------------
(* Uses: that they fit the text they are held with.                        *)

Fits(e) == e.refs # None => e.refs.text = e.text /\ (e.refs.inputs # None => e.deps # None)
AllFit(i) == \A f \in Files : i.files[f] # None => Fits(i.files[f])

\* The text a check is being made from is no later than the last write, and while the file
\* still has it, it is the one the check read.
Dated ==
    /\ \A f \in Files : OnDisk(f) => disk[f] <= writes + 1
    /\ req.stage \in {"index", "keep"} => req.read <= writes + 1
Making ==
    /\ req.stage \in {"index", "keep"} /\ req.read = 0 => ~OnDisk(req.file)
    /\ req.stage = "keep" /\ TextOf(req.file) = req.read => req.made.text = req.read
UsesInv == AllFit(ix) /\ Dated /\ Making

LEMMA PuttingFits ==
  ASSUME NEW i \in Index, NEW S, NEW j, Putting(i, S, j), AllFit(i)
  PROVE  AllFit(j)
<1> SUFFICES ASSUME NEW f \in Files, j.files[f] # None, j.files[f].refs # None
             PROVE  /\ j.files[f].refs.text = j.files[f].text
                    /\ j.files[f].refs.inputs # None => j.files[f].deps # None
  BY DEF AllFit, Fits
<1>1. PutUses(i, S, j, f) /\ Fits(i.files[f])
  BY DEF Putting, AllFit
<1>2. Closure(f) # None
  <2>1. Closure(f) \in SUBSET Files
    BY ClosureTyped DEF There
  <2> QED
    BY <2>1, NotNone
<1> QED
  BY <1>1, <1>2 DEF PutUses, Fits

LEMMA TakenFits == ASSUME NEW e \in Entries PROVE Fits(Taken(e))
BY TakenIs DEF Fits

LEMMA MovedFits ==
  ASSUME NEW i \in Index, NEW changed, NEW structural, AllFit(i)
  PROVE  AllFit(Moved(i, changed, structural))
<1> DEFINE j == Moved(i, changed, structural)
<1>1. \A f \in Files : j.files[f] = IF i.files[f] # None /\ Hit(i, changed, structural, f)
                                    THEN Taken(i.files[f]) ELSE i.files[f]
  BY MovedIs
<1> HIDE DEF j
<1>2. ASSUME NEW f \in Files, j.files[f] # None PROVE Fits(j.files[f])
  <2>1. CASE i.files[f] # None /\ j.files[f] = Taken(i.files[f])
    BY <2>1, TakenFits DEF Index
  <2>2. CASE j.files[f] = i.files[f]
    BY <1>2, <2>2 DEF AllFit
  <2> QED
    BY <1>1, <2>1, <2>2
<1>3. AllFit(j)
  BY <1>2 DEF AllFit
<1> QED
  BY <1>3 DEF j

LEMMA FirstRefsFits == ASSUME NEW i \in Index, AllFit(i) PROVE AllFit(FirstRefs(i))
<1> DEFINE k == Moved(i, {}, TRUE)
<1>1. k \in Index /\ AllFit(k)
  BY MovedIs, MovedFits
<1>2. FirstRefs(i) = IF i.refsBuilt THEN i ELSE [k EXCEPT !.refsBuilt = TRUE]
  BY DEF FirstRefs
<1> HIDE DEF k
<1> QED
  BY <1>1, <1>2 DEF AllFit, Index

\* What a fill makes of an entry.
DepsOf(made) == IF made.inputs = None THEN None ELSE DOMAIN made.read
FilledEntry(e, made) == [e EXCEPT !.refs = made, !.distrust = FALSE, !.deps = DepsOf(made)]
LEMMA FillIs ==
  ASSUME NEW i \in Index, NEW f \in Files, NEW hash, NEW made \in Uses, NEW j,
         j = Fill(i, f, hash, made)
  PROVE  /\ j \in Index /\ SameBut(i, j) /\ j.dirty = i.dirty
         /\ \A g \in Files \ {f} : j.files[g] = i.files[g]
         /\ i.files[f] = None \/ i.files[f].text # hash => j = i
         /\ i.files[f] # None /\ i.files[f].text = hash =>
              /\ j.files[f] # None /\ j.files[f].text = i.files[f].text
              /\ j.files[f].refs = made /\ ~j.files[f].distrust
              /\ j.files[f].deps = DepsOf(made)
<1>1. DOMAIN made.read \in SUBSET Files
  BY DEF Uses
<1>2. CASE i.files[f] # None /\ i.files[f].text = hash
  <2> DEFINE e == FilledEntry(i.files[f], made)
  <2>1. i.files[f] \in Entries
    BY <1>2 DEF Index
  <2>2. /\ e \in Entries /\ e.text = i.files[f].text /\ e.refs = made /\ e.distrust = FALSE
        /\ e.deps = DepsOf(made)
    BY <1>1, <2>1 DEF Entries, FilledEntry, DepsOf
  <2>3. Fill(i, f, hash, made) = [i EXCEPT !.files[f] = e]
    BY <1>2, <2>1 DEF Fill, Index, Entries, FilledEntry, DepsOf
  <2> HIDE DEF e
  <2> QED
    BY <1>2, <2>2, <2>3, NotNone DEF Index, SameBut
<1>3. CASE ~(i.files[f] # None /\ i.files[f].text = hash)
  BY <1>3 DEF Fill, SameBut
<1> QED
  BY <1>2, <1>3

LEMMA FillFits ==
  ASSUME NEW i \in Index, NEW f \in Files, NEW made \in Uses, AllFit(i)
  PROVE  AllFit(Fill(i, f, made.text, made))
<1> DEFINE j == Fill(i, f, made.text, made)
<1>0. j = Fill(i, f, made.text, made)
  OBVIOUS
<1> HIDE DEF j
<1>1. /\ \A g \in Files \ {f} : j.files[g] = i.files[g]
      /\ i.files[f] = None \/ i.files[f].text # made.text => j = i
      /\ i.files[f] # None /\ i.files[f].text = made.text =>
              /\ j.files[f].text = i.files[f].text
              /\ j.files[f].refs = made /\ j.files[f].deps = DepsOf(made)
  BY <1>0, FillIs
<1>2. DOMAIN made.read # None
  <2>1. DOMAIN made.read \in SUBSET Files
    BY DEF Uses
  <2> QED
    BY <2>1, NotNone
<1>3. AllFit(j)
  BY <1>1, <1>2 DEF AllFit, Fits, DepsOf
<1> QED
  BY <1>0, <1>3

\* No file is given a text it has had, and none that went is made again.
NoText == Unusual \cap {"recurring", "returning"} = {}

LEMMA UsesWrite ==
  ASSUME NoText, Types, UsesInv, NEW f \in Files, NEW t \in Texts, NEW same \in BOOLEAN, Write(f, t, same)
  PROVE  UsesInv'
<1>1. /\ Unquiet /\ UNCHANGED ix /\ writes' = writes + 1 /\ writes \in Nat /\ t = writes + 2
      /\ OnDisk(f) /\ disk' = [disk EXCEPT ![f] = t]
  BY DEF Write, Types, WorldTyped, NoText
<1>2. /\ req'.stage = req.stage /\ req'.read = req.read /\ req'.file = req.file /\ req'.made = req.made
      /\ req.stage \in {"index", "keep"} => req.read \in Nat /\ req.file \in Files
  BY <1>1 DEF Unquiet, Types, Requests, HandTyped
<1>3. Dated'
  BY <1>1, <1>2 DEF UsesInv, Dated, OnDisk, Types, WorldTyped
<1>4. Making'
  <2>1. ASSUME req.stage \in {"index", "keep"}, req.file = f
        PROVE  req.read # 0 /\ TextOf(req.file)' # req.read
    <3>1. TextOf(req.file)' = t
      BY <1>1, <1>2, <2>1, NotNone DEF TextOf, OnDisk, Types, WorldTyped
    <3> QED
      BY <1>1, <1>2, <2>1, <3>1 DEF UsesInv, Dated, Making
  <2>2. ASSUME req.stage \in {"index", "keep"}, req.file # f
        PROVE  TextOf(req.file)' = TextOf(req.file) /\ (OnDisk(req.file)' <=> OnDisk(req.file))
    BY <1>1, <1>2, <2>2 DEF TextOf, OnDisk, Types, WorldTyped
  <2> QED
    BY <1>2, <2>1, <2>2 DEF UsesInv, Making
<1> QED
  BY <1>1, <1>3, <1>4 DEF UsesInv

LEMMA UsesDelete ==
  ASSUME Types, UsesInv, NEW f \in Files, NEW named \in BOOLEAN, Delete(f, named)
  PROVE  UsesInv'
<1>1. /\ Unquiet /\ UNCHANGED ix /\ writes' = writes + 1 /\ writes \in Nat
      /\ OnDisk(f) /\ disk' = [disk EXCEPT ![f] = None]
  BY DEF Delete, Types, WorldTyped
<1>2. /\ req'.stage = req.stage /\ req'.read = req.read /\ req'.file = req.file /\ req'.made = req.made
      /\ req.stage \in {"index", "keep"} => req.read \in Nat /\ req.file \in Files
  BY <1>1 DEF Unquiet, Types, Requests, HandTyped
<1>3. Dated'
  BY <1>1, <1>2 DEF UsesInv, Dated, OnDisk, Types, WorldTyped
<1>4. Making'
  <2>1. ASSUME req.stage \in {"index", "keep"}, req.file = f
        PROVE  req.read # 0 /\ TextOf(req.file)' # req.read
    <3>1. TextOf(req.file)' = 0
      BY <1>1, <1>2, <2>1 DEF TextOf, OnDisk, Types, WorldTyped
    <3> QED
      BY <1>1, <1>2, <2>1, <3>1 DEF UsesInv, Making
  <2>2. ASSUME req.stage \in {"index", "keep"}, req.file # f
        PROVE  TextOf(req.file)' = TextOf(req.file) /\ (OnDisk(req.file)' <=> OnDisk(req.file))
    BY <1>1, <1>2, <2>2 DEF TextOf, OnDisk, Types, WorldTyped
  <2> QED
    BY <1>2, <2>1, <2>2 DEF UsesInv, Making
<1> QED
  BY <1>1, <1>3, <1>4 DEF UsesInv

LEMMA UsesWriteInputs == ASSUME Types, UsesInv, WriteInputs PROVE UsesInv'
<1>1. Unquiet /\ UNCHANGED <<ix, disk>> /\ writes' = writes + 1 /\ writes \in Nat
  BY DEF WriteInputs, Types, WorldTyped
<1>2. /\ req'.stage = req.stage /\ req'.read = req.read /\ req'.file = req.file /\ req'.made = req.made
      /\ req.stage \in {"index", "keep"} => req.read \in Nat
  BY <1>1 DEF Unquiet, Types, Requests, HandTyped
<1>3. Dated'
  BY <1>1, <1>2 DEF UsesInv, Dated, OnDisk, Types, WorldTyped
<1>4. Making'
  BY <1>1, <1>2 DEF UsesInv, Making, TextOf, OnDisk
<1> QED
  BY <1>1, <1>3, <1>4 DEF UsesInv

\* A step that leaves the files, and no check in the making.
LEMMA UsesElsewhere ==
  ASSUME UsesInv, UNCHANGED <<disk, writes>>, AllFit(ix'),
         req'.stage \notin {"index", "keep"} \/ UNCHANGED req
  PROVE  UsesInv'
BY DEF UsesInv, AllFit, Dated, Making, TextOf, OnDisk

LEMMA UsesSave == ASSUME Types, UsesInv, NEW f \in Files, Save(f) PROVE UsesInv'
<1> DEFINE S == {f} \cup {g \in opened : checked[g] # None /\ f \in DOMAIN checked[g].read}
<1>1. S \in SUBSET Files
  BY DEF Types, ServerTyped
<1>2. ix' = PutAll(ix, S, LoadedModel) /\ UNCHANGED <<disk, writes, req>>
  BY DEF Save
<1> HIDE DEF S
<1>3. Putting(ix, S, ix')
  BY <1>1, <1>2, LoadedTyped, PutAllIsPutting DEF Types
<1>4. AllFit(ix')
  BY <1>3, PuttingFits DEF UsesInv, Types
<1> QED
  BY <1>2, <1>4, UsesElsewhere

LEMMA UsesInputsEvent == ASSUME Types, UsesInv, InputsEvent PROVE UsesInv'
<1>1. UNCHANGED <<disk, writes, req>>
  BY DEF InputsEvent
<1>2. AllFit(ix')
  <2>1. CASE opened = {}
    BY <2>1 DEF InputsEvent, UsesInv
  <2>2. CASE opened # {}
    <3> DEFINE k == Moved(ix, {}, TRUE)
    <3>1. k \in Index /\ Putting(k, opened, ix')
      BY <2>2, InputsEventIs
    <3>2. AllFit(k)
      BY MovedFits DEF UsesInv, Types
    <3> HIDE DEF k
    <3> QED
      BY <3>1, <3>2, PuttingFits
  <2> QED
    BY <2>1, <2>2
<1> QED
  BY <1>1, <1>2, UsesElsewhere

LEMMA UsesAsk ==
  ASSUME Types, UsesInv, NEW kind \in {"symbols", "refs"}, NEW f \in Files, NEW g \in Files,
         Ask(kind, f, g)
  PROVE  UsesInv'
<1>1. /\ req'.stage = "stat" /\ UNCHANGED <<disk, writes>>
      /\ \A h \in Files : ix'.files[h] \in {None, ix.files[h]}
  BY AskIs
<1>2. AllFit(ix')
  BY <1>1 DEF UsesInv, AllFit
<1> QED
  BY <1>1, <1>2, UsesElsewhere

LEMMA UsesStat == ASSUME Types, UsesInv, NEW f \in Files, Stat(f) PROVE UsesInv'
<1>1. /\ Going /\ req'.stage \in {"stat", "read"}
      /\ \A g \in Files \ {f} : ix'.files[g] = ix.files[g]
      /\ ix'.files[f] \in {None, ix.files[f]}
  BY StatIs
<1>2. AllFit(ix')
  BY <1>1 DEF UsesInv, AllFit
<1> QED
  BY <1>1, <1>2, GoingIs, UsesElsewhere

LEMMA UsesReadText == ASSUME Types, UsesInv, ReadText PROVE UsesInv'
<1> DEFINE f == req.file
           old == ix.files[f]
           e == ix'.files[f]
<1>1. /\ Going /\ f \in Files /\ req'.stage = "stat"
      /\ \A g \in Files \ {f} : ix'.files[g] = ix.files[g]
      /\ e.text = TextOf(f)
      /\ old # None /\ old.text = TextOf(f) => e.refs = old.refs /\ e.deps = old.deps
      /\ ~(old # None /\ old.text = TextOf(f)) => e.refs = None
  BY ReadTextIs
<1>2. AllFit(ix')
  BY <1>1 DEF UsesInv, AllFit, Fits
<1> QED
  BY <1>1, <1>2, GoingIs, UsesElsewhere

LEMMA UsesRefreshed == ASSUME Types, UsesInv, Refreshed PROVE UsesInv'
<1> DEFINE k == Moved(ix, req.changed, req.structural)
<1>1. /\ Going /\ ix'.files = k.files
      /\ req'.stage = IF req.kind = "symbols" THEN "answer"
                      ELSE IF req.round = 0 THEN "ready" ELSE "pending"
  BY RefreshedIs
<1>2. AllFit(k)
  BY MovedFits DEF UsesInv, Types
<1> HIDE DEF k
<1>3. AllFit(ix')
  BY <1>1, <1>2 DEF AllFit
<1> QED
  BY <1>1, <1>3, GoingIs, UsesElsewhere

LEMMA RebuiltFits == ASSUME Types, AllFit(ix) PROVE AllFit(Rebuilt)
<1>1. Seen \in Index /\ AllFit(Seen)
  BY DEF Seen, AllFit, Types, Index, WorldTyped
<1>2. CASE InputsMoved
  <2> DEFINE k == Moved(Seen, {}, TRUE)
  <2>1. k \in Index /\ AllFit(k)
    BY <1>1, MovedIs, MovedFits
  <2> HIDE DEF k
  <2>2. Putting(k, opened, PutAll(k, opened, ext))
    BY <2>1, PutAllIsPutting DEF Types, ServerTyped, WorldTyped
  <2>3. AllFit(PutAll(k, opened, ext))
    BY <2>1, <2>2, PuttingFits
  <2> QED
    BY <1>2, <2>3 DEF Rebuilt, k
<1>3. CASE ~InputsMoved
  BY <1>1, <1>3 DEF Rebuilt
<1> QED
  BY <1>2, <1>3

LEMMA UsesReady == ASSUME Types, UsesInv, Ready PROVE UsesInv'
<1>1. AllFit(ix')
  <2>1. AllFit(Rebuilt)
    BY RebuiltFits DEF UsesInv
  <2>2. CASE Rebuilt.files[req.here] # None
    <3>1. AllFit(FirstRefs(Rebuilt))
      BY <2>1, RebuiltTyped, FirstRefsFits
    <3> QED
      BY <2>2, <3>1, OwnPut, PuttingFits
  <2>3. CASE Rebuilt.files[req.here] = None
    BY <2>1, <2>3, ReadyIs
  <2> QED
    BY <2>2, <2>3
<1>2. req'.stage \in {"pending", "idle"} /\ UNCHANGED <<disk, writes>>
  <2>1. CASE req' = Replied(req, NoPlace)
    BY <2>1, RepliedIs, ReadyIs DEF FreeToMove
  <2>2. ASSUME NEW p, req' = [req EXCEPT !.stage = "pending", !.place = p]
        PROVE  req'.stage = "pending"
    BY <2>2 DEF Types, Requests
  <2> QED
    BY <2>1, <2>2, ReadyIs DEF FreeToMove
<1> QED
  BY <1>1, <1>2, UsesElsewhere

LEMMA UsesFillFromCheck == ASSUME Types, UsesInv, NEW f \in Files, FillFromCheck(f) PROVE UsesInv'
<1>1. /\ Going /\ req'.stage = "fill" /\ checked[f] \in Uses /\ checked[f].text = TextOf(f)
      /\ ix' = Fill(ix, f, TextOf(f), checked[f])
  BY FillFromCheckIs
<1>2. AllFit(ix')
  BY <1>1, FillFits DEF UsesInv, Types
<1> QED
  BY <1>1, <1>2, GoingIs, UsesElsewhere

LEMMA UsesFillReads == ASSUME Types, UsesInv, NEW f \in Files, FillReads(f) PROVE UsesInv'
<1>1. /\ Going /\ req'.stage = "index" /\ ix' = ix /\ req'.file = f /\ req'.read = TextOf(f)
  BY FillReadsIs
<1>2. UNCHANGED <<disk, writes>>
  BY <1>1, GoingIs
<1>3. /\ TextOf(f) <= writes + 1
      /\ TextOf(f) = 0 => ~OnDisk(f)
  BY DEF TextOf, UsesInv, Dated, Types, WorldTyped, OnDisk
<1> QED
  BY <1>1, <1>2, <1>3 DEF UsesInv, Dated, Making, OnDisk, AllFit

LEMMA UsesFillChecks == ASSUME Types, UsesInv, FillChecks PROVE UsesInv'
<1>1. /\ Going /\ req.stage = "index" /\ req'.stage = "keep" /\ ix' = ix
      /\ req'.file = req.file /\ req'.read = req.read
      /\ req'.made = IF OnDisk(req.file) THEN Check(req.file, model) ELSE NoCheck
  BY FillChecksIs
<1>2. UNCHANGED <<disk, writes>>
  BY <1>1, GoingIs
<1>3. req'.made.text = TextOf(req.file)
  BY <1>1 DEF Check, NoCheck, TextOf
<1> QED
  BY <1>1, <1>2, <1>3 DEF UsesInv, Dated, Making, OnDisk, TextOf, AllFit

LEMMA UsesFillKeeps == ASSUME Types, UsesInv, FillKeeps PROVE UsesInv'
<1>1. /\ Going /\ req.stage = "keep" /\ req'.stage = "fill" /\ req.file \in Files /\ req.made \in Uses
      /\ ix' = IF TextOf(req.file) = req.read THEN Fill(ix, req.file, req.read, req.made) ELSE ix
  BY FillKeepsIs
<1>2. AllFit(ix')
  <2>1. CASE TextOf(req.file) = req.read
    <3>1. req.made.text = req.read
      BY <1>1, <2>1 DEF UsesInv, Making
    <3> QED
      BY <1>1, <2>1, <3>1, FillFits DEF UsesInv, Types
  <2>2. CASE TextOf(req.file) # req.read
    BY <1>1, <2>2 DEF UsesInv
  <2> QED
    BY <2>1, <2>2
<1> QED
  BY <1>1, <1>2, GoingIs, UsesElsewhere

LEMMA UsesAnswer == ASSUME Types, UsesInv, Answer PROVE UsesInv'
<1>1. Quietly /\ req'.stage \in {"idle", "stat"} /\ AllFit(ix')
  <2>1. CASE req' = Replied(req, Named({h \in Hits : OnDisk(h.file)})) /\ ix' = ix
    BY <2>1, RepliedIs, AnswerIs DEF UsesInv
  <2>2. CASE /\ req'.stage = "stat"
             /\ \A f \in Files : ix'.files[f] = IF OnDisk(f) THEN ix.files[f] ELSE None
    BY <2>2, AnswerIs DEF UsesInv, AllFit
  <2> QED
    BY <2>1, <2>2, AnswerIs
<1> QED
  BY <1>1, UsesElsewhere DEF Quietly, FreeToMove

LEMMA UsesStep == ASSUME NoText, Types, UsesInv, [Next]_vars PROVE UsesInv'
<1>1. CASE World
  <2>1. ASSUME NEW f \in Files, Settle(f) PROVE UsesInv'
    BY <2>1, UsesElsewhere DEF Settle, UsesInv
  <2> QED
    BY <1>1, <2>1, UsesWrite, UsesDelete, UsesWriteInputs DEF World
<1>2. CASE Client
  <2>1. ASSUME NEW f \in Files, FileEvent(f) PROVE UsesInv'
    <3>1. ix'.files = ix.files
      BY <2>1 DEF FileEvent, Event, Types, Index
    <3> QED
      BY <2>1, <3>1, UsesElsewhere DEF FileEvent, UsesInv, AllFit
  <2> QED
    BY <1>2, <2>1, UsesSave, UsesInputsEvent, UsesAsk DEF Client
<1>3. CASE Server
  <2>1. ASSUME Pending \/ Filled PROVE UsesInv'
    <3>1. Going /\ ix' = ix /\ req'.stage \in {"fill", "answer"}
      BY <2>1, PendingIs, FilledIs
    <3> QED
      BY <3>1, GoingIs, UsesElsewhere DEF UsesInv
  <2> QED
    BY <1>3, <2>1, UsesStat, UsesFillFromCheck, UsesFillReads, UsesReadText, UsesRefreshed, UsesReady,
       UsesFillChecks, UsesFillKeeps, UsesAnswer DEF Server
<1>4. CASE UNCHANGED vars
  BY <1>4, UsesElsewhere DEF vars, UsesInv
<1> QED
  BY <1>1, <1>2, <1>3, <1>4 DEF Next

\* Where no file is given a text it has had before, the uses an entry holds are of the text it
\* holds, whatever is written while they are made.
THEOREM UsesFit ==
  ASSUME NoText
  PROVE  Spec => []UsesFitTheirText
<1>1. Init => Types /\ UsesInv
  <2> SUFFICES ASSUME Init PROVE UsesInv
    BY TypesInit
  <2> QED
    BY DEF Init, UsesInv, AllFit, NoIndex, Dated, Making, Idle, Fits
<1>2. Types /\ UsesInv /\ [Next]_vars => (Types /\ UsesInv)'
  BY TypesStep, UsesStep
<1>3. UsesInv => UsesFitTheirText
  BY DEF UsesInv, AllFit, Fits, UsesFitTheirText, Held
<1> QED
  BY <1>1, <1>2, <1>3, PTL DEF Spec

-----------------------------------------------------------------------------
(* References: what keeps the uses current.  Unless something unusual may   *)
(* happen, every change is told or begins an unquiet request.               *)

AllSaid == Unusual = {}

\* The entry of a file that is gone is known to be, or to be looked at.
LostAt(f) ==
    \/ Refreshing /\ f \in req.todo
    \/ req.stage # "idle" /\ Later(f)
    \/ req.stage = "idle" /\ (~watching \/ f \in told \/ f \in ix.dirty \/ ix.relist)
Lost ==
    /\ \A f \in Held : ~OnDisk(f) => LostAt(f)
    /\ req.stage = "read" /\ ~OnDisk(req.file) => Later(req.file)

\* Once uses were made every file that is there has an entry, and keeps it.
Complete ==
    /\ \A f \in There : f \in Held \/ (Refreshing /\ f \in req.todo) \/ (req.stage = "idle" /\ ix.relist)
    /\ ix.refsBuilt => There \subseteq Held
    /\ ix.refsBuilt /\ req.stage = "read" => req.file \in Held
    /\ req.stage \in {"pending", "fill", "index", "keep"} => ix.refsBuilt
    /\ req.stage = "answer" /\ req.kind = "refs" => ix.refsBuilt
    /\ Refreshing /\ req.round = 1 /\ req.kind = "refs" => ix.refsBuilt

\* Where a request stands with the place it is about.
Asking ==
    /\ req.stage # "idle" /\ req.kind = "refs" => req.here \in opened
    /\ req.stage = "ready" => req.round = 0
    /\ req.stage \in {"stat", "read", "ready"} /\ req.round = 0 => req.place = None

\* The checks are by the loaded project, and the entries have their texts.
Texted(i, C) ==
    \A f \in Files : i.files[f] # None /\ OnDisk(f) /\ C[f] # None /\ C[f].text = disk[f]
                     => i.files[f].text = disk[f]
Checks ==
    /\ \A f \in Files : checked[f] # None => /\ checked[f].inputs = model /\ f \in opened
                                             /\ checked[f].text <= writes + 1
    /\ \A f \in Files : ix.files[f] # None => ix.files[f].text <= writes + 1
    /\ Texted(ix, checked)
    /\ model = None => opened = {} /\ \A f \in Files : ix.files[f] = None
    /\ watching => model \in {None, ext} \/ (Inputs \in told /\ opened # {})
    /\ ~watching => IF ix.inputs = None THEN model \in {None, ext} ELSE model = ix.inputs

\* A file is known to be gone that the closures may have had: no use is kept in the end.
Gone(i) == \E g \in Files : i.files[g] # None /\ ~OnDisk(g)
Gap == Gone(ix) \/ (Refreshing /\ req.structural)

\* What a check read is what is there, but for a file whose change the index has yet to see.
Reads(i, u, f) ==
    /\ DOMAIN u.read = Closure(f)
    /\ \A g \in Closure(f) : u.read[g] = disk[g] \/ ~Fresh(i, g) \/ (Refreshing /\ g \in req.changed)
Sound(i, C, f) ==
    /\ i.files[f].refs # None \/ ~i.files[f].distrust => i.files[f].deps \in {None, Closure(f)}
    /\ i.files[f].refs # None => Reads(i, i.files[f].refs, f)
    /\ i.files[f].refs = None /\ ~i.files[f].distrust /\ C[f] # None /\ C[f].text = disk[f]
         => Reads(i, C[f], f)
Kept ==
    ix.refsBuilt =>
      /\ \A f \in Files : ix.files[f] # None /\ OnDisk(f) =>
           /\ Gap \/ Sound(ix, checked, f)
           /\ ix.files[f].refs # None => ix.files[f].refs.inputs = model
      /\ req.stage = "keep" /\ OnDisk(req.file) =>
           (Gap \/ Reads(ix, req.made, req.file)) /\ req.made.inputs = model
Changed ==
    Refreshing => \A f \in req.changed :
      /\ ix.files[f] # None => ix.files[f].refs = None
      /\ OnDisk(f) /\ checked[f] # None => checked[f].text # disk[f]

\* A quiet request comes to have the uses of every file.
Asked == req.kind = "refs" /\ req.quiet
Filling ==
    /\ req.stage \in {"fill", "index", "keep"} =>
         \A f \in req.todo : ix.files[f] # None /\ ix.files[f].refs = None
    /\ Asked /\ (req.stage \in {"pending", "fill", "index", "keep", "answer"} \/ (Refreshing /\ req.round = 1))
         => model = ext
    /\ Asked /\ req.stage \in {"fill", "index", "keep"} =>
         \A f \in Files : ix.files[f] # None => ix.files[f].refs # None \/ f \in req.todo
    /\ Asked /\ req.stage = "answer" => \A f \in Files : ix.files[f] # None => ix.files[f].refs # None
    /\ Asked /\ req.stage \in {"index", "keep"} => TextOf(req.file) = req.read

ReferencesInv == Lost /\ Complete /\ Asking /\ Checks /\ Kept /\ Changed /\ Filling /\ ReferencesAreCurrent

LEMMA ClosureIs == ASSUME NEW f PROVE Closure(f) \subseteq There /\ f \notin Closure(f)
BY DEF Closure, ClosureIn

\* A check of f as it is reads what is there.
LEMMA CheckReads == ASSUME NEW i, NEW f, NEW m PROVE Reads(i, Check(f, m), f)
BY DEF Reads, Check

\* The checks after those of the files S.
Rechecked(C, S, m, D) ==
    \A f \in Files : D[f] = IF f \notin S THEN C[f] ELSE IF OnDisk(f) THEN Check(f, m) ELSE None

LEMMA ChecksOfIs == ASSUME NEW S, NEW m PROVE Rechecked(checked, S, m, ChecksOf(S, m))
BY DEF Rechecked, ChecksOf

LEMMA PuttingReads ==
  ASSUME WorldTyped, ~Refreshing, NEW i \in Index, NEW S \in SUBSET Files, NEW j, Putting(i, S, j),
         NEW f \in Files, i.files[f] # None, NEW u, Reads(i, u, f), i.files[f].deps \in {None, Closure(f)},
         j.files[f].refs # None \/ (~j.files[f].distrust /\ f \notin S)
  PROVE  Reads(j, u, f)
<1> SUFFICES ASSUME NEW g \in Closure(f), Fresh(j, g) PROVE u.read[g] = disk[g]
  BY DEF Reads
<1>1. g \in Files /\ g # f
  BY ClosureIs DEF There
<1>2. i.files[g] # None
  BY <1>1 DEF Fresh, Putting
<1>3. PutPair(i, S, j, f, g)
  BY <1>1, <1>2 DEF Putting
<1>4. j.files[g].text = i.files[g].text
  BY <1>3 DEF PutPair
<1> QED
  BY <1>2, <1>4 DEF Reads, Fresh

LEMMA PuttingSound ==
  ASSUME WorldTyped, ~Refreshing, NEW i \in Index, NEW S \in SUBSET Files, NEW j, Putting(i, S, j),
         NEW m, NEW C, NEW D, Rechecked(C, S, m, D),
         NEW f \in Files, i.files[f] # None, OnDisk(f), Sound(i, C, f)
  PROVE  Sound(j, D, f)
<1>1. PutUses(i, S, j, f)
  BY DEF Putting
<1>2. j.files[f].refs # None \/ ~j.files[f].distrust => j.files[f].deps \in {None, Closure(f)}
  BY <1>1 DEF PutUses, Sound
<1>3. ASSUME j.files[f].refs # None PROVE Reads(j, j.files[f].refs, f)
  <2>1. j.files[f].refs = i.files[f].refs
    BY <1>1, <1>3 DEF PutUses
  <2>2. Reads(i, j.files[f].refs, f) /\ i.files[f].deps \in {None, Closure(f)}
    BY <1>3, <2>1 DEF Sound
  <2> QED
    BY <1>3, <2>2, PuttingReads
<1>4. ASSUME j.files[f].refs = None, ~j.files[f].distrust, D[f] # None, D[f].text = disk[f]
      PROVE  Reads(j, D[f], f)
  <2>1. CASE f \in S
    <3>1. D[f] = Check(f, m)
      BY <2>1 DEF Rechecked
    <3> QED
      BY <3>1, CheckReads
  <2>2. CASE f \notin S
    <3>1. D[f] = C[f]
      BY <2>2 DEF Rechecked
    <3>2. ~i.files[f].distrust /\ i.files[f].refs = None
      BY <1>1, <1>4, <2>2 DEF PutUses
    <3>3. Reads(i, D[f], f) /\ i.files[f].deps \in {None, Closure(f)}
      BY <1>4, <3>1, <3>2 DEF Sound
    <3> QED
      BY <1>4, <2>2, <3>3, PuttingReads
  <2> QED
    BY <2>1, <2>2
<1> QED
  BY <1>2, <1>3, <1>4 DEF Sound

LEMMA PuttingGone == ASSUME NEW i, NEW S, NEW j, Putting(i, S, j) PROVE Gone(j) <=> Gone(i)
BY DEF Putting, Gone

LEMMA PuttingTexted ==
  ASSUME WorldTyped, NEW i \in Index, NEW S \in SUBSET Files, NEW m \in Nat \cup {None},
         NEW C, NEW D, Rechecked(C, S, m, D), Texted(i, C)
  PROVE  Texted(PutAll(i, S, m), D)
<1> DEFINE j == PutAll(i, S, m)
<1>1. Putting(i, S, j) /\ \A f \in S : OnDisk(f) /\ j.files[f] # None => j.files[f].text = disk[f]
  BY PutAllPuts
<1> HIDE DEF j
<1>2. ASSUME NEW f \in Files, j.files[f] # None, OnDisk(f), D[f] # None, D[f].text = disk[f]
      PROVE  j.files[f].text = disk[f]
  <2>1. CASE f \in S
    BY <1>1, <1>2, <2>1
  <2>2. CASE f \notin S
    <3>1. i.files[f] # None /\ PutSymbols(i, S, j, f) /\ D[f] = C[f]
      BY <1>1, <1>2, <2>2 DEF Putting, Rechecked
    <3> QED
      BY <1>2, <2>2, <3>1 DEF PutSymbols, Texted
  <2> QED
    BY <2>1, <2>2
<1>3. Texted(j, D)
  BY <1>2 DEF Texted
<1> QED
  BY <1>3 DEF j

\* Where every entry's uses were taken, all is sound whatever was checked.
AllTaken(i) == \A f \in Files : i.files[f] # None => i.files[f].refs = None /\ i.files[f].distrust
LEMMA TakenSound ==
  ASSUME NEW i, AllTaken(i), NEW C, NEW f \in Files, i.files[f] # None PROVE Sound(i, C, f)
BY DEF AllTaken, Sound

LEMMA MovedTaken ==
  ASSUME NEW i \in Index
  PROVE  LET k == Moved(i, {}, TRUE)
         IN  k \in Index /\ AllTaken(k) /\ SameBut(i, k) /\ k.dirty = i.dirty
             /\ \A f \in Files : /\ k.files[f] = None <=> i.files[f] = None
                                 /\ i.files[f] # None => k.files[f].text = i.files[f].text
<1> DEFINE st == TRUE
           k == Moved(i, {}, st)
<1> HIDE DEF st
<1>1. /\ k \in Index /\ k.dirty = i.dirty /\ SameBut(i, k)
      /\ \A f \in Files : k.files[f] = IF i.files[f] # None /\ Hit(i, {}, st, f)
                                       THEN Taken(i.files[f]) ELSE i.files[f]
  BY MovedIs
<1> HIDE DEF k
<1>2. ASSUME NEW f \in Files, i.files[f] # None
      PROVE  /\ k.files[f] # None /\ k.files[f].refs = None /\ k.files[f].distrust
             /\ k.files[f].text = i.files[f].text
  <2> DEFINE e == i.files[f]
  <2>1. e \in Entries
    BY <1>2 DEF Index
  <2>2. k.files[f] = Taken(e)
    BY <1>1, <1>2 DEF Hit, st
  <2> HIDE DEF e
  <2>3. Taken(e) \in Entries /\ Taken(e).refs = None /\ Taken(e).distrust /\ Taken(e).text = e.text
    BY <2>1, TakenIs
  <2> QED
    BY <2>2, <2>3, NotNone DEF e
<1>3. \A f \in Files : i.files[f] = None => k.files[f] = None
  BY <1>1
<1>4. AllTaken(k)
  BY <1>2, <1>3 DEF AllTaken
<1> QED
  BY <1>1, <1>2, <1>3, <1>4 DEF k, st

Sure == Types /\ SymbolsInv /\ UsesInv /\ ReferencesInv

LEMMA ClosureStays == ASSUME There' = There, NEW f PROVE Closure(f)' = Closure(f)
BY DEF Closure

LEMMA NothingMoves ==
  ASSUME ReferencesInv, UNCHANGED <<disk, ext, writes, watching, told, model, checked, opened, ix, req>>
  PROVE  ReferencesInv'
<1>1. There' = There
  BY DEF There, OnDisk
<1>2. \A f : Closure(f)' = Closure(f)
  BY <1>1, ClosureStays
<1>3. Lost' /\ Complete' /\ Asking' /\ Filling' /\ Changed'
  BY <1>1 DEF ReferencesInv, Lost, LostAt, Complete, Asking, Filling, Changed, Held, OnDisk, Refreshing, Later,
              Asked, TextOf
<1>4. Checks'
  BY DEF ReferencesInv, Checks, Texted, OnDisk
<1>5. Kept'
  BY <1>2 DEF ReferencesInv, Kept, Sound, Reads, Gap, Gone, Fresh, OnDisk, Refreshing
<1>6. ReferencesAreCurrent'
  BY <1>1, <1>2 DEF ReferencesInv, ReferencesAreCurrent, Answered, Resolved, Resolvable, Expected, OnDisk
<1> QED
  BY <1>3, <1>4, <1>5, <1>6 DEF ReferencesInv

\* What the steps of the world have in common: files are written anew or go, and it is told.
Worldly ==
    /\ Unquiet /\ UNCHANGED <<watching, model, checked, opened, ix>>
    /\ told \subseteq told' /\ writes' \in Nat /\ writes' >= writes
    /\ \A g \in Files : OnDisk(g)' => OnDisk(g)
    /\ \A g \in Files : OnDisk(g) /\ ~OnDisk(g)' => (watching => g \in told')
    /\ \A g \in Files : OnDisk(g)' /\ disk'[g] # disk[g] =>
                        disk'[g] \in Nat /\ disk'[g] >= writes + 2
    /\ ext' = ext \/ IF watching THEN model = None \/ (Inputs \in told' /\ opened # {})
                     ELSE ix.inputs # None

LEMMA WorldRequest ==
  ASSUME Types, Unquiet
  PROVE  /\ req'.quiet = FALSE /\ req'.stage = req.stage /\ req'.kind = req.kind
         /\ req'.todo = req.todo /\ req'.file = req.file /\ req'.read = req.read
         /\ req'.changed = req.changed /\ req'.structural = req.structural /\ req'.round = req.round
         /\ req'.place = req.place /\ req'.here = req.here /\ req'.made = req.made
BY DEF Types, Unquiet, Requests

LEMMA WorldLost == ASSUME Sure, Worldly PROVE Lost'
<1>1. /\ req'.stage = req.stage /\ req'.todo = req.todo /\ req'.quiet = FALSE /\ req'.file = req.file
      /\ UNCHANGED <<ix, watching>> /\ told \subseteq told'
  BY WorldRequest DEF Worldly, Sure
<1>2. Held' = Held
  BY <1>1 DEF Held
<1>3. ASSUME NEW f \in Held, ~OnDisk(f)' PROVE LostAt(f)'
  <2>1. CASE OnDisk(f)
    <3>1. watching => f \in told'
      BY <1>3, <2>1 DEF Worldly, Held
    <3> QED
      BY <1>1, <3>1 DEF LostAt, Later
  <2>2. CASE ~OnDisk(f)
    <3>1. LostAt(f)
      BY <2>2, <1>3 DEF Sure, ReferencesInv, Lost
    <3> QED
      BY <1>1, <3>1 DEF LostAt, Later, Refreshing
  <2> QED
    BY <2>1, <2>2
<1>4. ASSUME req.stage = "read", ~OnDisk(req.file)' PROVE Later(req.file)'
  <2>1. req.file \in Files
    BY <1>4 DEF Sure, Types, HandTyped, Requests
  <2>2. CASE OnDisk(req.file)
    <3>1. watching => req.file \in told'
      BY <1>1, <1>4, <2>1, <2>2 DEF Worldly, OnDisk
    <3> QED
      BY <1>1, <3>1 DEF Later
  <2>3. CASE ~OnDisk(req.file)
    <3>1. Later(req.file)
      BY <1>4, <2>3 DEF Sure, ReferencesInv, Lost
    <3> QED
      BY <1>1, <3>1 DEF Later
  <2> QED
    BY <2>2, <2>3
<1> QED
  BY <1>1, <1>2, <1>3, <1>4 DEF Lost

LEMMA WorldTexts ==
  ASSUME Sure, Worldly, NEW f \in Files, OnDisk(f)'
  PROVE  /\ OnDisk(f)
         /\ checked[f] # None /\ checked[f].text = disk'[f] => disk'[f] = disk[f]
         /\ ix.files[f] # None /\ ix.files[f].text = disk'[f] => disk'[f] = disk[f]
<1>1. /\ checked[f] # None => checked[f].text \in Nat /\ checked[f].text <= writes + 1
      /\ ix.files[f] # None => ix.files[f].text \in Nat /\ ix.files[f].text <= writes + 1
  BY DEF Sure, ReferencesInv, Checks, Types, ServerTyped, Index, Uses, Entries
<1>2. writes \in Nat /\ OnDisk(f)
  BY DEF Worldly, Sure, Types, WorldTyped
<1>3. disk'[f] # disk[f] => disk'[f] \in Nat /\ disk'[f] >= writes + 2
  BY DEF Worldly
<1> QED
  BY <1>1, <1>2, <1>3

LEMMA WorldChecks == ASSUME Sure, Worldly PROVE Checks' /\ Changed'
<1>1. /\ UNCHANGED <<watching, model, checked, opened, ix>> /\ told \subseteq told' /\ writes' >= writes
      /\ writes \in Nat /\ writes' \in Nat
  BY DEF Worldly, Sure, Types, WorldTyped
<1>2. \A f \in Files : /\ checked[f] # None => checked[f].text \in Nat /\ checked[f].text <= writes + 1
                       /\ ix.files[f] # None => ix.files[f].text \in Nat /\ ix.files[f].text <= writes + 1
  BY DEF Sure, ReferencesInv, Checks, Types, ServerTyped, Index, Uses, Entries
<1>3. \A f \in Files : /\ checked[f] # None => checked[f].text <= writes' + 1
                       /\ ix.files[f] # None => ix.files[f].text <= writes' + 1
  BY <1>1, <1>2
<1>4. Texted(ix, checked)'
  BY <1>1, WorldTexts DEF Sure, ReferencesInv, Checks, Texted
<1>5. \A f \in Files : checked[f] # None => checked[f].inputs = model /\ f \in opened
  BY DEF Sure, ReferencesInv, Checks
<1>6. model = None => opened = {} /\ \A f \in Files : ix.files[f] = None
  BY DEF Sure, ReferencesInv, Checks
<1>7. watching => model \in {None, ext'} \/ (Inputs \in told' /\ opened # {})
  BY <1>1 DEF Worldly, Sure, ReferencesInv, Checks
<1>8. ~watching => IF ix.inputs = None THEN model \in {None, ext'} ELSE model = ix.inputs
  BY <1>1 DEF Worldly, Sure, ReferencesInv, Checks
<1>9. Checks'
  BY <1>1, <1>3, <1>4, <1>5, <1>6, <1>7, <1>8 DEF Checks
<1>10. Changed'
  <2>1. Unquiet /\ req'.stage = req.stage /\ req'.changed = req.changed
    BY WorldRequest DEF Worldly, Sure
  <2>2. req.changed \subseteq Files
    BY DEF Sure, Types, Requests
  <2>3. ASSUME Refreshing, NEW f \in req.changed, OnDisk(f)', checked[f] # None PROVE checked[f].text # disk'[f]
    BY <2>2, <2>3, WorldTexts DEF Sure, ReferencesInv, Changed
  <2> QED
    BY <1>1, <2>1, <2>3 DEF Sure, ReferencesInv, Changed, Refreshing
<1> QED
  BY <1>9, <1>10

LEMMA WorldReads ==
  ASSUME Sure, Worldly, There' = There, NEW u, NEW f, Reads(ix, u, f)
  PROVE  Reads(ix, u, f)'
<1>1. req'.stage = req.stage /\ req'.changed = req.changed /\ ix' = ix
  BY WorldRequest DEF Worldly, Sure
<1>2. Closure(f)' = Closure(f)
  BY ClosureStays
<1>3. ASSUME NEW g \in Closure(f), Fresh(ix, g)' PROVE Fresh(ix, g) /\ disk'[g] = disk[g]
  <2>1. g \in Files /\ OnDisk(g)'
    <3>1. g \in There'
      BY ClosureIs
    <3> QED
      BY <3>1 DEF There
  <2>2. disk'[g] = disk[g]
    BY <1>1, <1>3, <2>1, WorldTexts DEF Fresh
  <2> QED
    BY <1>1, <1>3, <2>2 DEF Fresh
<1> QED
  BY <1>1, <1>2, <1>3 DEF Reads, Refreshing

LEMMA WorldKept == ASSUME Sure, Worldly PROVE Kept'
<1>1. /\ req'.stage = req.stage /\ req'.structural = req.structural /\ req'.file = req.file /\ req'.made = req.made
      /\ UNCHANGED <<ix, model, checked>>
  BY WorldRequest DEF Worldly, Sure
<1> SUFFICES ASSUME ix.refsBuilt PROVE Kept'
  BY <1>1 DEF Kept
<1>2. There \subseteq Held
  BY DEF Sure, ReferencesInv, Complete
<1>3. Gap => Gap'
  BY <1>1 DEF Gap, Gone, Refreshing, Worldly
<1>4. Gap' \/ There' = There
  <2>1. CASE \E g \in Files : OnDisk(g) /\ ~OnDisk(g)'
    BY <1>1, <1>2, <2>1 DEF Gap, Gone, There, Held
  <2>2. CASE \A g \in Files : OnDisk(g) => OnDisk(g)'
    BY <2>2 DEF There, Worldly
  <2> QED
    BY <2>1, <2>2
<1>5. ASSUME NEW f \in Files, ix.files[f] # None, OnDisk(f)'
      PROVE  /\ Gap' \/ Sound(ix, checked, f)'
             /\ ix.files[f].refs # None => ix.files[f].refs.inputs = model
  <2>1. OnDisk(f) /\ (checked[f] # None /\ checked[f].text = disk'[f] => disk'[f] = disk[f])
    BY <1>5, WorldTexts
  <2>2. /\ Gap \/ Sound(ix, checked, f)
        /\ ix.files[f].refs # None => ix.files[f].refs.inputs = model
    BY <1>5, <2>1 DEF Sure, ReferencesInv, Kept
  <2>3. ASSUME ~Gap' PROVE Sound(ix, checked, f)'
    <3>1. There' = There /\ Sound(ix, checked, f)
      BY <1>3, <1>4, <2>2, <2>3
    <3>2. Closure(f)' = Closure(f)
      BY <3>1, ClosureStays
    <3>3. \A u : Reads(ix, u, f) => Reads(ix, u, f)'
      BY <3>1, WorldReads
    <3> QED
      BY <1>1, <2>1, <3>1, <3>2, <3>3 DEF Sound
  <2> QED
    BY <2>2, <2>3
<1>6. ASSUME req.stage = "keep", OnDisk(req.file)'
      PROVE  (Gap' \/ Reads(ix, req.made, req.file)') /\ req.made.inputs = model
  <2>1. req.file \in Files
    BY <1>6 DEF Sure, Types, HandTyped, Requests
  <2>2. OnDisk(req.file)
    <3>1. req'.file = req.file
      BY <1>1
    <3> QED
      BY <1>6, <2>1, <3>1 DEF Worldly, OnDisk
  <2>3. (Gap \/ Reads(ix, req.made, req.file)) /\ req.made.inputs = model
    BY <1>6, <2>2 DEF Sure, ReferencesInv, Kept
  <2>4. ASSUME ~Gap' PROVE Reads(ix, req.made, req.file)'
    <3>1. There' = There /\ Reads(ix, req.made, req.file)
      BY <1>3, <1>4, <2>3, <2>4
    <3> DEFINE u == req.made
               f == req.file
    <3>2. Reads(ix, u, f)
      BY <3>1
    <3>3. u' = u /\ f' = f
      BY <1>1
    <3> HIDE DEF u, f
    <3>4. Reads(ix, u, f)'
      BY <3>1, <3>2, <3>3, WorldReads
    <3> QED
      BY <3>4 DEF u, f
  <2> QED
    BY <2>3, <2>4
<1> QED
  BY <1>1, <1>5, <1>6 DEF Kept

LEMMA WorldReferences == ASSUME Sure, Worldly PROVE ReferencesInv'
<1>1. /\ req'.quiet = FALSE /\ req'.stage = req.stage /\ req'.kind = req.kind
      /\ req'.todo = req.todo /\ req'.file = req.file /\ req'.round = req.round
      /\ req'.place = req.place /\ req'.here = req.here
      /\ UNCHANGED <<ix, opened>>
  BY WorldRequest DEF Worldly, Sure
<1>2. There' \subseteq There /\ Held' = Held
  BY <1>1 DEF There, Held, Worldly
<1>3. Complete' /\ Asking'
  BY <1>1, <1>2 DEF Sure, ReferencesInv, Complete, Asking, Refreshing
<1>4. Filling' /\ ReferencesAreCurrent'
  BY <1>1 DEF Sure, ReferencesInv, Filling, ReferencesAreCurrent, Answered, Asked
<1> QED
  BY <1>3, <1>4, WorldLost, WorldChecks, WorldKept DEF ReferencesInv

LEMMA WorldIsWorldly == ASSUME AllSaid, Sure, World PROVE Worldly \/ \E f \in Files : Settle(f)
<1>1. writes \in Nat /\ ext \in Nat /\ told \subseteq Files \cup {Inputs}
  BY DEF Sure, Types, WorldTyped, ServerTyped
<1>2. ASSUME NEW f \in Files, NEW t \in Texts, NEW same \in BOOLEAN, Write(f, t, same) PROVE Worldly
  <2>1. /\ Unquiet /\ UNCHANGED <<watching, model, checked, opened, ix, ext>> /\ t = writes + 2 /\ OnDisk(f)
        /\ writes' = writes + 1 /\ disk' = [disk EXCEPT ![f] = t] /\ told \subseteq told'
    BY <1>2 DEF Write, AllSaid, Tell
  <2>2. \A g \in Files : disk'[g] = IF g = f THEN writes + 2 ELSE disk[g]
    BY <2>1 DEF Sure, Types, WorldTyped
  <2>3. \A g \in Files : OnDisk(g) /\ ~OnDisk(g)' => (watching => g \in told')
    BY <1>1, <2>1, <2>2, NotNone DEF OnDisk
  <2>4. \A g \in Files : OnDisk(g)' => OnDisk(g)
    BY <2>1, <2>2 DEF OnDisk
  <2>5. \A g \in Files : OnDisk(g)' /\ disk'[g] # disk[g] => disk'[g] \in Nat /\ disk'[g] >= writes + 2
    BY <1>1, <2>2
  <2> QED
    BY <1>1, <2>1, <2>3, <2>4, <2>5 DEF Worldly
<1>3. ASSUME NEW f \in Files, NEW named \in BOOLEAN, Delete(f, named) PROVE Worldly
  <2>1. /\ Unquiet /\ UNCHANGED <<watching, model, checked, opened, ix, ext>> /\ Tell(f)
        /\ writes' = writes + 1 /\ disk' = [disk EXCEPT ![f] = None]
    BY <1>3 DEF Delete, AllSaid
  <2>2. \A g \in Files : disk'[g] = IF g = f THEN None ELSE disk[g]
    BY <2>1 DEF Sure, Types, WorldTyped
  <2>3. \A g \in Files : OnDisk(g) /\ ~OnDisk(g)' => (watching => g \in told')
    BY <2>1, <2>2 DEF OnDisk, Tell
  <2>4. \A g \in Files : OnDisk(g)' => disk'[g] = disk[g] /\ OnDisk(g)
    BY <2>1, <2>2 DEF OnDisk
  <2>5. told \subseteq told'
    BY <2>1 DEF Tell
  <2> QED
    BY <1>1, <2>1, <2>3, <2>4, <2>5 DEF Worldly
<1>4. ASSUME WriteInputs PROVE Worldly
  <2>1. /\ Unquiet /\ UNCHANGED <<disk, watching, model, checked, opened, ix>>
        /\ writes' = writes + 1 /\ Tell(Inputs)
        /\ IF watching THEN opened # {} \/ model = None ELSE ix.inputs # None
    BY <1>4 DEF WriteInputs, AllSaid
  <2>2. told \subseteq told' /\ (watching => Inputs \in told')
    BY <2>1 DEF Tell
  <2> QED
    BY <1>1, <2>1, <2>2 DEF Worldly, OnDisk
<1> QED
  BY <1>2, <1>3, <1>4 DEF World

LEMMA IdleReply ==
  ASSUME UNCHANGED <<disk, ext, req>>, ReferencesAreCurrent PROVE ReferencesAreCurrent'
<1>1. There' = There
  BY DEF There, OnDisk
<1>2. \A f : Closure(f)' = Closure(f)
  BY <1>1, ClosureStays
<1> QED
  BY <1>1, <1>2 DEF ReferencesAreCurrent, Answered, Resolved, Resolvable, Expected, OnDisk

LEMMA SoundStays ==
  ASSUME UNCHANGED disk, ~Refreshing, ~Refreshing', NEW f
  PROVE  Sound(ix, checked, f)' <=> Sound(ix', checked', f)
<1>1. There' = There
  BY DEF There, OnDisk
<1>2. Closure(f)' = Closure(f)
  BY <1>1, ClosureStays
<1>3. \A u : Reads(ix, u, f)' <=> Reads(ix', u, f)
  BY <1>2 DEF Reads, Fresh
<1> QED
  BY <1>2 DEF Sound, Reads, Fresh

\* Every check there is, is by the project of the inputs m, of an open file, of a text there was.
CheckedBy(C, O, m) ==
    \A f \in Files : C[f] # None => C[f].inputs = m /\ f \in O /\ C[f].text <= writes + 1

LEMMA RecheckedBy ==
  ASSUME Sure, NEW S \in SUBSET Files, NEW m, NEW C, NEW D, NEW O, Rechecked(C, S, m, D), S \subseteq O,
         \A f \in Files \ S : C[f] # None => C[f].inputs = m /\ f \in O /\ C[f].text <= writes + 1
  PROVE  CheckedBy(D, O, m)
<1> SUFFICES ASSUME NEW f \in Files, D[f] # None
             PROVE  D[f].inputs = m /\ f \in O /\ D[f].text <= writes + 1
  BY DEF CheckedBy
<1>1. CASE f \in S
  <2>1. OnDisk(f) /\ D[f] = Check(f, m)
    BY <1>1 DEF Rechecked
  <2>2. disk[f] <= writes + 1
    BY <2>1 DEF Sure, UsesInv, Dated
  <2> QED
    BY <1>1, <2>1, <2>2 DEF Check
<1>2. CASE f \notin S
  BY <1>2 DEF Rechecked
<1> QED
  BY <1>1, <1>2

TextsDated(i) == \A f \in Files : i.files[f] # None => i.files[f].text <= writes + 1

LEMMA PuttingDated ==
  ASSUME Sure, NEW i, NEW S, NEW j, Putting(i, S, j), TextsDated(i) PROVE TextsDated(j)
<1> SUFFICES ASSUME NEW f \in Files, j.files[f] # None PROVE j.files[f].text <= writes + 1
  BY DEF TextsDated
<1>1. i.files[f] # None /\ PutSymbols(i, S, j, f)
  BY DEF Putting
<1>2. OnDisk(f) => disk[f] <= writes + 1
  BY DEF Sure, UsesInv, Dated
<1> QED
  BY <1>1, <1>2 DEF PutSymbols, TextsDated

\* What holds of entries through a put of checks by the project of the inputs m.
Settled(i, C, m) ==
    i.refsBuilt => \A f \in Files : i.files[f] # None /\ OnDisk(f) =>
        /\ Gone(i) \/ Sound(i, C, f)
        /\ i.files[f].refs # None => i.files[f].refs.inputs = m

LEMMA PuttingSettled ==
  ASSUME WorldTyped, ~Refreshing, NEW i \in Index, NEW S \in SUBSET Files, NEW j, Putting(i, S, j),
         NEW m, NEW C, NEW D, Rechecked(C, S, m, D), Settled(i, C, m)
  PROVE  Settled(j, D, m)
<1> SUFFICES ASSUME j.refsBuilt, NEW f \in Files, j.files[f] # None, OnDisk(f)
             PROVE  /\ Gone(j) \/ Sound(j, D, f)
                    /\ j.files[f].refs # None => j.files[f].refs.inputs = m
  BY DEF Settled
<1>1. /\ i.files[f] # None /\ i.refsBuilt /\ PutUses(i, S, j, f)
  BY DEF Putting, SameBut
<1>2. Gone(i) \/ Sound(i, C, f)
  BY <1>1 DEF Settled
<1>3. Gone(j) \/ Sound(j, D, f)
  BY <1>1, <1>2, PuttingGone, PuttingSound
<1>4. j.files[f].refs # None => j.files[f].refs.inputs = m
  BY <1>1 DEF PutUses, Settled
<1> QED
  BY <1>3, <1>4

LEMMA TakenSettled == ASSUME NEW i, AllTaken(i), NEW C, NEW m PROVE Settled(i, C, m)
BY TakenSound DEF Settled, AllTaken

LEMMA SettledKept ==
  ASSUME UNCHANGED disk, ~Refreshing, ~Refreshing', req'.stage # "keep", Settled(ix', checked', model')
  PROVE  Kept'
<1>1. Gap' <=> Gone(ix')
  BY DEF Gap, Gone, OnDisk
<1>2. \A f \in Files : Sound(ix, checked, f)' <=> Sound(ix', checked', f)
  BY SoundStays
<1> QED
  BY <1>1, <1>2 DEF Kept, Settled, OnDisk, Gone

LEMMA KeptSettled == ASSUME ReferencesInv, ~Refreshing PROVE Settled(ix, checked, model)
BY DEF ReferencesInv, Kept, Settled, Gap

\* An idle server stays so, and what is known of the files is not forgotten.
LEMMA IdleStays ==
  ASSUME Sure, req.stage = "idle", UNCHANGED <<disk, watching, req>>, opened \subseteq opened',
         ix'.refsBuilt = ix.refsBuilt, ix.relist => ix'.relist,
         \A f \in Files : ix'.files[f] = None <=> ix.files[f] = None,
         \A f \in Held : ~OnDisk(f) => (f \in ix.dirty => f \in ix'.dirty),
         \A f \in Held : f \in told => f \in told' \/ f \in ix'.dirty
  PROVE  Lost' /\ Complete' /\ Asking' /\ Filling' /\ Changed'
<1>1. Held' = Held /\ There' = There
  BY DEF Held, There, OnDisk
<1>2. Lost'
  BY <1>1 DEF Sure, ReferencesInv, Lost, LostAt, OnDisk, Refreshing, Held
<1>3. Complete'
  BY <1>1 DEF Sure, ReferencesInv, Complete, Refreshing
<1>4. Asking' /\ Filling' /\ Changed'
  BY DEF Asking, Filling, Changed, Refreshing
<1> QED
  BY <1>2, <1>3, <1>4

LEMMA ReferencesSave == ASSUME Sure, NEW f \in Files, Save(f) PROVE ReferencesInv'
<1> DEFINE S == {f} \cup {g \in opened : checked[g] # None /\ f \in DOMAIN checked[g].read}
           m == LoadedModel
<1>1. S \in SUBSET Files /\ m \in Nat /\ S \subseteq opened'
  BY LoadedTyped DEF Sure, Types, ServerTyped, Save
<1>2. /\ checked' = ChecksOf(S, m) /\ ix' = PutAll(ix, S, m) /\ model' = m /\ req.stage = "idle"
      /\ opened \subseteq opened' /\ UNCHANGED <<disk, stamp, calm, ext, writes, watching, told, req>>
  BY DEF Save
<1> HIDE DEF S, m
<1>3. Putting(ix, S, ix') /\ Rechecked(checked, S, m, checked')
  BY <1>1, <1>2, PutAllIsPutting, ChecksOfIs DEF Sure, Types
<1>4. model # None => m = model
  BY DEF m, LoadedModel
<1>5. model = None => m = ext /\ opened = {} /\ \A g \in Files : ix.files[g] = None
  BY DEF m, LoadedModel, Sure, ReferencesInv, Checks
<1>6. ~Refreshing /\ ~Refreshing'
  BY <1>2 DEF Refreshing
<1>7. Settled(ix, checked, m)
  <2>1. CASE model # None
    BY <1>4, <1>6, <2>1, KeptSettled DEF Sure
  <2>2. CASE model = None
    BY <1>5, <2>2 DEF Settled
  <2> QED
    BY <2>1, <2>2
<1>8. Kept'
  <2>1. Settled(ix', checked', m)
    BY <1>1, <1>3, <1>6, <1>7, PuttingSettled DEF Sure, Types
  <2> QED
    BY <1>2, <1>6, <2>1, SettledKept
<1>9. Checks'
  <2>1. CheckedBy(checked', opened', m)
    <3>1. \A g \in Files \ S : checked[g] # None =>
             checked[g].inputs = m /\ g \in opened' /\ checked[g].text <= writes + 1
      BY <1>2, <1>4, <1>5 DEF Sure, ReferencesInv, Checks
    <3> QED
      BY <1>1, <1>3, <3>1, RecheckedBy
  <2>2. TextsDated(ix')
    BY <1>3, PuttingDated DEF Sure, ReferencesInv, Checks, TextsDated
  <2>3. Texted(ix', checked')
    BY <1>1, <1>2, <1>3, PuttingTexted DEF Sure, Types, ReferencesInv, Checks
  <2>4. ix'.inputs = ix.inputs
    BY <1>3 DEF Putting, SameBut
  <2>5. watching => m \in {None, ext} \/ (Inputs \in told /\ opened' # {})
    BY <1>2, <1>4, <1>5 DEF Sure, ReferencesInv, Checks
  <2>6. ~watching => IF ix.inputs = None THEN m \in {None, ext} ELSE m = ix.inputs
    <3>1. ext \in Nat /\ ix.inputs \in Nat \cup {None}
      BY DEF Sure, Types, WorldTyped, Index
    <3> QED
      BY <1>4, <1>5, <3>1, NotNone DEF Sure, ReferencesInv, Checks
  <2>7. m # None
    BY <1>1, NotNone
  <2> QED
    BY <1>2, <2>1, <2>2, <2>3, <2>4, <2>5, <2>6, <2>7 DEF Checks, CheckedBy, TextsDated, Texted, OnDisk
<1>10. Lost' /\ Complete' /\ Asking' /\ Filling' /\ Changed'
  <2>1. \A g \in Held : ~OnDisk(g) => (g \in ix.dirty => g \in ix'.dirty)
    BY <1>3 DEF Putting, PutSymbols, Held
  <2> QED
    BY <1>2, <1>3, <2>1, IdleStays DEF Putting, SameBut
<1>11. ReferencesAreCurrent'
  BY <1>2, IdleReply DEF Sure, ReferencesInv
<1> QED
  BY <1>8, <1>9, <1>10, <1>11 DEF ReferencesInv

LEMMA ReferencesFileEvent == ASSUME Sure, NEW f \in Files, FileEvent(f) PROVE ReferencesInv'
<1>1. /\ UNCHANGED <<disk, stamp, calm, ext, writes, watching, model, checked, opened, req>>
      /\ told' = told \ {f} /\ req.stage = "idle" /\ ix'.files = ix.files /\ ix'.refsBuilt = ix.refsBuilt
      /\ ix'.inputs = ix.inputs
      /\ f \in Held => ix'.dirty = ix.dirty \cup {f} /\ ix'.relist = ix.relist
      /\ f \notin Held => ix'.dirty = ix.dirty /\ ix'.relist = TRUE
  BY DEF FileEvent, Event, Sure, Types, Index, Held
<1>2. ~Refreshing /\ ~Refreshing'
  BY <1>1 DEF Refreshing
<1>3. Kept'
  <2>1. Settled(ix, checked, model)
    BY <1>2, KeptSettled DEF Sure
  <2>2. Settled(ix', checked', model')
    BY <1>1, <2>1 DEF Settled, Sound, Reads, Fresh, Gone
  <2> QED
    BY <1>1, <1>2, <2>2, SettledKept
<1>4. Checks'
  <2>1. f # Inputs
    BY FilesAssumption DEF Inputs
  <2> QED
    BY <1>1, <2>1 DEF Sure, ReferencesInv, Checks, Texted, OnDisk
<1>5. Lost' /\ Complete' /\ Asking' /\ Filling' /\ Changed'
  BY <1>1, IdleStays
<1>6. ReferencesAreCurrent'
  BY <1>1, IdleReply DEF Sure, ReferencesInv
<1> QED
  BY <1>3, <1>4, <1>5, <1>6 DEF ReferencesInv

LEMMA ReferencesInputsEvent == ASSUME Sure, InputsEvent PROVE ReferencesInv'
<1>1. /\ UNCHANGED <<disk, stamp, calm, ext, writes, watching, opened, req>>
      /\ told' = told \ {Inputs} /\ Inputs \in told /\ req.stage = "idle"
  BY DEF InputsEvent
<1>2. ~Refreshing /\ ~Refreshing' /\ watching /\ ext \in Nat /\ Inputs \notin Files
      /\ opened \in SUBSET Files
  BY <1>1, FilesAssumption DEF Refreshing, Sure, SymbolsInv, Places, Types, WorldTyped, ServerTyped, Inputs
<1>3. ReferencesAreCurrent'
  BY <1>1, IdleReply DEF Sure, ReferencesInv
<1>4. CASE opened = {}
  <2>1. UNCHANGED <<model, checked, ix>>
    BY <1>4 DEF InputsEvent
  <2>2. Kept'
    BY <1>1, <1>2, <2>1, KeptSettled, SettledKept DEF Sure
  <2>3. Checks'
    BY <1>1, <1>2, <1>4, <2>1 DEF Sure, ReferencesInv, Checks, Texted, OnDisk
  <2>4. Lost' /\ Complete' /\ Asking' /\ Filling' /\ Changed'
    BY <1>1, <1>2, <2>1, IdleStays DEF Held
  <2> QED
    BY <1>3, <2>2, <2>3, <2>4 DEF ReferencesInv
<1>5. CASE opened # {}
  <2> DEFINE k == Moved(ix, {}, TRUE)
  <2>1. k \in Index /\ ix' = PutAll(k, opened, ext) /\ Putting(k, opened, ix')
    BY <1>5, InputsEventIs DEF Sure
  <2>2. /\ AllTaken(k) /\ SameBut(ix, k) /\ k.dirty = ix.dirty
        /\ \A f \in Files : /\ k.files[f] = None <=> ix.files[f] = None
                            /\ ix.files[f] # None => k.files[f].text = ix.files[f].text
    BY MovedTaken DEF Sure, Types
  <2> HIDE DEF k
  <2>3. model' = ext /\ Rechecked(checked, opened, ext, checked')
    BY <1>5, ChecksOfIs DEF InputsEvent
  <2>4. Kept'
    <3>1. Settled(ix', checked', ext)
      BY <1>2, <2>1, <2>2, <2>3, TakenSettled, PuttingSettled DEF Sure, Types
    <3> QED
      BY <1>1, <1>2, <2>3, <3>1, SettledKept
  <2>5. Checks'
    <3>1. CheckedBy(checked', opened, ext)
      <4>1. \A g \in Files \ opened : checked[g] = None
        BY DEF Sure, ReferencesInv, Checks
      <4> QED
        BY <1>2, <2>3, <4>1, RecheckedBy
    <3>2. TextsDated(ix')
      <4>1. TextsDated(k)
        BY <2>2 DEF Sure, ReferencesInv, Checks, TextsDated
      <4> QED
        BY <2>1, <4>1, PuttingDated
    <3>3. Texted(ix', checked')
      <4>1. Texted(k, checked)
        BY <2>2 DEF Sure, ReferencesInv, Checks, Texted
      <4> QED
        BY <1>2, <2>1, <2>3, <4>1, PuttingTexted DEF Sure, Types
    <3>4. ext # None
      BY <1>2, NotNone
    <3> QED
      BY <1>1, <1>2, <2>3, <3>1, <3>2, <3>3, <3>4 DEF Checks, CheckedBy, TextsDated, Texted, OnDisk
  <2>6. Lost' /\ Complete' /\ Asking' /\ Filling' /\ Changed'
    <3>1. \A g \in Held : ~OnDisk(g) => (g \in ix.dirty => g \in ix'.dirty)
      BY <2>1, <2>2 DEF Putting, PutSymbols, Held
    <3>2. ix'.relist = ix.relist /\ ix'.refsBuilt = ix.refsBuilt
      BY <2>1, <2>2 DEF Putting, SameBut
    <3>3. \A f \in Files : ix'.files[f] = None <=> ix.files[f] = None
      BY <2>1, <2>2 DEF Putting
    <3>4. \A f \in Held : f \in told => f \in told'
      BY <1>1, <1>2 DEF Held
    <3> QED
      BY <1>1, <3>1, <3>2, <3>3, <3>4, IdleStays
  <2> QED
    BY <1>3, <2>4, <2>5, <2>6 DEF ReferencesInv
<1> QED
  BY <1>4, <1>5

LEMMA NoReferences == ASSUME req'.stage # "idle" \/ req'.kind # "refs" PROVE ReferencesAreCurrent'
BY DEF ReferencesAreCurrent, Answered

\* A step that leaves an entry, and makes nothing vouch for a file its checks read.
LEMMA SoundGoes ==
  ASSUME UNCHANGED disk, NEW f, Sound(ix, checked, f), checked'[f] = checked[f],
         ix'.files[f].refs = ix.files[f].refs, ix'.files[f].deps = ix.files[f].deps,
         ix'.files[f].distrust = ix.files[f].distrust,
         \A g \in Closure(f) : ~Fresh(ix, g) \/ (Refreshing /\ g \in req.changed) =>
                               ~Fresh(ix', g) \/ (Refreshing' /\ g \in req'.changed)
  PROVE  Sound(ix, checked, f)'
<1>1. There' = There
  BY DEF There, OnDisk
<1>2. Closure(f)' = Closure(f)
  BY <1>1, ClosureStays
<1>3. \A u : Reads(ix, u, f) => Reads(ix, u, f)'
  BY <1>2 DEF Reads, Fresh
<1> QED
  BY <1>2, <1>3 DEF Sound, Reads, Fresh

LEMMA ReferencesAsk ==
  ASSUME Sure, NEW kind \in {"symbols", "refs"}, NEW f \in Files, NEW g \in Files, Ask(kind, f, g)
  PROVE  ReferencesInv'
<1> DEFINE all == ~watching \/ ix.relist
<1>1. /\ req.stage = "idle" /\ req'.stage = "stat" /\ req'.kind = kind
      /\ req'.changed = {} /\ req'.round = 0
      /\ req'.todo = IF all THEN There ELSE ix.dirty \cap Held
      /\ req'.structural = (all /\ Held \ There # {}) /\ req'.place = None
      /\ kind = "refs" => req'.here \in opened
      /\ UNCHANGED <<disk, stamp, calm, ext, writes, watching, told, checked, opened>>
      /\ model' = LoadedModel /\ ix'.dirty = ix.dirty /\ SameBut(ix, ix')
      /\ \A h \in Files : ix'.files[h] = IF all /\ h \notin There THEN None ELSE ix.files[h]
  BY AskIs DEF Sure
<1>2. There' = There /\ Held' = IF all THEN Held \cap There ELSE Held
  BY <1>1 DEF There, OnDisk, Held
<1>3. Refreshing' /\ ~Refreshing
  BY <1>1 DEF Refreshing
<1>4. model' \in Nat /\ model' # None /\ ext \in Nat
  BY <1>1, LoadedTyped, NotNone DEF Sure, Types, WorldTyped
<1>5. /\ model # None => model' = model
      /\ model = None => model' = ext /\ opened = {} /\ \A h \in Files : ix.files[h] = None
  BY <1>1 DEF LoadedModel, Sure, ReferencesInv, Checks
<1>6. Lost'
  <2> SUFFICES ASSUME NEW h \in Held', ~OnDisk(h)' PROVE LostAt(h)'
    BY <1>1 DEF Lost
  <2>1. h \in Held /\ ~OnDisk(h) /\ ~all /\ h \in Files
    BY <1>1, <1>2 DEF OnDisk, There, Held
  <2>2. LostAt(h)
    BY <2>1 DEF Sure, ReferencesInv, Lost
  <2> QED
    BY <1>1, <1>3, <2>1, <2>2 DEF LostAt, Later
<1>7. Complete'
  <2>1. \A h \in There : h \in Held' \/ h \in req'.todo
    BY <1>1, <1>2, <1>3 DEF Sure, ReferencesInv, Complete
  <2>2. ix'.refsBuilt => There \subseteq Held'
    BY <1>1, <1>2 DEF Sure, ReferencesInv, Complete, SameBut
  <2> QED
    BY <1>1, <1>2, <1>3, <2>1, <2>2 DEF Complete
<1>8. Asking' /\ Changed' /\ Filling'
  BY <1>1 DEF Asking, Changed, Filling, Refreshing
<1>9. Checks'
  <2>1. \A h \in Files : ix'.files[h] # None => ix'.files[h] = ix.files[h]
    BY <1>1
  <2>2. \A h \in Files : checked[h] # None => model # None
    BY <1>5 DEF Sure, ReferencesInv, Checks
  <2>3. /\ watching => model' \in {None, ext} \/ (Inputs \in told /\ opened # {})
        /\ ~watching => IF ix.inputs = None THEN model' \in {None, ext} ELSE model' = ix.inputs
    <3>1. ix.inputs \in Nat \cup {None}
      BY DEF Sure, Types, Index
    <3> QED
      BY <1>4, <1>5, <3>1, NotNone DEF Sure, ReferencesInv, Checks
  <2>4. Texted(ix, checked)'
    BY <1>1, <2>1 DEF Sure, ReferencesInv, Checks, Texted, OnDisk
  <2> QED
    BY <1>1, <1>4, <1>5, <2>1, <2>2, <2>3, <2>4 DEF Sure, ReferencesInv, Checks, SameBut
<1>10. Kept'
  <2> SUFFICES ASSUME ix'.refsBuilt, NEW h \in Files, ix'.files[h] # None, OnDisk(h)'
               PROVE  /\ Gap' \/ Sound(ix, checked, h)'
                      /\ ix'.files[h].refs # None => ix'.files[h].refs.inputs = model'
    BY <1>1 DEF Kept
  <2>1. ix.refsBuilt /\ ix.files[h] # None /\ ix'.files[h] = ix.files[h] /\ OnDisk(h)
    BY <1>1 DEF SameBut, OnDisk
  <2>2. /\ Gone(ix) \/ Sound(ix, checked, h)
        /\ ix.files[h].refs # None => ix.files[h].refs.inputs = model
    BY <1>3, <2>1 DEF Sure, ReferencesInv, Kept, Gap
  <2>3. model' = model
    BY <1>5, <2>1
  <2>4. CASE Gone(ix)
    <3>1. Held \ There # {}
      BY <2>4 DEF Gone, Held, There
    <3>2. ASSUME all PROVE Gap'
      <4>1. req'.structural = TRUE
        BY <1>1, <3>1, <3>2
      <4> QED
        BY <1>3, <4>1 DEF Gap
    <3>3. ASSUME ~all PROVE Gap'
      <4>1. Gone(ix)'
        BY <1>1, <2>4, <3>3 DEF Gone, OnDisk
      <4> QED
        BY <4>1 DEF Gap
    <3> QED
      BY <2>1, <2>2, <2>3, <3>2, <3>3
  <2>5. CASE Sound(ix, checked, h)
    <3>1. \A k \in Closure(h) : ~Fresh(ix, k) => ~Fresh(ix', k)
      BY <1>1, ClosureIs DEF Fresh, There
    <3>2. Sound(ix, checked, h)'
      BY <1>1, <1>3, <2>1, <2>5, <3>1, SoundGoes
    <3> QED
      BY <2>1, <2>2, <2>3, <3>2
  <2> QED
    BY <2>2, <2>4, <2>5
<1>11. ReferencesAreCurrent'
  BY <1>1, NoReferences
<1> QED
  BY <1>6, <1>7, <1>8, <1>9, <1>10, <1>11 DEF ReferencesInv

\* The checks and the texts of the entries, through a step of a request that makes neither.
LEMMA ChecksGo ==
  ASSUME Sure, Going, req.stage # "idle", ix'.inputs = ix.inputs,
         \A h \in Files : ix'.files[h] # None =>
            \/ ix.files[h] # None /\ ix'.files[h].text = ix.files[h].text
            \/ ix'.files[h].text = TextOf(h)
  PROVE  Checks'
<1>1. model # None
  BY NotNone DEF Sure, Types, HandTyped
<1>2. \A h \in Files : ix'.files[h] # None => ix'.files[h].text <= writes + 1
  <2> SUFFICES ASSUME NEW h \in Files, ix'.files[h] # None, ix'.files[h].text = TextOf(h)
               PROVE  TextOf(h) <= writes + 1
    BY DEF Sure, ReferencesInv, Checks
  <2> QED
    BY DEF TextOf, Sure, UsesInv, Dated, Types, WorldTyped
<1>3. Texted(ix, checked)'
  BY GoingIs DEF Texted, TextOf, OnDisk, Sure, ReferencesInv, Checks
<1> QED
  BY <1>1, <1>2, <1>3, GoingIs DEF Sure, ReferencesInv, Checks

LEMMA ReferencesStat == ASSUME Sure, NEW f \in Files, Stat(f) PROVE ReferencesInv'
<1>1. /\ Going /\ req.stage = "stat" /\ f \in req.todo
      /\ UNCHANGED <<req.changed, req.all, req.round, req.first, req.place, req.here>>
      /\ ix'.dirty = ix.dirty /\ SameBut(ix, ix')
      /\ \A g \in Files \ {f} : ix'.files[g] = ix.files[g]
      /\ \/ /\ ~OnDisk(f) /\ ix'.files[f] = None /\ req'.stage = "stat"
            /\ req'.todo = req.todo \ {f} /\ req'.structural = TRUE
         \/ /\ OnDisk(f) /\ ix'.files[f] = ix.files[f] /\ req'.stage = "stat" /\ ix' = ix
            /\ ix.files[f] # None /\ ix.files[f].stamp = stamp[f] /\ ix.files[f].settled
            /\ req'.todo = req.todo \ {f} /\ req'.structural = req.structural
         \/ /\ OnDisk(f) /\ ix' = ix /\ req'.stage = "read" /\ req'.file = f
            /\ req'.read = stamp[f] /\ req'.todo = req.todo /\ req'.structural = req.structural
  BY StatIs DEF Sure
<1>2. /\ UNCHANGED <<disk, writes, watching, told, opened, model, checked, ext>> /\ There' = There
      /\ req'.quiet = req.quiet /\ req'.kind = req.kind /\ \A h \in Files : Later(h)' <=> Later(h)
  BY <1>1, GoingIs DEF There, OnDisk
<1>3. /\ Refreshing /\ Refreshing' /\ \A h \in Files : ix'.files[h] # None => ix'.files[h] = ix.files[h]
      /\ Held' = IF OnDisk(f) THEN Held ELSE Held \ {f}
  BY <1>1 DEF Refreshing, Held
<1>4. Lost'
  <2>1. ASSUME NEW h \in Held', ~OnDisk(h)' PROVE LostAt(h)'
    <3>1. h \in Held /\ ~OnDisk(h) /\ h # f /\ h \in Files
      BY <1>2, <1>3, <2>1 DEF OnDisk, Held
    <3>2. LostAt(h)
      BY <3>1 DEF Sure, ReferencesInv, Lost
    <3> QED
      BY <1>1, <1>2, <1>3, <3>1, <3>2 DEF LostAt
  <2> QED
    BY <1>1, <1>2, <2>1 DEF Lost, OnDisk
<1>5. Complete'
  <2>1. \A h \in There : h \in Held' \/ h \in req'.todo
    BY <1>1, <1>3 DEF Sure, ReferencesInv, Complete, There, Held
  <2>2. ix'.refsBuilt => There \subseteq Held'
    BY <1>1, <1>3 DEF Sure, ReferencesInv, Complete, SameBut, There
  <2>3. ix'.refsBuilt /\ req'.stage = "read" => req'.file \in Held'
    BY <1>1, <2>2 DEF There
  <2>4. req'.round = 1 /\ req'.kind = "refs" => ix'.refsBuilt
    BY <1>1, <1>2, <1>3 DEF Sure, ReferencesInv, Complete, SameBut
  <2> QED
    BY <1>1, <1>2, <1>3, <2>1, <2>2, <2>3, <2>4 DEF Complete
<1>6. Asking' /\ Filling'
  BY <1>1, <1>2, <1>3 DEF Sure, ReferencesInv, Asking, Filling, Asked
<1>7. Changed'
  BY <1>1, <1>2, <1>3 DEF Sure, ReferencesInv, Changed, OnDisk, Types, Requests
<1>8. Checks'
  BY <1>1, <1>3, ChecksGo DEF SameBut
<1>9. Kept'
  <2> SUFFICES ASSUME ix'.refsBuilt, NEW h \in Files, ix'.files[h] # None, OnDisk(h)'
               PROVE  /\ Gap' \/ Sound(ix, checked, h)'
                      /\ ix'.files[h].refs # None => ix'.files[h].refs.inputs = model'
    BY <1>1 DEF Kept
  <2>1. ix.refsBuilt /\ ix.files[h] # None /\ ix'.files[h] = ix.files[h] /\ OnDisk(h)
    BY <1>1, <1>2, <1>3 DEF SameBut, OnDisk
  <2>2. /\ Gap \/ Sound(ix, checked, h)
        /\ ix.files[h].refs # None => ix.files[h].refs.inputs = model
    BY <2>1 DEF Sure, ReferencesInv, Kept
  <2>3. CASE ~OnDisk(f)
    BY <1>1, <1>2, <1>3, <2>1, <2>2, <2>3 DEF Gap
  <2>4. CASE OnDisk(f)
    <3>1. ix' = ix /\ req'.structural = req.structural
      BY <1>1, <2>4
    <3>2. Gap' <=> Gap
      BY <1>2, <1>3, <3>1 DEF Gap, Gone, OnDisk
    <3>3. Sound(ix, checked, h) => Sound(ix, checked, h)'
      BY <1>1, <1>2, <1>3, <3>1, SoundGoes
    <3> QED
      BY <1>2, <2>1, <2>2, <3>1, <3>2, <3>3
  <2> QED
    BY <2>3, <2>4
<1>10. ReferencesAreCurrent'
  BY <1>1, NoReferences
<1> QED
  BY <1>4, <1>5, <1>6, <1>7, <1>8, <1>9, <1>10 DEF ReferencesInv

LEMMA ReferencesReadText == ASSUME Sure, ReadText PROVE ReferencesInv'
<1> DEFINE f == req.file
           old == ix.files[f]
           e == ix'.files[f]
<1>1. /\ Going /\ req.stage = "read" /\ f \in Files /\ f \in req.todo
      /\ UNCHANGED <<req.all, req.round, req.first, req.place, req.here>>
      /\ ix'.dirty = ix.dirty /\ SameBut(ix, ix')
      /\ \A g \in Files \ {f} : ix'.files[g] = ix.files[g]
      /\ req'.stage = "stat" /\ req'.todo = req.todo \ {f}
      /\ req'.changed = IF old # None /\ old.text # TextOf(f) THEN req.changed \cup {f}
                        ELSE req.changed
      /\ req'.structural = (req.structural \/ (old = None /\ ~req.first))
      /\ e # None /\ e.text = TextOf(f)
      /\ old # None /\ old.text = TextOf(f) =>
           e.refs = old.refs /\ e.deps = old.deps /\ e.distrust = old.distrust
      /\ ~(old # None /\ old.text = TextOf(f)) =>
           e.refs = None /\ e.deps = None /\ e.distrust = FALSE
  BY ReadTextIs DEF Sure
<1>2. /\ UNCHANGED <<disk, writes, watching, told, opened, model, checked, ext>> /\ There' = There
      /\ req'.quiet = req.quiet /\ req'.kind = req.kind /\ \A h \in Files : Later(h)' <=> Later(h)
  BY <1>1, GoingIs DEF There, OnDisk
<1>3. Refreshing /\ Refreshing' /\ Held' = Held \cup {f}
  BY <1>1 DEF Refreshing, Held
<1>3a. OnDisk(f) => TextOf(f) = disk[f]
  BY DEF TextOf
<1>3b. OnDisk(f) /\ old # None /\ old.text # disk[f] => checked[f] = None \/ checked[f].text # disk[f]
  BY <1>1 DEF Sure, ReferencesInv, Checks, Texted
<1> HIDE DEF f
<1>4. Lost'
  <2>1. ASSUME NEW h \in Held', ~OnDisk(h)' PROVE LostAt(h)'
    <3>1. CASE h = f
      <4>1. Later(f)
        BY <1>1, <1>2, <2>1, <3>1 DEF Sure, ReferencesInv, Lost, OnDisk, f
      <4> QED
        BY <1>1, <1>2, <3>1, <4>1 DEF LostAt
    <3>2. CASE h # f
      <4>1. h \in Held /\ ~OnDisk(h) /\ h \in Files
        BY <1>2, <1>3, <2>1, <3>2 DEF OnDisk, Held
      <4>2. LostAt(h)
        BY <4>1 DEF Sure, ReferencesInv, Lost
      <4> QED
        BY <1>1, <1>2, <1>3, <3>2, <4>1, <4>2 DEF LostAt
    <3> QED
      BY <3>1, <3>2
  <2> QED
    BY <1>1, <2>1 DEF Lost
<1>5. Complete'
  <2>1. \A h \in There : h \in Held' \/ h \in req'.todo
    BY <1>1, <1>3 DEF Sure, ReferencesInv, Complete
  <2>2. ix'.refsBuilt => There \subseteq Held'
    BY <1>1, <1>3 DEF Sure, ReferencesInv, Complete, SameBut
  <2>3. req'.round = 1 /\ req'.kind = "refs" => ix'.refsBuilt
    BY <1>1, <1>2, <1>3 DEF Sure, ReferencesInv, Complete, SameBut
  <2> QED
    BY <1>1, <1>2, <1>3, <2>1, <2>2, <2>3 DEF Complete
<1>6. Asking' /\ Filling'
  BY <1>1, <1>2, <1>3 DEF Sure, ReferencesInv, Asking, Filling, Asked
<1>7. Changed'
  <2> SUFFICES ASSUME NEW h \in req'.changed
               PROVE  /\ ix'.files[h] # None => ix'.files[h].refs = None
                      /\ OnDisk(h)' /\ checked'[h] # None => checked'[h].text # disk'[h]
    BY DEF Changed
  <2>1. CASE h \in req.changed
    <3>1. /\ ix.files[h] # None => ix.files[h].refs = None
          /\ OnDisk(h) /\ checked[h] # None => checked[h].text # disk[h]
      BY <1>3, <2>1 DEF Sure, ReferencesInv, Changed
    <3>2. h \in Files
      BY <2>1 DEF Sure, Types, Requests
    <3> QED
      BY <1>1, <1>2, <3>1, <3>2 DEF OnDisk
  <2>2. CASE h \notin req.changed
    <3>1. h = f /\ old # None /\ old.text # TextOf(f)
      BY <1>1, <2>2
    <3> QED
      BY <1>1, <1>2, <1>3a, <1>3b, <3>1 DEF OnDisk
  <2> QED
    BY <2>1, <2>2
<1>8. Checks'
  <2>1. \A h \in Files : ix'.files[h] # None =>
            \/ ix.files[h] # None /\ ix'.files[h].text = ix.files[h].text
            \/ ix'.files[h].text = TextOf(h)
    BY <1>1
  <2> QED
    BY <1>1, <2>1, ChecksGo DEF SameBut
<1>9. Kept'
  <2> SUFFICES ASSUME ix'.refsBuilt, NEW h \in Files, ix'.files[h] # None, OnDisk(h)'
               PROVE  /\ Gap' \/ Sound(ix, checked, h)'
                      /\ ix'.files[h].refs # None => ix'.files[h].refs.inputs = model'
    BY <1>1 DEF Kept
  <2>1. ix.refsBuilt /\ OnDisk(h) /\ h \in There /\ old # None
    BY <1>1, <1>2 DEF SameBut, OnDisk, There, Sure, ReferencesInv, Complete, Held, f
  <2>2. ix.files[h] # None
    BY <2>1 DEF Sure, ReferencesInv, Complete, Held
  <2>3. /\ Gap \/ Sound(ix, checked, h)
        /\ ix.files[h].refs # None => ix.files[h].refs.inputs = model
    BY <2>1, <2>2 DEF Sure, ReferencesInv, Kept
  <2>4. ix'.files[h].refs # None => ix'.files[h].refs.inputs = model'
    BY <1>1, <1>2, <2>3
  <2>5. Gap => Gap'
    <3>1. Gone(ix) => Gone(ix)'
      BY <1>1, <1>2 DEF Gone, OnDisk
    <3>2. req.structural => req'.structural
      BY <1>1
    <3> QED
      BY <1>3, <3>1, <3>2 DEF Gap
  <2>6. ASSUME ~OnDisk(f) PROVE Gap'
    <3>1. Gone(ix)'
      BY <1>1, <1>2, <2>6 DEF Gone, OnDisk
    <3> QED
      BY <3>1 DEF Gap
  <2>7. ASSUME OnDisk(f), Sound(ix, checked, h) PROVE Sound(ix, checked, h)'
    <3>1. \A g \in Closure(h) : ~Fresh(ix, g) \/ (Refreshing /\ g \in req.changed) =>
                                ~Fresh(ix', g) \/ (Refreshing' /\ g \in req'.changed)
      <4> SUFFICES ASSUME NEW g \in Closure(h), ~Fresh(ix, g) \/ g \in req.changed
                   PROVE  ~Fresh(ix', g) \/ g \in req'.changed
        BY <1>3
      <4>1. g \in Files
        BY ClosureIs DEF There
      <4>2. CASE g = f
        BY <1>1, <1>3a, <2>1, <2>7, <4>2 DEF Fresh
      <4>3. CASE g # f
        BY <1>1, <4>1, <4>3 DEF Fresh
      <4> QED
        BY <4>2, <4>3
    <3>2. CASE h # f \/ old.text = disk[f]
      <4>1. /\ ix'.files[h].refs = ix.files[h].refs /\ ix'.files[h].deps = ix.files[h].deps
            /\ ix'.files[h].distrust = ix.files[h].distrust
        BY <1>1, <1>3a, <2>1, <2>7, <3>2
      <4> QED
        BY <1>2, <2>7, <3>1, <4>1, SoundGoes
    <3>3. CASE h = f /\ old.text # disk[f]
      BY <1>1, <1>2, <1>3a, <1>3b, <2>1, <2>7, <3>3 DEF Sound
    <3> QED
      BY <3>2, <3>3
  <2> QED
    BY <2>3, <2>4, <2>5, <2>6, <2>7
<1>10. ReferencesAreCurrent'
  BY <1>1, NoReferences
<1> QED
  BY <1>4, <1>5, <1>6, <1>7, <1>8, <1>9, <1>10 DEF ReferencesInv

LEMMA ReferencesRefreshed == ASSUME Sure, Refreshed PROVE ReferencesInv'
<1>1. /\ Going /\ req.stage = "stat" /\ req.todo = {}
      /\ UNCHANGED <<req.round, req.place, req.here>>
      /\ req'.stage = IF req.kind = "symbols" THEN "answer"
                      ELSE IF req.round = 0 THEN "ready" ELSE "pending"
      /\ ix'.refsBuilt = ix.refsBuilt /\ ix'.inputs = ix.inputs
      /\ \A f \in Files : ix'.files[f] =
           IF ix.files[f] # None /\ Hit(ix, req.changed, req.structural, f)
           THEN Taken(ix.files[f]) ELSE ix.files[f]
  BY RefreshedIs DEF Sure
<1>2. /\ UNCHANGED <<disk, writes, watching, told, opened, model, checked, ext>> /\ There' = There
      /\ req'.quiet = req.quiet /\ req'.kind = req.kind /\ \A h \in Files : Later(h)' <=> Later(h)
  BY <1>1, GoingIs DEF There, OnDisk
<1>3. Refreshing /\ ~Refreshing' /\ req.round \in {0, 1} /\ req.kind \in {"symbols", "refs"}
  BY <1>1 DEF Refreshing, Sure, Types, Requests
<1>4. \A f \in Files : /\ ix'.files[f] = None <=> ix.files[f] = None
                       /\ ix.files[f] # None => ix'.files[f].text = ix.files[f].text
  <2> SUFFICES ASSUME NEW f \in Files, ix.files[f] # None
               PROVE  ix'.files[f] # None /\ ix'.files[f].text = ix.files[f].text
    BY <1>1
  <2> DEFINE e == ix.files[f]
  <2>1. e \in Entries
    BY DEF Sure, Types, Index
  <2>2. ix'.files[f] \in {e, Taken(e)}
    BY <1>1
  <2> HIDE DEF e
  <2>3. Taken(e) \in Entries /\ Taken(e).text = e.text
    BY <2>1, TakenIs
  <2>4. ix'.files[f] # None /\ ix'.files[f].text = e.text
    BY <2>1, <2>2, <2>3, NotNone
  <2> QED
    BY <2>4 DEF e
<1>5. Held' = Held
  BY <1>4 DEF Held
<1>6. Lost'
  <2>1. ASSUME NEW h \in Held', ~OnDisk(h)' PROVE LostAt(h)'
    <3>1. h \in Held /\ ~OnDisk(h) /\ h \in Files
      BY <1>2, <1>5, <2>1 DEF OnDisk, Held
    <3>2. LostAt(h)
      BY <3>1 DEF Sure, ReferencesInv, Lost
    <3> QED
      BY <1>1, <1>2, <3>1, <3>2 DEF LostAt
  <2> QED
    BY <1>1, <2>1 DEF Lost
<1>7. Complete'
  BY <1>1, <1>2, <1>3, <1>5 DEF Sure, ReferencesInv, Complete
<1>8. Asking' /\ Filling' /\ Changed'
  BY <1>1, <1>2, <1>3 DEF Sure, ReferencesInv, Asking, Filling, Asked, Changed
<1>9. Checks'
  BY <1>1, <1>4, ChecksGo
<1>10. Kept'
  <2> SUFFICES ASSUME ix'.refsBuilt, NEW f \in Files, ix'.files[f] # None, OnDisk(f)'
               PROVE  /\ Gap' \/ Sound(ix, checked, f)'
                      /\ ix'.files[f].refs # None => ix'.files[f].refs.inputs = model'
    BY <1>1 DEF Kept
  <2>1. ix.refsBuilt /\ ix.files[f] # None /\ OnDisk(f)
    BY <1>1, <1>2, <1>4 DEF OnDisk
  <2>2. /\ Gap \/ Sound(ix, checked, f)
        /\ ix.files[f].refs # None => ix.files[f].refs.inputs = model
    BY <2>1 DEF Sure, ReferencesInv, Kept
  <2>3. CASE Hit(ix, req.changed, req.structural, f)
    <3> DEFINE e == ix.files[f]
    <3>1. e \in Entries /\ ix'.files[f] = Taken(e)
      BY <1>1, <2>1, <2>3 DEF Sure, Types, Index
    <3> HIDE DEF e
    <3>2. Taken(e).refs = None /\ Taken(e).distrust
      BY <3>1, TakenIs
    <3> QED
      BY <3>1, <3>2 DEF Sound
  <2>4. CASE ~Hit(ix, req.changed, req.structural, f)
    <3>1. ix'.files[f] = ix.files[f] /\ ~req.structural
      BY <1>1, <2>4 DEF Hit
    <3>2. Gap => Gap'
      <4>1. Gap => Gone(ix)
        BY <3>1 DEF Gap
      <4>2. Gone(ix) => Gone(ix)'
        BY <1>2, <1>4 DEF Gone, OnDisk
      <4> QED
        BY <4>1, <4>2 DEF Gap
    <3>3. ASSUME Sound(ix, checked, f) PROVE Sound(ix, checked, f)'
      <4>1. /\ f \in req.changed => /\ ix.files[f].refs = None
                                    /\ checked[f] # None => checked[f].text # disk[f]
            /\ req.changed = {} \/ f \in req.changed
               \/ (ix.files[f].deps # None /\ ix.files[f].deps \cap req.changed = {})
        BY <1>3, <2>1, <2>4 DEF Hit, Sure, ReferencesInv, Changed
      <4>2. \A g \in Closure(f) : Fresh(ix', g) => Fresh(ix, g)
        BY <1>4, ClosureIs DEF Fresh, There
      <4>3. CASE f \in req.changed
        <5>1. Closure(f)' = Closure(f)
          BY <1>2, ClosureStays
        <5> QED
          BY <1>2, <3>1, <3>3, <4>1, <4>3, <5>1 DEF Sound
      <4>4. CASE f \notin req.changed
        <5>1. CASE Closure(f) \cap req.changed = {}
          BY <1>2, <3>1, <3>3, <4>2, <5>1, SoundGoes
        <5>2. CASE Closure(f) \cap req.changed # {}
          <6>1. ix.files[f].refs = None /\ ix.files[f].distrust
            BY <3>3, <4>1, <4>4, <5>2 DEF Sound
          <6> QED
            BY <3>1, <6>1 DEF Sound
        <5> QED
          BY <5>1, <5>2
      <4> QED
        BY <4>3, <4>4
    <3> QED
      BY <1>2, <2>2, <3>1, <3>2, <3>3
  <2> QED
    BY <2>3, <2>4
<1>11. ReferencesAreCurrent'
  BY <1>1, NoReferences
<1> QED
  BY <1>6, <1>7, <1>8, <1>9, <1>10, <1>11 DEF ReferencesInv

\* In a request nothing was said during, every entry is of a file that is there, as it is.
LEMMA QuietFresh ==
  ASSUME Sure, req.quiet, req.stage \notin {"idle", "stat", "read"}, NEW f \in Held
  PROVE  OnDisk(f) /\ Fresh(ix, f)
<1>1. f \in Files /\ ~Refreshing
  BY DEF Held, Refreshing
<1>2. ~Later(f)
  BY DEF Later, Sure, SymbolsInv, Places
<1>3. OnDisk(f)
  BY <1>1, <1>2 DEF Sure, ReferencesInv, Lost, LostAt
<1> QED
  BY <1>1, <1>2, <1>3 DEF Sure, SymbolsInv, Listed, ListedAt

\* A step that makes uses, before what it makes of them.
Fills == {"pending", "fill", "index", "keep"}
LEMMA ReferencesFills ==
  ASSUME Sure, Going, req.stage \in Fills, req'.stage \in (Fills \ {"pending"}) \cup {"answer"},
         UNCHANGED req.here, ix'.refsBuilt = ix.refsBuilt, ix'.inputs = ix.inputs,
         \A f \in Files : /\ ix'.files[f] = None <=> ix.files[f] = None
                          /\ ix.files[f] # None => ix'.files[f].text = ix.files[f].text
  PROVE  Lost' /\ Complete' /\ Asking' /\ Checks' /\ Changed' /\ ReferencesAreCurrent'
<1>1. /\ UNCHANGED <<disk, writes, watching, told, opened, model, checked, ext>> /\ There' = There
      /\ req'.quiet = req.quiet /\ req'.kind = req.kind /\ \A h \in Files : Later(h)' <=> Later(h)
  BY GoingIs DEF There, OnDisk
<1>2. Held' = Held /\ ~Refreshing /\ ~Refreshing'
  BY DEF Held, Refreshing, Fills
<1>3. Lost'
  BY <1>1, <1>2 DEF Sure, ReferencesInv, Lost, LostAt, OnDisk, Fills, Held
<1>4. Complete'
  BY <1>1, <1>2 DEF Sure, ReferencesInv, Complete, Fills
<1>5. Asking' /\ Changed'
  BY <1>1, <1>2 DEF Sure, ReferencesInv, Asking, Changed, Fills
<1>6. Checks'
  BY ChecksGo DEF Fills
<1>7. ReferencesAreCurrent'
  BY NoReferences DEF Fills
<1> QED
  BY <1>3, <1>4, <1>5, <1>6, <1>7

LEMMA ReferencesPending == ASSUME Sure, Pending PROVE ReferencesInv'
<1>1. /\ Going /\ req.stage = "pending" /\ req'.stage = "fill" /\ ix' = ix
      /\ UNCHANGED <<req.place, req.target, req.here>>
      /\ req'.todo = {f \in Held : ix.files[f].refs = None}
  BY PendingIs DEF Sure
<1>2. /\ UNCHANGED <<disk, model, checked, ext>> /\ req'.quiet = req.quiet /\ req'.kind = req.kind
  BY <1>1, GoingIs
<1>3. Kept'
  BY <1>1, <1>2, KeptSettled, SettledKept DEF Refreshing, Sure
<1>4. Filling'
  BY <1>1, <1>2 DEF Sure, ReferencesInv, Filling, Asked, Refreshing, Held
<1> QED
  BY <1>1, <1>3, <1>4, ReferencesFills DEF ReferencesInv, Fills

LEMMA ReferencesFillReads == ASSUME Sure, NEW f \in Files, FillReads(f) PROVE ReferencesInv'
<1>1. /\ Going /\ req.stage = "fill" /\ req'.stage = "index" /\ ix' = ix
      /\ UNCHANGED <<req.place, req.target, req.here, req.todo>>
      /\ f \in req.todo /\ req'.file = f /\ req'.read = TextOf(f)
  BY FillReadsIs DEF Sure
<1>2. /\ UNCHANGED <<disk, model, checked, ext>> /\ req'.quiet = req.quiet /\ req'.kind = req.kind
  BY <1>1, GoingIs
<1>3. Kept'
  BY <1>1, <1>2, KeptSettled, SettledKept DEF Refreshing, Sure
<1>4. Filling'
  BY <1>1, <1>2 DEF Sure, ReferencesInv, Filling, Asked, Refreshing, TextOf, OnDisk
<1> QED
  BY <1>1, <1>3, <1>4, ReferencesFills DEF ReferencesInv, Fills

LEMMA ReferencesFillChecks == ASSUME Sure, FillChecks PROVE ReferencesInv'
<1>1. /\ Going /\ req.stage = "index" /\ req'.stage = "keep" /\ ix' = ix
      /\ UNCHANGED <<req.place, req.target, req.here, req.todo, req.file, req.read>>
      /\ req'.made = IF OnDisk(req.file) THEN Check(req.file, model) ELSE NoCheck
  BY FillChecksIs DEF Sure
<1>2. /\ UNCHANGED <<disk, model, checked, ext>> /\ req'.quiet = req.quiet /\ req'.kind = req.kind
      /\ There' = There /\ ~Refreshing /\ ~Refreshing'
  BY <1>1, GoingIs DEF There, OnDisk, Refreshing
<1>3. Kept'
  <2>1. \A f : Closure(f)' = Closure(f)
    BY <1>2, ClosureStays
  <2>2. Settled(ix', checked', model')
    BY <1>1, <1>2, KeptSettled DEF Sure
  <2>3. ix'.refsBuilt =>
          \A f \in Files : ix'.files[f] # None /\ OnDisk(f)' =>
             /\ Gap' \/ Sound(ix, checked, f)'
             /\ ix'.files[f].refs # None => ix'.files[f].refs.inputs = model'
    <3>1. Gap' <=> Gone(ix')
      BY <1>2 DEF Gap, Gone, OnDisk
    <3>2. \A f \in Files : Sound(ix, checked, f)' <=> Sound(ix', checked', f)
      BY <1>2, SoundStays
    <3> QED
      BY <1>2, <2>2, <3>1, <3>2 DEF Settled, OnDisk
  <2>4. OnDisk(req.file) => Reads(ix, req.made, req.file)' /\ req'.made.inputs = model
    <3> DEFINE f == req.file
    <3> SUFFICES ASSUME OnDisk(f) PROVE Reads(ix, req.made, f)' /\ req'.made.inputs = model
      BY <1>1
    <3>1. req'.made = Check(f, model) /\ f' = f
      BY <1>1
    <3>2. /\ req'.made.inputs = model /\ DOMAIN req'.made.read = Closure(f)
          /\ \A g \in Closure(f) : req'.made.read[g] = disk[g]
      BY <3>1 DEF Check
    <3> HIDE DEF f
    <3> QED
      BY <1>2, <2>1, <3>1, <3>2 DEF Reads
  <2> QED
    BY <1>1, <1>2, <2>3, <2>4 DEF Kept, OnDisk
<1>4. Filling'
  BY <1>1, <1>2 DEF Sure, ReferencesInv, Filling, Asked, Refreshing, TextOf, OnDisk
<1> QED
  BY <1>1, <1>3, <1>4, ReferencesFills DEF ReferencesInv, Fills

LEMMA ReferencesFilled == ASSUME Sure, Filled PROVE ReferencesInv'
<1>1. /\ Going /\ req.stage = "fill" /\ req'.stage = "answer" /\ ix' = ix /\ req.todo = {}
      /\ UNCHANGED <<req.place, req.target, req.here>>
  BY FilledIs DEF Sure
<1>2. /\ UNCHANGED <<disk, model, checked, ext>> /\ req'.quiet = req.quiet /\ req'.kind = req.kind
  BY <1>1, GoingIs
<1>3. Kept'
  BY <1>1, <1>2, KeptSettled, SettledKept DEF Refreshing, Sure
<1>4. Filling'
  BY <1>1, <1>2 DEF Sure, ReferencesInv, Filling, Asked, Refreshing
<1> QED
  BY <1>1, <1>3, <1>4, ReferencesFills DEF ReferencesInv, Fills

\* Filling in the uses made of f, by a check that read what is there.
LEMMA ReferencesFill ==
  ASSUME Sure, Going, req.stage \in {"fill", "keep"}, req'.stage = "fill", UNCHANGED req.here,
         NEW f \in req.todo, req'.todo = req.todo \ {f}, NEW hash, NEW made, made \in Uses,
         ix' = Fill(ix, f, hash, made),
         ix.refsBuilt /\ OnDisk(f) => (Gone(ix) \/ Reads(ix, made, f)) /\ made.inputs = model,
         Asked => hash = TextOf(f)
  PROVE  ReferencesInv'
<1>1. /\ UNCHANGED <<disk, model, checked, ext>> /\ req'.quiet = req.quiet /\ req'.kind = req.kind
      /\ ~Refreshing /\ ~Refreshing' /\ f \in Files /\ made # None
  BY GoingIs, NotNone DEF Refreshing, Sure, Types, Requests
<1>2. /\ SameBut(ix, ix') /\ \A g \in Files \ {f} : ix'.files[g] = ix.files[g]
      /\ ix.files[f] = None \/ ix.files[f].text # hash => ix' = ix
      /\ ix.files[f] # None /\ ix.files[f].text = hash =>
              /\ ix'.files[f] # None /\ ix'.files[f].text = ix.files[f].text
              /\ ix'.files[f].refs = made /\ ~ix'.files[f].distrust
              /\ ix'.files[f].deps = DepsOf(made)
  BY <1>1, FillIs DEF Sure, Types
<1>3. \A g \in Files : /\ ix'.files[g] = None <=> ix.files[g] = None
                       /\ ix.files[g] # None => ix'.files[g].text = ix.files[g].text
  BY <1>1, <1>2
<1>4. Kept'
  <2>1. Settled(ix, checked, model)
    BY <1>1, KeptSettled DEF Sure
  <2>2. Settled(ix', checked, model)
    <3> SUFFICES ASSUME ix'.refsBuilt, NEW g \in Files, ix'.files[g] # None, OnDisk(g)
                 PROVE  /\ Gone(ix') \/ Sound(ix', checked, g)
                        /\ ix'.files[g].refs # None => ix'.files[g].refs.inputs = model
      BY DEF Settled
    <3>1. ix.refsBuilt /\ ix.files[g] # None
      BY <1>2, <1>3 DEF SameBut
    <3>2. /\ Gone(ix) \/ Sound(ix, checked, g)
          /\ ix.files[g].refs # None => ix.files[g].refs.inputs = model
      BY <2>1, <3>1 DEF Settled
    <3>3. Gone(ix) => Gone(ix')
      BY <1>3 DEF Gone
    <3>4. ASSUME NEW u, NEW h, Reads(ix, u, h) PROVE Reads(ix', u, h)
      <4>1. \A k \in Closure(h) : Fresh(ix', k) => Fresh(ix, k)
        BY <1>3, ClosureIs DEF Fresh, There
      <4> QED
        BY <1>1, <3>4, <4>1 DEF Reads
    <3>5. CASE ix'.files[g] = ix.files[g]
      BY <3>2, <3>3, <3>4, <3>5 DEF Sound
    <3>6. CASE ix'.files[g] # ix.files[g]
      <4>1. /\ g = f /\ ix'.files[f].refs = made /\ ~ix'.files[f].distrust
            /\ ix'.files[f].deps = DepsOf(made)
        BY <1>2, <3>6
      <4>2. (Gone(ix) \/ Reads(ix, made, f)) /\ made.inputs = model
        BY <3>1, <4>1
      <4>3. Reads(ix, made, f) => Sound(ix', checked, f)
        <5> SUFFICES ASSUME Reads(ix, made, f) PROVE Sound(ix', checked, f)
          OBVIOUS
        <5>1. Reads(ix', made, f)
          BY <3>4
        <5>2. DepsOf(made) \in {None, Closure(f)}
          BY <5>1 DEF DepsOf, Reads
        <5> QED
          BY <1>1, <4>1, <5>1, <5>2 DEF Sound
      <4> QED
        BY <3>3, <4>1, <4>2, <4>3
    <3> QED
      BY <3>5, <3>6
  <2> QED
    BY <1>1, <2>2, SettledKept
<1>5. Filling'
  <2>1. ASSUME Asked PROVE ix'.files[f] # None => ix'.files[f].refs # None
    <3>1. ix.files[f] # None => ix.files[f].text = hash
      <4> SUFFICES ASSUME ix.files[f] # None PROVE ix.files[f].text = hash
        OBVIOUS
      <4>1. OnDisk(f) /\ Fresh(ix, f)
        BY <1>1, <2>1, QuietFresh DEF Asked, Held
      <4> QED
        BY <2>1, <4>1 DEF Fresh, TextOf
    <3> QED
      BY <1>1, <1>2, <1>3, <3>1
  <2>2. \A g \in req'.todo : ix'.files[g] # None /\ ix'.files[g].refs = None
    <3> SUFFICES ASSUME NEW g \in req'.todo PROVE ix'.files[g] # None /\ ix'.files[g].refs = None
      OBVIOUS
    <3>1. g \in req.todo /\ g # f /\ g \in Files
      BY DEF Sure, Types, Requests
    <3> QED
      BY <1>2, <3>1 DEF Sure, ReferencesInv, Filling
  <2>3. ASSUME Asked, NEW g \in Files, ix'.files[g] # None PROVE ix'.files[g].refs # None \/ g \in req'.todo
    <3>1. CASE g = f
      BY <2>1, <2>3, <3>1
    <3>2. CASE g # f
      BY <1>2, <2>3, <3>2 DEF Sure, ReferencesInv, Filling
    <3> QED
      BY <3>1, <3>2
  <2>4. Asked' <=> Asked
    BY <1>1 DEF Asked
  <2>5. Asked => model' = ext'
    BY <1>1 DEF Sure, ReferencesInv, Filling
  <2> QED
    BY <1>1, <2>2, <2>3, <2>4, <2>5 DEF Filling
<1> QED
  BY <1>2, <1>3, <1>4, <1>5, ReferencesFills DEF ReferencesInv, Fills, SameBut

LEMMA ReferencesFillFromCheck == ASSUME Sure, NEW f \in Files, FillFromCheck(f) PROVE ReferencesInv'
<1>1. /\ Going /\ req.stage = "fill" /\ req'.stage = "fill" /\ f \in req.todo
      /\ UNCHANGED <<req.place, req.target, req.here>>
      /\ checked[f] \in Uses /\ f \in opened /\ ~ix.files[f].distrust
      /\ checked[f].text = TextOf(f)
      /\ ix' = Fill(ix, f, TextOf(f), checked[f]) /\ req'.todo = req.todo \ {f}
  BY FillFromCheckIs DEF Sure
<1>2. ASSUME ix.refsBuilt, OnDisk(f)
      PROVE  (Gone(ix) \/ Reads(ix, checked[f], f)) /\ checked[f].inputs = model
  <2>1. ix.files[f] # None /\ ix.files[f].refs = None /\ ~Refreshing
    BY <1>1 DEF Sure, ReferencesInv, Filling, Refreshing
  <2>2. Gone(ix) \/ Sound(ix, checked, f)
    BY <1>2, <2>1, KeptSettled DEF Sure, Settled
  <2>3. checked[f] # None /\ checked[f].text = disk[f]
    BY <1>1, <1>2, NotNone DEF TextOf
  <2>4. checked[f].inputs = model
    BY <2>3 DEF Sure, ReferencesInv, Checks
  <2> QED
    BY <1>1, <2>1, <2>2, <2>3, <2>4 DEF Sound
<1> QED
  BY <1>1, <1>2, ReferencesFill

LEMMA ReferencesFillKeeps == ASSUME Sure, FillKeeps PROVE ReferencesInv'
<1>1. /\ Going /\ req.stage = "keep" /\ req'.stage = "fill"
      /\ UNCHANGED <<req.place, req.target, req.here>>
      /\ req.file \in Files /\ req.made \in Uses
      /\ ix' = IF TextOf(req.file) = req.read THEN Fill(ix, req.file, req.read, req.made) ELSE ix
      /\ req'.todo = req.todo \ {req.file}
  BY FillKeepsIs DEF Sure
<1>2. req.file \in req.todo /\ ~Refreshing
  BY <1>1 DEF Sure, Types, HandTyped, Refreshing
<1>3. CASE TextOf(req.file) = req.read
  <2>1. ASSUME ix.refsBuilt, OnDisk(req.file)
        PROVE  (Gone(ix) \/ Reads(ix, req.made, req.file)) /\ req.made.inputs = model
    BY <1>1, <1>2, <2>1 DEF Sure, ReferencesInv, Kept, Gap
  <2> DEFINE f == req.file
             made == req.made
             hash == req.read
  <2>2. /\ f \in req.todo /\ req'.todo = req.todo \ {f} /\ made \in Uses /\ ix' = Fill(ix, f, hash, made)
        /\ ix.refsBuilt /\ OnDisk(f) => (Gone(ix) \/ Reads(ix, made, f)) /\ made.inputs = model
        /\ hash = TextOf(f)
    BY <1>1, <1>2, <1>3, <2>1
  <2> HIDE DEF f, made, hash
  <2> QED
    BY <1>1, <2>2, ReferencesFill
<1>4. CASE TextOf(req.file) # req.read
  <2>1. ix' = ix /\ ~Asked
    BY <1>1, <1>4 DEF Sure, ReferencesInv, Filling
  <2>2. /\ UNCHANGED <<disk, model, checked, ext>> /\ req'.quiet = req.quiet /\ req'.kind = req.kind
        /\ ~Refreshing'
    BY <1>1, GoingIs DEF Refreshing
  <2>3. Kept'
    BY <1>1, <1>2, <2>1, <2>2, KeptSettled, SettledKept DEF Sure
  <2>4. Filling'
    BY <1>1, <2>1, <2>2 DEF Sure, ReferencesInv, Filling, Asked
  <2> QED
    BY <1>1, <2>1, <2>3, <2>4, ReferencesFills DEF ReferencesInv, Fills
<1> QED
  BY <1>3, <1>4

\* What an index whose uses are as the checks C and the inputs m have it comes to, with every
\* file it held.
Sane(i, C, m) == Settled(i, C, m) /\ Texted(i, C) /\ TextsDated(i)
SameFiles(i, j) ==
    \A f \in Files : /\ j.files[f] = None <=> i.files[f] = None
                     /\ i.files[f] # None => j.files[f].text = i.files[f].text

LEMMA PuttingSane ==
  ASSUME Sure, ~Refreshing, NEW i \in Index, NEW S \in SUBSET Files, NEW m \in Nat, NEW C, NEW D,
         Rechecked(C, S, m, D), Sane(i, C, m), NEW j, j = PutAll(i, S, m)
  PROVE  Sane(j, D, m) /\ SameBut(i, j) /\ \A f \in Files : j.files[f] = None <=> i.files[f] = None
<1>1. Putting(i, S, j) /\ m \in Nat \cup {None} /\ WorldTyped
  BY PutAllIsPutting DEF Sure, Types
<1>2. Settled(j, D, m)
  BY <1>1, PuttingSettled DEF Sane
<1>3. Texted(j, D)
  BY <1>1, PuttingTexted DEF Sane
<1>4. TextsDated(j)
  BY <1>1, PuttingDated DEF Sane
<1> QED
  BY <1>1, <1>2, <1>3, <1>4 DEF Sane, Putting

LEMMA TakenSane ==
  ASSUME NEW i, AllTaken(i), NEW C, NEW m, Texted(i, C), TextsDated(i) PROVE Sane(i, C, m)
BY TakenSettled DEF Sane

LEMMA RebuiltSane ==
  ASSUME Sure, req.stage = "ready"
  PROVE  /\ Rebuilt \in Index /\ Sane(Rebuilt, ChecksOf(ReadyAgain, ReadyModel), ReadyModel)
         /\ Rebuilt.refsBuilt = ix.refsBuilt
         /\ Rebuilt.inputs = IF watching THEN ix.inputs ELSE ext
         /\ \A f \in Files : Rebuilt.files[f] = None <=> ix.files[f] = None
<1>0. ~Refreshing /\ ext \in Nat /\ opened \in SUBSET Files
  BY DEF Refreshing, Sure, Types, WorldTyped, ServerTyped
<1>1. /\ Seen \in Index /\ Seen.files = ix.files /\ Seen.refsBuilt = ix.refsBuilt
      /\ Seen.inputs = IF watching THEN ix.inputs ELSE ext
  BY DEF Seen, Sure, Types, Index, WorldTyped
<1>2. Sane(ix, checked, model)
  BY <1>0, KeptSettled DEF Sure, ReferencesInv, Checks, Sane, TextsDated
<1>3. Sane(Seen, checked, model)
  BY <1>1, <1>2 DEF Sane, Settled, Texted, TextsDated, Sound, Reads, Fresh, Gone
<1>4. CASE InputsMoved
  <2> DEFINE k == Moved(Seen, {}, TRUE)
  <2>1. /\ k \in Index /\ AllTaken(k) /\ SameBut(Seen, k)
        /\ \A f \in Files : /\ k.files[f] = None <=> Seen.files[f] = None
                            /\ Seen.files[f] # None => k.files[f].text = Seen.files[f].text
    BY <1>1, MovedTaken
  <2>2. Rebuilt = PutAll(k, opened, ext) /\ ReadyModel = ext /\ ReadyAgain = opened
    BY <1>4 DEF Rebuilt, ReadyModel, ReadyAgain
  <2> HIDE DEF k
  <2>3. Texted(k, checked) /\ TextsDated(k)
    BY <1>3, <2>1 DEF Sane, Texted, TextsDated
  <2>4. Sane(k, checked, ext)
    BY <2>1, <2>3, TakenSane
  <2> DEFINE D == ChecksOf(opened, ext)
             j == PutAll(k, opened, ext)
  <2>5. Rechecked(checked, opened, ext, D) /\ j = PutAll(k, opened, ext)
    BY ChecksOfIs
  <2> DEFINE O == opened
             m == ext
             C == checked
  <2>5a. O \in SUBSET Files /\ m \in Nat /\ Rechecked(C, O, m, D) /\ j = PutAll(k, O, m) /\ Sane(k, C, m)
    BY <1>0, <2>4, <2>5
  <2> HIDE DEF D, j, O, m, C
  <2>6. Sane(j, D, ext) /\ SameBut(k, j) /\ \A f \in Files : j.files[f] = None <=> k.files[f] = None
    <3>1. Sane(j, D, m) /\ SameBut(k, j) /\ \A f \in Files : j.files[f] = None <=> k.files[f] = None
      <4>1. k \in Index
        BY <2>1
      <4> QED
        BY <1>0, <2>5a, <4>1, PuttingSane
    <3> QED
      BY <3>1 DEF m
  <2>7. j \in Index
    BY <2>2, RebuiltTyped DEF Sure, j
  <2> QED
    BY <1>1, <2>1, <2>2, <2>6, <2>7 DEF D, j, SameBut
<1>5. CASE ~InputsMoved
  <2>1. Rebuilt = Seen /\ ReadyModel = model /\ ReadyAgain = {}
    BY <1>5 DEF Rebuilt, ReadyModel, ReadyAgain
  <2>2. \A f \in Files : ChecksOf({}, model)[f] = checked[f]
    BY DEF ChecksOf
  <2>3. Sane(Seen, ChecksOf({}, model), model)
    BY <1>3, <2>2 DEF Sane, Settled, Texted, Sound
  <2> QED
    BY <1>1, <2>1, <2>3
<1> QED
  BY <1>4, <1>5

LEMMA FirstRefsSane ==
  ASSUME NEW i \in Index, NEW C, NEW m, Sane(i, C, m), NEW j, j = FirstRefs(i)
  PROVE  /\ j \in Index /\ Sane(j, C, m) /\ j.refsBuilt /\ j.inputs = i.inputs
         /\ \A f \in Files : j.files[f] = None <=> i.files[f] = None
<1>1. CASE i.refsBuilt
  BY <1>1 DEF FirstRefs
<1>2. CASE ~i.refsBuilt
  <2> DEFINE k == Moved(i, {}, TRUE)
  <2>1. /\ k \in Index /\ AllTaken(k) /\ SameBut(i, k)
        /\ \A f \in Files : /\ k.files[f] = None <=> i.files[f] = None
                            /\ i.files[f] # None => k.files[f].text = i.files[f].text
    BY MovedTaken
  <2>2. j = [k EXCEPT !.refsBuilt = TRUE]
    BY <1>2 DEF FirstRefs
  <2> HIDE DEF k
  <2>3. j \in Index /\ j.files = k.files /\ j.inputs = k.inputs /\ j.refsBuilt = TRUE
    BY <2>1, <2>2 DEF Index
  <2>4. AllTaken(j) /\ Texted(j, C) /\ TextsDated(j)
    BY <2>1, <2>3 DEF AllTaken, Sane, Texted, TextsDated
  <2>5. Sane(j, C, m)
    BY <2>4, TakenSane
  <2> QED
    BY <2>1, <2>3, <2>5 DEF SameBut
<1> QED
  BY <1>1, <1>2

\* The index, the checks and the inputs Ready leaves.
LEMMA ReadySane ==
  ASSUME Sure, Ready
  PROVE  /\ Sane(ix', checked', model') /\ CheckedBy(checked', opened, model') /\ model' = ReadyModel
         /\ Rebuilt.files[req.here] # None => ix'.refsBuilt
         /\ Rebuilt.files[req.here] = None => ix'.refsBuilt = ix.refsBuilt
         /\ ix'.inputs = IF watching THEN ix.inputs ELSE ext
         /\ \A f \in Files : ix'.files[f] = None <=> ix.files[f] = None
<1> DEFINE m == ReadyModel
           R == Rebuilt
           F == FirstRefs(R)
           C == ChecksOf(ReadyAgain, m)
           Own == ReadyOwn
<1>1. /\ model' = m /\ checked' = ChecksOf(ReadyAgain \cup Own, m) /\ req.stage = "ready"
      /\ ix' = IF R.files[req.here] # None THEN PutAll(F, Own, m) ELSE R
      /\ UNCHANGED FreeToMove
  BY ReadyIs
<1>2. /\ req.here \in Files /\ model \in Nat /\ ext \in Nat /\ ~Refreshing /\ req.here \in opened
      /\ opened \in SUBSET Files /\ req.kind = "refs"
  BY <1>1 DEF Sure, Types, HandTyped, WorldTyped, ServerTyped, Refreshing, SymbolsInv, Places, ReferencesInv, Asking
<1>3. m \in Nat /\ ReadyAgain \in SUBSET Files /\ ReadyAgain \subseteq opened /\ Own \in SUBSET Files
      /\ Own \subseteq opened
  BY <1>2 DEF ReadyModel, ReadyAgain, ReadyOwn
<1>4. /\ R \in Index /\ Sane(R, C, m) /\ R.refsBuilt = ix.refsBuilt
      /\ R.inputs = IF watching THEN ix.inputs ELSE ext
      /\ \A f \in Files : R.files[f] = None <=> ix.files[f] = None
  BY <1>1, RebuiltSane
<1>5. Rechecked(checked, ReadyAgain, m, C)
  BY ChecksOfIs
<1>6. Rechecked(C, Own, m, checked')
  BY <1>1 DEF Rechecked, ChecksOf
<1>7. CheckedBy(C, opened, m)
  <2>1. \A g \in Files \ ReadyAgain : checked[g] # None =>
           checked[g].inputs = m /\ g \in opened /\ checked[g].text <= writes + 1
    BY DEF Sure, ReferencesInv, Checks, ReadyAgain, ReadyModel
  <2> QED
    BY <1>3, <1>5, <2>1, RecheckedBy
<1>8. Own = {} <=> ~(R.files[req.here] # None /\ F.files[req.here].distrust)
  BY DEF ReadyOwn
<1> HIDE DEF m, R, F, C, Own
<1>9. CheckedBy(checked', opened, m)
  <2>1. \A g \in Files \ Own : C[g] # None => C[g].inputs = m /\ g \in opened /\ C[g].text <= writes + 1
    BY <1>7 DEF CheckedBy
  <2> QED
    BY <1>3, <1>6, <2>1, RecheckedBy
<1>10. CASE R.files[req.here] = None
  <2>1. ix' = R /\ Own = {}
    BY <1>1, <1>8, <1>10
  <2>2. \A f \in Files : checked'[f] = C[f]
    BY <1>6, <2>1 DEF Rechecked
  <2>3. Sane(R, checked', m)
    BY <1>4, <2>2 DEF Sane, Settled, Texted, Sound
  <2> QED
    BY <1>1, <1>4, <1>9, <1>10, <2>1, <2>3 DEF R, m
<1>11. CASE R.files[req.here] # None
  <2>1. /\ F \in Index /\ Sane(F, C, m) /\ F.refsBuilt /\ F.inputs = R.inputs
        /\ \A f \in Files : F.files[f] = None <=> R.files[f] = None
    BY <1>4, FirstRefsSane DEF F
  <2>2. ix' = PutAll(F, Own, m)
    BY <1>1, <1>11
  <2>3. Sane(ix', checked', m) /\ SameBut(F, ix') /\ \A f \in Files : ix'.files[f] = None <=> F.files[f] = None
    BY <1>2, <1>3, <1>6, <2>1, <2>2, PuttingSane
  <2> QED
    BY <1>1, <1>4, <1>9, <1>11, <2>1, <2>3 DEF R, m, SameBut
<1> QED
  BY <1>10, <1>11

LEMMA ReferencesReady == ASSUME Sure, Ready PROVE ReferencesInv'
<1>1. /\ Sane(ix', checked', model') /\ CheckedBy(checked', opened, model') /\ model' = ReadyModel
      /\ Rebuilt.files[req.here] # None => ix'.refsBuilt
      /\ Rebuilt.files[req.here] = None => ix'.refsBuilt = ix.refsBuilt
      /\ ix'.inputs = IF watching THEN ix.inputs ELSE ext
      /\ \A f \in Files : ix'.files[f] = None <=> ix.files[f] = None
  BY ReadySane
<1>2. /\ req.stage = "ready" /\ UNCHANGED <<disk, stamp, calm, ext, writes, watching, told, opened>>
      /\ req.kind = "refs" /\ req.place = None /\ req.here \in opened /\ model \in Nat /\ ext \in Nat
      /\ ix.inputs \in Nat \cup {None}
  BY ReadyIs DEF FreeToMove, Sure, SymbolsInv, Places, ReferencesInv, Asking, Types, HandTyped, WorldTyped, Index
<1>3. /\ UNCHANGED <<req.quiet, req.kind, req.here, req.target>>
      /\ \/ req'.stage = "pending" /\ Rebuilt.files[req.here] # None
         \/ req'.stage = "idle" /\ req'.place = None
  <2>1. CASE req' = Replied(req, NoPlace)
    <3> DEFINE reply == NoPlace
    <3>1. req' = Replied(req, reply)
      BY <2>1
    <3> HIDE DEF reply
    <3> QED
      BY <1>2, <3>1, RepliedIs DEF Sure
  <2>2. ASSUME NEW p, req' = [req EXCEPT !.stage = "pending", !.place = p]
        PROVE  req'.stage = "pending" /\ UNCHANGED <<req.quiet, req.kind, req.here, req.target>>
    BY <2>2 DEF Sure, Types, Requests
  <2> QED
    BY <2>1, <2>2, ReadyIs
<1>4. ~Refreshing /\ ~Refreshing' /\ Held' = Held /\ There' = There
      /\ \A h \in Files : Later(h)' <=> Later(h)
  BY <1>1, <1>2, <1>3 DEF Refreshing, Held, There, OnDisk, Later
<1>5. Lost'
  BY <1>2, <1>3, <1>4 DEF Sure, ReferencesInv, Lost, LostAt, OnDisk, Later, Held
<1>6. Complete'
  BY <1>1, <1>2, <1>3, <1>4 DEF Sure, ReferencesInv, Complete
<1>7. Asking' /\ Changed'
  BY <1>2, <1>3, <1>4 DEF Asking, Changed
<1>8. model' # None /\ (watching => model' = model) /\ (~watching => model' = ext)
  <2>1. watching => model' = model
    BY <1>1 DEF ReadyModel, InputsMoved
  <2>2. ~watching => model' = ext
    BY <1>1, <1>2, NotNone DEF ReadyModel, InputsMoved, Sure, ReferencesInv, Checks
  <2> QED
    BY <1>2, <2>1, <2>2, NotNone
<1>9. Checks'
  <2>1. \A f \in Files : checked'[f] # None =>
           checked'[f].inputs = model' /\ f \in opened /\ checked'[f].text <= writes + 1
    BY <1>1 DEF CheckedBy
  <2>2. Texted(ix, checked)' /\ \A f \in Files : ix'.files[f] # None => ix'.files[f].text <= writes + 1
    BY <1>1, <1>2 DEF Sane, Texted, TextsDated, OnDisk
  <2>3. watching => model' \in {None, ext} \/ (Inputs \in told /\ opened # {})
    BY <1>8 DEF Sure, ReferencesInv, Checks
  <2> QED
    BY <1>1, <1>2, <1>8, <2>1, <2>2, <2>3 DEF Checks
<1>10. Filling'
  <2>1. req.quiet => model' = ext
    <3>1. req.quiet => Inputs \notin told
      BY DEF Sure, SymbolsInv, Places
    <3> QED
      BY <1>2, <1>8, <3>1, NotNone DEF Sure, ReferencesInv, Checks
  <2> QED
    BY <1>2, <1>3, <1>4, <2>1 DEF Filling, Asked
<1>11. Kept'
  BY <1>1, <1>2, <1>3, <1>4, SettledKept DEF Sane
<1>12. ReferencesAreCurrent'
  <2>1. CASE req'.stage = "pending"
    BY <2>1, NoReferences
  <2>2. CASE req'.place = None
    <3>1. ~Resolved'
      <4> SUFFICES ASSUME Resolvable' PROVE disk'[req'.target] # None
        BY <2>2 DEF Resolved
      <4>1. \A f : Closure(f)' \subseteq There'
        BY <1>4, ClosureIs, ClosureStays
      <4> QED
        BY <4>1 DEF Resolvable, There, OnDisk
    <3> QED
      BY <3>1 DEF ReferencesAreCurrent
  <2> QED
    BY <1>3, <2>1, <2>2
<1> QED
  BY <1>5, <1>6, <1>7, <1>9, <1>10, <1>11, <1>12 DEF ReferencesInv

\* The answer to a request nothing was said during, of a place that is where it was found.
LEMMA AnswerIsExpected ==
  ASSUME Sure, req.stage = "answer", Asked, Resolved
  PROVE  {h \in Hits : OnDisk(h.file)} = Expected
<1>1. /\ req.kind = "refs" /\ req.quiet /\ ~Refreshing /\ ix.refsBuilt /\ model = ext
      /\ \A f \in Files : ix.files[f] # None => ix.files[f].refs # None
  BY DEF Asked, Refreshing, Sure, ReferencesInv, Complete, Filling
<1>2. Held = There /\ \A f \in There : Fresh(ix, f)
  <2>1. \A f \in Held : OnDisk(f) /\ Fresh(ix, f)
    BY <1>1, QuietFresh
  <2>2. There \subseteq Held
    BY <1>1 DEF Sure, ReferencesInv, Complete
  <2> QED
    BY <2>1, <2>2 DEF There, Held
<1>3. ~Gap
  BY <1>1, <1>2 DEF Gap, Gone, Held, There
<1>4. req.target \in There /\ req.place = disk[req.target] /\ req.place # None
  BY ClosureIs DEF Resolved, Resolvable, There, OnDisk, Sure, Types, HandTyped
<1> DEFINE u(f) == ix.files[f].refs
           hit(f) == [file |-> f, text |-> disk[f], inputs |-> ext]
           P(f) == req.target \in {f} \cup Closure(f)
<1>5. ASSUME NEW f \in There
      PROVE  /\ u(f) # None /\ u(f).text = disk[f] /\ u(f).inputs = ext
             /\ PlaceIn(u(f), f, req.target) = req.place <=> P(f)
  <2>1. f \in Files /\ OnDisk(f) /\ ix.files[f] # None /\ Fresh(ix, f)
    BY <1>2 DEF There, Held
  <2>2. u(f) # None
    BY <1>1, <2>1
  <2>3. u(f).text = disk[f]
    BY <2>1, <2>2 DEF Sure, UsesInv, AllFit, Fits, Fresh
  <2>4. Sound(ix, checked, f) /\ u(f).inputs = ext
    BY <1>1, <1>3, <2>1, <2>2 DEF Sure, ReferencesInv, Kept
  <2>5. DOMAIN u(f).read = Closure(f) /\ \A g \in Closure(f) : u(f).read[g] = disk[g]
    <3>1. Reads(ix, u(f), f)
      BY <2>2, <2>4 DEF Sound
    <3>2. \A g \in Closure(f) : Fresh(ix, g)
      BY <1>2, ClosureIs
    <3> QED
      BY <1>1, <3>1, <3>2 DEF Reads
  <2>6. f \notin Closure(f)
    BY ClosureIs
  <2> HIDE DEF u
  <2>7. PlaceIn(u(f), f, req.target) = req.place <=> P(f)
    <3>1. OnDisk(req.target)
      BY <1>4 DEF There
    <3> QED
      BY <1>4, <2>2, <2>3, <2>5, <2>6, <3>1 DEF PlaceIn
  <2> QED
    BY <2>2, <2>3, <2>4, <2>7 DEF u
<1>6. \A f \in There : UsesOf(f) = IF P(f) THEN {u(f)} ELSE {}
  BY <1>5 DEF UsesOf
<1> HIDE DEF u, P
<1>7. Hits = {hit(f) : f \in {g \in There : P(g)}}
  <2> DEFINE made(f) == {[file |-> f, text |-> v.text, inputs |-> v.inputs] : v \in UsesOf(f)}
  <2>1. Hits = UNION {made(f) : f \in There}
    BY <1>1, <1>2 DEF Hits
  <2>2. \A f \in There : made(f) = IF P(f) THEN {hit(f)} ELSE {}
    <3> SUFFICES ASSUME NEW f \in There PROVE made(f) = IF P(f) THEN {hit(f)} ELSE {}
      OBVIOUS
    <3>1. u(f).text = disk[f] /\ u(f).inputs = ext
      BY <1>5
    <3>2. CASE P(f)
      <4>1. UsesOf(f) = {u(f)}
        BY <1>6, <3>2
      <4>2. made(f) = {[file |-> f, text |-> u(f).text, inputs |-> u(f).inputs]}
        BY <4>1
      <4> QED
        BY <3>1, <3>2, <4>2
    <3>3. CASE ~P(f)
      BY <1>6, <3>3
    <3> QED
      BY <3>2, <3>3
  <2> HIDE DEF made, hit
  <2> QED
    BY <2>1, <2>2
<1>8. Expected = {hit(f) : f \in {g \in There : P(g)}}
  <2>1. {g \in Files : OnDisk(g) /\ req.target \in {g} \cup Closure(g)} = {g \in There : P(g)}
    BY DEF There, P
  <2> QED
    BY <1>1, <2>1 DEF Expected
<1>9. \A h \in Hits : OnDisk(h.file)
  BY <1>7 DEF There
<1> QED
  BY <1>7, <1>8, <1>9

LEMMA ReferencesAnswer == ASSUME Sure, Answer PROVE ReferencesInv'
<1>1. Quietly /\ req.stage = "answer" /\ ~Refreshing
      /\ UNCHANGED <<disk, stamp, calm, ext, writes, watching, told, opened, model, checked>>
  BY AnswerIs DEF Sure, Quietly, FreeToMove, Refreshing
<1>2. There' = There
  BY <1>1 DEF There, OnDisk
<1>3. CASE req' = Replied(req, Named({h \in Hits : OnDisk(h.file)})) /\ ix' = ix
  <2> DEFINE reply == Named({h \in Hits : OnDisk(h.file)})
  <2>0. req' = Replied(req, reply)
    BY <1>3
  <2> HIDE DEF reply
  <2>1. /\ req'.stage = "idle" /\ req'.reply = reply
        /\ req'.quiet = req.quiet /\ req'.kind = req.kind
        /\ req'.place = req.place /\ req'.target = req.target /\ req'.here = req.here
    BY <2>0, RepliedIs DEF Sure
  <2>2. ~Refreshing' /\ Held' = Held
    BY <1>3, <2>1 DEF Refreshing, Held
  <2>3. Lost'
    BY <1>1, <1>3, <2>1, <2>2 DEF Sure, ReferencesInv, Lost, LostAt, OnDisk, Later
  <2>4. Complete' /\ Asking' /\ Changed' /\ Filling'
    BY <1>1, <1>2, <1>3, <2>1, <2>2 DEF Sure, ReferencesInv, Complete, Asking, Changed, Filling
  <2>5. Checks'
    BY <1>1, <1>3 DEF Sure, ReferencesInv, Checks, Texted, OnDisk
  <2>6. Kept'
    BY <1>1, <1>3, <2>1, <2>2, KeptSettled, SettledKept DEF Sure
  <2>7. ReferencesAreCurrent'
    <3> SUFFICES ASSUME req.kind = "refs", req.quiet, Resolved' PROVE req'.reply = Named(Expected)'
      BY <2>1 DEF ReferencesAreCurrent, Answered
    <3>1. \A f : Closure(f)' = Closure(f)
      BY <1>2, ClosureStays
    <3>2. Resolved
      BY <1>1, <2>1, <3>1 DEF Resolved, Resolvable, OnDisk
    <3>3. {h \in Hits : OnDisk(h.file)} = Expected
      BY <1>1, <3>2, AnswerIsExpected DEF Asked
    <3>4. Expected' = Expected
      BY <1>1, <1>2, <2>1, <3>1 DEF Expected, OnDisk
    <3> QED
      BY <2>1, <3>3, <3>4 DEF reply, Named
  <2> QED
    BY <2>3, <2>4, <2>5, <2>6, <2>7 DEF ReferencesInv
<1>4. CASE /\ req'.stage = "stat" /\ req'.round = 1 /\ req'.all = TRUE /\ req'.changed = {}
           /\ req'.todo = There /\ req'.structural = (\E f \in Held : ~OnDisk(f))
           /\ UNCHANGED <<req.quiet, req.kind, req.place, req.target, req.here>>
           /\ ix'.dirty = ix.dirty /\ ix'.relist = TRUE
           /\ ix'.refsBuilt = ix.refsBuilt /\ ix'.inputs = ix.inputs
           /\ \A f \in Files : ix'.files[f] = IF OnDisk(f) THEN ix.files[f] ELSE None
  <2>1. Refreshing' /\ Held' = Held \cap There
    BY <1>4 DEF Refreshing, Held, There
  <2>2. Lost'
    BY <1>1, <1>4, <2>1 DEF Lost, There, OnDisk
  <2>3. Complete'
    <3>1. ix.refsBuilt => There \subseteq Held
      BY DEF Sure, ReferencesInv, Complete
    <3>2. req.kind = "refs" => ix.refsBuilt
      BY <1>1 DEF Sure, ReferencesInv, Complete
    <3> QED
      BY <1>2, <1>4, <2>1, <3>1, <3>2 DEF Complete
  <2>4. Asking'
    BY <1>1, <1>4 DEF Sure, ReferencesInv, Asking
  <2>5. Changed'
    BY <1>4 DEF Changed
  <2>6. Filling'
    BY <1>1, <1>4 DEF Sure, ReferencesInv, Filling, Asked
  <2>7. Checks'
    <3>1. \A f \in Files : ix'.files[f] # None => ix'.files[f] = ix.files[f]
      BY <1>4
    <3>2. model # None
      BY <1>1, NotNone DEF Sure, Types, HandTyped
    <3>3. Texted(ix, checked)'
      BY <1>1, <3>1 DEF Sure, ReferencesInv, Checks, Texted, OnDisk
    <3> QED
      BY <1>1, <1>4, <3>1, <3>2, <3>3 DEF Sure, ReferencesInv, Checks
  <2>8. Kept'
    <3> SUFFICES ASSUME ix'.refsBuilt, NEW h \in Files, ix'.files[h] # None, OnDisk(h)'
                 PROVE  /\ Gap' \/ Sound(ix, checked, h)'
                        /\ ix'.files[h].refs # None => ix'.files[h].refs.inputs = model'
      BY <1>4 DEF Kept
    <3>1. ix.refsBuilt /\ ix.files[h] # None /\ ix'.files[h] = ix.files[h] /\ OnDisk(h)
      BY <1>1, <1>4 DEF OnDisk
    <3>2. /\ Gone(ix) \/ Sound(ix, checked, h)
          /\ ix.files[h].refs # None => ix.files[h].refs.inputs = model
      BY <1>1, <3>1 DEF Sure, ReferencesInv, Kept, Gap
    <3>3. ASSUME Gone(ix) PROVE Gap'
      <4>1. \E f \in Held : ~OnDisk(f)
        BY <3>3 DEF Gone, Held
      <4>2. req'.structural = TRUE
        BY <1>4, <4>1
      <4> QED
        BY <2>1, <4>2 DEF Gap
    <3>4. ASSUME Sound(ix, checked, h) PROVE Sound(ix, checked, h)'
      <4>1. \A k \in Closure(h) : ~Fresh(ix, k) => ~Fresh(ix', k)
        BY <1>4, ClosureIs DEF Fresh, There
      <4> QED
        BY <1>1, <3>1, <3>4, <4>1, SoundGoes
    <3> QED
      BY <1>1, <3>1, <3>2, <3>3, <3>4
  <2>9. ReferencesAreCurrent'
    BY <1>4, NoReferences
  <2> QED
    BY <2>2, <2>3, <2>4, <2>5, <2>6, <2>7, <2>8, <2>9 DEF ReferencesInv
<1> QED
  BY <1>3, <1>4, AnswerIs DEF Sure

LEMMA ReferencesInit == ASSUME Init PROVE ReferencesInv
<1>1. /\ Held = {} /\ There = Files /\ ix.relist /\ ~ix.refsBuilt /\ req.stage = "idle" /\ ~Refreshing
      /\ ix.inputs = None /\ model = None /\ opened = {} /\ \A f \in Files : checked[f] = None /\ ix.files[f] = None
      /\ req.reply = None
  BY NotNone DEF Init, Held, There, OnDisk, NoIndex, Idle, Refreshing
<1> QED
  BY <1>1 DEF ReferencesInv, Lost, Complete, Asking, Checks, Texted, Kept, Changed, Filling,
              ReferencesAreCurrent, Answered

LEMMA ReferencesStep == ASSUME AllSaid, Sure, [Next]_vars PROVE ReferencesInv'
<1>1. CASE World
  <2>1. ASSUME NEW f \in Files, Settle(f) PROVE ReferencesInv'
    BY <2>1, NothingMoves DEF Settle, Sure
  <2> QED
    BY <1>1, <2>1, WorldIsWorldly, WorldReferences
<1>2. CASE Client
  BY <1>2, ReferencesSave, ReferencesFileEvent, ReferencesInputsEvent, ReferencesAsk DEF Client
<1>3. CASE Server
  BY <1>3, ReferencesStat, ReferencesFillFromCheck, ReferencesFillReads, ReferencesReadText,
     ReferencesRefreshed, ReferencesReady, ReferencesPending, ReferencesFillChecks, ReferencesFillKeeps,
     ReferencesFilled, ReferencesAnswer DEF Server
<1>4. CASE UNCHANGED vars
  BY <1>4, NothingMoves DEF vars, Sure
<1> QED
  BY <1>1, <1>2, <1>3, <1>4 DEF Next

\* Where nothing unusual happens, what the client is told, of symbols and of references, is what
\* an index made of the files as they are would say: no use outlives a change of a file its check
\* read, by whatever way the server learned of the change.
THEOREM AnswersCurrent ==
  ASSUME AllSaid
  PROVE  Spec => []AnswersAreCurrent
<1>1. Init => Sure
  <2> SUFFICES ASSUME Init PROVE UsesInv
    BY TypesInit, SymbolsInit, ReferencesInit DEF Sure
  <2> QED
    BY DEF Init, UsesInv, AllFit, NoIndex, Dated, Making, Idle, Fits
<1>2. Sure /\ [Next]_vars => Sure'
  <2>1. NoText
    BY DEF NoText, AllSaid
  <2> QED
    BY <2>1, TypesStep, SymbolsStep, UsesStep, ReferencesStep DEF Sure
<1>3. Sure => AnswersAreCurrent
  BY DEF Sure, SymbolsInv, ReferencesInv, AnswersAreCurrent
<1> QED
  BY <1>1, <1>2, <1>3, PTL DEF Spec
====
