--------------------------- MODULE ResolverProofs ---------------------------
(***************************************************************************)
(* Proofs about the two users of the resolver.  Of HostDirs, for any       *)
(* directories, any files in them and any order of changes and questions:  *)
(* the table holds what a walk of the directories meets, what makes it be  *)
(* read again is there afterwards, and a name is one file to the check and *)
(* to the run.  Of Link, for any project: a bundle that is handed out is   *)
(* what was checked, and no more.                                         *)
(***************************************************************************)
EXTENDS HostDirs, Link, FiniteSetTheorems, WellFoundedInduction, TLAPS

\* More files, and a walk meets no fewer.
LEMMA WalkGrows ==
    ASSUME NEW p, NEW less, NEW more, less \subseteq more
    PROVE  Walked(p, less) \subseteq Walked(p, more)
BY DEF Walked

\* The state is well formed: the table names files of the directories only, those
\* a walk of them could have met.
THEOREM TypesHold == Spec => []TypeOK
<1>1. Init => TypeOK
  <2> SUFFICES ASSUME Init PROVE TypeOK
    OBVIOUS
  <2>1. disk \subseteq project.files
    BY DEF Init
  <2>2. table \subseteq Walked(project, project.files)
    BY <2>1, WalkGrows DEF Init
  <2> QED
    BY <2>1, <2>2 DEF Init, TypeOK
<1>2. TypeOK /\ [Next]_vars => TypeOK'
  <2> SUFFICES ASSUME TypeOK, [Next]_vars PROVE TypeOK'
    OBVIOUS
  <2>1. Walked(project, disk) \subseteq Walked(project, project.files)
    BY WalkGrows DEF TypeOK
  <2>2. CASE \E f \in project.files : Added(f) \/ Removed(f)
    BY <2>2 DEF TypeOK, Added, Removed
  <2>3. CASE \E n \in Names(project) : Load(n)
    <3>1. table' \subseteq Walked(project, project.files) /\ live' \in BOOLEAN
      BY <2>1, <2>3 DEF TypeOK, Load
    <3>2. UNCHANGED <<project, disk>>
      BY <2>3 DEF Load
    <3> QED
      BY <3>1, <3>2 DEF TypeOK
  <2>4. CASE \E n \in Names(project), r \in disk \cup {None} : Ask(r, Plain(n))
    <3>1. PICK n \in Names(project), r \in disk \cup {None} : Ask(r, Plain(n))
      BY <2>4
    <3>2. table' \subseteq Walked(project, project.files)
      BY <2>1, <3>1 DEF TypeOK, Ask, TableFor
    <3>3. UNCHANGED <<project, disk, live>>
      BY <3>1 DEF Ask
    <3> QED
      BY <3>2, <3>3 DEF TypeOK
  <2>5. CASE UNCHANGED vars
    BY <2>5 DEF vars, TypeOK
  <2> QED
    BY <2>2, <2>3, <2>4, <2>5 DEF Next
<1> QED
  BY <1>1, <1>2, PTL DEF Spec

-----------------------------------------------------------------------------

\* A directory is above what is below it.
LEMMA BelowIsUnder ==
    ASSUME NEW root \in Seq(STRING), NEW dir \in Seq(STRING)
    PROVE  IsPrefix(root, root \o dir)
<1>1. /\ root \o dir \in Seq(STRING)
      /\ Len(root \o dir) = Len(root) + Len(dir)
      /\ \A i \in 1 .. Len(root) : (root \o dir)[i] = root[i]
  OBVIOUS
<1>2. SubSeq(root, 1, Len(root)) = SubSeq(root \o dir, 1, Len(root))
  BY <1>1
<1> QED
  BY <1>1, <1>2 DEF IsPrefix

\* The directory a spelling of a name puts its file in.
LEMMA CandidateTyped ==
    ASSUME NEW mount \in Seq(STRING), NEW n \in Seq(STRING), NEW c \in Candidates(mount, n)
    PROVE  c.dir \in Seq(STRING) /\ c = [dir |-> c.dir, stem |-> c.stem, ext |-> c.ext]
<1> DEFINE rest == SubSeq(n, Len(mount) + 1, Len(n))
<1>1. rest \in Seq(STRING)
  OBVIOUS
<1>2. rest # <<>> => Front(rest) \in Seq(STRING)
  BY <1>1 DEF Front
<1>3. <<>> \in Seq(STRING)
  OBVIOUS
<1> HIDE DEF rest
<1> DEFINE spelled == IF rest = <<>>
                      THEN {<<<<>>, <<Last(mount)>>>>, <<<<>>, <<"init">>>>}
                      ELSE {<<Front(rest), <<Last(rest)>>>>, <<rest, <<"init">>>>}
<1>4. \A s \in spelled : s[1] \in Seq(STRING)
  BY <1>1, <1>2, <1>3
<1>5. PICK s \in spelled, e \in Exts : c = [dir |-> s[1], stem |-> s[2], ext |-> e]
  BY DEF Candidates, rest
<1> QED
  BY <1>4, <1>5

\* What a directory gained, a walk of it meets.
LEMMA GainedIsWalked ==
    ASSUME NEW p \in Projects, NEW r \in WalkRoots(p), NEW n \in Names(p), NEW files,
           NEW c \in Candidates(p.modules[r.module].mount, n),
           Below(r.dir, c) \in files, ~WalkSkips(r.dir, Below(r.dir, c).dir)
    PROVE  Below(r.dir, c) \in Walked(p, files)
<1>1. /\ r.dir \in Seq(STRING) /\ n \in Seq(STRING)
      /\ p.modules[r.module].mount \in Seq(STRING)
  BY ProjectsTyped DEF WalkRoots
<1>2. c.dir \in Seq(STRING) /\ c = [dir |-> c.dir, stem |-> c.stem, ext |-> c.ext]
  BY <1>1, CandidateTyped
<1>3. Below(r.dir, c).dir = r.dir \o c.dir
  BY <1>2 DEF Below
<1>4. IsPrefix(r.dir, Below(r.dir, c).dir)
  BY <1>1, <1>2, <1>3, BelowIsUnder
<1> QED
  BY <1>4 DEF Walked

\* The table is not read again for nothing: a name a directory gained a file of has
\* that file in the next table, with which it is not gained any more.
THEOREM ReadAgainOnce == Spec => []GainedSettles
<1>1. TypeOK => GainedSettles
  <2> SUFFICES ASSUME TypeOK,
                      NEW n \in Names(project),
                      Gained(project, table, disk, Plain(n))
               PROVE  /\ ~Gained(project, Walked(project, disk), disk, Plain(n))
                      /\ ~(Claims(project, Walked(project, disk), n)
                            \subseteq Claims(project, table, n))
    BY DEF GainedSettles
  <2>1. project \in Projects /\ Plain(n).of = n
    BY DEF TypeOK, Plain
  <2>2. ~Gained(project, Walked(project, disk), disk, Plain(n))
    BY <2>1, GainedIsWalked DEF Gained
  <2>0. PICK r \in WalkRoots(project) :
          \E c \in Candidates(project.modules[r.module].mount, n) :
            /\ Below(r.dir, c) \in disk \ table
            /\ ~WalkSkips(r.dir, Below(r.dir, c).dir)
            /\ Placed[project][Below(r.dir, c)] # None
            /\ Placed[project][Below(r.dir, c)].name = n
    BY <2>1 DEF Gained
  <2>3. PICK c \in Candidates(project.modules[r.module].mount, n) :
          /\ Below(r.dir, c) \in disk \ table
          /\ ~WalkSkips(r.dir, Below(r.dir, c).dir)
          /\ Placed[project][Below(r.dir, c)] # None
          /\ Placed[project][Below(r.dir, c)].name = n
    BY <2>0
  <2> DEFINE f == Below(r.dir, c)
             e == Placed[project][f]
  <2>4. f \in Walked(project, disk)
    BY <2>1, <2>3, GainedIsWalked
  <2>5. e \in Claims(project, Walked(project, disk), n)
    BY <2>3, <2>4 DEF Claims
  <2>6. \A g \in disk \cup table : Placed[project][g] # None => Placed[project][g].file = g
    BY DEF TypeOK, Placed, Place, Walked
  <2>7. e \notin Claims(project, table, n)
    BY <2>3, <2>6 DEF Claims
  <2> QED
    BY <2>2, <2>5, <2>7
<1> QED
  BY <1>1, TypesHold, PTL

-----------------------------------------------------------------------------
(* Sequences that begin alike, and least numbers.                          *)

Earlier == {x \in Nat \X Nat : x[1] < x[2]}

LEMMA EarlierIsWellFounded == IsWellFoundedOn(Earlier, Nat)
BY NatLessThanWellFounded DEF Earlier, OpToRel

\* A set of naturals that is not empty has a least member.
LEMMA HasLeast ==
    ASSUME NEW T \in SUBSET Nat, T # {}
    PROVE  \E n \in T : \A m \in T : n <= m
<1>1. PICK n \in T : \A m \in T : ~(<<m, n>> \in Earlier)
  BY EarlierIsWellFounded, WFMin
<1>2. ASSUME NEW m \in T PROVE n <= m
  <2>1. m \in Nat /\ n \in Nat
    OBVIOUS
  <2>2. <<m, n>> \in Earlier <=> m < n
    BY <2>1 DEF Earlier
  <2> QED
    BY <1>1, <2>1, <2>2
<1> QED
  BY <1>2

\* What a prefix is, element by element.
LEMMA PrefixIs ==
    ASSUME NEW s \in Seq(STRING), NEW t \in Seq(STRING)
    PROVE  IsPrefix(s, t) <=> Len(s) <= Len(t) /\ \A i \in 1 .. Len(s) : s[i] = t[i]
<1>1. ASSUME IsPrefix(s, t) PROVE Len(s) <= Len(t) /\ \A i \in 1 .. Len(s) : s[i] = t[i]
  <2>1. Len(s) <= Len(t) /\ SubSeq(s, 1, Len(s)) = SubSeq(t, 1, Len(s))
    BY <1>1 DEF IsPrefix
  <2>2. ASSUME NEW i \in 1 .. Len(s) PROVE s[i] = t[i]
    <3>1. SubSeq(s, 1, Len(s))[i] = s[i]
      OBVIOUS
    <3>2. SubSeq(t, 1, Len(s))[i] = t[i]
      BY <2>1
    <3> QED
      BY <2>1, <3>1, <3>2
  <2> QED
    BY <2>1, <2>2
<1>2. ASSUME Len(s) <= Len(t), \A i \in 1 .. Len(s) : s[i] = t[i] PROVE IsPrefix(s, t)
  <2>1. SubSeq(s, 1, Len(s)) = SubSeq(t, 1, Len(s))
    BY <1>2
  <2> QED
    BY <1>2, <2>1 DEF IsPrefix
<1> QED
  BY <1>1, <1>2

\* What follows a prefix.
LEMMA RestOf ==
    ASSUME NEW s \in Seq(STRING), NEW t \in Seq(STRING)
    PROVE  SubSeq(s \o t, Len(s) + 1, Len(s \o t)) = t
<1> DEFINE u == SubSeq(s \o t, Len(s) + 1, Len(s \o t))
<1>1. /\ s \o t \in Seq(STRING) /\ Len(s \o t) = Len(s) + Len(t)
      /\ \A i \in 1 .. Len(t) : (s \o t)[Len(s) + i] = t[i]
  OBVIOUS
<1>2. u \in Seq(STRING) /\ Len(u) = Len(t)
  BY <1>1
<1>3. \A i \in 1 .. Len(t) : u[i] = t[i]
  BY <1>1
<1> QED
  BY <1>2, <1>3

LEMMA PrefixAndRest ==
    ASSUME NEW s \in Seq(STRING), NEW t \in Seq(STRING), IsPrefix(s, t)
    PROVE  /\ SubSeq(t, Len(s) + 1, Len(t)) \in Seq(STRING)
           /\ t = s \o SubSeq(t, Len(s) + 1, Len(t))
<1> DEFINE u == SubSeq(t, Len(s) + 1, Len(t))
<1>1. Len(s) <= Len(t) /\ \A i \in 1 .. Len(s) : s[i] = t[i]
  BY PrefixIs
<1>2. /\ u \in Seq(STRING) /\ Len(u) = Len(t) - Len(s)
      /\ \A i \in 1 .. Len(u) : u[i] = t[Len(s) + i]
  BY <1>1
<1> HIDE DEF u
<1>3. s \o u \in Seq(STRING) /\ Len(s \o u) = Len(t)
  BY <1>1, <1>2
<1>4. ASSUME NEW i \in 1 .. Len(t) PROVE (s \o u)[i] = t[i]
  <2>1. CASE i <= Len(s)
    BY <1>1, <2>1
  <2>2. CASE i > Len(s)
    <3>1. i - Len(s) \in 1 .. Len(u) /\ (s \o u)[i] = u[i - Len(s)]
      BY <1>2, <2>2
    <3> QED
      BY <1>2, <3>1, <2>2
  <2>3. i <= Len(s) \/ i > Len(s)
    <3>1. i \in Nat /\ Len(s) \in Nat
      OBVIOUS
    <3> QED
      BY <3>1
  <2> QED
    BY <2>1, <2>2, <2>3, Zenon
<1> QED
  BY <1>2, <1>3, <1>4 DEF u

LEMMA SamePrefix ==
    ASSUME NEW s \in Seq(STRING), NEW t \in Seq(STRING), NEW u \in Seq(STRING),
           IsPrefix(s, u), IsPrefix(t, u)
    PROVE  /\ Len(s) = Len(t) => s = t
           /\ Len(s) < Len(t) => IsStrictPrefix(s, t)
<1>1. /\ Len(s) <= Len(u) /\ \A i \in 1 .. Len(s) : s[i] = u[i]
      /\ Len(t) <= Len(u) /\ \A i \in 1 .. Len(t) : t[i] = u[i]
  BY PrefixIs
<1>2. Len(s) = Len(t) => s = t
  BY <1>1
<1>3. ASSUME Len(s) < Len(t) PROVE IsPrefix(s, t)
  <2>1. \A i \in 1 .. Len(s) : s[i] = t[i]
    BY <1>1, <1>3
  <2> QED
    BY <1>3, <2>1, PrefixIs
<1>4. Len(s) < Len(t) => s # t
  OBVIOUS
<1> QED
  BY <1>2, <1>3, <1>4 DEF IsStrictPrefix

\* More than one, and two that differ.
LEMMA MoreThanOne ==
    ASSUME NEW S, IsFiniteSet(S)
    PROVE  Cardinality(S) > 1 <=> \E x, y \in S : x # y
<1>1. Cardinality(S) \in Nat
  BY FS_CardinalityType
<1>2. ASSUME NEW x \in S, NEW y \in S, x # y PROVE Cardinality(S) > 1
  <2>1. Cardinality(S) # 0
    BY FS_EmptySet
  <2>2. Cardinality(S) # 1
    BY <1>2, FS_Singleton
  <2> QED
    BY <1>1, <2>1, <2>2
<1>3. ASSUME \A x, y \in S : x = y PROVE ~(Cardinality(S) > 1)
  <2>1. CASE S = {}
    BY <2>1, FS_EmptySet
  <2>2. CASE S # {}
    <3>1. PICK x \in S : TRUE
      BY <2>2
    <3>2. S = {x}
      BY <1>3
    <3> QED
      BY <3>2, FS_Singleton
  <2> QED
    BY <2>1, <2>2
<1> QED
  BY <1>2, <1>3

-----------------------------------------------------------------------------
(* Where a file is placed.                                                 *)

Holding(p, f) == {r \in Roots(p) : IsPrefix(r.dir, f.dir)}
Rel(r, f) == SubSeq(f.dir, Len(r.dir) + 1, Len(f.dir))
Mount(p, r) == p.modules[r.module].mount

\* r holds f most specifically.
Holds(p, r, f) ==
    r \in Holding(p, f) /\ \A q \in Holding(p, f) : Len(q.dir) <= Len(r.dir)

LEMMA RootsTyped ==
    ASSUME NEW p \in Projects, NEW r \in Roots(p)
    PROVE  /\ r.dir \in Seq(STRING) /\ Mount(p, r) \in Seq(STRING)
           /\ r.module \in DOMAIN p.modules /\ r.module \in Nat
           /\ Listed(r) \in Nat /\ Listed(r) <= 3 * Len(p.modules) + 3
           /\ r = [module |-> r.module, role |-> r.role, dir |-> r.dir]
<1>1. /\ r.dir \in Seq(STRING) /\ Mount(p, r) \in Seq(STRING) /\ r.role \in DOMAIN RoleOrder
      /\ Len(p.modules) \in Nat /\ DOMAIN p.modules = 1 .. Len(p.modules)
  BY ProjectsTyped DEF Mount
<1>2. PICK i \in DOMAIN p.modules :
        r \in {[module |-> i, role |-> q.role, dir |-> q.dir] : q \in p.modules[i].roots}
  BY DEF Roots
<1>3. r.module = i /\ r = [module |-> r.module, role |-> r.role, dir |-> r.dir]
  BY <1>2
<1>4. RoleOrder[r.role] \in 1 .. 3
  <2>1. r.role \in {"source", "test", "decl"}
    BY <1>1 DEF RoleOrder
  <2> QED
    BY <2>1 DEF RoleOrder
<1>5. r.module \in 1 .. Len(p.modules)
  BY <1>1, <1>2, <1>3
<1> QED
  BY <1>1, <1>3, <1>4, <1>5 DEF Listed

\* Of the roots that hold a file one does so most specifically, and last.
LEMMA OneHolds ==
    ASSUME NEW p \in Projects, NEW f \in p.files, Holding(p, f) # {}
    PROVE  \E r \in Holding(p, f) : \A q \in Holding(p, f) :
             \/ Len(q.dir) < Len(r.dir)
             \/ Len(q.dir) = Len(r.dir) /\ Listed(q) <= Listed(r)
<1> DEFINE H == Holding(p, f)
           L == Len(f.dir)
           M == 3 * Len(p.modules) + 3
<1>1. L \in Nat /\ M \in Nat
  BY ProjectsTyped
<1>2. \A q \in H : /\ Len(q.dir) \in Nat /\ Len(q.dir) <= L
                   /\ Listed(q) \in Nat /\ Listed(q) <= M
  BY RootsTyped DEF Holding, IsPrefix
<1>3. H # {}
  OBVIOUS
<1> HIDE DEF H, L, M
<1>4. PICK n \in {L - Len(q.dir) : q \in H} : \A m \in {L - Len(q.dir) : q \in H} : n <= m
  <2>1. {L - Len(q.dir) : q \in H} \in SUBSET Nat /\ {L - Len(q.dir) : q \in H} # {}
    BY <1>1, <1>2, <1>3
  <2> QED
    BY <2>1, HasLeast
<1> DEFINE K == {q \in H : L - Len(q.dir) = n}
<1>5. PICK m \in {M - Listed(q) : q \in K} : \A k \in {M - Listed(q) : q \in K} : m <= k
  <2>1. {M - Listed(q) : q \in K} \in SUBSET Nat /\ {M - Listed(q) : q \in K} # {}
    BY <1>1, <1>2, <1>4
  <2> QED
    BY <2>1, HasLeast
<1>6. PICK r \in K : M - Listed(r) = m
  BY <1>5
<1>7. ASSUME NEW q \in H
      PROVE  \/ Len(q.dir) < Len(r.dir)
             \/ Len(q.dir) = Len(r.dir) /\ Listed(q) <= Listed(r)
  <2>1. n <= L - Len(q.dir) /\ n = L - Len(r.dir) /\ r \in H
    BY <1>4, <1>6
  <2>2. Len(q.dir) <= Len(r.dir) /\ Len(q.dir) \in Nat /\ Len(r.dir) \in Nat
    BY <1>1, <1>2, <2>1
  <2>3. CASE Len(q.dir) = Len(r.dir)
    <3>1. q \in K
      BY <2>1, <2>3
    <3>2. M - Listed(r) <= M - Listed(q)
      BY <1>5, <1>6, <3>1
    <3> QED
      BY <1>1, <1>2, <2>1, <2>3, <3>2
  <2> QED
    BY <2>2, <2>3
<1> QED
  BY <1>6, <1>7 DEF H

LEMMA FilesTyped ==
    ASSUME NEW p \in Projects, NEW f \in p.files
    PROVE  /\ f.dir \in Seq(STRING) /\ f.stem \in Seq(STRING) /\ f.ext \in Exts
           /\ f = [dir |-> f.dir, stem |-> f.stem, ext |-> f.ext] /\ f # None
BY ProjectsTyped, NonePlaced

LEMMA NamesTyped ==
    ASSUME NEW mount \in Seq(STRING), NEW rel \in Seq(STRING), NEW stem \in Seq(STRING)
    PROVE  NameOf(mount, rel, stem) \in Seq(STRING)
<1>1. mount \o rel \in Seq(STRING) /\ <<>> \in Seq(STRING)
  OBVIOUS
<1>2. mount \o rel \o <<>> \in Seq(STRING) /\ mount \o rel \o stem \in Seq(STRING)
  BY <1>1
<1> QED
  BY <1>2 DEF NameOf

\* The root a file is met under is a place in the list of roots.
LEMMA MetTyped == ASSUME NEW p \in Projects, NEW f PROVE Met(p, f) \in Nat
<1> DEFINE met == {Listed(r) : r \in {r \in WalkRoots(p) :
                     IsPrefix(r.dir, f.dir) /\ ~WalkSkips(r.dir, f.dir)}}
<1>1. met \in SUBSET Nat
  BY RootsTyped DEF WalkRoots
<1>2. Met(p, f) = IF met = {} THEN 0 ELSE Min(met)
  BY DEF Met
<1> HIDE DEF met
<1>3. ASSUME met # {} PROVE Min(met) \in Nat
  <2>1. PICK n \in met : \A m \in met : n <= m
    BY <1>1, <1>3, HasLeast
  <2>2. Min(met) \in met
    BY <2>1 DEF Min
  <2> QED
    BY <1>1, <2>2
<1>4. 0 \in Nat
  OBVIOUS
<1> QED
  BY <1>2, <1>3, <1>4

\* What is in the table of a file: the root that holds it most specifically names it.
LEMMA PlaceIs ==
    ASSUME NEW p \in Projects, NEW f \in p.files, Holding(p, f) # {}
    PROVE  \E r \in Roots(p) :
             /\ Holds(p, r, f)
             /\ LET name == NameOf(Mount(p, r), Rel(r, f), f.stem)
                    role == IF r.role = "test" THEN "test"
                            ELSE IF f.ext = "d.tl" THEN "decl" ELSE "source"
                IN  Placed[p][f] = IF name = <<>> THEN None
                                   ELSE [file |-> f, module |-> r.module, name |-> name,
                                         root |-> Met(p, f), role |-> role]
<1> DEFINE best(r) == \A q \in Holding(p, f) :
                        \/ Len(q.dir) < Len(r.dir)
                        \/ Len(q.dir) = Len(r.dir) /\ Listed(q) <= Listed(r)
           r == CHOOSE r \in Holding(p, f) : best(r)
<1>1. r \in Holding(p, f) /\ best(r)
  BY OneHolds
<1>2. r \in Roots(p) /\ Holds(p, r, f)
  <2>1. \A q \in Holding(p, f) : Len(q.dir) \in Nat
    BY RootsTyped DEF Holding
  <2> HIDE DEF r
  <2>2. \A q \in Holding(p, f) : Len(q.dir) <= Len(r.dir)
    BY <1>1, <2>1
  <2> QED
    BY <1>1, <2>2 DEF Holds, Holding
<1>3. Placed[p][f] = Place(p, f)
  BY DEF Placed
<1>4. Place(p, f) = LET name == NameOf(Mount(p, r), Rel(r, f), f.stem)
                        role == IF r.role = "test" THEN "test"
                                ELSE IF f.ext = "d.tl" THEN "decl" ELSE "source"
                    IN  IF name = <<>> THEN None
                        ELSE [file |-> f, module |-> r.module, name |-> name,
                              root |-> Met(p, f), role |-> role]
  BY DEF Place, Holding, Mount, Rel
<1> HIDE DEF r
<1> QED
  BY <1>2, <1>3, <1>4

\* A file that has an entry, and its entry.
LEMMA EntryOf ==
    ASSUME NEW p \in Projects, NEW f \in p.files, Placed[p][f] # None
    PROVE  LET e == Placed[p][f]
           IN  /\ e.file = f /\ e.module \in Nat /\ e.root \in Nat
               /\ \E r \in Roots(p) : /\ Holds(p, r, f) /\ e.module = r.module
                                      /\ e.name = NameOf(Mount(p, r), Rel(r, f), f.stem)
<1> DEFINE e == Placed[p][f]
<1>1. Holding(p, f) # {}
  BY DEF Placed, Place, Holding
<1>2. PICK r \in Roots(p) :
        /\ Holds(p, r, f)
        /\ LET name == NameOf(Mount(p, r), Rel(r, f), f.stem)
               role == IF r.role = "test" THEN "test"
                       ELSE IF f.ext = "d.tl" THEN "decl" ELSE "source"
           IN  e = IF name = <<>> THEN None
                   ELSE [file |-> f, module |-> r.module, name |-> name,
                         root |-> Met(p, f), role |-> role]
  BY <1>1, PlaceIs
<1> HIDE DEF e
<1>3. /\ e.file = f /\ e.module = r.module /\ e.root = Met(p, f)
      /\ e.name = NameOf(Mount(p, r), Rel(r, f), f.stem)
  <2>1. e # None
    BY DEF e
  <2> QED
    BY <1>2, <2>1
<1>4. r.module \in Nat /\ Met(p, f) \in Nat
  BY RootsTyped, MetTyped
<1> QED
  BY <1>2, <1>3, <1>4 DEF e

\* No two modules have one directory.
RootsApart == \A p \in Projects : \A q, r \in Roots(p) : q.dir = r.dir => q.module = r.module

\* A file that a root holds most specifically has an entry of that root's module.
LEMMA HeldHasEntry ==
    ASSUME RootsApart, NEW p \in Projects, NEW f \in p.files, NEW r \in Roots(p), Holds(p, r, f),
           NameOf(Mount(p, r), Rel(r, f), f.stem) # <<>>
    PROVE  /\ Placed[p][f] # None
           /\ Placed[p][f].module = r.module
           /\ Placed[p][f].name = NameOf(Mount(p, r), Rel(r, f), f.stem)
<1>1. Holding(p, f) # {}
  BY DEF Holds
<1>2. PICK q \in Roots(p) :
        /\ Holds(p, q, f)
        /\ LET name == NameOf(Mount(p, q), Rel(q, f), f.stem)
               role == IF q.role = "test" THEN "test"
                       ELSE IF f.ext = "d.tl" THEN "decl" ELSE "source"
           IN  Placed[p][f] = IF name = <<>> THEN None
                              ELSE [file |-> f, module |-> q.module, name |-> name,
                                    root |-> Met(p, f), role |-> role]
  BY <1>1, PlaceIs
<1>3. q.dir = r.dir
  <2>1. Len(q.dir) <= Len(r.dir) /\ Len(r.dir) <= Len(q.dir)
    BY <1>2 DEF Holds
  <2>2. IsPrefix(q.dir, f.dir) /\ IsPrefix(r.dir, f.dir)
    BY <1>2 DEF Holds, Holding
  <2>3. q.dir \in Seq(STRING) /\ r.dir \in Seq(STRING) /\ f.dir \in Seq(STRING)
    BY RootsTyped, FilesTyped
  <2>4. Len(q.dir) = Len(r.dir)
    BY <2>1, <2>3
  <2> QED
    BY <2>2, <2>3, <2>4, SamePrefix
<1>4. q.module = r.module /\ Mount(p, q) = Mount(p, r) /\ Rel(q, f) = Rel(r, f)
  BY <1>3 DEF RootsApart, Mount, Rel
<1> DEFINE name == NameOf(Mount(p, r), Rel(r, f), f.stem)
           role == IF q.role = "test" THEN "test"
                   ELSE IF f.ext = "d.tl" THEN "decl" ELSE "source"
           place == [file |-> f, module |-> q.module, name |-> name, root |-> Met(p, f),
                     role |-> role]
<1>5. Placed[p][f] = place
  BY <1>2, <1>4
<1>6. place \in Places(p)
  <2>1. name \in Seq(STRING)
    <3>1. Rel(r, f) \in Seq(STRING)
      BY RootsTyped, FilesTyped, PrefixAndRest DEF Rel, Holds, Holding
    <3> QED
      BY <3>1, RootsTyped, FilesTyped, NamesTyped
  <2>2. q.module \in DOMAIN p.modules /\ Met(p, f) \in Nat
    BY RootsTyped, MetTyped
  <2>3. role \in {"source", "test", "decl"}
    OBVIOUS
  <2> HIDE DEF name, role
  <2> QED
    BY <2>1, <2>2, <2>3 DEF Places
<1>7. place # None
  BY <1>6, NonePlaced
<1>8. place.module = q.module /\ place.name = name
  OBVIOUS
<1> HIDE DEF place, name
<1> QED
  BY <1>4, <1>5, <1>7, <1>8 DEF name

-----------------------------------------------------------------------------
(* A file has the spellings of its name, and no other file has them.       *)

LEMMA Joined ==
    ASSUME NEW a \in Seq(STRING), NEW b \in Seq(STRING)
    PROVE  /\ a \o b \in Seq(STRING) /\ Len(a \o b) = Len(a) + Len(b) /\ Len(a) \in Nat
           /\ \A i \in 1 .. Len(a) : (a \o b)[i] = a[i]
           /\ \A i \in 1 .. Len(b) : (a \o b)[Len(a) + i] = b[i]
OBVIOUS

\* A directory and the name in it, from the path.
LEMMA WithoutLast ==
    ASSUME NEW rel \in Seq(STRING), NEW stem \in Seq(STRING), Len(stem) = 1
    PROVE  LET u == rel \o stem
           IN  u # <<>> /\ <<Last(u)>> = stem /\ Front(u) = rel
<1> DEFINE u == rel \o stem
<1>1. /\ u \in Seq(STRING) /\ Len(u) = Len(rel) + 1 /\ Len(rel) \in Nat
      /\ \A i \in 1 .. Len(rel) : u[i] = rel[i]
  <2>1. u \in Seq(STRING) /\ Len(u) = Len(rel) + Len(stem) /\ Len(rel) \in Nat
    BY Joined, Zenon
  <2>2. \A i \in 1 .. Len(rel) : u[i] = rel[i]
    BY Joined, Zenon
  <2> QED
    BY <2>1, <2>2
<1>2. u[Len(rel) + 1] = stem[1]
  <2>1. 1 \in 1 .. Len(stem)
    OBVIOUS
  <2> QED
    BY <2>1, Joined
<1> HIDE DEF u
<1>3. u # <<>>
  BY <1>1
<1>4. <<Last(u)>> = stem
  <2>1. Last(u) = stem[1]
    BY <1>1, <1>2 DEF Last
  <2> QED
    BY <2>1
<1>5. Front(u) = rel
  <2>1. Front(u) \in Seq(STRING) /\ Len(Front(u)) = Len(rel)
    BY <1>1 DEF Front
  <2>2. \A i \in 1 .. Len(rel) : Front(u)[i] = rel[i]
    BY <1>1 DEF Front
  <2> QED
    BY <2>1, <2>2
<1> QED
  BY <1>3, <1>4, <1>5 DEF u

LEMMA Regrouped ==
    ASSUME NEW a \in Seq(STRING), NEW b \in Seq(STRING), NEW c \in Seq(STRING)
    PROVE  (a \o b) \o c = a \o (b \o c)
<1> DEFINE l == (a \o b) \o c
           r == a \o (b \o c)
<1>1. /\ a \o b \in Seq(STRING) /\ Len(a \o b) = Len(a) + Len(b)
      /\ b \o c \in Seq(STRING) /\ Len(b \o c) = Len(b) + Len(c)
      /\ Len(a) \in Nat /\ Len(b) \in Nat /\ Len(c) \in Nat
  OBVIOUS
<1>2. /\ l \in Seq(STRING) /\ Len(l) = Len(a) + Len(b) + Len(c)
      /\ r \in Seq(STRING) /\ Len(r) = Len(a) + Len(b) + Len(c)
  BY <1>1
<1>3. ASSUME NEW i \in 1 .. Len(l) PROVE l[i] = r[i]
  <2>1. CASE i <= Len(a)
    <3>1. l[i] = (a \o b)[i] /\ (a \o b)[i] = a[i]
      BY <1>1, <2>1
    <3>2. r[i] = a[i]
      BY <1>1, <2>1
    <3> QED
      BY <3>1, <3>2
  <2>2. CASE i > Len(a) /\ i <= Len(a) + Len(b)
    <3>1. l[i] = (a \o b)[i] /\ (a \o b)[i] = b[i - Len(a)]
      BY <1>1, <2>2
    <3>2. r[i] = (b \o c)[i - Len(a)]
      BY <1>1, <1>2, <2>2
    <3>3. (b \o c)[i - Len(a)] = b[i - Len(a)]
      BY <1>1, <2>2
    <3> QED
      BY <3>1, <3>2, <3>3
  <2>3. CASE i > Len(a) + Len(b)
    <3>1. l[i] = c[i - (Len(a) + Len(b))]
      BY <1>1, <1>2, <2>3
    <3>2. r[i] = (b \o c)[i - Len(a)]
      BY <1>1, <1>2, <2>3
    <3>3. (b \o c)[i - Len(a)] = c[(i - Len(a)) - Len(b)]
      BY <1>1, <1>2, <2>3
    <3>4. (i - Len(a)) - Len(b) = i - (Len(a) + Len(b))
      BY <1>1
    <3> QED
      BY <3>1, <3>2, <3>3, <3>4
  <2>4. i \in Nat
    OBVIOUS
  <2>5. i <= Len(a) \/ (i > Len(a) /\ i <= Len(a) + Len(b)) \/ i > Len(a) + Len(b)
    BY <1>1, <2>4
  <2> QED
    BY <2>1, <2>2, <2>3, <2>5, Zenon
<1> HIDE DEF l, r
<1>4. l = r
  BY <1>2, <1>3
<1> QED
  BY <1>4 DEF l, r

\* A name read backwards is what it was made of.
LEMMA NameTaken ==
    ASSUME NEW mount \in Seq(STRING), NEW rel \in Seq(STRING), NEW tail \in Seq(STRING)
    PROVE  LET n == mount \o rel \o tail
           IN  IsPrefix(mount, n) /\ SubSeq(n, Len(mount) + 1, Len(n)) = rel \o tail
<1>1. rel \o tail \in Seq(STRING)
  OBVIOUS
<1>2. mount \o rel \o tail = mount \o (rel \o tail)
  BY Regrouped
<1> QED
  BY <1>1, <1>2, RestOf, BelowIsUnder

\* A stem of one segment, and the directory below the root, are a spelling of the name.
LEMMA SpelledAs ==
    ASSUME NEW mount \in Seq(STRING), NEW rel \in Seq(STRING), NEW stem \in Seq(STRING),
           Len(stem) = 1, NEW ext \in Exts
    PROVE  [dir |-> rel, stem |-> stem, ext |-> ext] \in Candidates(mount, NameOf(mount, rel, stem))
<1> DEFINE unnamed == \/ stem = <<"init">>
                      \/ rel = <<>> /\ mount # <<>> /\ stem = <<Last(mount)>>
           tail == IF unnamed THEN <<>> ELSE stem
           n == NameOf(mount, rel, stem)
           rest == SubSeq(n, Len(mount) + 1, Len(n))
           spelled == IF rest = <<>>
                      THEN {<<<<>>, <<Last(mount)>>>>, <<<<>>, <<"init">>>>}
                      ELSE {<<Front(rest), <<Last(rest)>>>>, <<rest, <<"init">>>>}
<1>1. tail \in Seq(STRING)
  <2>1. <<>> \in Seq(STRING)
    OBVIOUS
  <2> QED
    BY <2>1
<1>2. n = mount \o rel \o tail
  BY DEF NameOf
<1>3. IsPrefix(mount, n) /\ rest = rel \o tail
  <2> HIDE DEF tail, n
  <2> QED
    BY <1>1, <1>2, NameTaken
<1>4. <<rel, stem>> \in spelled
  <2>1. rel \o <<>> = rel
    OBVIOUS
  <2>2. CASE stem = <<"init">>
    <3>1. rest = rel
      BY <1>3, <2>1, <2>2
    <3> HIDE DEF rest
    <3> QED
      BY <2>2, <3>1
  <2>3. CASE rel = <<>> /\ mount # <<>> /\ stem = <<Last(mount)>>
    <3>1. rest = <<>>
      BY <1>3, <2>1, <2>3
    <3> HIDE DEF rest
    <3> QED
      BY <2>3, <3>1
  <2>4. CASE ~unnamed
    <3>1. rest = rel \o stem
      BY <1>3, <2>4
    <3>2. rest # <<>> /\ <<Last(rest)>> = stem /\ Front(rest) = rel
      BY <3>1, WithoutLast
    <3> HIDE DEF rest
    <3> QED
      BY <3>2
  <2> QED
    BY <2>2, <2>3, <2>4
<1>5. Candidates(mount, n) = {[dir |-> s[1], stem |-> s[2], ext |-> e] :
                               s \in {s \in spelled : NameOf(mount, s[1], s[2]) = n}, e \in Exts}
  BY <1>3 DEF Candidates
<1>6. <<rel, stem>>[1] = rel /\ <<rel, stem>>[2] = stem
  OBVIOUS
<1>7. <<rel, stem>> \in {s \in spelled : NameOf(mount, s[1], s[2]) = n}
  <2> HIDE DEF spelled
  <2> QED
    BY <1>4, <1>6
<1> HIDE DEF spelled, n
<1>8. [dir |-> rel, stem |-> stem, ext |-> ext] \in Candidates(mount, n)
  <2> DEFINE named == {s \in spelled : NameOf(mount, s[1], s[2]) = n}
             c == [dir |-> <<rel, stem>>[1], stem |-> <<rel, stem>>[2], ext |-> ext]
  <2>1. <<rel, stem>> \in named
    BY <1>7
  <2>2. Candidates(mount, n) = {[dir |-> s[1], stem |-> s[2], ext |-> e] : s \in named, e \in Exts}
    BY <1>5
  <2> HIDE DEF named
  <2>3. c \in Candidates(mount, n)
    BY <2>1, <2>2
  <2> QED
    BY <1>6, <2>3
<1> QED
  BY <1>8 DEF n

\* A spelling of a name has the name.
LEMMA SpellingNames ==
    ASSUME NEW mount, NEW n, NEW c \in Candidates(mount, n)
    PROVE  NameOf(mount, c.dir, c.stem) = n
BY DEF Candidates

\* The file a spelling is of, and the spelling of a file.
LEMMA SpellingOfFile ==
    ASSUME NEW p \in Projects, NEW f \in p.files, NEW r \in Roots(p), Holds(p, r, f),
           Len(f.stem) = 1
    PROVE  \E c \in Candidates(Mount(p, r), NameOf(Mount(p, r), Rel(r, f), f.stem)) :
             Below(r.dir, c) = f
<1>1. /\ r.dir \in Seq(STRING) /\ Mount(p, r) \in Seq(STRING)
      /\ f.dir \in Seq(STRING) /\ f.stem \in Seq(STRING) /\ f.ext \in Exts
      /\ f = [dir |-> f.dir, stem |-> f.stem, ext |-> f.ext]
  BY RootsTyped, FilesTyped
<1>2. Rel(r, f) \in Seq(STRING) /\ f.dir = r.dir \o Rel(r, f)
  BY <1>1, PrefixAndRest DEF Rel, Holds, Holding
<1> DEFINE c == [dir |-> Rel(r, f), stem |-> f.stem, ext |-> f.ext]
<1>3. c \in Candidates(Mount(p, r), NameOf(Mount(p, r), Rel(r, f), f.stem))
  BY <1>1, <1>2, SpelledAs
<1>4. Below(r.dir, c) = f
  BY <1>1, <1>2 DEF Below
<1> QED
  BY <1>3, <1>4

LEMMA FileOfSpelling ==
    ASSUME NEW p \in Projects, NEW r \in Roots(p), NEW n \in Names(p),
           NEW c \in Candidates(Mount(p, r), n)
    PROVE  LET f == Below(r.dir, c)
           IN  /\ IsPrefix(r.dir, f.dir)
               /\ NameOf(Mount(p, r), Rel(r, f), f.stem) = n /\ n # <<>>
<1>1. r.dir \in Seq(STRING) /\ Mount(p, r) \in Seq(STRING) /\ n \in Seq(STRING) \ {<<>>}
  BY RootsTyped, ProjectsTyped
<1>2. c.dir \in Seq(STRING) /\ c = [dir |-> c.dir, stem |-> c.stem, ext |-> c.ext]
  BY <1>1, CandidateTyped
<1> DEFINE f == Below(r.dir, c)
<1>3. f.dir = r.dir \o c.dir /\ f.stem = c.stem
  BY <1>2 DEF Below
<1> HIDE DEF f
<1>4. IsPrefix(r.dir, f.dir) /\ Rel(r, f) = c.dir
  BY <1>1, <1>2, <1>3, BelowIsUnder, RestOf DEF Rel
<1>5. NameOf(Mount(p, r), c.dir, c.stem) = n
  BY SpellingNames
<1> QED
  BY <1>1, <1>3, <1>4, <1>5 DEF f

-----------------------------------------------------------------------------
(* What the run is served, and what the table has.                         *)

\* The part of Ordinary that is about the files.
Usual(p, files, n) ==
    \A f \in files : Placed[p][f] # None /\ Placed[p][f].name = n =>
      /\ f \in Walked(p, files)
      /\ Owner(p, Placed[p][f].module) # "contract"
      /\ Len(f.stem) = 1

\* What the run takes of a served directory.
Offers(p, r, f, files) ==
    /\ f \in files
    /\ \A o \in Roots(p) : IsStrictPrefix(r.dir, o.dir) => ~IsPrefix(o.dir, f.dir)

LEMMA ServesIs ==
    ASSUME NEW p, NEW files, NEW n
    PROVE  Serves(p, files, n) =
             UNION {{[module |-> r.module, file |-> f] :
                       f \in {f \in {Below(r.dir, c) : c \in Candidates(Mount(p, r), n)} :
                                Offers(p, r, f, files)}} : r \in WalkRoots(p)}
<1> DEFINE inner(r) == {o.dir : o \in {o \in Roots(p) : IsStrictPrefix(r.dir, o.dir)}}
           of(r) == [module |-> r.module, dir |-> r.dir, inner |-> inner(r)]
           spelled(r) == {Below(r.dir, c) : c \in Candidates(Mount(p, r), n)}
           served(s) == {[module |-> s.module, file |-> f] :
                          f \in {g \in {Below(s.dir, c) :
                                          c \in Candidates(p.modules[s.module].mount, n)} :
                                   g \in files /\ ~\E i \in s.inner : IsPrefix(i, g.dir)}}
           offered(r) == {[module |-> r.module, file |-> f] :
                            f \in {f \in spelled(r) : Offers(p, r, f, files)}}
<1>1. Serves(p, files, n) = UNION {served(s) : s \in {of(r) : r \in WalkRoots(p)}}
  BY DEF Serves, Served
<1>2. ASSUME NEW r \in WalkRoots(p) PROVE served(of(r)) = offered(r)
  <2>1. \A f : (f \in files /\ ~\E i \in inner(r) : IsPrefix(i, f.dir)) <=> Offers(p, r, f, files)
    BY DEF Offers
  <2>2. of(r).module = r.module /\ of(r).dir = r.dir /\ of(r).inner = inner(r)
    OBVIOUS
  <2> HIDE DEF inner, of
  <2>3. served(of(r)) = {[module |-> r.module, file |-> f] :
                          f \in {f \in spelled(r) :
                                   f \in files /\ ~\E i \in inner(r) : IsPrefix(i, f.dir)}}
    BY <2>2 DEF Mount
  <2>4. {f \in spelled(r) : f \in files /\ ~\E i \in inner(r) : IsPrefix(i, f.dir)}
          = {f \in spelled(r) : Offers(p, r, f, files)}
    BY <2>1
  <2> HIDE DEF spelled, served
  <2> QED
    BY <2>3, <2>4
<1> HIDE DEF of, served, offered
<1>3. UNION {served(s) : s \in {of(r) : r \in WalkRoots(p)}}
        = UNION {offered(r) : r \in WalkRoots(p)}
  BY <1>2
<1> QED
  BY <1>1, <1>3 DEF offered

LEMMA ServesOne ==
    ASSUME NEW p, NEW files, NEW n, NEW x
    PROVE  x \in Serves(p, files, n) <=>
             \E r \in WalkRoots(p) : \E c \in Candidates(Mount(p, r), n) :
               /\ Offers(p, r, Below(r.dir, c), files)
               /\ x = [module |-> r.module, file |-> Below(r.dir, c)]
BY ServesIs

\* The root that holds a file most specifically is the one that offers it.
LEMMA HoldsIsOffers ==
    ASSUME NEW p \in Projects, NEW r \in Roots(p), NEW f \in p.files, NEW files, f \in files,
           IsPrefix(r.dir, f.dir)
    PROVE  Holds(p, r, f) <=> Offers(p, r, f, files)
<1>0. r.dir \in Seq(STRING) /\ f.dir \in Seq(STRING) /\ Len(r.dir) \in Nat
  BY RootsTyped, FilesTyped
<1>1. ASSUME Holds(p, r, f), NEW o \in Roots(p), IsStrictPrefix(r.dir, o.dir),
             IsPrefix(o.dir, f.dir)
      PROVE  FALSE
  <2>1. o.dir \in Seq(STRING) /\ Len(o.dir) \in Nat
    BY RootsTyped
  <2>2. Len(o.dir) <= Len(r.dir)
    BY <1>1 DEF Holds, Holding
  <2>3. Len(r.dir) <= Len(o.dir) /\ r.dir # o.dir
    BY <1>1, <1>0, <2>1, PrefixIs DEF IsStrictPrefix
  <2>4. Len(r.dir) = Len(o.dir)
    BY <1>0, <2>1, <2>2, <2>3
  <2> QED
    BY <1>0, <1>1, <2>1, <2>3, <2>4, SamePrefix
<1>2. ASSUME Offers(p, r, f, files), NEW o \in Holding(p, f) PROVE Len(o.dir) <= Len(r.dir)
  <2>1. o \in Roots(p) /\ o.dir \in Seq(STRING) /\ Len(o.dir) \in Nat /\ IsPrefix(o.dir, f.dir)
    BY <1>2, RootsTyped DEF Holding
  <2>2. ~IsStrictPrefix(r.dir, o.dir)
    BY <1>2, <2>1 DEF Offers
  <2> QED
    BY <1>0, <2>1, <2>2, SamePrefix
<1> QED
  BY <1>1, <1>2 DEF Holds, Holding, Offers

\* A file that has an entry of a name is offered under the name by its own root, which
\* is no contract's.
LEMMA EntryIsOffered ==
    ASSUME NEW p \in Projects, NEW n \in Names(p), NEW files \in SUBSET p.files,
           Usual(p, files, n), NEW f \in files, Placed[p][f] # None, Placed[p][f].name = n
    PROVE  \E r \in WalkRoots(p) : \E c \in Candidates(Mount(p, r), n) :
             /\ Below(r.dir, c) = f /\ Holds(p, r, f)
             /\ r.module = Placed[p][f].module
             /\ ~WalkSkips(r.dir, f.dir)
<1>1. PICK r \in Roots(p) : /\ Holds(p, r, f) /\ Placed[p][f].module = r.module
                            /\ Placed[p][f].name = NameOf(Mount(p, r), Rel(r, f), f.stem)
  BY EntryOf
<1>2. /\ f \in Walked(p, files) /\ Len(f.stem) = 1
      /\ Owner(p, Placed[p][f].module) # "contract"
  BY DEF Usual
<1>3. r \in WalkRoots(p)
  BY <1>1, <1>2 DEF WalkRoots
<1>4. PICK c \in Candidates(Mount(p, r), n) : Below(r.dir, c) = f
  <2>1. \E c \in Candidates(Mount(p, r), NameOf(Mount(p, r), Rel(r, f), f.stem)) :
          Below(r.dir, c) = f
    BY <1>1, <1>2, SpellingOfFile
  <2> QED
    BY <1>1, <2>1
<1>5. ~WalkSkips(r.dir, f.dir)
  <2>1. PICK o \in WalkRoots(p) : IsPrefix(o.dir, f.dir) /\ ~WalkSkips(o.dir, f.dir)
    BY <1>2 DEF Walked
  <2>2. o \in Roots(p) /\ o \in Holding(p, f)
    BY <2>1 DEF WalkRoots, Holding
  <2>3. Len(o.dir) <= Len(r.dir) /\ Len(o.dir) \in Nat /\ Len(r.dir) \in Nat /\ Len(f.dir) \in Nat
    BY <1>1, <2>2, RootsTyped, FilesTyped DEF Holds
  <2>4. Len(r.dir) + 1 .. Len(f.dir) \subseteq Len(o.dir) + 1 .. Len(f.dir)
    BY <2>3
  <2> QED
    BY <2>1, <2>4 DEF WalkSkips
<1> QED
  BY <1>1, <1>3, <1>4, <1>5

\* A run is served of a name what the directories, read now, have of it.
LEMMA ServesWhatIsClaimed ==
    ASSUME RootsApart, NEW p \in Projects, NEW n \in Names(p), NEW files \in SUBSET p.files,
           Usual(p, files, n)
    PROVE  Serves(p, files, n) =
             {[module |-> e.module, file |-> e.file] : e \in Claims(p, Walked(p, files), n)}
<1> DEFINE served == {[module |-> e.module, file |-> e.file] : e \in Claims(p, Walked(p, files), n)}
<1>1. ASSUME NEW x \in Serves(p, files, n) PROVE x \in served
  <2>0. PICK r \in WalkRoots(p) : \E c \in Candidates(Mount(p, r), n) :
               /\ Offers(p, r, Below(r.dir, c), files)
               /\ x = [module |-> r.module, file |-> Below(r.dir, c)]
    BY ServesOne
  <2>1. PICK c \in Candidates(Mount(p, r), n) :
               /\ Offers(p, r, Below(r.dir, c), files)
               /\ x = [module |-> r.module, file |-> Below(r.dir, c)]
    BY <2>0
  <2> DEFINE f == Below(r.dir, c)
  <2>2. r \in Roots(p) /\ f \in files /\ f \in p.files
    BY <2>1 DEF WalkRoots, Offers
  <2>3. /\ IsPrefix(r.dir, f.dir)
        /\ NameOf(Mount(p, r), Rel(r, f), f.stem) = n /\ n # <<>>
    BY <2>2, FileOfSpelling
  <2>4. Offers(p, r, f, files) /\ x = [module |-> r.module, file |-> f]
    BY <2>1
  <2> HIDE DEF f
  <2>5. Holds(p, r, f)
    BY <2>2, <2>3, <2>4, HoldsIsOffers
  <2>6. /\ Placed[p][f] # None /\ Placed[p][f].module = r.module
        /\ Placed[p][f].name = n
    BY <2>2, <2>3, <2>5, HeldHasEntry
  <2>7. Placed[p][f].file = f
    BY <2>2, <2>6, EntryOf
  <2>8. f \in Walked(p, files)
    BY <2>2, <2>6 DEF Usual
  <2>9. Placed[p][f] \in Claims(p, Walked(p, files), n)
    BY <2>6, <2>8 DEF Claims
  <2> QED
    BY <2>4, <2>6, <2>7, <2>9
<1>2. ASSUME NEW e \in Claims(p, Walked(p, files), n)
      PROVE  [module |-> e.module, file |-> e.file] \in Serves(p, files, n)
  <2>1. PICK f \in Walked(p, files) : e = Placed[p][f] /\ e # None /\ e.name = n
    BY DEF Claims
  <2>2. f \in files /\ f \in p.files
    BY DEF Walked
  <2>3. PICK r \in WalkRoots(p) : \E c \in Candidates(Mount(p, r), n) :
               /\ Below(r.dir, c) = f /\ Holds(p, r, f)
               /\ r.module = Placed[p][f].module
    BY <2>1, <2>2, EntryIsOffered
  <2>4. e.file = f
    BY <2>1, <2>2, EntryOf
  <2>5. r \in Roots(p) /\ Holds(p, r, f) /\ IsPrefix(r.dir, f.dir)
    BY <2>3 DEF WalkRoots, Holds, Holding
  <2>6. Offers(p, r, f, files)
    BY <2>2, <2>5, HoldsIsOffers
  <2> QED
    BY <2>1, <2>3, <2>4, <2>6, ServesOne
<1> QED
  BY <1>1, <1>2

-----------------------------------------------------------------------------
(* The answers.                                                            *)

\* What an entry of a table is.
LEMMA ClaimIs ==
    ASSUME NEW p \in Projects, NEW known \in SUBSET p.files, NEW n,
           NEW e \in Claims(p, known, n)
    PROVE  /\ e.file \in known /\ e.file # None /\ e = Placed[p][e.file] /\ e.name = n
           /\ e.file.ext \in Exts /\ e.module \in Nat /\ e.root \in Nat /\ Rank(e) \in Nat
           /\ e.module \in DOMAIN p.modules
<1>1. PICK f \in known : e = Placed[p][f] /\ e # None /\ e.name = n
  BY DEF Claims
<1>2. e.file = f /\ e.module \in Nat /\ e.root \in Nat /\ e.module \in DOMAIN p.modules
  BY <1>1, EntryOf, RootsTyped
<1>3. f.ext \in Exts /\ f # None
  BY FilesTyped
<1>4. Rank(e) \in Nat
  <2>1. ExtOrder[f.ext] \in Nat
    <3>1. f.ext = "d.tl" \/ f.ext = "lua" \/ f.ext = "tl"
      BY <1>3 DEF Exts
    <3> QED
      BY <1>3, <3>1 DEF ExtOrder
  <2> QED
    BY <1>2, <2>1 DEF Rank
<1> QED
  BY <1>1, <1>2, <1>3, <1>4

LEMMA ClaimsFinite ==
    ASSUME NEW p \in Projects, NEW known \in SUBSET p.files, NEW n
    PROVE  IsFiniteSet(Claims(p, known, n))
<1>1. IsFiniteSet(p.files)
  BY ProjectsTyped
<1>2. IsFiniteSet(known)
  BY <1>1, FS_Subset
<1>3. IsFiniteSet({Placed[p][f] : f \in known})
  <2> DEFINE T == {Placed[p][f] : f \in known}
             place == [f \in known |-> Placed[p][f]]
  <2>1. place \in Surjection(known, T)
    BY DEF Surjection
  <2> QED
    BY <1>2, <2>1, FS_Surjection
<1>4. Claims(p, known, n) \subseteq {Placed[p][f] : f \in known}
  BY DEF Claims
<1> QED
  BY <1>3, <1>4, FS_Subset

\* Of the entries of a name there is a first one.
LEMMA FirstIsOne ==
    ASSUME NEW S, S # {},
           \A e \in S : e.module \in Nat /\ e.root \in Nat /\ Rank(e) \in Nat
    PROVE  \E e \in S : FirstOf(S) = e.file
<1>1. PICK m \in {e.module : e \in S} : \A k \in {e.module : e \in S} : m <= k
  <2>1. {e.module : e \in S} \in SUBSET Nat /\ {e.module : e \in S} # {}
    OBVIOUS
  <2> QED
    BY <2>1, HasLeast
<1> DEFINE A == {e \in S : e.module = m}
<1>2. PICK t \in {e.root : e \in A} : \A k \in {e.root : e \in A} : t <= k
  <2>1. {e.root : e \in A} \in SUBSET Nat /\ {e.root : e \in A} # {}
    BY <1>1
  <2> QED
    BY <2>1, HasLeast
<1> DEFINE B == {e \in A : e.root = t}
<1>3. PICK k \in {Rank(e) : e \in B} : \A j \in {Rank(e) : e \in B} : k <= j
  <2>1. {Rank(e) : e \in B} \in SUBSET Nat /\ {Rank(e) : e \in B} # {}
    BY <1>2
  <2> QED
    BY <2>1, HasLeast
<1>4. PICK a \in B : Rank(a) = k
  BY <1>3
<1>5. a \in S /\ a.module = m /\ a.root = t
  BY <1>4
<1>6. ASSUME NEW g \in S PROVE Before(a, g)
  <2>1. a.module <= g.module
    BY <1>1, <1>5
  <2>2. a.module = g.module => a.root <= g.root
    BY <1>2, <1>5
  <2>3. a.module = g.module /\ a.root = g.root => Rank(a) <= Rank(g)
    BY <1>3, <1>4, <1>5
  <2>4. /\ a.module \in Nat /\ g.module \in Nat /\ a.root \in Nat /\ g.root \in Nat
    BY <1>5
  <2> HIDE DEF A, B
  <2> QED
    BY <2>1, <2>2, <2>3, <2>4 DEF Before
<1> DEFINE first == CHOOSE e \in S : \A g \in S : Before(e, g)
<1>7. first \in S
  BY <1>5, <1>6
<1>8. FirstOf(S) = first.file
  BY DEF FirstOf
<1> QED
  BY <1>7, <1>8

\* What a run is answered with from a table.
Answered(entries) == IF entries = {} THEN Outside ELSE Pick(entries)

LEMMA RunIsAnswered ==
    ASSUME NEW p \in Projects, NEW known, NEW n, n \notin p.provided
    PROVE  Resolve(p, known, None, Plain(n)) = Answered(Claims(p, known, n))
<1> DEFINE E == Claims(p, known, n)
<1>1. Resolve(p, known, None, Plain(n)) = ResolvePlain(p, None, n, E)
  <2>1. Asked(p, None, Plain(n)) = Plain(n)
    BY DEF Asked, FromOwn, From
  <2>2. Plain(n).of = n /\ Plain(n).by = "anyone"
    BY DEF Plain
  <2> QED
    BY <2>1, <2>2 DEF Resolve, ResolveAs
<1>2. {e \in E : ~Hides(p, None, e)} = E
  BY DEF Hides, From, FromDependency
<1> HIDE DEF E
<1>3. ResolvePlain(p, None, n, E)
        = PlainAnswer(p, None, n, Pick(E),
                      {e \in E : Owner(p, e.module) = "own" /\ e.role # "test"})
  BY <1>2 DEF ResolvePlain
<1>4. CASE E = {}
  <2>1. Pick(E) = Missing
    BY <1>4 DEF Pick
  <2> QED
    BY <1>1, <1>3, <1>4, <2>1 DEF PlainAnswer, Missing, FromDependency, From, Answered, E
<1>5. CASE E # {}
  <2>1. Pick(E).kind = "ambiguous" \/ Pick(E).kind = "found"
    BY <1>5 DEF Pick
  <2> QED
    BY <1>1, <1>3, <1>5, <2>1 DEF PlainAnswer, UnlessProvided, Answered, E
<1> QED
  BY <1>4, <1>5

\* A name the table has nothing of and the directories have something of is gained.
LEMMA NewIsGained ==
    ASSUME NEW p \in Projects, NEW n \in Names(p), NEW files \in SUBSET p.files, NEW known,
           Usual(p, files, n),
           Claims(p, known, n) = {}, Claims(p, Walked(p, files), n) # {}
    PROVE  Gained(p, known, files, Plain(n))
<1>1. PICK f \in Walked(p, files) : Placed[p][f] # None /\ Placed[p][f].name = n
  BY DEF Claims
<1>2. f \in files /\ f \notin known
  <2>1. f \in files
    BY DEF Walked
  <2>2. f \notin known
    BY <1>1 DEF Claims
  <2> QED
    BY <2>1, <2>2
<1>3. PICK r \in WalkRoots(p) : \E c \in Candidates(Mount(p, r), n) :
             /\ Below(r.dir, c) = f /\ Holds(p, r, f)
             /\ r.module = Placed[p][f].module
             /\ ~WalkSkips(r.dir, f.dir)
  BY <1>1, <1>2, EntryIsOffered
<1>4. Plain(n).of = n
  BY DEF Plain
<1> QED
  BY <1>1, <1>2, <1>3, <1>4 DEF Gained, Mount

\* Whichever table a name is answered from, it has what the directories have.
LEMMA TableIsFresh ==
    ASSUME TypeOK, live, NEW n \in Names(project), UpToDate(n), Ordinary(n)
    PROVE  Claims(project, TableFor(None, Plain(n)), n) = Claims(project, Walked(project, disk), n)
<1>1. /\ project \in Projects /\ disk \in SUBSET project.files /\ n \notin project.provided
      /\ Usual(project, disk, n)
  BY DEF TypeOK, Ordinary, Usual
<1> DEFINE fresh == Walked(project, disk)
           known == TableFor(None, Plain(n))
<1>2. known = table \/ known = fresh
  BY DEF TableFor
<1>3. CASE Claims(project, table, n) = Claims(project, fresh, n)
  BY <1>2, <1>3
<1>4. CASE Claims(project, table, n) = {} /\ Claims(project, fresh, n) # {}
  <2>1. Gained(project, table, disk, Plain(n))
    BY <1>1, <1>4, NewIsGained
  <2>2. Resolve(project, table, None, Plain(n)).kind = "outside"
    BY <1>1, <1>4, RunIsAnswered DEF Answered, Outside
  <2>3. known = fresh
    BY <2>1, <2>2 DEF TableFor
  <2> QED
    BY <2>3
<1> QED
  BY <1>3, <1>4 DEF UpToDate

-----------------------------------------------------------------------------
(* The run and the check.                                                  *)

Entries(E, ext) == {e \in E : e.file.ext = ext}
Pairs(E) == {[module |-> e.module, file |-> e.file] : e \in E}
Modules(S) == {x.module : x \in S}

\* A run that is served of one directory has modules of one.
LEMMA OneServed ==
    ASSUME NEW p \in Projects, NEW q \in WalkRoots(p), NEW r \in WalkRoots(p), q.module # r.module
    PROVE  Cardinality(Served(p)) > 1
<1> DEFINE of(o) == [module |-> o.module, dir |-> o.dir,
                     inner |-> {i.dir : i \in {i \in Roots(p) : IsStrictPrefix(o.dir, i.dir)}}]
           serve == [o \in WalkRoots(p) |-> of(o)]
<1>1. Served(p) = {of(o) : o \in WalkRoots(p)}
  BY DEF Served
<1>2. of(q) # of(r)
  <2>1. of(q).module = q.module /\ of(r).module = r.module
    OBVIOUS
  <2> HIDE DEF of
  <2> QED
    BY <2>1
<1> HIDE DEF of
<1>3. IsFiniteSet(WalkRoots(p))
  <2>1. WalkRoots(p) \subseteq Roots(p)
    BY DEF WalkRoots
  <2> QED
    BY <2>1, ProjectsTyped, FS_Subset
<1>4. serve \in Surjection(WalkRoots(p), Served(p))
  BY <1>1 DEF Surjection
<1>5. IsFiniteSet(Served(p))
  BY <1>3, <1>4, FS_Surjection
<1> QED
  BY <1>1, <1>2, <1>5, MoreThanOne

\* A set of entries, no two of one file, and its pairs of a module and a file.
LEMMA AsMany ==
    ASSUME NEW S, IsFiniteSet(S), \A e, g \in S : e.file = g.file => e = g
    PROVE  Cardinality(Pairs(S)) > 1 <=> Cardinality(S) > 1
<1> DEFINE pair(e) == [module |-> e.module, file |-> e.file]
           pairing == [e \in S |-> pair(e)]
<1>1. Pairs(S) = {pair(e) : e \in S}
  BY DEF Pairs
<1>2. \A e \in S : pair(e).file = e.file
  OBVIOUS
<1> HIDE DEF pair
<1>3. pairing \in Surjection(S, Pairs(S))
  BY <1>1 DEF Surjection
<1>4. IsFiniteSet(Pairs(S))
  BY <1>3, FS_Surjection
<1>5. (\E x, y \in Pairs(S) : x # y) <=> (\E e, g \in S : e # g)
  BY <1>1, <1>2
<1> QED
  BY <1>4, <1>5, MoreThanOne

LEMMA ModulesOfPairs ==
    ASSUME NEW S, NEW T
    PROVE  /\ Modules(Pairs(S)) = Modules(S)
           /\ Modules(Pairs(S) \cup Pairs(T)) = Modules(S \cup T)
<1> DEFINE pair(e) == [module |-> e.module, file |-> e.file]
<1>1. Pairs(S) = {pair(e) : e \in S} /\ Pairs(T) = {pair(e) : e \in T}
  BY DEF Pairs
<1>2. \A e : pair(e).module = e.module
  OBVIOUS
<1> HIDE DEF pair
<1>3. Modules(Pairs(S)) = Modules(S) /\ Modules(Pairs(T)) = Modules(T)
  BY <1>1, <1>2 DEF Modules
<1>4. \A A, B : Modules(A \cup B) = Modules(A) \cup Modules(B)
  BY DEF Modules
<1>5. /\ Modules(Pairs(S) \cup Pairs(T)) = Modules(Pairs(S)) \cup Modules(Pairs(T))
      /\ Modules(S \cup T) = Modules(S) \cup Modules(T)
  BY <1>4
<1> QED
  BY <1>3, <1>5

LEMMA FewModules ==
    ASSUME NEW S, IsFiniteSet(S), \A e, g \in S : e.module = g.module
    PROVE  ~(Cardinality(Modules(S)) > 1)
<1> DEFINE naming == [e \in S |-> e.module]
<1>1. naming \in Surjection(S, Modules(S))
  BY DEF Surjection, Modules
<1>2. IsFiniteSet(Modules(S))
  BY <1>1, FS_Surjection
<1>3. \A x, y \in Modules(S) : x = y
  BY DEF Modules
<1> QED
  BY <1>2, <1>3, MoreThanOne

\* What Pick and Run do, on what a name has.
LEMMA PickIs ==
    ASSUME NEW E, E # {}
    PROVE  Pick(E) =
             IF \/ Cardinality(Entries(E, "tl")) > 1
                \/ Cardinality(Modules({e \in E : e.file.ext # "d.tl"})) > 1
             THEN [kind |-> "ambiguous", files |-> {e.file : e \in {e \in E : e.file.ext # "d.tl"}}]
             ELSE [kind |-> "found", impl |-> FirstOf(Entries(E, "tl")),
                   decl |-> FirstOf(Entries(E, "d.tl")), lua |-> FirstOf(Entries(E, "lua"))]
BY DEF Pick, Entries, Modules

LEMMA RunIs ==
    ASSUME NEW p, NEW files, NEW n, NEW E, Serves(p, files, n) = Pairs(E)
    PROVE  LET tl == Pairs(Entries(E, "tl"))
               others == IF Cardinality(Served(p)) > 1 THEN Pairs(Entries(E, "lua")) ELSE {}
           IN  Run(p, files, n) =
                 IF Cardinality(tl) > 1 \/ Cardinality(Modules(tl \cup others)) > 1
                 THEN [kind |-> "ambiguous"]
                 ELSE IF tl # {} THEN [kind |-> "loaded", file |-> (CHOOSE x \in tl : TRUE).file]
                 ELSE [kind |-> "aside", declared |-> \E x \in Pairs(E) : x.file.ext = "d.tl"]
<1> DEFINE Of(ext) == {x \in Pairs(E) : x.file.ext = ext}
<1>1. \A ext : Of(ext) = Pairs(Entries(E, ext))
  BY DEF Pairs, Entries
<1>2. Of("tl") = Pairs(Entries(E, "tl")) /\ Of("lua") = Pairs(Entries(E, "lua"))
  BY <1>1
<1>3. LET tl == Of("tl")
          others == IF Cardinality(Served(p)) > 1 THEN Of("lua") ELSE {}
      IN  Run(p, files, n) =
            IF Cardinality(tl) > 1 \/ Cardinality(Modules(tl \cup others)) > 1
            THEN [kind |-> "ambiguous"]
            ELSE IF tl # {} THEN [kind |-> "loaded", file |-> (CHOOSE x \in tl : TRUE).file]
            ELSE [kind |-> "aside", declared |-> \E x \in Pairs(E) : x.file.ext = "d.tl"]
  BY DEF Run, Modules
<1> HIDE DEF Of
<1> QED
  BY <1>2, <1>3

\* Where the run is served what the table has, they agree.
LEMMA TheyAgree ==
    ASSUME NEW p \in Projects, NEW known \in SUBSET p.files, NEW n, NEW files,
           Serves(p, files, n) = Pairs(Claims(p, known, n)),
           \A e \in Claims(p, known, n) : \E r \in WalkRoots(p) : r.module = e.module
    PROVE  Agree(Run(p, files, n), Answered(Claims(p, known, n)))
<1> DEFINE E == Claims(p, known, n)
           typed == Entries(E, "tl")
           impls == {e \in E : e.file.ext # "d.tl"}
           tl == Pairs(typed)
           others == IF Cardinality(Served(p)) > 1 THEN Pairs(Entries(E, "lua")) ELSE {}
           run == Run(p, files, n)
           manyRun == Cardinality(tl) > 1 \/ Cardinality(Modules(tl \cup others)) > 1
           manyCheck == Cardinality(typed) > 1 \/ Cardinality(Modules(impls)) > 1
<1>1. \A e \in E : /\ e.file # None /\ e = Placed[p][e.file] /\ e.file.ext \in Exts
                   /\ e.module \in Nat /\ e.root \in Nat /\ Rank(e) \in Nat
  BY ClaimIs
<1>2. IsFiniteSet(E) /\ IsFiniteSet(typed) /\ IsFiniteSet(impls)
  <2>1. IsFiniteSet(E)
    BY ClaimsFinite
  <2>2. typed \subseteq E /\ impls \subseteq E
    BY DEF Entries
  <2> QED
    BY <2>1, <2>2, FS_Subset
<1>3. run = IF manyRun THEN [kind |-> "ambiguous"]
            ELSE IF tl # {} THEN [kind |-> "loaded", file |-> (CHOOSE x \in tl : TRUE).file]
            ELSE [kind |-> "aside", declared |-> \E x \in Pairs(E) : x.file.ext = "d.tl"]
  BY RunIs
<1>4. \A e \in E : \E r \in WalkRoots(p) : r.module = e.module
  OBVIOUS
<1> HIDE DEF E, run
<1>5. Cardinality(tl) > 1 <=> Cardinality(typed) > 1
  <2>1. \A e, g \in typed : e.file = g.file => e = g
    BY <1>1 DEF Entries
  <2> HIDE DEF typed
  <2> QED
    BY <1>2, <2>1, AsMany
<1>6. Cardinality(Modules(tl \cup others)) > 1 <=> Cardinality(Modules(impls)) > 1
  <2>1. CASE Cardinality(Served(p)) > 1
    <3>1. others = Pairs(Entries(E, "lua"))
      BY <2>1
    <3>2. impls = typed \cup Entries(E, "lua")
      BY <1>1 DEF Entries, Exts
    <3>3. Modules(tl \cup Pairs(Entries(E, "lua"))) = Modules(typed \cup Entries(E, "lua"))
      BY ModulesOfPairs
    <3> QED
      BY <3>1, <3>2, <3>3
  <2>2. CASE ~(Cardinality(Served(p)) > 1)
    <3>1. \A e, g \in E : e.module = g.module
      BY <1>4, <2>2, OneServed
    <3>2. \A e, g \in impls : e.module = g.module
      BY <3>1
    <3>3. ~(Cardinality(Modules(impls)) > 1)
      <4> HIDE DEF impls
      <4> QED
        BY <1>2, <3>2, FewModules
    <3>4. Modules(tl \cup others) = Modules(typed)
      <4>1. tl \cup others = tl
        BY <2>2
      <4>2. Modules(tl) = Modules(typed)
        BY ModulesOfPairs
      <4> QED
        BY <4>1, <4>2
    <3>5. \A e, g \in typed : e.module = g.module
      BY <3>1 DEF Entries
    <3>6. ~(Cardinality(Modules(typed)) > 1)
      <4> HIDE DEF typed
      <4> QED
        BY <1>2, <3>5, FewModules
    <3> QED
      BY <3>3, <3>4, <3>6
  <2> QED
    BY <2>1, <2>2
<1>7. manyRun <=> manyCheck
  BY <1>5, <1>6
<1>8. E # {} => Pick(E) =
        IF manyCheck
        THEN [kind |-> "ambiguous", files |-> {e.file : e \in impls}]
        ELSE [kind |-> "found", impl |-> FirstOf(typed),
              decl |-> FirstOf(Entries(E, "d.tl")), lua |-> FirstOf(Entries(E, "lua"))]
  BY PickIs
<1>9. FirstOf({}) = None
  BY DEF FirstOf
<1>10. \A ext : Entries(E, ext) # {} =>
         \E e \in Entries(E, ext) : FirstOf(Entries(E, ext)) = e.file
  <2> SUFFICES ASSUME NEW ext, Entries(E, ext) # {}
               PROVE  \E e \in Entries(E, ext) : FirstOf(Entries(E, ext)) = e.file
    OBVIOUS
  <2>1. \A e \in Entries(E, ext) : e.module \in Nat /\ e.root \in Nat /\ Rank(e) \in Nat
    BY <1>1 DEF Entries
  <2> QED
    BY <2>1, FirstIsOne
<1>11. CASE manyRun
  <2>1. E # {}
    <3>1. CASE E = {}
      <4>1. typed = {} /\ impls = {} /\ Modules(impls) = {}
        BY <3>1 DEF Entries, Modules
      <4>2. ~(Cardinality({}) > 1)
        BY FS_EmptySet
      <4> HIDE DEF typed, impls
      <4>3. ~manyCheck
        BY <4>1, <4>2
      <4> HIDE DEF manyRun, manyCheck
      <4> QED
        BY <1>7, <1>11, <4>3
    <3> QED
      BY <3>1
  <2>2. run.kind = "ambiguous"
    BY <1>3, <1>11
  <2>3. Answered(E).kind = "ambiguous"
    BY <1>7, <1>8, <1>11, <2>1 DEF Answered
  <2> QED
    BY <2>2, <2>3 DEF Agree, E, run
<1>12. CASE ~manyRun /\ tl # {}
  <2>1. typed # {} /\ E # {}
    BY <1>12 DEF Pairs, Entries
  <2>2. PICK y \in tl : y = (CHOOSE x \in tl : TRUE)
    BY <1>12
  <2>3. PICK e \in typed : FirstOf(typed) = e.file
    BY <1>10, <2>1
  <2>4. \A g \in typed : g = e
    <3>1. ~(Cardinality(typed) > 1)
      BY <1>7, <1>12
    <3> HIDE DEF typed
    <3> QED
      BY <1>2, <3>1, MoreThanOne
  <2>5. y.file = e.file
    BY <2>4 DEF Pairs
  <2>6. run = [kind |-> "loaded", file |-> y.file]
    BY <1>3, <1>12, <2>2
  <2>7. Answered(E).kind = "found" /\ Answered(E).impl = e.file
    BY <1>7, <1>8, <1>12, <2>1, <2>3 DEF Answered
  <2> QED
    BY <2>5, <2>6, <2>7 DEF Agree, E, run
<1>13. CASE ~manyRun /\ tl = {}
  <2> DEFINE declared == \E x \in Pairs(E) : x.file.ext = "d.tl"
  <2>1. typed = {}
    <3>1. ASSUME NEW S, NEW e \in S PROVE Pairs(S) # {}
      <4>1. [module |-> e.module, file |-> e.file] \in Pairs(S)
        BY DEF Pairs
      <4> QED
        BY <4>1
    <3> HIDE DEF typed
    <3> QED
      BY <1>13, <3>1
  <2>2. run.kind = "aside" /\ run.declared = declared
    BY <1>3, <1>13
  <2>3. declared <=> Entries(E, "d.tl") # {}
    <3> DEFINE pair(e) == [module |-> e.module, file |-> e.file]
    <3>1. Pairs(E) = {pair(e) : e \in E}
      BY DEF Pairs
    <3>2. \A e : pair(e).file = e.file
      OBVIOUS
    <3> HIDE DEF pair
    <3> QED
      BY <3>1, <3>2 DEF Entries
  <2>4. CASE E = {}
    <3>1. ~declared
      BY <2>3, <2>4 DEF Entries
    <3>2. Answered(E).kind = "outside"
      BY <2>4 DEF Answered, Outside
    <3> QED
      BY <2>2, <3>1, <3>2 DEF Agree, E, run
  <2>5. CASE E # {}
    <3>1. /\ Answered(E).kind = "found" /\ Answered(E).impl = None
          /\ Answered(E).decl = FirstOf(Entries(E, "d.tl"))
      <4>1. ~manyCheck
        BY <1>7, <1>13
      <4>2. Pick(E) = [kind |-> "found", impl |-> FirstOf(typed),
                       decl |-> FirstOf(Entries(E, "d.tl")), lua |-> FirstOf(Entries(E, "lua"))]
        BY <1>8, <2>5, <4>1
      <4>3. FirstOf(typed) = None /\ Answered(E) = Pick(E)
        BY <1>9, <2>1, <2>5 DEF Answered
      <4> HIDE DEF typed
      <4> QED
        BY <4>2, <4>3
    <3>2. FirstOf(Entries(E, "d.tl")) # None <=> Entries(E, "d.tl") # {}
      <4>1. ASSUME Entries(E, "d.tl") # {} PROVE FirstOf(Entries(E, "d.tl")) # None
        <5>1. PICK e \in Entries(E, "d.tl") : FirstOf(Entries(E, "d.tl")) = e.file
          BY <1>10, <4>1
        <5>2. e \in E
          BY DEF Entries
        <5> QED
          BY <1>1, <5>1, <5>2
      <4> QED
        BY <1>9, <4>1
    <3>3. run.declared = (Answered(E).decl # None)
      BY <2>2, <2>3, <3>1, <3>2
    <3> QED
      BY <2>2, <3>1, <3>3 DEF Agree, E, run
  <2> QED
    BY <2>4, <2>5
<1> QED
  BY <1>11, <1>12, <1>13

\* A name is the same file to the check and to the run, an error to both, or nothing of
\* the directories to either: for any directories no two of which are one, any spellings,
\* shadows and declarations in them, and whatever was dropped in or taken out
\* (pkg.rs, `from_project`).
THEOREM OneDescriptionForAll == ASSUME RootsApart PROVE Spec => []OneDescription
<1>1. TypeOK => OneDescription
  <2> SUFFICES ASSUME TypeOK, live, NEW n \in Names(project), UpToDate(n), Ordinary(n)
               PROVE  Agree(Run(project, disk, n),
                            Resolve(project, TableFor(None, Plain(n)), None, Plain(n)))
    BY DEF OneDescription
  <2> DEFINE fresh == Walked(project, disk)
             known == TableFor(None, Plain(n))
  <2>1. /\ project \in Projects /\ disk \in SUBSET project.files /\ n \notin project.provided
        /\ Usual(project, disk, n)
    BY DEF TypeOK, Ordinary, Usual
  <2>2. fresh \in SUBSET project.files
    BY <2>1 DEF Walked
  <2>3. Resolve(project, known, None, Plain(n)) = Answered(Claims(project, fresh, n))
    BY <2>1, TableIsFresh, RunIsAnswered
  <2>4. Serves(project, disk, n) = Pairs(Claims(project, fresh, n))
    BY <2>1, ServesWhatIsClaimed DEF Pairs
  <2>5. ASSUME NEW e \in Claims(project, fresh, n)
        PROVE  \E r \in WalkRoots(project) : r.module = e.module
    <3>1. PICK f \in fresh : e = Placed[project][f] /\ e # None /\ e.name = n
      BY DEF Claims
    <3>2. f \in disk
      BY DEF Walked
    <3> QED
      BY <2>1, <3>1, <3>2, EntryIsOffered
  <2> QED
    BY <2>1, <2>2, <2>3, <2>4, <2>5, TheyAgree
<1> QED
  BY <1>1, TypesHold, PTL

-----------------------------------------------------------------------------
(* The folds of the link.                                                   *)

\* One turn of a fold: over the extra modules, or the `require`s of a file.
Turn(f, w, i) == IF f = None THEN Extra(w, program.extra[i]) ELSE Follow(w, f, Sites(f)[i])

\* The fold's equation for one set of places, over what F gives for smaller ones.
After(F, f, w, s) == IF s = {} THEN w ELSE Turn(f, F[s \ {Max(s)}], Max(s))
IsFold(F, f, w, T) == F = [s \in SUBSET T |-> After(F, f, w, s)]

LEMMA ExtraAllIs ==
    ASSUME NEW w
    PROVE  ExtraAll(w) = (CHOOSE F : IsFold(F, None, w, DOMAIN program.extra))[DOMAIN program.extra]
BY DEF ExtraAll, FoldLeft, MapThenFoldSet, IsFold, After, Turn

LEMMA FollowAllIs ==
    ASSUME NEW w, NEW f, f # None
    PROVE  FollowAll(w, f) = (CHOOSE F : IsFold(F, f, w, DOMAIN Sites(f)))[DOMAIN Sites(f)]
BY DEF FollowAll, FoldLeft, MapThenFoldSet, IsFold, After, Turn

\* Induction, over a set of numbers.
LEMMA NatIs ==
    ASSUME NEW T, 0 \in T, \A n \in Nat : n \in T => n + 1 \in T
    PROVE  Nat \subseteq T
<1> SUFFICES ASSUME ~(Nat \subseteq T) PROVE FALSE
  OBVIOUS
<1>1. PICK n \in Nat \ T : \A m \in Nat \ T : n <= m
  <2>1. Nat \ T \in SUBSET Nat /\ Nat \ T # {}
    OBVIOUS
  <2> QED
    BY <2>1, HasLeast
<1>2. n # 0 /\ n - 1 \in Nat /\ (n - 1) + 1 = n
  OBVIOUS
<1>3. n - 1 \in T
  BY <1>1, <1>2
<1> QED
  BY <1>2, <1>3

\* The greatest of a set of places is taken from it.
LEMMA WithoutMax ==
    ASSUME NEW n \in Nat, NEW s \in SUBSET (1 .. n + 1), s # {}
    PROVE  s \ {Max(s)} \subseteq 1 .. n
<1>1. CASE n + 1 \in s
  <2>1. \A y \in s : n + 1 >= y
    OBVIOUS
  <2>2. Max(s) \in s /\ \A y \in s : Max(s) >= y
    BY <1>1, <2>1 DEF Max
  <2>3. ASSUME NEW m \in s, \A y \in s : m >= y PROVE m = n + 1
    <3>1. m \in 1 .. n + 1 /\ m >= n + 1
      BY <1>1, <2>3
    <3> QED
      BY <3>1
  <2>4. Max(s) = n + 1
    BY <2>2, <2>3
  <2> QED
    BY <2>4
<1>2. CASE n + 1 \notin s
  <2>1. ASSUME NEW x \in s PROVE x \in 1 .. n
    <3>1. x \in 1 .. n + 1 /\ x # n + 1
      BY <1>2
    <3> QED
      BY <3>1
  <2> QED
    BY <2>1
<1> QED
  BY <1>1, <1>2

LEMMA FoldExists ==
    ASSUME NEW n \in Nat, NEW f, NEW w
    PROVE  \E F : IsFold(F, f, w, 1 .. n)
<1> DEFINE N == {k \in Nat : \E F : F = [s \in SUBSET (1 .. k) |-> After(F, f, w, s)]}
<1>1. 0 \in N
  <2> DEFINE F == [s \in SUBSET (1 .. 0) |-> w]
  <2>1. \A s \in SUBSET (1 .. 0) : s = {}
    OBVIOUS
  <2>2. F = [s \in SUBSET (1 .. 0) |-> After(F, f, w, s)]
    BY <2>1 DEF After
  <2> QED
    BY <2>2
<1>2. ASSUME NEW k \in Nat, k \in N PROVE k + 1 \in N
  <2>1. PICK F : F = [s \in SUBSET (1 .. k) |-> After(F, f, w, s)]
    BY <1>2
  <2> DEFINE G == [s \in SUBSET (1 .. k + 1) |-> After(F, f, w, s)]
  <2>2. ASSUME NEW s \in SUBSET (1 .. k + 1) PROVE After(F, f, w, s) = After(G, f, w, s)
    <3>1. CASE s = {}
      BY <3>1 DEF After
    <3>2. CASE s # {}
      <4> DEFINE r == s \ {Max(s)}
      <4>1. r \in SUBSET (1 .. k) /\ r \in SUBSET (1 .. k + 1)
        BY <3>2, WithoutMax
      <4>2. F[r] = G[r]
        BY <4>1, <2>1
      <4> QED
        BY <3>2, <4>2 DEF After
    <3> QED
      BY <3>1, <3>2
  <2> HIDE DEF G
  <2>3. G = [s \in SUBSET (1 .. k + 1) |-> After(G, f, w, s)]
    BY <2>2 DEF G
  <2> QED
    BY <2>3
<1>3. n \in N
  <2> HIDE DEF N
  <2> QED
    BY <1>1, <1>2, NatIs
<1> QED
  BY <1>3 DEF IsFold

\* What every turn makes of what those before left, the fold makes of them all.
LEMMA FoldKeeps ==
    ASSUME NEW n \in Nat, NEW f, NEW I, NEW w \in I[0],
           \A i \in 1 .. n : \A v \in I[i - 1] : Turn(f, v, i) \in I[i]
    PROVE  (CHOOSE F : IsFold(F, f, w, 1 .. n))[1 .. n] \in I[n]
<1> DEFINE F == CHOOSE F : IsFold(F, f, w, 1 .. n)
           N == {k \in Nat : k <= n => F[1 .. k] \in I[k]}
<1>1. F = [s \in SUBSET (1 .. n) |-> After(F, f, w, s)]
  <2>1. IsFold(F, f, w, 1 .. n)
    BY FoldExists
  <2> HIDE DEF F
  <2> QED
    BY <2>1 DEF IsFold
<1> HIDE DEF F
<1>2. 0 \in N
  <2>1. {} \in SUBSET (1 .. n) /\ 1 .. 0 = {}
    OBVIOUS
  <2>2. F[{}] = w
    BY <1>1, <2>1 DEF After
  <2> QED
    BY <2>1, <2>2
<1>3. ASSUME NEW k \in Nat, k \in N PROVE k + 1 \in N
  <2> SUFFICES ASSUME k + 1 <= n PROVE F[1 .. k + 1] \in I[k + 1]
    OBVIOUS
  <2>1. 1 .. k + 1 \in SUBSET (1 .. n) /\ 1 .. k + 1 # {} /\ k + 1 \in 1 .. n
    <3>1. k + 1 \in 1 .. k + 1 /\ k + 1 \in 1 .. n
      OBVIOUS
    <3>2. \A x \in 1 .. k + 1 : x \in 1 .. n
      OBVIOUS
    <3> QED
      BY <3>1, <3>2
  <2>2. Max(1 .. k + 1) = k + 1
    <3>1. k + 1 \in 1 .. k + 1 /\ \A y \in 1 .. k + 1 : k + 1 >= y
      OBVIOUS
    <3>2. Max(1 .. k + 1) \in 1 .. k + 1 /\ \A y \in 1 .. k + 1 : Max(1 .. k + 1) >= y
      BY <3>1 DEF Max
    <3> QED
      BY <3>1, <3>2
  <2>3. (1 .. k + 1) \ {k + 1} = 1 .. k
    OBVIOUS
  <2>4. F[1 .. k + 1] = Turn(f, F[1 .. k], k + 1)
    <3>1. F[1 .. k + 1] = After(F, f, w, 1 .. k + 1)
      BY <1>1, <2>1
    <3> QED
      BY <2>1, <2>2, <2>3, <3>1 DEF After
  <2>5. F[1 .. k] \in I[k] /\ (k + 1) - 1 = k
    BY <1>3
  <2> QED
    BY <2>1, <2>4, <2>5
<1>4. n \in N
  <2> HIDE DEF N
  <2> QED
    BY <1>2, <1>3, NatIs
<1> QED
  BY <1>4 DEF F

-----------------------------------------------------------------------------
(* What a name is answered with, and what it is to the linker.             *)

\* The link is of a project with an entry.
Linking ==
    /\ program \in Programs /\ program \in Projects
    /\ sources \in SUBSET program.files /\ program.entry \in sources

FileOrNone(ext) == {f \in program.files : f.ext = ext} \cup {None}
IsFound(a) ==
    /\ a.kind = "found"
    /\ a.impl \in FileOrNone("tl") /\ a.decl \in FileOrNone("d.tl") /\ a.lua \in FileOrNone("lua")
IsAnswer(a) ==
    \/ IsFound(a)
    \/ a.kind = "shadowed" /\ a.decl \in FileOrNone("d.tl")
    \/ a.kind = "hidden" /\ a.file \in program.files \cup {None}
    \/ a.kind \in {"missing", "outside", "ambiguous"}

\* The first of some entries of a name is a file of theirs.
LEMMA FirstTyped ==
    ASSUME Linking, NEW n, NEW S \in SUBSET Claims(program, Known(program, sources), n)
    PROVE  \/ S = {} /\ FirstOf(S) = None
           \/ \E e \in S : FirstOf(S) = e.file /\ e.file \in program.files
<1>1. CASE S = {}
  BY <1>1 DEF FirstOf
<1>2. CASE S # {}
  <2>1. Known(program, sources) \in SUBSET program.files
    BY DEF Known, Walked, Linking
  <2>2. \A e \in S : /\ e.module \in Nat /\ e.root \in Nat /\ Rank(e) \in Nat
                     /\ e.file \in program.files
    BY <2>1, ClaimIs DEF Linking
  <2>3. \E e \in S : FirstOf(S) = e.file
    BY <1>2, <2>2, FirstIsOne
  <2> QED
    BY <2>2, <2>3
<1> QED
  BY <1>1, <1>2

LEMMA FirstHasExt ==
    ASSUME Linking, NEW n, NEW S \in SUBSET Claims(program, Known(program, sources), n),
           NEW ext, \A e \in S : e.file.ext = ext
    PROVE  FirstOf(S) \in FileOrNone(ext)
BY FirstTyped DEF FileOrNone

LEMMA PickTyped ==
    ASSUME Linking, NEW n, NEW S \in SUBSET Claims(program, Known(program, sources), n)
    PROVE  Pick(S).kind \in {"missing", "ambiguous"} \/ IsFound(Pick(S))
<1>1. \A ext \in Exts : FirstOf({e \in S : e.file.ext = ext}) \in FileOrNone(ext)
  <2> SUFFICES ASSUME NEW ext \in Exts
               PROVE  FirstOf({e \in S : e.file.ext = ext}) \in FileOrNone(ext)
    OBVIOUS
  <2> DEFINE R == {e \in S : e.file.ext = ext}
  <2>1. R \in SUBSET Claims(program, Known(program, sources), n) /\ \A e \in R : e.file.ext = ext
    OBVIOUS
  <2> HIDE DEF R
  <2>2. FirstOf(R) \in FileOrNone(ext)
    BY <2>1, FirstHasExt
  <2> QED
    BY <2>2 DEF R
<1> DEFINE found == [kind |-> "found", impl |-> FirstOf({e \in S : e.file.ext = "tl"}),
                     decl |-> FirstOf({e \in S : e.file.ext = "d.tl"}),
                     lua |-> FirstOf({e \in S : e.file.ext = "lua"})]
<1>2. IsFound(found)
  BY <1>1 DEF IsFound, Exts
<1>3. Pick(S).kind \in {"missing", "ambiguous"} \/ Pick(S) = found
  BY DEF Pick, Missing
<1> HIDE DEF found
<1> QED
  BY <1>2, <1>3

LEMMA AnswerTyped ==
    ASSUME Linking, NEW r, NEW name
    PROVE  IsAnswer(Answer(r, name))
<1> DEFINE asked == Asked(program, r, name)
           C == Claims(program, Known(program, sources), asked.of)
<1>1. Answer(r, name) = ResolveAs(program, r, asked, C)
  BY DEF Answer, Resolve
<1> HIDE DEF asked
<1>2. \A S \in SUBSET C : IsAnswer(Pick(S)) /\ Pick(S).kind \in {"missing", "ambiguous", "found"}
  BY PickTyped DEF IsAnswer, IsFound
<1>3. IsAnswer(ResolvePlain(program, r, asked.of, C))
  <2> DEFINE S == {e \in C : ~Hides(program, r, e)}
             hidden == {e \in C : Owner(program, e.module) = "own" /\ e.role # "test"}
  <2>1. FirstOf(hidden) \in program.files \cup {None}
    <3>1. hidden \in SUBSET C
      OBVIOUS
    <3> HIDE DEF hidden
    <3> QED
      BY <3>1, FirstTyped
  <2>2. IsAnswer(Pick(S)) /\ Pick(S).kind \in {"missing", "ambiguous", "found"}
    <3>1. S \in SUBSET C
      OBVIOUS
    <3> HIDE DEF S, C
    <3> QED
      BY <3>1, <1>2
  <2>3. ResolvePlain(program, r, asked.of, C) = PlainAnswer(program, r, asked.of, Pick(S), hidden)
    BY DEF ResolvePlain
  <2> HIDE DEF S, hidden, C
  <2>4. Pick(S).kind = "found" => IsAnswer(UnlessProvided(program, asked.of, Pick(S)))
    BY <2>2 DEF UnlessProvided, IsAnswer, IsFound
  <2> QED
    BY <2>1, <2>2, <2>3, <2>4 DEF PlainAnswer, IsAnswer, Outside
<1>4. \A S : S \subseteq C => IsAnswer(Pick(S))
  BY <1>2
<1>5. /\ IsAnswer(Pick({e \in C : Owner(program, e.module) = "own"}))
      /\ IsAnswer(Pick({e \in C : /\ program.modules[e.module].name = asked.by
                                  /\ Owner(program, e.module) \in Dependencies}))
  <2>1. /\ {e \in C : Owner(program, e.module) = "own"} \subseteq C
        /\ {e \in C : /\ program.modules[e.module].name = asked.by
                      /\ Owner(program, e.module) \in Dependencies} \subseteq C
    OBVIOUS
  <2> HIDE DEF C
  <2> QED
    BY <2>1, <1>4
<1> HIDE DEF C
<1> QED
  BY <1>1, <1>3, <1>5 DEF ResolveAs

\* Nothing is hidden from a run, and what the host provides no file answers.
LEMMA RunTyped ==
    ASSUME Linking, NEW name
    PROVE  LET run == Answer(None, name)
           IN  /\ run.kind \in {"found", "shadowed", "missing", "outside", "ambiguous"}
               /\ run.kind = "found" => IsFound(run)
               /\ run.kind = "shadowed" => run.decl \in FileOrNone("d.tl")
               /\ run.kind = "found" /\ name.by = "anyone" /\ name.of \in program.provided
                    => run.impl = None /\ run.lua = None
<1> DEFINE run == Answer(None, name)
           C == Claims(program, Known(program, sources), name.of)
<1>1. Asked(program, None, name) = name /\ ~FromDependency(program, None)
  BY DEF Asked, FromOwn, FromDependency, From
<1>2. run = ResolveAs(program, None, name, C)
  BY <1>1 DEF Answer, Resolve
<1>3. IsAnswer(run)
  BY AnswerTyped
<1>4. \A S : Pick(S).kind \in {"found", "missing", "ambiguous"}
  BY DEF Pick, Missing
<1>5. CASE name.by = "anyone"
  <2>1. PICK S : run = PlainAnswer(program, None, name.of, Pick(S),
                         {e \in C : Owner(program, e.module) = "own" /\ e.role # "test"})
    BY <1>2, <1>5 DEF ResolveAs, ResolvePlain
  <2>2. Pick(S).kind = "found" => run = UnlessProvided(program, name.of, Pick(S))
    BY <2>1 DEF PlainAnswer
  <2>3. Pick(S).kind # "found" => run.kind \in {"ambiguous", "outside"}
    BY <1>1, <1>4, <2>1 DEF PlainAnswer, Outside
  <2> HIDE DEF run, C
  <2>4. Pick(S).kind = "found" => /\ run.kind \in {"found", "shadowed"}
                                  /\ run.kind = "found" /\ name.of \in program.provided
                                       => run.impl = None /\ run.lua = None
    BY <2>2 DEF UnlessProvided
  <2>5. run.kind \in {"found", "shadowed", "ambiguous", "outside"}
    BY <1>4, <2>3, <2>4
  <2>6. /\ run.kind = "found" => IsFound(run)
        /\ run.kind = "shadowed" => run.decl \in FileOrNone("d.tl")
    BY <1>3 DEF IsAnswer, IsFound
  <2>7. run.kind = "found" /\ name.of \in program.provided => run.impl = None /\ run.lua = None
    BY <1>4, <2>3, <2>4
  <2> QED
    BY <2>5, <2>6, <2>7 DEF run
<1>6. CASE name.by # "anyone"
  <2>1. PICK S : run = Pick(S)
    BY <1>2, <1>6 DEF ResolveAs
  <2> QED
    BY <1>3, <1>4, <1>6, <2>1 DEF IsAnswer
<1> QED
  BY <1>5, <1>6

\* A file that sees all of a name it asks for is answered as a run is.
LEMMA AnsweredAsARun ==
    ASSUME Linking, NEW f \in program.files, NEW site \in Range(Sites(f)),
           ~SeesPart(f, Followed(f, site))
    PROVE  Answer(f, Followed(f, site)) = Answer(None, Followed(f, site))
<1> DEFINE name == Followed(f, site)
           C == Claims(program, Known(program, sources), name.of)
<1>1. Asked(program, f, name) = name
  <2>1. CASE FromOwn(program, f) /\ Importing(program, site.name) # {}
    <3> DEFINE I == Importing(program, site.name)
               i == CHOOSE i \in I : \A j \in I : i <= j
    <3>1. i \in DOMAIN program.imports
      <4>1. DOMAIN program.imports \in SUBSET Nat
        BY ProgramsTyped DEF Linking
      <4>2. I \in SUBSET Nat /\ I # {} /\ I \subseteq DOMAIN program.imports
        BY <2>1, <4>1 DEF Importing
      <4> HIDE DEF I
      <4>3. \E k \in I : \A j \in I : k <= j
        BY <4>2, HasLeast
      <4> QED
        BY <4>2, <4>3
    <3>2. name = Imported(program, site.name)
      BY <2>1 DEF Followed, Rewrite
    <3>3. name.by = "own" \/ (name.by = Head(program.imports[i].to) /\ ~program.imports[i].own)
      <4> DEFINE to == program.imports[i].to \o SubSeq(site.name, Len(program.imports[i].key) + 1, Len(site.name))
      <4>1. Imported(program, site.name) =
              IF program.imports[i].own THEN OwnName(to) ELSE DepName(Head(program.imports[i].to), to)
        BY DEF Imported
      <4> HIDE DEF i, to, name
      <4> QED
        BY <3>2, <4>1 DEF OwnName, DepName
    <3>4. name.by # "anyone"
      BY <3>1, <3>3, ImportsTyped DEF Linking
    <3> QED
      BY <3>4 DEF Asked
  <2>2. CASE FromOwn(program, f) /\ Importing(program, site.name) = {}
    <3>1. ~FromDependency(program, f)
      BY <2>2 DEF FromDependency, FromOwn, Dependencies
    <3>2. name = Plain(site.name)
      BY <2>2, <3>1 DEF Followed, Rewrite
    <3> QED
      BY <2>2, <3>2 DEF Asked, Plain
  <2>3. CASE ~FromOwn(program, f)
    BY <2>3 DEF Asked
  <2> QED
    BY <2>1, <2>2, <2>3
<1>2. Asked(program, None, name) = name
  BY DEF Asked, FromOwn, From
<1> SUFFICES Answer(f, name) = Answer(None, name)
  OBVIOUS
<1> HIDE DEF name
<1>3. /\ Answer(f, name) = ResolveAs(program, f, name, C)
      /\ Answer(None, name) = ResolveAs(program, None, name, C)
  BY <1>1, <1>2 DEF Answer, Resolve
<1>4. CASE name.by # "anyone"
  <2>1. CASE name.by = "own"
    BY <1>3, <2>1 DEF ResolveAs
  <2>2. CASE name.by # "own"
    <3> DEFINE D == {e \in C : /\ program.modules[e.module].name = name.by
                               /\ Owner(program, e.module) \in Dependencies}
    <3>1. /\ ResolveAs(program, f, name, C) = Pick(D)
          /\ ResolveAs(program, None, name, C) = Pick(D)
      BY <1>4, <2>2 DEF ResolveAs
    <3> QED
      BY <1>3, <3>1
  <2> QED
    BY <2>1, <2>2
<1>5. CASE name.by = "anyone"
  <2>1. \A e \in C : ~Hides(program, f, e)
    BY <1>5 DEF SeesPart, name
  <2>2. \A e \in C : ~Hides(program, None, e)
    BY DEF Hides, From, FromDependency
  <2>3. \A e \in C : Owner(program, e.module) = "own" => ~FromDependency(program, f)
    BY <2>1 DEF Hides
  <2> DEFINE hidden == {e \in C : Owner(program, e.module) = "own" /\ e.role # "test"}
  <2> HIDE DEF C
  <2>4. {e \in C : ~Hides(program, f, e)} = C /\ {e \in C : ~Hides(program, None, e)} = C
    BY <2>1, <2>2
  <2>5. /\ Answer(f, name) = PlainAnswer(program, f, name.of, Pick(C), hidden)
        /\ Answer(None, name) = PlainAnswer(program, None, name.of, Pick(C), hidden)
    BY <1>3, <1>5, <2>4 DEF ResolveAs, ResolvePlain
  <2>6. ~FromDependency(program, None)
    BY DEF FromDependency, From
  <2>7. ~FromDependency(program, f) \/ hidden = {}
    BY <2>3
  <2> HIDE DEF hidden
  <2>8. PlainAnswer(program, f, name.of, Pick(C), hidden) = PlainAnswer(program, None, name.of, Pick(C), hidden)
    <3>1. CASE Pick(C).kind = "found" \/ Pick(C).kind = "ambiguous"
      BY <3>1 DEF PlainAnswer
    <3>2. CASE ~(Pick(C).kind = "found" \/ Pick(C).kind = "ambiguous")
      BY <2>6, <2>7, <3>2 DEF PlainAnswer
    <3> QED
      BY <3>1, <3>2
  <2> QED
    BY <2>5, <2>8
<1> QED
  BY <1>4, <1>5

-----------------------------------------------------------------------------
(* What a name is to the linker.                                           *)

\* A name asked with nothing seen before.
AsRun(name) == Target(name, Answer(None, name), None)

LEMMA ClassifyTyped ==
    ASSUME Linking, NEW name, NEW run, NEW path \in program.files \cup {None}, IsAnswer(run)
    PROVE  LET target == Target(name, run, path)
           IN  \/ /\ target.kind = "file" /\ target = [kind |-> "file", file |-> target.file]
                  /\ target.file \in program.files
               \/ target.kind \in {"host", "missing", "ambiguous", "shadowed"}
<1> DEFINE found == IF path # None THEN path ELSE Searched(run)
<1>1. found \in program.files \cup {None}
  BY DEF IsAnswer, IsFound, FileOrNone, Searched, FirstFound
<1>2. PlainLua(run) \in program.files \cup {None}
  BY DEF IsAnswer, IsFound, FileOrNone, PlainLua
<1>3. Target(name, run, path) = Classify(name, run, found)
  BY DEF Target
<1> HIDE DEF found
<1> QED
  BY <1>1, <1>2, <1>3 DEF Classify

\* The file a run loads, if the run is answered: of what is declared only, none.
LEMMA AsRunIs ==
    ASSUME Linking, NEW name
    PROVE  LET run == Answer(None, name)
           IN  \/ run.kind = "shadowed" /\ AsRun(name).kind = "shadowed"
               \/ run.kind = "ambiguous" /\ AsRun(name).kind = "ambiguous"
               \/ run.kind \in {"missing", "outside"} /\ AsRun(name).kind = "missing"
               \/ run.kind = "found" /\ AsRun(name).kind = "missing"
               \/ /\ run.kind = "found" /\ Runs(run) # None
                  /\ AsRun(name) = [kind |-> "file", file |-> Runs(run)]
               \/ run.kind = "found" /\ Runs(run) = None /\ AsRun(name).kind = "host"
<1> DEFINE run == Answer(None, name)
<1>1. /\ run.kind \in {"found", "shadowed", "missing", "outside", "ambiguous"}
      /\ run.kind = "found" => IsFound(run)
      /\ run.kind = "shadowed" => run.decl \in FileOrNone("d.tl")
      /\ run.kind = "found" /\ name.by = "anyone" /\ name.of \in program.provided
           => run.impl = None /\ run.lua = None
  BY RunTyped
<1>2. AsRun(name) = Classify(name, run, Searched(run))
  BY DEF AsRun, Target
<1> HIDE DEF run
<1>3. CASE run.kind = "shadowed"
  <2>1. Searched(run) = run.decl
    BY <1>3 DEF Searched
  <2>2. Searched(run) = None \/ Searched(run).ext = "d.tl"
    BY <1>1, <1>3, <2>1 DEF FileOrNone
  <2>3. Classify(name, run, Searched(run)) = [kind |-> "shadowed"]
    BY <1>3, <2>2 DEF Classify
  <2> QED
    BY <1>2, <1>3, <2>3 DEF run
<1>4. CASE run.kind \in {"missing", "outside", "ambiguous"}
  <2>1. Searched(run) = None
    BY <1>4 DEF Searched
  <2>2. Classify(name, run, Searched(run)) =
          [kind |-> IF run.kind = "ambiguous" THEN "ambiguous" ELSE "missing"]
    BY <1>4, <2>1 DEF Classify
  <2> QED
    BY <1>2, <1>4, <2>2 DEF run
<1>5. CASE run.kind = "found"
  <2>1. Searched(run) = FirstFound(run) /\ PlainLua(run) = run.lua
    BY <1>5 DEF Searched, PlainLua
  <2>2. /\ run.impl # None => run.impl.ext = "tl"
        /\ run.decl # None => run.decl.ext = "d.tl"
        /\ run.lua # None => run.lua.ext = "lua"
    <3>1. IsFound(run)
      BY <1>1, <1>5
    <3> QED
      BY <3>1 DEF IsFound, FileOrNone
  <2>3. CASE run.impl # None
    BY <1>2, <1>5, <2>1, <2>2, <2>3 DEF Classify, FirstFound, Runs, run
  <2>4. CASE run.impl = None /\ run.decl = None /\ run.lua # None
    BY <1>2, <1>5, <2>1, <2>2, <2>4 DEF Classify, FirstFound, Runs, run
  <2>5. CASE run.impl = None /\ run.decl = None /\ run.lua = None
    BY <1>2, <1>5, <2>1, <2>2, <2>5 DEF Classify, FirstFound, Runs, run
  <2>6. CASE run.impl = None /\ run.decl # None /\ run.lua = None
    <3>1. Provided(name, run)
      BY <1>5, <2>6 DEF Provided
    <3> QED
      BY <1>2, <1>5, <2>1, <2>2, <2>6, <3>1 DEF Classify, FirstFound, Runs, run
  <2>7. CASE run.impl = None /\ run.decl # None /\ run.lua # None
    <3>1. ~Provided(name, run)
      BY <1>1, <1>5, <2>7 DEF Provided
    <3> QED
      BY <1>2, <1>5, <2>1, <2>2, <2>7, <3>1 DEF Classify, FirstFound, Runs, run
  <2> QED
    BY <2>3, <2>4, <2>5, <2>6, <2>7
<1> QED
  BY <1>1, <1>3, <1>4, <1>5 DEF run

\* What a name is does not depend on who asks, if he sees all of it.
LEMMA OneTarget ==
    ASSUME Linking, NEW f \in program.files, NEW site \in Range(Sites(f)),
           ~SeesPart(f, Followed(f, site))
    PROVE  LET name == Followed(f, site)
           IN  Target(name, Answer(None, name), Searched(Answer(f, name))) = AsRun(name)
<1> DEFINE name == Followed(f, site)
<1>1. Answer(f, name) = Answer(None, name)
  BY AnsweredAsARun
<1> QED
  BY <1>1 DEF AsRun, Target

-----------------------------------------------------------------------------
(* One name followed.                                                      *)

\* What a name is to the linker when a file asks for it.
TargetFor(f, name) == Target(name, Answer(None, name), Searched(Answer(f, name)))

LEMMA TargetTyped ==
    ASSUME Linking, NEW f, NEW name
    PROVE  \/ /\ TargetFor(f, name) = [kind |-> "file", file |-> TargetFor(f, name).file]
              /\ TargetFor(f, name).kind = "file" /\ TargetFor(f, name).file \in program.files
           \/ TargetFor(f, name).kind \in {"host", "missing", "ambiguous", "shadowed"}
<1>1. IsAnswer(Answer(f, name)) /\ IsAnswer(Answer(None, name))
  BY AnswerTyped
<1>2. Searched(Answer(f, name)) \in program.files \cup {None}
  BY <1>1 DEF IsAnswer, IsFound, FileOrNone, Searched, FirstFound
<1>3. \A path \in program.files \cup {None} :
        LET target == Target(name, Answer(None, name), path)
        IN  \/ /\ target.kind = "file" /\ target = [kind |-> "file", file |-> target.file]
               /\ target.file \in program.files
            \/ target.kind \in {"host", "missing", "ambiguous", "shadowed"}
  BY <1>1, ClassifyTyped
<1> QED
  BY <1>2, <1>3 DEF TargetFor

\* An ambiguous name a typed file asks for is an error of its check.
LEMMA AmbiguousIsRejected ==
    ASSUME Linking, NEW f \in program.files, NEW site \in Range(Sites(f)), Typed(f),
           TargetFor(f, Followed(f, site)).kind = "ambiguous"
    PROVE  Rejected(f)
<1> DEFINE name == Followed(f, site)
           answer == Answer(f, name)
<1>1. Searched(answer) = None
  <2>1. ASSUME Searched(answer) # None PROVE FALSE
    <3>1. TargetFor(f, name) = Classify(name, Answer(None, name), Searched(answer))
      BY <2>1 DEF TargetFor, Target
    <3> HIDE DEF answer, name
    <3>2. Classify(name, Answer(None, name), Searched(answer)).kind # "ambiguous"
      BY <2>1 DEF Classify
    <3> QED
      BY <3>1, <3>2 DEF name
  <2> QED
    BY <2>1
<1>2. ErrorAt(f, answer)
  <2> HIDE DEF answer
  <2> QED
    BY <1>1 DEF ErrorAt, Searched, FirstFound
<1>3. PICK i \in DOMAIN Sites(f) : Sites(f)[i] = site
  BY DEF Range
<1> QED
  BY <1>2, <1>3 DEF Rejected

\* A name that is followed is put in one of three places, or an error is noted.
LEMMA FollowIs ==
    ASSUME Linking, NEW v, NEW f \in program.files, NEW site \in Range(Sites(f)), ~site.erased
    PROVE  LET name == Followed(f, site)
               w == Follow(v, f, site)
               target == TargetFor(f, name)
           IN  \/ w = v /\ name \in v.queued
               \/ w = v /\ Rejected(f)
               \/ w = Fail(v)
               \/ /\ w = File(v, name) /\ name \notin v.queued
                  /\ name \in program.hosts \cup v.host \/ target.kind \in {"host", "shadowed"}
                  /\ ~Typed(f) => Answer(None, name).kind # "shadowed"
               \/ /\ w = Queue(v, name, target.file) /\ name \notin v.queued
                  /\ target.kind = "file"
<1> DEFINE name == Followed(f, site)
           run == Answer(None, name)
           target == TargetFor(f, name)
<1>1. Follow(v, f, site) = FollowName(v, f, name)
  BY DEF Follow
<1>2. CASE name \in v.queued
  BY <1>1, <1>2 DEF FollowName
<1>3. CASE name \notin v.queued /\ name \in program.hosts \cup v.host
  <2>1. FollowName(v, f, name) = FollowHost(v, f, name)
    BY <1>3 DEF FollowName
  <2> QED
    BY <1>1, <1>3, <2>1 DEF FollowHost
<1>4. CASE name \notin v.queued /\ name \notin program.hosts \cup v.host
  <2>1. FollowName(v, f, name) = FollowTarget(v, f, name, target)
    BY <1>4 DEF FollowName, TargetFor
  <2>2. \/ target.kind = "file" \/ target.kind \in {"host", "missing", "ambiguous", "shadowed"}
    BY TargetTyped
  <2>3. target.kind = "ambiguous" /\ Typed(f) => Rejected(f)
    BY AmbiguousIsRejected
  <2>4. target.kind = "host" => run.kind # "shadowed"
    <3> DEFINE found == IF Searched(Answer(f, name)) # None THEN Searched(Answer(f, name))
                        ELSE Searched(run)
    <3>1. target = Classify(name, run, found)
      BY DEF TargetFor, Target
    <3> HIDE DEF run, found, target
    <3> QED
      BY <3>1 DEF Classify
  <2>5. \/ target.kind = "file" /\ FollowTarget(v, f, name, target) = Queue(v, name, target.file)
        \/ target.kind = "host" /\ FollowTarget(v, f, name, target) = File(v, name)
        \/ FollowTarget(v, f, name, target) = Fail(v)
        \/ target.kind = "ambiguous" /\ Typed(f) /\ FollowTarget(v, f, name, target) = v
        \/ target.kind = "shadowed" /\ Typed(f) /\ FollowTarget(v, f, name, target) = File(v, name)
    <3> HIDE DEF target, name
    <3> QED
      BY <2>2 DEF FollowTarget
  <2> HIDE DEF target, run
  <2> QED
    BY <1>1, <1>4, <2>1, <2>3, <2>4, <2>5 DEF target, run
<1> QED
  BY <1>2, <1>3, <1>4

\* So is an extra module.
LEMMA ExtraIs ==
    ASSUME Linking, NEW v, NEW name
    PROVE  LET w == Extra(v, name)
               target == AsRun(name)
           IN  \/ w = v
               \/ w = Fail(v)
               \/ w = File(v, name) /\ target.kind = "host"
               \/ /\ w = Queue(v, name, target.file) /\ name \notin v.queued
                  /\ target.kind = "file" /\ target = [kind |-> "file", file |-> target.file]
                  /\ target.file \in program.files
<1> DEFINE target == AsRun(name)
<1>1. Extra(v, name) = ExtraOf(v, name, target)
  BY DEF Extra, AsRun
<1>2. \/ /\ target.kind = "file" /\ target = [kind |-> "file", file |-> target.file]
         /\ target.file \in program.files
      \/ target.kind \in {"host", "missing", "ambiguous", "shadowed"}
  BY AnswerTyped, ClassifyTyped DEF AsRun
<1> HIDE DEF target
<1>3. \/ ExtraOf(v, name, target) = v
      \/ ExtraOf(v, name, target) = Fail(v)
      \/ ExtraOf(v, name, target) = File(v, name) /\ target.kind = "host"
      \/ /\ ExtraOf(v, name, target) = Queue(v, name, target.file) /\ name \notin v.queued
         /\ target.kind = "file"
  BY <1>2 DEF ExtraOf
<1> QED
  BY <1>1, <1>2, <1>3 DEF target

-----------------------------------------------------------------------------
(* What the walk keeps.                                                    *)

AllNames == {EntryName(program)} \cup Range(program.extra)
              \cup UNION {AsksFor(f) : f \in program.files}
Mods == [name : AllNames, file : program.files]
Walks == [queue : Seq(Mods), queued : SUBSET AllNames, host : SUBSET AllNames, failed : BOOLEAN]

\* Of the modules of T, all who ask for a name see all of it.
SeenBy(T, name) == \A m \in T : name \in AsksFor(m.file) => ~SeesPart(m.file, name)

\* Each name is in the queue or taken, once.
Counted(w, T) ==
    /\ EntryName(program) \in w.queued /\ IsFiniteSet(w.queued) /\ IsFiniteSet(T)
    /\ {m.name : m \in Range(w.queue) \cup T} = w.queued
    /\ Cardinality(w.queued) = Len(w.queue) + Cardinality(T)
    /\ \A i \in DOMAIN w.queue : \A m \in T : w.queue[i].name # m.name
    /\ \A i, j \in DOMAIN w.queue : w.queue[i].name = w.queue[j].name => i = j

\* A module is the file its name is to the linker, and what is not bundled is the host's.
Fits(T, m) ==
    IF m.name = EntryName(program) THEN m.file = program.entry
    ELSE SeenBy(T, m.name) => AsRun(m.name) = [kind |-> "file", file |-> m.file]
HostFits(T, name) ==
    name \in program.hosts \/ (SeenBy(T, name) => AsRun(name).kind \in {"host", "shadowed"})
Fitting(w, T) ==
    /\ \A m \in Range(w.queue) \cup T : Fits(T, m)
    /\ \A name \in w.host : HostFits(T, name)

\* Somebody wants it.
Wanted(T, name) ==
    \/ name = EntryName(program) \/ name \in Range(program.extra)
    \/ \E m \in T : name \in AsksFor(m.file)

Good(w, T) ==
    /\ w \in Walks /\ T \in SUBSET Mods
    /\ Counted(w, T) /\ Fitting(w, T)
    /\ \A name \in w.queued \cup w.host : Wanted(T, name)

\* A `require` of a taken module was followed.
SiteDone(w, f, site) ==
    ~w.failed /\ ~site.erased =>
      LET name == Followed(f, site)
      IN  /\ name \in w.queued \cup w.host
          /\ ~Typed(f) /\ Answer(None, name).kind = "shadowed" => name \in w.queued
Done(w, f) ==
    /\ Rejected(f) => w.failed
    /\ \A site \in Range(Sites(f)) : SiteDone(w, f, site)

\* Nothing is taken back.
Grows(v, w) == v.queued \subseteq w.queued /\ v.host \subseteq w.host /\ (v.failed => w.failed)

LEMMA DoneStays ==
    ASSUME NEW v, NEW w, NEW f, Done(v, f), Grows(v, w)
    PROVE  Done(w, f)
<1>1. ASSUME NEW site \in Range(Sites(f)) PROVE SiteDone(w, f, site)
  <2>1. SiteDone(v, f, site)
    BY DEF Done
  <2> QED
    BY <2>1 DEF SiteDone, Grows
<1> QED
  BY <1>1 DEF Done, Grows

LEMMA FailKeeps ==
    ASSUME NEW w, NEW T, Good(w, T)
    PROVE  Good(Fail(w), T) /\ Grows(w, Fail(w)) /\ Fail(w).failed
<1>1. w \in Walks
  BY DEF Good
<1>2. /\ Fail(w) \in Walks /\ Fail(w).failed
      /\ Fail(w).queue = w.queue /\ Fail(w).queued = w.queued /\ Fail(w).host = w.host
  BY <1>1 DEF Fail, Walks
<1> QED
  BY <1>2 DEF Good, Counted, Fitting, Grows

LEMMA FileKeeps ==
    ASSUME NEW w, NEW T, Good(w, T), NEW name \in AllNames,
           Wanted(T, name), name \in w.host \/ HostFits(T, name)
    PROVE  Good(File(w, name), T) /\ Grows(w, File(w, name)) /\ name \in File(w, name).host
<1>1. w = [queue |-> w.queue, queued |-> w.queued, host |-> w.host, failed |-> w.failed]
  BY DEF Good, Walks
<1>2. File(w, name) = [queue |-> w.queue, queued |-> w.queued, host |-> w.host \cup {name},
                       failed |-> w.failed]
  BY <1>1 DEF File
<1>3. File(w, name) \in Walks
  BY <1>2 DEF Good, Walks
<1>4. Counted(File(w, name), T)
  BY <1>2 DEF Good, Counted
<1>5. Fitting(File(w, name), T)
  BY <1>2 DEF Good, Fitting
<1> QED
  BY <1>2, <1>3, <1>4, <1>5 DEF Good, Grows

LEMMA QueueKeeps ==
    ASSUME NEW w, NEW T, Good(w, T), NEW name \in AllNames, NEW file \in program.files,
           name \notin w.queued, Wanted(T, name),
           SeenBy(T, name) => AsRun(name) = [kind |-> "file", file |-> file]
    PROVE  /\ Good(Queue(w, name, file), T) /\ Grows(w, Queue(w, name, file))
           /\ name \in Queue(w, name, file).queued
<1> DEFINE m == [name |-> name, file |-> file]
           v == Queue(w, name, file)
<1>1. w = [queue |-> w.queue, queued |-> w.queued, host |-> w.host, failed |-> w.failed]
  BY DEF Good, Walks
<1>2. v = [queue |-> Append(w.queue, m), queued |-> w.queued \cup {name}, host |-> w.host,
           failed |-> w.failed]
  <2> DEFINE q == Append(w.queue, m)
             u == [w EXCEPT !.queue = q]
  <2>1. u = [queue |-> q, queued |-> w.queued, host |-> w.host, failed |-> w.failed]
    <3> HIDE DEF q
    <3> QED
      BY <1>1
  <2>2. v = [u EXCEPT !.queued = w.queued \cup {name}]
    BY <1>1, <2>1 DEF Queue
  <2> QED
    BY <2>1, <2>2
<1>3. m \in Mods /\ m.name = name /\ m.file = file
  BY DEF Mods
<1>4. w.queue \in Seq(Mods)
  BY DEF Good, Walks
<1>5. v \in Walks
  BY <1>2, <1>3, <1>4 DEF Good, Walks
<1> HIDE DEF v, m
<1>6. /\ v.queue = Append(w.queue, m) /\ Len(v.queue) = Len(w.queue) + 1 /\ Len(w.queue) \in Nat
      /\ DOMAIN v.queue = DOMAIN w.queue \cup {Len(w.queue) + 1}
      /\ DOMAIN w.queue = 1 .. Len(w.queue)
      /\ \A i \in DOMAIN w.queue : v.queue[i] = w.queue[i]
      /\ v.queue[Len(w.queue) + 1] = m
  <2>1. v.queue = Append(w.queue, m)
    BY <1>2
  <2> QED
    BY <1>3, <1>4, <2>1
<1>7. Range(v.queue) = Range(w.queue) \cup {m}
  BY <1>6 DEF Range
<1>8. name # EntryName(program) /\ \A x \in Range(w.queue) \cup T : x.name # name
  BY DEF Good, Counted
<1>9. Counted(v, T)
  <2>1. IsFiniteSet(v.queued) /\ Cardinality(v.queued) = Cardinality(w.queued) + 1
    <3>1. IsFiniteSet(w.queued) /\ v.queued = w.queued \cup {name}
      BY <1>2 DEF Good, Counted
    <3> QED
      BY <3>1, FS_AddElement
  <2>2. {x.name : x \in Range(v.queue) \cup T} = v.queued
    BY <1>2, <1>3, <1>7 DEF Good, Counted
  <2>3. Cardinality(v.queued) = Len(v.queue) + Cardinality(T)
    <3>1. Cardinality(T) \in Nat
      BY FS_CardinalityType DEF Good, Counted
    <3> QED
      BY <1>6, <2>1, <3>1 DEF Good, Counted
  <2>4. \A i \in DOMAIN w.queue : w.queue[i] \in Range(w.queue)
    BY DEF Range
  <2>5. \A i \in DOMAIN v.queue : \A x \in T : v.queue[i].name # x.name
    BY <1>3, <1>6, <1>8 DEF Good, Counted
  <2>6. \A i, j \in DOMAIN v.queue : v.queue[i].name = v.queue[j].name => i = j
    <3>1. \A i \in DOMAIN w.queue : v.queue[i].name # name
      BY <1>6, <1>8, <2>4
    <3>2. \A i, j \in DOMAIN w.queue : v.queue[i].name = v.queue[j].name => i = j
      BY <1>6 DEF Good, Counted
    <3>3. v.queue[Len(w.queue) + 1].name = name
      BY <1>3, <1>6
    <3> QED
      BY <1>6, <3>1, <3>2, <3>3
  <2>7. EntryName(program) \in v.queued /\ IsFiniteSet(T)
    BY <1>2 DEF Good, Counted
  <2> QED
    BY <2>1, <2>2, <2>3, <2>5, <2>6, <2>7 DEF Counted
<1>10. Fitting(v, T)
  <2>1. Fits(T, m)
    BY <1>3, <1>8 DEF Fits
  <2> QED
    BY <1>2, <1>7, <2>1 DEF Good, Fitting
<1>11. \A n \in v.queued \cup v.host : Wanted(T, n)
  BY <1>2 DEF Good
<1>12. Grows(w, v) /\ name \in v.queued
  BY <1>2 DEF Grows
<1> QED
  BY <1>5, <1>9, <1>10, <1>11, <1>12 DEF Good, v

LEMMA FollowKeeps ==
    ASSUME Linking, NEW w, NEW T, Good(w, T), NEW m \in T, Rejected(m.file) => w.failed,
           NEW site \in Range(Sites(m.file))
    PROVE  LET v == Follow(w, m.file, site)
           IN  Good(v, T) /\ Grows(w, v) /\ SiteDone(v, m.file, site)
<1> DEFINE f == m.file
           name == Followed(f, site)
           target == TargetFor(f, name)
           v == Follow(w, f, site)
<1>1. f \in program.files /\ w \in Walks
  BY DEF Good, Mods
<1>2. Grows(w, w)
  BY DEF Grows
<1>3. CASE site.erased
  BY <1>2, <1>3 DEF Follow, SiteDone
<1>4. CASE ~site.erased
  <2>1. name \in AsksFor(f)
    BY <1>4 DEF AsksFor
  <2>2. name \in AllNames /\ Wanted(T, name)
    BY <1>1, <2>1 DEF AllNames, Wanted
  <2>3. SeenBy(T, name) => target = AsRun(name)
    <3>1. SeenBy(T, name) => ~SeesPart(f, name)
      BY <2>1 DEF SeenBy
    <3> QED
      BY <1>1, <3>1, OneTarget DEF TargetFor
  <2>4. \/ v = w /\ name \in w.queued
        \/ v = w /\ Rejected(f)
        \/ v = Fail(w)
        \/ /\ v = File(w, name) /\ name \notin w.queued
           /\ name \in program.hosts \cup w.host \/ target.kind \in {"host", "shadowed"}
           /\ ~Typed(f) => Answer(None, name).kind # "shadowed"
        \/ /\ v = Queue(w, name, target.file) /\ name \notin w.queued
           /\ target.kind = "file"
    BY <1>1, <1>4, FollowIs
  <2>5. \/ /\ target = [kind |-> "file", file |-> target.file]
           /\ target.kind = "file" /\ target.file \in program.files
        \/ target.kind \in {"host", "missing", "ambiguous", "shadowed"}
    BY TargetTyped
  <2> SUFFICES Good(v, T) /\ Grows(w, v) /\ SiteDone(v, f, site)
    OBVIOUS
  <2> HIDE DEF v, target
  <2>6. CASE v = w /\ name \in w.queued
    BY <1>2, <2>6 DEF SiteDone
  <2>7. CASE v = w /\ Rejected(f)
    BY <1>2, <2>7 DEF SiteDone
  <2>8. CASE v = Fail(w)
    BY <2>8, FailKeeps DEF SiteDone
  <2>9. CASE /\ v = File(w, name)
             /\ name \in program.hosts \cup w.host \/ target.kind \in {"host", "shadowed"}
             /\ ~Typed(f) => Answer(None, name).kind # "shadowed"
    <3>1. name \in w.host \/ HostFits(T, name)
      BY <2>3, <2>9 DEF HostFits
    <3>2. Good(v, T) /\ Grows(w, v) /\ name \in v.host
      BY <2>2, <2>9, <3>1, FileKeeps
    <3> QED
      BY <2>9, <3>2 DEF SiteDone
  <2>10. CASE /\ v = Queue(w, name, target.file) /\ name \notin w.queued
              /\ target.kind = "file"
    <3>1. target.file \in program.files /\ target = [kind |-> "file", file |-> target.file]
      BY <2>5, <2>10
    <3>2. SeenBy(T, name) => AsRun(name) = [kind |-> "file", file |-> target.file]
      BY <2>3, <3>1
    <3> HIDE DEF name
    <3>3. Good(v, T) /\ Grows(w, v) /\ name \in v.queued
      BY <2>2, <2>10, <3>1, <3>2, QueueKeeps
    <3> QED
      BY <3>3 DEF SiteDone, name
  <2> QED
    BY <2>4, <2>6, <2>7, <2>8, <2>9, <2>10
<1> QED
  BY <1>3, <1>4

LEMMA ExtraKeeps ==
    ASSUME Linking, NEW w, NEW T, Good(w, T), NEW name \in Range(program.extra)
    PROVE  Good(Extra(w, name), T) /\ Grows(w, Extra(w, name))
<1> DEFINE target == AsRun(name)
           v == Extra(w, name)
<1>1. name \in AllNames /\ Wanted(T, name) /\ Grows(w, w)
  BY DEF AllNames, Wanted, Grows
<1>2. \/ v = w
      \/ v = Fail(w)
      \/ v = File(w, name) /\ target.kind = "host"
      \/ /\ v = Queue(w, name, target.file) /\ name \notin w.queued
         /\ target.kind = "file" /\ target = [kind |-> "file", file |-> target.file]
         /\ target.file \in program.files
  BY ExtraIs
<1> HIDE DEF v
<1>3. CASE v = w
  BY <1>1, <1>3 DEF v
<1>4. CASE v = Fail(w)
  BY <1>4, FailKeeps DEF v
<1>5. CASE v = File(w, name) /\ target.kind = "host"
  BY <1>1, <1>5, FileKeeps DEF HostFits, v
<1>6. CASE /\ v = Queue(w, name, target.file) /\ name \notin w.queued
           /\ target = [kind |-> "file", file |-> target.file]
           /\ target.file \in program.files
  BY <1>1, <1>6, QueueKeeps DEF v
<1> QED
  BY <1>2, <1>3, <1>4, <1>5, <1>6

LEMMA GrowsOn ==
    ASSUME NEW u, NEW v, NEW w, Grows(u, v), Grows(v, w)
    PROVE  Grows(u, w)
BY DEF Grows

LEMMA SiteDoneStays ==
    ASSUME NEW v, NEW w, NEW f, NEW site, SiteDone(v, f, site), Grows(v, w)
    PROVE  SiteDone(w, f, site)
BY DEF SiteDone, Grows

\* The extra modules.
LEMMA ExtraAllKeeps ==
    ASSUME Linking, NEW w, NEW T, Good(w, T)
    PROVE  Good(ExtraAll(w), T) /\ Grows(w, ExtraAll(w))
<1> DEFINE extra == program.extra
           n == Len(extra)
           G == {v \in Walks : Good(v, T) /\ Grows(w, v)}
           I == [k \in 0 .. n |-> G]
<1>1. n \in Nat /\ DOMAIN extra = 1 .. n
  BY ProgramsTyped DEF Linking
<1>2. w \in G
  BY DEF Good, Grows
<1>3. ASSUME NEW i \in 1 .. n, NEW v \in G PROVE Turn(None, v, i) \in G
  <2>1. extra[i] \in Range(extra)
    BY <1>1 DEF Range
  <2>2. Good(Extra(v, extra[i]), T) /\ Grows(v, Extra(v, extra[i]))
    BY <2>1, ExtraKeeps
  <2>3. Grows(w, Extra(v, extra[i]))
    BY <2>2, GrowsOn
  <2>4. Extra(v, extra[i]) \in Walks
    BY <2>2 DEF Good
  <2> QED
    BY <2>2, <2>3, <2>4 DEF Turn
<1> HIDE DEF G, n
<1>4. (CHOOSE F : IsFold(F, None, w, 1 .. n))[1 .. n] \in I[n]
  <2>1. w \in I[0] /\ \A i \in 1 .. n : \A v \in I[i - 1] : Turn(None, v, i) \in I[i]
    BY <1>1, <1>2, <1>3
  <2> HIDE DEF I
  <2> QED
    BY <1>1, <2>1, FoldKeeps
<1>5. ExtraAll(w) \in G
  BY <1>1, <1>4, ExtraAllIs
<1> QED
  BY <1>5 DEF G

\* The `require`s of a file.
LEMMA FollowAllKeeps ==
    ASSUME Linking, NEW w, NEW T, Good(w, T), NEW m \in T, Rejected(m.file) => w.failed
    PROVE  LET v == FollowAll(w, m.file)
           IN  Good(v, T) /\ Grows(w, v) /\ Done(v, m.file)
<1> DEFINE f == m.file
           n == Len(Sites(f))
           G(k) == {v \in Walks : /\ Good(v, T) /\ Grows(w, v)
                                  /\ \A i \in 1 .. k : SiteDone(v, f, Sites(f)[i])}
           I == [k \in 0 .. n |-> G(k)]
<1>1. /\ f \in program.files /\ f # None
      /\ n \in Nat /\ DOMAIN Sites(f) = 1 .. n
  <2>1. f \in program.files
    BY DEF Good, Mods
  <2>2. Sites(f) \in Seq([name : Seq(STRING), erased : BOOLEAN])
    BY <2>1, ProgramsTyped DEF Linking, Sites
  <2> QED
    BY <2>1, <2>2, FilesTyped DEF Linking
<1>2. w \in G(0)
  BY DEF Good, Grows
<1>3. ASSUME NEW i \in 1 .. n, NEW v \in G(i - 1) PROVE Turn(f, v, i) \in G(i)
  <2> DEFINE u == Follow(v, f, Sites(f)[i])
  <2>1. Sites(f)[i] \in Range(Sites(f))
    BY <1>1 DEF Range
  <2>2. Rejected(f) => v.failed
    BY DEF Grows
  <2>3. Good(u, T) /\ Grows(v, u) /\ SiteDone(u, f, Sites(f)[i])
    BY <2>1, <2>2, FollowKeeps
  <2> HIDE DEF u
  <2>4. Grows(w, u) /\ u \in Walks
    BY <2>3, GrowsOn DEF Good
  <2>5. \A j \in 1 .. i : j = i \/ j \in 1 .. i - 1
    OBVIOUS
  <2>6. \A j \in 1 .. i : SiteDone(u, f, Sites(f)[j])
    BY <2>3, <2>5, SiteDoneStays
  <2>7. Turn(f, v, i) = u
    BY <1>1 DEF Turn, u
  <2> QED
    BY <2>3, <2>4, <2>6, <2>7
<1> HIDE DEF G, n
<1>4. (CHOOSE F : IsFold(F, f, w, 1 .. n))[1 .. n] \in I[n]
  <2>1. w \in I[0] /\ \A i \in 1 .. n : \A v \in I[i - 1] : Turn(f, v, i) \in I[i]
    BY <1>1, <1>2, <1>3
  <2> HIDE DEF I
  <2> QED
    BY <1>1, <2>1, FoldKeeps
<1>5. FollowAll(w, f) \in G(n)
  BY <1>1, <1>4, FollowAllIs
<1> DEFINE v == FollowAll(w, f)
<1>6. Good(v, T) /\ Grows(w, v) /\ \A i \in 1 .. n : SiteDone(v, f, Sites(f)[i])
  BY <1>5 DEF G
<1>7. \A site \in Range(Sites(f)) : SiteDone(v, f, site)
  BY <1>1, <1>6 DEF Range
<1>8. Rejected(f) => v.failed
  BY <1>6 DEF Grows
<1> QED
  BY <1>6, <1>7, <1>8 DEF Done

-----------------------------------------------------------------------------
(* The invariant of the link.                                              *)

Linked ==
    /\ Linking
    /\ Good(Walk, taken)
    /\ \A m \in taken : Done(Walk, m.file)
    /\ stage \in {"extras", "walking"}

\* What is said of a project is said of the same project after a step.
LEMMA SameProject ==
    ASSUME UNCHANGED <<program, sources>>
    PROVE  /\ Linking' <=> Linking
           /\ \A w, T : Good(w, T)' <=> Good(w, T)
           /\ \A w, f : Done(w, f)' <=> Done(w, f)
<1>1. Linking' <=> Linking
  BY DEF Linking
<1>2. \A r, n : Answer(r, n)' = Answer(r, n)
  BY DEF Answer, Known
<1>3. /\ \A f : Sites(f)' = Sites(f)
      /\ \A f, site : Followed(f, site)' = Followed(f, site)
  BY DEF Sites, Followed
<1>4. \A f : Rejected(f)' <=> Rejected(f)
  BY <1>2, <1>3 DEF Rejected, ErrorAt, Typed, Searched, FirstFound
<1>5. \A f : AsksFor(f)' = AsksFor(f)
  BY <1>3 DEF AsksFor
<1>6. \A f, n : SeesPart(f, n)' <=> SeesPart(f, n)
  BY DEF SeesPart, Known
<1>7. \A n : AsRun(n)' = AsRun(n)
  BY <1>2 DEF AsRun, Target, Classify, Provided, PlainLua, Searched, FirstFound
<1>8. Mods' = Mods /\ Walks' = Walks
  <2>1. (UNION {AsksFor(f) : f \in program.files})' = UNION {AsksFor(f) : f \in program.files}
    BY <1>5
  <2>2. AllNames' = AllNames
    BY <2>1 DEF AllNames, EntryName
  <2> QED
    BY <2>2 DEF Mods, Walks
<1>9. \A w, T : Good(w, T)' <=> Good(w, T)
  BY <1>5, <1>6, <1>7, <1>8 DEF Good, Counted, Fitting, Fits, HostFits, SeenBy, Wanted, EntryName
<1>10. \A w, f : Done(w, f)' <=> Done(w, f)
  BY <1>2, <1>3, <1>4 DEF Done, SiteDone, Typed
<1> QED
  BY <1>1, <1>9, <1>10

LEMMA LinkedAfter ==
    ASSUME UNCHANGED <<program, sources>>, Linking, Good(Walk', taken'),
           \A m \in taken' : Done(Walk', m.file), stage' \in {"extras", "walking"}
    PROVE  Linked'
<1>1. Linking' /\ Good(Walk, taken)'
  BY SameProject
<1> QED
  BY <1>1, SameProject DEF Linked

LEMMA LinkBegins == LinkInit => Linked
<1> SUFFICES ASSUME LinkInit PROVE Linked
  OBVIOUS
<1> DEFINE e == [name |-> EntryName(program), file |-> program.entry]
<1>1. Linking
  BY ProgramsTyped DEF LinkInit, Linking
<1>2. /\ Walk.queue = <<e>> /\ Walk.queued = {EntryName(program)}
      /\ Walk.host = {} /\ Walk.failed = FALSE /\ taken = {}
      /\ Walk = [queue |-> <<e>>, queued |-> {EntryName(program)}, host |-> {}, failed |-> FALSE]
  BY DEF LinkInit, Walk
<1>3. e \in Mods /\ EntryName(program) \in AllNames
  BY <1>1 DEF Mods, AllNames, Linking
<1>4. Walk \in Walks
  <2>1. <<e>> \in Seq(Mods)
    BY <1>3
  <2> HIDE DEF e
  <2> QED
    BY <1>2, <1>3, <2>1 DEF Walks
<1>5. Counted(Walk, taken)
  <2>1. Range(Walk.queue) = {e} /\ Len(Walk.queue) = 1 /\ DOMAIN Walk.queue = {1}
    BY <1>2 DEF Range
  <2>2. IsFiniteSet(Walk.queued) /\ Cardinality(Walk.queued) = 1
    BY <1>2, FS_Singleton
  <2>3. IsFiniteSet(taken) /\ Cardinality(taken) = 0
    BY <1>2, FS_EmptySet
  <2>4. {m.name : m \in Range(Walk.queue) \cup taken} = Walk.queued
    BY <1>2, <2>1
  <2> QED
    BY <1>2, <2>1, <2>2, <2>3, <2>4 DEF Counted
<1>6. Fitting(Walk, taken)
  <2>1. Range(Walk.queue) = {e}
    BY <1>2 DEF Range
  <2> QED
    BY <1>2, <2>1 DEF Fitting, Fits
<1>7. \A name \in Walk.queued \cup Walk.host : Wanted(taken, name)
  BY <1>2 DEF Wanted
<1> QED
  BY <1>1, <1>2, <1>4, <1>5, <1>6, <1>7 DEF Linked, Good, LinkInit

\* What is asserted of modules to take and taken is asserted of one on its way.
LEMMA TakingKeeps ==
    ASSUME Linked, queue # <<>>
    PROVE  LET m == Head(queue)
               w == [Walk EXCEPT !.queue = Tail(@), !.failed = @ \/ Rejected(m.file)]
           IN  /\ Good(w, taken \cup {m}) /\ Grows(Walk, w)
               /\ Rejected(m.file) => w.failed
<1> DEFINE m == Head(queue)
           b == failed \/ Rejected(m.file)
           w == [Walk EXCEPT !.queue = Tail(@), !.failed = @ \/ Rejected(m.file)]
           T == taken \cup {m}
<1>1. /\ queue \in Seq(Mods) /\ queued \in SUBSET AllNames /\ host \in SUBSET AllNames
      /\ failed \in BOOLEAN /\ taken \in SUBSET Mods
  BY DEF Linked, Good, Walks, Walk
<1>2. /\ w \in [queue : {Tail(queue)}, queued : {queued}, host : {host}, failed : BOOLEAN]
      /\ w.failed <=> b
  <2> DEFINE t == Tail(queue)
             u == [Walk EXCEPT !.queue = t]
  <2>1. u = [queue |-> t, queued |-> queued, host |-> host, failed |-> failed]
    <3> HIDE DEF t
    <3> QED
      BY DEF Walk
  <2>2. w = [u EXCEPT !.failed = b]
    BY <2>1 DEF Walk
  <2> HIDE DEF b
  <2>3. b \in BOOLEAN
    BY DEF b
  <2> QED
    BY <1>1, <2>1, <2>2, <2>3
<1> HIDE DEF w
<1>3. /\ w.queue = Tail(queue) /\ w.queued = queued /\ w.host = host /\ w.failed \in BOOLEAN
      /\ w = [queue |-> w.queue, queued |-> w.queued, host |-> w.host, failed |-> w.failed]
  BY <1>2
<1>4. /\ m \in Mods /\ Tail(queue) \in Seq(Mods) /\ m = queue[1] /\ 1 \in DOMAIN queue
      /\ Len(Tail(queue)) = Len(queue) - 1 /\ Len(queue) \in Nat
      /\ DOMAIN Tail(queue) = 1 .. Len(queue) - 1 /\ DOMAIN queue = 1 .. Len(queue)
      /\ \A i \in DOMAIN Tail(queue) : i + 1 \in DOMAIN queue /\ Tail(queue)[i] = queue[i + 1]
  BY <1>1
<1>5. w \in Walks
  BY <1>1, <1>3, <1>4 DEF Walks
<1>6. /\ EntryName(program) \in queued /\ IsFiniteSet(queued) /\ IsFiniteSet(taken)
      /\ {x.name : x \in Range(queue) \cup taken} = queued
      /\ Cardinality(queued) = Len(queue) + Cardinality(taken)
      /\ \A i \in DOMAIN queue : \A x \in taken : queue[i].name # x.name
      /\ \A i, j \in DOMAIN queue : queue[i].name = queue[j].name => i = j
  BY DEF Linked, Good, Counted, Walk
<1>7. Range(queue) = Range(Tail(queue)) \cup {m}
  <2>1. ASSUME NEW x \in Range(queue) PROVE x \in Range(Tail(queue)) \cup {m}
    <3>1. PICK i \in DOMAIN queue : x = queue[i]
      BY DEF Range
    <3>2. CASE i = 1
      BY <1>4, <3>1, <3>2
    <3>3. CASE i # 1
      <4>1. i - 1 \in DOMAIN Tail(queue) /\ (i - 1) + 1 = i
        BY <1>4, <3>1, <3>3
      <4>2. Tail(queue)[i - 1] = x
        BY <1>4, <3>1, <4>1
      <4> QED
        BY <4>1, <4>2 DEF Range
    <3> QED
      BY <3>2, <3>3
  <2>2. Range(Tail(queue)) \subseteq Range(queue) /\ m \in Range(queue)
    BY <1>4 DEF Range
  <2> QED
    BY <2>1, <2>2
<1>8. m \notin taken
  BY <1>4, <1>6
<1> HIDE DEF m
<1>9. Counted(w, T)
  <2>1. IsFiniteSet(T) /\ Cardinality(T) = Cardinality(taken) + 1
    BY <1>6, <1>8, FS_AddElement
  <2>2. Cardinality(taken) \in Nat
    BY <1>6, FS_CardinalityType
  <2>3. Cardinality(w.queued) = Len(w.queue) + Cardinality(T)
    BY <1>3, <1>4, <1>6, <2>1, <2>2
  <2>4. {x.name : x \in Range(w.queue) \cup T} = w.queued
    <3>1. Range(w.queue) \cup T = Range(queue) \cup taken
      BY <1>3, <1>7
    <3> QED
      BY <1>3, <1>6, <3>1
  <2>5. \A i \in DOMAIN w.queue : \A x \in T : w.queue[i].name # x.name
    <3> SUFFICES ASSUME NEW i \in DOMAIN Tail(queue), NEW x \in T
                 PROVE  Tail(queue)[i].name # x.name
      BY <1>3
    <3>1. i + 1 \in DOMAIN queue /\ Tail(queue)[i] = queue[i + 1] /\ i + 1 # 1
      BY <1>4
    <3> QED
      BY <1>4, <1>6, <3>1
  <2>6. \A i, j \in DOMAIN w.queue : w.queue[i].name = w.queue[j].name => i = j
    <3> SUFFICES ASSUME NEW i \in DOMAIN Tail(queue), NEW j \in DOMAIN Tail(queue),
                        Tail(queue)[i].name = Tail(queue)[j].name
                 PROVE  i = j
      BY <1>3
    <3>1. i + 1 = j + 1
      BY <1>4, <1>6
    <3>2. i \in Nat /\ j \in Nat
      BY <1>4
    <3> QED
      BY <3>1, <3>2
  <2> QED
    BY <1>3, <1>6, <2>1, <2>3, <2>4, <2>5, <2>6 DEF Counted
<1>10. \A name : SeenBy(T, name) => SeenBy(taken, name)
  BY DEF SeenBy
<1>11. Fitting(w, T)
  <2>1. /\ \A x \in Range(queue) \cup taken : Fits(taken, x)
        /\ \A name \in host : HostFits(taken, name)
    BY DEF Linked, Good, Fitting, Walk
  <2>2. \A x \in Range(w.queue) \cup T : x \in Range(queue) \cup taken
    BY <1>3, <1>7
  <2>3. \A x : Fits(taken, x) => Fits(T, x)
    BY <1>10 DEF Fits
  <2>4. \A name : HostFits(taken, name) => HostFits(T, name)
    BY <1>10 DEF HostFits
  <2> QED
    BY <1>3, <2>1, <2>2, <2>3, <2>4 DEF Fitting
<1>12. \A name \in w.queued \cup w.host : Wanted(T, name)
  BY <1>3 DEF Linked, Good, Walk, Wanted
<1>13. Good(w, T)
  BY <1>1, <1>4, <1>5, <1>9, <1>11, <1>12 DEF Good
<1>14. Grows(Walk, w) /\ (Rejected(m.file) => w.failed)
  BY <1>2, <1>3 DEF Grows, Walk
<1> QED
  BY <1>13, <1>14 DEF w, m

LEMMA LinkedTakes == Linked /\ Take => Linked'
<1> SUFFICES ASSUME Linked, Take PROVE Linked'
  OBVIOUS
<1> DEFINE m == Head(queue)
           w == [Walk EXCEPT !.queue = Tail(@), !.failed = @ \/ Rejected(m.file)]
           v == FollowAll(w, m.file)
           T == taken \cup {m}
<1>1. /\ stage = "walking" /\ queue # <<>> /\ taken' = T /\ Becomes(v)
      /\ UNCHANGED <<program, sources, stage>>
  BY DEF Take
<1>2. Linking
  BY DEF Linked
<1>3. Good(w, T) /\ Grows(Walk, w) /\ (Rejected(m.file) => w.failed)
  BY <1>1, TakingKeeps
<1> HIDE DEF w
<1>4. Good(v, T) /\ Grows(w, v) /\ Done(v, m.file)
  BY <1>2, <1>3, FollowAllKeeps
<1> HIDE DEF v
<1>5. Walk' = v
  <2>1. v = [queue |-> v.queue, queued |-> v.queued, host |-> v.host, failed |-> v.failed]
    BY <1>4 DEF Good, Walks
  <2> QED
    BY <1>1, <2>1 DEF Becomes, Walk
<1>6. Grows(Walk, v)
  BY <1>3, <1>4, GrowsOn
<1>7. \A x \in T : Done(v, x.file)
  BY <1>4, <1>6, DoneStays DEF Linked
<1> HIDE DEF m
<1> QED
  BY <1>1, <1>2, <1>4, <1>5, <1>7, LinkedAfter

LEMMA LinkedTakesExtras == Linked /\ TakeExtras => Linked'
<1> SUFFICES ASSUME Linked, TakeExtras PROVE Linked'
  OBVIOUS
<1> DEFINE v == ExtraAll(Walk)
<1>1. stage' = "walking" /\ Becomes(v) /\ UNCHANGED <<program, sources, taken>>
  BY DEF TakeExtras
<1>2. Linking /\ Good(Walk, taken)
  BY DEF Linked
<1>3. Good(v, taken) /\ Grows(Walk, v)
  BY <1>2, ExtraAllKeeps
<1> HIDE DEF v
<1>4. Walk' = v
  <2>1. v = [queue |-> v.queue, queued |-> v.queued, host |-> v.host, failed |-> v.failed]
    BY <1>3 DEF Good, Walks
  <2> QED
    BY <1>1, <2>1 DEF Becomes, Walk
<1>5. \A x \in taken : Done(v, x.file)
  BY <1>3, DoneStays DEF Linked
<1> QED
  BY <1>1, <1>2, <1>3, <1>4, <1>5, LinkedAfter

LEMMA LinkedStays == LinkSpec => []Linked
<1>1. Linked /\ UNCHANGED linkVars => Linked'
  <2> SUFFICES ASSUME Linked, UNCHANGED linkVars PROVE Linked'
    OBVIOUS
  <2>1. UNCHANGED <<program, sources, taken, stage>> /\ Walk' = Walk
    BY DEF linkVars, Walk
  <2> QED
    BY <2>1, LinkedAfter DEF Linked
<1>2. Linked /\ [LinkNext]_linkVars => Linked'
  BY <1>1, LinkedTakes, LinkedTakesExtras DEF LinkNext
<1> QED
  BY LinkBegins, <1>2, PTL DEF LinkSpec

\* What is bundled or asked of the host is the entry, an extra module or a name the
\* code of a taken module asks for, and each name is taken once (OnlyWhatRuns).
THEOREM NothingElse == LinkSpec => []OnlyWhatRuns
<1>1. Linked => OnlyWhatRuns
  <2> SUFFICES ASSUME Linked PROVE OnlyWhatRuns
    OBVIOUS
  <2>1. Counted(Walk, taken) /\ \A name \in queued \cup host : Wanted(taken, name)
    BY DEF Linked, Good, Walk
  <2> QED
    BY <2>1 DEF OnlyWhatRuns, Counted, Walk, Wanted
<1> QED
  BY LinkedStays, <1>1, PTL

\* The entry is what its name answers, when one file is.
LEMMA EntryAnswers ==
    ASSUME Linking, EntryIsClear
    PROVE  Runs(Answer(None, EntryName(program))) = program.entry
<1> DEFINE name == Placed[program][program.entry].name
           C == Claims(program, Known(program, sources), name)
           e == Placed[program][program.entry]
           S == {x \in C : ~Hides(program, None, x)}
<1>1. /\ program.entry \in program.files /\ program.entry \in Known(program, sources)
      /\ program.entry.ext = "tl" /\ e # None
  BY ProgramsTyped DEF Linking, Known, Walked
<1>2. e \in C /\ e.file = program.entry
  <2>1. e.file = program.entry
    BY <1>1, EntryOf DEF Linking
  <2> QED
    BY <1>1, <2>1 DEF Claims
<1>3. Answer(None, EntryName(program)) = ResolvePlain(program, None, name, C)
  BY DEF Answer, Resolve, Asked, FromOwn, From, EntryName, Plain, ResolveAs
<1>4. S = C
  BY DEF Hides, From, FromDependency
<1>5. Known(program, sources) \in SUBSET program.files
  BY DEF Linking, Known, Walked
<1>6. IsFiniteSet(C)
  BY <1>5, ClaimsFinite DEF Linking
<1> DEFINE tl == {x \in C : x.file.ext = "tl"}
           answer == ResolvePlain(program, None, name, C)
<1>7. answer.kind = "found"
  BY <1>3 DEF EntryIsClear
<1>8. e \in tl /\ IsFiniteSet(tl)
  <2>1. tl \subseteq C
    OBVIOUS
  <2> QED
    BY <1>1, <1>2, <1>6, <2>1, FS_Subset
<1>9. /\ Cardinality(tl) <= 1 /\ answer.impl = FirstOf(tl)
  <2>1. PICK hidden : answer = PlainAnswer(program, None, name, Pick(C), hidden)
    BY <1>4 DEF ResolvePlain
  <2> HIDE DEF answer
  <2>2. Pick(C).kind = "found"
    BY <1>7, <2>1 DEF PlainAnswer, Pick, Missing, Outside
  <2>3. answer = Pick(C)
    BY <1>7, <2>1, <2>2 DEF PlainAnswer, UnlessProvided
  <2>4. ~(Cardinality(tl) > 1)
    BY <2>2 DEF Pick, Missing
  <2>5. answer.impl = FirstOf(tl)
    BY <2>2, <2>3 DEF Pick, Missing
  <2>6. Cardinality(tl) \in Nat
    BY <1>8, FS_CardinalityType
  <2> QED
    BY <2>4, <2>5, <2>6
<1>10. tl = {e}
  <2>1. ASSUME NEW x \in tl PROVE x = e
    <3> HIDE DEF e, tl
    <3>1. x = e \/ Cardinality(tl) > 1
      BY <1>8, <2>1, MoreThanOne
    <3>2. Cardinality(tl) \in Nat
      BY <1>8, FS_CardinalityType
    <3> QED
      BY <1>9, <3>1, <3>2
  <2> QED
    BY <1>8, <2>1
<1>11. FirstOf({e}) = program.entry
  <2>1. {e} \subseteq Claims(program, Known(program, sources), name) /\ {e} # {}
    BY <1>2
  <2> HIDE DEF e
  <2>2. \E x \in {e} : FirstOf({e}) = x.file
    BY <2>1, FirstTyped
  <2> QED
    BY <1>2, <2>2
<1>12. program.entry # None
  BY <1>1, FilesTyped DEF Linking
<1> QED
  BY <1>3, <1>7, <1>9, <1>10, <1>11, <1>12 DEF Runs

\* The argument of the next theorem, for one `require` of a bundle that is handed out.
LEMMA OneAsChecked ==
    ASSUME Linked, HandedOut, NEW m \in taken, NEW site \in Range(Sites(m.file)), ~site.erased,
           Written(m.file, site) = Followed(m.file, site), SeenWhole(Followed(m.file, site)),
           Followed(m.file, site) = EntryName(program) => EntryIsClear
    PROVE  AsChecked(m.file, site)
<1> DEFINE f == m.file
           name == Followed(f, site)
           run == Answer(None, name)
<1>1. Linking /\ queue = <<>> /\ ~failed /\ f \in program.files /\ taken \in SUBSET Mods
  BY DEF Linked, HandedOut, Good, Mods
<1>2. name \in AsksFor(f) /\ ~SeesPart(f, name) /\ SeenBy(taken, name)
  BY DEF AsksFor, SeenWhole, SeenBy
<1>3. Answer(f, name) = run
  BY <1>1, <1>2, AnsweredAsARun
<1>4. /\ ~Rejected(f)
      /\ name \in queued \cup host
      /\ ~Typed(f) /\ run.kind = "shadowed" => name \in queued
  BY <1>1 DEF Linked, Done, SiteDone, Walk
<1>5. Typed(f) => run.kind = "found" /\ Searched(run) # None
  <2>1. PICK i \in DOMAIN Sites(f) : Sites(f)[i] = site
    BY DEF Range
  <2>2. Typed(f) => ~ErrorAt(f, run)
    BY <1>3, <1>4, <2>1 DEF Rejected
  <2>3. run.kind = "found" => IsFound(run)
    BY <1>1, RunTyped
  <2> HIDE DEF run
  <2> QED
    BY <2>2, <2>3 DEF ErrorAt, Searched, FirstFound, IsFound
<1>6. SUFFICES AsAnswered(name, run, Runs(run))
  BY <1>3 DEF AsChecked
<1>7. Bundle = taken
  BY <1>1 DEF Linked, Done, Bundle, Walk
<1>8. /\ {x.name : x \in taken} = queued
      /\ \A x \in taken : Fits(taken, x)
      /\ \A n \in host : HostFits(taken, n)
  BY <1>1 DEF Linked, Good, Counted, Fitting, Walk, Range
<1>9. name \in queued => \E x \in taken : x.name = name
  BY <1>8
<1>10. ASSUME name = EntryName(program)
       PROVE  run.kind = "found" /\ Runs(run) = program.entry /\ Runs(run) # None
  <2>1. Runs(run) = program.entry /\ run.kind = "found"
    BY <1>1, <1>10, EntryAnswers DEF EntryIsClear
  <2>2. program.entry # None
    BY <1>1, FilesTyped DEF Linking
  <2> QED
    BY <2>1, <2>2
<1>11. ASSUME NEW x \in taken, x.name = name
       PROVE  \/ name = EntryName(program) /\ x.file = program.entry
              \/ AsRun(name) = [kind |-> "file", file |-> x.file]
  BY <1>2, <1>8, <1>11 DEF Fits
<1>12. name \in host => name \in program.hosts \/ AsRun(name).kind \in {"host", "shadowed"}
  BY <1>2, <1>8 DEF HostFits
<1>13. \/ run.kind = "shadowed" /\ AsRun(name).kind = "shadowed"
       \/ run.kind = "ambiguous" /\ AsRun(name).kind = "ambiguous"
       \/ run.kind \in {"missing", "outside"} /\ AsRun(name).kind = "missing"
       \/ run.kind = "found" /\ AsRun(name).kind = "missing"
       \/ /\ run.kind = "found" /\ Runs(run) # None
          /\ AsRun(name) = [kind |-> "file", file |-> Runs(run)]
       \/ run.kind = "found" /\ Runs(run) = None /\ AsRun(name).kind = "host"
  BY <1>1, AsRunIs
<1> HIDE DEF run, name, f
<1>14. CASE name \in program.hosts
  BY <1>4, <1>14 DEF AsAnswered
<1>15. CASE name \notin program.hosts
  \* Only a name that a run is answered, and whose file or host is there, got so far.
  <2>1. run.kind = "found"
    BY <1>4, <1>5, <1>9, <1>10, <1>11, <1>12, <1>13, <1>15
  <2>2. CASE Runs(run) # None
    <3>1. AsRun(name) = [kind |-> "file", file |-> Runs(run)] \/ name = EntryName(program)
      BY <1>4, <1>9, <1>11, <1>12, <1>13, <1>15, <2>1, <2>2
    <3>2. AsRun(name).kind \notin {"host", "shadowed"}
      BY <1>13, <2>1, <2>2
    <3>3. name \notin host /\ name \in queued
      BY <1>4, <1>12, <1>15, <3>2
    <3>4. \A x \in taken : x.name = name => x.file = Runs(run)
      BY <1>10, <1>11, <1>13, <2>1, <2>2
    <3>5. Files(name) = {Runs(run)}
      BY <1>7, <1>9, <3>3, <3>4 DEF Files
    <3> QED
      BY <1>15, <2>1, <2>2, <3>3, <3>5 DEF AsAnswered
  <2>3. CASE Runs(run) = None
    <3>1. \A x \in taken : x.name # name
      BY <1>10, <1>11, <1>13, <2>1, <2>3
    <3>2. Files(name) = {} /\ name \in host
      BY <1>4, <1>7, <1>9, <3>1 DEF Files
    <3> QED
      BY <1>15, <2>1, <2>3, <3>2 DEF AsAnswered
  <2> QED
    BY <2>2, <2>3
<1> QED
  BY <1>14, <1>15

\* Of any project: in a bundle that is handed out a name is what the check of each
\* file that asks for it saw, whichever was followed first (LinkedAsChecked).
THEOREM LinkedIsChecked == LinkSpec => []LinkedAsChecked
<1>1. Linked => LinkedAsChecked
  BY OneAsChecked DEF LinkedAsChecked, Bundle
<1> QED
  BY LinkedStays, <1>1, PTL
=============================================================================
