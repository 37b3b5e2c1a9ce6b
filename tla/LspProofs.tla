------------------------------ MODULE LspProofs ------------------------------
(***************************************************************************)
(* Proofs about Lsp, for any files that require each other in any way, any *)
(* texts and manifests, any number of writes and messages and any way the  *)
(* messages are batched: what the client shows is current when the server  *)
(* waits, a request is answered after the checks it depends on, a project  *)
(* is one project for all its files, and edits fit the text they are for.  *)
(***************************************************************************)
EXTENDS Lsp, SequenceTheorems, WellFoundedInduction, TLAPS

Once(s) == \A i, j \in DOMAIN s : s[i] = s[j] => i = j

-----------------------------------------------------------------------------
(* Lists of files.                                                         *)

Below == {x \in Nat \X Nat : x[1] < x[2]}

LEMMA BelowIsWellFounded == IsWellFoundedOn(Below, Nat)
BY NatLessThanWellFounded DEF Below, OpToRel

\* Induction, over a set of numbers rather than an operator.
LEMMA Inductive ==
  ASSUME NEW T, 0 \in T, \A n \in Nat : n \in T => n + 1 \in T
  PROVE  Nat \subseteq T
<1> SUFFICES ASSUME ~(Nat \subseteq T) PROVE FALSE
  OBVIOUS
<1>1. PICK n \in Nat \ T : \A m \in Nat \ T : ~(<<m, n>> \in Below)
  <2>1. Nat \ T # {} /\ Nat \ T \subseteq Nat
    OBVIOUS
  <2> QED
    BY <2>1, BelowIsWellFounded, WFMin
<1>2. n # 0 /\ n - 1 \in Nat /\ (n - 1) + 1 = n
  OBVIOUS
<1>3. n - 1 \in T
  <2> DEFINE m == n - 1
  <2>1. m \in Nat /\ m < n
    BY <1>2
  <2>2. <<m, n>> \in Below
    BY <2>1 DEF Below
  <2> QED
    BY <1>1, <2>1, <2>2
<1> QED
  BY <1>2, <1>3

LEMMA NothingListed == Elements(<<>>) = {} /\ Once(<<>>)
BY DEF Elements, Once

LEMMA OneMoreListed ==
  ASSUME NEW T, NEW s \in Seq(T), NEW x \in T
  PROVE  /\ Append(s, x) \in Seq(T)
         /\ Elements(Append(s, x)) = Elements(s) \union {x}
         /\ Once(s) /\ x \notin Elements(s) => Once(Append(s, x))
<1> DEFINE n == Len(s)
           t == Append(s, x)
<1>1. /\ n \in Nat /\ t \in Seq(T) /\ Len(t) = n + 1 /\ t[n + 1] = x
      /\ \A i \in 1 .. n : t[i] = s[i]
      /\ DOMAIN s = 1 .. n /\ DOMAIN t = 1 .. n + 1
  OBVIOUS
<1> HIDE DEF n, t
<1>2. \A i \in 1 .. n + 1 : i \in 1 .. n \/ i = n + 1
  BY <1>1
<1>3. n + 1 \in 1 .. n + 1 /\ \A i \in 1 .. n : i \in 1 .. n + 1
  BY <1>1
<1>4. Elements(t) = Elements(s) \union {x}
  BY <1>1, <1>2, <1>3 DEF Elements
<1>5. ASSUME Once(s), x \notin Elements(s) PROVE Once(t)
  <2>1. \A i \in 1 .. n : t[i] # x
    BY <1>1, <1>5 DEF Elements
  <2> QED
    BY <1>1, <1>2, <1>5, <2>1 DEF Once
<1> QED
  BY <1>1, <1>4, <1>5 DEF t

LEMMA BothListed ==
  ASSUME NEW T, NEW s \in Seq(T), NEW t \in Seq(T)
  PROVE  /\ s \o t \in Seq(T)
         /\ Elements(s \o t) = Elements(s) \union Elements(t)
         /\ Once(s) /\ Once(t) /\ Elements(s) \intersect Elements(t) = {} => Once(s \o t)
<1> DEFINE m == Len(s)
           n == Len(t)
           u == s \o t
<1>1. /\ m \in Nat /\ n \in Nat /\ u \in Seq(T) /\ Len(u) = m + n
      /\ DOMAIN s = 1 .. m /\ DOMAIN t = 1 .. n /\ DOMAIN u = 1 .. m + n
  OBVIOUS
<1>2. /\ \A i \in 1 .. m : u[i] = s[i]
      /\ \A i \in 1 .. n : u[m + i] = t[i]
  OBVIOUS
<1> HIDE DEF m, n, u
<1>3. /\ \A i \in 1 .. m : i \in 1 .. m + n
      /\ \A i \in 1 .. n : m + i \in 1 .. m + n
      /\ \A i \in 1 .. m + n : i \in 1 .. m \/ (i - m \in 1 .. n /\ i = m + (i - m))
  BY <1>1
<1>4. Elements(u) = Elements(s) \union Elements(t)
  <2>1. ASSUME NEW i \in 1 .. m + n PROVE u[i] \in Elements(s) \union Elements(t)
    <3>1. CASE i \in 1 .. m
      BY <1>1, <1>2, <3>1 DEF Elements
    <3>2. CASE i - m \in 1 .. n /\ i = m + (i - m)
      <4>1. u[i] = t[i - m]
        BY <1>2, <3>2
      <4> QED
        BY <1>1, <3>2, <4>1 DEF Elements
    <3> QED
      BY <1>3, <3>1, <3>2
  <2>2. \A i \in 1 .. m : s[i] \in Elements(u)
    BY <1>1, <1>2, <1>3 DEF Elements
  <2>3. ASSUME NEW i \in 1 .. n PROVE t[i] \in Elements(u)
    <3>1. t[i] = u[m + i] /\ m + i \in 1 .. m + n
      BY <1>2, <1>3
    <3> QED
      BY <1>1, <3>1 DEF Elements
  <2> QED
    BY <1>1, <2>1, <2>2, <2>3 DEF Elements
<1>5. ASSUME Once(s), Once(t), Elements(s) \intersect Elements(t) = {},
             NEW i \in 1 .. m + n, NEW j \in 1 .. m + n, u[i] = u[j]
      PROVE  i = j
  <2>1. \A a \in 1 .. m, b \in 1 .. n : u[a] # u[m + b]
    BY <1>1, <1>2, <1>5 DEF Elements
  <2>2. CASE i \in 1 .. m
    <3>1. j \in 1 .. m
      BY <1>3, <1>5, <2>1, <2>2
    <3> QED
      BY <1>1, <1>2, <1>5, <2>2, <3>1 DEF Once
  <2>3. CASE i - m \in 1 .. n /\ i = m + (i - m)
    <3> DEFINE a == i - m
               b == j - m
    <3>0. a \in 1 .. n /\ i = m + a
      BY <2>3
    <3>1. b \in 1 .. n /\ j = m + b
      <4>1. ~(j \in 1 .. m)
        <5> HIDE DEF a
        <5> QED
          BY <1>5, <2>1, <3>0
      <4> QED
        BY <1>3, <4>1
    <3> HIDE DEF a, b
    <3>2. t[a] = t[b]
      BY <1>2, <1>5, <3>0, <3>1
    <3>3. a = b
      BY <1>1, <1>5, <3>0, <3>1, <3>2 DEF Once
    <3> QED
      BY <3>0, <3>1, <3>3
  <2> QED
    BY <1>3, <2>2, <2>3
<1>6. Once(s) /\ Once(t) /\ Elements(s) \intersect Elements(t) = {} => Once(u)
  BY <1>1, <1>5 DEF Once
<1> QED
  BY <1>1, <1>4, <1>6 DEF u

LEMMA FirstTaken ==
  ASSUME NEW T, NEW s \in Seq(T), s # <<>>
  PROVE  /\ Head(s) \in T /\ Tail(s) \in Seq(T) /\ Head(s) \in Elements(s)
         /\ Elements(s) = Elements(Tail(s)) \union {Head(s)}
         /\ Once(s) => Once(Tail(s))
<1> DEFINE n == Len(s)
           t == Tail(s)
<1>1. /\ n \in Nat \ {0} /\ t \in Seq(T) /\ Len(t) = n - 1 /\ Head(s) = s[1]
      /\ DOMAIN s = 1 .. n /\ DOMAIN t = 1 .. n - 1
  OBVIOUS
<1>2. \A i \in 1 .. n - 1 : t[i] = s[i + 1]
  OBVIOUS
<1> HIDE DEF n, t
<1>3. /\ 1 \in 1 .. n
      /\ \A i \in 1 .. n - 1 : i + 1 \in 1 .. n
      /\ \A i \in 1 .. n : i = 1 \/ (i - 1 \in 1 .. n - 1 /\ i = (i - 1) + 1)
  BY <1>1
<1>4. s[1] \in T
  BY <1>1, <1>3, ElementOfSeq
<1>5. Elements(s) = Elements(t) \union {s[1]}
  <2>1. ASSUME NEW i \in 1 .. n PROVE s[i] \in Elements(t) \union {s[1]}
    <3>1. CASE i - 1 \in 1 .. n - 1 /\ i = (i - 1) + 1
      <4>1. t[i - 1] = s[i]
        BY <1>2, <3>1
      <4> QED
        BY <1>1, <3>1, <4>1 DEF Elements
    <3> QED
      BY <1>3, <3>1
  <2>2. \A i \in 1 .. n - 1 : t[i] \in Elements(s)
    BY <1>1, <1>2, <1>3 DEF Elements
  <2> QED
    BY <1>1, <1>3, <2>1, <2>2 DEF Elements
<1>6. ASSUME Once(s), NEW i \in 1 .. n - 1, NEW j \in 1 .. n - 1, t[i] = t[j] PROVE i = j
  <2>1. s[i + 1] = s[j + 1] /\ i + 1 \in 1 .. n /\ j + 1 \in 1 .. n
    BY <1>2, <1>3, <1>6
  <2>2. i + 1 = j + 1
    BY <1>1, <1>6, <2>1 DEF Once
  <2> QED
    BY <2>2
<1>7. Once(s) => Once(t)
  BY <1>1, <1>6 DEF Once
<1> QED
  BY <1>1, <1>4, <1>5, <1>7 DEF t

\* What the recursion of Retained accumulates.
Retains(kept, s, S, n) ==
  /\ kept = [i \in 0 .. n |-> kept[i]]
  /\ kept[0] = <<>>
  /\ \A i \in 1 .. n : kept[i] = IF s[i] \in S THEN Append(kept[i - 1], s[i]) ELSE kept[i - 1]

LEMMA RetainedExists ==
  ASSUME NEW T, NEW s \in Seq(T), NEW S
  PROVE  \E kept : Retains(kept, s, S, Len(s)) /\ Retained(s, S) = kept[Len(s)]
<1> DEFINE Step(kept, n) == IF n = 0 THEN <<>>
        ELSE IF s[n] \in S THEN Append(kept[n - 1], s[n]) ELSE kept[n - 1]
        Some == {n \in Nat : \E kept : kept = [i \in 0 .. n |-> Step(kept, i)]}
<1>1. 0 \in Some
  <2>1. \E k : k = [i \in 0 .. 0 |-> Step(k, i)]
    <3> DEFINE k == [i \in 0 .. 0 |-> <<>>]
    <3>1. k = [i \in 0 .. 0 |-> Step(k, i)]
      OBVIOUS
    <3> QED
      BY <3>1
  <2> QED
    BY <2>1
<1>2. ASSUME NEW n \in Nat, n \in Some PROVE n + 1 \in Some
  <2> HIDE DEF Step
  <2>1. PICK k : k = [i \in 0 .. n |-> Step(k, i)]
    BY <1>2
  <2> DEFINE m == [i \in 0 .. n + 1 |-> IF i <= n THEN k[i] ELSE Step(k, n + 1)]
  <2>2. /\ m = [i \in 0 .. n + 1 |-> m[i]]
        /\ \A i \in 0 .. n : m[i] = k[i]
        /\ m[n + 1] = Step(k, n + 1)
    OBVIOUS
  <2> HIDE DEF m
  <2>3. \A i \in 0 .. n + 1 : i = 0 \/ i - 1 \in 0 .. n
    OBVIOUS
  <2>4. \A i \in 0 .. n + 1 : Step(m, i) = Step(k, i)
    BY <2>2, <2>3 DEF Step
  <2>5. ASSUME NEW i \in 0 .. n + 1 PROVE m[i] = Step(m, i)
    <3>1. CASE i \in 0 .. n
      <4>1. m[i] = k[i] /\ k[i] = Step(k, i)
        BY <2>1, <2>2, <3>1
      <4> QED
        BY <2>4, <4>1
    <3>2. CASE i = n + 1
      BY <2>2, <2>4, <3>2
    <3> QED
      BY <3>1, <3>2
  <2>6. m = [i \in 0 .. n + 1 |-> Step(m, i)]
    BY <2>2, <2>5
  <2> QED
    BY <2>6
<1> HIDE DEF Some
<1>3. Nat \subseteq Some
  BY <1>1, <1>2, Inductive
<1> DEFINE n == Len(s)
           F == CHOOSE kept : kept = [i \in 0 .. n |-> Step(kept, i)]
<1>4. n \in Nat
  OBVIOUS
<1>5. Retained(s, S) = F[n]
  BY DEF Retained
<1> HIDE DEF n
<1>6. F = [i \in 0 .. n |-> Step(F, i)]
  <2>1. \E k : k = [i \in 0 .. n |-> Step(k, i)]
    BY <1>3, <1>4 DEF Some
  <2> HIDE DEF Step
  <2> QED
    BY <2>1
<1> HIDE DEF F
<1>7. /\ F = [i \in 0 .. n |-> F[i]]
      /\ \A i \in 0 .. n : F[i] = Step(F, i)
  <2> HIDE DEF Step
  <2> QED
    BY <1>6
<1>8. Retains(F, s, S, n)
  <2>1. 0 \in 0 .. n /\ \A i \in 1 .. n : i \in 0 .. n /\ i # 0
    BY <1>4
  <2> QED
    BY <1>7, <2>1 DEF Retains
<1> QED
  BY <1>5, <1>8 DEF n

\* What is retained of a list: those of its members, each as often as once.
LEMMA RetainedFacts ==
  ASSUME NEW T, NEW s \in Seq(T), NEW S
  PROVE  /\ Retained(s, S) \in Seq(T)
         /\ Elements(Retained(s, S)) = Elements(s) \intersect S
         /\ Once(s) => Once(Retained(s, S))
<1>1. PICK kept : Retains(kept, s, S, Len(s)) /\ Retained(s, S) = kept[Len(s)]
  BY RetainedExists
<1> DEFINE First(n) == {s[i] : i \in 1 .. n}
           Holds(n) == /\ kept[n] \in Seq(T)
                       /\ Elements(kept[n]) = First(n) \intersect S
                       /\ Once(s) => Once(kept[n])
           Done == {n \in Nat : n <= Len(s) => Holds(n)}
<1>2. Len(s) \in Nat /\ DOMAIN s = 1 .. Len(s) /\ \A i \in 1 .. Len(s) : s[i] \in T
  BY ElementOfSeq
<1>3. 0 \in Done
  <2>1. kept[0] = <<>>
    BY <1>1 DEF Retains
  <2>2. Holds(0)
    BY <2>1, NothingListed
  <2> HIDE DEF Holds
  <2> QED
    BY <2>2
<1>4. ASSUME NEW n \in Nat, n \in Done PROVE n + 1 \in Done
  <2> SUFFICES ASSUME n + 1 <= Len(s) PROVE Holds(n + 1)
    OBVIOUS
  <2>1. Holds(n)
    <3> HIDE DEF Holds
    <3> QED
      BY <1>2, <1>4
  <2>2. n + 1 \in 1 .. Len(s) /\ (n + 1) - 1 = n
    BY <1>2
  <2> DEFINE x == s[n + 1]
             k == kept[n]
  <2>3. kept[n + 1] = IF x \in S THEN Append(k, x) ELSE k
    BY <1>1, <2>2 DEF Retains
  <2>4. First(n + 1) = First(n) \union {x}
    <3>1. \A i \in 1 .. n + 1 : i \in 1 .. n \/ i = n + 1
      OBVIOUS
    <3>2. n + 1 \in 1 .. n + 1 /\ \A i \in 1 .. n : i \in 1 .. n + 1
      OBVIOUS
    <3> QED
      BY <3>1, <3>2
  <2>5. Once(s) => x \notin First(n)
    <3>1. \A i \in 1 .. n : i \in 1 .. Len(s) /\ i # n + 1
      BY <1>2
    <3> QED
      BY <1>2, <2>2, <3>1 DEF Once
  <2>6. x \in T
    BY <1>2, <2>2
  <2>7. k \in Seq(T) /\ Elements(k) = First(n) \intersect S /\ (Once(s) => Once(k))
    BY <2>1
  <2> HIDE DEF x, k, First
  <2>8. CASE x \in S
    <3>1. /\ Append(k, x) \in Seq(T) /\ Elements(Append(k, x)) = Elements(k) \union {x}
          /\ Once(k) /\ x \notin Elements(k) => Once(Append(k, x))
      BY <2>6, <2>7, OneMoreListed
    <3> QED
      BY <2>3, <2>4, <2>5, <2>7, <2>8, <3>1
  <2>9. CASE x \notin S
    BY <2>3, <2>4, <2>7, <2>9
  <2> QED
    BY <2>8, <2>9
<1>5. Nat \subseteq Done
  <2> HIDE DEF Done
  <2> QED
    BY <1>3, <1>4, Inductive
<1>6. Holds(Len(s))
  <2> HIDE DEF Holds
  <2> QED
    BY <1>2, <1>5
<1>7. First(Len(s)) = Elements(s)
  BY <1>2 DEF Elements
<1> QED
  BY <1>1, <1>6, <1>7

-----------------------------------------------------------------------------
(* The invariant.                                                          *)

USE DEF worldVars, clientVars, toldVars, serverVars, loopVars

Busy == {"load", "run", "record"}
Bad == Unparsed \union Refused

\* What the variables hold.
Types ==
  /\ disk \in [Files -> Texts \union {None}]
  /\ manifest \in Manifests
  /\ untold \subseteq Files /\ manUntold \in BOOLEAN
  /\ docs \in [Files -> Docs \union {None}]
  /\ projects \in [{Root, Dir} -> Loaded \union {None}]
  /\ shuttingDown \in BOOLEAN
  /\ at \in {"recv", "apply", "check", "ended"} \union Busy
  /\ stale \in [files : Seq(Files), changed : SUBSET Files]
  /\ request \in Requests \union {None}
  /\ todo \in Seq(Files)
  /\ job \in Jobs \union {None}
  /\ published \in [Files -> Reports \union {Empty, Failed}]

\* Where the loop is.
Loop ==
  /\ at \in {"recv", "apply", "ended"} => todo = <<>>
  /\ at \in {"check"} \union Busy => stale = NoStale /\ ~shuttingDown
  /\ at = "recv" => stale = NoStale
  /\ at \in Busy <=> job # None
  /\ job # None => todo # <<>> /\ Head(todo) = job.file /\ job.file \in Open
  /\ Once(stale.files) /\ Once(todo)

\* What is said of f is what a check would say now, but for what was not told.
Said(said) == said \notin {Empty, Failed, None}
Accurate(f, said) ==
  /\ said = Failed => manUntold \/ f \in untold \/ manifest \in Bad
  /\ Said(said) =>
       /\ \A g \in DOMAIN said.read \ untold : said.read[g] = disk[g]
       /\ said.open = DOMAIN said.read \intersect Open
       /\ manUntold \/ said.man = manifest

\* It was said with the project as it is now loaded.
Built(k, said) == k # None /\ Said(said) => projects[k] # None /\ projects[k].man = said.man

\* The check under way; two writes may put back the text that was read.
JobHolds ==
  job # None =>
    /\ docs[job.file].project = (IF job.key = Root THEN Root ELSE None)
    /\ OnDisk(job.file) \/ job.file \in untold
    /\ job.writes = 0 => disk[job.file] = job.text
    /\ job.writes = 1 => disk[job.file] # job.text
    /\ at = "load" => projects[job.key] = None
    /\ at = "run" => projects[job.key] # None
    /\ at = "record" <=> job.said # None
    /\ Accurate(job.file, job.said)
    /\ Built(job.key, job.said)
    /\ Said(job.said) => /\ job.file \in DOMAIN job.said.read
                         /\ job.writes = 0 => job.said.read[job.file] = job.text

\* A loaded project is of the manifests there are.
ProjectsHold ==
  \A k \in {Root, Dir} : projects[k] # None => manUntold \/ projects[k].man = manifest

\* The files there is yet to check: listed, left by the batch, or above what changed.
Waiting ==
  Elements(todo) \union Elements(stale.files)
    \union {f \in Open : docs[f].deps \intersect stale.changed # {}}

\* A file that need not be checked has its last check shown, which is as good as a new
\* one; and the files a check read are known, for a change of one of them to be noticed.
Fresh(f) ==
  /\ published[f] = Empty => ~OnDisk(f) \/ f \in untold
  /\ Accurate(f, published[f])
  /\ Built(docs[f].project, published[f])
Shown(f) ==
  /\ f \notin Open => published[f] = Empty
  /\ Said(published[f]) => DOMAIN published[f].read \subseteq docs[f].deps \union {f}
  /\ ~shuttingDown /\ f \in Open /\ f \notin Waiting => Fresh(f)
AllShown == \A f \in Files : Shown(f)

\* A fix that is kept is of the text that was read before the check.
Fits ==
  /\ \A f \in Open :
       LET c == docs[f].checked
       IN  c # None /\ c.fixes # None /\ c.writes <= 1 => c.fixes = c.text
  /\ answer # None /\ answer.writes <= 1 => answer.of = answer.for

Inv == Types /\ Loop /\ JobHolds /\ ProjectsHold /\ AllShown /\ Fits

-----------------------------------------------------------------------------
(* A part of the invariant is not disturbed by what it does not read.      *)

LEMMA TypesStay ==
  ASSUME Types, UNCHANGED <<disk, manifest, untold, manUntold, docs, projects, shuttingDown, at,
                            stale, request, todo, job, published>>
  PROVE  Types'
BY DEF Types

LEMMA LoopStays ==
  ASSUME Loop, UNCHANGED <<at, todo, stale, shuttingDown, job, docs>>
  PROVE  Loop'
BY DEF Loop, Open, Once

LEMMA JobStays ==
  ASSUME JobHolds, UNCHANGED <<job, docs, disk, untold, manUntold, manifest, projects, at>>
  PROVE  JobHolds'
BY DEF JobHolds, OnDisk, Accurate, Built, Said, Open

LEMMA NoJobHolds == ASSUME job' = None PROVE JobHolds'
BY DEF JobHolds

LEMMA ProjectsStay ==
  ASSUME ProjectsHold, UNCHANGED <<projects, manUntold, manifest>>
  PROVE  ProjectsHold'
BY DEF ProjectsHold

LEMMA ShownStays ==
  ASSUME AllShown,
         UNCHANGED <<docs, published, shuttingDown, disk, untold, manUntold, manifest, projects>>,
         Waiting \subseteq Waiting'
  PROVE  AllShown'
BY DEF AllShown, Shown, Fresh, Accurate, Built, Said, Open, OnDisk

LEMMA FitsStays == ASSUME Fits, UNCHANGED <<docs, answer>> PROVE Fits'
BY DEF Fits, Open

-----------------------------------------------------------------------------
(* What the operators return.                                              *)

LEMMA NotNone ==
  /\ \A x \in Docs \union Loaded \union Jobs \union Requests : x # None
  /\ \A r \in Reports : Said(r) /\ r # None
  /\ ~Said(None) /\ ~Said(Empty) /\ ~Said(Failed) /\ None # Failed /\ Empty # Failed
BY NoRecordAssumption, LspAssumption DEF Said

LEMMA ReportTyped ==
  ASSUME NEW r \in Reports
  PROVE  /\ DOMAIN r.read \subseteq Files /\ r.man \in Manifests
         /\ \A g \in DOMAIN r.read : r.read[g] \in Texts \union {None}
BY DEF Reports

LEMMA InOrderIs ==
  ASSUME NEW S \in SUBSET Files
  PROVE  InOrder(S) \in Seq(Files) /\ Elements(InOrder(S)) = S /\ Once(InOrder(S))
<1>1. /\ InOrder(S) \in Seq(Files) /\ Elements(InOrder(S)) = Elements(UriOrder) \intersect S
      /\ Once(UriOrder) => Once(InOrder(S))
  BY RetainedFacts, LspAssumption DEF InOrder
<1>2. Elements(UriOrder) = Files /\ Once(UriOrder)
  <2>1. \A i \in DOMAIN UriOrder : UriOrder[i] \in Files
    BY LspAssumption, ElementOfSeq
  <2> QED
    BY <2>1, LspAssumption DEF Elements, Once
<1> QED
  BY <1>1, <1>2

LEMMA CheckListIs ==
  ASSUME Types, Loop
  PROVE  /\ CheckList \in Seq(Files) /\ Once(CheckList)
         /\ Elements(stale.files) \union Dependents \subseteq Elements(CheckList)
         /\ FilesOf(Moved(KeysOf(Elements(stale.files) \union Dependents)))
              \subseteq Elements(CheckList)
<1> DEFINE files == stale.files \o InOrder(Dependents)
           moved == FilesOf(Moved(KeysOf(Elements(files))))
<1>1. Dependents \in SUBSET Files /\ Dependents \intersect Elements(stale.files) = {}
  BY DEF Dependents, Open
<1>2. /\ InOrder(Dependents) \in Seq(Files) /\ Elements(InOrder(Dependents)) = Dependents
      /\ Once(InOrder(Dependents))
  BY <1>1, InOrderIs
<1>3. stale.files \in Seq(Files) /\ Once(stale.files)
  BY DEF Types, Loop
<1>4. /\ files \in Seq(Files) /\ Elements(files) = Elements(stale.files) \union Dependents
      /\ Once(files)
  BY <1>1, <1>2, <1>3, BothListed
<1>5. CheckList = files \o InOrder(moved \ Elements(files))
  BY DEF CheckList
<1> HIDE DEF files
<1> DEFINE rest == moved \ Elements(files)
<1>6. rest \in SUBSET Files
  BY DEF FilesOf, Open
<1>7. moved \subseteq Elements(files) \union rest /\ Elements(files) \intersect rest = {}
  OBVIOUS
<1> HIDE DEF moved, rest
<1>8. InOrder(rest) \in Seq(Files) /\ Elements(InOrder(rest)) = rest /\ Once(InOrder(rest))
  BY <1>6, InOrderIs
<1>9. CheckList = files \o InOrder(rest)
  BY <1>5 DEF rest
<1>10. /\ CheckList \in Seq(Files) /\ Once(CheckList)
       /\ Elements(CheckList) = Elements(files) \union rest
  BY <1>4, <1>7, <1>8, <1>9, BothListed
<1>11. moved = FilesOf(Moved(KeysOf(Elements(stale.files) \union Dependents)))
  BY <1>4 DEF moved
<1> QED
  BY <1>4, <1>7, <1>10, <1>11

LEMMA ReportIs ==
  ASSUME Types, NEW f \in Files, NEW key \in {Root, Dir}, projects[key] # None
  PROVE  /\ Report(f, key) \in Reports /\ f \in DOMAIN Report(f, key).read
         /\ \A g \in DOMAIN Report(f, key).read : Report(f, key).read[g] = disk[g]
         /\ Report(f, key).open = DOMAIN Report(f, key).read \intersect Open
         /\ Report(f, key).man = projects[key].man
<1> DEFINE C == Closure(f)
<1>1. C \in SUBSET Files /\ f \in C
  BY DEF Closure
<1>2. projects[key].man \in Manifests
  BY DEF Types, Loaded
<1> HIDE DEF C
<1>3. [g \in C |-> disk[g]] \in [C -> Texts \union {None}]
  BY <1>1 DEF Types
<1>4. C \intersect Open \in SUBSET Files
  BY <1>1
<1>5. Report(f, key) = [read |-> [g \in C |-> disk[g]], open |-> C \intersect Open,
                        man |-> projects[key].man]
  BY DEF Report, C
<1>6. Report(f, key) \in Reports
  BY <1>1, <1>2, <1>3, <1>4, <1>5 DEF Reports
<1> QED
  BY <1>1, <1>5, <1>6

-----------------------------------------------------------------------------
(* The disk is written.                                                    *)

LEMMA WriteKeeps ==
  ASSUME Inv, NEW f \in Files, NEW t \in MayHold[f], Write(f, t)
  PROVE  Inv'
<1>1. /\ disk[f] # t /\ disk' = [disk EXCEPT ![f] = t] /\ untold' = untold \union {f}
      /\ job' = IF job # None /\ job.file = f THEN [job EXCEPT !.writes = @ + 1] ELSE job
      /\ UNCHANGED <<manifest, manUntold, docs, projects, shuttingDown, at, stale, request, todo,
                     published, answer>>
  BY DEF Write
<1>2. t \in Texts \union {None} /\ disk \in [Files -> Texts \union {None}]
  BY LspAssumption DEF Inv, Types
<1>3. /\ job' \in Jobs \union {None} /\ (job' = None <=> job = None)
      /\ job # None => /\ job'.file = job.file /\ job'.key = job.key /\ job'.text = job.text
                       /\ job'.said = job.said
                       /\ job'.writes = IF job.file = f THEN job.writes + 1 ELSE job.writes
  <2>1. CASE job # None /\ job.file = f
    <3>1. job \in Jobs /\ job' = [job EXCEPT !.writes = job.writes + 1]
      BY <1>1, <2>1 DEF Inv, Types
    <3>2. job' \in Jobs
      BY <3>1 DEF Jobs
    <3> QED
      BY <2>1, <3>1, <3>2, NotNone DEF Jobs
  <2>2. CASE ~(job # None /\ job.file = f)
    BY <1>1, <2>2 DEF Inv, Types
  <2> QED
    BY <2>1, <2>2
<1>4. Types'
  BY <1>1, <1>2, <1>3 DEF Inv, Types
<1>5. Loop'
  BY <1>1, <1>3 DEF Inv, Loop, Open
<1>6. ASSUME NEW g, NEW said, Accurate(g, said) PROVE Accurate(g, said)'
  BY <1>1, <1>2, <1>6 DEF Accurate, Open
<1>7. JobHolds'
  <2> SUFFICES ASSUME job # None PROVE JobHolds'
    BY <1>3 DEF JobHolds
  <2>1. job.writes \in Nat /\ job \in Jobs /\ job.file \in Files
    BY DEF Inv, Types, Jobs
  <2>2. OnDisk(job.file)' \/ job.file \in untold'
    BY <1>1, <2>1 DEF Inv, JobHolds, OnDisk, Types
  <2>3. /\ job'.writes = 0 => disk'[job.file] = job.text
        /\ job'.writes = 1 => disk'[job.file] # job.text
    <3>1. CASE job.file = f
      BY <1>1, <1>2, <1>3, <2>1, <3>1 DEF Inv, JobHolds
    <3>2. CASE job.file # f
      BY <1>1, <1>2, <1>3, <2>1, <3>2 DEF Inv, JobHolds
    <3> QED
      BY <3>1, <3>2
  <2>4. job'.writes = 0 => job.writes = 0
    BY <1>3, <2>1
  <2>5. Accurate(job.file, job.said) /\ Built(job.key, job.said)
    BY DEF Inv, JobHolds
  <2>6. Accurate(job.file, job.said)'
    BY <1>1, <1>2, <1>3, <2>1, <2>5 DEF Accurate, Said, Open
  <2>7. Built(job.key, job.said)'
    BY <1>1, <1>3, <2>5 DEF Built, Said
  <2>8. /\ docs'[job'.file].project = (IF job'.key = Root THEN Root ELSE None)
        /\ at' = "load" => projects'[job'.key] = None
        /\ at' = "run" => projects'[job'.key] # None
        /\ at' = "record" <=> job'.said # None
    BY <1>1, <1>3 DEF Inv, JobHolds
  <2>9. Said(job'.said) => /\ job'.file \in DOMAIN job'.said.read
                           /\ job'.writes = 0 => job'.said.read[job'.file] = job'.text
    BY <1>3, <2>4 DEF Inv, JobHolds
  <2> QED
    BY <1>3, <2>2, <2>3, <2>6, <2>7, <2>8, <2>9 DEF JobHolds, OnDisk
<1>8. AllShown'
  <2>1. Waiting' = Waiting
    BY <1>1 DEF Waiting, Open
  <2>2. ASSUME NEW g \in Files, Fresh(g) PROVE Fresh(g)'
    <3>1. Accurate(g, published[g])'
      BY <1>1, <1>6, <2>2 DEF Fresh
    <3> QED
      BY <1>1, <1>2, <2>2, <3>1 DEF Fresh, OnDisk, Built
  <2> QED
    BY <1>1, <2>1, <2>2 DEF Inv, AllShown, Shown, Open
<1>9. ProjectsHold' /\ Fits'
  BY <1>1, ProjectsStay, FitsStays DEF Inv
<1> QED
  BY <1>4, <1>5, <1>7, <1>8, <1>9 DEF Inv

LEMMA ManifestKeeps ==
  ASSUME Inv, NEW m \in Manifests, WriteManifest(m)
  PROVE  Inv'
<1>1. /\ manifest' = m /\ manUntold' = TRUE
      /\ UNCHANGED <<disk, untold, docs, projects, shuttingDown, at, stale, request, todo, job,
                     published, answer>>
  BY DEF WriteManifest
<1>2. Types'
  BY <1>1 DEF Inv, Types
<1>3. JobHolds'
  BY <1>1 DEF Inv, JobHolds, Accurate, Built, OnDisk, Open
<1>4. ProjectsHold'
  BY <1>1 DEF ProjectsHold
<1>5. AllShown'
  <2>1. Waiting' = Waiting
    BY <1>1 DEF Waiting, Open
  <2> QED
    BY <1>1, <2>1 DEF Inv, AllShown, Shown, Fresh, Accurate, Built, OnDisk, Open
<1> QED
  BY <1>1, <1>2, <1>3, <1>4, <1>5, LoopStays, FitsStays DEF Inv

-----------------------------------------------------------------------------
(* Messages.                                                               *)

\* Between checks there is none under way, and nothing listed.
LEMMA NoCheck ==
  ASSUME Inv, at \in {"recv", "apply", "ended"}
  PROVE  /\ job = None /\ todo = <<>> /\ Elements(todo) = {}
         /\ JobHolds /\ Once(todo)
BY NothingListed DEF Inv, Loop, Busy

LEMMA OpenedIs ==
  ASSUME Types, Once(stale.files), NEW f \in Files, NEW text \in Texts \union {None},
         NEW saved \in BOOLEAN, Opened(f, text, saved)
  PROVE  /\ docs' \in [Files -> Docs \union {None}]
         /\ stale' \in [files : Seq(Files), changed : SUBSET Files]
         /\ \A g \in Files : g # f => docs'[g] = docs[g]
         /\ docs'[f] # None
         /\ f \in Open => docs'[f].deps = docs[f].deps /\ docs'[f].checked = docs[f].checked
         /\ f \notin Open => docs'[f].deps = {} /\ docs'[f].checked = None
         /\ Open' = Open \union {f}
         /\ Elements(stale'.files) = Elements(stale.files) \union {f} /\ Once(stale'.files)
         /\ stale.changed \subseteq stale'.changed
         /\ saved \/ f \notin Open => f \in stale'.changed
<1> DEFINE doc == IF docs[f] = None THEN [NewDoc EXCEPT !.project = ProjectKey] ELSE docs[f]
           now == IF text = None THEN doc ELSE [doc EXCEPT !.buffer = text]
<1>1. /\ docs' = [docs EXCEPT ![f] = now]
      /\ stale' = [files |-> Named(f),
                   changed |-> IF saved \/ docs[f] = None THEN stale.changed \union {f}
                               ELSE stale.changed]
  BY DEF Opened
<1>2. doc \in Docs
  <2>1. ProjectKey \in {Root, None}
    BY DEF ProjectKey
  <2>2. [NewDoc EXCEPT !.project = ProjectKey] \in Docs
    BY <2>1 DEF NewDoc, Docs
  <2> QED
    BY <2>2 DEF Types
<1>3. /\ docs[f] = None => doc.deps = {} /\ doc.checked = None
      /\ docs[f] # None => doc = docs[f]
  BY DEF NewDoc
<1> HIDE DEF doc
<1>4. now \in Docs /\ now.deps = doc.deps /\ now.checked = doc.checked
  BY <1>2 DEF Docs
<1> HIDE DEF now
<1>5. now # None
  BY <1>4, NotNone
<1>6. /\ docs' \in [Files -> Docs \union {None}] /\ docs'[f] = now
      /\ \A g \in Files : g # f => docs'[g] = docs[g]
  BY <1>1, <1>4 DEF Types
<1>7. Open' = Open \union {f}
  BY <1>5, <1>6 DEF Open
<1>8. /\ Named(f) \in Seq(Files) /\ Elements(Named(f)) = Elements(stale.files) \union {f}
      /\ Once(Named(f))
  <2>1. stale.files \in Seq(Files)
    BY DEF Types
  <2>2. /\ Append(stale.files, f) \in Seq(Files)
        /\ Elements(Append(stale.files, f)) = Elements(stale.files) \union {f}
        /\ f \notin Elements(stale.files) => Once(Append(stale.files, f))
    BY <2>1, OneMoreListed
  <2> QED
    BY <2>1, <2>2 DEF Named
<1>9. stale.changed \in SUBSET Files
  BY DEF Types
<1>10. /\ stale' \in [files : Seq(Files), changed : SUBSET Files]
       /\ stale'.files = Named(f) /\ stale.changed \subseteq stale'.changed
       /\ saved \/ docs[f] = None => f \in stale'.changed
  BY <1>1, <1>8, <1>9
<1> QED
  BY <1>3, <1>4, <1>5, <1>6, <1>7, <1>8, <1>10 DEF Open

\* A file opened or saved is checked again, and what it is below as well.
LEMMA OpenedKeeps ==
  ASSUME Inv, NEW f \in Files, NEW text \in Texts \union {None}, NEW saved \in BOOLEAN,
         at \in {"recv", "apply"}, at' = "apply", Opened(f, text, saved),
         untold' = IF saved THEN untold \ {f} ELSE untold,
         UNCHANGED <<disk, manifest, manUntold, projects, shuttingDown, request, todo, job,
                     published, answer>>
  PROVE  Inv'
<1>1. /\ docs' \in [Files -> Docs \union {None}]
      /\ stale' \in [files : Seq(Files), changed : SUBSET Files]
      /\ \A g \in Files : g # f => docs'[g] = docs[g]
      /\ docs'[f] # None
      /\ f \in Open => docs'[f].deps = docs[f].deps /\ docs'[f].checked = docs[f].checked
      /\ f \notin Open => docs'[f].deps = {} /\ docs'[f].checked = None
      /\ Open' = Open \union {f}
      /\ Elements(stale'.files) = Elements(stale.files) \union {f} /\ Once(stale'.files)
      /\ stale.changed \subseteq stale'.changed
      /\ saved \/ f \notin Open => f \in stale'.changed
  BY OpenedIs DEF Inv, Loop
<1>2. Types'
  BY <1>1 DEF Inv, Types
<1>3. job = None /\ todo = <<>> /\ Once(todo)
  BY NoCheck
<1>4. Loop'
  BY <1>1, <1>3 DEF Loop, Busy, Once
<1>5. JobHolds' /\ ProjectsHold'
  BY <1>3, NoJobHolds, ProjectsStay DEF Inv
<1>6. f \in Waiting' /\ Waiting \ {f} \subseteq Waiting'
  BY <1>1 DEF Waiting, Open
<1>7. Shown(f)'
  <2>1. Said(published[f]) =>
          f \in Open /\ DOMAIN published[f].read \subseteq docs[f].deps \union {f}
    BY NotNone DEF Inv, AllShown, Shown
  <2> QED
    BY <1>1, <1>6, <2>1 DEF Shown, Said
<1>8. ASSUME NEW g \in Files, g # f PROVE Shown(g)'
  <2>1. Shown(g) /\ docs'[g] = docs[g] /\ published'[g] = published[g]
    BY <1>1, <1>8 DEF Inv, AllShown
  <2>2. g \in Open' <=> g \in Open
    BY <1>1, <1>8
  <2>3. ASSUME ~shuttingDown', g \in Open', g \notin Waiting' PROVE Fresh(g)'
    <3>1. Fresh(g)
      BY <1>6, <1>8, <2>1, <2>2, <2>3 DEF Shown
    <3>2. Said(published[g]) => DOMAIN published[g].read \subseteq docs[g].deps \union {g}
      BY <2>1 DEF Shown
    <3>3. docs[g].deps \intersect stale'.changed = {}
      BY <2>1, <2>3 DEF Waiting
    <3>4. Said(published[g]) /\ (saved \/ f \notin Open) => f \notin DOMAIN published[g].read
      BY <1>1, <1>8, <3>2, <3>3
    <3>5. g \in untold => g \in untold'
      BY <1>8
    <3>6. Said(published[g]) =>
            /\ DOMAIN published[g].read \ untold' \subseteq DOMAIN published[g].read \ untold
            /\ DOMAIN published[g].read \intersect Open'
                 = DOMAIN published[g].read \intersect Open
      BY <1>1, <3>4
    <3>7. Accurate(g, published[g])'
      BY <2>1, <3>1, <3>5, <3>6 DEF Fresh, Accurate, Said
    <3> QED
      BY <2>1, <3>1, <3>5, <3>7 DEF Fresh, Built, OnDisk, Said
  <2> QED
    BY <2>1, <2>2, <2>3 DEF Shown, Said
<1>9. AllShown'
  BY <1>7, <1>8 DEF AllShown
<1>10. Fits'
  <2>1. \A g \in Open' : docs'[g].checked # None =>
          g \in Open /\ docs'[g].checked = docs[g].checked
    BY <1>1 DEF Open
  <2> QED
    BY <2>1 DEF Inv, Fits
<1> QED
  BY <1>2, <1>4, <1>5, <1>9, <1>10 DEF Inv

LEMMA DidOpenKeeps ==
  ASSUME Inv, NEW f \in Files, NEW t \in MayHold[f] \ {None}, DidOpen(f, t)
  PROVE  Inv'
<1>1. t \in Texts \union {None}
  BY LspAssumption
<1> QED
  BY <1>1, OpenedKeeps DEF DidOpen, Take

LEMMA DidSaveKeeps == ASSUME Inv, NEW f \in Files, DidSave(f) PROVE Inv'
BY OpenedKeeps DEF DidSave, Take

LEMMA DidChangeKeeps ==
  ASSUME Inv, NEW f \in Files, NEW t \in (MayHold[f] \ {None}) \union {Unsynced}, DidChange(f, t)
  PROVE  Inv'
<1>1. /\ at \in {"recv", "apply"} /\ at' = "apply" /\ f \in Open
      /\ docs' = [docs EXCEPT ![f].buffer = t]
      /\ UNCHANGED <<disk, manifest, untold, manUntold, projects, shuttingDown, stale, request,
                     todo, job, published, answer>>
  BY DEF DidChange, Take, Editing
<1>2. t \in Texts \union {Unsynced, None}
  BY LspAssumption
<1>3. docs[f] \in Docs /\ docs[f] # None
  BY <1>1 DEF Inv, Types, Open
<1> DEFINE now == [docs[f] EXCEPT !.buffer = t]
<1>4. /\ now \in Docs /\ now.deps = docs[f].deps /\ now.checked = docs[f].checked
      /\ now.project = docs[f].project
  BY <1>2, <1>3 DEF Docs
<1>5. docs' = [docs EXCEPT ![f] = now]
  BY <1>1 DEF Inv, Types
<1> HIDE DEF now
<1>6. now # None
  BY <1>4, NotNone
<1>7. /\ docs' \in [Files -> Docs \union {None}] /\ Open' = Open
      /\ \A g \in Open : /\ docs'[g].deps = docs[g].deps /\ docs'[g].checked = docs[g].checked
                         /\ docs'[g].project = docs[g].project
      /\ \A g \in Files : g \notin Open => docs'[g] = docs[g]
  BY <1>1, <1>3, <1>4, <1>5, <1>6 DEF Inv, Types, Open
<1>8. Types'
  BY <1>1, <1>7 DEF Inv, Types
<1>9. job = None /\ todo = <<>>
  BY <1>1, NoCheck
<1>10. Loop'
  BY <1>1, <1>9 DEF Inv, Loop, Busy, Once
<1>11. JobHolds' /\ ProjectsHold'
  BY <1>1, <1>9, NoJobHolds, ProjectsStay DEF Inv
<1>12. AllShown'
  <2>1. Waiting' = Waiting
    BY <1>1, <1>7 DEF Waiting
  <2> QED
    BY <1>1, <1>7, <2>1, NotNone DEF Inv, AllShown, Shown, Fresh, Accurate, Built, OnDisk, Said
<1>13. Fits'
  BY <1>1, <1>7 DEF Inv, Fits
<1> QED
  BY <1>8, <1>10, <1>11, <1>12, <1>13 DEF Inv

LEMMA DidCloseKeeps == ASSUME Inv, NEW f \in Files, DidClose(f) PROVE Inv'
<1>1. /\ at \in {"recv", "apply"} /\ at' = "apply" /\ f \in Open
      /\ stale' = [files |-> Retained(stale.files, Files \ {f}),
                   changed |-> stale.changed \union {f}]
      /\ docs' = [docs EXCEPT ![f] = None]
      /\ published' = [published EXCEPT ![f] = Empty]
      /\ UNCHANGED <<disk, manifest, untold, manUntold, projects, shuttingDown, request, todo, job,
                     answer>>
  BY DEF DidClose, Take, Editing, ChangedByClose
<1>2. stale \in [files : Seq(Files), changed : SUBSET Files] /\ Once(stale.files)
  BY DEF Inv, Types, Loop
<1>3. /\ Retained(stale.files, Files \ {f}) \in Seq(Files)
      /\ Elements(Retained(stale.files, Files \ {f}))
           = Elements(stale.files) \intersect (Files \ {f})
      /\ Once(Retained(stale.files, Files \ {f}))
  BY <1>2, RetainedFacts
<1>4. /\ stale' \in [files : Seq(Files), changed : SUBSET Files]
      /\ Elements(stale'.files) = Elements(stale.files) \intersect (Files \ {f})
      /\ Once(stale'.files) /\ stale'.changed = stale.changed \union {f}
  BY <1>1, <1>2, <1>3
<1>5. /\ Open' = Open \ {f} /\ docs'[f] = None /\ published'[f] = Empty
      /\ \A g \in Files : g # f => docs'[g] = docs[g] /\ published'[g] = published[g]
  BY <1>1 DEF Inv, Types, Open
<1>6. Types'
  BY <1>1, <1>4 DEF Inv, Types
<1>7. job = None /\ todo = <<>> /\ Once(todo)
  BY <1>1, NoCheck
<1>8. Loop'
  BY <1>1, <1>4, <1>7 DEF Loop, Busy, Once
<1>9. JobHolds' /\ ProjectsHold'
  BY <1>1, <1>7, NoJobHolds, ProjectsStay DEF Inv
<1>10. Shown(f)'
  BY <1>5, NotNone DEF Shown, Said
<1>11. ASSUME NEW g \in Files, g # f PROVE Shown(g)'
  <2>1. /\ Shown(g) /\ docs'[g] = docs[g] /\ published'[g] = published[g]
        /\ g \in Open' <=> g \in Open
    BY <1>5, <1>11 DEF Inv, AllShown
  <2>2. ASSUME ~shuttingDown', g \in Open', g \notin Waiting' PROVE Fresh(g)'
    <3>1. docs[g].deps \intersect stale'.changed = {} /\ g \notin Elements(stale'.files)
      BY <2>1, <2>2 DEF Waiting
    <3>2. g \notin Waiting
      BY <1>4, <1>7, <1>11, <3>1, NothingListed DEF Waiting
    <3>3. Fresh(g)
      BY <1>1, <2>1, <2>2, <3>2 DEF Shown
    <3>4. Said(published[g]) => DOMAIN published[g].read \subseteq docs[g].deps \union {g}
      BY <2>1 DEF Shown
    <3>5. Said(published[g]) => f \notin DOMAIN published[g].read
      BY <1>4, <1>11, <3>1, <3>4
    <3>6. Said(published[g]) => DOMAIN published[g].read \intersect Open'
                                  = DOMAIN published[g].read \intersect Open
      BY <1>5, <3>5
    <3>7. Accurate(g, published[g])'
      BY <1>1, <2>1, <3>3, <3>6 DEF Fresh, Accurate, Said
    <3> QED
      BY <1>1, <2>1, <3>3, <3>7 DEF Fresh, Built, OnDisk, Said
  <2> QED
    BY <2>1, <2>2 DEF Shown, Said
<1>12. AllShown'
  BY <1>10, <1>11 DEF AllShown
<1>13. Fits'
  BY <1>1, <1>5 DEF Inv, Fits, Open
<1> QED
  BY <1>6, <1>8, <1>9, <1>12, <1>13 DEF Inv

\* The manifests changed: every open file is checked again, in a project not yet loaded.
LEMMA WatchedKeeps == ASSUME Inv, DidChangeWatchedFiles PROVE Inv'
<1> DEFINE more == Open \ Elements(stale.files)
           now(g) == [docs[g] EXCEPT !.project = None]
<1>1. /\ at \in {"recv", "apply"} /\ at' = "apply"
      /\ projects' = [k \in {Root, Dir} |-> None]
      /\ docs' = [g \in Files |-> IF g \in Open THEN now(g) ELSE None]
      /\ stale' = [stale EXCEPT !.files = stale.files \o InOrder(more)]
      /\ manUntold' = FALSE
      /\ UNCHANGED <<disk, manifest, untold, shuttingDown, request, todo, job, published, answer>>
  BY DEF DidChangeWatchedFiles, Take
<1>2. stale \in [files : Seq(Files), changed : SUBSET Files] /\ Once(stale.files)
  BY DEF Inv, Types, Loop
<1>3. more \in SUBSET Files /\ Elements(stale.files) \intersect more = {}
      /\ Open \subseteq Elements(stale.files) \union more
  BY DEF Open
<1> HIDE DEF more
<1>4. InOrder(more) \in Seq(Files) /\ Elements(InOrder(more)) = more /\ Once(InOrder(more))
  BY <1>3, InOrderIs
<1>5. /\ stale.files \o InOrder(more) \in Seq(Files)
      /\ Elements(stale.files \o InOrder(more)) = Elements(stale.files) \union more
      /\ Once(stale.files \o InOrder(more))
  BY <1>2, <1>3, <1>4, BothListed
<1>6. /\ stale' \in [files : Seq(Files), changed : SUBSET Files]
      /\ Open \subseteq Elements(stale'.files) /\ Once(stale'.files)
  BY <1>1, <1>2, <1>3, <1>5
<1>7. \A g \in Open : /\ now(g) \in Docs /\ now(g).project = None
                      /\ now(g).deps = docs[g].deps /\ now(g).checked = docs[g].checked
  BY DEF Inv, Types, Open, Docs
<1> HIDE DEF now
<1>8. /\ docs' \in [Files -> Docs \union {None}] /\ Open' = Open
      /\ \A g \in Open : docs'[g] = now(g)
  BY <1>1, <1>7, NotNone DEF Open
<1>9. Types'
  BY <1>1, <1>6, <1>8 DEF Inv, Types
<1>10. job = None /\ todo = <<>> /\ Once(todo)
  BY <1>1, NoCheck
<1>11. Loop'
  BY <1>1, <1>6, <1>10 DEF Loop, Busy, Once
<1>12. JobHolds' /\ ProjectsHold'
  BY <1>1, <1>10, NoJobHolds DEF ProjectsHold
<1>13. AllShown'
  <2>1. Open' \subseteq Waiting'
    BY <1>6, <1>8 DEF Waiting
  <2>2. ASSUME NEW g \in Files PROVE Shown(g)'
    <3>1. g \notin Open => published[g] = Empty
      BY DEF Inv, AllShown, Shown
    <3>2. Said(published[g]) => /\ g \in Open
                                /\ DOMAIN published[g].read \subseteq docs[g].deps \union {g}
      BY <3>1, NotNone DEF Inv, AllShown, Shown
    <3>3. g \in Open => docs'[g].deps = docs[g].deps
      BY <1>7, <1>8
    <3> QED
      BY <1>1, <1>8, <2>1, <3>1, <3>2, <3>3 DEF Shown, Said
  <2> QED
    BY <2>2 DEF AllShown
<1>14. Fits'
  <2>1. \A g \in Open' : g \in Open /\ docs'[g].checked = docs[g].checked
    BY <1>7, <1>8
  <2> QED
    BY <1>1, <2>1 DEF Inv, Fits
<1> QED
  BY <1>9, <1>11, <1>12, <1>13, <1>14 DEF Inv

LEMMA ExitKeeps == ASSUME Inv, DidExit PROVE Inv'
<1>1. /\ at \in {"recv", "apply"} /\ at' = "ended"
      /\ UNCHANGED <<disk, manifest, untold, manUntold, docs, projects, shuttingDown, stale,
                     request, todo, job, published, answer>>
  BY DEF DidExit, Take
<1>2. job = None /\ todo = <<>>
  BY <1>1, NoCheck
<1>3. Types'
  BY <1>1 DEF Inv, Types
<1>4. Loop'
  BY <1>1, <1>2 DEF Inv, Loop, Busy, Once
<1>5. Waiting' = Waiting
  BY <1>1 DEF Waiting, Open
<1> QED
  BY <1>1, <1>2, <1>3, <1>4, <1>5, NoJobHolds, ProjectsStay, ShownStays, FitsStays DEF Inv

-----------------------------------------------------------------------------
(* A round of checks begins.                                               *)

\* Every project that moved is dropped with all of its files listed.
LEMMA DroppedIs ==
  ASSUME Types, NEW K \in SUBSET {Root, Dir}
  PROVE  /\ Dropped(K) \in [{Root, Dir} -> Loaded \union {None}]
         /\ \A k \in {Root, Dir} : k \notin Moved(K) => Dropped(K)[k] = projects[k]
         /\ \A k \in {Root, Dir} : Dropped(K)[k] # None => Dropped(K)[k] = projects[k]
BY DEF Types, Dropped

\* A file outside the projects that moved, and up to date, is so still.
LEMMA DroppedKeepsShown ==
  ASSUME Inv, NEW K \in SUBSET {Root, Dir}, projects' = Dropped(K),
         UNCHANGED <<docs, published, disk, untold, manUntold, manifest>>,
         shuttingDown' = shuttingDown,
         Waiting \union FilesOf(Moved(K)) \subseteq Waiting'
  PROVE  AllShown' /\ ProjectsHold'
<1>1. /\ \A k \in {Root, Dir} : k \notin Moved(K) => projects'[k] = projects[k]
      /\ \A k \in {Root, Dir} : projects'[k] # None => projects'[k] = projects[k]
  BY DroppedIs DEF Inv
<1>2. ProjectsHold'
  BY <1>1 DEF Inv, ProjectsHold
<1>3. ASSUME NEW g \in Open, g \notin FilesOf(Moved(K)), Fresh(g) PROVE Fresh(g)'
  <2>1. docs[g].project \in {Root, None} /\ docs[g].project \notin Moved(K)
    BY <1>3 DEF Inv, Types, Open, Docs, FilesOf
  <2>2. docs[g].project # None => projects'[docs[g].project] = projects[docs[g].project]
    BY <1>1, <2>1
  <2>3. Built(docs[g].project, published[g])'
    BY <1>3, <2>2 DEF Fresh, Built, Said
  <2>4. Accurate(g, published[g])'
    BY <1>3 DEF Fresh, Accurate, Said, Open
  <2> QED
    BY <1>3, <2>3, <2>4 DEF Fresh, OnDisk
<1>4. ASSUME NEW g \in Files PROVE Shown(g)'
  <2>1. Shown(g)
    BY DEF Inv, AllShown
  <2>2. Open' = Open
    BY DEF Open
  <2> QED
    BY <1>3, <2>1, <2>2 DEF Shown, Said
<1> QED
  BY <1>2, <1>4 DEF AllShown

LEMMA KeysAreKeys == ASSUME Types, NEW S PROVE KeysOf(S) \in SUBSET {Root, Dir}
BY DEF Types, KeysOf, KnownProject, ProjectKey, Open, Docs

LEMMA CheckAllKeeps ==
  ASSUME Inv, at \in {"recv", "apply"}, ~shuttingDown, NEW r \in Requests \union {None},
         CheckAll(r),
         UNCHANGED <<disk, manifest, untold, manUntold, docs, shuttingDown, job, published, answer>>
  PROVE  Inv'
<1> DEFINE K == KeysOf(Elements(stale.files) \union Dependents)
<1>1. /\ todo' = CheckList /\ projects' = Dropped(K) /\ stale' = NoStale
      /\ request' = r /\ at' = "check"
  BY DEF CheckAll
<1>2. K \in SUBSET {Root, Dir}
  BY KeysAreKeys DEF Inv
<1>3. /\ CheckList \in Seq(Files) /\ Once(CheckList)
      /\ Elements(stale.files) \union Dependents \subseteq Elements(CheckList)
      /\ FilesOf(Moved(K)) \subseteq Elements(CheckList)
  BY CheckListIs DEF Inv
<1> HIDE DEF K
<1>4. job = None /\ Elements(todo) = {}
  BY NoCheck
<1>5. NoStale \in [files : Seq(Files), changed : SUBSET Files] /\ NoStale.files = <<>>
  BY DEF NoStale
<1>6. Types'
  <2>1. projects' \in [{Root, Dir} -> Loaded \union {None}]
    BY <1>1, <1>2, DroppedIs DEF Inv
  <2> QED
    BY <1>1, <1>3, <1>5, <2>1 DEF Inv, Types
<1>7. Loop'
  BY <1>1, <1>3, <1>4, <1>5, NothingListed DEF Loop, Busy, Once
<1>8. Waiting \union FilesOf(Moved(K)) \subseteq Waiting'
  <2>1. Waiting \subseteq Elements(stale.files) \union Dependents
    BY <1>4 DEF Waiting, Dependents
  <2> QED
    BY <1>1, <1>3, <2>1 DEF Waiting
<1>9. AllShown' /\ ProjectsHold'
  BY <1>1, <1>2, <1>8, DroppedKeepsShown
<1> QED
  BY <1>4, <1>6, <1>7, <1>9, NoJobHolds, FitsStays DEF Inv

\* Nothing is checked any more, and nothing claimed of what is shown.
LEMMA NoMoreChecks ==
  ASSUME Inv, shuttingDown', at \in {"recv", "apply"},
         at' = "apply" \/ (at' = "recv" /\ stale' = NoStale),
         stale' \in {stale, NoStale},
         UNCHANGED <<disk, manifest, untold, manUntold, docs, projects, request, todo, job,
                     published, answer>>
  PROVE  Inv'
<1>1. job = None /\ todo = <<>> /\ Once(todo)
  BY NoCheck
<1>2. /\ NoStale \in [files : Seq(Files), changed : SUBSET Files] /\ NoStale.files = <<>>
      /\ Once(NoStale.files)
  BY NothingListed DEF NoStale
<1>3. Types'
  BY <1>2 DEF Inv, Types
<1>4. Loop'
  BY <1>1, <1>2 DEF Inv, Loop, Busy, Once
<1>5. AllShown'
  BY DEF Inv, AllShown, Shown, Said, Open
<1> QED
  BY <1>1, <1>3, <1>4, <1>5, NoJobHolds, ProjectsStay, FitsStays DEF Inv

LEMMA EndOfBatchKeeps == ASSUME Inv, EndOfBatch PROVE Inv'
<1>1. CASE shuttingDown
  BY <1>1, NoMoreChecks DEF EndOfBatch
<1>2. CASE ~shuttingDown
  <2>1. CheckAll(None)
    BY <1>2 DEF EndOfBatch
  <2> QED
    BY <1>2, <2>1, CheckAllKeeps DEF EndOfBatch
<1> QED
  BY <1>1, <1>2

LEMMA RequestedKeeps ==
  ASSUME Inv, NEW kind \in {"codeAction", "formatting", "shutdown"}, NEW f,
         f \in (IF kind = "shutdown" THEN {None} ELSE Files), Requested(kind, f)
  PROVE  Inv'
<1>1. CASE shuttingDown
  BY <1>1, NoMoreChecks DEF Requested, Take
<1>2. CASE ~shuttingDown
  <2> DEFINE r == [kind |-> kind, file |-> f, key |-> None]
  <2>1. ChecksFirst(kind)
    BY DEF ChecksFirst
  <2>2. CheckAll(r) /\ shuttingDown' = shuttingDown
    BY <1>2, <2>1 DEF Requested
  <2>3. r \in Requests \union {None}
    BY DEF Requests
  <2> HIDE DEF r
  <2> QED
    BY <1>2, <2>2, <2>3, CheckAllKeeps DEF Requested, Take
<1> QED
  BY <1>1, <1>2

-----------------------------------------------------------------------------
(* A check.                                                                *)

\* While checks are made the files that wait are the ones listed.
LEMMA OnlyListed ==
  ASSUME Inv, at \in {"check"} \union Busy
  PROVE  Waiting = Elements(todo) /\ stale = NoStale /\ ~shuttingDown
BY NothingListed DEF Inv, Loop, Waiting, NoStale

\* The first file listed was dealt with.
LEMMA ListShrinks ==
  ASSUME Inv, at \in {"check"} \union Busy, todo # <<>>, todo' = Tail(todo), stale' = stale
  PROVE  /\ Head(todo) \in Files /\ todo' \in Seq(Files) /\ Once(todo')
         /\ Waiting \ {Head(todo)} \subseteq Waiting'
<1>1. todo \in Seq(Files) /\ Once(todo)
  BY DEF Inv, Types, Loop
<1>2. /\ Head(todo) \in Files /\ Tail(todo) \in Seq(Files) /\ Once(Tail(todo))
      /\ Elements(todo) = Elements(Tail(todo)) \union {Head(todo)}
  BY <1>1, FirstTaken
<1>3. Waiting = Elements(todo)
  BY OnlyListed
<1>4. Elements(Tail(todo)) \subseteq Waiting'
  BY DEF Waiting
<1> QED
  BY <1>2, <1>3, <1>4

\* A file that was closed.
LEMMA PassedOverKeeps ==
  ASSUME Inv, at = "check", todo # <<>>, Head(todo) \notin Open, todo' = Tail(todo),
         UNCHANGED <<disk, manifest, untold, manUntold, docs, projects, shuttingDown, at, stale,
                     request, job, published, answer>>
  PROVE  Inv'
<1>1. /\ Head(todo) \in Files /\ todo' \in Seq(Files) /\ Once(todo')
      /\ Waiting \ {Head(todo)} \subseteq Waiting'
  BY ListShrinks
<1>2. Types'
  BY <1>1 DEF Inv, Types
<1>3. job = None
  BY DEF Inv, Loop, Busy
<1>4. Loop'
  BY <1>1, <1>3 DEF Inv, Loop, Busy, Once
<1>5. AllShown'
  BY <1>1 DEF Inv, AllShown, Shown, Fresh, Accurate, Built, Said, OnDisk, Open
<1> QED
  BY <1>2, <1>3, <1>4, <1>5, NoJobHolds, ProjectsStay, FitsStays DEF Inv

\* A file that is not on disk has nothing to report.
LEMMA NotThereKeeps ==
  ASSUME Inv, at = "check", todo # <<>>, Head(todo) \in Open, ~OnDisk(Head(todo)),
         docs' = [docs EXCEPT ![Head(todo)].deps = {}, ![Head(todo)].checked = None],
         published' = [published EXCEPT ![Head(todo)] = Empty], todo' = Tail(todo),
         UNCHANGED <<disk, manifest, untold, manUntold, projects, shuttingDown, at, stale, request,
                     job, answer>>
  PROVE  Inv'
<1> DEFINE f == Head(todo)
           now == [docs[f] EXCEPT !.deps = {}, !.checked = None]
<1>1. /\ f \in Files /\ todo' \in Seq(Files) /\ Once(todo')
      /\ Waiting \ {f} \subseteq Waiting'
  BY ListShrinks
<1>2. f \in Open /\ docs[f] \in Docs
  BY <1>1 DEF Inv, Types, Open
<1>3. now \in Docs /\ now.checked = None
  BY <1>2 DEF Docs
<1>4. docs' = [docs EXCEPT ![f] = now]
  BY <1>1 DEF Inv, Types
<1>5. ~OnDisk(f) /\ published' = [published EXCEPT ![f] = Empty]
  OBVIOUS
<1> HIDE DEF f, now
<1>6. now # None
  BY <1>3, NotNone
<1>7. /\ docs' \in [Files -> Docs \union {None}] /\ docs'[f] = now /\ Open' = Open
      /\ \A g \in Files : g # f => docs'[g] = docs[g]
      /\ published' \in [Files -> Reports \union {Empty, Failed}] /\ published'[f] = Empty
      /\ \A g \in Files : g # f => published'[g] = published[g]
  <2>1. docs \in [Files -> Docs \union {None}]
    BY DEF Inv, Types
  <2>2. published \in [Files -> Reports \union {Empty, Failed}]
    BY DEF Inv, Types
  <2>3. /\ docs' \in [Files -> Docs \union {None}] /\ docs'[f] = now
        /\ \A g \in Files : g # f => docs'[g] = docs[g]
    BY <1>1, <1>3, <1>4, <2>1
  <2>4. Open' = Open
    BY <1>2, <1>6, <2>3 DEF Open
  <2>5. /\ published' \in [Files -> Reports \union {Empty, Failed}] /\ published'[f] = Empty
        /\ \A g \in Files : g # f => published'[g] = published[g]
    BY <1>1, <1>5, <2>2
  <2> QED
    BY <2>3, <2>4, <2>5
<1>8. Types'
  BY <1>1, <1>7 DEF Inv, Types
<1>9. job = None
  BY DEF Inv, Loop, Busy
<1>10. Loop'
  BY <1>1, <1>9 DEF Inv, Loop, Busy, Once
<1>11. ASSUME NEW g \in Files, g = f PROVE Shown(g)'
  <2>1. published'[g] = Empty /\ ~Said(Empty) /\ Empty # Failed
    BY <1>7, <1>11, NotNone
  <2>2. disk'[g] = None
    BY <1>5, <1>11 DEF OnDisk
  <2>3. Accurate(g, published[g])' /\ Built(docs[g].project, published[g])'
    BY <2>1 DEF Accurate, Built, Said
  <2> QED
    BY <2>1, <2>2, <2>3 DEF Shown, Fresh, OnDisk, Said
<1>12. ASSUME NEW g \in Files, g # f PROVE Shown(g)'
  <2>1. Shown(g) /\ docs'[g] = docs[g] /\ published'[g] = published[g]
    BY <1>7, <1>12 DEF Inv, AllShown
  <2>2. g \in Waiting => g \in Waiting'
    BY <1>1, <1>12
  <2> QED
    BY <1>7, <2>1, <2>2 DEF Shown, Fresh, Accurate, Built, Said, OnDisk
<1>13. AllShown'
  BY <1>11, <1>12 DEF AllShown
<1>14. Fits'
  <2>1. \A g \in Open' : docs'[g].checked # None => docs'[g] = docs[g] /\ g \in Open
    BY <1>3, <1>7 DEF Open
  <2> QED
    BY <2>1 DEF Inv, Fits
<1> QED
  BY <1>8, <1>9, <1>10, <1>13, <1>14, NoJobHolds, ProjectsStay DEF Inv

\* A file whose text is read, and its project found.
LEMMA BegunKeeps ==
  ASSUME Inv, at = "check", todo # <<>>, Head(todo) \in Open, OnDisk(Head(todo)),
         NEW key, key = IF KnownProject(Head(todo)) # None THEN KnownProject(Head(todo))
                        ELSE FoundKey,
         docs' = IF KnownProject(Head(todo)) = None
                 THEN [docs EXCEPT ![Head(todo)].project = ProjectKey] ELSE docs,
         job' = [file |-> Head(todo), key |-> key, text |-> disk[Head(todo)], writes |-> 0,
                 seen |-> Stamp(key), said |-> None],
         at' = IF projects[key] = None THEN "load" ELSE "run",
         UNCHANGED <<disk, manifest, untold, manUntold, projects, shuttingDown, stale, request,
                     todo, published, answer>>
  PROVE  Inv'
<1> DEFINE f == Head(todo)
<1>1. f \in Files /\ f \in Elements(todo)
  BY FirstTaken DEF Inv, Types
<1>2. f \in Open /\ OnDisk(f) /\ docs[f] \in Docs /\ docs[f] # None
  BY <1>1 DEF Inv, Types, Open
<1>3. docs[f].project \in {Root, None} /\ KnownProject(f) = docs[f].project
  BY <1>2 DEF KnownProject, Docs
<1>5. job' = [file |-> f, key |-> key, text |-> disk[f], writes |-> 0,
              seen |-> Stamp(key), said |-> None]
  OBVIOUS
<1>6. key = IF docs[f].project # None THEN docs[f].project ELSE FoundKey
  BY <1>3
<1>7. docs' = IF docs[f].project = None THEN [docs EXCEPT ![f].project = ProjectKey] ELSE docs
  BY <1>3
<1> HIDE DEF f
<1>8. key \in {Root, Dir}
  BY <1>3, <1>6 DEF FoundKey
<1>9. /\ docs' \in [Files -> Docs \union {None}] /\ Open' = Open
      /\ \A g \in Files : g # f => docs'[g] = docs[g]
      /\ docs'[f].deps = docs[f].deps /\ docs'[f].checked = docs[f].checked
      /\ docs'[f].project = IF docs[f].project = None THEN ProjectKey ELSE docs[f].project
  <2> DEFINE now == [docs[f] EXCEPT !.project = ProjectKey]
  <2>1. /\ now \in Docs /\ now.deps = docs[f].deps /\ now.checked = docs[f].checked
        /\ now.project = ProjectKey
    BY <1>2 DEF Docs, ProjectKey
  <2>2. docs[f].project = None => docs' = [docs EXCEPT ![f] = now]
    BY <1>1, <1>7 DEF Inv, Types
  <2> HIDE DEF now
  <2>3. now # None
    BY <2>1, NotNone
  <2> QED
    BY <1>1, <1>2, <1>7, <2>1, <2>2, <2>3 DEF Inv, Types, Open
<1>10. docs'[f].project = (IF key = Root THEN Root ELSE None)
  BY <1>3, <1>6, <1>9 DEF FoundKey, ProjectKey, Root, Dir
<1>11. job' \in Jobs
  <2>1. disk[f] \in Texts /\ Stamp(key) \in Manifests \union {None}
    BY <1>1, <1>2 DEF Inv, Types, OnDisk, Stamp
  <2> QED
    BY <1>1, <1>5, <1>8, <2>1 DEF Jobs
<1>12. job' # None
  BY <1>11, NotNone
<1>13. Types'
  BY <1>9, <1>11 DEF Inv, Types, Busy
<1>14. Loop'
  BY <1>2, <1>5, <1>9, <1>12 DEF Inv, Loop, Busy, f, Open
<1>15. JobHolds'
  <2>1. /\ job'.file = f /\ job'.key = key /\ job'.text = disk[f] /\ job'.writes = 0
        /\ job'.said = None
    BY <1>5
  <2>2. ~Said(None) /\ None # Failed
    BY NotNone
  <2>3. Accurate(job.file, job.said)' /\ Built(job.key, job.said)' /\ ~Said(job.said)'
    BY <2>1, <2>2 DEF Accurate, Built, Said
  <2>4. OnDisk(job.file)' /\ disk'[job'.file] = job'.text
    BY <1>2, <2>1 DEF OnDisk
  <2>5. /\ at' = "load" => projects'[job'.key] = None
        /\ at' = "run" => projects'[job'.key] # None
        /\ at' = "record" <=> job'.said # None
    BY <2>1
  <2>6. docs'[job'.file].project = (IF job'.key = Root THEN Root ELSE None)
    BY <1>10, <2>1
  <2> QED
    BY <2>1, <2>3, <2>4, <2>5, <2>6 DEF JobHolds
<1>16. AllShown'
  <2>1. Waiting' = Waiting /\ f \in Waiting
    <3>1. stale = NoStale
      BY OnlyListed
    <3> QED
      BY <1>1, <1>9, <3>1 DEF Waiting, NoStale
  <2>2. ASSUME NEW g \in Files PROVE Shown(g)'
    <3>1. Shown(g)
      BY DEF Inv, AllShown
    <3>2. CASE g = f
      BY <1>9, <2>1, <3>1, <3>2 DEF Shown, Said
    <3>3. CASE g # f
      BY <1>9, <2>1, <3>1, <3>3 DEF Shown, Fresh, Accurate, Built, Said, OnDisk
    <3> QED
      BY <3>2, <3>3
  <2> QED
    BY <2>2 DEF AllShown
<1>17. Fits'
  <2>1. \A g \in Open' : g \in Open /\ docs'[g].checked = docs[g].checked
    BY <1>9 DEF Open
  <2> QED
    BY <2>1 DEF Inv, Fits
<1> QED
  BY <1>13, <1>14, <1>15, <1>16, <1>17, ProjectsStay DEF Inv

LEMMA CheckOneKeeps == ASSUME Inv, CheckOne PROVE Inv'
<1> DEFINE f == Head(todo)
           key == IF KnownProject(f) # None THEN KnownProject(f) ELSE FoundKey
<1>1. at = "check" /\ todo # <<>>
  BY DEF CheckOne
<1>2. \/ f \notin Open /\ todo' = Tail(todo) /\ UNCHANGED <<docs, published, job, at>>
      \/ /\ f \in Open /\ ~OnDisk(f)
         /\ docs' = [docs EXCEPT ![f].deps = {}, ![f].checked = None]
         /\ published' = [published EXCEPT ![f] = Empty]
         /\ todo' = Tail(todo) /\ UNCHANGED <<job, at>>
      \/ /\ f \in Open /\ OnDisk(f)
         /\ docs' = IF KnownProject(f) = None
                    THEN [docs EXCEPT ![f].project = ProjectKey] ELSE docs
         /\ job' = [file |-> f, key |-> key, text |-> disk[f], writes |-> 0,
                    seen |-> Stamp(key), said |-> None]
         /\ at' = IF projects[key] = None THEN "load" ELSE "run"
         /\ UNCHANGED <<todo, published>>
  BY DEF CheckOne
<1>3. UNCHANGED <<disk, manifest, untold, manUntold, projects, shuttingDown, stale, request,
                  answer>>
  BY DEF CheckOne
<1> QED
  BY <1>1, <1>2, <1>3, PassedOverKeeps, NotThereKeeps, BegunKeeps

\* A project is loaded that was not: no file shows what it said.
LEMMA LoadedKeepsShown ==
  ASSUME Inv, NEW k \in {Root, Dir}, NEW p \in Loaded, projects[k] = None, p.man = manifest,
         projects' = [projects EXCEPT ![k] = p],
         UNCHANGED <<docs, published, disk, untold, manUntold, manifest, shuttingDown>>,
         Waiting \subseteq Waiting'
  PROVE  AllShown' /\ ProjectsHold'
<1>1. /\ projects'[k] = p
      /\ \A l \in {Root, Dir} : l # k => projects'[l] = projects[l]
  BY DEF Inv, Types
<1>2. ProjectsHold'
  BY <1>1 DEF Inv, ProjectsHold
<1>3. Open' = Open
  BY DEF Open
<1>4. ASSUME NEW g \in Open, Fresh(g) PROVE Fresh(g)'
  <2>1. docs[g].project \in {Root, None}
    BY <1>4 DEF Inv, Types, Open, Docs
  <2>2. Built(docs[g].project, published[g])'
    BY <1>1, <1>4, <2>1 DEF Fresh, Built, Said
  <2>3. Accurate(g, published[g])'
    BY <1>3, <1>4 DEF Fresh, Accurate, Said
  <2> QED
    BY <1>4, <2>2, <2>3 DEF Fresh, OnDisk
<1>5. ASSUME NEW g \in Files PROVE Shown(g)'
  <2>1. Shown(g)
    BY DEF Inv, AllShown
  <2> QED
    BY <1>3, <1>4, <2>1 DEF Shown, Said
<1> QED
  BY <1>2, <1>5 DEF AllShown

\* The project is loaded, or cannot be.
LEMMA LoadKeeps == ASSUME Inv, Load PROVE Inv'
<1>1. /\ at = "load"
      /\ UNCHANGED <<disk, manifest, untold, manUntold, docs, shuttingDown, stale, request, todo,
                     published, answer>>
  BY DEF Load
<1>2. job # None /\ job \in Jobs /\ ~shuttingDown
  BY <1>1 DEF Inv, Loop, Types, Busy
<1>3. /\ job.key \in {Root, Dir} /\ projects[job.key] = None /\ job.said = None
      /\ job.file \in Files
  BY <1>1, <1>2 DEF Inv, JobHolds, Jobs
<1>4. CASE manifest \in Bad
  <2>1. /\ job' = [job EXCEPT !.said = Failed] /\ at' = "record" /\ projects' = projects
    BY <1>4 DEF Load, Bad
  <2>2. /\ job' \in Jobs /\ job'.file = job.file /\ job'.key = job.key /\ job'.text = job.text
        /\ job'.writes = job.writes /\ job'.said = Failed
    BY <1>2, <2>1 DEF Jobs
  <2>3. job' # None
    BY <2>2, NotNone
  <2>4. Types'
    BY <1>1, <2>1, <2>2 DEF Inv, Types, Busy
  <2>5. Loop'
    BY <1>1, <1>2, <2>1, <2>2, <2>3 DEF Inv, Loop, Busy, Open, Once
  <2>6. JobHolds'
    <3>1. /\ job.writes = 0 => disk[job.file] = job.text
          /\ job.writes = 1 => disk[job.file] # job.text
          /\ docs[job.file].project = (IF job.key = Root THEN Root ELSE None)
          /\ OnDisk(job.file) \/ job.file \in untold
      BY <1>2 DEF Inv, JobHolds
    <3>2. ~Said(Failed) /\ None # Failed
      BY NotNone
    <3>3. Accurate(job.file, job.said)' /\ Built(job.key, job.said)' /\ ~Said(job.said)'
      BY <1>1, <1>4, <2>2, <3>2 DEF Accurate, Built, Said
    <3> QED
      BY <1>1, <2>1, <2>2, <3>1, <3>2, <3>3 DEF JobHolds, OnDisk
  <2>7. ProjectsHold' /\ Fits'
    BY <1>1, <2>1, ProjectsStay, FitsStays DEF Inv
  <2>8. AllShown'
    <3>1. Waiting' = Waiting
      BY <1>1 DEF Waiting, Open
    <3> QED
      BY <1>1, <2>1, <3>1, ShownStays DEF Inv
  <2> QED
    BY <2>4, <2>5, <2>6, <2>7, <2>8 DEF Inv
<1>5. CASE manifest \notin Bad
  <2> DEFINE p == [seen |-> job.seen, man |-> manifest]
  <2>1. projects' = [projects EXCEPT ![job.key] = p] /\ at' = "run" /\ job' = job
    BY <1>5 DEF Load, Bad
  <2>2. p \in Loaded /\ p.man = manifest
    BY <1>2 DEF Inv, Types, Loaded, Jobs
  <2> HIDE DEF p
  <2>3. p # None
    BY <2>2, NotNone
  <2>4. /\ projects' \in [{Root, Dir} -> Loaded \union {None}]
        /\ projects'[job.key] = p
        /\ \A k \in {Root, Dir} : k # job.key => projects'[k] = projects[k]
    BY <1>3, <2>1, <2>2 DEF Inv, Types
  <2>5. Types'
    BY <1>1, <2>1, <2>4 DEF Inv, Types, Busy
  <2>6. Loop'
    BY <1>1, <1>2, <2>1 DEF Inv, Loop, Busy, Open, Once
  <2>7. JobHolds'
    <3>1. ~Said(None) /\ None # Failed
      BY NotNone
    <3>2. Accurate(job.file, job.said)' /\ Built(job.key, job.said)' /\ ~Said(job.said)'
      BY <1>3, <2>1, <3>1 DEF Accurate, Built, Said
    <3>3. /\ job.writes = 0 => disk[job.file] = job.text
          /\ job.writes = 1 => disk[job.file] # job.text
          /\ docs[job.file].project = (IF job.key = Root THEN Root ELSE None)
          /\ OnDisk(job.file) \/ job.file \in untold
      BY <1>2 DEF Inv, JobHolds
    <3> QED
      BY <1>1, <1>3, <2>1, <2>3, <2>4, <3>2, <3>3 DEF JobHolds, OnDisk
  <2>8. AllShown' /\ ProjectsHold'
    <3>1. Waiting' = Waiting
      BY <1>1 DEF Waiting, Open
    <3> QED
      BY <1>1, <1>3, <2>1, <2>2, <3>1, LoadedKeepsShown
  <2> QED
    BY <1>1, <2>5, <2>6, <2>7, <2>8, FitsStays DEF Inv
<1> QED
  BY <1>4, <1>5

\* The checker reads the files, or does not find the one it is asked for.
LEMMA RunCheckKeeps == ASSUME Inv, RunCheck PROVE Inv'
<1> DEFINE said == IF OnDisk(job.file) THEN Report(job.file, job.key) ELSE Failed
<1>1. /\ at = "run" /\ at' = "record" /\ job' = [job EXCEPT !.said = said]
      /\ UNCHANGED <<disk, manifest, untold, manUntold, docs, projects, shuttingDown, stale,
                     request, todo, published, answer>>
  BY DEF RunCheck
<1>2. job # None /\ job \in Jobs /\ ~shuttingDown
  BY <1>1 DEF Inv, Loop, Types, Busy
<1>3. job.key \in {Root, Dir} /\ projects[job.key] # None /\ job.file \in Files
  BY <1>1, <1>2 DEF Inv, JobHolds, Jobs
<1>4. /\ job.writes = 0 => disk[job.file] = job.text
      /\ job.writes = 1 => disk[job.file] # job.text
      /\ docs[job.file].project = (IF job.key = Root THEN Root ELSE None)
      /\ OnDisk(job.file) \/ job.file \in untold
  BY <1>2 DEF Inv, JobHolds
<1>5. /\ OnDisk(job.file) =>
           /\ said \in Reports /\ job.file \in DOMAIN said.read
           /\ \A g \in DOMAIN said.read : said.read[g] = disk[g]
           /\ said.open = DOMAIN said.read \intersect Open
           /\ said.man = projects[job.key].man
      /\ ~OnDisk(job.file) => said = Failed
  BY <1>3, ReportIs DEF Inv
<1> HIDE DEF said
<1>6. said \in Reports \union {Failed} /\ said # None
  BY <1>5, NotNone
<1>7. /\ job' \in Jobs /\ job'.file = job.file /\ job'.key = job.key /\ job'.text = job.text
      /\ job'.writes = job.writes /\ job'.said = said
  BY <1>1, <1>2, <1>6 DEF Jobs
<1>8. job' # None
  BY <1>7, NotNone
<1>9. Types'
  BY <1>1, <1>7 DEF Inv, Types, Busy
<1>10. Loop'
  BY <1>1, <1>2, <1>7, <1>8 DEF Inv, Loop, Busy, Open, Once
<1>11. JobHolds'
  <2>1. manUntold \/ projects[job.key].man = manifest
    BY <1>3 DEF Inv, ProjectsHold
  <2>2. Said(said) => OnDisk(job.file)
    BY <1>5, NotNone
  <2>3. said = Failed => ~OnDisk(job.file)
    BY <1>5, NotNone
  <2>4. Accurate(job.file, job.said)'
    BY <1>1, <1>4, <1>5, <1>7, <2>1, <2>2, <2>3 DEF Accurate, Said, Open
  <2>5. Built(job.key, job.said)'
    BY <1>1, <1>3, <1>5, <1>7, <2>2 DEF Built, Said
  <2>6. Said(said) => /\ job.file \in DOMAIN said.read
                      /\ job.writes = 0 => said.read[job.file] = job.text
    BY <1>4, <1>5, <2>2
  <2> QED
    BY <1>1, <1>4, <1>6, <1>7, <2>4, <2>5, <2>6 DEF JobHolds, OnDisk, Said
<1>12. AllShown'
  <2>1. Waiting' = Waiting
    BY <1>1 DEF Waiting, Open
  <2> QED
    BY <1>1, <2>1, ShownStays DEF Inv
<1> QED
  BY <1>1, <1>9, <1>10, <1>11, <1>12, ProjectsStay, FitsStays DEF Inv

\* What the check said is recorded and shown.
LEMMA RecordKeeps == ASSUME Inv, Record PROVE Inv'
<1> DEFINE f == job.file
           said == job.said
           deps == IF said = Failed THEN {} ELSE DOMAIN said.read \ {f}
           fixes == IF said = Failed \/ ~SameText THEN None ELSE said.read[f]
           checked == [text |-> job.text, fixes |-> fixes, writes |-> job.writes]
           now == [docs[f] EXCEPT !.deps = deps, !.checked = checked]
<1>1. /\ at = "record" /\ at' = "check" /\ job' = None /\ todo' = Tail(todo)
      /\ docs' = [docs EXCEPT ![f].deps = deps, ![f].checked = checked]
      /\ published' = [published EXCEPT ![f] = said]
      /\ UNCHANGED <<disk, manifest, untold, manUntold, projects, shuttingDown, stale, request,
                     answer>>
  BY DEF Record
<1>2. /\ job \in Jobs /\ job # None /\ ~shuttingDown
      /\ f \in Files /\ f \in Open /\ todo # <<>> /\ Head(todo) = f
  BY <1>1 DEF Inv, Types, Loop, Busy, Open
<1>3. /\ said \in Reports \union {Failed} /\ said # None
      /\ job.text \in Texts /\ job.writes \in Nat
      /\ Accurate(f, said) /\ Built(job.key, said)
      /\ docs[f].project = (IF job.key = Root THEN Root ELSE None)
  BY <1>1, <1>2 DEF Inv, JobHolds, Jobs
<1>4. /\ job.writes = 1 => disk[f] # job.text
      /\ said # Failed => /\ f \in DOMAIN said.read
                          /\ job.writes = 0 => said.read[f] = job.text
  BY <1>2, <1>3, NotNone DEF Inv, JobHolds
<1>5. deps \in SUBSET Files /\ (said # Failed => DOMAIN said.read \subseteq deps \union {f})
  BY <1>3, ReportTyped
<1>6. fixes \in Texts \union {None}
  BY <1>3, <1>4, ReportTyped
<1>7. fixes # None /\ job.writes <= 1 => fixes = job.text
  BY <1>3, <1>4 DEF SameText
<1>8. docs[f] \in Docs /\ docs \in [Files -> Docs \union {None}]
  BY <1>2 DEF Inv, Types, Open
<1>9. docs' = [docs EXCEPT ![f] = now]
  BY <1>1, <1>8
<1> HIDE DEF deps, fixes
<1>10. /\ checked \in [text : Texts, fixes : Texts \union {None}, writes : Nat]
       /\ checked.fixes # None /\ checked.writes <= 1 => checked.fixes = checked.text
  BY <1>3, <1>6, <1>7
<1> HIDE DEF checked
<1>11. now \in Docs /\ now.deps = deps /\ now.checked = checked /\ now.project = docs[f].project
  BY <1>5, <1>8, <1>10 DEF Docs
<1> HIDE DEF now
<1>12. now # None
  BY <1>11, NotNone
<1>13. /\ docs' \in [Files -> Docs \union {None}] /\ docs'[f] = now
       /\ \A g \in Files : g # f => docs'[g] = docs[g]
  BY <1>2, <1>8, <1>9, <1>11
<1>14. Open' = Open
  BY <1>2, <1>12, <1>13 DEF Open
<1>15. /\ published' \in [Files -> Reports \union {Empty, Failed}] /\ published'[f] = said
       /\ \A g \in Files : g # f => published'[g] = published[g]
  <2>1. published \in [Files -> Reports \union {Empty, Failed}]
    BY DEF Inv, Types
  <2> QED
    BY <1>1, <1>2, <1>3, <2>1
<1>16. /\ todo' \in Seq(Files) /\ Once(todo') /\ Waiting \ {f} \subseteq Waiting'
  BY <1>1, <1>2, ListShrinks DEF Busy
<1>17. Types'
  BY <1>1, <1>13, <1>15, <1>16 DEF Inv, Types
<1>18. Loop'
  BY <1>1, <1>16 DEF Inv, Loop, Busy, Once
<1>19. ASSUME NEW g \in Files, g = f PROVE Shown(g)'
  <2>1. /\ published'[g] = said /\ docs'[g].deps = deps
        /\ docs'[g].project = (IF job.key = Root THEN Root ELSE None)
    BY <1>3, <1>11, <1>13, <1>15, <1>19
  <2>2. Said(said) => DOMAIN said.read \subseteq docs'[g].deps \union {g}
    BY <1>3, <1>5, <1>19, <2>1, NotNone
  <2>3. said # Empty
    BY <1>3, NoRecordAssumption, NotNone
  <2>4. Accurate(g, published[g])'
    BY <1>1, <1>3, <1>14, <1>19, <2>1 DEF Accurate, Said
  <2>5. Built(docs[g].project, published[g])'
    BY <1>1, <1>3, <2>1 DEF Built, Said
  <2>6. g \in Open'
    BY <1>2, <1>14, <1>19
  <2> QED
    BY <2>1, <2>2, <2>3, <2>4, <2>5, <2>6 DEF Shown, Fresh, Said
<1>20. ASSUME NEW g \in Files, g # f PROVE Shown(g)'
  <2>1. Shown(g) /\ docs'[g] = docs[g] /\ published'[g] = published[g]
    BY <1>13, <1>15, <1>20 DEF Inv, AllShown
  <2>2. g \in Waiting => g \in Waiting'
    BY <1>16, <1>20
  <2> QED
    BY <1>1, <1>14, <2>1, <2>2 DEF Shown, Fresh, Accurate, Built, Said, OnDisk
<1>21. AllShown'
  BY <1>19, <1>20 DEF AllShown
<1>22. Fits'
  <2>1. \A g \in Open' : /\ g = f => docs'[g].checked = checked
                         /\ g # f => g \in Open /\ docs'[g].checked = docs[g].checked
    BY <1>11, <1>13, <1>14 DEF Open
  <2> QED
    BY <1>1, <1>10, <2>1 DEF Inv, Fits
<1> QED
  BY <1>1, <1>17, <1>18, <1>21, <1>22, NoJobHolds, ProjectsStay DEF Inv

-----------------------------------------------------------------------------
(* The round is over.                                                      *)

\* Nothing is left to check: what is shown is current.
LEMMA NothingWaits ==
  ASSUME Inv, at \in {"recv", "check"}, todo = <<>>, ~shuttingDown
  PROVE  /\ Waiting = {}
         /\ \A f \in Open : Fresh(f)
         /\ \A f \in Files : Current(f)
<1>1. Waiting = {}
  BY NothingListed DEF Inv, Loop, Waiting, NoStale
<1>2. \A f \in Open : Fresh(f)
  BY <1>1 DEF Inv, AllShown, Shown, Open
<1>3. ASSUME NEW f \in Files PROVE Current(f)
  <2>1. f \notin Open => published[f] = Empty
    BY DEF Inv, AllShown, Shown
  <2>2. published[f] \notin {Empty, Failed} => Said(published[f])
    BY NotNone DEF Inv, Types
  <2> QED
    BY <1>2, <2>1, <2>2 DEF Current, Fresh, Accurate, Bad
<1> QED
  BY <1>1, <1>2, <1>3

LEMMA BatchDoneKeeps == ASSUME Inv, BatchDone PROVE Inv'
<1>1. /\ at = "check" /\ at' = "recv" /\ todo = <<>>
      /\ UNCHANGED <<disk, manifest, untold, manUntold, docs, projects, shuttingDown, stale,
                     request, todo, job, published, answer>>
  BY DEF BatchDone
<1>2. job = None
  BY <1>1 DEF Inv, Loop, Busy
<1>3. Types'
  BY <1>1 DEF Inv, Types
<1>4. Loop'
  BY <1>1, <1>2 DEF Inv, Loop, Busy, Once
<1>5. Waiting' = Waiting
  BY <1>1 DEF Waiting, Open
<1> QED
  BY <1>1, <1>2, <1>3, <1>4, <1>5, NoJobHolds, ProjectsStay, ShownStays, FitsStays DEF Inv

LEMMA ShutDownKeeps == ASSUME Inv, ShutDown PROVE Inv'
<1>1. /\ at = "check" /\ at' = "apply" /\ todo = <<>> /\ shuttingDown' = TRUE /\ request' = None
      /\ UNCHANGED <<disk, manifest, untold, manUntold, docs, projects, stale, todo, job, published,
                     answer>>
  BY DEF ShutDown, Checked, Answered
<1>2. job = None
  BY <1>1 DEF Inv, Loop, Busy
<1>3. Types'
  BY <1>1 DEF Inv, Types
<1>4. Loop'
  BY <1>1, <1>2 DEF Inv, Loop, Busy, Once
<1>5. AllShown'
  BY <1>1 DEF Inv, AllShown, Shown, Said, Open
<1> QED
  BY <1>1, <1>2, <1>3, <1>4, <1>5, NoJobHolds, ProjectsStay, FitsStays DEF Inv

\* A request is answered: the rest goes on with the batch.
LEMMA AnsweredKeeps ==
  ASSUME Inv, at = "check", todo = <<>>, Answered,
         UNCHANGED <<disk, manifest, untold, manUntold, docs, shuttingDown, stale, todo, job,
                     published>>
  PROVE  Loop' /\ JobHolds' /\ Waiting' = Waiting /\ (projects' = projects => Types')
<1>1. job = None /\ at' = "apply" /\ request' = None
  BY DEF Inv, Loop, Busy, Answered
<1>2. Loop'
  BY <1>1 DEF Inv, Loop, Busy, Once
<1>3. Waiting' = Waiting
  BY DEF Waiting, Open
<1>4. projects' = projects => Types'
  BY <1>1 DEF Inv, Types
<1> QED
  BY <1>1, <1>2, <1>3, <1>4, NoJobHolds

\* Edits are offered as they were kept, for the text they were kept for.
LEMMA CodeActionKeeps == ASSUME Inv, CodeAction PROVE Inv'
<1>1. /\ at = "check" /\ todo = <<>> /\ Answered
      /\ request # None /\ request.kind = "codeAction" /\ answer' = Offered(request.file)
      /\ UNCHANGED <<disk, manifest, untold, manUntold, docs, projects, shuttingDown, stale, todo,
                     job, published>>
  BY DEF CodeAction, Checked
<1>2. Loop' /\ JobHolds' /\ Waiting' = Waiting /\ Types'
  BY <1>1, AnsweredKeeps
<1> DEFINE f == request.file
<1>3. f \in Files
  BY <1>1 DEF Inv, Types, Requests
<1> HIDE DEF f
<1>4. Offered(f) # None =>
        /\ f \in Open /\ docs[f].checked # None /\ docs[f].checked.fixes # None
        /\ Offered(f).of = docs[f].checked.fixes /\ Offered(f).for = docs[f].checked.text
        /\ Offered(f).writes = docs[f].checked.writes
  BY <1>3 DEF Offered, Open
<1>5. Fits'
  <2>1. answer' = Offered(f)
    BY <1>1 DEF f
  <2> QED
    BY <1>1, <1>4, <2>1 DEF Inv, Fits, Open
<1> QED
  BY <1>1, <1>2, <1>5, ProjectsStay, ShownStays DEF Inv

LEMMA FormattingKeeps == ASSUME Inv, Formatting PROVE Inv'
<1>1. /\ at = "check" /\ todo = <<>> /\ request # None /\ request.kind = "formatting"
      /\ UNCHANGED <<disk, manifest, untold, manUntold, docs, shuttingDown, stale, job, published,
                     answer>>
  BY DEF Formatting, Checked
<1>2. CASE Answered /\ UNCHANGED <<projects, todo>>
  <2>1. Loop' /\ JobHolds' /\ Waiting' = Waiting /\ Types'
    BY <1>1, <1>2, AnsweredKeeps
  <2> QED
    BY <1>1, <1>2, <2>1, ProjectsStay, ShownStays, FitsStays DEF Inv
<1>3. CASE /\ todo' = InOrder(FilesOf(Moved({FoundKey}))) /\ projects' = Dropped({FoundKey})
           /\ request' = [request EXCEPT !.kind = "format", !.key = FoundKey]
           /\ UNCHANGED at
  <2>1. {FoundKey} \in SUBSET {Root, Dir} /\ FoundKey \in {Root, Dir}
    BY DEF FoundKey
  <2> DEFINE S == FilesOf(Moved({FoundKey}))
  <2>2. S \in SUBSET Files
    BY DEF FilesOf, Open
  <2>3. todo' \in Seq(Files) /\ Elements(todo') = S /\ Once(todo')
    BY <1>3, <2>2, InOrderIs
  <2>4. request' \in Requests
    <3>1. request \in [kind : {"codeAction", "formatting"}, file : Files, key : {None}]
      BY <1>1 DEF Inv, Types, Requests
    <3> QED
      BY <1>3, <2>1, <3>1 DEF Requests
  <2>5. projects' \in [{Root, Dir} -> Loaded \union {None}]
    BY <1>3, <2>1, DroppedIs DEF Inv
  <2>6. Types'
    BY <1>1, <1>3, <2>3, <2>4, <2>5 DEF Inv, Types
  <2>7. job = None
    BY <1>1 DEF Inv, Loop, Busy
  <2>8. Loop'
    BY <1>1, <1>3, <2>3, <2>7 DEF Inv, Loop, Busy
  <2>9. Waiting \union S \subseteq Waiting'
    <3>1. Waiting = {}
      BY <1>1, NothingWaits DEF Inv, Loop
    <3> QED
      BY <2>3, <3>1 DEF Waiting
  <2>10. AllShown' /\ ProjectsHold'
    BY <1>1, <1>3, <2>1, <2>9, DroppedKeepsShown
  <2> QED
    BY <1>1, <2>6, <2>7, <2>8, <2>10, NoJobHolds, FitsStays DEF Inv
<1> QED
  BY <1>2, <1>3 DEF Formatting

LEMMA FormatKeeps == ASSUME Inv, Format PROVE Inv'
<1> DEFINE k == request.key
           p == [seen |-> Stamp(k), man |-> manifest]
<1>1. /\ at = "check" /\ todo = <<>> /\ request # None /\ request.kind = "format" /\ Answered
      /\ \/ projects' = projects
         \/ projects[k] = None /\ projects' = [projects EXCEPT ![k] = p]
      /\ UNCHANGED <<disk, manifest, untold, manUntold, docs, shuttingDown, stale, todo, job,
                     published, answer>>
  BY DEF Format, Checked
<1>2. Loop' /\ JobHolds' /\ Waiting' = Waiting /\ (projects' = projects => Types')
  BY <1>1, AnsweredKeeps
<1>3. k \in {Root, Dir}
  BY <1>1 DEF Inv, Types, Requests
<1>4. p \in Loaded /\ p.man = manifest
  BY DEF Inv, Types, Loaded, Stamp
<1> HIDE DEF k, p
<1>5. CASE projects' = projects
  BY <1>1, <1>2, <1>5, ProjectsStay, ShownStays, FitsStays DEF Inv
<1>6. CASE projects[k] = None /\ projects' = [projects EXCEPT ![k] = p]
  <2>1. AllShown' /\ ProjectsHold'
    BY <1>1, <1>2, <1>3, <1>4, <1>6, LoadedKeepsShown
  <2>2. projects' \in [{Root, Dir} -> Loaded \union {None}]
    BY <1>3, <1>4, <1>6 DEF Inv, Types
  <2>3. Types'
    BY <1>1, <2>2 DEF Inv, Types, Answered
  <2> QED
    BY <1>1, <1>2, <2>1, <2>3, FitsStays DEF Inv
<1> QED
  BY <1>1, <1>5, <1>6

-----------------------------------------------------------------------------
(* The invariant holds.                                                    *)

LEMMA InitHolds == ASSUME Init PROVE Inv
<1>1. Open = {} /\ job = None /\ todo = <<>> /\ stale = NoStale /\ at = "recv"
  BY DEF Init, Open
<1>2. /\ NoStale \in [files : Seq(Files), changed : SUBSET Files] /\ NoStale.files = <<>>
      /\ <<>> \in Seq(Files)
  BY DEF NoStale
<1>3. Types
  BY <1>1, <1>2, LspAssumption DEF Init, Types
<1>4. Loop
  BY <1>1, <1>2, NothingListed DEF Init, Loop, Busy
<1>5. JobHolds /\ ProjectsHold
  BY <1>1 DEF Init, JobHolds, ProjectsHold
<1>6. AllShown
  BY <1>1, NotNone DEF Init, AllShown, Shown, Said
<1>7. Fits
  BY <1>1 DEF Init, Fits
<1> QED
  BY <1>3, <1>4, <1>5, <1>6, <1>7 DEF Inv

LEMMA InvInductive == ASSUME Inv, [Next]_vars PROVE Inv'
<1>1. CASE UNCHANGED vars
  <2>1. Waiting' = Waiting
    BY <1>1 DEF vars, Waiting, Open
  <2>2. Types' /\ Loop' /\ JobHolds'
    BY <1>1, TypesStay, LoopStays, JobStays DEF Inv, vars
  <2> QED
    BY <1>1, <2>1, <2>2, ProjectsStay, ShownStays, FitsStays DEF Inv, vars
<1>2. ASSUME NEW f \in Files, NEW t \in MayHold[f], Write(f, t) PROVE Inv'
  BY <1>2, WriteKeeps
<1>3. ASSUME NEW f \in Files, NEW t \in MayHold[f] \ {None}, DidOpen(f, t) PROVE Inv'
  BY <1>3, DidOpenKeeps
<1>4. ASSUME NEW f \in Files, NEW t \in (MayHold[f] \ {None}) \union {Unsynced},
             DidChange(f, t)
      PROVE  Inv'
  BY <1>4, DidChangeKeeps
<1>5. ASSUME NEW f \in Files, DidSave(f) \/ DidClose(f) PROVE Inv'
  BY <1>5, DidSaveKeeps, DidCloseKeeps
<1>6. ASSUME NEW f \in Files, NEW kind \in {"codeAction", "formatting"}, Requested(kind, f)
      PROVE  Inv'
  BY <1>6, RequestedKeeps
<1>7. ASSUME NEW m \in Manifests, WriteManifest(m) PROVE Inv'
  BY <1>7, ManifestKeeps
<1>8. CASE Requested("shutdown", None)
  BY <1>8, RequestedKeeps
<1>9. CASE DidChangeWatchedFiles \/ DidExit \/ EndOfBatch
  BY <1>9, WatchedKeeps, ExitKeeps, EndOfBatchKeeps
<1>10. CASE CheckOne \/ Load \/ RunCheck \/ Record
  BY <1>10, CheckOneKeeps, LoadKeeps, RunCheckKeeps, RecordKeeps
<1>11. CASE BatchDone \/ ShutDown \/ CodeAction \/ Formatting \/ Format
  BY <1>11, BatchDoneKeeps, ShutDownKeeps, CodeActionKeeps, FormattingKeeps, FormatKeeps
<1> QED
  BY <1>1, <1>2, <1>3, <1>4, <1>5, <1>6, <1>7, <1>8, <1>9, <1>10, <1>11 DEF Next

\* The invariant the theorems below rest on.
THEOREM RunInvariant == Spec => []Inv
<1>1. Init => Inv
  BY InitHolds
<1>2. Inv /\ [Next]_vars => Inv'
  BY InvInductive
<1> QED
  BY <1>1, <1>2, PTL DEF Spec

\* Type correctness: a round of checks never has a file on its list twice, and the check
\* under way is that of an open file, the first one listed.
THEOREM TypesHold == Spec => []TypeOK
<1>1. Inv => TypeOK
  <2> SUFFICES ASSUME Inv PROVE TypeOK
    OBVIOUS
  <2>1. Elements(stale.files) \subseteq Files /\ stale.changed \subseteq Files
    <3>1. stale.files \in Seq(Files) /\ stale.changed \in SUBSET Files
      BY DEF Inv, Types
    <3> QED
      BY <3>1, ElementOfSeq DEF Elements
  <2>2. \A f \in Open : docs[f].deps \subseteq Files /\ docs[f].project \in {None, Root}
    BY DEF Inv, Types, Open, Docs
  <2>3. at \in {"load", "run", "record"} <=> job # None
    BY DEF Inv, Loop, Busy
  <2> QED
    BY <2>1, <2>2, <2>3 DEF Inv, Types, Loop, Once, TypeOK, Busy
<1> QED
  BY <1>1, RunInvariant, PTL

\* When the server waits for a message, what the client shows of every file is what a check
\* made now would report, but for what the server was not told of: a file saved, opened or
\* closed is noticed by every open file that requires it, however many requires away.
THEOREM WhatIsShownIsCurrent == Spec => []PublishedIsCurrent
<1>1. Inv => PublishedIsCurrent
  BY NothingWaits DEF Inv, Loop, PublishedIsCurrent
<1> QED
  BY <1>1, RunInvariant, PTL

\* When the server waits, the files of a project that were checked were checked with the same
\* manifests: a project is rebuilt for all of its open files or for none.
THEOREM AProjectIsRebuiltForAll == Spec => []RebuiltTogether
<1>1. Inv => RebuiltTogether
  <2> SUFFICES ASSUME Inv, at = "recv", ~shuttingDown, NEW f \in Open, NEW g \in Open,
                      docs[f].project = docs[g].project, docs[f].project # None,
                      published[f] \notin {Empty, Failed}, published[g] \notin {Empty, Failed}
               PROVE  published[f].man = published[g].man
    BY DEF RebuiltTogether
  <2>1. Fresh(f) /\ Fresh(g)
    BY NothingWaits DEF Inv, Loop
  <2>2. Said(published[f]) /\ Said(published[g])
    BY NotNone DEF Inv, Types, Open
  <2> QED
    BY <2>1, <2>2 DEF Fresh, Built
<1> QED
  BY <1>1, RunInvariant, PTL

\* The edits of a code action are for the text they were made from, unless the file was
\* written twice while it was checked.
THEOREM EditsFitTheBuffer == Spec => []ActionsFitTheBuffer
<1>1. Inv => ActionsFitTheBuffer
  BY DEF Inv, Fits, ActionsFitTheBuffer
<1> QED
  BY <1>1, RunInvariant, PTL

\* Requests are answered, and the shutdown taken, with nothing left to check.
LEMMA AnswersAreLast ==
  ASSUME Inv, [Next]_vars, shuttingDown' # shuttingDown \/ (at = "check" /\ at' = "apply")
  PROVE  at = "check" /\ todo = <<>>
<1>1. ASSUME NEW kind \in {"codeAction", "formatting", "shutdown"}, NEW f, Requested(kind, f)
      PROVE  FALSE
  <2>1. ChecksFirst(kind)
    BY DEF ChecksFirst
  <2> QED
    BY <1>1, <2>1 DEF Requested, Take
<1>2. CASE UNCHANGED vars
  BY <1>2 DEF vars
<1>3. ASSUME NEW f \in Files, NEW t, Write(f, t) \/ DidOpen(f, t) \/ DidChange(f, t)
      PROVE  FALSE
  BY <1>3 DEF Write, DidOpen, DidChange, Take
<1>4. ASSUME NEW f \in Files, DidSave(f) \/ DidClose(f) PROVE FALSE
  BY <1>4 DEF DidSave, DidClose, Take
<1>5. ASSUME NEW m, WriteManifest(m) PROVE FALSE
  BY <1>5 DEF WriteManifest
<1>6. CASE DidChangeWatchedFiles \/ DidExit \/ EndOfBatch
  BY <1>6 DEF DidChangeWatchedFiles, DidExit, EndOfBatch, Take
<1>7. CASE CheckOne \/ Load \/ RunCheck \/ Record
  BY <1>7 DEF CheckOne, Load, RunCheck, Record
<1>8. CASE BatchDone \/ ShutDown \/ CodeAction \/ Formatting \/ Format
  BY <1>8 DEF BatchDone, ShutDown, CodeAction, Formatting, Format, Checked
<1> QED
  BY <1>1, <1>2, <1>3, <1>4, <1>5, <1>6, <1>7, <1>8 DEF Next

\* When a request is answered, or a shutdown, what the client shows of every file is current:
\* what the messages before it made stale was checked first.
THEOREM AnswersAreCurrent == Spec => AnswersFollowChecks
<1>1. Inv /\ [Next]_vars =>
        [shuttingDown' # shuttingDown \/ (at = "check" /\ at' = "apply") =>
           \A f \in Files : Current(f)]_vars
  <2> SUFFICES ASSUME Inv, [Next]_vars,
                      shuttingDown' # shuttingDown \/ (at = "check" /\ at' = "apply")
               PROVE  \A f \in Files : Current(f)
    OBVIOUS
  <2>1. at = "check" /\ todo = <<>>
    BY AnswersAreLast
  <2> QED
    BY <2>1, NothingWaits DEF Inv, Loop
<1> QED
  BY <1>1, RunInvariant, PTL DEF Spec, AnswersFollowChecks
=============================================================================
