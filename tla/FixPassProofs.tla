---------------------------- MODULE FixPassProofs ----------------------------
(***************************************************************************)
(* Proofs about FixPass, for any files and findings, any fixes, however    *)
(* they overlap and undo each other, any flags and any check that fails:   *)
(* the tree is what the run says it is, and no file is left with more      *)
(* errors than a true first check of it found.                             *)
(***************************************************************************)
EXTENDS FixPass, FiniteSetTheorems, SequenceTheorems, TLAPS

Texts == SUBSET Findings

-----------------------------------------------------------------------------
(* Induction over the naturals, and what the accumulations come to.        *)

Below == {x \in Nat \X Nat : x[1] < x[2]}

LEMMA BelowIsWellFounded == IsWellFoundedOn(Below, Nat)
BY NatLessThanWellFounded DEF Below, OpToRel

\* A set of naturals that is not empty has a least member.
LEMMA HasLeast ==
    ASSUME NEW T \in SUBSET Nat, T # {}
    PROVE  \E n \in T : \A m \in T : n <= m
<1>1. PICK n \in T : \A m \in T : ~(<<m, n>> \in Below)
  BY BelowIsWellFounded, WFMin
<1>2. ASSUME NEW m \in T PROVE n <= m
  <2>1. m \in Nat /\ n \in Nat
    OBVIOUS
  <2>2. <<m, n>> \in Below <=> m < n
    BY <2>1 DEF Below
  <2> QED
    BY <1>1, <2>1, <2>2
<1> QED
  BY <1>2

\* Induction, over a set of numbers rather than an operator.
LEMMA Inductive ==
    ASSUME NEW T, 0 \in T, \A n \in Nat : n \in T => n + 1 \in T
    PROVE  Nat \subseteq T
<1> SUFFICES ASSUME ~(Nat \subseteq T) PROVE FALSE
  OBVIOUS
<1>1. PICK n \in Nat \ T : \A m \in Nat \ T : n <= m
  BY HasLeast
<1>2. n # 0 /\ n - 1 \in Nat /\ ~(n <= n - 1)
  BY <1>1
<1> QED
  BY <1>1, <1>2

\* What one pass of program p makes of a text.
Pass(p, text, fixes) ==
    (text \ (fixes \cup UNION {p.clears[e] : e \in fixes})) \cup UNION {p.leaves[e] : e \in fixes}

\* What the first n of the passes make of it, one after the other.
Made(text, p, original, passes, n) ==
    /\ text = [i \in 0 .. n |-> text[i]]
    /\ text[0] = original
    /\ \A i \in 1 .. n : text[i] = Pass(p, text[i - 1], passes[i])
Replay(p, original, passes) ==
    (CHOOSE text : Made(text, p, original, passes, Len(passes)))[Len(passes)]

LEMMA MadeExists ==
    ASSUME NEW p, NEW original, NEW passes, NEW n \in Nat
    PROVE  \E text : Made(text, p, original, passes, n)
<1> DEFINE Some == {k \in Nat : \E text : Made(text, p, original, passes, k)}
<1>1. 0 \in Some
  <2> DEFINE text == [i \in 0 .. 0 |-> original]
  <2>1. Made(text, p, original, passes, 0)
    BY DEF Made
  <2> QED
    BY <2>1
<1>2. ASSUME NEW k \in Nat, k \in Some PROVE k + 1 \in Some
  <2>1. PICK text : Made(text, p, original, passes, k)
    BY <1>2
  <2> DEFINE longer == [i \in 0 .. k + 1 |->
                          IF i <= k THEN text[i] ELSE Pass(p, text[k], passes[k + 1])]
  <2>2. /\ longer = [i \in 0 .. k + 1 |-> longer[i]]
        /\ \A i \in 0 .. k : longer[i] = text[i]
        /\ longer[k + 1] = Pass(p, text[k], passes[k + 1])
    OBVIOUS
  <2> HIDE DEF longer
  <2>3. longer[0] = original
    <3>1. 0 \in 0 .. k
      OBVIOUS
    <3> QED
      BY <2>1, <2>2, <3>1 DEF Made
  <2>4. ASSUME NEW i \in 1 .. k + 1
        PROVE  longer[i] = Pass(p, longer[i - 1], passes[i])
    <3>1. i - 1 \in 0 .. k
      OBVIOUS
    <3>2. longer[i - 1] = text[i - 1]
      BY <2>2, <3>1
    <3>3. CASE i \in 1 .. k
      <4>1. i \in 0 .. k
        BY <3>3
      <4>2. longer[i] = text[i]
        BY <2>2, <4>1
      <4> QED
        BY <2>1, <3>2, <3>3, <4>2 DEF Made
    <3>4. CASE i = k + 1
      BY <2>2, <3>2, <3>4
    <3> QED
      BY <3>3, <3>4
  <2>5. Made(longer, p, original, passes, k + 1)
    BY <2>2, <2>3, <2>4 DEF Made
  <2> QED
    BY <2>5
<1> HIDE DEF Some
<1>3. Nat \subseteq Some
  BY <1>1, <1>2, Inductive
<1> QED
  BY <1>3 DEF Some

\* What was made of a text by the first n passes is made once, whatever follows.
LEMMA MadeOnce ==
    ASSUME NEW p, NEW original, NEW passes, NEW more, NEW n \in Nat, NEW m \in Nat, n <= m,
           \A i \in 1 .. n : passes[i] = more[i],
           NEW text, Made(text, p, original, passes, n),
           NEW other, Made(other, p, original, more, m)
    PROVE  \A i \in 0 .. n : text[i] = other[i]
<1> DEFINE Same == {i \in Nat : i <= n => text[i] = other[i]}
<1>1. 0 \in Same
  BY DEF Made
<1>2. ASSUME NEW i \in Nat, i \in Same PROVE i + 1 \in Same
  <2> SUFFICES ASSUME i + 1 <= n PROVE text[i + 1] = other[i + 1]
    OBVIOUS
  <2>1. i + 1 \in 1 .. n /\ i + 1 \in 1 .. m /\ (i + 1) - 1 = i
    OBVIOUS
  <2>2. text[i] = other[i] /\ passes[i + 1] = more[i + 1]
    BY <1>2, <2>1
  <2>3. text[i + 1] = Pass(p, text[i], passes[i + 1])
    BY <2>1 DEF Made
  <2>4. other[i + 1] = Pass(p, other[i], more[i + 1])
    BY <2>1 DEF Made
  <2> QED
    BY <2>2, <2>3, <2>4
<1> HIDE DEF Same
<1>3. Nat \subseteq Same
  BY <1>1, <1>2, Inductive
<1> QED
  BY <1>3 DEF Same

LEMMA ReplayNone ==
    ASSUME NEW p, NEW original
    PROVE  Replay(p, original, <<>>) = original
<1>1. \E text : Made(text, p, original, <<>>, 0)
  BY MadeExists
<1>2. Len(<<>>) = 0
  OBVIOUS
<1> QED
  BY <1>1, <1>2 DEF Replay, Made

\* A pass more, replayed, is a pass over what the ones before come to.
LEMMA ReplayOneMore ==
    ASSUME NEW p, NEW original, NEW T, NEW passes \in Seq(T), NEW fixes \in T
    PROVE  Replay(p, original, Append(passes, fixes))
             = Pass(p, Replay(p, original, passes), fixes)
<1> DEFINE more == Append(passes, fixes)
           n == Len(passes)
           text == CHOOSE t : Made(t, p, original, passes, n)
           other == CHOOSE t : Made(t, p, original, more, n + 1)
<1>1. /\ n \in Nat /\ Len(more) = n + 1 /\ more[n + 1] = fixes
      /\ \A i \in 1 .. n : passes[i] = more[i]
  OBVIOUS
<1> HIDE DEF n, more
<1>2. Made(text, p, original, passes, n)
  BY <1>1, MadeExists
<1>3. Made(other, p, original, more, n + 1)
  <2> DEFINE k == n + 1
  <2>1. k \in Nat
    BY <1>1
  <2> HIDE DEF k
  <2>2. \E t : Made(t, p, original, more, k)
    BY <2>1, MadeExists
  <2> QED
    BY <2>2 DEF k
<1> HIDE DEF text, other
<1>4. n \in 0 .. n /\ n + 1 \in 1 .. n + 1 /\ (n + 1) - 1 = n /\ n <= n + 1 /\ n + 1 \in Nat
  BY <1>1
<1>5. text[n] = other[n]
  BY <1>1, <1>2, <1>3, <1>4, MadeOnce
<1>6. other[n + 1] = Pass(p, other[n], more[n + 1])
  BY <1>3, <1>4 DEF Made
<1>7. Replay(p, original, passes) = text[n]
  BY DEF Replay, text, n
<1>8. Replay(p, original, more) = other[n + 1]
  BY <1>1 DEF Replay, other
<1> QED
  BY <1>1, <1>5, <1>6, <1>7, <1>8 DEF more

\* What the report's passes come to.
LEMMA ReplayedIs ==
    ASSUME NEW T, NEW r, r.passes \in Seq(T)
    PROVE  Replayed(r) = Replay(program, r.original, r.passes)
<1> DEFINE n == Len(r.passes)
           Step(t, i) == IF i = 0 THEN r.original ELSE Rewritten(t[i - 1], r.passes[i])
           text == CHOOSE t : t = [i \in 0 .. n |-> Step(t, i)]
           other == CHOOSE t : Made(t, program, r.original, r.passes, n)
<1>1. n \in Nat
  OBVIOUS
<1>2. Replayed(r) = text[n]
  BY DEF Replayed
<1>3. Replay(program, r.original, r.passes) = other[n]
  BY DEF Replay
<1>4. \A t, f : Rewritten(t, f) = Pass(program, t, f)
  BY DEF Rewritten, Pass
<1> HIDE DEF n
<1>5. Made(other, program, r.original, r.passes, n)
  BY <1>1, MadeExists
<1> HIDE DEF other
<1>6. other = [i \in 0 .. n |-> Step(other, i)]
  <2>1. \A i \in 0 .. n : other[i] = Step(other, i)
    BY <1>1, <1>4, <1>5 DEF Made
  <2> HIDE DEF Step
  <2> QED
    BY <1>5, <2>1 DEF Made
<1>7. text = [i \in 0 .. n |-> Step(text, i)]
  <2> HIDE DEF Step
  <2> QED
    BY <1>6
<1> HIDE DEF text
<1>8. Made(text, program, r.original, r.passes, n)
  <2>1. \A i \in 0 .. n : text[i] = Step(text, i)
    <3> HIDE DEF Step
    <3> QED
      BY <1>7
  <2>2. text = [i \in 0 .. n |-> text[i]]
    <3> HIDE DEF Step
    <3> QED
      BY <1>7
  <2> QED
    BY <1>1, <1>4, <2>1, <2>2 DEF Made
<1>9. text[n] = other[n]
  BY <1>1, <1>5, <1>8, MadeOnce
<1> QED
  BY <1>2, <1>3, <1>9

-----------------------------------------------------------------------------
(* What a pass is made of.                                                 *)

Increasing(s, n) == \A i, j \in 1 .. n : i < j => s[i] < s[j]

\* A finite set of numbers can be listed in order: its least first, then the rest.
LEMMA ListedIs ==
    ASSUME NEW S \in SUBSET Nat, IsFiniteSet(S)
    PROVE  Listed(S) \in [1 .. Cardinality(S) -> S]
<1> DEFINE Lists(U, n) == \E s \in [1 .. n -> U] : Increasing(s, n)
           Can == {n \in Nat : \A U \in SUBSET Nat :
                     IsFiniteSet(U) /\ Cardinality(U) = n => Lists(U, n)}
<1>1. 0 \in Can
  <2> SUFFICES ASSUME NEW U \in SUBSET Nat PROVE Lists(U, 0)
    OBVIOUS
  <2>1. [i \in 1 .. 0 |-> i] \in [1 .. 0 -> U]
    OBVIOUS
  <2> QED
    BY <2>1 DEF Increasing
<1>2. ASSUME NEW n \in Nat, n \in Can PROVE n + 1 \in Can
  <2> SUFFICES ASSUME NEW U \in SUBSET Nat, IsFiniteSet(U), Cardinality(U) = n + 1
               PROVE  Lists(U, n + 1)
    OBVIOUS
  <2>1. U # {}
    BY FS_EmptySet
  <2>2. PICK m \in U : \A k \in U : m <= k
    BY <2>1, HasLeast
  <2>3. IsFiniteSet(U \ {m}) /\ Cardinality(U \ {m}) = n
    <3>1. IsFiniteSet(U \ {m}) /\ Cardinality(U \ {m}) = Cardinality(U) - 1
      BY FS_RemoveElement
    <3>2. Cardinality(U) - 1 = n
      OBVIOUS
    <3> QED
      BY <3>1, <3>2
  <2>4. PICK s \in [1 .. n -> U \ {m}] : Increasing(s, n)
    BY <1>2, <2>3
  <2> DEFINE longer == [i \in 1 .. n + 1 |-> IF i = 1 THEN m ELSE s[i - 1]]
  <2>5. \A i \in 1 .. n + 1 : i # 1 => i - 1 \in 1 .. n
    OBVIOUS
  <2>6. longer \in [1 .. n + 1 -> U]
    BY <2>5
  <2>7. ASSUME NEW i \in 1 .. n + 1, NEW j \in 1 .. n + 1, i < j
        PROVE  longer[i] < longer[j]
    <3>1. j - 1 \in 1 .. n /\ longer[j] = s[j - 1]
      BY <2>5, <2>7
    <3>2. CASE i = 1
      <4>1. s[j - 1] \in U /\ s[j - 1] # m /\ longer[i] = m
        BY <3>1, <3>2
      <4>2. m \in Nat /\ s[j - 1] \in Nat /\ m <= s[j - 1]
        BY <2>2, <4>1
      <4> QED
        BY <3>1, <4>1, <4>2
    <3>3. CASE i # 1
      <4>1. i - 1 \in 1 .. n /\ longer[i] = s[i - 1] /\ i - 1 < j - 1
        BY <2>5, <2>7, <3>3
      <4> QED
        BY <2>4, <3>1, <4>1 DEF Increasing
    <3> QED
      BY <3>2, <3>3
  <2> HIDE DEF longer
  <2> QED
    BY <2>6, <2>7 DEF Increasing
<1> HIDE DEF Can
<1>3. Nat \subseteq Can
  BY <1>1, <1>2, Inductive
<1>4. Cardinality(S) \in Nat
  BY FS_CardinalityType
<1>5. \E s \in [1 .. Cardinality(S) -> S] : Increasing(s, Cardinality(S))
  BY <1>3, <1>4 DEF Can
<1> QED
  BY <1>5 DEF Listed, Increasing

LEMMA Finite ==
    \A S \in SUBSET Findings : IsFiniteSet(S) /\ S \subseteq Nat /\ Cardinality(S) \in Nat
BY FindingsAssumption, FS_Subset, FS_CardinalityType

LEMMA ListedTyped ==
    ASSUME NEW S \in SUBSET Findings
    PROVE  Listed(S) \in Seq(Findings)
<1>1. IsFiniteSet(S) /\ S \subseteq Nat /\ Cardinality(S) \in Nat
  BY Finite
<1>2. Listed(S) \in [1 .. Cardinality(S) -> S]
  BY <1>1, ListedIs
<1>3. Listed(S) \in [1 .. Cardinality(S) -> Findings]
  BY <1>2
<1> QED
  BY <1>1, <1>3, SeqDef

LEMMA CandidatesTyped ==
    ASSUME NEW found \in Texts
    PROVE  /\ Candidates(found) \in Seq(Findings)
           /\ Len(Candidates(found)) \in Nat
           /\ ToSet(Candidates(found)) \subseteq Findings
<1> DEFINE can == {e \in found : Applies(e)}
<1>1. ErrorsOf(can) \in SUBSET Findings /\ can \ ErrorsOf(can) \in SUBSET Findings
  BY DEF ErrorsOf, Texts
<1>2. Listed(ErrorsOf(can)) \in Seq(Findings) /\ Listed(can \ ErrorsOf(can)) \in Seq(Findings)
  BY <1>1, ListedTyped
<1> HIDE DEF can
<1>3. Candidates(found) \in Seq(Findings)
  BY <1>2, ConcatProperties DEF Candidates, can
<1> QED
  BY <1>3 DEF ToSet

\* The fixes a pass takes are among its candidates' findings.
LEMMA AcceptedTyped ==
    ASSUME NEW cs \in Seq(Findings)
    PROVE  Accepted(cs) \in Texts
<1> DEFINE n == Len(cs)
           Step(t, i) == IF i = 0 THEN {}
                         ELSE IF Fits(cs[i], t[i - 1]) THEN t[i - 1] \cup {cs[i]} ELSE t[i - 1]
           taken == CHOOSE t : t = [i \in 0 .. n |-> Step(t, i)]
           Some == {k \in Nat : \E t : t = [i \in 0 .. k |-> Step(t, i)]}
           Typed == {i \in Nat : i <= n => taken[i] \in Texts}
<1>1. Accepted(cs) = taken[n]
  BY DEF Accepted
<1>2. n \in Nat /\ \A i \in 1 .. n : cs[i] \in Findings
  BY ElementOfSeq
<1> HIDE DEF n
<1>3. 0 \in Some
  <2>1. \E t : t = [i \in 0 .. 0 |-> Step(t, i)]
    <3> DEFINE t == [i \in 0 .. 0 |-> {}]
    <3>1. t = [i \in 0 .. 0 |-> Step(t, i)]
      OBVIOUS
    <3> QED
      BY <3>1
  <2> QED
    BY <2>1
<1>4. ASSUME NEW k \in Nat, k \in Some PROVE k + 1 \in Some
  <2> HIDE DEF Step
  <2>1. PICK t : t = [i \in 0 .. k |-> Step(t, i)]
    BY <1>4
  <2> DEFINE longer == [i \in 0 .. k + 1 |-> IF i <= k THEN t[i] ELSE Step(t, k + 1)]
  <2>2. /\ longer = [i \in 0 .. k + 1 |-> longer[i]]
        /\ \A i \in 0 .. k : longer[i] = t[i]
        /\ longer[k + 1] = Step(t, k + 1)
    OBVIOUS
  <2> HIDE DEF longer
  <2>3. \A i \in 0 .. k + 1 : i = 0 \/ i - 1 \in 0 .. k
    OBVIOUS
  <2>4. \A i \in 0 .. k + 1 : Step(longer, i) = Step(t, i)
    BY <2>2, <2>3 DEF Step
  <2>5. ASSUME NEW i \in 0 .. k + 1 PROVE longer[i] = Step(longer, i)
    <3>1. CASE i \in 0 .. k
      <4>1. longer[i] = t[i] /\ t[i] = Step(t, i)
        BY <2>1, <2>2, <3>1
      <4> QED
        BY <2>4, <4>1
    <3>2. CASE i = k + 1
      BY <2>2, <2>4, <3>2
    <3> QED
      BY <3>1, <3>2
  <2>6. longer = [i \in 0 .. k + 1 |-> Step(longer, i)]
    BY <2>2, <2>5
  <2> QED
    BY <2>6
<1> HIDE DEF Some
<1>5. Nat \subseteq Some
  BY <1>3, <1>4, Inductive
<1>6. taken = [i \in 0 .. n |-> Step(taken, i)]
  <2>1. \E t : t = [i \in 0 .. n |-> Step(t, i)]
    BY <1>2, <1>5 DEF Some
  <2> HIDE DEF Step
  <2> QED
    BY <2>1
<1> HIDE DEF taken
<1>7. \A i \in 0 .. n : taken[i] = Step(taken, i)
  <2> HIDE DEF Step
  <2> QED
    BY <1>6
<1>8. 0 \in Typed
  <2>1. 0 \in 0 .. n
    BY <1>2
  <2> QED
    BY <1>7, <2>1 DEF Texts
<1>9. ASSUME NEW i \in Nat, i \in Typed PROVE i + 1 \in Typed
  <2> SUFFICES ASSUME i + 1 <= n PROVE taken[i + 1] \in Texts
    OBVIOUS
  <2>1. i + 1 \in 0 .. n /\ i + 1 \in 1 .. n /\ i + 1 # 0 /\ (i + 1) - 1 = i
    BY <1>2
  <2>2. taken[i] \in Texts /\ cs[i + 1] \in Findings
    BY <1>2, <1>9, <2>1
  <2>3. taken[i + 1] = Step(taken, i + 1)
    BY <1>7, <2>1
  <2>4. taken[i + 1] = taken[i] \cup {cs[i + 1]} \/ taken[i + 1] = taken[i]
    BY <2>1, <2>3
  <2> QED
    BY <2>2, <2>4 DEF Texts
<1> HIDE DEF Typed
<1>10. Nat \subseteq Typed
  BY <1>8, <1>9, Inductive
<1> QED
  BY <1>1, <1>2, <1>10 DEF Typed

-----------------------------------------------------------------------------
(* The invariant.                                                          *)

InFile == {"pass", "written", "finish"}
Phases == InFile \cup {"start", "refused", "files", "failed", "judged"}
Reasons == {"no", "cap", "syntax", "nothing", "oscillation", "unfit", "reverted"}

Reported == [changed : BOOLEAN, passes : Seq(Texts), deferred : Int, stopped : Reasons,
             contents : Texts, original : Texts, first : Texts, fresh : BOOLEAN, left : Texts,
             capped : BOOLEAN]
Stored == [text : Texts, found : Texts]

AtTyped ==
    at \in [phase : Phases, file : Files \cup {None}, pass : Nat, next : Texts, taken : Texts,
            wait : Int]
OutTyped ==
    out \in [passes : Seq(Texts), deferred : Int, stopped : Reasons, original : Texts,
             current : Texts, check : Texts, first : Texts, last : Texts \cup {None},
             fresh : BOOLEAN]

\* What the variables hold.
Types ==
    /\ program \in Programs
    /\ opts \in [dry : BOOLEAN, unsafe : BOOLEAN, allowDirty : BOOLEAN]
    /\ disk \in [Files -> Texts]
    /\ kept \in [Files -> Stored \cup {None}]
    /\ AtTyped
    /\ OutTyped
    /\ report \in [Files -> Reported \cup {None}]

\* The file in hand: what the passes kept come to, and what the disk holds of it.
Working ==
    at.phase \in InFile =>
        /\ at.file \in program.own
        /\ report[at.file] = None
        /\ out.original = program.text[at.file]
        /\ out.current = Replay(program, out.original, out.passes)
        /\ disk[at.file] = IF opts.dry THEN out.original
                           ELSE IF at.phase = "written" THEN at.next ELSE out.current
        /\ at.phase = "written" => at.next = Pass(program, out.current, at.taken)

\* The checks and the text on the disk, of a project and a file given.
Found(p, f, text, view) ==
    text \cup {e \in Findings : /\ p.file[e] = f
                                /\ p.cause[e] # None
                                /\ p.cause[e] \in view[p.file[p.cause[e]]]}
Count(p, found) == Cardinality({e \in found : p.kind[e] # "lint"})
Seen(d, o, f, text) == IF o.dry THEN d ELSE [d EXCEPT ![f] = text]

\* The last check kept is one of the text kept, and has no more errors than the first.
Counted ==
    at.phase \in InFile =>
        /\ out.first = Found(program, at.file, out.original,
                             Seen(disk, opts, at.file, out.original))
        /\ out.fresh =>
              /\ out.check = Found(program, at.file, out.current,
                                   Seen(disk, opts, at.file, out.current))
              /\ Count(program, out.check) <= Count(program, out.first)

\* What was said of a file.
Told(f) ==
    LET r == report[f]
    IN  r # None =>
          /\ r.contents = Replay(program, r.original, r.passes)
          /\ r.changed <=> r.contents # r.original
          /\ disk[f] = IF opts.dry THEN r.original ELSE r.contents
          /\ r.fresh => Count(program, r.left) <= Count(program, r.first)

\* A file that is in nobody's hand and was not reported is as it was.
Untouched(f) ==
    /\ f \notin program.own => disk[f] = program.text[f]
    /\ report[f] = None /\ (at.phase \in InFile \cup {"failed"} => f # at.file)
          => disk[f] = program.text[f]

Others == \A f \in Files : Told(f) /\ Untouched(f)

Inv == Types /\ Working /\ Counted /\ Others

-----------------------------------------------------------------------------
(* Types.                                                                  *)

LEMMA ProgramTyped ==
    ASSUME program \in Programs
    PROVE  /\ program.own \subseteq Files
           /\ program.clears \in [Findings -> Texts] /\ program.leaves \in [Findings -> Texts]
           /\ program.text \in [Files -> Texts]
BY ProgramsAssumption DEF Texts

LEMMA FoundTyped ==
    ASSUME NEW f, NEW text \in Texts, NEW view
    PROVE  FoundIn(f, text, view) \in Texts
BY DEF FoundIn, Texts

LEMMA RewrittenTyped ==
    ASSUME program \in Programs, NEW text \in Texts, NEW fixes \in Texts
    PROVE  Rewritten(text, fixes) \in Texts
<1>1. \A e \in Findings : program.leaves[e] \subseteq Findings
  BY ProgramTyped DEF Texts
<1> QED
  BY <1>1 DEF Rewritten, Texts

LEMMA CheckedTyped ==
    ASSUME Types, NEW f \in Files
    PROVE  Checked(f) \in Texts
<1>1. disk[f] \in Texts /\ kept[f] \in Stored \cup {None}
  BY DEF Types
<1>2. FoundIn(f, disk[f], View) \in Texts
  BY <1>1, FoundTyped
<1> QED
  BY <1>1, <1>2 DEF Checked, Stored

LEMMA KeptTyped ==
    ASSUME Types, NEW f \in Files
    PROVE  KeptAfter(f) \in [Files -> Stored \cup {None}]
<1>1. \A g \in Files : disk[g] \in Texts /\ kept[g] \in Stored \cup {None}
  BY DEF Types
<1>2. \A g \in Files : [text |-> disk[g], found |-> FoundIn(g, disk[g], View)] \in Stored
  BY <1>1, FoundTyped DEF Stored
<1> QED
  BY <1>1, <1>2 DEF KeptAfter

LEMMA TargetTyped ==
    ASSUME Types, NEW text \in Texts
    PROVE  Target(text) \in [Files -> Texts]
BY DEF Types, Target

LEMMA NoneIsNoReport == None \notin Reported
BY NoReportAssumption DEF Reported, Texts, Reasons

LEMMA NoOutcomeTyped ==
    NoOutcome \in [passes : Seq(Texts), deferred : Int, stopped : Reasons, original : Texts,
                   current : Texts, check : Texts, first : Texts, last : Texts \cup {None},
                   fresh : BOOLEAN]
BY DEF NoOutcome, Texts, Reasons

Unmoved == UNCHANGED <<program, opts>>

LEMMA InitTyped == ASSUME Init PROVE Types
<1>1. program.text \in [Files -> Texts]
  BY ProgramTyped DEF Init
<1>2. AtTyped
  BY DEF Init, AtTyped, Phases, Texts
<1>3. OutTyped
  BY NoOutcomeTyped DEF Init, OutTyped
<1> QED
  BY <1>1, <1>2, <1>3 DEF Init, Types

LEMMA BeginTyped == ASSUME Types, Begin PROVE Types'
<1>1. AtTyped'
  BY DEF Types, AtTyped, Begin, Phases
<1> QED
  BY <1>1 DEF Types, Begin, OutTyped

LEMMA OpenTyped == ASSUME Types, NEW f \in Files, OpenFile(f) PROVE Types'
<1>1. disk[f] \in Texts /\ Checked(f) \in Texts /\ CheckWritten(f, disk[f]) \in Texts
  BY CheckedTyped, FoundTyped DEF Types, CheckWritten
<1>2. AtTyped'
  BY DEF AtTyped, OpenFile, Phases, InFile, Texts
<1>3. OutTyped'
  <2> DEFINE fresh == Checked(f) = CheckWritten(f, disk[f])
  <2>1. fresh \in BOOLEAN
    OBVIOUS
  <2>2. out' = [NoOutcome EXCEPT !.original = disk[f], !.current = disk[f],
                   !.check = Checked(f), !.first = CheckWritten(f, disk[f]), !.fresh = fresh]
    BY DEF OpenFile
  <2> HIDE DEF fresh
  <2> QED
    BY <1>1, <2>1, <2>2, NoOutcomeTyped DEF OutTyped
<1>4. kept' \in [Files -> Stored \cup {None}]
  BY KeptTyped DEF OpenFile
<1> QED
  BY <1>2, <1>3, <1>4 DEF Types, OpenFile

Stops == StopAtCap \/ StopAtSyntax \/ StopWithNothing \/ StopOscillating \/ StopUnfit

LEMMA BatchTyped ==
    ASSUME Types
    PROVE  Batch \in Seq(Findings) /\ Len(Batch) \in Nat /\ ToSet(Batch) \in Texts
BY CandidatesTyped DEF Types, OutTyped, Batch, Texts

\* The passes end for a reason, with the rest of the outcome as it was.
LEMMA StopsStop ==
    ASSUME Types, Stops
    PROVE  /\ at.phase = "pass"
           /\ \E why \in Reasons, n \in Int : Stop(why, n)
<1>1. out.deferred \in Int /\ Len(Batch) \in Int
  BY BatchTyped DEF Types, OutTyped
<1> QED
  BY <1>1 DEF Stops, StopAtCap, StopAtSyntax, StopWithNothing, StopOscillating, StopUnfit, InPass,
              Reasons

LEMMA StopTyped == ASSUME Types, Stops PROVE Types'
<1>1. PICK why \in Reasons, n \in Int : Stop(why, n)
  BY StopsStop
<1>2. AtTyped'
  BY <1>1 DEF Types, AtTyped, Stop, Phases, InFile
<1>3. OutTyped'
  BY <1>1 DEF Types, OutTyped, Stop
<1> QED
  BY <1>1, <1>2, <1>3 DEF Types, Stop

LEMMA WriteTyped == ASSUME Types, WritePass PROVE Types'
<1> DEFINE taken == Accepted(Batch)
           next == Rewritten(out.current, taken)
           wait == Len(Batch) - Cardinality(taken)
<1>1. taken \in Texts /\ ToSet(Batch) \in Texts /\ wait \in Int
  BY BatchTyped, AcceptedTyped, Finite DEF Texts
<1>2. next \in Texts
  BY <1>1, RewrittenTyped DEF Types, OutTyped
<1>3. /\ disk' = Target(next)
      /\ at' = [at EXCEPT !.phase = "written", !.next = next, !.taken = taken, !.wait = wait]
      /\ out' = [out EXCEPT !.last = ToSet(Batch)]
      /\ UNCHANGED <<program, opts, kept, report>>
  BY DEF WritePass
<1> HIDE DEF taken, next, wait
<1>4. disk' \in [Files -> Texts]
  BY <1>2, <1>3, TargetTyped
<1>5. AtTyped'
  BY <1>1, <1>2, <1>3 DEF Types, AtTyped, Phases, InFile
<1>6. OutTyped'
  BY <1>1, <1>3 DEF Types, OutTyped
<1> QED
  BY <1>3, <1>4, <1>5, <1>6 DEF Types

LEMMA KeepTyped == ASSUME Types, KeepPass PROVE Types'
<1>1. Recheck \in Texts
  BY FoundTyped DEF Types, AtTyped, Recheck, CheckWritten
<1>2. AtTyped'
  <2>1. CASE at.wait = 0
    BY <2>1 DEF Types, AtTyped, KeepPass, Phases, InFile
  <2>2. CASE at.wait # 0
    <3>1. at' = [at EXCEPT !.phase = "pass", !.pass = at.pass + 1] /\ at.pass + 1 \in Nat
      BY <2>2 DEF Types, AtTyped, KeepPass
    <3> QED
      BY <3>1 DEF Types, AtTyped, Phases, InFile
  <2> QED
    BY <2>1, <2>2
<1>3. OutTyped'
  <2>1. Append(out.passes, at.taken) \in Seq(Texts) /\ at.next \in Texts /\ at.wait \in Int
    BY DEF Types, OutTyped, AtTyped
  <2>2. out' = [out EXCEPT !.passes = Append(out.passes, at.taken), !.current = at.next,
                           !.deferred = at.wait, !.check = Recheck]
    BY DEF KeepPass
  <2> QED
    BY <1>1, <2>1, <2>2 DEF Types, OutTyped
<1> QED
  BY <1>2, <1>3 DEF Types, KeepPass

LEMMA RevertTyped == ASSUME Types, RevertPass PROVE Types'
<1>1. disk' \in [Files -> Texts]
  BY TargetTyped DEF Types, OutTyped, RevertPass
<1>2. AtTyped' /\ OutTyped'
  BY DEF Types, AtTyped, OutTyped, RevertPass, Phases, InFile, Reasons
<1> QED
  BY <1>1, <1>2 DEF Types, RevertPass

\* What FinishFile says of the file in hand.
Changed == out.current # out.original
Remaining == IF opts.dry /\ Changed THEN out.check ELSE CheckWritten(at.file, disk[at.file])
Finished ==
    [changed |-> Changed, passes |-> out.passes, deferred |-> out.deferred,
     stopped |-> out.stopped, contents |-> out.current, original |-> out.original,
     first |-> out.first, fresh |-> out.fresh, left |-> Remaining, capped |-> at.pass = MaxPasses]

LEMMA FinishIs ==
    FinishFile => /\ report' = [report EXCEPT ![at.file] = Finished]
                  /\ at' = [at EXCEPT !.phase = "files"]
                  /\ out' = NoOutcome
                  /\ UNCHANGED <<program, opts, disk, kept>>
BY DEF FinishFile, Finished, Remaining, Changed

LEMMA FinishedTyped ==
    ASSUME Types, at.file \in Files
    PROVE  Finished \in Reported
<1>1. Remaining \in Texts
  BY FoundTyped DEF Types, OutTyped, Remaining, CheckWritten
<1>2. Changed \in BOOLEAN /\ (at.pass = MaxPasses) \in BOOLEAN
  BY DEF Changed
<1> QED
  BY <1>1, <1>2 DEF Types, OutTyped, Finished, Reported

LEMMA FinishTyped == ASSUME Types, Working, FinishFile PROVE Types'
<1>1. at.file \in Files
  BY ProgramTyped DEF Types, Working, FinishFile, InFile
<1>2. Finished \in Reported
  BY <1>1, FinishedTyped
<1>3. report' \in [Files -> Reported \cup {None}]
  BY <1>2, FinishIs DEF Types
<1>4. AtTyped'
  BY FinishIs DEF Types, AtTyped, Phases
<1>5. OutTyped'
  BY FinishIs, NoOutcomeTyped DEF OutTyped
<1> QED
  BY <1>3, <1>4, <1>5, FinishIs DEF Types

\* What is said of a file that is only checked.
Looked(f) ==
    [changed |-> FALSE, passes |-> <<>>, deferred |-> 0, stopped |-> "no", contents |-> disk[f],
     original |-> disk[f], first |-> {}, fresh |-> FALSE, left |-> Checked(f), capped |-> FALSE]

LEMMA LookTyped == ASSUME Types, NEW f \in Files, CheckOnly(f) PROVE Types'
<1>1. disk[f] \in Texts /\ Checked(f) \in Texts
  BY CheckedTyped DEF Types
<1>2. Looked(f) \in Reported
  <2>1. <<>> \in Seq(Texts) /\ {} \in Texts /\ "no" \in Reasons
    BY DEF Texts, Reasons
  <2> QED
    BY <1>1, <2>1 DEF Looked, Reported
<1>3. report' = [report EXCEPT ![f] = Looked(f)]
  BY DEF CheckOnly, Looked
<1>4. report' \in [Files -> Reported \cup {None}]
  BY <1>2, <1>3 DEF Types
<1>5. kept' \in [Files -> Stored \cup {None}]
  BY KeptTyped DEF CheckOnly
<1> QED
  BY <1>4, <1>5 DEF Types, CheckOnly, AtTyped, OutTyped

LEMMA EndTyped == ASSUME Types, Fails \/ Judge PROVE Types'
<1>1. AtTyped'
  BY DEF Types, AtTyped, Fails, Judge, Phases
<1> QED
  BY <1>1 DEF Types, OutTyped, Fails, Judge

\* A text that a failed write may leave.
LEMMA WriteFailsInHand ==
    ASSUME WriteFails
    PROVE  /\ at.phase \in {"pass", "written"}
           /\ at' = [at EXCEPT !.phase = "failed"]
           /\ UNCHANGED <<program, opts, kept, out, report>>
           /\ \E text \in Texts : disk' = Target(text)
BY DEF WriteFails, Writes, InPass, Texts

LEMMA WriteFailsTyped == ASSUME Types, WriteFails PROVE Types'
<1>1. PICK text \in Texts : disk' = Target(text)
  BY WriteFailsInHand
<1>2. disk' \in [Files -> Texts]
  BY <1>1, TargetTyped
<1>3. AtTyped'
  BY WriteFailsInHand DEF Types, AtTyped, Phases
<1> QED
  BY <1>2, <1>3, WriteFailsInHand DEF Types, OutTyped

LEMMA TypesKept == ASSUME Types, Working, [Next]_vars PROVE Types'
<1>1. CASE UNCHANGED vars
  BY <1>1 DEF vars, Types, AtTyped, OutTyped
<1>2. CASE Next
  BY <1>2, BeginTyped, OpenTyped, LookTyped, StopTyped, WriteTyped, KeepTyped, RevertTyped,
     FinishTyped, EndTyped, WriteFailsTyped DEF Next, Stops
<1> QED
  BY <1>1, <1>2

-----------------------------------------------------------------------------
(* The file in hand.                                                       *)

LEMMA SaidAgain ==
    /\ \A f, text, view : FoundIn(f, text, view) = Found(program, f, text, view)
    /\ \A found : Cardinality(ErrorsOf(found)) = Count(program, found)
    /\ \A text : Target(text) = Seen(disk, opts, at.file, text)
    /\ \A text, fixes : Rewritten(text, fixes) = Pass(program, text, fixes)
BY DEF FoundIn, Found, ErrorsOf, Kind, Count, Target, Seen, Rewritten, Pass

LEMMA Counts == ASSUME NEW p, NEW found \in Texts PROVE Count(p, found) \in Nat
<1>1. {e \in found : p.kind[e] # "lint"} \in SUBSET Findings
  BY DEF Texts
<1> QED
  BY <1>1, Finite DEF Count

\* A text written where it is already changes nothing.
LEMMA SeenThere ==
    ASSUME NEW d \in [Files -> Texts], NEW o, NEW f, NEW text, d[f] = text
    PROVE  Seen(d, o, f, text) = d
BY DEF Seen

\* Of two texts written over the same file the last is seen.
LEMMA SeenLast ==
    ASSUME NEW d \in [Files -> Texts], NEW o, NEW f, NEW text, NEW other
    PROVE  Seen(Seen(d, o, f, other), o, f, text) = Seen(d, o, f, text)
BY DEF Seen

LEMMA SeenElsewhere ==
    ASSUME NEW d \in [Files -> Texts], NEW o, NEW f \in Files, NEW text
    PROVE  /\ \A g \in Files : g # f => Seen(d, o, f, text)[g] = d[g]
           /\ Seen(d, o, f, text)[f] = IF o.dry THEN d[f] ELSE text
BY DEF Seen

Hand == at.phase \in InFile

\* In hand, a file is one of the files and nothing was said of it.
LEMMA HandIsAFile == ASSUME Types, Working, Hand PROVE at.file \in Files
BY ProgramTyped DEF Types, Working, Hand

\* What is true of the other files stays true while a file is in hand.
LEMMA OthersWritten ==
    ASSUME Types, Working, Others, Hand, Hand',
           UNCHANGED <<program, opts, report>>, at'.file = at.file,
           NEW text, disk' = Seen(disk, opts, at.file, text)
    PROVE  Others'
<1>1. at.file \in Files /\ disk \in [Files -> Texts]
  BY HandIsAFile DEF Types
<1>2. \A g \in Files : g # at.file => disk'[g] = disk[g]
  BY <1>1 DEF Seen
<1>3. report[at.file] = None /\ at.file \in program.own
  BY DEF Working, Hand
<1>4. ASSUME NEW g \in Files PROVE Told(g)' /\ Untouched(g)'
  <2>1. CASE g = at.file
    BY <1>3, <2>1 DEF Told, Untouched, Hand
  <2>2. CASE g # at.file
    BY <1>2, <2>2 DEF Others, Told, Untouched, Hand
  <2> QED
    BY <2>1, <2>2
<1> QED
  BY <1>4 DEF Others

LEMMA OthersKept ==
    ASSUME Types, Working, Others, Hand, Hand',
           UNCHANGED <<program, opts, report, disk>>, at'.file = at.file
    PROVE  Others'
BY DEF Others, Told, Untouched, Hand

LEMMA InitHolds == ASSUME Init PROVE Working /\ Counted /\ Others
<1>1. \A f \in Files : report[f] = None /\ disk[f] = program.text[f]
  BY DEF Init
<1>2. at.phase = "start"
  BY DEF Init
<1> QED
  BY <1>1, <1>2 DEF Working, Counted, Others, Told, Untouched, InFile

LEMMA OpenHolds ==
    ASSUME Inv, NEW f \in Files, OpenFile(f)
    PROVE  Working' /\ Counted' /\ Others'
<1>1. /\ at.phase = "files" /\ f \in program.own /\ report[f] = None
      /\ disk[f] = program.text[f] /\ disk \in [Files -> Texts]
  BY DEF OpenFile, Left, Inv, Others, Untouched, InFile, Types
<1>2. /\ UNCHANGED <<program, opts, disk, report>>
      /\ at'.phase = "pass" /\ at'.file = f
      /\ out'.original = disk[f] /\ out'.current = disk[f] /\ out'.passes = <<>>
      /\ out'.check = Checked(f) /\ out'.first = CheckWritten(f, disk[f])
      /\ out'.fresh <=> Checked(f) = CheckWritten(f, disk[f])
  BY DEF OpenFile, NoOutcome
<1>3. Working'
  BY <1>1, <1>2, ReplayNone DEF Working, InFile
<1>4. Counted'
  <2>1. Seen(disk, opts, f, disk[f]) = disk
    BY <1>1, SeenThere
  <2>2. CheckWritten(f, disk[f]) = Found(program, f, disk[f], disk)
    BY SaidAgain DEF CheckWritten
  <2>3. Count(program, CheckWritten(f, disk[f])) \in Nat
    BY <1>1, Counts, FoundTyped DEF CheckWritten
  <2> QED
    BY <1>2, <2>1, <2>2, <2>3 DEF Counted, InFile
<1>5. Others'
  BY <1>1, <1>2 DEF Inv, Others, Told, Untouched, InFile
<1> QED
  BY <1>3, <1>4, <1>5

LEMMA LookHolds ==
    ASSUME Inv, NEW f \in Files, CheckOnly(f)
    PROVE  Working' /\ Counted' /\ Others'
<1>1. /\ at.phase = "files" /\ UNCHANGED <<program, opts, disk, at, out>>
      /\ report' = [report EXCEPT ![f] = Looked(f)]
      /\ report \in [Files -> Reported \cup {None}]
      /\ f \notin program.own
  BY DEF CheckOnly, Looked, Inv, Types
<1>2. Told(f)'
  BY <1>1, ReplayNone DEF Told, Looked
<1>3. \A g \in Files : g # f => Told(g)' /\ Untouched(g)'
  BY <1>1 DEF Inv, Others, Told, Untouched
<1>4. Untouched(f)'
  BY <1>1 DEF Inv, Others, Untouched
<1>5. Working' /\ Counted'
  BY <1>1 DEF Working, Counted, InFile
<1> QED
  BY <1>2, <1>3, <1>4, <1>5 DEF Others

LEMMA StopHolds ==
    ASSUME Inv, Stops
    PROVE  Working' /\ Counted' /\ Others'
<1>1. PICK why \in Reasons, n \in Int : Stop(why, n)
  BY StopsStop DEF Inv
<1>2. at.phase = "pass"
  BY StopsStop DEF Inv
<1>3. /\ UNCHANGED <<program, opts, disk, report>>
      /\ at' = [at EXCEPT !.phase = "finish"]
      /\ out' = [out EXCEPT !.stopped = why, !.deferred = n]
  BY <1>1 DEF Stop
<1>4. /\ at'.phase = "finish" /\ at'.file = at.file
      /\ \A field \in {"original", "current", "passes", "check", "first", "fresh"} :
            out'[field] = out[field]
  BY <1>3 DEF Inv, Types, AtTyped, OutTyped
<1>5. Hand /\ Hand'
  BY <1>2, <1>4 DEF Hand, InFile
<1>6. Others'
  BY <1>3, <1>4, <1>5, OthersKept DEF Inv
<1>7. Working' /\ Counted'
  BY <1>2, <1>3, <1>4 DEF Inv, Working, Counted, InFile
<1> QED
  BY <1>6, <1>7

LEMMA WriteHolds ==
    ASSUME Inv, WritePass
    PROVE  Working' /\ Counted' /\ Others'
<1> DEFINE taken == Accepted(Batch)
           next == Rewritten(out.current, taken)
           wait == Len(Batch) - Cardinality(taken)
<1>1. /\ at.phase = "pass" /\ UNCHANGED <<program, opts, kept, report>>
      /\ disk' = Target(next)
      /\ at' = [at EXCEPT !.phase = "written", !.next = next, !.taken = taken, !.wait = wait]
      /\ out' = [out EXCEPT !.last = ToSet(Batch)]
  BY DEF WritePass, Writes, InPass
<1> HIDE DEF wait
<1>2. /\ at'.phase = "written" /\ at'.file = at.file
      /\ at'.next = next /\ at'.taken = taken
      /\ out'.original = out.original /\ out'.current = out.current
      /\ out'.passes = out.passes /\ out'.check = out.check
      /\ out'.first = out.first /\ out'.fresh = out.fresh
  BY <1>1 DEF Inv, Types, AtTyped, OutTyped
<1>3. disk' = Seen(disk, opts, at.file, at'.next)
  BY <1>1, SaidAgain DEF Inv, Types, AtTyped
<1> HIDE DEF taken, next
<1>4. Hand /\ Hand'
  BY <1>1, <1>2 DEF Hand, InFile
<1>5. at.file \in Files /\ disk \in [Files -> Texts]
  BY <1>4, HandIsAFile DEF Inv, Types
<1>6. Others'
  BY <1>1, <1>2, <1>3, <1>4, OthersWritten DEF Inv
<1>7. Working'
  <2>1. disk'[at.file] = IF opts.dry THEN disk[at.file] ELSE at'.next
    BY <1>3, <1>5 DEF Seen
  <2>2. at'.next = Pass(program, out.current, at'.taken)
    BY <1>2, SaidAgain DEF next
  <2>3. /\ at.file \in program.own /\ report[at.file] = None
        /\ out.original = program.text[at.file]
        /\ out.current = Replay(program, out.original, out.passes)
        /\ opts.dry => disk[at.file] = out.original
    BY <1>1 DEF Inv, Working, InFile
  <2> QED
    BY <1>1, <1>2, <2>1, <2>2, <2>3 DEF Working
<1>8. Counted'
  <2>1. \A text : Seen(disk', opts, at.file, text) = Seen(disk, opts, at.file, text)
    BY <1>3, <1>5 DEF Seen
  <2> QED
    BY <1>1, <1>2, <1>4, <2>1 DEF Inv, Counted, Hand
<1> QED
  BY <1>6, <1>7, <1>8

\* What the check after a write finds, and that a pass kept leaves no more errors.
LEMMA RecheckFinds ==
    ASSUME Inv, at.phase = "written"
    PROVE  /\ Recheck = Found(program, at.file, at.next, Seen(disk, opts, at.file, at.next))
           /\ Recheck \in Texts
           /\ ~Worse => Count(program, Recheck) <= Count(program, out.check)
<1>1. at.file \in Files /\ at.next \in Texts /\ disk \in [Files -> Texts]
  BY HandIsAFile DEF Inv, Types, AtTyped, Hand, InFile
<1>2. Seen(disk, opts, at.file, at.next) = disk
  <2>1. ~opts.dry => disk[at.file] = at.next
    BY DEF Inv, Working, InFile
  <2> QED
    BY <1>1, <2>1 DEF Seen
<1>3. Recheck = Found(program, at.file, at.next, disk)
  BY SaidAgain DEF Recheck, CheckWritten
<1>4. Recheck \in Texts
  BY <1>1, FoundTyped DEF Recheck, CheckWritten
<1>5. ASSUME ~Worse PROVE Count(program, Recheck) <= Count(program, out.check)
  <2> DEFINE old == Count(program, out.check)
             fixed == Count(program, at.taken)
             new == Count(program, Recheck)
  <2>1. old \in Nat /\ fixed \in Nat /\ new \in Nat
    BY <1>4, Counts DEF Inv, Types, AtTyped, OutTyped
  <2>2. ~(new > (IF old < fixed THEN 0 ELSE old - fixed))
    BY <1>5, SaidAgain DEF Worse
  <2> HIDE DEF old, fixed, new
  <2>3. new <= old
    BY <2>1, <2>2
  <2> QED
    BY <2>3 DEF old, new
<1> QED
  BY <1>2, <1>3, <1>4, <1>5

LEMMA KeepHolds ==
    ASSUME Inv, KeepPass
    PROVE  Working' /\ Counted' /\ Others'
<1>1. /\ at.phase = "written" /\ ~Worse /\ UNCHANGED <<program, opts, disk, kept, report>>
      /\ at'.phase \in {"finish", "pass"} /\ at'.file = at.file
      /\ out' = [out EXCEPT !.passes = Append(out.passes, at.taken), !.current = at.next,
                            !.deferred = at.wait, !.check = Recheck]
  BY DEF KeepPass, Inv, Types, AtTyped
<1>2. /\ out'.original = out.original /\ out'.current = at.next
      /\ out'.passes = Append(out.passes, at.taken) /\ out'.check = Recheck
      /\ out'.first = out.first /\ out'.fresh = out.fresh
  BY <1>1 DEF Inv, Types, OutTyped
<1>3. Hand /\ Hand'
  BY <1>1 DEF Hand, InFile
<1>4. Others'
  BY <1>1, <1>3, OthersKept DEF Inv
<1>5. Working'
  <2>1. at.next = Pass(program, out.current, at.taken)
    BY <1>1, SaidAgain DEF Inv, Working, InFile
  <2>2. out.passes \in Seq(Texts) /\ at.taken \in Texts
    BY DEF Inv, Types, AtTyped, OutTyped
  <2>3. out.current = Replay(program, out.original, out.passes)
    BY <1>1 DEF Inv, Working, InFile
  <2>4. at.next = Replay(program, out.original, Append(out.passes, at.taken))
    BY <2>1, <2>2, <2>3, ReplayOneMore
  <2>5. /\ at.file \in program.own /\ report[at.file] = None
        /\ out.original = program.text[at.file]
        /\ disk[at.file] = IF opts.dry THEN out.original ELSE at.next
    BY <1>1 DEF Inv, Working, InFile
  <2>6. at'.phase # "written"
    BY <1>1
  <2> QED
    BY <1>1, <1>2, <2>4, <2>5, <2>6 DEF Working
<1>6. Counted'
  <2>1. /\ Recheck = Found(program, at.file, at.next, Seen(disk, opts, at.file, at.next))
        /\ Count(program, Recheck) <= Count(program, out.check)
    BY <1>1, RecheckFinds
  <2>2. /\ out.first = Found(program, at.file, out.original,
                             Seen(disk, opts, at.file, out.original))
        /\ out.fresh => Count(program, out.check) <= Count(program, out.first)
    BY <1>3 DEF Inv, Counted, Hand
  <2>3. /\ Count(program, Recheck) \in Nat /\ Count(program, out.check) \in Nat
        /\ Count(program, out.first) \in Nat
    BY <1>1, RecheckFinds, Counts DEF Inv, Types, OutTyped
  <2> QED
    BY <1>1, <1>2, <2>1, <2>2, <2>3 DEF Counted
<1> QED
  BY <1>4, <1>5, <1>6

LEMMA RevertHolds ==
    ASSUME Inv, RevertPass
    PROVE  Working' /\ Counted' /\ Others'
<1>1. /\ at.phase = "written" /\ UNCHANGED <<program, opts, kept, report>>
      /\ disk' = Target(out.current)
      /\ at'.phase = "finish" /\ at'.file = at.file
      /\ out' = [out EXCEPT !.stopped = "reverted"]
  BY DEF RevertPass, Inv, Types, AtTyped
<1>2. /\ out'.original = out.original /\ out'.current = out.current
      /\ out'.passes = out.passes /\ out'.check = out.check
      /\ out'.first = out.first /\ out'.fresh = out.fresh
  BY <1>1 DEF Inv, Types, OutTyped
<1>3. disk' = Seen(disk, opts, at.file, out.current)
  BY <1>1, SaidAgain
<1>4. Hand /\ Hand'
  BY <1>1 DEF Hand, InFile
<1>5. at.file \in Files /\ disk \in [Files -> Texts]
  BY <1>4, HandIsAFile DEF Inv, Types
<1>6. Others'
  BY <1>1, <1>3, <1>4, OthersWritten DEF Inv
<1>7. Working'
  <2>1. disk'[at.file] = IF opts.dry THEN disk[at.file] ELSE out.current
    BY <1>3, <1>5 DEF Seen
  <2>2. /\ at.file \in program.own /\ report[at.file] = None
        /\ out.original = program.text[at.file]
        /\ out.current = Replay(program, out.original, out.passes)
        /\ opts.dry => disk[at.file] = out.original
    BY <1>1 DEF Inv, Working, InFile
  <2> QED
    BY <1>1, <1>2, <2>1, <2>2 DEF Working
<1>8. Counted'
  <2>1. \A text : Seen(disk', opts, at.file, text) = Seen(disk, opts, at.file, text)
    BY <1>3, <1>5 DEF Seen
  <2> QED
    BY <1>1, <1>2, <1>4, <2>1 DEF Inv, Counted, Hand
<1> QED
  BY <1>6, <1>7, <1>8

\* What is said of a file when its passes are over.
LEMMA FinishedIsTrue ==
    ASSUME Inv, at.phase = "finish"
    PROVE  /\ Finished.contents = Replay(program, Finished.original, Finished.passes)
           /\ Finished.changed <=> Finished.contents # Finished.original
           /\ disk[at.file] = IF opts.dry THEN Finished.original ELSE Finished.contents
           /\ Finished.fresh => Count(program, Finished.left) <= Count(program, Finished.first)
<1>1. Hand /\ disk \in [Files -> Texts] /\ at.file \in Files
  BY HandIsAFile DEF Inv, Types, Hand, InFile
<1>2. /\ out.current = Replay(program, out.original, out.passes)
      /\ disk[at.file] = IF opts.dry THEN out.original ELSE out.current
  BY DEF Inv, Working, InFile
<1>3. ASSUME out.fresh PROVE Count(program, Remaining) <= Count(program, out.first)
  <2>1. /\ out.first = Found(program, at.file, out.original,
                             Seen(disk, opts, at.file, out.original))
        /\ out.check = Found(program, at.file, out.current,
                             Seen(disk, opts, at.file, out.current))
        /\ Count(program, out.check) <= Count(program, out.first)
    BY <1>1, <1>3 DEF Inv, Counted, Hand
  <2>2. Count(program, out.first) \in Nat
    BY Counts DEF Inv, Types, OutTyped
  <2>3. CASE opts.dry /\ Changed
    BY <2>1, <2>3 DEF Remaining
  <2>4. CASE ~(opts.dry /\ Changed)
    <3>1. Remaining = Found(program, at.file, disk[at.file], disk)
      BY <2>4, SaidAgain DEF Remaining, CheckWritten
    <3>2. disk[at.file] = out.current
      BY <1>2, <2>4 DEF Changed
    <3>3. Seen(disk, opts, at.file, out.current) = disk
      BY <1>1, <3>2, SeenThere
    <3> QED
      BY <2>1, <3>1, <3>2, <3>3
  <2> QED
    BY <2>3, <2>4
<1> QED
  BY <1>2, <1>3 DEF Finished, Changed

LEMMA FinishHolds ==
    ASSUME Inv, FinishFile
    PROVE  Working' /\ Counted' /\ Others'
<1>1. /\ at.phase = "finish" /\ at'.phase = "files" /\ at'.file = at.file
      /\ UNCHANGED <<program, opts, disk>>
      /\ report' = [report EXCEPT ![at.file] = Finished]
  BY FinishIs DEF FinishFile, Inv, Types, AtTyped
<1>2. at.file \in Files /\ at.file \in program.own
  BY <1>1, HandIsAFile DEF Inv, Hand, InFile, Working
<1>3. Finished # None
  BY <1>2, FinishedTyped, NoneIsNoReport DEF Inv
<1>4. report'[at.file] = Finished /\ \A g \in Files : g # at.file => report'[g] = report[g]
  BY <1>1, <1>2 DEF Inv, Types
<1>5. ASSUME NEW g \in Files PROVE Told(g)' /\ Untouched(g)'
  <2>1. CASE g = at.file
    <3>1. Told(g)'
      <4> HIDE DEF Finished
      <4> QED
        BY <1>1, <1>4, <2>1, FinishedIsTrue DEF Told
    <3>2. Untouched(g)'
      BY <1>1, <1>2, <1>3, <1>4, <2>1 DEF Untouched
    <3> QED
      BY <3>1, <3>2
  <2>2. CASE g # at.file
    <3>1. Told(g) /\ Untouched(g) /\ report'[g] = report[g]
      BY <1>4, <2>2 DEF Inv, Others
    <3> QED
      BY <1>1, <2>2, <3>1 DEF Told, Untouched, InFile
  <2> QED
    BY <2>1, <2>2
<1>6. Working' /\ Counted'
  BY <1>1 DEF Working, Counted, InFile
<1> QED
  BY <1>5, <1>6 DEF Others

LEMMA EndHolds ==
    ASSUME Inv, Begin \/ Fails \/ Judge
    PROVE  Working' /\ Counted' /\ Others'
<1>1. /\ UNCHANGED <<program, opts, disk, out, report>> /\ at'.file = at.file
      /\ at'.phase \in {"refused", "files", "failed", "judged"}
      /\ at.phase \in InFile => at'.phase = "failed"
      /\ at.phase # "failed"
  BY DEF Begin, Fails, Judge, Inv, Types, AtTyped, InFile
<1>2. Working' /\ Counted'
  BY <1>1 DEF Working, Counted, InFile
<1>3. Others'
  BY <1>1 DEF Inv, Others, Told, Untouched
<1> QED
  BY <1>2, <1>3

\* Only the file in hand, of which nothing was said, is touched.
LEMMA WriteFailsHolds ==
    ASSUME Inv, WriteFails
    PROVE  Working' /\ Counted' /\ Others'
<1>1. PICK text \in Texts : disk' = Target(text)
  BY WriteFailsInHand
<1>2. /\ at.phase \in {"pass", "written"} /\ UNCHANGED <<program, opts, report>>
      /\ at'.phase = "failed" /\ at'.file = at.file
  BY WriteFailsInHand DEF Inv, Types, AtTyped
<1>3. /\ at.file \in Files /\ disk \in [Files -> Texts]
      /\ report[at.file] = None /\ at.file \in program.own
  BY <1>2, HandIsAFile DEF Inv, Types, Working, Hand, InFile
<1>4. \A g \in Files : g # at.file => disk'[g] = disk[g]
  BY <1>1, <1>3 DEF Target
<1>5. Working' /\ Counted'
  BY <1>2 DEF Working, Counted, InFile
<1>6. ASSUME NEW g \in Files PROVE Told(g)' /\ Untouched(g)'
  BY <1>2, <1>3, <1>4 DEF Inv, Others, Told, Untouched, InFile
<1> QED
  BY <1>5, <1>6 DEF Others

-----------------------------------------------------------------------------
(* The theorems.                                                           *)

LEMMA InvInductive == ASSUME Inv, [Next]_vars PROVE Inv'
<1>1. Types'
  BY TypesKept DEF Inv
<1>2. CASE UNCHANGED vars
  <2>1. Working' /\ Counted' /\ Others'
    BY <1>2 DEF vars, Inv, Working, Counted, Others, Told, Untouched
  <2> QED
    BY <1>1, <2>1 DEF Inv
<1>3. CASE Next
  <2>1. Working' /\ Counted' /\ Others'
    BY <1>3, OpenHolds, LookHolds, StopHolds, WriteHolds, KeepHolds, RevertHolds, FinishHolds,
       EndHolds, WriteFailsHolds DEF Next, Stops
  <2> QED
    BY <1>1, <2>1 DEF Inv
<1> QED
  BY <1>2, <1>3

\* The run's state holds together: the file in hand is what its kept passes make of it,
\* the last check kept is of that text, and the other files are as told or untouched.
THEOREM RunInvariant == Spec => []Inv
<1>1. Init => Inv
  BY InitTyped, InitHolds DEF Inv
<1> QED
  BY <1>1, InvInductive, PTL DEF Spec

\* The tree is what the run says it is, whatever passes were put back, whichever check or
\* write failed and however the fixes overlap: a file reported holds what the listed fixes make
\* of what it was (fix_file's write, re-check and restore), every other file is as it was.
THEOREM TheTreeIsAsReported == Spec => []TreeIsAsReported
<1>1. ASSUME Inv PROVE TreeIsAsReported
  <2>1. ASSUME NEW f \in Files, report[f] # None
        PROVE  /\ report[f].contents = Replayed(report[f])
               /\ report[f].changed <=> report[f].contents # report[f].original
               /\ disk[f] = IF opts.dry THEN report[f].original ELSE report[f].contents
    <3>1. report[f].passes \in Seq(Texts)
      BY <1>1, <2>1 DEF Inv, Types, Reported
    <3>2. Replayed(report[f]) = Replay(program, report[f].original, report[f].passes)
      BY <3>1, ReplayedIs
    <3>3. Told(f)
      BY <1>1 DEF Inv, Others
    <3> QED
      BY <2>1, <3>2, <3>3 DEF Told
  <2>2. ASSUME NEW f \in Files PROVE Untouched(f)
    BY <1>1 DEF Inv, Others
  <2> QED
    BY <2>1, <2>2 DEF TreeIsAsReported, Untouched
<1> QED
  BY <1>1, RunInvariant, PTL

\* A file whose first check read the tree as it was is not left with more errors than it
\* had, for any number of passes and any fixes (the comparison in fix_file against the
\* errors the pass fixed).
THEOREM NoFileIsLeftWorse == Spec => []ErrorsNeverGrow
<1>1. ASSUME Inv PROVE ErrorsNeverGrow
  <2>1. ASSUME NEW f \in Files, report[f] # None, report[f].fresh
        PROVE  Cardinality(ErrorsOf(report[f].left)) <= Cardinality(ErrorsOf(report[f].first))
    <3>1. Told(f)
      BY <1>1 DEF Inv, Others
    <3>2. Count(program, report[f].left) <= Count(program, report[f].first)
      BY <2>1, <3>1 DEF Told
    <3> QED
      BY <3>2, SaidAgain
  <2> QED
    BY <2>1 DEF ErrorsNeverGrow
<1> QED
  BY <1>1, RunInvariant, PTL
=============================================================================
