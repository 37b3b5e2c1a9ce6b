--------------------------- MODULE TimeLimitProofs ---------------------------
(***************************************************************************)
(* Proofs about the two time limits a program runs under.  The first half  *)
(* is about Watchdog, for any number of clients, any durations and any     *)
(* bounds: its safety invariants, what it cancels, and that it implements  *)
(* DeadlineTimer.  The second is about Proc, for any descendants, pipe     *)
(* capacity and amount of output: what a call reports is what happened,    *)
(* what it ends is dead, and no reader is polled twice, however the        *)
(* processes, their pipes, the deadline and the drop of the future         *)
(* interleave.                                                             *)
(***************************************************************************)
EXTENDS Watchdog, Proc, FiniteSetTheorems, TLAPS

\* What makes the invariants inductive: ids are handed out once, each guard
\* has one of its own while its client is not idle, and the map holds only
\* ids that are guarded.
IdsAreFresh ==
  /\ \A i \in heap \union live \union fired \union GuardedIds : i < nextId
  /\ \A c \in Clients : guard[c] = None <=> client[c] = "idle"
  /\ \A c, d \in Clients : guard[c] # None /\ guard[c] = guard[d] => c = d
  /\ live \subseteq GuardedIds

Inv == TypeOK /\ IdsAreFresh /\ LiveInHeap /\ NoLostWakeup /\ HeapBounded

USE DEF Ids

LEMMA IdsFinite ==
  ASSUME NEW S \in SUBSET Ids
  PROVE  IsFiniteSet(S) /\ Cardinality(S) \in Nat
<1>1. IsFiniteSet(Ids)
  BY FS_Interval, WatchdogAssumption
<1> QED
  BY <1>1, FS_Subset, FS_CardinalityType

LEMMA SubsetIsSmaller ==
  ASSUME NEW S \in SUBSET Ids, NEW T \in SUBSET S
  PROVE  Cardinality(T) <= Cardinality(S)
BY IdsFinite, FS_Subset

LEMMA DueIsRepresentable ==
  ASSUME now \in 0 .. MaxTime, NEW after \in Durations
  PROVE  DueAt(after) \in 0 .. MaxInstant
BY WatchdogAssumption DEF DueAt

LEMMA TypesOfIds ==
  ASSUME TypeOK
  PROVE  /\ \A i \in Ids : i \in Nat /\ due[i] \in Nat
         /\ GuardedIds \subseteq Ids
<1>1. \A i \in Ids : i \in Nat
  OBVIOUS
<1>2. \A i \in Ids : due[i] \in 0 .. MaxInstant
  BY DEF TypeOK
<1>3. \A c \in Guarded : c \in Clients /\ guard[c] \in Ids
  BY DEF TypeOK, Guarded
<1> QED
  BY <1>1, <1>2, <1>3 DEF GuardedIds

LEMMA InitInv == Init => Inv
<1> SUFFICES ASSUME Init PROVE Inv
  OBVIOUS
<1>1. TypeOK
  <2>1. now \in 0 .. MaxTime /\ nextId \in 0 .. MaxWatches
    BY WatchdogAssumption DEF Init
  <2>2. due \in [Ids -> 0 .. MaxInstant]
    BY WatchdogAssumption DEF Init
  <2>3. guard \in [Clients -> Ids \union {None}]
    BY DEF Init
  <2>4. client \in [Clients -> {"idle", "notifying", "watching"}]
    BY DEF Init
  <2> QED
    BY <2>1, <2>2, <2>3, <2>4 DEF Init, TypeOK
<1>2. GuardedIds = {}
  BY DEF Init, GuardedIds, Guarded
<1>3. Cardinality({}) = 0
  BY FS_EmptySet
<1>4. HeapBounded
  BY <1>2, <1>3, WatchdogAssumption DEF Init, HeapBounded
<1> QED
  BY <1>1, <1>2, <1>4 DEF Init, Inv, IdsAreFresh, LiveInHeap, NoLostWakeup, Guarded

-----------------------------------------------------------------------------
(* The actions, one lemma each.                                            *)

LEMMA WatchInv ==
  ASSUME Inv, NEW c \in Clients, NEW after \in Durations, Watch(c, after)
  PROVE  Inv'
<1> USE DEF Inv
<1>1. nextId \in Ids /\ nextId \in Nat /\ DueAt(after) \in 0 .. MaxInstant
  BY DueIsRepresentable, WatchdogAssumption DEF Watch, TypeOK
<1>2. TypeOK'
  <2>1. due' \in [Ids -> 0 .. MaxInstant]
    BY <1>1 DEF Watch, TypeOK
  <2>2. guard' \in [Clients -> Ids \union {None}]
    BY <1>1 DEF Watch, TypeOK
  <2>3. client' \in [Clients -> {"idle", "notifying", "watching"}]
    BY DEF Watch, TypeOK
  <2>4. nextId' \in 0 .. MaxWatches
    BY <1>1, WatchdogAssumption DEF Watch, TypeOK
  <2> QED
    BY <1>1, <2>1, <2>2, <2>3, <2>4 DEF Watch, TypeOK
<1>3. guard[c] = None
  BY DEF IdsAreFresh, Watch
<1>4. nextId \notin GuardedIds /\ nextId \notin heap
  BY <1>1 DEF IdsAreFresh
<1>5. GuardedIds' = GuardedIds \union {nextId}
  <2>1. \A d \in Clients : guard'[d] = IF d = c THEN nextId ELSE guard[d]
    BY DEF Watch, TypeOK
  <2>2. nextId # None
    BY <1>1, WatchdogAssumption
  <2> QED
    BY <2>1, <2>2, <1>3 DEF GuardedIds, Guarded
<1>6. \A i \in Ids : i < nextId => due'[i] = due[i]
  BY <1>1 DEF Watch, TypeOK
<1>7. IdsAreFresh'
  <2>1. \A i \in (heap \union live \union fired \union GuardedIds)' : i < nextId'
    <3>1. \A i \in heap \union live \union fired \union GuardedIds : i \in Nat /\ i < nextId
      BY TypesOfIds DEF IdsAreFresh, TypeOK
    <3> QED
      BY <1>1, <1>5, <3>1 DEF Watch
  <2>2. \A d \in Clients : guard'[d] = None <=> client'[d] = "idle"
    BY <1>1, WatchdogAssumption DEF IdsAreFresh, TypeOK, Watch
  <2>3. \A d, e \in Clients : guard'[d] # None /\ guard'[d] = guard'[e] => d = e
    <3>1. \A d \in Clients : guard[d] # nextId
      BY <1>1, <1>4, WatchdogAssumption DEF GuardedIds, Guarded
    <3> QED
      BY <3>1 DEF IdsAreFresh, TypeOK, Watch
  <2> QED
    BY <1>5, <2>1, <2>2, <2>3 DEF IdsAreFresh, Watch
<1>8. LiveInHeap'
  BY DEF LiveInHeap, Watch
<1>9. NoLostWakeup'
  <2> SUFFICES ASSUME dog' = "waiting" PROVE NoLostWakeup'
    BY DEF NoLostWakeup
  <2>1. dog = "waiting"
    BY DEF Watch
  <2>2. ASSUME NEW d \in Guarded', guard'[d] \in live'
        PROVE  \/ client'[d] = "notifying"
               \/ wakeAt' # None /\ wakeAt' <= due'[guard'[d]]
    <3>0. d \in Clients
      BY DEF Guarded
    <3>1. CASE d = c
      <4>1. client' = [client EXCEPT ![c] = "notifying"]
        BY DEF Watch
      <4> QED
        BY <3>1, <4>1 DEF TypeOK
    <3>2. CASE d # c
      <4>1. guard'[d] = guard[d] /\ client'[d] = client[d]
        BY <3>0, <3>2 DEF Watch, TypeOK
      <4>2. d \in Guarded
        BY <3>0, <4>1 DEF Guarded
      <4>3. guard[d] # nextId
        BY <4>2, <1>4 DEF GuardedIds
      <4>4. guard[d] \in live
        BY <2>2, <4>1, <4>3 DEF Watch
      <4>5. guard[d] \in Ids /\ guard[d] < nextId
        BY <4>4 DEF TypeOK, IdsAreFresh
      <4>6. due'[guard'[d]] = due[guard[d]] /\ wakeAt' = wakeAt
        BY <4>1, <4>5, <1>6 DEF Watch
      <4>7. \/ client[d] = "notifying"
            \/ wakeAt # None /\ wakeAt <= due[guard[d]]
        BY <2>1, <4>2, <4>4 DEF NoLostWakeup
      <4> QED
        BY <4>1, <4>6, <4>7
    <3> QED
      BY <3>1, <3>2
  <2> QED
    BY <2>1, <2>2 DEF Watch, NoLostWakeup
<1>10. HeapBounded'
  <2>1. /\ Cardinality(heap') = Cardinality(heap) + 1
        /\ Cardinality(heap) \in Nat
    BY <1>4, IdsFinite, FS_AddElement DEF Watch, TypeOK
  <2>2. /\ Cardinality(GuardedIds') = Cardinality(GuardedIds) + 1
        /\ Cardinality(GuardedIds) \in Nat
    <3>1. GuardedIds \in SUBSET Ids
      BY DEF GuardedIds, Guarded, TypeOK
    <3> QED
      BY <1>4, <1>5, <3>1, IdsFinite, FS_AddElement
  <2> QED
    BY <2>1, <2>2, WatchdogAssumption DEF HeapBounded
<1> QED
  BY <1>2, <1>7, <1>8, <1>9, <1>10

LEMMA UnwatchInv ==
  ASSUME Inv, NEW c \in Clients, Unwatch(c)
  PROVE  Inv'
<1> USE DEF Inv
<1> DEFINE kept == live \ {guard[c]}
<1>1. /\ heap' \subseteq heap
      /\ live' = kept
      /\ heap' = IF Overgrown(heap, kept) THEN Rebuilt(heap, kept) ELSE heap
  BY DEF Unwatch, Rebuilt
<1>2. TypeOK'
  <2>1. guard' \in [Clients -> Ids \union {None}]
    BY DEF Unwatch, TypeOK
  <2>2. client' \in [Clients -> {"idle", "notifying", "watching"}]
    BY DEF Unwatch, TypeOK
  <2> QED
    BY <1>1, <2>1, <2>2 DEF Unwatch, TypeOK
<1>3. \A d \in Clients : guard'[d] = IF d = c THEN None ELSE guard[d]
  BY DEF Unwatch, TypeOK
<1>4. Guarded' = Guarded \ {c}
  BY <1>3 DEF Guarded
<1>5. GuardedIds' \subseteq GuardedIds /\ kept \subseteq GuardedIds'
  BY <1>3, <1>4 DEF GuardedIds, Guarded, IdsAreFresh
<1>6. IdsAreFresh'
  <2>1. \A d \in Clients : guard'[d] = None <=> client'[d] = "idle"
    BY <1>3 DEF IdsAreFresh, TypeOK, Unwatch
  <2>2. \A d, e \in Clients : guard'[d] # None /\ guard'[d] = guard'[e] => d = e
    BY <1>3 DEF IdsAreFresh
  <2> QED
    BY <1>1, <1>5, <2>1, <2>2 DEF IdsAreFresh, Unwatch
<1>7. LiveInHeap'
  BY <1>1 DEF LiveInHeap, Rebuilt
<1>8. NoLostWakeup'
  BY <1>1, <1>3, <1>4 DEF NoLostWakeup, Unwatch, TypeOK
<1>9. HeapBounded'
  <2>1. /\ IsFiniteSet(GuardedIds') /\ Cardinality(GuardedIds') \in Nat
        /\ Cardinality(kept) <= Cardinality(GuardedIds')
        /\ Cardinality(kept) \in Nat /\ Cardinality(heap) \in Nat
    <3>1. GuardedIds' \in SUBSET Ids /\ kept \in SUBSET Ids
      BY <1>2, <1>5, <1>1 DEF TypeOK, GuardedIds, Guarded
    <3> QED
      BY <3>1, <1>5, IdsFinite, SubsetIsSmaller DEF TypeOK
  <2>2. CASE Overgrown(heap, kept)
    <3>1. Cardinality(heap') <= Cardinality(kept) /\ Cardinality(heap') \in Nat
      BY <1>1, <2>2, IdsFinite, SubsetIsSmaller DEF Rebuilt, TypeOK
    <3> QED
      BY <2>1, <3>1, WatchdogAssumption DEF HeapBounded
  <2>3. CASE ~Overgrown(heap, kept)
    BY <1>1, <2>1, <2>3, WatchdogAssumption DEF Overgrown, HeapBounded
  <2> QED
    BY <2>2, <2>3
<1> QED
  BY <1>2, <1>6, <1>7, <1>8, <1>9

LEMMA ScanInv ==
  ASSUME Inv, Scan
  PROVE  Inv'
<1> USE DEF Inv
<1>1. UNCHANGED <<now, nextId, due, stop, guard, client, stopper>> /\ ~stop
  BY DEF Scan
<1>2. \A i \in live' : i \in Ahead /\ i \in live /\ i \in heap
  BY DEF Scan, Overdue, Ahead, LiveInHeap, TypeOK
<1>3. heap' \subseteq heap
  BY DEF Scan
<1>4. \/ live' = {} /\ wakeAt' = None
      \/ \E next \in Ahead :
           /\ wakeAt' = due[next] /\ next \in Ids
           /\ \A i \in live' : i \in heap' /\ due[next] <= due[i]
  <2>1. CASE Ahead = {} /\ wakeAt' = None
    BY <1>2, <2>1
  <2>2. CASE \E next \in Ahead :
               /\ \A i \in Ahead \ {next} : Before(next, i)
               /\ heap' = {i \in heap : ~Before(i, next)}
               /\ wakeAt' = due[next]
    <3>1. PICK next \in Ahead :
            /\ \A i \in Ahead \ {next} : Before(next, i)
            /\ heap' = {i \in heap : ~Before(i, next)}
            /\ wakeAt' = due[next]
      BY <2>2
    <3>2. next \in Ids /\ next \in Nat /\ due[next] \in Nat
      BY TypesOfIds DEF Ahead, TypeOK
    <3>3. ASSUME NEW i \in live' PROVE i \in heap' /\ due[next] <= due[i]
      <4>1. i \in Ahead /\ i \in heap /\ i \in Nat /\ due[i] \in Nat
        BY <1>2, TypesOfIds DEF TypeOK
      <4>2. CASE i = next
        BY <3>1, <3>2, <4>1, <4>2 DEF Before
      <4>3. CASE i # next
        BY <3>1, <3>2, <4>1, <4>3 DEF Before
      <4> QED
        BY <4>2, <4>3
    <3> QED
      BY <3>1, <3>2, <3>3
  <2> QED
    BY <2>1, <2>2 DEF Scan
<1>5. TypeOK'
  <2>1. wakeAt' \in Nat \union {None}
    BY <1>4 DEF TypeOK
  <2> QED
    BY <1>1, <1>2, <1>3, <2>1 DEF Scan, TypeOK, Overdue
<1>6. GuardedIds' = GuardedIds /\ Guarded' = Guarded
  BY <1>1 DEF GuardedIds, Guarded
<1>7. IdsAreFresh'
  BY <1>1, <1>2, <1>3, <1>6 DEF IdsAreFresh, Scan, Overdue
<1>8. LiveInHeap'
  BY <1>4 DEF LiveInHeap
<1>9. NoLostWakeup'
  BY <1>1, <1>4, <1>6, WatchdogAssumption DEF NoLostWakeup, TypeOK
<1>10. HeapBounded'
  <2>1. /\ Cardinality(heap') <= Cardinality(heap)
        /\ Cardinality(heap') \in Nat /\ Cardinality(heap) \in Nat
    BY <1>3, IdsFinite, SubsetIsSmaller DEF TypeOK
  <2>2. Cardinality(GuardedIds) \in Nat
    BY IdsFinite DEF GuardedIds, Guarded, TypeOK
  <2> QED
    BY <1>6, <2>1, <2>2, WatchdogAssumption DEF HeapBounded
<1> QED
  BY <1>5, <1>7, <1>8, <1>9, <1>10

\* What moves the threads and the clock alone.
LEMMA ThreadStepInv ==
  ASSUME Inv,
         \/ \E c \in Clients : WatchNotify(c)
         \/ Stop \/ StopNotify \/ WakeOnTime \/ WakeSpuriously \/ DogEnds \/ Tick
         \/ UNCHANGED vars
  PROVE  Inv'
<1> USE DEF Inv
<1>1. UNCHANGED <<nextId, due, heap, live, guard, wakeAt, fired>>
  BY DEF WatchNotify, Stop, StopNotify, WakeOnTime, WakeSpuriously, DogEnds, Tick, vars
<1>2. GuardedIds' = GuardedIds /\ Guarded' = Guarded
  BY <1>1 DEF GuardedIds, Guarded
<1>3. /\ now' \in 0 .. MaxTime
      /\ dog' \in {"awake", "waiting", "ended"}
      /\ stop' \in BOOLEAN
      /\ stopper' \in {"idle", "notifying", "done"}
  <2>1. now' \in 0 .. MaxTime
    BY WatchdogAssumption DEF TypeOK, WatchNotify, Stop, StopNotify, WakeOnTime,
         WakeSpuriously, DogEnds, Tick, vars
  <2>2. dog' \in {"awake", "waiting", "ended"}
    BY DEF TypeOK, WatchNotify, NotifyOne, Stop, StopNotify, WakeOnTime,
         WakeSpuriously, DogEnds, Tick, vars
  <2>3. stop' \in BOOLEAN /\ stopper' \in {"idle", "notifying", "done"}
    BY DEF TypeOK, WatchNotify, Stop, StopNotify, WakeOnTime, WakeSpuriously,
         DogEnds, Tick, vars
  <2> QED
    BY <2>1, <2>2, <2>3
<1>4. /\ client' \in [Clients -> {"idle", "notifying", "watching"}]
      /\ \A c \in Clients : client'[c] = "idle" <=> client[c] = "idle"
  BY DEF TypeOK, WatchNotify, Stop, StopNotify, WakeOnTime, WakeSpuriously,
         DogEnds, Tick, vars
<1>5. NoLostWakeup'
  <2> SUFFICES ASSUME dog' = "waiting" PROVE NoLostWakeup'
    BY DEF NoLostWakeup
  <2>1. dog = "waiting" /\ client' = client
    BY DEF WatchNotify, NotifyOne, Stop, StopNotify, WakeOnTime, WakeSpuriously,
           DogEnds, Tick, vars
  <2>2. stop' => stopper' = "notifying"
    BY <2>1 DEF NoLostWakeup, TypeOK, WatchNotify, NotifyOne, Stop, StopNotify,
         WakeOnTime, WakeSpuriously, DogEnds, Tick, vars
  <2> QED
    BY <1>1, <1>2, <2>1, <2>2 DEF NoLostWakeup
<1> QED
  BY <1>1, <1>2, <1>3, <1>4, <1>5 DEF TypeOK, IdsAreFresh, LiveInHeap, HeapBounded

LEMMA NextInv == Inv /\ [Next]_vars => Inv'
BY WatchInv, UnwatchInv, ScanInv, ThreadStepInv DEF Next

\* The inductive invariant holds.
THEOREM WatchdogInvariant == Spec => []Inv
BY InitInv, NextInv, PTL DEF Spec

\* Every value of the state has its type: DueAt never overflows an instant.
THEOREM TypesHold == Spec => []TypeOK
BY WatchdogInvariant, PTL DEF Inv

\* Neither Watched::drop's rebuild nor a scan loses a registered deadline.
THEOREM NoDeadlineIsLost == Spec => []LiveInHeap
BY WatchdogInvariant, PTL DEF Inv

\* While the watchdog sleeps, every deadline it does not know of, and every
\* stop, has a notify_one on its way.
THEOREM NoWakeupIsLost == Spec => []NoLostWakeup
BY WatchdogInvariant, PTL DEF Inv

\* However many calls come and go under a long deadline, the heap stays within
\* twice the guards that exist, and the slack.
THEOREM HeapStaysBounded == Spec => []HeapBounded
BY WatchdogInvariant, PTL DEF Inv

-----------------------------------------------------------------------------
(* What the watchdog cancels, and the timer it implements.                 *)

\* One step: what is added to `fired` is due, and some client guards it.
LEMMA StepFires ==
  ASSUME Inv, [Next]_vars, NEW i \in fired' \ fired
  PROVE  Scan /\ i \in Overdue /\ i \in GuardedIds
<1>1. Scan
  BY DEF Next, vars, Watch, WatchNotify, Unwatch, Stop, StopNotify, Scan,
         WakeOnTime, WakeSpuriously, DogEnds, Tick
<1>2. i \in Overdue
  BY <1>1 DEF Scan
<1>3. i \in GuardedIds
  BY <1>2 DEF Inv, IdsAreFresh, Overdue
<1> QED
  BY <1>1, <1>2, <1>3

\* A token is cancelled only past its deadline and while its guard is held: a
\* call that returned is not cancelled afterwards.
THEOREM FiresOnlyWhatIsDue == Spec => FiresOnlyOverdueGuarded
<1>1. Inv /\ [Next]_vars =>
        [\A i \in fired' \ fired : due[i] <= now /\ \E c \in Clients : guard[c] = i]_vars
  <2> SUFFICES ASSUME Inv, [Next]_vars, NEW i \in fired' \ fired
               PROVE  due[i] <= now /\ \E c \in Clients : guard[c] = i
    OBVIOUS
  <2>1. i \in Overdue /\ i \in GuardedIds
    BY StepFires
  <2> QED
    BY <2>1 DEF Overdue, GuardedIds, Guarded
<1> QED
  BY <1>1, WatchdogInvariant, PTL DEF Spec, FiresOnlyOverdueGuarded

\* The timer's `deadline`, as Watchdog's INSTANCE maps it.
DeadlineOf(g, d, i) == IF \E c \in Clients : g[c] = i THEN d[i] ELSE None
TimerDeadline == [i \in Ids |-> DeadlineOf(guard, due, i)]

\* watch() registers a token with the timer.
LEMMA WatchRegisters ==
  ASSUME Inv, NEW c \in Clients, NEW after \in Durations, Watch(c, after)
  PROVE  \E t \in Ids : Timer!Register(t, after)
<1> USE DEF Inv
<1>1. nextId \in Ids /\ nextId \in Nat /\ DueAt(after) \in 0 .. MaxInstant
  BY DueIsRepresentable, WatchdogAssumption DEF Watch, TypeOK
<1>2. guard[c] = None
  BY DEF IdsAreFresh, Watch
<1>3. nextId \notin GuardedIds /\ nextId \notin fired
  BY <1>1 DEF IdsAreFresh
<1>4. \A d \in Clients : guard[d] # nextId
  BY <1>1, <1>3, WatchdogAssumption DEF GuardedIds, Guarded
<1>5. TimerDeadline[nextId] = None
  BY <1>1, <1>4 DEF TimerDeadline, DeadlineOf
<1>6. TimerDeadline' = [TimerDeadline EXCEPT ![nextId] = DueAt(after)]
  <2>1. ASSUME NEW i \in Ids
        PROVE  TimerDeadline'[i] = IF i = nextId THEN DueAt(after) ELSE TimerDeadline[i]
    <3>1. /\ \A d \in Clients : guard'[d] = IF d = c THEN nextId ELSE guard[d]
          /\ due'[i] = IF i = nextId THEN DueAt(after) ELSE due[i]
      BY DEF Watch, TypeOK
    <3>2. CASE i = nextId
      BY <3>1, <3>2 DEF TimerDeadline, DeadlineOf
    <3>3. CASE i # nextId
      <4>1. (\E d \in Clients : guard'[d] = i) <=> (\E d \in Clients : guard[d] = i)
        BY <3>1, <3>3, <1>2, WatchdogAssumption
      <4> QED
        BY <3>1, <3>3, <4>1 DEF TimerDeadline, DeadlineOf
    <3> QED
      BY <3>2, <3>3
  <2> QED
    BY <2>1, <1>1 DEF TimerDeadline
<1>7. now' = now /\ fired' = fired
  BY DEF Watch
<1> QED
  BY <1>1, <1>3, <1>5, <1>6, <1>7
  DEF Timer!Register, Timer!DueAt, DueAt, TimerDeadline, DeadlineOf

\* Dropping the guard releases the token, and no other.
LEMMA UnwatchReleases ==
  ASSUME Inv, NEW c \in Clients, Unwatch(c)
  PROVE  \E t \in Ids : Timer!Release(t)
<1> USE DEF Inv
<1>1. guard[c] # None /\ guard[c] \in Ids
  BY DEF Unwatch, IdsAreFresh, TypeOK
<1>2. due[guard[c]] # None
  BY <1>1, TypesOfIds, WatchdogAssumption
<1>3. TimerDeadline[guard[c]] # None
  BY <1>1, <1>2 DEF TimerDeadline, DeadlineOf
<1>4. TimerDeadline' = [TimerDeadline EXCEPT ![guard[c]] = None]
  <2>1. ASSUME NEW i \in Ids
        PROVE  TimerDeadline'[i] = IF i = guard[c] THEN None ELSE TimerDeadline[i]
    <3>1. /\ \A d \in Clients : guard'[d] = IF d = c THEN None ELSE guard[d]
          /\ due' = due
      BY DEF Unwatch, TypeOK
    <3>2. CASE i = guard[c]
      <4>1. \A d \in Clients : guard'[d] # i
        BY <3>1, <3>2, <1>1 DEF IdsAreFresh
      <4> QED
        BY <3>2, <4>1 DEF TimerDeadline, DeadlineOf
    <3>3. CASE i # guard[c]
      <4>1. (\E d \in Clients : guard'[d] = i) <=> (\E d \in Clients : guard[d] = i)
        BY <3>1, <3>3, WatchdogAssumption
      <4> QED
        BY <3>1, <3>3, <4>1 DEF TimerDeadline, DeadlineOf
    <3> QED
      BY <3>2, <3>3
  <2> QED
    BY <2>1 DEF TimerDeadline
<1>5. now' = now /\ fired' = fired
  BY DEF Unwatch
<1> QED
  BY <1>1, <1>3, <1>4, <1>5
  DEF Timer!Release, Timer!Registered, TimerDeadline, DeadlineOf

\* A scan cancels registered tokens that are due, or changes nothing.
LEMMA ScanFires ==
  ASSUME Inv, Scan
  PROVE  Timer!Fire(Overdue) \/ UNCHANGED Timer!timerVars
<1> USE DEF Inv
<1>1. TimerDeadline' = TimerDeadline /\ now' = now
  BY DEF Scan, TimerDeadline
<1>2. CASE Overdue = {}
  BY <1>1, <1>2 DEF Scan, Timer!timerVars, TimerDeadline, DeadlineOf
<1>3. CASE Overdue # {}
  <2>1. ASSUME NEW i \in Overdue
        PROVE  /\ i \in Ids /\ TimerDeadline[i] = due[i]
               /\ due[i] # None /\ due[i] <= now
    <3>1. i \in Ids /\ i \in GuardedIds /\ due[i] <= now
      BY DEF Overdue, IdsAreFresh, TypeOK
    <3>2. due[i] # None
      BY <3>1, TypesOfIds, WatchdogAssumption
    <3> QED
      BY <3>1, <3>2 DEF TimerDeadline, DeadlineOf, GuardedIds, Guarded
  <2>2. fired' = fired \union Overdue
    BY DEF Scan
  <2> QED
    BY <1>1, <1>3, <2>1, <2>2
    DEF Timer!Fire, Timer!Registered, TimerDeadline, DeadlineOf
<1> QED
  BY <1>2, <1>3

LEMMA StepImplementsTimer ==
  Inv /\ [Next]_vars => [Timer!TimerNext]_(Timer!timerVars)
<1> SUFFICES ASSUME Inv, [Next]_vars
             PROVE  Timer!TimerNext \/ UNCHANGED Timer!timerVars
  OBVIOUS
<1>1. CASE \E c \in Clients, after \in Durations : Watch(c, after)
  <2>1. PICK c \in Clients, after \in Durations : Watch(c, after)
    BY <1>1
  <2> QED
    BY <2>1, WatchRegisters DEF Timer!TimerNext
<1>2. CASE \E c \in Clients : Unwatch(c)
  <2>1. PICK c \in Clients : Unwatch(c)
    BY <1>2
  <2> QED
    BY <2>1, UnwatchReleases DEF Timer!TimerNext
<1>3. CASE Scan
  <2>1. Overdue \in SUBSET Ids
    BY DEF Overdue, Inv, TypeOK
  <2> QED
    BY <1>3, <2>1, ScanFires DEF Timer!TimerNext
<1>4. CASE Tick
  BY <1>4 DEF Tick, Timer!Tick, Timer!TimerNext
<1>5. CASE \/ \E c \in Clients : WatchNotify(c)
           \/ Stop \/ StopNotify \/ WakeOnTime \/ WakeSpuriously \/ DogEnds
           \/ UNCHANGED vars
  <2>1. UNCHANGED <<now, due, guard, fired>>
    BY <1>5 DEF WatchNotify, Stop, StopNotify, WakeOnTime, WakeSpuriously, DogEnds, vars
  <2> QED
    BY <2>1 DEF Timer!timerVars
<1> QED
  BY <1>1, <1>2, <1>3, <1>4, <1>5 DEF Next

\* The heap, the map, the condition variable and the thread implement the
\* timer a call is promised: cancelled once due, never sooner, never late of
\* its release.
THEOREM WatchdogImplementsTimer == Spec => ImplementsTimer
<1>1. Init => Timer!TimerInit
  BY WatchdogAssumption DEF Init, Timer!TimerInit
<1> QED
  BY <1>1, StepImplementsTimer, WatchdogInvariant, PTL
  DEF Spec, ImplementsTimer, Timer!TimerSpec

-----------------------------------------------------------------------------
(* std.proc.run.                                                           *)

Killing == {"killing", "take", "drained"}
Drained == {"reap", "drain stdout", "drain stderr", "drained"}

\* A reader at its end has read all there was, and nobody is left to write;
\* the handles run() took out are those of such readers.
ReadersAreSound ==
  /\ \A i \in Pipes : reader[i] = "ended" => inPipe[i] = 0 /\ Holders(i) = {}
  /\ call = "called" => \A i \in Pipes : reader[i] = "none"
  /\ call \in {"wait", "killing"} => \A i \in Pipes : slot[i]
  /\ call = "drain" => \A i \in Pipes : slot[i] \/ reader[i] = "ended"
  /\ call = "take" \/ (call = "answered" /\ ~timedOut) =>
       \A i \in Pipes : reader[i] = "ended"

\* The guard is armed as long as the future can be dropped; before the spawn, and
\* once the group was killed, nothing in it runs, and nothing that runs gets into it.
GroupIsSound ==
  /\ Awaiting \/ call \in Killing => armed
  /\ call = "called" => ~timedOut
  /\ call \in Drained => timedOut
  /\ timedOut \/ call \in {"called", "dropped", "raised"} => group \intersect Running = {}
  /\ \A p \in group : proc[p] # "unborn"

ProcInv == ProcTypeOK /\ ReadersAreSound /\ GroupIsSound /\ NoHandlePolledTwice

-----------------------------------------------------------------------------

\* The amounts of a pipe, for the steps that count.
LEMMA Amounts ==
  ASSUME ProcInv, NEW i \in Pipes
  PROVE  /\ wrote[i] \in Nat /\ inPipe[i] \in Nat /\ buf[i] \in Nat
         /\ wrote[i] <= MaxOutput /\ inPipe[i] <= PipeCap /\ wrote[i] = buf[i] + inPipe[i]
         /\ PipeCap \in Nat /\ MaxOutput \in Nat
<1>1. wrote[i] \in 0 .. MaxOutput /\ inPipe[i] \in 0 .. PipeCap /\ buf[i] \in 0 .. MaxOutput
  BY DEF ProcInv, ProcTypeOK
<1>2. wrote[i] = buf[i] + inPipe[i]
  BY DEF ProcInv, ProcTypeOK
<1> QED
  BY <1>1, <1>2, ProcAssumption DEF ProcInv

\* A step of the processes, and one of the pipes.
LEMMA ProcsTyped ==
  ASSUME ProcTypeOK, UNCHANGED <<pipeVars, callVars, stranger, panicked>>,
         proc' \in [Procs -> {"unborn", "running", "zombie", "gone"}],
         group' \subseteq Procs, holds' \in [Procs -> SUBSET Pipes]
  PROVE  ProcTypeOK'
<1>1. /\ UNCHANGED <<wrote, inPipe, buf, reader>> /\ UNCHANGED <<stranger, panicked>>
      /\ UNCHANGED <<slot, call, deadline, timedOut, armed, bound>>
  BY DEF pipeVars, callVars
<1>2. \A i \in Pipes : wrote'[i] = buf'[i] + inPipe'[i]
  BY <1>1 DEF ProcTypeOK
<1> QED
  BY <1>1, <1>2, Zenon DEF ProcTypeOK

LEMMA PipesTyped ==
  ASSUME ProcTypeOK, UNCHANGED <<procVars, callVars, stranger, panicked>>,
         wrote' \in [Pipes -> 0 .. MaxOutput], inPipe' \in [Pipes -> 0 .. PipeCap],
         buf' \in [Pipes -> 0 .. MaxOutput], reader' \in [Pipes -> {"none", "reading", "ended"}],
         \A i \in Pipes : wrote'[i] = buf'[i] + inPipe'[i]
  PROVE  ProcTypeOK'
BY DEF ProcTypeOK, procVars, callVars

\* What a step that does not touch them leaves sound: the readers, if no pipe nobody
\* could write to has got a writer, and the group.
LEMMA ReadersStay ==
  ASSUME ReadersAreSound, UNCHANGED <<inPipe, reader, slot, call, timedOut>>,
         \A i \in Pipes : Holders(i) = {} => Holders(i)' = {}
  PROVE  ReadersAreSound'
BY DEF ReadersAreSound

LEMMA GroupStays ==
  ASSUME GroupIsSound, UNCHANGED <<proc, group, call, timedOut, armed>>
  PROVE  GroupIsSound'
BY DEF GroupIsSound, Awaiting, Running

LEMMA SpawnKeeps == ASSUME ProcInv, Spawn PROVE ProcInv'
<1>1. ProcTypeOK'
  BY ProcAssumption DEF ProcInv, ProcTypeOK, Spawn, Procs, Running, procVars, pipeVars, callVars,
     Pipes
<1>2. ReadersAreSound'
  BY <1>1 DEF ProcInv, ProcTypeOK, ReadersAreSound, Spawn, Procs, Running, Holders, procVars,
     pipeVars, callVars, Pipes
<1>3. GroupIsSound'
  BY <1>1, ProcAssumption DEF ProcInv, ProcTypeOK, GroupIsSound, Awaiting, Killing, Drained,
     Spawn, Procs, Running, procVars, pipeVars, callVars
<1>4. NoHandlePolledTwice'
  BY DEF ProcInv, NoHandlePolledTwice, Spawn, procVars, pipeVars, callVars
<1> QED
  BY <1>1, <1>2, <1>3, <1>4 DEF ProcInv

LEMMA RaiseKeeps == ASSUME ProcInv, Raise PROVE ProcInv'
<1>1. ProcTypeOK'
  BY ProcAssumption DEF ProcInv, ProcTypeOK, Raise, Procs, Running, procVars, pipeVars, callVars,
     Pipes
<1>2. ReadersAreSound'
  BY <1>1 DEF ProcInv, ProcTypeOK, ReadersAreSound, Raise, Procs, Running, Holders, procVars,
     pipeVars, callVars, Pipes
<1>3. GroupIsSound'
  BY <1>1, ProcAssumption DEF ProcInv, ProcTypeOK, GroupIsSound, Awaiting, Killing, Drained,
     Raise, Procs, Running, procVars, pipeVars, callVars
<1>4. NoHandlePolledTwice'
  BY DEF ProcInv, NoHandlePolledTwice, Raise, procVars, pipeVars, callVars
<1> QED
  BY <1>1, <1>2, <1>3, <1>4 DEF ProcInv

LEMMA WaitedKeeps == ASSUME ProcInv, Waited PROVE ProcInv'
<1>1. ProcTypeOK'
  BY ProcAssumption DEF ProcInv, ProcTypeOK, Waited, ArmedAfterWait, Procs, Running, procVars,
     pipeVars, callVars, Pipes
<1>2. ReadersAreSound'
  BY <1>1 DEF ProcInv, ProcTypeOK, ReadersAreSound, Waited, ArmedAfterWait, Procs, Running,
     Holders, procVars, pipeVars, callVars, Pipes
<1>3. GroupIsSound'
  BY <1>1, ProcAssumption DEF ProcInv, ProcTypeOK, GroupIsSound, Awaiting, Killing, Drained,
     Waited, ArmedAfterWait, Procs, Running, procVars, pipeVars, callVars
<1>4. NoHandlePolledTwice'
  BY DEF ProcInv, NoHandlePolledTwice, Waited, ArmedAfterWait, procVars, pipeVars, callVars
<1> QED
  BY <1>1, <1>2, <1>3, <1>4 DEF ProcInv

LEMMA WaitTimesOutKeeps == ASSUME ProcInv, WaitTimesOut PROVE ProcInv'
<1>1. ProcTypeOK'
  BY ProcAssumption DEF ProcInv, ProcTypeOK, WaitTimesOut, Procs, Running, procVars, pipeVars,
     callVars, Pipes
<1>2. ReadersAreSound'
  BY <1>1 DEF ProcInv, ProcTypeOK, ReadersAreSound, WaitTimesOut, Procs, Running, Holders,
     procVars, pipeVars, callVars, Pipes
<1>3. GroupIsSound'
  BY <1>1, ProcAssumption DEF ProcInv, ProcTypeOK, GroupIsSound, Awaiting, Killing, Drained,
     WaitTimesOut, Procs, Running, procVars, pipeVars, callVars
<1>4. NoHandlePolledTwice'
  BY DEF ProcInv, NoHandlePolledTwice, WaitTimesOut, procVars, pipeVars, callVars
<1> QED
  BY <1>1, <1>2, <1>3, <1>4 DEF ProcInv

LEMMA KillKeeps == ASSUME ProcInv, Kill PROVE ProcInv'
<1>1. ProcTypeOK'
  BY ProcAssumption DEF ProcInv, ProcTypeOK, Kill, KillGroup, Ended, Procs, Running, procVars,
     pipeVars, callVars, Pipes
<1>2. ReadersAreSound'
  BY <1>1 DEF ProcInv, ProcTypeOK, ReadersAreSound, Kill, KillGroup, Ended, Procs, Running,
     Holders, procVars, pipeVars, callVars, Pipes
<1>3. GroupIsSound'
  BY <1>1, ProcAssumption DEF ProcInv, ProcTypeOK, GroupIsSound, Awaiting, Killing, Drained,
     Kill, KillGroup, Ended, Procs, Running, procVars, pipeVars, callVars
<1>4. NoHandlePolledTwice'
  BY DEF ProcInv, NoHandlePolledTwice, Kill, KillGroup, Ended, procVars, pipeVars, callVars
<1> QED
  BY <1>1, <1>2, <1>3, <1>4 DEF ProcInv

LEMMA ReapKeeps == ASSUME ProcInv, Reap PROVE ProcInv'
<1>1. ProcTypeOK'
  BY ProcAssumption DEF ProcInv, ProcTypeOK, Reap, Procs, Running, procVars, pipeVars, callVars,
     Pipes
<1>2. ReadersAreSound'
  BY <1>1 DEF ProcInv, ProcTypeOK, ReadersAreSound, Reap, Procs, Running, Holders, procVars,
     pipeVars, callVars, Pipes
<1>3. GroupIsSound'
  BY <1>1, ProcAssumption DEF ProcInv, ProcTypeOK, GroupIsSound, Awaiting, Killing, Drained,
     Reap, Procs, Running, procVars, pipeVars, callVars
<1>4. NoHandlePolledTwice'
  BY DEF ProcInv, NoHandlePolledTwice, Reap, procVars, pipeVars, callVars
<1> QED
  BY <1>1, <1>2, <1>3, <1>4 DEF ProcInv

LEMMA JoinKeeps == ASSUME ProcInv, NEW i \in Pipes, Join(i) PROVE ProcInv'
<1>1. ProcTypeOK'
  BY ProcAssumption DEF ProcInv, ProcTypeOK, Join, Procs, Running, procVars, pipeVars, callVars,
     Pipes
<1>2. ReadersAreSound'
  BY <1>1 DEF ProcInv, ProcTypeOK, ReadersAreSound, Join, Procs, Running, Holders, procVars,
     pipeVars, callVars, Pipes
<1>3. GroupIsSound'
  BY <1>1, ProcAssumption DEF ProcInv, ProcTypeOK, GroupIsSound, Awaiting, Killing, Drained,
     Join, Procs, Running, procVars, pipeVars, callVars
<1>4. NoHandlePolledTwice'
  BY DEF ProcInv, NoHandlePolledTwice, Join, procVars, pipeVars, callVars
<1> QED
  BY <1>1, <1>2, <1>3, <1>4 DEF ProcInv

LEMMA JoinedAllKeeps == ASSUME ProcInv, JoinedAll PROVE ProcInv'
<1>1. ProcTypeOK'
  BY ProcAssumption DEF ProcInv, ProcTypeOK, JoinedAll, Joined, Procs, Running, procVars,
     pipeVars, callVars, Pipes
<1>2. ReadersAreSound'
  BY <1>1 DEF ProcInv, ProcTypeOK, ReadersAreSound, JoinedAll, Joined, Procs, Running, Holders,
     procVars, pipeVars, callVars, Pipes
<1>3. GroupIsSound'
  BY <1>1, ProcAssumption DEF ProcInv, ProcTypeOK, GroupIsSound, Awaiting, Killing, Drained,
     JoinedAll, Joined, Procs, Running, procVars, pipeVars, callVars
<1>4. NoHandlePolledTwice'
  BY DEF ProcInv, NoHandlePolledTwice, JoinedAll, Joined, procVars, pipeVars, callVars
<1> QED
  BY <1>1, <1>2, <1>3, <1>4 DEF ProcInv

LEMMA DrainTimesOutKeeps == ASSUME ProcInv, DrainTimesOut PROVE ProcInv'
<1>1. ProcTypeOK'
  BY ProcAssumption DEF ProcInv, ProcTypeOK, DrainTimesOut, KillGroup, Ended, Procs, Running,
     procVars, pipeVars, callVars, Pipes
<1>2. ReadersAreSound'
  BY <1>1 DEF ProcInv, ProcTypeOK, ReadersAreSound, DrainTimesOut, KillGroup, Ended, Procs,
     Running, Holders, procVars, pipeVars, callVars, Pipes
<1>3. GroupIsSound'
  BY <1>1, ProcAssumption DEF ProcInv, ProcTypeOK, GroupIsSound, Awaiting, Killing, Drained,
     DrainTimesOut, KillGroup, Ended, Procs, Running, procVars, pipeVars, callVars
<1>4. NoHandlePolledTwice'
  BY DEF ProcInv, NoHandlePolledTwice, DrainTimesOut, KillGroup, Ended, procVars, pipeVars,
     callVars
<1> QED
  BY <1>1, <1>2, <1>3, <1>4 DEF ProcInv

LEMMA DrainStdoutKeeps == ASSUME ProcInv, DrainOne("stdout", "drain stderr") PROVE ProcInv'
<1>1. ProcTypeOK'
  BY ProcAssumption DEF ProcInv, ProcTypeOK, DrainOne, Polls, Procs, Running, procVars, pipeVars,
     callVars, Pipes
<1>2. ReadersAreSound'
  BY <1>1 DEF ProcInv, ProcTypeOK, ReadersAreSound, DrainOne, Polls, Procs, Running, Holders,
     procVars, pipeVars, callVars, Pipes
<1>3. GroupIsSound'
  BY <1>1, ProcAssumption DEF ProcInv, ProcTypeOK, GroupIsSound, Awaiting, Killing, Drained,
     DrainOne, Polls, Procs, Running, procVars, pipeVars, callVars
<1>4. NoHandlePolledTwice'
  BY DEF ProcInv, NoHandlePolledTwice, DrainOne, Polls, procVars, pipeVars, callVars
<1> QED
  BY <1>1, <1>2, <1>3, <1>4 DEF ProcInv

LEMMA DrainStderrKeeps == ASSUME ProcInv, DrainOne("stderr", "drained") PROVE ProcInv'
<1>1. ProcTypeOK'
  BY ProcAssumption DEF ProcInv, ProcTypeOK, DrainOne, Polls, Procs, Running, procVars, pipeVars,
     callVars, Pipes
<1>2. ReadersAreSound'
  BY <1>1 DEF ProcInv, ProcTypeOK, ReadersAreSound, DrainOne, Polls, Procs, Running, Holders,
     procVars, pipeVars, callVars, Pipes
<1>3. GroupIsSound'
  BY <1>1, ProcAssumption DEF ProcInv, ProcTypeOK, GroupIsSound, Awaiting, Killing, Drained,
     DrainOne, Polls, Procs, Running, procVars, pipeVars, callVars
<1>4. NoHandlePolledTwice'
  BY DEF ProcInv, NoHandlePolledTwice, DrainOne, Polls, procVars, pipeVars, callVars
<1> QED
  BY <1>1, <1>2, <1>3, <1>4 DEF ProcInv

LEMMA AnswerKeeps == ASSUME ProcInv, Answer PROVE ProcInv'
<1>1. ProcTypeOK'
  BY ProcAssumption DEF ProcInv, ProcTypeOK, Answer, Procs, Running, procVars, pipeVars,
     callVars, Pipes
<1>2. ReadersAreSound'
  BY DEF ProcInv, ReadersAreSound, GroupIsSound, Drained, Answer, Running, Holders, procVars,
     pipeVars
<1>3. GroupIsSound'
  BY <1>1, ProcAssumption DEF ProcInv, ProcTypeOK, GroupIsSound, Awaiting, Killing, Drained,
     Answer, Procs, Running, procVars, pipeVars, callVars
<1>4. NoHandlePolledTwice'
  BY DEF ProcInv, NoHandlePolledTwice, Answer, procVars, pipeVars, callVars
<1> QED
  BY <1>1, <1>2, <1>3, <1>4 DEF ProcInv

LEMMA DropKeeps == ASSUME ProcInv, Drop PROVE ProcInv'
<1>1. ProcTypeOK'
  BY ProcAssumption DEF ProcInv, ProcTypeOK, Drop, LocalsDropped, Ended, Procs, Running,
     procVars, pipeVars, callVars, Pipes
<1>2. ReadersAreSound'
  BY <1>1 DEF ProcInv, ProcTypeOK, ReadersAreSound, Drop, LocalsDropped, Ended, Procs,
     Running, Holders, procVars, pipeVars, callVars, Pipes
<1>3. GroupIsSound'
  BY <1>1, ProcAssumption DEF ProcInv, ProcTypeOK, GroupIsSound, Awaiting, Killing, Drained,
     Drop, LocalsDropped, Ended, Procs, Running, procVars, pipeVars, callVars
<1>4. NoHandlePolledTwice'
  BY DEF ProcInv, NoHandlePolledTwice, Drop, LocalsDropped, Ended, procVars, pipeVars, callVars
<1> QED
  BY <1>1, <1>2, <1>3, <1>4 DEF ProcInv

LEMMA WaitFailsKeeps == ASSUME ProcInv, WaitFails PROVE ProcInv'
<1>1. ProcTypeOK'
  BY ProcAssumption DEF ProcInv, ProcTypeOK, WaitFails, LocalsDropped, Ended, Procs,
     Running, procVars, pipeVars, callVars, Pipes
<1>2. ReadersAreSound'
  BY <1>1 DEF ProcInv, ProcTypeOK, ReadersAreSound, WaitFails, LocalsDropped, Ended, Procs,
     Running, Holders, procVars, pipeVars, callVars, Pipes
<1>3. GroupIsSound'
  BY <1>1, ProcAssumption DEF ProcInv, ProcTypeOK, GroupIsSound, Awaiting, Killing, Drained,
     WaitFails, LocalsDropped, Ended, Procs, Running, procVars, pipeVars, callVars
<1>4. NoHandlePolledTwice'
  BY DEF ProcInv, NoHandlePolledTwice, WaitFails, LocalsDropped, Ended, procVars, pipeVars, callVars
<1> QED
  BY <1>1, <1>2, <1>3, <1>4 DEF ProcInv

LEMMA ForkKeeps ==
  ASSUME ProcInv, NEW p \in Procs, NEW d \in Descendants, NEW pipes \in SUBSET Pipes, Fork(p, d,
                    pipes)
  PROVE  ProcInv'
<1>1. ProcTypeOK'
  <2>1. proc' \in [Procs -> {"unborn", "running", "zombie", "gone"}] /\ group' \subseteq Procs
    BY DEF ProcInv, ProcTypeOK, Fork, Procs
  <2>2. holds' \in [Procs -> SUBSET Pipes]
    BY DEF ProcInv, ProcTypeOK, Fork
  <2> QED
    BY <2>1, <2>2, ProcsTyped DEF ProcInv, Fork
<1>2. ReadersAreSound'
  <2>1. ASSUME NEW i \in Pipes, Holders(i) = {} PROVE Holders(i)' = {}
    <3>1. i \notin pipes
      BY <2>1 DEF Fork, Holders
    <3>2. \A q \in Procs \ {d} : proc'[q] = proc[q] /\ holds'[q] = holds[q]
      BY DEF ProcInv, ProcTypeOK, Fork
    <3>3. holds'[d] = pipes
      BY DEF ProcInv, ProcTypeOK, Fork, Procs
    <3> QED
      BY <2>1, <3>1, <3>2, <3>3 DEF Holders, Running
  <2> QED
    BY <2>1 DEF ProcInv, ReadersAreSound, Fork, pipeVars, callVars
<1>3. GroupIsSound'
  <2>1. group \intersect Running = {} => group' \intersect Running' = {}
    <3>1. \A q \in Procs \ {d} : proc'[q] = proc[q]
      BY DEF ProcInv, ProcTypeOK, Fork
    <3>2. d \in group' => p \in group \/ d \in group
      BY DEF Fork
    <3>3. group \intersect Running = {} => d \notin group'
      BY <3>2 DEF Fork, Running, ProcInv, GroupIsSound
    <3> QED
      BY <3>1, <3>3 DEF Fork, Running
  <2>2. \A q \in group' : proc'[q] # "unborn"
    BY DEF ProcInv, ProcTypeOK, GroupIsSound, Fork, Procs
  <2> QED
    BY <2>1, <2>2 DEF ProcInv, GroupIsSound, Awaiting, Fork, callVars
<1>4. NoHandlePolledTwice'
  BY DEF ProcInv, NoHandlePolledTwice, Fork, procVars, pipeVars, callVars
<1> QED
  BY <1>1, <1>2, <1>3, <1>4 DEF ProcInv

LEMMA CloseKeeps == ASSUME ProcInv, NEW p \in Procs, NEW i \in Pipes, Close(p, i) PROVE ProcInv'
<1>1. ProcTypeOK'
  <2>1. holds' \in [Procs -> SUBSET Pipes]
    BY DEF ProcInv, ProcTypeOK, Close
  <2> QED
    BY <2>1, ProcsTyped DEF ProcInv, ProcTypeOK, Close
<1>2. ReadersAreSound'
  <2>1. \A j \in Pipes : Holders(j)' \subseteq Holders(j)
    BY DEF ProcInv, ProcTypeOK, Close, Holders, Running, procVars
  <2> QED
    BY <2>1, ReadersStay DEF ProcInv, Close, pipeVars, callVars
<1>3. GroupIsSound'
  BY GroupStays DEF ProcInv, Close, procVars, callVars
<1>4. NoHandlePolledTwice'
  BY DEF ProcInv, NoHandlePolledTwice, Close, procVars, pipeVars, callVars
<1> QED
  BY <1>1, <1>2, <1>3, <1>4 DEF ProcInv

LEMMA WriteKeeps == ASSUME ProcInv, NEW p \in Procs, NEW i \in Pipes, Write(p, i) PROVE ProcInv'
<1>1. ProcTypeOK'
  <2>1. wrote[i] + 1 \in 0 .. MaxOutput /\ inPipe[i] + 1 \in 0 .. PipeCap
    BY Amounts DEF Write
  <2>2. wrote' \in [Pipes -> 0 .. MaxOutput] /\ inPipe' \in [Pipes -> 0 .. PipeCap]
    BY <2>1 DEF ProcInv, ProcTypeOK, Write
  <2>3. wrote'[i] = buf[i] + inPipe'[i]
    <3>1. wrote'[i] = wrote[i] + 1 /\ inPipe'[i] = inPipe[i] + 1
      BY DEF ProcInv, ProcTypeOK, Write
    <3> QED
      BY <3>1, Amounts
  <2>4. \A j \in Pipes \ {i} : wrote'[j] = buf[j] + inPipe'[j]
    BY DEF ProcInv, ProcTypeOK, Write
  <2> QED
    <3>1. \A j \in Pipes : wrote'[j] = buf'[j] + inPipe'[j]
      BY <2>3, <2>4 DEF Write
    <3> QED
      BY <2>2, <3>1, PipesTyped DEF ProcInv, ProcTypeOK, Write
<1>2. ReadersAreSound'
  <2>1. \A j \in Pipes : Holders(j)' = Holders(j)
    BY DEF Write, Holders, Running, procVars
  <2>2. reader[i] # "ended"
    BY DEF ProcInv, ReadersAreSound, Write, Holders
  <2>3. \A j \in Pipes : j # i => inPipe'[j] = inPipe[j]
    BY DEF ProcInv, ProcTypeOK, Write
  <2> QED
    BY <2>1, <2>2, <2>3 DEF ProcInv, ReadersAreSound, Write, callVars
<1>3. GroupIsSound'
  BY GroupStays DEF ProcInv, Write, procVars, callVars
<1>4. NoHandlePolledTwice'
  BY DEF ProcInv, NoHandlePolledTwice, Write, procVars, pipeVars, callVars
<1> QED
  BY <1>1, <1>2, <1>3, <1>4 DEF ProcInv

LEMMA ExitKeeps == ASSUME ProcInv, NEW p \in Procs, Exit(p) PROVE ProcInv'
<1>1. ProcTypeOK'
  <2>1. proc' \in [Procs -> {"unborn", "running", "zombie", "gone"}]
    BY DEF ProcInv, ProcTypeOK, Exit, Ended
  <2> QED
    BY <2>1, ProcsTyped DEF ProcInv, ProcTypeOK, Exit
<1>2. ReadersAreSound'
  <2>1. \A j \in Pipes : Holders(j)' \subseteq Holders(j)
    BY DEF ProcInv, ProcTypeOK, Exit, Holders, Running, Ended
  <2> QED
    BY <2>1, ReadersStay DEF ProcInv, Exit, pipeVars, callVars
<1>3. GroupIsSound'
  <2>1. \A q \in Procs : q \in Running' => q \in Running
    BY DEF ProcInv, ProcTypeOK, Exit, Ended, Running
  <2>2. \A q \in Procs : proc[q] # "unborn" => proc'[q] # "unborn"
    BY DEF ProcInv, ProcTypeOK, Exit, Ended
  <2>3. group \subseteq Procs
    BY DEF ProcInv, ProcTypeOK, Procs
  <2> QED
    BY <2>1, <2>2, <2>3 DEF ProcInv, GroupIsSound, Awaiting, Exit, callVars, Running
<1>4. NoHandlePolledTwice'
  BY DEF ProcInv, NoHandlePolledTwice, Exit, Ended, procVars, pipeVars, callVars
<1> QED
  BY <1>1, <1>2, <1>3, <1>4 DEF ProcInv

LEMMA LeaveKeeps == ASSUME ProcInv, NEW d \in Descendants, Leave(d) PROVE ProcInv'
<1>1. ProcTypeOK'
  <2>1. group' \subseteq Procs
    BY DEF ProcInv, ProcTypeOK, Leave
  <2> QED
    BY <2>1, ProcsTyped DEF ProcInv, ProcTypeOK, Leave
<1>2. ReadersAreSound'
  <2>1. \A j \in Pipes : Holders(j)' \subseteq Holders(j)
    BY DEF ProcInv, ProcTypeOK, Leave, Holders, Running
  <2> QED
    BY <2>1, ReadersStay DEF ProcInv, Leave, pipeVars, callVars
<1>3. GroupIsSound'
  BY <1>1, ProcAssumption DEF ProcInv, ProcTypeOK, GroupIsSound, Awaiting, Killing, Drained,
     Leave, Procs, Running, procVars, pipeVars, callVars
<1>4. NoHandlePolledTwice'
  BY DEF ProcInv, NoHandlePolledTwice, Leave, procVars, pipeVars, callVars
<1> QED
  BY <1>1, <1>2, <1>3, <1>4 DEF ProcInv

LEMMA ReuseKeeps == ASSUME ProcInv, Reuse PROVE ProcInv'
<1>1. ProcTypeOK'
  BY ProcAssumption DEF ProcInv, ProcTypeOK, Reuse, Procs, Running, procVars, pipeVars, callVars,
     Pipes
<1>2. ReadersAreSound'
  BY <1>1 DEF ProcInv, ProcTypeOK, ReadersAreSound, Reuse, Procs, Running, Holders, procVars,
     pipeVars, callVars, Pipes
<1>3. GroupIsSound'
  BY GroupStays DEF ProcInv, Reuse, procVars, callVars
<1>4. NoHandlePolledTwice'
  BY DEF ProcInv, NoHandlePolledTwice, Reuse, procVars, pipeVars, callVars
<1> QED
  BY <1>1, <1>2, <1>3, <1>4 DEF ProcInv

LEMMA ReadKeeps == ASSUME ProcInv, NEW i \in Pipes, Read(i) PROVE ProcInv'
<1>1. ProcTypeOK'
  <2>1. Extended(i) = wrote[i] /\ wrote[i] \in 0 .. MaxOutput /\ 0 \in 0 .. PipeCap
    BY Amounts DEF Extended
  <2>2. buf' \in [Pipes -> 0 .. MaxOutput] /\ inPipe' \in [Pipes -> 0 .. PipeCap]
    BY <2>1 DEF ProcInv, ProcTypeOK, Read
  <2>3. wrote[i] = buf'[i] + inPipe'[i]
    <3>1. buf'[i] = wrote[i] /\ inPipe'[i] = 0
      BY <2>1 DEF ProcInv, ProcTypeOK, Read
    <3> QED
      BY <3>1, Amounts
  <2>4. \A j \in Pipes \ {i} : wrote[j] = buf'[j] + inPipe'[j]
    BY DEF ProcInv, ProcTypeOK, Read
  <2> QED
    <3>1. \A j \in Pipes : wrote'[j] = buf'[j] + inPipe'[j]
      BY <2>3, <2>4 DEF Read
    <3> QED
      BY <2>2, <3>1, PipesTyped DEF ProcInv, ProcTypeOK, Read
<1>2. ReadersAreSound'
  BY <1>1 DEF ProcInv, ProcTypeOK, ReadersAreSound, Read, Extended, Procs, Running, Holders,
     procVars, pipeVars, callVars, Pipes
<1>3. GroupIsSound'
  BY GroupStays DEF ProcInv, Read, procVars, callVars
<1>4. NoHandlePolledTwice'
  BY DEF ProcInv, NoHandlePolledTwice, Read, Extended, procVars, pipeVars, callVars
<1> QED
  BY <1>1, <1>2, <1>3, <1>4 DEF ProcInv

LEMMA ReadEndsKeeps == ASSUME ProcInv, NEW i \in Pipes, ReadEnds(i) PROVE ProcInv'
<1>1. ProcTypeOK'
  <2>1. reader' \in [Pipes -> {"none", "reading", "ended"}]
    BY DEF ProcInv, ProcTypeOK, ReadEnds
  <2> QED
    BY <2>1, PipesTyped DEF ProcInv, ProcTypeOK, ReadEnds
<1>2. ReadersAreSound'
  <2>1. \A j \in Pipes : reader'[j] = "ended" => reader[j] = "ended" \/ j = i
    BY DEF ProcInv, ProcTypeOK, ReadEnds
  <2>2. \A j \in Pipes : reader[j] = "ended" => reader'[j] = "ended"
    BY DEF ProcInv, ProcTypeOK, ReadEnds
  <2>3. call # "called"
    BY DEF ProcInv, ReadersAreSound, ReadEnds
  <2> QED
    BY <2>1, <2>2, <2>3 DEF ProcInv, ReadersAreSound, ReadEnds, Holders, Running, procVars,
       callVars
<1>3. GroupIsSound'
  BY GroupStays DEF ProcInv, ReadEnds, procVars, callVars
<1>4. NoHandlePolledTwice'
  BY DEF ProcInv, NoHandlePolledTwice, ReadEnds, procVars, pipeVars, callVars
<1> QED
  BY <1>1, <1>2, <1>3, <1>4 DEF ProcInv

LEMMA DeadlinePassesKeeps == ASSUME ProcInv, DeadlinePasses PROVE ProcInv'
<1>1. ProcTypeOK'
  BY ProcAssumption DEF ProcInv, ProcTypeOK, DeadlinePasses, Procs, Running, procVars, pipeVars,
     callVars, Pipes
<1>2. ReadersAreSound'
  BY <1>1 DEF ProcInv, ProcTypeOK, ReadersAreSound, DeadlinePasses, Procs, Running, Holders,
     procVars, pipeVars, callVars, Pipes
<1>3. GroupIsSound'
  BY <1>1, ProcAssumption DEF ProcInv, ProcTypeOK, GroupIsSound, Awaiting, Killing, Drained,
     DeadlinePasses, Procs, Running, procVars, pipeVars, callVars
<1>4. NoHandlePolledTwice'
  BY DEF ProcInv, NoHandlePolledTwice, DeadlinePasses, procVars, pipeVars, callVars
<1> QED
  BY <1>1, <1>2, <1>3, <1>4 DEF ProcInv

LEMMA BoundPassesKeeps == ASSUME ProcInv, BoundPasses PROVE ProcInv'
<1>1. ProcTypeOK'
  BY ProcAssumption DEF ProcInv, ProcTypeOK, BoundPasses, Procs, Running, procVars, pipeVars,
     callVars, Pipes
<1>2. ReadersAreSound'
  BY <1>1 DEF ProcInv, ProcTypeOK, ReadersAreSound, BoundPasses, Procs, Running, Holders,
     procVars, pipeVars, callVars, Pipes
<1>3. GroupIsSound'
  BY <1>1, ProcAssumption DEF ProcInv, ProcTypeOK, GroupIsSound, Awaiting, Killing, Drained,
     BoundPasses, Procs, Running, procVars, pipeVars, callVars
<1>4. NoHandlePolledTwice'
  BY DEF ProcInv, NoHandlePolledTwice, BoundPasses, procVars, pipeVars, callVars
<1> QED
  BY <1>1, <1>2, <1>3, <1>4 DEF ProcInv

-----------------------------------------------------------------------------

LEMMA ProcInitInv == ProcInit => ProcInv
<1> SUFFICES ASSUME ProcInit PROVE ProcInv
  OBVIOUS
<1>1. 0 \in 0 .. MaxOutput /\ 0 \in 0 .. PipeCap
  BY ProcAssumption
<1>2. ProcTypeOK
  <2>1. \A i \in Pipes : wrote[i] = buf[i] + inPipe[i]
    BY DEF ProcInit
  <2> QED
    BY <1>1, <2>1 DEF ProcInit, ProcTypeOK
<1>3. ReadersAreSound
  BY DEF ProcInit, ReadersAreSound
<1>4. GroupIsSound
  BY DEF ProcInit, GroupIsSound, Awaiting, Killing, Drained
<1> QED
  BY <1>2, <1>3, <1>4 DEF ProcInit, ProcInv, NoHandlePolledTwice

LEMMA ProcNextInv == ProcInv /\ [ProcNext]_allVars => ProcInv'
<1> SUFFICES ASSUME ProcInv, [ProcNext]_allVars PROVE ProcInv'
  OBVIOUS
<1>1. CASE Run
  BY <1>1, SpawnKeeps, RaiseKeeps, WaitedKeeps, WaitTimesOutKeeps, KillKeeps, ReapKeeps,
     JoinKeeps, JoinedAllKeeps, DrainTimesOutKeeps, DrainStdoutKeeps, DrainStderrKeeps,
     AnswerKeeps DEF Run
<1>2. CASE \E p \in Procs :
              \/ \E d \in Descendants, pipes \in SUBSET Pipes : Fork(p, d, pipes)
              \/ \E i \in Pipes : Close(p, i) \/ Write(p, i)
              \/ Exit(p)
  BY <1>2, ForkKeeps, CloseKeeps, WriteKeeps, ExitKeeps
<1>3. CASE Drop \/ WaitFails \/ (\E d \in Descendants : Leave(d)) \/ Reuse
  BY <1>3, DropKeeps, WaitFailsKeeps, LeaveKeeps, ReuseKeeps
<1>4. CASE (\E i \in Pipes : Read(i) \/ ReadEnds(i)) \/ DeadlinePasses \/ BoundPasses
  BY <1>4, ReadKeeps, ReadEndsKeeps, DeadlinePassesKeeps, BoundPassesKeeps
<1>5. CASE UNCHANGED allVars
  <2>1. ProcTypeOK'
    BY <1>5, ProcsTyped DEF ProcInv, ProcTypeOK, allVars, procVars
  <2>2. ReadersAreSound'
    BY <1>5, ReadersStay DEF ProcInv, allVars, procVars, pipeVars, callVars, Holders, Running
  <2>3. GroupIsSound'
    BY <1>5, GroupStays DEF ProcInv, allVars, procVars, callVars
  <2> QED
    BY <1>5, <2>1, <2>2, <2>3 DEF ProcInv, NoHandlePolledTwice, allVars
<1> QED
  BY <1>1, <1>2, <1>3, <1>4, <1>5 DEF ProcNext

LEMMA ProcAlwaysInv == ProcSpec => []ProcInv
BY ProcInitInv, ProcNextInv, PTL DEF ProcSpec

\* Nothing written is lost between a pipe and its buffer, whatever is written by
\* whom and whichever way the call ends.
THEOREM ProcTypesHold == ProcSpec => []ProcTypeOK
BY ProcAlwaysInv, PTL DEF ProcInv

\* An answer that is not a timeout has the whole output, with nobody left to write
\* more; a call that timed out, failed or was dropped leaves nothing running in its group;
\* and no handle is polled after it resolved.
THEOREM CallsAreSound == ProcSpec => []CallIsSound
<1>1. ASSUME ProcInv PROVE CallIsSound
  <2>1. OutputIsWhole
    <3> SUFFICES ASSUME call = "answered", ~timedOut, NEW i \in Pipes
                 PROVE  buf[i] = wrote[i] /\ Holders(i) = {}
      BY DEF OutputIsWhole
    <3>1. inPipe[i] = 0 /\ Holders(i) = {}
      BY <1>1 DEF ProcInv, ReadersAreSound
    <3> QED
      BY <1>1, <3>1 DEF ProcInv, ProcTypeOK
  <2>2. GroupIsDead
    BY <1>1 DEF ProcInv, GroupIsSound, GroupIsDead
  <2> QED
    BY <1>1, <2>1, <2>2 DEF ProcInv, CallIsSound
<1> QED
  BY <1>1, ProcAlwaysInv, PTL
=============================================================================
