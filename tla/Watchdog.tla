------------------------------ MODULE Watchdog ------------------------------
(***************************************************************************)
(* `Deadlines` of crates/htl-core/src/run.rs: the deadlines of what the VM *)
(* runs, in a min-heap and a map behind one mutex, and the thread that     *)
(* sleeps on a condition variable until the earliest one and cancels it.   *)
(*                                                                         *)
(* One action is one critical section of the mutex, or one call of         *)
(* notify_one, which the code makes after the mutex is released.  A token  *)
(* belongs to one registration, so a registration's id stands for both,    *)
(* and the heap's entry (instant, id) is the id with its instant in `due`. *)
(***************************************************************************)
EXTENDS Naturals, FiniteSets

CONSTANTS
  Clients,     \* the threads that register deadlines
  Durations,   \* the durations a registration can be given
  MaxTime,     \* bound on the clock
  MaxInstant,  \* the latest instant the platform can represent
  FarOff,      \* "thirty years", for a deadline past MaxInstant
  Slack,       \* stale entries the heap may hold beyond its live ones (16)
  MaxWatches,  \* bound on the registrations of a behaviour
  None         \* no id, or no instant

ASSUME WatchdogAssumption ==
  /\ Durations \subseteq Nat
  /\ MaxTime \in Nat
  /\ MaxInstant \in Nat
  /\ FarOff \in Nat \ {0}
  /\ MaxTime + FarOff <= MaxInstant
  /\ Slack \in Nat
  /\ MaxWatches \in Nat
  /\ None \notin Nat

VARIABLES
  now,      \* the monotonic clock
  nextId,   \* DeadlineState.next
  due,      \* the instant each id was pushed with
  heap,     \* DeadlineState.heap: the ids in it
  live,     \* DeadlineState.live: the ids whose token is kept
  stop,     \* DeadlineState.stop
  guard,    \* the id of the Watched guard each client holds
  client,   \* where each client is in watch()
  stopper,  \* where the caller of stop() is
  dog,      \* the watchdog thread
  wakeAt,   \* when its wait_timeout ends
  fired     \* the ids whose token the watchdog has cancelled

vars == <<now, nextId, due, heap, live, stop, guard, client, stopper, dog,
          wakeAt, fired>>

Ids == 0 .. MaxWatches - 1

\* Mutant: the instant is added without looking whether it can be.
DueAtUnchecked(after) == now + after

\* The instant a registration is due: one that cannot be represented is put
\* thirty years off.
DueAt(after) ==
  IF now + after <= MaxInstant THEN now + after ELSE now + FarOff

\* The order of the heap: by instant, then by id.
Before(i, j) == due[i] < due[j] \/ (due[i] = due[j] /\ i < j)

Guarded == {c \in Clients : guard[c] # None}
GuardedIds == {guard[c] : c \in Guarded}

-----------------------------------------------------------------------------
Init ==
  /\ now = 0
  /\ nextId = 0
  /\ due = [i \in Ids |-> 0]
  /\ heap = {}
  /\ live = {}
  /\ stop = FALSE
  /\ guard = [c \in Clients |-> None]
  /\ client = [c \in Clients |-> "idle"]
  /\ stopper = "idle"
  /\ dog = "awake"
  /\ wakeAt = None
  /\ fired = {}

\* Mutant: the wake-up is forgotten.
NotifyNone == dog' = dog

\* notify_one: it wakes the thread only if the thread is waiting.
NotifyOne == dog' = IF dog = "waiting" THEN "awake" ELSE dog

\* watch(), the critical section: a fresh id, its token and its heap entry.
Watch(c, after) ==
  /\ client[c] = "idle"
  /\ ~stop
  /\ nextId < MaxWatches
  /\ due' = [due EXCEPT ![nextId] = DueAt(after)]
  /\ live' = live \union {nextId}
  /\ heap' = heap \union {nextId}
  /\ guard' = [guard EXCEPT ![c] = nextId]
  /\ nextId' = nextId + 1
  /\ client' = [client EXCEPT ![c] = "notifying"]
  /\ UNCHANGED <<now, stop, stopper, dog, wakeAt, fired>>

\* watch(), once the mutex is released.
WatchNotify(c) ==
  /\ client[c] = "notifying"
  /\ client' = [client EXCEPT ![c] = "watching"]
  /\ NotifyOne
  /\ UNCHANGED <<now, nextId, due, heap, live, stop, guard, stopper, wakeAt,
                 fired>>

\* Mutants: the heap is never rebuilt; the rebuild keeps the wrong entries.
NeverOvergrown(h, l) == FALSE
RebuiltOfStale(h, l) == h \ l

\* Whether a guard's drop rebuilds the heap, and what the rebuild keeps.
Overgrown(h, l) == Cardinality(h) > 2 * Cardinality(l) + Slack
Rebuilt(h, l) == h \intersect l

\* Watched::drop.
Unwatch(c) ==
  /\ client[c] = "watching"
  /\ LET kept == live \ {guard[c]}
     IN  /\ live' = kept
         /\ heap' = IF Overgrown(heap, kept) THEN Rebuilt(heap, kept) ELSE heap
  /\ guard' = [guard EXCEPT ![c] = None]
  /\ client' = [client EXCEPT ![c] = "idle"]
  /\ UNCHANGED <<now, nextId, due, stop, stopper, dog, wakeAt, fired>>

\* Deadlines::stop, called when the VM thread is done, and again by shutdown:
\* nothing is watched then.
Stop ==
  /\ stopper # "notifying"
  /\ \A c \in Clients : client[c] = "idle"
  /\ stop' = TRUE
  /\ stopper' = "notifying"
  /\ UNCHANGED <<now, nextId, due, heap, live, guard, client, dog, wakeAt,
                 fired>>

\* Mutant: stop() sets the flag and wakes nobody.
StopSilently ==
  /\ stopper = "notifying"
  /\ stopper' = "done"
  /\ UNCHANGED <<now, nextId, due, heap, live, stop, guard, client, dog,
                 wakeAt, fired>>

StopNotify ==
  /\ stopper = "notifying"
  /\ stopper' = "done"
  /\ NotifyOne
  /\ UNCHANGED <<now, nextId, due, heap, live, stop, guard, client, wakeAt,
                 fired>>

-----------------------------------------------------------------------------
\* Mutants: an entry whose guard is gone is cancelled; so is one a moment early.
OverdueOrStale == {i \in heap : due[i] <= now}
NearlyOverdue == {i \in heap \intersect live : due[i] <= now + 1}

\* The entries a scan cancels, and those it leaves for later.
Overdue == {i \in heap \intersect live : due[i] <= now}
Ahead == {i \in heap \intersect live : due[i] > now}

\* One round of watch_over's loop: entries come off the heap, stale ones
\* dropped and due ones cancelled, until one is ahead; then the thread waits.
Scan ==
  /\ dog = "awake"
  /\ ~stop
  /\ live' = live \ Overdue
  /\ fired' = fired \union Overdue
  /\ \/ /\ Ahead = {}
        /\ heap' = {}
        /\ wakeAt' = None
     \/ \E next \in Ahead :
        /\ \A i \in Ahead \ {next} : Before(next, i)
        /\ heap' = {i \in heap : ~Before(i, next)}
        /\ wakeAt' = due[next]
  /\ dog' = "waiting"
  /\ UNCHANGED <<now, nextId, due, stop, guard, client, stopper>>

\* The wait ends: its timeout is over.
WakeOnTime ==
  /\ dog = "waiting"
  /\ wakeAt # None
  /\ wakeAt <= now
  /\ dog' = "awake"
  /\ UNCHANGED <<now, nextId, due, heap, live, stop, guard, client, stopper,
                 wakeAt, fired>>

\* The wait ends for no reason, as a condition variable's may.
WakeSpuriously ==
  /\ dog = "waiting"
  /\ dog' = "awake"
  /\ UNCHANGED <<now, nextId, due, heap, live, stop, guard, client, stopper,
                 wakeAt, fired>>

DogEnds ==
  /\ dog = "awake"
  /\ stop
  /\ dog' = "ended"
  /\ UNCHANGED <<now, nextId, due, heap, live, stop, guard, client, stopper,
                 wakeAt, fired>>

Tick ==
  /\ now < MaxTime
  /\ now' = now + 1
  /\ UNCHANGED <<nextId, due, heap, live, stop, guard, client, stopper, dog,
                 wakeAt, fired>>

Next ==
  \/ \E c \in Clients, after \in Durations : Watch(c, after)
  \/ \E c \in Clients : WatchNotify(c) \/ Unwatch(c)
  \/ Stop \/ StopNotify
  \/ Scan \/ WakeOnTime \/ WakeSpuriously \/ DogEnds
  \/ Tick

Spec == Init /\ [][Next]_vars

\* Time passes, the watchdog thread is scheduled, and a thread that is about
\* to notify does.  Nothing makes a client release its guard.
Fairness ==
  /\ WF_vars(Tick)
  /\ WF_vars(Scan)
  /\ WF_vars(WakeOnTime)
  /\ WF_vars(DogEnds)
  /\ WF_vars(StopNotify)
  /\ \A c \in Clients : WF_vars(WatchNotify(c))

FairSpec == Spec /\ Fairness

-----------------------------------------------------------------------------
\* The type invariant; every instant in the heap can be represented.
TypeOK ==
  /\ now \in 0 .. MaxTime
  /\ nextId \in 0 .. MaxWatches
  /\ due \in [Ids -> 0 .. MaxInstant]
  /\ heap \subseteq Ids
  /\ live \subseteq Ids
  /\ stop \in BOOLEAN
  /\ guard \in [Clients -> Ids \union {None}]
  /\ client \in [Clients -> {"idle", "notifying", "watching"}]
  /\ stopper \in {"idle", "notifying", "done"}
  /\ dog \in {"awake", "waiting", "ended"}
  /\ wakeAt \in Nat \union {None}
  /\ fired \subseteq Ids

\* A registered deadline is always in the heap: neither the rebuild a guard's
\* drop makes nor a scan loses the entry of a token that is still kept.
LiveInHeap == live \subseteq heap

\* No wake-up is lost: while the thread sleeps, every deadline it does not
\* know of has a notify on its way, and so has a stop.
NoLostWakeup ==
  dog = "waiting" =>
    /\ \A c \in Guarded :
         guard[c] \in live =>
           \/ client[c] = "notifying"
           \/ wakeAt # None /\ wakeAt <= due[guard[c]]
    /\ stop => stopper = "notifying"

\* Many short calls under a long deadline do not grow the heap: it holds at
\* most twice the registrations whose guard exists, and the slack.
HeapBounded == Cardinality(heap) <= 2 * Cardinality(GuardedIds) + Slack

\* The watchdog cancels only what is past its deadline and still guarded: a
\* call that returned is not cancelled afterwards.
FiresOnlyOverdueGuarded ==
  [][\A i \in fired' \ fired :
       due[i] <= now /\ \E c \in Clients : guard[c] = i]_vars

\* A guarded deadline is enforced: the token is cancelled, or the guard was
\* released before that.
DeadlineEnforced ==
  \A c \in Clients, i \in Ids :
    guard[c] = i /\ due[i] <= MaxTime ~> i \in fired \/ guard[c] # i

\* After stop() the watchdog thread ends, whatever it was waiting for.
StopEndsWatchdog == stop ~> dog = "ended"

\* The watchdog thread never sleeps through what it is there for.
WatchdogWakes == DeadlineEnforced /\ StopEndsWatchdog

\* The watchdog implements the timer: an id is registered while its guard is
\* held.
Timer == INSTANCE DeadlineTimer WITH
  Tokens <- Ids,
  deadline <- [i \in Ids |-> IF \E c \in Clients : guard[c] = i
                             THEN due[i] ELSE None]

ImplementsTimer == Timer!TimerSpec
=============================================================================
