---------------------------- MODULE RunnerProofs ----------------------------
(***************************************************************************)
(* Proofs about Runner, for any number of requests, any size of the queue  *)
(* and any deadline: its types, that a deadline covers the program it is   *)
(* for and nothing else, and that the slots follow the handles.            *)
(***************************************************************************)
EXTENDS Runner, FiniteSetTheorems, SequenceTheorems, TLAPS

Sent(r) == sentAt[r] # None
SentOnes == {q \in Requests : Sent(q)}
MadeOnes == {q \in Requests : made[q] # None}

\* What the place of the VM thread says of the rest.
Phases ==
  /\ vm \in {"prepare", "running", "reply"} <=> cur # None
  /\ vm = "reply" <=> outcome # None
  /\ vm = "running" => kind[cur] # "close"
  /\ vm = "ended" <=> watchdog # "on"
  /\ vm = "ended" => channel = <<>> /\ slots = {}

\* A request goes through the channel to the VM once: what it has not come to
\* yet has not left a trace.
Fresh(r) == made[r] = None /\ begun[r] = None /\ answer[r] = None
Lives ==
  \A r \in Requests :
    /\ caller[r] \in {"idle", "sending"} => ~Sent(r)
    /\ ~Sent(r) \/ InChannel(r) => Fresh(r)
    /\ InChannel(r) => Sent(r)
    /\ cur = r => Sent(r) /\ ~InChannel(r) /\ answer[r] = None
    /\ cur = r /\ vm = "prepare" => Fresh(r)
    /\ cur = r /\ vm = "running" => made[r] = None

\* An instance is made for one request, which is what its handles stand for.
Named(id) == id # None /\ \E q \in Requests : made[q] = id /\ answer[q] = "ok"
Names ==
  /\ nextSlot = Cardinality(MadeOnes)
  /\ \A id \in slots : id < nextSlot
  /\ \A r \in MadeOnes : kind[r] = "instance" /\ made[r] < nextSlot
  /\ \A q, r \in MadeOnes : made[q] = made[r] => q = r
  /\ \A r \in Requests : kind[r] = "instance" /\ answer[r] = "ok" => made[r] # None
  /\ cur # None /\ outcome = "ok" /\ kind[cur] = "instance" => made[cur] # None
  /\ cur # None /\ outcome # None /\ made[cur] # None => outcome = "ok"
  /\ \A id \in held : Named(id)
  /\ \A r \in Requests :
       caller[r] # "idle" /\ kind[r] # "instance" => Named(target[r])

\* The VM serves requests in the order they were sent.
Order ==
  /\ \A r \in SentOnes : sentAt[r] < Cardinality(SentOnes)
  /\ \A i, j \in 1 .. Len(channel) : i < j => sentAt[channel[i]] < sentAt[channel[j]]
  /\ \A r \in SentOnes : ~InChannel(r) =>
       \A i \in 1 .. Len(channel) : sentAt[r] < sentAt[channel[i]]
  /\ cur # None => \A r \in SentOnes \ {cur} : ~InChannel(r) => sentAt[r] < sentAt[cur]

\* A slot is gone because a close of it was served, or because nobody was
\* answered with it.
Served(c) == Sent(c) /\ ~InChannel(c) /\ (cur = c => vm = "reply")
ClosedBefore(r) ==
  \E c \in Requests : /\ kind[c] = "close" /\ target[c] = target[r]
                      /\ sentAt[c] # None /\ sentAt[c] < sentAt[r]
Unread(q) == answer[q] = None /\ cur # q
Slots ==
  /\ vm # "ended" => \A q \in MadeOnes : made[q] \notin slots =>
       \/ Unread(q)
       \/ \E c \in Requests : kind[c] = "close" /\ target[c] = made[q] /\ Served(c)
  /\ \A q \in MadeOnes : Unread(q) => made[q] \notin slots
  /\ \A c \in Requests :
       kind[c] = "close" /\ (answer[c] = "ok" \/ (cur = c /\ outcome = "ok"))
         => target[c] \notin slots
  /\ \A r \in Requests :
       answer[r] = "gone" \/ (cur = r /\ outcome = "gone") => Sent(r) /\ ClosedBefore(r)

\* A token fires only when its program has run for the deadline.
Overdue(r) == begun[r] # None /\ begun[r] + Deadline <= now
Deadlines ==
  /\ RunsAreWatched
  /\ vm = "running" => begun[cur] # None /\ deadline[cur] = begun[cur] + Deadline
  /\ \A r \in fired : Overdue(r)
  /\ \A r \in Requests :
       answer[r] = "timeout" \/ (cur = r /\ outcome = "timeout" /\ ~GivenUp(r)) => Overdue(r)

Inv == TypeOK /\ Phases /\ Lives /\ Names /\ Order /\ Slots /\ Deadlines

USE DEF callerVars, vmVars, endVars, timerVars, history

-----------------------------------------------------------------------------
(* A part of the invariant is not disturbed by what it does not read.      *)

LEMMA PhasesStay ==
  ASSUME Phases, UNCHANGED <<vm, cur, outcome, kind, watchdog, channel, slots>>
  PROVE  Phases'
BY DEF Phases

LEMMA LivesStay ==
  ASSUME Lives, UNCHANGED <<caller, sentAt, channel, made, begun, answer, cur, vm>>
  PROVE  Lives'
BY DEF Lives, Fresh, Sent, InChannel

LEMMA NamesStay ==
  ASSUME Names,
         UNCHANGED <<nextSlot, made, slots, kind, answer, outcome, cur, held, caller, target>>
  PROVE  Names'
BY DEF Names, MadeOnes, Named

LEMMA OrderStay == ASSUME Order, UNCHANGED <<sentAt, channel, cur>> PROVE Order'
BY DEF Order, SentOnes, Sent, InChannel

LEMMA SlotsStay ==
  ASSUME Slots, UNCHANGED <<vm, made, slots, answer, cur, outcome, kind, target, sentAt, channel>>
  PROVE  Slots'
BY DEF Slots, MadeOnes, Unread, Served, Sent, InChannel, ClosedBefore

LEMMA DeadlinesStay ==
  ASSUME Deadlines,
         UNCHANGED <<vm, deadline, cur, watchdog, begun, fired, answer, outcome, caller, now>>
  PROVE  Deadlines'
BY DEF Deadlines, RunsAreWatched, Overdue, GivenUp

-----------------------------------------------------------------------------
(* The actions, one lemma each.                                            *)

LEMMA ChannelFacts ==
  ASSUME TypeOK
  PROVE  /\ Len(channel) \in Nat /\ channel \in Seq(Requests)
         /\ \A i \in 1 .. Len(channel) : channel[i] \in Requests
BY LenProperties, ElementOfSeq DEF TypeOK

LEMMA Counts ==
  /\ IsFiniteSet(Requests) /\ Cardinality(Requests) \in Nat
  /\ IsFiniteSet(SentOnes) /\ Cardinality(SentOnes) \in Nat
  /\ IsFiniteSet(MadeOnes) /\ Cardinality(MadeOnes) \in Nat
<1>1. SentOnes \subseteq Requests /\ MadeOnes \subseteq Requests
  BY DEF SentOnes, MadeOnes
<1> QED
  BY <1>1, FS_Subset, FS_CardinalityType, RunnerAssumption

\* What is known of a request before it is sent, and of the one that is served.
LEMMA UnsentFacts ==
  ASSUME Inv, NEW r \in Requests, ~Sent(r)
  PROVE  Fresh(r) /\ ~InChannel(r) /\ cur # r
BY DEF Inv, Lives

LEMMA CurFacts ==
  ASSUME Inv, cur # None
  PROVE  /\ cur \in Requests /\ Sent(cur) /\ ~InChannel(cur) /\ answer[cur] = None
         /\ vm = "prepare" => Fresh(cur) /\ outcome = None
         /\ vm = "running" => made[cur] = None /\ outcome = None
BY DEF Inv, TypeOK, Lives, Phases

\* The VM thread is over, by whichever step, and nothing runs.
LEMMA VmGoneInv ==
  ASSUME Inv, VmGone, \A r \in Requests : deadline'[r] = None, deadline' \in [Requests -> {None}],
         driver' \in {driver, "failed"}, panicked' \in BOOLEAN,
         UNCHANGED <<callerVars, now, fired, history>>
  PROVE  Inv'
<1>1. TypeOK'
  BY EmptySeq, RunnerAssumption DEF Inv, TypeOK, VmGone
<1>2. Phases'
  BY DEF Phases, VmGone
<1>0. /\ vm' = "ended" /\ cur' = None /\ outcome' = None /\ slots' = {} /\ watchdog' = "told"
      /\ UNCHANGED <<caller, kind, target, held, nextSlot, made, answer, begun, sentAt, now, fired>>
  BY DEF VmGone
<1>8. \A r \in Requests : ~InChannel(r)' /\ cur' # r
  BY RunnerAssumption, EmptySeq DEF VmGone, InChannel
<1>3. Lives'
  BY <1>0, <1>8 DEF Inv, Lives, Fresh, Sent
<1>4. Names'
  BY DEF Inv, Names, MadeOnes, Named, VmGone
<1>5. Order'
  BY DEF Inv, Order, SentOnes, Sent, InChannel, VmGone, TypeOK, Lives
<1>6. Slots'
  <2>1. \A r \in Requests : (ClosedBefore(r) => ClosedBefore(r)') /\ (Sent(r) => Sent(r)')
    BY <1>0 DEF ClosedBefore, Sent
  <2>2. slots' = {} /\ vm' = "ended" /\ answer' = answer /\ \A r \in Requests : cur' # r
    BY <1>0, <1>8
  <2> QED
    BY <2>1, <2>2 DEF Inv, Slots
<1>7. Deadlines'
  <2>1. \A r \in Requests : Overdue(r) => Overdue(r)'
    BY <1>0 DEF Overdue
  <2>2. /\ vm' = "ended" /\ answer' = answer /\ fired' = fired
        /\ \A r \in Requests : cur' # r /\ deadline'[r] = None
    BY <1>0, <1>8
  <2>3. fired \subseteq Requests
    BY DEF Inv, TypeOK
  <2> QED
    BY <2>1, <2>2, <2>3 DEF Inv, Deadlines, RunsAreWatched
<1> QED
  BY <1>1, <1>2, <1>3, <1>4, <1>5, <1>6, <1>7 DEF Inv

\* No deadline is registered but that of the program that runs.
LEMMA NoDeadline ==
  ASSUME Inv, NEW d, d = IF cur = None THEN deadline ELSE [deadline EXCEPT ![cur] = None]
  PROVE  d \in [Requests -> {None}] /\ \A r \in Requests : d[r] = None
BY DEF Inv, TypeOK, Deadlines, RunsAreWatched, Phases

LEMMA DriverInv == ASSUME Inv, StartGivenUp \/ Shutdown \/ DropDriver \/ ShutdownDone PROVE Inv'
<1>1. TypeOK'
  BY RunnerAssumption DEF Inv, TypeOK, StartGivenUp, Shutdown, DropDriver, ShutdownDone
<1>2. Phases'
  BY PhasesStay DEF Inv, StartGivenUp, Shutdown, DropDriver, ShutdownDone
<1>3. Lives'
  BY LivesStay DEF Inv, StartGivenUp, Shutdown, DropDriver, ShutdownDone
<1>4. Names'
  BY NamesStay DEF Inv, StartGivenUp, Shutdown, DropDriver, ShutdownDone
<1>5. Order'
  BY OrderStay DEF Inv, StartGivenUp, Shutdown, DropDriver, ShutdownDone
<1>6. Slots'
  BY SlotsStay DEF Inv, StartGivenUp, Shutdown, DropDriver, ShutdownDone
<1>7. Deadlines'
  BY DeadlinesStay DEF Inv, StartGivenUp, Shutdown, DropDriver, ShutdownDone
<1> QED
  BY <1>1, <1>2, <1>3, <1>4, <1>5, <1>6, <1>7 DEF Inv

LEMMA WatchdogEndsInv == ASSUME Inv, WatchdogEnds PROVE Inv'
<1>1. TypeOK'
  BY RunnerAssumption DEF Inv, TypeOK, WatchdogEnds
<1>2. Phases'
  BY RunnerAssumption DEF Inv, TypeOK, Phases, WatchdogEnds
<1>3. Lives'
  BY LivesStay DEF Inv, WatchdogEnds
<1>4. Names'
  BY NamesStay DEF Inv, WatchdogEnds
<1>5. Order'
  BY OrderStay DEF Inv, WatchdogEnds
<1>6. Slots'
  BY SlotsStay DEF Inv, WatchdogEnds
<1>7. Deadlines'
  BY RunnerAssumption DEF Inv, TypeOK, Deadlines, RunsAreWatched, Overdue, GivenUp, WatchdogEnds
<1> QED
  BY <1>1, <1>2, <1>3, <1>4, <1>5, <1>6, <1>7 DEF Inv

LEMMA BootInv == ASSUME Inv, Boot PROVE Inv'
<1>1. TypeOK'
  BY RunnerAssumption DEF Inv, TypeOK, Boot
<1>2. Phases'
  BY RunnerAssumption DEF Inv, TypeOK, Phases, Boot
<1>3. Lives'
  BY RunnerAssumption DEF Inv, TypeOK, Lives, Fresh, Sent, InChannel, Boot
<1>4. Names'
  BY NamesStay DEF Inv, Boot
<1>5. Order'
  BY OrderStay DEF Inv, Boot
<1>6. Slots'
  BY RunnerAssumption DEF Inv, TypeOK, Slots, MadeOnes, Unread, Served, Sent, InChannel,
     ClosedBefore, Boot
<1>7. Deadlines'
  BY RunnerAssumption DEF Inv, TypeOK, Deadlines, RunsAreWatched, Overdue, GivenUp, Boot
<1> QED
  BY <1>1, <1>2, <1>3, <1>4, <1>5, <1>6, <1>7 DEF Inv

LEMMA BootFailsInv == ASSUME Inv, BootFails PROVE Inv'
<1>1. cur = None
  BY DEF Inv, Phases, BootFails
<1> QED
  BY <1>1, VmGoneInv, NoDeadline DEF BootFails, Inv, TypeOK

LEMMA AskInv ==
  ASSUME Inv, NEW r \in Requests, NEW k \in Kinds, NEW id \in held \union {None},
         k # "instance" => id \in held, Ask(r, k, id)
  PROVE  Inv'
<1>1. TypeOK'
  BY RunnerAssumption DEF Inv, TypeOK, Ask
<1>2. Phases'
  <2>1. cur # r
    BY UnsentFacts DEF Inv, Lives, Ask
  <2> QED
    BY <2>1 DEF Inv, TypeOK, Phases, Ask
<1>3. Lives'
  BY RunnerAssumption DEF Inv, TypeOK, Lives, Fresh, Sent, InChannel, Ask
<1>4. Names'
  <2>1. Fresh(r) /\ cur # r
    BY UnsentFacts DEF Inv, Lives, Ask
  <2>2. \A q \in Requests \ {r} :
          caller'[q] = caller[q] /\ kind'[q] = kind[q] /\ target'[q] = target[q]
    BY DEF Inv, TypeOK, Ask
  <2>3. kind'[r] = k /\ target'[r] = id /\ (k # "instance" => id \in held)
    BY DEF Inv, TypeOK, Ask
  <2>4. held' \subseteq held
    BY DEF Ask
  <2>6. MadeOnes' = MadeOnes /\ r \notin MadeOnes
    BY <2>1 DEF Ask, MadeOnes, Fresh
  <2>7. ASSUME NEW q \in Requests, caller'[q] # "idle", kind'[q] # "instance"
        PROVE  Named(target'[q])
    <3>1. CASE q = r
      BY <2>3, <2>7, <3>1 DEF Inv, Names
    <3>2. CASE q # r
      BY <2>2, <2>7, <3>2 DEF Inv, Names
    <3> QED
      BY <3>1, <3>2
  <2>8. cur # None => kind'[cur] = kind[cur]
    BY <2>1, <2>2, CurFacts
  <2>9. \A q \in Requests : kind'[q] = "instance" /\ answer[q] = "ok" => made[q] # None
    BY <2>1, <2>2, RunnerAssumption DEF Fresh, Inv, Names
  <2>10. UNCHANGED <<nextSlot, slots, made, answer, cur, outcome>>
    BY DEF Ask
  <2>11. \A i \in held' : Named(i)'
    BY <2>4, <2>10 DEF Inv, Names, Named
  <2>12. \A q \in Requests : caller'[q] # "idle" /\ kind'[q] # "instance" => Named(target[q])'
    BY <2>7, <2>10 DEF Named
  <2>13. \A q \in MadeOnes : kind'[q] = kind[q]
    BY <2>2, <2>6 DEF MadeOnes
  <2> HIDE DEF Named
  <2> QED
    BY <2>6, <2>8, <2>9, <2>10, <2>11, <2>12, <2>13 DEF Inv, Names
<1>5. Order'
  BY OrderStay DEF Inv, Ask
<1>6. Slots'
  <2>1. Fresh(r) /\ cur # r /\ ~Sent(r)
    BY UnsentFacts DEF Inv, Lives, Ask
  <2>2. \A q \in Requests \ {r} : kind'[q] = kind[q] /\ target'[q] = target[q]
    BY DEF Inv, TypeOK, Ask
  <2>3. UNCHANGED <<vm, made, slots, answer, cur, outcome, sentAt, channel>>
    BY DEF Ask
  <2>4. \A q \in Requests : Sent(q) /\ ClosedBefore(q) => ClosedBefore(q)'
    BY <2>1, <2>2, <2>3 DEF Sent, ClosedBefore
  <2>5. \A c \in Requests : Served(c) => Served(c)' /\ c # r
    BY <2>1, <2>3 DEF Served, Sent, InChannel
  <2>6. \A q \in MadeOnes : /\ vm # "ended" /\ made[q] \notin slots
                            /\ \E c \in Requests :
                                 kind[c] = "close" /\ target[c] = made[q] /\ Served(c)
          => \E c \in Requests : kind'[c] = "close" /\ target'[c] = made[q] /\ Served(c)'
    BY <2>2, <2>5
  <2> QED
    BY <2>1, <2>2, <2>3, <2>4, <2>6, RunnerAssumption DEF Inv, Slots, MadeOnes, Unread, Sent, Fresh
<1>7. Deadlines'
  BY RunnerAssumption DEF Inv, TypeOK, Deadlines, RunsAreWatched, Overdue, GivenUp, Ask
<1> QED
  BY <1>1, <1>2, <1>3, <1>4, <1>5, <1>6, <1>7 DEF Inv

LEMMA Went ==
  ASSUME Inv, NEW r \in Requests, Send(r)
  PROVE  /\ ~Sent(r) /\ Fresh(r) /\ ~InChannel(r) /\ cur # r
         /\ Len(channel') = Len(channel) + 1 /\ channel' \in Seq(Requests)
         /\ \A i \in 1 .. Len(channel) : channel'[i] = channel[i]
         /\ channel'[Len(channel) + 1] = r
         /\ \A q \in Requests : InChannel(q)' <=> InChannel(q) \/ q = r
         /\ sentAt' = [sentAt EXCEPT ![r] = Cardinality(SentOnes)]
         /\ \A q \in Requests : Sent(q)' <=> Sent(q) \/ q = r
<1>1. ~Sent(r) /\ Fresh(r) /\ ~InChannel(r) /\ cur # r
  BY UnsentFacts DEF Inv, Lives, Send
<1>2. /\ Len(channel') = Len(channel) + 1 /\ channel' \in Seq(Requests)
      /\ \A i \in 1 .. Len(channel) : channel'[i] = channel[i]
      /\ channel'[Len(channel) + 1] = r
  BY AppendProperties DEF Inv, TypeOK, Send
<1>3. \A q \in Requests : InChannel(q)' <=> InChannel(q) \/ q = r
  <2>1. 1 .. Len(channel') = (1 .. Len(channel)) \union {Len(channel) + 1}
    BY <1>2, ChannelFacts DEF Inv
  <2> QED
    BY <1>2, <2>1 DEF InChannel
<1>4. sentAt' = [sentAt EXCEPT ![r] = Cardinality(SentOnes)]
  BY DEF Send, SentOnes, Sent
<1>5. \A q \in Requests : Sent(q)' <=> Sent(q) \/ q = r
  BY <1>4, Counts, RunnerAssumption DEF Inv, TypeOK, Sent
<1> QED
  BY <1>1, <1>2, <1>3, <1>4, <1>5

LEMMA SendInv == ASSUME Inv, NEW r \in Requests, Send(r) PROVE Inv'
<1>1. TypeOK'
  <2>1. channel' \in Seq(Requests) /\ Len(channel') <= QueueCap
    BY Went, ChannelFacts, RunnerAssumption DEF Inv, Send
  <2>2. sentAt' \in [Requests -> Nat \union {None}]
    BY Went, Counts DEF Inv, TypeOK
  <2> QED
    BY <2>1, <2>2 DEF Inv, TypeOK, Send
<1>2. Phases'
  BY RunnerAssumption DEF Inv, TypeOK, Phases, Send
<1>3. Lives'
  <2>1. \A q \in Requests \ {r} : caller'[q] = caller[q]
    BY DEF Inv, TypeOK, Send
  <2>2. caller'[r] = "awaiting"
    BY DEF Inv, TypeOK, Send
  <2> QED
    BY <2>1, <2>2, Went DEF Inv, Lives, Fresh, Send
<1>4. Names'
  BY RunnerAssumption DEF Inv, TypeOK, Names, MadeOnes, Named, Send
<1>5. Order'
  <2> DEFINE n == Cardinality(SentOnes)
  <2>1. n \in Nat /\ Cardinality(SentOnes') = n + 1
    <3>1. SentOnes' = SentOnes \union {r} /\ r \notin SentOnes
      BY Went DEF SentOnes
    <3> QED
      BY <3>1, Counts, FS_AddElement
  <2>2. sentAt'[r] = n /\ \A q \in Requests \ {r} : sentAt'[q] = sentAt[q]
    BY Went DEF Inv, TypeOK
  <2> HIDE DEF n
  <2>3. \A q \in SentOnes : sentAt[q] \in Nat /\ sentAt[q] < n /\ sentAt'[q] = sentAt[q]
    BY <2>2, Went DEF Inv, TypeOK, Order, SentOnes, Sent, n
  <2>4. \A q \in SentOnes' : q \in SentOnes \/ q = r
    BY Went DEF SentOnes
  <2>5. \A q \in SentOnes' : sentAt'[q] < Cardinality(SentOnes')
    BY <2>1, <2>2, <2>3, <2>4
  <2>6. \A i \in 1 .. Len(channel) : channel[i] \in SentOnes /\ channel'[i] = channel[i]
    BY Went, ChannelFacts DEF Inv, Lives, InChannel, SentOnes
  <2>7. Len(channel) \in Nat /\ Len(channel') = Len(channel) + 1 /\ channel'[Len(channel) + 1] = r
    BY Went, ChannelFacts DEF Inv
  <2>8. ASSUME NEW i \in 1 .. Len(channel'), NEW j \in 1 .. Len(channel'), i < j
        PROVE  sentAt'[channel'[i]] < sentAt'[channel'[j]]
    <3>1. i \in 1 .. Len(channel)
      BY <2>7, <2>8
    <3>2. CASE j = Len(channel) + 1
      BY <2>2, <2>3, <2>6, <2>7, <3>1, <3>2
    <3>3. CASE j \in 1 .. Len(channel)
      BY <2>3, <2>6, <2>8, <3>1, <3>3 DEF Inv, Order
    <3> QED
      BY <2>7, <3>2, <3>3
  <2>9. ASSUME NEW q \in SentOnes', ~InChannel(q)', NEW i \in 1 .. Len(channel')
        PROVE  sentAt'[q] < sentAt'[channel'[i]]
    <3>1. q \in SentOnes /\ ~InChannel(q)
      BY <2>4, <2>9, Went DEF SentOnes
    <3>2. CASE i = Len(channel) + 1
      BY <2>2, <2>3, <2>7, <3>1, <3>2
    <3>3. CASE i \in 1 .. Len(channel)
      BY <2>3, <2>6, <3>1, <3>3 DEF Inv, Order
    <3> QED
      BY <2>7, <3>2, <3>3
  <2>10. ASSUME cur' # None, NEW q \in SentOnes' \ {cur'}, ~InChannel(q)'
         PROVE  sentAt'[q] < sentAt'[cur']
    <3>1. q \in SentOnes /\ ~InChannel(q) /\ cur' = cur
      BY <2>4, <2>10, Went DEF SentOnes, Send
    <3>2. cur \in SentOnes
      BY <2>10, <3>1, CurFacts DEF SentOnes
    <3> QED
      BY <2>3, <2>10, <3>1, <3>2 DEF Inv, Order
  <2> QED
    BY <2>5, <2>8, <2>9, <2>10 DEF Order
<1>6. Slots'
  <2>1. \A q \in Requests : Sent(q) => sentAt'[q] = sentAt[q] /\ q # r
    BY Went DEF Inv, TypeOK
  <2>2. UNCHANGED <<vm, made, slots, answer, cur, outcome, kind, target>>
    BY DEF Send
  <2>3. \A q \in Requests : Sent(q) /\ ClosedBefore(q) => ClosedBefore(q)'
    BY <2>1, <2>2 DEF Sent, ClosedBefore
  <2>4. \A c \in Requests : Served(c) => Served(c)'
    BY <2>1, <2>2, Went DEF Served
  <2>5. \A q \in Requests : Sent(q) => Sent(q)'
    BY Went
  <2> QED
    BY <2>2, <2>3, <2>4, <2>5 DEF Inv, Slots, MadeOnes, Unread
<1>7. Deadlines'
  BY RunnerAssumption DEF Inv, TypeOK, Deadlines, RunsAreWatched, Overdue, GivenUp, Send
<1> QED
  BY <1>1, <1>2, <1>3, <1>4, <1>5, <1>6, <1>7 DEF Inv

LEMMA LostInv == ASSUME Inv, NEW r \in Requests, Lost(r) PROVE Inv'
<1>1. TypeOK'
  BY RunnerAssumption DEF Inv, TypeOK, Lost
<1>2. Phases'
  BY PhasesStay DEF Inv, Lost
<1>3. Lives'
  BY RunnerAssumption DEF Inv, TypeOK, Lives, Fresh, Sent, InChannel, Lost
<1>4. Names'
  BY RunnerAssumption DEF Inv, TypeOK, Names, MadeOnes, Named, Lost
<1>5. Order'
  BY OrderStay DEF Inv, Lost
<1>6. Slots'
  BY SlotsStay DEF Inv, Lost
<1>7. Deadlines'
  BY RunnerAssumption DEF Inv, TypeOK, Deadlines, RunsAreWatched, Overdue, GivenUp, Lost
<1> QED
  BY <1>1, <1>2, <1>3, <1>4, <1>5, <1>6, <1>7 DEF Inv

LEMMA ReceiveInv == ASSUME Inv, NEW r \in Requests, Receive(r) PROVE Inv'
<1>1. TypeOK'
  <2>1. held' \subseteq SlotIds
    BY DEF Inv, TypeOK, Names, Receive
  <2> QED
    BY <2>1 DEF Inv, TypeOK, Receive
<1>2. Phases'
  BY PhasesStay DEF Inv, Receive
<1>3. Lives'
  BY RunnerAssumption DEF Inv, TypeOK, Lives, Fresh, Sent, InChannel, Receive
<1>4. Names'
  BY RunnerAssumption DEF Inv, TypeOK, Names, MadeOnes, Named, Receive
<1>5. Order'
  BY OrderStay DEF Inv, Receive
<1>6. Slots'
  BY SlotsStay DEF Inv, Receive
<1>7. Deadlines'
  BY RunnerAssumption DEF Inv, TypeOK, Deadlines, RunsAreWatched, Overdue, GivenUp, Receive
<1> QED
  BY <1>1, <1>2, <1>3, <1>4, <1>5, <1>6, <1>7 DEF Inv

LEMMA GiveUpInv == ASSUME Inv, NEW r \in Requests, GiveUp(r) PROVE Inv'
<1>1. TypeOK'
  BY RunnerAssumption DEF Inv, TypeOK, GiveUp
<1>2. Phases'
  BY PhasesStay DEF Inv, GiveUp
<1>3. Lives'
  BY RunnerAssumption DEF Inv, TypeOK, Lives, Fresh, Sent, InChannel, GiveUp
<1>4. Names'
  BY RunnerAssumption DEF Inv, TypeOK, Names, MadeOnes, Named, GiveUp
<1>5. Order'
  BY OrderStay DEF Inv, GiveUp
<1>6. Slots'
  BY SlotsStay DEF Inv, GiveUp
<1>7. Deadlines'
  BY RunnerAssumption DEF Inv, TypeOK, Deadlines, RunsAreWatched, Overdue, GivenUp, GiveUp
<1> QED
  BY <1>1, <1>2, <1>3, <1>4, <1>5, <1>6, <1>7 DEF Inv

LEMMA DropHandleInv == ASSUME Inv, DropRunner \/ \E id \in held : DropInstance(id) PROVE Inv'
<1>1. TypeOK'
  <2>1. CASE DropRunner
    BY <2>1, Zenon DEF Inv, TypeOK, DropRunner
  <2>2. CASE \E id \in held : DropInstance(id)
    <3>1. held' \subseteq held
      BY <2>2 DEF DropInstance
    <3> QED
      BY <2>2, <3>1 DEF Inv, TypeOK, DropInstance
  <2> QED
    BY <2>1, <2>2
<1>2. Phases'
  BY PhasesStay DEF Inv, DropRunner, DropInstance
<1>3. Lives'
  BY LivesStay DEF Inv, DropRunner, DropInstance
<1>4. Names'
  <2>1. held' \subseteq held
    BY DEF DropRunner, DropInstance
  <2>2. UNCHANGED <<nextSlot, made, slots, kind, answer, outcome, cur, caller, target>>
    BY DEF DropRunner, DropInstance
  <2> QED
    BY <2>1, <2>2 DEF Inv, Names, MadeOnes, Named
<1>5. Order'
  BY OrderStay DEF Inv, DropRunner, DropInstance
<1>6. Slots'
  BY SlotsStay DEF Inv, DropRunner, DropInstance
<1>7. Deadlines'
  BY DeadlinesStay DEF Inv, DropRunner, DropInstance
<1> QED
  BY <1>1, <1>2, <1>3, <1>4, <1>5, <1>6, <1>7 DEF Inv

LEMMA PollStopInv == ASSUME Inv, PollStop PROVE Inv'
<1>1. cur = None
  BY DEF Inv, Phases, PollStop
<1>2. CASE VmGone
  BY <1>1, <1>2, VmGoneInv, NoDeadline DEF PollStop, Inv, TypeOK
<1>3. CASE /\ vm' = "polled"
           /\ UNCHANGED <<cur, outcome, slots, nextSlot, made, answer, channel, watchdog>>
  <2> USE <1>1, <1>3 DEF PollStop, Inv
  <2>1. TypeOK'
    BY DEF TypeOK
  <2>2. Phases'
    BY DEF Phases
  <2>3. Lives'
    BY DEF Lives, Fresh, Sent, InChannel
  <2>4. Names' /\ Order'
    BY NamesStay, OrderStay
  <2>5. Slots'
    BY DEF Slots, MadeOnes, Unread, Served, Sent, InChannel, ClosedBefore
  <2>6. Deadlines'
    BY DEF Deadlines, RunsAreWatched, Overdue, GivenUp
  <2> QED
    BY <2>1, <2>2, <2>3, <2>4, <2>5, <2>6
<1> QED
  BY <1>2, <1>3 DEF PollStop

\* The next request leaves the channel: it is served, or passed over.
LEMMA Took ==
  ASSUME Inv, vm = "polled", channel # <<>>, channel' = Tail(channel)
  PROVE  /\ Head(channel) \in Requests /\ Head(channel) = channel[1]
         /\ Len(channel') = Len(channel) - 1 /\ channel' \in Seq(Requests)
         /\ Len(channel) \in Nat \ {0}
         /\ \A i \in 1 .. Len(channel') : channel'[i] = channel[i + 1]
         /\ \A r \in Requests : InChannel(r)' <=> InChannel(r) /\ r # Head(channel)
         /\ InChannel(Head(channel))
<1>1. channel \in Seq(Requests)
  BY DEF Inv, TypeOK
<1>2. /\ Head(channel) \in Requests /\ Head(channel) = channel[1]
      /\ Len(channel') = Len(channel) - 1 /\ channel' \in Seq(Requests)
      /\ Len(channel) \in Nat \ {0}
      /\ \A i \in 1 .. Len(channel') : channel'[i] = channel[i + 1]
  BY <1>1, HeadTailProperties, EmptySeq
<1>3. \A i \in 1 .. Len(channel) : i # 1 => sentAt[channel[1]] < sentAt[channel[i]]
  BY <1>2 DEF Inv, Order
<1>4. \A i \in 1 .. Len(channel) : i # 1 => channel[i] # channel[1]
  <2> SUFFICES ASSUME NEW i \in 1 .. Len(channel), i # 1, channel[i] = channel[1] PROVE FALSE
    OBVIOUS
  <2>1. sentAt[channel[1]] \in Nat
    <3>1. InChannel(channel[1])
      BY <1>2 DEF InChannel
    <3> QED
      BY <1>2, <3>1 DEF Inv, Lives, Sent, TypeOK
  <2> QED
    BY <1>3, <2>1
<1>5. InChannel(Head(channel))
  BY <1>2 DEF InChannel
<1>6. ASSUME NEW r \in Requests PROVE InChannel(r)' <=> InChannel(r) /\ r # Head(channel)
  <2>1. InChannel(r)' => InChannel(r) /\ r # Head(channel)
    <3> SUFFICES ASSUME NEW i \in 1 .. Len(channel'), channel'[i] = r
                 PROVE  InChannel(r) /\ r # Head(channel)
      BY DEF InChannel
    <3>1. i + 1 \in 1 .. Len(channel) /\ i + 1 # 1 /\ channel[i + 1] = r
      BY <1>2
    <3> QED
      BY <1>2, <1>4, <3>1 DEF InChannel
  <2>2. ASSUME InChannel(r), r # Head(channel) PROVE InChannel(r)'
    <3>1. PICK i \in 1 .. Len(channel) : channel[i] = r
      BY <2>2 DEF InChannel
    <3>2. i - 1 \in 1 .. Len(channel') /\ channel'[i - 1] = channel[i]
      <4>1. i # 1
        BY <2>2, <3>1, <1>2
      <4>2. i - 1 \in 1 .. Len(channel') /\ (i - 1) + 1 = i
        BY <1>2, <4>1
      <4> QED
        BY <1>2, <4>2
    <3> QED
      BY <3>1, <3>2 DEF InChannel
  <2> QED
    BY <2>1, <2>2
<1> QED
  BY <1>2, <1>5, <1>6

LEMMA PollChannelInv == ASSUME Inv, PollChannel PROVE Inv'
<1>1. cur = None /\ outcome = None
  BY DEF Inv, Phases, PollChannel
<1>2. CASE VmGone
  BY <1>1, <1>2, VmGoneInv, NoDeadline DEF PollChannel, Inv, TypeOK
<1>3. CASE /\ vm' = "parked"
           /\ UNCHANGED <<cur, outcome, slots, nextSlot, made, answer, channel, watchdog>>
  <2> USE <1>1, <1>3 DEF PollChannel, Inv
  <2>1. TypeOK'
    BY DEF TypeOK
  <2>2. Phases'
    BY DEF Phases
  <2>3. Lives'
    BY DEF Lives, Fresh, Sent, InChannel
  <2>4. Names' /\ Order'
    BY NamesStay, OrderStay
  <2>5. Slots'
    BY DEF Slots, MadeOnes, Unread, Served, Sent, InChannel, ClosedBefore
  <2>6. Deadlines'
    BY DEF Deadlines, RunsAreWatched, Overdue, GivenUp
  <2> QED
    BY <2>1, <2>2, <2>3, <2>4, <2>5, <2>6
<1>4. CASE /\ channel # <<>>
           /\ channel' = Tail(channel)
           /\ IF Skips(Head(channel)) THEN vm' = "idle" /\ cur' = None
              ELSE vm' = "prepare" /\ cur' = Head(channel)
           /\ UNCHANGED <<outcome, slots, nextSlot, made, answer, watchdog>>
  <2> DEFINE h == Head(channel)
  <2>0. vm = "polled" /\ UNCHANGED <<callerVars, driver, panicked, timerVars, history>>
    BY DEF PollChannel
  <2>1. /\ h \in Requests /\ h = channel[1] /\ h # None /\ InChannel(h)
        /\ Len(channel') = Len(channel) - 1 /\ channel' \in Seq(Requests)
        /\ Len(channel) \in Nat \ {0}
        /\ \A i \in 1 .. Len(channel') : channel'[i] = channel[i + 1]
        /\ \A r \in Requests : InChannel(r)' <=> InChannel(r) /\ r # h
    BY <1>4, <2>0, Took, RunnerAssumption
  <2>2. (vm' = "idle" /\ cur' = None) \/ (vm' = "prepare" /\ cur' = h)
    BY <1>4
  <2>3. Sent(h) /\ Fresh(h)
    BY <2>1 DEF Inv, Lives
  <2>11. /\ UNCHANGED <<outcome, slots, nextSlot, made, answer, watchdog>>
         /\ vm' # "running" /\ \A r \in Requests : cur # r
    BY <1>1, <1>4, <2>2, RunnerAssumption
  <2> HIDE DEF h
  <2>4. TypeOK'
    <3>1. Len(channel') <= QueueCap
      BY <2>1, RunnerAssumption DEF Inv, TypeOK
    <3> QED
      BY <1>4, <2>0, <2>1, <2>2, <3>1 DEF Inv, TypeOK
  <2>5. Phases'
    BY <1>1, <1>4, <2>0, <2>1, <2>2 DEF Inv, Phases
  <2>6. Lives'
    BY <1>1, <1>4, <2>0, <2>1, <2>2, <2>3 DEF Inv, Lives, Fresh, Sent
  <2>7. Names'
    BY <1>1, <2>0, <2>11, RunnerAssumption DEF Inv, Names, MadeOnes, Named
  <2>8. Order'
    <3> USE DEF SentOnes, Sent
    <3>1. \A r \in SentOnes : sentAt[r] < Cardinality(SentOnes)
      BY DEF Inv, Order
    <3>2. ASSUME NEW i \in 1 .. Len(channel'), NEW j \in 1 .. Len(channel'), i < j
          PROVE  sentAt[channel'[i]] < sentAt[channel'[j]]
      <4>1. i + 1 \in 1 .. Len(channel) /\ j + 1 \in 1 .. Len(channel) /\ i + 1 < j + 1
        BY <2>1, <3>2
      <4> QED
        BY <2>1, <4>1 DEF Inv, Order
    <3>3. ASSUME NEW r \in SentOnes, ~InChannel(r)', NEW i \in 1 .. Len(channel')
          PROVE  sentAt[r] < sentAt[channel'[i]]
      <4>1. i + 1 \in 1 .. Len(channel) /\ 1 < i + 1 /\ 1 \in 1 .. Len(channel)
        BY <2>1
      <4> QED
        BY <2>1, <3>3, <4>1 DEF Inv, Order
    <3>4. ASSUME cur' # None, NEW r \in SentOnes \ {h}, ~InChannel(r)'
          PROVE  sentAt[r] < sentAt[h]
      <4>1. 1 \in 1 .. Len(channel)
        BY <2>1
      <4> QED
        BY <2>1, <3>4, <4>1 DEF Inv, Order
    <3> QED
      BY <2>0, <2>2, <3>1, <3>2, <3>3, <3>4 DEF Order
  <2>9. Slots'
    <3>1. \A q \in Requests : Unread(q)' => Unread(q)
      BY <2>11 DEF Unread
    <3>2. \A q \in MadeOnes : Unread(q) => Unread(q)'
      BY <1>1, <1>4, <2>2, <2>3 DEF Unread, MadeOnes, Fresh
    <3>3. \A c \in Requests : Served(c) => Served(c)'
      BY <1>1, <2>0, <2>1, <2>2 DEF Served, Sent
    <3>4. \A r \in Requests : ClosedBefore(r)' <=> ClosedBefore(r)
      BY <2>0 DEF ClosedBefore
    <3> QED
      BY <1>1, <2>0, <2>11, <3>1, <3>2, <3>3, <3>4, RunnerAssumption DEF Inv, Slots, MadeOnes, Sent
  <2>10. Deadlines'
    BY <1>1, <2>0, <2>11, RunnerAssumption
       DEF Inv, TypeOK, Deadlines, RunsAreWatched, Overdue, GivenUp
  <2> QED
    BY <2>4, <2>5, <2>6, <2>7, <2>8, <2>9, <2>10 DEF Inv
<1> QED
  BY <1>2, <1>3, <1>4 DEF PollChannel

LEMMA WakeInv == ASSUME Inv, Wake PROVE Inv'
<1>1. TypeOK'
  BY RunnerAssumption DEF Inv, TypeOK, Wake
<1>2. Phases'
  BY RunnerAssumption DEF Inv, TypeOK, Phases, Wake
<1>3. Lives'
  BY RunnerAssumption DEF Inv, TypeOK, Lives, Fresh, Sent, InChannel, Wake
<1>4. Names'
  BY NamesStay DEF Inv, Wake
<1>5. Order'
  BY OrderStay DEF Inv, Wake
<1>6. Slots'
  BY RunnerAssumption DEF Inv, TypeOK, Slots, MadeOnes, Unread, Served, Sent, InChannel,
     ClosedBefore, Wake
<1>7. Deadlines'
  BY RunnerAssumption DEF Inv, TypeOK, Deadlines, RunsAreWatched, Overdue, GivenUp, Wake
<1> QED
  BY <1>1, <1>2, <1>3, <1>4, <1>5, <1>6, <1>7 DEF Inv

LEMMA ServeCloseInv == ASSUME Inv, ServeClose PROVE Inv'
<1>1. TypeOK'
  BY DEF Inv, TypeOK, ServeClose, Answers, RunOutcomes
<1>2. Phases'
  BY RunnerAssumption DEF Inv, TypeOK, Phases, ServeClose
<1>3. Lives'
  BY RunnerAssumption DEF Inv, TypeOK, Lives, Fresh, Sent, InChannel, ServeClose
<1>4. Names'
  BY RunnerAssumption DEF Inv, TypeOK, Names, MadeOnes, Named, ServeClose
<1>5. Order'
  BY OrderStay DEF Inv, ServeClose
<1>6. Slots'
  <2>1. cur # None
    BY DEF Inv, Phases, ServeClose
  <2>2. cur \in Requests /\ Sent(cur) /\ ~InChannel(cur) /\ kind[cur] = "close"
    BY <2>1, CurFacts DEF ServeClose
  <2>3. UNCHANGED <<made, answer, cur, kind, target, sentAt, channel>>
    BY DEF ServeClose
  <2>4. vm = "prepare" /\ vm' = "reply" /\ slots' = slots \ {target[cur]} /\ outcome' = "ok"
    BY DEF ServeClose
  <2>5. \A c \in Requests : Served(c) => Served(c)'
    BY <2>3, <2>4 DEF Served, Sent, InChannel
  <2>6. \A c \in Requests : c = cur => Served(c)'
    BY <2>2, <2>3, <2>4 DEF Served, Sent, InChannel
  <2>7. \A r \in Requests : ClosedBefore(r) <=> ClosedBefore(r)'
    BY <2>3 DEF ClosedBefore
  <2>8. ASSUME NEW q \in MadeOnes, made[q] \notin slots', ~Unread(q)
        PROVE  \E c \in Requests : kind[c] = "close" /\ target[c] = made[q] /\ Served(c)'
    <3>1. CASE made[q] = target[cur]
      BY <2>2, <2>6, <3>1
    <3>2. CASE made[q] \notin slots
      BY <2>4, <2>5, <2>8, <3>2 DEF Inv, Slots
    <3> QED
      BY <2>4, <2>8, <3>1, <3>2
  <2> QED
    BY <2>3, <2>4, <2>7, <2>8 DEF Inv, Slots, MadeOnes, Unread, Sent
<1>7. Deadlines'
  BY RunnerAssumption DEF Inv, TypeOK, Deadlines, RunsAreWatched, Overdue, GivenUp, ServeClose
<1> QED
  BY <1>1, <1>2, <1>3, <1>4, <1>5, <1>6, <1>7 DEF Inv

LEMMA RefuseInv == ASSUME Inv, Refuse PROVE Inv'
<1>1. TypeOK'
  BY DEF Inv, TypeOK, Refuse, Answers, RunOutcomes
<1>2. Phases'
  BY RunnerAssumption DEF Inv, TypeOK, Phases, Refuse
<1>3. Lives'
  BY RunnerAssumption DEF Inv, TypeOK, Lives, Fresh, Sent, InChannel, Refuse
<1>4. Names'
  <2>1. cur # None /\ made[cur] = None
    BY CurFacts DEF Inv, Phases, Refuse, Fresh
  <2> QED
    BY <2>1 DEF Inv, Names, MadeOnes, Named, Refuse
<1>5. Order'
  BY OrderStay DEF Inv, Refuse
<1>6. Slots'
  <2>1. cur # None
    BY DEF Inv, Phases, Refuse
  <2>2. cur \in Requests /\ Sent(cur) /\ ~InChannel(cur) /\ answer[cur] = None
    BY <2>1, CurFacts
  <2>3. UNCHANGED <<made, answer, cur, slots, kind, target, sentAt, channel>>
    BY DEF Refuse
  <2>4. vm = "prepare" /\ vm' = "reply" /\ outcome' # "ok"
    BY DEF Refuse
  <2>5. \A c \in Requests : Served(c) => Served(c)' /\ c # cur
    BY <2>3, <2>4 DEF Served, Sent, InChannel
  <2>6. \A r \in Requests : ClosedBefore(r) <=> ClosedBefore(r)'
    BY <2>3 DEF ClosedBefore
  <2>7. ASSUME outcome' = "gone" PROVE ClosedBefore(cur)
    <3>1. kind[cur] = "call" /\ target[cur] \notin slots
      BY <2>7 DEF Refuse
    <3>2. caller[cur] # "idle"
      BY <2>2 DEF Inv, Lives
    <3>3. PICK q \in Requests : made[q] = target[cur] /\ made[q] # None /\ answer[q] = "ok"
      BY <2>2, <3>1, <3>2 DEF Inv, Names, Named
    <3>4. q \in MadeOnes
      BY <3>3 DEF MadeOnes
    <3>5. ~Unread(q)
      BY <3>3, RunnerAssumption DEF Unread
    <3>6. PICK c \in Requests : kind[c] = "close" /\ target[c] = target[cur] /\ Served(c)
      BY <2>4, <3>1, <3>3, <3>4, <3>5 DEF Inv, Slots
    <3>7. c \in SentOnes \ {cur} /\ ~InChannel(c)
      BY <2>4, <3>6 DEF Served, SentOnes
    <3>8. sentAt[c] < sentAt[cur]
      BY <2>1, <3>7 DEF Inv, Order
    <3> QED
      BY <3>6, <3>7, <3>8 DEF ClosedBefore, SentOnes, Sent
  <2> QED
    BY <2>2, <2>3, <2>4, <2>5, <2>6, <2>7 DEF Inv, Slots, MadeOnes, Unread, Sent
<1>7. Deadlines'
  BY RunnerAssumption DEF Inv, TypeOK, Deadlines, RunsAreWatched, Overdue, GivenUp, Refuse
<1> QED
  BY <1>1, <1>2, <1>3, <1>4, <1>5, <1>6, <1>7 DEF Inv

LEMMA BeginRunInv == ASSUME Inv, BeginRun PROVE Inv'
<1>1. TypeOK'
  <2>1. cur \in Requests
    BY CurFacts DEF Inv, Phases, BeginRun
  <2>2. now \in 0 .. MaxTime /\ Timer!DueAt(now, Deadline) \in 0 .. MaxInstant
    BY RunnerAssumption DEF Inv, TypeOK, Timer!DueAt
  <2>3. begun' \in [Requests -> 0 .. MaxTime \union {None}]
    BY <2>2 DEF Inv, TypeOK, BeginRun
  <2>4. deadline' \in [Requests -> 0 .. MaxInstant \union {None}]
    BY <2>2 DEF Inv, TypeOK, BeginRun, RegisterRun, Timer!Register
  <2> QED
    BY <2>3, <2>4 DEF Inv, TypeOK, BeginRun, RegisterRun, Timer!Register
<1>2. Phases'
  BY RunnerAssumption DEF Inv, TypeOK, Phases, BeginRun, RegisterRun, Timer!Register
<1>3. Lives'
  BY RunnerAssumption DEF Inv, TypeOK, Lives, Fresh, Sent, InChannel, BeginRun, RegisterRun,
     Timer!Register
<1>4. Names'
  BY NamesStay DEF Inv, BeginRun, RegisterRun, Timer!Register
<1>5. Order'
  BY OrderStay DEF Inv, BeginRun, RegisterRun, Timer!Register
<1>6. Slots'
  BY RunnerAssumption DEF Inv, TypeOK, Slots, MadeOnes, Unread, Served, Sent, InChannel,
     ClosedBefore, BeginRun, RegisterRun, Timer!Register
<1>7. Deadlines'
  <2>1. cur \in Requests /\ vm = "prepare" /\ vm' = "running" /\ Fresh(cur) /\ outcome = None
    BY CurFacts DEF Inv, Phases, BeginRun
  <2>2. UNCHANGED <<cur, watchdog, fired, answer, outcome, caller, now>>
    BY DEF BeginRun, RegisterRun, Timer!Register
  <2>3. begun'[cur] = now /\ \A r \in Requests \ {cur} : begun'[r] = begun[r]
    BY <2>1 DEF Inv, TypeOK, BeginRun
  <2>4. now \in Nat /\ now <= MaxTime /\ now # None
    BY RunnerAssumption DEF Inv, TypeOK
  <2>5. deadline'[cur] = now + Deadline /\ \A r \in Requests \ {cur} : deadline'[r] = deadline[r]
    <3>1. Timer!DueAt(now, Deadline) = now + Deadline
      BY <2>4, RunnerAssumption DEF Timer!DueAt
    <3> QED
      BY <2>1, <3>1 DEF Inv, TypeOK, BeginRun, RegisterRun, Timer!Register
  <2>6. now + Deadline # None
    BY <2>4, RunnerAssumption
  <2>7. RunsAreWatched'
    BY <2>1, <2>2, <2>5, <2>6 DEF Inv, Deadlines, RunsAreWatched, Phases
  <2>8. \A r \in Requests \ {cur} : Overdue(r) => Overdue(r)'
    BY <2>2, <2>3 DEF Overdue
  <2>9. cur \notin fired /\ answer[cur] # "timeout" /\ fired \subseteq Requests
    BY <2>1, RunnerAssumption DEF Inv, Deadlines, Fresh, Overdue, TypeOK
  <2> QED
    BY <2>1, <2>2, <2>3, <2>4, <2>5, <2>7, <2>8, <2>9, RunnerAssumption DEF Inv, Deadlines, GivenUp
<1> QED
  BY <1>1, <1>2, <1>3, <1>4, <1>5, <1>6, <1>7 DEF Inv

\* A program that ends leaves an instance made, with the next slot, or nothing.
LEMMA Ended ==
  ASSUME Inv, NEW out \in RunOutcomes, EndRun(out)
  PROVE  /\ cur \in Requests /\ made[cur] = None /\ answer[cur] = None /\ outcome = None
         /\ Sent(cur) /\ ~InChannel(cur) /\ nextSlot \in Nat
         /\ kind[cur] = "instance" /\ out = "ok" =>
              /\ made' = [made EXCEPT ![cur] = nextSlot] /\ slots' = slots \union {nextSlot}
              /\ nextSlot' = nextSlot + 1 /\ nextSlot < Cardinality(Requests)
              /\ MadeOnes' = MadeOnes \union {cur} /\ cur \notin MadeOnes
         /\ ~(kind[cur] = "instance" /\ out = "ok") => UNCHANGED <<made, slots, nextSlot>>
<1>1. /\ cur \in Requests /\ made[cur] = None /\ answer[cur] = None /\ outcome = None
      /\ Sent(cur) /\ ~InChannel(cur)
  BY CurFacts DEF Inv, Phases, EndRun
<1>2. nextSlot \in Nat
  BY Counts DEF Inv, TypeOK, SlotIds
<1>3. nextSlot < Cardinality(Requests)
  <2>1. MadeOnes \subseteq Requests /\ MadeOnes # Requests
    BY <1>1 DEF MadeOnes
  <2>2. /\ Cardinality(MadeOnes) <= Cardinality(Requests)
        /\ Cardinality(MadeOnes) # Cardinality(Requests)
    BY <2>1, Counts, FS_Subset
  <2> QED
    BY <2>2, Counts DEF Inv, Names
<1>4. ASSUME kind[cur] = "instance", out = "ok"
      PROVE  /\ made' = [made EXCEPT ![cur] = nextSlot] /\ slots' = slots \union {nextSlot}
             /\ nextSlot' = nextSlot + 1 /\ MadeOnes' = MadeOnes \union {cur} /\ cur \notin MadeOnes
  <2>1. /\ made' = [made EXCEPT ![cur] = nextSlot] /\ slots' = slots \union {nextSlot}
        /\ nextSlot' = nextSlot + 1
    BY <1>4 DEF EndRun, FreshSlot
  <2>2. MadeOnes' = MadeOnes \union {cur} /\ cur \notin MadeOnes
    BY <1>1, <1>2, <2>1, RunnerAssumption DEF Inv, TypeOK, MadeOnes
  <2> QED
    BY <2>1, <2>2
<1>5. ~(kind[cur] = "instance" /\ out = "ok") => UNCHANGED <<made, slots, nextSlot>>
  BY DEF EndRun
<1> QED
  BY <1>1, <1>2, <1>3, <1>4, <1>5

LEMMA EndRunInv == ASSUME Inv, NEW out \in RunOutcomes, EndRun(out) PROVE Inv'
<1>1. TypeOK'
  <2>1. /\ slots' \subseteq SlotIds /\ nextSlot' \in SlotIds
        /\ made' \in [Requests -> SlotIds \union {None}]
    <3>1. CASE kind[cur] = "instance" /\ out = "ok"
      <4>1. nextSlot \in SlotIds /\ nextSlot + 1 \in SlotIds
        BY <3>1, Ended, Counts DEF SlotIds
      <4> QED
        BY <3>1, <4>1, Ended DEF Inv, TypeOK
    <3>2. CASE ~(kind[cur] = "instance" /\ out = "ok")
      BY <3>2, Ended DEF Inv, TypeOK
    <3> QED
      BY <3>1, <3>2
  <2>2. deadline' \in [Requests -> 0 .. MaxInstant \union {None}]
    BY DEF Inv, TypeOK, EndRun, Timer!Release
  <2>3. outcome' \in Answers \union {None}
    BY DEF EndRun, Answers
  <2> QED
    BY <2>1, <2>2, <2>3 DEF Inv, TypeOK, EndRun, Timer!Release
<1>2. Phases'
  BY RunnerAssumption DEF Inv, TypeOK, Phases, EndRun, RunOutcomes, FreshSlot, Timer!Release
<1>3. Lives'
  BY RunnerAssumption DEF Inv, TypeOK, Lives, Fresh, Sent, InChannel, EndRun, RunOutcomes,
     FreshSlot, Timer!Release
<1>4. Names'
  <2>1. UNCHANGED <<kind, answer, cur, held, caller, target>> /\ outcome' = out
    BY DEF EndRun
  <2>2. cur \in Requests /\ made[cur] = None /\ nextSlot \in Nat /\ answer[cur] = None /\ cur # None
    BY Ended, RunnerAssumption
  <2>3. \A id : Named(id) => Named(id)'
    <3>1. \A q \in Requests : answer[q] = "ok" => made'[q] = made[q]
      BY <2>2, Ended, RunnerAssumption DEF Inv, TypeOK
    <3> QED
      BY <2>1, <3>1 DEF Named
  <2>4. CASE kind[cur] = "instance" /\ out = "ok"
    <3>1. /\ made'[cur] = nextSlot /\ \A q \in Requests \ {cur} : made'[q] = made[q]
          /\ MadeOnes' = MadeOnes \union {cur} /\ cur \notin MadeOnes
          /\ nextSlot' = nextSlot + 1 /\ slots' = slots \union {nextSlot}
      BY <2>4, Ended DEF Inv, TypeOK
    <3>2. \A q \in MadeOnes : made[q] \in Nat /\ made[q] < nextSlot /\ q \in Requests
      BY Counts DEF Inv, Names, MadeOnes, TypeOK, SlotIds
    <3>3. nextSlot' = Cardinality(MadeOnes')
      <4>1. Cardinality(MadeOnes') = Cardinality(MadeOnes) + 1
        BY <3>1, Counts, FS_AddElement
      <4>2. nextSlot = Cardinality(MadeOnes)
        BY DEF Inv, Names
      <4> QED
        BY <3>1, <4>1, <4>2
    <3>4. \A id \in slots' : id < nextSlot'
      <4>1. \A id \in slots : id \in Nat /\ id < nextSlot
        BY Counts DEF Inv, Names, TypeOK, SlotIds
      <4> QED
        BY <2>2, <3>1, <4>1
    <3>5. \A r \in MadeOnes' : kind[r] = "instance" /\ made'[r] < nextSlot'
      BY <2>2, <2>4, <3>1, <3>2 DEF Inv, Names
    <3>6. ASSUME NEW q \in MadeOnes', NEW r \in MadeOnes', made'[q] = made'[r] PROVE q = r
      BY <2>2, <3>1, <3>2, <3>6 DEF Inv, Names
    <3>7. \A r \in Requests : kind[r] = "instance" /\ answer[r] = "ok" => made'[r] # None
      BY <2>2, <3>1, RunnerAssumption DEF Inv, Names
    <3>8. made'[cur] # None
      BY <2>2, <3>1, RunnerAssumption
    <3> QED
      BY <2>1, <2>3, <2>4, <3>3, <3>4, <3>5, <3>6, <3>7, <3>8 DEF Inv, Names
  <2>5. CASE ~(kind[cur] = "instance" /\ out = "ok")
    BY <2>1, <2>2, <2>3, <2>5, Ended DEF Inv, Names, MadeOnes
  <2> QED
    BY <2>4, <2>5
<1>5. Order'
  BY OrderStay DEF Inv, EndRun, RunOutcomes, FreshSlot, Timer!Release
<1>6. Slots'
  <2>1. UNCHANGED <<kind, answer, cur, target, sentAt, channel>> /\ outcome' = out
    BY DEF EndRun
  <2>2. vm = "running" /\ vm' = "reply" /\ kind[cur] # "close"
    BY DEF EndRun, Inv, Phases
  <2>3. /\ cur \in Requests /\ made[cur] = None /\ nextSlot \in Nat /\ answer[cur] = None
        /\ outcome = None
    BY Ended
  <2>4. \A c \in Requests : Served(c) => Served(c)'
    BY <2>1, <2>2 DEF Served, Sent, InChannel
  <2>5. \A r \in Requests : ClosedBefore(r) <=> ClosedBefore(r)'
    BY <2>1 DEF ClosedBefore
  <2>6. /\ \A q \in MadeOnes : made'[q] = made[q] /\ q # cur /\ made[q] # nextSlot
        /\ \A q \in MadeOnes' : q \in MadeOnes \/ (q = cur /\ made'[q] \in slots')
        /\ slots \subseteq slots' /\ slots' \subseteq slots \union {nextSlot}
    <3>1. \A q \in MadeOnes : made[q] \in Nat /\ made[q] < nextSlot /\ q \in Requests
      BY Counts DEF Inv, Names, MadeOnes, TypeOK, SlotIds
    <3> QED
      BY <2>3, <3>1, Ended DEF Inv, TypeOK, MadeOnes
  <2>7. \A q \in Requests : Unread(q)' <=> Unread(q)
    BY <2>1 DEF Unread
  <2>8. \A c \in Requests : kind[c] = "close" /\ answer[c] = "ok" => target[c] # nextSlot
    <3> SUFFICES ASSUME NEW c \in Requests, kind[c] = "close", answer[c] = "ok"
                 PROVE  target[c] # nextSlot
      OBVIOUS
    <3>1. caller[c] # "idle"
      BY RunnerAssumption DEF Inv, Lives, Fresh
    <3>2. PICK q \in Requests : made[q] = target[c] /\ answer[q] = "ok"
      BY <3>1 DEF Inv, Names, Named
    <3>3. CASE q \in MadeOnes
      BY <2>6, <3>2, <3>3
    <3>4. CASE q \notin MadeOnes
      BY <2>3, <3>2, <3>4, RunnerAssumption DEF MadeOnes
    <3> QED
      BY <3>3, <3>4
  <2>9. out # "gone"
    BY DEF RunOutcomes
  <2>10. ASSUME NEW q \in MadeOnes', made'[q] \notin slots', ~Unread(q)'
         PROVE  \E c \in Requests : kind[c] = "close" /\ target[c] = made'[q] /\ Served(c)'
    <3>1. q \in MadeOnes /\ made[q] \notin slots /\ made'[q] = made[q] /\ ~Unread(q)
      BY <2>6, <2>7, <2>10 DEF MadeOnes
    <3> QED
      BY <2>2, <2>4, <3>1 DEF Inv, Slots
  <2>11. ASSUME NEW q \in MadeOnes', Unread(q)' PROVE made'[q] \notin slots'
    <3>1. q \in MadeOnes /\ Unread(q)
      BY <2>1, <2>6, <2>7, <2>11 DEF Unread, MadeOnes
    <3> QED
      BY <2>6, <3>1 DEF Inv, Slots
  <2>12. ASSUME NEW c \in Requests, kind[c] = "close",
                answer[c] = "ok" \/ (cur = c /\ outcome' = "ok")
         PROVE  target[c] \notin slots'
    BY <2>2, <2>6, <2>8, <2>12 DEF Inv, Slots
  <2>13. ASSUME NEW r \in Requests, answer[r] = "gone" \/ (cur = r /\ outcome' = "gone")
         PROVE  Sent(r)' /\ ClosedBefore(r)'
    BY <2>1, <2>5, <2>9, <2>13 DEF Inv, Slots, Sent
  <2> QED
    BY <2>1, <2>10, <2>11, <2>12, <2>13 DEF Slots
<1>7. Deadlines'
  <2>1. /\ UNCHANGED <<cur, watchdog, begun, fired, answer, caller, now>>
        /\ outcome' = out /\ vm' = "reply"
    BY DEF EndRun, Timer!Release
  <2>2. \A r \in Requests : deadline'[r] = None
    BY DEF Inv, TypeOK, Deadlines, RunsAreWatched, EndRun, Timer!Release
  <2>3. \A r \in Requests : Overdue(r)' <=> Overdue(r)
    BY <2>1 DEF Overdue
  <2>4. out = "timeout" /\ ~GivenUp(cur) => Overdue(cur)
    BY DEF EndRun, Cancelled, Inv, Deadlines
  <2>5. fired \subseteq Requests
    BY DEF Inv, TypeOK
  <2> QED
    BY <2>1, <2>2, <2>3, <2>4, <2>5 DEF Inv, Deadlines, RunsAreWatched, GivenUp
<1> QED
  BY <1>1, <1>2, <1>3, <1>4, <1>5, <1>6, <1>7 DEF Inv

\* The request is answered, unless its caller is gone; a slot nobody will name goes.
LEMMA Replied ==
  ASSUME Inv, Reply
  PROVE  /\ cur \in Requests /\ cur # None /\ answer[cur] = None /\ outcome # None
         /\ Sent(cur) /\ ~InChannel(cur)
         /\ \A q \in Requests \ {cur} : answer'[q] = answer[q]
         /\ answer'[cur] = IF GivenUp(cur) THEN None ELSE outcome
         /\ slots' = IF GivenUp(cur) /\ kind[cur] = "instance" /\ outcome = "ok"
                     THEN slots \ {made[cur]} ELSE slots
<1>1. /\ cur \in Requests /\ cur # None /\ answer[cur] = None /\ outcome # None
      /\ Sent(cur) /\ ~InChannel(cur)
  BY CurFacts DEF Inv, Phases, Reply
<1> QED
  BY <1>1 DEF Inv, TypeOK, Reply, KeptAfterReply

LEMMA ReplyInv == ASSUME Inv, Reply PROVE Inv'
<1>1. TypeOK'
  BY RunnerAssumption DEF Inv, TypeOK, Reply, KeptAfterReply, GivenUp
<1>2. Phases'
  BY RunnerAssumption DEF Inv, TypeOK, Phases, Reply, KeptAfterReply, GivenUp
<1>3. Lives'
  BY RunnerAssumption DEF Inv, TypeOK, Lives, Fresh, Sent, InChannel, Reply, KeptAfterReply, GivenUp
<1>4. Names'
  <2>1. /\ cur \in Requests /\ cur # None /\ answer[cur] = None /\ outcome # None
        /\ \A q \in Requests \ {cur} : answer'[q] = answer[q]
        /\ answer'[cur] = IF GivenUp(cur) THEN None ELSE outcome
        /\ slots' \subseteq slots
    BY Replied
  <2>2. UNCHANGED <<nextSlot, made, kind, held, caller, target>> /\ cur' = None
    BY DEF Reply
  <2>3. \A id : Named(id) => Named(id)'
    BY <2>1, <2>2, RunnerAssumption DEF Named
  <2>4. \A r \in Requests : kind[r] = "instance" /\ answer'[r] = "ok" => made[r] # None
    BY <2>1, RunnerAssumption DEF Inv, Names
  <2> QED
    BY <2>1, <2>2, <2>3, <2>4 DEF Inv, Names, MadeOnes
<1>5. Order'
  BY RunnerAssumption DEF Inv, TypeOK, Order, SentOnes, Sent, InChannel, Reply, KeptAfterReply,
     GivenUp
<1>6. Slots'
  <2>1. /\ cur \in Requests /\ cur # None /\ answer[cur] = None /\ outcome # None
        /\ Sent(cur) /\ ~InChannel(cur)
        /\ \A q \in Requests \ {cur} : answer'[q] = answer[q]
        /\ answer'[cur] = IF GivenUp(cur) THEN None ELSE outcome
        /\ slots' \subseteq slots
    BY Replied
  <2>2. UNCHANGED <<made, kind, target, sentAt, channel>> /\ cur' = None /\ outcome' = None
    BY DEF Reply
  <2>3. vm = "reply" /\ vm' = "idle"
    BY DEF Reply
  <2>4. \A c \in Requests : Served(c) => Served(c)'
    BY <2>2, RunnerAssumption DEF Served, Sent, InChannel
  <2>5. \A r \in Requests : ClosedBefore(r) <=> ClosedBefore(r)'
    BY <2>2 DEF ClosedBefore
  <2>6. \A q \in Requests \ {cur} : Unread(q)' <=> Unread(q)
    BY <2>1, <2>2, RunnerAssumption DEF Unread
  <2>7. \A q \in Requests : q = cur => (Unread(q)' <=> GivenUp(cur))
    <3>1. cur' # cur /\ (answer'[cur] = None <=> GivenUp(cur))
      BY <2>1, <2>2
    <3> QED
      BY <3>1 DEF Unread
  <2>8. slots' = slots \/ (cur \in MadeOnes /\ GivenUp(cur) /\ slots' = slots \ {made[cur]})
    BY <2>1, Replied DEF Inv, Names, MadeOnes
  <2>9. cur \in MadeOnes /\ GivenUp(cur) => made[cur] \notin slots'
    <3> SUFFICES ASSUME cur \in MadeOnes, GivenUp(cur) PROVE made[cur] \notin slots'
      OBVIOUS
    <3>1. kind[cur] = "instance" /\ outcome = "ok"
      BY <2>1 DEF Inv, Names, MadeOnes
    <3> QED
      BY <3>1, Replied
  <2>10. ASSUME NEW q \in MadeOnes, made[q] \notin slots', ~Unread(q)'
         PROVE  \E c \in Requests : kind[c] = "close" /\ target[c] = made[q] /\ Served(c)'
    <3>1. made[q] \notin slots
      <4> SUFFICES ASSUME made[q] \in slots PROVE FALSE
        OBVIOUS
      <4>1. cur \in MadeOnes /\ GivenUp(cur) /\ made[q] = made[cur]
        BY <2>8, <2>10
      <4>2. q = cur
        BY <4>1 DEF Inv, Names
      <4> QED
        BY <2>1, <2>7, <2>10, <4>1, <4>2
    <3>2. ~Unread(q)
      BY <2>6, <2>10 DEF Unread, MadeOnes
    <3> QED
      BY <2>3, <2>4, <3>1, <3>2 DEF Inv, Slots
  <2>11. ASSUME NEW q \in MadeOnes, Unread(q)' PROVE made[q] \notin slots'
    <3>1. CASE q = cur
      BY <2>1, <2>7, <2>9, <2>11, <3>1
    <3>2. CASE q # cur
      BY <2>1, <2>6, <2>11, <3>2 DEF Inv, Slots, MadeOnes
    <3> QED
      BY <3>1, <3>2
  <2>12. ASSUME NEW c \in Requests, kind[c] = "close", answer'[c] = "ok"
         PROVE  target[c] \notin slots'
    BY <2>1, <2>12, RunnerAssumption DEF Inv, Slots
  <2>13. ASSUME NEW r \in Requests, answer'[r] = "gone" PROVE Sent(r)' /\ ClosedBefore(r)'
    BY <2>1, <2>2, <2>5, <2>13, RunnerAssumption DEF Inv, Slots, Sent
  <2>14. MadeOnes' = MadeOnes
    BY <2>2 DEF MadeOnes
  <2>15. \A r \in Requests : cur' # r
    BY <2>2, RunnerAssumption
  <2> QED
    BY <2>2, <2>10, <2>11, <2>12, <2>13, <2>14, <2>15 DEF Slots
<1>7. Deadlines'
  BY RunnerAssumption DEF Inv, TypeOK, Deadlines, RunsAreWatched, Overdue, GivenUp, Reply,
     KeptAfterReply, GivenUp
<1> QED
  BY <1>1, <1>2, <1>3, <1>4, <1>5, <1>6, <1>7 DEF Inv

LEMMA PanicInv == ASSUME Inv, Panic PROVE Inv'
<1>1. cur # None
  BY DEF Inv, Phases, Panic
<1> QED
  BY <1>1, VmGoneInv, NoDeadline DEF Panic

LEMMA FireInv == ASSUME Inv, Fire PROVE Inv'
<1>1. TypeOK'
  BY RunnerAssumption DEF Inv, TypeOK, Fire, Timer!Fire, Timer!Registered
<1>2. Phases'
  BY PhasesStay DEF Inv, Fire, Timer!Fire, Timer!Registered
<1>3. Lives'
  BY LivesStay DEF Inv, Fire, Timer!Fire, Timer!Registered
<1>4. Names'
  BY NamesStay DEF Inv, Fire, Timer!Fire, Timer!Registered
<1>5. Order'
  BY OrderStay DEF Inv, Fire, Timer!Fire, Timer!Registered
<1>6. Slots'
  BY SlotsStay DEF Inv, Fire, Timer!Fire, Timer!Registered
<1>7. Deadlines'
  BY RunnerAssumption DEF Inv, TypeOK, Deadlines, RunsAreWatched, Overdue, GivenUp, Fire,
     Timer!Fire, Timer!Registered
<1> QED
  BY <1>1, <1>2, <1>3, <1>4, <1>5, <1>6, <1>7 DEF Inv

LEMMA TickInv == ASSUME Inv, Tick PROVE Inv'
<1>1. TypeOK'
  BY RunnerAssumption DEF Inv, TypeOK, Tick, Timer!Tick
<1>2. Phases'
  BY PhasesStay DEF Inv, Tick, Timer!Tick
<1>3. Lives'
  BY LivesStay DEF Inv, Tick, Timer!Tick
<1>4. Names'
  BY NamesStay DEF Inv, Tick, Timer!Tick
<1>5. Order'
  BY OrderStay DEF Inv, Tick, Timer!Tick
<1>6. Slots'
  BY SlotsStay DEF Inv, Tick, Timer!Tick
<1>7. Deadlines'
  BY RunnerAssumption DEF Inv, TypeOK, Deadlines, RunsAreWatched, Overdue, GivenUp, Tick, Timer!Tick
<1> QED
  BY <1>1, <1>2, <1>3, <1>4, <1>5, <1>6, <1>7 DEF Inv

-----------------------------------------------------------------------------

LEMMA InitInv == Init => Inv
<1> SUFFICES ASSUME Init PROVE Inv
  OBVIOUS
<1> USE DEF Init, Timer!TimerInit
<1>1. MadeOnes = {} /\ SentOnes = {} /\ Cardinality({}) = 0
  BY FS_EmptySet DEF MadeOnes, SentOnes, Sent
<1>2. TypeOK
  <2>1. nextSlot \in SlotIds
    BY Counts DEF SlotIds
  <2>2. now \in 0 .. MaxTime
    BY RunnerAssumption
  <2>3. channel \in Seq(Requests) /\ Len(channel) <= QueueCap
    BY EmptySeq, RunnerAssumption
  <2> QED
    BY <2>1, <2>2, <2>3 DEF TypeOK, Kinds
<1>3. Phases
  BY DEF Phases
<1>4. Lives
  BY RunnerAssumption DEF Lives, Sent, Fresh, InChannel
<1>5. Names
  BY <1>1, RunnerAssumption DEF Names
<1>6. Order
  BY <1>1 DEF Order
<1>7. Slots
  BY <1>1, RunnerAssumption DEF Slots
<1>8. Deadlines
  BY RunnerAssumption DEF Deadlines, RunsAreWatched
<1> QED
  BY <1>2, <1>3, <1>4, <1>5, <1>6, <1>7, <1>8 DEF Inv

LEMMA CallerStepInv ==
  ASSUME Inv, NEW r \in Requests,
         \/ Ask(r, "instance", None)
         \/ \E id \in held : Ask(r, "call", id) \/ Ask(r, "close", id)
         \/ Send(r) \/ Lost(r) \/ Receive(r) \/ GiveUp(r)
  PROVE  Inv'
BY AskInv, SendInv, LostInv, ReceiveInv, GiveUpInv DEF Kinds

LEMMA NextInv == Inv /\ [Next]_vars => Inv'
<1> SUFFICES ASSUME Inv, [Next]_vars PROVE Inv'
  OBVIOUS
<1>1. CASE \E r \in Requests :
              \/ Ask(r, "instance", None)
              \/ \E id \in held : Ask(r, "call", id) \/ Ask(r, "close", id)
              \/ Send(r) \/ Lost(r) \/ Receive(r) \/ GiveUp(r)
  BY <1>1, CallerStepInv
<1>2. CASE VmStep \/ Panic
  BY <1>2, PollStopInv, PollChannelInv, WakeInv, ServeCloseInv, RefuseInv, BeginRunInv, EndRunInv,
     ReplyInv, PanicInv DEF VmStep
<1>3. CASE Boot \/ BootFails
  BY <1>3, BootInv, BootFailsInv
<1>4. CASE DropRunner \/ \E id \in held : DropInstance(id)
  BY <1>4, DropHandleInv
<1>5. CASE StartGivenUp \/ Shutdown \/ DropDriver \/ ShutdownDone
  BY <1>5, DriverInv
<1>6. CASE Fire \/ WatchdogEnds \/ Tick
  BY <1>6, FireInv, WatchdogEndsInv, TickInv
<1>7. CASE UNCHANGED vars
  <2> USE <1>7 DEF vars, Inv
  <2>1. TypeOK'
    BY DEF TypeOK
  <2> QED
    BY <2>1, PhasesStay, LivesStay, NamesStay, OrderStay, SlotsStay, DeadlinesStay
<1> QED
  BY <1>1, <1>2, <1>3, <1>4, <1>5, <1>6, <1>7 DEF Next

LEMMA AlwaysInv == Spec => []Inv
BY InitInv, NextInv, PTL DEF Spec

-----------------------------------------------------------------------------

\* Every slot is one of the instances the requests can make, and the channel holds
\* no more than it has places for.
THEOREM TypesHold == Spec => []TypeOK
BY AlwaysInv, PTL DEF Inv

\* A program that runs has a registered deadline and a watchdog to enforce it, nothing
\* else has, and a caller is told of a timeout only after the whole deadline, not
\* counting what its request waited: through shutdowns, panics and dropped drivers.
THEOREM DeadlinesAreKept == Spec => []DeadlinesHold
<1>1. Inv => DeadlinesHold
  BY DEF Inv, Deadlines, Overdue, DeadlinesHold, TimeoutMeansDeadline
<1> QED
  BY <1>1, AlwaysInv, PTL

\* A call is told that its instance is gone only after a close was sent before it; an
\* instance whose close was answered has no state again; one that nobody was answered
\* with leaves none.
THEOREM SlotsAreKept == Spec => []SlotsFollowHandles
<1>1. ASSUME Inv PROVE SlotsFollowHandles
  <2>1. GoneOnlyAfterClose
    BY <1>1 DEF Inv, Slots, ClosedBefore, GoneOnlyAfterClose
  <2>2. ClosedStaysClosed
    BY <1>1 DEF Inv, Slots, ClosedStaysClosed
  <2>3. NoSlotForGivenUp
    BY <1>1 DEF Inv, Slots, MadeOnes, Unread, NoSlotForGivenUp
  <2> QED
    BY <2>1, <2>2, <2>3 DEF SlotsFollowHandles
<1> QED
  BY <1>1, AlwaysInv, PTL
=============================================================================
