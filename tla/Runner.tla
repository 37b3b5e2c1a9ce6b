------------------------------- MODULE Runner -------------------------------
(***************************************************************************)
(* htl::run (crates/htl-core/src/run.rs): the thread that owns the Lua     *)
(* states, the bounded channel its callers send requests on, the oneshot   *)
(* each request is answered over, and the driver that starts and stops it. *)
(*                                                                         *)
(* A request is one future of Runner::instance, Instance::call or          *)
(* Instance::close, with the token and the reply channel made for it, so   *)
(* one id stands for all of them.  The deadlines are kept by the timer the *)
(* watchdog thread implements (module DeadlineTimer).                      *)
(*                                                                         *)
(* What a program returns is left out: an answer is the variant of the     *)
(* Result, with every refusal that precedes the run ("refused") as one.    *)
(***************************************************************************)
EXTENDS Naturals, Sequences, FiniteSets

CONSTANTS
  Requests,    \* the futures callers may make, each used once
  QueueCap,    \* RunnerConfig.queue, at least 1
  Deadline,    \* RunnerConfig.deadline
  MaxTime,     \* bound on the clock
  MaxInstant, FarOff,  \* see DeadlineTimer
  None         \* no request, no instance, no instant, no answer

ASSUME RunnerAssumption ==
  /\ IsFiniteSet(Requests)
  /\ QueueCap \in Nat \ {0}
  /\ Deadline \in Nat
  /\ MaxTime \in Nat /\ MaxInstant \in Nat /\ MaxTime + Deadline <= MaxInstant
  /\ None \notin Nat /\ None \notin Requests
  /\ None \notin {"ok", "raised", "timeout", "refused", "gone"}

VARIABLES
  driver,     \* RunnerDriver, from the start() that makes it
  runner,     \* whether a Runner handle exists
  held,       \* the instances some Instance handle names
  caller,     \* where each request's future is
  kind,       \* Request::Instance, Call or Close
  target,     \* the instance a call or a close is for
  channel,    \* the mpsc channel
  vm,         \* where the VM thread is
  cur,        \* the request it is on
  outcome,    \* what it will answer cur with
  slots,      \* Vm.slots
  nextSlot,   \* Vm.next
  made,       \* the slot made for an instance request
  answer,     \* what the VM has sent on each reply channel
  watchdog,   \* the watchdog thread
  panicked,   \* whether the VM thread unwound
  now, deadline, fired,  \* the timer's
  begun,      \* history: the instant the VM ran a request's program from
  sentAt      \* history: the place of each request in the order of sends

timerVars == <<now, deadline, fired>>
callerVars == <<runner, held, caller, kind, target>>
vmVars == <<vm, cur, outcome, slots, nextSlot, made, answer>>
endVars == <<driver, watchdog, panicked>>
history == <<begun, sentAt>>
vars == <<callerVars, channel, vmVars, endVars, timerVars, history>>

Timer == INSTANCE DeadlineTimer WITH Tokens <- Requests, Durations <- {Deadline}

Kinds == {"instance", "call", "close"}
RunOutcomes == {"ok", "raised", "timeout"}
Answers == RunOutcomes \union {"refused", "gone"}
SlotIds == 0 .. Cardinality(Requests)

\* CancelOnDrop: the token of a future that is gone is cancelled.
GivenUp(r) == caller[r] = "gaveUp"
\* A request's token, cancelled by its caller or by the watchdog.  A close
\* carries none.
Cancelled(r) == kind[r] # "close" /\ (GivenUp(r) \/ r \in fired)
\* A sender of the channel is in every handle, and in a close()'s own future.
SenderExists ==
  \/ runner
  \/ held # {}
  \/ \E r \in Requests : caller[r] \in {"sending", "awaiting"}

InChannel(r) == \E i \in 1 .. Len(channel) : channel[i] = r

-----------------------------------------------------------------------------
Init ==
  /\ driver = "starting" /\ runner = FALSE /\ held = {}
  /\ caller = [r \in Requests |-> "idle"]
  /\ kind = [r \in Requests |-> "call"]
  /\ target = [r \in Requests |-> None]
  /\ channel = <<>>
  /\ vm = "boot" /\ cur = None /\ outcome = None
  /\ slots = {} /\ nextSlot = 0
  /\ made = [r \in Requests |-> None]
  /\ answer = [r \in Requests |-> None]
  /\ watchdog = "on" /\ panicked = FALSE
  /\ begun = [r \in Requests |-> None]
  /\ sentAt = [r \in Requests |-> None]
  /\ Timer!TimerInit

\* The VM thread is over: the receiver, the slots and StopOnDrop go with it.
VmGone ==
  /\ vm' = "ended"
  /\ cur' = None
  /\ outcome' = None
  /\ slots' = {}
  /\ channel' = <<>>
  /\ watchdog' = "told"
  /\ UNCHANGED <<nextSlot, made, answer>>

\* start(): the checker is made, or is not, and the caller that still waits
\* for that is told.
Boot ==
  /\ vm = "boot"
  /\ vm' = "idle"
  /\ driver' = IF driver = "starting" THEN "up" ELSE driver
  /\ runner' = (driver = "starting")
  /\ UNCHANGED <<held, caller, kind, target, channel, cur, outcome, slots,
                 nextSlot, made, answer, watchdog, panicked, timerVars, history>>

BootFails ==
  /\ vm = "boot"
  /\ VmGone
  /\ driver' = IF driver = "starting" THEN "failed" ELSE driver
  /\ UNCHANGED <<callerVars, panicked, timerVars, history>>

\* The future of start() is dropped while the checker is being made.
StartGivenUp ==
  /\ driver = "starting"
  /\ driver' = "dropped"
  /\ UNCHANGED <<callerVars, channel, vmVars, watchdog, panicked, timerVars,
                 history>>

-----------------------------------------------------------------------------
\* What callers do.
Ask(r, k, id) ==
  /\ caller[r] = "idle"
  /\ IF k = "instance" THEN runner /\ id = None ELSE id \in held
  /\ caller' = [caller EXCEPT ![r] = "sending"]
  /\ kind' = [kind EXCEPT ![r] = k]
  /\ target' = [target EXCEPT ![r] = id]
  \* close() consumes its handle; a clone of it may remain.
  /\ \/ UNCHANGED held
     \/ k = "close" /\ held' = held \ {id}
  /\ UNCHANGED <<runner, channel, vmVars, endVars, timerVars, history>>

\* Mutant: the channel is unbounded.
SendUnbounded(r) ==
  /\ caller[r] = "sending"
  /\ vm # "ended"
  /\ channel' = Append(channel, r)
  /\ caller' = [caller EXCEPT ![r] = "awaiting"]
  /\ sentAt' = [sentAt EXCEPT ![r] =
                  Cardinality({q \in Requests : sentAt[q] # None})]
  /\ UNCHANGED <<runner, held, kind, target, vmVars, endVars, timerVars, begun>>

\* tx.send(): a place in the channel is free.
Send(r) ==
  /\ caller[r] = "sending"
  /\ vm # "ended"
  /\ Len(channel) < QueueCap
  /\ channel' = Append(channel, r)
  /\ caller' = [caller EXCEPT ![r] = "awaiting"]
  /\ sentAt' = [sentAt EXCEPT ![r] =
                  Cardinality({q \in Requests : sentAt[q] # None})]
  /\ UNCHANGED <<runner, held, kind, target, vmVars, endVars, timerVars, begun>>

\* The oneshot of r is dropped unanswered: nothing that owns its sender is left.
ReplyDropped(r) == answer[r] = None /\ cur # r /\ ~InChannel(r)

\* CallError::Gone, from the channel or from the oneshot.
Lost(r) ==
  /\ \/ caller[r] = "sending" /\ vm = "ended"
     \/ caller[r] = "awaiting" /\ ReplyDropped(r)
  /\ caller' = [caller EXCEPT ![r] = "lost"]
  /\ UNCHANGED <<runner, held, kind, target, channel, vmVars, endVars,
                 timerVars, history>>

Receive(r) ==
  /\ caller[r] = "awaiting"
  /\ answer[r] # None
  /\ caller' = [caller EXCEPT ![r] = "answered"]
  /\ held' = IF kind[r] = "instance" /\ answer[r] = "ok"
             THEN held \union {made[r]} ELSE held
  /\ UNCHANGED <<runner, kind, target, channel, vmVars, endVars, timerVars,
                 history>>

\* The future is dropped: before the send, in the queue, while it runs, or
\* with its answer unread.
GiveUp(r) ==
  /\ caller[r] \in {"sending", "awaiting"}
  /\ caller' = [caller EXCEPT ![r] = "gaveUp"]
  /\ UNCHANGED <<runner, held, kind, target, channel, vmVars, endVars,
                 timerVars, history>>

\* The last handle of an instance, or the last Runner, is dropped.  A call's
\* future borrows its handle.
InUse(id) == \E r \in Requests :
  caller[r] \in {"sending", "awaiting"} /\ kind[r] = "call" /\ target[r] = id

DropInstance(id) ==
  /\ id \in held /\ ~InUse(id)
  /\ held' = held \ {id}
  /\ UNCHANGED <<runner, caller, kind, target, channel, vmVars, endVars,
                 timerVars, history>>

DropRunner ==
  /\ runner
  /\ \A r \in Requests :
       kind[r] = "instance" => caller[r] \notin {"sending", "awaiting"}
  /\ runner' = FALSE
  /\ UNCHANGED <<held, caller, kind, target, channel, vmVars, endVars,
                 timerVars, history>>

-----------------------------------------------------------------------------
\* next(): the stop is polled first, then the channel; with nothing in either
\* the thread parks until one of them changes.
StopSent == driver \in {"stopping", "done"}

PollStop ==
  /\ vm = "idle"
  /\ \/ StopSent /\ VmGone
     \/ ~StopSent /\ vm' = "polled"
        /\ UNCHANGED <<cur, outcome, slots, nextSlot, made, answer, channel,
                       watchdog>>
  /\ UNCHANGED <<callerVars, driver, panicked, timerVars, history>>

\* serve(): a request whose token is cancelled is passed over.
Skips(r) == Cancelled(r)

PollChannel ==
  /\ vm = "polled"
  /\ \/ /\ channel # <<>>
        /\ channel' = Tail(channel)
        /\ IF Skips(Head(channel))
             THEN vm' = "idle" /\ cur' = None
             ELSE vm' = "prepare" /\ cur' = Head(channel)
        /\ UNCHANGED <<outcome, slots, nextSlot, made, answer, watchdog>>
     \/ /\ channel = <<>> /\ ~SenderExists
        /\ VmGone
     \/ /\ channel = <<>> /\ SenderExists
        /\ vm' = "parked"
        /\ UNCHANGED <<cur, outcome, slots, nextSlot, made, answer, channel,
                       watchdog>>
  /\ UNCHANGED <<callerVars, driver, panicked, timerVars, history>>

\* Mutants: a parked thread does not notice a request; a stop.
WokenByStop == StopSent
WokenByChannel == channel # <<>> \/ ~SenderExists

\* What wakes a parked thread: it is registered with both.
Woken == StopSent \/ channel # <<>> \/ ~SenderExists

Wake ==
  /\ vm = "parked"
  /\ Woken
  /\ vm' = "idle"
  /\ UNCHANGED <<callerVars, endVars, channel, cur, outcome, slots, nextSlot,
                 made, answer, timerVars, history>>

\* serve(), Request::Close.
ServeClose ==
  /\ vm = "prepare" /\ kind[cur] = "close"
  /\ slots' = slots \ {target[cur]}
  /\ outcome' = "ok"
  /\ vm' = "reply"
  /\ UNCHANGED <<callerVars, endVars, channel, cur, nextSlot, made, answer,
                 timerVars, history>>

\* serve(), what comes before the run: a call of a closed instance, or a field
\* that is no function, or arguments that do not convert; an instance whose
\* state cannot be made, or whose module is not found or does not check.
Refuse ==
  /\ vm = "prepare" /\ kind[cur] # "close"
  /\ outcome' = IF kind[cur] = "call" /\ target[cur] \notin slots
                THEN "gone" ELSE "refused"
  /\ vm' = "reply"
  /\ UNCHANGED <<callerVars, endVars, channel, cur, slots, nextSlot, made,
                 answer, timerVars, history>>

\* Vm::run: the token is registered with the watchdog for the deadline.
RegisterRun == Timer!Register(cur, Deadline)

BeginRun ==
  /\ vm = "prepare"
  /\ \/ kind[cur] = "instance"
     \/ kind[cur] = "call" /\ target[cur] \in slots
  /\ RegisterRun
  /\ begun' = [begun EXCEPT ![cur] = now]
  /\ vm' = "running"
  /\ UNCHANGED <<callerVars, endVars, channel, cur, outcome, slots, nextSlot,
                 made, answer, sentAt>>

\* The id a new slot gets.
FreshSlot == nextSlot

\* The run ends: with the program, which a cancel may come too late for, or
\* by the cancel.
EndRun(out) ==
  /\ vm = "running"
  /\ out = "timeout" => Cancelled(cur)
  /\ Timer!Release(cur)
  /\ outcome' = out
  /\ IF kind[cur] = "instance" /\ out = "ok"
       THEN /\ slots' = slots \union {FreshSlot}
            /\ made' = [made EXCEPT ![cur] = FreshSlot]
            /\ nextSlot' = nextSlot + 1
       ELSE UNCHANGED <<slots, made, nextSlot>>
  /\ vm' = "reply"
  /\ UNCHANGED <<callerVars, endVars, channel, cur, answer, history>>

\* Mutant: the slot of an answer nobody will read is kept.
KeptUnread == slots

\* serve(): an instance whose caller is gone by the time it is loaded is
\* dropped, as nothing will name it.
KeptAfterReply ==
  IF GivenUp(cur) /\ kind[cur] = "instance" /\ outcome = "ok"
  THEN slots \ {made[cur]} ELSE slots

\* The oneshot: the answer is there to be received, or the receiver is gone.
Reply ==
  /\ vm = "reply"
  /\ answer' = IF GivenUp(cur) THEN answer
               ELSE [answer EXCEPT ![cur] = outcome]
  /\ slots' = KeptAfterReply
  /\ vm' = "idle" /\ cur' = None /\ outcome' = None
  /\ UNCHANGED <<callerVars, endVars, channel, nextSlot, made, timerVars,
                 history>>

\* A panic in what the host converts or computes on this thread: it unwinds,
\* and the guard of the run with it.
Panic ==
  /\ vm \in {"prepare", "running", "reply"}
  /\ VmGone
  /\ panicked' = TRUE
  /\ deadline' = [deadline EXCEPT ![cur] = None]
  /\ UNCHANGED <<callerVars, driver, now, fired, history>>

-----------------------------------------------------------------------------
\* Mutant: the watchdog is stopped first.
ShutdownWatchdogFirst ==
  /\ driver = "up"
  /\ driver' = "stopping"
  /\ watchdog' = "told"
  /\ UNCHANGED <<callerVars, channel, vmVars, panicked, timerVars, history>>

\* RunnerDriver::shutdown sends the stop.
Shutdown ==
  /\ driver = "up"
  /\ driver' = "stopping"
  /\ UNCHANGED <<callerVars, channel, vmVars, watchdog, panicked, timerVars,
                 history>>

DropDriver ==
  /\ driver = "up"
  /\ driver' = "dropped"
  /\ UNCHANGED <<callerVars, channel, vmVars, watchdog, panicked, timerVars,
                 history>>

\* The joiner thread: both threads have ended.
ShutdownDone ==
  /\ driver = "stopping" /\ vm = "ended" /\ watchdog = "ended"
  /\ driver' = "done"
  /\ UNCHANGED <<callerVars, channel, vmVars, watchdog, panicked, timerVars,
                 history>>

\* The watchdog: it fires what is due while it is on, and ends when told.
Fire ==
  /\ watchdog = "on"
  /\ \E r \in Requests \ fired : Timer!Fire({r})
  /\ UNCHANGED <<callerVars, channel, vmVars, endVars, history>>

WatchdogEnds ==
  /\ watchdog = "told"
  /\ watchdog' = "ended"
  /\ UNCHANGED <<callerVars, channel, vmVars, driver, panicked, timerVars,
                 history>>

\* The clock, which only a deadline that lies ahead makes a difference to.
Tick ==
  /\ \E r \in Requests : deadline[r] # None /\ deadline[r] > now
  /\ Timer!Tick
  /\ UNCHANGED <<callerVars, channel, vmVars, endVars, history>>

-----------------------------------------------------------------------------
VmStep ==
  \/ PollStop \/ PollChannel \/ Wake \/ ServeClose \/ Refuse \/ BeginRun
  \/ \E out \in RunOutcomes : EndRun(out)
  \/ Reply

Next ==
  \/ Boot \/ BootFails \/ StartGivenUp
  \/ \E r \in Requests :
       \/ Ask(r, "instance", None)
       \/ \E id \in held : Ask(r, "call", id) \/ Ask(r, "close", id)
       \/ Send(r) \/ Lost(r) \/ Receive(r) \/ GiveUp(r)
  \/ \E id \in held : DropInstance(id)
  \/ DropRunner
  \/ VmStep \/ Panic
  \/ Shutdown \/ DropDriver \/ ShutdownDone
  \/ Fire \/ WatchdogEnds \/ Tick

Spec == Init /\ [][Next]_vars

\* The threads are scheduled and time passes.  A program ends, or stops at a
\* hook check once its token is cancelled (the module doc's limitations, a
\* native call and a pcall that swallows the cancel, are excluded here), and
\* what comes before a run ends.  A caller's executor polls its futures.
\* Nothing makes a program end that is not cancelled, a caller ask, give up
\* or drop a handle, or the driver shut down.
EndCancelledRun == EndRun("timeout")

Fairness ==
  /\ WF_vars(Boot \/ BootFails)
  /\ WF_vars(PollStop \/ PollChannel \/ Wake)
  /\ WF_vars(ServeClose \/ Refuse \/ BeginRun)
  /\ WF_vars(EndCancelledRun)
  /\ WF_vars(Reply)
  /\ WF_vars(ShutdownDone)
  /\ WF_vars(Fire)
  /\ WF_vars(WatchdogEnds)
  /\ WF_vars(Tick)
  /\ \A r \in Requests : WF_vars(Send(r)) /\ WF_vars(Lost(r)) /\ WF_vars(Receive(r))

FairSpec == Spec /\ Fairness

-----------------------------------------------------------------------------
\* The type invariant; the channel never holds more than it has places for.
TypeOK ==
  /\ driver \in {"starting", "up", "stopping", "done", "dropped", "failed"}
  /\ runner \in BOOLEAN
  /\ held \subseteq SlotIds
  /\ caller \in [Requests -> {"idle", "sending", "awaiting", "answered",
                              "lost", "gaveUp"}]
  /\ kind \in [Requests -> Kinds]
  /\ target \in [Requests -> SlotIds \union {None}]
  /\ channel \in Seq(Requests) /\ Len(channel) <= QueueCap
  /\ vm \in {"boot", "idle", "polled", "parked", "prepare", "running", "reply",
             "ended"}
  /\ cur \in Requests \union {None}
  /\ outcome \in Answers \union {None}
  /\ slots \subseteq SlotIds
  /\ nextSlot \in SlotIds
  /\ made \in [Requests -> SlotIds \union {None}]
  /\ answer \in [Requests -> Answers \union {None}]
  /\ watchdog \in {"on", "told", "ended"}
  /\ panicked \in BOOLEAN
  /\ now \in 0 .. MaxTime
  /\ deadline \in [Requests -> 0 .. MaxInstant \union {None}]
  /\ fired \subseteq Requests
  /\ begun \in [Requests -> 0 .. MaxTime \union {None}]
  /\ sentAt \in [Requests -> Nat \union {None}]

\* While a program runs its deadline is registered and the watchdog is there
\* to enforce it, through a shutdown and through a driver that is dropped;
\* and nothing is registered that does not run.
RunsAreWatched ==
  /\ vm = "running" => deadline[cur] # None /\ watchdog = "on"
  /\ \A r \in Requests : deadline[r] # None => vm = "running" /\ cur = r

\* A caller that still waits is told its call timed out only if the program
\* ran for the whole deadline: the time the request waited, behind however
\* many others, is not counted.
TimeoutMeansDeadline ==
  \A r \in Requests :
    answer[r] = "timeout" => begun[r] # None /\ begun[r] + Deadline <= now

\* Only a close ends an instance while the VM is up: a call the VM answers
\* Gone was sent after a close of its instance.
GoneOnlyAfterClose ==
  \A r \in Requests : answer[r] = "gone" =>
    \E c \in Requests : /\ kind[c] = "close" /\ target[c] = target[r]
                        /\ sentAt[c] # None /\ sentAt[c] < sentAt[r]

\* An instance whose close was answered has no state, and never gets one
\* again: no later instance is reachable through the handles of a closed one.
ClosedStaysClosed ==
  \A c \in Requests :
    kind[c] = "close" /\ answer[c] = "ok" => target[c] \notin slots

\* An instance whose caller gave up before it was answered leaves no state.
NoSlotForGivenUp ==
  \A r \in Requests :
    GivenUp(r) /\ answer[r] = None /\ made[r] # None /\ cur # r =>
      made[r] \notin slots

\* The slots of the VM follow the handles that were made, given up and closed.
SlotsFollowHandles == GoneOnlyAfterClose /\ ClosedStaysClosed /\ NoSlotForGivenUp

\* A deadline covers the program it is for, all of it and nothing else.
DeadlinesHold == RunsAreWatched /\ TimeoutMeansDeadline

\* Every request is answered, given up or told that the VM is gone.
EveryCallerAnswered ==
  \A r \in Requests :
    caller[r] \in {"sending", "awaiting"} ~>
      caller[r] \in {"answered", "lost", "gaveUp"}

\* A shutdown completes: the request in progress ends within its deadline,
\* and both threads end.
ShutdownCompletes == driver = "stopping" ~> driver = "done"

\* A runner nobody holds any more ends, and its watchdog with it.
UnheldRunnerEnds ==
  (driver = "dropped" /\ ~SenderExists) ~> (vm = "ended" /\ watchdog = "ended")

\* Nobody waits for a runner for ever: every caller is answered or told, and
\* however a runner is let go of, with whatever program, both its threads end.
NobodyWaits == EveryCallerAnswered /\ ShutdownCompletes /\ UnheldRunnerEnds

\* What the comment in serve() says of a slot whose caller gave up: every slot
\* is named by a handle that was made, or by an answer that can be received.
EverySlotIsNamed ==
  vm \in {"idle", "polled", "parked"} =>
    \A id \in slots : \E r \in Requests :
      made[r] = id /\ caller[r] \in {"awaiting", "answered"}

\* What the module doc says of the deadline: it is on while the VM executes
\* the module's code for a call, the reading of the field included.
DeadlineOnEveryCall ==
  vm = "prepare" /\ kind[cur] = "call" /\ target[cur] \in slots =>
    deadline[cur] # None
=============================================================================
