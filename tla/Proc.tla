-------------------------------- MODULE Proc --------------------------------
(***************************************************************************)
(* std.proc (crates/htl-std/src/proc.rs), on Unix: one call of Proc::run,  *)
(* the processes it starts, the two tasks that drain their pipes, and the  *)
(* kill a deadline or a dropped future sends to the child's group.         *)
(*                                                                         *)
(* The direct child leads a process group of its own.  What a process does *)
(* is its own affair: it may fork, close a pipe, write, leave the group,   *)
(* end, or do nothing for ever.  A pipe holds a few units of output.  The  *)
(* group's id may be given to a stranger's group once nothing has it.      *)
(* stdin, argv and the environment are left out.  The names every model    *)
(* has have Proc before them, as TimeLimitProofs extends Watchdog too.     *)
(***************************************************************************)
EXTENDS Naturals, FiniteSets

CONSTANTS
  Child,        \* the direct child
  Descendants,  \* what it, and they, may fork
  PipeCap,      \* what a pipe holds
  MaxOutput     \* bound on what is written to each pipe

ASSUME ProcAssumption ==
  /\ Child \notin Descendants
  /\ PipeCap \in Nat \ {0} /\ MaxOutput \in Nat

Procs == {Child} \union Descendants
Pipes == {"stdout", "stderr"}

VARIABLES
  proc,      \* where each process is; a zombie has ended and is not reaped
  group,     \* the processes in the child's group
  holds,     \* the pipes each process has open
  wrote,     \* what has been written to each pipe
  inPipe,    \* and not yet read from it
  buf,       \* and read into its buffer
  reader,    \* the task that drains each pipe
  slot,      \* whether run() still has the task's handle
  call,      \* where run() is
  deadline,  \* the timeout_ms of the call: none, or where its end is
  timedOut,  \* run()'s timed_out
  armed,     \* KillProcessGroupOnDrop
  bound,     \* the 200 ms the drain after a kill gives a reader
  stranger,  \* a group of another program's that was given the id
  panicked   \* whether a handle was polled after it had resolved

procVars == <<proc, group, holds>>
pipeVars == <<wrote, inPipe, buf, reader>>
callVars == <<slot, call, deadline, timedOut, armed, bound>>
allVars == <<procVars, pipeVars, callVars, stranger, panicked>>

Running == {p \in Procs : proc[p] = "running"}
Holders(i) == {p \in Running : i \in holds[p]}

-----------------------------------------------------------------------------
ProcInit ==
  /\ proc = [p \in Procs |-> "unborn"]
  /\ group = {}
  /\ holds = [p \in Procs |-> {}]
  /\ wrote = [i \in Pipes |-> 0]
  /\ inPipe = [i \in Pipes |-> 0]
  /\ buf = [i \in Pipes |-> 0]
  /\ reader = [i \in Pipes |-> "none"]
  /\ slot = [i \in Pipes |-> FALSE]
  /\ call = "called"
  /\ deadline \in {"none", "ahead"}
  /\ timedOut = FALSE /\ armed = FALSE /\ bound = "ahead"
  /\ stranger = "none"
  /\ panicked = FALSE

\* spawn, the guard and the readers: nothing is awaited between them.
Spawn ==
  /\ call = "called"
  /\ proc' = [proc EXCEPT ![Child] = "running"]
  /\ group' = {Child}
  /\ holds' = [holds EXCEPT ![Child] = Pipes]
  /\ reader' = [i \in Pipes |-> "reading"]
  /\ slot' = [i \in Pipes |-> TRUE]
  /\ armed' = TRUE
  /\ call' = "wait"
  /\ UNCHANGED <<wrote, inPipe, buf, deadline, timedOut, bound, stranger,
                 panicked>>

\* An empty argv, or a program that cannot be spawned.
Raise ==
  /\ call = "called"
  /\ call' = "raised"
  /\ UNCHANGED <<procVars, pipeVars, slot, deadline, timedOut, armed, bound,
                 stranger, panicked>>

-----------------------------------------------------------------------------
\* What the processes do.
Fork(p, d, pipes) ==
  /\ p \in Running /\ proc[d] = "unborn"
  /\ pipes \subseteq holds[p]
  /\ proc' = [proc EXCEPT ![d] = "running"]
  /\ holds' = [holds EXCEPT ![d] = pipes]
  /\ group' = IF p \in group THEN group \union {d} ELSE group
  /\ UNCHANGED <<pipeVars, callVars, stranger, panicked>>

\* setsid: the leader of a group cannot.
Leave(d) ==
  /\ d \in Running \intersect group
  /\ group' = group \ {d}
  /\ UNCHANGED <<proc, holds, pipeVars, callVars, stranger, panicked>>

Close(p, i) ==
  /\ p \in Running /\ i \in holds[p]
  /\ holds' = [holds EXCEPT ![p] = @ \ {i}]
  /\ UNCHANGED <<proc, group, pipeVars, callVars, stranger, panicked>>

Write(p, i) ==
  /\ p \in Running /\ i \in holds[p]
  /\ inPipe[i] < PipeCap /\ wrote[i] < MaxOutput
  /\ wrote' = [wrote EXCEPT ![i] = @ + 1]
  /\ inPipe' = [inPipe EXCEPT ![i] = @ + 1]
  /\ UNCHANGED <<procVars, buf, reader, callVars, stranger, panicked>>

\* What a process is once it has ended: the call's own to reap, or init's.
Ended(p) == IF p = Child THEN "zombie" ELSE "gone"

Exit(p) ==
  /\ p \in Running
  /\ proc' = [proc EXCEPT ![p] = Ended(p)]
  /\ UNCHANGED <<group, holds, pipeVars, callVars, stranger, panicked>>

\* The id of the group is used again: its leader is reaped and nobody is in it.
Reuse ==
  /\ stranger = "none"
  /\ proc[Child] = "gone" /\ group \intersect Running = {}
  /\ stranger' = "running"
  /\ UNCHANGED <<procVars, pipeVars, callVars, panicked>>

-----------------------------------------------------------------------------
\* drain_into: both tasks run from the spawn on.
Reads(i) == reader[i] = "reading"

\* Mutant: a chunk replaces what the buffer has.
LastChunk(i) == inPipe[i]

\* extend_from_slice.
Extended(i) == buf[i] + inPipe[i]

Read(i) ==
  /\ reader[i] = "reading" /\ Reads(i)
  /\ inPipe[i] > 0
  /\ buf' = [buf EXCEPT ![i] = Extended(i)]
  /\ inPipe' = [inPipe EXCEPT ![i] = 0]
  /\ UNCHANGED <<procVars, wrote, reader, callVars, stranger, panicked>>

\* The end of the pipe: nothing in it, and nobody has it open.
ReadEnds(i) ==
  /\ reader[i] = "reading" /\ Reads(i)
  /\ inPipe[i] = 0 /\ Holders(i) = {}
  /\ reader' = [reader EXCEPT ![i] = "ended"]
  /\ UNCHANGED <<procVars, wrote, inPipe, buf, callVars, stranger, panicked>>

-----------------------------------------------------------------------------
\* kill_process_group and start_kill.
KillGroup ==
  /\ proc' = [p \in Procs |-> IF p \in Running /\ (p \in group \/ p = Child)
                              THEN Ended(p) ELSE proc[p]]
  /\ stranger' = IF stranger = "running" THEN "killed" ELSE stranger

\* Whether the guard is armed once the child is reaped.
ArmedAfterWait == armed

\* child.wait() returns: the child is reaped.
Waited ==
  /\ call = "wait" /\ proc[Child] = "zombie"
  /\ proc' = [proc EXCEPT ![Child] = "gone"]
  /\ armed' = ArmedAfterWait
  /\ call' = "drain"
  /\ UNCHANGED <<group, holds, pipeVars, slot, deadline, timedOut, bound, stranger,
                 panicked>>

\* The deadline passes with the child still running when it was last looked at.
WaitTimesOut ==
  /\ call = "wait" /\ deadline = "past" /\ Child \in Running
  /\ call' = "killing"
  /\ UNCHANGED <<procVars, pipeVars, slot, deadline, timedOut, armed, bound,
                 stranger, panicked>>

Kill ==
  /\ call = "killing"
  /\ KillGroup
  /\ timedOut' = TRUE
  /\ call' = "reap"
  /\ UNCHANGED <<group, holds, pipeVars, slot, deadline, armed, bound, panicked>>

\* The wait for the killed child.
Reap ==
  /\ call = "reap" /\ proc[Child] = "zombie"
  /\ proc' = [proc EXCEPT ![Child] = "gone"]
  /\ call' = "drain stdout"
  /\ bound' = "ahead"
  /\ UNCHANGED <<group, holds, pipeVars, slot, deadline, timedOut, armed, stranger,
                 panicked>>

\* join_one, of a reader that is at its end: its handle is taken out.
Join(i) ==
  /\ call = "drain"
  /\ slot[i] /\ reader[i] = "ended"
  /\ slot' = [slot EXCEPT ![i] = FALSE]
  /\ UNCHANGED <<procVars, pipeVars, call, deadline, timedOut, armed, bound,
                 stranger, panicked>>

\* Mutant: one reader at its end is enough.
JoinedOne == \E i \in Pipes : ~slot[i]

\* tokio::join! of the two.
Joined == \A i \in Pipes : ~slot[i]

JoinedAll ==
  /\ call = "drain" /\ Joined
  /\ call' = "take"
  /\ UNCHANGED <<procVars, pipeVars, slot, deadline, timedOut, armed, bound,
                 stranger, panicked>>

\* The rest of the deadline passes with a reader that is not at its end: the
\* group is killed all the same, and at once.
DrainTimesOut ==
  /\ call = "drain" /\ deadline = "past"
  /\ \E i \in Pipes : slot[i] /\ reader[i] = "reading"
  /\ KillGroup
  /\ timedOut' = TRUE
  /\ call' = "drain stdout"
  /\ bound' = "ahead"
  /\ UNCHANGED <<group, holds, pipeVars, slot, deadline, armed, panicked>>

\* Mutant: a reader that is not at its end is waited for, however long.
NeverGivesUp == FALSE

\* drain_one, of each reader in turn: it is passed over if it was joined, and
\* given up on at the bound.
Polls(i) == slot[i]
GivesUp == bound = "past"

DrainOne(i, next) ==
  /\ call = (IF i = "stdout" THEN "drain stdout" ELSE "drain stderr")
  /\ Polls(i) /\ slot[i] => reader[i] = "ended" \/ GivesUp
  /\ panicked' = (panicked \/ (Polls(i) /\ ~slot[i]))
  /\ slot' = IF reader[i] = "ended" THEN [slot EXCEPT ![i] = FALSE] ELSE slot
  /\ call' = next
  /\ bound' = "ahead"
  /\ UNCHANGED <<procVars, pipeVars, deadline, timedOut, armed, stranger>>

\* The buffers are taken, the guard disarmed, the answer made: no await.
Answer ==
  /\ call = "take" \/ call = "drained"
  /\ armed' = FALSE
  /\ call' = "answered"
  /\ UNCHANGED <<procVars, pipeVars, slot, deadline, timedOut, bound, stranger,
                 panicked>>

\* run()'s locals go with it: the guard's drop, and then the child's own, which
\* reaps it too.
LocalsDropped ==
  /\ LET killed == {p \in Running : p = Child \/ (armed /\ p \in group)}
     IN  proc' = [p \in Procs |->
           IF p = Child THEN "gone" ELSE IF p \in killed THEN Ended(p) ELSE proc[p]]
  /\ stranger' = IF armed /\ stranger = "running" THEN "killed" ELSE stranger
  /\ armed' = FALSE
  /\ slot' = [i \in Pipes |-> FALSE]
  /\ UNCHANGED <<group, holds, pipeVars, deadline, timedOut, bound, panicked>>

\* The future is dropped where it awaits.
Awaiting == call \in {"wait", "reap", "drain", "drain stdout", "drain stderr"}

Drop ==
  /\ Awaiting
  /\ LocalsDropped
  /\ call' = "dropped"

\* child.wait() fails, the first or the one after the kill: run() returns the error.
WaitFails ==
  /\ call \in {"wait", "reap"}
  /\ LocalsDropped
  /\ call' = "raised"

\* Time passes: the deadline, or what a reader is given.
DeadlinePasses ==
  /\ Awaiting /\ deadline = "ahead"
  /\ deadline' = "past"
  /\ UNCHANGED <<procVars, pipeVars, slot, call, timedOut, armed, bound,
                 stranger, panicked>>

BoundPasses ==
  /\ call \in {"drain stdout", "drain stderr"} /\ bound = "ahead"
  /\ bound' = "past"
  /\ UNCHANGED <<procVars, pipeVars, slot, call, deadline, timedOut, armed,
                 stranger, panicked>>

-----------------------------------------------------------------------------
Run ==
  \/ Spawn \/ Raise
  \/ Waited \/ WaitTimesOut \/ Kill \/ Reap
  \/ \E i \in Pipes : Join(i)
  \/ JoinedAll \/ DrainTimesOut
  \/ DrainOne("stdout", "drain stderr") \/ DrainOne("stderr", "drained")
  \/ Answer

ProcNext ==
  \/ Run \/ Drop \/ WaitFails
  \/ \E p \in Procs :
       \/ \E d \in Descendants, pipes \in SUBSET Pipes : Fork(p, d, pipes)
       \/ \E i \in Pipes : Close(p, i) \/ Write(p, i)
       \/ Exit(p)
  \/ \E d \in Descendants : Leave(d)
  \/ Reuse
  \/ \E i \in Pipes : Read(i) \/ ReadEnds(i)
  \/ DeadlinePasses \/ BoundPasses

ProcSpec == ProcInit /\ [][ProcNext]_allVars

\* The executor polls the call and the two tasks, and time passes.  Nothing
\* makes a process do anything, a future be dropped or a wait fail.
ProcFairSpec ==
  /\ ProcSpec
  /\ WF_allVars(Run)
  /\ \A i \in Pipes : WF_allVars(Read(i)) /\ WF_allVars(ReadEnds(i))
  /\ WF_allVars(DeadlinePasses) /\ WF_allVars(BoundPasses)

-----------------------------------------------------------------------------
\* The type invariant; nothing written is ever lost between pipe and buffer.
ProcTypeOK ==
  /\ proc \in [Procs -> {"unborn", "running", "zombie", "gone"}]
  /\ group \subseteq Procs
  /\ holds \in [Procs -> SUBSET Pipes]
  /\ wrote \in [Pipes -> 0 .. MaxOutput]
  /\ inPipe \in [Pipes -> 0 .. PipeCap]
  /\ buf \in [Pipes -> 0 .. MaxOutput]
  /\ \A i \in Pipes : wrote[i] = buf[i] + inPipe[i]
  /\ reader \in [Pipes -> {"none", "reading", "ended"}]
  /\ slot \in [Pipes -> BOOLEAN]
  /\ call \in {"called", "raised", "wait", "killing", "reap", "drain",
               "drain stdout", "drain stderr", "take", "drained", "answered",
               "dropped"}
  /\ deadline \in {"none", "ahead", "past"}
  /\ timedOut \in BOOLEAN /\ armed \in BOOLEAN /\ panicked \in BOOLEAN
  /\ bound \in {"ahead", "past"}
  /\ stranger \in {"none", "running", "killed"}

\* A call that did not time out has the whole output: all that was written to
\* either pipe, by the child and by whatever it left behind, and nobody is
\* left who could write more.
OutputIsWhole ==
  call = "answered" /\ ~timedOut =>
    \A i \in Pipes : buf[i] = wrote[i] /\ Holders(i) = {}

\* A call that was dropped, that failed or that timed out leaves nothing running
\* in the child's group, whatever phase the drop or the deadline found it in.
GroupIsDead ==
  call \in {"dropped", "raised"} \/ (call = "answered" /\ timedOut) =>
    group \intersect Running = {}

\* No reader's handle is polled once it has resolved, in whatever order the two
\* pipes close and the deadline passes: tokio panics on that.
NoHandlePolledTwice == ~panicked

\* With a timeout_ms the call ends, whatever the processes do: not even one
\* that left the group and holds a pipe for ever keeps it.
DeadlineEndsTheCall ==
  call = "wait" /\ deadline # "none" ~> call \in {"answered", "dropped", "raised"}

\* A process blocked on a full pipe is let go on, whichever pipe, and after the
\* call is over too: the call cannot deadlock with its child.
FullPipesAreRead ==
  \A i \in Pipes : inPipe[i] = PipeCap ~> inPipe[i] = 0

\* What the call reports is what happened, and what it ends is dead: however the
\* child, its pipes and the deadline interleave.
CallIsSound == OutputIsWhole /\ GroupIsDead /\ NoHandlePolledTwice

\* Nobody waits for ever: not the caller, not a process that writes.
CallMovesOn == DeadlineEndsTheCall /\ FullPipesAreRead

\* What the comment above the disarm says: a killpg of this call's never lands
\* on a process that is not this call's.
KillsOnlyItsOwn == stranger # "killed"
=============================================================================
