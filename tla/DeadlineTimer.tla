---------------------------- MODULE DeadlineTimer ----------------------------
(***************************************************************************)
(* What the runner of htl::run is promised about deadlines, whatever keeps *)
(* them: a token registered with a duration is cancelled once the duration *)
(* is over, never sooner, and never once its registration has ended.       *)
(*                                                                         *)
(* Watchdog (one thread, a heap and a condition variable) is shown to      *)
(* implement this module.                                                  *)
(***************************************************************************)
EXTENDS Naturals

CONSTANTS
  Tokens,      \* one cancel token per request
  Durations,   \* the durations a token can be registered with
  MaxTime,     \* bound on the clock
  MaxInstant,  \* the latest instant the platform can represent
  FarOff,      \* how far off a deadline is put that cannot be represented
  None         \* no instant; what is assumed of them, who instantiates assumes

VARIABLES
  now,       \* the monotonic clock
  deadline,  \* for each registered token, the instant it is due
  fired      \* the tokens cancelled because their deadline passed

timerVars == <<now, deadline, fired>>

\* The instant a duration ends, when it starts at t.
DueAt(t, after) == IF t + after <= MaxInstant THEN t + after ELSE t + FarOff

Registered == {t \in Tokens : deadline[t] # None}

-----------------------------------------------------------------------------
TimerInit ==
  /\ now = 0
  /\ deadline = [t \in Tokens |-> None]
  /\ fired = {}

Register(t, after) ==
  /\ deadline[t] = None
  /\ t \notin fired
  /\ deadline' = [deadline EXCEPT ![t] = DueAt(now, after)]
  /\ UNCHANGED <<now, fired>>

Release(t) ==
  /\ t \in Registered
  /\ deadline' = [deadline EXCEPT ![t] = None]
  /\ UNCHANGED <<now, fired>>

Fire(S) ==
  /\ S # {}
  /\ \A t \in S : t \in Registered /\ deadline[t] <= now
  /\ fired' = fired \union S
  /\ UNCHANGED <<now, deadline>>

Tick ==
  /\ now < MaxTime
  /\ now' = now + 1
  /\ UNCHANGED <<deadline, fired>>

TimerNext ==
  \/ \E t \in Tokens, after \in Durations : Register(t, after)
  \/ \E t \in Tokens : Release(t)
  \/ \E S \in SUBSET Tokens : Fire(S)
  \/ Tick

TimerSpec == TimerInit /\ [][TimerNext]_timerVars
=============================================================================
