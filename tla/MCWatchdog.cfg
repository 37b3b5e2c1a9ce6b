SPECIFICATION FairSpec
CONSTANTS
  Clients = {c1, c2}
  Durations = {1, 9}
  MaxTime = 3
  MaxInstant = 6
  FarOff = 3
  Slack = 0
  MaxWatches = 3
  None = None
INVARIANTS
  TypeOK
  LiveInHeap
  NoLostWakeup
  HeapBounded
PROPERTIES
  ImplementsTimer
  WatchdogWakes
\* A stopped watchdog has nothing left to do.
CHECK_DEADLOCK FALSE
