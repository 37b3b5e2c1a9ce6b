SPECIFICATION Spec
CONSTANTS
  Requests = {r1, r2, r3}
  QueueCap = 2
  Deadline = 1
  MaxTime = 3
  MaxInstant = 9
  FarOff = 2
  None = None
INVARIANTS
  TypeOK
  DeadlinesHold
  SlotsFollowHandles
SYMMETRY RequestSymmetry
\* A runner that has ended has nothing left to do.
CHECK_DEADLOCK FALSE
