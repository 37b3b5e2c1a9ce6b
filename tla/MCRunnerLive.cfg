SPECIFICATION FairSpec
CONSTANTS
  Requests = {r1, r2}
  QueueCap = 1
  Deadline = 1
  MaxTime = 2
  MaxInstant = 9
  FarOff = 2
  None = None
PROPERTY NobodyWaits
\* A runner that has ended has nothing left to do.
CHECK_DEADLOCK FALSE
