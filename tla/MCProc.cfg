SPECIFICATION ProcFairSpec
CONSTANTS
  Child = child
  Descendants = {d1}
  PipeCap = 1
  MaxOutput = 2
INVARIANTS
  ProcTypeOK
  CallIsSound
PROPERTIES
  CallMovesOn
\* A call that is over, with processes that do nothing, stops.
CHECK_DEADLOCK FALSE
