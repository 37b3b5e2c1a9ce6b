SPECIFICATION Spec
CONSTANTS
  Files <- MCFiles
  Findings <- MCFindings
  Programs <- MCPrograms
  MaxPasses = 4
  None = None
INVARIANTS TreeIsAsReported ErrorsNeverGrow
PROPERTY RunEnds
CHECK_DEADLOCK FALSE
