SPECIFICATION LinkSpec
CONSTANTS
  Projects <- MCProjects
  Programs <- MCProjects
  Skipped = {"target", ".git"}
  None = None
\* A link ends when nothing is left to take.
CHECK_DEADLOCK FALSE
INVARIANTS
  LinkedAsChecked
  OnlyWhatRuns
