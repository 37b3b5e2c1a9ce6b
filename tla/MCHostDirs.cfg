SPECIFICATION Spec
CONSTANTS
  Projects <- MCProjects
  Skipped = {"target", ".git"}
  None = None
INVARIANTS
  OneDescription
  GainedSettles
