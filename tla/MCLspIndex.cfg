SPECIFICATION Spec
CONSTANTS
  a = a
  d = d
  t = t
  Files = {a, d}
  Requires <- MCRequires
  Unusual = {"unsaid"}
  MaxWrites = 2
  None = None
INVARIANTS UsesFitTheirText AnswersAreCurrent
CHECK_DEADLOCK FALSE
