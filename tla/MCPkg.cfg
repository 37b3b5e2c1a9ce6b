SPECIFICATION Spec
CONSTANTS
    None = None
    t1 = t1
    c1 = c1
    c2 = c2
    r1 = r1
    r2 = r2
    Commanders = {t1}
    Checkers = {c1, c2}
    Revisions = {r1, r2}
    Unseen = FALSE
    MaxCommands = 4
SYMMETRY Symmetry
INVARIANTS TypeOK LinkSettles FilesAgree
PROPERTY EditsSurvive
CHECK_DEADLOCK FALSE
