SPECIFICATION MCSpec
CONSTANTS
    Workers = {w1, w2, w3}
    Nil = Nil
    Orphan = Orphan
    Phases = {1, 2, 3, 4}
    Requests = {"force", "view", "touch", "patch", "overwrite", "commit", "audit", "jd"}
    Anonymous = FALSE
    Overlap = FALSE
    SlowRuns = FALSE
    Patient = TRUE
    Revs = {1, 2, 3, 4}
    MaxCrashes = 1
    MaxOwed = 3
SYMMETRY Symmetry
INVARIANT TypeOK
INVARIANT Exclusive
INVARIANT NewJdWipes
INVARIANT MarksTrue
PROPERTY AuthorisedInTurn
