CONSTANTS
    Workers = {w1, w2}
    Nil = Nil
    Orphan = Orphan
    Phases = {4}
    Requests = {}
    Anonymous = TRUE
    Overlap = TRUE
    SlowRuns = TRUE
    Patient = FALSE
    Revs = {1}
    MaxCrashes = 1
    MaxOwed = 0
SPECIFICATION RecoverySpec
PROPERTY RunsEnd
