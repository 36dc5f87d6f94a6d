SPECIFICATION Spec
CONSTANTS
    Two = {u1, u2}
    Pair = {p1, p2}
    Trio = {q1, q2, q3}
    c1 = c1
    c2 = c2
    j1 = j1
    j2 = j2
    Nobody = Nobody
    Nothing = Nothing
SYMMETRY Symmetry
CHECK_DEADLOCK FALSE
INVARIANT TrackerSound
INVARIANT ProvidersSound
INVARIANT WatchSound
INVARIANT RecordsSound
INVARIANT CorpusSound
