SPECIFICATION Spec
CONSTANTS
    Two = {u1, u2}
    Pair = {p1, p2}
    Trio = {q1, q2, q3}
    Four = {f1, f2, f3, f4}
    One = {q4}
    Nobody = Nobody
    Unnamed = Unnamed
SYMMETRY Symmetry
CHECK_DEADLOCK FALSE
INVARIANT LoginsSound
INVARIANT HandoffsSound
INVARIANT SignUpsSound
PROPERTY ClosuresSound
INVARIANT StaffSound
