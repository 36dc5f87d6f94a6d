SPECIFICATION FairSpec
CONSTANTS
    p1 = p1
    p2 = p2
    q1 = q1
    q2 = q2
    q3 = q3
    u1 = u1
    c1 = c1
    c2 = c2
    j1 = j1
    j2 = j2
    Nobody = Nobody
    Nothing = Nothing
CHECK_DEADLOCK FALSE
PROPERTY Progress
