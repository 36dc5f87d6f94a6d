CONSTANTS
    Workers = {w1}
    Idle = Idle
    InOrder = TRUE
    Spaced = FALSE
    Remind = {1, 2}
    Grace = 3
    MaxActions = 4
    MaxNow = 7
    MaxOverrides = 0
SPECIFICATION PlainFairSpec
INVARIANTS TypeOK Converges AnnouncedOnce
PROPERTIES FirstGraceWhole GraceEnds
CHECK_DEADLOCK FALSE
