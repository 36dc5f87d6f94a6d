SPECIFICATION MCSpec
CONSTANTS
    Workers = {w1}
    Idle = Idle
    InOrder = TRUE
    Spaced = FALSE
    Remind = {1}
    Grace = 2
    MaxActions = 3
    MaxNow = 5
    MaxOverrides = 1
CHECK_DEADLOCK FALSE
INVARIANT HealsByHand
PROPERTY NeverOlder
