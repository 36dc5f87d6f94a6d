SPECIFICATION MCFairSpec
CONSTANTS
    Deliveries = {d1, d2}
    MaxAttempts = 5
    EarlyFaults = TRUE
    MaxCrashes = 2
CHECK_DEADLOCK FALSE
INVARIANT TypeOK
INVARIANT AckIsEarned
INVARIANT SerialEffectsOnce
INVARIANT SerialNothingLost
PROPERTY RetriesStop
