CONSTANTS
    Txns = {t1, t2, t3}
    Kinds = {free}
    Free = free
    Pack = free
    Amounts = {1, 2}
    Events = {}
    e1 = e1
    NoEvent = NoEvent
    Requests <- MCPolling
    MaxInit = 1
    MaxCrashes = 1
SPECIFICATION FairSpec
INVARIANT NoOverdraft
INVARIANT DeadlockNeedsHeal
PROPERTY CacheHeals
CHECK_DEADLOCK FALSE
