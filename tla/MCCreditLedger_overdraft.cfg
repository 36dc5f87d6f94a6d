CONSTANTS
    Txns = {t1, t2}
    Kinds = {free, better}
    Free = free
    Pack = better
    Amounts = {1, 2}
    Events = {e1}
    e1 = e1
    NoEvent = NoEvent
    Requests <- MCRevokeRace
    MaxInit = 1
    MaxCrashes = 0
SPECIFICATION RaceSpec
INVARIANT NoOverdraft
CHECK_DEADLOCK FALSE
