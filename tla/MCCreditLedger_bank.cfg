CONSTANTS
    Txns = {t1, t2, t3}
    Kinds = {free, better}
    Free = free
    Pack = better
    Amounts = {1, 2}
    Events = {e1}
    e1 = e1
    NoEvent = NoEvent
    Requests <- MCRevoke
    MaxInit = 2
    MaxCrashes = 0
SPECIFICATION Spec
SYMMETRY Symmetry
INVARIANT TypeOK
INVARIANT SpendCovered
PROPERTY BankRefined
CHECK_DEADLOCK FALSE
