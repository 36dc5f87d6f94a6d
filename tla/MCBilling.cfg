SPECIFICATION Spec
CONSTANTS
    Two = {u1, u2}
    Pair = {p1, p2}
    Trio = {q1, q2, q3}
    d1 = d1
    d2 = d2
    NoDevice = NoDevice
    Nobody = Nobody
SYMMETRY Symmetry
CHECK_DEADLOCK FALSE
INVARIANT RefundsTell
INVARIANT GiftsSound
INVARIANT MeterSound
INVARIANT PlansSound
PROPERTY BillingSteps
