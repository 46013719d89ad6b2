\* One payment, three calls at a time, everything may fail.
\* The system stops when the payment has come to its end and nothing is served.
SPECIFICATION Spec
CONSTANTS
    p1 = p1  p2 = p2  s1 = s1  s2 = s2  s3 = s3
    Payments = {p1}
    Slots = {s1, s2, s3}
    Faults = {"dies", "engineFails", "ratesFail"}
SYMMETRY SlotSymmetry
INVARIANTS
    TypeOK
    CreditedAtMostOnce
    CompletedOnce
    CreditedWhenConfirmed
    ExpiredNotCredited
CHECK_DEADLOCK FALSE
