\* The conversion engine throws once.
\* The system stops when the payment has come to its end and nothing is served.
SPECIFICATION Spec
CONSTANTS
    p1 = p1  p2 = p2  s1 = s1  s2 = s2  s3 = s3
    Payments = {p1}
    Slots = {s1}
    Faults = {"engineFails"}
INVARIANT PaidIsCredited
CHECK_DEADLOCK FALSE
