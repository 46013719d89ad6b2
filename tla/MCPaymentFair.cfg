\* Two calls at a time; only the rates of the fallback may fail.
\* The system stops when the payment has come to its end and nothing is served.
SPECIFICATION FairSpec
CONSTANTS
    p1 = p1  p2 = p2  s1 = s1  s2 = s2  s3 = s3
    Payments = {p1}
    Slots = {s1, s2}
    Faults = {"ratesFail"}
INVARIANT PaidIsCredited
PROPERTY ConfirmedIsCredited
CHECK_DEADLOCK FALSE
