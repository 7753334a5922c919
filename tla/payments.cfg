SPECIFICATION Spec
CONSTANTS
    n1 = n1
    n2 = n2
    n3 = n3
    i1 = i1
    i2 = i2
    Notes = {n1, n2, n3}
    Invoices = {i1, i2}
    On <- MCOn
    Total <- MCTotal
    Estimate <- MCEstimate
    Payments = {p1, p2}
    Sums = {0, 4}
    Credits = {x1}
    Adjusts = {a1}
    Correction <- MCCorrection
    Faults = {"crash", "dbFails", "rejected", "lostReply", "icountDown"}
    None = None
INVARIANTS SettledOnce PaidIffSettled RefundMatches
CHECK_DEADLOCK FALSE
