SPECIFICATION Spec
CONSTANTS
    n1 = n1
    n2 = n2
    c1 = c1
    food = food
    disposables = disposables
    Notes = {n1, n2}
    Credits = {c1}
    Keys = {food, disposables}
    Key <- MCKey
    Number <- MCNumber
    Lines <- MCLines
    Fits = TRUE
    Runs = {r1}
    Refunds = {}
    Locked = {}
    Cancels = {}
    Faults = {"dbFails"}
    NoRun = NoRun
    None = None
INVARIANTS OpenIsNotInvoiced
CHECK_DEADLOCK FALSE
