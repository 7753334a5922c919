SPECIFICATION Spec
CONSTANTS
    n1 = n1
    n2 = n2
    c1 = c1
    food = food
    disposables = disposables
    Notes = {n1, n2}
    Credits = {c1}
    Keys = {food, disposables}
    Key <- MCKey
    Number <- MCNumber
    Lines <- MCLines
    Fits = TRUE
    Runs = {r1, r2}
    Refunds = {}
    Locked = {}
    Cancels = {k1}
    Faults = {"slowRun", "rejected"}
    NoRun = NoRun
    None = None
SYMMETRY RunSymmetry
INVARIANTS ClaimsAreExclusive
CHECK_DEADLOCK FALSE
