SPECIFICATION Spec
CONSTANTS
    n1 = n1
    n2 = n2
    c1 = c1
    food = food
    disposables = disposables
    Notes = {n1, n2}
    Credits = {c1}
    Keys = {food, disposables}
    Key <- MCKey
    Number <- MCNumber
    Lines <- MCLines
    Fits = FALSE
    Runs = {r1, r2}
    Refunds = {x1, x2}
    Locked = {x1, x2}
    Cancels = {}
    Faults = {"rejected"}
    NoRun = NoRun
    None = None
INVARIANTS NothingStranded ChargedStaysMarked
CHECK_DEADLOCK FALSE
