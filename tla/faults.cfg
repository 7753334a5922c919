SPECIFICATION Spec
CONSTANTS
    n1 = n1
    n2 = n2
    c1 = c1
    food = food
    disposables = disposables
    Notes = {n1, n2}
    Credits = {c1}
    Keys = {food, disposables}
    Key <- MCKey
    Number <- MCNumber
    Lines <- MCLines
    Fits = TRUE
    Runs = {r1, r2}
    Refunds = {x1}
    Locked = {}
    Cancels = {}
    Faults = {"crash", "dbFails", "rejected", "lostReply"}
    NoRun = NoRun
    None = None
INVARIANTS ChargedAtMostOnce MarkedIsListed
PROPERTIES KeepsTheBook ReopenedIsUncharged
CHECK_DEADLOCK FALSE
