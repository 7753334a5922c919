SPECIFICATION Spec
CONSTANTS
    c1 = c1
    c2 = c2
    c3 = c3
    inv = inv
    food = food
    disposables = disposables
    form = form
    Credits = {c1, c2, c3}
    Invoices = {inv}
    Parts = {food, disposables}
    Form <- MCForm
    Amount <- MCAmount
    Original <- MCOriginal
    Part <- MCPart
    Gross <- MCGross
    Tolerance = 1
    Linked = {c1, c3}
    Issues = {x1}
    Batches = {b1}
    Closes = {m1}
    Voids = {}
    Faults = {"crash", "dbFails", "lostReply", "overlap"}
    None = None
INVARIANTS GivenBackOnce MarkedIffGiven
CHECK_DEADLOCK FALSE
