SPECIFICATION Spec
CONSTANTS
    auto = auto
    c0 = c0
    c1 = c1
    c2 = c2
    AutoNote = auto
    Forms = {f1, f2}
    Carts = {c0, c1, c2}
    EmptyCarts = {c0}
    Hand = hand
    Threads = {y1, y2}
    Creators = {k1}
    Clerks = {h1}
    MaxChanges = 2
    MaxActs = 2
    None = None
SYMMETRY NoteSymmetry
INVARIANTS InvoiceMatchesNote FollowsOrder CancelledIsNotCharged PaperFollowsNote WeighedOnce
PROPERTIES PeopleDecide
CONSTRAINT Explored
CHECK_DEADLOCK FALSE
