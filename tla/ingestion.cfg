CONSTANTS
    a2 = a2
    m1 = m1
    m2 = m2
    d1 = d1
    d2 = d2
    d3 = d3
    Messages = {m1, m2}
    Deliveries = {d1, d2, d3}
    MessageOf <- SentTwice
    Cron = Cron
    Admins = {a1, a2}
    MaxOrders = 3
    MaxTogether = 2
    MaxActs = 2
    MaxErrors = 1
    MaxCrashes = 1
    None = None

SPECIFICATION FairSpec

CONSTRAINT Explored

CHECK_DEADLOCK FALSE

INVARIANTS DeliveredIsHeld TakenUpOnce OrderIsWhole GoodsOrderedOnce RecordTellsTheTruth StockOnce RemovedLeavesNothing
PROPERTIES EventuallyRead
