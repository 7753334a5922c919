SPECIFICATION FairQueueSpec
CONSTANTS
    a1 = a1
    a2 = a2
    d1 = d1
    d2 = d2
    Docs = {d1, d2}
    Agents = {a1, a2}
    MaxAttempts = 2
    BatchSize = 1
    MaxAsked = 2
    MaxLosses = 2
    Faults = {"slowAgent", "lostReply", "lostReport", "printerFails", "dbFails"}
    None = None
INVARIANTS HandedOnce PrintedMeansPaper GivesUpLate
PROPERTIES EveryJobEnds
CONSTRAINT Explored
CHECK_DEADLOCK FALSE
