SPECIFICATION Spec
CONSTANTS
    Carts = {c1, c2}
    Hooks = {h1, h2}
    MaxErrors = 2
    MaxCrashes = 1
    None = None
SYMMETRY Interchangeable
INVARIANTS AnsweredIsServed SpentOnce RewardOnce RewardNotLost UndoneIsAlerted StockOnce
CHECK_DEADLOCK FALSE
