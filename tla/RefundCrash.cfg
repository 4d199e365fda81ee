\* One online order whose refund thread may die between claim and answer.
SPECIFICATION FairSpec
CONSTANTS
    Orders = {o1}
    Methods = {"upi"}
    Riders = {r1}
    Attempts = {a1}
    Dispatchers = {d1}
    NoRider = NoRider
    NoOrder = NoOrder
    MaxRefundAttempts = 2
    MaxChallenges = 1
    MaxGuesses = 1
    CanCrash = TRUE
CHECK_DEADLOCK FALSE
PROPERTY
    CrashLeavesRecoverableRefund
