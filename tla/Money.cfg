\* One online order, two provider orders, two refund threads.
SPECIFICATION Spec
CONSTANTS
    Orders = {o1}
    Methods = {"upi"}
    Riders = {r1}
    Attempts = {a1, a2}
    Dispatchers = {d1, d2}
    NoRider = NoRider
    NoOrder = NoOrder
    MaxRefundAttempts = 2
    MaxChallenges = 1
    MaxGuesses = 1
    CanCrash = TRUE
SYMMETRY Interchangeable
CHECK_DEADLOCK FALSE
INVARIANTS
    TypeOK
    OnlineGoodsArePaid
    RefundIsOwedExactlyWhenDead
    RefundedOnlyAfterProvider
    MoneyBackIsNotTheMerchants
PROPERTY
    NothingReopens
