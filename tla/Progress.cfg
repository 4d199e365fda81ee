\* One order of either method and one refund thread that never dies.
SPECIFICATION FairSpec
CONSTANTS
    Orders = {o1}
    Methods = {"cod", "upi"}
    Riders = {r1}
    Attempts = {a1}
    Dispatchers = {d1}
    NoRider = NoRider
    NoOrder = NoOrder
    MaxRefundAttempts = 2
    MaxChallenges = 1
    MaxGuesses = 1
    CanCrash = FALSE
CHECK_DEADLOCK FALSE
PROPERTIES
    OwedRefundIsPaid
    FailedDeliveryIsClosed
    ImplementsDeal
