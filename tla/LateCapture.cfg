\* One online order, paid at the provider after its cancellation.
SPECIFICATION Spec
CONSTANTS
    Orders = {o1}
    Methods = {"upi"}
    Riders = {r1}
    Attempts = {a1}
    Dispatchers = {d1}
    NoRider = NoRider
    NoOrder = NoOrder
    MaxRefundAttempts = 2
    MaxChallenges = 1
    MaxGuesses = 1
    CanCrash = FALSE
CHECK_DEADLOCK FALSE
INVARIANT
    RecordedDebtCanBePaid
