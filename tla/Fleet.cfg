\* Three cash orders sharing two riders; the real ceilings of the delivery code are 5.
SPECIFICATION Spec
CONSTANTS
    Orders = {o1, o2, o3}
    Methods = {"cod"}
    Riders = {r1, r2}
    Attempts = {a1}
    Dispatchers = {d1}
    NoRider = NoRider
    NoOrder = NoOrder
    MaxRefundAttempts = 1
    MaxChallenges = 2
    MaxGuesses = 2
    CanCrash = TRUE
SYMMETRY OrdersToo
CHECK_DEADLOCK FALSE
INVARIANTS
    
    OneActiveDeliveryPerRider
    DeliveredIsEarned
    CustodyIsNeverReassigned
