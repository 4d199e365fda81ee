\* Two events, two devices, two flushers that take one event at a time, one of
\* which may die.  An event waits behind another.
SPECIFICATION FairSpec
CONSTANTS
    t1 = t1 t2 = t2 u1 = u1 u2 = u2
    recipient <- Recipient
    holders <- Holders
    Users = {u1, u2}
    Tokens = {t1, t2}
    MaxEvents = 2
    Flushers = {w1, w2}
    Batch = 1
    MaxAttempts = 2
    MaxCrashes = 1
    None = None
CHECK_DEADLOCK FALSE
INVARIANTS
    OutboxTypeOK
    NoPushIsRepeated
PROPERTIES
    ImplementsNotice
    EveryEventIsSettled
