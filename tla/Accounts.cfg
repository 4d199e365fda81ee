\* One phone and one Firebase subject, two logins at a time, room for two accounts more.
SPECIFICATION FairSpec
CONSTANTS
    Phones = {p1}
    Subjects = {s1}
    Ids = {root, a, b}
    Root = root
    RootPhone = p0
    Threads = {th1, th2}
    MaxRequests = 1
    MaxVerifyAttempts = 2
    None = None
CHECK_DEADLOCK FALSE
INVARIANTS
    AccountsTypeOK
    OneAccountPerPerson
    OnlyProvedAccountsAreVerified
PROPERTY
    LimitsEnd
