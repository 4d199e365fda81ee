\* Two stores with three listings, one cart, two orders and two concurrent
\* requests; edits of one listing after stale reads.
SPECIFICATION MCSpec
CONSTANTS
    s1 = s1
    s2 = s2
    p1 = p1
    p2 = p2
    Stores = {s1, s2}
    Products = {p1, p2}
    Customers = {c1}
    Orders = {o1, o2}
    Keys = {k1}
    Threads = {t1, t2}
    MaxQuantity = 1
    MaxStock = 1
    Edits <- SwitchOff
    NoStore = NoStore
    NoKey = NoKey
    NoRequest = NoRequest
    Keep = Keep
SYMMETRY Interchangeable
CONSTRAINT OneListingIsEdited
INVARIANTS
    InventoryTypeOK
    OneOrderPerKey
PROPERTIES
    UnitsAreConserved
    OnlyStaleLooksSpoilCarts
