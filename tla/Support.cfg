\* Two requests at a time with every combination of references, two tickets.  One
\* administrator's screen: what colleagues do arrives as changes sent without a version.
SPECIFICATION Spec
CONSTANTS
    c1 = c1 c2 = c2 m1 = m1 m2 = m2 r1 = r1
    o1 = o1 o2 = o2 o3 = o3 s1 = s1 s2 = s2
    Customers = {c1, c2}
    Merchants = {m1, m2}
    Riders = {r1}
    Admins = {a1}
    Orders = {o1, o2, o3}
    Stores = {s1, s2}
    order_user <- OrderUser
    order_store <- OrderStore
    store_merchant <- StoreMerchant
    delivery_partner <- DeliveryPartner
    Tickets = {t1, t2}
    Keys = {k1, k2}
    Texts = {x1}
    Threads = {h1, h2}
    Requests <- TicketRequests
    MaxVersion = 2
    None = None
    Keep = Keep
SYMMETRY Interchangeable
CHECK_DEADLOCK FALSE
INVARIANTS
    SupportTypeOK
    AcceptedVersionIsUpToDate
    RetriesGetOneTicket
    LinkedContextBelongs
PROPERTY
    VisibleChangesAreToldOnce
