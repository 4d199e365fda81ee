\* A slow worker deletes what its successor published.
SPECIFICATION Spec
CONSTANTS
    a1 = a1 a2 = a2 a3 = a3 l1 = l1 l2 = l2
    Assets = {a1, a2, a3}
    Listings = {l1, l2}
    listing_of <- ListingOf
    content <- Content
    Workers = {w1, w2}
    MaxAttempts = 2
    MaxPerListing = 1
    None = None
CHECK_DEADLOCK FALSE
INVARIANT
    ApprovedImageIsServed
