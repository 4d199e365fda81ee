\* One worker, as deployed; two versions, two names for the store.
SPECIFICATION FairSpec
CONSTANTS
    Owner = Owner
    Admin = Admin
    Facts = {f1, f2}
    Workers = {w1}
    MaxVersions = 2
    MaxRevision = 2
    MaxAttempts = 2
    MaxCrashes = 1
    None = None
CHECK_DEADLOCK FALSE
INVARIANTS
    BannersTypeOK
    CurrentRevisionSawSelection
    CustomersSeeReviewedManifest
PROPERTY
    EveryBannerIsBuilt
