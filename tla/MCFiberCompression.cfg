SPECIFICATION FairSpec
CONSTANTS
    f1 = f1
    f2 = f2
    a = a
    b = b
    Fibers = {f1, f2}
    Neurons = {a, b}
    Members <- Shared
    Anchor <- SharedAnchor
    Tiers = {1, 4}
    MaxEdits = 1
    MaxRestores = 1
    MaxCrashes = 1
INVARIANTS
    TypeOK
    NothingLost
PROPERTIES
    ReceiptMatchesLive
    IntentResolves
CHECK_DEADLOCK FALSE
