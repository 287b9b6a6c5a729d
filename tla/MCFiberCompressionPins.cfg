SPECIFICATION Spec
CONSTANTS
    f1 = f1
    f2 = f2
    a = a
    b = b
    Fibers = {f1, f2}
    Neurons = {a, b}
    Members <- Shared
    Anchor <- SharedAnchor
    Tiers = {1, 4}
    MaxEdits = 1
    MaxRestores = 0
    MaxCrashes = 0
PROPERTY
    PinTakesEffect
CHECK_DEADLOCK FALSE
