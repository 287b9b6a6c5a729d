\* Liveness is among the properties, so without symmetry.
SPECIFICATION FairSpec
CONSTANTS
    Procs = {p1, p2, p3}
    NoProc = NoProc
    MaxFaults = 2
INVARIANTS
    TypeOK
    SoleUser
PROPERTY AbandonedIsCleared
