SPECIFICATION Spec
CONSTANTS
    c1 = c1
    c2 = c2
    Callers = {c1, c2}
    NoCaller = NoCaller
    Attempts = 3
    Socket = TRUE
    MaxFaults = 2
INVARIANT
    NotReplayed
