\* The docstring's claim about the atomic creation; no fault is needed.
SPECIFICATION Spec
CONSTANTS
    Procs = {p1, p2, p3}
    NoProc = NoProc
    MaxFaults = 0
INVARIANT MutualExclusion
