------------------------- MODULE MCConsolidationRun -------------------------
(* Instances of ConsolidationRun for TLC. *)
EXTENDS ConsolidationRun, TLC

CONSTANTS plain, tiered, short

MCRequested ==
    [o \in Options |-> IF o = short THEN {1} ELSE Strategies]

MCAutoTier == [o \in Options |-> o = tiered]

TokenSymmetry == Permutations(Tokens)
=============================================================================
