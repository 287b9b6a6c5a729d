-------------------------- MODULE MCFiberCompression --------------------------
(* Constants for model checking FiberCompression. *)
EXTENDS FiberCompression

CONSTANTS f1, f2, a, b

\* Two fibers: the second is of one neuron, its anchor, which the first has too.
Shared == [f \in Fibers |-> IF f = f1 THEN {a, b} ELSE {b}]
SharedAnchor == [f \in Fibers |-> IF f = f1 THEN a ELSE b]
=============================================================================
