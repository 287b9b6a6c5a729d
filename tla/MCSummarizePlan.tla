--------------------------- MODULE MCSummarizePlan ---------------------------
(* Constants for model checking SummarizePlan. *)
EXTENDS SummarizePlan

CONSTANTS w1, w2, i1, i2, i3, i4

\* Two pairs that a third tag joins, so that the tree gets as deep as MaxDepth
\* allows; two more pairs, one of them with a summary already, which is fiber 9.
\* The tag 6 is too common for a posting limit of 2, and would join 5 to 1.
JoinedTags ==
    [f \in Fibers |->
        CASE f = 1 -> {1, 6} [] f = 2 -> {1, 3} [] f = 3 -> {2, 6} [] f = 4 -> {2, 3}
          [] f = 5 -> {4, 6} [] f = 6 -> {4} [] f \in {7, 8} -> {5} [] OTHER -> {}]
PairCovered == [f \in Fibers |-> IF f = 9 THEN {5, 6} ELSE {}]
=============================================================================
