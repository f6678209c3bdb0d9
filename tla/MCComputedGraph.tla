--------------------------- MODULE MCComputedGraph ---------------------------
(***************************************************************************)
(* Bounds for ComputedGraph: the nodes are model values and one of them    *)
(* carries a timer.                                                        *)
(***************************************************************************)
EXTENDS ComputedGraph, TLC

CONSTANTS n1, n2, n3, n4

MCNode4 == {n1, n2, n3, n4}
MCAutoInvalidate == {n1}

\* The nodes without a timer are interchangeable.
MCSymmetry == Permutations(Node \ AutoInvalidate)
=============================================================================
