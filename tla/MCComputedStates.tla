--------------------------- MODULE MCComputedStates ---------------------------
(***************************************************************************)
(* Bounds for ComputedStates: one state over a method and a MutableState   *)
(* that is set twice, with as many objects as can be referred to at once.  *)
(***************************************************************************)
EXTENDS ComputedStates

CONSTANT s1

MCState == {s1}
MCAwaits == [s \in MCState |-> <<"method", "cell">>]
MCNode == 1..7
MCNoTimers == {}
=============================================================================
