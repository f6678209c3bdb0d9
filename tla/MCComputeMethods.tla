-------------------------- MODULE MCComputeMethods --------------------------
(***************************************************************************)
(* Bounds for ComputeMethods: a method "total" that uses a MutableState    *)
(* and then awaits a method "get", which reads plain data.                 *)
(***************************************************************************)
EXTENDS ComputeMethods, TLC

CONSTANTS get, total, row, currency

MCKey == {get, total}
MCPlain == {row}
MCTracked == {currency}
MCBody == (get :> <<row>>) @@ (total :> <<currency, get>>)
MCBodyPlain == (get :> <<row>>) @@ (total :> <<get>>)
MCNoCells == {}
MCNode4 == 1..4
MCNode == 1..6
MCNoTimers == {}

\* The tasks are interchangeable.
MCSymmetry == Permutations(Task)
=============================================================================
