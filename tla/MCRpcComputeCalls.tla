--------------------------- MODULE MCRpcComputeCalls ---------------------------
(***************************************************************************)
(* Bounds for RpcComputeCalls: two views of the same key, for which the    *)
(* method may throw once it has changed, and a second connection.  Every   *)
(* change and every flush costs one call more.                             *)
(***************************************************************************)
EXTENDS RpcComputeCalls

CONSTANTS v1, v2, price

MCView == {v1, v2}
MCKey == {price}
MCKeyOf == [v \in MCView |-> price]
MCFails == {<<price, 1>>}
MCNoFailure == {}
MCNode == MCView \union 1..MaxCall
MCNoTimers == {}
=============================================================================
