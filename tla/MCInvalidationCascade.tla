------------------------ MODULE MCInvalidationCascade ------------------------
(***************************************************************************)
(* Bounds for InvalidationCascade: two MutableStates; a diamond over the   *)
(* first one, of which one side also reads the second; a computation in    *)
(* progress that has read the other side.  Up to two handlers do anything, *)
(* anywhere.                                                               *)
(***************************************************************************)
EXTENDS InvalidationCascade, TLC

CONSTANTS c1, c2, p, q, west, east, south, sink, s1, s2, s3

MCCell == {c1, c2}
MCNode == {p, q, west, east, south, sink, s1, s2, s3}
MCNoTimers == {}
MCSnapshot == (c1 :> p) @@ (c2 :> q)
MCReads ==
    [n \in MCNode |->
        CASE n = west -> {p} [] n = east -> {p, q} [] n = south -> {west, east}
          [] n = sink -> {west} [] OTHER -> {}]

MCHandler ==
    {Throw} \union [call : {"invalidate"}, arg : {east}] \union [call : {"set"}, arg : MCCell]
MCEvent == {west, south, q, <<c1, "onInvalidated">>, <<c1, "onUpdating">>, <<c1, "onUpdated">>}
MCSubscriptions == {{}} \union {{x, y} : x, y \in MCEvent \X MCHandler}
=============================================================================
