----------------------- MODULE TransitiveInvalidation -----------------------
(***************************************************************************)
(* What the dependency graph of @fnodejs/fusion promises, stated over the  *)
(* values alone: which values each value was computed from, and which of   *)
(* them may still be served.  There is no index from a value to its        *)
(* readers here, no timer and no callback: withdrawing a value withdraws,  *)
(* in the same step, exactly the values computed from it, directly or not. *)
(* ComputedGraph is shown to implement this module.                        *)
(***************************************************************************)
CONSTANT Node

VARIABLES
    status,  \* how far each value has got
    reads    \* the values each value was computed from

vars == <<status, reads>>

\* A Doomed value is still being computed and will never be served.
Status == {"Computing", "Doomed", "Consistent", "Invalidated"}

InProgress == {"Computing", "Doomed"}

TypeOK ==
    /\ status \in [Node -> Status]
    /\ reads \in [Node -> SUBSET Node]

Init ==
    /\ status = [n \in Node |-> "Computing"]
    /\ reads = [n \in Node |-> {}]

\* The served values that were computed from roots, with the roots themselves.
ReaderClosed(S) ==
    \A m \in Node : status[m] = "Consistent" /\ reads[m] \intersect S # {} => m \in S

Readers(roots) ==
    {n \in Node : \A S \in SUBSET Node :
                      roots \subseteq S /\ ReaderClosed(S) => n \in S}

Withdraw(R) ==
    /\ status' = [n \in Node |->
                     IF n \in R THEN "Invalidated"
                     ELSE IF status[n] = "Computing" /\ reads[n] \intersect R # {}
                          THEN "Doomed" ELSE status[n]]
    /\ reads' = [n \in Node |-> IF n \in R THEN {} ELSE reads[n]]

-----------------------------------------------------------------------------
\* c reads a served value.
Read(c, d) ==
    /\ status[c] \in InProgress
    /\ status[d] = "Consistent"
    /\ reads' = [reads EXCEPT ![c] = @ \union {d}]
    /\ UNCHANGED status

\* c reads a value withdrawn before the read: c is withdrawn there and then.
ReadWithdrawn(c, d) ==
    /\ status[c] \in InProgress
    /\ status[d] = "Invalidated"
    /\ Withdraw({c})

Complete(c) ==
    /\ status[c] = "Computing"
    /\ status' = [status EXCEPT ![c] = "Consistent"]
    /\ UNCHANGED reads

CompleteDoomed(c) ==
    /\ status[c] = "Doomed"
    /\ Withdraw({c})

\* A value in progress is withdrawn when it completes, a served one at once.
InvalidateInProgress(c) ==
    /\ status[c] = "Computing"
    /\ status' = [status EXCEPT ![c] = "Doomed"]
    /\ UNCHANGED reads

InvalidateServed(c) ==
    /\ status[c] = "Consistent"
    /\ Withdraw(Readers({c}))

Next ==
    \/ \E c, d \in Node : Read(c, d) \/ ReadWithdrawn(c, d)
    \/ \E c \in Node : \/ Complete(c)
                       \/ CompleteDoomed(c)
                       \/ InvalidateInProgress(c)
                       \/ InvalidateServed(c)

Spec == Init /\ [][Next]_vars
=============================================================================
