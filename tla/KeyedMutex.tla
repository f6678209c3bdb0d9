------------------------------ MODULE KeyedMutex ------------------------------
(***************************************************************************)
(* What AsyncLockSet promises its callers: one mutex per key, granted in   *)
(* the order of the requests.  AsyncLockSet is shown to implement this     *)
(* module, and ComputeMethods relies on it instead of on AsyncLockSet.     *)
(***************************************************************************)
EXTENDS Sequences

CONSTANTS
    Key,
    Task

VARIABLES
    owners,   \* the tasks that may be inside the critical section of each key
    waiting   \* the requests of each key that were not granted yet, oldest first

vars == <<owners, waiting>>

TypeOK ==
    /\ owners \in [Key -> SUBSET Task]
    /\ waiting \in [Key -> Seq(Task)]

Init ==
    /\ owners = [k \in Key |-> {}]
    /\ waiting = [k \in Key |-> <<>>]

RequestFree(t, k) ==
    /\ owners[k] = {}
    /\ owners' = [owners EXCEPT ![k] = {t}]
    /\ UNCHANGED waiting

RequestHeld(t, k) ==
    /\ owners[k] # {}
    /\ waiting' = [waiting EXCEPT ![k] = Append(@, t)]
    /\ UNCHANGED owners

Request(t, k) == RequestFree(t, k) \/ RequestHeld(t, k)

\* The owner leaves and the oldest request, if any, becomes the owner.
Release(t, k) ==
    /\ t \in owners[k]
    /\ \/ /\ waiting[k] = <<>>
          /\ owners' = [owners EXCEPT ![k] = {}]
          /\ UNCHANGED waiting
       \/ /\ waiting[k] # <<>>
          /\ owners' = [owners EXCEPT ![k] = {Head(waiting[k])}]
          /\ waiting' = [waiting EXCEPT ![k] = Tail(@)]

Next == \E t \in Task, k \in Key : Request(t, k) \/ Release(t, k)

Spec == Init /\ [][Next]_vars
=============================================================================
