---------------------------- MODULE ComputedStates ----------------------------
(***************************************************************************)
(* ComputedState<T> of @fnodejs/fusion: the update loop that keeps a view  *)
(* of a computation current, with its snapshots, its delay and its disposal *)
(* (packages/fusion/src/computed-state.ts, state-snapshot.ts,              *)
(* update-delayer.ts), and the handler the React hooks subscribe to it     *)
(* (packages/react/src/use-computed.ts).                                   *)
(*                                                                         *)
(* What the compute functions await is one MutableState, and one cached    *)
(* method that uses it; ComputeMethods has the general case of both.       *)
(* Computed objects are recycled once nothing refers to them, so the loop  *)
(* may run for ever.                                                       *)
(***************************************************************************)
EXTENDS Computed, Sequences, Naturals

CONSTANTS
    State,       \* the ComputedState objects
    Awaits,      \* what the compute function of each awaits, in order
    Hooked,      \* those whose onUpdated has the handler of useComputed
    MaxVersion,  \* bound on the changes of the MutableState
    NoNode

Source == {"method", "cell"}

ASSUME AwaitsAssumption == Awaits \in [State -> Seq(Source)]
ASSUME HookedAssumption == Hooked \subseteq State
ASSUME NodeAssumption == Node # {} /\ NoNode \notin Node /\ AutoInvalidate = {}
ASSUME BoundAssumption == MaxVersion \in Nat

VARIABLES
    graph,     \* the fields of every Computed
    seen,      \* the versions of the MutableState each Computed was computed from
    failed,    \* the Computed objects whose output is an error
    cell,      \* the current Computed of the MutableState
    version,   \* how often it was set
    method,    \* the registered Computed of the method
    pc,        \* where the update loop of each state is
    at,        \* the next await of its compute function
    comp,      \* the Computed it is computing
    inner,     \* the Computed of the method, while its call computes it
    snapshot,  \* #snapshot
    aborted    \* the disposed states

sources == <<cell, version, method>>
loops == <<pc, at, comp, inner>>
vars == <<graph, seen, failed, sources, loops, snapshot, aborted>>

\* NoNode in a snapshot is the Computed of the constructor, which has no output.
Snapshot == [computed : Node \union {NoNode}, fallback : Node \union {NoNode},
             retries : Nat]

Stage == {"new", "computing", "updated", "watching", "delaying", "ended"}

TypeOK ==
    /\ graph \in Graph
    /\ seen \in [Node -> SUBSET (0..MaxVersion)]
    /\ failed \subseteq graph.output
    /\ cell \in Node
    /\ version \in 0..MaxVersion
    /\ method \in Node \union {NoNode}
    /\ pc \in [State -> Stage]
    /\ at \in [State -> Nat]
    /\ comp \in [State -> Node \union {NoNode}]
    /\ inner \in [State -> Node \union {NoNode}]
    /\ snapshot \in [State -> Snapshot]
    /\ aborted \subseteq State

-----------------------------------------------------------------------------
(***************************************************************************)
(* Objects.                                                                *)
(***************************************************************************)

Referenced ==
    {cell, method}
    \union UNION {{snapshot[s].computed, snapshot[s].fallback, comp[s], inner[s]} : s \in State}

\* What the program let go of, and the part of it that no Computed holds on to.
Released == Node \ Referenced

Free == {n \in Released : \A m \in Node : n \notin graph.dependencies[m]}

Fresh == CHOOSE n \in Free : TRUE

\* A new Computed, in graph g.
Construct(g) ==
    /\ Free # {}
    /\ graph' = Constructed(g, Fresh)
    /\ seen' = [seen EXCEPT ![Fresh] = {}]
    /\ failed' = failed \ {Fresh}

Served(n) == n # NoNode /\ graph.state[n] = "Consistent"

-----------------------------------------------------------------------------
(***************************************************************************)
(* The compute function.                                                   *)
(***************************************************************************)

Awaiting(s, source) ==
    /\ pc[s] = "computing"
    /\ inner[s] = NoNode
    /\ at[s] <= Len(Awaits[s])
    /\ Awaits[s][at[s]] = source

\* #compute() up to the first await of the compute function.
StartComputing(s) ==
    /\ Construct(graph)
    /\ comp' = [comp EXCEPT ![s] = Fresh]
    /\ at' = [at EXCEPT ![s] = 1]
    /\ pc' = [pc EXCEPT ![s] = "computing"]
    /\ UNCHANGED <<sources, inner, snapshot, aborted>>

\* The Computed of s gets what n was computed from, and depends on n.
Receive(s, g, n) ==
    /\ graph' = AddDependency(g, comp[s], n)
    /\ seen' = [seen EXCEPT ![comp[s]] = @ \union seen[n]]
    /\ at' = [at EXCEPT ![s] = @ + 1]

UseCell(s) ==
    /\ Awaiting(s, "cell")
    /\ Receive(s, graph, cell)
    /\ UNCHANGED <<failed, sources, pc, comp, inner, snapshot, aborted>>

\* The method is called: the cached value is returned ...
CallCached(s) ==
    /\ Awaiting(s, "method")
    /\ Served(method)
    /\ Receive(s, graph, method)
    /\ UNCHANGED <<failed, sources, pc, comp, inner, snapshot, aborted>>

\* ... or, once no other call holds its lock, it is computed.
CallComputing(s) ==
    /\ Awaiting(s, "method")
    /\ ~Served(method)
    /\ \A u \in State : inner[u] = NoNode
    /\ Construct(graph)
    /\ inner' = [inner EXCEPT ![s] = Fresh]
    /\ UNCHANGED <<sources, pc, at, comp, snapshot, aborted>>

MethodUsesCell(s) ==
    /\ inner[s] # NoNode
    /\ seen[inner[s]] = {}
    /\ graph' = AddDependency(graph, inner[s], cell)
    /\ seen' = [seen EXCEPT ![inner[s]] = seen[cell]]
    /\ UNCHANGED <<failed, sources, loops, snapshot, aborted>>

MethodReturns(s) ==
    /\ inner[s] # NoNode
    /\ \E set \in {TrySetOutput(graph, inner[s])} : Receive(s, set, inner[s])
    /\ method' = inner[s]
    /\ inner' = [inner EXCEPT ![s] = NoNode]
    /\ UNCHANGED <<failed, cell, version, pc, comp, snapshot, aborted>>

-----------------------------------------------------------------------------
(***************************************************************************)
(* The update loop.                                                        *)
(***************************************************************************)

\* Faulty variants of NextSnapshot: the fallback is what was shown before; a success
\* makes up for one error.
NextSnapshotPrevious(prev, c, isError) ==
    [computed |-> c,
     fallback |-> IF isError THEN prev.computed ELSE c,
     retries  |-> IF isError THEN prev.retries + 1 ELSE 0]

NextSnapshotDecay(prev, c, isError) ==
    [computed |-> c,
     fallback |-> IF isError THEN prev.fallback ELSE c,
     retries  |-> IF isError THEN prev.retries + 1 ELSE prev.retries - 1]

\* new StateSnapshot(c, prev); a Computed without an output counts as no error.
NextSnapshot(prev, c, isError) ==
    [computed |-> c,
     fallback |-> IF isError THEN prev.fallback ELSE c,
     retries  |-> IF isError THEN prev.retries + 1 ELSE 0]

\* The handler of useComputed reads state.value when state.error is undefined; the
\* value of a Computed without an output throws.
HandlerThrows(s, g) == s \in Hooked /\ comp[s] \notin g.output

\* The constructor runs the loop up to its first await.
Create(s) ==
    /\ pc[s] = "new"
    /\ StartComputing(s)

\* The compute function has returned, or has thrown at any of its awaits; an
\* exception of a handler of onUpdated ends the loop.
Finish(s) ==
    /\ pc[s] = "computing"
    /\ inner[s] = NoNode
    /\ \E throws \in BOOLEAN, set \in {TrySetOutput(graph, comp[s])} :
         LET isError == throws /\ comp[s] \in set.output
         IN  /\ throws \/ at[s] > Len(Awaits[s])
             /\ graph' = set
             /\ failed' = IF isError THEN failed \union {comp[s]} ELSE failed
             /\ snapshot' = [snapshot EXCEPT ![s] = NextSnapshot(@, comp[s], isError)]
             /\ pc' = [pc EXCEPT ![s] = IF HandlerThrows(s, set) THEN "ended" ELSE "updated"]
    /\ comp' = [comp EXCEPT ![s] = NoNode]
    /\ at' = [at EXCEPT ![s] = 0]
    /\ UNCHANGED <<seen, sources, inner, aborted>>

\* The loop goes on to next, unless the state was disposed.
Goto(s, next) ==
    /\ pc' = [pc EXCEPT ![s] = IF s \in aborted THEN "ended" ELSE next]
    /\ UNCHANGED <<graph, seen, failed, sources, at, comp, inner, snapshot, aborted>>

\* Faulty variant of Watch: it subscribes to an event that may have fired already.
WatchLate(s) ==
    /\ pc[s] = "updated"
    /\ Goto(s, IF Served(snapshot[s].computed) THEN "watching" ELSE "ended")

\* The head of the while loop, and the call of whenInvalidated().
Watch(s) ==
    /\ pc[s] = "updated"
    /\ Goto(s, "watching")

\* The promise of whenInvalidated() has resolved.
Wake(s) ==
    /\ pc[s] = "watching"
    /\ graph.state[snapshot[s].computed] = "Invalidated"
    /\ Goto(s, "delaying")

\* Faulty variant of DelayOver: the abort is not looked at after the delay.
DelayOverBlindly(s) ==
    /\ pc[s] = "delaying"
    /\ StartComputing(s)

\* A delay of FixedDelayer.ms() rejects when the signal is aborted meanwhile, and one
\* of nextTick when it was aborted before ...
DelayAborted(s) ==
    /\ pc[s] = "delaying"
    /\ s \in aborted
    /\ Goto(s, "ended")

\* ... or the delay is over: the state is computed again, unless it was disposed.
DelayOver(s) ==
    /\ pc[s] = "delaying"
    /\ IF s \in aborted THEN Goto(s, "ended") ELSE StartComputing(s)

Dispose(s) ==
    /\ pc[s] # "new"
    /\ aborted' = aborted \union {s}
    /\ UNCHANGED <<graph, seen, failed, sources, loops, snapshot>>

\* MutableState.set().
SetCell ==
    /\ version < MaxVersion
    /\ Free # {}
    /\ version' = version + 1
    /\ cell' = Fresh
    /\ graph' = TrySetOutput(Constructed(Invalidate(graph, cell), Fresh), Fresh)
    /\ seen' = [seen EXCEPT ![Fresh] = {version'}]
    /\ failed' = failed \ {Fresh}
    /\ UNCHANGED <<method, loops, snapshot, aborted>>

-----------------------------------------------------------------------------
Init ==
    /\ cell = CHOOSE n \in Node : TRUE
    /\ graph = TrySetOutput(NewGraph, cell)
    /\ version = 0
    /\ seen = [n \in Node |-> IF n = cell THEN {0} ELSE {}]
    /\ failed = {}
    /\ method = NoNode
    /\ pc = [s \in State |-> "new"]
    /\ at = [s \in State |-> 0]
    /\ comp = [s \in State |-> NoNode]
    /\ inner = [s \in State |-> NoNode]
    /\ snapshot = [s \in State |-> [computed |-> NoNode, fallback |-> NoNode, retries |-> 0]]
    /\ aborted = {}

Run(s) ==
    \/ UseCell(s)
    \/ CallCached(s)
    \/ CallComputing(s)
    \/ MethodUsesCell(s)
    \/ MethodReturns(s)
    \/ Finish(s)
    \/ Watch(s)
    \/ Wake(s)
    \/ DelayAborted(s)
    \/ DelayOver(s)

Next ==
    \/ \E s \in State : Create(s) \/ Run(s) \/ Dispose(s)
    \/ SetCell

Spec == Init /\ [][Next]_vars

\* Microtasks run, delays pass, and what a compute function awaits settles.
FairSpec == Spec /\ \A s \in State : WF_vars(Run(s))

-----------------------------------------------------------------------------
\* A state whose Computed is Consistent shows the current value, whether it read the
\* cell itself or through the method, before or after the last change
\* (computed-state.ts, #compute).
ServedIsCurrent ==
    \A s \in State :
        Served(snapshot[s].computed) => seen[snapshot[s].computed] \subseteq {version}

\* The fallback of a snapshot never is an error, and retryCount is the number of
\* errors since: not 0 exactly when the shown result is an error (state-snapshot.ts).
FallbackNeverFails ==
    \A s \in State :
        /\ snapshot[s].fallback \notin failed
        /\ snapshot[s].retries > 0 <=> snapshot[s].computed \in failed

\* A Computed the loop has let go of is linked to nothing, so it can be collected
\* (computed-state.ts replaces a snapshot only after it was invalidated).
NothingLeaks ==
    \A n \in Released : /\ graph.dependencies[n] = {}
                        /\ graph.dependants[n] = {}
                        /\ \A m \in Node : n \notin graph.dependants[m]

\* A disposed state starts no computation (computed-state.ts, the checks of
\* signal.aborted after every await of the loop).
DisposedStaysIdle ==
    [][\A s \in aborted : pc[s] # "computing" => pc'[s] # "computing"]_vars

\* Once the changes are over, a state comes to rest, and it shows the current value:
\* no invalidation is missed, and none is followed for ever (computed-state.ts,
\* #updateCycle).
EventuallyCurrent ==
    \A s \in State :
        <>[](\/ pc[s] = "new"
             \/ /\ pc[s] \in {"watching", "ended"}
                /\ s \in aborted \/ Served(snapshot[s].computed))

\* computed-state.ts, where the loop ends on an exception: "Loop cancelled - expected
\* on dispose".
EndsOnlyOnDispose == \A s \in State : pc[s] = "ended" => s \in aborted
=============================================================================
