---------------------------- MODULE ComputedGraph ----------------------------
(***************************************************************************)
(* The dependency graph as a state machine: any number of computations     *)
(* interleave their calls on the Computed objects of module Computed, and  *)
(* every call is one synchronous, hence atomic, step.  Also modelled here  *)
(* are the auto-invalidation timers and the promises of whenInvalidated(). *)
(***************************************************************************)
EXTENDS Computed

CONSTANTS
    Watcher,  \* code awaiting a whenInvalidated() promise
    NoNode    \* a watcher with nothing to wait for

ASSUME NoNodeAssumption == NoNode \notin Node

VARIABLES
    graph,    \* the fields of every Computed
    waiting   \* the node whose onInvalidated event each watcher waits for

vars == <<graph, waiting>>

TypeOK ==
    /\ graph \in Graph
    /\ waiting \in [Watcher -> Node \union {NoNode}]

Init ==
    /\ graph = NewGraph
    /\ waiting = [w \in Watcher |-> NoNode]

\* Takes the graph to g; onInvalidated fires for the nodes that become
\* Invalidated, which resolves the promises waiting for them.
Mutate(g) ==
    /\ graph' = g
    /\ waiting' = [w \in Watcher |->
          IF \E n \in Node : /\ waiting[w] = n
                             /\ graph.state[n] # "Invalidated"
                             /\ g.state[n] = "Invalidated"
          THEN NoNode ELSE waiting[w]]

-----------------------------------------------------------------------------
\* Every caller passes another Computed whose output was already set, or that
\* was invalidated before it could be.
Depend(c, d) ==
    /\ c # d
    /\ graph.state[d] # "Computing"
    /\ Mutate(AddDependency(graph, c, d))

SetOutput(c) == Mutate(TrySetOutput(graph, c))

InvalidateNode(c) == Mutate(Invalidate(graph, c))

TimerFires(c) ==
    /\ c \in graph.armed
    /\ Mutate(Invalidate([graph EXCEPT !.armed = @ \ {c}], c))

Hook(c) == Mutate(SetInvalidateCallback(graph, c))

\* whenInvalidated() resolves at once on an Invalidated node.
WhenInvalidated(w, c) ==
    /\ waiting[w] = NoNode
    /\ graph.state[c] # "Invalidated"
    /\ waiting' = [waiting EXCEPT ![w] = c]
    /\ UNCHANGED graph

Next ==
    \/ \E c, d \in Node : Depend(c, d)
    \/ \E c \in Node : \/ SetOutput(c)
                       \/ InvalidateNode(c)
                       \/ TimerFires(c)
                       \/ Hook(c)
    \/ \E w \in Watcher, c \in Node : WhenInvalidated(w, c)

Spec == Init /\ [][Next]_vars

-----------------------------------------------------------------------------
\* A Consistent value was computed from Consistent values only: no interleaving
\* of reads, completions, timers and cascades leaves a cached value standing on
\* one that has been withdrawn (computed.ts, invalidate and trySetOutput).
CoherentInv == Coherent(graph)

\* #dependencies and #dependants describe the same edges, so a cascade misses no
\* reader, visits no stranger, and leaves no link that would keep a withdrawn
\* value from being collected (computed.ts, addDependency and invalidate).
LinkedInv == Linked(graph)

\* A value with autoInvalidateMs has a live timer exactly while it is served:
\* it is not cached for ever, and no timer fires on a value that is gone, however
\* the cascade reached it (computed.ts, trySetOutput and the two invalidations).
TimedInv == Timed(graph)

\* A computation that read a value withdrawn since carries the deferred flag, so
\* completing cannot publish it (computed.ts, #invalidateOnSetOutput).
DoomedInv == Doomed(graph)

\* The dependencies never form a cycle, as README.md claims ("a directed acyclic
\* graph"): nothing in Computed checks it, the callers' order ensures it.
AcyclicInv == Acyclic(graph)

\* Nobody waits for an event that has already fired and was cleared: a promise of
\* whenInvalidated() is pending only while its node can still be invalidated.
NoLostWakeup ==
    \A w \in Watcher, n \in Node :
        waiting[w] = n => graph.state[n] # "Invalidated"

-----------------------------------------------------------------------------
\* Forgetting the reverse index, the timers and the callbacks, the graph behaves
\* as TransitiveInvalidation says: a step withdraws exactly the values computed
\* from a withdrawn one.
StatusOf(g) ==
    [n \in Node |-> IF g.state[n] = "Computing" /\ n \in g.deferred
                    THEN "Doomed" ELSE g.state[n]]

Promise == INSTANCE TransitiveInvalidation WITH
    status <- StatusOf(graph),
    reads  <- graph.dependencies

ImplementsTransitiveInvalidation == Promise!Spec
=============================================================================
