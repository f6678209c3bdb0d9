------------------------------ MODULE Computed ------------------------------
(***************************************************************************)
(* Computed<T> of @fnodejs/fusion (packages/fusion/src/computed.ts): the   *)
(* cache entries, their consistency states and the dependency links kept   *)
(* in both directions.  A Computed mutates itself and its neighbours in    *)
(* one synchronous call, and callers chain several such calls between two  *)
(* awaits, so each method is an operator from a graph to a graph; the      *)
(* modules that own a graph variable compose them into atomic steps.       *)
(*                                                                         *)
(* A graph g is a record of the private fields of every Computed:          *)
(*   g.state         #state                                                *)
(*   g.output        the nodes whose #output is set                        *)
(*   g.deferred      the nodes whose #invalidateOnSetOutput is true        *)
(*   g.dependencies  #dependencies                                         *)
(*   g.dependants    #dependants                                           *)
(*   g.armed         the nodes with a live #autoInvalidateTimer            *)
(*   g.hooked        the nodes with an #invalidateCallback                 *)
(***************************************************************************)
CONSTANTS
    Node,           \* the Computed objects
    AutoInvalidate  \* those created with options.autoInvalidateMs > 0

ASSUME AutoInvalidateAssumption == AutoInvalidate \subseteq Node

ConsistencyState == {"Computing", "Consistent", "Invalidated"}

Graph ==
    [state        : [Node -> ConsistencyState],
     output       : SUBSET Node,
     deferred     : SUBSET Node,
     dependencies : [Node -> SUBSET Node],
     dependants   : [Node -> SUBSET Node],
     armed        : SUBSET Node,
     hooked       : SUBSET Node]

\* Every Computed as its constructor leaves it.
NewGraph ==
    [state        |-> [n \in Node |-> "Computing"],
     output       |-> {},
     deferred     |-> {},
     dependencies |-> [n \in Node |-> {}],
     dependants   |-> [n \in Node |-> {}],
     armed        |-> {},
     hooked       |-> {}]

\* The graph with n, to which nothing is linked, as its constructor leaves it.
Constructed(g, n) ==
    [g EXCEPT !.state[n] = "Computing", !.output = @ \ {n}, !.deferred = @ \ {n}]

-----------------------------------------------------------------------------
(***************************************************************************)
(* Invalidation.  invalidate() walks the dependants depth first.  A node   *)
(* it reaches while Consistent becomes Invalidated and is walked in turn;  *)
(* a node it reaches while Computing only gets its flag set.  The walk     *)
(* visits each node once and the outcome does not depend on its order, so  *)
(* the nodes it invalidates are the least set that holds the roots and is  *)
(* closed under "Consistent dependant of".                                 *)
(***************************************************************************)
CascadeClosed(g, S) ==
    \A n \in S : \A m \in g.dependants[n] : g.state[m] = "Consistent" => m \in S

Reached(g, roots) ==
    {n \in Node : \A S \in SUBSET Node :
                      roots \subseteq S /\ CascadeClosed(g, S) => n \in S}

\* Faulty variant of Detached: the nodes of R stay in their dependencies' sets.
DetachedOneWay(g, R) ==
    [g EXCEPT !.dependencies = [n \in Node |-> IF n \in R THEN {} ELSE @[n]],
              !.dependants   = [n \in Node |-> IF n \in R THEN {} ELSE @[n]]]

\* The nodes of R drop their links and are dropped by what they depend on.
Detached(g, R) ==
    [g EXCEPT !.dependencies = [n \in Node |-> IF n \in R THEN {} ELSE @[n]],
              !.dependants   = [n \in Node |->
                  IF n \in R THEN {}
                  ELSE {m \in @[n] : ~(m \in R /\ n \in g.dependencies[m])}]]

\* The computations in progress that the walk meets, when it invalidates R.
Met(g, R) ==
    {m \in Node \ R : g.state[m] = "Computing" /\ \E n \in R : m \in g.dependants[n]}

\* Faulty variants of Invalidated: the walk skips the computations in progress, or
\* leaves the timers running.
InvalidatedUnflagged(g, R) ==
    [Detached(g, R) EXCEPT
        !.state  = [n \in Node |-> IF n \in R THEN "Invalidated" ELSE @[n]],
        !.armed  = @ \ R,
        !.hooked = @ \ R]

InvalidatedTicking(g, R) ==
    [Detached(g, R) EXCEPT
        !.state    = [n \in Node |-> IF n \in R THEN "Invalidated" ELSE @[n]],
        !.deferred = @ \union Met(g, R),
        !.hooked   = @ \ R]

\* What the walk leaves behind, when R are the nodes it invalidates.
Invalidated(g, R) ==
    [Detached(g, R) EXCEPT
        !.state    = [n \in Node |-> IF n \in R THEN "Invalidated" ELSE @[n]],
        !.deferred = @ \union Met(g, R),
        !.armed    = @ \ R,
        !.hooked   = @ \ R]

Cascade(g, roots) == Invalidated(g, Reached(g, roots))

\* Faulty variant of Invalidate: the deferral is a state instead of a flag.
InvalidateByState(g, c) ==
    CASE g.state[c] = "Invalidated" -> g
      [] g.state[c] = "Computing"   -> [g EXCEPT !.state[c] = "Deferred"]
      [] g.state[c] = "Consistent"  -> Cascade(g, {c})
      [] OTHER                      -> g

\* invalidate(): a no-op once Invalidated, deferred while Computing.
Invalidate(g, c) ==
    CASE g.state[c] = "Invalidated" -> g
      [] g.state[c] = "Computing"   -> [g EXCEPT !.deferred = @ \union {c}]
      [] g.state[c] = "Consistent"  -> Cascade(g, {c})

\* #forceInvalidate(): as above, without the deferral.
ForceInvalidate(g, c) ==
    IF g.state[c] = "Invalidated" THEN g ELSE Cascade(g, {c})

-----------------------------------------------------------------------------
(***************************************************************************)
(* The other methods.                                                      *)
(***************************************************************************)

\* Faulty variants of AddDependency: links are added at any time; a reader of an
\* Invalidated value is only asked to invalidate when it completes.
AddDependencyAnytime(g, c, d) ==
    LET linked == [g EXCEPT !.dependencies[c] = @ \union {d}]
    IN  IF g.state[d] = "Invalidated"
        THEN ForceInvalidate(linked, c)
        ELSE [linked EXCEPT !.dependants[d] = @ \union {c}]

AddDependencyDeferring(g, c, d) ==
    LET linked == [g EXCEPT !.dependencies[c] = @ \union {d}]
    IN  CASE g.state[c] # "Computing"   -> g
          [] g.state[c] = "Computing" /\ g.state[d] = "Invalidated" -> Invalidate(linked, c)
          [] g.state[c] = "Computing" /\ g.state[d] # "Invalidated" ->
                [linked EXCEPT !.dependants[d] = @ \union {c}]

\* c.addDependency(d), with the #addDependant it calls on d.
AddDependency(g, c, d) ==
    LET linked == [g EXCEPT !.dependencies[c] = @ \union {d}]
    IN  CASE g.state[c] # "Computing" -> g
          [] g.state[c] = "Computing" /\ g.state[d] = "Invalidated" ->
                ForceInvalidate(linked, c)
          [] g.state[c] = "Computing" /\ g.state[d] # "Invalidated" ->
                [linked EXCEPT !.dependants[d] = @ \union {c}]

\* Faulty variant of TrySetOutput: an invalidation that arrived meanwhile is lost.
TrySetOutputForgetting(g, c) ==
    IF g.state[c] # "Computing" THEN g
    ELSE [g EXCEPT !.state[c] = "Consistent",
                   !.output   = @ \union {c},
                   !.deferred = @ \ {c},
                   !.armed    = @ \union ({c} \intersect AutoInvalidate)]

\* c.trySetOutput(): Computing -> Consistent, and on to Invalidated at once
\* when an invalidation arrived meanwhile; the timer starts otherwise.
TrySetOutput(g, c) ==
    LET set == [g EXCEPT !.state[c]  = "Consistent",
                         !.output    = @ \union {c},
                         !.deferred  = @ \ {c}]
    IN  CASE g.state[c] # "Computing" -> g
          [] g.state[c] = "Computing" /\ c \in g.deferred ->
                Cascade(set, {c})
          [] g.state[c] = "Computing" /\ c \notin g.deferred ->
                [set EXCEPT !.armed = @ \union ({c} \intersect AutoInvalidate)]

\* c.setInvalidateCallback(): the registry asks to be told.
SetInvalidateCallback(g, c) == [g EXCEPT !.hooked = @ \union {c}]

-----------------------------------------------------------------------------
(***************************************************************************)
(* What every graph the methods build satisfies.                           *)
(***************************************************************************)

\* A served value never rests on a withdrawn one: what a Consistent node was
\* computed from is Consistent too.
Coherent(g) ==
    \A c \in Node : \A d \in g.dependencies[c] :
        g.state[c] = "Consistent" => g.state[d] = "Consistent"

\* The two directions of the links describe the same edges, except that an
\* Invalidated node has dropped both its dependencies and its dependants.
Linked(g) ==
    /\ \A c, d \in Node :
          c \in g.dependants[d] <=> d \in g.dependencies[c] /\ g.state[d] # "Invalidated"
    /\ \A c \in Node : g.state[c] = "Invalidated" => g.dependencies[c] = {}

\* The timers that run are those of the timed values being served.
Timed(g) == g.armed = {c \in AutoInvalidate : g.state[c] = "Consistent"}

\* Nothing depends on a value that is still being computed.
Settled(g) ==
    \A c \in Node : \A d \in g.dependencies[c] : g.state[d] # "Computing"

\* A computation that already read a value withdrawn since is going to be
\* withdrawn itself when it completes.
Doomed(g) ==
    \A c \in Node : \A d \in g.dependencies[c] :
        g.state[c] = "Computing" /\ g.state[d] = "Invalidated" => c \in g.deferred

\* The dependencies form a directed acyclic graph: every non-empty set of nodes
\* has one that depends on no node of the set.
Acyclic(g) ==
    \A S \in (SUBSET Node) \ {{}} : \E c \in S : g.dependencies[c] \intersect S = {}
=============================================================================
