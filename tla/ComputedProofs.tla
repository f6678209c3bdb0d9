--------------------------- MODULE ComputedProofs ---------------------------
(***************************************************************************)
(* Lemmas about the operators of module Computed: each method of           *)
(* computed.ts takes a graph that satisfies GraphInv to another one, for   *)
(* any number of Computed objects.  The modules that own a graph variable  *)
(* cite one lemma per call they make.                                      *)
(***************************************************************************)
EXTENDS Computed, TLAPS

\* The inductive invariant.  Coherent alone is not inductive: a cascade finds the
\* readers of a value through its dependants (Linked), a computation may hold a
\* value withdrawn while it ran (Doomed), and completing one reaches nobody else
\* because nothing depends on it yet (Settled), which is also why no read closes
\* a cycle.
GraphInv(g) ==
    /\ g \in Graph
    /\ Coherent(g)
    /\ Linked(g)
    /\ Timed(g)
    /\ Doomed(g)
    /\ Settled(g)
    /\ Acyclic(g)

-----------------------------------------------------------------------------
\* The walk of invalidate() reaches its roots and every served dependant of a
\* node it reached.
LEMMA ReachedClosed ==
    ASSUME NEW g \in Graph, NEW roots \in SUBSET Node
    PROVE  /\ roots \subseteq Reached(g, roots)
           /\ Reached(g, roots) \in SUBSET Node
           /\ CascadeClosed(g, Reached(g, roots))
<1>1. roots \subseteq Reached(g, roots) /\ Reached(g, roots) \in SUBSET Node
  BY DEF Reached
<1>2. ASSUME NEW n \in Reached(g, roots), NEW m \in g.dependants[n],
             g.state[m] = "Consistent"
      PROVE  m \in Reached(g, roots)
  <2>1. n \in Node /\ m \in Node
    BY <1>1, <1>2 DEF Graph
  <2>2. ASSUME NEW S \in SUBSET Node, roots \subseteq S, CascadeClosed(g, S)
        PROVE  m \in S
    BY <1>2, <2>1, <2>2 DEF Reached, CascadeClosed
  <2> QED BY <2>1, <2>2 DEF Reached
<1> QED BY <1>1, <1>2 DEF CascadeClosed

\* It reaches nothing else: any closed set that holds the roots holds them all.
LEMMA ReachedLeast ==
    ASSUME NEW g \in Graph, NEW roots, NEW S \in SUBSET Node,
           roots \subseteq S, CascadeClosed(g, S)
    PROVE  Reached(g, roots) \subseteq S
BY DEF Reached

\* What a walk leaves in each field.
LEMMA InvalidatedFields ==
    ASSUME NEW g \in Graph, NEW R \in SUBSET Node
    PROVE  LET h == Invalidated(g, R)
           IN  /\ h \in Graph
               /\ \A n \in Node :
                    /\ h.state[n] = IF n \in R THEN "Invalidated" ELSE g.state[n]
                    /\ h.dependencies[n] = IF n \in R THEN {} ELSE g.dependencies[n]
                    /\ h.dependants[n] =
                         IF n \in R THEN {}
                         ELSE {m \in g.dependants[n] : ~(m \in R /\ n \in g.dependencies[m])}
               /\ h.deferred = g.deferred \union Met(g, R)
               /\ h.armed = g.armed \ R
<1> DEFINE h == Invalidated(g, R)
           cut == Detached(g, R)
<1>0. /\ cut.state = g.state /\ cut.output = g.output
      /\ cut.deferred = g.deferred /\ cut.armed = g.armed /\ cut.hooked = g.hooked
      /\ cut.dependencies = [n \in Node |-> IF n \in R THEN {} ELSE g.dependencies[n]]
      /\ cut.dependants = [n \in Node |-> IF n \in R THEN {}
             ELSE {m \in g.dependants[n] : ~(m \in R /\ n \in g.dependencies[m])}]
      /\ cut = [state |-> cut.state, output |-> cut.output, deferred |-> cut.deferred,
                dependencies |-> cut.dependencies, dependants |-> cut.dependants,
                armed |-> cut.armed, hooked |-> cut.hooked]
  <2> DEFINE ies == [n \in Node |-> IF n \in R THEN {} ELSE g.dependencies[n]]
             ants == [n \in Node |-> IF n \in R THEN {}
                        ELSE {m \in g.dependants[n] : ~(m \in R /\ n \in g.dependencies[m])}]
  <2>1. cut = [g EXCEPT !.dependencies = ies, !.dependants = ants]
    BY DEF Detached
  <2> HIDE DEF cut, ies, ants
  <2>2. cut = [state |-> g.state, output |-> g.output, deferred |-> g.deferred,
               dependencies |-> ies, dependants |-> ants,
               armed |-> g.armed, hooked |-> g.hooked]
    BY <2>1 DEF Graph
  <2> QED BY <2>2 DEF ies, ants
<1>1. /\ h.state = [n \in Node |-> IF n \in R THEN "Invalidated" ELSE g.state[n]]
      /\ h.dependencies = cut.dependencies
      /\ h.dependants = cut.dependants
      /\ h.deferred = g.deferred \union Met(g, R)
      /\ h.armed = g.armed \ R
      /\ h.output = g.output
      /\ h.hooked = g.hooked \ R
      /\ h = [state |-> h.state, output |-> h.output, deferred |-> h.deferred,
              dependencies |-> h.dependencies, dependants |-> h.dependants,
              armed |-> h.armed, hooked |-> h.hooked]
  <2> HIDE DEF cut, h
  <2>1. h = [cut EXCEPT !.state = [n \in Node |-> IF n \in R THEN "Invalidated" ELSE @[n]],
                        !.deferred = @ \union Met(g, R),
                        !.armed    = @ \ R,
                        !.hooked   = @ \ R]
    BY DEF Invalidated, cut, h
  <2>2. h.state = [n \in Node |-> IF n \in R THEN "Invalidated" ELSE cut.state[n]]
    BY <1>0, <2>1
  <2>3. /\ h.deferred = cut.deferred \union Met(g, R)
        /\ h.armed = cut.armed \ R
        /\ h.hooked = cut.hooked \ R
    BY <1>0, <2>1
  <2>4. /\ h.dependencies = cut.dependencies
        /\ h.dependants = cut.dependants
        /\ h.output = cut.output
    BY <1>0, <2>1
  <2>5. h = [state |-> h.state, output |-> h.output, deferred |-> h.deferred,
             dependencies |-> h.dependencies, dependants |-> h.dependants,
             armed |-> h.armed, hooked |-> h.hooked]
    BY <1>0, <2>1
  <2> QED BY <1>0, <2>2, <2>3, <2>4, <2>5
<1>2. /\ h.state \in [Node -> ConsistencyState]
      /\ h.dependencies \in [Node -> SUBSET Node]
  BY <1>0, <1>1 DEF Graph, ConsistencyState
<1>3. h.dependants \in [Node -> SUBSET Node]
  BY <1>0, <1>1 DEF Graph
<1>4. /\ h.deferred \in SUBSET Node
      /\ h.output \in SUBSET Node
      /\ h.armed \in SUBSET Node
      /\ h.hooked \in SUBSET Node
  BY <1>1 DEF Graph, Met
<1>5. h \in Graph
  BY <1>1, <1>2, <1>3, <1>4 DEF Graph
<1> HIDE DEF cut, h
<1>6. ASSUME NEW n \in Node
      PROVE  /\ h.state[n] = IF n \in R THEN "Invalidated" ELSE g.state[n]
             /\ h.dependencies[n] = IF n \in R THEN {} ELSE g.dependencies[n]
             /\ h.dependants[n] = IF n \in R THEN {}
                  ELSE {m \in g.dependants[n] : ~(m \in R /\ n \in g.dependencies[m])}
  BY <1>0, <1>1
<1> QED BY <1>1, <1>5, <1>6 DEF h

-----------------------------------------------------------------------------
\* A graph that satisfies the invariant but for the nodes of R, which a walk is
\* about to invalidate together with every served dependant they have.
Walkable(g, R) ==
    /\ g \in Graph
    /\ CascadeClosed(g, R)
    /\ Linked(g)
    /\ \A c \in Node \ R : \A d \in g.dependencies[c] :
          /\ g.state[d] # "Computing"
          /\ g.state[c] = "Consistent" => g.state[d] = "Consistent"
          /\ g.state[c] = "Computing" /\ g.state[d] = "Invalidated" => c \in g.deferred
    /\ g.armed \ R = {c \in AutoInvalidate \ R : g.state[c] = "Consistent"}
    /\ \A S \in (SUBSET Node) \ {{}} : \E c \in S : c \in R \/ g.dependencies[c] \intersect S = {}

\* Invalidating such nodes restores the invariant.
LEMMA WalkRestores ==
    ASSUME NEW g, NEW R \in SUBSET Node, Walkable(g, R)
    PROVE  GraphInv(Invalidated(g, R))
<1> DEFINE h == Invalidated(g, R)
<1>1. g \in Graph
  BY DEF Walkable
<1>2. /\ h \in Graph
      /\ \A n \in Node :
           /\ h.state[n] = IF n \in R THEN "Invalidated" ELSE g.state[n]
           /\ h.dependencies[n] = IF n \in R THEN {} ELSE g.dependencies[n]
           /\ h.dependants[n] = IF n \in R THEN {}
                ELSE {m \in g.dependants[n] : ~(m \in R /\ n \in g.dependencies[m])}
      /\ h.deferred = g.deferred \union Met(g, R)
      /\ h.armed = g.armed \ R
  BY <1>1, InvalidatedFields
<1> HIDE DEF h
<1>3. \A n \in Node : g.dependencies[n] \in SUBSET Node /\ h.dependencies[n] \in SUBSET Node
  BY <1>1, <1>2 DEF Graph
<1>4. Linked(h)
  <2>1. ASSUME NEW c \in Node, NEW d \in Node
        PROVE  c \in h.dependants[d] <=> d \in h.dependencies[c] /\ h.state[d] # "Invalidated"
    <3>1. c \in g.dependants[d] <=> d \in g.dependencies[c] /\ g.state[d] # "Invalidated"
      BY DEF Walkable, Linked
    <3> QED BY <1>2, <3>1
  <2>2. ASSUME NEW c \in Node, h.state[c] = "Invalidated"
        PROVE  h.dependencies[c] = {}
    BY <1>2, <2>2 DEF Walkable, Linked
  <2> QED BY <2>1, <2>2 DEF Linked
<1>5. ASSUME NEW c \in Node, NEW d \in h.dependencies[c]
      PROVE  /\ h.state[d] # "Computing"
             /\ h.state[c] = "Consistent" => h.state[d] = "Consistent"
             /\ h.state[c] = "Computing" /\ h.state[d] = "Invalidated" => c \in h.deferred
  <2>1. c \notin R /\ d \in Node /\ d \in g.dependencies[c] /\ h.state[c] = g.state[c]
    BY <1>2, <1>3
  <2>2. /\ g.state[d] # "Computing"
        /\ g.state[c] = "Consistent" => g.state[d] = "Consistent"
        /\ g.state[c] = "Computing" /\ g.state[d] = "Invalidated" => c \in g.deferred
    BY <2>1 DEF Walkable
  <2>3. c \in g.dependants[d] <=> g.state[d] # "Invalidated"
    BY <2>1 DEF Walkable, Linked
  <2>4. CASE d \notin R
    BY <1>2, <2>1, <2>2, <2>4
  <2>5. CASE d \in R
    <3>1. g.state[c] # "Consistent"
      BY <2>1, <2>2, <2>3, <2>5 DEF Walkable, CascadeClosed
    <3>2. g.state[c] = "Computing" => c \in h.deferred
      BY <1>2, <2>1, <2>2, <2>3, <2>5 DEF Met
    <3> QED BY <1>2, <2>1, <2>5, <3>1, <3>2
  <2> QED BY <2>4, <2>5
<1>6. Timed(h)
  <2>1. g.armed \ R = {c \in AutoInvalidate \ R : g.state[c] = "Consistent"}
    BY DEF Walkable
  <2> QED BY <1>2, <2>1, AutoInvalidateAssumption DEF Timed
<1>7. Acyclic(h)
  <2>1. ASSUME NEW S \in SUBSET Node, S # {}
        PROVE  \E c \in S : h.dependencies[c] \intersect S = {}
    <3>1. PICK c \in S : c \in R \/ g.dependencies[c] \intersect S = {}
      BY <2>1 DEF Walkable
    <3>2. h.dependencies[c] \intersect S = {}
      BY <1>2, <3>1
    <3> QED BY <3>2
  <2> QED BY <2>1 DEF Acyclic
<1>8. Coherent(h) /\ Doomed(h) /\ Settled(h)
  BY <1>5 DEF Coherent, Doomed, Settled
<1> QED BY <1>2, <1>4, <1>6, <1>7, <1>8 DEF GraphInv, h

-----------------------------------------------------------------------------
\* NewGraph satisfies the invariant.
LEMMA NewGraphInv == GraphInv(NewGraph)
<1>1. NewGraph \in Graph
  BY DEF NewGraph, Graph, ConsistencyState
<1>2. Timed(NewGraph) /\ Linked(NewGraph)
  BY AutoInvalidateAssumption DEF NewGraph, Timed, Linked
<1>3. Coherent(NewGraph) /\ Doomed(NewGraph) /\ Settled(NewGraph)
  BY DEF NewGraph, Coherent, Doomed, Settled
<1>4. Acyclic(NewGraph)
  BY DEF NewGraph, Acyclic
<1> QED BY <1>1, <1>2, <1>3, <1>4 DEF GraphInv

\* A walk from nodes that are served, in a graph that satisfies the invariant.
LEMMA CascadeRootsInv ==
    ASSUME NEW g, GraphInv(g), NEW roots \in SUBSET Node,
           \A c \in roots : g.state[c] = "Consistent"
    PROVE  GraphInv(Cascade(g, roots))
<1> DEFINE R == Reached(g, roots)
<1>1. g \in Graph
  BY DEF GraphInv
<1>2. roots \subseteq R /\ R \in SUBSET Node /\ CascadeClosed(g, R)
  BY <1>1, ReachedClosed
<1> HIDE DEF R
<1>3. Walkable(g, R)
  BY <1>1, <1>2, AutoInvalidateAssumption
     DEF Walkable, GraphInv, Coherent, Doomed, Settled, Timed, Acyclic
<1>4. GraphInv(Invalidated(g, R))
  BY <1>2, <1>3, WalkRestores
<1> QED BY <1>4 DEF Cascade, R

\* The same from a single node.
LEMMA CascadeInv ==
    ASSUME NEW g, GraphInv(g), NEW c \in Node, g.state[c] = "Consistent"
    PROVE  GraphInv(Cascade(g, {c}))
BY CascadeRootsInv

\* Nothing depends on a computation in progress, so a walk from it reaches it alone.
LEMMA ReachedAlone ==
    ASSUME NEW g \in Graph, NEW c \in Node, g.dependants[c] = {}
    PROVE  Reached(g, {c}) = {c}
<1>1. CascadeClosed(g, {c})
  BY DEF CascadeClosed
<1>2. Reached(g, {c}) \subseteq {c}
  BY <1>1, ReachedLeast
<1>3. {c} \subseteq Reached(g, {c})
  BY ReachedClosed
<1> QED BY <1>2, <1>3

\* When links only point at settled values, a node that is being computed has no
\* dependants that could be walked (Computed, Settled).
LEMMA NobodyDependsOnComputing ==
    ASSUME NEW g, GraphInv(g), NEW c \in Node, g.state[c] = "Computing"
    PROVE  /\ g.dependants[c] = {}
           /\ \A m \in Node : c \notin g.dependencies[m]
<1>1. \A m \in Node : c \notin g.dependencies[m]
  BY DEF GraphInv, Settled
<1>2. g.dependants[c] \in SUBSET Node
  BY DEF GraphInv, Graph
<1> QED BY <1>1, <1>2 DEF GraphInv, Linked

-----------------------------------------------------------------------------
\* invalidate() preserves the invariant.
LEMMA InvalidateInv ==
    ASSUME NEW g, GraphInv(g), NEW c \in Node
    PROVE  GraphInv(Invalidate(g, c))
<1>1. g \in Graph /\ g.state[c] \in ConsistencyState
  BY DEF GraphInv, Graph
<1>2. CASE g.state[c] = "Invalidated"
  BY <1>2 DEF Invalidate
<1>3. CASE g.state[c] = "Consistent"
  BY <1>3, CascadeInv DEF Invalidate
<1>4. CASE g.state[c] = "Computing"
  <2> DEFINE h == [g EXCEPT !.deferred = @ \union {c}]
  <2>1. h \in Graph
    BY <1>1 DEF Graph
  <2>2. /\ h.state = g.state /\ h.dependencies = g.dependencies
        /\ h.dependants = g.dependants /\ h.armed = g.armed
        /\ h.deferred = g.deferred \union {c}
    BY <1>1 DEF Graph
  <2> HIDE DEF h
  <2>3. GraphInv(h)
    BY <2>1, <2>2 DEF GraphInv, Coherent, Linked, Timed, Doomed, Settled, Acyclic
  <2> QED BY <1>4, <2>3 DEF Invalidate, h
<1> QED BY <1>1, <1>2, <1>3, <1>4 DEF ConsistencyState

\* addDependency() preserves the invariant when its argument is another node, and
\* one whose computation is over.
LEMMA AddDependencyInv ==
    ASSUME NEW g, GraphInv(g), NEW c \in Node, NEW d \in Node,
           c # d, g.state[d] # "Computing"
    PROVE  GraphInv(AddDependency(g, c, d))
<1> DEFINE linked == [g EXCEPT !.dependencies[c] = @ \union {d}]
           indexed == [linked EXCEPT !.dependants[d] = @ \union {c}]
<1>1. g \in Graph
  BY DEF GraphInv
<1>2. CASE g.state[c] # "Computing"
  BY <1>2 DEF AddDependency
<1>3. ASSUME g.state[c] = "Computing"
      PROVE  /\ linked \in Graph
             /\ linked.state = g.state /\ linked.dependants = g.dependants
             /\ linked.deferred = g.deferred /\ linked.armed = g.armed
             /\ \A m \in Node : linked.dependencies[m] =
                  IF m = c THEN g.dependencies[c] \union {d} ELSE g.dependencies[m]
             /\ g.dependants[c] = {}
             /\ \A m \in Node : c \notin linked.dependencies[m]
  <2>1. /\ g.dependants[c] = {}
        /\ \A m \in Node : c \notin g.dependencies[m]
    BY <1>3, NobodyDependsOnComputing
  <2> QED BY <1>1, <2>1 DEF Graph
<1>4. CASE g.state[c] = "Computing" /\ g.state[d] = "Invalidated"
  <2> HIDE DEF linked
  <2>1. Walkable(linked, {c})
    <3>1. Linked(linked)
      BY <1>3, <1>4 DEF GraphInv, Linked
    <3>2. CascadeClosed(linked, {c})
      BY <1>3, <1>4 DEF CascadeClosed
    <3>3. \A S \in (SUBSET Node) \ {{}} :
             \E m \in S : m \in {c} \/ linked.dependencies[m] \intersect S = {}
      BY <1>3, <1>4 DEF GraphInv, Acyclic
    <3>4. \A m \in Node \ {c} : \A n \in linked.dependencies[m] :
            /\ linked.state[n] # "Computing"
            /\ linked.state[m] = "Consistent" => linked.state[n] = "Consistent"
            /\ linked.state[m] = "Computing" /\ linked.state[n] = "Invalidated"
                 => m \in linked.deferred
      BY <1>3, <1>4 DEF GraphInv, Coherent, Doomed, Settled
    <3>5. linked.armed \ {c} = {m \in AutoInvalidate \ {c} : linked.state[m] = "Consistent"}
      BY <1>3, <1>4 DEF GraphInv, Timed
    <3> QED BY <1>3, <1>4, <3>1, <3>2, <3>3, <3>4, <3>5 DEF Walkable
  <2>2. Reached(linked, {c}) = {c}
    BY <1>3, <1>4, ReachedAlone
  <2>3. GraphInv(Cascade(linked, {c}))
    BY <2>1, <2>2, WalkRestores DEF Cascade
  <2> QED BY <1>3, <1>4, <2>3 DEF AddDependency, ForceInvalidate, linked
<1>5. CASE g.state[c] = "Computing" /\ g.state[d] # "Invalidated"
  <2>1. g.state[d] = "Consistent"
    BY <1>1, <1>5 DEF Graph, ConsistencyState
  <2> HIDE DEF linked
  <2>2. /\ indexed \in Graph
        /\ indexed.state = g.state /\ indexed.dependencies = linked.dependencies
        /\ indexed.deferred = g.deferred /\ indexed.armed = g.armed
        /\ \A m \in Node : indexed.dependants[m] =
             IF m = d THEN g.dependants[d] \union {c} ELSE g.dependants[m]
    BY <1>3, <1>5 DEF Graph
  <2> HIDE DEF indexed
  <2>3. Linked(indexed)
    <3>1. ASSUME NEW m \in Node, NEW n \in Node
          PROVE  m \in indexed.dependants[n]
                   <=> m \in Node /\ n \in indexed.dependencies[m] /\ indexed.state[n] # "Invalidated"
      BY <1>3, <1>5, <2>1, <2>2 DEF GraphInv, Linked
    <3>2. \A m \in Node : indexed.state[m] = "Invalidated" => indexed.dependencies[m] = {}
      BY <1>3, <1>5, <2>2 DEF GraphInv, Linked
    <3> QED BY <3>1, <3>2 DEF Linked
  <2>4. Coherent(indexed) /\ Doomed(indexed) /\ Settled(indexed) /\ Timed(indexed)
    BY <1>3, <1>5, <2>1, <2>2 DEF GraphInv, Coherent, Doomed, Settled, Timed
  <2>5. Acyclic(indexed)
    <3>1. ASSUME NEW S \in (SUBSET Node) \ {{}}
          PROVE  \E m \in S : indexed.dependencies[m] \intersect S = {}
      <4>1. CASE S = {c}
        BY <1>3, <1>5, <2>2, <4>1
      <4>2. CASE S # {c}
        <5>1. S \ {c} \in (SUBSET Node) \ {{}}
          BY <3>1, <4>2
        <5>2. PICK m \in S \ {c} : g.dependencies[m] \intersect (S \ {c}) = {}
          BY <5>1 DEF GraphInv, Acyclic
        <5>3. m \in Node /\ indexed.dependencies[m] = g.dependencies[m]
          BY <1>3, <1>5, <2>2, <5>2
        <5>4. c \notin indexed.dependencies[m]
          BY <1>3, <1>5, <2>2, <5>3
        <5> QED BY <5>2, <5>3, <5>4
      <4> QED BY <4>1, <4>2
    <3> QED BY <3>1 DEF Acyclic
  <2>6. GraphInv(indexed)
    BY <2>2, <2>3, <2>4, <2>5 DEF GraphInv
  <2> QED BY <1>5, <2>6 DEF AddDependency, indexed, linked
<1> QED BY <1>2, <1>4, <1>5

\* trySetOutput() preserves the invariant: a computation that completes either
\* holds served values only, or takes the deferred invalidation with it.
LEMMA TrySetOutputInv ==
    ASSUME NEW g, GraphInv(g), NEW c \in Node
    PROVE  GraphInv(TrySetOutput(g, c))
<1> DEFINE set == [g EXCEPT !.state[c]  = "Consistent",
                            !.output    = @ \union {c},
                            !.deferred  = @ \ {c}]
           timed == [set EXCEPT !.armed = @ \union ({c} \intersect AutoInvalidate)]
<1>1. g \in Graph
  BY DEF GraphInv
<1>2. CASE g.state[c] # "Computing"
  BY <1>2 DEF TrySetOutput
<1>3. ASSUME g.state[c] = "Computing"
      PROVE  /\ set \in Graph
             /\ set.dependencies = g.dependencies /\ set.dependants = g.dependants
             /\ set.deferred = g.deferred \ {c} /\ set.armed = g.armed
             /\ \A m \in Node : set.state[m] = IF m = c THEN "Consistent" ELSE g.state[m]
             /\ g.dependants[c] = {}
             /\ \A m \in Node : c \notin g.dependencies[m]
  <2>1. /\ g.dependants[c] = {}
        /\ \A m \in Node : c \notin g.dependencies[m]
    BY <1>3, NobodyDependsOnComputing
  <2>2. /\ set.dependencies = g.dependencies /\ set.dependants = g.dependants
        /\ set.deferred = g.deferred \ {c} /\ set.armed = g.armed
        /\ set.state = [g.state EXCEPT ![c] = "Consistent"]
    BY <1>1 DEF Graph
  <2>3. \A m \in Node : set.state[m] = IF m = c THEN "Consistent" ELSE g.state[m]
    <3> HIDE DEF set
    <3> QED BY <1>1, <2>2 DEF Graph
  <2>4. set \in Graph
    BY <1>1 DEF Graph, ConsistencyState
  <2> HIDE DEF set
  <2> QED BY <2>1, <2>2, <2>3, <2>4
<1>4. ASSUME g.state[c] = "Computing"
      PROVE  Linked(set)
  <2> HIDE DEF set
  <2> QED BY <1>3, <1>4 DEF GraphInv, Linked
<1>5. CASE g.state[c] = "Computing" /\ c \in g.deferred
  <2> HIDE DEF set
  <2>1. Walkable(set, {c})
    <3>1. CascadeClosed(set, {c})
      BY <1>3, <1>5 DEF CascadeClosed
    <3>2. \A m \in Node \ {c} : \A n \in set.dependencies[m] :
            /\ set.state[n] # "Computing"
            /\ set.state[m] = "Consistent" => set.state[n] = "Consistent"
            /\ set.state[m] = "Computing" /\ set.state[n] = "Invalidated" => m \in set.deferred
      <4>1. ASSUME NEW m \in Node \ {c}, NEW n \in set.dependencies[m]
            PROVE  /\ n \in Node /\ n # c
                   /\ set.state[m] = g.state[m] /\ set.state[n] = g.state[n]
        BY <1>1, <1>3, <1>5, <4>1 DEF Graph
      <4> QED BY <1>3, <1>5, <4>1 DEF GraphInv, Coherent, Doomed, Settled
    <3>3. set.armed \ {c} = {m \in AutoInvalidate \ {c} : set.state[m] = "Consistent"}
      BY <1>3, <1>5, AutoInvalidateAssumption DEF GraphInv, Timed
    <3>4. \A S \in (SUBSET Node) \ {{}} :
             \E m \in S : m \in {c} \/ set.dependencies[m] \intersect S = {}
      BY <1>3, <1>5 DEF GraphInv, Acyclic
    <3> QED BY <1>3, <1>4, <1>5, <3>1, <3>2, <3>3, <3>4 DEF Walkable
  <2>2. Reached(set, {c}) = {c}
    BY <1>3, <1>5, ReachedAlone
  <2>3. GraphInv(Cascade(set, {c}))
    BY <2>1, <2>2, WalkRestores DEF Cascade
  <2> QED BY <1>5, <2>3 DEF TrySetOutput, set
<1>6. CASE g.state[c] = "Computing" /\ c \notin g.deferred
  <2> HIDE DEF set
  <2>1. /\ timed \in Graph
        /\ timed.state = set.state /\ timed.dependencies = g.dependencies
        /\ timed.dependants = g.dependants /\ timed.deferred = g.deferred
        /\ timed.armed = g.armed \union ({c} \intersect AutoInvalidate)
    BY <1>3, <1>6 DEF Graph
  <2> HIDE DEF timed
  <2>2. ASSUME NEW m \in Node, NEW n \in g.dependencies[m]
        PROVE  /\ n \in Node /\ n # c
               /\ timed.state[n] = g.state[n]
               /\ timed.state[n] # "Computing"
               /\ timed.state[m] = "Consistent" => timed.state[n] = "Consistent"
               /\ timed.state[m] = "Computing" /\ timed.state[n] = "Invalidated"
                    => m \in timed.deferred
    <3>1. n \in Node /\ n # c /\ timed.state[n] = g.state[n] /\ g.state[n] \in ConsistencyState
      BY <1>1, <1>3, <1>6, <2>1, <2>2 DEF Graph
    <3>2. g.state[n] # "Computing"
      BY <2>2 DEF GraphInv, Settled
    <3>3. CASE m = c
      BY <1>6, <2>1, <2>2, <3>1, <3>2, <3>3, <1>3 DEF GraphInv, Doomed, ConsistencyState
    <3>4. CASE m # c
      BY <1>3, <1>6, <2>1, <2>2, <3>1, <3>2, <3>4 DEF GraphInv, Coherent, Doomed
    <3> QED BY <3>1, <3>2, <3>3, <3>4
  <2>3. Coherent(timed) /\ Doomed(timed) /\ Settled(timed)
    BY <2>1, <2>2 DEF Coherent, Doomed, Settled
  <2>4. Linked(timed)
    BY <1>3, <1>4, <1>6, <2>1 DEF Linked
  <2>5. Timed(timed)
    BY <1>3, <1>6, <2>1, AutoInvalidateAssumption DEF GraphInv, Timed
  <2>6. Acyclic(timed)
    BY <2>1 DEF GraphInv, Acyclic
  <2>7. GraphInv(timed)
    BY <2>1, <2>3, <2>4, <2>5, <2>6 DEF GraphInv
  <2> QED BY <1>6, <2>7 DEF TrySetOutput, set, timed
<1> QED BY <1>2, <1>5, <1>6

\* setInvalidateCallback() preserves the invariant.
LEMMA SetInvalidateCallbackInv ==
    ASSUME NEW g, GraphInv(g), NEW c \in Node
    PROVE  GraphInv(SetInvalidateCallback(g, c))
<1> DEFINE h == SetInvalidateCallback(g, c)
<1>1. /\ h \in Graph
      /\ h.state = g.state /\ h.dependencies = g.dependencies
      /\ h.dependants = g.dependants /\ h.armed = g.armed /\ h.deferred = g.deferred
  BY DEF GraphInv, Graph, SetInvalidateCallback
<1> HIDE DEF h
<1>2. GraphInv(h)
  BY <1>1 DEF GraphInv, Coherent, Linked, Timed, Doomed, Settled, Acyclic
<1> QED BY <1>2 DEF h

-----------------------------------------------------------------------------
(***************************************************************************)
(* What the methods do to the states and to the dependencies.              *)
(***************************************************************************)

\* Served nodes may have been withdrawn; nothing else has happened to the states and
\* to the dependencies of the nodes that are left.
Later(g, h) ==
    \A n \in Node :
        /\ \/ h.state[n] = g.state[n]
           \/ g.state[n] = "Consistent" /\ h.state[n] = "Invalidated"
        /\ h.state[n] # "Invalidated" => h.dependencies[n] = g.dependencies[n]

\* Invalidating a node that nobody depends on leaves every other one alone.
LEMMA CascadeAlone ==
    ASSUME NEW g \in Graph, NEW c \in Node, g.dependants[c] = {}
    PROVE  /\ Cascade(g, {c}).state = [n \in Node |-> IF n = c THEN "Invalidated" ELSE g.state[n]]
           /\ Cascade(g, {c}).dependencies = [n \in Node |-> IF n = c THEN {} ELSE g.dependencies[n]]
           /\ Cascade(g, {c}).deferred = g.deferred
<1> DEFINE R == {c}
           h == Invalidated(g, R)
<1>1. Cascade(g, {c}) = h
  BY ReachedAlone DEF Cascade
<1>2. /\ h \in Graph
      /\ \A n \in Node :
           /\ h.state[n] = IF n \in R THEN "Invalidated" ELSE g.state[n]
           /\ h.dependencies[n] = IF n \in R THEN {} ELSE g.dependencies[n]
           /\ h.dependants[n] = IF n \in R THEN {}
                ELSE {m \in g.dependants[n] : ~(m \in R /\ n \in g.dependencies[m])}
      /\ h.deferred = g.deferred \union Met(g, R)
      /\ h.armed = g.armed \ R
  <2>1. R \in SUBSET Node
    OBVIOUS
  <2> HIDE DEF R
  <2> QED BY <2>1, InvalidatedFields
<1> HIDE DEF h
<1>3. Met(g, R) = {}
  BY DEF Met
<1> QED BY <1>1, <1>2, <1>3 DEF Graph

\* A walk from served nodes withdraws them and, apart from them, served nodes only.
LEMMA CascadeLater ==
    ASSUME NEW g \in Graph, NEW roots \in SUBSET Node,
           \A c \in roots : g.state[c] = "Consistent"
    PROVE  /\ Later(g, Cascade(g, roots))
           /\ \A c \in roots : Cascade(g, roots).state[c] = "Invalidated"
<1> DEFINE R == Reached(g, roots)
           h == Invalidated(g, R)
           S == {n \in Node : g.state[n] = "Consistent"}
<1>1. roots \subseteq R /\ R \in SUBSET Node
  BY ReachedClosed
<1>2. R \subseteq S
  <2>1. CascadeClosed(g, S)
    BY DEF CascadeClosed, Graph
  <2> QED BY <2>1, ReachedLeast
<1> HIDE DEF R
<1>3. /\ h \in Graph
      /\ \A n \in Node :
           /\ h.state[n] = IF n \in R THEN "Invalidated" ELSE g.state[n]
           /\ h.dependencies[n] = IF n \in R THEN {} ELSE g.dependencies[n]
           /\ h.dependants[n] = IF n \in R THEN {}
                ELSE {m \in g.dependants[n] : ~(m \in R /\ n \in g.dependencies[m])}
      /\ h.deferred = g.deferred \union Met(g, R)
      /\ h.armed = g.armed \ R
  BY <1>1, InvalidatedFields
<1> HIDE DEF h
<1>4. Later(g, h)
  BY <1>2, <1>3 DEF Later
<1>5. \A c \in roots : h.state[c] = "Invalidated"
  BY <1>1, <1>3
<1> QED BY <1>4, <1>5 DEF Cascade, R, h

\* invalidate() withdraws its node, unless it is being computed.
LEMMA InvalidateLater ==
    ASSUME NEW g \in Graph, NEW c \in Node
    PROVE  /\ Later(g, Invalidate(g, c))
           /\ g.state[c] # "Computing" => Invalidate(g, c).state[c] = "Invalidated"
<1>1. g.state[c] \in ConsistencyState
  BY DEF Graph
<1>2. CASE g.state[c] = "Invalidated"
  BY <1>2 DEF Invalidate, Later
<1>3. CASE g.state[c] = "Computing"
  <2> DEFINE h == [g EXCEPT !.deferred = @ \union {c}]
  <2>1. h.state = g.state /\ h.dependencies = g.dependencies
    BY DEF Graph
  <2> HIDE DEF h
  <2>2. Later(g, h)
    BY <2>1 DEF Later
  <2> QED BY <1>3, <2>2 DEF Invalidate, h
<1>4. CASE g.state[c] = "Consistent"
  BY <1>4, CascadeLater DEF Invalidate
<1> QED BY <1>1, <1>2, <1>3, <1>4 DEF ConsistencyState

\* trySetOutput() settles its node and leaves the other ones alone: it is withdrawn
\* at once when an invalidation was deferred.
LEMMA TrySetOutputLater ==
    ASSUME NEW g, GraphInv(g), NEW c \in Node
    PROVE  LET h == TrySetOutput(g, c)
           IN  /\ \A n \in Node \ {c} : /\ h.state[n] = g.state[n]
                                        /\ h.dependencies[n] = g.dependencies[n]
               /\ g.state[c] # "Computing" => h = g
               /\ g.state[c] = "Computing" =>
                     \/ h.state[c] = "Invalidated"
                     \/ /\ h.state[c] = "Consistent"
                        /\ h.dependencies[c] = g.dependencies[c]
<1> DEFINE set == [g EXCEPT !.state[c]  = "Consistent",
                            !.output    = @ \union {c},
                            !.deferred  = @ \ {c}]
           timed == [set EXCEPT !.armed = @ \union ({c} \intersect AutoInvalidate)]
           h == TrySetOutput(g, c)
<1>1. g \in Graph
  BY DEF GraphInv
<1>2. CASE g.state[c] # "Computing"
  BY <1>2 DEF TrySetOutput
<1>3. /\ set \in Graph
      /\ set.dependencies = g.dependencies /\ set.dependants = g.dependants
      /\ \A m \in Node : set.state[m] = IF m = c THEN "Consistent" ELSE g.state[m]
  BY <1>1 DEF Graph, ConsistencyState
<1>4. timed.state = set.state /\ timed.dependencies = set.dependencies
  <2> HIDE DEF set
  <2> QED BY <1>3 DEF Graph
<1>5. CASE g.state[c] = "Computing" /\ c \in g.deferred
  <2>1. h = Cascade(set, {c})
    BY <1>5 DEF TrySetOutput
  <2>2. set.dependants[c] = {}
    BY <1>3, <1>5, NobodyDependsOnComputing
  <2> HIDE DEF set, h
  <2>3. /\ h.state = [n \in Node |-> IF n = c THEN "Invalidated" ELSE set.state[n]]
        /\ h.dependencies = [n \in Node |-> IF n = c THEN {} ELSE set.dependencies[n]]
    BY <1>3, <2>1, <2>2, CascadeAlone
  <2>4. /\ h.state[c] = "Invalidated"
        /\ \A n \in Node \ {c} : h.state[n] = g.state[n] /\ h.dependencies[n] = g.dependencies[n]
    BY <1>3, <2>3
  <2> QED BY <1>5, <2>4 DEF h
<1>6. CASE g.state[c] = "Computing" /\ c \notin g.deferred
  <2>1. h = timed
    BY <1>6 DEF TrySetOutput
  <2> HIDE DEF set, timed, h
  <2>2. /\ h.state[c] = "Consistent" /\ h.dependencies = g.dependencies
        /\ \A n \in Node \ {c} : h.state[n] = g.state[n]
    BY <1>3, <1>4, <2>1
  <2> QED BY <1>6, <2>2 DEF h
<1> QED BY <1>2, <1>5, <1>6

\* addDependency() links a computation to what it reads, or withdraws it when that
\* is gone already; it leaves the other nodes alone.
LEMMA AddDependencyLater ==
    ASSUME NEW g, GraphInv(g), NEW c \in Node, NEW d \in Node
    PROVE  LET h == AddDependency(g, c, d)
           IN  /\ \A n \in Node \ {c} : /\ h.state[n] = g.state[n]
                                        /\ h.dependencies[n] = g.dependencies[n]
               /\ g.state[c] # "Computing" => h = g
               /\ g.state[c] = "Computing" =>
                     \/ h.state[c] = "Invalidated"
                     \/ /\ g.state[d] # "Invalidated"
                        /\ h.state[c] = "Computing"
                        /\ h.dependencies[c] = g.dependencies[c] \union {d}
<1> DEFINE linked == [g EXCEPT !.dependencies[c] = @ \union {d}]
           indexed == [linked EXCEPT !.dependants[d] = @ \union {c}]
           h == AddDependency(g, c, d)
<1>1. g \in Graph
  BY DEF GraphInv
<1>2. CASE g.state[c] # "Computing"
  BY <1>2 DEF AddDependency
<1>3. /\ linked \in Graph
      /\ linked.state = g.state /\ linked.dependants = g.dependants
      /\ \A m \in Node : linked.dependencies[m] =
            IF m = c THEN g.dependencies[c] \union {d} ELSE g.dependencies[m]
  BY <1>1 DEF Graph
<1>4. indexed.state = linked.state /\ indexed.dependencies = linked.dependencies
  <2> HIDE DEF linked
  <2> QED BY <1>3 DEF Graph
<1>5. CASE g.state[c] = "Computing" /\ g.state[d] = "Invalidated"
  <2>1. h = Cascade(linked, {c})
    <3>1. h = ForceInvalidate(linked, c)
      BY <1>5 DEF AddDependency
    <3> HIDE DEF linked, h
    <3> QED BY <1>3, <1>5, <3>1 DEF ForceInvalidate
  <2>2. linked.dependants[c] = {}
    BY <1>3, <1>5, NobodyDependsOnComputing
  <2> HIDE DEF linked, h
  <2>3. /\ h.state = [n \in Node |-> IF n = c THEN "Invalidated" ELSE linked.state[n]]
        /\ h.dependencies = [n \in Node |-> IF n = c THEN {} ELSE linked.dependencies[n]]
    BY <1>3, <2>1, <2>2, CascadeAlone
  <2>4. /\ h.state[c] = "Invalidated"
        /\ \A n \in Node \ {c} : h.state[n] = g.state[n] /\ h.dependencies[n] = g.dependencies[n]
    BY <1>3, <2>3
  <2> QED BY <1>5, <2>4 DEF h
<1>6. CASE g.state[c] = "Computing" /\ g.state[d] # "Invalidated"
  <2>1. h = indexed
    BY <1>6 DEF AddDependency
  <2> HIDE DEF linked, indexed, h
  <2>2. /\ h.state = g.state
        /\ h.dependencies[c] = g.dependencies[c] \union {d}
        /\ \A n \in Node \ {c} : h.dependencies[n] = g.dependencies[n]
    BY <1>3, <1>4, <2>1
  <2> QED BY <1>6, <2>2 DEF h
<1> QED BY <1>2, <1>5, <1>6

\* setInvalidateCallback() touches neither.
LEMMA SetInvalidateCallbackLater ==
    ASSUME NEW g \in Graph, NEW c \in Node
    PROVE  /\ SetInvalidateCallback(g, c).state = g.state
           /\ SetInvalidateCallback(g, c).dependencies = g.dependencies
BY DEF Graph, SetInvalidateCallback

-----------------------------------------------------------------------------
(***************************************************************************)
(* The outputs, and the construction of a Computed.                        *)
(***************************************************************************)

\* A walk drops no output.
LEMMA CascadeOutput ==
    ASSUME NEW g \in Graph, NEW roots
    PROVE  Cascade(g, roots).output = g.output
<1> DEFINE R == Reached(g, roots)
           cut == Detached(g, R)
<1>1. cut.output = g.output /\ DOMAIN cut = DOMAIN g
  BY DEF Graph, Detached
<1> HIDE DEF R, cut
<1>2. Invalidated(g, R).output = cut.output
  BY DEF Invalidated, cut
<1> QED BY <1>1, <1>2 DEF Cascade, R

\* Neither do invalidate() and addDependency(), and trySetOutput() adds at most its
\* node's own.
LEMMA OutputsKept ==
    ASSUME NEW g \in Graph, NEW c \in Node
    PROVE  /\ Invalidate(g, c).output = g.output
           /\ \A d \in Node : AddDependency(g, c, d).output = g.output
           /\ g.output \subseteq TrySetOutput(g, c).output
           /\ g.state[c] = "Computing" => c \in TrySetOutput(g, c).output
<1>0. g.state[c] \in ConsistencyState
  BY DEF Graph
<1>1. Invalidate(g, c).output = g.output
  <2>1. [g EXCEPT !.deferred = @ \union {c}].output = g.output
    BY DEF Graph
  <2>2. Cascade(g, {c}).output = g.output
    BY CascadeOutput
  <2> QED BY <1>0, <2>1, <2>2 DEF Invalidate, ConsistencyState
<1>2. ASSUME NEW d \in Node
      PROVE  AddDependency(g, c, d).output = g.output
  <2> DEFINE linked == [g EXCEPT !.dependencies[c] = @ \union {d}]
             indexed == [linked EXCEPT !.dependants[d] = @ \union {c}]
  <2>1. linked \in Graph /\ linked.output = g.output
    BY DEF Graph
  <2>2. Cascade(linked, {c}).output = g.output
    <3> HIDE DEF linked
    <3> QED BY <2>1, CascadeOutput
  <2>3. ForceInvalidate(linked, c).output = g.output
    <3> HIDE DEF linked
    <3> QED BY <2>1, <2>2 DEF ForceInvalidate
  <2>4. indexed.output = g.output
    <3> HIDE DEF linked
    <3> QED BY <2>1 DEF Graph
  <2>5. CASE g.state[c] # "Computing"
    BY <2>5 DEF AddDependency
  <2>6. CASE g.state[c] = "Computing" /\ g.state[d] = "Invalidated"
    <3>1. AddDependency(g, c, d) = ForceInvalidate(linked, c)
      BY <2>6 DEF AddDependency
    <3> QED BY <2>3, <3>1
  <2>7. CASE g.state[c] = "Computing" /\ g.state[d] # "Invalidated"
    <3>1. AddDependency(g, c, d) = indexed
      BY <2>7 DEF AddDependency
    <3> QED BY <2>4, <3>1
  <2> QED BY <2>5, <2>6, <2>7
<1>3. /\ g.output \subseteq TrySetOutput(g, c).output
      /\ g.state[c] = "Computing" => c \in TrySetOutput(g, c).output
  <2> DEFINE set == [g EXCEPT !.state[c]  = "Consistent",
                              !.output    = @ \union {c},
                              !.deferred  = @ \ {c}]
             timed == [set EXCEPT !.armed = @ \union ({c} \intersect AutoInvalidate)]
  <2>1. set \in Graph /\ set.output = g.output \union {c}
    BY DEF Graph, ConsistencyState
  <2>2. Cascade(set, {c}).output = set.output
    <3> HIDE DEF set
    <3> QED BY <2>1, CascadeOutput
  <2>3. timed.output = set.output
    <3> HIDE DEF set
    <3> QED BY <2>1 DEF Graph
  <2>4. CASE g.state[c] # "Computing"
    BY <2>4 DEF TrySetOutput
  <2>5. CASE g.state[c] = "Computing" /\ c \in g.deferred
    <3>1. TrySetOutput(g, c) = Cascade(set, {c})
      BY <2>5 DEF TrySetOutput
    <3> QED BY <2>1, <2>2, <3>1
  <2>6. CASE g.state[c] = "Computing" /\ c \notin g.deferred
    <3>1. TrySetOutput(g, c) = timed
      BY <2>6 DEF TrySetOutput
    <3> HIDE DEF set, timed
    <3> QED BY <2>1, <2>3, <3>1
  <2> QED BY <2>4, <2>5, <2>6
<1> QED BY <1>1, <1>2, <1>3

\* What the constructor leaves in each field.
LEMMA ConstructedFields ==
    ASSUME NEW g \in Graph, NEW c \in Node
    PROVE  LET h == Constructed(g, c)
           IN  /\ h \in Graph
               /\ \A n \in Node : h.state[n] = IF n = c THEN "Computing" ELSE g.state[n]
               /\ h.dependencies = g.dependencies /\ h.dependants = g.dependants
               /\ h.deferred = g.deferred \ {c} /\ h.output = g.output \ {c}
               /\ h.armed = g.armed
BY DEF Constructed, Graph, ConsistencyState

\* A node to which nothing is linked can be constructed anew.
LEMMA ConstructedInv ==
    ASSUME NEW g, GraphInv(g), NEW c \in Node, AutoInvalidate = {},
           g.dependencies[c] = {}, \A m \in Node : c \notin g.dependencies[m]
    PROVE  GraphInv(Constructed(g, c))
<1> DEFINE h == Constructed(g, c)
<1>1. g \in Graph
  BY DEF GraphInv
<1>2. /\ h \in Graph
      /\ \A n \in Node : h.state[n] = IF n = c THEN "Computing" ELSE g.state[n]
      /\ h.dependencies = g.dependencies /\ h.dependants = g.dependants
      /\ h.deferred = g.deferred \ {c}
      /\ h.armed = g.armed
  BY <1>1, ConstructedFields
<1> HIDE DEF h
<1>3. ASSUME NEW m \in Node, NEW n \in g.dependencies[m]
      PROVE  /\ m # c /\ n # c /\ n \in Node
             /\ h.state[m] = g.state[m] /\ h.state[n] = g.state[n]
             /\ m \in g.deferred => m \in h.deferred
  BY <1>1, <1>2, <1>3 DEF Graph
<1>4. Coherent(h) /\ Doomed(h) /\ Settled(h)
  BY <1>2, <1>3 DEF GraphInv, Coherent, Doomed, Settled
<1>5. Linked(h)
  BY <1>2 DEF GraphInv, Linked
<1>6. Timed(h)
  BY <1>2 DEF GraphInv, Timed
<1>7. Acyclic(h)
  BY <1>2 DEF GraphInv, Acyclic
<1> QED BY <1>2, <1>4, <1>5, <1>6, <1>7 DEF GraphInv, h

-----------------------------------------------------------------------------
(***************************************************************************)
(* The deferred invalidations.                                             *)
(***************************************************************************)

\* A walk forgets no deferred invalidation.
LEMMA CascadeDeferred ==
    ASSUME NEW g \in Graph, NEW roots \in SUBSET Node
    PROVE  g.deferred \subseteq Cascade(g, roots).deferred
<1> DEFINE R == Reached(g, roots)
           h == Invalidated(g, R)
<1>1. R \in SUBSET Node
  BY ReachedClosed
<1> HIDE DEF R
<1>2. /\ h \in Graph
      /\ \A n \in Node :
           /\ h.state[n] = IF n \in R THEN "Invalidated" ELSE g.state[n]
           /\ h.dependencies[n] = IF n \in R THEN {} ELSE g.dependencies[n]
           /\ h.dependants[n] = IF n \in R THEN {}
                ELSE {m \in g.dependants[n] : ~(m \in R /\ n \in g.dependencies[m])}
      /\ h.deferred = g.deferred \union Met(g, R)
      /\ h.armed = g.armed \ R
  BY <1>1, InvalidatedFields
<1> QED BY <1>2 DEF Cascade, R

\* invalidate() defers for a node being computed and forgets nothing.
LEMMA InvalidateDeferred ==
    ASSUME NEW g \in Graph, NEW c \in Node
    PROVE  /\ g.deferred \subseteq Invalidate(g, c).deferred
           /\ g.state[c] = "Computing" =>
                 /\ c \in Invalidate(g, c).deferred
                 /\ Invalidate(g, c).state = g.state
<1>1. g.state[c] \in ConsistencyState
  BY DEF Graph
<1>2. CASE g.state[c] = "Invalidated"
  BY <1>2 DEF Invalidate
<1>3. CASE g.state[c] = "Computing"
  <2>1. Invalidate(g, c) = [g EXCEPT !.deferred = @ \union {c}]
    BY <1>3 DEF Invalidate
  <2> QED BY <1>3, <2>1 DEF Graph
<1>4. CASE g.state[c] = "Consistent"
  BY <1>4, CascadeDeferred DEF Invalidate
<1> QED BY <1>1, <1>2, <1>3, <1>4 DEF ConsistencyState

\* addDependency() defers nothing.
LEMMA AddDependencyDeferred ==
    ASSUME NEW g, GraphInv(g), NEW c \in Node, NEW d \in Node
    PROVE  AddDependency(g, c, d).deferred = g.deferred
<1> DEFINE linked == [g EXCEPT !.dependencies[c] = @ \union {d}]
           indexed == [linked EXCEPT !.dependants[d] = @ \union {c}]
<1>1. g \in Graph
  BY DEF GraphInv
<1>2. /\ linked \in Graph
      /\ linked.deferred = g.deferred
      /\ linked.state = g.state /\ linked.dependants = g.dependants
  BY <1>1 DEF Graph
<1>3. indexed.deferred = linked.deferred
  <2> HIDE DEF linked
  <2> QED BY <1>2 DEF Graph
<1> HIDE DEF indexed
<1>4. CASE g.state[c] # "Computing"
  BY <1>4 DEF AddDependency
<1>5. CASE g.state[c] = "Computing" /\ g.state[d] = "Invalidated"
  <2>1. AddDependency(g, c, d) = ForceInvalidate(linked, c)
    BY <1>5 DEF AddDependency
  <2>2. linked.dependants[c] = {}
    BY <1>2, <1>5, NobodyDependsOnComputing
  <2> HIDE DEF linked
  <2>3. ForceInvalidate(linked, c) = Cascade(linked, {c})
    BY <1>2, <1>5 DEF ForceInvalidate
  <2>4. Cascade(linked, {c}).deferred = linked.deferred
    BY <1>2, <2>2, CascadeAlone
  <2> QED BY <1>2, <2>1, <2>3, <2>4
<1>6. CASE g.state[c] = "Computing" /\ g.state[d] # "Invalidated"
  <2>1. AddDependency(g, c, d) = indexed
    BY <1>6 DEF AddDependency, indexed
  <2> HIDE DEF linked
  <2> QED BY <1>2, <1>3, <2>1
<1> HIDE DEF linked
<1> QED BY <1>4, <1>5, <1>6

\* trySetOutput() carries out a deferred invalidation of its node, and keeps those of
\* the others.
LEMMA TrySetOutputDeferred ==
    ASSUME NEW g, GraphInv(g), NEW c \in Node
    PROVE  /\ g.deferred \ {c} \subseteq TrySetOutput(g, c).deferred
           /\ g.state[c] = "Computing" /\ c \in g.deferred =>
                 TrySetOutput(g, c).state[c] = "Invalidated"
<1> DEFINE set == [g EXCEPT !.state[c]  = "Consistent",
                            !.output    = @ \union {c},
                            !.deferred  = @ \ {c}]
           timed == [set EXCEPT !.armed = @ \union ({c} \intersect AutoInvalidate)]
<1>1. g \in Graph
  BY DEF GraphInv
<1>2. set \in Graph /\ set.deferred = g.deferred \ {c} /\ set.dependants = g.dependants
  BY <1>1 DEF Graph, ConsistencyState
<1>3. timed.deferred = set.deferred
  <2> HIDE DEF set
  <2> QED BY <1>2 DEF Graph
<1>4. CASE g.state[c] # "Computing"
  BY <1>4 DEF TrySetOutput
<1>5. CASE g.state[c] = "Computing" /\ c \in g.deferred
  <2>1. TrySetOutput(g, c) = Cascade(set, {c})
    BY <1>5 DEF TrySetOutput
  <2>2. set.dependants[c] = {}
    BY <1>2, <1>5, NobodyDependsOnComputing
  <2> HIDE DEF set
  <2>3. /\ Cascade(set, {c}).state = [n \in Node |-> IF n = c THEN "Invalidated" ELSE set.state[n]]
        /\ Cascade(set, {c}).deferred = set.deferred
    BY <1>2, <2>2, CascadeAlone
  <2>4. Cascade(set, {c}).state[c] = "Invalidated"
    BY <2>3
  <2> QED BY <1>2, <2>1, <2>3, <2>4
<1>6. CASE g.state[c] = "Computing" /\ c \notin g.deferred
  <2>1. TrySetOutput(g, c) = timed
    BY <1>6 DEF TrySetOutput
  <2> HIDE DEF set, timed
  <2> QED BY <1>2, <1>3, <1>6, <2>1
<1> QED BY <1>4, <1>5, <1>6

\* When nobody depends on the dependants of a node, a walk from it withdraws no more than
\* them and the node.
LEMMA CascadeReach ==
    ASSUME NEW g, GraphInv(g), NEW c \in Node,
           \A n \in g.dependants[c] : g.dependants[n] = {}
    PROVE  \A n \in Node : n # c /\ n \notin g.dependants[c] =>
               Cascade(g, {c}).state[n] = g.state[n]
<1> DEFINE R == Reached(g, {c})
           S == {c} \union g.dependants[c]
           h == Invalidated(g, R)
<1>1. g \in Graph /\ S \in SUBSET Node
  BY DEF GraphInv, Graph
<1>2. R \in SUBSET Node
  BY <1>1, ReachedClosed
<1>3. R \subseteq S
  <2>1. CascadeClosed(g, S)
    BY DEF CascadeClosed
  <2>2. {c} \subseteq S
    OBVIOUS
  <2> HIDE DEF S
  <2> QED BY <1>1, <2>1, <2>2, ReachedLeast
<1> HIDE DEF R
<1>4. /\ h \in Graph
      /\ \A n \in Node :
           /\ h.state[n] = IF n \in R THEN "Invalidated" ELSE g.state[n]
           /\ h.dependencies[n] = IF n \in R THEN {} ELSE g.dependencies[n]
           /\ h.dependants[n] = IF n \in R THEN {}
                ELSE {m \in g.dependants[n] : ~(m \in R /\ n \in g.dependencies[m])}
      /\ h.deferred = g.deferred \union Met(g, R)
      /\ h.armed = g.armed \ R
  BY <1>1, <1>2, InvalidatedFields
<1> QED BY <1>3, <1>4 DEF Cascade, R
=============================================================================
