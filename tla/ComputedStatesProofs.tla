-------------------------- MODULE ComputedStatesProofs --------------------------
(***************************************************************************)
(* What ComputedStates guarantees for any number of states, whatever their *)
(* compute functions await: the safety properties its run checks.          *)
(***************************************************************************)
EXTENDS ComputedStates, ComputedProofs

\* A Computed that nobody is going to be told about.
Withdrawn(n) == n = NoNode \/ graph.state[n] = "Invalidated"

\* The loop is in the compute function exactly while it has a Computed for it; within it,
\* one call at a time computes the method; a disposed state was created.
LoopsShaped ==
    /\ \A s \in State :
          /\ pc[s] = "computing" <=> comp[s] # NoNode
          /\ inner[s] # NoNode => comp[s] # NoNode
          /\ s \in aborted => pc[s] # "new"
    /\ \A s, u \in State : inner[s] # NoNode /\ inner[u] # NoNode => s = u

\* What a variable other than comp and inner refers to is over.
Completed ==
    /\ graph.state[cell] # "Computing"
    /\ method # NoNode => graph.state[method] # "Computing"
    /\ \A s \in State :
          /\ snapshot[s].computed # NoNode => graph.state[snapshot[s].computed] # "Computing"
          /\ snapshot[s].fallback # NoNode => graph.state[snapshot[s].fallback] # "Computing"

\* What is about to be replaced was withdrawn.
Replaceable ==
    \A s \in State :
        /\ pc[s] \in {"new", "computing", "delaying"} => Withdrawn(snapshot[s].computed)
        /\ snapshot[s].fallback = snapshot[s].computed \/ Withdrawn(snapshot[s].fallback)
        /\ inner[s] # NoNode => Withdrawn(method)

\* A Computed that a state or a method is computing is nobody else's, and not served yet.
Private ==
    \A s \in State :
        /\ comp[s] # NoNode =>
              /\ graph.state[comp[s]] # "Consistent"
              /\ comp[s] # cell /\ comp[s] \notin failed
              /\ \A u \in State : /\ comp[s] \notin {inner[u], snapshot[u].computed,
                                                     snapshot[u].fallback}
                                  /\ comp[s] = comp[u] => s = u
        /\ inner[s] # NoNode => graph.state[inner[s]] # "Consistent" /\ inner[s] # cell

\* Every version a Computed reflects came from the cell, or from what it depends on.
Supported ==
    /\ seen[cell] \subseteq {version}
    /\ \A n \in Node \ {cell} :
          graph.state[n] # "Invalidated" =>
              \A v \in seen[n] : \E m \in graph.dependencies[n] : v \in seen[m]

\* What was let go of depends on nothing, and nobody will find it through its links.
Unlinked ==
    \A n \in Released :
        /\ graph.dependencies[n] = {}
        /\ graph.state[n] = "Invalidated" \/ \A m \in Node : n \notin graph.dependencies[m]

\* The inductive invariant.
IInv ==
    /\ TypeOK
    /\ GraphInv(graph)
    /\ LoopsShaped
    /\ Completed
    /\ Replaceable
    /\ Private
    /\ Supported
    /\ Unlinked
    /\ FallbackNeverFails

-----------------------------------------------------------------------------
(***************************************************************************)
(* What the properties follow from.                                        *)
(***************************************************************************)

\* The values that are served are those of the current version: of the served ones that
\* are not, one would depend on none of the others, and so reflect the cell.
LEMMA SupportedServes ==
    ASSUME IInv, NEW n \in Node, graph.state[n] = "Consistent"
    PROVE  seen[n] \subseteq {version}
<1> DEFINE Bad == {m \in Node : graph.state[m] = "Consistent" /\ ~(seen[m] \subseteq {version})}
<1>1. ASSUME Bad # {}
      PROVE  FALSE
  <2>1. PICK c \in Bad : graph.dependencies[c] \intersect Bad = {}
    <3>1. Bad \in (SUBSET Node) \ {{}}
      BY <1>1
    <3> HIDE DEF Bad
    <3> QED BY <3>1 DEF IInv, GraphInv, Acyclic
  <2>2. PICK v \in seen[c] : v # version
    OBVIOUS
  <2>3. c # cell
    BY <2>2 DEF IInv, Supported
  <2>4. PICK m \in graph.dependencies[c] : v \in seen[m]
    BY <2>2, <2>3 DEF IInv, Supported
  <2>5. m \in Node
    BY DEF IInv, GraphInv, Graph
  <2>6. graph.state[m] = "Consistent"
    BY DEF IInv, GraphInv, Coherent
  <2> QED BY <2>1, <2>2, <2>4, <2>5, <2>6
<1> QED BY <1>1

\* The invariant implies what the run checks.
LEMMA InvariantSuffices ==
    ASSUME IInv
    PROVE  TypeOK /\ ServedIsCurrent /\ FallbackNeverFails /\ NothingLeaks
<1>1. ServedIsCurrent
  <2>1. ASSUME NEW s \in State, Served(snapshot[s].computed)
        PROVE  seen[snapshot[s].computed] \subseteq {version}
    <3>1. snapshot[s].computed \in Node
      BY <2>1 DEF IInv, TypeOK, Snapshot, Served
    <3> QED BY <2>1, <3>1, SupportedServes DEF Served
  <2> QED BY <2>1 DEF ServedIsCurrent
<1>2. NothingLeaks
  <2>1. ASSUME NEW n \in Released
        PROVE  /\ graph.dependencies[n] = {} /\ graph.dependants[n] = {}
               /\ \A m \in Node : n \notin graph.dependants[m]
    <3>1. n \in Node /\ graph.dependants[n] \in SUBSET Node
      BY DEF Released, IInv, GraphInv, Graph
    <3>2. graph.dependencies[n] = {}
      BY DEF IInv, Unlinked
    <3>3. \A m \in Node : m \notin graph.dependants[n]
      BY <3>1 DEF IInv, Unlinked, GraphInv, Linked
    <3>4. \A m \in Node : n \notin graph.dependants[m]
      BY <3>1, <3>2 DEF IInv, GraphInv, Linked
    <3> QED BY <3>1, <3>2, <3>3, <3>4
  <2> QED BY <2>1 DEF NothingLeaks
<1> QED BY <1>1, <1>2 DEF IInv

\* The initial states.
LEMMA InitIInv == ASSUME Init PROVE IInv
<1> DEFINE c == cell
<1>1. cell \in Node /\ cell # NoNode
  BY NodeAssumption DEF Init
<1>2. GraphInv(NewGraph) /\ NewGraph \in Graph
  BY NewGraphInv DEF GraphInv
<1>3. GraphInv(graph)
  BY <1>1, <1>2, TrySetOutputInv DEF Init
<1>4. /\ NewGraph.state = [n \in Node |-> "Computing"]
      /\ NewGraph.dependencies = [n \in Node |-> {}]
      /\ NewGraph.deferred = {}
  BY DEF NewGraph
<1>5. /\ graph.state[cell] = "Consistent"
      /\ graph.dependencies = [n \in Node |-> {}]
  <2> DEFINE set == [NewGraph EXCEPT !.state[cell]  = "Consistent",
                                     !.output    = @ \union {cell},
                                     !.deferred  = @ \ {cell}]
             timed == [set EXCEPT !.armed = @ \union ({cell} \intersect AutoInvalidate)]
  <2>1. graph = timed
    BY <1>1, <1>4 DEF Init, TrySetOutput
  <2>2. set \in Graph /\ set.state[cell] = "Consistent" /\ set.dependencies = NewGraph.dependencies
    BY <1>1, <1>2 DEF Graph, ConsistencyState
  <2> HIDE DEF set
  <2> QED BY <2>1, <2>2, <1>4 DEF Graph
<1>6. TypeOK
  <2>1. graph \in Graph
    BY <1>3 DEF GraphInv
  <2>2. 0 \in 0..MaxVersion
    BY BoundAssumption
  <2>3. seen \in [Node -> SUBSET (0..MaxVersion)] /\ version \in 0..MaxVersion
    BY <2>2 DEF Init
  <2>4. snapshot \in [State -> Snapshot]
    BY DEF Init, Snapshot
  <2>5. /\ pc \in [State -> Stage] /\ at \in [State -> Nat]
        /\ comp \in [State -> Node \union {NoNode}] /\ inner \in [State -> Node \union {NoNode}]
    BY DEF Init, Stage
  <2>6. failed = {} /\ aborted = {} /\ method = NoNode
    BY DEF Init
  <2> QED BY <1>1, <2>1, <2>3, <2>4, <2>5, <2>6 DEF TypeOK
<1>7. Supported /\ Unlinked
  BY <1>1, <1>5 DEF Init, Supported, Unlinked, Released
<1>8. /\ failed = {} /\ aborted = {} /\ method = NoNode
      /\ \A s \in State : /\ pc[s] = "new" /\ comp[s] = NoNode /\ inner[s] = NoNode
                          /\ snapshot[s].computed = NoNode /\ snapshot[s].fallback = NoNode
                          /\ snapshot[s].retries = 0
  BY DEF Init
<1>9. LoopsShaped /\ Private /\ FallbackNeverFails
  BY <1>8 DEF LoopsShaped, Private, FallbackNeverFails
<1>10. Completed /\ Replaceable
  BY <1>5, <1>8 DEF Completed, Replaceable, Withdrawn
<1> QED BY <1>3, <1>6, <1>7, <1>9, <1>10 DEF IInv

-----------------------------------------------------------------------------
(***************************************************************************)
(* The steps.                                                              *)
(***************************************************************************)

\* What the variables refer to.
LEMMA References ==
    ASSUME IInv
    PROVE  /\ graph \in Graph /\ cell \in Node /\ cell \in Referenced
           /\ method \in Node \union {NoNode} /\ method \in Referenced
           /\ \A s \in State :
                 /\ comp[s] \in Node \union {NoNode} /\ comp[s] \in Referenced
                 /\ inner[s] \in Node \union {NoNode} /\ inner[s] \in Referenced
                 /\ snapshot[s].computed \in Node \union {NoNode}
                 /\ snapshot[s].computed \in Referenced
                 /\ snapshot[s].fallback \in Node \union {NoNode}
                 /\ snapshot[s].fallback \in Referenced
                 /\ snapshot[s].retries \in Nat
                 /\ snapshot[s] \in Snapshot
           /\ NoNode \notin Node
           /\ \A n \in Node : graph.state[n] \in ConsistencyState
<1>1. \A s \in State : {snapshot[s].computed, snapshot[s].fallback, comp[s], inner[s]}
                          \subseteq Referenced
  BY DEF Referenced
<1>2. {cell, method} \subseteq Referenced
  BY DEF Referenced
<1>3. graph \in Graph /\ \A n \in Node : graph.state[n] \in ConsistencyState
  BY DEF IInv, TypeOK, Graph
<1> QED BY <1>1, <1>2, <1>3, NodeAssumption DEF IInv, TypeOK, Snapshot

\* A Computed that is being computed reads d, which is the cell or the method.
LEMMA LinkIInv ==
    ASSUME IInv, NEW c \in Node, NEW d \in Node, d \in {cell, method},
           NEW s \in State, c \in {comp[s], inner[s]},
           graph' = AddDependency(graph, c, d),
           seen' = [seen EXCEPT ![c] = @ \union seen[d]],
           at' \in [State -> Nat],
           UNCHANGED <<failed, sources, pc, comp, inner, snapshot, aborted>>
    PROVE  IInv'
<1>0. /\ failed' = failed /\ cell' = cell /\ version' = version /\ method' = method
      /\ pc' = pc /\ comp' = comp /\ inner' = inner /\ snapshot' = snapshot
      /\ aborted' = aborted
  BY DEF sources
<1>1. /\ graph \in Graph /\ GraphInv(graph) /\ d \in Referenced
      /\ graph.state[d] # "Computing" /\ graph.state[c] # "Consistent" /\ c # cell
      /\ graph.state[c] \in ConsistencyState /\ NoNode \notin Node
  BY References DEF IInv, Completed, Private
<1>2. /\ \A n \in Node \ {c} : /\ graph'.state[n] = graph.state[n]
                               /\ graph'.dependencies[n] = graph.dependencies[n]
      /\ graph.state[c] # "Computing" => graph' = graph
      /\ graph.state[c] = "Computing" =>
            \/ graph'.state[c] = "Invalidated"
            \/ /\ graph'.state[c] = "Computing"
               /\ graph'.dependencies[c] = graph.dependencies[c] \union {d}
  BY <1>1, AddDependencyLater
<1>3. GraphInv(graph')
  <2>1. CASE c = d
    BY <1>1, <1>2, <2>1
  <2>2. CASE c # d
    BY <1>1, <2>2, AddDependencyInv
  <2> QED BY <2>1, <2>2
<1>4. graph'.output = graph.output
  BY <1>1, OutputsKept
<1>5. \A n \in Node : /\ graph'.state[n] = "Computing" => graph.state[n] = "Computing"
                      /\ graph.state[n] = "Invalidated" => graph'.state[n] = "Invalidated"
                      /\ graph'.state[n] = "Consistent" => graph.state[n] = "Consistent"
  BY <1>1, <1>2 DEF ConsistencyState
<1>6. /\ seen' \in [Node -> SUBSET (0..MaxVersion)]
      /\ seen'[c] = seen[c] \union seen[d]
      /\ \A n \in Node \ {c} : seen'[n] = seen[n]
  BY DEF IInv, TypeOK
<1>7. TypeOK'
  <2>1. graph' \in Graph
    BY <1>3 DEF GraphInv
  <2> QED BY <1>0, <1>4, <1>6, <2>1 DEF IInv, TypeOK
<1>8. LoopsShaped' /\ FallbackNeverFails'
  BY <1>0 DEF IInv, LoopsShaped, FallbackNeverFails
<1>9. Completed' /\ Replaceable' /\ Private'
  BY <1>0, <1>5, References DEF IInv, Completed, Replaceable, Private, Withdrawn
<1>10. Supported'
  <2>1. seen'[cell'] \subseteq {version'}
    BY <1>0, <1>1, <1>6, References DEF IInv, Supported
  <2>2. ASSUME NEW n \in Node \ {cell'}, graph'.state[n] # "Invalidated", NEW v \in seen'[n]
        PROVE  \E m \in graph'.dependencies[n] : v \in seen'[m]
    <3>0. /\ n # cell /\ graph.state[n] # "Invalidated"
          /\ \A m \in Node : seen[m] \subseteq seen'[m]
          /\ graph.dependencies[n] \subseteq Node
      BY <1>0, <1>1, <1>5, <1>6, <2>2 DEF Graph
    <3>1. CASE n = c
      <4>1. graph'.dependencies[c] = graph.dependencies[c] \union {d}
        BY <1>1, <1>2, <2>2, <3>0, <3>1 DEF ConsistencyState
      <4>2. CASE v \in seen[d]
        BY <3>0, <3>1, <4>1, <4>2
      <4>3. CASE v \in seen[c]
        BY <3>0, <3>1, <4>1, <4>3 DEF IInv, Supported
      <4> QED BY <1>6, <2>2, <3>1, <4>2, <4>3
    <3>2. CASE n # c
      BY <1>2, <1>6, <2>2, <3>0, <3>2 DEF IInv, Supported
    <3> QED BY <3>1, <3>2
  <2> QED BY <2>1, <2>2 DEF Supported
<1>11. Unlinked'
  <2>1. Referenced' = Referenced /\ Released' = Released
    BY <1>0 DEF Referenced, Released
  <2>2. ASSUME NEW n \in Released
        PROVE  /\ graph'.dependencies[n] = {}
               /\ graph'.state[n] = "Invalidated" \/ \A m \in Node : n \notin graph'.dependencies[m]
    <3>1. n \in Node /\ n # c /\ n # d
      BY <1>1, References DEF Released
    <3>2. graph'.dependencies[n] = {} /\ graph'.state[n] = graph.state[n]
      BY <1>2, <3>1 DEF IInv, Unlinked
    <3>3. ASSUME NEW m \in Node, n \in graph'.dependencies[m]
          PROVE  n \in graph.dependencies[m] \/ graph'.state[m] = "Invalidated"
      BY <1>1, <1>2, <3>1, <3>3 DEF ConsistencyState
    <3>4. \A m \in Node : graph'.state[m] = "Invalidated" => graph'.dependencies[m] = {}
      BY <1>3 DEF GraphInv, Linked
    <3> QED BY <3>2, <3>3, <3>4 DEF IInv, Unlinked
  <2> QED BY <2>1, <2>2 DEF Unlinked
<1> QED BY <1>3, <1>7, <1>8, <1>9, <1>10, <1>11 DEF IInv

\* A loop goes from one wait to the next, or ends, or a state is disposed.
LEMMA IdleIInv ==
    ASSUME IInv, UNCHANGED <<graph, seen, failed, sources, at, comp, inner, snapshot>>,
           pc' \in [State -> Stage], aborted' \subseteq State,
           \A s \in State : /\ pc'[s] = "computing" <=> pc[s] = "computing"
                            /\ pc'[s] = "new" <=> pc[s] = "new"
                            /\ pc'[s] = "delaying" => pc[s] = "delaying" \/ Withdrawn(snapshot[s].computed)
                            /\ s \in aborted' => pc[s] # "new"
    PROVE  IInv'
<1>0. /\ graph' = graph /\ seen' = seen /\ failed' = failed /\ cell' = cell
      /\ version' = version /\ method' = method /\ at' = at /\ comp' = comp
      /\ inner' = inner /\ snapshot' = snapshot
  BY DEF sources
<1>1. TypeOK'
  BY <1>0 DEF IInv, TypeOK
<1>2. LoopsShaped'
  BY <1>0 DEF IInv, LoopsShaped
<1>3. Replaceable'
  BY <1>0 DEF IInv, Replaceable, Withdrawn
<1>4. Completed' /\ Private' /\ Supported' /\ FallbackNeverFails'
  BY <1>0 DEF IInv, Completed, Private, Supported, FallbackNeverFails
<1>5. Unlinked'
  BY <1>0 DEF IInv, Unlinked, Released, Referenced
<1>6. GraphInv(graph')
  BY <1>0 DEF IInv
<1> QED BY <1>1, <1>2, <1>3, <1>4, <1>5, <1>6 DEF IInv

\* What is free is linked to nothing, and no variable refers to it.
LEMMA FreeFacts ==
    ASSUME IInv, NEW n \in Free
    PROVE  /\ n \in Node /\ n \notin Referenced
           /\ graph.dependencies[n] = {}
           /\ \A m \in Node : n \notin graph.dependencies[m]
BY DEF Free, Released, IInv, Unlinked

\* A Computed n is constructed for the loop of s, or for the method its compute
\* function awaits.
LEMMA ConstructIInv ==
    ASSUME IInv, NEW n \in Free,
           graph' = Constructed(graph, n),
           seen' = [seen EXCEPT ![n] = {}],
           failed' = failed \ {n},
           UNCHANGED <<sources, snapshot, aborted>>,
           pc' \in [State -> Stage], at' \in [State -> Nat],
           NEW s \in State,
           \/ /\ comp' = [comp EXCEPT ![s] = n] /\ inner' = inner
              /\ pc' = [pc EXCEPT ![s] = "computing"]
              /\ Withdrawn(snapshot[s].computed) /\ s \notin aborted
              /\ comp[s] = NoNode
           \/ /\ inner' = [inner EXCEPT ![s] = n] /\ comp' = comp /\ pc' = pc
              /\ comp[s] # NoNode /\ Withdrawn(method)
              /\ \A u \in State : inner[u] = NoNode
    PROVE  IInv'
<1>0. /\ cell' = cell /\ version' = version /\ method' = method
      /\ snapshot' = snapshot /\ aborted' = aborted
  BY DEF sources
<1>1. /\ n \in Node /\ n \notin Referenced /\ n # NoNode
      /\ graph.dependencies[n] = {} /\ \A m \in Node : n \notin graph.dependencies[m]
  BY FreeFacts, NodeAssumption
<1>2. /\ graph' \in Graph
      /\ \A m \in Node : graph'.state[m] = IF m = n THEN "Computing" ELSE graph.state[m]
      /\ graph'.dependencies = graph.dependencies
      /\ graph'.output = graph.output \ {n}
  <2> DEFINE h == Constructed(graph, n)
  <2>1. /\ h \in Graph
        /\ \A m \in Node : h.state[m] = IF m = n THEN "Computing" ELSE graph.state[m]
        /\ h.dependencies = graph.dependencies /\ h.dependants = graph.dependants
        /\ h.deferred = graph.deferred \ {n} /\ h.output = graph.output \ {n}
        /\ h.armed = graph.armed
    BY <1>1, References, ConstructedFields
  <2>2. graph' = h
    OBVIOUS
  <2> HIDE DEF h
  <2> QED BY <2>1, <2>2
<1>3. GraphInv(graph')
  BY <1>1, NodeAssumption, ConstructedInv DEF IInv
<1>4. /\ comp' \in [State -> Node \union {NoNode}] /\ inner' \in [State -> Node \union {NoNode}]
      /\ \A u \in State : /\ comp'[u] \in {comp[u], n} /\ inner'[u] \in {inner[u], n}
                          /\ comp'[u] = n => u = s /\ inner'[u] = inner[u] /\ inner'[u] # n
                          /\ inner'[u] = n => u = s
      /\ \/ \A u \in State : comp'[u] # n
         \/ \A u \in State : inner'[u] # n
  <2>1. /\ comp \in [State -> Node \union {NoNode}] /\ inner \in [State -> Node \union {NoNode}]
        /\ \A u \in State : n # comp[u] /\ n # inner[u]
    BY <1>1, References DEF IInv, TypeOK
  <2> QED BY <1>1, <2>1
<1>5. /\ seen' \in [Node -> SUBSET (0..MaxVersion)] /\ seen'[n] = {}
      /\ \A m \in Node \ {n} : seen'[m] = seen[m]
  BY <1>1 DEF IInv, TypeOK
<1>6. TypeOK'
  BY <1>0, <1>2, <1>4, <1>5 DEF IInv, TypeOK
<1>7. LoopsShaped'
  <2>1. \A u \in State : /\ pc'[u] = "computing" <=> comp'[u] # NoNode
                         /\ inner'[u] # NoNode => comp'[u] # NoNode
                         /\ u \in aborted' => pc'[u] # "new"
    BY <1>0, <1>1 DEF IInv, LoopsShaped, TypeOK
  <2>2. \A u, w \in State : inner'[u] # NoNode /\ inner'[w] # NoNode => u = w
    BY <1>1 DEF IInv, LoopsShaped, TypeOK
  <2> QED BY <2>1, <2>2 DEF LoopsShaped
<1>8. \A m \in Referenced \ {NoNode} : m \in Node => m # n /\ graph'.state[m] = graph.state[m]
  BY <1>1, <1>2
<1>9. Completed' /\ FallbackNeverFails'
  BY <1>0, <1>1, <1>8, References DEF IInv, Completed, FallbackNeverFails
<1>10. Replaceable'
  <2>1. \A u \in State : pc'[u] \in {"new", "computing", "delaying"} => Withdrawn(snapshot[u].computed)
    BY DEF IInv, Replaceable, TypeOK
  <2>2. \A u \in State : inner'[u] # NoNode => Withdrawn(method)
    BY DEF IInv, Replaceable, TypeOK
  <2>3. \A m \in Referenced : m \in Node \union {NoNode} /\ Withdrawn(m) => Withdrawn(m)'
    BY <1>8, NodeAssumption DEF Withdrawn
  <2> QED BY <1>0, <2>1, <2>2, <2>3, References DEF IInv, Replaceable, Withdrawn
<1>11. Private'
  <2>1. ASSUME NEW u \in State, comp'[u] # NoNode
        PROVE  /\ graph'.state[comp'[u]] # "Consistent"
               /\ comp'[u] # cell /\ comp'[u] \notin failed'
               /\ \A w \in State : /\ comp'[u] \notin {inner'[w], snapshot[w].computed,
                                                      snapshot[w].fallback}
                                   /\ comp'[u] = comp'[w] => u = w
    <3>1. CASE comp'[u] = n
      BY <1>1, <1>2, <1>4, <3>1, References
    <3>2. CASE comp'[u] = comp[u] /\ comp[u] # n
      BY <1>2, <1>4, <2>1, <3>2, References DEF IInv, Private
    <3> QED BY <1>4, <3>1, <3>2
  <2>2. ASSUME NEW u \in State, inner'[u] # NoNode
        PROVE  graph'.state[inner'[u]] # "Consistent" /\ inner'[u] # cell
    <3>1. CASE inner'[u] = n
      BY <1>1, <1>2, <3>1, References
    <3>2. CASE inner'[u] = inner[u] /\ inner[u] # n
      BY <1>2, <2>2, <3>2, References DEF IInv, Private
    <3> QED BY <1>4, <3>1, <3>2
  <2> QED BY <1>0, <2>1, <2>2 DEF Private
<1>12. Supported'
  <2>1. seen'[cell'] \subseteq {version'}
    BY <1>0, <1>1, <1>5, References DEF IInv, Supported
  <2>2. ASSUME NEW m \in Node \ {cell}, graph'.state[m] # "Invalidated", NEW v \in seen'[m]
        PROVE  \E d \in graph.dependencies[m] : v \in seen'[d]
    <3>1. m # n /\ seen'[m] = seen[m] /\ graph.state[m] # "Invalidated"
      BY <1>2, <1>5, <2>2
    <3>2. PICK d \in graph.dependencies[m] : v \in seen[d]
      BY <2>2, <3>1 DEF IInv, Supported
    <3>3. d \in Node /\ d # n
      BY <1>1, References DEF Graph
    <3> QED BY <1>5, <3>2, <3>3
  <2> QED BY <1>0, <1>2, <2>1, <2>2 DEF Supported
<1>13. Unlinked'
  <2>1. Released' \subseteq Released \ {n}
    <3>1. n \in {comp'[s], inner'[s]}
      BY DEF IInv, TypeOK
    <3>2. n \in Referenced'
      BY <3>1 DEF Referenced
    <3>3. ASSUME NEW m \in Referenced, m \in Node
          PROVE  m \in Referenced'
      <4>1. CASE m \in {cell, method}
        BY <1>0, <4>1 DEF Referenced
      <4>2. CASE \E u \in State : m \in {snapshot[u].computed, snapshot[u].fallback}
        BY <1>0, <4>2 DEF Referenced
      <4>3. CASE \E u \in State : m \in {comp[u], inner[u]}
        <5>1. PICK u \in State : m \in {comp[u], inner[u]}
          BY <4>3
        <5>2. m \in {comp'[u], inner'[u]}
          BY <3>3, <5>1, NodeAssumption DEF IInv, TypeOK
        <5> QED BY <5>2 DEF Referenced
      <4> QED BY <4>1, <4>2, <4>3 DEF Referenced
    <3> QED BY <3>2, <3>3 DEF Released
  <2> QED BY <1>2, <2>1 DEF IInv, Unlinked, Released
<1> QED BY <1>3, <1>6, <1>7, <1>9, <1>10, <1>11, <1>12, <1>13 DEF IInv

\* The method that a compute function awaits has returned.
LEMMA MethodReturnsIInv ==
    ASSUME IInv, NEW s \in State, MethodReturns(s)
    PROVE  IInv'
<1>a. PICK i : i = inner[s]
  OBVIOUS
<1>b. PICK c : c = comp[s]
  OBVIOUS
<1>c. PICK g : g = TrySetOutput(graph, i)
  OBVIOUS
<1>0. /\ inner[s] # NoNode /\ i \in Node /\ c \in Node /\ c # i /\ c # cell /\ i # cell
      /\ graph.state[i] # "Consistent" /\ graph.state[c] # "Consistent"
      /\ \A u \in State : u # s => inner[u] = NoNode
      /\ NoNode \notin Node /\ graph \in Graph /\ GraphInv(graph)
  BY <1>a, <1>b, References DEF MethodReturns, IInv, LoopsShaped, Private
<1>1. /\ graph' = AddDependency(g, c, i)
      /\ seen' = [seen EXCEPT ![c] = @ \union seen[i]]
      /\ at' = [at EXCEPT ![s] = @ + 1]
      /\ method' = i /\ inner' = [inner EXCEPT ![s] = NoNode]
      /\ failed' = failed /\ cell' = cell /\ version' = version /\ pc' = pc /\ comp' = comp
      /\ snapshot' = snapshot /\ aborted' = aborted
  BY <1>a, <1>b, <1>c DEF MethodReturns, Receive
<1>2. /\ GraphInv(g) /\ g \in Graph
      /\ \A n \in Node \ {i} : /\ g.state[n] = graph.state[n]
                               /\ g.dependencies[n] = graph.dependencies[n]
      /\ graph.state[i] # "Computing" => g = graph
      /\ graph.state[i] = "Computing" =>
            \/ g.state[i] = "Invalidated"
            \/ g.state[i] = "Consistent" /\ g.dependencies[i] = graph.dependencies[i]
  <2>1. GraphInv(g)
    BY <1>0, <1>c, TrySetOutputInv
  <2> QED BY <1>0, <1>c, <2>1, TrySetOutputLater DEF GraphInv
<1>3. g.state[i] # "Computing" /\ g.state[c] # "Consistent"
  BY <1>0, <1>2
<1>4. /\ GraphInv(graph')
      /\ \A n \in Node \ {c} : /\ graph'.state[n] = g.state[n]
                               /\ graph'.dependencies[n] = g.dependencies[n]
      /\ g.state[c] # "Computing" => graph' = g
      /\ g.state[c] = "Computing" =>
            \/ graph'.state[c] = "Invalidated"
            \/ /\ graph'.state[c] = "Computing"
               /\ graph'.dependencies[c] = g.dependencies[c] \union {i}
  BY <1>0, <1>1, <1>2, <1>3, AddDependencyInv, AddDependencyLater
<1>5. graph.output \subseteq graph'.output
  <2>1. graph.output \subseteq g.output
    BY <1>0, <1>c, OutputsKept
  <2>2. graph'.output = g.output
    BY <1>0, <1>1, <1>2, OutputsKept
  <2> QED BY <2>1, <2>2
<1>6. /\ \A n \in Node : /\ graph'.state[n] = "Computing" => graph.state[n] = "Computing"
                         /\ graph.state[n] = "Invalidated" => graph'.state[n] = "Invalidated"
      /\ \A n \in Node \ {i} : graph'.state[n] = "Consistent" => graph.state[n] = "Consistent"
      /\ graph'.state[i] # "Computing" /\ graph'.state[c] # "Consistent"
  BY <1>0, <1>2, <1>3, <1>4, References DEF ConsistencyState
<1>7. /\ seen' \in [Node -> SUBSET (0..MaxVersion)]
      /\ seen'[c] = seen[c] \union seen[i]
      /\ \A n \in Node \ {c} : seen'[n] = seen[n]
  BY <1>0, <1>1 DEF IInv, TypeOK
<1>8. /\ \A u \in State : inner'[u] = NoNode
      /\ inner' \in [State -> Node \union {NoNode}] /\ at' \in [State -> Nat]
  BY <1>0, <1>1 DEF IInv, TypeOK
<1>9. TypeOK'
  <2>1. graph' \in Graph
    BY <1>4 DEF GraphInv
  <2> QED BY <1>0, <1>1, <1>5, <1>7, <1>8, <2>1 DEF IInv, TypeOK
<1>10. LoopsShaped' /\ FallbackNeverFails'
  BY <1>1, <1>8 DEF IInv, LoopsShaped, FallbackNeverFails
<1>11. Completed' /\ Replaceable'
  BY <1>1, <1>6, <1>8, References DEF IInv, Completed, Replaceable, Withdrawn
<1>12. Private'
  <2>1. ASSUME NEW u \in State, comp[u] # NoNode
        PROVE  /\ graph'.state[comp[u]] # "Consistent"
               /\ comp[u] # cell /\ comp[u] \notin failed
               /\ \A w \in State : /\ comp[u] \notin {NoNode, snapshot[w].computed,
                                                      snapshot[w].fallback}
                                   /\ comp[u] = comp[w] => u = w
    <3>1. comp[u] \in Node /\ comp[u] # i
      BY <1>a, <2>1, References DEF IInv, Private
    <3> QED BY <1>6, <2>1, <3>1 DEF IInv, Private
  <2> QED BY <1>1, <1>8, <2>1 DEF Private
<1>13. Supported'
  <2>1. seen'[cell'] \subseteq {version'}
    BY <1>0, <1>1, <1>7, References DEF IInv, Supported
  <2>2. ASSUME NEW n \in Node \ {cell}, graph'.state[n] # "Invalidated", NEW v \in seen'[n]
        PROVE  \E m \in graph'.dependencies[n] : v \in seen'[m]
    <3>0. /\ graph.state[n] # "Invalidated"
          /\ \A m \in Node : seen[m] \subseteq seen'[m]
          /\ graph.dependencies[n] \subseteq Node
      BY <1>0, <1>6, <1>7, <2>2 DEF Graph
    <3>1. v \in seen[n] => \E m \in graph.dependencies[n] : v \in seen'[m]
      BY <3>0 DEF IInv, Supported
    <3>2. graph.dependencies[n] \subseteq graph'.dependencies[n]
      BY <1>0, <1>2, <1>3, <1>4, <2>2, <3>0, References DEF ConsistencyState
    <3>3. CASE v \in seen[n]
      BY <3>1, <3>2, <3>3
    <3>4. CASE n = c /\ v \in seen[i]
      <4>1. i \in graph'.dependencies[c]
        BY <1>0, <1>2, <1>4, <2>2, <3>0, <3>4, References DEF ConsistencyState
      <4> QED BY <1>0, <1>7, <3>4, <4>1
    <3> QED BY <1>7, <2>2, <3>3, <3>4
  <2> QED BY <1>1, <2>1, <2>2 DEF Supported
<1>14. Unlinked'
  <2>1. ASSUME NEW n \in Released'
        PROVE  n \in Node /\ n # i /\ n # c /\ (n = method \/ n \in Released)
    <3>1. n \in Node /\ n \notin Referenced'
      BY DEF Released
    <3>2. {cell', method'} \subseteq Referenced'
      BY DEF Referenced
    <3>3. \A u \in State : {snapshot'[u].computed, snapshot'[u].fallback, comp'[u], inner'[u]}
                               \subseteq Referenced'
      BY DEF Referenced
    <3>4. n \notin {i, cell} /\ \A u \in State : n \notin {snapshot[u].computed,
                                                         snapshot[u].fallback, comp[u]}
      BY <1>1, <3>1, <3>2, <3>3
    <3>5. \A u \in State : n # inner[u]
      BY <1>0, <1>a, <3>1, <3>4
    <3> QED BY <1>b, <3>1, <3>4, <3>5 DEF Released, Referenced
  <2>2. ASSUME NEW n \in Released'
        PROVE  /\ graph'.dependencies[n] = {}
               /\ graph'.state[n] = "Invalidated" \/ \A m \in Node : n \notin graph'.dependencies[m]
    <3>1. CASE n = method
      <4>1. graph.state[n] = "Invalidated"
        BY <1>0, <2>1, <3>1 DEF IInv, Replaceable, Withdrawn
      <4> QED BY <1>4, <1>6, <2>1, <4>1 DEF GraphInv, Linked
    <3>2. CASE n \in Released
      <4>1. graph'.dependencies[n] = {} /\ graph'.state[n] = graph.state[n]
        BY <1>2, <1>4, <2>1, <3>2 DEF IInv, Unlinked
      <4>2. ASSUME NEW m \in Node, n \in graph'.dependencies[m]
            PROVE  n \in graph.dependencies[m]
        <5>1. graph'.state[m] # "Invalidated"
          BY <1>4, <4>2 DEF GraphInv, Linked
        <5> QED BY <1>0, <1>2, <1>4, <2>1, <4>2, <5>1, References DEF ConsistencyState
      <4> QED BY <3>2, <4>1, <4>2 DEF IInv, Unlinked
    <3> QED BY <2>1, <3>1, <3>2
  <2> QED BY <2>2 DEF Unlinked
<1> QED BY <1>4, <1>9, <1>10, <1>11, <1>12, <1>13, <1>14 DEF IInv

\* The compute function of s has returned or thrown.
LEMMA FinishIInv ==
    ASSUME IInv, NEW s \in State, Finish(s)
    PROVE  IInv'
<1>b. PICK c : c = comp[s]
  OBVIOUS
<1>0. /\ c \in Node /\ inner[s] = NoNode /\ pc[s] = "computing" /\ c # cell /\ c \notin failed
      /\ \A u \in State : /\ c \notin {inner[u], snapshot[u].computed, snapshot[u].fallback}
                          /\ u # s => comp[u] # c
      /\ NoNode \notin Node /\ graph \in Graph /\ GraphInv(graph)
  BY <1>b, References DEF Finish, IInv, LoopsShaped, Private
<1>1. PICK isError \in BOOLEAN :
         /\ graph' = TrySetOutput(graph, c)
         /\ isError => c \in graph'.output
         /\ failed' = IF isError THEN failed \union {c} ELSE failed
         /\ snapshot' = [snapshot EXCEPT ![s] = NextSnapshot(@, c, isError)]
         /\ pc' = [pc EXCEPT ![s] = IF HandlerThrows(s, graph') THEN "ended" ELSE "updated"]
  <2>1. PICK throws \in BOOLEAN, set \in {TrySetOutput(graph, comp[s])} :
           LET isError == throws /\ comp[s] \in set.output
           IN  /\ throws \/ at[s] > Len(Awaits[s])
               /\ graph' = set
               /\ failed' = IF isError THEN failed \union {comp[s]} ELSE failed
               /\ snapshot' = [snapshot EXCEPT ![s] = NextSnapshot(@, comp[s], isError)]
               /\ pc' = [pc EXCEPT ![s] = IF HandlerThrows(s, set) THEN "ended" ELSE "updated"]
    BY DEF Finish
  <2>2. PICK isError \in BOOLEAN : isError <=> throws /\ comp[s] \in set.output
    OBVIOUS
  <2> QED BY <1>b, <2>1, <2>2
<1>2. /\ comp' = [comp EXCEPT ![s] = NoNode] /\ at' = [at EXCEPT ![s] = 0]
      /\ seen' = seen /\ cell' = cell /\ version' = version /\ method' = method
      /\ inner' = inner /\ aborted' = aborted
  BY DEF Finish, sources
<1>3. /\ GraphInv(graph')
      /\ \A n \in Node \ {c} : /\ graph'.state[n] = graph.state[n]
                               /\ graph'.dependencies[n] = graph.dependencies[n]
      /\ graph.state[c] # "Computing" => graph' = graph
      /\ graph.state[c] = "Computing" =>
            \/ graph'.state[c] = "Invalidated"
            \/ graph'.state[c] = "Consistent" /\ graph'.dependencies[c] = graph.dependencies[c]
      /\ graph.output \subseteq graph'.output
  BY <1>0, <1>1, TrySetOutputInv, TrySetOutputLater, OutputsKept
<1>4. PICK next : next = NextSnapshot(snapshot[s], c, isError)
  OBVIOUS
<1>5. /\ next \in Snapshot /\ next.computed = c
      /\ next.fallback = IF isError THEN snapshot[s].fallback ELSE c
      /\ next.retries = IF isError THEN snapshot[s].retries + 1 ELSE 0
  BY <1>0, <1>4, References DEF NextSnapshot, Snapshot
<1>6. /\ snapshot' \in [State -> Snapshot] /\ snapshot'[s] = next
      /\ \A u \in State \ {s} : snapshot'[u] = snapshot[u]
      /\ pc' \in [State -> Stage] /\ pc'[s] \in {"ended", "updated"}
      /\ \A u \in State \ {s} : pc'[u] = pc[u]
      /\ comp' \in [State -> Node \union {NoNode}] /\ comp'[s] = NoNode
      /\ \A u \in State \ {s} : comp'[u] = comp[u]
      /\ at' \in [State -> Nat]
  BY <1>1, <1>2, <1>4, <1>5 DEF IInv, TypeOK, Stage
<1>7. TypeOK'
  <2>1. graph' \in Graph
    BY <1>3 DEF GraphInv
  <2>2. failed' \subseteq graph'.output
    BY <1>1, <1>3 DEF IInv, TypeOK
  <2> QED BY <1>2, <1>6, <2>1, <2>2 DEF IInv, TypeOK
<1>8. LoopsShaped'
  <2>1. \A u \in State : /\ pc'[u] = "computing" <=> comp'[u] # NoNode
                         /\ inner'[u] # NoNode => comp'[u] # NoNode
                         /\ u \in aborted' => pc'[u] # "new"
    BY <1>0, <1>2, <1>6 DEF IInv, LoopsShaped
  <2> QED BY <1>2, <2>1 DEF IInv, LoopsShaped
<1>9. /\ \A n \in Node : /\ graph'.state[n] = "Computing" => graph.state[n] = "Computing"
                         /\ graph.state[n] = "Invalidated" => graph'.state[n] = "Invalidated"
      /\ graph'.state[c] # "Computing"
  BY <1>0, <1>3
<1>10. Completed'
  BY <1>2, <1>5, <1>6, <1>9, References DEF IInv, Completed
<1>11. Replaceable'
  <2> DEFINE Gone(n) == n = NoNode \/ graph'.state[n] = "Invalidated"
  <2>1. \A n \in Node \union {NoNode} : Withdrawn(n) => Gone(n)
    BY <1>9 DEF Withdrawn
  <2> HIDE DEF Gone
  <2>2. /\ snapshot'[s].fallback = snapshot'[s].computed \/ Withdrawn(snapshot[s].fallback)
        /\ isError => snapshot'[s].fallback = snapshot[s].fallback
        /\ ~isError => snapshot'[s].fallback = snapshot'[s].computed
    BY <1>0, <1>5, <1>6 DEF IInv, Replaceable
  <2>3. ASSUME NEW u \in State
        PROVE  /\ pc'[u] \in {"new", "computing", "delaying"} => Gone(snapshot'[u].computed)
               /\ snapshot'[u].fallback = snapshot'[u].computed \/ Gone(snapshot'[u].fallback)
               /\ inner'[u] # NoNode => Gone(method')
    <3>1. inner'[u] # NoNode => Gone(method')
      BY <1>2, <2>1, References DEF IInv, Replaceable
    <3>2. CASE u = s
      BY <1>6, <2>1, <2>2, <3>1, <3>2, References
    <3>3. CASE u # s
      BY <1>6, <2>1, <3>1, <3>3, References DEF IInv, Replaceable
    <3> QED BY <3>2, <3>3
  <2> QED BY <2>3 DEF Replaceable, Withdrawn, Gone
<1>12. Private'
  <2>1. ASSUME NEW u \in State, comp'[u] # NoNode
        PROVE  /\ u # s /\ comp'[u] = comp[u] /\ comp[u] # c /\ comp[u] \in Node
               /\ graph'.state[comp[u]] # "Consistent"
               /\ comp[u] # cell /\ comp[u] \notin failed'
               /\ \A w \in State : /\ comp[u] \notin {inner[w], snapshot'[w].computed,
                                                      snapshot'[w].fallback}
                                   /\ comp[u] = comp'[w] => u = w
    <3>1. u # s /\ comp'[u] = comp[u] /\ comp[u] # c /\ comp[u] \in Node /\ comp[u] # NoNode
      BY <1>0, <1>6, <2>1, References
    <3>2. graph'.state[comp[u]] # "Consistent" /\ comp[u] # cell /\ comp[u] \notin failed'
      BY <1>1, <1>3, <3>1 DEF IInv, Private
    <3>3. ASSUME NEW w \in State
          PROVE  /\ comp[u] \notin {inner[w], snapshot'[w].computed, snapshot'[w].fallback}
                 /\ comp[u] = comp'[w] => u = w
      BY <1>5, <1>6, <3>1 DEF IInv, Private
    <3> QED BY <3>1, <3>2, <3>3
  <2>2. ASSUME NEW u \in State, inner[u] # NoNode
        PROVE  graph'.state[inner[u]] # "Consistent" /\ inner[u] # cell
    <3>1. inner[u] \in Node /\ inner[u] # c
      BY <1>0, <2>2, References
    <3> QED BY <1>3, <2>2, <3>1 DEF IInv, Private
  <2> QED BY <1>2, <2>1, <2>2 DEF Private
<1>13. Supported'
  <2>1. \A n \in Node : graph'.state[n] # "Invalidated" =>
            graph.state[n] # "Invalidated" /\ graph'.dependencies[n] = graph.dependencies[n]
    BY <1>0, <1>3, References DEF ConsistencyState
  <2> QED BY <1>2, <2>1 DEF IInv, Supported
<1>14. FallbackNeverFails'
  <2>1. ASSUME NEW u \in State
        PROVE  /\ snapshot'[u].fallback \notin failed'
               /\ snapshot'[u].retries > 0 <=> snapshot'[u].computed \in failed'
    <3>1. /\ snapshot[u].fallback \notin failed /\ snapshot[u].fallback # c
          /\ snapshot[u].computed # c /\ snapshot[u].retries \in Nat
          /\ snapshot[u].retries > 0 <=> snapshot[u].computed \in failed
      BY <1>0, References DEF IInv, FallbackNeverFails
    <3>2. CASE u # s
      BY <1>1, <1>6, <3>1, <3>2
    <3>3. CASE u = s
      BY <1>0, <1>1, <1>5, <1>6, <3>1, <3>3
    <3> QED BY <3>2, <3>3
  <2> QED BY <2>1 DEF FallbackNeverFails
<1>15. Unlinked'
  <2>1. ASSUME NEW n \in Released'
        PROVE  n \in Node /\ n # c /\ (Withdrawn(n) \/ n \in Released)
    <3>1. n \in Node /\ n \notin Referenced'
      BY DEF Released
    <3>2. {cell', method'} \subseteq Referenced'
      BY DEF Referenced
    <3>3. \A u \in State : {snapshot'[u].computed, snapshot'[u].fallback, comp'[u], inner'[u]}
                               \subseteq Referenced'
      BY DEF Referenced
    <3>4. /\ n \notin {method, cell} /\ n # c
          /\ \A u \in State : n # inner[u]
          /\ \A u \in State \ {s} : n \notin {snapshot[u].computed, snapshot[u].fallback, comp[u]}
      BY <1>2, <1>5, <1>6, <3>1, <3>2, <3>3
    <3>5. CASE n \in {snapshot[s].computed, snapshot[s].fallback}
      BY <1>0, <3>1, <3>4, <3>5 DEF IInv, Replaceable
    <3>6. CASE n \notin {snapshot[s].computed, snapshot[s].fallback}
      BY <1>b, <3>1, <3>4, <3>6 DEF Released, Referenced
    <3> QED BY <3>1, <3>4, <3>5, <3>6
  <2>2. ASSUME NEW n \in Released'
        PROVE  /\ graph'.dependencies[n] = {}
               /\ graph'.state[n] = "Invalidated" \/ \A m \in Node : n \notin graph'.dependencies[m]
    <3>1. CASE Withdrawn(n)
      <4>1. graph.state[n] = "Invalidated"
        BY <1>0, <2>1, <3>1 DEF Withdrawn
      <4> QED BY <1>3, <1>9, <2>1, <4>1 DEF GraphInv, Linked
    <3>2. CASE n \in Released
      <4>1. graph'.dependencies[n] = {} /\ graph'.state[n] = graph.state[n]
        BY <1>3, <2>1, <3>2 DEF IInv, Unlinked
      <4>2. ASSUME NEW m \in Node, n \in graph'.dependencies[m]
            PROVE  n \in graph.dependencies[m]
        <5>1. graph'.state[m] # "Invalidated"
          BY <1>3, <4>2 DEF GraphInv, Linked
        <5> QED BY <1>0, <1>3, <4>2, <5>1
      <4> QED BY <3>2, <4>1, <4>2 DEF IInv, Unlinked
    <3> QED BY <2>1, <3>1, <3>2
  <2> QED BY <2>2 DEF Unlinked
<1> QED BY <1>3, <1>7, <1>8, <1>10, <1>11, <1>12, <1>13, <1>14, <1>15 DEF IInv

\* MutableState.set() withdraws the cell and constructs another one.
LEMMA SetCellIInv ==
    ASSUME IInv, SetCell
    PROVE  IInv'
<1>a. PICK n : n = Fresh
  OBVIOUS
<1>b. PICK g : g = Invalidate(graph, cell)
  OBVIOUS
<1>c. PICK h : h = Constructed(g, n)
  OBVIOUS
<1>0. /\ n \in Node /\ n \notin Referenced /\ n # NoNode /\ n # cell
      /\ graph.dependencies[n] = {} /\ \A m \in Node : n \notin graph.dependencies[m]
      /\ cell \in Node /\ NoNode \notin Node /\ graph \in Graph /\ GraphInv(graph)
      /\ graph.state[cell] # "Computing"
  <2>1. n \in Free
    BY <1>a DEF SetCell, Fresh
  <2> QED BY <2>1, FreeFacts, References DEF IInv, Completed
<1>1. /\ cell' = n /\ version' = version + 1 /\ version' \in 0..MaxVersion
      /\ graph' = TrySetOutput(h, n)
      /\ seen' = [seen EXCEPT ![n] = {version'}]
      /\ failed' = failed \ {n}
      /\ method' = method /\ pc' = pc /\ at' = at /\ comp' = comp /\ inner' = inner
      /\ snapshot' = snapshot /\ aborted' = aborted
  <2>1. version \in 0..MaxVersion /\ version < MaxVersion
    BY DEF SetCell, IInv, TypeOK
  <2> QED BY <1>a, <1>b, <1>c, <2>1, BoundAssumption DEF SetCell, loops
<1>2. /\ GraphInv(g) /\ g \in Graph /\ Later(graph, g) /\ g.state[cell] = "Invalidated"
      /\ g.output = graph.output
  BY <1>0, <1>b, InvalidateInv, InvalidateLater, OutputsKept DEF GraphInv
<1>3. g.dependencies[n] = {} /\ \A m \in Node : n \notin g.dependencies[m]
  BY <1>0, <1>2 DEF Later, GraphInv, Linked
<1>4. /\ GraphInv(h) /\ h \in Graph
      /\ \A m \in Node : h.state[m] = IF m = n THEN "Computing" ELSE g.state[m]
      /\ h.dependencies = g.dependencies /\ h.output = g.output \ {n}
  <2>1. GraphInv(h)
    BY <1>0, <1>2, <1>3, <1>c, NodeAssumption, ConstructedInv
  <2> QED BY SMTT(30), <1>0, <1>2, <1>c, <2>1, ConstructedFields
<1>5. /\ GraphInv(graph')
      /\ \A m \in Node \ {n} : /\ graph'.state[m] = g.state[m]
                               /\ graph'.dependencies[m] = g.dependencies[m]
      /\ graph'.state[n] # "Computing" /\ graph'.dependencies[n] = {}
      /\ h.output \subseteq graph'.output
  <2>1. GraphInv(graph') /\ h.output \subseteq graph'.output
    BY <1>0, <1>1, <1>4, TrySetOutputInv, OutputsKept
  <2>2. /\ \A m \in Node \ {n} : /\ graph'.state[m] = h.state[m]
                                 /\ graph'.dependencies[m] = h.dependencies[m]
        /\ h.state[n] = "Computing" =>
              \/ graph'.state[n] = "Invalidated"
              \/ graph'.state[n] = "Consistent" /\ graph'.dependencies[n] = h.dependencies[n]
    BY <1>0, <1>1, <1>4, TrySetOutputLater
  <2>3. graph'.state[n] = "Invalidated" => graph'.dependencies[n] = {}
    BY <1>0, <2>1 DEF GraphInv, Linked
  <2> QED BY <1>0, <1>3, <1>4, <2>1, <2>2, <2>3
<1>6. \A m \in Node \ {n} :
         /\ graph'.state[m] = "Computing" => graph.state[m] = "Computing"
         /\ graph.state[m] = "Invalidated" => graph'.state[m] = "Invalidated"
         /\ graph'.state[m] = "Consistent" => graph.state[m] = "Consistent"
         /\ graph'.state[m] # "Invalidated" =>
               graph.state[m] # "Invalidated" /\ graph'.dependencies[m] = graph.dependencies[m]
  BY <1>2, <1>5 DEF Later
<1>7. \A m \in Referenced : m \in Node => m # n
  BY <1>0
<1>8. /\ seen' \in [Node -> SUBSET (0..MaxVersion)] /\ seen'[n] = {version'}
      /\ \A m \in Node \ {n} : seen'[m] = seen[m]
  BY <1>0, <1>1 DEF IInv, TypeOK
<1>9. TypeOK'
  <2>1. graph' \in Graph
    BY <1>5 DEF GraphInv
  <2>2. failed' \subseteq graph'.output
    BY <1>1, <1>2, <1>4, <1>5 DEF IInv, TypeOK
  <2> QED BY <1>0, <1>1, <1>8, <2>1, <2>2 DEF IInv, TypeOK
<1>10. LoopsShaped'
  BY <1>1 DEF IInv, LoopsShaped
<1>11. FallbackNeverFails'
  <2>1. \A s \in State : snapshot[s].computed # n
    BY <1>0, References
  <2> QED BY <1>1, <2>1 DEF IInv, FallbackNeverFails
<1>12. Completed'
  BY <1>0, <1>1, <1>5, <1>6, <1>7, References DEF IInv, Completed
<1>13. Replaceable'
  <2>1. \A m \in Referenced : m \in Node \union {NoNode} /\ Withdrawn(m) =>
            m = NoNode \/ graph'.state[m] = "Invalidated"
    BY <1>0, <1>6, <1>7 DEF Withdrawn
  <2> QED BY <1>1, <2>1, References DEF IInv, Replaceable, Withdrawn
<1>14. Private'
  <2>1. ASSUME NEW s \in State, comp[s] # NoNode
        PROVE  /\ graph'.state[comp[s]] # "Consistent" /\ comp[s] # n /\ comp[s] \notin failed'
               /\ \A u \in State : /\ comp[s] \notin {inner[u], snapshot[u].computed,
                                                      snapshot[u].fallback}
                                   /\ comp[s] = comp[u] => s = u
    <3>1. comp[s] \in Node \ {n}
      BY <1>7, <2>1, References
    <3> QED BY <1>1, <1>6, <2>1, <3>1 DEF IInv, Private
  <2>2. ASSUME NEW s \in State, inner[s] # NoNode
        PROVE  graph'.state[inner[s]] # "Consistent" /\ inner[s] # n
    <3>1. inner[s] \in Node \ {n}
      BY <1>7, <2>2, References
    <3> QED BY <1>6, <2>2, <3>1 DEF IInv, Private
  <2> QED BY <1>1, <2>1, <2>2 DEF Private
<1>15. Supported'
  <2>1. ASSUME NEW m \in Node \ {n}, graph'.state[m] # "Invalidated", NEW v \in seen'[m]
        PROVE  \E d \in graph'.dependencies[m] : v \in seen'[d]
    <3>1. m # cell
      BY <1>0, <1>2, <1>5, <2>1
    <3>2. PICK d \in graph.dependencies[m] : v \in seen[d]
      BY <1>6, <1>8, <2>1, <3>1 DEF IInv, Supported
    <3>3. d \in Node \ {n}
      BY <1>0, <3>2 DEF Graph
    <3> QED BY <1>6, <1>8, <2>1, <3>2, <3>3
  <2> QED BY <1>1, <1>8, <2>1 DEF Supported
<1>16. Unlinked'
  <2>1. ASSUME NEW m \in Released'
        PROVE  m \in Node \ {n} /\ (m = cell \/ m \in Released)
    <3>1. m \in Node /\ m \notin Referenced'
      BY DEF Released
    <3>2. {cell', method'} \subseteq Referenced'
      BY DEF Referenced
    <3>3. \A s \in State : {snapshot'[s].computed, snapshot'[s].fallback, comp'[s], inner'[s]}
                               \subseteq Referenced'
      BY DEF Referenced
    <3> QED BY <1>1, <3>1, <3>2, <3>3 DEF Released, Referenced
  <2>2. ASSUME NEW m \in Released'
        PROVE  /\ graph'.dependencies[m] = {}
               /\ graph'.state[m] = "Invalidated" \/ \A d \in Node : m \notin graph'.dependencies[d]
    <3>1. CASE m = cell
      <4>1. graph'.state[m] = "Invalidated"
        BY <1>0, <1>2, <1>5, <3>1
      <4> QED BY <1>5, <2>1, <4>1 DEF GraphInv, Linked
    <3>2. CASE m \in Released
      <4>1. graph.dependencies[m] = {}
        BY <3>2 DEF IInv, Unlinked
      <4>2. graph'.dependencies[m] = {}
        BY <1>5, <1>6, <2>1, <4>1 DEF GraphInv, Linked
      <4>3. ASSUME NEW d \in Node, m \in graph'.dependencies[d]
            PROVE  m \in graph.dependencies[d]
        <5>1. d # n /\ graph'.state[d] # "Invalidated"
          BY <1>5, <4>3 DEF GraphInv, Linked
        <5> QED BY <1>6, <4>3, <5>1
      <4>4. graph.state[m] = "Invalidated" => graph'.state[m] = "Invalidated"
        BY <1>6, <2>1
      <4> QED BY <3>2, <4>2, <4>3, <4>4 DEF IInv, Unlinked
    <3> QED BY <2>1, <3>1, <3>2
  <2> QED BY <2>2 DEF Unlinked
<1> QED BY <1>5, <1>9, <1>10, <1>11, <1>12, <1>13, <1>14, <1>15, <1>16 DEF IInv

\* Every step preserves the invariant.
LEMMA NextIInv == ASSUME IInv, [Next]_vars PROVE IInv'
<1>1. CASE UNCHANGED vars
  <2>1. /\ graph' = graph /\ seen' = seen /\ failed' = failed /\ cell' = cell
        /\ version' = version /\ method' = method /\ pc' = pc /\ at' = at /\ comp' = comp
        /\ inner' = inner /\ snapshot' = snapshot /\ aborted' = aborted
    BY <1>1 DEF vars, sources, loops
  <2>2. pc' \in [State -> Stage] /\ aborted' \subseteq State
    BY <2>1 DEF IInv, TypeOK
  <2> QED BY <2>1, <2>2, IdleIInv DEF IInv, LoopsShaped, Replaceable, sources
<1>2. ASSUME NEW s \in State, UseCell(s) PROVE IInv'
  <2>1. comp[s] \in Node /\ cell \in Node
    BY <1>2, References DEF UseCell, Awaiting, IInv, LoopsShaped
  <2>2. at' \in [State -> Nat]
    BY <1>2 DEF UseCell, Receive, IInv, TypeOK
  <2> QED BY <1>2, <2>1, <2>2, LinkIInv DEF UseCell, Receive
<1>3. ASSUME NEW s \in State, CallCached(s) PROVE IInv'
  <2>1. comp[s] \in Node /\ method \in Node
    BY <1>3, References DEF CallCached, Awaiting, Served, IInv, LoopsShaped
  <2>2. at' \in [State -> Nat]
    BY <1>3 DEF CallCached, Receive, IInv, TypeOK
  <2> QED BY <1>3, <2>1, <2>2, LinkIInv DEF CallCached, Receive
<1>4. ASSUME NEW s \in State, MethodUsesCell(s) PROVE IInv'
  <2>1. inner[s] \in Node /\ cell \in Node
    BY <1>4, References DEF MethodUsesCell
  <2>2. /\ at' \in [State -> Nat]
        /\ UNCHANGED <<failed, sources, pc, comp, inner, snapshot, aborted>>
    BY <1>4 DEF MethodUsesCell, loops, IInv, TypeOK
  <2>3. /\ graph' = AddDependency(graph, inner[s], cell)
        /\ seen' = [seen EXCEPT ![inner[s]] = @ \union seen[cell]]
    BY <1>4, <2>1 DEF MethodUsesCell, IInv, TypeOK
  <2> QED BY <2>1, <2>2, <2>3, LinkIInv
<1>5. ASSUME NEW s \in State, CallComputing(s) PROVE IInv'
  <2>1. /\ Fresh \in Free /\ pc[s] = "computing" /\ comp[s] # NoNode
        /\ \A u \in State : inner[u] = NoNode
    BY <1>5 DEF CallComputing, Construct, Fresh, Awaiting, IInv, LoopsShaped
  <2>2. Withdrawn(method)
    BY <1>5, References DEF CallComputing, Served, Withdrawn, IInv, Completed, ConsistencyState
  <2>3. /\ pc' = pc /\ comp' = comp /\ pc' \in [State -> Stage] /\ at' \in [State -> Nat]
        /\ inner' = [inner EXCEPT ![s] = Fresh]
        /\ UNCHANGED <<sources, snapshot, aborted>>
    BY <1>5 DEF CallComputing, IInv, TypeOK
  <2>4. /\ graph' = Constructed(graph, Fresh) /\ seen' = [seen EXCEPT ![Fresh] = {}]
        /\ failed' = failed \ {Fresh}
    BY <1>5 DEF CallComputing, Construct
  <2> HIDE DEF Fresh, Free
  <2> QED BY <2>1, <2>2, <2>3, <2>4, ConstructIInv
<1>6. ASSUME NEW s \in State, StartComputing(s), pc[s] \in {"new", "delaying"}, s \notin aborted
      PROVE  IInv'
  <2>1. Fresh \in Free /\ comp[s] = NoNode /\ Withdrawn(snapshot[s].computed)
    BY <1>6 DEF StartComputing, Construct, Fresh, IInv, LoopsShaped, Replaceable
  <2>2. /\ comp' = [comp EXCEPT ![s] = Fresh] /\ inner' = inner
        /\ pc' = [pc EXCEPT ![s] = "computing"] /\ pc' \in [State -> Stage]
        /\ at' \in [State -> Nat]
        /\ UNCHANGED <<sources, snapshot, aborted>>
    BY <1>6 DEF StartComputing, IInv, TypeOK, Stage
  <2>3. /\ graph' = Constructed(graph, Fresh) /\ seen' = [seen EXCEPT ![Fresh] = {}]
        /\ failed' = failed \ {Fresh}
    BY <1>6 DEF StartComputing, Construct
  <2> HIDE DEF Fresh, Free
  <2> QED BY <1>6, <2>1, <2>2, <2>3, ConstructIInv
<1>7. ASSUME NEW s \in State, NEW next \in Stage, Goto(s, next), pc[s] \notin {"new", "computing"},
             next \notin {"new", "computing"},
             next = "delaying" => Withdrawn(snapshot[s].computed)
      PROVE  IInv'
  <2>1. /\ UNCHANGED <<graph, seen, failed, sources, at, comp, inner, snapshot>>
        /\ aborted' = aborted
        /\ pc' = [pc EXCEPT ![s] = IF s \in aborted THEN "ended" ELSE next]
    BY <1>7 DEF Goto
  <2>2. /\ pc' \in [State -> Stage] /\ aborted' \subseteq State
        /\ pc'[s] \in {"ended", next} /\ \A u \in State \ {s} : pc'[u] = pc[u]
    BY <2>1 DEF IInv, TypeOK, Stage
  <2>3. ASSUME NEW u \in State
        PROVE  /\ pc'[u] = "computing" <=> pc[u] = "computing"
               /\ pc'[u] = "new" <=> pc[u] = "new"
               /\ pc'[u] = "delaying" => pc[u] = "delaying" \/ Withdrawn(snapshot[u].computed)
               /\ u \in aborted' => pc[u] # "new"
    BY <1>7, <2>1, <2>2 DEF IInv, LoopsShaped
  <2> QED BY <2>1, <2>2, <2>3, IdleIInv
<1>8. ASSUME NEW s \in State, Watch(s) \/ Wake(s) \/ DelayAborted(s) \/ DelayOver(s)
      PROVE  IInv'
  <2>1. CASE Watch(s)
    BY <1>7, <2>1 DEF Watch, Stage
  <2>2. CASE Wake(s)
    BY <1>7, <2>2 DEF Wake, Stage, Withdrawn
  <2>3. CASE DelayAborted(s)
    BY <1>7, <2>3 DEF DelayAborted, Stage
  <2>4. CASE DelayOver(s)
    BY <1>6, <1>7, <2>4 DEF DelayOver, Stage
  <2> QED BY <1>8, <2>1, <2>2, <2>3, <2>4
<1>9. ASSUME NEW s \in State, Create(s) PROVE IInv'
  <2>1. s \notin aborted
    BY <1>9 DEF Create, IInv, LoopsShaped
  <2> QED BY <1>6, <1>9, <2>1 DEF Create
<1>10. ASSUME NEW s \in State, Dispose(s) PROVE IInv'
  <2>1. /\ UNCHANGED <<graph, seen, failed, sources, at, comp, inner, snapshot>>
        /\ pc' = pc /\ pc' \in [State -> Stage] /\ aborted' = aborted \union {s}
        /\ aborted' \subseteq State
    BY <1>10 DEF Dispose, loops, IInv, TypeOK
  <2>2. \A u \in State : /\ pc'[u] = "delaying" => pc[u] = "delaying"
                         /\ u \in aborted' => pc[u] # "new"
    BY <1>10, <2>1 DEF Dispose, IInv, LoopsShaped
  <2> QED BY <2>1, <2>2, IdleIInv
<1>11. ASSUME NEW s \in State, Run(s) PROVE IInv'
  BY <1>2, <1>3, <1>4, <1>5, <1>8, <1>11, MethodReturnsIInv, FinishIInv DEF Run
<1>12. CASE SetCell
  BY <1>12, SetCellIInv
<1> QED BY <1>1, <1>9, <1>10, <1>11, <1>12 DEF Next

-----------------------------------------------------------------------------
(***************************************************************************)
(* The theorems.                                                           *)
(***************************************************************************)

\* The invariant holds of every reachable state.
THEOREM Invariance == Spec => []IInv
<1>1. Init => IInv
  BY InitIInv
<1>2. IInv /\ [Next]_vars => IInv'
  BY NextIInv
<1> QED BY <1>1, <1>2, PTL DEF Spec

\* Every variable keeps its type.
THEOREM TypeTheorem == Spec => []TypeOK
<1>1. IInv => TypeOK
  BY InvariantSuffices
<1> QED BY <1>1, Invariance, PTL

\* A state whose Computed is Consistent shows the current value, directly or through
\* the method.
THEOREM CurrentTheorem == Spec => []ServedIsCurrent
<1>1. IInv => ServedIsCurrent
  BY InvariantSuffices
<1> QED BY <1>1, Invariance, PTL

\* A fallback is never an error, and the retries count the errors since.
THEOREM FallbackTheorem == Spec => []FallbackNeverFails
<1>1. IInv => FallbackNeverFails
  BY InvariantSuffices
<1> QED BY <1>1, Invariance, PTL

\* What the loops, the method and the MutableState let go of is linked to nothing.
THEOREM NothingLeaksTheorem == Spec => []NothingLeaks
<1>1. IInv => NothingLeaks
  BY InvariantSuffices
<1> QED BY <1>1, Invariance, PTL

\* The loop of a disposed state starts no computation.
THEOREM DisposedTheorem == Spec => DisposedStaysIdle
<1> DEFINE Idle == \A s \in aborted : pc[s] # "computing" => pc'[s] # "computing"
<1>1. IInv /\ [Next]_vars => [Idle]_vars
  <2> SUFFICES ASSUME IInv, Next, NEW s \in aborted, pc[s] # "computing"
               PROVE  pc'[s] # "computing"
    BY DEF vars
  <2>1. s \in State /\ pc[s] # "new" /\ pc \in [State -> Stage]
    BY DEF IInv, TypeOK, LoopsShaped
  <2>2. ASSUME NEW u \in State, Goto(u, "watching") \/ Goto(u, "delaying") \/ Goto(u, "ended")
        PROVE  pc'[s] # "computing"
    BY <2>1, <2>2 DEF Goto
  <2>3. ASSUME NEW u \in State, StartComputing(u), u # s
        PROVE  pc'[s] # "computing"
    BY <2>1, <2>3 DEF StartComputing
  <2>4. ASSUME NEW u \in State, Create(u) \/ DelayOver(u)
        PROVE  pc'[s] # "computing"
    BY <2>1, <2>2, <2>3, <2>4 DEF Create, DelayOver
  <2>5. ASSUME NEW u \in State, Watch(u) \/ Wake(u) \/ DelayAborted(u)
        PROVE  pc'[s] # "computing"
    BY <2>2, <2>5 DEF Watch, Wake, DelayAborted
  <2>6. ASSUME NEW u \in State, Finish(u)
        PROVE  pc'[s] # "computing"
    <3>1. \E next \in {"ended", "updated"} : pc' = [pc EXCEPT ![u] = next]
      BY <2>6 DEF Finish
    <3> QED BY <2>1, <3>1
  <2>7. ASSUME NEW u \in State, \/ UseCell(u) \/ CallCached(u) \/ CallComputing(u)
                                \/ MethodUsesCell(u) \/ MethodReturns(u) \/ Dispose(u)
        PROVE  pc'[s] # "computing"
    <3>1. pc' = pc
      BY <2>7 DEF UseCell, CallCached, CallComputing, MethodUsesCell, MethodReturns, Dispose, loops
    <3> QED BY <3>1
  <2>8. CASE SetCell
    BY <2>8 DEF SetCell, loops
  <2> QED BY <2>4, <2>5, <2>6, <2>7, <2>8 DEF Next, Run
<1> QED BY <1>1, Invariance, PTL DEF Spec, DisposedStaysIdle
=============================================================================
