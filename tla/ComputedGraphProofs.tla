------------------------- MODULE ComputedGraphProofs -------------------------
(***************************************************************************)
(* What ComputedGraph guarantees for any number of nodes and watchers:     *)
(* the invariants its run checks, and that it implements                   *)
(* TransitiveInvalidation.                                                 *)
(***************************************************************************)
EXTENDS ComputedGraph, ComputedProofs

\* The inductive invariant of the state machine.
IInv ==
    /\ GraphInv(graph)
    /\ waiting \in [Watcher -> Node \union {NoNode}]
    /\ NoLostWakeup

\* The invariant holds of Computed objects that were only constructed.
LEMMA InitIInv == Init => IInv
<1> SUFFICES ASSUME Init PROVE IInv
  OBVIOUS
<1>1. GraphInv(graph)
  BY NewGraphInv DEF Init
<1>2. NoLostWakeup
  BY NoNodeAssumption DEF Init, NoLostWakeup
<1> QED BY <1>1, <1>2 DEF IInv, Init

\* Firing onInvalidated leaves nobody waiting on an Invalidated node.
LEMMA MutateIInv ==
    ASSUME NEW g, GraphInv(g), IInv, Mutate(g)
    PROVE  IInv'
<1>1. waiting' \in [Watcher -> Node \union {NoNode}]
  BY DEF IInv, Mutate
<1>2. ASSUME NEW w \in Watcher, NEW n \in Node, waiting'[w] = n
      PROVE  graph'.state[n] # "Invalidated"
  <2>1. waiting[w] = n /\ ~(graph.state[n] # "Invalidated" /\ g.state[n] = "Invalidated")
    BY <1>2, NoNodeAssumption DEF IInv, Mutate
  <2>2. graph.state[n] # "Invalidated"
    BY <2>1 DEF IInv, NoLostWakeup
  <2> QED BY <2>1, <2>2 DEF Mutate
<1> QED BY <1>1, <1>2 DEF IInv, NoLostWakeup, Mutate

\* The node a timer fires for is still served: the walk starts from it.
LEMMA TimerFiresWalks ==
    ASSUME IInv, NEW c \in Node, TimerFires(c)
    PROVE  LET g == [graph EXCEPT !.armed = @ \ {c}]
               R == Reached(g, {c})
           IN  /\ graph.state[c] = "Consistent"
               /\ g \in Graph
               /\ g.state = graph.state /\ g.deferred = graph.deferred
               /\ g.dependencies = graph.dependencies
               /\ g.dependants = graph.dependants
               /\ R \in SUBSET Node
               /\ Walkable(g, R)
               /\ Mutate(Invalidated(g, R))
<1> DEFINE g == [graph EXCEPT !.armed = @ \ {c}]
           R == Reached(g, {c})
<1>1. graph.state[c] = "Consistent"
  BY DEF TimerFires, IInv, GraphInv, Timed
<1>2. /\ g \in Graph
      /\ g.state = graph.state /\ g.deferred = graph.deferred
      /\ g.dependencies = graph.dependencies /\ g.dependants = graph.dependants
      /\ g.armed = graph.armed \ {c}
  BY DEF IInv, GraphInv, Graph
<1>3. Mutate(Invalidated(g, R))
  <2>1. g.state[c] = "Consistent"
    BY <1>1, <1>2
  <2>2. Mutate(Invalidate(g, c))
    BY DEF TimerFires
  <2> HIDE DEF g
  <2> QED BY <2>1, <2>2 DEF Invalidate, Cascade
<1> HIDE DEF g
<1>4. {c} \subseteq R /\ R \in SUBSET Node /\ CascadeClosed(g, R)
  BY <1>2, ReachedClosed
<1> HIDE DEF R
<1>5. Walkable(g, R)
  <2>1. /\ Linked(g)
        /\ \A m \in Node : \A d \in g.dependencies[m] :
              /\ g.state[d] # "Computing"
              /\ g.state[m] = "Consistent" => g.state[d] = "Consistent"
              /\ g.state[m] = "Computing" /\ g.state[d] = "Invalidated" => m \in g.deferred
    BY <1>2 DEF IInv, GraphInv, Linked, Coherent, Doomed, Settled
  <2>2. g.armed \ R = {m \in AutoInvalidate \ R : g.state[m] = "Consistent"}
    BY <1>2, <1>4 DEF IInv, GraphInv, Timed
  <2>3. \A S \in (SUBSET Node) \ {{}} :
           \E m \in S : m \in R \/ g.dependencies[m] \intersect S = {}
    BY <1>2 DEF IInv, GraphInv, Acyclic
  <2> QED BY <1>2, <1>4, <2>1, <2>2, <2>3 DEF Walkable
<1> QED BY <1>1, <1>2, <1>3, <1>4, <1>5 DEF g, R

\* Every step preserves the inductive invariant.
LEMMA NextIInv == IInv /\ [Next]_vars => IInv'
<1> SUFFICES ASSUME IInv, [Next]_vars PROVE IInv'
  OBVIOUS
<1>1. CASE UNCHANGED vars
  BY <1>1 DEF IInv, NoLostWakeup, vars
<1>2. ASSUME NEW c \in Node, NEW d \in Node, Depend(c, d)
      PROVE  IInv'
  <2>1. GraphInv(AddDependency(graph, c, d))
    BY <1>2, AddDependencyInv DEF Depend, IInv
  <2> QED BY <1>2, <2>1, MutateIInv DEF Depend
<1>3. ASSUME NEW c \in Node, SetOutput(c)
      PROVE  IInv'
  <2>1. GraphInv(TrySetOutput(graph, c))
    BY TrySetOutputInv DEF IInv
  <2> QED BY <1>3, <2>1, MutateIInv DEF SetOutput
<1>4. ASSUME NEW c \in Node, InvalidateNode(c)
      PROVE  IInv'
  <2>1. GraphInv(Invalidate(graph, c))
    BY InvalidateInv DEF IInv
  <2> QED BY <1>4, <2>1, MutateIInv DEF InvalidateNode
<1>5. ASSUME NEW c \in Node, TimerFires(c)
      PROVE  IInv'
  <2> DEFINE g == [graph EXCEPT !.armed = @ \ {c}]
             R == Reached(g, {c})
  <2>1. R \in SUBSET Node /\ Walkable(g, R) /\ Mutate(Invalidated(g, R))
    BY <1>5, TimerFiresWalks
  <2> HIDE DEF g, R
  <2>2. GraphInv(Invalidated(g, R))
    BY <2>1, WalkRestores
  <2> QED BY <2>1, <2>2, MutateIInv
<1>6. ASSUME NEW c \in Node, Hook(c)
      PROVE  IInv'
  <2>1. GraphInv(SetInvalidateCallback(graph, c))
    BY SetInvalidateCallbackInv DEF IInv
  <2> QED BY <1>6, <2>1, MutateIInv DEF Hook
<1>7. ASSUME NEW w \in Watcher, NEW c \in Node, WhenInvalidated(w, c)
      PROVE  IInv'
  BY <1>7 DEF WhenInvalidated, IInv, NoLostWakeup
<1> QED BY <1>1, <1>2, <1>3, <1>4, <1>5, <1>6, <1>7 DEF Next

\* The inductive invariant holds of every reachable state.
THEOREM Invariance == Spec => []IInv
<1>1. Init => IInv
  BY InitIInv
<1>2. IInv /\ [Next]_vars => IInv'
  BY NextIInv
<1> QED BY <1>1, <1>2, PTL DEF Spec

-----------------------------------------------------------------------------
\* A cached value never stands on a withdrawn one (computed.ts).
THEOREM CoherentTheorem == Spec => []CoherentInv
<1>1. IInv => CoherentInv
  BY DEF IInv, GraphInv, CoherentInv
<1> QED BY <1>1, Invariance, PTL

\* The links agree in both directions (computed.ts).
THEOREM LinkedTheorem == Spec => []LinkedInv
<1>1. IInv => LinkedInv
  BY DEF IInv, GraphInv, LinkedInv
<1> QED BY <1>1, Invariance, PTL

\* The live timers are those of the timed values being served (computed.ts).
THEOREM TimedTheorem == Spec => []TimedInv
<1>1. IInv => TimedInv
  BY DEF IInv, GraphInv, TimedInv
<1> QED BY <1>1, Invariance, PTL

\* A computation that read a value withdrawn since is flagged (computed.ts).
THEOREM DoomedTheorem == Spec => []DoomedInv
<1>1. IInv => DoomedInv
  BY DEF IInv, GraphInv, DoomedInv
<1> QED BY <1>1, Invariance, PTL

\* The dependencies form a directed acyclic graph (README.md).
THEOREM AcyclicTheorem == Spec => []AcyclicInv
<1>1. IInv => AcyclicInv
  BY DEF IInv, GraphInv, AcyclicInv
<1> QED BY <1>1, Invariance, PTL

\* No whenInvalidated() promise misses its event (computed.ts).
THEOREM NoLostWakeupTheorem == Spec => []NoLostWakeup
<1>1. IInv => NoLostWakeup
  BY DEF IInv
<1> QED BY <1>1, Invariance, PTL

\* Every variable has its type.
THEOREM TypeTheorem == Spec => []TypeOK
<1>1. IInv => TypeOK
  BY DEF IInv, GraphInv, TypeOK
<1> QED BY <1>1, Invariance, PTL

-----------------------------------------------------------------------------
\* The reverse index finds exactly the readers: where the invariant holds, the
\* walk from served nodes reaches what TransitiveInvalidation calls Readers.
LEMMA ReachedIsReaders ==
    ASSUME IInv, NEW c \in Node, graph.state[c] = "Consistent"
    PROVE  Reached(graph, {c}) = Promise!Readers({c})
<1>1. \A m \in Node : /\ graph.state[m] \in ConsistencyState
                      /\ graph.dependencies[m] \in SUBSET Node
                      /\ graph.dependants[m] \in SUBSET Node
  BY DEF IInv, GraphInv, Graph
<1>2. ASSUME NEW S \in SUBSET Node
      PROVE  CascadeClosed(graph, S) <=> Promise!ReaderClosed(S)
  <2>1. \A m \in Node : StatusOf(graph)[m] = "Consistent" <=> graph.state[m] = "Consistent"
    BY <1>1 DEF StatusOf, ConsistencyState
  <2>2. \A m, n \in Node : graph.state[m] = "Consistent" =>
           (m \in graph.dependants[n] <=> n \in graph.dependencies[m])
    BY DEF IInv, GraphInv, Linked, Coherent
  <2> QED BY <1>1, <2>1, <2>2 DEF CascadeClosed, Promise!ReaderClosed
<1> QED BY <1>2 DEF Reached, Promise!Readers

\* A walk withdraws the nodes it reached and dooms their readers in progress.
LEMMA WalkWithdraws ==
    ASSUME NEW g, NEW R \in SUBSET Node, Walkable(g, R)
    PROVE  /\ StatusOf(Invalidated(g, R)) =
                [n \in Node |->
                   IF n \in R THEN "Invalidated"
                   ELSE IF StatusOf(g)[n] = "Computing" /\ g.dependencies[n] \intersect R # {}
                        THEN "Doomed" ELSE StatusOf(g)[n]]
           /\ Invalidated(g, R).dependencies =
                [n \in Node |-> IF n \in R THEN {} ELSE g.dependencies[n]]
<1> DEFINE h == Invalidated(g, R)
<1>1. g \in Graph
  BY DEF Walkable
<1>2. /\ h \in Graph
      /\ \A n \in Node :
           /\ h.state[n] = IF n \in R THEN "Invalidated" ELSE g.state[n]
           /\ h.dependencies[n] = IF n \in R THEN {} ELSE g.dependencies[n]
           /\ h.dependants[n] = IF n \in R THEN {}
                ELSE {m \in g.dependants[n] : ~(m \in R /\ n \in g.dependencies[m])}
      /\ h.deferred = g.deferred \union Met(g, R)
      /\ h.armed = g.armed \ R
  BY <1>1, InvalidatedFields
<1> HIDE DEF h
<1>3. h.dependencies = [n \in Node |-> IF n \in R THEN {} ELSE g.dependencies[n]]
  BY <1>2 DEF Graph
<1>4. ASSUME NEW n \in Node
      PROVE  StatusOf(h)[n] =
                IF n \in R THEN "Invalidated"
                ELSE IF StatusOf(g)[n] = "Computing" /\ g.dependencies[n] \intersect R # {}
                     THEN "Doomed" ELSE StatusOf(g)[n]
  <2>1. /\ StatusOf(h)[n] = IF h.state[n] = "Computing" /\ n \in h.deferred
                            THEN "Doomed" ELSE h.state[n]
        /\ StatusOf(g)[n] = IF g.state[n] = "Computing" /\ n \in g.deferred
                            THEN "Doomed" ELSE g.state[n]
    BY DEF StatusOf
  <2>2. ASSUME n \notin R, g.state[n] = "Computing", n \notin g.deferred
        PROVE  n \in Met(g, R) <=> g.dependencies[n] \intersect R # {}
    <3>1. \A r \in Node : n \in g.dependants[r] <=> r \in g.dependencies[n]
      BY <2>2 DEF Walkable, Linked
    <3> QED BY <2>2, <3>1 DEF Met
  <2>3. CASE n \in R
    BY <1>2, <2>1, <2>3
  <2>4. CASE n \notin R /\ g.state[n] = "Computing" /\ n \notin g.deferred
    BY <1>2, <2>1, <2>2, <2>4
  <2>5. CASE n \notin R /\ g.state[n] = "Computing" /\ n \in g.deferred
    BY <1>2, <2>1, <2>5
  <2>6. CASE n \notin R /\ g.state[n] # "Computing"
    BY <1>2, <2>1, <2>6
  <2> QED BY <2>3, <2>4, <2>5, <2>6
<1>5. StatusOf(h) =
         [n \in Node |->
            IF n \in R THEN "Invalidated"
            ELSE IF StatusOf(g)[n] = "Computing" /\ g.dependencies[n] \intersect R # {}
                 THEN "Doomed" ELSE StatusOf(g)[n]]
  BY <1>4 DEF StatusOf
<1> QED BY <1>3, <1>5 DEF h

-----------------------------------------------------------------------------
\* The initial states correspond.
LEMMA InitRefines == Init => Promise!Init
BY DEF Init, NewGraph, StatusOf, Promise!Init

\* addDependency() is a read, or a withdrawal when what it reads is already gone.
LEMMA DependRefines ==
    ASSUME IInv, NEW c \in Node, NEW d \in Node, Depend(c, d)
    PROVE  [Promise!Next]_(Promise!vars)
<1> DEFINE g == graph
           linked == [g EXCEPT !.dependencies[c] = @ \union {d}]
           indexed == [linked EXCEPT !.dependants[d] = @ \union {c}]
<1>1. g \in Graph /\ graph' = AddDependency(g, c, d) /\ c # d /\ g.state[d] # "Computing"
  BY DEF IInv, GraphInv, Depend, Mutate
<1>2. CASE g.state[c] # "Computing"
  BY <1>1, <1>2 DEF AddDependency, Promise!vars
<1>3. ASSUME g.state[c] = "Computing"
      PROVE  /\ linked \in Graph
             /\ linked.state = g.state /\ linked.dependants = g.dependants
             /\ linked.deferred = g.deferred
             /\ linked.dependencies = [g.dependencies EXCEPT ![c] = @ \union {d}]
             /\ \A m \in Node : m # c => linked.dependencies[m] = g.dependencies[m]
             /\ g.dependants[c] = {}
             /\ \A m \in Node : c \notin g.dependencies[m]
             /\ StatusOf(g)[c] \in Promise!InProgress
             /\ StatusOf(g)[d] = g.state[d]
  <2>1. /\ g.dependants[c] = {}
        /\ \A m \in Node : c \notin g.dependencies[m]
    BY <1>3, NobodyDependsOnComputing DEF IInv
  <2>2. /\ StatusOf(g)[c] \in Promise!InProgress
        /\ StatusOf(g)[d] = g.state[d]
    BY <1>1, <1>3 DEF StatusOf, Promise!InProgress
  <2> QED BY <1>1, <2>1, <2>2 DEF Graph
<1>4. CASE g.state[c] = "Computing" /\ g.state[d] = "Invalidated"
  <2>1. graph' = Cascade(linked, {c})
    BY <1>1, <1>3, <1>4 DEF AddDependency, ForceInvalidate
  <2> HIDE DEF linked
  <2>2. /\ graph'.state = [n \in Node |-> IF n = c THEN "Invalidated" ELSE g.state[n]]
        /\ graph'.dependencies = [n \in Node |-> IF n = c THEN {} ELSE g.dependencies[n]]
        /\ graph'.deferred = g.deferred
    <3>1. /\ Cascade(linked, {c}).state =
                 [n \in Node |-> IF n = c THEN "Invalidated" ELSE linked.state[n]]
          /\ Cascade(linked, {c}).dependencies =
                 [n \in Node |-> IF n = c THEN {} ELSE linked.dependencies[n]]
          /\ Cascade(linked, {c}).deferred = linked.deferred
      BY ZenonT(30), <1>3, <1>4, CascadeAlone
    <3> QED BY ZenonT(30), <1>3, <1>4, <2>1, <3>1
  <2>3. StatusOf(graph)' =
           [n \in Node |->
              IF n \in {c} THEN "Invalidated"
              ELSE IF StatusOf(graph)[n] = "Computing" /\ graph.dependencies[n] \intersect {c} # {}
                   THEN "Doomed" ELSE StatusOf(graph)[n]]
    <3>1. \A n \in Node : graph.dependencies[n] \intersect {c} = {}
      BY <1>3, <1>4
    <3>2. StatusOf(graph)' = [n \in Node |-> IF graph'.state[n] = "Computing" /\ n \in graph'.deferred
                                             THEN "Doomed" ELSE graph'.state[n]]
      BY DEF StatusOf
    <3> QED BY <2>2, <3>1, <3>2 DEF StatusOf
  <2>4. Promise!ReadWithdrawn(c, d)
    BY <1>3, <1>4, <2>2, <2>3 DEF Promise!ReadWithdrawn, Promise!Withdraw
  <2> QED BY <2>4 DEF Promise!Next
<1>5. CASE g.state[c] = "Computing" /\ g.state[d] # "Invalidated"
  <2>1. g.state[d] = "Consistent"
    BY <1>1, <1>5 DEF Graph, ConsistencyState
  <2>2. graph' = indexed
    BY <1>1, <1>5 DEF AddDependency
  <2> HIDE DEF linked
  <2>3. /\ indexed.state = g.state /\ indexed.dependencies = linked.dependencies
        /\ indexed.deferred = g.deferred
    BY <1>3, <1>5 DEF Graph
  <2> HIDE DEF indexed
  <2>4. StatusOf(graph)' = StatusOf(graph)
    BY <2>2, <2>3 DEF StatusOf
  <2>5. Promise!Read(c, d)
    BY <1>3, <1>5, <2>1, <2>2, <2>3, <2>4 DEF Promise!Read
  <2> QED BY <2>5 DEF Promise!Next
<1> QED BY <1>2, <1>4, <1>5

\* trySetOutput() completes the value, or withdraws it when it is doomed.
LEMMA SetOutputRefines ==
    ASSUME IInv, NEW c \in Node, SetOutput(c)
    PROVE  [Promise!Next]_(Promise!vars)
<1> DEFINE g == graph
           set == [g EXCEPT !.state[c]  = "Consistent",
                            !.output    = @ \union {c},
                            !.deferred  = @ \ {c}]
           timed == [set EXCEPT !.armed = @ \union ({c} \intersect AutoInvalidate)]
<1>1. g \in Graph /\ graph' = TrySetOutput(g, c)
  BY DEF IInv, GraphInv, SetOutput, Mutate
<1>2. CASE g.state[c] # "Computing"
  BY <1>1, <1>2 DEF TrySetOutput, Promise!vars
<1>3. ASSUME g.state[c] = "Computing"
      PROVE  /\ set \in Graph
             /\ set.state = [n \in Node |-> IF n = c THEN "Consistent" ELSE g.state[n]]
             /\ set.dependencies = g.dependencies /\ set.dependants = g.dependants
             /\ set.deferred = g.deferred \ {c}
             /\ g.dependants[c] = {}
             /\ \A m \in Node : c \notin g.dependencies[m]
  <2>1. /\ g.dependants[c] = {}
        /\ \A m \in Node : c \notin g.dependencies[m]
    BY <1>3, NobodyDependsOnComputing DEF IInv
  <2> QED BY <1>1, <1>3, <2>1 DEF Graph, ConsistencyState
<1>4. StatusOf(graph)' = [n \in Node |-> IF graph'.state[n] = "Computing" /\ n \in graph'.deferred
                                         THEN "Doomed" ELSE graph'.state[n]]
  BY DEF StatusOf
<1>5. CASE g.state[c] = "Computing" /\ c \in g.deferred
  <2>1. graph' = Cascade(set, {c})
    BY <1>1, <1>5 DEF TrySetOutput
  <2> HIDE DEF set
  <2>2. /\ Cascade(set, {c}).state =
               [n \in Node |-> IF n = c THEN "Invalidated" ELSE set.state[n]]
        /\ Cascade(set, {c}).dependencies =
               [n \in Node |-> IF n = c THEN {} ELSE set.dependencies[n]]
        /\ Cascade(set, {c}).deferred = set.deferred
    BY ZenonT(30), <1>3, <1>5, CascadeAlone
  <2>3. /\ graph'.state = [n \in Node |-> IF n = c THEN "Invalidated" ELSE g.state[n]]
        /\ graph'.dependencies = [n \in Node |-> IF n = c THEN {} ELSE g.dependencies[n]]
        /\ graph'.deferred = g.deferred \ {c}
    BY ZenonT(30), <1>3, <1>5, <2>1, <2>2
  <2>4. \A n \in Node : graph.dependencies[n] \intersect {c} = {}
    BY <1>3, <1>5
  <2>5. StatusOf(graph)' =
           [n \in Node |->
              IF n \in {c} THEN "Invalidated"
              ELSE IF StatusOf(graph)[n] = "Computing" /\ graph.dependencies[n] \intersect {c} # {}
                   THEN "Doomed" ELSE StatusOf(graph)[n]]
    BY <1>4, <2>3, <2>4 DEF StatusOf
  <2>6. StatusOf(graph)[c] = "Doomed"
    BY <1>5 DEF StatusOf
  <2>7. Promise!CompleteDoomed(c)
    BY <2>3, <2>5, <2>6 DEF Promise!CompleteDoomed, Promise!Withdraw
  <2> QED BY <2>7 DEF Promise!Next
<1>6. CASE g.state[c] = "Computing" /\ c \notin g.deferred
  <2>1. graph' = timed
    BY <1>1, <1>6 DEF TrySetOutput
  <2> HIDE DEF set
  <2>2. /\ graph'.state = set.state
        /\ graph'.dependencies = g.dependencies
        /\ graph'.deferred = g.deferred \ {c}
    BY <1>3, <1>6, <2>1 DEF Graph
  <2>3. StatusOf(graph)' = [StatusOf(graph) EXCEPT ![c] = "Consistent"]
    <3>1. StatusOf(graph)' = [n \in Node |-> IF n = c THEN "Consistent" ELSE StatusOf(graph)[n]]
      <4>1. StatusOf(graph) = [n \in Node |-> IF graph.state[n] = "Computing" /\ n \in graph.deferred
                                              THEN "Doomed" ELSE graph.state[n]]
        BY DEF StatusOf
      <4>2. graph'.state = [n \in Node |-> IF n = c THEN "Consistent" ELSE graph.state[n]]
        BY <1>3, <1>6, <2>2
      <4> QED BY <1>4, <1>6, <2>2, <4>1, <4>2
    <3>2. StatusOf(graph) \in [Node -> {StatusOf(graph)[n] : n \in Node}]
      BY DEF StatusOf
    <3> QED BY <3>1, <3>2
  <2>4. StatusOf(graph)[c] = "Computing"
    BY <1>6 DEF StatusOf
  <2>5. Promise!Complete(c)
    BY <2>2, <2>3, <2>4 DEF Promise!Complete
  <2> QED BY <2>5 DEF Promise!Next
<1> QED BY <1>2, <1>5, <1>6

\* A walk from a served node withdraws its readers.
LEMMA WalkRefines ==
    ASSUME IInv, NEW c \in Node, graph.state[c] = "Consistent",
           NEW g, Walkable(g, Reached(g, {c})), Reached(g, {c}) \in SUBSET Node,
           g.state = graph.state, g.deferred = graph.deferred,
           g.dependencies = graph.dependencies, g.dependants = graph.dependants,
           graph' = Invalidated(g, Reached(g, {c}))
    PROVE  Promise!InvalidateServed(c)
<1> DEFINE R == Reached(g, {c})
<1>2. R = Promise!Readers({c})
  <2>1. Reached(g, {c}) = Reached(graph, {c})
    BY DEF Reached, CascadeClosed
  <2> QED BY <2>1, ReachedIsReaders
<1>1. R \in SUBSET Node /\ Walkable(g, R)
  OBVIOUS
<1> HIDE DEF R
<1>3. /\ StatusOf(Invalidated(g, R)) =
             [n \in Node |->
                IF n \in R THEN "Invalidated"
                ELSE IF StatusOf(g)[n] = "Computing" /\ g.dependencies[n] \intersect R # {}
                     THEN "Doomed" ELSE StatusOf(g)[n]]
      /\ Invalidated(g, R).dependencies =
             [n \in Node |-> IF n \in R THEN {} ELSE g.dependencies[n]]
  BY <1>1, WalkWithdraws
<1>4. StatusOf(g) = StatusOf(graph)
  BY DEF StatusOf
<1>5. StatusOf(graph)' = StatusOf(Invalidated(g, R))
  BY DEF StatusOf, R
<1>6. Promise!Withdraw(R)
  BY <1>3, <1>4, <1>5 DEF Promise!Withdraw, R
<1>7. StatusOf(graph)[c] = "Consistent"
  BY DEF StatusOf
<1> QED BY <1>2, <1>6, <1>7 DEF Promise!InvalidateServed

\* invalidate() dooms a value in progress and withdraws a served one.
LEMMA InvalidateNodeRefines ==
    ASSUME IInv, NEW c \in Node, InvalidateNode(c)
    PROVE  [Promise!Next]_(Promise!vars)
<1> DEFINE R == Reached(graph, {c})
<1>1. /\ graph \in Graph /\ graph.state[c] \in ConsistencyState
      /\ graph' = Invalidate(graph, c)
  BY DEF IInv, GraphInv, Graph, InvalidateNode, Mutate
<1>2. CASE graph.state[c] = "Invalidated"
  BY <1>1, <1>2 DEF Invalidate, Promise!vars
<1>3. CASE graph.state[c] = "Consistent"
  <2>1. graph' = Invalidated(graph, R)
    BY <1>1, <1>3 DEF Invalidate, Cascade
  <2>2. {c} \subseteq R /\ R \in SUBSET Node /\ CascadeClosed(graph, R)
    BY <1>1, ReachedClosed
  <2>3. Walkable(graph, R)
    <3> HIDE DEF R
    <3> QED BY <1>1, <2>2, AutoInvalidateAssumption
            DEF IInv, Walkable, GraphInv, Coherent, Doomed, Settled, Timed, Acyclic
  <2>4. Promise!InvalidateServed(c)
    BY <1>3, <2>1, <2>2, <2>3, WalkRefines
  <2> QED BY <2>4 DEF Promise!Next
<1>4. CASE graph.state[c] = "Computing"
  <2>1. graph' = [graph EXCEPT !.deferred = @ \union {c}]
    BY <1>1, <1>4 DEF Invalidate
  <2>2. /\ graph'.state = graph.state /\ graph'.dependencies = graph.dependencies
        /\ graph'.deferred = graph.deferred \union {c}
    BY <1>1, <2>1 DEF Graph
  <2>3. /\ StatusOf(graph) = [n \in Node |-> IF graph.state[n] = "Computing" /\ n \in graph.deferred
                                             THEN "Doomed" ELSE graph.state[n]]
        /\ StatusOf(graph)' = [n \in Node |-> IF graph'.state[n] = "Computing" /\ n \in graph'.deferred
                                              THEN "Doomed" ELSE graph'.state[n]]
    BY DEF StatusOf
  <2>4. CASE c \in graph.deferred
    <3>1. StatusOf(graph)' = StatusOf(graph)
      BY <2>2, <2>3, <2>4
    <3> QED BY <2>2, <3>1 DEF Promise!vars
  <2>5. CASE c \notin graph.deferred
    <3>1. StatusOf(graph)[c] = "Computing"
      BY <1>4, <2>3, <2>5
    <3>2. StatusOf(graph)' = [StatusOf(graph) EXCEPT ![c] = "Doomed"]
      BY <1>4, <2>2, <2>3, <2>5
    <3>3. Promise!InvalidateInProgress(c)
      BY <2>2, <3>1, <3>2 DEF Promise!InvalidateInProgress
    <3> QED BY <3>3 DEF Promise!Next
  <2> QED BY <2>4, <2>5
<1> QED BY <1>1, <1>2, <1>3, <1>4 DEF ConsistencyState

\* Every step of the graph is a step of the promise, or changes nothing it sees.
LEMMA NextRefines ==
    IInv /\ [Next]_vars => [Promise!Next]_(Promise!vars)
<1> SUFFICES ASSUME IInv, [Next]_vars PROVE [Promise!Next]_(Promise!vars)
  OBVIOUS
<1>1. CASE UNCHANGED vars
  BY <1>1 DEF vars, Promise!vars, StatusOf
<1>2. ASSUME NEW c \in Node, NEW d \in Node, Depend(c, d)
      PROVE  [Promise!Next]_(Promise!vars)
  BY <1>2, DependRefines
<1>3. ASSUME NEW c \in Node, SetOutput(c)
      PROVE  [Promise!Next]_(Promise!vars)
  BY <1>3, SetOutputRefines
<1>4. ASSUME NEW c \in Node, InvalidateNode(c)
      PROVE  [Promise!Next]_(Promise!vars)
  BY <1>4, InvalidateNodeRefines
<1>5. ASSUME NEW c \in Node, TimerFires(c)
      PROVE  [Promise!Next]_(Promise!vars)
  <2> DEFINE g == [graph EXCEPT !.armed = @ \ {c}]
  <2>1. /\ graph.state[c] = "Consistent"
        /\ g.state = graph.state /\ g.deferred = graph.deferred
        /\ g.dependencies = graph.dependencies /\ g.dependants = graph.dependants
        /\ Reached(g, {c}) \in SUBSET Node
        /\ Walkable(g, Reached(g, {c}))
        /\ Mutate(Invalidated(g, Reached(g, {c})))
    BY <1>5, TimerFiresWalks
  <2> HIDE DEF g
  <2>2. Promise!InvalidateServed(c)
    BY <2>1, WalkRefines DEF Mutate
  <2> QED BY <2>2 DEF Promise!Next
<1>6. ASSUME NEW c \in Node, Hook(c)
      PROVE  [Promise!Next]_(Promise!vars)
  <2>1. /\ graph'.state = graph.state /\ graph'.dependencies = graph.dependencies
        /\ graph'.deferred = graph.deferred
    BY <1>6 DEF Hook, Mutate, SetInvalidateCallback, IInv, GraphInv, Graph
  <2> QED BY <2>1 DEF Promise!vars, StatusOf
<1>7. ASSUME NEW w \in Watcher, NEW c \in Node, WhenInvalidated(w, c)
      PROVE  [Promise!Next]_(Promise!vars)
  BY <1>7 DEF WhenInvalidated, Promise!vars, StatusOf
<1> QED BY <1>1, <1>2, <1>3, <1>4, <1>5, <1>6, <1>7 DEF Next

\* The dependency graph, with its reverse index, its deferral flag, its timers and
\* its callbacks, implements the promise (computed.ts).
THEOREM Refinement == Spec => ImplementsTransitiveInvalidation
<1>1. Init => Promise!Init
  BY InitRefines
<1>2. IInv /\ [Next]_vars => [Promise!Next]_(Promise!vars)
  BY NextRefines
<1> QED BY <1>1, <1>2, Invariance, PTL DEF Spec, Promise!Spec, ImplementsTransitiveInvalidation
=============================================================================
