----------------------- MODULE InvalidationCascadeProofs -----------------------
(***************************************************************************)
(* What InvalidationCascade guarantees for any graph, any cells and any    *)
(* handlers: the safety properties its run checks.  CascadeIsComplete      *)
(* justifies the operators of Computed, which take a cascade as one step.  *)
(***************************************************************************)
EXTENDS InvalidationCascade, ComputedProofs

\* The nodes of P that are being served, or being computed.
Served(g, P) == {n \in P : g.state[n] = "Consistent"}
InProgress(g, P) == {n \in P : g.state[n] = "Computing"}

\* What becomes of g when the cascades that have yet to visit P are through.
Completion(g, P) ==
    LET h == Cascade(g, Served(g, P))
    IN  [h EXCEPT !.deferred = @ \union InProgress(g, P)]

\* What the frames F have yet to visit, the events they have yet to fire or are firing,
\* and the results they are going to install in the cell c.
LeftOf(F) == UNION {f.left : f \in {g \in F : g.in = "invalidate"}}
EventsOf(F) == {f.node : f \in {g \in F : g.in = "invalidate"}} \union
               {f.event : f \in {g \in F : g.in = "fire"}}
ResultsOf(F, c) == {f.result : f \in {g \in F : g.in = "set" /\ g.cell = c}}

\* A set() called by a handler within another one is a later call.
Nested(s) ==
    \A i, j \in DOMAIN s :
        i < j /\ s[i].in = "set" /\ s[j].in = "set" => s[i].result > s[j].result

Shaped ==
    /\ TypeOK
    /\ stack \in Seq(Frame)
    /\ Nested(stack)
    /\ handlers \in [Event -> SUBSET Handler]

\* What is not there yet is linked to nothing, and nobody has been told to invalidate it.
Blank ==
    \A n \in Node \ Existing :
        /\ graph.state[n] = "Computing"
        /\ n \notin graph.deferred /\ n \notin LeftOf(Range(stack))
        /\ \A m \in Node : n \notin graph.dependencies[m] /\ m \notin graph.dependencies[n]

\* Who read a withdrawn value will be visited, or was when it could only be flagged.
Rests ==
    \A n \in Node : \A d \in graph.dependencies[n] :
        graph.state[d] = "Invalidated" =>
            \/ n \in LeftOf(Range(stack)) \/ n \in skipped
            \/ graph.state[n] = "Computing" /\ n \in graph.deferred

\* The graph is on its way to what the one-step account says.
Completes == expected = Completion(graph, LeftOf(Range(stack)))

\* A withdrawn Computed has lost its handlers, or is going to when it has fired.
Fires ==
    \A n \in Node :
        graph.state[n] = "Invalidated" =>
            handlers[n] = {} \/ n \in silenced \/ n \in EventsOf(Range(stack))

\* What a MutableState refers to is one of its own, complete; a set() in progress is of
\* its last call or an earlier one.
CellsShaped ==
    /\ \A n \in DOMAIN value : graph.state[n] # "Computing" /\ n # Sink
    /\ \A c \in Cell :
          /\ snapshot[c] \in DOMAIN value /\ value[snapshot[c]].cell = c
          /\ result[c] <= sets
          /\ \A r \in ResultsOf(Range(stack), c) : r <= result[c]

\* A set() in progress has withdrawn the value it is going to replace, unless one nested
\* in it has brought another.
Replacing ==
    \A c \in Cell : \A r \in ResultsOf(Range(stack), c) :
        \/ graph.state[snapshot[c]] = "Invalidated"
        \/ \E n \in DOMAIN value : value[n].cell = c /\ value[n].result >= r

\* The last result is there, or on its way; and what it has replaced is withdrawn.
Latest ==
    \A c \in Cell \ spoiled :
        /\ value[snapshot[c]].result = result[c] \/ result[c] \in ResultsOf(Range(stack), c)
        /\ \A n \in DOMAIN value :
              value[n].cell = c /\ n # snapshot[c] => graph.state[n] = "Invalidated"

\* The inductive invariant.
IInv ==
    /\ Shaped
    /\ Linked(graph)
    /\ Settled(graph)
    /\ Blank
    /\ Rests
    /\ Completes
    /\ Fires
    /\ CellsShaped
    /\ Replacing
    /\ Latest

-----------------------------------------------------------------------------
(***************************************************************************)
(* Cascades compose: on a graph, the order in which they visit their nodes *)
(* makes no difference.                                                    *)
(***************************************************************************)

\* Two graphs are the same when each field is the same for each node.
LEMMA SameGraph ==
    ASSUME NEW g \in Graph, NEW h \in Graph,
           \A n \in Node : g.state[n] = h.state[n],
           \A n \in Node : g.dependencies[n] = h.dependencies[n],
           \A n, x \in Node : x \in g.dependants[n] <=> x \in h.dependants[n],
           g.output = h.output, g.deferred = h.deferred, g.armed = h.armed,
           g.hooked = h.hooked
    PROVE  g = h
<1>1. /\ g.state \in [Node -> ConsistencyState] /\ h.state \in [Node -> ConsistencyState]
      /\ g.dependencies \in [Node -> SUBSET Node] /\ h.dependencies \in [Node -> SUBSET Node]
      /\ g.dependants \in [Node -> SUBSET Node] /\ h.dependants \in [Node -> SUBSET Node]
  BY DEF Graph
<1>2. ASSUME NEW n \in Node
      PROVE  g.dependants[n] = h.dependants[n]
  <2>1. g.dependants[n] \in SUBSET Node /\ h.dependants[n] \in SUBSET Node
    BY <1>1
  <2> QED BY <2>1
<1>3. g.state = h.state /\ g.dependencies = h.dependencies /\ g.dependants = h.dependants
  BY <1>1, <1>2
<1> QED BY <1>3 DEF Graph

\* The fields a walk leaves alone or shrinks, which InvalidatedFields does not list.
LEMMA InvalidatedRest ==
    ASSUME NEW g \in Graph, NEW R
    PROVE  /\ Invalidated(g, R).output = g.output
           /\ Invalidated(g, R).hooked = g.hooked \ R
<1> DEFINE cut == Detached(g, R)
<1>1. cut.output = g.output /\ cut.hooked = g.hooked /\ DOMAIN cut = DOMAIN g
  BY DEF Graph, Detached
<1>2. {"state", "output", "deferred", "armed", "hooked"} \subseteq DOMAIN g
  BY DEF Graph
<1> HIDE DEF cut
<1> QED BY <1>1, <1>2 DEF Invalidated, cut

\* What each field is when the cascades that have yet to visit P have withdrawn R.
CompletedFrom(h, g, P, R) ==
    /\ h \in Graph
    /\ \A n \in Node : h.state[n] = IF n \in R THEN "Invalidated" ELSE g.state[n]
    /\ \A n \in Node : h.dependencies[n] = IF n \in R THEN {} ELSE g.dependencies[n]
    /\ \A n, x \in Node :
         x \in h.dependants[n] <=>
             x \in g.dependants[n] /\ n \notin R /\ ~(x \in R /\ n \in g.dependencies[x])
    /\ h.output = g.output
    /\ h.deferred = g.deferred \union Met(g, R) \union InProgress(g, P)
    /\ h.armed = g.armed \ R
    /\ h.hooked = g.hooked \ R

\* Completion, field by field.
LEMMA CompletionFields ==
    ASSUME NEW g \in Graph, NEW P \in SUBSET Node
    PROVE  CompletedFrom(Completion(g, P), g, P, Reached(g, Served(g, P)))
<1> DEFINE R == Reached(g, Served(g, P))
           i == Invalidated(g, R)
           h == Completion(g, P)
<1>1. R \in SUBSET Node /\ InProgress(g, P) \in SUBSET Node
  BY DEF Reached, InProgress
<1>2. h = [i EXCEPT !.deferred = @ \union InProgress(g, P)]
  BY DEF Completion, Cascade
<1> HIDE DEF R, h
<1>3. /\ i \in Graph
      /\ \A n \in Node :
           /\ i.state[n] = IF n \in R THEN "Invalidated" ELSE g.state[n]
           /\ i.dependencies[n] = IF n \in R THEN {} ELSE g.dependencies[n]
           /\ i.dependants[n] =
                IF n \in R THEN {}
                ELSE {m \in g.dependants[n] : ~(m \in R /\ n \in g.dependencies[m])}
      /\ i.deferred = g.deferred \union Met(g, R)
      /\ i.armed = g.armed \ R
  BY <1>1, InvalidatedFields
<1>4. i.output = g.output /\ i.hooked = g.hooked \ R
  BY InvalidatedRest
<1> HIDE DEF i
<1>5. /\ h \in Graph
      /\ h.state = i.state /\ h.dependencies = i.dependencies /\ h.dependants = i.dependants
      /\ h.output = i.output /\ h.armed = i.armed /\ h.hooked = i.hooked
      /\ h.deferred = i.deferred \union InProgress(g, P)
  BY <1>1, <1>2, <1>3 DEF Graph
<1> QED BY <1>3, <1>4, <1>5 DEF h, R, CompletedFrom

\* Nothing is under way when nothing has to be visited.
LEMMA CompletionOfNone ==
    ASSUME NEW g \in Graph
    PROVE  Completion(g, {}) = g
<1> DEFINE R == Reached(g, Served(g, {}))
           h == Completion(g, {})
<1>1. R = {}
  <2>1. Served(g, {}) = {} /\ CascadeClosed(g, {})
    BY DEF Served, CascadeClosed
  <2>2. Reached(g, {}) \subseteq {}
    BY <2>1, ReachedLeast
  <2> QED BY <2>1, <2>2
<1>2. Met(g, {}) = {} /\ InProgress(g, {}) = {}
  BY DEF Met, InProgress
<1>3. CompletedFrom(h, g, {}, R)
  BY CompletionFields
<1> HIDE DEF R, h
<1>4. /\ \A n \in Node : h.state[n] = g.state[n]
      /\ \A n \in Node : h.dependencies[n] = g.dependencies[n]
      /\ \A n, x \in Node : x \in h.dependants[n] <=> x \in g.dependants[n]
  BY <1>1, <1>3 DEF CompletedFrom
<1>5. /\ h.output = g.output /\ h.deferred = g.deferred
      /\ h.armed = g.armed /\ h.hooked = g.hooked
  BY <1>1, <1>2, <1>3 DEF CompletedFrom
<1>6. h = g
  <2>1. h \in Graph
    BY <1>3 DEF CompletedFrom
  <2> QED BY <1>4, <1>5, <2>1, SameGraph
<1> QED BY <1>6 DEF h

\* What a Computed drops when it is withdrawn.
WithdrawnFrom(h, g, m) ==
    /\ h \in Graph
    /\ \A n \in Node : h.state[n] = IF n = m THEN "Invalidated" ELSE g.state[n]
    /\ \A n \in Node : h.dependencies[n] = IF n = m THEN {} ELSE g.dependencies[n]
    /\ \A n, x \in Node :
         x \in h.dependants[n] <=>
             x \in g.dependants[n] /\ n # m /\ ~(x = m /\ n \in g.dependencies[x])
    /\ h.output = g.output
    /\ h.deferred = g.deferred
    /\ h.armed = g.armed \ {m}
    /\ h.hooked = g.hooked \ {m}

\* Withdrawn, field by field.
LEMMA WithdrawnFields ==
    ASSUME NEW g \in Graph, NEW m \in Node
    PROVE  WithdrawnFrom(Withdrawn(g, m), g, m)
<1> DEFINE cut == Detached(g, {m})
           h == Withdrawn(g, m)
           ies == [n \in Node |-> IF n \in {m} THEN {} ELSE g.dependencies[n]]
           ants == [n \in Node |-> IF n \in {m} THEN {}
                      ELSE {x \in g.dependants[n] : ~(x \in {m} /\ n \in g.dependencies[x])}]
<1>1. cut = [g EXCEPT !.dependencies = ies, !.dependants = ants]
  BY DEF Detached
<1>2. ies \in [Node -> SUBSET Node] /\ ants \in [Node -> SUBSET Node]
  BY DEF Graph
<1>3. h = [cut EXCEPT !.state[m] = "Invalidated", !.armed = @ \ {m}, !.hooked = @ \ {m}]
  BY DEF Withdrawn
<1> HIDE DEF cut, ies, ants, h
<1>4. /\ cut \in Graph
      /\ cut.state = g.state /\ cut.dependencies = ies /\ cut.dependants = ants
      /\ cut.output = g.output /\ cut.deferred = g.deferred
      /\ cut.armed = g.armed /\ cut.hooked = g.hooked
  BY <1>1, <1>2 DEF Graph
<1>5. /\ h \in Graph
      /\ h.dependencies = cut.dependencies /\ h.dependants = cut.dependants
      /\ h.output = cut.output /\ h.deferred = cut.deferred
      /\ h.armed = cut.armed \ {m} /\ h.hooked = cut.hooked \ {m}
      /\ h.state = [cut.state EXCEPT ![m] = "Invalidated"]
  BY <1>3, <1>4 DEF Graph, ConsistencyState
<1>6. ASSUME NEW n \in Node
      PROVE  /\ h.state[n] = IF n = m THEN "Invalidated" ELSE g.state[n]
             /\ h.dependencies[n] = IF n = m THEN {} ELSE g.dependencies[n]
             /\ h.dependants[n] =
                  IF n = m THEN {}
                  ELSE {x \in g.dependants[n] : ~(x = m /\ n \in g.dependencies[x])}
  BY <1>4, <1>5 DEF ies, ants, Graph
<1> QED BY <1>4, <1>5, <1>6 DEF h, WithdrawnFrom

\* What one visit of a cascade adds to what it has to visit.
Found(g, m) == IF g.state[m] = "Consistent" THEN g.dependants[m] ELSE {}

\* A visit to a served node that a cascade will reach changes nothing about what it
\* will have reached in the end.
LEMMA VisitReaches ==
    ASSUME NEW g \in Graph, NEW P \in SUBSET Node, NEW Q \in SUBSET Node,
           NEW m \in Reached(g, Served(g, P)), g.state[m] = "Consistent",
           P \ {m} \subseteq Q, g.dependants[m] \subseteq Q,
           Q \subseteq P \union g.dependants[m]
    PROVE  LET R == Reached(g, Served(g, P))
               S == Reached(Withdrawn(g, m), Served(Withdrawn(g, m), Q))
           IN  R = S \union {m} /\ m \notin S
<1> DEFINE h == Withdrawn(g, m)
           R == Reached(g, Served(g, P))
           S == Reached(h, Served(h, Q))
<1>0. m \in Node
  BY DEF Reached
<1>1. WithdrawnFrom(h, g, m)
  BY <1>0, WithdrawnFields
<1> HIDE DEF h
<1>2. Served(g, P) \in SUBSET Node /\ Served(h, Q) \in SUBSET Node
  BY DEF Served
<1>3. /\ Served(g, P) \subseteq R /\ R \in SUBSET Node /\ CascadeClosed(g, R)
      /\ Served(h, Q) \subseteq S /\ S \in SUBSET Node /\ CascadeClosed(h, S)
  BY <1>1, <1>2, ReachedClosed DEF WithdrawnFrom
<1>4. \A n \in Node : g.dependants[n] \in SUBSET Node
  BY DEF Graph
<1>5. R \subseteq S \union {m}
  <2>1. Served(g, P) \subseteq S \union {m}
    BY <1>1, <1>3 DEF Served, WithdrawnFrom
  <2>2. ASSUME NEW n \in S \union {m}, NEW x \in g.dependants[n], g.state[x] = "Consistent"
        PROVE  x \in S \union {m}
    <3>1. x \in Node /\ n \in Node
      BY <1>0, <1>3, <1>4
    <3>2. CASE x = m
      BY <3>2
    <3>3. CASE x # m /\ n = m
      BY <1>1, <1>3, <2>2, <3>1, <3>3 DEF Served, WithdrawnFrom
    <3>4. CASE x # m /\ n # m
      <4>1. x \in h.dependants[n] /\ h.state[x] = "Consistent" /\ n \in S
        BY <1>1, <2>2, <3>1, <3>4 DEF WithdrawnFrom
      <4> QED BY <1>3, <4>1 DEF CascadeClosed
    <3> QED BY <3>2, <3>3, <3>4
  <2>3. CascadeClosed(g, S \union {m})
    BY <2>2 DEF CascadeClosed
  <2> HIDE DEF S
  <2> QED BY <1>0, <1>3, <2>1, <2>3, ReachedLeast
<1>6. S \subseteq R \ {m}
  <2>1. Served(h, Q) \subseteq R \ {m}
    <3>1. ASSUME NEW x \in Q, h.state[x] = "Consistent"
          PROVE  x \in R \ {m}
      <4>1. x # m /\ g.state[x] = "Consistent" /\ x \in Node
        BY <1>1, <3>1 DEF WithdrawnFrom
      <4>2. CASE x \in P
        BY <1>3, <4>1, <4>2 DEF Served
      <4>3. CASE x \in g.dependants[m]
        BY <1>3, <4>1, <4>3 DEF CascadeClosed
      <4> QED BY <3>1, <4>2, <4>3
    <3> QED BY <3>1 DEF Served
  <2>2. ASSUME NEW n \in R \ {m}, NEW x \in h.dependants[n], h.state[x] = "Consistent"
        PROVE  x \in R \ {m}
    <3>0. n \in Node /\ h.dependants[n] \in SUBSET Node
      BY <1>1, <1>3 DEF WithdrawnFrom, Graph
    <3>1. n \in Node /\ x \in g.dependants[n] /\ x \in Node
      BY <1>1, <3>0 DEF WithdrawnFrom
    <3>2. x # m /\ g.state[x] = "Consistent"
      BY <1>1, <2>2, <3>1 DEF WithdrawnFrom
    <3> QED BY <1>3, <3>1, <3>2 DEF CascadeClosed
  <2>3. CascadeClosed(h, R \ {m})
    BY <2>2 DEF CascadeClosed
  <2> HIDE DEF R
  <2> QED BY <1>1, <1>3, <2>1, <2>3, ReachedLeast DEF WithdrawnFrom
<1> QED BY <1>5, <1>6 DEF h

\* A cascade withdraws served nodes only.
LEMMA ReachedServed ==
    ASSUME NEW g \in Graph, NEW P \in SUBSET Node
    PROVE  \A n \in Reached(g, Served(g, P)) : n \in Node /\ g.state[n] = "Consistent"
<1> DEFINE S == {n \in Node : g.state[n] = "Consistent"}
<1>1. \A n \in Node : g.dependants[n] \in SUBSET Node
  BY DEF Graph
<1>2. CascadeClosed(g, S)
  BY <1>1 DEF CascadeClosed
<1>3. Served(g, P) \subseteq S
  BY DEF Served
<1> HIDE DEF S
<1>4. Reached(g, Served(g, P)) \subseteq S
  <2>1. S \in SUBSET Node
    BY DEF S
  <2> QED BY <1>2, <1>3, <2>1, ReachedLeast
<1> QED BY <1>4 DEF S

\* Graphs completed alike are the same.
LEMMA CompletedAlike ==
    ASSUME NEW g \in Graph, NEW h \in Graph, NEW k, NEW l, NEW m \in Node,
           NEW P \in SUBSET Node, NEW R \in SUBSET Node,
           NEW Q \in SUBSET Node, NEW S \in SUBSET Node,
           WithdrawnFrom(h, g, m), CompletedFrom(k, g, P, R), CompletedFrom(l, h, Q, S),
           R = S \union {m}, m \notin S, \A x \in R : g.state[x] = "Consistent",
           P \ {m} \subseteq Q, g.dependants[m] \subseteq Q,
           Q \subseteq P \union g.dependants[m]
    PROVE  k = l
<1>1. /\ \A n \in Node : k.state[n] = l.state[n]
      /\ \A n \in Node : k.dependencies[n] = l.dependencies[n]
  BY DEF CompletedFrom, WithdrawnFrom
<1>5. ASSUME NEW n \in Node, NEW x \in Node
      PROVE  x \in k.dependants[n] <=> x \in l.dependants[n]
  <2>1. x \in k.dependants[n] <=>
          x \in g.dependants[n] /\ n \notin R /\ ~(x \in R /\ n \in g.dependencies[x])
    BY DEF CompletedFrom
  <2>2. x \in l.dependants[n] <=>
          x \in h.dependants[n] /\ n \notin S /\ ~(x \in S /\ n \in h.dependencies[x])
    BY DEF CompletedFrom
  <2>3. /\ x \in h.dependants[n] <=>
             x \in g.dependants[n] /\ n # m /\ ~(x = m /\ n \in g.dependencies[x])
        /\ x # m => h.dependencies[x] = g.dependencies[x]
    BY DEF WithdrawnFrom
  <2> QED BY <2>1, <2>2, <2>3
<1>2. k.output = l.output /\ k.armed = l.armed /\ k.hooked = l.hooked
  BY DEF CompletedFrom, WithdrawnFrom
<1>3. k.deferred = l.deferred
  <2> DEFINE F == Met(g, R) \union InProgress(g, P)
             G == Met(h, S) \union InProgress(h, Q)
  <2>0. /\ m \in R /\ g.dependants[m] \in SUBSET Node
        /\ \A n \in Node \ {m} : h.state[n] = g.state[n]
        /\ h.state[m] = "Invalidated"
        /\ \A n \in S : n \in R /\ n # m /\ n \in Node
    BY DEF Graph, WithdrawnFrom
  <2>1. ASSUME NEW n \in S, NEW x \in Node \ {m}
        PROVE  x \in g.dependants[n] <=> x \in h.dependants[n]
    BY <2>0 DEF WithdrawnFrom
  <2>2. ASSUME NEW x \in Met(g, R)
        PROVE  x \in G
    <3>1. x \in Node \ R /\ g.state[x] = "Computing"
      BY DEF Met
    <3>2. PICK n \in R : x \in g.dependants[n]
      BY DEF Met
    <3>3. CASE n = m
      BY <2>0, <3>1, <3>2, <3>3 DEF InProgress
    <3>4. CASE n # m
      BY <2>0, <2>1, <3>1, <3>2, <3>4 DEF Met
    <3> QED BY <3>3, <3>4
  <2>3. ASSUME NEW x \in InProgress(g, P)
        PROVE  x \in G
    BY <2>0 DEF InProgress
  <2>4. ASSUME NEW x \in Met(h, S)
        PROVE  x \in F
    <3>1. x \in Node \ S /\ h.state[x] = "Computing"
      BY DEF Met
    <3>2. PICK n \in S : x \in h.dependants[n]
      BY DEF Met
    <3>3. x # m /\ g.state[x] = "Computing"
      BY <2>0, <3>1
    <3> QED BY <2>0, <2>1, <3>1, <3>2, <3>3 DEF Met
  <2>5. ASSUME NEW x \in InProgress(h, Q)
        PROVE  x \in F
    <3>1. x \in Q /\ x \in Node /\ x # m /\ g.state[x] = "Computing" /\ x \notin R
      BY <2>0 DEF InProgress
    <3>2. CASE x \in P
      BY <3>1, <3>2 DEF InProgress
    <3>3. CASE x \in g.dependants[m]
      BY <2>0, <3>1, <3>3 DEF Met
    <3> QED BY <3>1, <3>2, <3>3
  <2>6. F = G
    BY <2>2, <2>3, <2>4, <2>5
  <2> HIDE DEF F, G
  <2>7. k.deferred = g.deferred \union F /\ l.deferred = h.deferred \union G
    BY DEF CompletedFrom, F, G
  <2> QED BY <2>6, <2>7 DEF WithdrawnFrom
<1>4. k \in Graph /\ l \in Graph
  BY DEF CompletedFrom
<1> QED BY <1>1, <1>2, <1>3, <1>4, <1>5, SameGraph

\* A walk looks at the links, and whether what it finds is served.
LEMMA SameWalk ==
    ASSUME NEW g \in Graph, NEW h \in Graph, h.dependants = g.dependants,
           \A n \in Node : \A m \in g.dependants[n] : h.state[m] = g.state[m],
           NEW roots
    PROVE  Reached(h, roots) = Reached(g, roots)
<1>1. ASSUME NEW S \in SUBSET Node
      PROVE  CascadeClosed(h, S) <=> CascadeClosed(g, S)
  BY DEF CascadeClosed
<1> QED BY <1>1 DEF Reached

\* When a call visits m, its dependants are to be visited in its place.
LEMMA VisitCompletes ==
    ASSUME NEW g \in Graph, NEW P \in SUBSET Node, NEW Q \in SUBSET Node, NEW m \in P,
           P \ {m} \subseteq Q, Found(g, m) \subseteq Q, Q \subseteq P \union Found(g, m)
    PROVE  Completion(Entered(g, m), Q) = Completion(g, P)
<1>0. m \in Node /\ g.state[m] \in ConsistencyState
  BY DEF Graph
<1>1. CASE g.state[m] = "Consistent"
  <2> DEFINE h == Withdrawn(g, m)
             R == Reached(g, Served(g, P))
             S == Reached(h, Served(h, Q))
  <2>1. Entered(g, m) = h /\ Found(g, m) = g.dependants[m]
    BY <1>1 DEF Entered, Found
  <2>2. m \in R
    BY <1>0, <1>1 DEF Served, Reached
  <2>3. R = S \union {m} /\ m \notin S
    BY <1>1, <2>1, <2>2, VisitReaches
  <2>4. R \in SUBSET Node /\ S \in SUBSET Node
    BY DEF Reached
  <2>10. WithdrawnFrom(h, g, m)
    BY <1>0, WithdrawnFields
  <2>5. WithdrawnFrom(h, g, m) /\ h \in Graph
    BY <2>10 DEF WithdrawnFrom
  <2>6. CompletedFrom(Completion(g, P), g, P, R)
    BY CompletionFields
  <2>7. CompletedFrom(Completion(h, Q), h, Q, S)
    BY <2>5, CompletionFields
  <2>8. \A x \in R : g.state[x] = "Consistent"
    BY ReachedServed
  <2> HIDE DEF h, R, S
  <2>9. Completion(g, P) = Completion(h, Q)
    BY <1>0, <2>1, <2>3, <2>4, <2>5, <2>6, <2>7, <2>8, CompletedAlike
  <2> QED BY <2>1, <2>9
<1>2. CASE g.state[m] # "Consistent"
  <2>1. Served(g, Q) = Served(g, P)
    BY <1>2 DEF Served, Found
  <2>2. CASE g.state[m] = "Invalidated"
    <3>1. Entered(g, m) = g /\ InProgress(g, Q) = InProgress(g, P)
      BY <1>2, <2>2 DEF Entered, InProgress, Found
    <3> QED BY <2>1, <3>1 DEF Completion
  <2>3. CASE g.state[m] = "Computing"
    <3> DEFINE h == [g EXCEPT !.deferred = @ \union {m}]
    <3>1. Entered(g, m) = h
      BY <2>3 DEF Entered
    <3>2. /\ h \in Graph
          /\ h.state = g.state
          /\ h.dependencies = g.dependencies /\ h.dependants = g.dependants
          /\ h.output = g.output /\ h.armed = g.armed /\ h.hooked = g.hooked
          /\ h.deferred = g.deferred \union {m}
      BY <1>0 DEF Graph
    <3> DEFINE R == Reached(g, Served(g, P))
    <3>3. Reached(h, Served(h, Q)) = R
      <4>1. Served(h, Q) = Served(g, P)
        BY <2>1, <3>2 DEF Served
      <4> HIDE DEF h
      <4> QED BY <3>2, <4>1, SameWalk
    <3>4. CompletedFrom(Completion(g, P), g, P, R)
      BY CompletionFields
    <3>5. CompletedFrom(Completion(h, Q), h, Q, R)
      BY <3>2, <3>3, CompletionFields
    <3> HIDE DEF h, R
    <3>6. /\ Met(h, R) = Met(g, R)
          /\ InProgress(h, Q) \union {m} = InProgress(g, P)
      BY <1>2, <2>3, <3>2 DEF Met, InProgress, Found
    <3>7. Completion(h, Q).deferred = Completion(g, P).deferred
      BY <3>2, <3>4, <3>5, <3>6 DEF CompletedFrom
    <3>8. Completion(h, Q) = Completion(g, P)
      <4> DEFINE k == Completion(g, P)
                 l == Completion(h, Q)
      <4>1. CompletedFrom(k, g, P, R) /\ CompletedFrom(l, h, Q, R) /\ l.deferred = k.deferred
        BY <3>4, <3>5, <3>7
      <4> HIDE DEF k, l
      <4>2. k \in Graph /\ l \in Graph
        BY <4>1 DEF CompletedFrom
      <4>3. /\ \A n \in Node : l.state[n] = k.state[n]
            /\ \A n \in Node : l.dependencies[n] = k.dependencies[n]
            /\ \A n, x \in Node : x \in l.dependants[n] <=> x \in k.dependants[n]
        BY <3>2, <4>1 DEF CompletedFrom
      <4>4. l.output = k.output /\ l.armed = k.armed /\ l.hooked = k.hooked
        BY <3>2, <4>1 DEF CompletedFrom
      <4>5. l = k
        BY <4>1, <4>2, <4>3, <4>4, SameGraph
      <4> QED BY <4>5 DEF k, l
    <3> QED BY <3>1, <3>8
  <2> QED BY <1>0, <1>2, <2>2, <2>3 DEF ConsistencyState
<1> QED BY <1>1, <1>2

\* A cascade from n that follows other ones reaches what they have left of its part.
LEMMA RootReaches ==
    ASSUME NEW g \in Graph, NEW P \in SUBSET Node, NEW n \in Node, g.state[n] = "Consistent",
           NEW R, R = Reached(g, Served(g, P)), n \notin R,
           NEW h, CompletedFrom(h, g, P, R)
    PROVE  /\ Reached(g, Served(g, P \union {n})) = R \union Reached(h, {n})
           /\ Reached(h, {n}) \intersect R = {}
<1> DEFINE Q == Reached(h, {n})
           T == Reached(g, Served(g, P \union {n}))
<1>1. h \in Graph /\ \A m \in Node : g.dependants[m] \in SUBSET Node /\ h.dependants[m] \in SUBSET Node
  BY DEF CompletedFrom, Graph
<1>2. Served(g, P) \in SUBSET Node /\ Served(g, P \union {n}) = Served(g, P) \union {n}
  BY DEF Served
<1>3. /\ Served(g, P) \subseteq R /\ R \in SUBSET Node /\ CascadeClosed(g, R)
      /\ Served(g, P) \union {n} \subseteq T /\ T \in SUBSET Node /\ CascadeClosed(g, T)
      /\ n \in Q /\ Q \in SUBSET Node /\ CascadeClosed(h, Q)
  <2>1. Served(g, P) \subseteq R /\ R \in SUBSET Node /\ CascadeClosed(g, R)
    BY <1>2, ReachedClosed
  <2>2. Served(g, P) \union {n} \subseteq T /\ T \in SUBSET Node /\ CascadeClosed(g, T)
    <3>1. Served(g, P \union {n}) \in SUBSET Node
      BY <1>2
    <3>2. /\ Served(g, P \union {n}) \subseteq T /\ T \in SUBSET Node
          /\ CascadeClosed(g, T)
      BY <3>1, ReachedClosed
    <3> HIDE DEF T
    <3> QED BY <1>2, <3>2
  <2>3. {n} \subseteq Q /\ Q \in SUBSET Node /\ CascadeClosed(h, Q)
    BY <1>1, ReachedClosed
  <2> QED BY <2>1, <2>2, <2>3
<1>4. \A m \in Node : h.state[m] = IF m \in R THEN "Invalidated" ELSE g.state[m]
  BY DEF CompletedFrom
<1>5. \A m, x \in Node :
         x \in h.dependants[m] <=>
             x \in g.dependants[m] /\ m \notin R /\ ~(x \in R /\ m \in g.dependencies[x])
  BY DEF CompletedFrom
<1>6. Q \intersect R = {}
  <2>1. ASSUME NEW m \in Q \ R, NEW x \in h.dependants[m], h.state[x] = "Consistent"
        PROVE  x \in Q \ R
    BY <1>1, <1>3, <1>4, <2>1 DEF CascadeClosed
  <2>2. CascadeClosed(h, Q \ R)
    BY <2>1 DEF CascadeClosed
  <2> DEFINE U == Q \ R
  <2>3. U \in SUBSET Node /\ {n} \subseteq U /\ CascadeClosed(h, U)
    BY <1>3, <2>2
  <2>4. Q \subseteq U
    <3> HIDE DEF U
    <3> QED BY <1>1, <2>3, ReachedLeast
  <2> HIDE DEF Q
  <2> QED BY <2>4
<1>7. T \subseteq R \union Q
  <2>1. ASSUME NEW m \in R \union Q, NEW x \in g.dependants[m], g.state[x] = "Consistent"
        PROVE  x \in R \union Q
    <3>1. m \in Node /\ x \in Node
      BY <1>1, <1>3
    <3>2. CASE m \in R
      BY <1>3, <2>1, <3>2 DEF CascadeClosed
    <3>3. CASE m \in Q /\ m \notin R /\ x \notin R
      <4>1. x \in h.dependants[m] /\ h.state[x] = "Consistent"
        BY <1>4, <1>5, <2>1, <3>1, <3>3
      <4> QED BY <1>3, <3>3, <4>1 DEF CascadeClosed
    <3> QED BY <2>1, <3>2, <3>3
  <2>2. CascadeClosed(g, R \union Q)
    BY <2>1 DEF CascadeClosed
  <2>3. Served(g, P \union {n}) \subseteq R \union Q
    BY <1>2, <1>3
  <2>4. R \union Q \in SUBSET Node
    BY <1>3
  <2> HIDE DEF Q
  <2> QED BY <2>2, <2>3, <2>4, ReachedLeast
<1>8. R \subseteq T
  BY <1>3, ReachedLeast
<1>9. Q \subseteq T
  <2>1. ASSUME NEW m \in T, NEW x \in h.dependants[m], h.state[x] = "Consistent"
        PROVE  x \in T
    <3>1. m \in Node /\ x \in Node
      BY <1>1, <1>3
    <3>2. x \in g.dependants[m] /\ g.state[x] = "Consistent"
      BY <1>4, <1>5, <2>1, <3>1
    <3> QED BY <1>3, <3>2 DEF CascadeClosed
  <2>2. CascadeClosed(h, T)
    BY <2>1 DEF CascadeClosed
  <2>3. {n} \subseteq T
    BY <1>3
  <2> HIDE DEF T
  <2> QED BY <1>1, <1>3, <2>2, <2>3, ReachedLeast
<1> QED BY <1>6, <1>7, <1>8, <1>9

\* A cascade that was added to those under way is as one that follows them.
LEMMA RootJoins ==
    ASSUME NEW g \in Graph, NEW P \in SUBSET Node, NEW n \in Node
    PROVE  Completion(g, P \union {n}) = Invalidate(Completion(g, P), n)
<1> DEFINE R == Reached(g, Served(g, P))
           i == Cascade(g, Served(g, P))
           h == Completion(g, P)
           k == Completion(g, P \union {n})
<1>0. g.state[n] \in ConsistencyState
  BY DEF Graph
<1>1. CompletedFrom(h, g, P, R) /\ R \in SUBSET Node
  BY CompletionFields DEF Reached
<1>2. \A x \in R : g.state[x] = "Consistent"
  BY ReachedServed
<1>3. h \in Graph /\ h.state[n] = IF n \in R THEN "Invalidated" ELSE g.state[n]
  BY <1>1 DEF CompletedFrom
<1>4. CASE g.state[n] = "Invalidated"
  <2>1. Served(g, P \union {n}) = Served(g, P) /\ InProgress(g, P \union {n}) = InProgress(g, P)
    BY <1>4 DEF Served, InProgress
  <2>2. k = h
    BY <2>1 DEF Completion
  <2>3. Invalidate(h, n) = h
    <3> HIDE DEF h, R
    <3> QED BY <1>3, <1>4 DEF Invalidate
  <2> QED BY <2>2, <2>3
<1>5. CASE g.state[n] = "Computing"
  <2>1. Served(g, P \union {n}) = Served(g, P)
    BY <1>5 DEF Served
  <2>2. InProgress(g, P \union {n}) = InProgress(g, P) \union {n}
    BY <1>5 DEF InProgress
  <2>3. h.state[n] = "Computing"
    BY <1>2, <1>3, <1>5
  <2>4. i \in Graph
    <3>1. i = Invalidated(g, R)
      BY DEF Cascade
    <3> QED BY <1>1, <3>1, InvalidatedFields
  <2> DEFINE X == InProgress(g, P)
  <2>5. h = [i EXCEPT !.deferred = @ \union X]
    BY DEF Completion
  <2>6. k = [i EXCEPT !.deferred = @ \union (X \union {n})]
    BY <2>1, <2>2 DEF Completion
  <2>7. Invalidate(h, n) = [h EXCEPT !.deferred = @ \union {n}]
    <3> HIDE DEF h
    <3> QED BY <2>3 DEF Invalidate
  <2> HIDE DEF h, k, i, X
  <2>8. [h EXCEPT !.deferred = @ \union {n}] = [i EXCEPT !.deferred = @ \union (X \union {n})]
    BY <2>4, <2>5 DEF Graph
  <2> QED BY <2>6, <2>7, <2>8 DEF h, k
<1>6. CASE g.state[n] = "Consistent" /\ n \in R
  <2>1. Invalidate(h, n) = h
    <3> HIDE DEF h, R
    <3> QED BY <1>3, <1>6 DEF Invalidate
  <2>2. InProgress(g, P \union {n}) = InProgress(g, P)
    BY <1>6 DEF InProgress
  <2>3. Reached(g, Served(g, P \union {n})) = R
    <3>1. Served(g, P) \in SUBSET Node /\ Served(g, P \union {n}) = Served(g, P) \union {n}
      BY <1>6 DEF Served
    <3>2. Served(g, P) \subseteq R /\ CascadeClosed(g, R)
      BY <3>1, ReachedClosed
    <3>3. Reached(g, Served(g, P \union {n})) \subseteq R
      <4>1. Served(g, P \union {n}) \subseteq R
        BY <1>6, <3>1, <3>2
      <4> HIDE DEF R
      <4> QED BY <1>1, <3>2, <4>1, ReachedLeast
    <3>4. R \subseteq Reached(g, Served(g, P \union {n}))
      BY <3>1 DEF Reached
    <3> QED BY <3>3, <3>4
  <2>4. k = h
    BY <2>2, <2>3 DEF Completion, Cascade
  <2> QED BY <2>1, <2>4
<1>7. CASE g.state[n] = "Consistent" /\ n \notin R
  <2> DEFINE Q == Reached(h, {n})
             T == R \union Q
             j == Invalidated(h, Q)
  <2>1. Invalidate(h, n) = j
    <3> HIDE DEF h, R
    <3> QED BY <1>3, <1>7 DEF Invalidate, Cascade
  <2>2. Reached(g, Served(g, P \union {n})) = T /\ Q \intersect R = {}
    <3> HIDE DEF h
    <3> QED BY <1>1, <1>7, RootReaches
  <2>3. CompletedFrom(k, g, P \union {n}, T)
    BY <2>2, CompletionFields
  <2>4. Q \in SUBSET Node
    BY DEF Reached
  <2>12. \A x \in T : g.state[x] = "Consistent"
    BY <2>2, ReachedServed
  <2> HIDE DEF h, R, Q, k, T
  <2>5. /\ j \in Graph
        /\ \A x \in Node :
             /\ j.state[x] = IF x \in Q THEN "Invalidated" ELSE h.state[x]
             /\ j.dependencies[x] = IF x \in Q THEN {} ELSE h.dependencies[x]
             /\ j.dependants[x] =
                  IF x \in Q THEN {}
                  ELSE {m \in h.dependants[x] : ~(m \in Q /\ x \in h.dependencies[m])}
        /\ j.deferred = h.deferred \union Met(h, Q)
        /\ j.armed = h.armed \ Q
    BY <1>3, <2>4, InvalidatedFields
  <2>6. j.output = h.output /\ j.hooked = h.hooked \ Q
    BY <1>3, InvalidatedRest
  <2> HIDE DEF j
  <2>7. \A x, m \in Node :
           m \in j.dependants[x] <=>
               m \in h.dependants[x] /\ x \notin Q /\ ~(m \in Q /\ x \in h.dependencies[m])
    BY <2>5
  <2>15. /\ \A x \in Node : j.state[x] = IF x \in Q THEN "Invalidated" ELSE h.state[x]
         /\ \A x \in Node : j.dependencies[x] = IF x \in Q THEN {} ELSE h.dependencies[x]
    BY <2>5
  <2>8. /\ \A x \in Node : j.state[x] = k.state[x]
        /\ \A x \in Node : j.dependencies[x] = k.dependencies[x]
    BY <1>1, <2>3, <2>15 DEF CompletedFrom, T
  <2>9. ASSUME NEW x \in Node, NEW m \in Node
        PROVE  m \in j.dependants[x] <=> m \in k.dependants[x]
    <3>1. m \in k.dependants[x] <=>
             m \in g.dependants[x] /\ x \notin T /\ ~(m \in T /\ x \in g.dependencies[m])
      BY <2>3 DEF CompletedFrom
    <3>2. /\ m \in h.dependants[x] <=>
               m \in g.dependants[x] /\ x \notin R /\ ~(m \in R /\ x \in g.dependencies[m])
          /\ m \notin R => h.dependencies[m] = g.dependencies[m]
      BY <1>1 DEF CompletedFrom
    <3> QED BY <2>2, <2>7, <3>1, <3>2 DEF T
  <2>10. j.output = k.output /\ j.armed = k.armed /\ j.hooked = k.hooked
    BY <1>1, <2>3, <2>5, <2>6 DEF CompletedFrom, T
  <2>11. j.deferred = k.deferred
    <3>1. InProgress(g, P \union {n}) = InProgress(g, P)
      BY <1>7 DEF InProgress
    <3>2. ASSUME NEW m \in Node, g.state[m] = "Computing"
          PROVE  m \in Met(g, T) <=> m \in Met(g, R) \/ m \in Met(h, Q)
      <4>1. m \notin R /\ m \notin T /\ m \notin Q
        BY <1>2, <2>12, <3>2 DEF T
      <4>2. h.state[m] = "Computing"
        BY <1>1, <3>2, <4>1 DEF CompletedFrom
      <4>3. ASSUME NEW x \in Q
            PROVE  x \in Node /\ (m \in h.dependants[x] <=> m \in g.dependants[x])
        BY <1>1, <2>2, <2>4, <4>1 DEF CompletedFrom
      <4> QED BY <3>2, <4>1, <4>2, <4>3 DEF Met, T
    <3>3. ASSUME NEW m \in Met(h, Q)
          PROVE  m \in Node /\ g.state[m] = "Computing"
      BY <1>1 DEF Met, CompletedFrom
    <3>4. Met(g, T) = Met(g, R) \union Met(h, Q)
      <4>1. /\ \A m \in Met(g, T) \union Met(g, R) : m \in Node /\ g.state[m] = "Computing"
        BY DEF Met
      <4> QED BY <3>2, <3>3, <4>1
    <3> QED BY <1>1, <2>3, <2>5, <3>1, <3>4 DEF CompletedFrom
  <2>13. k \in Graph
    BY <2>3 DEF CompletedFrom
  <2>14. j = k
    BY <2>5, <2>8, <2>9, <2>10, <2>11, <2>13, SameGraph
  <2> QED BY <2>1, <2>14 DEF h, k
<1> QED BY <1>0, <1>4, <1>5, <1>6, <1>7 DEF ConsistencyState

\* invalidate() called in the middle of cascades.
LEMMA RootCompletes ==
    ASSUME NEW g \in Graph, NEW P \in SUBSET Node, NEW n \in Node
    PROVE  Completion(Entered(g, n), P \union Found(g, n)) = Invalidate(Completion(g, P), n)
<1> DEFINE Q == P \union Found(g, n)
           S == P \union {n}
<1>1. Q \in SUBSET Node /\ S \in SUBSET Node /\ n \in S
  BY DEF Graph, Found
<1>2. S \ {n} \subseteq Q /\ Found(g, n) \subseteq Q /\ Q \subseteq S \union Found(g, n)
  OBVIOUS
<1> HIDE DEF Q, S
<1>3. Completion(Entered(g, n), Q) = Completion(g, S)
  BY <1>1, <1>2, VisitCompletes
<1>4. Completion(g, P \union {n}) = Invalidate(Completion(g, P), n)
  BY RootJoins
<1> QED BY <1>3, <1>4 DEF Q, S

\* The links stay exact, and lead to complete nodes, when a node is withdrawn.
LEMMA WithdrawnLinks ==
    ASSUME NEW g \in Graph, Linked(g), Settled(g), NEW m \in Node,
           NEW h, WithdrawnFrom(h, g, m)
    PROVE  h \in Graph /\ Linked(h) /\ Settled(h)
<1>1. h \in Graph
  BY DEF WithdrawnFrom
<1>2. \A n \in Node : h.dependencies[n] \subseteq g.dependencies[n] /\ g.dependencies[n] \in SUBSET Node
  BY DEF WithdrawnFrom, Graph
<1>3. Settled(h)
  BY <1>2 DEF Settled, WithdrawnFrom
<1>4. ASSUME NEW c \in Node, NEW d \in Node
      PROVE  c \in h.dependants[d] <=> d \in h.dependencies[c] /\ h.state[d] # "Invalidated"
  <2>1. c \in h.dependants[d] <=>
           c \in g.dependants[d] /\ d # m /\ ~(c = m /\ d \in g.dependencies[c])
    BY DEF WithdrawnFrom
  <2>2. c \in g.dependants[d] <=> d \in g.dependencies[c] /\ g.state[d] # "Invalidated"
    BY DEF Linked
  <2>3. /\ h.dependencies[c] = IF c = m THEN {} ELSE g.dependencies[c]
        /\ h.state[d] = IF d = m THEN "Invalidated" ELSE g.state[d]
    BY DEF WithdrawnFrom
  <2> QED BY <2>1, <2>2, <2>3
<1>5. ASSUME NEW c \in Node, h.state[c] = "Invalidated"
      PROVE  h.dependencies[c] = {}
  BY <1>5 DEF WithdrawnFrom, Linked
<1> QED BY <1>1, <1>3, <1>4, <1>5 DEF Linked

\* What the first stretch of invalidate() does to the graph.
EnteredFrom(h, g, m) ==
    /\ h \in Graph /\ Linked(h) /\ Settled(h)
    /\ \A n \in Node :
         h.state[n] = IF n = m /\ g.state[m] = "Consistent" THEN "Invalidated" ELSE g.state[n]
    /\ \A n \in Node : h.dependencies[n] \subseteq g.dependencies[n]
    /\ h.deferred = g.deferred \union (IF g.state[m] = "Computing" THEN {m} ELSE {})

\* Entered, field by field, as far as the invariant is concerned.
LEMMA EnteredFields ==
    ASSUME NEW g \in Graph, Linked(g), Settled(g), NEW m \in Node
    PROVE  EnteredFrom(Entered(g, m), g, m)
<1>0. g.state[m] \in ConsistencyState
  BY DEF Graph
<1>1. CASE g.state[m] = "Consistent"
  <2> DEFINE h == Withdrawn(g, m)
  <2>1. WithdrawnFrom(h, g, m)
    BY WithdrawnFields
  <2>2. Entered(g, m) = h
    BY <1>1 DEF Entered
  <2> HIDE DEF h
  <2>3. h \in Graph /\ Linked(h) /\ Settled(h)
    BY <2>1, WithdrawnLinks
  <2> QED BY <1>1, <2>1, <2>2, <2>3 DEF EnteredFrom, WithdrawnFrom
<1>2. CASE g.state[m] = "Computing"
  <2> DEFINE h == [g EXCEPT !.deferred = @ \union {m}]
  <2>1. Entered(g, m) = h
    BY <1>2 DEF Entered
  <2>2. /\ h \in Graph
        /\ h.state = g.state /\ h.dependencies = g.dependencies
        /\ h.dependants = g.dependants /\ h.deferred = g.deferred \union {m}
    BY DEF Graph
  <2> HIDE DEF h
  <2>3. Linked(h) /\ Settled(h)
    BY <2>2 DEF Linked, Settled
  <2> QED BY <1>2, <2>1, <2>2, <2>3 DEF EnteredFrom
<1>3. CASE g.state[m] = "Invalidated"
  <2>1. Entered(g, m) = g
    BY <1>3 DEF Entered
  <2> QED BY <1>3, <2>1 DEF EnteredFrom
<1> QED BY <1>0, <1>1, <1>2, <1>3 DEF ConsistencyState

\* Nobody depends on what is being computed.
LEMMA ComputingAlone ==
    ASSUME NEW g \in Graph, Linked(g), Settled(g), NEW c \in Node, g.state[c] = "Computing"
    PROVE  g.dependants[c] = {}
<1>1. g.dependants[c] \in SUBSET Node
  BY DEF Graph
<1> QED BY <1>1 DEF Linked, Settled

\* A cascade from a node without dependants withdraws it alone.
LEMMA WithdrawnAlone ==
    ASSUME NEW g \in Graph, NEW c \in Node, g.dependants[c] = {}
    PROVE  Cascade(g, {c}) = Withdrawn(g, c)
<1> DEFINE h == Cascade(g, {c})
           k == Withdrawn(g, c)
<1>0. PICK R : R = {c}
  OBVIOUS
<1>1. h = Invalidated(g, R)
  BY <1>0, ReachedAlone DEF Cascade
<1> HIDE DEF h, k
<1>2. /\ h \in Graph
      /\ \A n \in Node :
           /\ h.state[n] = IF n \in R THEN "Invalidated" ELSE g.state[n]
           /\ h.dependencies[n] = IF n \in R THEN {} ELSE g.dependencies[n]
           /\ h.dependants[n] =
                IF n \in R THEN {}
                ELSE {m \in g.dependants[n] : ~(m \in R /\ n \in g.dependencies[m])}
      /\ h.deferred = g.deferred \union Met(g, R)
      /\ h.armed = g.armed \ R
  <2>1. R \in SUBSET Node
    BY <1>0
  <2> QED BY <1>1, <2>1, InvalidatedFields
<1>3. h.output = g.output /\ h.hooked = g.hooked \ {c}
  BY <1>0, <1>1, InvalidatedRest
<1>4. WithdrawnFrom(k, g, c)
  BY WithdrawnFields DEF k
<1>5. Met(g, R) = {}
  BY <1>0 DEF Met
<1>6. k \in Graph
  BY <1>4 DEF WithdrawnFrom
<1>7. \A n \in Node : h.state[n] = k.state[n] /\ h.dependencies[n] = k.dependencies[n]
  <2>1. \A n \in Node : /\ h.state[n] = IF n = c THEN "Invalidated" ELSE g.state[n]
                        /\ h.dependencies[n] = IF n = c THEN {} ELSE g.dependencies[n]
    BY <1>0, <1>2
  <2>2. \A n \in Node : /\ k.state[n] = IF n = c THEN "Invalidated" ELSE g.state[n]
                        /\ k.dependencies[n] = IF n = c THEN {} ELSE g.dependencies[n]
    BY <1>4 DEF WithdrawnFrom
  <2> QED BY <2>1, <2>2
<1>8. ASSUME NEW n \in Node, NEW x \in Node
      PROVE  x \in h.dependants[n] <=> x \in k.dependants[n]
  <2>1. x \in h.dependants[n] <=>
           x \in g.dependants[n] /\ n # c /\ ~(x = c /\ n \in g.dependencies[x])
    BY <1>0, <1>2
  <2> QED BY <1>4, <2>1 DEF WithdrawnFrom
<1>9. h.output = k.output /\ h.armed = k.armed /\ h.hooked = k.hooked /\ h.deferred = k.deferred
  <2>1. h.armed = g.armed \ {c} /\ h.deferred = g.deferred
    BY <1>0, <1>2, <1>5
  <2>2. /\ k.output = g.output /\ k.armed = g.armed \ {c}
        /\ k.hooked = g.hooked \ {c} /\ k.deferred = g.deferred
    BY <1>4 DEF WithdrawnFrom
  <2> QED BY <1>3, <2>1, <2>2
<1>10. h = k
  BY <1>2, <1>6, <1>7, <1>8, <1>9, SameGraph
<1> QED BY <1>10 DEF h, k

\* trySetOutput() of a computation that was not flagged.
OutputFrom(h, g, n) ==
    /\ h \in Graph
    /\ \A m \in Node : h.state[m] = IF m = n THEN "Consistent" ELSE g.state[m]
    /\ h.dependencies = g.dependencies /\ h.dependants = g.dependants
    /\ h.output = g.output \union {n} /\ h.deferred = g.deferred
    /\ h.armed = g.armed \union ({n} \intersect AutoInvalidate)
    /\ h.hooked = g.hooked

\* TrySetOutput, field by field, when no invalidation was deferred.
LEMMA OutputFields ==
    ASSUME NEW g \in Graph, NEW n \in Node, g.state[n] = "Computing", n \notin g.deferred
    PROVE  OutputFrom(TrySetOutput(g, n), g, n)
<1> DEFINE set == [g EXCEPT !.state[n] = "Consistent",
                            !.output   = @ \union {n},
                            !.deferred = @ \ {n}]
           h == [set EXCEPT !.armed = @ \union ({n} \intersect AutoInvalidate)]
<1>1. TrySetOutput(g, n) = h
  BY DEF TrySetOutput
<1>2. /\ set \in Graph
      /\ set.state = [g.state EXCEPT ![n] = "Consistent"]
      /\ set.dependencies = g.dependencies /\ set.dependants = g.dependants
      /\ set.output = g.output \union {n} /\ set.deferred = g.deferred
      /\ set.armed = g.armed /\ set.hooked = g.hooked
  <2>1. g.deferred \ {n} = g.deferred
    OBVIOUS
  <2>2. set \in Graph
    BY DEF Graph, ConsistencyState
  <2>3. /\ set.state = [g.state EXCEPT ![n] = "Consistent"]
        /\ set.output = g.output \union {n} /\ set.deferred = g.deferred \ {n}
    BY DEF Graph
  <2>4. /\ set.dependencies = g.dependencies /\ set.dependants = g.dependants
        /\ set.armed = g.armed /\ set.hooked = g.hooked
    BY DEF Graph
  <2> HIDE DEF set
  <2> QED BY <2>1, <2>2, <2>3, <2>4
<1> HIDE DEF set
<1>3. /\ h \in Graph
      /\ h.state = set.state /\ h.dependencies = set.dependencies
      /\ h.dependants = set.dependants /\ h.output = set.output
      /\ h.deferred = set.deferred /\ h.hooked = set.hooked
      /\ h.armed = set.armed \union ({n} \intersect AutoInvalidate)
  BY <1>2, AutoInvalidateAssumption DEF Graph
<1>4. \A m \in Node : h.state[m] = IF m = n THEN "Consistent" ELSE g.state[m]
  BY <1>2, <1>3 DEF Graph
<1> HIDE DEF h
<1> QED BY <1>1, <1>2, <1>3, <1>4 DEF OutputFrom

\* A new Computed gets its output in the middle of cascades, which it has no part in.
LEMMA OutputCompletes ==
    ASSUME NEW g \in Graph, NEW P \in SUBSET Node, NEW n \in Node,
           g.state[n] = "Computing", n \notin g.deferred, n \notin P,
           \A m \in Node : n \notin g.dependants[m]
    PROVE  Completion(TrySetOutput(g, n), P) = TrySetOutput(Completion(g, P), n)
<1> DEFINE t == TrySetOutput(g, n)
           h == Completion(g, P)
           k == Completion(t, P)
           u == TrySetOutput(h, n)
           R == Reached(g, Served(g, P))
<1>1. OutputFrom(t, g, n)
  BY OutputFields
<1> HIDE DEF t
<1>2. t \in Graph
  BY <1>1 DEF OutputFrom
<1>3. Served(t, P) = Served(g, P) /\ InProgress(t, P) = InProgress(g, P)
  BY <1>1 DEF OutputFrom, Served, InProgress
<1>4. Reached(t, Served(t, P)) = R
  <2>1. t.dependants = g.dependants
    BY <1>1 DEF OutputFrom
  <2>2. \A m \in Node : \A x \in g.dependants[m] : t.state[x] = g.state[x]
    BY <1>1 DEF OutputFrom, Graph
  <2> QED BY <1>2, <1>3, <2>1, <2>2, SameWalk
<1>5. R \in SUBSET Node /\ n \notin R
  BY ReachedServed
<1>6. CompletedFrom(h, g, P, R)
  BY CompletionFields
<1>7. CompletedFrom(k, t, P, R)
  BY <1>2, <1>4, CompletionFields
<1> HIDE DEF h, k, R
<1>8. h \in Graph /\ h.state[n] = "Computing" /\ n \notin h.deferred
  <2>1. n \notin Met(g, R) /\ n \notin InProgress(g, P)
    BY <1>5 DEF Met, InProgress
  <2> QED BY <1>5, <1>6, <2>1 DEF CompletedFrom
<1>9. OutputFrom(u, h, n)
  BY <1>8, OutputFields
<1> HIDE DEF u
<1>10. Met(t, R) = Met(g, R)
  BY <1>1, <1>5 DEF Met, OutputFrom
<1>11. /\ \A m \in Node : u.state[m] = k.state[m]
       /\ \A m \in Node : u.dependencies[m] = k.dependencies[m]
  BY <1>1, <1>5, <1>6, <1>7, <1>9 DEF OutputFrom, CompletedFrom
<1>12. \A m, x \in Node : x \in u.dependants[m] <=> x \in k.dependants[m]
  BY <1>1, <1>6, <1>7, <1>9 DEF OutputFrom, CompletedFrom
<1>13. u.output = k.output /\ u.hooked = k.hooked /\ u.armed = k.armed
  BY <1>1, <1>5, <1>6, <1>7, <1>9 DEF OutputFrom, CompletedFrom
<1>14. u.deferred = k.deferred
  BY <1>1, <1>3, <1>6, <1>7, <1>9, <1>10 DEF OutputFrom, CompletedFrom
<1>15. u \in Graph /\ k \in Graph
  BY <1>7, <1>9 DEF OutputFrom, CompletedFrom
<1>16. u = k
  BY <1>11, <1>12, <1>13, <1>14, <1>15, SameGraph
<1> QED BY <1>16 DEF u, k, h, t

\* The computation in progress reads a withdrawn value.
LEMMA ReadsWithdrawn ==
    ASSUME NEW g \in Graph, Linked(g), Settled(g), NEW c \in Node, NEW d \in Node,
           g.state[c] = "Computing", g.state[d] = "Invalidated"
    PROVE  LET linked == [g EXCEPT !.dependencies[c] = @ \union {d}]
               h == Withdrawn(linked, c)
           IN  /\ g.dependants[c] = {}
               /\ AddDependency(g, c, d) = h
               /\ h \in Graph /\ Linked(h) /\ Settled(h)
               /\ \A n \in Node : h.state[n] = IF n = c THEN "Invalidated" ELSE g.state[n]
               /\ \A n \in Node : h.dependencies[n] \subseteq g.dependencies[n]
               /\ h.deferred = g.deferred
<1> DEFINE linked == [g EXCEPT !.dependencies[c] = @ \union {d}]
           h == Withdrawn(linked, c)
<1>1. g.dependants[c] = {}
  BY ComputingAlone
<1>2. /\ linked \in Graph
      /\ linked.state = g.state /\ linked.dependants = g.dependants
      /\ linked.deferred = g.deferred
      /\ \A n \in Node :
           linked.dependencies[n] = g.dependencies[n] \union (IF n = c THEN {d} ELSE {})
  <2>1. /\ linked \in Graph
        /\ linked.state = g.state /\ linked.dependants = g.dependants
        /\ linked.deferred = g.deferred
        /\ linked.dependencies = [g.dependencies EXCEPT ![c] = @ \union {d}]
    BY DEF Graph
  <2> HIDE DEF linked
  <2> QED BY <2>1 DEF Graph
<1>3. AddDependency(g, c, d) = ForceInvalidate(linked, c)
  BY DEF AddDependency
<1> HIDE DEF linked
<1>4. ForceInvalidate(linked, c) = Cascade(linked, {c})
  BY <1>2 DEF ForceInvalidate
<1>5. Cascade(linked, {c}) = h
  BY <1>1, <1>2, WithdrawnAlone
<1>6. WithdrawnFrom(h, linked, c)
  BY <1>2, WithdrawnFields
<1>7. Linked(linked) /\ Settled(linked)
  <2>1. Settled(linked)
    BY <1>2 DEF Settled
  <2>2. Linked(linked)
    BY <1>2 DEF Linked
  <2> QED BY <2>1, <2>2
<1> HIDE DEF h
<1>8. h \in Graph /\ Linked(h) /\ Settled(h)
  BY <1>2, <1>6, <1>7, WithdrawnLinks
<1>9. /\ \A n \in Node : h.state[n] = IF n = c THEN "Invalidated" ELSE g.state[n]
      /\ \A n \in Node : h.dependencies[n] \subseteq g.dependencies[n]
      /\ h.deferred = g.deferred
  BY <1>2, <1>6 DEF WithdrawnFrom
<1> QED BY <1>1, <1>3, <1>4, <1>5, <1>8, <1>9 DEF h, linked

\* The computation in progress was flagged: it is withdrawn as soon as it is complete.
LEMMA OutputWithdrawn ==
    ASSUME NEW g \in Graph, Linked(g), Settled(g), NEW c \in Node,
           g.state[c] = "Computing", c \in g.deferred
    PROVE  LET set == TrySetOutput([g EXCEPT !.deferred = @ \ {c}], c)
               h == Entered(set, c)
           IN  /\ set.state[c] = "Consistent" /\ set.dependants[c] = {}
               /\ TrySetOutput(g, c) = h
               /\ h \in Graph /\ Linked(h) /\ Settled(h)
               /\ \A n \in Node : h.state[n] = IF n = c THEN "Invalidated" ELSE g.state[n]
               /\ \A n \in Node : h.dependencies[n] \subseteq g.dependencies[n]
               /\ h.deferred = g.deferred \ {c}
<1> DEFINE forgot == [g EXCEPT !.deferred = @ \ {c}]
           set == TrySetOutput(forgot, c)
           h == Entered(set, c)
           due == [g EXCEPT !.state[c]  = "Consistent",
                            !.output    = @ \union {c},
                            !.deferred  = @ \ {c}]
           k == Withdrawn(due, c)
<1>1. g.dependants[c] = {}
  BY ComputingAlone
<1>2. /\ forgot \in Graph
      /\ forgot.state = g.state /\ forgot.dependencies = g.dependencies
      /\ forgot.dependants = g.dependants /\ forgot.output = g.output
      /\ forgot.deferred = g.deferred \ {c} /\ forgot.armed = g.armed
      /\ forgot.hooked = g.hooked
  BY DEF Graph
<1>3. TrySetOutput(g, c) = Cascade(due, {c})
  BY DEF TrySetOutput
<1>4. /\ due \in Graph
      /\ due.state = [g.state EXCEPT ![c] = "Consistent"]
      /\ due.dependencies = g.dependencies /\ due.dependants = g.dependants
      /\ due.output = g.output \union {c} /\ due.deferred = g.deferred \ {c}
      /\ due.armed = g.armed /\ due.hooked = g.hooked
  <2>1. due \in Graph
    BY DEF Graph, ConsistencyState
  <2>2. /\ due.state = [g.state EXCEPT ![c] = "Consistent"]
        /\ due.output = g.output \union {c} /\ due.deferred = g.deferred \ {c}
    BY DEF Graph
  <2>3. /\ due.dependencies = g.dependencies /\ due.dependants = g.dependants
        /\ due.armed = g.armed /\ due.hooked = g.hooked
    BY DEF Graph
  <2> HIDE DEF due
  <2> QED BY <2>1, <2>2, <2>3
<1> HIDE DEF forgot, due
<1>5. OutputFrom(set, forgot, c)
  BY <1>2, OutputFields
<1> HIDE DEF set
<1>6. set \in Graph /\ set.state[c] = "Consistent" /\ set.dependants[c] = {}
  BY <1>1, <1>2, <1>5 DEF OutputFrom
<1>7. h = Withdrawn(set, c)
  BY <1>6 DEF Entered
<1> HIDE DEF h
<1>8. WithdrawnFrom(h, set, c)
  BY <1>6, <1>7, WithdrawnFields
<1>9. Cascade(due, {c}) = k
  BY <1>1, <1>4, WithdrawnAlone
<1>10. WithdrawnFrom(k, due, c)
  BY <1>4, WithdrawnFields
<1> HIDE DEF k
<1>11. \A n \in Node : due.state[n] = IF n = c THEN "Consistent" ELSE g.state[n]
  BY <1>4 DEF Graph
<1>12. /\ \A n \in Node : h.state[n] = IF n = c THEN "Invalidated" ELSE g.state[n]
       /\ \A n \in Node : h.dependencies[n] = IF n = c THEN {} ELSE g.dependencies[n]
       /\ h.deferred = g.deferred \ {c}
  BY <1>2, <1>5, <1>8 DEF WithdrawnFrom, OutputFrom
<1>13. /\ \A n \in Node : k.state[n] = h.state[n]
       /\ \A n \in Node : k.dependencies[n] = h.dependencies[n]
       /\ k.deferred = h.deferred
  BY <1>4, <1>10, <1>11, <1>12 DEF WithdrawnFrom
<1>14. \A n, x \in Node : x \in k.dependants[n] <=> x \in h.dependants[n]
  BY <1>2, <1>4, <1>5, <1>8, <1>10 DEF WithdrawnFrom, OutputFrom
<1>15. k.output = h.output /\ k.armed = h.armed /\ k.hooked = h.hooked
  BY <1>2, <1>4, <1>5, <1>8, <1>10 DEF WithdrawnFrom, OutputFrom
<1>16. k \in Graph /\ h \in Graph
  BY <1>8, <1>10 DEF WithdrawnFrom
<1>17. k = h
  BY <1>13, <1>14, <1>15, <1>16, SameGraph
<1>18. Linked(set) /\ Settled(set)
  <2>1. set.dependencies = g.dependencies /\ set.dependants = g.dependants
    BY <1>2, <1>5 DEF OutputFrom
  <2>2. \A n \in Node : set.state[n] = IF n = c THEN "Consistent" ELSE g.state[n]
    BY <1>2, <1>5 DEF OutputFrom
  <2>3. Linked(set)
    BY <2>1, <2>2 DEF Linked
  <2>4. Settled(set)
    BY <2>1, <2>2 DEF Settled, Graph
  <2> QED BY <2>3, <2>4
<1>19. Linked(h) /\ Settled(h)
  BY <1>6, <1>8, <1>18, WithdrawnLinks
<1> QED BY <1>3, <1>6, <1>9, <1>12, <1>16, <1>17, <1>19 DEF h, set, forgot

-----------------------------------------------------------------------------
(***************************************************************************)
(* The call stack.                                                         *)
(***************************************************************************)

\* What one more frame adds.
LEMMA FrameAdds ==
    ASSUME NEW F, NEW f
    PROVE  /\ f.in = "invalidate" => /\ LeftOf({f} \union F) = f.left \union LeftOf(F)
                                     /\ EventsOf({f} \union F) = {f.node} \union EventsOf(F)
           /\ f.in = "fire" => EventsOf({f} \union F) = {f.event} \union EventsOf(F)
           /\ f.in # "invalidate" => LeftOf({f} \union F) = LeftOf(F)
           /\ f.in = "set" => EventsOf({f} \union F) = EventsOf(F)
<1>1. f.in = "invalidate" => LeftOf({f} \union F) = f.left \union LeftOf(F)
  BY DEF LeftOf
<1>2. f.in # "invalidate" => LeftOf({f} \union F) = LeftOf(F)
  BY DEF LeftOf
<1>3. f.in = "invalidate" => EventsOf({f} \union F) = {f.node} \union EventsOf(F)
  BY DEF EventsOf
<1>4. f.in = "fire" => EventsOf({f} \union F) = {f.event} \union EventsOf(F)
  BY DEF EventsOf
<1>5. f.in = "set" => EventsOf({f} \union F) = EventsOf(F)
  BY DEF EventsOf
<1> QED BY <1>1, <1>2, <1>3, <1>4, <1>5

\* What it adds to the results under way.
LEMMA FrameAddsResult ==
    ASSUME NEW F, NEW f, NEW c
    PROVE  /\ f.in = "set" /\ f.cell = c =>
                 ResultsOf({f} \union F, c) = {f.result} \union ResultsOf(F, c)
           /\ ~(f.in = "set" /\ f.cell = c) =>
                 ResultsOf({f} \union F, c) = ResultsOf(F, c)
BY DEF ResultsOf

\* A call is pushed.
LEMMA Pushed ==
    ASSUME NEW s \in Seq(Frame), NEW f \in Frame
    PROVE  /\ <<f>> \o s \in Seq(Frame)
           /\ Range(<<f>> \o s) = {f} \union Range(s)
           /\ Range(s) \in SUBSET Frame
           /\ Nested(s) /\ (f.in = "set" => \A g \in Range(s) : g.in = "set" => f.result > g.result)
                 => Nested(<<f>> \o s)
<1> DEFINE t == <<f>> \o s
<1>1. /\ t \in Seq(Frame) /\ Len(t) = Len(s) + 1 /\ Len(s) \in Nat
      /\ t[1] = f /\ \A i \in 1..Len(s) : t[i + 1] = s[i]
  OBVIOUS
<1>2. DOMAIN t = 1..(Len(s) + 1) /\ DOMAIN s = 1..Len(s)
  BY <1>1
<1> HIDE DEF t
<1>3. \A i \in DOMAIN t \ {1} : i - 1 \in DOMAIN s /\ t[i] = s[i - 1]
  <2>1. ASSUME NEW i \in DOMAIN t \ {1}
        PROVE  i - 1 \in 1..Len(s) /\ (i - 1) + 1 = i
    BY <1>1, <1>2
  <2> QED BY <1>1, <1>2, <2>1
<1>4. Range(t) = {f} \union Range(s)
  <2>1. ASSUME NEW x \in Range(t)
        PROVE  x \in {f} \union Range(s)
    BY <1>1, <1>3 DEF Range
  <2>2. ASSUME NEW x \in Range(s)
        PROVE  x \in Range(t)
    <3>1. PICK i \in 1..Len(s) : x = s[i]
      BY <1>2 DEF Range
    <3>2. i + 1 \in DOMAIN t /\ t[i + 1] = x
      BY <1>1, <1>2, <3>1
    <3> QED BY <3>2 DEF Range
  <2>3. f \in Range(t)
    BY <1>1, <1>2 DEF Range
  <2> QED BY <2>1, <2>2, <2>3
<1>5. ASSUME Nested(s), f.in = "set" => \A g \in Range(s) : g.in = "set" => f.result > g.result
      PROVE  Nested(t)
  <2>1. ASSUME NEW i \in DOMAIN t, NEW j \in DOMAIN t,
               i < j, t[i].in = "set", t[j].in = "set"
        PROVE  t[i].result > t[j].result
    <3>1. j # 1 /\ j - 1 \in DOMAIN s /\ t[j] = s[j - 1] /\ s[j - 1] \in Range(s)
      BY <1>2, <1>3, <2>1 DEF Range
    <3>2. CASE i = 1
      BY <1>1, <1>5, <2>1, <3>1, <3>2
    <3>3. CASE i # 1
      <4>1. i - 1 \in DOMAIN s /\ t[i] = s[i - 1] /\ i - 1 < j - 1
        BY <1>2, <1>3, <2>1, <3>3
      <4> QED BY <1>5, <2>1, <3>1, <4>1 DEF Nested
    <3> QED BY <3>2, <3>3
  <2> QED BY <2>1 DEF Nested
<1>6. Range(s) \in SUBSET Frame
  BY <1>2 DEF Range
<1> QED BY <1>1, <1>4, <1>5, <1>6 DEF t

\* The innermost call is the head.
LEMMA Popped ==
    ASSUME NEW s \in Seq(Frame), s # <<>>
    PROVE  /\ Head(s) \in Frame /\ Tail(s) \in Seq(Frame)
           /\ Range(s) = {Head(s)} \union Range(Tail(s))
           /\ Nested(s) => /\ Nested(Tail(s))
                           /\ Head(s).in = "set" =>
                                \A g \in Range(Tail(s)) :
                                    g.in = "set" => Head(s).result > g.result
<1> DEFINE f == Head(s)
           t == Tail(s)
<1>1. /\ f \in Frame /\ t \in Seq(Frame) /\ Len(s) = Len(t) + 1 /\ Len(t) \in Nat
      /\ s[1] = f /\ \A i \in 1..Len(t) : s[i + 1] = t[i]
  OBVIOUS
<1>2. DOMAIN s = 1..(Len(t) + 1) /\ DOMAIN t = 1..Len(t)
  BY <1>1
<1> HIDE DEF f, t
<1>3. \A i \in DOMAIN s \ {1} : i - 1 \in DOMAIN t /\ s[i] = t[i - 1]
  <2>1. ASSUME NEW i \in DOMAIN s \ {1}
        PROVE  i - 1 \in 1..Len(t) /\ (i - 1) + 1 = i
    BY <1>1, <1>2
  <2> QED BY <1>1, <1>2, <2>1
<1>4. Range(s) = {f} \union Range(t)
  <2>1. ASSUME NEW x \in Range(s)
        PROVE  x \in {f} \union Range(t)
    BY <1>1, <1>3 DEF Range
  <2>2. ASSUME NEW x \in Range(t)
        PROVE  x \in Range(s)
    <3>1. PICK i \in 1..Len(t) : x = t[i]
      BY <1>2 DEF Range
    <3>2. i + 1 \in DOMAIN s /\ s[i + 1] = x
      BY <1>1, <1>2, <3>1
    <3> QED BY <3>2 DEF Range
  <2>3. f \in Range(s)
    BY <1>1, <1>2 DEF Range
  <2> QED BY <2>1, <2>2, <2>3
<1>5. ASSUME Nested(s)
      PROVE  /\ Nested(t)
             /\ f.in = "set" => \A g \in Range(t) : g.in = "set" => f.result > g.result
  <2>1. ASSUME NEW i \in 1..Len(t), NEW j \in 1..Len(t), i < j,
               t[i].in = "set", t[j].in = "set"
        PROVE  t[i].result > t[j].result
    <3>1. i + 1 \in DOMAIN s /\ j + 1 \in DOMAIN s /\ i + 1 < j + 1
      BY <1>1, <1>2, <2>1
    <3>2. s[i + 1] = t[i] /\ s[j + 1] = t[j]
      BY <1>1
    <3> QED BY <1>5, <2>1, <3>1, <3>2 DEF Nested
  <2>2. ASSUME f.in = "set", NEW g \in Range(t), g.in = "set"
        PROVE  f.result > g.result
    <3>1. PICK j \in 1..Len(t) : g = t[j]
      BY <1>2 DEF Range
    <3>2. 1 \in DOMAIN s /\ j + 1 \in DOMAIN s /\ 1 < j + 1 /\ s[j + 1] = g
      BY <1>1, <1>2, <3>1
    <3> QED BY <1>1, <1>5, <2>2, <3>2 DEF Nested
  <2> QED BY <1>2, <2>1, <2>2 DEF Nested
<1> QED BY <1>1, <1>4, <1>5 DEF f, t

\* What a frame is made of.
LEMMA FrameFields ==
    ASSUME NEW f \in Frame
    PROVE  /\ f.in = "invalidate" => f.node \in Node /\ f.left \in SUBSET Node
           /\ f.in = "fire" => f.event \in Event /\ f.heard \in SUBSET Handler
           /\ f.in = "set" => /\ f.cell \in Cell /\ f.result \in 1..MaxSet
                              /\ f.next \in {"onInvalidated", "onUpdating", "new"}
           /\ f.in \in {"invalidate", "fire", "set"}
BY DEF Frame

\* The invariant in the terms of the lemmas on graphs.
LEMMA ShapedState ==
    ASSUME Shaped
    PROVE  /\ graph \in Graph
           /\ LeftOf(Range(stack)) \in SUBSET Node
           /\ ToVisit = LeftOf(Range(stack))
<1>1. graph \in Graph
  BY DEF Shaped, TypeOK
<1>2. \A f \in Range(stack) : f \in Frame
  BY DEF Shaped, Range
<1>3. LeftOf(Range(stack)) \in SUBSET Node
  BY <1>2, FrameFields DEF LeftOf
<1>4. ToVisit = LeftOf(Range(stack))
  BY DEF ToVisit, Open, LeftOf
<1> QED BY <1>1, <1>3, <1>4

\* What the stack s is for, when m has been entered on top of rest.
PushedFrom(s, g, m, rest) ==
    /\ s \in Seq(Frame)
    /\ Nested(rest) => Nested(s)
    /\ LeftOf(Range(s)) = Found(g, m) \union LeftOf(Range(rest))
    /\ EventsOf(Range(rest)) \subseteq EventsOf(Range(s))
    /\ g.state[m] = "Consistent" => m \in EventsOf(Range(s))
    /\ \A c : ResultsOf(Range(s), c) = ResultsOf(Range(rest), c)

\* The loop over the dependants of m is pushed, if it was served.
LEMMA CallsPushed ==
    ASSUME NEW g \in Graph, NEW m \in Node, NEW rest \in Seq(Frame),
           NEW s, s = Calls(g, m) \o rest
    PROVE  PushedFrom(s, g, m, rest)
<1>1. CASE g.state[m] = "Consistent"
  <2> DEFINE w == Walking(m, g.dependants[m])
  <2>1. w \in Frame /\ w.in = "invalidate" /\ w.node = m /\ w.left = Found(g, m)
    BY <1>1 DEF Walking, Frame, Found, Graph
  <2>2. s = <<w>> \o rest
    BY <1>1 DEF Calls
  <2> HIDE DEF w
  <2>3. /\ s \in Seq(Frame)
        /\ Nested(rest) => Nested(s)
        /\ Range(s) = {w} \union Range(rest)
    BY <2>1, <2>2, Pushed
  <2>4. /\ LeftOf(Range(s)) = w.left \union LeftOf(Range(rest))
        /\ EventsOf(Range(s)) = {w.node} \union EventsOf(Range(rest))
    <3>1. /\ LeftOf({w} \union Range(rest)) = w.left \union LeftOf(Range(rest))
          /\ EventsOf({w} \union Range(rest)) = {w.node} \union EventsOf(Range(rest))
      BY <2>1, FrameAdds
    <3> QED BY <2>3, <3>1
  <2>5. ASSUME NEW c
        PROVE  ResultsOf(Range(s), c) = ResultsOf(Range(rest), c)
    <3>1. ~(w.in = "set" /\ w.cell = c)
      BY <2>1
    <3>2. ResultsOf({w} \union Range(rest), c) = ResultsOf(Range(rest), c)
      BY <3>1, FrameAddsResult
    <3> QED BY <2>3, <3>2
  <2> QED BY <2>1, <2>3, <2>4, <2>5 DEF PushedFrom
<1>2. CASE g.state[m] # "Consistent"
  <2>1. s = rest /\ Found(g, m) = {}
    BY <1>2 DEF Calls, Found
  <2> QED BY <1>2, <2>1 DEF PushedFrom
<1> QED BY <1>1, <1>2

\* Whatever else is pushed below that loop.
LEMMA CallsAbove ==
    ASSUME NEW g \in Graph, NEW m \in Node, NEW f \in Frame, NEW rest \in Seq(Frame)
    PROVE  Calls(g, m) \o <<f>> \o rest = Calls(g, m) \o (<<f>> \o rest)
<1> DEFINE w == Walking(m, g.dependants[m])
<1>1. w \in Frame
  BY DEF Walking, Frame, Graph
<1>2. Calls(g, m) = <<w>> \/ Calls(g, m) = <<>>
  BY DEF Calls
<1>3. <<w>> \o <<f>> \o rest = <<w>> \o (<<f>> \o rest)
  <2> HIDE DEF w
  <2> QED BY <1>1
<1>4. <<>> \o <<f>> \o rest = <<>> \o (<<f>> \o rest)
  OBVIOUS
<1> QED BY <1>2, <1>3, <1>4

-----------------------------------------------------------------------------
(***************************************************************************)
(* What the actions have in common.                                        *)
(***************************************************************************)

\* The first stretch of invalidate(m), with its loop on the stack.
LEMMA EnterKeeps ==
    ASSUME IInv, NEW m \in Node \intersect Existing,
           graph' = Entered(graph, m), UNCHANGED <<value, handlers, skipped, silenced>>,
           NEW F, F = Range(stack), NEW G, G = Range(stack'),
           LeftOf(F) \ {m} \subseteq LeftOf(G), Found(graph, m) \subseteq LeftOf(G),
           LeftOf(G) \subseteq LeftOf(F) \union Found(graph, m),
           EventsOf(F) \subseteq EventsOf(G),
           graph.state[m] = "Consistent" => m \in EventsOf(G)
    PROVE  /\ graph' \in Graph /\ Linked(graph)' /\ Settled(graph)'
           /\ \A n \in Node : graph'.state[n] \in {graph.state[n], "Invalidated"}
           /\ \A n \in Node : graph.state[n] = "Computing" => graph'.state[n] = "Computing"
           /\ graph'.state[m] # "Consistent"
           /\ Blank' /\ Rests' /\ Fires'
<1>1. graph \in Graph /\ Linked(graph) /\ Settled(graph)
  BY ShapedState DEF IInv
<1>2. EnteredFrom(graph', graph, m)
  BY <1>1, EnteredFields
<1>3. \A n \in Node : graph.dependencies[n] \in SUBSET Node /\ graph.dependants[n] \in SUBSET Node
  BY <1>1 DEF Graph
<1>4. graph' \in Graph /\ Linked(graph)' /\ Settled(graph)'
  BY <1>2 DEF EnteredFrom, Linked, Settled
<1>5. /\ \A n \in Node : graph'.state[n] =
             IF n = m /\ graph.state[m] = "Consistent" THEN "Invalidated" ELSE graph.state[n]
      /\ \A n \in Node : graph'.dependencies[n] \subseteq graph.dependencies[n]
      /\ graph'.deferred = graph.deferred \union
             (IF graph.state[m] = "Computing" THEN {m} ELSE {})
  BY <1>2 DEF EnteredFrom
<1>6. Existing' = Existing
  BY DEF Existing
<1>7. Blank'
  <2>1. ASSUME NEW n \in Node \ Existing
        PROVE  /\ graph'.state[n] = "Computing"
               /\ n \notin graph'.deferred /\ n \notin LeftOf(G)
               /\ \A x \in Node : n \notin graph'.dependencies[x] /\ x \notin graph'.dependencies[n]
    <3>1. /\ graph.state[n] = "Computing"
          /\ n \notin graph.deferred /\ n \notin LeftOf(F)
          /\ \A x \in Node : n \notin graph.dependencies[x] /\ x \notin graph.dependencies[n]
      BY DEF IInv, Blank
    <3>2. n \notin Found(graph, m)
      BY <1>1, <3>1 DEF Found, Linked
    <3> QED BY <1>5, <3>1, <3>2
  <2> QED BY <1>6, <2>1 DEF Blank
<1>8. Rests'
  <2>1. ASSUME NEW n \in Node, NEW d \in graph'.dependencies[n], graph'.state[d] = "Invalidated"
        PROVE  \/ n \in LeftOf(G) \/ n \in skipped
               \/ graph'.state[n] = "Computing" /\ n \in graph'.deferred
    <3>1. d \in graph.dependencies[n] /\ d \in Node
      BY <1>3, <1>5
    <3>2. CASE d = m /\ graph.state[m] = "Consistent"
      <4>1. n \in graph.dependants[m]
        BY <1>1, <3>1, <3>2 DEF Linked
      <4> QED BY <3>2, <4>1 DEF Found
    <3>3. CASE graph.state[d] = "Invalidated"
      <4>1. \/ n \in LeftOf(F) \/ n \in skipped
            \/ graph.state[n] = "Computing" /\ n \in graph.deferred
        BY <3>1, <3>3 DEF IInv, Rests
      <4>2. CASE n = m
        <5>1. graph'.state[m] # "Invalidated"
          BY <1>4, <2>1, <4>2 DEF Linked
        <5>2. graph.state[m] = "Computing" /\ graph'.state[m] = "Computing"
          <6>1. graph.state[m] \in ConsistencyState
            BY <1>1 DEF Graph
          <6> QED BY <1>5, <5>1, <6>1 DEF ConsistencyState
        <5> QED BY <1>5, <4>2, <5>2
      <4>3. CASE n # m
        BY <1>5, <4>1, <4>3
      <4> QED BY <4>2, <4>3
    <3> QED BY <1>5, <2>1, <3>1, <3>2, <3>3
  <2>2. skipped' = skipped
    OBVIOUS
  <2> QED BY <2>1, <2>2 DEF Rests
<1>9. Fires'
  <2>1. ASSUME NEW n \in Node, graph'.state[n] = "Invalidated"
        PROVE  handlers[n] = {} \/ n \in silenced \/ n \in EventsOf(G)
    <3>1. CASE graph.state[n] = "Invalidated"
      BY <3>1 DEF IInv, Fires
    <3>2. CASE graph.state[n] # "Invalidated"
      BY <1>5, <2>1, <3>2
    <3> QED BY <3>1, <3>2
  <2>2. handlers' = handlers /\ silenced' = silenced
    OBVIOUS
  <2> QED BY <2>1, <2>2 DEF Fires
<1>10. graph'.state[m] # "Consistent"
  BY <1>5
<1>11. \A n \in Node : /\ graph'.state[n] \in {graph.state[n], "Invalidated"}
                       /\ graph.state[n] = "Computing" => graph'.state[n] = "Computing"
  BY <1>5
<1> QED BY <1>4, <1>7, <1>8, <1>9, <1>10, <1>11

\* Steps that neither begin nor finish a set().
LEMMA CellsKept ==
    ASSUME IInv, UNCHANGED cells, spoiled \subseteq spoiled',
           \A n \in Node \ {Sink} : graph'.state[n] \in {graph.state[n], "Invalidated"},
           NEW F, F = Range(stack), NEW G, G = Range(stack'),
           \A c \in Cell : /\ ResultsOf(G, c) \subseteq ResultsOf(F, c)
                           /\ c \notin spoiled' => ResultsOf(G, c) = ResultsOf(F, c)
    PROVE  CellsShaped' /\ Replacing' /\ Latest'
<1>1. /\ snapshot' = snapshot /\ result' = result /\ value' = value /\ sets' = sets
      /\ DOMAIN value \subseteq Node
  BY DEF cells, IInv, Shaped, TypeOK
<1>2. \A n \in DOMAIN value :
         /\ n # Sink /\ graph.state[n] # "Computing" /\ graph'.state[n] # "Computing"
         /\ graph.state[n] = "Invalidated" => graph'.state[n] = "Invalidated"
  BY <1>1 DEF IInv, CellsShaped
<1>3. \A c \in Cell :
         /\ snapshot[c] \in DOMAIN value /\ value[snapshot[c]].cell = c
         /\ result[c] <= sets
         /\ \A r \in ResultsOf(F, c) : r <= result[c]
  BY DEF IInv, CellsShaped
<1>4. CellsShaped'
  BY <1>1, <1>2, <1>3 DEF CellsShaped
<1>5. Replacing'
  <2>1. ASSUME NEW c \in Cell, NEW r \in ResultsOf(G, c)
        PROVE  \/ graph'.state[snapshot[c]] = "Invalidated"
               \/ \E n \in DOMAIN value : value[n].cell = c /\ value[n].result >= r
    <3>1. r \in ResultsOf(F, c)
      OBVIOUS
    <3> QED BY <1>2, <1>3, <3>1 DEF IInv, Replacing
  <2> QED BY <1>1, <2>1 DEF Replacing
<1>6. Latest'
  <2>1. ASSUME NEW c \in Cell \ spoiled'
        PROVE  /\ value[snapshot[c]].result = result[c] \/ result[c] \in ResultsOf(G, c)
               /\ \A n \in DOMAIN value :
                     value[n].cell = c /\ n # snapshot[c] => graph'.state[n] = "Invalidated"
    <3>1. c \in Cell \ spoiled /\ ResultsOf(G, c) = ResultsOf(F, c)
      OBVIOUS
    <3> QED BY <1>2, <3>1 DEF IInv, Latest
  <2> QED BY <1>1, <2>1 DEF Latest
<1> QED BY <1>4, <1>5, <1>6

-----------------------------------------------------------------------------
(***************************************************************************)
(* The invariant is inductive.                                             *)
(***************************************************************************)

\* No call is in progress.
LEMMA NoFrames ==
    /\ <<>> \in Seq(Frame) /\ Nested(<<>>)
    /\ LeftOf(Range(<<>>)) = {} /\ EventsOf(Range(<<>>)) = {}
    /\ \A c : ResultsOf(Range(<<>>), c) = {}
<1>1. Range(<<>>) = {}
  BY DEF Range
<1>2. <<>> \in Seq(Frame) /\ Nested(<<>>)
  BY DEF Nested
<1> QED BY <1>1, <1>2 DEF LeftOf, EventsOf, ResultsOf

\* The initial states.
LEMMA InitIInv == ASSUME Init PROVE IInv
<1>1. /\ graph.state = [n \in Node |->
             IF n # Sink /\ (Reads[n] # {} \/ n \in Range(Snapshot))
             THEN "Consistent" ELSE "Computing"]
      /\ graph.output = {n \in Node \ {Sink} : Reads[n] # {} \/ n \in Range(Snapshot)}
      /\ graph.dependencies = Reads
      /\ graph.dependants = [n \in Node |-> {m \in Node : n \in Reads[m]}]
      /\ graph.deferred = {} /\ graph.armed = {} /\ graph.hooked = {}
      /\ graph = [state |-> graph.state, output |-> graph.output, deferred |-> graph.deferred,
                  dependencies |-> graph.dependencies, dependants |-> graph.dependants,
                  armed |-> graph.armed, hooked |-> graph.hooked]
  BY DEF Init, NewGraph
<1>2. Given \subseteq Node /\ Range(Snapshot) \subseteq Given
  BY SnapshotAssumption DEF Given, Range
<1>3. Reads \in [Node -> SUBSET Node] /\ \A n \in Node : Reads[n] \subseteq Given \ {Sink}
  BY <1>2, ReadsAssumption
<1>4. graph \in Graph
  <2>1. /\ graph.state \in [Node -> ConsistencyState]
        /\ graph.dependencies \in [Node -> SUBSET Node]
        /\ graph.dependants \in [Node -> SUBSET Node]
    BY <1>1, <1>3 DEF ConsistencyState
  <2>2. /\ graph.output \in SUBSET Node /\ graph.deferred \in SUBSET Node
        /\ graph.armed \in SUBSET Node /\ graph.hooked \in SUBSET Node
    BY <1>1
  <2> QED BY <1>1, <2>1, <2>2 DEF Graph
<1>5. \A n \in Node : graph.state[n] =
         IF n # Sink /\ (Reads[n] # {} \/ n \in Range(Snapshot))
         THEN "Consistent" ELSE "Computing"
  BY <1>1
<1>6. Linked(graph) /\ Settled(graph)
  <2>1. \A c, d \in Node : c \in graph.dependants[d] <=> d \in graph.dependencies[c]
    BY <1>1
  <2>2. Linked(graph)
    BY <1>5, <2>1 DEF Linked
  <2>3. ASSUME NEW c \in Node, NEW d \in Reads[c]
        PROVE  graph.state[d] # "Computing"
    BY <1>2, <1>3, <1>5 DEF Given
  <2>4. Settled(graph)
    BY <1>1, <2>3 DEF Settled
  <2> QED BY <2>2, <2>4
<1>7. /\ stack = <<>> /\ sets = 0 /\ calls = 0 /\ snapshot = Snapshot
      /\ result = [c \in Cell |-> 0] /\ expected = graph
      /\ skipped = {} /\ silenced = {} /\ spoiled = {}
  BY DEF Init
<1>8. /\ stack \in Seq(Frame) /\ Nested(stack)
      /\ LeftOf(Range(stack)) = {} /\ EventsOf(Range(stack)) = {}
      /\ \A c : ResultsOf(Range(stack), c) = {}
  BY <1>7, NoFrames
<1>9. handlers \in [Event -> SUBSET Handler]
  BY DEF Init
<1>10. value = [n \in Range(Snapshot) |->
                   [cell |-> CHOOSE c \in Cell : Snapshot[c] = n, result |-> 0]]
  BY DEF Init
<1>11. ASSUME NEW c \in Cell
       PROVE  Snapshot[c] \in DOMAIN value /\ value[Snapshot[c]] = [cell |-> c, result |-> 0]
  <2>1. Snapshot[c] \in Range(Snapshot)
    BY SnapshotAssumption DEF Range
  <2>2. (CHOOSE b \in Cell : Snapshot[b] = Snapshot[c]) = c
    <3>1. \A b \in Cell : Snapshot[b] = Snapshot[c] => b = c
      BY SnapshotAssumption DEF IsInjective
    <3> QED BY <3>1
  <2> QED BY <1>10, <2>1, <2>2
<1>12. ASSUME NEW n \in DOMAIN value
       PROVE  \E c \in Cell : n = Snapshot[c] /\ value[n] = [cell |-> c, result |-> 0]
  <2>1. n \in Range(Snapshot)
    BY <1>10
  <2>2. PICK c \in Cell : n = Snapshot[c]
    BY <2>1, SnapshotAssumption DEF Range
  <2>3. value[Snapshot[c]] = [cell |-> c, result |-> 0]
    BY <1>11
  <2> QED BY <2>2, <2>3
<1>21. ASSUME NEW c \in Cell
       PROVE  /\ snapshot[c] \in DOMAIN value
              /\ value[snapshot[c]].cell = c /\ value[snapshot[c]].result = result[c]
              /\ result[c] <= sets
  <2>1. snapshot[c] = Snapshot[c] /\ result[c] = 0 /\ sets = 0
    BY <1>7
  <2>2. snapshot[c] \in DOMAIN value /\ value[snapshot[c]] = [cell |-> c, result |-> 0]
    <3>1. Snapshot[c] \in DOMAIN value /\ value[Snapshot[c]] = [cell |-> c, result |-> 0]
      BY <1>11
    <3> QED BY <2>1, <3>1
  <2>3. value[snapshot[c]].cell = c /\ value[snapshot[c]].result = 0
    BY <2>2
  <2>4. result[c] <= sets
    BY <2>1
  <2> QED BY <2>1, <2>2, <2>3, <2>4
<1>13. TypeOK
  <2>1. DOMAIN value \subseteq Node
    BY <1>2, <1>10
  <2>2. Range(value) \subseteq [cell : Cell, result : 0..MaxSet]
    BY <1>12, BoundAssumption DEF Range
  <2>3. \A e \in Event : handlers[e] \subseteq Handler
    BY <1>9
  <2>4. /\ snapshot \in [Cell -> Node] /\ result \in [Cell -> 0..MaxSet]
        /\ sets \in 0..MaxSet /\ calls \in 0..MaxCall
    BY <1>7, SnapshotAssumption, BoundAssumption
  <2>5. \A i \in DOMAIN stack : stack[i] \in Frame
    BY <1>7
  <2> QED BY <1>4, <1>7, <2>1, <2>2, <2>3, <2>4, <2>5 DEF TypeOK
<1>14. Blank
  <2>1. ASSUME NEW n \in Node \ Existing
        PROVE  /\ graph.state[n] = "Computing"
               /\ \A m \in Node : n \notin graph.dependencies[m] /\ m \notin graph.dependencies[n]
    <3>1. n \notin Given
      BY DEF Existing
    <3> QED BY <1>1, <1>2, <1>3, <1>5, <3>1 DEF Given
  <2> QED BY <1>1, <1>8, <2>1 DEF Blank
<1>15. \A n \in Node : graph.state[n] # "Invalidated"
  BY <1>5
<1>16. Rests /\ Fires
  <2>1. \A n \in Node : graph.dependencies[n] \subseteq Node
    BY <1>1, <1>3
  <2> QED BY <1>15, <2>1 DEF Rests, Fires
<1>17. Completes
  BY <1>4, <1>7, <1>8, CompletionOfNone DEF Completes
<1>18. CellsShaped
  <2>1. \A n \in DOMAIN value : graph.state[n] # "Computing" /\ n # Sink
    <3>1. \A n \in Range(Snapshot) : n \in Node /\ n # Sink
      BY <1>2, SnapshotAssumption
    <3> QED BY <1>5, <1>10, <3>1
  <2> QED BY <1>8, <1>21, <2>1 DEF CellsShaped
<1>19. Replacing
  BY <1>8 DEF Replacing
<1>20. Latest
  <2>1. ASSUME NEW c \in Cell
        PROVE  /\ value[snapshot[c]].result = result[c]
               /\ \A n \in DOMAIN value : value[n].cell = c => n = snapshot[c]
    <3>1. ASSUME NEW n \in DOMAIN value, value[n].cell = c
          PROVE  n = snapshot[c]
      <4>1. PICK b \in Cell : n = Snapshot[b] /\ value[n] = [cell |-> b, result |-> 0]
        BY <1>12
      <4> QED BY <1>7, <3>1, <4>1
    <3> QED BY <1>21, <3>1
  <2> QED BY <2>1 DEF Latest
<1> QED BY <1>6, <1>8, <1>9, <1>13, <1>14, <1>16, <1>17, <1>18, <1>19, <1>20 DEF IInv, Shaped

\* What most steps keep of the types.
LEMMA ShapedKept ==
    ASSUME IInv, graph' \in Graph, stack' \in Seq(Frame), Nested(stack'),
           handlers' \in [Event -> SUBSET Handler], UNCHANGED cells, calls' \in 0..MaxCall,
           skipped' \in SUBSET Node, silenced' \in SUBSET Node, spoiled' \in SUBSET Cell
    PROVE  Shaped'
<1>1. /\ snapshot' = snapshot /\ result' = result /\ value' = value /\ sets' = sets
  BY DEF cells
<1>2. /\ snapshot \in [Cell -> Node] /\ result \in [Cell -> 0..MaxSet]
      /\ DOMAIN value \subseteq Node
      /\ Range(value) \subseteq [cell : Cell, result : 0..MaxSet]
      /\ sets \in 0..MaxSet
  BY DEF IInv, Shaped, TypeOK
<1>3. \A i \in DOMAIN stack' : stack'[i] \in Frame
  OBVIOUS
<1>4. \A e \in Event : handlers'[e] \subseteq Handler
  OBVIOUS
<1>5. TypeOK'
  BY <1>1, <1>2, <1>3, <1>4 DEF TypeOK
<1> QED BY <1>5 DEF Shaped

\* Calls in progress that visit the same as those on the stack.
Going(s) ==
    /\ s \in Seq(Frame) /\ Nested(s)
    /\ LeftOf(Range(s)) = LeftOf(Range(stack))
    /\ EventsOf(Range(stack)) \subseteq EventsOf(Range(s))

\* ... and are going to install the same.
Alike(s) ==
    /\ Going(s)
    /\ \A c \in Cell : ResultsOf(Range(s), c) = ResultsOf(Range(stack), c)

\* The history has sets of nodes and cells.
LEMMA HistoryTypes ==
    ASSUME IInv
    PROVE  /\ skipped \in SUBSET Node /\ silenced \in SUBSET Node /\ spoiled \in SUBSET Cell
           /\ calls \in 0..MaxCall /\ handlers \in [Event -> SUBSET Handler]
BY DEF IInv, Shaped, TypeOK

\* Steps that only get on with the calls in progress.
LEMMA FramesKept ==
    ASSUME IInv, Alike(stack'), UNCHANGED <<graph, handlers, cells, history>>,
           calls' \in 0..MaxCall
    PROVE  IInv'
<1>1. /\ graph' = graph /\ handlers' = handlers /\ value' = value /\ expected' = expected
      /\ skipped' = skipped /\ silenced' = silenced /\ spoiled' = spoiled
  BY DEF cells, history
<1>2. graph \in Graph /\ Linked(graph) /\ Settled(graph)
  BY ShapedState DEF IInv
<1>3. Linked(graph)' /\ Settled(graph)'
  BY <1>1, <1>2 DEF Linked, Settled
<1>4. Shaped'
  BY <1>1, <1>2, HistoryTypes, ShapedKept DEF Alike, Going
<1>5. CellsShaped' /\ Replacing' /\ Latest'
  <2>1. \A n \in Node \ {Sink} : graph'.state[n] \in {graph.state[n], "Invalidated"}
    BY <1>1
  <2> QED BY <1>1, <2>1, CellsKept DEF Alike, Going
<1>6. Blank'
  BY <1>1 DEF IInv, Blank, Existing, Alike, Going
<1>7. Rests'
  BY <1>1 DEF IInv, Rests, Alike, Going
<1>8. Fires'
  BY <1>1 DEF IInv, Fires, Alike, Going
<1>9. Completes'
  BY <1>1 DEF IInv, Completes, Alike, Going
<1> QED BY <1>3, <1>4, <1>5, <1>6, <1>7, <1>8, <1>9 DEF IInv

\* invalidate() called by other code than a cascade, in the middle of cascades or not.
LEMMA InvalidateKeeps ==
    ASSUME IInv, NEW n \in Node \intersect Existing, NEW rest, Going(rest),
           InvalidateCalled(n, rest), UNCHANGED value
    PROVE  /\ graph' \in Graph /\ Linked(graph)' /\ Settled(graph)'
           /\ \A m \in Node : graph'.state[m] \in {graph.state[m], "Invalidated"}
           /\ graph'.state[n] # "Consistent"
           /\ Blank' /\ Rests' /\ Fires' /\ Completes'
           /\ stack' \in Seq(Frame) /\ Nested(stack')
           /\ \A c \in Cell : ResultsOf(Range(stack'), c) = ResultsOf(Range(rest), c)
<1>1. /\ graph' = Entered(graph, n)
      /\ stack' = Calls(graph, n) \o rest
      /\ expected' = Invalidate(expected, n)
      /\ UNCHANGED <<value, handlers, skipped, silenced>>
  BY DEF InvalidateCalled
<1>2. graph \in Graph /\ LeftOf(Range(stack)) \in SUBSET Node
  BY ShapedState DEF IInv
<1>3. rest \in Seq(Frame) /\ Nested(rest)
  BY DEF Going
<1>4. /\ stack' \in Seq(Frame)
      /\ Nested(stack')
      /\ LeftOf(Range(stack')) = Found(graph, n) \union LeftOf(Range(rest))
      /\ EventsOf(Range(rest)) \subseteq EventsOf(Range(stack'))
      /\ graph.state[n] = "Consistent" => n \in EventsOf(Range(stack'))
      /\ \A c : ResultsOf(Range(stack'), c) = ResultsOf(Range(rest), c)
  <2>1. PushedFrom(stack', graph, n, rest)
    BY <1>1, <1>2, <1>3, CallsPushed
  <2> QED BY <1>3, <2>1 DEF PushedFrom
<1> DEFINE F == Range(stack)
           G == Range(stack')
<1>5. /\ LeftOf(G) = LeftOf(F) \union Found(graph, n)
      /\ EventsOf(F) \subseteq EventsOf(G)
  BY <1>4 DEF Going
<1>6. /\ LeftOf(F) \ {n} \subseteq LeftOf(G) /\ Found(graph, n) \subseteq LeftOf(G)
      /\ LeftOf(G) \subseteq LeftOf(F) \union Found(graph, n)
      /\ EventsOf(F) \subseteq EventsOf(G)
      /\ graph.state[n] = "Consistent" => n \in EventsOf(G)
  BY <1>4, <1>5
<1> HIDE DEF F, G
<1>7. /\ graph' \in Graph /\ Linked(graph)' /\ Settled(graph)'
      /\ \A m \in Node : graph'.state[m] \in {graph.state[m], "Invalidated"}
      /\ graph'.state[n] # "Consistent"
      /\ Blank' /\ Rests' /\ Fires'
  BY <1>1, <1>6, EnterKeeps DEF F, G
<1>8. Completes'
  <2>1. expected = Completion(graph, LeftOf(F))
    BY DEF IInv, Completes, F
  <2>2. Completion(Entered(graph, n), LeftOf(F) \union Found(graph, n)) =
            Invalidate(Completion(graph, LeftOf(F)), n)
    <3>1. LeftOf(F) \in SUBSET Node
      BY <1>2 DEF F
    <3> QED BY <1>2, <3>1, RootCompletes
  <2>3. expected' = Completion(graph', LeftOf(G))
    BY <1>1, <1>5, <2>1, <2>2
  <2> QED BY <2>3 DEF Completes, G
<1> QED BY <1>4, <1>7, <1>8

\* Such a call on its own.
LEMMA InvalidateIInv ==
    ASSUME IInv, NEW n \in Node \intersect Existing, NEW rest, Alike(rest),
           InvalidateCalled(n, rest), UNCHANGED cells, calls' \in 0..MaxCall
    PROVE  IInv'
<1>1. /\ handlers' = handlers /\ value' = value
      /\ skipped' = skipped /\ silenced' = silenced /\ spoiled' = spoiled
  BY DEF InvalidateCalled, cells
<1>2. /\ graph' \in Graph /\ Linked(graph)' /\ Settled(graph)'
      /\ \A m \in Node : graph'.state[m] \in {graph.state[m], "Invalidated"}
      /\ Blank' /\ Rests' /\ Fires' /\ Completes'
      /\ stack' \in Seq(Frame) /\ Nested(stack')
      /\ \A c \in Cell : ResultsOf(Range(stack'), c) = ResultsOf(Range(rest), c)
  BY <1>1, InvalidateKeeps DEF Alike
<1>3. Shaped'
  BY <1>1, <1>2, HistoryTypes, ShapedKept
<1>4. CellsShaped' /\ Replacing' /\ Latest'
  BY <1>1, <1>2, CellsKept DEF Alike
<1> QED BY <1>2, <1>3, <1>4 DEF IInv

\* A set() that is called withdraws the current value and is on its way to replace it.
LEMMA SetIInv ==
    ASSUME IInv, NEW c \in Cell, NEW rest, Alike(rest), SetCalled(c, rest),
           sets < MaxSet, calls' \in 0..MaxCall
    PROVE  IInv'
<1> DEFINE f == Setting(c, sets + 1, "onInvalidated")
           s == <<f>> \o rest
           F == Range(stack)
           G == Range(stack')
<1>1. /\ sets' = sets + 1
      /\ result' = [result EXCEPT ![c] = sets + 1]
      /\ InvalidateCalled(snapshot[c], s)
      /\ snapshot' = snapshot /\ value' = value
  BY DEF SetCalled
<1>2. /\ snapshot \in [Cell -> Node] /\ result \in [Cell -> 0..MaxSet]
      /\ sets \in 0..MaxSet /\ sets + 1 \in 1..MaxSet /\ sets + 1 \in 0..MaxSet
      /\ DOMAIN value \subseteq Node
      /\ Range(value) \subseteq [cell : Cell, result : 0..MaxSet]
  BY BoundAssumption DEF IInv, Shaped, TypeOK
<1>3. /\ f \in Frame /\ f.in = "set" /\ f.cell = c /\ f.result = sets + 1
  BY <1>2 DEF Setting, Frame
<1>4. /\ \A n \in DOMAIN value : graph.state[n] # "Computing" /\ n # Sink
      /\ \A b \in Cell :
          /\ snapshot[b] \in DOMAIN value /\ value[snapshot[b]].cell = b
          /\ result[b] <= sets
          /\ \A r \in ResultsOf(F, b) : r <= result[b]
  BY DEF IInv, CellsShaped
<1>5. /\ rest \in Seq(Frame) /\ Nested(rest)
      /\ LeftOf(Range(rest)) = LeftOf(F)
      /\ EventsOf(F) \subseteq EventsOf(Range(rest))
      /\ \A b \in Cell : ResultsOf(Range(rest), b) = ResultsOf(F, b)
  BY DEF Alike, Going
<1> HIDE DEF f, s, F, G
<1>6. ASSUME NEW g \in Range(rest), g.in = "set"
      PROVE  f.result > g.result
  <2>1. g \in Frame
    BY <1>3, <1>5, Pushed
  <2>2. g.cell \in Cell /\ g.result \in 1..MaxSet
    BY <1>6, <2>1, FrameFields
  <2>3. g.result \in ResultsOf(Range(rest), g.cell)
    BY <1>6 DEF ResultsOf
  <2>4. g.result <= result[g.cell] /\ result[g.cell] <= sets /\ result[g.cell] \in 0..MaxSet
    BY <1>2, <1>4, <1>5, <2>2, <2>3
  <2> QED BY <1>2, <1>3, <2>2, <2>4
<1>7. /\ s \in Seq(Frame) /\ Nested(s) /\ Range(s) = {f} \union Range(rest)
  BY <1>3, <1>5, <1>6, Pushed DEF s
<1>8. Going(s)
  <2>1. f.in = "set" /\ f.in # "invalidate"
    BY <1>3
  <2>2. /\ LeftOf({f} \union Range(rest)) = LeftOf(Range(rest))
        /\ EventsOf({f} \union Range(rest)) = EventsOf(Range(rest))
    BY <2>1, FrameAdds
  <2>3. LeftOf(Range(s)) = LeftOf(F) /\ EventsOf(F) \subseteq EventsOf(Range(s))
    BY <1>5, <1>7, <2>2
  <2> QED BY <1>7, <2>3 DEF Going, F
<1>9. snapshot[c] \in Node \intersect Existing
  BY <1>2, <1>4 DEF Existing
<1>10. /\ graph' \in Graph /\ Linked(graph)' /\ Settled(graph)'
       /\ \A m \in Node : graph'.state[m] \in {graph.state[m], "Invalidated"}
       /\ graph'.state[snapshot[c]] # "Consistent"
       /\ Blank' /\ Rests' /\ Fires' /\ Completes'
       /\ stack' \in Seq(Frame) /\ Nested(stack')
       /\ \A b \in Cell : ResultsOf(G, b) = ResultsOf(Range(s), b)
  BY <1>1, <1>8, <1>9, InvalidateKeeps DEF G
<1>11. ASSUME NEW b \in Cell
       PROVE  ResultsOf(G, b) = ResultsOf(F, b) \union (IF b = c THEN {sets + 1} ELSE {})
  <2>1. ResultsOf(G, b) = ResultsOf({f} \union Range(rest), b)
    BY <1>7, <1>10
  <2>2. ResultsOf(Range(rest), b) = ResultsOf(F, b)
    BY <1>5
  <2>3. CASE b = c
    <3>1. f.in = "set" /\ f.cell = b
      BY <1>3, <2>3
    <3>2. ResultsOf({f} \union Range(rest), b) = {f.result} \union ResultsOf(Range(rest), b)
      BY <3>1, FrameAddsResult
    <3> QED BY <1>3, <2>1, <2>2, <2>3, <3>2
  <2>4. CASE b # c
    <3>1. ~(f.in = "set" /\ f.cell = b)
      BY <1>3, <2>4
    <3>2. ResultsOf({f} \union Range(rest), b) = ResultsOf(Range(rest), b)
      BY <3>1, FrameAddsResult
    <3> QED BY <2>1, <2>2, <2>4, <3>2
  <2> QED BY <2>3, <2>4
<1>12. graph'.state[snapshot[c]] = "Invalidated"
  BY <1>4, <1>9, <1>10 DEF Graph, ConsistencyState
<1>13. \A n \in DOMAIN value :
          /\ graph'.state[n] # "Computing" /\ n # Sink
          /\ graph.state[n] = "Invalidated" => graph'.state[n] = "Invalidated"
  BY <1>2, <1>4, <1>10
<1>14. result' \in [Cell -> 0..MaxSet] /\ result'[c] = sets + 1
       /\ \A b \in Cell \ {c} : result'[b] = result[b]
  BY <1>1, <1>2
<1>15. handlers' = handlers /\ skipped' = skipped /\ silenced' = silenced /\ spoiled' = spoiled
  BY <1>1 DEF InvalidateCalled
<1>16. Shaped'
  <2>1. \A i \in DOMAIN stack' : stack'[i] \in Frame
    BY <1>10
  <2>2. TypeOK'
    BY <1>1, <1>2, <1>10, <1>14, <1>15, <2>1, HistoryTypes DEF TypeOK
  <2> QED BY <1>10, <1>15, <2>2, HistoryTypes DEF Shaped
<1>17. CellsShaped'
  <2>1. ASSUME NEW b \in Cell
        PROVE  /\ snapshot[b] \in DOMAIN value /\ value[snapshot[b]].cell = b
               /\ result'[b] <= sets + 1
               /\ \A r \in ResultsOf(G, b) : r <= result'[b]
    <3>1. result[b] \in 0..MaxSet /\ result[b] <= sets /\ \A r \in ResultsOf(F, b) : r <= result[b]
      BY <1>2, <1>4
    <3>2. \A r \in ResultsOf(F, b) : r \in Nat
      <4>1. \A g \in F : g \in Frame
        BY DEF F, IInv, Shaped, Range
      <4> QED BY <4>1, FrameFields, BoundAssumption DEF ResultsOf
    <3>3. CASE b = c
      BY <1>2, <1>4, <1>11, <1>14, <3>1, <3>2, <3>3
    <3>4. CASE b # c
      BY <1>2, <1>4, <1>11, <1>14, <3>1, <3>4
    <3> QED BY <3>3, <3>4
  <2> QED BY <1>1, <1>13, <2>1 DEF CellsShaped, G
<1>18. Replacing'
  <2>1. ASSUME NEW b \in Cell, NEW r \in ResultsOf(G, b)
        PROVE  \/ graph'.state[snapshot[b]] = "Invalidated"
               \/ \E n \in DOMAIN value : value[n].cell = b /\ value[n].result >= r
    <3>1. CASE b = c
      BY <1>12, <3>1
    <3>2. CASE b # c
      BY <1>4, <1>11, <1>13, <3>2 DEF IInv, Replacing, F
    <3> QED BY <3>1, <3>2
  <2> QED BY <1>1, <2>1 DEF Replacing, G
<1>19. Latest'
  <2>1. ASSUME NEW b \in Cell \ spoiled
        PROVE  /\ value[snapshot[b]].result = result'[b] \/ result'[b] \in ResultsOf(G, b)
               /\ \A n \in DOMAIN value :
                     value[n].cell = b /\ n # snapshot[b] => graph'.state[n] = "Invalidated"
    <3>1. /\ value[snapshot[b]].result = result[b] \/ result[b] \in ResultsOf(F, b)
          /\ \A n \in DOMAIN value :
                value[n].cell = b /\ n # snapshot[b] => graph'.state[n] = "Invalidated"
      BY <1>13 DEF IInv, Latest, F
    <3>2. CASE b = c
      BY <1>11, <1>14, <3>1, <3>2
    <3>3. CASE b # c
      BY <1>11, <1>14, <3>1, <3>3
    <3> QED BY <3>1, <3>2, <3>3
  <2> QED BY <1>1, <1>15, <2>1 DEF Latest, G
<1> QED BY <1>10, <1>16, <1>17, <1>18, <1>19 DEF IInv

\* What the frames S are for, when f is on top of F.
TopFrom(S, F, f) ==
    /\ f.in = "invalidate" => LeftOf(S) = f.left \union LeftOf(F)
    /\ f.in # "invalidate" => LeftOf(S) = LeftOf(F)
    /\ f.in = "invalidate" => EventsOf(S) = {f.node} \union EventsOf(F)
    /\ f.in = "fire" => EventsOf(S) = {f.event} \union EventsOf(F)
    /\ f.in = "set" => EventsOf(S) = EventsOf(F)
    /\ \A c \in Cell :
          /\ f.in = "set" /\ f.cell = c => ResultsOf(S, c) = {f.result} \union ResultsOf(F, c)
          /\ ~(f.in = "set" /\ f.cell = c) => ResultsOf(S, c) = ResultsOf(F, c)

\* Those of F, and its own.
LEMMA OnTop ==
    ASSUME NEW F, NEW f, NEW S, S = {f} \union F
    PROVE  TopFrom(S, F, f)
<1>1. ASSUME NEW c \in Cell
      PROVE  /\ f.in = "set" /\ f.cell = c => ResultsOf(S, c) = {f.result} \union ResultsOf(F, c)
             /\ ~(f.in = "set" /\ f.cell = c) => ResultsOf(S, c) = ResultsOf(F, c)
  <2>1. /\ f.in = "set" /\ f.cell = c =>
              ResultsOf({f} \union F, c) = {f.result} \union ResultsOf(F, c)
        /\ ~(f.in = "set" /\ f.cell = c) => ResultsOf({f} \union F, c) = ResultsOf(F, c)
    BY FrameAddsResult
  <2> QED BY <2>1
<1>2. /\ f.in = "invalidate" => LeftOf(S) = f.left \union LeftOf(F)
      /\ f.in # "invalidate" => LeftOf(S) = LeftOf(F)
      /\ f.in = "invalidate" => EventsOf(S) = {f.node} \union EventsOf(F)
      /\ f.in = "fire" => EventsOf(S) = {f.event} \union EventsOf(F)
      /\ f.in = "set" => EventsOf(S) = EventsOf(F)
  <2> DEFINE T == {f} \union F
  <2>1. /\ f.in = "invalidate" => LeftOf(T) = f.left \union LeftOf(F)
        /\ f.in # "invalidate" => LeftOf(T) = LeftOf(F)
    BY FrameAdds
  <2>2. /\ f.in = "invalidate" => EventsOf(T) = {f.node} \union EventsOf(F)
        /\ f.in = "fire" => EventsOf(T) = {f.event} \union EventsOf(F)
        /\ f.in = "set" => EventsOf(T) = EventsOf(F)
    BY FrameAdds
  <2>3. T = S
    OBVIOUS
  <2> HIDE DEF T
  <2>4. /\ f.in = "invalidate" => LeftOf(S) = f.left \union LeftOf(F)
        /\ f.in # "invalidate" => LeftOf(S) = LeftOf(F)
    BY <2>1, <2>3
  <2>5. /\ f.in = "invalidate" => EventsOf(S) = {f.node} \union EventsOf(F)
        /\ f.in = "fire" => EventsOf(S) = {f.event} \union EventsOf(F)
        /\ f.in = "set" => EventsOf(S) = EventsOf(F)
    BY <2>2, <2>3
  <2> QED BY <2>4, <2>5
<1> QED BY <1>1, <1>2 DEF TopFrom

\* The loop of invalidate() over the dependants.
LEMMA WalkIInv == ASSUME IInv, Walk, UNCHANGED calls PROVE IInv'
<1> DEFINE f == Head(stack)
           t == Tail(stack)
           F == Range(stack)
           G == Range(stack')
<1>1. /\ stack # <<>> /\ f.in = "invalidate"
      /\ UNCHANGED <<handlers, cells, history>>
  BY DEF Walk, Inside
<1>2. PICK m \in f.left :
         /\ graph' = Entered(graph, m)
         /\ stack' = Calls(graph, m) \o <<[f EXCEPT !.left = @ \ {m}]>> \o t
  BY DEF Walk
<1> DEFINE k == [f EXCEPT !.left = @ \ {m}]
           rest == <<k>> \o t
<1>3. stack \in Seq(Frame) /\ Nested(stack) /\ graph \in Graph /\ LeftOf(F) \in SUBSET Node
  BY ShapedState DEF IInv, Shaped
<1>4. f \in Frame /\ t \in Seq(Frame) /\ F = {f} \union Range(t) /\ Nested(t)
  BY <1>1, <1>3, Popped
<1> HIDE DEF f, t, F
<1>5. f.node \in Node /\ f.left \in SUBSET Node /\ m \in Node
  BY <1>1, <1>2, <1>4, FrameFields
<1>6. k \in Frame /\ k.in = "invalidate" /\ k.node = f.node /\ k.left = f.left \ {m}
  BY <1>1, <1>4 DEF Frame
<1> HIDE DEF k
<1>7. rest \in Seq(Frame) /\ Range(rest) = {k} \union Range(t) /\ Nested(rest)
  BY <1>4, <1>6, Pushed
<1>8. stack' = Calls(graph, m) \o rest
  BY <1>2, <1>3, <1>4, <1>5, <1>6, CallsAbove DEF k
<1> HIDE DEF rest, G
<1>9. /\ stack' \in Seq(Frame) /\ Nested(stack')
      /\ LeftOf(G) = Found(graph, m) \union LeftOf(Range(rest))
      /\ EventsOf(Range(rest)) \subseteq EventsOf(G)
      /\ graph.state[m] = "Consistent" => m \in EventsOf(G)
      /\ \A c : ResultsOf(G, c) = ResultsOf(Range(rest), c)
  <2>1. PushedFrom(stack', graph, m, rest)
    BY <1>3, <1>5, <1>7, <1>8, CallsPushed
  <2> QED BY <1>7, <2>1 DEF PushedFrom, G
<1>10. /\ LeftOf(F) = f.left \union LeftOf(Range(t))
       /\ EventsOf(F) = {f.node} \union EventsOf(Range(t))
       /\ \A c \in Cell : ResultsOf(F, c) = ResultsOf(Range(t), c)
  <2>1. TopFrom(F, Range(t), f)
    BY <1>4, OnTop
  <2> QED BY <1>1, <2>1 DEF TopFrom
<1>11. /\ LeftOf(Range(rest)) = k.left \union LeftOf(Range(t))
       /\ EventsOf(Range(rest)) = {k.node} \union EventsOf(Range(t))
       /\ \A c \in Cell : ResultsOf(Range(rest), c) = ResultsOf(Range(t), c)
  <2>1. TopFrom(Range(rest), Range(t), k)
    BY <1>7, OnTop
  <2> QED BY <1>6, <2>1 DEF TopFrom
<1>12. /\ LeftOf(F) \ {m} \subseteq LeftOf(G) /\ Found(graph, m) \subseteq LeftOf(G)
       /\ LeftOf(G) \subseteq LeftOf(F) \union Found(graph, m)
       /\ EventsOf(F) \subseteq EventsOf(G) /\ m \in LeftOf(F)
  BY <1>6, <1>9, <1>10, <1>11
<1>13. \A c \in Cell : ResultsOf(G, c) = ResultsOf(F, c)
  BY <1>9, <1>10, <1>11
<1>14. m \in Node \intersect Existing
  BY <1>5, <1>12 DEF IInv, Blank, F
<1>15. /\ handlers' = handlers /\ value' = value /\ expected' = expected
       /\ skipped' = skipped /\ silenced' = silenced /\ spoiled' = spoiled
  BY <1>1 DEF cells, history
<1>16. /\ graph' \in Graph /\ Linked(graph)' /\ Settled(graph)'
       /\ \A n \in Node : graph'.state[n] \in {graph.state[n], "Invalidated"}
       /\ Blank' /\ Rests' /\ Fires'
  BY <1>2, <1>9, <1>12, <1>14, <1>15, EnterKeeps DEF F, G
<1>17. Completes'
  <2>1. LeftOf(G) \in SUBSET Node
    <3>1. Found(graph, m) \in SUBSET Node
      BY <1>3, <1>5 DEF Found, Graph
    <3> QED BY <1>3, <1>12, <3>1
  <2>2. Completion(Entered(graph, m), LeftOf(G)) = Completion(graph, LeftOf(F))
    BY <1>3, <1>12, <2>1, VisitCompletes
  <2> QED BY <1>2, <1>15, <2>2 DEF IInv, Completes, F, G
<1>18. Shaped'
  BY <1>1, <1>9, <1>15, <1>16, HistoryTypes, ShapedKept
<1>19. CellsShaped' /\ Replacing' /\ Latest'
  BY <1>1, <1>13, <1>15, <1>16, CellsKept DEF F, G
<1> QED BY <1>16, <1>17, <1>18, <1>19 DEF IInv

\* The loop is over: its event fires.
LEMMA WalkOverIInv == ASSUME IInv, WalkOver, UNCHANGED calls PROVE IInv'
<1> DEFINE f == Head(stack)
           t == Tail(stack)
           F == Range(stack)
           k == Firing(f.node)
<1>1. /\ stack # <<>> /\ f.in = "invalidate" /\ f.left = {}
      /\ stack' = <<k>> \o t
      /\ UNCHANGED <<graph, handlers, cells, history>>
  BY DEF WalkOver, Inside
<1>2. stack \in Seq(Frame) /\ Nested(stack)
  BY DEF IInv, Shaped
<1>3. f \in Frame /\ t \in Seq(Frame) /\ F = {f} \union Range(t) /\ Nested(t)
  BY <1>1, <1>2, Popped
<1> HIDE DEF f, t, F
<1>4. f.node \in Node
  BY <1>1, <1>3, FrameFields
<1>5. k \in Frame /\ k.in = "fire" /\ k.event = f.node
  BY <1>4 DEF Firing, Frame, Event
<1> HIDE DEF k
<1>6. stack' \in Seq(Frame) /\ Range(stack') = {k} \union Range(t) /\ Nested(stack')
  BY <1>1, <1>3, <1>5, Pushed
<1>7. TopFrom(F, Range(t), f) /\ TopFrom(Range(stack'), Range(t), k)
  BY <1>3, <1>6, OnTop
<1>8. /\ LeftOf(Range(stack')) = LeftOf(F)
      /\ EventsOf(Range(stack')) = EventsOf(F)
      /\ \A c \in Cell : ResultsOf(Range(stack'), c) = ResultsOf(F, c)
  BY <1>1, <1>5, <1>7 DEF TopFrom
<1>9. Alike(stack')
  BY <1>6, <1>8 DEF Alike, Going, F
<1> QED BY <1>1, <1>9, HistoryTypes, FramesKept

\* An exception unwinds the stack, and the history remembers what that left undone.
LEMMA ThrownIInv == ASSUME IInv, Thrown, UNCHANGED calls PROVE IInv'
<1> DEFINE F == Range(stack)
<1>1. /\ stack' = <<>>
      /\ skipped' = skipped \union UNION {f.left : f \in Open("invalidate")}
      /\ silenced' = silenced \union {f.node : f \in Open("invalidate")}
                              \union (Node \intersect {f.event : f \in Open("fire")})
      /\ spoiled' = spoiled \union {f.cell : f \in Open("set")}
      /\ expected' = graph
      /\ graph' = graph /\ handlers' = handlers /\ UNCHANGED cells
      /\ value' = value
  BY DEF Thrown, cells
<1>2. graph \in Graph /\ Linked(graph) /\ Settled(graph)
  BY ShapedState DEF IInv
<1>3. \A f \in F : f \in Frame
  BY DEF IInv, Shaped, Range
<1>4. skipped' = skipped \union LeftOf(F)
  BY <1>1 DEF Open, LeftOf
<1>5. silenced' = silenced \union (Node \intersect EventsOf(F))
  <2>1. {f.node : f \in Open("invalidate")} \subseteq Node
    BY <1>3, FrameFields DEF Open
  <2>2. EventsOf(F) = {f.node : f \in Open("invalidate")} \union {f.event : f \in Open("fire")}
    BY DEF EventsOf, Open
  <2> QED BY <1>1, <2>1, <2>2
<1>6. \A c \in Cell \ spoiled' : ResultsOf(F, c) = {}
  <2>1. ASSUME NEW c \in Cell, NEW r \in ResultsOf(F, c)
        PROVE  c \in spoiled'
    <3>1. PICK f \in F : f.in = "set" /\ f.cell = c
      BY DEF ResultsOf
    <3>2. f \in Open("set")
      BY <3>1 DEF Open
    <3> QED BY <1>1, <3>1, <3>2
  <2> QED BY <2>1
<1>7. {f.cell : f \in Open("set")} \subseteq Cell
  BY <1>3, FrameFields DEF Open
<1>8. LeftOf(F) \in SUBSET Node
  BY ShapedState DEF IInv
<1> HIDE DEF F
<1>9. /\ skipped' \in SUBSET Node /\ silenced' \in SUBSET Node /\ spoiled' \in SUBSET Cell
  BY <1>1, <1>4, <1>5, <1>7, <1>8, HistoryTypes
<1>10. /\ stack' \in Seq(Frame) /\ Nested(stack')
       /\ LeftOf(Range(stack')) = {} /\ EventsOf(Range(stack')) = {}
       /\ \A c : ResultsOf(Range(stack'), c) = {}
  BY <1>1, NoFrames
<1>11. Shaped'
  BY <1>1, <1>2, <1>9, <1>10, HistoryTypes, ShapedKept
<1>12. Linked(graph)' /\ Settled(graph)'
  BY <1>1, <1>2 DEF Linked, Settled
<1>13. Blank'
  BY <1>1, <1>10 DEF IInv, Blank, Existing
<1>14. Rests'
  BY <1>1, <1>4 DEF IInv, Rests, F
<1>15. Fires'
  BY <1>1, <1>5 DEF IInv, Fires, F
<1>16. Completes'
  BY <1>1, <1>2, <1>10, CompletionOfNone DEF Completes
<1>17. CellsShaped' /\ Replacing' /\ Latest'
  <2>1. \A n \in Node \ {Sink} : graph'.state[n] \in {graph.state[n], "Invalidated"}
    BY <1>1
  <2>2. \A c \in Cell : /\ ResultsOf(Range(stack'), c) \subseteq ResultsOf(F, c)
                        /\ c \notin spoiled' => ResultsOf(Range(stack'), c) = ResultsOf(F, c)
    BY <1>6, <1>10
  <2>3. spoiled \subseteq spoiled'
    BY <1>1
  <2> QED BY <1>1, <2>1, <2>2, <2>3, CellsKept DEF F
<1> QED BY <1>11, <1>12, <1>13, <1>14, <1>15, <1>16, <1>17 DEF IInv

\* The Computed objects of the start are nodes.
LEMMA GivenNodes == Given \subseteq Node \intersect Existing
BY SnapshotAssumption DEF Given, Existing, Range

\* A handler is called.
LEMMA NotifyIInv == ASSUME IInv, Notify, UNCHANGED calls PROVE IInv'
<1> DEFINE f == Head(stack)
           t == Tail(stack)
           F == Range(stack)
<1>1. stack # <<>> /\ f.in = "fire"
  BY DEF Notify, Inside
<1>2. PICK h \in handlers[f.event] \ f.heard :
         Handle(h, <<[f EXCEPT !.heard = @ \union {h}]>> \o t)
  BY DEF Notify, Unheard
<1> DEFINE k == [f EXCEPT !.heard = @ \union {h}]
           rest == <<k>> \o t
<1>3. stack \in Seq(Frame) /\ Nested(stack)
  BY DEF IInv, Shaped
<1>4. f \in Frame /\ t \in Seq(Frame) /\ F = {f} \union Range(t) /\ Nested(t)
  BY <1>1, <1>3, Popped
<1>5. Handle(h, rest)
  BY <1>2
<1> HIDE DEF f, t, F
<1>6. f.event \in Event /\ h \in Handler
  BY <1>1, <1>2, <1>4, FrameFields, HistoryTypes
<1>7. k \in Frame /\ k.in = "fire" /\ k.event = f.event
  BY <1>1, <1>4, <1>6 DEF Frame
<1> HIDE DEF k
<1>8. rest \in Seq(Frame) /\ Range(rest) = {k} \union Range(t) /\ Nested(rest)
  BY <1>4, <1>7, Pushed
<1> HIDE DEF rest
<1>9. TopFrom(F, Range(t), f) /\ TopFrom(Range(rest), Range(t), k)
  BY <1>4, <1>8, OnTop
<1>10. /\ LeftOf(Range(rest)) = LeftOf(F)
       /\ EventsOf(Range(rest)) = EventsOf(F)
       /\ \A c \in Cell : ResultsOf(Range(rest), c) = ResultsOf(F, c)
  BY <1>1, <1>7, <1>9 DEF TopFrom
<1>11. Alike(rest)
  BY <1>8, <1>10 DEF Alike, Going, F
<1>12. calls' \in 0..MaxCall
  BY HistoryTypes
<1>13. CASE h.call = "throw"
  <2>1. Thrown
    BY <1>5, <1>13 DEF Handle
  <2> QED BY <2>1, ThrownIInv
<1>14. CASE h.call = "invalidate"
  <2>1. h.arg \in Given /\ InvalidateCalled(h.arg, rest) /\ UNCHANGED cells
    BY <1>5, <1>6, <1>14 DEF Handle, Handler, Throw
  <2> QED BY <1>11, <1>12, <2>1, GivenNodes, InvalidateIInv
<1>15. CASE h.call = "set"
  <2>1. h.arg \in Cell
    BY <1>6, <1>15 DEF Handler, Throw
  <2>2. CASE sets < MaxSet
    <3>1. SetCalled(h.arg, rest)
      BY <1>5, <1>15, <2>2 DEF Handle
    <3> QED BY <1>11, <1>12, <2>1, <2>2, <3>1, SetIInv
  <2>3. CASE ~(sets < MaxSet)
    <3>1. stack' = rest /\ UNCHANGED <<graph, handlers, cells, history>>
      BY <1>5, <1>15, <2>3 DEF Handle
    <3> QED BY <1>11, <1>12, <3>1, FramesKept
  <2> QED BY <2>2, <2>3
<1> QED BY <1>5, <1>13, <1>14, <1>15 DEF Handle

\* The event of a Computed is cleared, and so has nobody left to tell.
LEMMA FireOverIInv == ASSUME IInv, FireOver, UNCHANGED calls PROVE IInv'
<1> DEFINE f == Head(stack)
           t == Tail(stack)
           F == Range(stack)
<1>1. /\ stack # <<>> /\ f.in = "fire" /\ stack' = t
      /\ handlers' = IF f.event \in Node THEN [handlers EXCEPT ![f.event] = {}] ELSE handlers
      /\ UNCHANGED <<graph, cells, history>>
  BY DEF FireOver, Inside
<1>2. stack \in Seq(Frame) /\ Nested(stack)
  BY DEF IInv, Shaped
<1>3. f \in Frame /\ t \in Seq(Frame) /\ F = {f} \union Range(t) /\ Nested(t)
  BY <1>1, <1>2, Popped
<1> HIDE DEF f, t, F
<1>4. TopFrom(F, Range(t), f)
  BY <1>3, OnTop
<1>5. /\ LeftOf(Range(t)) = LeftOf(F)
      /\ EventsOf(F) = {f.event} \union EventsOf(Range(t))
      /\ \A c \in Cell : ResultsOf(Range(t), c) = ResultsOf(F, c)
  BY <1>1, <1>4 DEF TopFrom
<1>6. /\ graph' = graph /\ value' = value /\ expected' = expected /\ UNCHANGED cells
      /\ skipped' = skipped /\ silenced' = silenced /\ spoiled' = spoiled
  BY <1>1 DEF cells, history
<1>7. graph \in Graph /\ Linked(graph) /\ Settled(graph)
  BY ShapedState DEF IInv
<1>8. /\ handlers' \in [Event -> SUBSET Handler]
      /\ \A n \in Node : handlers'[n] = IF n = f.event THEN {} ELSE handlers[n]
  BY <1>1, HistoryTypes DEF Event
<1>9. Shaped'
  BY <1>1, <1>3, <1>6, <1>7, <1>8, HistoryTypes, ShapedKept
<1>10. Linked(graph)' /\ Settled(graph)'
  BY <1>6, <1>7 DEF Linked, Settled
<1>11. Blank'
  BY <1>1, <1>5, <1>6 DEF IInv, Blank, Existing, F
<1>12. Rests'
  BY <1>1, <1>5, <1>6 DEF IInv, Rests, F
<1>13. Fires'
  BY <1>1, <1>5, <1>6, <1>8 DEF IInv, Fires, F
<1>14. Completes'
  BY <1>1, <1>5, <1>6 DEF IInv, Completes, F
<1>15. CellsShaped' /\ Replacing' /\ Latest'
  <2>1. \A n \in Node \ {Sink} : graph'.state[n] \in {graph.state[n], "Invalidated"}
    BY <1>6
  <2> QED BY <1>1, <1>5, <1>6, <2>1, CellsKept DEF F
<1> QED BY <1>9, <1>10, <1>11, <1>12, <1>13, <1>14, <1>15 DEF IInv

\* set() fires its events.
LEMMA SetFiresIInv == ASSUME IInv, SetFires, UNCHANGED calls PROVE IInv'
<1> DEFINE f == Head(stack)
           t == Tail(stack)
           F == Range(stack)
           k == [f EXCEPT !.next = IF @ = "onInvalidated" THEN "onUpdating" ELSE "new"]
           e == Firing(<<f.cell, f.next>>)
           rest == <<k>> \o t
<1>1. /\ stack # <<>> /\ f.in = "set" /\ f.next \in {"onInvalidated", "onUpdating"}
      /\ stack' = <<e, k>> \o t
      /\ UNCHANGED <<graph, handlers, cells, history>>
  BY DEF SetFires, Inside
<1>2. stack \in Seq(Frame) /\ Nested(stack)
  BY DEF IInv, Shaped
<1>3. /\ f \in Frame /\ t \in Seq(Frame) /\ F = {f} \union Range(t) /\ Nested(t)
      /\ \A g \in Range(t) : g.in = "set" => f.result > g.result
  BY <1>1, <1>2, Popped
<1> HIDE DEF f, t, F
<1>4. k \in Frame /\ k.in = "set" /\ k.cell = f.cell /\ k.result = f.result
  BY <1>1, <1>3 DEF Frame
<1>5. e \in Frame /\ e.in = "fire" /\ e.event = <<f.cell, f.next>>
  <2>1. f.cell \in Cell
    BY <1>1, <1>3, FrameFields
  <2> QED BY <1>1, <2>1 DEF Firing, Frame, Event, CellEvent
<1> HIDE DEF k, e
<1>6. rest \in Seq(Frame) /\ Range(rest) = {k} \union Range(t) /\ Nested(rest)
  BY <1>3, <1>4, Pushed
<1>7. stack' = <<e>> \o rest
  BY <1>1, <1>3, <1>4, <1>5
<1> HIDE DEF rest
<1>8. stack' \in Seq(Frame) /\ Range(stack') = {e} \union Range(rest) /\ Nested(stack')
  BY <1>5, <1>6, <1>7, Pushed
<1>9. /\ TopFrom(F, Range(t), f) /\ TopFrom(Range(rest), Range(t), k)
      /\ TopFrom(Range(stack'), Range(rest), e)
  BY <1>3, <1>6, <1>8, OnTop
<1>10. /\ LeftOf(Range(rest)) = LeftOf(F) /\ EventsOf(Range(rest)) = EventsOf(F)
       /\ \A c \in Cell : ResultsOf(Range(rest), c) = ResultsOf(F, c)
  <2>1. LeftOf(Range(rest)) = LeftOf(F) /\ EventsOf(Range(rest)) = EventsOf(F)
    BY <1>1, <1>4, <1>9 DEF TopFrom
  <2>2. ASSUME NEW c \in Cell
        PROVE  ResultsOf(Range(rest), c) = ResultsOf(F, c)
    <3>1. CASE f.cell = c
      <4>0. f.in = "set" /\ k.in = "set" /\ k.cell = c
        BY <1>1, <1>4, <3>1
      <4>1. ResultsOf(F, c) = {f.result} \union ResultsOf(Range(t), c)
        BY <1>9, <3>1, <4>0, Zenon DEF TopFrom
      <4>2. ResultsOf(Range(rest), c) = {k.result} \union ResultsOf(Range(t), c)
        BY <1>9, <4>0, Zenon DEF TopFrom
      <4> QED BY <1>4, <4>1, <4>2
    <3>2. CASE f.cell # c
      <4>1. ResultsOf(F, c) = ResultsOf(Range(t), c)
        BY <1>9, <3>2 DEF TopFrom
      <4>2. ResultsOf(Range(rest), c) = ResultsOf(Range(t), c)
        BY <1>4, <1>9, <3>2 DEF TopFrom
      <4> QED BY <4>1, <4>2
    <3> QED BY <3>1, <3>2
  <2> QED BY <2>1, <2>2
<1>11. /\ LeftOf(Range(stack')) = LeftOf(Range(rest))
       /\ EventsOf(Range(rest)) \subseteq EventsOf(Range(stack'))
       /\ \A c \in Cell : ResultsOf(Range(stack'), c) = ResultsOf(Range(rest), c)
  BY <1>5, <1>9 DEF TopFrom
<1>12. Alike(stack')
  BY <1>8, <1>10, <1>11 DEF Alike, Going, F
<1> QED BY <1>1, <1>12, HistoryTypes, FramesKept

\* When the outermost call has returned, nothing is under way.
LEMMA Quiet ==
    ASSUME IInv, stack = <<>>
    PROVE  /\ LeftOf(Range(stack)) = {} /\ EventsOf(Range(stack)) = {}
           /\ \A c : ResultsOf(Range(stack), c) = {}
           /\ graph \in Graph /\ Linked(graph) /\ Settled(graph)
           /\ expected = graph /\ Alike(<<>>)
<1>1. /\ LeftOf(Range(stack)) = {} /\ EventsOf(Range(stack)) = {}
      /\ \A c : ResultsOf(Range(stack), c) = {}
      /\ <<>> \in Seq(Frame) /\ Nested(<<>>)
  BY NoFrames
<1>2. graph \in Graph /\ Linked(graph) /\ Settled(graph)
  BY ShapedState DEF IInv
<1>3. expected = graph
  BY <1>1, <1>2, CompletionOfNone DEF IInv, Completes
<1>4. Alike(<<>>)
  BY <1>1 DEF Alike, Going
<1> QED BY <1>1, <1>2, <1>3, <1>4

\* invalidate() from outside.
LEMMA InvalidateNodeIInv ==
    ASSUME IInv, NEW n \in Existing, InvalidateNode(n)
    PROVE  IInv'
<1>1. /\ stack = <<>> /\ calls < MaxCall /\ calls' = calls + 1
      /\ InvalidateCalled(n, <<>>) /\ UNCHANGED cells
  BY DEF InvalidateNode, Outside
<1>2. n \in Node
  BY GivenNodes DEF Existing, IInv, Shaped, TypeOK
<1>3. calls' \in 0..MaxCall
  BY <1>1, HistoryTypes, BoundAssumption
<1> QED BY <1>1, <1>2, <1>3, Quiet, InvalidateIInv

\* set() from outside.
LEMMA SetFromOutsideIInv ==
    ASSUME IInv, NEW c \in Cell, Set(c)
    PROVE  IInv'
<1>1. /\ stack = <<>> /\ calls < MaxCall /\ calls' = calls + 1
      /\ sets < MaxSet /\ SetCalled(c, <<>>)
  BY DEF Set, Outside
<1>2. calls' \in 0..MaxCall
  BY <1>1, HistoryTypes, BoundAssumption
<1> QED BY <1>1, <1>2, Quiet, SetIInv

\* The Sink is withdrawn as it reads a withdrawn value, or as it completes.
LEMMA SinkWithdrawn ==
    ASSUME IInv, stack = <<>>, stack' = <<Walking(Sink, {})>>,
           graph.state[Sink] = "Computing",
           graph' \in Graph, Linked(graph'), Settled(graph'),
           \A n \in Node : graph'.state[n] = IF n = Sink THEN "Invalidated" ELSE graph.state[n],
           \A n \in Node : graph'.dependencies[n] \subseteq graph.dependencies[n],
           graph.deferred \ {Sink} \subseteq graph'.deferred,
           graph'.deferred \subseteq graph.deferred,
           expected' = graph', calls' \in 0..MaxCall,
           UNCHANGED <<handlers, cells, skipped, silenced, spoiled>>
    PROVE  IInv'
<1> DEFINE w == Walking(Sink, {})
<1>0. Sink \in Node /\ Sink \in Existing
  BY SnapshotAssumption DEF Existing, Given
<1>1. /\ LeftOf(Range(stack)) = {} /\ EventsOf(Range(stack)) = {}
      /\ \A c : ResultsOf(Range(stack), c) = {}
      /\ graph \in Graph /\ Linked(graph) /\ Settled(graph)
  BY Quiet
<1>2. w \in Frame /\ w.in = "invalidate" /\ w.node = Sink /\ w.left = {}
  BY <1>0 DEF Walking, Frame
<1>3. stack' = <<w>> \o <<>>
  OBVIOUS
<1> HIDE DEF w
<1>4. stack' \in Seq(Frame) /\ Range(stack') = {w} \union Range(<<>>) /\ Nested(stack')
  BY <1>2, <1>3, NoFrames, Pushed
<1>5. TopFrom(Range(stack'), Range(<<>>), w)
  BY <1>4, OnTop
<1>6. /\ LeftOf(Range(stack')) = {} /\ Sink \in EventsOf(Range(stack'))
      /\ \A c \in Cell : ResultsOf(Range(stack'), c) = {}
  BY <1>2, <1>5, NoFrames DEF TopFrom
<1>7. /\ handlers' = handlers /\ value' = value /\ UNCHANGED cells
      /\ skipped' = skipped /\ silenced' = silenced /\ spoiled' = spoiled
  BY DEF cells
<1>8. Shaped'
  BY <1>4, <1>7, HistoryTypes, ShapedKept
<1>9. Linked(graph)' /\ Settled(graph)'
  BY DEF Linked, Settled
<1>10. Blank'
  <2>1. ASSUME NEW n \in Node \ Existing
        PROVE  /\ graph'.state[n] = "Computing" /\ n \notin graph'.deferred
               /\ \A m \in Node : n \notin graph'.dependencies[m] /\ m \notin graph'.dependencies[n]
    <3>1. n # Sink
      BY <1>0
    <3> QED BY <3>1 DEF IInv, Blank
  <2>2. Existing' = Existing
    BY <1>7 DEF Existing
  <2> QED BY <1>6, <2>1, <2>2 DEF Blank
<1>11. Rests'
  <2>1. ASSUME NEW n \in Node, NEW d \in graph'.dependencies[n], graph'.state[d] = "Invalidated"
        PROVE  \/ n \in skipped
               \/ graph'.state[n] = "Computing" /\ n \in graph'.deferred
    <3>1. d \in graph.dependencies[n] /\ d \in Node
      BY <1>1 DEF Graph
    <3>2. n # Sink
      BY <1>0, <1>9, <2>1 DEF Linked
    <3>3. d # Sink
      BY <1>0, <1>1, <3>1, ComputingAlone DEF Linked
    <3>4. graph.state[d] = "Invalidated"
      BY <2>1, <3>1, <3>3
    <3>5. n \in skipped \/ (graph.state[n] = "Computing" /\ n \in graph.deferred)
      BY <1>1, <3>1, <3>4 DEF IInv, Rests
    <3> QED BY <3>2, <3>5
  <2> QED BY <1>7, <2>1 DEF Rests
<1>12. Fires'
  <2>1. ASSUME NEW n \in Node, graph'.state[n] = "Invalidated"
        PROVE  handlers[n] = {} \/ n \in silenced \/ n \in EventsOf(Range(stack'))
    BY <1>1, <1>6, <2>1 DEF IInv, Fires
  <2> QED BY <1>7, <2>1 DEF Fires
<1>13. Completes'
  BY <1>6, CompletionOfNone DEF Completes
<1>14. CellsShaped' /\ Replacing' /\ Latest'
  <2>1. \A n \in Node \ {Sink} : graph'.state[n] \in {graph.state[n], "Invalidated"}
    OBVIOUS
  <2>2. \A c \in Cell : ResultsOf(Range(stack'), c) = ResultsOf(Range(stack), c)
    BY <1>1, <1>6
  <2>3. spoiled \subseteq spoiled'
    BY <1>7
  <2> QED BY <1>7, <2>1, <2>2, <2>3, CellsKept
<1> QED BY <1>8, <1>9, <1>10, <1>11, <1>12, <1>13, <1>14 DEF IInv

\* The Sink reads a value that is served, or completes.
LEMMA SinkGoesOn ==
    ASSUME IInv, stack = <<>>, stack' = <<>>,
           graph' \in Graph, Linked(graph'), Settled(graph'),
           \A n \in Node \ {Sink} : graph'.state[n] = graph.state[n],
           graph'.state[Sink] # "Invalidated",
           Sink \notin graph'.deferred \/ graph'.state[Sink] = "Computing",
           NEW d \in Existing, d = Sink \/ graph.state[d] = "Consistent",
           \A n \in Node : graph'.dependencies[n] \subseteq graph.dependencies[n] \union {d},
           \A n \in Node \ {Sink} : graph'.dependencies[n] = graph.dependencies[n],
           graph'.deferred = graph.deferred,
           expected' = graph', calls' \in 0..MaxCall,
           UNCHANGED <<handlers, cells, skipped, silenced, spoiled>>
    PROVE  IInv'
<1>0. Sink \in Node /\ Sink \in Existing
  BY SnapshotAssumption DEF Existing, Given
<1>1. /\ LeftOf(Range(stack)) = {} /\ EventsOf(Range(stack)) = {}
      /\ \A c : ResultsOf(Range(stack), c) = {}
      /\ graph \in Graph /\ Linked(graph) /\ Settled(graph)
  BY Quiet
<1>7. /\ handlers' = handlers /\ value' = value /\ UNCHANGED cells /\ stack' = stack
      /\ skipped' = skipped /\ silenced' = silenced /\ spoiled' = spoiled
  BY DEF cells
<1>8. Shaped'
  BY <1>7, NoFrames, HistoryTypes, ShapedKept
<1>9. Linked(graph)' /\ Settled(graph)'
  BY DEF Linked, Settled
<1>10. Blank'
  <2>1. ASSUME NEW n \in Node \ Existing
        PROVE  /\ graph'.state[n] = "Computing" /\ n \notin graph'.deferred
               /\ \A m \in Node : n \notin graph'.dependencies[m] /\ m \notin graph'.dependencies[n]
    <3>1. n # Sink /\ n # d
      BY <1>0
    <3> QED BY <3>1 DEF IInv, Blank
  <2>2. Existing' = Existing
    BY <1>7 DEF Existing
  <2> QED BY <1>1, <1>7, <2>1, <2>2 DEF Blank
<1>11. Rests'
  <2>1. ASSUME NEW n \in Node, NEW x \in graph'.dependencies[n], graph'.state[x] = "Invalidated"
        PROVE  \/ n \in skipped
               \/ graph'.state[n] = "Computing" /\ n \in graph'.deferred
    <3>1. x \in Node /\ x # Sink /\ graph.state[x] = "Invalidated" /\ x # d
      BY <2>1 DEF Graph
    <3>2. x \in graph.dependencies[n]
      BY <2>1, <3>1
    <3>3. n \in skipped \/ (graph.state[n] = "Computing" /\ n \in graph.deferred)
      BY <1>1, <3>1, <3>2 DEF IInv, Rests
    <3> QED BY <3>3
  <2> QED BY <1>7, <2>1 DEF Rests
<1>12. Fires'
  <2>1. ASSUME NEW n \in Node, graph'.state[n] = "Invalidated"
        PROVE  handlers[n] = {} \/ n \in silenced \/ n \in EventsOf(Range(stack))
    <3>1. graph.state[n] = "Invalidated"
      BY <2>1
    <3> QED BY <3>1 DEF IInv, Fires
  <2> QED BY <1>7, <2>1 DEF Fires
<1>13. Completes'
  BY <1>1, <1>7, CompletionOfNone DEF Completes
<1>14. CellsShaped' /\ Replacing' /\ Latest'
  <2>1. \A n \in Node \ {Sink} : graph'.state[n] \in {graph.state[n], "Invalidated"}
    OBVIOUS
  <2> QED BY <1>7, <2>1, CellsKept
<1> QED BY <1>8, <1>9, <1>10, <1>11, <1>12, <1>13, <1>14 DEF IInv

\* A link from a node that is being computed to one that is served.
LEMMA LinkedToServed ==
    ASSUME NEW g \in Graph, Linked(g), Settled(g), NEW c \in Node, NEW d \in Node,
           g.state[c] = "Computing", g.state[d] = "Consistent",
           NEW h, h = AddDependency(g, c, d)
    PROVE  /\ h \in Graph /\ Linked(h) /\ Settled(h)
           /\ h.state = g.state /\ h.deferred = g.deferred
           /\ \A n \in Node : h.dependencies[n] \subseteq g.dependencies[n] \union {d}
           /\ \A n \in Node \ {c} : h.dependencies[n] = g.dependencies[n]
<1> DEFINE linked == [g EXCEPT !.dependencies[c] = @ \union {d}]
<1>1. h = [linked EXCEPT !.dependants[d] = @ \union {c}]
  BY DEF AddDependency
<1>2. /\ linked \in Graph
      /\ linked.state = g.state /\ linked.dependants = g.dependants
      /\ linked.dependencies = [g.dependencies EXCEPT ![c] = @ \union {d}]
      /\ linked.deferred = g.deferred
  BY DEF Graph
<1> HIDE DEF linked
<1>3. /\ h \in Graph
      /\ h.state = linked.state /\ h.dependencies = linked.dependencies
      /\ h.dependants = [linked.dependants EXCEPT ![d] = @ \union {c}]
      /\ h.deferred = linked.deferred
  <2> DEFINE ants == [linked.dependants EXCEPT ![d] = @ \union {c}]
  <2>1. ants \in [Node -> SUBSET Node]
    BY <1>2 DEF Graph
  <2>2. h = [linked EXCEPT !.dependants = ants]
    BY <1>1, <1>2 DEF Graph
  <2> HIDE DEF ants
  <2>3. /\ h \in Graph
        /\ h.state = linked.state /\ h.dependencies = linked.dependencies
        /\ h.dependants = ants /\ h.deferred = linked.deferred
    BY <1>2, <2>1, <2>2 DEF Graph
  <2> QED BY <2>3 DEF ants
<1>4. h.state = g.state /\ h.deferred = g.deferred
  BY <1>2, <1>3
<1>5. /\ g.dependencies \in [Node -> SUBSET Node] /\ g.dependants \in [Node -> SUBSET Node]
      /\ h.dependencies = [g.dependencies EXCEPT ![c] = @ \union {d}]
      /\ h.dependants = [g.dependants EXCEPT ![d] = @ \union {c}]
  BY <1>2, <1>3 DEF Graph
<1>6. \A n, x \in Node :
         /\ x \in h.dependencies[n] <=> x \in g.dependencies[n] \/ (n = c /\ x = d)
         /\ x \in h.dependants[n] <=> x \in g.dependants[n] \/ (n = d /\ x = c)
  BY <1>5
<1>7. \A n \in Node : /\ n # c => h.dependencies[n] = g.dependencies[n]
                      /\ h.dependencies[n] \subseteq g.dependencies[n] \union {d}
  BY <1>5
<1>8. Linked(h)
  <2>1. \A n, x \in Node :
          n \in h.dependants[x] <=> x \in h.dependencies[n] /\ h.state[x] # "Invalidated"
    BY <1>4, <1>6 DEF Linked
  <2>2. \A n \in Node : h.state[n] = "Invalidated" => h.dependencies[n] = {}
    BY <1>4, <1>7 DEF Linked
  <2> QED BY <2>1, <2>2 DEF Linked
<1>9. Settled(h)
  <2>1. ASSUME NEW n \in Node, NEW x \in h.dependencies[n]
        PROVE  h.state[x] # "Computing"
    <3>1. x \in g.dependencies[n] \/ x = d
      BY <1>7
    <3> QED BY <1>4, <3>1 DEF Settled
  <2> QED BY <2>1 DEF Settled
<1> QED BY <1>3, <1>4, <1>7, <1>8, <1>9

\* The Sink reads n.
LEMMA DependIInv ==
    ASSUME IInv, NEW n \in Existing, Depend(n)
    PROVE  IInv'
<1>1. /\ stack = <<>> /\ calls < MaxCall /\ calls' = calls + 1
      /\ graph.state[Sink] = "Computing" /\ graph.state[n] # "Computing"
      /\ expected' = AddDependency(expected, Sink, n)
      /\ UNCHANGED <<handlers, cells, skipped, silenced, spoiled>>
  BY DEF Depend, Outside
<1>2. n \in Node /\ Sink \in Node
  BY GivenNodes, SnapshotAssumption DEF Existing, IInv, Shaped, TypeOK
<1>3. calls' \in 0..MaxCall
  BY <1>1, HistoryTypes, BoundAssumption
<1>4. graph \in Graph /\ Linked(graph) /\ Settled(graph) /\ expected = graph
  BY <1>1, Quiet
<1>5. CASE graph.state[n] = "Invalidated"
  <2> DEFINE linked == [graph EXCEPT !.dependencies[Sink] = @ \union {n}]
             h == Withdrawn(linked, Sink)
  <2>1. graph' = h /\ stack' = <<Walking(Sink, graph.dependants[Sink])>>
    BY <1>5 DEF Depend
  <2>2. /\ graph.dependants[Sink] = {}
        /\ AddDependency(graph, Sink, n) = h
        /\ h \in Graph /\ Linked(h) /\ Settled(h)
        /\ \A x \in Node : h.state[x] = IF x = Sink THEN "Invalidated" ELSE graph.state[x]
        /\ \A x \in Node : h.dependencies[x] \subseteq graph.dependencies[x]
        /\ h.deferred = graph.deferred
    BY <1>1, <1>2, <1>4, <1>5, ReadsWithdrawn
  <2> HIDE DEF h
  <2>3. stack' = <<Walking(Sink, {})>> /\ expected' = graph'
    BY <1>1, <1>4, <2>1, <2>2
  <2> QED BY <1>1, <1>3, <2>1, <2>2, <2>3, SinkWithdrawn
<1>6. CASE graph.state[n] # "Invalidated"
  <2>1. graph.state[n] = "Consistent"
    BY <1>1, <1>2, <1>4, <1>6 DEF Graph, ConsistencyState
  <2>2. graph' = AddDependency(graph, Sink, n) /\ stack' = <<>> /\ expected' = graph'
    BY <1>1, <1>4, <1>6 DEF Depend
  <2>3. /\ graph' \in Graph /\ Linked(graph') /\ Settled(graph')
        /\ graph'.state = graph.state /\ graph'.deferred = graph.deferred
        /\ \A x \in Node : graph'.dependencies[x] \subseteq graph.dependencies[x] \union {n}
        /\ \A x \in Node \ {Sink} : graph'.dependencies[x] = graph.dependencies[x]
    BY <1>1, <1>2, <1>4, <2>1, <2>2, LinkedToServed
  <2>4. /\ \A x \in Node \ {Sink} : graph'.state[x] = graph.state[x]
        /\ graph'.state[Sink] = "Computing"
    BY <1>1, <2>3
  <2> QED BY <1>1, <1>3, <2>1, <2>2, <2>3, <2>4, SinkGoesOn
<1> QED BY <1>5, <1>6

\* The Sink completes.
LEMMA SetOutputIInv == ASSUME IInv, SetOutput PROVE IInv'
<1>1. /\ stack = <<>> /\ calls < MaxCall /\ calls' = calls + 1
      /\ graph.state[Sink] = "Computing"
      /\ expected' = TrySetOutput(expected, Sink)
      /\ UNCHANGED <<handlers, cells, skipped, silenced, spoiled>>
  BY DEF SetOutput, Outside
<1>2. Sink \in Node /\ Sink \in Existing
  BY SnapshotAssumption DEF Existing, Given
<1>3. calls' \in 0..MaxCall
  BY <1>1, HistoryTypes, BoundAssumption
<1>4. graph \in Graph /\ Linked(graph) /\ Settled(graph) /\ expected = graph
  BY <1>1, Quiet
<1>5. CASE Sink \in graph.deferred
  <2> DEFINE set == TrySetOutput([graph EXCEPT !.deferred = @ \ {Sink}], Sink)
             h == Entered(set, Sink)
  <2>1. graph' = h /\ stack' = Calls(set, Sink)
    BY <1>5 DEF SetOutput
  <2>2. /\ set.state[Sink] = "Consistent" /\ set.dependants[Sink] = {}
        /\ TrySetOutput(graph, Sink) = h
        /\ h \in Graph /\ Linked(h) /\ Settled(h)
        /\ \A x \in Node : h.state[x] = IF x = Sink THEN "Invalidated" ELSE graph.state[x]
        /\ \A x \in Node : h.dependencies[x] \subseteq graph.dependencies[x]
        /\ h.deferred = graph.deferred \ {Sink}
    BY <1>1, <1>2, <1>4, <1>5, OutputWithdrawn
  <2> HIDE DEF h, set
  <2>3. stack' = <<Walking(Sink, {})>>
    BY <2>1, <2>2 DEF Calls
  <2>4. expected' = graph'
    BY <1>1, <1>4, <2>1, <2>2
  <2>5. /\ graph' \in Graph /\ Linked(graph') /\ Settled(graph')
        /\ \A x \in Node : graph'.state[x] = IF x = Sink THEN "Invalidated" ELSE graph.state[x]
        /\ \A x \in Node : graph'.dependencies[x] \subseteq graph.dependencies[x]
        /\ graph.deferred \ {Sink} \subseteq graph'.deferred
        /\ graph'.deferred \subseteq graph.deferred
    BY <2>1, <2>2
  <2> QED BY <1>1, <1>3, <2>3, <2>4, <2>5, SinkWithdrawn
<1>6. CASE Sink \notin graph.deferred
  <2>1. graph' = TrySetOutput(graph, Sink) /\ stack' = <<>> /\ expected' = graph'
    BY <1>1, <1>4, <1>6 DEF SetOutput
  <2>2. OutputFrom(graph', graph, Sink)
    BY <1>1, <1>2, <1>4, <1>6, <2>1, OutputFields
  <2>3. /\ graph' \in Graph
        /\ \A x \in Node : graph'.state[x] = IF x = Sink THEN "Consistent" ELSE graph.state[x]
        /\ graph'.dependencies = graph.dependencies /\ graph'.dependants = graph.dependants
        /\ graph'.deferred = graph.deferred
    BY <2>2 DEF OutputFrom
  <2>4. Linked(graph')
    BY <1>1, <1>4, <2>3 DEF Linked
  <2>5. Settled(graph')
    BY <1>4, <2>3 DEF Settled, Graph
  <2>6. /\ \A x \in Node \ {Sink} : graph'.state[x] = graph.state[x]
        /\ graph'.state[Sink] # "Invalidated" /\ Sink \notin graph'.deferred
        /\ \A x \in Node : graph'.dependencies[x] \subseteq graph.dependencies[x] \union {Sink}
        /\ \A x \in Node \ {Sink} : graph'.dependencies[x] = graph.dependencies[x]
    BY <1>2, <1>6, <2>3
  <2> QED BY <1>1, <1>2, <1>3, <2>1, <2>3, <2>4, <2>5, <2>6, SinkGoesOn
<1> QED BY <1>5, <1>6

\* A graph in which c has got its output.
LEMMA OutputLinks ==
    ASSUME NEW g \in Graph, Linked(g), Settled(g), NEW c \in Node,
           g.state[c] = "Computing", NEW h, OutputFrom(h, g, c)
    PROVE  Linked(h) /\ Settled(h)
<1>1. Linked(h)
  BY DEF Linked, OutputFrom
<1>2. Settled(h)
  BY DEF Settled, OutputFrom, Graph
<1> QED BY <1>1, <1>2

\* A set() installs its Computed: the results of the others in progress are older, and
\* so is every value there is unless the cell is spoiled.
LEMMA SetInstallsIInv == ASSUME IInv, SetInstalls, UNCHANGED calls PROVE IInv'
<1> DEFINE f == Head(stack)
           t == Tail(stack)
           F == Range(stack)
           G == Range(stack')
           c == f.cell
           r == f.result
           n == Fresh
           e == Firing(<<c, "onUpdated">>)
<1>1. /\ stack # <<>> /\ f.in = "set" /\ Existing # Node
      /\ graph' = TrySetOutput(graph, n) /\ expected' = TrySetOutput(expected, n)
      /\ value' = [m \in DOMAIN value \union {n} |->
                    IF m = n THEN [cell |-> c, result |-> r] ELSE value[m]]
      /\ snapshot' = [snapshot EXCEPT ![c] = n]
      /\ stack' = <<e>> \o t
      /\ spoiled' = IF \A v \in Range(value) : v.cell = c => v.result < r
                    THEN spoiled ELSE spoiled \union {c}
      /\ result' = result /\ sets' = sets /\ calls' = calls
      /\ handlers' = handlers /\ skipped' = skipped /\ silenced' = silenced
  BY DEF SetInstalls, Inside
<1>2. stack \in Seq(Frame) /\ Nested(stack)
  BY DEF IInv, Shaped
<1>3. /\ f \in Frame /\ t \in Seq(Frame) /\ F = {f} \union Range(t) /\ Nested(t)
      /\ \A g \in Range(t) : g.in = "set" => r > g.result
  BY <1>1, <1>2, Popped
<1> HIDE DEF t, F, G
<1>4. c \in Cell /\ r \in 1..MaxSet
  BY <1>1, <1>3, FrameFields
<1>5. n \in Node /\ n \notin Existing /\ n # Sink
  <2>1. Existing \subseteq Node
    BY GivenNodes DEF Existing, IInv, Shaped, TypeOK
  <2>2. \E m \in Node : m \notin Existing
    BY <1>1, <2>1
  <2> QED BY <2>2 DEF Fresh, Existing, Given
<1>6. n \notin DOMAIN value
  BY <1>5 DEF Existing
<1>7. e \in Frame /\ e.in = "fire" /\ e.event = <<c, "onUpdated">>
  BY <1>4 DEF Firing, Frame, Event, CellEvent
<1> HIDE DEF f, c, r, n, e
<1>8. stack' \in Seq(Frame) /\ G = {e} \union Range(t) /\ Nested(stack')
  BY <1>1, <1>3, <1>7, Pushed DEF G
<1>9. TopFrom(F, Range(t), f) /\ TopFrom(G, Range(t), e)
  BY <1>3, <1>8, OnTop
<1>10. LeftOf(G) = LeftOf(F) /\ EventsOf(F) \subseteq EventsOf(G)
  BY <1>1, <1>7, <1>9 DEF TopFrom
<1>11. /\ ResultsOf(F, c) = {r} \union ResultsOf(Range(t), c)
       /\ ResultsOf(G, c) = ResultsOf(Range(t), c)
  BY <1>1, <1>4, <1>7, <1>9 DEF TopFrom, c, r
<1>12. \A b \in Cell \ {c} : ResultsOf(G, b) = ResultsOf(F, b)
  BY <1>1, <1>7, <1>9 DEF TopFrom, c
<1>13. \A x \in ResultsOf(G, c) : r >= x
  <2>1. ASSUME NEW x \in ResultsOf(Range(t), c)
        PROVE  r >= x
    <3>1. PICK g \in Range(t) : g.in = "set" /\ g.cell = c /\ x = g.result
      BY DEF ResultsOf
    <3>2. g \in Frame
      BY <1>3, <1>7, Pushed
    <3>3. x \in 1..MaxSet /\ r > x
      BY <1>3, <3>1, <3>2, FrameFields
    <3> QED BY <1>4, <3>3
  <2> QED BY <1>11, <2>1
<1>14. /\ graph \in Graph /\ Linked(graph) /\ Settled(graph)
       /\ LeftOf(F) \in SUBSET Node /\ expected = Completion(graph, LeftOf(F))
  BY ShapedState DEF IInv, Completes, F
<1>15. /\ graph.state[n] = "Computing" /\ n \notin graph.deferred /\ n \notin LeftOf(F)
       /\ \A m \in Node : n \notin graph.dependencies[m] /\ m \notin graph.dependencies[n]
  BY <1>5 DEF IInv, Blank, F
<1>16. OutputFrom(graph', graph, n)
  BY <1>1, <1>5, <1>14, <1>15, OutputFields
<1>17. /\ graph' \in Graph /\ Linked(graph') /\ Settled(graph')
       /\ \A m \in Node : graph'.state[m] = IF m = n THEN "Consistent" ELSE graph.state[m]
       /\ graph'.dependencies = graph.dependencies /\ graph'.deferred = graph.deferred
  BY <1>5, <1>14, <1>15, <1>16, OutputLinks DEF OutputFrom
<1>18. Linked(graph)' /\ Settled(graph)'
  BY <1>17 DEF Linked, Settled
<1>19. /\ snapshot \in [Cell -> Node] /\ result \in [Cell -> 0..MaxSet]
       /\ DOMAIN value \subseteq Node /\ sets \in 0..MaxSet
       /\ Range(value) \subseteq [cell : Cell, result : 0..MaxSet]
  BY DEF IInv, Shaped, TypeOK
<1>20. /\ DOMAIN value' = DOMAIN value \union {n}
       /\ value'[n] = [cell |-> c, result |-> r]
       /\ \A m \in DOMAIN value : value'[m] = value[m] /\ m # n
  BY <1>1, <1>6
<1>21. /\ snapshot' \in [Cell -> Node] /\ snapshot'[c] = n
       /\ \A b \in Cell \ {c} : snapshot'[b] = snapshot[b]
  BY <1>1, <1>4, <1>5, <1>19
<1>22. /\ \A m \in DOMAIN value : graph.state[m] # "Computing" /\ m # Sink
       /\ \A b \in Cell :
            /\ snapshot[b] \in DOMAIN value /\ value[snapshot[b]].cell = b
            /\ result[b] <= sets
            /\ \A x \in ResultsOf(F, b) : x <= result[b]
  BY DEF IInv, CellsShaped, F
<1>23. \A m \in DOMAIN value : /\ graph'.state[m] = graph.state[m]
                               /\ value[m].cell \in Cell /\ value[m].result \in 0..MaxSet
                               /\ value[m] \in Range(value)
  BY <1>17, <1>19, <1>20 DEF Range
<1>24. Shaped'
  <2>1. DOMAIN value' \subseteq Node
    BY <1>5, <1>19, <1>20
  <2>2. Range(value') \subseteq [cell : Cell, result : 0..MaxSet]
    <3>1. ASSUME NEW m \in DOMAIN value'
          PROVE  value'[m] \in [cell : Cell, result : 0..MaxSet]
      <4>1. CASE m = n
        BY <1>4, <1>20, <4>1, BoundAssumption
      <4>2. CASE m # n
        BY <1>19, <1>20, <1>23, <4>2
      <4> QED BY <4>1, <4>2
    <3> QED BY <3>1 DEF Range
  <2>3. spoiled' \in SUBSET Cell
    BY <1>1, <1>4, HistoryTypes
  <2>4. \A i \in DOMAIN stack' : stack'[i] \in Frame
    BY <1>8
  <2>5. TypeOK'
    BY <1>1, <1>17, <1>19, <1>21, <2>1, <2>2, <2>3, <2>4, HistoryTypes DEF TypeOK
  <2> QED BY <1>1, <1>8, <2>5, HistoryTypes DEF Shaped
<1>25. Blank'
  <2>1. Existing' = Existing \union {n}
    BY <1>20 DEF Existing
  <2>2. ASSUME NEW m \in Node \ Existing'
        PROVE  /\ graph'.state[m] = "Computing" /\ m \notin graph'.deferred
               /\ m \notin LeftOf(G)
               /\ \A x \in Node : m \notin graph'.dependencies[x] /\ x \notin graph'.dependencies[m]
    <3>1. m \in Node \ Existing /\ m # n
      BY <2>1
    <3> QED BY <1>10, <1>17, <3>1 DEF IInv, Blank, F
  <2> QED BY <2>2 DEF Blank, G
<1>26. Rests'
  <2>1. ASSUME NEW m \in Node, NEW d \in graph'.dependencies[m], graph'.state[d] = "Invalidated"
        PROVE  \/ m \in LeftOf(G) \/ m \in skipped
               \/ graph'.state[m] = "Computing" /\ m \in graph'.deferred
    <3>1. d \in Node /\ d \in graph.dependencies[m] /\ m # n /\ d # n
      BY <1>5, <1>14, <1>15, <1>17 DEF Graph
    <3>2. graph.state[d] = "Invalidated" /\ graph'.state[m] = graph.state[m]
      BY <1>17, <2>1, <3>1
    <3> QED BY <1>10, <1>17, <3>1, <3>2 DEF IInv, Rests, F
  <2> QED BY <1>1, <2>1 DEF Rests, G
<1>27. Fires'
  <2>1. ASSUME NEW m \in Node, graph'.state[m] = "Invalidated"
        PROVE  handlers[m] = {} \/ m \in silenced \/ m \in EventsOf(G)
    <3>1. graph.state[m] = "Invalidated"
      BY <1>17, <2>1
    <3> QED BY <1>10, <3>1 DEF IInv, Fires, F
  <2> QED BY <1>1, <2>1 DEF Fires, G
<1>28. Completes'
  <2>1. \A m \in Node : n \notin graph.dependants[m]
    BY <1>5, <1>14, <1>15 DEF Linked
  <2>2. Completion(graph', LeftOf(F)) = TrySetOutput(Completion(graph, LeftOf(F)), n)
    BY <1>1, <1>5, <1>14, <1>15, <2>1, OutputCompletes
  <2> QED BY <1>1, <1>10, <1>14, <2>2 DEF Completes, G
<1>29. CellsShaped'
  <2>1. \A m \in DOMAIN value' : graph'.state[m] # "Computing" /\ m # Sink
    BY <1>5, <1>17, <1>20, <1>22, <1>23
  <2>2. ASSUME NEW b \in Cell
        PROVE  /\ snapshot'[b] \in DOMAIN value' /\ value'[snapshot'[b]].cell = b
               /\ result[b] <= sets
               /\ \A x \in ResultsOf(G, b) : x <= result[b]
    <3>1. CASE b = c
      BY <1>11, <1>20, <1>21, <1>22, <3>1
    <3>2. CASE b # c
      BY <1>12, <1>20, <1>21, <1>22, <3>2
    <3> QED BY <3>1, <3>2
  <2> QED BY <1>1, <2>1, <2>2 DEF CellsShaped, G
<1>30. Replacing'
  <2>1. ASSUME NEW b \in Cell, NEW x \in ResultsOf(G, b)
        PROVE  \/ graph'.state[snapshot'[b]] = "Invalidated"
               \/ \E m \in DOMAIN value' : value'[m].cell = b /\ value'[m].result >= x
    <3>1. CASE b = c
      <4>1. n \in DOMAIN value' /\ value'[n].cell = b /\ value'[n].result >= x
        BY <1>13, <1>20, <2>1, <3>1
      <4> QED BY <4>1
    <3>2. CASE b # c
      <4>1. x \in ResultsOf(F, b)
        BY <1>12, <2>1, <3>2
      <4>2. \/ graph.state[snapshot[b]] = "Invalidated"
            \/ \E m \in DOMAIN value : value[m].cell = b /\ value[m].result >= x
        BY <4>1 DEF IInv, Replacing, F
      <4>3. snapshot'[b] = snapshot[b] /\ snapshot[b] \in DOMAIN value
        BY <1>21, <1>22, <3>2
      <4> QED BY <1>20, <1>23, <4>2, <4>3
    <3> QED BY <3>1, <3>2
  <2> QED BY <2>1 DEF Replacing, G
<1>31. Latest'
  <2>1. ASSUME NEW b \in Cell \ spoiled'
        PROVE  /\ value'[snapshot'[b]].result = result[b] \/ result[b] \in ResultsOf(G, b)
               /\ \A m \in DOMAIN value' :
                     value'[m].cell = b /\ m # snapshot'[b] => graph'.state[m] = "Invalidated"
    <3>0. b \in Cell \ spoiled
      BY <1>1
    <3>1. /\ value[snapshot[b]].result = result[b] \/ result[b] \in ResultsOf(F, b)
          /\ \A m \in DOMAIN value :
                value[m].cell = b /\ m # snapshot[b] => graph.state[m] = "Invalidated"
      BY <3>0 DEF IInv, Latest, F
    <3>2. CASE b # c
      <4>1. snapshot'[b] = snapshot[b] /\ ResultsOf(G, b) = ResultsOf(F, b)
        BY <1>12, <1>21, <3>2
      <4> QED BY <1>20, <1>22, <1>23, <3>1, <3>2, <4>1
    <3>3. CASE b = c
      <4>1. \A v \in Range(value) : v.cell = c => v.result < r
        BY <1>1, <2>1, <3>3
      <4>2. snapshot[c] \in DOMAIN value /\ value[snapshot[c]].result < r
        BY <1>4, <1>22, <1>23, <4>1
      <4>3. r <= result[c] /\ result[c] \in 0..MaxSet
        BY <1>4, <1>11, <1>19, <1>22
      <4>4. value[snapshot[c]].result # result[c]
        BY <1>4, <1>23, <4>2, <4>3
      <4>5. r = result[c] \/ result[c] \in ResultsOf(G, c)
        BY <1>11, <3>1, <3>3, <4>4
      <4>6. graph.state[snapshot[c]] = "Invalidated"
        <5>1. ~ \E m \in DOMAIN value : value[m].cell = c /\ value[m].result >= r
          BY <1>4, <1>23, <4>1
        <5> QED BY <1>4, <1>11, <5>1 DEF IInv, Replacing, F
      <4>7. ASSUME NEW m \in DOMAIN value', value'[m].cell = c, m # n
            PROVE  graph'.state[m] = "Invalidated"
        <5>1. m \in DOMAIN value /\ value[m].cell = c
          BY <1>20, <4>7
        <5> QED BY <1>23, <3>1, <3>3, <4>6, <5>1
      <4>8. value'[snapshot'[c]].result = r /\ snapshot'[c] = n
        BY <1>20, <1>21
      <4> QED BY <3>3, <4>5, <4>7, <4>8
    <3> QED BY <3>2, <3>3
  <2> QED BY <1>1, <2>1 DEF Latest, G
<1> QED BY <1>18, <1>24, <1>25, <1>26, <1>27, <1>28, <1>29, <1>30, <1>31 DEF IInv

\* Nothing happens.
LEMMA StutterIInv == ASSUME IInv, UNCHANGED vars PROVE IInv'
<1>1. UNCHANGED <<graph, handlers, cells, history>> /\ stack' = stack /\ calls' = calls
  BY DEF vars
<1>2. Alike(stack')
  BY <1>1 DEF Alike, Going, IInv, Shaped
<1> QED BY <1>1, <1>2, HistoryTypes, FramesKept

\* Every step keeps the invariant.
LEMMA NextIInv == ASSUME IInv, [Next]_vars PROVE IInv'
<1>1. CASE Inner /\ UNCHANGED calls
  <2>1. CASE Walk
    BY <1>1, <2>1, WalkIInv
  <2>2. CASE WalkOver
    BY <1>1, <2>2, WalkOverIInv
  <2>3. CASE Notify
    BY <1>1, <2>3, NotifyIInv
  <2>4. CASE FireOver
    BY <1>1, <2>4, FireOverIInv
  <2>5. CASE SetFires
    BY <1>1, <2>5, SetFiresIInv
  <2>6. CASE SetInstalls
    BY <1>1, <2>6, SetInstallsIInv
  <2> QED BY <1>1, <2>1, <2>2, <2>3, <2>4, <2>5, <2>6 DEF Inner
<1>2. ASSUME NEW n \in Existing, InvalidateNode(n) \/ Depend(n)
      PROVE  IInv'
  BY <1>2, InvalidateNodeIInv, DependIInv
<1>3. ASSUME NEW c \in Cell, Set(c)
      PROVE  IInv'
  BY <1>3, SetFromOutsideIInv
<1>4. CASE SetOutput
  BY <1>4, SetOutputIInv
<1>5. CASE UNCHANGED vars
  BY <1>5, StutterIInv
<1> QED BY <1>1, <1>2, <1>3, <1>4, <1>5 DEF Next

-----------------------------------------------------------------------------
(***************************************************************************)
(* The properties.                                                         *)
(***************************************************************************)

\* In every reachable state, the invariant holds.
THEOREM Invariance == Spec => []IInv
<1>1. Init => IInv
  BY InitIInv
<1>2. IInv /\ [Next]_vars => IInv'
  BY NextIInv
<1> QED BY <1>1, <1>2, PTL DEF Spec

\* The variables keep their types, and every call in progress is one of the three kinds.
THEOREM TypeTheorem == Spec => []TypeOK
<1>1. IInv => TypeOK
  BY DEF IInv, Shaped
<1> QED BY <1>1, Invariance, PTL

\* When the outermost call has returned, invalidate() with all its nested handlers has
\* done what the single step of Computed says, and every withdrawn Computed whose event
\* no exception kept from firing has lost its handlers.
THEOREM CompleteTheorem == Spec => []CascadeIsComplete
<1>1. IInv => CascadeIsComplete
  <2> SUFFICES ASSUME IInv, stack = <<>>
               PROVE  /\ graph = expected
                      /\ \A n \in Node \ silenced :
                           graph.state[n] = "Invalidated" => handlers[n] = {}
    BY DEF CascadeIsComplete
  <2>1. graph = expected /\ EventsOf(Range(stack)) = {}
    BY Quiet
  <2>2. \A n \in Node \ silenced : graph.state[n] = "Invalidated" => handlers[n] = {}
    BY <2>1 DEF IInv, Fires
  <2> QED BY <2>1, <2>2
<1> QED BY <1>1, Invariance, PTL

\* At any moment, whatever is served over a withdrawn value is about to be visited, or
\* was left behind by an exception.
THEOREM UnderWayTheorem == Spec => []StaleOnlyUnderWay
<1>1. IInv => StaleOnlyUnderWay
  <2> SUFFICES ASSUME IInv, NEW n \in Node, NEW d \in graph.dependencies[n],
                      graph.state[n] = "Consistent", graph.state[d] = "Invalidated"
               PROVE  n \in ToVisit \union skipped
    BY DEF StaleOnlyUnderWay
  <2>1. ToVisit = LeftOf(Range(stack))
    BY ShapedState DEF IInv
  <2> QED BY <2>1 DEF IInv, Rests
<1> QED BY <1>1, Invariance, PTL

\* When the outermost call has returned, a MutableState that no exception and no nested
\* set() has disturbed serves its last result and nothing else.
THEOREM LatestTheorem == Spec => []LatestSetWins
<1>1. IInv => LatestSetWins
  <2> SUFFICES ASSUME IInv, stack = <<>>, NEW c \in Cell \ spoiled
               PROVE  /\ value[snapshot[c]].result = result[c]
                      /\ \A n \in DOMAIN value :
                           value[n].cell = c /\ graph.state[n] = "Consistent" => n = snapshot[c]
    BY DEF LatestSetWins
  <2>1. ResultsOf(Range(stack), c) = {}
    BY Quiet
  <2>2. /\ value[snapshot[c]].result = result[c] \/ result[c] \in ResultsOf(Range(stack), c)
        /\ \A n \in DOMAIN value :
              value[n].cell = c /\ n # snapshot[c] => graph.state[n] = "Invalidated"
    BY DEF IInv, Latest
  <2> QED BY <2>1, <2>2
<1> QED BY <1>1, Invariance, PTL
=============================================================================
