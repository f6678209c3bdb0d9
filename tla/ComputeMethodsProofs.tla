-------------------------- MODULE ComputeMethodsProofs --------------------------
(***************************************************************************)
(* What ComputeMethods guarantees for any methods, cells and callers: the  *)
(* invariants its runs check.  The graph is the part that ComputedProofs   *)
(* deals with; here it is tied to the stacks of the callers, to the locks  *)
(* and to the registry.                                                    *)
(***************************************************************************)
EXTENDS ComputeMethods, ComputedProofs

\* The frames of a task, by their depth.
Frames(t) == 1..Len(stack[t])

\* The types that TypeOK leaves open.
Typed ==
    /\ TypeOK
    /\ input \in [Created -> Key \union Tracked]
    /\ result \in [Task -> SUBSET SUBSET Datum]

\* A Computed that was not constructed yet is untouched.
Untouched == \A n \in Node \ Created : graph.state[n] = "Computing"

\* The registry holds Computed objects under their own input.
Registered ==
    \A k \in Key : storage[k] # NoNode => storage[k] \in Created /\ input[storage[k]] = k

\* The Computed of a MutableState is of that state, and holds its current version;
\* an older one is not served any more.
CellsCurrent ==
    /\ \A c \in Tracked :
          /\ snapshot[c] \in Created /\ input[snapshot[c]] = c
          /\ graph.state[snapshot[c]] # "Computing"
          /\ \A d \in value[snapshot[c]] : d.cell = c /\ d.version = version[c]
    /\ \A n \in Created : input[n] \in Tracked /\ Served(n) => snapshot[input[n]] = n

\* Every call but the innermost is in its body; a body has a Computed of its key in
\* context and holds the lock of its key; a call that waits has seen nothing.
FramesShaped ==
    \A t \in Task : \A i \in Frames(t) :
        LET f == stack[t][i]
        IN  /\ i # 1 => f.phase = "computing"
            /\ f.phase = "computing" =>
                  f.node \in Created /\ input[f.node] = f.key /\ t \in owners[f.key]
            /\ f.phase = "locking" => f.node = NoNode /\ f.seen = {}

\* Each call of a stack is awaited by the one below it.
Chained ==
    \A t \in Task : \A i \in Frames(t) :
        i + 1 \in Frames(t) => stack[t][i].key \in Awaits(stack[t][i + 1].key)

\* The tasks queued for the lock of a key are waiting for it in computeAsync.
QueuedFor(k) ==
    /\ \A i \in 1..Len(waiting[k]) :
          LET t == waiting[k][i]
          IN  /\ stack[t] # <<>>
              /\ stack[t][1].phase = "locking" /\ stack[t][1].key = k
              /\ t \notin owners[k]
    /\ \A i, j \in 1..Len(waiting[k]) : waiting[k][i] = waiting[k][j] => i = j

\* A lock has one owner, which is in the method of its key.
LocksHeld ==
    \A k \in Key :
        /\ \A t, u \in owners[k] : t = u
        /\ \A t \in owners[k] : \E i \in Frames(t) : stack[t][i].key = k
        /\ QueuedFor(k)

\* While a key is being computed no value of it is served.
ComputedAlone ==
    \A t \in Task : \A i \in Frames(t) :
        stack[t][i].phase = "computing" =>
            \A n \in Created : input[n] = stack[t][i].key => ~Served(n)

\* Where the data of a computation come from: plain data it has read itself, the
\* rest from what it depends on.
Supported(n, data) ==
    \A d \in data :
        \/ d.node = n /\ d.cell \in Plain
        \/ \E m \in graph.dependencies[n] : d \in value[m]

ValuesSupported ==
    /\ \A n \in Created :
          input[n] \in Key /\ Served(n) => Supported(n, value[n])
    /\ \A t \in Task : \A i \in Frames(t) :
          LET f == stack[t][i]
          IN  f.phase = "computing" /\ graph.state[f.node] = "Computing" =>
                  Supported(f.node, f.seen)

\* Nobody else has seen what a computation in progress has read.
InProgress(n) ==
    \E t \in Task : \E i \in Frames(t) :
        stack[t][i].phase = "computing" /\ stack[t][i].node = n

OwnUnpublished ==
    /\ \A m \in Node : \A d \in value[m] : d.node \in Created /\ ~InProgress(d.node)
    /\ \A t \in Task : \A i \in Frames(t) : \A d \in stack[t][i].seen :
          d.node \in Created /\ (InProgress(d.node) => d.node = stack[t][i].node)

\* The plain data a computation has read itself are among those its method reads,
\* and are current, or it was hit by a race.
OwnCurrent(n, data) ==
    \A d \in data :
        d.node = n /\ d.cell \in Plain =>
            /\ d.cell \in Awaits(input[n])
            /\ d.version = version[d.cell] \/ n \in raced

OwnReadsCurrent ==
    /\ \A n \in Created : input[n] \in Key /\ Served(n) => OwnCurrent(n, value[n])
    /\ \A t \in Task : \A i \in Frames(t) :
          LET f == stack[t][i]
          IN  f.phase = "computing" => OwnCurrent(f.node, f.seen)

\* What a task has seen so far of a MutableState is no older than its call.
SeenSinceCall ==
    \A t \in Task :
        /\ \A c \in Cell : began[t][c] <= version[c]
        /\ \A i \in Frames(t) : \A d \in stack[t][i].seen :
              d.cell \in Tracked => d.version >= began[t][d.cell]

\* The inductive invariant.
IInv ==
    /\ Typed
    /\ GraphInv(graph)
    /\ Untouched
    /\ Registered
    /\ CellsCurrent
    /\ FramesShaped
    /\ Chained
    /\ LocksHeld
    /\ ServedIsRegistered
    /\ ComputedAlone
    /\ ValuesSupported
    /\ OwnUnpublished
    /\ OwnReadsCurrent
    /\ SeenSinceCall
    /\ ReadYourWrites

-----------------------------------------------------------------------------
(***************************************************************************)
(* What a state that satisfies the invariant has besides.                  *)
(***************************************************************************)

\* A frame of a stack is a frame.
LEMMA FrameTypes ==
    ASSUME Typed, NEW t \in Task, NEW i \in Frames(t)
    PROVE  /\ stack[t] \in Seq(Frame) /\ stack[t][i] \in Frame
           /\ stack[t][i].key \in Key /\ stack[t][i].phase \in Phase
           /\ stack[t][i].at \in Nat \ {0}
           /\ stack[t][i].node \in Node \union {NoNode}
           /\ stack[t][i].seen \in SUBSET Datum
<1>1. stack[t] \in Seq(Frame) /\ stack[t][i] \in Frame
  BY DEF Typed, TypeOK, Frames
<1> QED BY <1>1 DEF Frame

\* No method is called from within itself: the keys of a stack are distinct ...
LEMMA DistinctKeys ==
    ASSUME Typed, Chained, NEW t \in Task, NEW i \in Frames(t), NEW j \in Frames(t),
           stack[t][i].key = stack[t][j].key
    PROVE  i = j
<1>1. ASSUME NEW g \in Frames(t), NEW h \in Frames(t), g < h,
             stack[t][g].key = stack[t][h].key
      PROVE  FALSE
  <2> DEFINE S == {stack[t][m].key : m \in g..h}
  <2>1. Len(stack[t]) \in Nat
    BY DEF Typed, TypeOK
  <2>2. \A m \in g..h : m \in Frames(t)
    BY <2>1 DEF Frames
  <2>3. S \in (SUBSET Key) \ {{}}
    <3>1. \A m \in g..h : stack[t][m].key \in Key
      BY <2>2, FrameTypes
    <3>2. stack[t][g].key \in S
      BY <1>1, <2>1 DEF Frames
    <3> QED BY <3>1, <3>2
  <2>4. ASSUME NEW k \in S
        PROVE  Awaits(k) \intersect S # {}
    <3>1. PICK m \in g..h : k = stack[t][m].key
      OBVIOUS
    <3>2. PICK l \in (g + 1)..h : k = stack[t][l].key
      <4>1. CASE m = g
        BY <1>1, <2>1, <3>1, <4>1 DEF Frames
      <4>2. CASE m # g
        BY <1>1, <2>1, <3>1, <4>2 DEF Frames
      <4> QED BY <4>1, <4>2
    <3>3. l - 1 \in g..h /\ l \in Frames(t) /\ l - 1 \in Frames(t) /\ (l - 1) + 1 = l
      BY <1>1, <2>1, <3>2 DEF Frames
    <3>4. stack[t][l - 1].key \in Awaits(k)
      BY <3>2, <3>3 DEF Chained
    <3>5. stack[t][l - 1].key \in S
      BY <3>3
    <3> QED BY <3>4, <3>5
  <2> QED BY <2>3, <2>4, BodyAssumption
<1>2. Len(stack[t]) \in Nat
  BY DEF Typed, TypeOK
<1> QED BY <1>1, <1>2 DEF Frames

\* ... and distinct from what the innermost method awaits.
LEMMA NewKey ==
    ASSUME Typed, Chained, NEW t \in Task, stack[t] # <<>>,
           NEW k \in Key, k \in Awaits(stack[t][1].key), NEW i \in Frames(t)
    PROVE  stack[t][i].key # k
<1> SUFFICES ASSUME stack[t][i].key = k PROVE FALSE
  OBVIOUS
<1> DEFINE S == {stack[t][m].key : m \in 1..i}
<1>1. Len(stack[t]) \in Nat
  BY DEF Typed, TypeOK
<1>2. \A m \in 1..i : m \in Frames(t)
  BY <1>1 DEF Frames
<1>3. S \in (SUBSET Key) \ {{}}
  <2>1. \A m \in 1..i : stack[t][m].key \in Key
    BY <1>2, FrameTypes
  <2>2. stack[t][i].key \in S
    BY <1>1 DEF Frames
  <2> QED BY <2>1, <2>2
<1>4. ASSUME NEW j \in S
      PROVE  Awaits(j) \intersect S # {}
  <2>1. PICK m \in 1..i : j = stack[t][m].key
    OBVIOUS
  <2>2. CASE m = 1
    <3>1. stack[t][i].key \in S
      BY <1>1 DEF Frames
    <3> QED BY <2>1, <2>2, <3>1
  <2>3. CASE m # 1
    <3>1. m - 1 \in 1..i /\ m \in Frames(t) /\ m - 1 \in Frames(t) /\ (m - 1) + 1 = m
      BY <1>1, <2>3 DEF Frames
    <3>2. stack[t][m - 1].key \in Awaits(j)
      BY <2>1, <3>1 DEF Chained
    <3> QED BY <3>1, <3>2
  <2> QED BY <2>2, <2>3
<1> QED BY <1>3, <1>4, BodyAssumption

\* Two computations in progress are of different keys and of different nodes.
LEMMA DistinctComputations ==
    ASSUME Typed, Chained, FramesShaped, LocksHeld,
           NEW t \in Task, NEW i \in Frames(t), stack[t][i].phase = "computing",
           NEW u \in Task, NEW j \in Frames(u), stack[u][j].phase = "computing",
           \/ stack[t][i].key = stack[u][j].key
           \/ stack[t][i].node = stack[u][j].node
    PROVE  t = u /\ i = j
<1>1. stack[t][i].key = stack[u][j].key
  BY DEF FramesShaped
<1>2. t \in owners[stack[t][i].key] /\ u \in owners[stack[t][i].key]
  BY <1>1 DEF FramesShaped
<1>3. t = u
  BY <1>2, FrameTypes DEF LocksHeld
<1> QED BY <1>1, <1>3, DistinctKeys

\* What a served node depends on was constructed and is served.
LEMMA DependenciesServed ==
    ASSUME IInv, NEW n \in Node, Served(n), NEW m \in graph.dependencies[n]
    PROVE  m \in Created /\ m \in Node /\ Served(m)
<1>1. m \in Node
  BY DEF IInv, GraphInv, Graph
<1>2. Served(m)
  BY DEF IInv, GraphInv, Coherent, Served
<1> QED BY <1>1, <1>2 DEF IInv, Untouched, Served

\* The served value of a method came from the node's own reads or, datum by datum, from
\* the served values it depends on; so what holds of the current reads holds of all.
LEMMA FreshState == IInv => FreshOverTracked
<1> SUFFICES ASSUME IInv PROVE FreshOverTracked
  OBVIOUS
<1> DEFINE Stale(n) == \E d \in value[n] : d.cell \in Tracked /\ d.version # version[d.cell]
           Bad == {n \in Created : Served(n) /\ Stale(n)}
<1>1. ASSUME NEW n \in Bad
      PROVE  graph.dependencies[n] \intersect Bad # {}
  <2>1. n \in Created /\ n \in Node /\ Served(n)
    BY DEF IInv, Typed, TypeOK
  <2>2. PICK d \in value[n] : d.cell \in Tracked /\ d.version # version[d.cell]
    BY <1>1
  <2>3. CASE input[n] \in Tracked
    BY <2>1, <2>2, <2>3 DEF IInv, CellsCurrent
  <2>4. CASE input[n] \in Key
    <3>1. Supported(n, value[n])
      BY <2>1, <2>4 DEF IInv, ValuesSupported
    <3>2. PICK m \in graph.dependencies[n] : d \in value[m]
      BY <2>2, <3>1, CellAssumption DEF Supported
    <3>3. m \in Created /\ Served(m)
      BY <2>1, <3>2, DependenciesServed
    <3> QED BY <2>2, <3>2, <3>3
  <2> QED BY <2>1, <2>3, <2>4 DEF IInv, Typed, TypeOK
<1>2. Bad \in SUBSET Node
  BY DEF IInv, Typed, TypeOK
<1>3. Bad = {}
  BY <1>1, <1>2 DEF IInv, GraphInv, Acyclic
<1> QED BY <1>3 DEF FreshOverTracked

\* The same of plain data, but for the races.
LEMMA StaleState == IInv => StaleOnlyByRace
<1> SUFFICES ASSUME IInv PROVE StaleOnlyByRace
  OBVIOUS
<1> DEFINE Stale(n) == \E d \in value[n] : /\ d.cell \in Plain
                                           /\ d.version # version[d.cell]
                                           /\ d.node \notin raced
           Bad == {n \in Created : Served(n) /\ Stale(n)}
<1>1. ASSUME NEW n \in Bad
      PROVE  graph.dependencies[n] \intersect Bad # {}
  <2>1. n \in Created /\ n \in Node /\ Served(n)
    BY DEF IInv, Typed, TypeOK
  <2>2. PICK d \in value[n] : /\ d.cell \in Plain
                              /\ d.version # version[d.cell]
                              /\ d.node \notin raced
    BY <1>1
  <2>3. CASE input[n] \in Tracked
    BY <2>1, <2>2, <2>3, CellAssumption DEF IInv, CellsCurrent
  <2>4. CASE input[n] \in Key
    <3>1. d.node # n
      BY <2>1, <2>2, <2>4 DEF IInv, OwnReadsCurrent, OwnCurrent
    <3>2. Supported(n, value[n])
      BY <2>1, <2>4 DEF IInv, ValuesSupported
    <3>3. PICK m \in graph.dependencies[n] : d \in value[m]
      BY <2>2, <3>1, <3>2 DEF Supported
    <3>4. m \in Created /\ Served(m)
      BY <2>1, <3>3, DependenciesServed
    <3> QED BY <2>2, <3>3, <3>4
  <2> QED BY <2>1, <2>3, <2>4 DEF IInv, Typed, TypeOK
<1>2. Bad \in SUBSET Node
  BY DEF IInv, Typed, TypeOK
<1>3. Bad = {}
  BY <1>1, <1>2 DEF IInv, GraphInv, Acyclic
<1> QED BY <1>3 DEF StaleOnlyByRace

\* One served value per key, or one computation.
LEMMA OneCopyState == IInv => AtMostOneCopy
<1> SUFFICES ASSUME IInv, NEW k \in Key, NEW m \in CopiesOf(k), NEW n \in CopiesOf(k)
             PROVE  m = n
  BY DEF AtMostOneCopy
<1> DEFINE Cached(x) == x \in Created /\ input[x] = k /\ Served(x)
           InTheMaking(x) ==
               \E t \in Task : \E i \in Frames(t) :
                   stack[t][i].key = k /\ stack[t][i].phase = "computing" /\ stack[t][i].node = x
<1>1. \A x \in CopiesOf(k) : Cached(x) \/ InTheMaking(x)
  BY DEF CopiesOf, Frames
<1>2. CASE Cached(m) /\ Cached(n)
  BY <1>2 DEF IInv, ServedIsRegistered
<1>3. \A x, y : ~(Cached(x) /\ InTheMaking(y))
  BY DEF IInv, ComputedAlone
<1>4. CASE InTheMaking(m) /\ InTheMaking(n)
  <2> DEFINE At(x, t, i) ==
               stack[t][i].key = k /\ stack[t][i].phase = "computing" /\ stack[t][i].node = x
  <2>1. PICK t \in Task : \E i \in Frames(t) : At(m, t, i)
    BY <1>4
  <2>2. PICK i \in Frames(t) : At(m, t, i)
    BY <2>1
  <2>3. PICK u \in Task : \E j \in Frames(u) : At(n, u, j)
    BY <1>4
  <2>4. PICK j \in Frames(u) : At(n, u, j)
    BY <2>3
  <2>5. t = u /\ i = j
    BY <2>2, <2>4, DistinctComputations DEF IInv
  <2> QED BY <2>2, <2>4, <2>5
<1> QED BY <1>1, <1>2, <1>3, <1>4

\* Among waiting tasks the keys that are waited for and held form no circle: each is
\* held by a call that awaits another one of them.
LEMMA LocksState == IInv => LocksNeverBlock
<1> SUFFICES ASSUME IInv PROVE LocksNeverBlock
  OBVIOUS
<1>1. ASSUME NEW S \in (SUBSET Task) \ {{}}, \A t \in S : \E u \in S : WaitsFor(t, u)
      PROVE  FALSE
  <2> DEFINE K == {k \in Key : \E t \in S : \E i \in Frames(t) : stack[t][i].key = k}
  <2>1. \A t \in S : 1 \in Frames(t)
    <3>1. ASSUME NEW t \in S PROVE stack[t] # <<>> /\ stack[t] \in Seq(Frame)
      BY <1>1 DEF WaitsFor, IInv, Typed, TypeOK
    <3> QED BY <3>1 DEF Frames
  <2>2. K \in (SUBSET Key) \ {{}}
    <3>1. \A t \in S : \A i \in Frames(t) : stack[t][i].key \in Key
      BY FrameTypes DEF IInv
    <3>2. PICK t \in S : TRUE
      OBVIOUS
    <3>3. stack[t][1].key \in K
      BY <2>1, <3>1
    <3> QED BY <3>3
  <2>3. ASSUME NEW k \in K
        PROVE  Awaits(k) \intersect K # {}
    <3>1. PICK t \in S : \E i \in Frames(t) : k = stack[t][i].key
      BY <2>3
    <3>2. PICK i \in Frames(t) : k = stack[t][i].key
      BY <3>1
    <3>3. \E u \in S : \E j \in Frames(u) : k = stack[u][j].key /\ j # 1
      <4>1. CASE i = 1
        <5>1. PICK u \in S : WaitsFor(t, u)
          BY <1>1
        <5>2. Head(stack[t]) = stack[t][1] /\ u # t /\ u \in owners[k]
          BY <3>2, <4>1, <5>1 DEF WaitsFor
        <5>3. PICK j \in Frames(u) : stack[u][j].key = k
          BY <2>2, <2>3, <5>2 DEF IInv, LocksHeld
        <5>4. j # 1
          <6> SUFFICES ASSUME j = 1 PROVE FALSE
            OBVIOUS
          <6>1. PICK v \in S : WaitsFor(u, v)
            BY <1>1
          <6>2. v # u /\ v \in owners[k]
            BY <5>3, <6>1 DEF WaitsFor
          <6> QED BY <2>2, <2>3, <5>2, <6>2 DEF IInv, LocksHeld
        <5> QED BY <5>3, <5>4
      <4>2. CASE i # 1
        BY <3>2, <4>2
      <4> QED BY <4>1, <4>2
    <3>4. PICK u \in S : \E j \in Frames(u) : k = stack[u][j].key /\ j # 1
      BY <3>3
    <3>5. PICK j \in Frames(u) : k = stack[u][j].key /\ j # 1
      BY <3>4
    <3>6. j - 1 \in Frames(u) /\ (j - 1) + 1 = j
      BY <3>5 DEF Frames, IInv, Typed, TypeOK
    <3>7. stack[u][j - 1].key \in Awaits(k)
      BY <3>5, <3>6 DEF IInv, Chained
    <3>8. stack[u][j - 1].key \in K
      <4>1. stack[u][j - 1].key \in Key
        BY <3>6, FrameTypes DEF IInv
      <4> QED BY <3>6, <4>1
    <3> QED BY <3>7, <3>8
  <2> QED BY <2>2, <2>3, BodyAssumption
<1>2. \A k \in Key : \A t \in owners[k] : \E i \in 1..Len(stack[t]) : stack[t][i].key = k
  BY DEF IInv, LocksHeld, Frames
<1> QED BY <1>1, <1>2 DEF LocksNeverBlock

-----------------------------------------------------------------------------
(***************************************************************************)
(* The initial state.                                                      *)
(***************************************************************************)

\* Every MutableState starts with a Computed of its own.
LEMMA InitSnapshot ==
    ASSUME Init
    PROVE  /\ snapshot \in [Tracked -> Node]
           /\ Created = {snapshot[c] : c \in Tracked}
           /\ \A c, d \in Tracked : snapshot[c] = snapshot[d] => c = d
           /\ \A c \in Tracked : input[snapshot[c]] = c
<1>1. snapshot \in [Tracked -> Node] /\ IsInjective(snapshot)
  BY NodesForCells DEF Init
<1>2. \A c, d \in Tracked : snapshot[c] = snapshot[d] => c = d
  BY <1>1 DEF IsInjective
<1>3. Created = {snapshot[c] : c \in Tracked}
  BY DEF Init, Created
<1>4. ASSUME NEW c \in Tracked
      PROVE  input[snapshot[c]] = c
  <2>1. input[snapshot[c]] = CHOOSE d \in Tracked : snapshot[d] = snapshot[c]
    BY DEF Init
  <2> QED BY <1>2, <2>1
<1> QED BY <1>1, <1>2, <1>3, <1>4

\* The graph of those Computed objects satisfies the graph's invariant.
LEMMA InitGraph ==
    ASSUME Init
    PROVE  /\ GraphInv(graph)
           /\ \A n \in Node : graph.state[n] = IF n \in Created THEN "Consistent" ELSE "Computing"
           /\ \A n \in Node : graph.dependencies[n] = {}
<1> DEFINE states == [n \in Node |-> IF n \in Created THEN "Consistent" ELSE NewGraph.state[n]]
<1>1. Created \in SUBSET Node
  BY InitSnapshot
<1>2. /\ NewGraph \in Graph
      /\ \A n \in Node : /\ NewGraph.state[n] = "Computing"
                         /\ NewGraph.dependencies[n] = {} /\ NewGraph.dependants[n] = {}
      /\ NewGraph.armed = {}
  <2>1. NewGraph \in Graph
    BY NewGraphInv DEF GraphInv
  <2> QED BY <2>1 DEF NewGraph
<1>3. states \in [Node -> ConsistencyState]
  BY <1>2 DEF ConsistencyState
<1>4. graph = [NewGraph EXCEPT !.state = states, !.output = Created]
  BY DEF Init
<1> HIDE DEF states
<1>5. /\ graph \in Graph
      /\ graph.state = states
      /\ graph.dependencies = NewGraph.dependencies
      /\ graph.dependants = NewGraph.dependants
      /\ graph.armed = NewGraph.armed
  BY <1>1, <1>2, <1>3, <1>4 DEF Graph
<1>6. \A n \in Node : graph.state[n] = IF n \in Created THEN "Consistent" ELSE "Computing"
  BY <1>2, <1>5 DEF states
<1>7. \A n \in Node : graph.dependencies[n] = {} /\ graph.dependants[n] = {}
  BY <1>2, <1>5
<1>8. Timed(graph)
  BY <1>2, <1>5, NodeAssumption DEF Timed
<1>9. Linked(graph) /\ Coherent(graph) /\ Doomed(graph) /\ Settled(graph) /\ Acyclic(graph)
  BY <1>6, <1>7 DEF Linked, Coherent, Doomed, Settled, Acyclic
<1> QED BY <1>5, <1>6, <1>7, <1>8, <1>9 DEF GraphInv

\* The invariant holds before any call.
LEMMA InitIInv == Init => IInv
<1> SUFFICES ASSUME Init PROVE IInv
  OBVIOUS
<1>1. /\ snapshot \in [Tracked -> Node]
      /\ Created = {snapshot[c] : c \in Tracked}
      /\ \A c, d \in Tracked : snapshot[c] = snapshot[d] => c = d
      /\ \A c \in Tracked : input[snapshot[c]] = c
  BY InitSnapshot
<1>2. /\ GraphInv(graph)
      /\ \A n \in Node : graph.state[n] = IF n \in Created THEN "Consistent" ELSE "Computing"
  BY InitGraph
<1>0. 0 \in 0..MaxVersion
  BY CellAssumption
<1>3. /\ version = [c \in Cell |-> 0]
      /\ storage = [k \in Key |-> NoNode] /\ stack = [t \in Task |-> <<>>]
      /\ owners = [k \in Key |-> {}] /\ waiting = [k \in Key |-> <<>>]
      /\ began = [t \in Task |-> version] /\ result = [t \in Task |-> {}] /\ raced = {}
  BY DEF Init, Lock!Init
<1>4. \A n \in Node : \A d \in value[n] :
         /\ d \in Datum /\ d.node = n /\ d.version = 0 /\ d.cell \in Tracked
         /\ snapshot[d.cell] = n
  <2>1. ASSUME NEW n \in Node, NEW c \in Tracked
        PROVE  [cell |-> c, version |-> 0, node |-> n] \in Datum
    BY <1>0 DEF Datum, Cell
  <2>2. value = [n \in Node |-> {[cell |-> c, version |-> 0, node |-> n] :
                                    c \in {d \in Tracked : snapshot[d] = n}}]
    BY DEF Init
  <2>3. ASSUME NEW n \in Node, NEW d \in value[n]
        PROVE  \E c \in Tracked : snapshot[c] = n /\ d = [cell |-> c, version |-> 0, node |-> n]
    BY <2>2
  <2> QED BY <2>1, <2>3
<1>5. \A n \in Created : n \in Node /\ input[n] \in Tracked /\ snapshot[input[n]] = n
  BY <1>1
<1>6. Typed
  <2>1. input \in [Created -> Key \union Tracked]
    <3>1. input = [n \in Created |-> CHOOSE c \in Tracked : snapshot[c] = n]
      BY <1>1 DEF Init
    <3> QED BY <1>5, <3>1
  <2>2. value \in [Node -> SUBSET Datum]
    <3>1. value = [n \in Node |-> value[n]]
      BY DEF Init
    <3> QED BY <1>4, <3>1
  <2>3. version \in [Cell -> 0..MaxVersion]
    BY <1>3, <1>0
  <2> QED BY <1>1, <1>2, <1>3, <1>5, <2>1, <2>2, <2>3 DEF Typed, TypeOK, GraphInv
<1>7. Untouched /\ Registered /\ FramesShaped /\ Chained /\ LocksHeld /\ ComputedAlone
  BY <1>2, <1>3 DEF Untouched, Registered, FramesShaped, Chained, LocksHeld, QueuedFor,
                    ComputedAlone, Frames
<1>8. CellsCurrent
  BY <1>1, <1>2, <1>3, <1>4, <1>5 DEF CellsCurrent, Cell
<1>9. ServedIsRegistered /\ ValuesSupported /\ OwnReadsCurrent
  BY <1>3, <1>5, CellAssumption
     DEF ServedIsRegistered, ValuesSupported, OwnReadsCurrent, Frames, Cell
<1>10. OwnUnpublished
  BY <1>1, <1>3, <1>4 DEF OwnUnpublished, InProgress, Frames
<1>11. SeenSinceCall /\ ReadYourWrites
  BY <1>3 DEF SeenSinceCall, ReadYourWrites, Frames
<1> QED BY <1>2, <1>6, <1>7, <1>8, <1>9, <1>10, <1>11 DEF IInv

-----------------------------------------------------------------------------
(***************************************************************************)
(* What the parts of a step do.                                            *)
(***************************************************************************)

\* Linking a caller: no other node is touched; a computation gets a dependency on what
\* it reads, or is withdrawn when that is gone.
LinkedTo(g, h, c, m) ==
    /\ GraphInv(h)
    /\ \A n \in Node : n # c => /\ h.state[n] = g.state[n]
                                /\ h.dependencies[n] = g.dependencies[n]
    /\ c \in Node /\ g.state[c] # "Computing" =>
          h.state[c] = g.state[c] /\ h.dependencies[c] = g.dependencies[c]
    /\ c \in Node /\ g.state[c] = "Computing" =>
          \/ h.state[c] = "Invalidated"
          \/ /\ g.state[m] # "Invalidated"
             /\ h.state[c] = "Computing"
             /\ h.dependencies[c] = g.dependencies[c] \union {m}

\* Link does so, whether or not there is a caller and whatever its state.
LEMMA LinkEffect ==
    ASSUME NEW g, GraphInv(g), NEW c \in Node \union {NoNode}, NEW m \in Node,
           g.state[m] # "Computing"
    PROVE  LinkedTo(g, Link(g, c, m), c, m)
<1> DEFINE h == Link(g, c, m)
<1>1. CASE c = NoNode
  BY <1>1, NodeAssumption DEF Link, LinkedTo
<1>2. CASE c # NoNode
  <2>1. c \in Node /\ h = AddDependency(g, c, m)
    BY <1>2 DEF Link
  <2>2. GraphInv(h)
    <3>1. CASE c = m
      BY <2>1, <3>1 DEF AddDependency
    <3>2. CASE c # m
      BY <2>1, <3>2, AddDependencyInv
    <3> QED BY <3>1, <3>2
  <2>3. /\ \A n \in Node \ {c} : /\ h.state[n] = g.state[n]
                                 /\ h.dependencies[n] = g.dependencies[n]
        /\ g.state[c] # "Computing" => h = g
        /\ g.state[c] = "Computing" =>
              \/ h.state[c] = "Invalidated"
              \/ /\ g.state[m] # "Invalidated"
                 /\ h.state[c] = "Computing"
                 /\ h.dependencies[c] = g.dependencies[c] \union {m}
    BY <2>1, AddDependencyLater
  <2> HIDE DEF h
  <2>4. LinkedTo(g, h, c, m)
    BY <2>1, <2>2, <2>3 DEF LinkedTo
  <2> QED BY <2>4 DEF h
<1> QED BY <1>1, <1>2

\* A step of t that drops its off innermost frames and gives data to the next one.
Delivered(t, off, data) ==
    /\ stack' \in [Task -> Seq(Frame)]
    /\ \A u \in Task \ {t} : stack'[u] = stack[u]
    /\ \A i \in 1..Len(stack'[t]) :
          /\ i + off \in Frames(t)
          /\ stack'[t][i].key = stack[t][i + off].key
          /\ stack'[t][i].phase = stack[t][i + off].phase
          /\ stack'[t][i].node = stack[t][i + off].node
          /\ stack'[t][i].seen =
                IF i = 1 THEN stack[t][i + off].seen \union data ELSE stack[t][i + off].seen
    /\ \A i \in Frames(t) : i > off => i - off \in 1..Len(stack'[t])
    /\ result' \in [Task -> SUBSET SUBSET Datum]
    /\ \A u \in Task \ {t} : result'[u] = result[u]
    /\ result'[t] = result[t] \/ (result'[t] = {data} /\ Len(stack'[t]) = 0)

\* Enriching the head of a sequence of frames.
Enriched(frames, data) ==
    <<[Head(frames) EXCEPT !.at = @ + 1, !.seen = @ \union data]>> \o Tail(frames)

\* Only the head changes, and only in what it has seen and how far it is.
LEMMA EnrichedHead ==
    ASSUME NEW frames \in Seq(Frame), frames # <<>>, NEW data \in SUBSET Datum
    PROVE  LET s == Enriched(frames, data)
           IN  /\ s \in Seq(Frame) /\ Len(s) = Len(frames)
               /\ s[1].key = frames[1].key /\ s[1].phase = frames[1].phase
               /\ s[1].node = frames[1].node /\ s[1].seen = frames[1].seen \union data
               /\ \A i \in 2..Len(frames) : s[i] = frames[i]
<1> DEFINE at == Head(frames).at + 1
           seen == Head(frames).seen \union data
           h == [Head(frames) EXCEPT !.at = at, !.seen = seen]
           s == <<h>> \o Tail(frames)
<1>1. /\ Head(frames) = frames[1] /\ frames[1] \in Frame
      /\ Tail(frames) \in Seq(Frame) /\ Len(Tail(frames)) = Len(frames) - 1
      /\ Len(frames) \in Nat \ {0}
      /\ \A i \in 1..Len(Tail(frames)) : Tail(frames)[i] = frames[i + 1]
  OBVIOUS
<1>2. at \in Nat \ {0} /\ seen \in SUBSET Datum
  BY <1>1 DEF Frame
<1>3. seen = frames[1].seen \union data
  BY <1>1
<1>7. Enriched(frames, data) = s
  BY DEF Enriched
<1> HIDE DEF at, seen
<1>4. /\ h \in Frame
      /\ h.key = frames[1].key /\ h.phase = frames[1].phase
      /\ h.node = frames[1].node /\ h.seen = seen
  BY <1>1, <1>2 DEF Frame
<1> HIDE DEF h
<1>5. s \in Seq(Frame) /\ Len(s) = Len(frames) /\ s[1] = h
  BY <1>1, <1>4
<1>6. \A i \in 2..Len(frames) : s[i] = frames[i]
  BY <1>1, <1>4
<1> QED BY <1>3, <1>4, <1>5, <1>6, <1>7

\* What Deliver does to the stacks, from all the frames of a task or from all but the
\* innermost.
LEMMA DeliverEffect ==
    ASSUME Typed, NEW t \in Task, NEW off \in {0, 1}, NEW frames \in Seq(Frame),
           off = 0 => frames = stack[t],
           off = 1 => stack[t] # <<>> /\ frames = Tail(stack[t]),
           NEW data \in SUBSET Datum, Deliver(t, frames, data)
    PROVE  /\ Delivered(t, off, data)
           /\ Len(stack'[t]) = Len(frames)
<1>1. /\ Len(frames) \in Nat /\ Len(stack[t]) \in Nat
      /\ stack[t] \in Seq(Frame)
      /\ \A i \in 1..Len(frames) : i + off \in Frames(t) /\ frames[i] = stack[t][i + off]
      /\ \A i \in Frames(t) : i > off => i - off \in 1..Len(frames)
  <2>1. stack[t] \in Seq(Frame)
    BY DEF Typed, TypeOK
  <2>2. CASE off = 0
    BY <2>1, <2>2 DEF Frames
  <2>3. CASE off = 1
    BY <2>1, <2>3 DEF Frames
  <2> QED BY <2>2, <2>3
<1>2. CASE frames = <<>>
  <2>1. /\ stack' = [stack EXCEPT ![t] = <<>>]
        /\ result' = [result EXCEPT ![t] = {data}]
    BY <1>2 DEF Deliver
  <2>2. stack' \in [Task -> Seq(Frame)] /\ stack'[t] = <<>>
    BY <2>1 DEF Typed, TypeOK
  <2>3. result' \in [Task -> SUBSET SUBSET Datum] /\ result'[t] = {data}
    BY <2>1 DEF Typed
  <2> QED BY <1>1, <1>2, <2>1, <2>2, <2>3 DEF Delivered, Typed, TypeOK
<1>3. CASE frames # <<>>
  <2> DEFINE s == Enriched(frames, data)
  <2>1. stack' = [stack EXCEPT ![t] = s] /\ result' = result
    BY <1>3 DEF Deliver, Enriched
  <2>2. /\ s \in Seq(Frame) /\ Len(s) = Len(frames)
        /\ s[1].key = frames[1].key /\ s[1].phase = frames[1].phase
        /\ s[1].node = frames[1].node /\ s[1].seen = frames[1].seen \union data
        /\ \A i \in 2..Len(frames) : s[i] = frames[i]
    BY <1>3, EnrichedHead
  <2> HIDE DEF s
  <2>3. /\ stack' \in [Task -> Seq(Frame)] /\ stack'[t] = s
        /\ \A u \in Task \ {t} : stack'[u] = stack[u]
    BY <2>1, <2>2 DEF Typed, TypeOK
  <2>4. \A i \in 1..Len(s) :
          /\ s[i].key = frames[i].key /\ s[i].phase = frames[i].phase
          /\ s[i].node = frames[i].node
          /\ s[i].seen = IF i = 1 THEN frames[i].seen \union data ELSE frames[i].seen
    <3> TAKE i \in 1..Len(s)
    <3>1. CASE i = 1
      BY <2>2, <3>1
    <3>2. CASE i # 1
      <4>1. i \in 2..Len(frames)
        BY <1>1, <2>2, <3>2
      <4> QED BY <2>2, <3>2, <4>1
    <3> QED BY <3>1, <3>2
  <2>5. \A i \in 1..Len(s) :
          /\ i + off \in Frames(t)
          /\ s[i].key = stack[t][i + off].key /\ s[i].phase = stack[t][i + off].phase
          /\ s[i].node = stack[t][i + off].node
          /\ s[i].seen = IF i = 1 THEN stack[t][i + off].seen \union data
                         ELSE stack[t][i + off].seen
    <3> TAKE i \in 1..Len(s)
    <3>1. i \in 1..Len(frames)
      BY <2>2
    <3>2. i + off \in Frames(t) /\ frames[i] = stack[t][i + off]
      BY <1>1, <3>1
    <3>3. /\ s[i].key = frames[i].key /\ s[i].phase = frames[i].phase
          /\ s[i].node = frames[i].node
          /\ s[i].seen = IF i = 1 THEN frames[i].seen \union data ELSE frames[i].seen
      BY <2>4
    <3> QED BY <3>2, <3>3
  <2>6. \A i \in Frames(t) : i > off => i - off \in 1..Len(s)
    BY <1>1, <2>2
  <2>7. result' \in [Task -> SUBSET SUBSET Datum]
    BY <2>1 DEF Typed
  <2>8. Len(stack'[t]) = Len(frames)
    BY <2>2, <2>3
  <2>9. /\ \A i \in 1..Len(stack'[t]) :
              /\ i + off \in Frames(t)
              /\ stack'[t][i].key = stack[t][i + off].key
              /\ stack'[t][i].phase = stack[t][i + off].phase
              /\ stack'[t][i].node = stack[t][i + off].node
              /\ stack'[t][i].seen = IF i = 1 THEN stack[t][i + off].seen \union data
                                     ELSE stack[t][i + off].seen
        /\ \A i \in Frames(t) : i > off => i - off \in 1..Len(stack'[t])
    <3>1. stack'[t] = s
      BY <2>3
    <3> QED BY ONLY <2>5, <2>6, <3>1
  <2>10. \A u \in Task : result'[u] = result[u]
    BY <2>1
  <2> QED BY <2>3, <2>7, <2>8, <2>9, <2>10 DEF Delivered
<1> QED BY <1>2, <1>3

\* The lock of the method that the innermost call was in goes to who waited longest,
\* who still waits for it; the other locks are none of its business.
LEMMA ReleaseLocks ==
    ASSUME IInv, NEW t \in Task, stack[t] # <<>>, NEW k \in Key, k = stack[t][1].key,
           NEW data, Delivered(t, 1, data), Lock!Release(t, k)
    PROVE  /\ owners' \in [Key -> SUBSET Task] /\ waiting' \in [Key -> Seq(Task)]
           /\ \A j \in Key \ {k} : owners'[j] = owners[j]
           /\ LocksHeld'
<1>1. /\ owners \in [Key -> SUBSET Task] /\ waiting \in [Key -> Seq(Task)]
      /\ stack \in [Task -> Seq(Frame)]
  BY DEF IInv, Typed, TypeOK
<1>2. waiting[k] # <<>> =>
         /\ Head(waiting[k]) = waiting[k][1] /\ waiting[k][1] \in Task
         /\ Len(waiting[k]) \in Nat \ {0} /\ Len(Tail(waiting[k])) = Len(waiting[k]) - 1
         /\ Tail(waiting[k]) \in Seq(Task)
         /\ \A i \in 1..Len(Tail(waiting[k])) :
               i + 1 \in 1..Len(waiting[k]) /\ Tail(waiting[k])[i] = waiting[k][i + 1]
  BY <1>1
<1>3. /\ owners' \in [Key -> SUBSET Task] /\ waiting' \in [Key -> Seq(Task)]
      /\ \A j \in Key \ {k} : owners'[j] = owners[j] /\ waiting'[j] = waiting[j]
      /\ \/ waiting[k] = <<>> /\ owners'[k] = {} /\ waiting'[k] = <<>>
         \/ /\ waiting[k] # <<>> /\ owners'[k] = {Head(waiting[k])}
            /\ waiting'[k] = Tail(waiting[k])
      /\ t \in owners[k]
  <2>1. t \in owners[k]
    BY DEF Lock!Release
  <2>2. CASE waiting[k] = <<>>
    <3>1. owners' = [owners EXCEPT ![k] = {}] /\ waiting' = waiting
      BY <2>2 DEF Lock!Release
    <3> QED BY <1>1, <2>1, <2>2, <3>1
  <2>3. CASE waiting[k] # <<>>
    <3>1. /\ owners' = [owners EXCEPT ![k] = {Head(waiting[k])}]
          /\ waiting' = [waiting EXCEPT ![k] = Tail(waiting[k])]
      BY <2>3 DEF Lock!Release
    <3>2. Head(waiting[k]) \in Task /\ Tail(waiting[k]) \in Seq(Task)
      BY <1>2, <2>3
    <3> QED BY <1>1, <2>1, <2>3, <3>1, <3>2
  <2> QED BY <2>2, <2>3
<1>4. \A u \in Task \ {t} : stack'[u] = stack[u]
  BY DEF Delivered
<1>5. ASSUME NEW j \in Key
      PROVE  /\ \A u, v \in owners'[j] : u = v
             /\ \A u \in owners'[j] : \E i \in 1..Len(stack'[u]) : stack'[u][i].key = j
             /\ QueuedFor(j)'
  <2>1. /\ \A u, v \in owners[j] : u = v
        /\ \A u \in owners[j] : u \in Task /\ \E i \in Frames(u) : stack[u][i].key = j
        /\ QueuedFor(j)
    BY <1>1 DEF IInv, LocksHeld
  <2>2. CASE j # k
    <3>1. owners'[j] = owners[j] /\ waiting'[j] = waiting[j]
      BY <1>3, <2>2
    <3>2. ASSUME NEW u \in owners'[j]
          PROVE  \E i \in 1..Len(stack'[u]) : stack'[u][i].key = j
      <4>1. PICK i \in Frames(u) : stack[u][i].key = j
        BY <2>1, <3>1
      <4>2. CASE u # t
        BY <1>4, <2>1, <3>1, <4>1, <4>2 DEF Frames
      <4>3. CASE u = t
        <5>1. i > 1 /\ (i - 1) + 1 = i
          BY <1>1, <2>2, <4>1, <4>3 DEF Frames
        <5>2. i - 1 \in 1..Len(stack'[t])
          BY <4>1, <4>3, <5>1 DEF Delivered
        <5>3. stack'[t][i - 1].key = stack[t][(i - 1) + 1].key
          <6>1. \A m \in 1..Len(stack'[t]) : stack'[t][m].key = stack[t][m + 1].key
            BY DEF Delivered
          <6> QED BY <5>2, <6>1
        <5>4. stack'[t][i - 1].key = j
          BY <4>1, <4>3, <5>1, <5>3
        <5> QED BY <4>3, <5>2, <5>4
      <4> QED BY <4>2, <4>3
    <3>3. ASSUME NEW i \in 1..Len(waiting[j])
          PROVE  stack'[waiting[j][i]] = stack[waiting[j][i]]
      <4>1. waiting[j][i] \in Task
        BY <1>1
      <4>2. waiting[j][i] # t
        BY <2>1, <2>2 DEF QueuedFor
      <4> QED BY <1>4, <4>1, <4>2
    <3>4. QueuedFor(j)'
      BY <2>1, <3>1, <3>3 DEF QueuedFor
    <3>5. \A u, v \in owners'[j] : u = v
      BY <2>1, <3>1
    <3> QED BY <3>2, <3>4, <3>5
  <2>3. CASE j = k
    <3>1. CASE waiting[k] = <<>>
      <4>1. owners'[j] = {} /\ waiting'[j] = <<>> /\ 1..Len(waiting'[j]) = {}
        BY <1>3, <2>3, <3>1
      <4>2. QueuedFor(j)'
        BY <4>1 DEF QueuedFor
      <4> QED BY <4>1, <4>2
    <3>2. CASE waiting[k] # <<>>
      <4>1. /\ owners'[k] = {waiting[k][1]} /\ waiting'[k] = Tail(waiting[k])
            /\ 1 \in 1..Len(waiting[k])
        <5>1. /\ Head(waiting[k]) = waiting[k][1] /\ Len(waiting[k]) \in Nat \ {0}
          BY <1>2, <3>2
        <5>2. owners'[k] = {Head(waiting[k])} /\ waiting'[k] = Tail(waiting[k])
          BY <1>3, <3>2
        <5> QED BY <5>1, <5>2
      <4>2. ASSUME NEW i \in 1..Len(waiting[k])
            PROVE  /\ stack'[waiting[k][i]] = stack[waiting[k][i]]
                   /\ stack[waiting[k][i]] # <<>> /\ stack[waiting[k][i]] \in Seq(Frame)
                   /\ stack[waiting[k][i]][1].phase = "locking"
                   /\ stack[waiting[k][i]][1].key = k
        <5>1. waiting[k][i] \in Task
          BY <1>1
        <5>2. waiting[k][i] # t
          <6>1. waiting[k][i] \notin owners[k]
            BY <2>1, <2>3 DEF QueuedFor
          <6> QED BY <1>3, <6>1
        <5>3. stack[waiting[k][i]] # <<>>
          BY <2>1, <2>3 DEF QueuedFor
        <5> QED BY <1>1, <1>4, <2>1, <2>3, <5>1, <5>2, <5>3 DEF QueuedFor
      <4>3. ASSUME NEW u \in owners'[k]
            PROVE  \E i \in 1..Len(stack'[u]) : stack'[u][i].key = k
        <5>1. u = waiting[k][1]
          BY <4>1
        <5>2. stack'[u] = stack[u] /\ stack[u] # <<>> /\ stack[u] \in Seq(Frame)
          BY <4>1, <4>2, <5>1
        <5>3. stack[u][1].key = k
          BY <4>1, <4>2, <5>1
        <5>4. 1 \in 1..Len(stack[u])
          BY <5>2
        <5> QED BY <5>2, <5>3, <5>4
      <4>4. \A i \in 1..Len(waiting'[k]) :
               i + 1 \in 1..Len(waiting[k]) /\ waiting'[k][i] = waiting[k][i + 1]
        BY <1>2, <3>2, <4>1
      <4>5. \A i, l \in 1..Len(waiting[k]) : waiting[k][i] = waiting[k][l] => i = l
        BY <2>1, <2>3 DEF QueuedFor
      <4>6. ASSUME NEW i \in 1..Len(waiting'[k])
            PROVE  /\ stack'[waiting'[k][i]] # <<>>
                   /\ stack'[waiting'[k][i]][1].phase = "locking"
                   /\ stack'[waiting'[k][i]][1].key = k
                   /\ waiting'[k][i] \notin owners'[k]
        <5>1. i + 1 \in 1..Len(waiting[k]) /\ waiting'[k][i] = waiting[k][i + 1] /\ i + 1 # 1
          BY <4>4
        <5>2. waiting[k][i + 1] # waiting[k][1]
          BY <4>1, <4>5, <5>1
        <5> DEFINE l == i + 1
        <5>3. l \in 1..Len(waiting[k]) /\ waiting'[k][i] = waiting[k][l]
          BY <5>1
        <5>4. waiting[k][l] \notin owners'[k]
          BY <4>1, <5>2
        <5> HIDE DEF l
        <5>5. /\ stack'[waiting[k][l]] # <<>>
              /\ stack'[waiting[k][l]][1].phase = "locking"
              /\ stack'[waiting[k][l]][1].key = k
          BY <4>2, <5>3
        <5> QED BY <5>3, <5>4, <5>5
      <4>7. ASSUME NEW i \in 1..Len(waiting'[k]), NEW l \in 1..Len(waiting'[k]),
                   waiting'[k][i] = waiting'[k][l]
            PROVE  i = l
        <5>1. /\ i + 1 \in 1..Len(waiting[k]) /\ waiting'[k][i] = waiting[k][i + 1]
              /\ l + 1 \in 1..Len(waiting[k]) /\ waiting'[k][l] = waiting[k][l + 1]
          BY <4>4
        <5>2. i + 1 = l + 1
          BY <4>5, <4>7, <5>1
        <5> QED BY <5>2
      <4>8. QueuedFor(k)'
        BY <4>6, <4>7 DEF QueuedFor
      <4> QED BY <2>3, <4>1, <4>3, <4>8
    <3> QED BY <3>1, <3>2
  <2> QED BY <2>2, <2>3
<1>6. LocksHeld'
  BY <1>5 DEF LocksHeld, Frames
<1> QED BY <1>3, <1>6

\* Without a return the locks stay as they are.
LEMMA KeepLocks ==
    ASSUME IInv, NEW t \in Task, stack[t] # <<>> => stack[t][1].phase = "computing",
           NEW data, Delivered(t, 0, data), UNCHANGED locks
    PROVE  /\ owners' \in [Key -> SUBSET Task] /\ waiting' \in [Key -> Seq(Task)]
           /\ LocksHeld'
<1>1. /\ owners \in [Key -> SUBSET Task] /\ waiting \in [Key -> Seq(Task)]
      /\ stack \in [Task -> Seq(Frame)] /\ owners' = owners /\ waiting' = waiting
  BY DEF IInv, Typed, TypeOK, locks
<1>2. \A u \in Task \ {t} : stack'[u] = stack[u]
  BY DEF Delivered
<1>3. ASSUME NEW j \in Key
      PROVE  /\ \A u, v \in owners'[j] : u = v
             /\ \A u \in owners'[j] : \E i \in 1..Len(stack'[u]) : stack'[u][i].key = j
             /\ QueuedFor(j)'
  <2>1. /\ \A u, v \in owners[j] : u = v
        /\ \A u \in owners[j] : u \in Task /\ \E i \in Frames(u) : stack[u][i].key = j
        /\ QueuedFor(j)
    BY <1>1 DEF IInv, LocksHeld
  <2>2. ASSUME NEW u \in owners'[j]
        PROVE  \E i \in 1..Len(stack'[u]) : stack'[u][i].key = j
    <3>1. PICK i \in Frames(u) : stack[u][i].key = j
      BY <1>1, <2>1
    <3>2. CASE u # t
      BY <1>1, <1>2, <2>1, <3>1, <3>2 DEF Frames
    <3>3. CASE u = t
      <4>1. i > 0 /\ i - 0 = i /\ i + 0 = i
        BY <1>1, <3>1, <3>3 DEF Frames
      <4>2. i \in 1..Len(stack'[t])
        BY <3>1, <3>3, <4>1 DEF Delivered
      <4>3. stack'[t][i].key = stack[t][i + 0].key
        BY <4>2 DEF Delivered
      <4> QED BY <3>1, <3>3, <4>1, <4>2, <4>3
    <3> QED BY <3>2, <3>3
  <2>3. ASSUME NEW i \in 1..Len(waiting[j])
        PROVE  stack'[waiting[j][i]] = stack[waiting[j][i]]
    <3>1. waiting[j][i] \in Task
      BY <1>1
    <3>2. waiting[j][i] # t
      BY <2>1 DEF QueuedFor
    <3> QED BY <1>2, <3>1, <3>2
  <2>4. QueuedFor(j)'
    BY <1>1, <2>1, <2>3 DEF QueuedFor
  <2> QED BY <1>1, <2>1, <2>2, <2>4
<1>4. LocksHeld'
  BY <1>3 DEF LocksHeld, Frames
<1> QED BY <1>1, <1>4

\* The locks after data were delivered: as they were, if the innermost call goes on, or
\* released, if it is over.
LocksAfter(t, off) ==
    \/ off = 0 /\ UNCHANGED locks /\ (stack[t] # <<>> => stack[t][1].phase = "computing")
    \/ off = 1 /\ stack[t] # <<>> /\ Lock!Release(t, stack[t][1].key)

\* The i-th frame of u, after t was delivered data, is the one that was the j-th.
Origin(t, off, data, u, i, j) ==
    /\ j = (IF u = t THEN i + off ELSE i)
    /\ stack'[u][i].key = stack[u][j].key
    /\ stack'[u][i].phase = stack[u][j].phase
    /\ stack'[u][i].node = stack[u][j].node
    /\ stack'[u][i].seen = IF u = t /\ i = 1 THEN stack[u][j].seen \union data
                           ELSE stack[u][j].seen
    /\ u = t /\ i = 1 => stack[u][j].phase = "computing"

\* Every frame after a delivery was there before it.
LEMMA FrameOrigin ==
    ASSUME IInv, NEW t \in Task, NEW off \in {0, 1}, NEW data, Delivered(t, off, data),
           LocksAfter(t, off), NEW u \in Task, NEW i \in 1..Len(stack'[u])
    PROVE  \E j \in Frames(u) : Origin(t, off, data, u, i, j)
<1>1. stack[u] \in Seq(Frame) /\ stack'[u] \in Seq(Frame)
  BY DEF IInv, Typed, TypeOK, Delivered
<1>2. CASE u # t
  <2>1. stack'[u] = stack[u]
    BY <1>2 DEF Delivered
  <2>2. i \in Frames(u)
    BY <2>1 DEF Frames
  <2>3. Origin(t, off, data, u, i, i)
    BY <1>2, <2>1 DEF Origin
  <2> QED BY <2>2, <2>3
<1>3. CASE u = t
  <2>1. /\ i + off \in Frames(t)
        /\ stack'[t][i].key = stack[t][i + off].key
        /\ stack'[t][i].phase = stack[t][i + off].phase
        /\ stack'[t][i].node = stack[t][i + off].node
        /\ stack'[t][i].seen =
              IF i = 1 THEN stack[t][i + off].seen \union data ELSE stack[t][i + off].seen
    BY <1>3 DEF Delivered
  <2>2. ASSUME i = 1 PROVE stack[t][i + off].phase = "computing"
    <3>1. CASE off = 1
      <4>1. i + off # 1
        BY <2>2, <3>1
      <4> QED BY <2>1, <4>1 DEF IInv, FramesShaped
    <3>2. CASE off = 0
      <4>1. i + off = 1
        BY <2>2, <3>2
      <4>2. stack[t] # <<>>
        BY <1>1, <1>3, <2>1, <4>1 DEF Frames
      <4> QED BY <3>2, <4>1, <4>2 DEF LocksAfter
    <3> QED BY <3>1, <3>2
  <2>3. Origin(t, off, data, u, i, i + off)
    BY <1>3, <2>1, <2>2 DEF Origin
  <2> QED BY <1>3, <2>1, <2>3
<1> QED BY <1>2, <1>3

\* The calls that are left after data were delivered are still in shape.
LEMMA StackAfter ==
    ASSUME IInv, NEW t \in Task, NEW off \in {0, 1}, NEW data, Delivered(t, off, data),
           LocksAfter(t, off), input' = input
    PROVE  /\ owners' \in [Key -> SUBSET Task] /\ waiting' \in [Key -> Seq(Task)]
           /\ FramesShaped'
           /\ Chained'
           /\ LocksHeld'
<1>1. /\ owners' \in [Key -> SUBSET Task] /\ waiting' \in [Key -> Seq(Task)]
      /\ LocksHeld'
      /\ off = 0 => owners' = owners
      /\ off = 1 => \A j \in Key \ {stack[t][1].key} : owners'[j] = owners[j]
      /\ off = 1 => stack[t] # <<>> /\ t \in owners[stack[t][1].key]
  <2>1. CASE off = 0
    BY <2>1, KeepLocks DEF LocksAfter, locks
  <2>2. CASE off = 1
    <3> DEFINE k == stack[t][1].key
    <3>1. stack[t] # <<>> /\ Lock!Release(t, k)
      BY <2>2 DEF LocksAfter
    <3>2. k \in Key
      <4>1. 1 \in Frames(t)
        BY <3>1 DEF Frames, IInv, Typed, TypeOK
      <4> QED BY <4>1, FrameTypes DEF IInv
    <3>3. t \in owners[k]
      BY <3>1 DEF Lock!Release
    <3>4. k = stack[t][1].key
      OBVIOUS
    <3> HIDE DEF k
    <3>5. Delivered(t, 1, data)
      BY <2>2
    <3>6. /\ owners' \in [Key -> SUBSET Task] /\ waiting' \in [Key -> Seq(Task)]
          /\ \A j \in Key \ {k} : owners'[j] = owners[j]
          /\ LocksHeld'
      BY <3>1, <3>2, <3>4, <3>5, ReleaseLocks
    <3> QED BY <2>2, <3>1, <3>3, <3>4, <3>6
  <2> QED BY <2>1, <2>2
<1>2. ASSUME NEW u \in Task, NEW i \in 1..Len(stack'[u])
      PROVE  /\ i # 1 => stack'[u][i].phase = "computing"
             /\ stack'[u][i].phase = "computing" =>
                   /\ stack'[u][i].node \in Created /\ input[stack'[u][i].node] = stack'[u][i].key
                   /\ u \in owners'[stack'[u][i].key]
             /\ stack'[u][i].phase = "locking" =>
                   stack'[u][i].node = NoNode /\ stack'[u][i].seen = {}
  <2>0. \E j \in Frames(u) : Origin(t, off, data, u, i, j)
    BY FrameOrigin
  <2>1. PICK j \in Frames(u) :
             /\ j = (IF u = t THEN i + off ELSE i)
             /\ stack'[u][i].key = stack[u][j].key
             /\ stack'[u][i].phase = stack[u][j].phase
             /\ stack'[u][i].node = stack[u][j].node
             /\ stack'[u][i].seen = IF u = t /\ i = 1 THEN stack[u][j].seen \union data
                                    ELSE stack[u][j].seen
             /\ u = t /\ i = 1 => stack[u][j].phase = "computing"
    BY <2>0 DEF Origin
  <2>2. /\ j # 1 => stack[u][j].phase = "computing"
        /\ stack[u][j].phase = "computing" =>
              /\ stack[u][j].node \in Created /\ input[stack[u][j].node] = stack[u][j].key
              /\ u \in owners[stack[u][j].key]
        /\ stack[u][j].phase = "locking" => stack[u][j].node = NoNode /\ stack[u][j].seen = {}
    BY DEF IInv, FramesShaped
  <2>3. i # 1 => j # 1
    BY <2>1
  <2>4. ASSUME stack[u][j].phase = "computing"
        PROVE  u \in owners'[stack[u][j].key]
    <3>1. stack[u][j].key \in Key
      BY FrameTypes DEF IInv
    <3>2. CASE off = 0
      BY <1>1, <2>2, <2>4, <3>2
    <3>3. CASE off = 1
      <4>1. stack[u][j].key # stack[t][1].key
        <5>1. SUFFICES ASSUME stack[u][j].key = stack[t][1].key PROVE FALSE
          OBVIOUS
        <5>2. u = t
          BY <1>1, <2>2, <2>4, <3>1, <3>3, <5>1 DEF IInv, LocksHeld
        <5>3. j # 1 /\ 1 \in Frames(t)
          BY <1>1, <2>1, <3>3, <5>2 DEF Frames, IInv, Typed, TypeOK
        <5>4. j = 1
          BY <5>1, <5>2, <5>3, DistinctKeys DEF IInv
        <5> QED BY <5>3, <5>4
      <4> QED BY <1>1, <2>2, <2>4, <3>1, <3>3, <4>1
    <3> QED BY <3>2, <3>3
  <2> QED BY <2>1, <2>2, <2>3, <2>4
<1>3. FramesShaped'
  BY <1>2 DEF FramesShaped, Frames, Created
<1>4. ASSUME NEW u \in Task, NEW i \in 1..Len(stack'[u]), i + 1 \in 1..Len(stack'[u])
      PROVE  stack'[u][i].key \in Awaits(stack'[u][i + 1].key)
  <2>0. \E j \in Frames(u) : Origin(t, off, data, u, i, j)
    BY FrameOrigin
  <2>1. PICK j \in Frames(u) :
             j = (IF u = t THEN i + off ELSE i) /\ stack'[u][i].key = stack[u][j].key
    BY <2>0 DEF Origin
  <2>2. PICK l \in Frames(u) :
             l = (IF u = t THEN i + 1 + off ELSE i + 1) /\ stack'[u][i + 1].key = stack[u][l].key
    <3> DEFINE i1 == i + 1
    <3>1. i1 \in 1..Len(stack'[u])
      BY <1>4
    <3> HIDE DEF i1
    <3>4. \E l \in Frames(u) : Origin(t, off, data, u, i1, l)
      BY <3>1, FrameOrigin
    <3>2. \E l \in Frames(u) :
             l = (IF u = t THEN i1 + off ELSE i1) /\ stack'[u][i1].key = stack[u][l].key
      BY <3>4 DEF Origin
    <3> QED BY <3>2 DEF i1
  <2>3. l = j + 1
    BY <2>1, <2>2
  <2> QED BY <2>1, <2>2, <2>3 DEF IInv, Chained
<1>5. Chained'
  BY <1>4 DEF Chained, Frames
<1> QED BY <1>1, <1>3, <1>5

\* No value is served of a key that is still being computed, if the step served at most
\* the key it has finished.
LEMMA AloneAfter ==
    ASSUME IInv, NEW t \in Task, NEW off \in {0, 1}, NEW data, Delivered(t, off, data),
           LocksAfter(t, off), input' = input,
           \A n \in Created : graph'.state[n] = "Consistent" =>
               Served(n) \/ (off = 1 /\ input[n] = stack[t][1].key)
    PROVE  ComputedAlone'
<1>1. ASSUME NEW u \in Task, NEW i \in 1..Len(stack'[u]), stack'[u][i].phase = "computing",
             NEW n \in Created, input[n] = stack'[u][i].key, graph'.state[n] = "Consistent"
      PROVE  FALSE
  <2>0. \E j \in Frames(u) : Origin(t, off, data, u, i, j)
    BY FrameOrigin
  <2>1. PICK j \in Frames(u) :
             /\ j = (IF u = t THEN i + off ELSE i)
             /\ stack'[u][i].key = stack[u][j].key
             /\ stack'[u][i].phase = stack[u][j].phase
    BY <2>0 DEF Origin
  <2>2. ~Served(n)
    BY <1>1, <2>1 DEF IInv, ComputedAlone
  <2>3. off = 1 /\ input[n] = stack[t][1].key
    BY <1>1, <2>2
  <2>4. u \in owners[stack[u][j].key] /\ stack[u][j].key \in Key
    BY <1>1, <2>1, FrameTypes DEF IInv, FramesShaped
  <2>5. stack[t] # <<>> /\ t \in owners[stack[t][1].key]
    BY <2>3 DEF LocksAfter, Lock!Release
  <2>6. u = t
    BY <1>1, <2>1, <2>3, <2>4, <2>5 DEF IInv, LocksHeld
  <2>7. j # 1 /\ 1 \in Frames(t)
    BY <2>1, <2>3, <2>5, <2>6 DEF Frames, IInv, Typed, TypeOK
  <2>8. j = 1
    BY <1>1, <2>1, <2>3, <2>6, <2>7, DistinctKeys DEF IInv
  <2> QED BY <2>7, <2>8
<1> QED BY <1>1 DEF ComputedAlone, Frames, Created, Served

\* What was delivered is no older than the call it was delivered to.
LEMMA HistoryAfter ==
    ASSUME IInv, NEW t \in Task, NEW off \in {0, 1}, NEW data, Delivered(t, off, data),
           LocksAfter(t, off), version' = version,
           \/ began' = began
           \/ stack[t] = <<>> /\ began' = [began EXCEPT ![t] = version] /\ result[t] = {},
           \A d \in data : d.cell \in Tracked => d.version >= began'[t][d.cell]
    PROVE  /\ began' \in [Task -> [Cell -> 0..MaxVersion]]
           /\ SeenSinceCall'
           /\ ReadYourWrites'
<1>1. /\ began \in [Task -> [Cell -> 0..MaxVersion]] /\ version \in [Cell -> 0..MaxVersion]
      /\ stack \in [Task -> Seq(Frame)]
  BY DEF IInv, Typed, TypeOK
<1>2. /\ began' \in [Task -> [Cell -> 0..MaxVersion]]
      /\ \A u \in Task \ {t} : began'[u] = began[u]
      /\ began'[t] = began[t] \/ (began'[t] = version /\ stack[t] = <<>> /\ result[t] = {})
  BY <1>1
<1>3. ASSUME NEW u \in Task, NEW c \in Cell
      PROVE  began'[u][c] <= version'[c]
  <2>1. began[u][c] <= version[c]
    BY DEF IInv, SeenSinceCall
  <2>2. version[c] \in Nat
    BY <1>1, CellAssumption
  <2> QED BY <1>2, <2>1, <2>2
<1>4. ASSUME NEW u \in Task, NEW i \in 1..Len(stack'[u]), NEW d \in stack'[u][i].seen,
             d.cell \in Tracked
      PROVE  d.version >= began'[u][d.cell]
  <2>0. \E j \in Frames(u) : Origin(t, off, data, u, i, j)
    BY FrameOrigin
  <2>1. PICK j \in Frames(u) :
             stack'[u][i].seen = IF u = t /\ i = 1 THEN stack[u][j].seen \union data
                                 ELSE stack[u][j].seen
    BY <2>0 DEF Origin
  <2>2. began'[u] = began[u]
    <3>1. stack[u] # <<>>
      BY <1>1, <2>1 DEF Frames
    <3> QED BY <1>2, <3>1
  <2>3. \A e \in stack[u][j].seen : e.cell \in Tracked => e.version >= began[u][e.cell]
    BY DEF IInv, SeenSinceCall
  <2> QED BY <1>4, <2>1, <2>2, <2>3
<1>5. SeenSinceCall'
  BY <1>3, <1>4 DEF SeenSinceCall, Frames
<1>6. ASSUME NEW u \in Task, NEW x \in result'[u], NEW d \in x, d.cell \in Tracked
      PROVE  d.version >= began'[u][d.cell]
  <2>1. \A y \in result[u] : \A e \in y : e.cell \in Tracked => e.version >= began[u][e.cell]
    BY DEF IInv, ReadYourWrites
  <2>2. CASE u # t
    <3>1. result'[u] = result[u] /\ began'[u] = began[u]
      BY <1>2, <2>2 DEF Delivered
    <3> QED BY <1>6, <2>1, <3>1
  <2>3. CASE u = t /\ x = data
    BY <1>6, <2>3
  <2>4. CASE u = t /\ x # data
    <3>1. x \in result[t]
      BY <1>6, <2>4 DEF Delivered
    <3> QED BY <1>2, <1>6, <2>1, <2>4, <3>1
  <2> QED BY <2>2, <2>3, <2>4
<1>7. ReadYourWrites'
  BY <1>6 DEF ReadYourWrites
<1> QED BY <1>2, <1>5, <1>7

\* The computation, if any, that gets what a step delivers.
CallerAt(t, off) == IF Len(stack[t]) > off THEN stack[t][off + 1].node ELSE NoNode

\* That computation, if any, is in its body: only the innermost call can be waiting.
LEMMA CallerTypes ==
    ASSUME IInv, NEW t \in Task, NEW off \in {0, 1}, LocksAfter(t, off)
    PROVE  /\ CallerAt(t, off) \in Created \union {NoNode}
           /\ CallerAt(t, off) \in Node \union {NoNode}
           /\ off + 1 \in Frames(t) => /\ CallerAt(t, off) = stack[t][off + 1].node
                                       /\ stack[t][off + 1].phase = "computing"
<1>1. stack[t] \in Seq(Frame)
  BY DEF IInv, Typed, TypeOK
<1>2. off + 1 \in Frames(t) <=> Len(stack[t]) > off
  BY <1>1 DEF Frames
<1>3. off + 1 \in Frames(t) => stack[t][off + 1].phase = "computing"
  <2>1. CASE off = 0
    BY <1>1, <2>1 DEF LocksAfter, Frames
  <2>2. CASE off = 1
    BY <2>2 DEF IInv, FramesShaped
  <2> QED BY <2>1, <2>2
<1>4. off + 1 \in Frames(t) => CallerAt(t, off) \in Created
  BY <1>2, <1>3 DEF CallerAt, IInv, FramesShaped
<1>5. Created \subseteq Node
  BY DEF IInv, Typed, TypeOK
<1> QED BY <1>2, <1>3, <1>4, <1>5 DEF CallerAt

\* After data were delivered, a computation in progress was so before.
LEMMA StillInProgress ==
    ASSUME IInv, NEW t \in Task, NEW off \in {0, 1}, NEW data, Delivered(t, off, data),
           LocksAfter(t, off), NEW u \in Task, NEW i \in 1..Len(stack'[u]),
           stack'[u][i].phase = "computing"
    PROVE  InProgress(stack'[u][i].node)
<1>0. \E j \in Frames(u) : Origin(t, off, data, u, i, j)
  BY FrameOrigin
<1>1. PICK j \in Frames(u) :
           stack'[u][i].phase = stack[u][j].phase /\ stack'[u][i].node = stack[u][j].node
  BY <1>0 DEF Origin
<1> QED BY <1>1 DEF InProgress

\* A caller gets the value of m and depends on m from then on.
ReadStep(t, off, m) ==
    /\ m \in Created
    /\ graph.state[m] # "Computing"
    /\ \A d \in value[m] : d.cell \in Tracked => d.version = version[d.cell]
    /\ graph' = Link(graph, CallerAt(t, off), m)
    /\ Delivered(t, off, value[m])
    /\ LocksAfter(t, off)
    /\ \/ began' = began
       \/ stack[t] = <<>> /\ began' = [began EXCEPT ![t] = version] /\ result[t] = {}
    /\ UNCHANGED <<input, value, storage, snapshot, version, raced>>

\* Reading a value that is settled and current preserves the invariant, whoever reads it.
LEMMA ReadIInv ==
    ASSUME IInv, NEW t \in Task, NEW off \in {0, 1}, NEW m, ReadStep(t, off, m)
    PROVE  IInv'
<1>a. PICK data : data = value[m]
  OBVIOUS
<1>b. PICK caller : caller = CallerAt(t, off)
  OBVIOUS
<1>1. /\ m \in Created /\ graph.state[m] # "Computing"
      /\ graph' = Link(graph, caller, m)
      /\ Delivered(t, off, data) /\ LocksAfter(t, off)
      /\ input' = input /\ value' = value /\ storage' = storage /\ snapshot' = snapshot
      /\ version' = version /\ raced' = raced
  BY <1>a, <1>b DEF ReadStep
<1>2. /\ Created \subseteq Node /\ m \in Node /\ data \in SUBSET Datum
      /\ value \in [Node -> SUBSET Datum]
  BY <1>1, <1>a DEF IInv, Typed, TypeOK
<1>3. /\ caller \in Created \union {NoNode} /\ caller \in Node \union {NoNode}
      /\ off + 1 \in Frames(t) =>
            caller = stack[t][off + 1].node /\ stack[t][off + 1].phase = "computing"
  BY <1>1, <1>b, CallerTypes
<1>4. /\ GraphInv(graph')
      /\ \A n \in Node : n # caller => /\ graph'.state[n] = graph.state[n]
                                       /\ graph'.dependencies[n] = graph.dependencies[n]
      /\ caller \in Node /\ graph.state[caller] # "Computing" =>
            graph'.state[caller] = graph.state[caller]
      /\ caller \in Node /\ graph.state[caller] # "Computing" =>
            graph'.dependencies[caller] = graph.dependencies[caller]
      /\ caller \in Node /\ graph.state[caller] = "Computing" =>
            \/ graph'.state[caller] = "Invalidated"
            \/ /\ graph.state[m] # "Invalidated"
               /\ graph'.state[caller] = "Computing"
               /\ graph'.dependencies[caller] = graph.dependencies[caller] \union {m}
  <2>1. GraphInv(graph)
    BY DEF IInv
  <2>2. LinkedTo(graph, graph', caller, m)
    BY <1>1, <1>2, <1>3, <2>1, LinkEffect
  <2> QED BY <2>2 DEF LinkedTo
<1>5. ASSUME NEW n \in Node
      PROVE  /\ graph'.state[n] = "Consistent" =>
                   graph.state[n] = "Consistent" /\ graph'.dependencies[n] = graph.dependencies[n]
             /\ graph'.state[n] = "Computing" =>
                   /\ graph.state[n] = "Computing"
                   /\ graph.dependencies[n] \subseteq graph'.dependencies[n]
                   /\ n = caller => m \in graph'.dependencies[n]
             /\ graph.state[n] # "Computing" => graph'.state[n] = graph.state[n]
  BY <1>3, <1>4
<1>6. /\ FramesShaped' /\ Chained' /\ LocksHeld'
      /\ owners' \in [Key -> SUBSET Task] /\ waiting' \in [Key -> Seq(Task)]
  BY <1>1, StackAfter
<1>7. ComputedAlone'
  <2>1. \A n \in Created : graph'.state[n] = "Consistent" => Served(n)
    BY <1>2, <1>5 DEF Served
  <2> QED BY <1>1, <2>1, AloneAfter
<1>8. SeenSinceCall' /\ ReadYourWrites' /\ began' \in [Task -> [Cell -> 0..MaxVersion]]
  <2>1. ASSUME NEW d \in data, d.cell \in Tracked
        PROVE  d.version >= began'[t][d.cell]
    <3>1. d.version = version[d.cell] /\ version[d.cell] \in Nat
      <4>1. version \in [Cell -> 0..MaxVersion]
        BY DEF IInv, Typed, TypeOK
      <4> QED BY <1>a, <2>1, <4>1, CellAssumption DEF ReadStep, Cell
    <3>2. began[t][d.cell] <= version[d.cell]
      BY <2>1 DEF IInv, SeenSinceCall, Cell
    <3>3. began'[t] = began[t] \/ began'[t] = version
      BY DEF ReadStep, IInv, Typed, TypeOK
    <3> QED BY <3>1, <3>2, <3>3
  <2>2. \/ began' = began
        \/ stack[t] = <<>> /\ began' = [began EXCEPT ![t] = version] /\ result[t] = {}
    BY DEF ReadStep
  <2> QED BY <1>1, <2>1, <2>2, HistoryAfter
<1>9. Typed'
  <2>1. Typed
    BY DEF IInv
  <2>2. graph' \in Graph
    BY <1>4 DEF GraphInv
  <2>3. stack' \in [Task -> Seq(Frame)] /\ result' \in [Task -> SUBSET SUBSET Datum]
    BY <1>1 DEF Delivered
  <2>4. \A u \in Task : \A x \in result'[u] : x \subseteq Datum
    BY <2>3
  <2> QED BY <1>1, <1>6, <1>8, <2>1, <2>2, <2>3, <2>4 DEF Typed, TypeOK, Created
<1>10. Untouched'
  <2>1. \A n \in Node \ Created : graph'.state[n] = "Computing"
    BY <1>3, <1>4, NodeAssumption DEF IInv, Untouched
  <2> QED BY <1>1, <2>1 DEF Untouched, Created
<1>11. Registered' /\ ServedIsRegistered' /\ CellsCurrent'
  BY <1>1, <1>2, <1>5
     DEF IInv, Registered, ServedIsRegistered, CellsCurrent, Created, Served
<1>12. ASSUME NEW u \in Task, NEW i \in 1..Len(stack'[u]), stack'[u][i].phase = "computing"
       PROVE  \E j \in Frames(u) :
                 /\ stack[u][j].phase = "computing" /\ stack'[u][i].node = stack[u][j].node
                 /\ stack[u][j].node \in Created /\ stack[u][j].node \in Node
                 /\ InProgress(stack[u][j].node)
                 /\ \/ stack'[u][i].seen = stack[u][j].seen
                    \/ /\ stack'[u][i].seen = stack[u][j].seen \union data
                       /\ stack[u][j].node = caller
  <2>0. \E j \in Frames(u) : Origin(t, off, data, u, i, j)
    BY <1>1, FrameOrigin
  <2>1. PICK j \in Frames(u) :
             /\ j = (IF u = t THEN i + off ELSE i)
             /\ stack'[u][i].phase = stack[u][j].phase
             /\ stack'[u][i].node = stack[u][j].node
             /\ stack'[u][i].seen = IF u = t /\ i = 1 THEN stack[u][j].seen \union data
                                    ELSE stack[u][j].seen
    BY <2>0 DEF Origin
  <2>2. u = t /\ i = 1 => stack[u][j].node = caller
    BY <1>3, <2>1
  <2>3. stack[u][j].node \in Created /\ stack[u][j].node \in Node
    BY <1>2, <1>12, <2>1 DEF IInv, FramesShaped
  <2>4. InProgress(stack[u][j].node)
    BY <1>12, <2>1 DEF InProgress
  <2> QED BY <1>12, <2>1, <2>2, <2>3, <2>4
<1>13. ValuesSupported'
  <2>1. ASSUME NEW n \in Created, input[n] \in Key, graph'.state[n] = "Consistent"
        PROVE  Supported(n, value[n])'
    BY <1>1, <1>2, <1>5, <2>1 DEF IInv, ValuesSupported, Supported, Served
  <2>2. ASSUME NEW u \in Task, NEW i \in 1..Len(stack'[u]), stack'[u][i].phase = "computing",
               graph'.state[stack'[u][i].node] = "Computing"
        PROVE  \A d \in stack'[u][i].seen :
                  \/ d.node = stack'[u][i].node /\ d.cell \in Plain
                  \/ \E l \in graph'.dependencies[stack'[u][i].node] : d \in value'[l]
    <3>1. PICK j \in Frames(u) :
                 /\ stack[u][j].phase = "computing" /\ stack'[u][i].node = stack[u][j].node
                 /\ stack[u][j].node \in Created /\ stack[u][j].node \in Node
                 /\ \/ stack'[u][i].seen = stack[u][j].seen
                    \/ /\ stack'[u][i].seen = stack[u][j].seen \union data
                       /\ stack[u][j].node = caller
      BY <1>12, <2>2
    <3>2. Supported(stack[u][j].node, stack[u][j].seen)
      BY <1>5, <2>2, <3>1 DEF IInv, ValuesSupported
    <3>3. \A d \in stack[u][j].seen :
              \/ d.node = stack[u][j].node /\ d.cell \in Plain
              \/ \E l \in graph'.dependencies[stack[u][j].node] : d \in value'[l]
      BY <1>1, <1>5, <2>2, <3>1, <3>2 DEF Supported
    <3>4. stack[u][j].node = caller => \A d \in data : d \in value'[m]
      BY <1>1, <1>a
    <3> QED BY <1>5, <2>2, <3>1, <3>3, <3>4
  <2> QED BY <1>1, <2>1, <2>2 DEF ValuesSupported, Supported, Frames, Created, Served
<1>14. \A d \in data : d.node \in Created /\ ~InProgress(d.node)
  BY <1>2, <1>a DEF IInv, OwnUnpublished
<1>15. OwnUnpublished'
  <2>1. ASSUME NEW l \in Node, NEW d \in value[l]
        PROVE  d.node \in Created /\ ~InProgress(d.node)'
    <3>1. d.node \in Created /\ ~InProgress(d.node)
      BY DEF IInv, OwnUnpublished
    <3> QED BY <1>1, <3>1, StillInProgress DEF InProgress, Frames
  <2>2. ASSUME NEW u \in Task, NEW i \in 1..Len(stack'[u]), NEW d \in stack'[u][i].seen
        PROVE  d.node \in Created /\ (InProgress(d.node)' => d.node = stack'[u][i].node)
    <3>0. \E j \in Frames(u) : Origin(t, off, data, u, i, j)
      BY <1>1, FrameOrigin
    <3>1. PICK j \in Frames(u) :
               /\ stack'[u][i].node = stack[u][j].node
               /\ stack'[u][i].seen = IF u = t /\ i = 1 THEN stack[u][j].seen \union data
                                      ELSE stack[u][j].seen
      BY <3>0 DEF Origin
    <3>2. d.node \in Created /\ (InProgress(d.node) => d.node = stack[u][j].node)
      BY <1>14, <3>1 DEF IInv, OwnUnpublished
    <3>3. InProgress(d.node)' => InProgress(d.node)
      BY <1>1, StillInProgress DEF InProgress, Frames
    <3> QED BY <3>1, <3>2, <3>3
  <2> QED BY <1>1, <2>1, <2>2 DEF OwnUnpublished, InProgress, Frames, Created
<1>16. OwnReadsCurrent'
  <2>1. ASSUME NEW n \in Created, input[n] \in Key, graph'.state[n] = "Consistent"
        PROVE  OwnCurrent(n, value[n])'
    BY <1>1, <1>2, <1>5, <2>1 DEF IInv, OwnReadsCurrent, OwnCurrent, Served
  <2>2. ASSUME NEW u \in Task, NEW i \in 1..Len(stack'[u]), stack'[u][i].phase = "computing"
        PROVE  \A d \in stack'[u][i].seen :
                  d.node = stack'[u][i].node /\ d.cell \in Plain =>
                      /\ d.cell \in Awaits(input'[stack'[u][i].node])
                      /\ d.version = version'[d.cell] \/ stack'[u][i].node \in raced'
    <3>1. PICK j \in Frames(u) :
                 /\ stack[u][j].phase = "computing" /\ stack'[u][i].node = stack[u][j].node
                 /\ InProgress(stack[u][j].node)
                 /\ \/ stack'[u][i].seen = stack[u][j].seen
                    \/ stack'[u][i].seen = stack[u][j].seen \union data
      BY <1>12, <2>2
    <3>2. OwnCurrent(stack[u][j].node, stack[u][j].seen)
      BY <3>1 DEF IInv, OwnReadsCurrent
    <3>3. \A d \in data : d.node # stack[u][j].node
      BY <1>14, <3>1
    <3> QED BY <1>1, <3>1, <3>2, <3>3 DEF OwnCurrent
  <2> QED BY <1>1, <2>1, <2>2 DEF OwnReadsCurrent, OwnCurrent, Frames, Created, Served
<1> QED BY <1>4, <1>6, <1>7, <1>8, <1>9, <1>10, <1>11, <1>13, <1>15, <1>16 DEF IInv

-----------------------------------------------------------------------------
(***************************************************************************)
(* The steps of a call that deliver what it read.                          *)
(***************************************************************************)

\* What a lookup in the registry finds.
LEMMA GetServed ==
    ASSUME IInv, NEW k \in Key
    PROVE  Get(k) # NoNode =>
              /\ Get(k) = storage[k] /\ Get(k) \in Created /\ Get(k) \in Node
              /\ Served(Get(k)) /\ input[Get(k)] = k
              /\ Cleaned({k}) = storage
              /\ \A d \in value[Get(k)] : d.cell \in Tracked => d.version = version[d.cell]
<1> SUFFICES ASSUME Get(k) # NoNode
             PROVE  /\ Get(k) = storage[k] /\ Get(k) \in Created /\ Get(k) \in Node
                    /\ Served(Get(k)) /\ input[Get(k)] = k
                    /\ Cleaned({k}) = storage
                    /\ \A d \in value[Get(k)] : d.cell \in Tracked => d.version = version[d.cell]
  OBVIOUS
<1>1. Get(k) = storage[k] /\ Served(Get(k))
  BY DEF Get, Served
<1>2. Get(k) \in Created /\ Get(k) \in Node /\ input[Get(k)] = k
  BY <1>1 DEF IInv, Registered, Typed, TypeOK
<1>3. Cleaned({k}) = storage
  <2>1. storage \in [Key -> Node \union {NoNode}]
    BY DEF IInv, Typed, TypeOK
  <2> QED BY <1>1, <2>1 DEF Cleaned
<1>4. \A d \in value[Get(k)] : d.cell \in Tracked => d.version = version[d.cell]
  BY <1>1, <1>2, FreshState DEF FreshOverTracked
<1> QED BY <1>1, <1>2, <1>3, <1>4

\* The context of a call is that of the frame it returns to.
LEMMA ContextIsCaller ==
    ASSUME Typed, NEW t \in Task, NEW off \in {0, 1}, NEW frames,
           off = 0 => frames = stack[t],
           off = 1 => stack[t] # <<>> /\ frames = Tail(stack[t])
    PROVE  /\ frames \in Seq(Frame)
           /\ ContextOf(frames) = CallerAt(t, off)
<1>1. stack[t] \in Seq(Frame)
  BY DEF Typed, TypeOK
<1>2. CASE off = 0
  BY <1>1, <1>2 DEF ContextOf, CallerAt
<1>3. CASE off = 1
  BY SMTT(30), <1>1, <1>3 DEF ContextOf, CallerAt
<1> QED BY <1>2, <1>3

\* A cached value is returned.
LEMMA HitIInv ==
    ASSUME IInv, NEW t \in Task, NEW off \in {0, 1}, NEW frames, NEW k \in Key,
           off = 0 => frames = stack[t],
           off = 1 => stack[t] # <<>> /\ frames = Tail(stack[t]),
           Get(k) # NoNode, storage' = Cleaned({k}),
           graph' = Link(graph, ContextOf(frames), Get(k)),
           Deliver(t, frames, value[Get(k)]),
           LocksAfter(t, off),
           \/ began' = began
           \/ stack[t] = <<>> /\ began' = [began EXCEPT ![t] = version] /\ result[t] = {},
           UNCHANGED <<input, value, snapshot, version, raced>>
    PROVE  IInv'
<1> DEFINE m == Get(k)
<1>1. /\ m \in Created /\ m \in Node /\ Served(m) /\ Cleaned({k}) = storage
      /\ \A d \in value[m] : d.cell \in Tracked => d.version = version[d.cell]
  BY GetServed
<1>2. frames \in Seq(Frame) /\ ContextOf(frames) = CallerAt(t, off)
  BY ContextIsCaller DEF IInv
<1>3. value[m] \in SUBSET Datum
  BY <1>1 DEF IInv, Typed, TypeOK
<1>4. Deliver(t, frames, value[m]) /\ graph' = Link(graph, ContextOf(frames), m)
  OBVIOUS
<1> HIDE DEF m
<1>5. Delivered(t, off, value[m])
  BY <1>2, <1>3, <1>4, DeliverEffect DEF IInv
<1>6. ReadStep(t, off, m)
  BY <1>1, <1>2, <1>4, <1>5 DEF ReadStep, Served
<1> QED BY <1>6, ReadIInv

\* The body of a method reads a MutableState.
LEMMA UseTrackedIInv ==
    ASSUME IInv, NEW t \in Task, UseTracked(t)
    PROVE  IInv'
<1> DEFINE c == NextAwait(t)
           n == snapshot[c]
<1>1. /\ c \in Tracked /\ graph' = Link(graph, ContextOf(stack[t]), n)
      /\ Deliver(t, stack[t], value[n]) /\ stack[t] # <<>>
      /\ Head(stack[t]).phase = "computing"
      /\ UNCHANGED <<input, value, storage, snapshot, version, locks, history>>
  BY DEF UseTracked, BodyGoesOn, Computing
<1> HIDE DEF c
<1>2. /\ n \in Created /\ graph.state[n] # "Computing" /\ n \in Node
      /\ \A d \in value[n] : d.cell \in Tracked => d.version = version[d.cell]
      /\ value[n] \in SUBSET Datum
  BY <1>1 DEF IInv, CellsCurrent, Typed, TypeOK
<1> HIDE DEF n
<1>3. stack[t] \in Seq(Frame) /\ ContextOf(stack[t]) = CallerAt(t, 0)
  BY ContextIsCaller DEF IInv
<1>4. Delivered(t, 0, value[n])
  BY <1>1, <1>2, <1>3, DeliverEffect DEF IInv
<1>5. LocksAfter(t, 0)
  BY <1>1, <1>3 DEF LocksAfter
<1>6. ReadStep(t, 0, n)
  BY <1>1, <1>2, <1>3, <1>4, <1>5 DEF ReadStep, history
<1> QED BY <1>6, ReadIInv

\* The body of a method reads plain data.
LEMMA ReadPlainIInv ==
    ASSUME IInv, NEW t \in Task, ReadPlain(t)
    PROVE  IInv'
<1> DEFINE c == NextAwait(t)
           n == stack[t][1].node
           k == stack[t][1].key
           datum == [cell |-> c, version |-> version[c], node |-> n]
           data == {datum}
<1>0. /\ stack[t] \in Seq(Frame) /\ stack[t] # <<>> /\ Head(stack[t]) = stack[t][1]
      /\ stack[t][1].phase = "computing" /\ 1 \in Frames(t)
      /\ c \in Plain /\ Body[k][stack[t][1].at] = c /\ stack[t][1].at <= Len(Body[k])
  <2>1. stack[t] \in Seq(Frame)
    BY DEF IInv, Typed, TypeOK
  <2>2. stack[t] # <<>>
    BY DEF ReadPlain, BodyGoesOn, Computing
  <2>3. Head(stack[t]) = stack[t][1] /\ 1 \in Frames(t)
    BY <2>1, <2>2 DEF Frames
  <2> QED BY <2>1, <2>2, <2>3 DEF ReadPlain, BodyGoesOn, Computing, NextAwait
<1>1. /\ Deliver(t, stack[t], data)
      /\ graph' = graph /\ input' = input /\ value' = value /\ storage' = storage
      /\ snapshot' = snapshot /\ version' = version /\ began' = began /\ raced' = raced
      /\ UNCHANGED locks
  BY <1>0 DEF ReadPlain, history
<1>2. /\ n \in Created /\ n \in Node /\ input[n] = k /\ k \in Key /\ c \in Awaits(k)
  <2>1. n \in Created /\ input[n] = k
    BY <1>0 DEF IInv, FramesShaped
  <2>2. k \in Key /\ stack[t][1].at \in Nat \ {0}
    BY <1>0, FrameTypes DEF IInv
  <2>3. c \in Awaits(k)
    BY <1>0, <2>2, BodyAssumption DEF Awaits
  <2> QED BY <2>1, <2>2, <2>3 DEF IInv, Typed, TypeOK
<1>3. datum \in Datum /\ datum.cell = c /\ datum.version = version[c] /\ datum.node = n
  <2>1. version[c] \in 0..MaxVersion
    BY <1>0 DEF IInv, Typed, TypeOK, Cell
  <2> QED BY <1>0, <1>2, <2>1 DEF Datum, Cell
<1> HIDE DEF c, n, k, datum
<1>4. Delivered(t, 0, data)
  BY <1>0, <1>1, <1>3, DeliverEffect DEF IInv
<1>5. LocksAfter(t, 0)
  BY <1>0, <1>1 DEF LocksAfter
<1>6. /\ FramesShaped' /\ Chained' /\ LocksHeld'
      /\ owners' \in [Key -> SUBSET Task] /\ waiting' \in [Key -> Seq(Task)]
  BY <1>1, <1>4, <1>5, StackAfter
<1>7. ComputedAlone'
  <2>1. \A l \in Created : graph'.state[l] = "Consistent" => Served(l)
    BY <1>1 DEF Served
  <2> QED BY <1>1, <1>4, <1>5, <2>1, AloneAfter
<1>8. SeenSinceCall' /\ ReadYourWrites' /\ began' \in [Task -> [Cell -> 0..MaxVersion]]
  <2>1. \A d \in data : d.cell \in Tracked => d.version >= began'[t][d.cell]
    BY <1>0, <1>3, CellAssumption
  <2> HIDE DEF data
  <2> QED BY <1>1, <1>4, <1>5, <2>1, HistoryAfter
<1>9. Typed'
  <2>1. Typed
    BY DEF IInv
  <2>2. stack' \in [Task -> Seq(Frame)] /\ result' \in [Task -> SUBSET SUBSET Datum]
    BY <1>4 DEF Delivered
  <2>3. \A u \in Task : \A x \in result'[u] : x \subseteq Datum
    BY <2>2
  <2> QED BY <1>1, <1>6, <1>8, <2>1, <2>2, <2>3 DEF Typed, TypeOK, Created
<1>10. GraphInv(graph') /\ Untouched' /\ Registered' /\ ServedIsRegistered' /\ CellsCurrent'
  BY <1>1 DEF IInv, Untouched, Registered, ServedIsRegistered, CellsCurrent, Created, Served
<1>11. ASSUME NEW u \in Task, NEW i \in 1..Len(stack'[u])
       PROVE  \E j \in Frames(u) :
                 /\ stack'[u][i].node = stack[u][j].node
                 /\ stack'[u][i].phase = stack[u][j].phase
                 /\ \/ stack'[u][i].seen = stack[u][j].seen
                    \/ stack'[u][i].seen = stack[u][j].seen \union data /\ stack[u][j].node = n
  <2>0. \E j \in Frames(u) : Origin(t, 0, data, u, i, j)
    BY <1>4, <1>5, FrameOrigin
  <2>1. PICK j \in Frames(u) :
             /\ j = (IF u = t THEN i + 0 ELSE i)
             /\ stack'[u][i].phase = stack[u][j].phase
             /\ stack'[u][i].node = stack[u][j].node
             /\ stack'[u][i].seen = IF u = t /\ i = 1 THEN stack[u][j].seen \union data
                                    ELSE stack[u][j].seen
    BY <2>0 DEF Origin
  <2>2. u = t /\ i = 1 => stack[u][j].node = n
    BY <2>1 DEF n
  <2> QED BY <2>1, <2>2
<1>12. ValuesSupported'
  <2>1. ASSUME NEW u \in Task, NEW i \in 1..Len(stack'[u]), stack'[u][i].phase = "computing",
               graph'.state[stack'[u][i].node] = "Computing"
        PROVE  \A d \in stack'[u][i].seen :
                  \/ d.node = stack'[u][i].node /\ d.cell \in Plain
                  \/ \E l \in graph'.dependencies[stack'[u][i].node] : d \in value'[l]
    <3>1. PICK j \in Frames(u) :
                 /\ stack'[u][i].node = stack[u][j].node
                 /\ stack'[u][i].phase = stack[u][j].phase
                 /\ \/ stack'[u][i].seen = stack[u][j].seen
                    \/ stack'[u][i].seen = stack[u][j].seen \union data /\ stack[u][j].node = n
      BY <1>11
    <3>2. Supported(stack[u][j].node, stack[u][j].seen)
      BY <1>1, <2>1, <3>1 DEF IInv, ValuesSupported
    <3> QED BY <1>0, <1>1, <1>3, <3>1, <3>2 DEF Supported
  <2>2. \A l \in Created : input[l] \in Key /\ graph.state[l] = "Consistent" =>
            Supported(l, value[l])'
    BY <1>1 DEF IInv, ValuesSupported, Supported, Served
  <2> QED BY <1>1, <2>1, <2>2 DEF ValuesSupported, Supported, Frames, Created, Served
<1>13. ASSUME NEW l, InProgress(l)'
       PROVE  InProgress(l)
  BY <1>4, <1>5, <1>13, StillInProgress DEF InProgress, Frames
<1>14. OwnUnpublished'
  <2>1. ASSUME NEW l \in Node, NEW d \in value[l]
        PROVE  d.node \in Created /\ ~InProgress(d.node)'
    BY <1>13 DEF IInv, OwnUnpublished
  <2>2. ASSUME NEW u \in Task, NEW i \in 1..Len(stack'[u]), NEW d \in stack'[u][i].seen
        PROVE  d.node \in Created /\ (InProgress(d.node)' => d.node = stack'[u][i].node)
    <3>1. PICK j \in Frames(u) :
                 /\ stack'[u][i].node = stack[u][j].node
                 /\ \/ stack'[u][i].seen = stack[u][j].seen
                    \/ stack'[u][i].seen = stack[u][j].seen \union data /\ stack[u][j].node = n
      BY <1>11
    <3>2. d \in stack[u][j].seen =>
             d.node \in Created /\ (InProgress(d.node) => d.node = stack[u][j].node)
      BY DEF IInv, OwnUnpublished
    <3> QED BY <1>2, <1>3, <1>13, <3>1, <3>2
  <2> QED BY <1>1, <2>1, <2>2 DEF OwnUnpublished, InProgress, Frames, Created
<1>15. OwnReadsCurrent'
  <2>1. ASSUME NEW u \in Task, NEW i \in 1..Len(stack'[u]), stack'[u][i].phase = "computing"
        PROVE  \A d \in stack'[u][i].seen :
                  d.node = stack'[u][i].node /\ d.cell \in Plain =>
                      /\ d.cell \in Awaits(input'[stack'[u][i].node])
                      /\ d.version = version'[d.cell] \/ stack'[u][i].node \in raced'
    <3>1. PICK j \in Frames(u) :
                 /\ stack'[u][i].node = stack[u][j].node
                 /\ stack'[u][i].phase = stack[u][j].phase
                 /\ \/ stack'[u][i].seen = stack[u][j].seen
                    \/ stack'[u][i].seen = stack[u][j].seen \union data /\ stack[u][j].node = n
      BY <1>11
    <3>2. OwnCurrent(stack[u][j].node, stack[u][j].seen)
      BY <2>1, <3>1 DEF IInv, OwnReadsCurrent
    <3> QED BY <1>1, <1>2, <1>3, <3>1, <3>2 DEF OwnCurrent
  <2>2. \A l \in Created : input[l] \in Key /\ graph.state[l] = "Consistent" =>
            OwnCurrent(l, value[l])'
    BY <1>1 DEF IInv, OwnReadsCurrent, OwnCurrent, Served
  <2> QED BY <1>1, <2>1, <2>2 DEF OwnReadsCurrent, OwnCurrent, Frames, Created, Served
<1> QED BY <1>6, <1>7, <1>8, <1>9, <1>10, <1>12, <1>14, <1>15 DEF IInv

-----------------------------------------------------------------------------
(***************************************************************************)
(* The end of a computation.                                               *)
(***************************************************************************)

\* The graph, step by step.
PlacedAt(n, k) ==
    IF storage[k] \in {NoNode, n} THEN TrySetOutput(graph, n)
    ELSE Invalidate(TrySetOutput(graph, n), storage[k])

LinkedAt(n, k, caller) == Link(SetInvalidateCallback(PlacedAt(n, k), n), caller, n)

\* The output settles the node; its caller depends on it, or falls with it; of the rest
\* of the graph nothing is served or computed that was not.
LEMMA FinishGraph ==
    ASSUME IInv, NEW k \in Key, NEW n \in Node, ~Served(n),
           NEW caller \in Node \union {NoNode}, caller # n
    PROVE  LET p == PlacedAt(n, k)
               h == LinkedAt(n, k, caller)
           IN  /\ GraphInv(h)
               /\ h.state[n] # "Computing"
               /\ h.state[n] = "Consistent" => /\ graph.state[n] = "Computing"
                                               /\ h.dependencies[n] = graph.dependencies[n]
               /\ \A x \in Node : h.state[x] = "Consistent" => p.state[x] = "Consistent"
               /\ \A x \in Node \ {n} :
                     /\ h.state[x] = "Consistent" =>
                           /\ graph.state[x] = "Consistent"
                           /\ h.dependencies[x] = graph.dependencies[x]
                     /\ h.state[x] = "Computing" =>
                           /\ graph.state[x] = "Computing"
                           /\ graph.dependencies[x] \subseteq h.dependencies[x]
                           /\ x = caller => /\ n \in h.dependencies[x]
                                            /\ graph.state[n] = "Computing"
                     /\ graph.state[x] = "Computing" /\ x # caller => h.state[x] = "Computing"
                     /\ graph.state[x] # "Computing" => h.state[x] # "Computing"
<1> DEFINE g == graph
           s == TrySetOutput(graph, n)
           p == PlacedAt(n, k)
           q == SetInvalidateCallback(p, n)
           h == LinkedAt(n, k, caller)
<1>1. GraphInv(g) /\ storage[k] \in Node \union {NoNode} /\ g.state[n] # "Consistent"
  BY DEF IInv, Typed, TypeOK, Served
<1>2. /\ GraphInv(s)
      /\ \A x \in Node \ {n} : /\ s.state[x] = g.state[x]
                               /\ s.dependencies[x] = g.dependencies[x]
      /\ g.state[n] # "Computing" => s = g
      /\ g.state[n] = "Computing" =>
            \/ s.state[n] = "Invalidated"
            \/ s.state[n] = "Consistent" /\ s.dependencies[n] = g.dependencies[n]
  BY <1>1, TrySetOutputInv, TrySetOutputLater
<1>3. GraphInv(p) /\ Later(s, p)
  <2>1. CASE storage[k] \in {NoNode, n}
    <3>1. p = s
      BY <2>1 DEF PlacedAt
    <3>2. Later(s, s)
      BY DEF Later
    <3> QED BY <1>2, <3>1, <3>2
  <2>2. CASE storage[k] \notin {NoNode, n}
    <3>1. p = Invalidate(s, storage[k]) /\ storage[k] \in Node
      BY <1>1, <2>2 DEF PlacedAt
    <3>2. s \in Graph
      BY <1>2 DEF GraphInv
    <3> HIDE DEF s
    <3> QED BY <1>2, <3>1, <3>2, InvalidateInv, InvalidateLater
  <2> QED BY <2>1, <2>2
<1>4. GraphInv(q) /\ q.state = p.state /\ q.dependencies = p.dependencies
  <2>1. p \in Graph
    BY <1>3 DEF GraphInv
  <2> HIDE DEF p
  <2> QED BY <1>3, <2>1, SetInvalidateCallbackInv, SetInvalidateCallbackLater
<1>5. h = Link(q, caller, n)
  BY DEF LinkedAt
<1> HIDE DEF g, s, p, q, h
<1>6. q.state[n] # "Computing"
  BY <1>2, <1>3, <1>4 DEF Later
<1>7. /\ GraphInv(h)
      /\ \A x \in Node : x # caller => /\ h.state[x] = q.state[x]
                                       /\ h.dependencies[x] = q.dependencies[x]
      /\ caller \in Node /\ q.state[caller] # "Computing" => h.state[caller] = q.state[caller]
      /\ caller \in Node /\ q.state[caller] # "Computing" =>
            h.dependencies[caller] = q.dependencies[caller]
      /\ caller \in Node /\ q.state[caller] = "Computing" =>
            \/ h.state[caller] = "Invalidated"
            \/ /\ q.state[n] # "Invalidated"
               /\ h.state[caller] = "Computing"
               /\ h.dependencies[caller] = q.dependencies[caller] \union {n}
  <2>1. LinkedTo(q, h, caller, n)
    BY <1>4, <1>5, <1>6, LinkEffect
  <2> QED BY <2>1 DEF LinkedTo
<1>8. /\ h.state[n] # "Computing"
      /\ h.state[n] = "Consistent" => /\ g.state[n] = "Computing"
                                      /\ h.dependencies[n] = g.dependencies[n]
  BY <1>1, <1>2, <1>3, <1>4, <1>6, <1>7 DEF Later
<1>9. \A x \in Node : h.state[x] = "Consistent" => p.state[x] = "Consistent"
  BY <1>4, <1>7
<1>10. ASSUME NEW x \in Node \ {n}
       PROVE  /\ p.state[x] = g.state[x] \/ (g.state[x] = "Consistent" /\ p.state[x] = "Invalidated")
              /\ p.state[x] # "Invalidated" => p.dependencies[x] = g.dependencies[x]
  BY <1>2, <1>3 DEF Later
<1>11. q.state[n] # "Invalidated" => g.state[n] = "Computing"
  <2>1. g.state[n] \in ConsistencyState
    BY <1>1 DEF GraphInv, Graph
  <2> QED BY <1>1, <1>2, <1>3, <1>4, <2>1 DEF Later, ConsistencyState
<1>12. ASSUME NEW x \in Node \ {n}
       PROVE  /\ h.state[x] = "Consistent" =>
                    g.state[x] = "Consistent" /\ h.dependencies[x] = g.dependencies[x]
              /\ h.state[x] = "Computing" =>
                    /\ g.state[x] = "Computing"
                    /\ g.dependencies[x] \subseteq h.dependencies[x]
                    /\ x = caller => n \in h.dependencies[x] /\ g.state[n] = "Computing"
              /\ g.state[x] = "Computing" /\ x # caller => h.state[x] = "Computing"
              /\ g.state[x] # "Computing" => h.state[x] # "Computing"
  <2>1. CASE x # caller
    BY <1>4, <1>7, <1>10, <2>1
  <2>2. CASE x = caller
    BY <1>4, <1>7, <1>10, <1>11, <2>2
  <2> QED BY <2>1, <2>2
<1> QED BY <1>7, <1>8, <1>9, <1>12 DEF g, p, h

\* The registry, step by step.
StorageAt(n, k, p, q, h) ==
    Unregistered([Unregistered(storage, graph, p) EXCEPT ![k] = n], q, h)

\* The registry holds the node under its key, or nothing when it was withdrawn at once,
\* and lost what was withdrawn otherwise.
LEMMA FinishStorage ==
    ASSUME IInv, NEW k \in Key, NEW n \in Node, NEW p, NEW q, NEW h,
           storage' = StorageAt(n, k, p, q, h)
    PROVE  /\ storage' \in [Key -> Node \union {NoNode}]
           /\ storage'[k] \in {n, NoNode}
           /\ h.state[n] # "Invalidated" => storage'[k] = n
           /\ \A j \in Key \ {k} :
                 /\ storage'[j] \in {storage[j], NoNode}
                 /\ p.state[storage[j]] # "Invalidated" /\ h.state[storage[j]] # "Invalidated" =>
                       storage'[j] = storage[j]
<1> DEFINE u == Unregistered(storage, graph, p)
           e == [u EXCEPT ![k] = n]
<1>1. storage \in [Key -> Node \union {NoNode}]
  BY DEF IInv, Typed, TypeOK
<1>2. /\ u \in [Key -> Node \union {NoNode}]
      /\ \A j \in Key : /\ u[j] \in {storage[j], NoNode}
                        /\ p.state[storage[j]] # "Invalidated" => u[j] = storage[j]
  BY <1>1 DEF Unregistered
<1> HIDE DEF u
<1>3. e \in [Key -> Node \union {NoNode}] /\ e[k] = n /\ \A j \in Key \ {k} : e[j] = u[j]
  BY <1>2
<1>4. storage' = Unregistered(e, q, h)
  BY DEF u, StorageAt
<1> HIDE DEF e
<1>5. /\ storage' \in [Key -> Node \union {NoNode}]
      /\ \A j \in Key : /\ storage'[j] \in {e[j], NoNode}
                        /\ h.state[e[j]] # "Invalidated" => storage'[j] = e[j]
  BY <1>3, <1>4 DEF Unregistered
<1>6. ASSUME NEW j \in Key \ {k}
      PROVE  /\ storage'[j] \in {storage[j], NoNode}
             /\ p.state[storage[j]] # "Invalidated" /\ h.state[storage[j]] # "Invalidated" =>
                   storage'[j] = storage[j]
  BY <1>2, <1>3, <1>5
<1>7. storage'[k] \in {n, NoNode} /\ (h.state[n] # "Invalidated" => storage'[k] = n)
  BY <1>3, <1>5
<1> QED BY <1>5, <1>6, <1>7

\* A computation ends: its value is published, registered and linked to the caller, or
\* withdrawn at once.
LEMMA FinishIInv ==
    ASSUME IInv, NEW t \in Task, Finish(t)
    PROVE  IInv'
<1>a. PICK n : n = stack[t][1].node
  OBVIOUS
<1>b. PICK k : k = stack[t][1].key
  OBVIOUS
<1>c. PICK data : data = stack[t][1].seen
  OBVIOUS
<1>d. PICK rest : rest = Tail(stack[t])
  OBVIOUS
<1>e. PICK caller : caller = CallerAt(t, 1)
  OBVIOUS
<1>f. PICK p : p = PlacedAt(n, k)
  OBVIOUS
<1>g. PICK h : h = LinkedAt(n, k, caller)
  OBVIOUS
<1>h. PICK q : q = SetInvalidateCallback(p, n)
  OBVIOUS
<1>0. /\ stack[t] \in Seq(Frame) /\ stack[t] # <<>> /\ Head(stack[t]) = stack[t][1]
      /\ stack[t][1].phase = "computing" /\ 1 \in Frames(t)
  <2>1. stack[t] \in Seq(Frame)
    BY DEF IInv, Typed, TypeOK
  <2>2. stack[t] # <<>>
    BY DEF Finish, Computing
  <2>3. Head(stack[t]) = stack[t][1] /\ 1 \in Frames(t)
    BY <2>1, <2>2 DEF Frames
  <2> QED BY <2>1, <2>2, <2>3 DEF Finish, Computing
<1>1. rest \in Seq(Frame) /\ ContextOf(rest) = caller
  <2> DEFINE off == 1
  <2>1. Typed /\ off \in {0, 1} /\ off # 0
    BY DEF IInv
  <2>2. stack[t] # <<>> /\ rest = Tail(stack[t])
    BY <1>0, <1>d
  <2>3. caller = CallerAt(t, off)
    BY <1>e
  <2> HIDE DEF off
  <2> QED BY <2>1, <2>2, <2>3, ContextIsCaller
<1>2. /\ graph' = h
      /\ storage' = StorageAt(n, k, p, q, h)
      /\ value' = IF graph.state[n] = "Computing" THEN [value EXCEPT ![n] = data] ELSE value
      /\ Deliver(t, rest, data)
      /\ Lock!Release(t, k)
      /\ input' = input /\ snapshot' = snapshot /\ version' = version
      /\ began' = began /\ raced' = raced
  BY <1>0, <1>1, <1>a, <1>b, <1>c, <1>d, <1>f, <1>g, <1>h
     DEF Finish, Leave, history, PlacedAt, LinkedAt, StorageAt
<1>3. /\ n \in Created /\ n \in Node /\ input[n] = k /\ k \in Key /\ data \in SUBSET Datum
      /\ t \in owners[k]
  <2>1. n \in Created /\ input[n] = k /\ t \in owners[k]
    BY <1>0, <1>a, <1>b DEF IInv, FramesShaped
  <2>2. k \in Key /\ data \in SUBSET Datum
    BY <1>0, <1>b, <1>c, FrameTypes DEF IInv
  <2> QED BY <2>1, <2>2 DEF IInv, Typed, TypeOK
<1>4. Created \subseteq Node /\ value \in [Node -> SUBSET Datum]
  BY DEF IInv, Typed, TypeOK
<1>5. LocksAfter(t, 1)
  BY <1>0, <1>2, <1>b DEF LocksAfter
<1>6. /\ caller \in Created \union {NoNode} /\ caller \in Node \union {NoNode}
      /\ 2 \in Frames(t) => caller = stack[t][2].node /\ stack[t][2].phase = "computing"
  <2>1. /\ caller \in Created \union {NoNode} /\ caller \in Node \union {NoNode}
        /\ 1 + 1 \in Frames(t) =>
              caller = stack[t][1 + 1].node /\ stack[t][1 + 1].phase = "computing"
    BY <1>5, <1>e, CallerTypes
  <2> QED BY <2>1
<1>7. \A x \in Created : input[x] = k => ~Served(x)
  BY <1>0, <1>b DEF IInv, ComputedAlone
<1>8. ASSUME NEW u \in Task, NEW j \in Frames(u), stack[u][j].phase = "computing",
             stack[u][j].node = n
      PROVE  u = t /\ j = 1
  BY <1>0, <1>8, <1>a, DistinctComputations DEF IInv
<1>9. caller # n
  <2>1. CASE 2 \in Frames(t)
    BY <1>6, <1>8, <2>1
  <2>2. CASE 2 \notin Frames(t)
    <3>1. ~(Len(stack[t]) > 1)
      BY <1>0, <2>2 DEF Frames
    <3>2. caller = NoNode
      BY <3>1, <1>e DEF CallerAt
    <3> QED BY <1>3, <3>2, NodeAssumption
  <2> QED BY <2>1, <2>2
<1>10. /\ GraphInv(h)
       /\ h.state[n] # "Computing"
       /\ h.state[n] = "Consistent" => /\ graph.state[n] = "Computing"
                                       /\ h.dependencies[n] = graph.dependencies[n]
       /\ \A x \in Node : h.state[x] = "Consistent" => p.state[x] = "Consistent"
       /\ \A x \in Node \ {n} :
             /\ h.state[x] = "Consistent" =>
                   /\ graph.state[x] = "Consistent"
                   /\ h.dependencies[x] = graph.dependencies[x]
             /\ h.state[x] = "Computing" =>
                   /\ graph.state[x] = "Computing"
                   /\ graph.dependencies[x] \subseteq h.dependencies[x]
                   /\ x = caller => /\ n \in h.dependencies[x]
                                    /\ graph.state[n] = "Computing"
             /\ graph.state[x] = "Computing" /\ x # caller => h.state[x] = "Computing"
             /\ graph.state[x] # "Computing" => h.state[x] # "Computing"
  BY <1>3, <1>6, <1>7, <1>9, <1>f, <1>g, FinishGraph
<1>11. /\ storage' \in [Key -> Node \union {NoNode}]
       /\ storage'[k] \in {n, NoNode}
       /\ h.state[n] # "Invalidated" => storage'[k] = n
       /\ \A j \in Key \ {k} :
             /\ storage'[j] \in {storage[j], NoNode}
             /\ p.state[storage[j]] # "Invalidated" /\ h.state[storage[j]] # "Invalidated" =>
                   storage'[j] = storage[j]
  BY <1>2, <1>3, FinishStorage
<1>12. Delivered(t, 1, data)
  <2> DEFINE off == 1
  <2>1. Typed /\ off \in {0, 1} /\ off # 0
    BY DEF IInv
  <2>2. stack[t] # <<>> /\ rest = Tail(stack[t]) /\ rest \in Seq(Frame)
    BY <1>0, <1>1, <1>d
  <2> HIDE DEF off
  <2>3. Delivered(t, off, data)
    BY <1>2, <1>3, <2>1, <2>2, DeliverEffect
  <2> QED BY <2>3 DEF off
<1>13. /\ FramesShaped' /\ Chained' /\ LocksHeld'
       /\ owners' \in [Key -> SUBSET Task] /\ waiting' \in [Key -> Seq(Task)]
  BY <1>2, <1>5, <1>12, StackAfter
<1>14. ASSUME NEW x \in Created, graph'.state[x] = "Consistent"
       PROVE  x # n => Served(x) /\ (input[x] \in Key => input[x] # k)
  BY <1>2, <1>4, <1>7, <1>10, <1>14 DEF Served
<1>15. ComputedAlone'
  <2>1. \A x \in Created : graph'.state[x] = "Consistent" =>
           Served(x) \/ (1 = 1 /\ input[x] = stack[t][1].key)
    BY <1>3, <1>14, <1>b
  <2> QED BY <1>2, <1>5, <1>12, <2>1, AloneAfter
<1>16. SeenSinceCall' /\ ReadYourWrites' /\ began' \in [Task -> [Cell -> 0..MaxVersion]]
  <2>1. \A d \in data : d.cell \in Tracked => d.version >= began'[t][d.cell]
    BY <1>0, <1>2, <1>c DEF IInv, SeenSinceCall
  <2> QED BY <1>2, <1>5, <1>12, <2>1, HistoryAfter
<1>17. /\ value' \in [Node -> SUBSET Datum]
       /\ \A x \in Node \ {n} : value'[x] = value[x]
       /\ value'[n] = IF graph.state[n] = "Computing" THEN data ELSE value[n]
  BY <1>2, <1>3, <1>4
<1>18. Typed'
  <2>1. Typed
    BY DEF IInv
  <2>2. graph' \in Graph
    BY <1>2, <1>10 DEF GraphInv
  <2>3. stack' \in [Task -> Seq(Frame)] /\ result' \in [Task -> SUBSET SUBSET Datum]
    BY <1>12 DEF Delivered
  <2>4. \A u \in Task : \A x \in result'[u] : x \subseteq Datum
    BY <2>3
  <2> QED BY <1>2, <1>11, <1>13, <1>16, <1>17, <2>1, <2>2, <2>3, <2>4 DEF Typed, TypeOK, Created
<1>19. Untouched'
  <2>1. \A x \in Node \ Created : graph'.state[x] = "Computing"
    BY <1>2, <1>3, <1>6, <1>10, NodeAssumption DEF IInv, Untouched
  <2> QED BY <1>2, <2>1 DEF Untouched, Created
<1>20. Registered'
  <2>1. ASSUME NEW j \in Key, storage'[j] # NoNode
        PROVE  storage'[j] \in Created /\ input[storage'[j]] = j
    <3>1. CASE j = k
      BY <1>3, <1>11, <2>1, <3>1
    <3>2. CASE j # k
      <4>1. storage'[j] = storage[j]
        BY <1>11, <2>1, <3>2
      <4> QED BY <2>1, <4>1 DEF IInv, Registered
    <3> QED BY <3>1, <3>2
  <2> QED BY <1>2, <2>1 DEF Registered, Created
<1>21. ServedIsRegistered'
  <2>1. ASSUME NEW x \in Created, input[x] \in Key, graph'.state[x] = "Consistent"
        PROVE  storage'[input[x]] = x
    <3>1. CASE x = n
      BY <1>2, <1>3, <1>11, <2>1, <3>1
    <3>2. CASE x # n
      <4>1. storage[input[x]] = x /\ input[x] \in Key \ {k}
        BY <1>14, <2>1, <3>2 DEF IInv, ServedIsRegistered
      <4>2. p.state[x] = "Consistent" /\ h.state[x] = "Consistent"
        BY <1>2, <1>4, <1>10, <2>1
      <4> QED BY <1>11, <4>1, <4>2
    <3> QED BY <3>1, <3>2
  <2> QED BY <1>2, <2>1 DEF ServedIsRegistered, Created, Served
<1>22. CellsCurrent'
  <2>1. ASSUME NEW c \in Tracked
        PROVE  snapshot[c] # n /\ snapshot[c] \in Node /\ graph'.state[snapshot[c]] # "Computing"
    <3>1. snapshot[c] \in Created /\ input[snapshot[c]] = c /\ graph.state[snapshot[c]] # "Computing"
      BY DEF IInv, CellsCurrent
    <3>2. c # k
      BY <1>3, CellAssumption DEF Cell
    <3> QED BY <1>2, <1>3, <1>4, <1>10, <3>1, <3>2
  <2>2. ASSUME NEW x \in Created, input[x] \in Tracked, graph'.state[x] = "Consistent"
        PROVE  Served(x)
    <3>1. x # n
      BY <1>3, <2>2, CellAssumption DEF Cell
    <3> QED BY <1>14, <2>2, <3>1
  <2> QED BY <1>2, <1>17, <2>1, <2>2 DEF IInv, CellsCurrent, Created, Served
<1>23. ASSUME NEW x \in Node, NEW l \in graph.dependencies[x], graph.state[n] = "Computing"
       PROVE  l # n
  BY <1>23 DEF IInv, GraphInv, Settled
<1>24. \A x \in Node : \A l \in graph.dependencies[x] : value'[l] = value[l]
  <2>1. ASSUME NEW x \in Node, NEW l \in graph.dependencies[x]
        PROVE  value'[l] = value[l]
    <3>1. l \in Node
      BY DEF IInv, GraphInv, Graph
    <3> QED BY <1>17, <1>23, <3>1
  <2> QED BY <2>1
<1>25. ASSUME NEW u \in Task, NEW i \in 1..Len(stack'[u]), stack'[u][i].phase = "computing"
       PROVE  \E j \in Frames(u) :
                 /\ stack[u][j].phase = "computing" /\ stack'[u][i].node = stack[u][j].node
                 /\ stack[u][j].node \in Node \ {n}
                 /\ InProgress(stack[u][j].node)
                 /\ \/ stack'[u][i].seen = stack[u][j].seen
                    \/ /\ stack'[u][i].seen = stack[u][j].seen \union data
                       /\ stack[u][j].node = caller
  <2>0. \E j \in Frames(u) : Origin(t, 1, data, u, i, j)
    BY <1>5, <1>12, FrameOrigin
  <2>1. PICK j \in Frames(u) :
             /\ j = (IF u = t THEN i + 1 ELSE i)
             /\ stack'[u][i].phase = stack[u][j].phase
             /\ stack'[u][i].node = stack[u][j].node
             /\ stack'[u][i].seen = IF u = t /\ i = 1 THEN stack[u][j].seen \union data
                                    ELSE stack[u][j].seen
    BY <2>0 DEF Origin
  <2>2. u = t /\ i = 1 => stack[u][j].node = caller
    BY <1>6, <2>1
  <2>3. stack[u][j].node \in Node
    BY <1>4, <1>25, <2>1 DEF IInv, FramesShaped
  <2>4. stack[u][j].node # n
    <3>1. u = t => j # 1
      BY <2>1
    <3> QED BY <1>8, <1>25, <2>1, <3>1
  <2>5. InProgress(stack[u][j].node)
    BY <1>25, <2>1 DEF InProgress
  <2> QED BY <1>25, <2>1, <2>2, <2>3, <2>4, <2>5
<1>26. Supported(n, data) \/ graph.state[n] # "Computing"
  BY <1>0, <1>a, <1>c DEF IInv, ValuesSupported
<1>27. ValuesSupported'
  <2>1. ASSUME NEW x \in Created, input[x] \in Key, graph'.state[x] = "Consistent"
        PROVE  Supported(x, value[x])'
    <3>1. CASE x = n
      BY <1>2, <1>3, <1>10, <1>17, <1>24, <1>26, <2>1, <3>1 DEF Supported
    <3>2. CASE x # n
      <4>1. Supported(x, value[x])
        BY <1>14, <2>1, <3>2 DEF IInv, ValuesSupported
      <4>2. value'[x] = value[x] /\ graph'.dependencies[x] = graph.dependencies[x]
        BY <1>2, <1>4, <1>10, <1>17, <2>1, <3>2
      <4> QED BY <1>4, <1>24, <4>1, <4>2 DEF Supported
    <3> QED BY <3>1, <3>2
  <2>2. ASSUME NEW u \in Task, NEW i \in 1..Len(stack'[u]), stack'[u][i].phase = "computing",
               graph'.state[stack'[u][i].node] = "Computing"
        PROVE  \A d \in stack'[u][i].seen :
                  \/ d.node = stack'[u][i].node /\ d.cell \in Plain
                  \/ \E l \in graph'.dependencies[stack'[u][i].node] : d \in value'[l]
    <3>1. PICK j \in Frames(u) :
                 /\ stack[u][j].phase = "computing" /\ stack'[u][i].node = stack[u][j].node
                 /\ stack[u][j].node \in Node \ {n}
                 /\ \/ stack'[u][i].seen = stack[u][j].seen
                    \/ /\ stack'[u][i].seen = stack[u][j].seen \union data
                       /\ stack[u][j].node = caller
      BY <1>25, <2>2
    <3>2. /\ graph.state[stack[u][j].node] = "Computing"
          /\ graph.dependencies[stack[u][j].node] \subseteq graph'.dependencies[stack[u][j].node]
          /\ stack[u][j].node = caller =>
                n \in graph'.dependencies[stack[u][j].node] /\ graph.state[n] = "Computing"
      BY <1>2, <1>10, <2>2, <3>1
    <3>3. Supported(stack[u][j].node, stack[u][j].seen)
      BY <3>1, <3>2 DEF IInv, ValuesSupported
    <3>4. \A d \in stack[u][j].seen :
              \/ d.node = stack[u][j].node /\ d.cell \in Plain
              \/ \E l \in graph'.dependencies[stack[u][j].node] : d \in value'[l]
      BY <1>24, <3>1, <3>2, <3>3 DEF Supported
    <3>5. stack[u][j].node = caller => \A d \in data : d \in value'[n]
      BY <1>17, <3>2
    <3> QED BY <3>1, <3>2, <3>4, <3>5
  <2> QED BY <1>2, <2>1, <2>2 DEF ValuesSupported, Supported, Frames, Created, Served
<1>28. ASSUME NEW x, InProgress(x)'
       PROVE  InProgress(x) /\ x # n
  <2>1. PICK u \in Task : \E i \in 1..Len(stack'[u]) :
             stack'[u][i].phase = "computing" /\ stack'[u][i].node = x
    BY <1>28 DEF InProgress, Frames
  <2>2. PICK i \in 1..Len(stack'[u]) : stack'[u][i].phase = "computing" /\ stack'[u][i].node = x
    BY <2>1
  <2> QED BY <1>25, <2>2
<1>29. \A d \in data : d.node \in Created /\ ~InProgress(d.node)'
  <2>1. \A d \in data : d.node \in Created /\ (InProgress(d.node) => d.node = n)
    BY <1>0, <1>a, <1>c DEF IInv, OwnUnpublished
  <2> QED BY <1>28, <2>1
<1>30. OwnUnpublished'
  <2>1. ASSUME NEW l \in Node, NEW d \in value'[l]
        PROVE  d.node \in Created /\ ~InProgress(d.node)'
    <3>1. CASE d \in value[l]
      BY <1>28, <3>1 DEF IInv, OwnUnpublished
    <3>2. CASE d \in data
      BY <1>29, <3>2
    <3> QED BY <1>17, <3>1, <3>2
  <2>2. ASSUME NEW u \in Task, NEW i \in 1..Len(stack'[u]), NEW d \in stack'[u][i].seen
        PROVE  d.node \in Created /\ (InProgress(d.node)' => d.node = stack'[u][i].node)
    <3>0. \E j \in Frames(u) : Origin(t, 1, data, u, i, j)
      BY <1>5, <1>12, FrameOrigin
    <3>1. PICK j \in Frames(u) :
               /\ stack'[u][i].node = stack[u][j].node
               /\ stack'[u][i].seen = IF u = t /\ i = 1 THEN stack[u][j].seen \union data
                                      ELSE stack[u][j].seen
      BY <3>0 DEF Origin
    <3>2. d \in stack[u][j].seen =>
             d.node \in Created /\ (InProgress(d.node) => d.node = stack[u][j].node)
      BY DEF IInv, OwnUnpublished
    <3> QED BY <1>28, <1>29, <3>1, <3>2
  <2> QED BY <1>2, <2>1, <2>2 DEF OwnUnpublished, InProgress, Frames, Created
<1>31. OwnCurrent(n, data)
  BY <1>0, <1>a, <1>c DEF IInv, OwnReadsCurrent
<1>32. OwnReadsCurrent'
  <2>1. ASSUME NEW x \in Created, input[x] \in Key, graph'.state[x] = "Consistent"
        PROVE  OwnCurrent(x, value[x])'
    <3>1. CASE x = n
      BY <1>2, <1>10, <1>17, <1>31, <2>1, <3>1 DEF OwnCurrent
    <3>2. CASE x # n
      BY <1>2, <1>4, <1>14, <1>17, <2>1, <3>2 DEF IInv, OwnReadsCurrent, OwnCurrent
    <3> QED BY <3>1, <3>2
  <2>2. ASSUME NEW u \in Task, NEW i \in 1..Len(stack'[u]), stack'[u][i].phase = "computing"
        PROVE  \A d \in stack'[u][i].seen :
                  d.node = stack'[u][i].node /\ d.cell \in Plain =>
                      /\ d.cell \in Awaits(input'[stack'[u][i].node])
                      /\ d.version = version'[d.cell] \/ stack'[u][i].node \in raced'
    <3> DEFINE x == stack'[u][i].node
    <3>1. PICK j \in Frames(u) :
                 /\ stack[u][j].phase = "computing" /\ x = stack[u][j].node
                 /\ \/ stack'[u][i].seen = stack[u][j].seen
                    \/ stack'[u][i].seen = stack[u][j].seen \union data
      BY <1>25, <2>2
    <3>2. OwnCurrent(stack[u][j].node, stack[u][j].seen)
      BY <3>1 DEF IInv, OwnReadsCurrent
    <3>3. \A d \in data : d.node # x
      <4>1. \E v \in Task : \E l \in 1..Len(stack'[v]) :
                stack'[v][l].phase = "computing" /\ stack'[v][l].node = x
        BY <2>2
      <4> HIDE DEF x
      <4>2. ASSUME NEW d \in data, d.node = x PROVE FALSE
        BY <1>29, <4>1, <4>2 DEF InProgress, Frames
      <4> QED BY <4>2
    <3> QED BY <1>2, <3>1, <3>2, <3>3 DEF OwnCurrent
  <2> QED BY <1>2, <2>1, <2>2 DEF OwnReadsCurrent, OwnCurrent, Frames, Created, Served
<1> QED BY <1>2, <1>10, <1>13, <1>15, <1>16, <1>18, <1>19, <1>20, <1>21, <1>22,
           <1>27, <1>30, <1>32 DEF IInv

-----------------------------------------------------------------------------
(***************************************************************************)
(* The steps that open a call or a computation.                            *)
(***************************************************************************)

\* Nothing is computed or changed: a frame is new and has seen nothing, or is an old one;
\* a Computed is new and is being computed; the registry lost nothing that is served.
Opening ==
    /\ UNCHANGED <<graph, value, snapshot, version, raced>>
    /\ Created' \subseteq Node /\ Created \subseteq Created'
    /\ \A n \in Created : input'[n] = input[n]
    /\ \A n \in Created' \ Created : input'[n] \in Key
    /\ \A k \in Key : /\ storage'[k] \in {storage[k], NoNode}
                      /\ storage[k] # NoNode /\ Served(storage[k]) => storage'[k] = storage[k]
    /\ \A u \in Task : \A i \in 1..Len(stack'[u]) :
          \/ /\ stack'[u][i].seen = {}
             /\ stack'[u][i].phase = "computing" => stack'[u][i].node \notin Created
          \/ \E j \in Frames(u) : stack'[u][i] = stack[u][j]

\* Such a step keeps all that ties the values to the graph and to the registry.
LEMMA OpeningInv ==
    ASSUME IInv, Opening
    PROVE  /\ GraphInv(graph') /\ Untouched' /\ Registered' /\ ServedIsRegistered'
           /\ CellsCurrent' /\ ValuesSupported' /\ OwnUnpublished' /\ OwnReadsCurrent'
<1>1. /\ graph' = graph /\ value' = value /\ snapshot' = snapshot /\ version' = version
      /\ raced' = raced
      /\ Created' \subseteq Node /\ Created \subseteq Created'
      /\ \A n \in Created : input'[n] = input[n]
      /\ \A n \in Created' \ Created : input'[n] \in Key /\ graph.state[n] = "Computing"
  BY DEF Opening, IInv, Untouched
<1>2. GraphInv(graph') /\ Untouched'
  BY <1>1 DEF IInv, Untouched
<1>3. Registered'
  <2>1. ASSUME NEW k \in Key, storage'[k] # NoNode
        PROVE  storage'[k] \in Created' /\ input'[storage'[k]] = k
    <3>1. storage'[k] = storage[k]
      BY <2>1 DEF Opening
    <3> QED BY <1>1, <2>1, <3>1 DEF IInv, Registered
  <2> QED BY <2>1 DEF Registered
<1>4. \A n \in Created' : graph.state[n] = "Consistent" => n \in Created
  BY <1>1
<1>5. ServedIsRegistered'
  <2>1. ASSUME NEW n \in Created, input[n] \in Key, graph.state[n] = "Consistent"
        PROVE  storage'[input[n]] = n
    <3>1. storage[input[n]] = n /\ n # NoNode
      BY <1>1, <2>1, NodeAssumption DEF IInv, ServedIsRegistered, Served
    <3>2. Served(n)
      BY <2>1 DEF Served
    <3> QED BY <2>1, <3>1, <3>2 DEF Opening
  <2> QED BY <1>1, <1>4, <2>1 DEF ServedIsRegistered, Served
<1>6. CellsCurrent'
  <2>1. ASSUME NEW c \in Tracked
        PROVE  snapshot[c] \in Created /\ input[snapshot[c]] = c
    BY DEF IInv, CellsCurrent
  <2> QED BY <1>1, <1>4, <2>1 DEF IInv, CellsCurrent, Served
<1>7. ASSUME NEW u \in Task, NEW i \in 1..Len(stack'[u])
      PROVE  \/ /\ stack'[u][i].seen = {}
                /\ stack'[u][i].phase = "computing" => stack'[u][i].node \notin Created
             \/ \E j \in Frames(u) : stack'[u][i] = stack[u][j]
  BY DEF Opening
<1>8. ValuesSupported'
  <2>1. ASSUME NEW u \in Task, NEW i \in 1..Len(stack'[u]), stack'[u][i].phase = "computing",
               graph'.state[stack'[u][i].node] = "Computing"
        PROVE  \A d \in stack'[u][i].seen :
                  \/ d.node = stack'[u][i].node /\ d.cell \in Plain
                  \/ \E l \in graph'.dependencies[stack'[u][i].node] : d \in value'[l]
    <3>1. CASE stack'[u][i].seen = {}
      BY <3>1
    <3>2. CASE \E j \in Frames(u) : stack'[u][i] = stack[u][j]
      <4>1. PICK j \in Frames(u) : stack'[u][i] = stack[u][j]
        BY <3>2
      <4>2. Supported(stack[u][j].node, stack[u][j].seen)
        BY <1>1, <2>1, <4>1 DEF IInv, ValuesSupported
      <4> QED BY <1>1, <4>1, <4>2 DEF Supported
    <3> QED BY <1>7, <3>1, <3>2
  <2>2. \A n \in Created : input[n] \in Key /\ graph.state[n] = "Consistent" =>
            Supported(n, value[n])'
    BY <1>1 DEF IInv, ValuesSupported, Supported, Served
  <2> QED BY <1>1, <1>4, <2>1, <2>2 DEF ValuesSupported, Supported, Frames, Served
<1>9. ASSUME NEW n \in Created, InProgress(n)'
      PROVE  InProgress(n)
  <2>1. PICK u \in Task : \E i \in 1..Len(stack'[u]) :
             stack'[u][i].phase = "computing" /\ stack'[u][i].node = n
    BY <1>9 DEF InProgress, Frames
  <2>2. PICK i \in 1..Len(stack'[u]) : stack'[u][i].phase = "computing" /\ stack'[u][i].node = n
    BY <2>1
  <2>3. \E j \in Frames(u) : stack'[u][i] = stack[u][j]
    BY <1>7, <2>2
  <2> QED BY <2>2, <2>3 DEF InProgress
<1>10. OwnUnpublished'
  <2>1. ASSUME NEW m \in Node, NEW d \in value[m]
        PROVE  d.node \in Created' /\ ~InProgress(d.node)'
    <3>1. d.node \in Created /\ ~InProgress(d.node)
      BY DEF IInv, OwnUnpublished
    <3> QED BY <1>1, <1>9, <3>1
  <2>2. ASSUME NEW u \in Task, NEW i \in 1..Len(stack'[u]), NEW d \in stack'[u][i].seen
        PROVE  d.node \in Created' /\ (InProgress(d.node)' => d.node = stack'[u][i].node)
    <3>1. PICK j \in Frames(u) : stack'[u][i] = stack[u][j]
      BY <1>7, <2>2
    <3>2. d.node \in Created /\ (InProgress(d.node) => d.node = stack[u][j].node)
      BY <2>2, <3>1 DEF IInv, OwnUnpublished
    <3> QED BY <1>1, <1>9, <3>1, <3>2
  <2> QED BY <1>1, <2>1, <2>2 DEF OwnUnpublished, InProgress, Frames
<1>11. OwnReadsCurrent'
  <2>1. ASSUME NEW u \in Task, NEW i \in 1..Len(stack'[u]), stack'[u][i].phase = "computing"
        PROVE  \A d \in stack'[u][i].seen :
                  d.node = stack'[u][i].node /\ d.cell \in Plain =>
                      /\ d.cell \in Awaits(input'[stack'[u][i].node])
                      /\ d.version = version'[d.cell] \/ stack'[u][i].node \in raced'
    <3>1. CASE stack'[u][i].seen = {}
      BY <3>1
    <3>2. CASE \E j \in Frames(u) : stack'[u][i] = stack[u][j]
      <4>1. PICK j \in Frames(u) : stack'[u][i] = stack[u][j]
        BY <3>2
      <4>2. /\ OwnCurrent(stack[u][j].node, stack[u][j].seen)
            /\ stack[u][j].node \in Created
        BY <2>1, <4>1 DEF IInv, OwnReadsCurrent, FramesShaped
      <4> QED BY <1>1, <4>1, <4>2 DEF OwnCurrent
    <3> QED BY <1>7, <3>1, <3>2
  <2>2. \A n \in Created : input[n] \in Key /\ graph.state[n] = "Consistent" =>
            OwnCurrent(n, value[n])'
    BY <1>1 DEF IInv, OwnReadsCurrent, OwnCurrent, Served
  <2> QED BY <1>1, <1>4, <2>1, <2>2 DEF OwnReadsCurrent, OwnCurrent, Frames, Served
<1> QED BY <1>2, <1>3, <1>5, <1>6, <1>8, <1>10, <1>11

\* A call is pushed on the stack of t.
Pushed(t, f) ==
    /\ stack' \in [Task -> Seq(Frame)]
    /\ \A u \in Task \ {t} : stack'[u] = stack[u]
    /\ 1 \in 1..Len(stack'[t]) /\ stack'[t][1] = f
    /\ \A i \in 1..Len(stack'[t]) :
          i # 1 => i - 1 \in Frames(t) /\ stack'[t][i] = stack[t][i - 1]
    /\ \A i \in Frames(t) : i + 1 \in 1..Len(stack'[t]) /\ stack'[t][i + 1] = stack[t][i]

\* A call in front of the frames of t pushes them one place further.
LEMMA PushEffect ==
    ASSUME Typed, NEW t \in Task, NEW f \in Frame,
           stack' = [stack EXCEPT ![t] = <<f>> \o stack[t]]
    PROVE  Pushed(t, f)
<1> DEFINE s == <<f>> \o stack[t]
<1>1. stack \in [Task -> Seq(Frame)] /\ stack[t] \in Seq(Frame)
  BY DEF Typed, TypeOK
<1>2. /\ s \in Seq(Frame) /\ Len(s) = Len(stack[t]) + 1 /\ s[1] = f
      /\ Len(stack[t]) \in Nat
      /\ \A i \in 2..Len(s) : s[i] = stack[t][i - 1]
  BY <1>1
<1> HIDE DEF s
<1>3. /\ stack' \in [Task -> Seq(Frame)] /\ stack'[t] = s
      /\ \A u \in Task \ {t} : stack'[u] = stack[u]
  BY <1>1, <1>2 DEF s
<1>4. 1 \in 1..Len(s)
  BY <1>2
<1>5. ASSUME NEW i \in 1..Len(s), i # 1
      PROVE  i - 1 \in Frames(t) /\ s[i] = stack[t][i - 1]
  BY <1>2, <1>5 DEF Frames
<1>6. ASSUME NEW i \in Frames(t)
      PROVE  i + 1 \in 1..Len(s) /\ s[i + 1] = stack[t][i]
  <2>1. i + 1 \in 2..Len(s) /\ (i + 1) - 1 = i
    BY <1>2 DEF Frames
  <2> DEFINE l == i + 1
  <2>2. l \in 2..Len(s) /\ l - 1 = i
    BY <2>1
  <2> HIDE DEF l
  <2>3. s[l] = stack[t][i] /\ l \in 1..Len(s)
    BY <1>2, <2>2
  <2> QED BY <2>3 DEF l
<1> QED BY <1>2, <1>3, <1>4, <1>5, <1>6 DEF Pushed

\* A task whose innermost call is not waiting is in no queue.
LEMMA NotQueued ==
    ASSUME IInv, NEW t \in Task,
           \/ stack[t] = <<>>
           \/ stack[t][1].phase = "computing"
           \/ t \in owners[stack[t][1].key],
           NEW j \in Key, NEW i \in 1..Len(waiting[j])
    PROVE  waiting[j][i] # t /\ waiting[j][i] \in Task
<1>1. waiting[j] \in Seq(Task)
  BY DEF IInv, Typed, TypeOK
<1>2. QueuedFor(j)
  BY DEF IInv, LocksHeld
<1> QED BY <1>1, <1>2 DEF QueuedFor

\* The lock is free, or the call queues for it behind tasks that do not await it.
LEMMA RequestLocks ==
    ASSUME IInv, NEW t \in Task, NEW k \in Key, t \notin owners[k],
           stack[t] # <<>> => stack[t][1].phase = "computing",
           NEW f, f.phase = "locking", f.key = k,
           Pushed(t, f), Lock!Request(t, k)
    PROVE  /\ owners' \in [Key -> SUBSET Task] /\ waiting' \in [Key -> Seq(Task)]
           /\ \A j \in Key : owners[j] \subseteq owners'[j]
           /\ LocksHeld'
<1>1. /\ owners \in [Key -> SUBSET Task] /\ waiting \in [Key -> Seq(Task)]
      /\ stack \in [Task -> Seq(Frame)]
  BY DEF IInv, Typed, TypeOK
<1>2. \A u \in Task \ {t} : stack'[u] = stack[u]
  BY DEF Pushed
<1>3. ASSUME NEW j \in Key
      PROVE  /\ \A u, v \in owners[j] : u = v
             /\ \A u \in owners[j] : u \in Task /\ \E i \in Frames(u) : stack[u][i].key = j
             /\ QueuedFor(j)
  BY <1>1 DEF IInv, LocksHeld
<1>4. ASSUME NEW j \in Key, NEW u \in owners[j]
      PROVE  \E i \in 1..Len(stack'[u]) : stack'[u][i].key = j
  <2>1. PICK i \in Frames(u) : stack[u][i].key = j
    BY <1>3
  <2>2. CASE u # t
    BY <1>2, <1>3, <2>1, <2>2 DEF Frames
  <2>3. CASE u = t
    <3>1. i + 1 \in 1..Len(stack'[t]) /\ stack'[t][i + 1] = stack[t][i]
      BY <2>1, <2>3 DEF Pushed
    <3> QED BY <2>1, <2>3, <3>1
  <2> QED BY <2>2, <2>3
<1>5. ASSUME NEW j \in Key, NEW i \in 1..Len(waiting[j])
      PROVE  stack'[waiting[j][i]] = stack[waiting[j][i]] /\ waiting[j][i] # t
  BY <1>2, NotQueued
<1>6. /\ stack'[t] # <<>> /\ stack'[t][1].phase = "locking" /\ stack'[t][1].key = k
      /\ 1 \in 1..Len(stack'[t])
  BY DEF Pushed
<1>7. CASE owners[k] = {}
  <2>1. owners' = [owners EXCEPT ![k] = {t}] /\ waiting' = waiting
    BY <1>7 DEF Lock!Request, Lock!RequestFree, Lock!RequestHeld
  <2>2. /\ owners' \in [Key -> SUBSET Task] /\ owners'[k] = {t}
        /\ \A j \in Key \ {k} : owners'[j] = owners[j]
    BY <1>1, <2>1
  <2>3. ASSUME NEW j \in Key
        PROVE  /\ \A u, v \in owners'[j] : u = v
               /\ \A u \in owners'[j] : \E i \in 1..Len(stack'[u]) : stack'[u][i].key = j
               /\ QueuedFor(j)'
    <3>1. QueuedFor(j)'
      BY <1>3, <1>5, <2>1, <2>2 DEF QueuedFor
    <3>2. CASE j = k
      BY <1>6, <2>2, <3>1, <3>2
    <3>3. CASE j # k
      BY <1>3, <1>4, <2>2, <3>1, <3>3
    <3> QED BY <3>2, <3>3
  <2>4. LocksHeld'
    BY <2>3 DEF LocksHeld, Frames
  <2>5. \A j \in Key : owners[j] \subseteq owners'[j]
    BY <1>7, <2>2
  <2> QED BY <1>1, <2>1, <2>2, <2>4, <2>5
<1>8. CASE owners[k] # {}
  <2> DEFINE w == Append(waiting[k], t)
  <2>1. owners' = owners /\ waiting' = [waiting EXCEPT ![k] = w]
    BY <1>8 DEF Lock!Request, Lock!RequestFree, Lock!RequestHeld
  <2>2. /\ w \in Seq(Task) /\ Len(w) = Len(waiting[k]) + 1 /\ w[Len(w)] = t
        /\ Len(waiting[k]) \in Nat
        /\ \A i \in 1..Len(waiting[k]) : w[i] = waiting[k][i]
    BY <1>1
  <2> HIDE DEF w
  <2>3. /\ waiting' \in [Key -> Seq(Task)] /\ waiting'[k] = w
        /\ \A j \in Key \ {k} : waiting'[j] = waiting[j]
    BY <1>1, <2>1, <2>2
  <2>4. QueuedFor(k)'
    <3>1. ASSUME NEW i \in 1..Len(w)
          PROVE  /\ stack'[w[i]] # <<>>
                 /\ stack'[w[i]][1].phase = "locking" /\ stack'[w[i]][1].key = k
                 /\ w[i] \notin owners[k]
      <4>1. CASE i = Len(w)
        BY <1>6, <2>2, <4>1
      <4>2. CASE i # Len(w)
        <5>1. i \in 1..Len(waiting[k]) /\ w[i] = waiting[k][i]
          BY <2>2, <4>2
        <5>2. /\ stack[waiting[k][i]] # <<>>
              /\ stack[waiting[k][i]][1].phase = "locking"
              /\ stack[waiting[k][i]][1].key = k
              /\ waiting[k][i] \notin owners[k]
          BY <1>3, <5>1 DEF QueuedFor
        <5>3. stack'[waiting[k][i]] = stack[waiting[k][i]]
          BY <1>5, <5>1
        <5> QED BY <5>1, <5>2, <5>3
      <4> QED BY <4>1, <4>2
    <3>2. ASSUME NEW i \in 1..Len(w), NEW l \in 1..Len(w), w[i] = w[l]
          PROVE  i = l
      <4>1. ASSUME NEW x \in 1..Len(w), x # Len(w)
            PROVE  x \in 1..Len(waiting[k]) /\ w[x] = waiting[k][x] /\ w[x] # t
        <5>1. x \in 1..Len(waiting[k]) /\ w[x] = waiting[k][x]
          BY <2>2, <4>1
        <5> QED BY <1>5, <5>1
      <4>2. \A x, y \in 1..Len(waiting[k]) : waiting[k][x] = waiting[k][y] => x = y
        BY <1>3 DEF QueuedFor
      <4>3. CASE i = Len(w) \/ l = Len(w)
        BY <2>2, <3>2, <4>1, <4>3
      <4>4. CASE i # Len(w) /\ l # Len(w)
        BY <3>2, <4>1, <4>2, <4>4
      <4> QED BY <4>3, <4>4
    <3> QED BY <2>1, <2>3, <3>1, <3>2 DEF QueuedFor
  <2>5. ASSUME NEW j \in Key \ {k}
        PROVE  QueuedFor(j)'
    BY <1>3, <1>5, <2>1, <2>3 DEF QueuedFor
  <2>6. ASSUME NEW j \in Key
        PROVE  /\ \A u, v \in owners'[j] : u = v
               /\ \A u \in owners'[j] : \E i \in 1..Len(stack'[u]) : stack'[u][i].key = j
               /\ QueuedFor(j)'
    BY <1>3, <1>4, <2>1, <2>4, <2>5
  <2>7. LocksHeld'
    BY <2>6 DEF LocksHeld, Frames
  <2> QED BY <1>1, <2>1, <2>3, <2>7
<1> QED BY <1>7, <1>8

\* A lookup drops an entry that is not served, and nothing else.
LEMMA CleanedEffect ==
    ASSUME IInv, NEW K
    PROVE  /\ Cleaned(K) \in [Key -> Node \union {NoNode}]
           /\ \A k \in Key :
                 /\ Cleaned(K)[k] \in {storage[k], NoNode}
                 /\ storage[k] # NoNode /\ Served(storage[k]) => Cleaned(K)[k] = storage[k]
<1>1. storage \in [Key -> Node \union {NoNode}]
  BY DEF IInv, Typed, TypeOK
<1> QED BY <1>1 DEF Cleaned, Get, Served

\* A call finds nothing cached and asks for the lock of its key.
LEMMA MissIInv ==
    ASSUME IInv, NEW t \in Task, NEW k \in Key,
           stack[t] # <<>> => /\ stack[t][1].phase = "computing"
                              /\ k \in Awaits(stack[t][1].key),
           storage' = Cleaned({k}), Lock!Request(t, k),
           stack' = [stack EXCEPT ![t] = <<NewCall(k)>> \o stack[t]],
           \/ began' = began
           \/ stack[t] = <<>> /\ began' = [began EXCEPT ![t] = version] /\ result[t] = {},
           UNCHANGED <<graph, result, input, value, snapshot, version, raced>>
    PROVE  IInv'
<1>a. PICK f : f = NewCall(k)
  OBVIOUS
<1>1. f \in Frame /\ f.key = k /\ f.phase = "locking" /\ f.node = NoNode /\ f.seen = {}
  BY <1>a DEF NewCall, Frame, Phase
<1>2. Pushed(t, f)
  BY <1>1, <1>a, PushEffect DEF IInv
<1>3. t \notin owners[k]
  <2>1. ASSUME t \in owners[k] PROVE FALSE
    <3>1. PICK i \in Frames(t) : stack[t][i].key = k
      BY <2>1 DEF IInv, LocksHeld
    <3>2. stack[t] # <<>>
      BY <3>1 DEF Frames, IInv, Typed, TypeOK
    <3> QED BY <3>1, <3>2, NewKey DEF IInv
  <2> QED BY <2>1
<1>4. /\ owners' \in [Key -> SUBSET Task] /\ waiting' \in [Key -> Seq(Task)]
      /\ \A j \in Key : owners[j] \subseteq owners'[j]
      /\ LocksHeld'
  BY <1>1, <1>2, <1>3, RequestLocks
<1>5. ASSUME NEW u \in Task, NEW i \in 1..Len(stack'[u])
      PROVE  \/ u = t /\ i = 1 /\ stack'[u][i] = f
             \/ /\ u = t /\ i # 1 /\ i - 1 \in Frames(u)
                /\ stack'[u][i] = stack[u][i - 1]
                /\ stack[u][i - 1].phase = "computing"
             \/ /\ u # t /\ i \in Frames(u) /\ stack'[u][i] = stack[u][i]
                /\ i # 1 => stack[u][i].phase = "computing"
  <2>1. CASE u # t
    <3>1. stack'[u] = stack[u]
      BY <1>2, <2>1 DEF Pushed
    <3>2. i \in Frames(u)
      BY <3>1 DEF Frames
    <3> QED BY <2>1, <3>1, <3>2 DEF IInv, FramesShaped
  <2>2. CASE u = t /\ i = 1
    BY <1>2, <2>2 DEF Pushed
  <2>3. CASE u = t /\ i # 1
    <3>1. i - 1 \in Frames(t) /\ stack'[t][i] = stack[t][i - 1]
      BY <1>2, <2>3 DEF Pushed
    <3>2. stack[t][i - 1].phase = "computing"
      <4>1. CASE i - 1 = 1
        <5>1. stack[t] # <<>>
          BY <3>1 DEF Frames, IInv, Typed, TypeOK
        <5> QED BY <4>1, <5>1
      <4>2. CASE i - 1 # 1
        BY <3>1, <4>2 DEF IInv, FramesShaped
      <4> QED BY <4>1, <4>2
    <3> QED BY <2>3, <3>1, <3>2
  <2> QED BY <2>1, <2>2, <2>3
<1>6. Opening
  <2>1. ASSUME NEW u \in Task, NEW i \in 1..Len(stack'[u])
        PROVE  \/ /\ stack'[u][i].seen = {}
                  /\ stack'[u][i].phase = "computing" => stack'[u][i].node \notin Created
               \/ \E j \in Frames(u) : stack'[u][i] = stack[u][j]
    BY <1>1, <1>5
  <2>2. Created' = Created /\ Created \subseteq Node
    BY DEF Created, IInv, Typed, TypeOK
  <2>3. \A j \in Key : /\ storage'[j] \in {storage[j], NoNode}
                       /\ storage[j] # NoNode /\ Served(storage[j]) => storage'[j] = storage[j]
    BY CleanedEffect
  <2> QED BY <2>1, <2>2, <2>3 DEF Opening
<1>7. /\ GraphInv(graph') /\ Untouched' /\ Registered' /\ ServedIsRegistered'
      /\ CellsCurrent' /\ ValuesSupported' /\ OwnUnpublished' /\ OwnReadsCurrent'
  BY <1>6, OpeningInv
<1>8. ASSUME NEW u \in Task, NEW i \in 1..Len(stack'[u]), stack'[u][i].phase = "computing"
      PROVE  \E j \in Frames(u) : stack'[u][i] = stack[u][j] /\ stack[u][j].key \in Key
  <2>1. \E j \in Frames(u) : stack'[u][i] = stack[u][j]
    BY <1>1, <1>5, <1>8
  <2>2. PICK j \in Frames(u) : stack'[u][i] = stack[u][j]
    BY <2>1
  <2>3. stack[u][j].key \in Key
    BY FrameTypes DEF IInv
  <2> QED BY <2>2, <2>3
<1>9. FramesShaped'
  <2>1. ASSUME NEW u \in Task, NEW i \in 1..Len(stack'[u])
        PROVE  i # 1 => stack'[u][i].phase = "computing"
    BY <1>5
  <2>2. ASSUME NEW u \in Task, NEW i \in 1..Len(stack'[u]), stack'[u][i].phase = "computing"
        PROVE  /\ stack'[u][i].node \in Created /\ input[stack'[u][i].node] = stack'[u][i].key
               /\ u \in owners'[stack'[u][i].key]
    <3>1. PICK j \in Frames(u) : stack'[u][i] = stack[u][j] /\ stack[u][j].key \in Key
      BY <1>8, <2>2
    <3>2. /\ stack[u][j].node \in Created /\ input[stack[u][j].node] = stack[u][j].key
          /\ u \in owners[stack[u][j].key]
      BY <2>2, <3>1 DEF IInv, FramesShaped
    <3> QED BY <1>4, <3>1, <3>2
  <2>3. ASSUME NEW u \in Task, NEW i \in 1..Len(stack'[u]), stack'[u][i].phase = "locking"
        PROVE  stack'[u][i].node = NoNode /\ stack'[u][i].seen = {}
    <3>1. \/ stack'[u][i] = f
          \/ \E j \in Frames(u) : stack'[u][i] = stack[u][j]
      BY <1>5
    <3>2. CASE stack'[u][i] = f
      BY <1>1, <3>2
    <3>3. CASE \E j \in Frames(u) : stack'[u][i] = stack[u][j]
      BY <2>3, <3>3 DEF IInv, FramesShaped
    <3> QED BY <3>1, <3>2, <3>3
  <2> QED BY <2>1, <2>2, <2>3 DEF FramesShaped, Frames, Created
<1>10. Chained'
  <2>1. ASSUME NEW u \in Task, NEW i \in 1..Len(stack'[u]), NEW l \in 1..Len(stack'[u]), l = i + 1
        PROVE  stack'[u][i].key \in Awaits(stack'[u][l].key)
    <3>1. Len(stack'[u]) \in Nat
      BY <1>2 DEF Pushed
    <3>2. CASE u # t
      <4>1. /\ i \in Frames(u) /\ stack'[u][i] = stack[u][i]
            /\ l \in Frames(u) /\ stack'[u][l] = stack[u][l]
        BY <1>5, <3>2
      <4>2. stack[u][i].key \in Awaits(stack[u][l].key)
        BY <2>1, <4>1 DEF IInv, Chained
      <4> QED BY <4>1, <4>2
    <3>3. CASE u = t /\ i = 1
      <4>1. /\ stack'[t][1] = f /\ stack'[t][2] = stack[t][1] /\ 1 \in Frames(t) /\ l = 2
        BY <1>2, <2>1, <3>3 DEF Pushed
      <4>2. stack[t] # <<>>
        BY <4>1 DEF Frames, IInv, Typed, TypeOK
      <4> QED BY <1>1, <3>3, <4>1, <4>2
    <3>4. CASE u = t /\ i # 1
      <4>1. /\ i - 1 \in Frames(t) /\ stack'[t][i] = stack[t][i - 1]
            /\ l - 1 \in Frames(t) /\ stack'[t][l] = stack[t][l - 1]
        BY <1>2, <2>1, <3>1, <3>4 DEF Pushed
      <4>2. l - 1 = (i - 1) + 1
        BY <2>1
      <4>3. stack[t][i - 1].key \in Awaits(stack[t][l - 1].key)
        BY <4>1, <4>2 DEF IInv, Chained
      <4> QED BY <3>4, <4>1, <4>3
    <3> QED BY <3>2, <3>3, <3>4
  <2> QED BY <2>1 DEF Chained, Frames
<1>11. ComputedAlone'
  <2>1. ASSUME NEW u \in Task, NEW i \in 1..Len(stack'[u]), stack'[u][i].phase = "computing",
               NEW n \in Created, input[n] = stack'[u][i].key
        PROVE  ~Served(n)
    BY <1>8, <2>1 DEF IInv, ComputedAlone
  <2> QED BY <2>1 DEF ComputedAlone, Frames, Created, Served
<1>12. /\ began \in [Task -> [Cell -> 0..MaxVersion]] /\ version \in [Cell -> 0..MaxVersion]
       /\ began' \in [Task -> [Cell -> 0..MaxVersion]]
       /\ \A u \in Task : \/ began'[u] = began[u]
                          \/ u = t /\ began'[u] = version /\ stack[t] = <<>> /\ result[t] = {}
  BY DEF IInv, Typed, TypeOK
<1>13. SeenSinceCall'
  <2>1. ASSUME NEW u \in Task, NEW c \in Cell
        PROVE  began'[u][c] <= version[c]
    <3>1. began[u][c] <= version[c] /\ version[c] \in Nat
      BY <1>12, CellAssumption DEF IInv, SeenSinceCall
    <3> QED BY <1>12, <3>1
  <2>2. ASSUME NEW u \in Task, NEW i \in 1..Len(stack'[u]), NEW d \in stack'[u][i].seen,
               d.cell \in Tracked
        PROVE  d.version >= began'[u][d.cell]
    <3>1. \E j \in Frames(u) : stack'[u][i] = stack[u][j]
      BY <1>1, <1>5, <2>2
    <3>2. PICK j \in Frames(u) : stack'[u][i] = stack[u][j]
      BY <3>1
    <3>3. stack[u] # <<>>
      BY <3>2 DEF Frames, IInv, Typed, TypeOK
    <3>4. began'[u] = began[u]
      BY <1>12, <3>3
    <3> QED BY <2>2, <3>2, <3>4 DEF IInv, SeenSinceCall
  <2> QED BY <2>1, <2>2 DEF SeenSinceCall, Frames
<1>14. ReadYourWrites'
  <2>1. ASSUME NEW u \in Task, NEW x \in result[u], NEW d \in x, d.cell \in Tracked
        PROVE  d.version >= began'[u][d.cell]
    <3>1. began'[u] = began[u]
      BY <1>12
    <3> QED BY <2>1, <3>1 DEF IInv, ReadYourWrites
  <2> QED BY <2>1 DEF ReadYourWrites
<1>15. Typed'
  <2>1. Typed
    BY DEF IInv
  <2>2. stack' \in [Task -> Seq(Frame)]
    BY <1>2 DEF Pushed
  <2>3. storage' \in [Key -> Node \union {NoNode}]
    BY CleanedEffect
  <2> QED BY <1>4, <1>12, <2>1, <2>2, <2>3 DEF Typed, TypeOK, Created
<1> QED BY <1>4, <1>7, <1>9, <1>10, <1>11, <1>13, <1>14, <1>15 DEF IInv

\* The next Computed is one that was not constructed yet.
LEMMA FreshNode ==
    ASSUME Typed, NEW i \in Key \union Tracked, Construct(i)
    PROVE  /\ Fresh \in Node \ Created
           /\ Created' = Created \union {Fresh}
           /\ input'[Fresh] = i
           /\ \A n \in Created : input'[n] = input[n]
           /\ input' \in [Created' -> Key \union Tracked]
<1>1. Created \subseteq Node /\ input \in [Created -> Key \union Tracked]
  BY DEF Typed, TypeOK
<1>2. \E n \in Node : n \notin Created
  BY <1>1 DEF Construct
<1>3. Fresh \in Node \ Created
  BY <1>2 DEF Fresh
<1>a. PICK n : n = Fresh
  OBVIOUS
<1>b. PICK C : C = Created
  OBVIOUS
<1>4. input' = [m \in C \union {n} |-> IF m = n THEN i ELSE input[m]]
  BY <1>a, <1>b DEF Construct
<1>5. Created' = C \union {n}
  BY <1>4 DEF Created
<1>6. input' \in [C \union {n} -> Key \union Tracked]
  BY <1>1, <1>4, <1>b
<1>7. input'[n] = i /\ \A m \in C : input'[m] = input[m]
  BY <1>3, <1>4, <1>a, <1>b
<1> QED BY <1>3, <1>5, <1>6, <1>7, <1>a, <1>b

\* A call that has the lock, finds nothing cached and begins to compute.
LEMMA ComputeIInv ==
    ASSUME IInv, NEW t \in Task, Resume(t), NEW k, k = stack[t][1].key, Get(k) = NoNode
    PROVE  IInv'
<1>a. PICK n : n = Fresh
  OBVIOUS
<1>b. PICK f : f = [stack[t][1] EXCEPT !.phase = "computing", !.node = n]
  OBVIOUS
<1>0. /\ stack[t] \in Seq(Frame) /\ stack[t] # <<>> /\ Head(stack[t]) = stack[t][1]
      /\ stack[t][1].phase = "locking" /\ 1 \in Frames(t) /\ stack[t][1] \in Frame
      /\ k \in Key /\ stack[t][1].seen = {} /\ t \in owners[k]
  <2>1. stack[t] \in Seq(Frame)
    BY DEF IInv, Typed, TypeOK
  <2>2. stack[t] # <<>>
    BY DEF Resume
  <2>3. Head(stack[t]) = stack[t][1] /\ 1 \in Frames(t)
    BY <2>1, <2>2 DEF Frames
  <2>4. stack[t][1] \in Frame /\ k \in Key
    BY <2>3, FrameTypes DEF IInv
  <2>5. stack[t][1].phase = "locking" /\ t \in owners[k]
    BY <2>3 DEF Resume
  <2> QED BY <2>1, <2>2, <2>3, <2>4, <2>5 DEF IInv, FramesShaped
<1>1. /\ Construct(k) /\ storage' = Cleaned({k})
      /\ stack' = [stack EXCEPT ![t] = <<f>> \o Tail(stack[t])]
      /\ graph' = graph /\ result' = result /\ owners' = owners /\ waiting' = waiting
      /\ value' = value /\ snapshot' = snapshot /\ version' = version
      /\ began' = began /\ raced' = raced
  BY <1>0, <1>a, <1>b DEF Resume, Recheck, locks, history
<1>2. /\ n \in Node \ Created /\ Created' = Created \union {n} /\ input'[n] = k
      /\ \A m \in Created : input'[m] = input[m]
      /\ input' \in [Created' -> Key \union Tracked]
  BY <1>0, <1>1, <1>a, FreshNode DEF IInv
<1>3. /\ f \in Frame /\ f.key = k /\ f.phase = "computing" /\ f.node = n /\ f.seen = {}
  BY <1>0, <1>2, <1>b DEF Frame, Phase
<1>4. /\ stack' \in [Task -> Seq(Frame)]
      /\ \A u \in Task \ {t} : stack'[u] = stack[u]
      /\ Len(stack'[t]) = Len(stack[t]) /\ stack'[t][1] = f
      /\ \A i \in 2..Len(stack[t]) : stack'[t][i] = stack[t][i]
  <2> DEFINE s == <<f>> \o Tail(stack[t])
  <2>1. /\ s \in Seq(Frame) /\ Len(s) = Len(stack[t]) /\ s[1] = f
        /\ \A i \in 2..Len(stack[t]) : s[i] = stack[t][i]
    BY <1>0, <1>3
  <2> HIDE DEF s
  <2>2. stack \in [Task -> Seq(Frame)]
    BY DEF IInv, Typed, TypeOK
  <2>3. stack' \in [Task -> Seq(Frame)] /\ stack'[t] = s /\ \A u \in Task \ {t} : stack'[u] = stack[u]
    BY <1>1, <2>1, <2>2 DEF s
  <2> QED BY <2>1, <2>3
<1>5. ASSUME NEW u \in Task, NEW i \in 1..Len(stack'[u])
      PROVE  /\ i \in Frames(u) /\ stack'[u][i].key = stack[u][i].key
             /\ \/ u = t /\ i = 1 /\ stack'[u][i] = f
                \/ (u # t \/ i # 1) /\ stack'[u][i] = stack[u][i]
  <2>1. CASE u # t
    BY <1>4, <2>1 DEF Frames
  <2>2. CASE u = t /\ i = 1
    BY <1>0, <1>3, <1>4, <2>2 DEF Frames
  <2>3. CASE u = t /\ i # 1
    <3>1. i \in 2..Len(stack[t])
      BY <1>0, <1>4, <2>3
    <3> QED BY <1>4, <2>3, <3>1 DEF Frames
  <2> QED BY <2>1, <2>2, <2>3
<1>6. Opening
  <2>1. ASSUME NEW u \in Task, NEW i \in 1..Len(stack'[u])
        PROVE  \/ /\ stack'[u][i].seen = {}
                  /\ stack'[u][i].phase = "computing" => stack'[u][i].node \notin Created
               \/ \E j \in Frames(u) : stack'[u][i] = stack[u][j]
    BY <1>2, <1>3, <1>5
  <2>2. \A j \in Key : /\ storage'[j] \in {storage[j], NoNode}
                       /\ storage[j] # NoNode /\ Served(storage[j]) => storage'[j] = storage[j]
    BY <1>1, CleanedEffect
  <2>3. Created \subseteq Node
    BY DEF IInv, Typed, TypeOK
  <2>4. UNCHANGED <<graph, value, snapshot, version, raced>>
    BY <1>1
  <2>5. Created' \subseteq Node /\ Created \subseteq Created'
    BY <1>2, <2>3
  <2>6. \A m \in Created : input'[m] = input[m]
    BY <1>2
  <2>7. \A m \in Created' \ Created : input'[m] \in Key
    <3>1. \A m \in Created' \ Created : m = n
      BY <1>2
    <3> QED BY <1>0, <1>2, <3>1
  <2> QED BY <2>1, <2>2, <2>4, <2>5, <2>6, <2>7 DEF Opening
<1>7. /\ GraphInv(graph') /\ Untouched' /\ Registered' /\ ServedIsRegistered'
      /\ CellsCurrent' /\ ValuesSupported' /\ OwnUnpublished' /\ OwnReadsCurrent'
  BY <1>6, OpeningInv
<1>8. FramesShaped'
  <2>1. ASSUME NEW u \in Task, NEW i \in 1..Len(stack'[u])
        PROVE  /\ i # 1 => stack'[u][i].phase = "computing"
               /\ stack'[u][i].phase = "computing" =>
                     /\ stack'[u][i].node \in Created'
                     /\ input'[stack'[u][i].node] = stack'[u][i].key
                     /\ u \in owners[stack'[u][i].key]
               /\ stack'[u][i].phase = "locking" =>
                     stack'[u][i].node = NoNode /\ stack'[u][i].seen = {}
    <3>1. CASE u = t /\ i = 1 /\ stack'[u][i] = f
      BY <1>0, <1>2, <1>3, <3>1
    <3>2. CASE stack'[u][i] = stack[u][i]
      BY <1>2, <1>5, <3>2 DEF IInv, FramesShaped
    <3> QED BY <1>5, <3>1, <3>2
  <2>2. owners' = owners
    BY <1>1
  <2> QED BY <2>1, <2>2 DEF FramesShaped, Frames
<1>9. Chained'
  <2>1. ASSUME NEW u \in Task, NEW i \in 1..Len(stack'[u]), NEW l \in 1..Len(stack'[u]), l = i + 1
        PROVE  stack'[u][i].key \in Awaits(stack'[u][l].key)
    <3>1. /\ i \in Frames(u) /\ stack'[u][i].key = stack[u][i].key
          /\ l \in Frames(u) /\ stack'[u][l].key = stack[u][l].key
      BY <1>5
    <3>2. stack[u][i].key \in Awaits(stack[u][l].key)
      BY <2>1, <3>1 DEF IInv, Chained
    <3> QED BY <3>1, <3>2
  <2> QED BY <2>1 DEF Chained, Frames
<1>10. LocksHeld'
  <2>1. ASSUME NEW j \in Key
        PROVE  /\ \A u, v \in owners[j] : u = v
               /\ \A u \in owners[j] : \E i \in 1..Len(stack'[u]) : stack'[u][i].key = j
               /\ QueuedFor(j)'
    <3>1. /\ \A u, v \in owners[j] : u = v
          /\ \A u \in owners[j] : u \in Task /\ \E i \in Frames(u) : stack[u][i].key = j
          /\ QueuedFor(j)
      BY DEF IInv, LocksHeld, Typed, TypeOK
    <3>2. ASSUME NEW u \in owners[j]
          PROVE  \E i \in 1..Len(stack'[u]) : stack'[u][i].key = j
      <4>1. PICK i \in Frames(u) : stack[u][i].key = j
        BY <3>1
      <4>2. i \in 1..Len(stack'[u])
        BY <1>4, <3>1, <4>1 DEF Frames
      <4>3. stack'[u][i].key = j
        BY <1>5, <3>1, <4>1, <4>2
      <4> QED BY <4>2, <4>3
    <3>3. ASSUME NEW i \in 1..Len(waiting[j])
          PROVE  stack'[waiting[j][i]] = stack[waiting[j][i]]
      <4>1. waiting[j][i] # t /\ waiting[j][i] \in Task
        BY <1>0, NotQueued
      <4> QED BY <1>4, <4>1
    <3>4. waiting' = waiting /\ owners' = owners
      BY <1>1
    <3>5. ASSUME NEW i \in 1..Len(waiting[j])
          PROVE  /\ stack'[waiting[j][i]] # <<>>
                 /\ stack'[waiting[j][i]][1].phase = "locking"
                 /\ stack'[waiting[j][i]][1].key = j
                 /\ waiting[j][i] \notin owners[j]
      BY <3>1, <3>3, <3>5 DEF QueuedFor
    <3>6. \A g, h \in 1..Len(waiting[j]) : waiting[j][g] = waiting[j][h] => g = h
      BY <3>1 DEF QueuedFor
    <3>7. QueuedFor(j)'
      BY <3>4, <3>5, <3>6 DEF QueuedFor
    <3> QED BY <3>1, <3>2, <3>7
  <2> QED BY <1>1, <2>1 DEF LocksHeld, Frames
<1>11. ComputedAlone'
  <2>1. graph.state[n] = "Computing"
    BY <1>2 DEF IInv, Untouched
  <2>2. \A m \in Created : input[m] = k => ~Served(m)
    <3>1. ASSUME NEW m \in Created, input[m] = k, Served(m)
          PROVE  FALSE
      <4>1. storage[k] = m /\ m # NoNode
        <5>1. m \in Node
          BY DEF IInv, Typed, TypeOK
        <5> QED BY <1>0, <3>1, <5>1, NodeAssumption DEF IInv, ServedIsRegistered
      <4> QED BY <3>1, <4>1 DEF Get, Served
    <3> QED BY <3>1
  <2>3. ASSUME NEW u \in Task, NEW i \in 1..Len(stack'[u]), stack'[u][i].phase = "computing",
               NEW m \in Created, input[m] = stack'[u][i].key
        PROVE  ~Served(m)
    <3>1. CASE u = t /\ i = 1 /\ stack'[u][i] = f
      BY <1>3, <2>2, <2>3, <3>1
    <3>2. CASE stack'[u][i] = stack[u][i]
      BY <1>5, <2>3, <3>2 DEF IInv, ComputedAlone
    <3> QED BY <1>5, <3>1, <3>2
  <2> QED BY <1>1, <1>2, <2>1, <2>3 DEF ComputedAlone, Frames, Served
<1>12. SeenSinceCall'
  <2>1. ASSUME NEW u \in Task, NEW i \in 1..Len(stack'[u]), NEW d \in stack'[u][i].seen,
               d.cell \in Tracked
        PROVE  d.version >= began[u][d.cell]
    <3>1. i \in Frames(u) /\ stack'[u][i] = stack[u][i]
      BY <1>3, <1>5, <2>1
    <3> QED BY <2>1, <3>1 DEF IInv, SeenSinceCall
  <2> QED BY <1>1, <2>1 DEF IInv, SeenSinceCall, Frames
<1>13. ReadYourWrites'
  BY <1>1 DEF IInv, ReadYourWrites
<1>14. Typed'
  <2>1. Typed
    BY DEF IInv
  <2>2. storage' \in [Key -> Node \union {NoNode}]
    BY <1>1, CleanedEffect
  <2>3. Created' \subseteq Node
    BY <1>2, <2>1 DEF Typed, TypeOK
  <2>4. \A m \in Created' : input'[m] \in Key \union Tracked
    BY <1>2
  <2> QED BY <1>1, <1>2, <1>4, <2>1, <2>2, <2>3, <2>4 DEF Typed, TypeOK
<1> QED BY <1>7, <1>8, <1>9, <1>10, <1>11, <1>12, <1>13, <1>14 DEF IInv

-----------------------------------------------------------------------------
(***************************************************************************)
(* The steps that change a cell or withdraw what is served.                *)
(***************************************************************************)

\* The types of what such a step changes.
WithdrawingTyped ==
    /\ GraphInv(graph')
    /\ input' \in [Created' -> Key \union Tracked]
    /\ value' \in [Node -> SUBSET Datum]
    /\ storage' \in [Key -> Node \union {NoNode}]
    /\ snapshot' \in [Tracked -> Node]
    /\ version' \in [Cell -> 0..MaxVersion]
    /\ raced' \subseteq Node
    /\ UNCHANGED <<stack, owners, waiting, result, began>>

\* No call moves: some served nodes are withdrawn, entries of the registry that are not
\* served are dropped, versions grow, a Computed of a MutableState may be constructed.
Withdrawing ==
    /\ WithdrawingTyped
    /\ Created \subseteq Created' /\ Created' \subseteq Node
    /\ \A n \in Created :
          /\ input'[n] = input[n] /\ value'[n] = value[n]
          /\ \/ graph'.state[n] = graph.state[n]
             \/ graph.state[n] = "Consistent" /\ graph'.state[n] = "Invalidated"
          /\ graph'.state[n] # "Invalidated" => graph'.dependencies[n] = graph.dependencies[n]
    /\ \A n \in Created' \ Created :
          input'[n] \in Tracked /\ (\A d \in value'[n] : d.node = n)
    /\ \A n \in Node \ Created' :
          graph'.state[n] = "Computing" /\ value'[n] = value[n]
    /\ \A k \in Key :
          /\ storage'[k] \in {storage[k], NoNode}
          /\ storage[k] # NoNode /\ graph'.state[storage[k]] = "Consistent" =>
                storage'[k] = storage[k]
    /\ \A c \in Cell : version[c] <= version'[c]

\* Such a step keeps what ties the graph to the calls, the locks and the registry.
LEMMA WithdrawingInv ==
    ASSUME IInv, Withdrawing
    PROVE  /\ Typed' /\ GraphInv(graph') /\ Untouched' /\ Registered' /\ FramesShaped'
           /\ Chained' /\ LocksHeld' /\ ServedIsRegistered' /\ ComputedAlone'
           /\ ValuesSupported' /\ OwnUnpublished' /\ SeenSinceCall' /\ ReadYourWrites'
<1>1. /\ stack' = stack /\ owners' = owners /\ waiting' = waiting /\ result' = result
      /\ began' = began /\ GraphInv(graph')
  BY DEF Withdrawing, WithdrawingTyped
<1>2. /\ Created \subseteq Created' /\ Created' \subseteq Node
      /\ \A n \in Created :
          /\ input'[n] = input[n] /\ value'[n] = value[n]
          /\ \/ graph'.state[n] = graph.state[n]
             \/ graph.state[n] = "Consistent" /\ graph'.state[n] = "Invalidated"
          /\ graph'.state[n] # "Invalidated" => graph'.dependencies[n] = graph.dependencies[n]
      /\ \A n \in Created' \ Created :
          input'[n] \in Tracked /\ (\A d \in value'[n] : d.node = n)
      /\ \A n \in Node \ Created' : graph'.state[n] = "Computing" /\ value'[n] = value[n]
  BY DEF Withdrawing
<1>3. Key \intersect Tracked = {}
  BY CellAssumption DEF Cell
<1>4. Typed'
  <2>1. Typed
    BY DEF IInv
  <2>2. \A n \in Created' : input'[n] \in Key \union Tracked
    BY DEF Withdrawing, WithdrawingTyped
  <2> QED BY <1>1, <1>2, <2>1, <2>2
          DEF Typed, TypeOK, WithdrawingTyped, Withdrawing, GraphInv
<1>5. Untouched'
  BY <1>2 DEF Untouched
<1>6. Registered'
  BY <1>2 DEF IInv, Registered, Withdrawing
<1>7. FramesShaped'
  BY <1>1, <1>2 DEF IInv, FramesShaped, Frames
<1>8. Chained'
  BY <1>1 DEF IInv, Chained, Frames
<1>9. LocksHeld'
  BY <1>1 DEF IInv, LocksHeld, QueuedFor, Frames
<1>10. ASSUME NEW n \in Created', input'[n] \in Key
       PROVE  /\ n \in Created /\ input[n] = input'[n]
              /\ graph'.state[n] = "Consistent" => Served(n)
  BY <1>2, <1>3, <1>10 DEF Served
<1>11. ServedIsRegistered'
  <2>1. ASSUME NEW n \in Created', input'[n] \in Key, graph'.state[n] = "Consistent"
        PROVE  storage'[input'[n]] = n
    <3>1. storage[input[n]] = n /\ n # NoNode
      BY <1>2, <1>10, <2>1, NodeAssumption DEF IInv, ServedIsRegistered
    <3> QED BY <1>10, <2>1, <3>1 DEF Withdrawing
  <2> QED BY <2>1 DEF ServedIsRegistered, Served, Created
<1>12. ComputedAlone'
  <2>1. ASSUME NEW u \in Task, NEW i \in Frames(u), stack[u][i].phase = "computing",
               NEW m \in Created', input'[m] = stack[u][i].key
        PROVE  graph'.state[m] # "Consistent"
    <3>1. input'[m] \in Key
      BY <2>1, FrameTypes DEF IInv
    <3>2. ~Served(m)
      BY <1>10, <2>1, <3>1 DEF IInv, ComputedAlone
    <3> QED BY <1>10, <3>1, <3>2
  <2> QED BY <1>1, <2>1 DEF ComputedAlone, Frames, Served, Created
<1>13. ASSUME NEW n \in Created, graph'.state[n] # "Invalidated", NEW data,
              Supported(n, data)
       PROVE  \A d \in data : \/ d.node = n /\ d.cell \in Plain
                              \/ \E m \in graph'.dependencies[n] : d \in value'[m]
  <2>1. n \in Node
    BY DEF IInv, Typed, TypeOK
  <2>2. \A m \in graph.dependencies[n] : m \in Node /\ graph.state[m] # "Computing"
    BY <2>1 DEF IInv, GraphInv, Settled, Graph
  <2>3. \A m \in graph.dependencies[n] : value'[m] = value[m]
    BY <1>2, <2>2 DEF IInv, Untouched
  <2>4. graph'.dependencies[n] = graph.dependencies[n]
    BY <1>2, <1>13
  <2> QED BY <1>13, <2>3, <2>4 DEF Supported
<1>14. ValuesSupported'
  <2>1. ASSUME NEW n \in Created', input'[n] \in Key, graph'.state[n] = "Consistent"
        PROVE  \A d \in value'[n] : \/ d.node = n /\ d.cell \in Plain
                                    \/ \E m \in graph'.dependencies[n] : d \in value'[m]
    <3>1. Supported(n, value[n])
      BY <1>10, <2>1 DEF IInv, ValuesSupported
    <3>2. value'[n] = value[n] /\ n \in Created
      BY <1>2, <1>10, <2>1
    <3> QED BY <1>13, <2>1, <3>1, <3>2
  <2>2. ASSUME NEW u \in Task, NEW i \in Frames(u), stack[u][i].phase = "computing",
               graph'.state[stack[u][i].node] = "Computing"
        PROVE  \A d \in stack[u][i].seen :
                  \/ d.node = stack[u][i].node /\ d.cell \in Plain
                  \/ \E m \in graph'.dependencies[stack[u][i].node] : d \in value'[m]
    <3>1. stack[u][i].node \in Created
      BY <2>2 DEF IInv, FramesShaped
    <3>2. graph.state[stack[u][i].node] = "Computing"
      BY <1>2, <2>2, <3>1
    <3>3. Supported(stack[u][i].node, stack[u][i].seen)
      BY <2>2, <3>2 DEF IInv, ValuesSupported
    <3> QED BY <1>13, <2>2, <3>1, <3>3
  <2> QED BY <1>1, <2>1, <2>2 DEF ValuesSupported, Supported, Frames, Served, Created
<1>15. OwnUnpublished'
  <2>1. \A n : InProgress(n)' <=> InProgress(n)
    BY <1>1 DEF InProgress, Frames
  <2>2. \A n : InProgress(n) => n \in Created
    BY DEF InProgress, IInv, FramesShaped
  <2>3. ASSUME NEW m \in Node, NEW d \in value'[m]
        PROVE  d.node \in Created' /\ ~InProgress(d.node)'
    <3>1. CASE m \in Created' \ Created
      BY <1>2, <2>1, <2>2, <2>3, <3>1
    <3>2. CASE m \notin Created' \ Created
      <4>1. d \in value[m]
        BY <1>2, <2>3, <3>2
      <4>2. d.node \in Created /\ ~InProgress(d.node)
        BY <4>1 DEF IInv, OwnUnpublished
      <4> QED BY <1>2, <2>1, <4>2
    <3> QED BY <3>1, <3>2
  <2>4. ASSUME NEW u \in Task, NEW i \in Frames(u), NEW d \in stack[u][i].seen
        PROVE  d.node \in Created' /\ (InProgress(d.node)' => d.node = stack[u][i].node)
    BY <1>2, <2>1 DEF IInv, OwnUnpublished
  <2> QED BY <1>1, <2>3, <2>4 DEF OwnUnpublished, InProgress, Frames, Created
<1>16. SeenSinceCall'
  <2>1. /\ \A c \in Cell : version[c] <= version'[c]
        /\ began \in [Task -> [Cell -> 0..MaxVersion]]
        /\ version \in [Cell -> 0..MaxVersion] /\ version' \in [Cell -> 0..MaxVersion]
    BY DEF Withdrawing, WithdrawingTyped, IInv, Typed, TypeOK
  <2>2. \A u \in Task : \A c \in Cell : began[u][c] <= version'[c]
    <3>1. ASSUME NEW u \in Task, NEW c \in Cell PROVE began[u][c] <= version'[c]
      <4>1. began[u][c] \in Nat /\ version[c] \in Nat /\ version'[c] \in Nat
        BY <2>1, CellAssumption
      <4>2. began[u][c] <= version[c] /\ version[c] <= version'[c]
        BY <2>1 DEF IInv, SeenSinceCall
      <4> QED BY <4>1, <4>2
    <3> QED BY <3>1
  <2> QED BY <1>1, <2>2 DEF IInv, SeenSinceCall, Frames
<1>17. ReadYourWrites'
  BY <1>1 DEF IInv, ReadYourWrites
<1> QED BY <1>1, <1>4, <1>5, <1>6, <1>7, <1>8, <1>9, <1>11, <1>12, <1>14, <1>15, <1>16, <1>17

\* When plain data do not change, the reads of plain data stay as current as they are.
LEMMA ReadsKept ==
    ASSUME IInv, Withdrawing, raced' = raced, \A c \in Plain : version'[c] = version[c]
    PROVE  OwnReadsCurrent'
<1>1. /\ stack' = stack /\ Created \subseteq Created'
      /\ \A n \in Created : /\ input'[n] = input[n] /\ value'[n] = value[n]
                            /\ graph'.state[n] = "Consistent" => Served(n)
      /\ \A n \in Created' \ Created : input'[n] \notin Key
  BY CellAssumption DEF Withdrawing, WithdrawingTyped, Served, Cell
<1>2. ASSUME NEW n \in Created, NEW data, OwnCurrent(n, data)
      PROVE  \A d \in data : d.node = n /\ d.cell \in Plain =>
                /\ d.cell \in Awaits(input'[n])
                /\ d.version = version'[d.cell] \/ n \in raced'
  BY <1>1, <1>2 DEF OwnCurrent
<1>3. ASSUME NEW n \in Created', input'[n] \in Key, graph'.state[n] = "Consistent"
      PROVE  \A d \in value'[n] : d.node = n /\ d.cell \in Plain =>
                /\ d.cell \in Awaits(input'[n])
                /\ d.version = version'[d.cell] \/ n \in raced'
  <2>1. n \in Created /\ OwnCurrent(n, value[n]) /\ value'[n] = value[n]
    BY <1>1, <1>3 DEF IInv, OwnReadsCurrent
  <2> QED BY <1>2, <2>1
<1>4. ASSUME NEW u \in Task, NEW i \in Frames(u), stack[u][i].phase = "computing"
      PROVE  \A d \in stack[u][i].seen : d.node = stack[u][i].node /\ d.cell \in Plain =>
                /\ d.cell \in Awaits(input'[stack[u][i].node])
                /\ d.version = version'[d.cell] \/ stack[u][i].node \in raced'
  <2>1. stack[u][i].node \in Created /\ OwnCurrent(stack[u][i].node, stack[u][i].seen)
    BY <1>4 DEF IInv, OwnReadsCurrent, FramesShaped
  <2> QED BY <1>2, <2>1
<1> QED BY <1>1, <1>3, <1>4 DEF OwnReadsCurrent, OwnCurrent, Frames, Served, Created

\* When no MutableState changes, its Computed stays current.
LEMMA CellsKept ==
    ASSUME IInv, Withdrawing, input' = input, value' = value, snapshot' = snapshot,
           \A c \in Tracked : version'[c] = version[c]
    PROVE  CellsCurrent'
<1>1. /\ Created' = Created
      /\ \A n \in Created : /\ graph'.state[n] = "Consistent" => Served(n)
                            /\ graph.state[n] # "Computing" => graph'.state[n] # "Computing"
  BY DEF Withdrawing, Served, Created
<1> QED BY <1>1 DEF IInv, CellsCurrent, Served

\* The callbacks drop entries of nodes that were withdrawn, and nothing else.
LEMMA UnregisteredEffect ==
    ASSUME NEW map \in [Key -> Node \union {NoNode}], NEW g, NEW h
    PROVE  /\ Unregistered(map, g, h) \in [Key -> Node \union {NoNode}]
           /\ \A k \in Key :
                 /\ Unregistered(map, g, h)[k] \in {map[k], NoNode}
                 /\ h.state[map[k]] # "Invalidated" => Unregistered(map, g, h)[k] = map[k]
BY DEF Unregistered

\* A walk from served nodes, all that happens to the graph and to the cells but for one
\* change of plain data, is such a step.
LEMMA WalkWithdraws ==
    ASSUME IInv, GraphInv(graph'), Later(graph, graph'),
           storage' \in [Key -> Node \union {NoNode}],
           \A k \in Key :
              /\ storage'[k] \in {storage[k], NoNode}
              /\ storage[k] # NoNode /\ graph'.state[storage[k]] = "Consistent" =>
                    storage'[k] = storage[k],
           version' \in [Cell -> 0..MaxVersion], \A c \in Cell : version[c] <= version'[c],
           raced' \subseteq Node,
           UNCHANGED <<input, value, snapshot, stack, locks, result, began>>
    PROVE  Withdrawing
<1>1. Typed /\ Created' = Created
  BY DEF IInv, Created
<1>2. WithdrawingTyped
  BY <1>1 DEF WithdrawingTyped, Typed, TypeOK, locks
<1>3. ASSUME NEW n \in Created
      PROVE  /\ input'[n] = input[n] /\ value'[n] = value[n]
             /\ \/ graph'.state[n] = graph.state[n]
                \/ graph.state[n] = "Consistent" /\ graph'.state[n] = "Invalidated"
             /\ graph'.state[n] # "Invalidated" =>
                   graph'.dependencies[n] = graph.dependencies[n]
  BY <1>1 DEF Later, Typed, TypeOK
<1>4. ASSUME NEW n \in Node \ Created
      PROVE  graph'.state[n] = "Computing" /\ value'[n] = value[n]
  BY DEF Later, IInv, Untouched
<1> QED BY <1>1, <1>2, <1>3, <1>4 DEF Withdrawing, Typed, TypeOK

\* Plain data is changed: who reads it and is served is withdrawn; who has read it and is
\* in progress was hit by a race.
LEMMA MutateIInv ==
    ASSUME IInv, NEW c \in Plain, Mutate(c)
    PROVE  IInv'
<1>a. PICK roots : roots = {Get(k) : k \in ReadersOf(c)} \ {NoNode}
  OBVIOUS
<1>b. PICK map : map = Cleaned(ReadersOf(c))
  OBVIOUS
<1>1. /\ version[c] < MaxVersion
      /\ version' = [version EXCEPT ![c] = @ + 1]
      /\ graph' = Cascade(graph, roots) /\ storage' = Unregistered(map, graph, graph')
      /\ raced' = raced \union InFlight(c)
      /\ UNCHANGED <<input, value, snapshot, stack, locks, result, began>>
  BY <1>a, <1>b DEF Mutate
<1>2. /\ roots \in SUBSET Node
      /\ \A n \in roots : graph.state[n] = "Consistent"
  <2>1. ASSUME NEW n \in roots
        PROVE  n \in Node /\ graph.state[n] = "Consistent"
    <3>1. PICK k \in ReadersOf(c) : n = Get(k) /\ n # NoNode
      BY <1>a
    <3>2. k \in Key
      BY <3>1 DEF ReadersOf
    <3> QED BY <3>1, <3>2, GetServed DEF Served
  <2> QED BY <2>1
<1>3. graph \in Graph
  BY DEF IInv, GraphInv
<1>4. /\ GraphInv(graph') /\ Later(graph, graph')
      /\ \A n \in roots : graph'.state[n] = "Invalidated"
  BY <1>1, <1>2, <1>3, CascadeRootsInv, CascadeLater DEF IInv
<1>5. /\ map \in [Key -> Node \union {NoNode}]
      /\ \A k \in Key : /\ map[k] \in {storage[k], NoNode}
                        /\ storage[k] # NoNode /\ Served(storage[k]) => map[k] = storage[k]
  BY <1>b, CleanedEffect
<1>6. /\ storage' \in [Key -> Node \union {NoNode}]
      /\ \A k \in Key :
            /\ storage'[k] \in {map[k], NoNode}
            /\ graph'.state[map[k]] # "Invalidated" => storage'[k] = map[k]
  BY <1>1, <1>5, UnregisteredEffect
<1>7. ASSUME NEW k \in Key
      PROVE  /\ storage'[k] \in {storage[k], NoNode}
             /\ storage[k] # NoNode /\ graph'.state[storage[k]] = "Consistent" =>
                   storage'[k] = storage[k]
  <2>1. ASSUME storage[k] # NoNode, graph'.state[storage[k]] = "Consistent"
        PROVE  storage'[k] = storage[k]
    <3>1. storage[k] \in Node
      BY <2>1 DEF IInv, Typed, TypeOK
    <3>2. Served(storage[k])
      BY <1>4, <2>1, <3>1 DEF Later, Served
    <3> QED BY <1>5, <1>6, <2>1, <3>2
  <2> QED BY <1>5, <1>6, <2>1
<1>8. /\ version' \in [Cell -> 0..MaxVersion]
      /\ \A x \in Cell : version[x] <= version'[x]
      /\ \A x \in Cell : x # c => version'[x] = version[x]
  <2>1. version \in [Cell -> 0..MaxVersion] /\ c \in Cell /\ MaxVersion \in Nat
    BY CellAssumption DEF IInv, Typed, TypeOK, Cell
  <2>2. version[c] + 1 \in 0..MaxVersion /\ version[c] <= version[c] + 1
    BY <1>1, <2>1
  <2>3. \A x \in Cell : version[x] <= version[x]
    BY <2>1
  <2> QED BY <1>1, <2>1, <2>2, <2>3
<1>9. raced' \subseteq Node
  BY <1>1 DEF IInv, Typed, TypeOK, InFlight
<1>10. Withdrawing
  BY <1>1, <1>4, <1>6, <1>7, <1>8, <1>9, WalkWithdraws
<1>11. CellsCurrent'
  <2>1. \A x \in Tracked : version'[x] = version[x]
    BY <1>8, CellAssumption DEF Cell
  <2> QED BY <1>1, <1>10, <2>1, CellsKept
<1>12. OwnReadsCurrent'
  <2>1. /\ stack' = stack /\ input' = input /\ value' = value /\ Created' = Created
    BY <1>1 DEF Created
  <2>2. ASSUME NEW n \in Created, input[n] \in Key, graph'.state[n] = "Consistent"
        PROVE  \A d \in value[n] : d.node = n /\ d.cell \in Plain =>
                  /\ d.cell \in Awaits(input[n])
                  /\ d.version = version'[d.cell] \/ n \in raced'
    <3>1. n \in Node /\ Served(n)
      BY <1>4, <2>2 DEF Later, Served, IInv, Typed, TypeOK
    <3>2. OwnCurrent(n, value[n])
      BY <2>2, <3>1 DEF IInv, OwnReadsCurrent
    <3>3. c \notin Awaits(input[n])
      <4>1. ASSUME c \in Awaits(input[n]) PROVE FALSE
        <5>1. input[n] \in ReadersOf(c)
          BY <2>2, <4>1 DEF ReadersOf
        <5>2. storage[input[n]] = n /\ n # NoNode
          BY <2>2, <3>1, NodeAssumption DEF IInv, ServedIsRegistered
        <5>3. Get(input[n]) = n
          BY <3>1, <5>2 DEF Get, Served
        <5>4. n \in roots
          BY <1>a, <5>1, <5>2, <5>3
        <5> QED BY <1>4, <2>2, <5>4
      <4> QED BY <4>1
    <3>4. \A d \in value[n] : d.cell \in Cell
      BY <3>1 DEF IInv, Typed, TypeOK, Datum
    <3> QED BY <1>1, <1>8, <3>2, <3>3, <3>4 DEF OwnCurrent
  <2>3. ASSUME NEW u \in Task, NEW i \in Frames(u), stack[u][i].phase = "computing"
        PROVE  \A d \in stack[u][i].seen : d.node = stack[u][i].node /\ d.cell \in Plain =>
                  /\ d.cell \in Awaits(input[stack[u][i].node])
                  /\ d.version = version'[d.cell] \/ stack[u][i].node \in raced'
    <3>1. OwnCurrent(stack[u][i].node, stack[u][i].seen)
      BY <2>3 DEF IInv, OwnReadsCurrent
    <3>2. stack[u][i].node \in Node
      BY <2>3 DEF IInv, FramesShaped, Typed, TypeOK
    <3>3. ASSUME NEW d \in stack[u][i].seen, d.node = stack[u][i].node, d.cell = c
          PROVE  stack[u][i].node \in raced'
      <4>1. stack[u][i].node \in InFlight(c)
        BY <3>2, <3>3 DEF InFlight, Frames
      <4> QED BY <1>1, <4>1
    <3>4. ASSUME NEW d \in stack[u][i].seen, d.cell \in Plain, d.cell # c
          PROVE  version'[d.cell] = version[d.cell]
      BY <1>8, <3>4 DEF Cell
    <3>5. raced \subseteq raced'
      BY <1>1
    <3> QED BY <3>1, <3>3, <3>4, <3>5 DEF OwnCurrent
  <2> QED BY <2>1, <2>2, <2>3 DEF OwnReadsCurrent, OwnCurrent, Frames, Served, Created
<1> QED BY <1>4, <1>10, <1>11, <1>12, WithdrawingInv DEF IInv

\* The Computed of a MutableState is invalidated.
LEMMA DisposeTrackedIInv ==
    ASSUME IInv, NEW c \in Tracked, DisposeTracked(c)
    PROVE  IInv'
<1>1. /\ graph' = Invalidate(graph, snapshot[c])
      /\ storage' = Unregistered(storage, graph, graph')
      /\ UNCHANGED <<input, value, snapshot, version, stack, locks, result, began, raced>>
  BY DEF DisposeTracked, history
<1>2. snapshot[c] \in Node /\ graph \in Graph /\ storage \in [Key -> Node \union {NoNode}]
  BY DEF IInv, GraphInv, Typed, TypeOK
<1>3. GraphInv(graph') /\ Later(graph, graph')
  BY <1>1, <1>2, InvalidateInv, InvalidateLater DEF IInv
<1>4. /\ storage' \in [Key -> Node \union {NoNode}]
      /\ \A k \in Key :
            /\ storage'[k] \in {storage[k], NoNode}
            /\ graph'.state[storage[k]] # "Invalidated" => storage'[k] = storage[k]
  BY <1>1, <1>2, UnregisteredEffect
<1>5. \A k \in Key : storage[k] # NoNode /\ graph'.state[storage[k]] = "Consistent" =>
                        storage'[k] = storage[k]
  BY <1>4
<1>6. Withdrawing
  <2>1. /\ version' \in [Cell -> 0..MaxVersion] /\ raced' \subseteq Node
        /\ \A x \in Cell : version[x] <= version'[x]
    BY <1>1, CellAssumption DEF IInv, Typed, TypeOK
  <2> QED BY <1>1, <1>3, <1>4, <1>5, <2>1, WalkWithdraws
<1>7. CellsCurrent' /\ OwnReadsCurrent'
  BY <1>1, <1>6, CellsKept, ReadsKept
<1> QED BY <1>3, <1>6, <1>7, WithdrawingInv DEF IInv

\* Everything served is invalidated and the registry emptied.
LEMMA InvalidateAllIInv ==
    ASSUME IInv, InvalidateAll
    PROVE  IInv'
<1>a. PICK roots : roots = {Get(k) : k \in Key} \ {NoNode}
  OBVIOUS
<1>1. /\ graph' = Cascade(graph, roots) /\ storage' = [k \in Key |-> NoNode]
      /\ UNCHANGED <<input, value, snapshot, version, stack, locks, result, began, raced>>
  BY <1>a DEF InvalidateAll, history
<1>2. /\ roots \in SUBSET Node
      /\ \A n \in roots : graph.state[n] = "Consistent"
  <2>1. ASSUME NEW n \in roots
        PROVE  n \in Node /\ graph.state[n] = "Consistent"
    <3>1. PICK k \in Key : n = Get(k) /\ n # NoNode
      BY <1>a
    <3>2. k \in Key
      BY <3>1
    <3> QED BY <3>1, <3>2, GetServed DEF Served
  <2> QED BY <2>1
<1>3. graph \in Graph
  BY DEF IInv, GraphInv
<1>4. /\ GraphInv(graph') /\ Later(graph, graph')
      /\ \A n \in roots : graph'.state[n] = "Invalidated"
  BY <1>1, <1>2, <1>3, CascadeRootsInv, CascadeLater DEF IInv
<1>5. ASSUME NEW k \in Key, storage[k] # NoNode, graph'.state[storage[k]] = "Consistent"
      PROVE  FALSE
  <2>1. storage[k] \in Node
    BY <1>5 DEF IInv, Typed, TypeOK
  <2>2. Get(k) = storage[k]
    BY <1>4, <1>5, <2>1 DEF Later, Get
  <2> QED BY <1>a, <1>4, <1>5, <2>2
<1>6. Withdrawing
  <2>1. /\ version' \in [Cell -> 0..MaxVersion] /\ raced' \subseteq Node
        /\ \A x \in Cell : version[x] <= version'[x]
    BY <1>1, CellAssumption DEF IInv, Typed, TypeOK
  <2>2. storage' \in [Key -> Node \union {NoNode}] /\ \A k \in Key : storage'[k] = NoNode
    BY <1>1
  <2> QED BY <1>1, <1>4, <1>5, <2>1, <2>2, WalkWithdraws
<1>7. CellsCurrent' /\ OwnReadsCurrent'
  BY <1>1, <1>6, CellsKept, ReadsKept
<1> QED BY <1>4, <1>6, <1>7, WithdrawingInv DEF IInv

\* A MutableState gets a new Computed, and the one it had is withdrawn with its readers.
LEMMA SetTrackedIInv ==
    ASSUME IInv, NEW c \in Tracked, SetTracked(c)
    PROVE  IInv'
<1>a. PICK n : n = Fresh
  OBVIOUS
<1>b. PICK old : old = snapshot[c]
  OBVIOUS
<1>c. PICK g : g = Invalidate(graph, old)
  OBVIOUS
<1>d. PICK v : v = version[c] + 1
  OBVIOUS
<1>0. Typed /\ graph \in Graph
  BY DEF IInv, GraphInv
<1>1. /\ version[c] < MaxVersion /\ Construct(c)
      /\ version' = [version EXCEPT ![c] = @ + 1]
      /\ graph' = TrySetOutput(g, n) /\ storage' = Unregistered(storage, graph, g)
      /\ value' = [value EXCEPT ![n] = {[cell |-> c, version |-> version'[c], node |-> n]}]
      /\ snapshot' = [snapshot EXCEPT ![c] = n]
      /\ UNCHANGED <<stack, locks, result, began, raced>>
  BY <1>a, <1>b, <1>c DEF SetTracked, history
<1>2. /\ n \in Node \ Created /\ Created' = Created \union {n}
      /\ input'[n] = c /\ (\A m \in Created : input'[m] = input[m])
      /\ input' \in [Created' -> Key \union Tracked]
  BY <1>0, <1>1, <1>a, FreshNode
<1>3. /\ old \in Created /\ old \in Node /\ graph.state[old] # "Computing"
      /\ Created \subseteq Node
  BY <1>0, <1>b DEF IInv, CellsCurrent, Typed, TypeOK
<1>4. GraphInv(g) /\ Later(graph, g) /\ g.state[old] = "Invalidated"
  BY <1>0, <1>3, <1>c, InvalidateInv, InvalidateLater DEF IInv
<1>5. g.state[n] = "Computing"
  BY <1>2, <1>4 DEF IInv, Untouched, Later
<1>6. /\ GraphInv(graph') /\ graph'.state[n] \in {"Consistent", "Invalidated"}
      /\ \A m \in Node \ {n} : /\ graph'.state[m] = g.state[m]
                               /\ graph'.dependencies[m] = g.dependencies[m]
  BY <1>1, <1>2, <1>4, <1>5, TrySetOutputInv, TrySetOutputLater
<1>7. /\ version' \in [Cell -> 0..MaxVersion] /\ version'[c] = v
      /\ \A x \in Cell : version[x] <= version'[x]
      /\ \A x \in Cell : x # c => version'[x] = version[x]
      /\ v \in 0..MaxVersion
  <2>1. version \in [Cell -> 0..MaxVersion] /\ c \in Cell /\ MaxVersion \in Nat
    BY CellAssumption DEF IInv, Typed, TypeOK, Cell
  <2>2. v \in 0..MaxVersion /\ version[c] <= v
    BY <1>1, <1>d, <2>1
  <2>3. \A x \in Cell : version[x] <= version[x]
    BY <2>1
  <2> QED BY <1>1, <1>d, <2>1, <2>2, <2>3
<1>8. /\ value' \in [Node -> SUBSET Datum]
      /\ \A d \in value'[n] : d.cell = c /\ d.version = v /\ d.node = n
      /\ \A m \in Node : m # n => value'[m] = value[m]
  <2>1. value \in [Node -> SUBSET Datum]
    BY <1>0 DEF Typed, TypeOK
  <2>2. value' = [value EXCEPT ![n] = {[cell |-> c, version |-> v, node |-> n]}]
    BY <1>1, <1>7
  <2>3. [cell |-> c, version |-> v, node |-> n] \in Datum
    BY <1>2, <1>7 DEF Datum, Cell
  <2> QED BY <1>2, <2>1, <2>2, <2>3
<1>9. /\ snapshot' \in [Tracked -> Node] /\ snapshot'[c] = n
      /\ \A x \in Tracked : x # c => snapshot'[x] = snapshot[x]
  BY <1>0, <1>1, <1>2 DEF Typed, TypeOK
<1>10. /\ storage' \in [Key -> Node \union {NoNode}]
       /\ \A k \in Key :
             /\ storage'[k] \in {storage[k], NoNode}
             /\ g.state[storage[k]] # "Invalidated" => storage'[k] = storage[k]
  <2>1. storage \in [Key -> Node \union {NoNode}]
    BY <1>0 DEF Typed, TypeOK
  <2> QED BY <1>1, <2>1, UnregisteredEffect
<1>11. ASSUME NEW m \in Created
       PROVE  /\ m # n /\ m \in Node
              /\ \/ graph'.state[m] = graph.state[m]
                 \/ graph.state[m] = "Consistent" /\ graph'.state[m] = "Invalidated"
              /\ graph'.state[m] # "Invalidated" =>
                    graph'.dependencies[m] = graph.dependencies[m]
  BY <1>2, <1>3, <1>4, <1>6 DEF Later
<1>12. Withdrawing
  <2>1. WithdrawingTyped
    BY <1>0, <1>1, <1>2, <1>6, <1>7, <1>8, <1>9, <1>10
       DEF WithdrawingTyped, Typed, TypeOK, locks
  <2>2. \A m \in Node \ Created' : graph'.state[m] = "Computing" /\ value'[m] = value[m]
    BY <1>2, <1>4, <1>6, <1>8 DEF IInv, Untouched, Later
  <2>3. ASSUME NEW k \in Key, storage[k] # NoNode, graph'.state[storage[k]] = "Consistent"
        PROVE  storage'[k] = storage[k]
    <3>1. storage[k] \in Created
      BY <2>3 DEF IInv, Registered
    <3>2. storage[k] # n /\ storage[k] \in Node
      BY <1>11, <3>1
    <3>3. g.state[storage[k]] # "Invalidated"
      BY <1>6, <2>3, <3>2
    <3> QED BY <1>10, <3>3
  <2>4. ASSUME NEW m \in Created
        PROVE  input'[m] = input[m] /\ value'[m] = value[m]
    BY <1>2, <1>8, <1>11
  <2> QED BY <1>2, <1>3, <1>7, <1>8, <1>10, <1>11, <2>1, <2>2, <2>3, <2>4 DEF Withdrawing
<1>13. CellsCurrent'
  <2>1. ASSUME NEW x \in Tracked
        PROVE  /\ snapshot'[x] \in Created' /\ input'[snapshot'[x]] = x
               /\ graph'.state[snapshot'[x]] # "Computing"
               /\ \A d \in value'[snapshot'[x]] : d.cell = x /\ d.version = version'[x]
    <3>1. CASE x = c
      BY <1>2, <1>6, <1>7, <1>8, <1>9, <3>1
    <3>2. CASE x # c
      <4>1. /\ snapshot[x] \in Created /\ input[snapshot[x]] = x
            /\ graph.state[snapshot[x]] # "Computing"
            /\ \A d \in value[snapshot[x]] : d.cell = x /\ d.version = version[x]
        BY DEF IInv, CellsCurrent
      <4>2. snapshot'[x] = snapshot[x] /\ version'[x] = version[x]
        BY <1>7, <1>9, <3>2 DEF Cell
      <4>3. /\ graph'.state[snapshot[x]] # "Computing"
            /\ value'[snapshot[x]] = value[snapshot[x]]
        BY <1>8, <1>11, <4>1
      <4> QED BY <1>2, <4>1, <4>2, <4>3
    <3> QED BY <3>1, <3>2
  <2>2. ASSUME NEW m \in Created', input'[m] \in Tracked, graph'.state[m] = "Consistent"
        PROVE  snapshot'[input'[m]] = m
    <3>1. CASE m = n
      BY <1>2, <1>9, <3>1
    <3>2. CASE m # n
      <4>1. m \in Created /\ input'[m] = input[m]
        BY <1>2, <3>2
      <4>2. Served(m)
        BY <1>11, <2>2, <4>1 DEF Served
      <4>3. snapshot[input[m]] = m
        BY <2>2, <4>1, <4>2 DEF IInv, CellsCurrent
      <4>4. graph'.state[old] = "Invalidated"
        BY <1>2, <1>3, <1>4, <1>6
      <4>5. input[m] # c
        BY <1>b, <2>2, <4>3, <4>4
      <4> QED BY <1>9, <2>2, <4>1, <4>3, <4>5
    <3> QED BY <3>1, <3>2
  <2> QED BY <2>1, <2>2 DEF CellsCurrent, Served, Created
<1>14. OwnReadsCurrent'
  <2>1. \A x \in Plain : version'[x] = version[x]
    BY <1>7, CellAssumption DEF Cell
  <2> QED BY <1>1, <1>12, <2>1, ReadsKept
<1> QED BY <1>6, <1>12, <1>13, <1>14, WithdrawingInv DEF IInv

-----------------------------------------------------------------------------
(***************************************************************************)
(* The actions that call and resume, and the theorems.                     *)
(***************************************************************************)

\* A method is called: the cached value is returned, or the call asks for the lock.
LEMMA CallIInv ==
    ASSUME IInv, NEW t \in Task, NEW k \in Key, CallMethod(t, stack[t], k),
           stack[t] # <<>> => /\ stack[t][1].phase = "computing"
                              /\ k \in Awaits(stack[t][1].key),
           \/ began' = began
           \/ stack[t] = <<>> /\ began' = [began EXCEPT ![t] = version] /\ result[t] = {}
    PROVE  IInv'
<1>1. CASE Get(k) # NoNode
  <2> DEFINE off == 0
  <2>1. LocksAfter(t, off)
    BY <1>1 DEF CallMethod, LocksAfter
  <2>2. off = 0 /\ off \in {0, 1} /\ off # 1
    OBVIOUS
  <2> HIDE DEF off
  <2>3. /\ storage' = Cleaned({k})
        /\ graph' = Link(graph, ContextOf(stack[t]), Get(k))
        /\ Deliver(t, stack[t], value[Get(k)])
        /\ UNCHANGED <<input, value, snapshot, version, raced>>
    BY <1>1 DEF CallMethod
  <2> QED BY <1>1, <2>1, <2>2, <2>3, HitIInv
<1>2. CASE Get(k) = NoNode
  <2>1. /\ storage' = Cleaned({k}) /\ Lock!Request(t, k)
        /\ stack' = [stack EXCEPT ![t] = <<NewCall(k)>> \o stack[t]]
        /\ UNCHANGED <<graph, result, input, value, snapshot, version, raced>>
    BY <1>2 DEF CallMethod
  <2> QED BY <2>1, MissIInv
<1> QED BY <1>1, <1>2

\* A task makes its call.
LEMMA StartIInv ==
    ASSUME IInv, NEW t \in Task, NEW k \in Key, Start(t, k)
    PROVE  IInv'
<1>1. /\ stack[t] = <<>> /\ result[t] = {} /\ began' = [began EXCEPT ![t] = version]
      /\ CallMethod(t, stack[t], k)
  BY DEF Start
<1> QED BY <1>1, CallIInv

\* The body of a method calls another one.
LEMMA CallNestedIInv ==
    ASSUME IInv, NEW t \in Task, CallNested(t)
    PROVE  IInv'
<1>a. PICK k : k = NextAwait(t)
  OBVIOUS
<1>1. /\ stack[t] # <<>> /\ Head(stack[t]).phase = "computing"
      /\ Head(stack[t]).at <= Len(Body[Head(stack[t]).key])
      /\ k \in Key /\ CallMethod(t, stack[t], k) /\ began' = began
  BY <1>a DEF CallNested, BodyGoesOn, Computing
<1>2. stack[t] \in Seq(Frame)
  BY DEF IInv, Typed, TypeOK
<1>3. Head(stack[t]) = stack[t][1] /\ 1 \in Frames(t)
  BY <1>1, <1>2 DEF Frames
<1>4. stack[t][1].at \in Nat \ {0} /\ stack[t][1].key \in Key
  BY <1>3, FrameTypes DEF IInv
<1>5. k \in Awaits(stack[t][1].key)
  <2>1. stack[t][1].at \in 1..Len(Body[stack[t][1].key])
    <3>1. Body[stack[t][1].key] \in Seq(Key \union Cell)
      BY <1>4, BodyAssumption
    <3> QED BY <1>1, <1>3, <1>4, <3>1
  <2> QED BY <1>3, <1>a, <2>1 DEF Awaits, NextAwait
<1> QED BY <1>1, <1>3, <1>5, CallIInv

\* A call goes on with the lock: the value that came meanwhile is returned, or a new one
\* is computed.
LEMMA ResumeIInv ==
    ASSUME IInv, NEW t \in Task, Resume(t)
    PROVE  IInv'
<1>a. PICK k : k = stack[t][1].key
  OBVIOUS
<1>1. stack[t] \in Seq(Frame) /\ stack[t] # <<>>
  BY DEF IInv, Typed, TypeOK, Resume
<1>2. Head(stack[t]) = stack[t][1] /\ 1 \in Frames(t)
  BY <1>1 DEF Frames
<1>3. k \in Key
  BY <1>2, <1>a, FrameTypes DEF IInv
<1>4. CASE Get(k) # NoNode
  <2> DEFINE off == 1
             frames == Tail(stack[t])
  <2>1. /\ storage' = Cleaned({k})
        /\ graph' = Link(graph, ContextOf(frames), Get(k))
        /\ Deliver(t, frames, value[Get(k)])
        /\ Lock!Release(t, k)
        /\ UNCHANGED <<input, value, snapshot, version, began, raced>>
    BY <1>2, <1>4, <1>a DEF Resume, Recheck, Leave, history
  <2>2. LocksAfter(t, off)
    BY <1>1, <1>a, <2>1 DEF LocksAfter
  <2>3. off = 1 /\ off \in {0, 1} /\ off # 0 /\ frames = Tail(stack[t])
    OBVIOUS
  <2> HIDE DEF off, frames
  <2> QED BY <1>1, <1>3, <1>4, <2>1, <2>2, <2>3, HitIInv
<1>5. CASE Get(k) = NoNode
  BY <1>5, <1>a, ComputeIInv
<1> QED BY <1>4, <1>5

\* Nothing happens.
LEMMA StutterIInv ==
    ASSUME IInv, UNCHANGED vars
    PROVE  IInv'
<1>1. /\ graph' = graph /\ input' = input /\ value' = value /\ storage' = storage
      /\ snapshot' = snapshot /\ version' = version /\ stack' = stack
      /\ owners' = owners /\ waiting' = waiting /\ result' = result /\ began' = began
      /\ raced' = raced
  BY DEF vars, locks, history
<1>2. Typed'
  BY <1>1 DEF IInv, Typed, TypeOK, Created
<1>3. Untouched' /\ Registered' /\ CellsCurrent' /\ ServedIsRegistered'
  BY <1>1 DEF IInv, Untouched, Registered, CellsCurrent, ServedIsRegistered, Created, Served
<1>4. FramesShaped' /\ Chained' /\ LocksHeld' /\ ComputedAlone'
  BY <1>1 DEF IInv, FramesShaped, Chained, LocksHeld, QueuedFor, ComputedAlone, Frames,
              Created, Served
<1>5. ValuesSupported' /\ OwnUnpublished' /\ OwnReadsCurrent'
  BY <1>1 DEF IInv, ValuesSupported, Supported, OwnUnpublished, InProgress,
              OwnReadsCurrent, OwnCurrent, Frames, Created, Served
<1>6. SeenSinceCall' /\ ReadYourWrites'
  BY <1>1 DEF IInv, SeenSinceCall, ReadYourWrites, Frames
<1>7. GraphInv(graph')
  BY <1>1 DEF IInv
<1> QED BY <1>2, <1>3, <1>4, <1>5, <1>6, <1>7 DEF IInv

\* Every step preserves the invariant.
LEMMA NextIInv == IInv /\ [Next]_vars => IInv'
<1> SUFFICES ASSUME IInv, [Next]_vars PROVE IInv'
  OBVIOUS
<1>1. ASSUME NEW t \in Task, Run(t) PROVE IInv'
  BY <1>1, ResumeIInv, CallNestedIInv, ReadPlainIInv, UseTrackedIInv, FinishIInv DEF Run
<1>2. ASSUME NEW t \in Task, NEW k \in Key, Start(t, k) PROVE IInv'
  BY <1>2, StartIInv
<1>3. ASSUME NEW c \in Plain, Mutate(c) PROVE IInv'
  BY <1>3, MutateIInv
<1>4. ASSUME NEW c \in Tracked, SetTracked(c) PROVE IInv'
  BY <1>4, SetTrackedIInv
<1>5. ASSUME NEW c \in Tracked, DisposeTracked(c) PROVE IInv'
  BY <1>5, DisposeTrackedIInv
<1>6. CASE InvalidateAll
  BY <1>6, InvalidateAllIInv
<1>7. CASE UNCHANGED vars
  BY <1>7, StutterIInv
<1> QED BY <1>1, <1>2, <1>3, <1>4, <1>5, <1>6, <1>7 DEF Next

\* The inductive invariant holds of every reachable state.
THEOREM Invariance == Spec => []IInv
<1>1. Init => IInv
  BY InitIInv
<1>2. IInv /\ [Next]_vars => IInv'
  BY NextIInv
<1> QED BY <1>1, <1>2, PTL DEF Spec

\* The variables keep their types.
THEOREM TypeTheorem == Spec => []TypeOK
<1>1. IInv => TypeOK
  BY DEF IInv, Typed
<1> QED BY <1>1, Invariance, PTL

\* Whatever the calls interleave, the graph stays coherent, exactly indexed and acyclic
\* (computed-decorator.ts).
THEOREM GraphTheorem == Spec => []GraphStaysSound
<1>1. IInv => GraphStaysSound
  BY DEF IInv, GraphInv, GraphStaysSound
<1> QED BY <1>1, Invariance, PTL

\* Concurrent callers of a key share one computation (computed-decorator.ts, the lock
\* and the double check after it).
THEOREM OneCopyTheorem == Spec => []AtMostOneCopy
<1>1. IInv => AtMostOneCopy
  BY OneCopyState
<1> QED BY <1>1, Invariance, PTL

\* Whatever is served can be found by an invalidation scope (computed-registry.ts).
THEOREM RegisteredTheorem == Spec => []ServedIsRegistered
<1>1. IInv => ServedIsRegistered
  BY DEF IInv
<1> QED BY <1>1, Invariance, PTL

\* No served value reflects an old value of a MutableState, through any number of
\* methods (mutable-state.ts, set).
THEOREM FreshTheorem == Spec => []FreshOverTracked
<1>1. IInv => FreshOverTracked
  BY FreshState
<1> QED BY <1>1, Invariance, PTL

\* A served value is stale over plain data only when the change hit the computation that
\* had just read them (computed-decorator.ts, the invalidation mode).
THEOREM StaleTheorem == Spec => []StaleOnlyByRace
<1>1. IInv => StaleOnlyByRace
  BY StaleState
<1> QED BY <1>1, Invariance, PTL

\* A call returns no MutableState value older than the call (computed-decorator.ts, the
\* double check).
THEOREM ReadYourWritesTheorem == Spec => []ReadYourWrites
<1>1. IInv => ReadYourWrites
  BY DEF IInv
<1> QED BY <1>1, Invariance, PTL

\* Locks held across awaits never block tasks in a circle, and none is kept by a task
\* that has left the method (computed-decorator.ts, "using _lock").
THEOREM LocksTheorem == Spec => []LocksNeverBlock
<1>1. IInv => LocksNeverBlock
  BY LocksState
<1> QED BY <1>1, Invariance, PTL
=============================================================================
