---------------------------- MODULE ComputeMethods ----------------------------
(***************************************************************************)
(* @computed methods of @fnodejs/fusion: the decorator, the registry, the  *)
(* invalidation scope and the MutableState cells that methods read         *)
(* (packages/fusion/src/computed-decorator.ts, computed-registry.ts,       *)
(* invalidation.ts, compute-context.ts, mutable-state.ts).                 *)
(*                                                                         *)
(* Any number of tasks call methods.  A body is the sequence of what it    *)
(* awaits: calls of other methods, reads of plain data (a field, a row)    *)
(* and uses of MutableState cells.  Code between two awaits is one step.   *)
(* Values are modelled by where they come from: the versions of the cells  *)
(* they reflect and the computation that read them.                        *)
(***************************************************************************)
EXTENDS Computed, Sequences, FiniteSets, Naturals

CONSTANTS
    Key,         \* the inputs of the methods (object, method, arguments)
    Plain,       \* data the methods read without tracking
    Tracked,     \* MutableState objects
    Body,        \* what the method of each key awaits, in order
    Task,        \* top-level callers, each makes one call
    MaxVersion,  \* bound on the changes of each cell
    NoNode

Cell == Plain \union Tracked

Awaits(k) == {Body[k][i] : i \in 1..Len(Body[k])}

\* No method awaits itself, directly or not: it would wait for its own lock.
ASSUME BodyAssumption ==
    /\ Body \in [Key -> Seq(Key \union Cell)]
    /\ \A S \in (SUBSET Key) \ {{}} : \E k \in S : Awaits(k) \intersect S = {}

\* Methods, plain data and MutableState objects are things of different kinds.
ASSUME CellAssumption ==
    /\ Key \intersect Cell = {}
    /\ Plain \intersect Tracked = {}
    /\ MaxVersion \in Nat

\* The timers of ComputedGraph are one more caller of invalidate(): no method has
\* one here.
ASSUME NodeAssumption == NoNode \notin Node /\ AutoInvalidate = {}

VARIABLES
    graph,     \* the fields of every Computed
    input,     \* the input of each Computed constructed so far
    value,     \* #output: what each of them was computed from
    storage,   \* #storage of the registry
    snapshot,  \* the current Computed of each MutableState
    version,   \* how often each cell was changed
    stack,     \* the async calls each task is in, innermost first
    owners,    \* inputLocks: the task that holds the lock of each key
    waiting,   \* inputLocks: the tasks queued for it
    began,     \* history: the versions when each task made its call
    result,    \* what the call returned, once it did: at most one value
    raced      \* history: computations that had read a cell when it was changed

locks == <<owners, waiting>>
history == <<began, raced>>
vars == <<graph, input, value, storage, snapshot, version, stack, locks,
          result, history>>

Lock == INSTANCE KeyedMutex

Created == DOMAIN input

\* A datum of a value: the computation that read the cell, and the version it saw.
Datum == [cell : Cell, version : 0..MaxVersion, node : Node]

Phase == {"locking", "computing"}

\* An async call: of which key, how far, for which Computed, what it got so far.
Frame == [key : Key, phase : Phase, at : Nat \ {0}, node : Node \union {NoNode},
          seen : SUBSET Datum]

TypeOK ==
    /\ graph \in Graph
    /\ Created \subseteq Node
    /\ \A n \in Created : input[n] \in Key \union Tracked
    /\ value \in [Node -> SUBSET Datum]
    /\ storage \in [Key -> Node \union {NoNode}]
    /\ snapshot \in [Tracked -> Node]
    /\ version \in [Cell -> 0..MaxVersion]
    /\ stack \in [Task -> Seq(Frame)]
    /\ owners \in [Key -> SUBSET Task]
    /\ waiting \in [Key -> Seq(Task)]
    /\ began \in [Task -> [Cell -> 0..MaxVersion]]
    /\ \A t \in Task : \A data \in result[t] : data \subseteq Datum
    /\ raced \subseteq Node

-----------------------------------------------------------------------------
(***************************************************************************)
(* The registry.                                                           *)
(***************************************************************************)

\* Faulty variant of Get: an entry is returned whatever its state.
GetAny(k) == storage[k]

\* get(): a Consistent entry, or nothing ...
Get(k) ==
    IF storage[k] # NoNode /\ graph.state[storage[k]] = "Consistent"
    THEN storage[k] ELSE NoNode

\* ... and an entry that is not Consistent is dropped.
Cleaned(K) == [k \in Key |-> IF k \in K THEN Get(k) ELSE storage[k]]

\* The entries left of map when the graph goes from g to h: the callback of a node
\* that becomes Invalidated unregisters it.
Unregistered(map, g, h) ==
    [k \in Key |->
        IF /\ map[k] # NoNode
           /\ map[k] \in g.hooked
           /\ g.state[map[k]] # "Invalidated"
           /\ h.state[map[k]] = "Invalidated"
        THEN NoNode ELSE map[k]]

-----------------------------------------------------------------------------
(***************************************************************************)
(* Calls.                                                                  *)
(***************************************************************************)

\* The next Computed to be constructed, and its construction.
Fresh == CHOOSE n \in Node : n \notin Created

Construct(i) ==
    /\ Created # Node
    /\ input' = [n \in Created \union {Fresh} |-> IF n = Fresh THEN i ELSE input[n]]

\* The Computed that the context of a call names, given the frames around it.
ContextOf(frames) == IF frames = <<>> THEN NoNode ELSE Head(frames).node

\* Faulty variant of Link: the context is lost across an await.
LinkLost(g, caller, n) == g

\* The graph after the caller, if it is a computation, depends on n.
Link(g, caller, n) == IF caller = NoNode THEN g ELSE AddDependency(g, caller, n)

\* The caller of a method gets data: its body moves on, or the task is done.
Deliver(t, frames, data) ==
    IF frames = <<>>
    THEN /\ stack' = [stack EXCEPT ![t] = <<>>]
         /\ result' = [result EXCEPT ![t] = {data}]
    ELSE /\ stack' = [stack EXCEPT ![t] =
                <<[Head(frames) EXCEPT !.at = @ + 1, !.seen = @ \union data]>> \o Tail(frames)]
         /\ UNCHANGED result

\* Faulty variant of NewCall: the await that comes first is number 0.
NewCallAtZero(k) ==
    [key |-> k, phase |-> "locking", at |-> 0, node |-> NoNode, seen |-> {}]

\* A call of computeAsync, up to its await of the lock.
NewCall(k) ==
    [key |-> k, phase |-> "locking", at |-> 1, node |-> NoNode, seen |-> {}]

\* The decorated method called for key k from within frames: the cached value is
\* returned and linked to the caller, or the call queues for the lock of its key.
CallMethod(t, frames, k) ==
    /\ storage' = Cleaned({k})
    /\ IF Get(k) # NoNode
       THEN /\ graph' = Link(graph, ContextOf(frames), Get(k))
            /\ Deliver(t, frames, value[Get(k)])
            /\ UNCHANGED locks
       ELSE /\ Lock!Request(t, k)
            /\ stack' = [stack EXCEPT ![t] = <<NewCall(k)>> \o frames]
            /\ UNCHANGED <<graph, result>>
    /\ UNCHANGED <<input, value, snapshot, version, raced>>

Start(t, k) ==
    /\ stack[t] = <<>>
    /\ result[t] = {}
    /\ began' = [began EXCEPT ![t] = version]
    /\ CallMethod(t, <<>>, k)

\* Faulty variants: no second look at the registry, a lock that is not released.
RecheckSkipped(k) == NoNode

LeaveLocked(t, k) == UNCHANGED locks

\* The double check, once the lock is acquired.
Recheck(k) == Get(k)

\* The end of the scope of "using _lock".
Leave(t, k) == Lock!Release(t, k)

\* computeAsync after its await of the lock: a second look at the registry, then
\* either the cached value is returned or a new Computed is put in context.
Resume(t) ==
    /\ stack[t] # <<>>
    /\ LET top  == Head(stack[t])
           rest == Tail(stack[t])
           k    == top.key
       IN  /\ top.phase = "locking"
           /\ t \in owners[k]
           /\ storage' = Cleaned({k})
           /\ IF Recheck(k) # NoNode
              THEN /\ graph' = Link(graph, ContextOf(rest), Recheck(k))
                   /\ Deliver(t, rest, value[Recheck(k)])
                   /\ Leave(t, k)
                   /\ UNCHANGED input
              ELSE /\ Construct(k)
                   /\ stack' = [stack EXCEPT ![t] =
                         <<[top EXCEPT !.phase = "computing", !.node = Fresh]>> \o rest]
                   /\ UNCHANGED <<graph, result, locks>>
    /\ UNCHANGED <<value, snapshot, version, history>>

\* The next await of the body of the innermost call.
Computing(t) ==
    /\ stack[t] # <<>>
    /\ Head(stack[t]).phase = "computing"

NextAwait(t) == Body[Head(stack[t]).key][Head(stack[t]).at]

BodyGoesOn(t) == Computing(t) /\ Head(stack[t]).at <= Len(Body[Head(stack[t]).key])

CallNested(t) ==
    /\ BodyGoesOn(t)
    /\ NextAwait(t) \in Key
    /\ CallMethod(t, stack[t], NextAwait(t))
    /\ UNCHANGED began

ReadPlain(t) ==
    /\ BodyGoesOn(t)
    /\ NextAwait(t) \in Plain
    /\ Deliver(t, stack[t], {[cell |-> NextAwait(t), version |-> version[NextAwait(t)],
                              node |-> Head(stack[t]).node]})
    /\ UNCHANGED <<graph, input, value, storage, snapshot, version, locks, history>>

\* MutableState.use() within a body.
UseTracked(t) ==
    /\ BodyGoesOn(t)
    /\ NextAwait(t) \in Tracked
    /\ LET n == snapshot[NextAwait(t)]
       IN  /\ graph' = Link(graph, ContextOf(stack[t]), n)
           /\ Deliver(t, stack[t], value[n])
    /\ UNCHANGED <<input, value, storage, snapshot, version, locks, history>>

\* The body has returned, or has thrown at any of its awaits: the outcome becomes
\* the output, the Computed is registered and hooked, then linked to the caller,
\* and the lock is released.
Finish(t) ==
    /\ Computing(t)
    /\ LET top      == Head(stack[t])
           rest     == Tail(stack[t])
           n        == top.node
           k        == top.key
           isPlaced == storage[k] \in {NoNode, n}
           set      == TrySetOutput(graph, n)
           placed   == IF isPlaced THEN set ELSE Invalidate(set, storage[k])
           hooked   == SetInvalidateCallback(placed, n)
           linked   == Link(hooked, ContextOf(rest), n)
       IN  /\ graph' = linked
           /\ storage' = Unregistered([Unregistered(storage, graph, placed) EXCEPT ![k] = n],
                                      hooked, linked)
           /\ value' = IF graph.state[n] = "Computing"
                       THEN [value EXCEPT ![n] = top.seen] ELSE value
           /\ Deliver(t, rest, top.seen)
           /\ Leave(t, k)
    /\ UNCHANGED <<input, snapshot, version, history>>

-----------------------------------------------------------------------------
(***************************************************************************)
(* Changes.                                                                *)
(***************************************************************************)

\* The methods that read c themselves.
ReadersOf(c) == {k \in Key : c \in Awaits(k)}

\* The computations in progress that read c already.
InFlight(c) ==
    {n \in Node : \E t \in Task : \E i \in 1..Len(stack[t]) :
        /\ stack[t][i].node = n
        /\ \E d \in stack[t][i].seen : d.cell = c /\ d.node = n}

\* Plain data is changed and, in an invalidation scope opened at once, every method
\* that reads it is called (README.md, ProductService.update).
Mutate(c) ==
    /\ version[c] < MaxVersion
    /\ version' = [version EXCEPT ![c] = @ + 1]
    /\ LET roots == {Get(k) : k \in ReadersOf(c)} \ {NoNode}
       IN  /\ graph' = Cascade(graph, roots)
           /\ storage' = Unregistered(Cleaned(ReadersOf(c)), graph, graph')
    /\ raced' = raced \union InFlight(c)
    /\ UNCHANGED <<input, value, snapshot, stack, locks, result, began>>

\* MutableState.set(): the current Computed is invalidated and a new one, with its
\* output set at once, takes its place.
SetTracked(c) ==
    /\ version[c] < MaxVersion
    /\ Construct(c)
    /\ version' = [version EXCEPT ![c] = @ + 1]
    /\ LET invalidated == Invalidate(graph, snapshot[c])
       IN  /\ graph' = TrySetOutput(invalidated, Fresh)
           /\ storage' = Unregistered(storage, graph, invalidated)
    /\ value' = [value EXCEPT ![Fresh] =
                    {[cell |-> c, version |-> version'[c], node |-> Fresh]}]
    /\ snapshot' = [snapshot EXCEPT ![c] = Fresh]
    /\ UNCHANGED <<stack, locks, result, history>>

\* MutableState's dispose: its Computed is invalidated and stays in place.
DisposeTracked(c) ==
    /\ graph' = Invalidate(graph, snapshot[c])
    /\ storage' = Unregistered(storage, graph, graph')
    /\ UNCHANGED <<input, value, snapshot, version, stack, locks, result, history>>

\* Faulty variant of InvalidateAll: the entries are only dropped.
InvalidateAllDropping ==
    /\ storage' = [k \in Key |-> NoNode]
    /\ UNCHANGED <<graph, input, value, snapshot, version, stack, locks, result, history>>

\* ComputedRegistry.invalidateAll(), called after a reconnection.
InvalidateAll ==
    /\ graph' = Cascade(graph, {Get(k) : k \in Key} \ {NoNode})
    /\ storage' = [k \in Key |-> NoNode]
    /\ UNCHANGED <<input, value, snapshot, version, stack, locks, result, history>>

-----------------------------------------------------------------------------
IsInjective(s) == \A c, d \in DOMAIN s : s[c] = s[d] => c = d

\* There is a Computed for every MutableState: its constructor creates one.
ASSUME NodesForCells == \E s \in [Tracked -> Node] : IsInjective(s)

\* Every MutableState has its first Computed, Consistent from the start.
Init ==
    /\ snapshot = CHOOSE s \in [Tracked -> Node] : IsInjective(s)
    /\ input = [n \in {snapshot[c] : c \in Tracked} |->
                    CHOOSE c \in Tracked : snapshot[c] = n]
    /\ graph = [NewGraph EXCEPT
                   !.state  = [n \in Node |-> IF n \in Created THEN "Consistent" ELSE @[n]],
                   !.output = Created]
    /\ version = [c \in Cell |-> 0]
    /\ value = [n \in Node |-> {[cell |-> c, version |-> 0, node |-> n] :
                                   c \in {d \in Tracked : snapshot[d] = n}}]
    /\ storage = [k \in Key |-> NoNode]
    /\ stack = [t \in Task |-> <<>>]
    /\ Lock!Init
    /\ began = [t \in Task |-> version]
    /\ result = [t \in Task |-> {}]
    /\ raced = {}

Run(t) ==
    \/ Resume(t)
    \/ CallNested(t)
    \/ ReadPlain(t)
    \/ UseTracked(t)
    \/ Finish(t)

Next ==
    \/ \E t \in Task : Run(t) \/ \E k \in Key : Start(t, k)
    \/ \E c \in Plain : Mutate(c)
    \/ \E c \in Tracked : SetTracked(c) \/ DisposeTracked(c)
    \/ InvalidateAll

Spec == Init /\ [][Next]_vars

\* Microtasks run, and what a body awaits settles.
FairSpec == Spec /\ \A t \in Task : WF_vars(Run(t))

-----------------------------------------------------------------------------
Served(n) == graph.state[n] = "Consistent"

\* The Computed objects of a key that are served or being computed.
CopiesOf(k) ==
    {n \in Created : input[n] = k /\ Served(n)} \union
    {n \in Node : \E t \in Task : \E i \in 1..Len(stack[t]) :
        stack[t][i].key = k /\ stack[t][i].phase = "computing" /\ stack[t][i].node = n}

\* The methods use the graph as ComputedGraph assumes: whatever they interleave, it
\* stays coherent, its index exact and its dependencies acyclic
\* (computed-decorator.ts, the order of trySetOutput and the addDependency calls).
GraphStaysSound ==
    Coherent(graph) /\ Linked(graph) /\ Settled(graph) /\ Acyclic(graph)

\* A key is never computed twice at a time, nor while a value of it is served, so
\* concurrent callers share one computation (computed-decorator.ts, the lock and
\* the double check after it).
AtMostOneCopy == \A k \in Key : \A m, n \in CopiesOf(k) : m = n

\* Whatever is served is in the registry, where an invalidation scope or
\* invalidateAll() finds it (computed-registry.ts).
ServedIsRegistered ==
    \A n \in Created : input[n] \in Key /\ Served(n) => storage[input[n]] = n

\* A served value reflects the current value of every MutableState it was computed
\* from, through any number of methods (mutable-state.ts, set).
FreshOverTracked ==
    \A n \in Created : \A d \in value[n] :
        Served(n) /\ d.cell \in Tracked => d.version = version[d.cell]

\* A served value reflects plain data as the last change left it, unless the change
\* hit the computation that had just read it (computed-decorator.ts, the
\* invalidation mode and the edges that carry it to the dependants).
StaleOnlyByRace ==
    \A n \in Created : \A d \in value[n] :
        Served(n) /\ d.cell \in Plain =>
            d.version = version[d.cell] \/ d.node \in raced

\* A call returns no MutableState value older than the call, even when it joins a
\* computation that began before it (computed-decorator.ts, the double check).
ReadYourWrites ==
    \A t \in Task : \A data \in result[t] : \A d \in data :
        d.cell \in Tracked => d.version >= began[t][d.cell]

\* README.md, on products changed as Mutate does it: "No manual cache management.
\* No subscriptions. No stale data."
NoStaleData ==
    \A n \in Created : \A d \in value[n] : Served(n) => d.version = version[d.cell]

\* The task is suspended until another one gives up the lock of a key.
WaitsFor(t, u) ==
    /\ stack[t] # <<>>
    /\ Head(stack[t]).phase = "locking"
    /\ u \in owners[Head(stack[t]).key] \ {t}

\* Locks are held across awaits, of other methods too, yet tasks never wait for one
\* another in a circle, and no lock is kept by a task that is out of the method
\* (computed-decorator.ts, "using _lock").
LocksNeverBlock ==
    /\ \A S \in (SUBSET Task) \ {{}} : \E t \in S : \A u \in S : ~WaitsFor(t, u)
    /\ \A k \in Key : \A t \in owners[k] :
          \E i \in 1..Len(stack[t]) : stack[t][i].key = k

\* Every call returns: no chain of locks held across awaits blocks it for ever.
EveryCallReturns == \A t \in Task : stack[t] # <<>> ~> stack[t] = <<>>
=============================================================================
