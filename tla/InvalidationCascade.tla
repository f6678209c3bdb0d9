-------------------------- MODULE InvalidationCascade --------------------------
(***************************************************************************)
(* The inside of invalidate() (packages/fusion/src/computed.ts), which the *)
(* other modules take as one step, and of MutableState.set()               *)
(* (mutable-state.ts): call by call, with the handlers of their TypedEvents *)
(* (core/src/events.ts), which run in the middle of them and may throw,    *)
(* invalidate or set.                                                      *)
(*                                                                         *)
(* All of it is one synchronous call of a timer, a callback or a           *)
(* computation, so the state is a call stack.                              *)
(***************************************************************************)
EXTENDS Computed, Naturals, Sequences, Functions

CONSTANTS
    Cell,           \* the MutableState objects
    Snapshot,       \* the first Computed of each of them
    Sink,           \* a Computed that is still being computed
    Reads,          \* what the other Computed objects were computed from, and the
                    \* Sink so far
    Subscriptions,  \* the choices of who listens to what: sets of pairs of an event
                    \* and a handler
    MaxSet,         \* bound on the calls of set()
    MaxCall         \* bound on the calls from outside

ASSUME SnapshotAssumption ==
    /\ Snapshot \in [Cell -> Node]
    /\ IsInjective(Snapshot)
    /\ Sink \in Node \ Range(Snapshot)

\* The Computed objects there are at the start.
Given == Range(Snapshot) \union {Sink} \union {n \in Node : Reads[n] # {}}

ASSUME ReadsAssumption == Reads \in [Node -> SUBSET (Given \ {Sink})]
ASSUME BoundAssumption == MaxSet \in Nat /\ MaxCall \in Nat

\* The events: onInvalidated of a Computed, and those of a MutableState.
CellEvent == Cell \X {"onInvalidated", "onUpdating", "onUpdated"}
Event == Node \union CellEvent

\* What a handler does when it is called.
Throw == [call |-> "throw"]
Handler ==
    {Throw} \union [call : {"invalidate"}, arg : Given] \union [call : {"set"}, arg : Cell]

ASSUME SubscriptionsAssumption == Subscriptions \subseteq SUBSET (Event \X Handler)

VARIABLES
    graph,     \* the fields of every Computed
    handlers,  \* #handlers of every event
    snapshot,  \* #snapshot.computed of every MutableState
    result,    \* #currentResult of every MutableState: which call of set() it is from
    value,     \* the MutableState every Computed of one belongs to, with its output
    stack,     \* the calls in progress, the innermost one first
    sets,      \* how many calls of set() there were
    calls,     \* how many calls from outside
    expected,  \* history: the graph, had every invalidate() been one step
    skipped,   \* history: the dependants an exception left unvisited
    silenced,  \* history: the Computed objects an exception kept from firing
    spoiled    \* history: the cells with a set() that was cut short or overtaken

cells == <<snapshot, result, value, sets>>
history == <<expected, skipped, silenced, spoiled>>
vars == <<graph, handlers, cells, stack, calls, history>>

\* A call of invalidate() in its loop over the dependants; one of fire(); one of set().
Walking(n, left) == [in |-> "invalidate", node |-> n, left |-> left]
Firing(e) == [in |-> "fire", event |-> e, heard |-> {}]
Setting(c, r, next) == [in |-> "set", cell |-> c, result |-> r, next |-> next]

Frame ==
    [in : {"invalidate"}, node : Node, left : SUBSET Node] \union
    [in : {"fire"}, event : Event, heard : SUBSET Handler] \union
    [in : {"set"}, cell : Cell, result : 1..MaxSet, next : {"onInvalidated", "onUpdating", "new"}]

TypeOK ==
    /\ graph \in Graph
    /\ \A e \in Event : handlers[e] \subseteq Handler
    /\ snapshot \in [Cell -> Node]
    /\ result \in [Cell -> 0..MaxSet]
    /\ DOMAIN value \subseteq Node
    /\ Range(value) \subseteq [cell : Cell, result : 0..MaxSet]
    /\ \A i \in DOMAIN stack : stack[i] \in Frame
    /\ sets \in 0..MaxSet
    /\ calls \in 0..MaxCall
    /\ skipped \union silenced \subseteq Node
    /\ spoiled \subseteq Cell

-----------------------------------------------------------------------------
(***************************************************************************)
(* What a call does at once: the next graph, and the calls it pushes.      *)
(***************************************************************************)

\* A Consistent n, or a Computing one by force, up to the loop over its dependants.
Withdrawn(g, n) ==
    [Detached(g, {n}) EXCEPT !.state[n] = "Invalidated",
                             !.armed    = @ \ {n},
                             !.hooked   = @ \ {n}]

\* Faulty variant of Entered: the deferral is a state instead of a flag.
EnteredByState(g, n) ==
    CASE g.state[n] = "Computing"  -> [g EXCEPT !.state[n] = "Deferred"]
      [] g.state[n] = "Consistent" -> Withdrawn(g, n)
      [] OTHER                     -> g

\* invalidate(): its first stretch.
Entered(g, n) ==
    CASE g.state[n] = "Invalidated" -> g
      [] g.state[n] = "Computing"   -> [g EXCEPT !.deferred = @ \union {n}]
      [] g.state[n] = "Consistent"  -> Withdrawn(g, n)

\* Faulty variant of Calls: the set of dependants is looked at after it was swapped.
CallsAfterSwap(g, n) ==
    IF g.state[n] = "Consistent" THEN <<Walking(n, Withdrawn(g, n).dependants[n])>> ELSE <<>>

\* ... and its loop over the dependants.
Calls(g, n) == IF g.state[n] = "Consistent" THEN <<Walking(n, g.dependants[n])>> ELSE <<>>

\* A new root: invalidate() called by other code than a cascade.
InvalidateCalled(n, rest) ==
    /\ graph' = Entered(graph, n)
    /\ stack' = Calls(graph, n) \o rest
    /\ expected' = Invalidate(expected, n)
    /\ UNCHANGED <<handlers, skipped, silenced, spoiled>>

\* Faulty variant of SetCalled: the result is not kept.
SetCalledForgetting(c, rest) ==
    /\ sets' = sets + 1
    /\ InvalidateCalled(snapshot[c], <<Setting(c, sets + 1, "onInvalidated")>> \o rest)
    /\ UNCHANGED <<result, snapshot, value>>

\* set(), up to the end of the invalidate() it calls.
SetCalled(c, rest) ==
    /\ sets' = sets + 1
    /\ result' = [result EXCEPT ![c] = sets + 1]
    /\ InvalidateCalled(snapshot[c], <<Setting(c, sets + 1, "onInvalidated")>> \o rest)
    /\ UNCHANGED <<snapshot, value>>

\* The calls in progress of one function.
Open(in) == {f \in Range(stack) : f.in = in}

\* An exception unwinds every call, and is caught by nobody.
Thrown ==
    /\ stack' = <<>>
    /\ skipped' = skipped \union UNION {f.left : f \in Open("invalidate")}
    /\ silenced' = silenced \union {f.node : f \in Open("invalidate")}
                            \union (Node \intersect {f.event : f \in Open("fire")})
    /\ spoiled' = spoiled \union {f.cell : f \in Open("set")}
    /\ expected' = graph
    /\ UNCHANGED <<graph, handlers, cells>>

-----------------------------------------------------------------------------
(***************************************************************************)
(* The steps of the innermost call.                                        *)
(***************************************************************************)

Inside(call) == stack # <<>> /\ Head(stack).in = call

\* Faulty variant of Walk: the loop ends with a dependant that is being computed.
WalkStopping ==
    /\ Inside("invalidate")
    /\ \E m \in Head(stack).left :
         /\ graph' = Entered(graph, m)
         /\ stack' = Calls(graph, m) \o
              <<[Head(stack) EXCEPT !.left = IF graph.state[m] = "Computing" THEN {} ELSE @ \ {m}]>>
              \o Tail(stack)
    /\ UNCHANGED <<handlers, cells, history>>

\* The next dependant.
Walk ==
    /\ Inside("invalidate")
    /\ \E m \in Head(stack).left :
         /\ graph' = Entered(graph, m)
         /\ stack' = Calls(graph, m) \o <<[Head(stack) EXCEPT !.left = @ \ {m}]>> \o Tail(stack)
    /\ UNCHANGED <<handlers, cells, history>>

\* After the last one, onInvalidated fires.
WalkOver ==
    /\ Inside("invalidate")
    /\ Head(stack).left = {}
    /\ stack' = <<Firing(Head(stack).node)>> \o Tail(stack)
    /\ UNCHANGED <<graph, handlers, cells, history>>

\* fire() iterates over the live set: those not yet called.
Unheard == handlers[Head(stack).event] \ Head(stack).heard

Handle(h, rest) ==
    \/ h.call = "throw" /\ Thrown
    \/ /\ h.call = "invalidate"
       /\ InvalidateCalled(h.arg, rest)
       /\ UNCHANGED cells
    \/ /\ h.call = "set"
       /\ IF sets < MaxSet
          THEN SetCalled(h.arg, rest)
          ELSE stack' = rest /\ UNCHANGED <<graph, handlers, cells, history>>

\* The next handler is called.
Notify ==
    /\ Inside("fire")
    /\ \E h \in Unheard :
         Handle(h, <<[Head(stack) EXCEPT !.heard = @ \union {h}]>> \o Tail(stack))

\* After the last one, the event of a Computed is cleared.
FireOver ==
    /\ Inside("fire")
    /\ Unheard = {}
    /\ stack' = Tail(stack)
    /\ LET e == Head(stack).event
       IN  handlers' = IF e \in Node THEN [handlers EXCEPT ![e] = {}] ELSE handlers
    /\ UNCHANGED <<graph, cells, history>>

\* A Computed nobody has constructed yet; the nodes bound how many are.
Existing == Given \union DOMAIN value
Fresh == CHOOSE n \in Node : n \notin Existing

\* set() goes on when what it called has returned: its handlers are told, then the new
\* Computed takes the place of the old one, whatever has happened meanwhile.
SetFires ==
    /\ Inside("set")
    /\ Head(stack).next \in {"onInvalidated", "onUpdating"}
    /\ LET f == Head(stack)
       IN  stack' = <<Firing(<<f.cell, f.next>>),
                      [f EXCEPT !.next = IF @ = "onInvalidated" THEN "onUpdating" ELSE "new"]>>
                    \o Tail(stack)
    /\ UNCHANGED <<graph, handlers, cells, history>>

SetInstalls ==
    /\ Inside("set")
    /\ Head(stack).next = "new"
    /\ Existing # Node
    /\ LET c == Head(stack).cell
           r == Head(stack).result
       IN  \E n \in {Fresh} :
             /\ graph' = TrySetOutput(graph, n)
             /\ expected' = TrySetOutput(expected, n)
             /\ value' = [m \in DOMAIN value \union {n} |->
                           IF m = n THEN [cell |-> c, result |-> r] ELSE value[m]]
             /\ snapshot' = [snapshot EXCEPT ![c] = n]
             /\ stack' = <<Firing(<<c, "onUpdated">>)>> \o Tail(stack)
             /\ spoiled' = IF \A v \in Range(value) : v.cell = c => v.result < r
                           THEN spoiled ELSE spoiled \union {c}
    /\ UNCHANGED <<handlers, result, sets, skipped, silenced>>

-----------------------------------------------------------------------------
(***************************************************************************)
(* Calls from outside.                                                     *)
(***************************************************************************)

Outside ==
    /\ stack = <<>>
    /\ calls < MaxCall
    /\ calls' = calls + 1

\* An invalidation scope, a timer, or the dispose() of a MutableState.
InvalidateNode(n) == Outside /\ InvalidateCalled(n, <<>>) /\ UNCHANGED cells

Set(c) == Outside /\ sets < MaxSet /\ SetCalled(c, <<>>)

\* The Sink reads n: when n is Invalidated, it is invalidated by force.
Depend(n) ==
    /\ Outside
    /\ graph.state[Sink] = "Computing"
    /\ graph.state[n] # "Computing"
    /\ IF graph.state[n] = "Invalidated"
       THEN /\ graph' = Withdrawn([graph EXCEPT !.dependencies[Sink] = @ \union {n}], Sink)
            /\ stack' = <<Walking(Sink, graph.dependants[Sink])>>
       ELSE /\ graph' = AddDependency(graph, Sink, n)
            /\ stack' = <<>>
    /\ expected' = AddDependency(expected, Sink, n)
    /\ UNCHANGED <<handlers, cells, skipped, silenced, spoiled>>

\* The Sink gets its output, and is invalidated at once if that was deferred.
SetOutput ==
    /\ Outside
    /\ graph.state[Sink] = "Computing"
    /\ LET set == [graph EXCEPT !.deferred = @ \ {Sink}]
       IN  IF Sink \in graph.deferred
           THEN /\ graph' = Entered(TrySetOutput(set, Sink), Sink)
                /\ stack' = Calls(TrySetOutput(set, Sink), Sink)
           ELSE graph' = TrySetOutput(graph, Sink) /\ stack' = <<>>
    /\ expected' = TrySetOutput(expected, Sink)
    /\ UNCHANGED <<handlers, cells, skipped, silenced, spoiled>>

-----------------------------------------------------------------------------
Init ==
    /\ graph = [NewGraph EXCEPT
                  !.state = [n \in Node |->
                      IF n # Sink /\ (Reads[n] # {} \/ n \in Range(Snapshot))
                      THEN "Consistent" ELSE "Computing"],
                  !.output = {n \in Node \ {Sink} : Reads[n] # {} \/ n \in Range(Snapshot)},
                  !.dependencies = Reads,
                  !.dependants = [n \in Node |-> {m \in Node : n \in Reads[m]}]]
    /\ \E S \in Subscriptions : handlers = [e \in Event |-> {h \in Handler : <<e, h>> \in S}]
    /\ snapshot = Snapshot
    /\ result = [c \in Cell |-> 0]
    /\ value = [n \in Range(Snapshot) |->
                   [cell |-> CHOOSE c \in Cell : Snapshot[c] = n, result |-> 0]]
    /\ stack = <<>>
    /\ sets = 0
    /\ calls = 0
    /\ expected = graph
    /\ skipped = {}
    /\ silenced = {}
    /\ spoiled = {}

Inner == Walk \/ WalkOver \/ Notify \/ FireOver \/ SetFires \/ SetInstalls

Next ==
    \/ Inner /\ UNCHANGED calls
    \/ \E n \in Existing : InvalidateNode(n) \/ Depend(n)
    \/ \E c \in Cell : Set(c)
    \/ SetOutput

Spec == Init /\ [][Next]_vars

-----------------------------------------------------------------------------
\* When the outermost call has returned, the graph is what its one-step account says,
\* however the handlers interleaved further invalidations and sets with it, and no
\* event of a withdrawn Computed has a handler left to call (computed.ts, invalidate
\* and #forceInvalidate).  After an exception, the account starts again.
CascadeIsComplete ==
    stack = <<>> =>
        /\ graph = expected
        /\ \A n \in Node \ silenced : graph.state[n] = "Invalidated" => handlers[n] = {}

\* The dependants that calls in progress have yet to visit.
ToVisit == UNION {f.left : f \in Open("invalidate")}

\* At any moment, also to a handler, a Computed is served over a withdrawn one only if
\* a cascade has yet to visit it, or was kept from doing so by an exception: the set of
\* dependants is swapped out before they are visited (computed.ts:214-222).
StaleOnlyUnderWay ==
    \A n \in Node : \A d \in graph.dependencies[n] :
        graph.state[n] = "Consistent" /\ graph.state[d] = "Invalidated" =>
            n \in ToVisit \union skipped

\* The last call of set() wins, and what earlier ones brought is withdrawn, with sets
\* nested in the handlers of other sets.  This fails only for a cell whose set() was
\* cut short by an exception, or was overtaken: it installs its result although a set()
\* nested in it has brought a newer one (mutable-state.ts:63-86).
LatestSetWins ==
    stack = <<>> =>
        \A c \in Cell \ spoiled :
            /\ value[snapshot[c]].result = result[c]
            /\ \A n \in DOMAIN value :
                  value[n].cell = c /\ graph.state[n] = "Consistent" => n = snapshot[c]
=============================================================================
