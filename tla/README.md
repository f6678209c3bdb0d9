# Formal models of fnode

fnode is a TypeScript port of the ideas of ActualLab.Fusion: methods decorated with
`@computed` are cached, the values they were computed from are tracked, and a change
withdraws every cached value that rests on it. This directory holds TLA+ models of that
machinery, the TLC configurations that check them on small instances, and theorems with
proofs that TLAPS checks for instances of every size.

Paths below are relative to the repository; `fusion/`, `core/` and so on stand for
`packages/<name>/src/`.

## The system

JavaScript runs one callback at a time: code between two `await`s is atomic, and
everything else interleaves. Each model therefore has one action per stretch of code
between two suspension points.

| Part | State it keeps | Operations | What makes it correct |
|---|---|---|---|
| `Computed` (`fusion/computed.ts`) | state, output, deferred flag, links to dependencies and dependants, timer, callback | `addDependency`, `trySetOutput`, `invalidate`, the forced invalidation, `whenInvalidated`, the timer | a value that is served rests only on values that are served; links exact in both directions; timers run exactly for served values; no waiter misses the event |
| `AsyncLock`, `AsyncLockSet` (`core/`) | a locked flag and a queue per entry, a use count, a map of entries | `lock`, the releaser | one holder per key, first come first served, entries neither leaked nor dropped early |
| `@computed` methods (`fusion/computed-decorator.ts`, `computed-registry.ts`, `compute-context.ts`, `invalidation.ts`) | registry, input locks, the context of each async call | call, double check, completion, invalidation scope, `invalidateAll` | one computation per key at a time; what is served can be found and invalidated; no stale values; calls return |
| `MutableState` (`fusion/mutable-state.ts`) | current `Computed`, events | `set`, `use`, dispose | whoever used it is withdrawn when it is set |
| `ComputedState`, `StateSnapshot`, `UpdateDelayer` (`fusion/`) | snapshot, counters, the update loop | the loop, dispose | keeps up with invalidations, stops when disposed |
| RPC: `RpcPeer`, dispatcher, proxy, `capture` (`rpc/`, `fusion/capture.ts`) | tables of outbound and inbound calls, a local `Computed` per remote value | call, compute call, Ok / Error / Invalidate / Cancel, close | an answered compute call is invalidated when its value is; calls are settled; tables do not leak |
| `ReconnectingTransport` (`rpc/client/reconnect.ts`), WebSocket transports and server (`rpc/client/ws-transport.ts`, `rpc/server/`) | inner transport, attempts, flags; a peer per connection | disconnect, backoff, attach, dispose, open, message, close | nothing of an earlier connection is served over the next one; once disposed it stays closed |
| `Commander`, `InvalidationMiddleware` (`commandr/`), auth service and session middleware (`auth/`) | handlers, filters, the context of a command | `call`, filters, the second run of the handler | every command that changed data invalidates what it changed |
| `ComputedInput` (`core/computed-input.ts`) | the ids given to services | key of a call | different calls have different keys |
| React hooks (`react/`) | subscriptions | mount, update, unmount | the view follows the state |

The hard parts: computations suspended in the middle while what they read changes; a
cascade that runs while other nodes are still being computed; locks held across `await`s
of other methods; objects (lock entries, `Computed`s) that are replaced while old
references to them are still in use; answers and notifications under way while the values
they speak of change, the connection closes, or the next connection takes its place;
handlers that throw or call back in the middle of a cascade; commands that are declared to
the cache in a second pass, which an exception may skip. `PROJECT.json` lists each hazard at
its line, with the properties that cover it.

## Modules

```
TransitiveInvalidation      what the graph promises (abstract)
Computed                    the methods of Computed, as operators from graph to graph
 └ ComputedGraph            state machine: any interleaving of those methods  ── implements TransitiveInvalidation
    └ MCComputedGraph       bounds
 └ ComputedProofs           lemmas: what each method preserves
    └ ComputedGraphProofs   invariants of ComputedGraph and the refinement, for every set of nodes
KeyedMutex                  what the lock set promises (abstract)
AsyncLockSet                entries on the heap, queues, use counts           ── implements KeyedMutex
 └ AsyncLockSetProofs       its invariants and the refinement, for every set of tasks, keys and addresses
ComputedInput               the keys of calls, by which locks and cached values are looked up
 └ MCAsyncLockSet           the lock set and the keys side by side; bounds, and the calls
ComputeMethods              decorator + registry + contexts + MutableState; EXTENDS Computed, INSTANCE KeyedMutex
 └ MCComputeMethods         bounds
 └ ComputeMethodsProofs     its safety properties, for all methods, cells and tasks; EXTENDS ComputedProofs
ComputedStates              the update loop of ComputedState over a method and a MutableState; EXTENDS Computed
 └ MCComputedStates         bounds
 └ ComputedStatesProofs     its safety properties, for all states; EXTENDS ComputedProofs
InvalidationCascade         a cascade and MutableState.set() call by call, with their handlers; EXTENDS Computed
 └ MCInvalidationCascade    bounds
 └ InvalidationCascadeProofs  its safety properties, for any graph, cells and handlers; EXTENDS ComputedProofs
ReconnectingTransport       the client's transport over one connection after another
RpcComputeCalls             proxy, peers, connections and dispatcher for compute calls; EXTENDS Computed,
                            INSTANCE ReconnectingTransport
 └ MCRpcComputeCalls        bounds
 └ RpcComputeCallsProofs    its safety properties, for all views, keys, calls and connections; EXTENDS ComputedProofs
Commands                    commander, its filters and contexts, over an abstract cache
 └ MCCommands               bounds
 └ CommandsProofs           its safety properties, for all handlers, pipelines and callers
```

**Computed** has one record, the graph, with the private fields of every `Computed`
(`state`, `output`, `deferred` for `#invalidateOnSetOutput`, `dependencies`,
`dependants`, `armed` for a live timer, `hooked` for a set callback). Each method is an
operator that takes the graph before the call to the graph after it, because callers
chain several such calls between two awaits. `invalidate()` recurses depth first through
the dependants; since it visits a node at most once and what it does to a node does not
depend on the order, its outcome is given by the least set of nodes that holds the root
and is closed under "Consistent dependant of" (`Reached`), by the links those nodes drop
(`Detached`) and by the computations in progress that the walk meets and only flags
(`Met`). The forced invalidation is the same without the deferral.

**ComputedGraph** lets any node call any method at any time, under two conditions that
every caller in the repository keeps: a node does not depend on itself, and it depends on
nodes that have left the state Computing (the decorator and the proxy link a `Computed`
after its `trySetOutput`, `MutableState` publishes one only with its output set). It adds
watchers that await `whenInvalidated()`.

**TransitiveInvalidation** knows only which values each value was computed from and how
far each has got. Withdrawing a value withdraws exactly its direct and indirect readers.
`ComputedGraph` implements it with `dependencies` for `reads` and with `Doomed` for a
`Computing` node whose deferred flag is set.

**AsyncLockSet** models entries as heap objects with addresses, since a task that queued
on an entry keeps using it whatever the map holds. `lock()` is split at its await. The
state `granted` is the time between the resolution of a waiter's promise and the microtask
in which it runs. Two awaits in a row (`AsyncLock.lock` inside `AsyncLockSet.lock`) are one
step: between them no shared state is touched.

**KeyedMutex** is the promise: an owner and a queue per key.

**ComputeMethods** has callers (`Task`), each with a stack of async calls it is in. A
frame is a call that waits for its lock (`locking`) or runs its body (`computing`); the
context of `AsyncLocalStorage` is the `Computed` of the frame around it (`ContextOf`). A
body is the sequence of what it awaits (`Body`): other methods, plain data, MutableStates.
`CallMethod` is the replacement method up to the first await, `Resume` the stretch from
the lock to the body, `Finish` the stretch from the end of the body to the return, with
the chain `trySetOutput`, `register`, `setInvalidateCallback`, `addDependency` and the
release of the lock in one step, as no await separates them. A body that throws goes the
same way with an error as its output, so `Finish` may happen at any await. `Mutate`
changes a plain datum and, in an invalidation scope opened in the same step, calls every
method that reads it, as the README's `ProductService.update` does. Values are sets of
data: which cell, at which version, read by which computation. The lock set is taken as
`KeyedMutex`, which `AsyncLockSet` implements.

**ComputedStates** is the loop of `ComputedState`. `pc` says where it is: `computing` (in
`#compute`), `updated` (the snapshot is replaced, the `while` condition not yet looked at),
`watching` (awaiting `whenInvalidated()`), `delaying`, `ended`. Each microtask boundary at
which `dispose()` can slip in is a boundary between actions. The compute function awaits a
sequence of sources: the MutableState itself, or a cached method that uses it and that is
itself suspended between its read and its return. A `Computed` is recycled when no
variable refers to it (`Released`) and no other `Computed` depends on it, which makes the
model finite although the loop is endless; `NothingLeaks` says that an object the loop let go
of is linked to nothing. `Hooked`
states have the handler of `useComputed`, which throws on a `Computed` without an output.

**InvalidationCascade** opens what the other modules take as one step. All of it is
synchronous, so its state is a call stack: a frame is a call of `invalidate()` in its loop
over the dependants, of `fire()`, or of `set()` between two of its stretches. `Entered` is
what `invalidate()` does before its loop, `Walk` one turn of it, `WalkOver` the fire that
ends it; `Notify` calls one handler, which may throw, invalidate a `Computed` or set a
`MutableState`. `SetFires` and `SetInstalls` are what `set()` does once `invalidate()` has
returned: it installs its own result without another look. An exception unwinds every call
(`Thrown`), as nothing in the repository catches it below the caller. `Sink` is a
computation in progress, which reads (`Depend`) and ends (`SetOutput`) between cascades.
`expected` is a history variable: the graph that the one-step operators of `Computed` give
for the same calls. `CascadeIsComplete` compares the two whenever the stack is empty, so it
justifies those operators for the rest of the project; what an exception cuts off is
remembered in `skipped`, `silenced` and `spoiled`, and the comparison starts again.

**ReconnectingTransport** has the fields of the class and where its loop is suspended.
`Retry` is the head of the loop, which `InnerCloses` and `ConnectFails` run into;
`Connects` attaches a connection, whatever `#closed` says. Attempts are bounded by
`maxAttempts`, an option of the code, connections by `MaxConnection`.

**RpcComputeCalls** composes it with the peers at both ends. On the client, each compute
call has a `Computed` (`rpc-proxy.ts` constructs one right before it draws the call's id, so
both are numbered together), and each view is a computation, with a `Computed` of its own,
that awaits the proxy and starts again when it was invalidated. `Begin`, `Locked` and
`Answered` are the three stretches of `handleComputeCall` between its awaits; the
continuation of the last one runs some microtasks after the promise of the call was settled,
so an Invalidate may be handled in between. Messages of a direction arrive in order. The
server's dispatch is suspended between the moment the method reads its data (`Compute`) and
the moment the dispatcher goes on: `Respond` over an open transport, `DispatchRejected` over a
closed one, where `sendOk`, the `sendError` of the catch block and the one of the handler in
`peer.ts:186` all throw. What the rejected promise that is left does is up to the host: the
dispatch is forgotten, or the process ends (`ProcessEnds`) with every dispatch and connection
it has, and takes no further one (`running`). The server's graph is reduced to what the
dispatcher relies on: a `Computed` rests on a version of its data and is Invalidated once
there is a newer one, whether it has an output yet or not; `ComputeMethods` has the details.
So the handlers that will still fire are those of `Subscribed`.

Each end closes in a step of its own, and what is under way to it is lost. The client's peer
is told (`Told`) only when its transport is closed for good. A new connection gets a new peer
on the server; `since` is the first call made over it. `onReconnected` is bound to
`ComputedRegistry.invalidateAll()`, whose comment offers it for that. Timers and sockets call
back when no microtask is left (`Drained`), so a call settled before a connection is made has
been taken up by then. `late` is a history variable: the calls whose `Computed` was already
Invalidated when the dispatcher subscribed.

**Commands** has callers, each with a stack of frames: handlers at their next operation (write
a cell, call the computed method of one, call a command) and filters at their first or second
await. A frame knows its place in the pipeline, the `index` of `next()`; every one, that of
the session filter too, returns in a step of its own. A handler runs in two passes, as
`InvalidationMiddleware` makes it: its `change` operations, then, in the invalidation scope,
its `declare` operations. That a handler declares what it changes, and changes nothing while
it declares, is what the README asks of it (`DeclarationAssumption`). `items` is the bag that
nested contexts share. A filter that tries again is not in the repository; it shows what
`Commander.call` does when `next()` is called twice: its index is used up, so the handler runs
without the filters in between. The cache of a cell is `none`, `fresh`, `stale` (computed
before the last change), or `excused`: stale because the invalidation that should have hit it
was lost to a computation in progress (the race of `methods_stale`), an exception, or a
repeated `next()`. `owes` are the cells a frame, or what it called, has changed and not yet
declared.

**ComputedInput** has the id of each service, given on first use, and the key of each input
constructed, as text. Here the conversion is the subject, so it is modelled by what it does:
strings quoted with their escapes, other scalars as they print, arrays and objects as the hash
of `fnv1aStr` in base 36. Numbers of 32 bits are pairs of 16, as TLC's integers have 32 bits
and the product by `FNV_PRIME` has up to 56. It is not taken modulo 2^32 as FNV's would be:
`^=` leaves a number with a sign, and the product is a double of 53 bits, so large ones are
`Rounded` before `>>> 0`. Values are records in place of JavaScript's, an object with its
properties in the order of insertion.

## Runs

| Run | Question | Bounds |
|---|---|---|
| `graph` | Do the graph's invariants hold and does it implement `TransitiveInvalidation`? | 4 nodes (one with a timer), 1 watcher; symmetry over the nodes without a timer |
| `locks` | Does the lock set implement `KeyedMutex` (and so exclude), account for its entries and grant every request? Are the keys of two calls equal exactly when the calls are? | 3 tasks, 2 keys, 3 addresses; inputs with 2 services, 2 methods, 23 argument lists |
| `methods` | Are computations shared, registered, coherent and fresh, and do locks never block in a circle? | 2 tasks with one call each, 2 nested methods, 1 plain cell, 1 MutableState, each changed once, 6 `Computed` objects; symmetry over the tasks |
| `methods_live` | Does every call return? | as above without the MutableState, 4 objects |
| `methods_stale` (violation) | Is a served value always up to date? | as `methods` |
| `states` | Does a state come to rest on the current value, leak nothing, and start nothing once disposed? | 1 state awaiting a method, then a MutableState set twice; 7 objects |
| `states_hook` (violation) | Does the loop end only when disposed? | the same with the handler of `useComputed` |
| `cascade` | Does a cascade do what its one-step account says when handlers run in the middle of it, and does the last `set()` win? | 2 MutableStates, a diamond, a computation in progress; up to 2 subscriptions; 3 sets, 2 calls from outside |
| `rpc` | Is a stale answer always notified, are the tables exact, is nothing of an earlier connection served, does nobody wait in vain, do calls return and views end up current? | 2 views of one key, which changes once and fails after that; 2 connections, 2 attempts; 4 calls |
| `rpc_push` (violation) | Does every invalidation reach the client's cache? | the same without failures |
| `rpc_dispose` (violation) | Does a disposed transport stay closed? | the same without failures |
| `commands` | Is a change visible once its command has returned, and does a session stay in its call? | 2 callers, 2 cells, 4 commands (one unhandled), 3 orders of the filters, 1 exception |

RpcComputeCalls needs one call to begin with, one for the change, one for the new connection,
and one for a call that fails because the transport is reconnecting; two views of one key
compete for its lock. Calls of different keys share only the connection. Two attempts let one
fail before the next succeeds or the loop gives up; a third connection would meet the same
state as the second. It may come to rest (every view current, no change left), so deadlock is
not checked.

In InvalidationCascade the diamond's east side also reads the second MutableState, so a
cascade may be started in the middle of another one over the same nodes; the computation in
progress has read the west side and is flagged. Two subscriptions are enough for a handler
that sets, within whose `set()` another handler throws; three sets for a set nested in a
nested one. In Commands, one command calls another in both passes, one calls a command without
a handler, which throws. InvalidationCascade stops when its calls are used up, so deadlock is
not checked there. `Given` are the objects of the start; when `set()` has used up the other
nodes, no further one is constructed (`Existing # Node`).

In ComputedInput the arguments are those of `computed-input.test.ts` and near misses of them: a
number and its text, an absent value and the word for it, a quote or a comma in a string, a
bracket or a nesting more, the order of items and of properties. Each list is used with two
services and two methods, and with the first of both again once the other inputs are there. The
two components share no state, so run `locks` constructs all inputs first and lets the tasks
start then; their two keys stand for any two of these. Of arguments that are arrays or objects
the run can only show that these do not collide. Others do: the hash has 32 bits, and
`{ x: 0, y: 37 }` and `{ x: 135, y: 217 }` share the key `1q3g20s`, so do `{ id: 95748 }` and
`{ id: 211001 }`, and the hash of `[2054]` is the text of the number 7244. `1n` and `1` have one
text, and every `Date` or `Map` has that of `{}`.

ComputedStates has one state since states do not see one another; two changes of its
MutableState let one hit the method in flight and the next hit the recomputation. At most
six objects are referred to at once, so the seventh keeps construction from blocking.

Why the bounds are enough to be interesting: four nodes hold a chain of three plus a
second path to its end (a diamond), so a cascade reaches a node twice, meets a computation
in progress and crosses a forced invalidation. Three lock tasks let one release while one
is queued and one arrives, with an entry deleted and created again. Two callers of two
nested methods let one caller wait for a lock the other holds while it holds another
itself, join its computation, and read a cell before and after its change; six objects are
enough for each method to be computed twice after two MutableState values. When the
objects run out no further one is constructed (`Construct`), so `methods` does not check
for deadlock; neither does `methods_live`, where a task stops after its only call.

**Fairness.** `FairSpec` of `AsyncLockSet` assumes that resumed microtasks run and that a
holder disposes its releaser, as every caller in the repository declares it with `using`.
`FairSpec` of `ComputeMethods` assumes that each suspended caller goes on: what a body
awaits settles, and microtasks run. Changes and new calls are not assumed to happen.
`FairSpec` of `ComputedStates` assumes the same of the loop and that delays pass; nothing
forces a change or a disposal. `RpcComputeCalls` assumes only that the two processes do not
idle while a message, a dispatch, a delay or a computation is waiting; closes are forced
only on an end whose other end has closed.

**The violations** are disagreements between text and code. `methods_stale`: the README's
"No stale data." does not hold for a change that hits a method between its read and its
return; the invalidation scope looks in the registry, where the `Computed` will be put only
later (`computed-decorator.ts:45`, `:151`). `StaleOnlyByRace` in run `methods` shows that
this race is the only way to serve a stale value, and `FreshOverTracked` that data kept in
a MutableState is not exposed to it. `states_hook`: `computed-state.ts:112` says of the
`catch` of the update loop "Loop cancelled — expected on dispose", but a handler of
`onUpdated` that throws gets there too, and the one of `useComputed` throws when the
state's `Computed` was force-invalidated, which a change during a method in flight brings
about; the component then never updates again.

`rpc_push`: the README says that "When a cached result is invalidated, the server pushes a
notification to connected clients", but `dispatch.ts:53` subscribes to a `Computed` that
may be Invalidated by then and will never fire again; the client keeps the stale value.
`StaleIsNotified` in run `rpc` shows that while the connection is up this is the only way a
client serves a stale value for longer than a message takes. `rpc_dispose`: a test is named
"does not reconnect after manual dispose" (`reconnect.test.ts:149`), but `dispose()` while
`connect()` is pending does not keep the new connection from being attached to the closed
transport (`reconnect.ts:122`), where nobody will close it.

What run `rpc` exempts. A call whose request or answer was lost with a connection that was
replaced is never settled, as the wrapper does not tell the peer of a disconnect after which it
connects again (`reconnect.ts:99`): it is `Hung`, and holds the lock of its key, so every later
call of that key waits for ever. (The test "rejects pending calls on disconnect",
`peer.test.ts:99`, disposes its peer.) `EveryCallReturns`, `EventuallyCurrent` and
`NoWaitInVain` are about the other calls. An error answer is cached without a subscription
(`dispatch.ts:64`). A transport closed for good ends all notifications. The entry of a call
whose send threw stays in its table (`peer.ts:88`), and so does that of a `late` call.
`reconnect.ts:7` announces that the transport "Re-fires pending invalidation subscriptions",
which no code does; `NothingFromBefore` shows that `onReconnected` bound to `invalidateAll()`,
an assumption of the model that no code in the repository makes true, does what is needed
instead, and its faulty variant `OnReconnectedNothing` that without it stale values stay.

What run `cascade` exempts. A handler that throws ends `invalidate()` before its loop
(`computed.ts:225`), and the dependants that were not visited, unlinked by then, stay served
(`skipped`); `StaleOnlyUnderWay` shows that nothing else leaves one behind. A `set()` made by a
handler while another is between `mutable-state.ts:67` and `:80` is overwritten by that one's
older value (`spoiled`); `LatestSetWins` shows that no other set is lost.

What run `commands` exempts. A command whose handler throws after a change leaves the cache as
it was (`invalidation-filter.ts:25`), and a filter that calls `next()` again skips the filters
after it (`commander.ts:103`). `SessionsStayInTheirCall` speaks of the sessions of one outermost
call: a nested command shares the bag, puts its own session in it and leaves it there
(`session-middleware.ts:29`), which the outer handler then finds, in its second pass too.

## Proofs

Every safety property that a passing run checks is a theorem for all values of the constants,
but `KeysTellApart`, which is false for some (`StaleOnlyUntilDeclared` of `Commands` is proved
under a condition on the filters), from assumptions the modules name: that the null object is
no object (`NoNode`, `NoEntry`), that timed nodes are nodes, and what is listed with each.
Theorems are about `Spec`; they hold of `FairSpec`, which the runs with liveness properties
use, as that implies `Spec`.

**ComputedProofs** proves, method by method, that each operator of `Computed` takes a graph
with `GraphInv` to one with `GraphInv`: typing, `Coherent`, `Linked`, `Timed`, `Settled`,
`Doomed` and `Acyclic`. None of these is inductive alone: coherence after a cascade needs the
reverse index to be exact (`Linked`), coherence after a completion needs that a computation
that read a withdrawn value is flagged (`Doomed`), acyclicity needs that nobody depends on a
node still being computed (`Settled`). `WalkRestores` is the heart: what a cascade leaves
behind. The lemmas that end in `Later` say how far a method may change a graph (a state never
goes back, a served value keeps its links), for the modules that compose several methods in
one step; those that end in `Deferred` say that no flag is lost on the way, and `CascadeReach`
that a walk from a node whose dependants have none goes no further than them.

**ComputedGraphProofs** proves the six invariants and the type invariant of `ComputedGraph`,
and `Spec => ImplementsTransitiveInvalidation`. Its invariant adds to `GraphInv` that no
wake-up is lost (`NoLostWakeup`: nobody awaits the event of a node that is Invalidated). The
refinement rests on `ReachedIsReaders`: walking the reverse index reaches exactly the readers.
`DoomedTheorem`, `AcyclicTheorem` and `NoLostWakeupTheorem` state the parts that no run checks
by itself: TLC finds every violation of `Doomed` through `Coherent`, that dependencies form no
cycle through `GraphStaysSound` in run `methods`, and a lost wake-up through
`EventuallyCurrent` in run `states`.

**AsyncLockSetProofs** proves mutual exclusion (`MutualExclusion`, in the run a consequence of
the refinement), that the map holds exactly the entries in use, and `Spec =>
ImplementsKeyedMutex`. The inductive invariant adds what makes entries trustworthy although
they are replaced in the map while tasks still hold references to them: whoever waits for a
key or has its lock uses the entry the map holds for it (`Captured`), two keys never share an
entry (`Separate`), an entry in the map is locked for somebody (`Taken`), the tasks queued on
an entry are those that wait for its key, each once (`QueuedOnce`), and its use count is their
number with the owner (`Counted`). From `Counted`, an entry leaves the map exactly with its
last user.

**ComputeMethodsProofs** proves the eight safety properties of run `methods`, assuming of the
constants that methods await methods and cells in no circle (`BodyAssumption`), and that there
is a `Computed` for each MutableState. The argument has three strands.

* Locks. Frames of one caller nest along the bodies (`Chained`) and the owner of a key is in
  its method (`LocksHeld`), so whoever waits for a key waits for a method further down:
  `LocksNeverBlock`. While a key is computed nothing of it is served (`ComputedAlone`), hence
  `AtMostOneCopy`.
* The registry. Everything served is registered or current (`Registered`, `CellsCurrent`,
  `ServedIsRegistered`), so that an invalidation scope finds it.
* Data. What a value reflects it read itself, or got from a value it depends on
  (`ValuesSupported`). As a served value depends on served ones only and dependencies form no
  cycle, data of a MutableState are current in all of them: `FreshOverTracked`. Plain data that
  a computation read itself are current unless it was hit by the race (`OwnReadsCurrent`), for
  which nobody else may know its reads before it is published (`OwnUnpublished`):
  `StaleOnlyByRace`. What a task has seen since its call is no older than the call
  (`SeenSinceCall`): `ReadYourWrites`.

**ComputedStatesProofs** proves type correctness, `ServedIsCurrent`, `FallbackNeverFails`,
`NothingLeaks` and the action property `DisposedStaysIdle`, whatever the states await. The
invariant says where the loop keeps a `Computed` of its own (`LoopsShaped`, `Private`), which
ones are complete or already withdrawn when they are replaced (`Completed`, `Replaceable`),
that a version came from the cell or from a dependency (`Supported`), and that what was let go
of depends on nothing and is depended on only while it is Invalidated (`Unlinked`). With
`Linked` the last gives `NothingLeaks`; `Supported` with `Coherent` and `Acyclic` gives
`ServedIsCurrent`.

**InvalidationCascadeProofs** proves the four invariants of run `cascade` for any graph, any
MutableStates and any handlers, which may throw, invalidate or set to any depth. It assumes
that each MutableState has a first `Computed` of its own and that nothing has read the one
still being computed (`SnapshotAssumption`, `ReadsAssumption`). `CompleteTheorem` is the
justification of the operators of `Computed`, and so of every module that uses them: however
cascades interrupt one another, the graph they leave is the one their single steps give.

* `Completion(graph, P)` is the graph once every node of `P` has been visited, and the
  invariant `Completes` says that for the nodes the stack has yet to visit this is `expected`,
  at every moment. Three lemmas make it inductive: `VisitCompletes` (visiting a node and
  putting its dependants in its place does not change what comes out), `RootCompletes` (a new
  `invalidate()` on top of unfinished cascades comes to the same as one after them), and
  `OutputCompletes` (neither does an output set meanwhile). They do not need the graph to be
  acyclic.
* `Rests` accounts for each node with a withdrawn dependency: a frame has yet to visit it, an
  exception skipped it, or it is flagged. It gives `StaleOnlyUnderWay`; with `Blank` (nothing
  refers to an object not constructed yet) and `Settled` it survives `Depend` and `SetOutput`.
* `Fires` accounts for the handlers of each withdrawn `Computed`: gone, on their way, or
  silenced by an exception.
* `Nested` says that the calls of `set()` on the stack are younger the further in they are.
  With `Replacing` (such a call has withdrawn what it replaces, or a younger one has brought
  something) and `Latest` it gives `LatestSetWins`.

**CommandsProofs** proves the three invariants of run `commands` for any handlers, callers and
pipelines, from the assumptions of `Commands`.

* Sessions: `SessionsStayInTheirCall` is inductive with the types, once it is known of every
  step which commands may be on a stack after it (`Moves`). It holds under filters that try
  again, too.
* Declarations: `DeclaredTheorem` states `StaleOnlyUntilDeclared` under `NoRetry`: no filter
  calls `next()` twice, as none in the repository does. The invariant is about neighbours on a
  stack (`Linked`): a filter and what it called, the middleware and its second pass, a handler
  and the command it called. `Owing` says who may owe what: nobody in an invalidation scope,
  nobody outside of the middleware, and inside of it only cells the command itself changes,
  hence will declare. `Debt` takes from what the middleware owes what the second pass above it
  has declared by now. Every stale value is in somebody's debt (`DebtInv`), and when the
  second pass ends, nothing is left of the middleware's.

**RpcComputeCallsProofs** proves the six safety properties of run `rpc` for any views, keys,
failing versions, changes, calls and connections, with the transport's loop and its attempts.
The bounds of the module are its assumptions (`BoundsAssumption`: natural numbers, at least one
connection), with `NodeAssumption` (a `Computed` is that of a view or of a call, none has a
timer) and `NoneAssumption`. The invariant follows a call from one end to the other.

* On the client: views depend on calls and calls on nothing (`LinksShaped`), so what one step
  withdraws can be told; a call awaited holds the lock of its key (`Awaiting`), and everything
  served is registered (`Registered`), so that a flush finds it: `BeforeIsOver`, which gives
  `NothingFromBefore`.
* Between the ends: request, dispatch, answer and notification follow one another
  (`PlacesInv`). At any time a call is in one of these places, or subscribed, or answered too
  late; an answer is under way before the notification (`InOrder`), and a notification is
  about a value that is outdated (`Notifications`). `EntriesAwaited` is inductive with these.
* `StaleIsNotified` needs to know in addition that a call whose answer the server still owes is
  pending (`Pending`), and that the entry of an answered call is taken away by its notification
  only, which has then withdrawn the `Computed`, or flagged it when the view had not taken the
  answer yet (`Notified`). So the entry of a stale served answer is still there, and
  `EntriesAwaited` says what it waits for.
* `WithdrawnWithReason`, an action property: a notification withdraws its own call and the
  views on it (`InvalidateReach`), and is never about a current one.
* `NoWaitInVain` rests on an invariant of its own (`WaitInv`): a pending call is in the table
  and the transport not closed for good (`Kept`), what the server has answered or withdrawn is
  not pending unless the answer is under way (`Answerable`), and a transport without a
  connection looks for one (`Looping`). It is the part of `EveryCallReturns` that needs no
  fairness: whoever waits, waits for something that some process will do, except for the calls
  that a new connection has left behind.

Model-checked only:

* everything under fairness, which TLAPS cannot treat: `EveryRequestGranted` of `locks`,
  `EveryCallReturns` of `methods_live` and `rpc`, `EventuallyCurrent` of `states` and `rpc`;
* `StaleOnlyUntilDeclared` with a filter that tries again. It does not hold for all `Handlers`
  then: outside of the middleware such a filter cuts the command off from the invalidation
  scope, and what it changed may be passed to the middleware of a command around it, which
  does not declare it. The constants of run `commands` keep within what the invariant excuses;
* `KeysTellApart`, about recursive functions of data.

## Not modelled, and why

* Keys in the other modules, which take them as given; in `ComputedInput`, characters beyond
  printable ASCII. `Result` is a data type, the version generator a counter without users.
* `ComputedRegistry.clear()`, which only tests call; `Promise.all` within one body; timers of
  methods (`AutoInvalidate = {}` in `ComputeMethods`: a timer is one more caller of
  `invalidate()`); methods that await themselves, which would wait for their own lock
  (`BodyAssumption`).
* Handlers that subscribe or unsubscribe others while an event fires; none in the repository
  does.
* Regular RPC calls, which share the tables of the peer but no state with compute calls;
  Cancel messages, which nobody sends; the service registry, filled before a connection opens.
* An `onReconnected` that throws, which would make the loop connect once more.
* A `ComputedState` disposed while its value stays Consistent: its loop stays in
  `whenInvalidated()` (`computed-state.ts:94`), as nothing there listens to the signal; only
  that it computes nothing is checked (`DisposedStaysIdle`).
* A disposed MutableState under a `ComputedState`, whose loop then recomputes without a pause.
* Handlers of commands that catch the failure of a nested call, or start several at once.
* Sockets, JSON, the ws library and the React runtime: external.
