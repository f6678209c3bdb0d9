---------------------------- MODULE RpcComputeCalls ----------------------------
(***************************************************************************)
(* Compute calls of @fnodejs/rpc: the client's proxy, which caches the     *)
(* answers as Computed objects (client/rpc-proxy.ts), the peers with their *)
(* tables of calls (peer.ts, calls.ts), the connections between them, one  *)
(* after another (client/reconnect.ts, server/ws-server.ts and the         *)
(* WebSocket transports), and the server's dispatcher, which answers a     *)
(* call and subscribes to the value it answered with (server/dispatch.ts,  *)
(* fusion/src/capture.ts).                                                 *)
(*                                                                         *)
(* A key is a computed method of the server with its arguments.  What it   *)
(* is computed from is a version; the server's Computed of a version is    *)
(* Invalidated by the next one, also while it is being computed, as with a *)
(* MutableState (ComputeMethods has the methods).  On the client, a        *)
(* view is a computation, such as that of a ComputedState, which awaits    *)
(* the proxy's method for one key and is computed again once Invalidated.  *)
(***************************************************************************)
EXTENDS Computed, SequencesExt, Naturals

CONSTANTS
    View,        \* the computations of the client
    Key,
    KeyOf,       \* the key each of them awaits
    Fails,       \* the versions of a key for which the method throws
    MaxCall,     \* bound on the calls of the client
    MaxVersion,  \* bound on the changes of each key
    MaxAttempts, \* options.maxAttempts of the client's transport
    MaxConnection, \* bound on its connections
    NoCall, NoVersion

Call == 1..MaxCall
Version == 0..MaxVersion

ASSUME KeyOfAssumption == KeyOf \in [View -> Key]
ASSUME FailsAssumption == Fails \subseteq Key \X Version
ASSUME NodeAssumption ==
    Node = View \union Call /\ View \intersect Call = {} /\ AutoInvalidate = {}
ASSUME BoundsAssumption ==
    {MaxCall, MaxVersion, MaxAttempts} \subseteq Nat /\ MaxConnection \in Nat \ {0}
ASSUME NoneAssumption == NoCall \notin Call /\ NoVersion \notin Version

VARIABLES
    graph,     \* the fields of the client's Computed objects: of calls and of views
    storage,   \* the client's ComputedRegistry
    pc,        \* how far each view is
    got,       \* the call that answers it
    nextCall,  \* #nextCallId of the client's peer
    key,       \* the key of each call
    answer,    \* the promise of each call
    outbound,  \* #outbound of the client's peer
    toServer,  \* the ComputeCall messages under way
    toClient,  \* the answers and notifications under way
    serving,   \* the calls whose dispatch has not ended
    read,      \* the version the method computed the answer of each call from
    inbound,   \* #inbound of the server's peer for the latest connection
    version,   \* the current version of each key
    running,   \* whether the server's process has not ended
    inner, up, loop, attempts, closed,  \* the client's transport
    accepted,  \* whether the server's transport of the latest connection is not closed
    since,     \* the first call made over the latest connection
    late       \* history: the calls answered from a Computed already Invalidated

client == <<graph, storage, pc, got, nextCall, key, answer, outbound>>
server == <<serving, read, inbound, version, running, late>>
transport == <<inner, up, loop, attempts, closed>>
connection == <<toServer, toClient, accepted, since>>
vars == <<client, server, transport, connection>>

Transport == INSTANCE ReconnectingTransport

MessageType == {"Ok", "Error", "Invalidate"}

Message(type, c) == [type |-> type, call |-> c]

TypeOK ==
    /\ graph \in Graph
    /\ storage \in [Key -> Call \union {NoCall}]
    /\ pc \in [View -> {"idle", "locking", "calling", "returned"}]
    /\ got \in [View -> Call \union {NoCall}]
    /\ nextCall \in 1..(MaxCall + 1)
    /\ \A c \in 1..(nextCall - 1) : key[c] \in Key
    /\ answer \in [Call -> {"pending", "ok", "error"}]
    /\ toServer \in Seq(Call)
    /\ toClient \in Seq([type : MessageType, call : Call])
    /\ outbound \union inbound \union serving \union late \subseteq 1..(nextCall - 1)
    /\ read \in [Call -> Version \union {NoVersion}]
    /\ version \in [Key -> Version]
    /\ running \in BOOLEAN
    /\ Transport!TypeOK
    /\ accepted \in BOOLEAN
    /\ since \in 1..nextCall

-----------------------------------------------------------------------------
(***************************************************************************)
(* The client's registry.                                                  *)
(***************************************************************************)

Served(c) == graph.state[c] = "Consistent"

Get(k) == IF storage[k] # NoCall /\ Served(storage[k]) THEN storage[k] ELSE NoCall

Cleaned(k) == [storage EXCEPT ![k] = Get(k)]

\* The entries left of map when the graph goes from g to h: the callback of a Computed
\* that becomes Invalidated unregisters it.
Unregistered(map, g, h) ==
    [k \in Key |->
        IF map[k] \in g.hooked /\ g.state[map[k]] # h.state[map[k]] THEN NoCall ELSE map[k]]

\* ComputedRegistry.invalidateAll().
Flush ==
    /\ graph' \in {Cascade(graph, {Get(k) : k \in Key} \ {NoCall})}
    /\ storage' = [k \in Key |-> NoCall]

-----------------------------------------------------------------------------
(***************************************************************************)
(* The proxy.                                                              *)
(***************************************************************************)

\* View v gets the answer of call c, and depends on it.
Receive(v, g, c) ==
    /\ graph' \in {AddDependency(g, v, c)}
    /\ pc' = [pc EXCEPT ![v] = "returned"]
    /\ got' = [got EXCEPT ![v] = c]

\* A view that shows nothing valid is computed: it calls the proxy, which returns what
\* is cached or waits for the lock of the key.
Begin(v) ==
    /\ pc[v] = "idle"
    /\ ~Served(v)
    /\ storage' = Cleaned(KeyOf[v])
    /\ IF Get(KeyOf[v]) # NoCall
       THEN Receive(v, Constructed(graph, v), Get(KeyOf[v]))
       ELSE /\ graph' = Constructed(graph, v)
            /\ pc' = [pc EXCEPT ![v] = "locking"]
            /\ UNCHANGED got
    /\ UNCHANGED <<nextCall, key, answer, outbound, server, transport, connection>>

\* Faulty variant of ComputeCall: the exception of the send is caught and forgotten.
ComputeCallUnsettled(c, k) ==
    /\ nextCall' = c + 1
    /\ key' = [key EXCEPT ![c] = k]
    /\ outbound' = outbound \union {c}
    /\ toServer' = IF Transport!CanSend THEN Append(toServer, c) ELSE toServer
    /\ UNCHANGED answer

\* RpcPeer.computeCall(): a send through a transport that is closed or reconnecting
\* throws, after the call was entered in the table.
ComputeCall(c, k) ==
    /\ nextCall' = c + 1
    /\ key' = [key EXCEPT ![c] = k]
    /\ outbound' = outbound \union {c}
    /\ IF Transport!CanSend
       THEN toServer' = Append(toServer, c) /\ UNCHANGED answer
       ELSE answer' = [answer EXCEPT ![c] = "error"] /\ UNCHANGED toServer

\* Faulty variant of Recheck: the registry is not looked at again.
RecheckSkipped(k) == NoCall

\* The double check, once the lock is acquired.
Recheck(k) == Get(k)

\* No other call of the key holds its lock: what is cached by now is returned, or the
\* server is called.
Locked(v) ==
    /\ pc[v] = "locking"
    /\ \A u \in View : pc[u] = "calling" => KeyOf[u] # KeyOf[v]
    /\ storage' = Cleaned(KeyOf[v])
    /\ IF Recheck(KeyOf[v]) # NoCall
       THEN /\ Receive(v, graph, Recheck(KeyOf[v]))
            /\ UNCHANGED <<nextCall, key, answer, outbound, toServer>>
       ELSE /\ nextCall \in Call
            /\ ComputeCall(nextCall, KeyOf[v])
            /\ pc' = [pc EXCEPT ![v] = "calling"]
            /\ got' = [got EXCEPT ![v] = nextCall]
            /\ UNCHANGED graph
    /\ UNCHANGED <<server, transport, toClient, accepted, since>>

\* The promise of the call is settled: the answer, or the error, becomes the output of
\* a Computed, which is registered and linked to the view.
Answered(v) ==
    /\ pc[v] = "calling"
    /\ answer[got[v]] # "pending"
    /\ LET c == got[v]
           k == KeyOf[v]
       IN  \E set \in {TrySetOutput(graph, c)} :
           \E placed \in {IF storage[k] = NoCall THEN set ELSE Invalidate(set, storage[k])} :
             /\ storage' = [Unregistered(storage, graph, placed) EXCEPT ![k] = c]
             /\ Receive(v, SetInvalidateCallback(placed, c), c)
    /\ UNCHANGED <<nextCall, key, answer, outbound, server, transport, connection>>

\* The view's own computation ends.
Finish(v) ==
    /\ pc[v] = "returned"
    /\ graph' \in {TrySetOutput(graph, v)}
    /\ pc' = [pc EXCEPT ![v] = "idle"]
    /\ UNCHANGED <<storage, got, nextCall, key, answer, outbound,
                   server, transport, connection>>

-----------------------------------------------------------------------------
(***************************************************************************)
(* The client's peer.                                                      *)
(***************************************************************************)

Settle(C, outcome) ==
    answer' = [c \in Call |-> IF c \in C /\ answer[c] = "pending" THEN outcome ELSE answer[c]]

\* Faulty variant of HandleOk: compute calls leave the table like the others.
HandleOkDeleting(c) ==
    /\ Settle({c} \intersect outbound, "ok")
    /\ outbound' = outbound \ {c}
    /\ UNCHANGED <<graph, storage>>

\* The entry of an answered compute call stays, for its invalidation.
HandleOk(c) ==
    /\ Settle({c} \intersect outbound, "ok")
    /\ UNCHANGED <<graph, storage, outbound>>

HandleError(c) ==
    /\ Settle({c} \intersect outbound, "error")
    /\ outbound' = outbound \ {c}
    /\ UNCHANGED <<graph, storage>>

\* Faulty variant of HandleInvalidate: the entry stays in the table.
HandleInvalidateKeeping(c) ==
    /\ \E g \in {IF c \in outbound THEN Invalidate(graph, c) ELSE graph} :
         graph' = g /\ storage' = Unregistered(storage, graph, g)
    /\ UNCHANGED <<answer, outbound>>

\* The callback given to computeCall invalidates the Computed of this call.
HandleInvalidate(c) ==
    /\ outbound' = outbound \ {c}
    /\ \E g \in {IF c \in outbound THEN Invalidate(graph, c) ELSE graph} :
         graph' = g /\ storage' = Unregistered(storage, graph, g)
    /\ UNCHANGED answer

HandleMessage(m) ==
    \/ m.type = "Ok" /\ HandleOk(m.call)
    \/ m.type = "Error" /\ HandleError(m.call)
    \/ m.type = "Invalidate" /\ HandleInvalidate(m.call)

ClientReceives ==
    /\ up
    /\ toClient # <<>>
    /\ toClient' = Tail(toClient)
    /\ HandleMessage(Head(toClient))
    /\ UNCHANGED <<pc, got, nextCall, key, server, transport, toServer, accepted, since>>

\* Faulty variants of HandleClose: the calls are dropped without an answer, or are
\* rejected with nothing.
HandleCloseSilently ==
    /\ outbound' = {}
    /\ UNCHANGED answer

HandleCloseWithNothing ==
    /\ Settle(outbound, "undefined")
    /\ outbound' = {}

\* #handleClose(): the calls without an answer are rejected.
HandleClose ==
    /\ Settle(outbound, "error")
    /\ outbound' = {}

\* What the peer does once its transport took a step: only a transport that is closed
\* for good tells it.
Told == IF Transport!Gone THEN HandleClose ELSE UNCHANGED <<answer, outbound>>

\* The connection closes at the client's end, by itself or with the transport; what is
\* under way to the client is lost.
ClientCloses ==
    /\ Transport!InnerCloses \/ Transport!Dispose
    /\ Told
    /\ toClient' = <<>>
    /\ UNCHANGED <<graph, storage, pc, got, nextCall, key, server, toServer, accepted, since>>

\* A delay of the reconnecting loop is over, or an attempt has failed.
Reconnecting ==
    /\ Transport!DelayOver \/ Transport!ConnectFails
    /\ Told
    /\ UNCHANGED <<graph, storage, pc, got, nextCall, key, server, connection>>

\* Timers and sockets call back when no microtask is left: what was answered has been
\* taken.
Drained == \A v \in View : pc[v] = "calling" => answer[got[v]] = "pending"

\* Faulty variant of OnReconnected: the client's cache is left alone.
OnReconnectedNothing == UNCHANGED <<graph, storage>>

\* options.onReconnected, as computed-registry.ts provides for it.
OnReconnected == Flush

\* A new connection: the server has a new peer for it, and what was under way over the
\* old one is lost.
Connects ==
    /\ Transport!Connects
    /\ running
    /\ Drained
    /\ OnReconnected
    /\ accepted' = TRUE
    /\ since' = nextCall
    /\ inbound' = {}
    /\ toServer' = <<>>
    /\ toClient' = <<>>
    /\ UNCHANGED <<pc, got, nextCall, key, answer, outbound, serving, read, version, running,
                   late>>

-----------------------------------------------------------------------------
(***************************************************************************)
(* The server.                                                             *)
(***************************************************************************)

\* #handleInboundCall(): the dispatch of c begins.
HandleInboundCall(c) == serving' = serving \union {c}

ServerReceives ==
    /\ accepted
    /\ toServer # <<>>
    /\ toServer' = Tail(toServer)
    /\ HandleInboundCall(Head(toServer))
    /\ UNCHANGED <<client, read, inbound, version, running, late, transport,
                   toClient, accepted, since>>

\* Within the dispatch of c, the method reads what it is computed from, or returns
\* what was computed from it and is Consistent.
Compute(c) ==
    /\ c \in serving
    /\ read[c] = NoVersion
    /\ read' = [read EXCEPT ![c] = version[key[c]]]
    /\ UNCHANGED <<client, serving, inbound, version, running, late, transport, connection>>

\* The transport of the peer that got call c.
Reachable(c) == accepted /\ c >= since

\* sendOk(), sendError(), sendInvalidate().
Sent(type, C) == toClient \o SetToSeq({Message(type, c) : c \in C})

\* The value captured may throw: the method threw, or its Computed was invalidated, which
\* may have been before it had an output.
ValueThrows(c) == <<key[c], read[c]>> \in Fails \/ read[c] # version[key[c]]

\* The dispatch ends: an error is sent when there is no value; otherwise the value is
\* sent, and the call subscribes to it.
Respond(c) ==
    /\ c \in serving
    /\ read[c] # NoVersion
    /\ Reachable(c)
    /\ serving' = serving \ {c}
    /\ \/ /\ ValueThrows(c)
          /\ toClient' = Sent("Error", {c})
          /\ UNCHANGED <<inbound, late>>
       \/ /\ <<key[c], read[c]>> \notin Fails
          /\ toClient' = Sent("Ok", {c})
          /\ inbound' = inbound \union {c}
          /\ late' = IF read[c] = version[key[c]] THEN late ELSE late \union {c}
    /\ UNCHANGED <<client, read, version, running, transport, toServer, accepted, since>>

\* The server's process ends, with every dispatch and the latest connection.
ProcessEnds ==
    /\ running' = FALSE
    /\ serving' = {}
    /\ inbound' = {}
    /\ accepted' = FALSE
    /\ toServer' = <<>>

\* A closed transport takes no answer: sendOk throws, so does sendError in the catch block,
\* and again in the handler of the rejected dispatch.  What becomes of the rejection that
\* is left is up to the host: unless it listens for them, the process ends.
DispatchRejected(c) ==
    /\ c \in serving
    /\ read[c] # NoVersion
    /\ ~Reachable(c)
    /\ \/ ProcessEnds
       \/ serving' = serving \ {c} /\ UNCHANGED <<inbound, running, accepted, toServer>>
    /\ UNCHANGED <<client, read, version, late, transport, toClient, since>>

\* Those whose handler is on the event of a Computed that is still Consistent.
Subscribed == {c \in inbound : read[c] = version[key[c]]}

\* The server's Computed of k is invalidated, and its subscribers are notified.
Change(k) ==
    /\ running
    /\ version[k] < MaxVersion
    /\ version' = [version EXCEPT ![k] = @ + 1]
    /\ toClient' = Sent("Invalidate", {c \in Subscribed : key[c] = k})
    /\ UNCHANGED <<client, serving, read, inbound, running, late, transport,
                   toServer, accepted, since>>

\* handleClose() or dispose() of the server's transport.
ServerTransportCloses == accepted /\ accepted' = FALSE

\* It closes by itself or with the server, and the subscriptions end.
ServerCloses ==
    /\ ServerTransportCloses
    /\ inbound' = {}
    /\ toServer' = <<>>
    /\ UNCHANGED <<client, serving, read, version, running, late, transport, toClient, since>>

-----------------------------------------------------------------------------
Init ==
    /\ graph = NewGraph
    /\ storage = [k \in Key |-> NoCall]
    /\ pc = [v \in View |-> "idle"]
    /\ got = [v \in View |-> NoCall]
    /\ nextCall = 1
    /\ key = [c \in Call |-> CHOOSE k \in Key : TRUE]
    /\ answer = [c \in Call |-> "pending"]
    /\ outbound = {}
    /\ toServer = <<>>
    /\ toClient = <<>>
    /\ serving = {}
    /\ read = [c \in Call |-> NoVersion]
    /\ inbound = {}
    /\ version = [k \in Key |-> 0]
    /\ running = TRUE
    /\ Transport!Init
    /\ accepted = TRUE
    /\ since = 1
    /\ late = {}

Run(v) == Begin(v) \/ Locked(v) \/ Answered(v) \/ Finish(v)

Serve(c) == Compute(c) \/ Respond(c) \/ DispatchRejected(c)

Next ==
    \/ \E v \in View : Run(v)
    \/ \E c \in Call : Serve(c)
    \/ \E k \in Key : Change(k)
    \/ ClientReceives \/ ServerReceives
    \/ ClientCloses \/ Reconnecting \/ Connects
    \/ ServerCloses

Spec == Init /\ [][Next]_vars

\* What goes on by itself: dispatches end, messages arrive, an end learns that the other
\* closed, delays pass, connecting succeeds or fails, computations go on.
Progress ==
    \/ \E c \in Call : Serve(c)
    \/ ServerReceives
    \/ ~up /\ ServerCloses
    \/ ~accepted /\ ClientCloses
    \/ Reconnecting
    \/ ClientReceives
    \/ Connects
    \/ \E v \in View : Run(v)

\* The two processes do not both idle while one has something to do.  No step of
\* theirs can be put off for ever by the others, of which there are finitely many.
FairSpec == Spec /\ WF_vars(Progress)

-----------------------------------------------------------------------------
Requested(c) == \E i \in 1..Len(toServer) : toServer[i] = c

UnderWay(type, c) == \E i \in 1..Len(toClient) : toClient[i] = Message(type, c)

\* The client serves an answer the server has withdrawn.
ServedStale(c) == Served(c) /\ answer[c] = "ok" /\ read[c] # version[key[c]]

\* Neither the client's transport nor an end of its latest connection is closed.
Connected == ~closed /\ up /\ accepted

\* As long as the connection is up, an answer that has become stale is served only
\* until its notification arrives, or it was stale when it was sent: also an answer of
\* an earlier connection (dispatch.ts; peer.ts, #handleOk and #handleInvalidate;
\* reconnect.ts, onReconnected).
StaleIsNotified ==
    Connected =>
        \A c \in Call : ServedStale(c) => c \in late \/ UnderWay("Invalidate", c)

\* An entry the outbound table got over the latest connection has a message to wait
\* for, from the request to the invalidation, and nothing the server still has to say
\* about a call finds its entry gone (peer.ts, #outbound).
EntriesAwaited ==
    Connected =>
        \A c \in since..(nextCall - 1) :
            c \in outbound <=>
                \/ Requested(c)
                \/ c \in serving \union Subscribed \union late
                \/ \E type \in MessageType : UnderWay(type, c)

\* Nobody waits for an answer that cannot come: after the client's transport has closed
\* for good no call is pending; before, the answer is on its way, or the connection is
\* ending, or a new one has left the call behind (peer.ts, computeCall and #handleClose;
\* dispatch.ts, whose every path answers).
NoWaitInVain ==
    \A v \in View : pc[v] = "calling" /\ answer[got[v]] = "pending" =>
        /\ ~closed
        /\ \/ got[v] < since
           \/ loop # "none"
           \/ up /\ ~accepted
           \/ Requested(got[v])
           \/ got[v] \in serving
           \/ UnderWay("Ok", got[v])
           \/ UnderWay("Error", got[v])

\* Once a connection has replaced another, the cache holds nothing from before: no
\* answer whose subscription ended with the server's peer, and no "Transport is
\* reconnecting" either (reconnect.ts:125; computed-registry.ts, invalidateAll).
NothingFromBefore ==
    Connected => \A c \in Call : c < since => ~Served(c)

\* An answer that is current is withdrawn by a new connection only: no call is repeated
\* that would replace it, and no invalidation hits another call than its own
\* (rpc-proxy.ts, the double check and register).
WithdrawnWithReason ==
    [][\A c \in Call :
          /\ Served(c)
          /\ answer[c] = "ok"
          /\ read[c] = version[key[c]]
          /\ graph'.state[c] = "Invalidated"
          => inner' # inner]_vars

\* A call of k awaits an answer that was lost with its connection: while the transport
\* reconnects, it does not tell the peer to reject it (reconnect.ts:99).
Hung(k) ==
    \E v \in View :
        /\ KeyOf[v] = k
        /\ pc[v] = "calling"
        /\ answer[got[v]] = "pending"
        /\ got[v] < since

\* Every call of the proxy returns, whenever the connection closes for good; only a
\* call that a new connection has left behind does not, and with it all those that
\* wait for its lock (peer.ts, #handleClose; rpc-proxy.ts, the lock of the key).
EveryCallReturns ==
    \A v \in View :
        pc[v] \in {"locking", "calling"} ~> pc[v] \in {"idle", "returned"} \/ Hung(KeyOf[v])

\* Once the changes are over, a view comes to rest, if no lost answer holds the lock of
\* its key.  It shows the current value, unless the transport is closed, the value was
\* stale when it was sent, or the server has answered with an error.
EventuallyCurrent ==
    \A v \in View :
        <>[]\/ Hung(KeyOf[v])
            \/ /\ pc[v] = "idle"
               /\ Served(v)
               /\ \/ closed
                  \/ got[v] \in late
                  \/ answer[got[v]] = "error" /\ read[got[v]] # NoVersion
                  \/ read[got[v]] = version[KeyOf[v]]

\* README.md: "When a cached result is invalidated, the server pushes a notification to
\* connected clients, which mark their local caches as stale".
PushReachesCaches ==
    Connected => \A c \in Call : ServedStale(c) => UnderWay("Invalidate", c)

\* reconnect.test.ts: "does not reconnect after manual dispose".
DisposedStaysClosed == ~(closed /\ up)
=============================================================================
