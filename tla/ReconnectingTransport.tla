------------------------ MODULE ReconnectingTransport ------------------------
(***************************************************************************)
(* The client's transport of @fnodejs/rpc that wraps one connection after  *)
(* another (packages/rpc/src/client/reconnect.ts).  A WebSocket transport  *)
(* used without it (client/ws-transport.ts) is the case MaxAttempts = 0:   *)
(* it closes with its only connection.                                     *)
(*                                                                         *)
(* One callback of the wrapped connection, one stretch of the reconnecting *)
(* loop between two awaits, or one call of the application is one step.    *)
(* RpcComputeCalls composes them with the peers at both ends.              *)
(***************************************************************************)
EXTENDS Naturals

CONSTANTS
    MaxAttempts,   \* options.maxAttempts
    MaxConnection  \* bound on the connections that are made

VARIABLES
    inner,     \* #inner: which connection it is, counted from 1
    up,        \* whether #inner is not closed
    loop,      \* where #scheduleReconnect() is suspended, if it runs
    attempts,  \* #attempts
    closed     \* #closed

TypeOK ==
    /\ inner \in 1..MaxConnection
    /\ up \in BOOLEAN
    /\ loop \in {"none", "delaying", "connecting"}
    /\ attempts \in 0..MaxAttempts
    /\ closed \in BOOLEAN

\* The constructor, with a connection that is open.
Init ==
    /\ inner = 1
    /\ up = TRUE
    /\ loop = "none"
    /\ attempts = 0
    /\ closed = FALSE

\* send() does not throw.
CanSend == up /\ ~closed

\* The onClose of the transport fires: the peer is told.
Gone == ~closed /\ closed'

\* The head of the loop: a next attempt, after its delay, or the end of the loop, which
\* closes the transport if it is not yet.
Retry ==
    IF ~closed /\ attempts < MaxAttempts
    THEN /\ loop' = "delaying"
         /\ attempts' = attempts + 1
         /\ UNCHANGED closed
    ELSE /\ loop' = "none"
         /\ closed' = TRUE
         /\ UNCHANGED attempts

\* The wrapped connection closes, by itself.  A closed transport no longer cares.
InnerCloses ==
    /\ up
    /\ up' = FALSE
    /\ IF closed THEN UNCHANGED <<loop, attempts, closed>> ELSE Retry
    /\ UNCHANGED inner

DelayOver ==
    /\ loop = "delaying"
    /\ loop' = IF closed THEN "none" ELSE "connecting"
    /\ UNCHANGED <<inner, up, attempts, closed>>

ConnectFails ==
    /\ loop = "connecting"
    /\ Retry
    /\ UNCHANGED <<inner, up>>

\* connect() has brought a new connection, which is attached; nothing looks at #closed.
Connects ==
    /\ loop = "connecting"
    /\ inner < MaxConnection
    /\ inner' = inner + 1
    /\ up' = TRUE
    /\ attempts' = 0
    /\ loop' = "none"
    /\ UNCHANGED closed

\* [Symbol.dispose](): the connection is closed with it, the loop is left alone.
Dispose ==
    /\ ~closed
    /\ closed' = TRUE
    /\ up' = FALSE
    /\ UNCHANGED <<inner, loop, attempts>>
=============================================================================
