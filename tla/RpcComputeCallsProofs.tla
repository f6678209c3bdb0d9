------------------------ MODULE RpcComputeCallsProofs ------------------------
(***************************************************************************)
(* Type correctness and the safety properties of RpcComputeCalls, for any  *)
(* number of views, keys, calls, changes and connections.                  *)
(***************************************************************************)
EXTENDS RpcComputeCalls, ComputedProofs, FiniteSetTheorems

-----------------------------------------------------------------------------
(***************************************************************************)
(* Sequences of messages.                                                  *)
(***************************************************************************)

Within(m, s) == \E i \in 1..Len(s) : s[i] = m

\* No message is there twice.
Once(s) == \A i, j \in 1..Len(s) : s[i] = s[j] => i = j

\* m is received before n.
Before(m, n, s) == \A i, j \in 1..Len(s) : s[i] = m /\ s[j] = n => i < j

\* What is taken from a queue was its head, and nothing else is lost.
LEMMA WithinTail ==
    ASSUME NEW S, NEW s \in Seq(S), s # <<>>, NEW m
    PROVE  /\ Within(m, s) <=> m = Head(s) \/ Within(m, Tail(s))
           /\ Tail(s) \in Seq(S)
           /\ Head(s) \in S
           /\ Within(Head(s), s)
<1>1. /\ Len(s) \in Nat \ {0} /\ Len(Tail(s)) = Len(s) - 1
      /\ Tail(s) \in Seq(S) /\ Head(s) = s[1] /\ Head(s) \in S
      /\ \A i \in 1..(Len(s) - 1) : Tail(s)[i] = s[i + 1]
  OBVIOUS
<1>2. ASSUME Within(m, s), m # Head(s)
      PROVE  Within(m, Tail(s))
  <2>1. PICK i \in 1..Len(s) : s[i] = m
    BY <1>2 DEF Within
  <2>2. PICK j \in 1..(Len(s) - 1) : i = j + 1
    <3>1. i # 1
      BY <1>1, <1>2, <2>1
    <3>2. i - 1 \in 1..(Len(s) - 1) /\ i = (i - 1) + 1
      BY <1>1, <3>1
    <3> QED BY <3>2
  <2>3. Tail(s)[j] = m
    BY <1>1, <2>1, <2>2
  <2> QED BY <1>1, <2>2, <2>3 DEF Within
<1>3. ASSUME Within(m, Tail(s))
      PROVE  Within(m, s)
  <2>1. PICK i \in 1..(Len(s) - 1) : Tail(s)[i] = m
    BY <1>1, <1>3 DEF Within
  <2>2. i + 1 \in 1..Len(s) /\ s[i + 1] = m
    BY <1>1, <2>1
  <2> QED BY <2>2 DEF Within
<1>4. Within(Head(s), s)
  BY <1>1 DEF Within
<1> QED BY <1>1, <1>2, <1>3, <1>4

\* What is left of a queue keeps its order, and the head is not in it again.
LEMMA OrderedTail ==
    ASSUME NEW S, NEW s \in Seq(S), s # <<>>
    PROVE  /\ Once(s) => Once(Tail(s)) /\ ~Within(Head(s), Tail(s))
           /\ \A m, n : Before(m, n, s) => Before(m, n, Tail(s))
           /\ \A m, n : Before(m, n, s) /\ Head(s) = n => ~Within(m, s)
<1>1. /\ Len(s) \in Nat \ {0} /\ Len(Tail(s)) = Len(s) - 1
      /\ Tail(s) \in Seq(S) /\ Head(s) = s[1]
      /\ \A i \in 1..(Len(s) - 1) : Tail(s)[i] = s[i + 1]
  OBVIOUS
<1>2. \A i \in 1..(Len(s) - 1) : i + 1 \in 1..Len(s)
  BY <1>1
<1>3. ASSUME Once(s)
      PROVE  Once(Tail(s))
  <2>1. ASSUME NEW i \in 1..(Len(s) - 1), NEW j \in 1..(Len(s) - 1), Tail(s)[i] = Tail(s)[j]
        PROVE  i = j
    <3>1. s[i + 1] = s[j + 1]
      BY <1>1, <2>1
    <3>2. i + 1 = j + 1
      BY <1>2, <1>3, <3>1 DEF Once
    <3> QED BY <3>2
  <2> QED BY <1>1, <2>1 DEF Once
<1>4. ASSUME Once(s)
      PROVE  ~Within(Head(s), Tail(s))
  <2>1. ASSUME NEW i \in 1..(Len(s) - 1), Tail(s)[i] = Head(s)
        PROVE  FALSE
    <3>1. s[i + 1] = s[1] /\ 1 \in 1..Len(s)
      BY <1>1, <2>1
    <3>2. i + 1 = 1
      BY <1>2, <1>4, <3>1 DEF Once
    <3> QED BY <3>2
  <2> QED BY <1>1, <2>1 DEF Within
<1>5. ASSUME NEW m, NEW n, Before(m, n, s)
      PROVE  Before(m, n, Tail(s))
  <2>1. ASSUME NEW i \in 1..(Len(s) - 1), NEW j \in 1..(Len(s) - 1),
               Tail(s)[i] = m, Tail(s)[j] = n
        PROVE  i < j
    <3>1. s[i + 1] = m /\ s[j + 1] = n
      BY <1>1, <2>1
    <3>2. i + 1 < j + 1
      BY <1>2, <1>5, <3>1 DEF Before
    <3> QED BY <3>2
  <2> QED BY <1>1, <2>1 DEF Before
<1>6. ASSUME NEW m, NEW n, Before(m, n, s), Head(s) = n
      PROVE  ~Within(m, s)
  <2>1. s[1] = n /\ 1 \in 1..Len(s)
    BY <1>1, <1>6
  <2>2. ASSUME NEW i \in 1..Len(s), s[i] = m
        PROVE  FALSE
    <3>1. i < 1
      BY <1>6, <2>1, <2>2 DEF Before
    <3> QED BY <3>1
  <2> QED BY <2>2 DEF Within
<1> QED BY <1>3, <1>4, <1>5, <1>6

\* Messages are added behind the others.
LEMMA Concatenated ==
    ASSUME NEW S, NEW s \in Seq(S), NEW t \in Seq(S)
    PROVE  /\ s \o t \in Seq(S)
           /\ \A m : Within(m, s \o t) <=> Within(m, s) \/ Within(m, t)
           /\ Once(s) /\ Once(t) /\ (\A m : ~(Within(m, s) /\ Within(m, t))) => Once(s \o t)
           /\ \A m, n : Before(m, n, s) /\ Before(m, n, t) /\ ~(Within(n, s) /\ Within(m, t))
                           => Before(m, n, s \o t)
<1> DEFINE st == s \o t
           a == Len(s)
           b == Len(t)
<1>1. /\ st \in Seq(S) /\ a \in Nat /\ b \in Nat /\ Len(st) = a + b
      /\ \A i \in 1..a : st[i] = s[i]
      /\ \A i \in 1..b : st[i + a] = t[i]
  <2>1. /\ st \in Seq(S) /\ a \in Nat /\ b \in Nat /\ Len(st) = a + b
        /\ \A i \in 1..a : st[i] = s[i]
    OBVIOUS
  <2>2. ASSUME NEW i \in 1..b
        PROVE  st[i + a] = t[i]
    OBVIOUS
  <2> QED BY <2>1, <2>2
<1> HIDE DEF st
<1>2. ASSUME NEW i \in 1..(a + b)
      PROVE  i \in 1..a \/ \E j \in 1..b : i = j + a
  <2>1. CASE i <= a
    BY <1>1, <2>1
  <2>2. CASE i > a
    <3>1. i - a \in 1..b /\ i = (i - a) + a
      BY <1>1, <2>2
    <3> QED BY <3>1
  <2> QED BY <1>1, <2>1, <2>2
<1>3. /\ \A i \in 1..a : i \in 1..(a + b)
      /\ \A j \in 1..b : j + a \in 1..(a + b)
  BY <1>1
<1> HIDE DEF a, b
<1>4. ASSUME NEW m
      PROVE  Within(m, st) <=> Within(m, s) \/ Within(m, t)
  <2>1. ASSUME Within(m, st)
        PROVE  Within(m, s) \/ Within(m, t)
    <3>1. PICK i \in 1..(a + b) : st[i] = m
      BY <1>1, <2>1 DEF Within
    <3> QED BY <1>1, <1>2, <3>1 DEF Within, a, b
  <2>2. ASSUME Within(m, s)
        PROVE  Within(m, st)
    BY <1>1, <1>3, <2>2 DEF Within, a
  <2>3. ASSUME Within(m, t)
        PROVE  Within(m, st)
    <3>1. PICK j \in 1..b : t[j] = m
      BY <2>3 DEF Within, b
    <3>2. j + a \in 1..(a + b) /\ st[j + a] = m
      BY <1>1, <1>3, <3>1
    <3> QED BY <1>1, <3>2 DEF Within
  <2> QED BY <2>1, <2>2, <2>3
<1>5. ASSUME Once(s), Once(t), \A m : ~(Within(m, s) /\ Within(m, t))
      PROVE  Once(st)
  <2>1. ASSUME NEW i \in 1..a, NEW j \in 1..b
        PROVE  st[i] # st[j + a]
    <3>1. Within(st[i], s) /\ Within(st[j + a], t)
      BY <1>1 DEF Within, a, b
    <3> QED BY <1>5, <3>1
  <2>2. ASSUME NEW i \in 1..(a + b), NEW j \in 1..(a + b), st[i] = st[j]
        PROVE  i = j
    <3>1. CASE i \in 1..a /\ j \in 1..a
      <4>1. s[i] = s[j]
        BY <1>1, <2>2, <3>1
      <4> QED BY <1>5, <3>1, <4>1 DEF Once, a
    <3>2. CASE i \in 1..a /\ \E k \in 1..b : j = k + a
      BY <2>1, <2>2, <3>2
    <3>3. CASE j \in 1..a /\ \E k \in 1..b : i = k + a
      BY <2>1, <2>2, <3>3
    <3>4. CASE (\E k \in 1..b : i = k + a) /\ (\E l \in 1..b : j = l + a)
      <4>1. PICK k \in 1..b : i = k + a
        BY <3>4
      <4>2. PICK l \in 1..b : j = l + a
        BY <3>4
      <4>3. t[k] = t[l]
        BY <1>1, <2>2, <4>1, <4>2
      <4>4. k = l
        BY <1>5, <4>3 DEF Once, b
      <4> QED BY <4>1, <4>2, <4>4
    <3> QED BY <1>2, <3>1, <3>2, <3>3, <3>4
  <2> QED BY <1>1, <2>2 DEF Once
<1>6. ASSUME NEW m, NEW n, Before(m, n, s), Before(m, n, t), ~(Within(n, s) /\ Within(m, t))
      PROVE  Before(m, n, st)
  <2>1. ASSUME NEW i \in 1..(a + b), NEW j \in 1..(a + b), st[i] = m, st[j] = n
        PROVE  i < j
    <3>1. CASE i \in 1..a /\ j \in 1..a
      <4>1. s[i] = m /\ s[j] = n
        BY <1>1, <2>1, <3>1
      <4> QED BY <1>6, <3>1, <4>1 DEF Before, a
    <3>2. CASE i \in 1..a /\ \E k \in 1..b : j = k + a
      BY <1>1, <3>2
    <3>3. CASE j \in 1..a /\ \E k \in 1..b : i = k + a
      <4>1. Within(n, s) /\ Within(m, t)
        BY <1>1, <2>1, <3>3 DEF Within, a, b
      <4> QED BY <1>6, <4>1
    <3>4. CASE (\E k \in 1..b : i = k + a) /\ (\E l \in 1..b : j = l + a)
      <4>1. PICK k \in 1..b : i = k + a
        BY <3>4
      <4>2. PICK l \in 1..b : j = l + a
        BY <3>4
      <4>3. t[k] = m /\ t[l] = n
        BY <1>1, <2>1, <4>1, <4>2
      <4>4. k < l
        BY <1>6, <4>3 DEF Before, b
      <4> QED BY <1>1, <4>1, <4>2, <4>4
    <3> QED BY <1>2, <3>1, <3>2, <3>3, <3>4
  <2> QED BY <1>1, <2>1 DEF Before
<1> QED BY <1>1, <1>4, <1>5, <1>6 DEF st

\* SetToSeq puts the elements of a finite set in a sequence, each once.
LEMMA SetInSequence ==
    ASSUME NEW S, IsFiniteSet(S)
    PROVE  /\ SetToSeq(S) \in Seq(S)
           /\ Once(SetToSeq(S))
           /\ \A m : Within(m, SetToSeq(S)) <=> m \in S
<1> DEFINE n == Cardinality(S)
           f == SetToSeq(S)
<1>1. n \in Nat /\ ExistsBijection(1..n, S)
  BY FS_CardinalityType
<1>2. \E g \in [1..n -> S] : IsInjective(g)
  BY <1>1 DEF ExistsBijection, Bijection, Injection, IsInjective
<1>3. f \in [1..n -> S] /\ IsInjective(f)
  BY <1>2 DEF SetToSeq
<1> HIDE DEF f
<1>4. f \in Seq(S) /\ Len(f) = n
  BY <1>1, <1>3
<1>5. f \in Injection(1..n, S)
  BY <1>3 DEF IsInjective, Injection
<1>6. Cardinality(1..n) = n
  BY <1>1, FS_Interval
<1>7. f \in Surjection(1..n, S)
  BY <1>5, <1>6, FS_Injection
<1>8. Once(f)
  BY <1>3, <1>4 DEF Once, IsInjective
<1>9. \A m : Within(m, f) <=> m \in S
  BY <1>3, <1>4, <1>7 DEF Within, Surjection
<1> QED BY <1>4, <1>8, <1>9 DEF f

-----------------------------------------------------------------------------
(***************************************************************************)
(* The inductive invariant.                                                *)
(***************************************************************************)

\* The reconnecting loop runs only after its connection has closed.
TypeInv ==
    /\ TypeOK
    /\ key = [c \in Call |-> key[c]]
    /\ GraphInv(graph)
    /\ loop # "none" => ~up

\* Views depend on calls, calls on nothing.  A view that was never computed depends on
\* nothing either.
LinksShaped ==
    /\ \A c \in Call : graph.dependencies[c] = {}
    /\ \A n \in Node : graph.dependencies[n] \subseteq Call
    /\ \A v \in View :
          pc[v] = "idle" /\ graph.state[v] = "Computing" => graph.dependencies[v] = {}

\* The numbers the client has not used yet.
Unmade ==
    \A c \in Call : c >= nextCall =>
        graph.state[c] = "Computing" /\ answer[c] = "pending" /\ read[c] = NoVersion

\* A view that awaits a call holds the lock of its key, and nothing is cached for it.
Awaiting ==
    \A v \in View : pc[v] = "calling" =>
        /\ got[v] \in 1..(nextCall - 1)
        /\ key[got[v]] = KeyOf[v]
        /\ graph.state[got[v]] = "Computing"
        /\ storage[KeyOf[v]] = NoCall
        /\ \A u \in View : pc[u] = "calling" /\ KeyOf[u] = KeyOf[v] => u = v

\* What is served is registered, so that a new connection finds it.
Registered == \A c \in Call : Served(c) => storage[key[c]] = c

\* Nothing from before the latest connection is served, and nothing that was under way
\* then is answered any more.
BeforeIsOver ==
    ~closed =>
        /\ \A c \in Call : c < since => ~Served(c)
        /\ \A v \in View : pc[v] = "calling" /\ got[v] < since => answer[got[v]] = "pending"

\* What the server has read for a call is not ahead of the version.
ReadsPast == \A c \in Call : read[c] # NoVersion => read[c] <= version[key[c]]

Stale(c) == read[c] # NoVersion /\ read[c] # version[key[c]]

\* Where a call can be at the same time: the request, the dispatch, the answer and the
\* notification follow one another.
Requests ==
    \A c \in Call : Requested(c) =>
        /\ c >= since
        /\ c < nextCall
        /\ c \notin serving \union inbound \union late
        /\ \A type \in MessageType : ~UnderWay(type, c)

Dispatches ==
    \A c \in serving :
        /\ c \notin inbound \union late
        /\ \A type \in MessageType : ~UnderWay(type, c)

Answers ==
    \A c \in Call :
        /\ \A type \in MessageType : UnderWay(type, c) => c >= since /\ c < nextCall
        /\ UnderWay("Error", c) =>
              /\ c \notin inbound \union late
              /\ ~UnderWay("Ok", c)
              /\ ~UnderWay("Invalidate", c)
        /\ UnderWay("Ok", c) /\ accepted => c \in inbound

Notifications ==
    /\ \A c \in Call : UnderWay("Invalidate", c) => c \notin late /\ Stale(c)
    /\ \A c \in inbound : c >= since /\ read[c] # NoVersion
    /\ \A c \in late : Stale(c)
    /\ \A c \in inbound :
          UnderWay("Ok", c) /\ Stale(c) => c \in late \/ UnderWay("Invalidate", c)

\* Each message is sent once, the notification after the answer.
InOrder ==
    /\ Once(toServer)
    /\ Once(toClient)
    /\ \A c \in Call : Before(Message("Ok", c), Message("Invalidate", c), toClient)

\* Where a call is until it is answered.
Unanswered(c) ==
    Requested(c) \/ c \in serving \/ UnderWay("Ok", c) \/ UnderWay("Error", c)

Pending == ~closed => \A c \in Call : Unanswered(c) => answer[c] = "pending"

\* What has been withdrawn, or will be as soon as it has an output.
Withdrawn(c) ==
    \/ graph.state[c] = "Invalidated"
    \/ graph.state[c] = "Computing" /\ c \in graph.deferred

\* An answered call that has left the table has been withdrawn.
Notified ==
    Connected =>
        \A c \in since..(nextCall - 1) :
            answer[c] = "ok" /\ c \notin outbound => Withdrawn(c)

\* What the client keeps.
ClientInv == LinksShaped /\ Unmade /\ Awaiting /\ Registered

\* Where the messages and the calls of the server are.
PlacesInv == ReadsPast /\ Requests /\ Dispatches /\ Answers /\ Notifications /\ InOrder

IInv ==
    /\ TypeInv
    /\ ClientInv
    /\ BeforeIsOver
    /\ PlacesInv
    /\ Pending
    /\ Notified
    /\ EntriesAwaited

-----------------------------------------------------------------------------
(***************************************************************************)
(* The messages under way.                                                 *)
(***************************************************************************)

Messages == [type : MessageType, call : Call]

\* A message is its type and its call.
LEMMA MessageFields ==
    /\ \A t, u, c, d : Message(t, c) = Message(u, d) <=> t = u /\ c = d
    /\ \A t \in MessageType, c \in Call :
          /\ Message(t, c) \in Messages
          /\ Message(t, c).type = t /\ Message(t, c).call = c
    /\ \A m \in Messages :
          m.type \in MessageType /\ m.call \in Call /\ m = Message(m.type, m.call)
<1>1. ASSUME NEW t, NEW u, NEW c, NEW d, Message(t, c) = Message(u, d)
      PROVE  t = u /\ c = d
  <2>1. /\ [type |-> t, call |-> c].type = t /\ [type |-> t, call |-> c].call = c
        /\ [type |-> u, call |-> d].type = u /\ [type |-> u, call |-> d].call = d
    OBVIOUS
  <2> QED BY <1>1, <2>1 DEF Message
<1> QED BY <1>1 DEF Message, Messages

\* Numbers are the calls.
LEMMA CallType ==
    /\ MaxCall \in Nat /\ MaxVersion \in Nat /\ Call \subseteq Nat
    /\ \A c : c \in Call <=> c \in Nat /\ 1 <= c /\ c <= MaxCall
    /\ NoCall \notin Call /\ NoVersion \notin Version
    /\ Call \subseteq Node /\ View \subseteq Node
    /\ \A v \in View : v \notin Call
    /\ Node = View \union Call
    /\ AutoInvalidate = {}
BY BoundsAssumption, NodeAssumption, NoneAssumption DEF Call

\* The calls made are those below nextCall, those of the latest connection from since on.
LEMMA MadeCalls ==
    ASSUME TypeOK
    PROVE  /\ nextCall \in Nat /\ since \in Nat /\ 1 <= since /\ since <= nextCall
           /\ nextCall <= MaxCall + 1
           /\ \A c : c \in 1..(nextCall - 1) <=> c \in Call /\ c < nextCall
           /\ \A c : c \in since..(nextCall - 1) <=> c \in Call /\ c >= since /\ c < nextCall
           /\ \A c \in Call : c < nextCall \/ c >= nextCall
           /\ \A c \in Call : c < since \/ c >= since
           /\ \A c \in Call : c >= nextCall => c >= since
<1>1. nextCall \in 1..(MaxCall + 1) /\ since \in 1..nextCall
  BY DEF TypeOK
<1>2. nextCall \in Nat /\ since \in Nat /\ 1 <= since /\ since <= nextCall /\ nextCall <= MaxCall + 1
  BY <1>1, CallType
<1> QED BY <1>2, CallType

\* A set of calls is finite.
LEMMA CallsFinite ==
    ASSUME NEW C \in SUBSET Call, NEW type \in MessageType
    PROVE  IsFiniteSet({Message(type, c) : c \in C})
<1> DEFINE S == {Message(type, c) : c \in C}
           f == [c \in C |-> Message(type, c)]
<1>1. IsFiniteSet(C)
  <2>1. IsFiniteSet(1..MaxCall)
    BY CallType, FS_Interval
  <2> QED BY <2>1, FS_Subset DEF Call
<1>2. f \in Surjection(C, S)
  <2>1. f \in [C -> S]
    OBVIOUS
  <2>2. \A m \in S : \E c \in C : f[c] = m
    OBVIOUS
  <2> HIDE DEF f, S
  <2> QED BY <2>1, <2>2 DEF Surjection
<1> HIDE DEF f, S
<1>3. IsFiniteSet(S)
  BY <1>1, <1>2, FS_Surjection
<1> QED BY <1>3 DEF S

\* The client receives one message, the first.
LEMMA MessageTaken ==
    ASSUME TypeOK, InOrder, toClient # <<>>, toClient' = Tail(toClient)
    PROVE  \E type \in MessageType, c \in Call :
               /\ Head(toClient) = Message(type, c)
               /\ UnderWay(type, c)
               /\ type = "Invalidate" => ~UnderWay("Ok", c)
               /\ \A t \in MessageType, d \in Call :
                     UnderWay(t, d)' <=> UnderWay(t, d) /\ ~(t = type /\ d = c)
               /\ toClient' \in Seq(Messages)
               /\ Once(toClient')
               /\ \A d \in Call : Before(Message("Ok", d), Message("Invalidate", d), toClient')
<1>1. toClient \in Seq(Messages)
  BY DEF TypeOK, Messages
<1>2. /\ \A t, d : UnderWay(t, d) <=> Within(Message(t, d), toClient)
      /\ \A t, d : UnderWay(t, d)' <=> Within(Message(t, d), toClient')
  BY DEF UnderWay, Within
<1>3. /\ toClient' \in Seq(Messages) /\ Head(toClient) \in Messages
      /\ Within(Head(toClient), toClient)
      /\ \A m : Within(m, toClient) <=> m = Head(toClient) \/ Within(m, toClient')
  BY <1>1, WithinTail
<1>4. /\ Once(toClient') /\ ~Within(Head(toClient), toClient')
      /\ \A m, n : Before(m, n, toClient) => Before(m, n, toClient')
      /\ \A m, n : Before(m, n, toClient) /\ Head(toClient) = n => ~Within(m, toClient)
  BY <1>1, OrderedTail DEF InOrder
<1>5. PICK type \in MessageType, c \in Call : Head(toClient) = Message(type, c)
  BY <1>3, MessageFields
<1> QED BY <1>2, <1>3, <1>4, <1>5, MessageFields DEF InOrder

\* The server sends new messages of one type.
LEMMA MessagesSent ==
    ASSUME TypeOK, InOrder, NEW type \in MessageType, NEW C \in SUBSET Call,
           toClient' = Sent(type, C),
           \A c \in C : ~UnderWay(type, c),
           type = "Ok" => \A c \in C : ~UnderWay("Invalidate", c)
    PROVE  /\ \A t \in MessageType, d \in Call :
                 UnderWay(t, d)' <=> UnderWay(t, d) \/ (t = type /\ d \in C)
           /\ toClient' \in Seq(Messages)
           /\ Once(toClient')
           /\ \A d \in Call : Before(Message("Ok", d), Message("Invalidate", d), toClient')
<1> DEFINE S == {Message(type, c) : c \in C}
           s == SetToSeq(S)
<1>1. toClient \in Seq(Messages) /\ toClient' = toClient \o s
  BY DEF TypeOK, Messages, Sent
<1>2. /\ \A t, d : UnderWay(t, d) <=> Within(Message(t, d), toClient)
      /\ \A t, d : UnderWay(t, d)' <=> Within(Message(t, d), toClient')
  BY DEF UnderWay, Within
<1>3. \A m : m \in S <=> \E c \in C : m = Message(type, c)
  OBVIOUS
<1>4. IsFiniteSet(S)
  BY CallsFinite
<1> HIDE DEF S
<1>5. s \in Seq(S) /\ Once(s) /\ \A m : Within(m, s) <=> m \in S
  BY <1>4, SetInSequence
<1> HIDE DEF s
<1>6. S \subseteq Messages
  BY <1>3, MessageFields
<1>7. s \in Seq(Messages)
  BY <1>5, <1>6
<1>8. \A t, d : Message(t, d) \in S <=> t = type /\ d \in C
  BY <1>3, MessageFields
<1>9. /\ toClient' \in Seq(Messages)
      /\ \A m : Within(m, toClient') <=> Within(m, toClient) \/ Within(m, s)
      /\ (\A m : ~(Within(m, toClient) /\ Within(m, s))) => Once(toClient')
      /\ \A m, n : Before(m, n, toClient) /\ Before(m, n, s) /\ ~(Within(n, toClient) /\ Within(m, s))
                      => Before(m, n, toClient')
  BY <1>1, <1>5, <1>7, Concatenated DEF InOrder
<1>10. \A m : ~(Within(m, toClient) /\ Within(m, s))
  BY <1>2, <1>3, <1>5
<1>11. ASSUME NEW d \in Call
       PROVE  Before(Message("Ok", d), Message("Invalidate", d), toClient')
  <2> DEFINE m == Message("Ok", d)
             n == Message("Invalidate", d)
  <2>1. ~(Within(m, s) /\ Within(n, s))
    BY <1>5, <1>8
  <2>2. Before(m, n, s)
    <3> HIDE DEF m, n
    <3> QED BY <2>1 DEF Before, Within
  <2>3. ~(Within(n, toClient) /\ Within(m, s))
    BY <1>2, <1>5, <1>8
  <2>4. Before(m, n, toClient)
    BY DEF InOrder
  <2> HIDE DEF m, n
  <2>5. Before(m, n, toClient')
    BY <1>9, <2>2, <2>3, <2>4
  <2> QED BY <2>5 DEF m, n
<1> QED BY <1>2, <1>5, <1>8, <1>9, <1>10, <1>11

\* The client sends a request behind the others.
LEMMA RequestSent ==
    ASSUME TypeOK, InOrder, NEW c \in Call, toServer' = Append(toServer, c), ~Requested(c)
    PROVE  /\ \A d \in Call : Requested(d)' <=> Requested(d) \/ d = c
           /\ toServer' \in Seq(Call)
           /\ Once(toServer')
<1> DEFINE s == <<c>>
<1>1. toServer \in Seq(Call) /\ s \in Seq(Call) /\ toServer' = toServer \o s
  <2>1. toServer \in Seq(Call)
    BY DEF TypeOK
  <2> QED BY <2>1
<1>2. /\ \A d : Requested(d) <=> Within(d, toServer)
      /\ \A d : Requested(d)' <=> Within(d, toServer')
  BY DEF Requested, Within
<1>3. Once(s) /\ \A d : Within(d, s) <=> d = c
  BY DEF Once, Within
<1> HIDE DEF s
<1>4. /\ toServer' \in Seq(Call)
      /\ \A d : Within(d, toServer') <=> Within(d, toServer) \/ Within(d, s)
      /\ (\A d : ~(Within(d, toServer) /\ Within(d, s))) => Once(toServer')
  BY <1>1, <1>3, Concatenated DEF InOrder
<1> QED BY <1>2, <1>3, <1>4

\* The server receives the first request.
LEMMA RequestTaken ==
    ASSUME TypeOK, InOrder, toServer # <<>>, toServer' = Tail(toServer)
    PROVE  /\ Head(toServer) \in Call
           /\ Requested(Head(toServer))
           /\ \A d \in Call : Requested(d)' <=> Requested(d) /\ d # Head(toServer)
           /\ toServer' \in Seq(Call)
           /\ Once(toServer')
<1>1. toServer \in Seq(Call)
  BY DEF TypeOK
<1>2. /\ \A d : Requested(d) <=> Within(d, toServer)
      /\ \A d : Requested(d)' <=> Within(d, toServer')
  BY DEF Requested, Within
<1>3. /\ toServer' \in Seq(Call) /\ Head(toServer) \in Call
      /\ Within(Head(toServer), toServer)
      /\ \A d : Within(d, toServer) <=> d = Head(toServer) \/ Within(d, toServer')
  BY <1>1, WithinTail
<1>4. Once(toServer') /\ ~Within(Head(toServer), toServer')
  BY <1>1, OrderedTail DEF InOrder
<1> QED BY <1>2, <1>3, <1>4

\* Nothing is under way.
LEMMA NothingUnderWay ==
    /\ toClient' = <<>> =>
          /\ \A t, d : ~UnderWay(t, d)'
          /\ toClient' \in Seq(Messages)
          /\ Once(toClient')
          /\ \A m, n : Before(m, n, toClient')
    /\ toServer' = <<>> =>
          /\ \A d : ~Requested(d)'
          /\ toServer' \in Seq(Call)
          /\ Once(toServer')
<1>1. Len(<<>>) = 0 /\ 1..0 = {} /\ <<>> \in Seq(Messages) /\ <<>> \in Seq(Call)
  OBVIOUS
<1>2. ASSUME toClient' = <<>>
      PROVE  /\ \A t, d : ~UnderWay(t, d)'
             /\ Once(toClient')
             /\ \A m, n : Before(m, n, toClient')
  <2>1. 1..Len(toClient') = {}
    BY <1>1, <1>2
  <2> QED BY <2>1 DEF UnderWay, Once, Before
<1>3. ASSUME toServer' = <<>>
      PROVE  (\A d : ~Requested(d)') /\ Once(toServer')
  <2>1. 1..Len(toServer') = {}
    BY <1>1, <1>3
  <2> QED BY <2>1 DEF Requested, Once
<1> QED BY <1>1, <1>2, <1>3

-----------------------------------------------------------------------------
(***************************************************************************)
(* The steps of the views.                                                 *)
(***************************************************************************)

\* Between g and h only the Computed of v has changed.
OnlyView(g, h, v) ==
    /\ GraphInv(h)
    /\ \A n \in Node \ {v} : h.state[n] = g.state[n] /\ h.dependencies[n] = g.dependencies[n]
    /\ h.dependencies[v] \subseteq Call
    /\ g.deferred \ {v} \subseteq h.deferred

\* A view that gets an answer changes only its own Computed.
LEMMA ReceiveGraph ==
    ASSUME NEW g, GraphInv(g), NEW v \in View, NEW c \in Call,
           g.state[c] # "Computing", g.dependencies[v] \subseteq Call
    PROVE  OnlyView(g, AddDependency(g, v, c), v)
<1> DEFINE h == AddDependency(g, v, c)
<1>1. v \in Node /\ c \in Node /\ v # c
  BY CallType
<1>2. GraphInv(h)
  BY <1>1, AddDependencyInv
<1>3. /\ \A n \in Node \ {v} : h.state[n] = g.state[n] /\ h.dependencies[n] = g.dependencies[n]
      /\ g.state[v] # "Computing" => h = g
      /\ g.state[v] = "Computing" =>
            \/ h.state[v] = "Invalidated"
            \/ /\ g.state[c] # "Invalidated"
               /\ h.state[v] = "Computing"
               /\ h.dependencies[v] = g.dependencies[v] \union {c}
  BY <1>1, AddDependencyLater
<1>4. h.deferred = g.deferred
  BY <1>1, AddDependencyDeferred
<1> HIDE DEF h
<1>5. h.dependencies[v] \subseteq Call
  BY <1>1, <1>2, <1>3 DEF GraphInv, Linked
<1> QED BY <1>2, <1>3, <1>4, <1>5 DEF OnlyView, h

\* So does one that is computed again.
LEMMA ConstructGraph ==
    ASSUME NEW v \in View, IInv, pc[v] = "idle", ~Served(v)
    PROVE  /\ OnlyView(graph, Constructed(graph, v), v)
           /\ Constructed(graph, v).state[v] = "Computing"
<1> DEFINE h == Constructed(graph, v)
<1>1. v \in Node /\ GraphInv(graph) /\ graph \in Graph
  BY CallType DEF IInv, TypeInv, GraphInv
<1>2. graph.state[v] \in ConsistencyState
  BY <1>1 DEF Graph
<1>3. graph.dependencies[v] = {}
  <2>1. CASE graph.state[v] = "Computing"
    BY <2>1 DEF IInv, ClientInv, LinksShaped
  <2>2. CASE graph.state[v] = "Invalidated"
    BY <1>1, <2>2 DEF GraphInv, Linked
  <2> QED BY <1>2, <2>1, <2>2 DEF ConsistencyState, Served
<1>4. \A n \in Node : v \notin graph.dependencies[n]
  BY CallType DEF IInv, ClientInv, LinksShaped
<1>5. GraphInv(h)
  BY <1>1, <1>3, <1>4, CallType, ConstructedInv
<1>6. /\ h \in Graph
      /\ \A n \in Node : h.state[n] = IF n = v THEN "Computing" ELSE graph.state[n]
      /\ h.dependencies = graph.dependencies /\ h.dependants = graph.dependants
      /\ h.deferred = graph.deferred \ {v} /\ h.output = graph.output \ {v}
      /\ h.armed = graph.armed
  BY <1>1, ConstructedFields
<1> HIDE DEF h
<1> QED BY <1>1, <1>3, <1>5, <1>6 DEF OnlyView, h

\* So does one that ends.
LEMMA FinishGraph ==
    ASSUME NEW g, GraphInv(g), NEW v \in View, g.dependencies[v] \subseteq Call
    PROVE  /\ OnlyView(g, TrySetOutput(g, v), v)
           /\ TrySetOutput(g, v).state[v] # "Computing"
<1> DEFINE h == TrySetOutput(g, v)
<1>1. v \in Node
  BY CallType
<1>2. GraphInv(h)
  BY <1>1, TrySetOutputInv
<1>3. /\ \A n \in Node \ {v} : h.state[n] = g.state[n] /\ h.dependencies[n] = g.dependencies[n]
      /\ g.state[v] # "Computing" => h = g
      /\ g.state[v] = "Computing" =>
            \/ h.state[v] = "Invalidated"
            \/ h.state[v] = "Consistent" /\ h.dependencies[v] = g.dependencies[v]
  BY <1>1, TrySetOutputLater
<1>4. g.deferred \ {v} \subseteq h.deferred
  BY <1>1, TrySetOutputDeferred
<1> HIDE DEF h
<1>5. h.dependencies[v] \subseteq Call
  BY <1>1, <1>2, <1>3 DEF GraphInv, Linked
<1> QED BY <1>2, <1>3, <1>4, <1>5 DEF OnlyView, h

\* Two such changes of the same view are one.
LEMMA OnlyViewTwice ==
    ASSUME NEW v, NEW f, NEW g, NEW h, OnlyView(f, g, v), OnlyView(g, h, v)
    PROVE  OnlyView(f, h, v)
BY DEF OnlyView

\* A step of view v in which no call is made or answered.
ViewMoves(v) ==
    /\ OnlyView(graph, graph', v)
    /\ \E k \in Key : storage' \in {storage, Cleaned(k)}
    /\ pc' \in [View -> {"idle", "locking", "calling", "returned"}]
    /\ got' \in [View -> Call \union {NoCall}]
    /\ \A u \in View \ {v} : pc'[u] = pc[u] /\ got'[u] = got[u]
    /\ pc'[v] # "calling"
    /\ pc'[v] = "idle" => graph'.state[v] # "Computing"
    /\ UNCHANGED <<nextCall, key, answer, outbound, server, transport, connection>>

\* What a cleaned registry holds.
LEMMA CleanedEntries ==
    ASSUME TypeOK, NEW k \in Key
    PROVE  /\ Cleaned(k) \in [Key -> Call \union {NoCall}]
           /\ \A j \in Key :
                 /\ Cleaned(k)[j] \in {storage[j], NoCall}
                 /\ storage[j] # NoCall /\ Served(storage[j]) => Cleaned(k)[j] = storage[j]
           /\ Cleaned(k)[k] = Get(k)
           /\ Get(k) \in Call \union {NoCall}
           /\ Get(k) # NoCall => Get(k) = storage[k] /\ Served(Get(k))
<1>1. storage \in [Key -> Call \union {NoCall}]
  BY DEF TypeOK
<1>2. /\ Get(k) \in Call \union {NoCall}
      /\ Get(k) # NoCall => Get(k) = storage[k] /\ Served(Get(k))
      /\ storage[k] # NoCall /\ Served(storage[k]) => Get(k) = storage[k]
      /\ Get(k) \in {storage[k], NoCall}
  BY <1>1 DEF Get
<1> QED BY <1>1, <1>2 DEF Cleaned

\* Such a step preserves the invariant.
LEMMA ViewMovesInv ==
    ASSUME NEW v \in View, IInv, ViewMoves(v)
    PROVE  IInv'
<1>1. \A c \in Call : c # v /\ c \in Node /\ c # NoCall
  BY CallType
<1>2. /\ \A n \in Node \ {v} : /\ graph'.state[n] = graph.state[n]
                               /\ graph'.dependencies[n] = graph.dependencies[n]
      /\ graph'.dependencies[v] \subseteq Call
      /\ GraphInv(graph')
      /\ \A c \in Call : c \in graph.deferred => c \in graph'.deferred
  BY <1>1 DEF ViewMoves, OnlyView
<1>3. /\ storage' \in [Key -> Call \union {NoCall}]
      /\ \A j \in Key :
            /\ storage'[j] \in {storage[j], NoCall}
            /\ storage[j] # NoCall /\ Served(storage[j]) => storage'[j] = storage[j]
  <2>1. PICK k \in Key : storage' \in {storage, Cleaned(k)}
    BY DEF ViewMoves
  <2>2. TypeOK
    BY DEF IInv, TypeInv
  <2>3. CASE storage' = storage
    <3>1. storage \in [Key -> Call \union {NoCall}]
      BY <2>2 DEF TypeOK
    <3> QED BY <2>3, <3>1
  <2>4. CASE storage' = Cleaned(k)
    BY <2>2, <2>4, CleanedEntries
  <2> QED BY <2>1, <2>3, <2>4
<1>4. /\ UNCHANGED <<nextCall, key, answer, outbound>>
      /\ UNCHANGED <<serving, read, inbound, version, running, late>>
      /\ UNCHANGED <<inner, up, loop, attempts, closed>>
      /\ UNCHANGED <<toServer, toClient, accepted, since>>
  BY DEF ViewMoves, server, transport, connection
<1>5. \A c \in Call : graph'.state[c] = graph.state[c] /\ graph'.dependencies[c] = graph.dependencies[c]
  BY <1>1, <1>2
<1>6. /\ pc' \in [View -> {"idle", "locking", "calling", "returned"}]
      /\ got' \in [View -> Call \union {NoCall}]
      /\ \A u \in View : u # v => pc'[u] = pc[u] /\ got'[u] = got[u]
      /\ pc'[v] # "calling"
      /\ pc'[v] = "idle" => graph'.state[v] # "Computing"
  BY DEF ViewMoves
<1>7. TypeInv'
  <2>1. TypeOK'
    BY <1>2, <1>3, <1>4, <1>6 DEF IInv, TypeInv, TypeOK, GraphInv, Transport!TypeOK
  <2> QED BY <1>2, <1>4, <2>1 DEF IInv, TypeInv
<1>8. ClientInv'
  <2>1. LinksShaped'
    <3>1. \A n \in Node : graph'.dependencies[n] \subseteq Call
      BY <1>2 DEF IInv, ClientInv, LinksShaped
    <3>2. \A c \in Call : graph'.dependencies[c] = {}
      BY <1>5 DEF IInv, ClientInv, LinksShaped
    <3>3. ASSUME NEW u \in View, pc'[u] = "idle", graph'.state[u] = "Computing"
          PROVE  graph'.dependencies[u] = {}
      BY <1>2, <1>6, <3>3, CallType DEF IInv, ClientInv, LinksShaped
    <3> QED BY <3>1, <3>2, <3>3 DEF LinksShaped
  <2>2. Unmade'
    BY <1>4, <1>5 DEF IInv, ClientInv, Unmade
  <2>3. Awaiting'
    <3>1. ASSUME NEW u \in View, pc'[u] = "calling"
          PROVE  /\ got[u] = got'[u] /\ pc[u] = "calling" /\ got[u] \in Call
                 /\ storage'[KeyOf[u]] = NoCall
      <4>1. pc[u] = "calling" /\ got'[u] = got[u]
        BY <1>6, <3>1
      <4>2. KeyOf[u] \in Key /\ storage[KeyOf[u]] = NoCall /\ got[u] \in 1..(nextCall - 1)
        BY <4>1, KeyOfAssumption DEF IInv, ClientInv, Awaiting
      <4>3. got[u] \in Call
        BY <4>2, MadeCalls DEF IInv, TypeInv
      <4>4. storage'[KeyOf[u]] = NoCall
        BY <1>3, <4>2
      <4> QED BY <4>1, <4>3, <4>4
    <3>2. ASSUME NEW u \in View, pc'[u] = "calling"
          PROVE  /\ got'[u] \in 1..(nextCall - 1)
                 /\ key[got'[u]] = KeyOf[u]
                 /\ graph'.state[got'[u]] = "Computing"
                 /\ \A w \in View : pc'[w] = "calling" /\ KeyOf[w] = KeyOf[u] => w = u
      <4>1. got'[u] = got[u] /\ pc[u] = "calling" /\ got[u] \in Call
        BY <3>1, <3>2
      <4>2. /\ got[u] \in 1..(nextCall - 1)
            /\ key[got[u]] = KeyOf[u]
            /\ graph.state[got[u]] = "Computing"
            /\ \A w \in View : pc[w] = "calling" /\ KeyOf[w] = KeyOf[u] => w = u
        BY <4>1 DEF IInv, ClientInv, Awaiting
      <4> QED BY <1>5, <3>1, <4>1, <4>2
    <3> QED BY <1>4, <3>1, <3>2 DEF Awaiting
  <2>4. Registered'
    <3>1. ASSUME NEW c \in Call, graph.state[c] = "Consistent"
          PROVE  storage'[key[c]] = c
      <4>1. c \in 1..(nextCall - 1)
        BY <3>1, MadeCalls DEF IInv, ClientInv, Unmade, TypeInv
      <4>2. key[c] \in Key /\ storage[key[c]] = c
        BY <3>1, <4>1 DEF IInv, ClientInv, Registered, Served, TypeInv, TypeOK
      <4> QED BY <1>1, <1>3, <3>1, <4>2 DEF Served
    <3> QED BY <1>4, <1>5, <3>1 DEF Registered, Served
  <2> QED BY <2>1, <2>2, <2>3, <2>4 DEF ClientInv
<1>9. BeforeIsOver'
  BY <1>4, <1>5, <1>6 DEF IInv, BeforeIsOver, Served
<1>10. PlacesInv'
  BY <1>4 DEF IInv, PlacesInv, ReadsPast, Requests, Dispatches, Answers, Notifications, InOrder,
              Requested, UnderWay, Stale, Once, Before
<1>11. Pending'
  BY <1>4 DEF IInv, Pending, Unanswered, Requested, UnderWay
<1>12. Notified'
  <2>1. \A c \in Call : Withdrawn(c) => Withdrawn(c)'
    BY <1>2, <1>5 DEF Withdrawn
  <2>2. \A c \in since..(nextCall - 1) : c \in Call
    BY MadeCalls DEF IInv, TypeInv
  <2> QED BY <1>4, <2>1, <2>2 DEF IInv, Notified, Connected
<1>13. EntriesAwaited'
  BY <1>4 DEF IInv, EntriesAwaited, Connected, Subscribed, UnderWay, Requested
<1> QED BY <1>7, <1>8, <1>9, <1>10, <1>11, <1>12, <1>13 DEF IInv

\* The dependencies of a view are calls, and a served call is not being computed.
LEMMA ViewLinks ==
    ASSUME IInv
    PROVE  /\ GraphInv(graph)
           /\ \A v \in View : graph.dependencies[v] \subseteq Call
           /\ \A c : Served(c) => graph.state[c] # "Computing"
BY CallType DEF IInv, TypeInv, ClientInv, LinksShaped, Served

\* A view that calls the proxy is one.
LEMMA BeginMoves ==
    ASSUME NEW v \in View, IInv, Begin(v)
    PROVE  ViewMoves(v)
<1> DEFINE k == KeyOf[v]
           g == Constructed(graph, v)
<1>1. k \in Key /\ TypeOK
  BY KeyOfAssumption DEF IInv, TypeInv
<1>2. OnlyView(graph, g, v) /\ g.state[v] = "Computing"
  BY ConstructGraph DEF Begin
<1>3. /\ Get(k) \in Call \union {NoCall}
      /\ Get(k) # NoCall => Served(Get(k))
  BY <1>1, CleanedEntries
<1>4. /\ pc \in [View -> {"idle", "locking", "calling", "returned"}]
      /\ got \in [View -> Call \union {NoCall}]
  BY <1>1 DEF TypeOK
<1>5. storage' = Cleaned(k) /\ UNCHANGED <<nextCall, key, answer, outbound, server, transport, connection>>
  BY DEF Begin
<1>6. CASE Get(k) # NoCall
  <2>1. Receive(v, g, Get(k))
    BY <1>6 DEF Begin
  <2>2. Get(k) \in Call /\ graph.state[Get(k)] = "Consistent"
    BY <1>3, <1>6 DEF Served
  <2>3. g.state[Get(k)] # "Computing" /\ GraphInv(g) /\ g.dependencies[v] \subseteq Call
    BY <1>2, <2>2, CallType DEF OnlyView
  <2> HIDE DEF g, k
  <2>4. OnlyView(graph, graph', v)
    BY <1>2, <2>1, <2>2, <2>3, ReceiveGraph, OnlyViewTwice DEF Receive
  <2> QED BY <1>1, <1>4, <1>5, <2>1, <2>2, <2>4 DEF ViewMoves, Receive
<1>7. CASE Get(k) = NoCall
  <2>1. graph' = g /\ pc' = [pc EXCEPT ![v] = "locking"] /\ got' = got
    BY <1>7 DEF Begin
  <2> HIDE DEF g, k
  <2> QED BY <1>1, <1>2, <1>4, <1>5, <2>1 DEF ViewMoves
<1> QED BY <1>6, <1>7

\* So is one whose own computation ends.
LEMMA FinishMoves ==
    ASSUME NEW v \in View, IInv, Finish(v)
    PROVE  ViewMoves(v)
<1>1. graph' = TrySetOutput(graph, v)
  BY DEF Finish
<1>2. OnlyView(graph, graph', v) /\ graph'.state[v] # "Computing"
  BY <1>1, ViewLinks, FinishGraph
<1>3. /\ pc \in [View -> {"idle", "locking", "calling", "returned"}]
      /\ got \in [View -> Call \union {NoCall}]
  BY DEF IInv, TypeInv, TypeOK
<1>4. storage' = storage /\ \E k \in Key : TRUE
  BY KeyOfAssumption DEF Finish
<1> QED BY <1>2, <1>3, <1>4 DEF Finish, ViewMoves

\* The step in which a call is made: what it leaves in the tables.
CallMade(v) ==
    /\ pc[v] = "locking"
    /\ \A u \in View : pc[u] = "calling" => KeyOf[u] # KeyOf[v]
    /\ storage' = Cleaned(KeyOf[v])
    /\ Get(KeyOf[v]) = NoCall
    /\ nextCall \in Call
    /\ ComputeCall(nextCall, KeyOf[v])
    /\ pc' = [pc EXCEPT ![v] = "calling"]
    /\ got' = [got EXCEPT ![v] = nextCall]
    /\ UNCHANGED graph
    /\ UNCHANGED <<server, transport, toClient, accepted, since>>

\* It preserves the invariant.
LEMMA CallMadeInv ==
    ASSUME NEW v \in View, IInv, CallMade(v)
    PROVE  IInv'
<1> DEFINE k == KeyOf[v]
<1>0. PICK c \in Call : c = nextCall
  BY DEF CallMade
<1>1. /\ TypeOK /\ InOrder /\ k \in Key /\ c \in Call /\ c # NoCall /\ c \in Nat
  BY <1>0, KeyOfAssumption, CallType DEF IInv, TypeInv, PlacesInv
<1>2. /\ storage' \in [Key -> Call \union {NoCall}]
      /\ \A j \in Key :
            /\ storage'[j] \in {storage[j], NoCall}
            /\ storage[j] # NoCall /\ Served(storage[j]) => storage'[j] = storage[j]
      /\ storage'[k] = NoCall
  BY <1>1, CleanedEntries DEF CallMade
<1>3. /\ nextCall' = c + 1
      /\ key' = [key EXCEPT ![c] = k]
      /\ outbound' = outbound \union {c}
      /\ pc' = [pc EXCEPT ![v] = "calling"]
      /\ got' = [got EXCEPT ![v] = c]
      /\ \A u \in View : pc[u] = "calling" => KeyOf[u] # k
      /\ UNCHANGED <<graph, serving, read, inbound, version, running, late>>
      /\ UNCHANGED <<inner, up, loop, attempts, closed, toClient, accepted, since>>
  BY <1>0 DEF CallMade, ComputeCall, server, transport
<1>4. \A d : Served(d)' <=> Served(d)
  BY <1>3 DEF Served
<1>5. /\ ~Requested(c) /\ c \notin serving \union inbound \union late \union outbound
      /\ \A type \in MessageType : ~UnderWay(type, c)
      /\ graph.state[c] = "Computing" /\ answer[c] = "pending" /\ read[c] = NoVersion
  <2>1. ~(c < nextCall) /\ c >= nextCall /\ c \notin 1..(nextCall - 1)
    BY <1>0, <1>1
  <2>2. graph.state[c] = "Computing" /\ answer[c] = "pending" /\ read[c] = NoVersion
    BY <1>1, <2>1 DEF IInv, ClientInv, Unmade
  <2>3. c \notin serving \union inbound \union late \union outbound
    BY <1>1, <2>1 DEF TypeOK
  <2>4. ~Requested(c)
    BY <1>1, <2>1 DEF IInv, PlacesInv, Requests
  <2>5. \A type \in MessageType : ~UnderWay(type, c)
    BY <1>1, <2>1 DEF IInv, PlacesInv, Answers
  <2> QED BY <2>2, <2>3, <2>4, <2>5
<1>6. \/ /\ up /\ ~closed
         /\ toServer' = Append(toServer, c)
         /\ answer' = answer
      \/ /\ ~(up /\ ~closed)
         /\ toServer' = toServer
         /\ answer' = [answer EXCEPT ![c] = "error"]
  BY <1>0 DEF CallMade, ComputeCall, Transport!CanSend
<1>7. /\ toServer' \in Seq(Call) /\ Once(toServer')
      /\ \A d \in Call : Requested(d)' => Requested(d) \/ d = c
      /\ \A d \in Call : Requested(d) => Requested(d)'
      /\ ~closed /\ up => Requested(c)'
      /\ Requested(c)' => ~closed /\ answer' = answer
  <2>1. CASE up /\ ~closed
    <3>1. toServer' = Append(toServer, c)
      BY <1>6, <2>1
    <3>2. /\ \A d \in Call : Requested(d)' <=> Requested(d) \/ d = c
          /\ toServer' \in Seq(Call)
          /\ Once(toServer')
      BY <1>1, <1>5, <3>1, RequestSent
    <3> QED BY <1>1, <1>6, <2>1, <3>2
  <2>2. CASE ~(up /\ ~closed)
    <3>1. toServer' = toServer
      BY <1>6, <2>2
    <3>2. /\ \A d \in Call : Requested(d)' <=> Requested(d)
          /\ toServer' \in Seq(Call)
          /\ Once(toServer')
      BY <1>1, <3>1 DEF Requested, TypeOK, InOrder
    <3> QED BY <1>1, <1>5, <2>2, <3>2
  <2> QED BY <2>1, <2>2
<1>8. /\ \A t, d : UnderWay(t, d)' <=> UnderWay(t, d)
      /\ answer' \in [Call -> {"pending", "ok", "error"}]
      /\ \A d \in Call \ {c} : answer'[d] = answer[d] /\ key'[d] = key[d]
      /\ answer'[c] # "ok"
      /\ key' = [d \in Call |-> key'[d]] /\ key'[c] = k
  <2>1. \A t, d : UnderWay(t, d)' <=> UnderWay(t, d)
    BY <1>3 DEF UnderWay
  <2>2. /\ answer' \in [Call -> {"pending", "ok", "error"}]
        /\ \A d \in Call \ {c} : answer'[d] = answer[d]
        /\ answer'[c] # "ok"
    <3>1. answer \in [Call -> {"pending", "ok", "error"}]
      BY <1>1 DEF TypeOK
    <3> QED BY <1>1, <1>5, <1>6, <3>1
  <2>3. /\ \A d \in Call \ {c} : key'[d] = key[d]
        /\ key' = [d \in Call |-> key'[d]] /\ key'[c] = k
    <3>1. key = [d \in Call |-> key[d]]
      BY DEF IInv, TypeInv
    <3> HIDE DEF k
    <3> QED BY <1>1, <1>3, <3>1
  <2> QED BY <2>1, <2>2, <2>3
<1>9. /\ c = nextCall
      /\ \A d : d \in 1..(nextCall - 1) <=> d \in Call /\ d < c
      /\ \A d : d \in 1..(nextCall' - 1) <=> d \in Call /\ (d < c \/ d = c)
      /\ \A d \in Call : d >= nextCall' => d >= nextCall /\ d # c
      /\ \A d \in Call : d < nextCall => d < nextCall'
      /\ c < nextCall'
      /\ c >= since
      /\ \A d : d \in since..(nextCall' - 1) <=> d \in since..(nextCall - 1) \/ d = c
      /\ \A d \in since..(nextCall - 1) : d \in Call /\ d # c
      /\ nextCall' \in 1..(MaxCall + 1)
      /\ since' \in 1..nextCall'
  BY <1>0, <1>1, <1>3, MadeCalls, CallType
<1> HIDE DEF k
<1>10. TypeInv'
  <2>1. \A d \in 1..(nextCall' - 1) : key'[d] \in Key
    BY <1>1, <1>8, <1>9 DEF TypeOK
  <2>2. outbound' \union inbound \union serving \union late \subseteq 1..(nextCall' - 1)
    BY <1>1, <1>3, <1>9 DEF TypeOK
  <2>3. /\ pc' \in [View -> {"idle", "locking", "calling", "returned"}]
        /\ got' \in [View -> Call \union {NoCall}]
    BY <1>1, <1>3 DEF TypeOK
  <2>4. TypeOK'
    BY <1>1, <1>2, <1>3, <1>7, <1>8, <1>9, <2>1, <2>2, <2>3 DEF TypeOK, Transport!TypeOK
  <2> QED BY <1>3, <1>8, <2>4 DEF IInv, TypeInv
<1>11. ClientInv'
  <2>1. LinksShaped'
    BY <1>1, <1>3 DEF TypeOK, IInv, ClientInv, LinksShaped
  <2>2. Unmade'
    BY <1>3, <1>8, <1>9 DEF IInv, ClientInv, Unmade
  <2>3. Awaiting'
    <3>1. ASSUME NEW u \in View, u # v
          PROVE  pc'[u] = pc[u] /\ got'[u] = got[u]
      BY <1>1, <1>3, <3>1 DEF TypeOK
    <3>2. pc'[v] = "calling" /\ got'[v] = c
      BY <1>1, <1>3 DEF TypeOK
    <3>3. ASSUME NEW u \in View, u # v, pc[u] = "calling"
          PROVE  /\ got[u] \in 1..(nextCall - 1) /\ got[u] \in Call /\ got[u] # c
                 /\ key[got[u]] = KeyOf[u] /\ graph.state[got[u]] = "Computing"
                 /\ KeyOf[u] \in Key /\ storage'[KeyOf[u]] = NoCall
                 /\ KeyOf[u] # k
                 /\ \A w \in View : pc[w] = "calling" /\ KeyOf[w] = KeyOf[u] => w = u
      <4>1. /\ got[u] \in 1..(nextCall - 1)
            /\ key[got[u]] = KeyOf[u] /\ graph.state[got[u]] = "Computing"
            /\ KeyOf[u] \in Key /\ storage[KeyOf[u]] = NoCall
            /\ \A w \in View : pc[w] = "calling" /\ KeyOf[w] = KeyOf[u] => w = u
        BY <3>3, KeyOfAssumption DEF IInv, ClientInv, Awaiting
      <4>2. got[u] \in Call /\ got[u] # c
        BY <1>1, <1>9, <4>1
      <4> QED BY <1>2, <1>3, <3>3, <4>1, <4>2
    <3>4. ASSUME NEW u \in View, pc'[u] = "calling"
          PROVE  /\ got'[u] \in 1..(nextCall' - 1)
                 /\ key'[got'[u]] = KeyOf[u]
                 /\ graph'.state[got'[u]] = "Computing"
                 /\ storage'[KeyOf[u]] = NoCall
                 /\ \A w \in View : pc'[w] = "calling" /\ KeyOf[w] = KeyOf[u] => w = u
      <4>1. CASE u = v
        <5>1. \A w \in View : pc'[w] = "calling" /\ KeyOf[w] = KeyOf[v] => w = v
          BY <3>1, <3>3 DEF k
        <5> QED BY <1>1, <1>2, <1>3, <1>5, <1>8, <1>9, <3>2, <4>1, <5>1 DEF k
      <4>2. CASE u # v
        <5>1. pc[u] = "calling" /\ got'[u] = got[u]
          BY <3>1, <3>4, <4>2
        <5>2. \A w \in View : pc'[w] = "calling" /\ KeyOf[w] = KeyOf[u] => w = u
          BY <3>1, <3>3, <4>2, <5>1 DEF k
        <5> QED BY <1>3, <1>8, <1>9, <3>3, <4>2, <5>1, <5>2
      <4> QED BY <4>1, <4>2
    <3> QED BY <3>4 DEF Awaiting
  <2>4. Registered'
    <3>1. ASSUME NEW d \in Call, Served(d)
          PROVE  storage'[key'[d]] = d
      <4>1. d < nextCall /\ d # c
        BY <1>1, <1>5, <3>1, MadeCalls DEF IInv, ClientInv, Unmade, Served
      <4>2. key[d] \in Key
        BY <1>1, <4>1, MadeCalls DEF TypeOK
      <4>3. storage[key[d]] = d /\ d # NoCall
        BY <3>1, CallType DEF IInv, ClientInv, Registered
      <4> QED BY <1>2, <1>8, <3>1, <4>1, <4>2, <4>3
    <3> QED BY <1>4, <3>1 DEF Registered
  <2> QED BY <2>1, <2>2, <2>3, <2>4 DEF ClientInv
<1>12. BeforeIsOver'
  <2>1. ASSUME NEW u \in View, pc'[u] = "calling", got'[u] < since, ~closed
        PROVE  answer'[got'[u]] = "pending"
    <3>1. u # v
      <4>1. SUFFICES ASSUME u = v PROVE FALSE
        OBVIOUS
      <4>2. got'[u] = c
        BY <1>1, <1>3, <4>1 DEF TypeOK
      <4> QED BY <1>1, <1>9, <2>1, <4>2, MadeCalls
    <3>2. pc[u] = "calling" /\ got'[u] = got[u]
      BY <1>1, <1>3, <2>1, <3>1 DEF TypeOK
    <3>3. got[u] \in 1..(nextCall - 1)
      BY <3>2 DEF IInv, ClientInv, Awaiting
    <3>4. got[u] \in Call /\ got[u] # c
      BY <1>1, <1>9, <3>3
    <3> QED BY <1>8, <2>1, <3>2, <3>4 DEF IInv, BeforeIsOver
  <2> QED BY <1>3, <1>4, <2>1 DEF IInv, BeforeIsOver
<1>13. PlacesInv'
  <2>1. ReadsPast'
    BY <1>3, <1>5, <1>8 DEF IInv, PlacesInv, ReadsPast
  <2>2. \A d \in Call : Stale(d)' <=> Stale(d)
    BY <1>3, <1>5, <1>8 DEF Stale
  <2>3. Requests'
    <3>1. ASSUME NEW d \in Call, Requested(d)'
          PROVE  /\ d >= since /\ d < nextCall' /\ d \notin serving \union inbound \union late
                 /\ \A type \in MessageType : ~UnderWay(type, d)
      BY <1>5, <1>7, <1>9, <3>1 DEF IInv, PlacesInv, Requests
    <3> QED BY <1>3, <1>8, <3>1 DEF Requests
  <2>4. Dispatches'
    BY <1>3, <1>8 DEF IInv, PlacesInv, Dispatches
  <2>5. Answers'
    BY <1>3, <1>8, <1>9 DEF IInv, PlacesInv, Answers, MessageType
  <2>6. Notifications'
    <3>1. inbound \subseteq Call /\ late \subseteq Call
      BY <1>1, <1>9 DEF TypeOK
    <3> QED BY <1>3, <1>8, <2>2, <3>1 DEF IInv, PlacesInv, Notifications
  <2>7. InOrder'
    BY <1>3, <1>7 DEF IInv, PlacesInv, InOrder
  <2> QED BY <2>1, <2>3, <2>4, <2>5, <2>6, <2>7 DEF PlacesInv
<1>14. Pending'
  <2>1. ASSUME NEW d \in Call, Unanswered(d)', ~closed
        PROVE  answer'[d] = "pending"
    <3>1. CASE d = c
      BY <1>3, <1>5, <1>7, <1>8, <2>1, <3>1 DEF Unanswered, MessageType
    <3>2. CASE d # c
      <4>1. Unanswered(d)
        BY <1>3, <1>7, <1>8, <2>1, <3>2 DEF Unanswered
      <4> QED BY <1>8, <2>1, <3>2, <4>1 DEF IInv, Pending
    <3> QED BY <3>1, <3>2
  <2> QED BY <1>3, <2>1 DEF Pending
<1>15. Notified'
  <2>1. \A d : Withdrawn(d)' <=> Withdrawn(d)
    BY <1>3 DEF Withdrawn
  <2> QED BY <1>3, <1>8, <1>9, <2>1 DEF IInv, Notified, Connected
<1>16. EntriesAwaited'
  <2>1. ASSUME Connected, NEW d \in since..(nextCall' - 1)
        PROVE  d \in outbound' <=>
                  \/ Requested(d)'
                  \/ d \in serving \union Subscribed' \union late
                  \/ \E type \in MessageType : UnderWay(type, d)
    <3>1. CASE d = c
      BY <1>3, <1>7, <2>1, <3>1 DEF Connected
    <3>2. CASE d # c
      <4>1. d \in Subscribed' <=> d \in Subscribed
        BY <1>3, <1>8, <1>9, <2>1, <3>2 DEF Subscribed
      <4> QED BY <1>3, <1>7, <1>9, <2>1, <3>2, <4>1 DEF IInv, EntriesAwaited, Requested
    <3> QED BY <3>1, <3>2
  <2> QED BY <1>3, <1>8, <2>1 DEF EntriesAwaited, Connected, Requested
<1> QED BY <1>10, <1>11, <1>12, <1>13, <1>14, <1>15, <1>16 DEF IInv

\* A view that gets the lock of its key finds an answer or makes a call.
LEMMA LockedMoves ==
    ASSUME NEW v \in View, IInv, Locked(v)
    PROVE  ViewMoves(v) \/ CallMade(v)
<1> DEFINE k == KeyOf[v]
<1>1. k \in Key /\ TypeOK
  BY KeyOfAssumption DEF IInv, TypeInv
<1>2. /\ Get(k) \in Call \union {NoCall}
      /\ Get(k) # NoCall => Served(Get(k))
  BY <1>1, CleanedEntries
<1>3. CASE Get(k) # NoCall
  <2>1. Receive(v, graph, Get(k)) /\ storage' = Cleaned(k)
    BY <1>3 DEF Locked, Recheck
  <2>2. UNCHANGED <<nextCall, key, answer, outbound, server, transport, connection>>
    BY <1>3 DEF Locked, Recheck, connection
  <2>3. Get(k) \in Call /\ graph.state[Get(k)] # "Computing"
    BY <1>2, <1>3 DEF Served
  <2> HIDE DEF k
  <2>4. OnlyView(graph, graph', v)
    BY <2>1, <2>3, ViewLinks, ReceiveGraph DEF Receive
  <2> QED BY <1>1, <2>1, <2>2, <2>3, <2>4 DEF ViewMoves, Receive, TypeOK
<1>4. CASE Get(k) = NoCall
  BY <1>4 DEF Locked, Recheck, CallMade
<1> QED BY <1>3, <1>4

\* The registry loses at most the entries whose Computed has changed its state.
LEMMA UnregisteredEntries ==
    ASSUME NEW map \in [Key -> Call \union {NoCall}], NEW g, NEW h
    PROVE  /\ Unregistered(map, g, h) \in [Key -> Call \union {NoCall}]
           /\ \A k \in Key :
                 /\ Unregistered(map, g, h)[k] \in {map[k], NoCall}
                 /\ g.state[map[k]] = h.state[map[k]] => Unregistered(map, g, h)[k] = map[k]
BY DEF Unregistered

\* What an answer does to the graph: the call's Computed gets its output, unless it is
\* withdrawn at once, and the view depends on it.
LEMMA AnsweredGraph ==
    ASSUME NEW g, GraphInv(g), NEW v \in View, NEW c \in Call,
           g.state[c] = "Computing", g.dependencies[c] = {}, g.dependencies[v] \subseteq Call
    PROVE  LET h == AddDependency(SetInvalidateCallback(TrySetOutput(g, c), c), v, c)
           IN  /\ GraphInv(h)
               /\ \A n \in Node : n # v /\ n # c =>
                     h.state[n] = g.state[n] /\ h.dependencies[n] = g.dependencies[n]
               /\ h.dependencies[v] \subseteq Call
               /\ h.dependencies[c] = {}
               /\ h.state[c] # "Computing"
               /\ c \in g.deferred => h.state[c] = "Invalidated"
               /\ \A d \in Call : d # c /\ d \in g.deferred => d \in h.deferred
               /\ \A n \in Node \ {v} : h.state[n] = TrySetOutput(g, c).state[n]
<1> DEFINE f == TrySetOutput(g, c)
           e == SetInvalidateCallback(f, c)
           h == AddDependency(e, v, c)
<1>1. v \in Node /\ c \in Node /\ v # c /\ \A d \in Call : d # v
  BY CallType
<1>2. /\ GraphInv(f) /\ f \in Graph
      /\ \A n \in Node \ {c} : f.state[n] = g.state[n] /\ f.dependencies[n] = g.dependencies[n]
      /\ f.state[c] \in {"Invalidated", "Consistent"}
      /\ f.state[c] = "Consistent" => f.dependencies[c] = g.dependencies[c]
      /\ g.deferred \ {c} \subseteq f.deferred
      /\ c \in g.deferred => f.state[c] = "Invalidated"
  BY <1>1, TrySetOutputInv, TrySetOutputLater, TrySetOutputDeferred DEF GraphInv
<1>3. f.dependencies[c] = {}
  BY <1>1, <1>2 DEF GraphInv, Linked
<1> HIDE DEF f
<1>4. /\ GraphInv(e)
      /\ e.state = f.state /\ e.dependencies = f.dependencies /\ e.deferred = f.deferred
  <2>1. GraphInv(e) /\ e.state = f.state /\ e.dependencies = f.dependencies
    BY <1>1, <1>2, SetInvalidateCallbackInv, SetInvalidateCallbackLater
  <2>2. e.deferred = f.deferred
    BY <1>2 DEF SetInvalidateCallback, Graph
  <2> QED BY <2>1, <2>2
<1> HIDE DEF e
<1>5. OnlyView(e, h, v)
  BY <1>1, <1>2, <1>4, ReceiveGraph
<1> HIDE DEF h
<1>6. /\ GraphInv(h)
      /\ \A n \in Node \ {v} : h.state[n] = f.state[n] /\ h.dependencies[n] = f.dependencies[n]
      /\ h.dependencies[v] \subseteq Call
      /\ f.deferred \ {v} \subseteq h.deferred
  BY <1>4, <1>5 DEF OnlyView
<1>7. /\ GraphInv(h)
      /\ \A n \in Node : n # v /\ n # c =>
            h.state[n] = g.state[n] /\ h.dependencies[n] = g.dependencies[n]
      /\ h.dependencies[v] \subseteq Call
      /\ h.dependencies[c] = {}
      /\ h.state[c] # "Computing"
      /\ c \in g.deferred => h.state[c] = "Invalidated"
      /\ \A d \in Call : d # c /\ d \in g.deferred => d \in h.deferred
      /\ \A n \in Node \ {v} : h.state[n] = f.state[n]
  BY <1>1, <1>2, <1>3, <1>6
<1> QED BY <1>7 DEF f, e, h

\* The step in which a view gets the answer it awaits.
LEMMA AnsweredInv ==
    ASSUME NEW v \in View, IInv, Answered(v)
    PROVE  IInv'
<1> DEFINE k == KeyOf[v]
<1>0. PICK c : c = got[v]
  OBVIOUS
<1>1. /\ TypeOK /\ k \in Key /\ c \in Call /\ c < nextCall /\ c # NoCall
      /\ pc[v] = "calling" /\ answer[c] # "pending"
      /\ key[c] = k /\ graph.state[c] = "Computing" /\ storage[k] = NoCall
      /\ \A u \in View : pc[u] = "calling" /\ KeyOf[u] = k => u = v
  <2>1. TypeOK /\ pc[v] = "calling" /\ answer[c] # "pending" /\ k \in Key
    BY <1>0, KeyOfAssumption DEF IInv, TypeInv, Answered
  <2>2. /\ c \in 1..(nextCall - 1)
        /\ key[c] = k /\ graph.state[c] = "Computing" /\ storage[k] = NoCall
        /\ \A u \in View : pc[u] = "calling" /\ KeyOf[u] = k => u = v
    BY <1>0, <2>1 DEF IInv, ClientInv, Awaiting
  <2>3. c \in Call /\ c < nextCall
    BY <2>1, <2>2, MadeCalls
  <2> QED BY <2>1, <2>2, <2>3, CallType
<1>2. /\ storage' = [Unregistered(storage, graph, TrySetOutput(graph, c)) EXCEPT ![k] = c]
      /\ Receive(v, SetInvalidateCallback(TrySetOutput(graph, c), c), c)
      /\ UNCHANGED <<nextCall, key, answer, outbound>>
      /\ UNCHANGED <<serving, read, inbound, version, running, late>>
      /\ UNCHANGED <<inner, up, loop, attempts, closed>>
      /\ UNCHANGED <<toServer, toClient, accepted, since>>
  BY <1>0, <1>1 DEF Answered, server, transport, connection
<1>3. /\ GraphInv(graph) /\ graph.dependencies[c] = {} /\ graph.dependencies[v] \subseteq Call
  BY <1>1, ViewLinks DEF IInv, ClientInv, LinksShaped
<1>4. /\ GraphInv(graph')
      /\ \A n \in Node : n # v /\ n # c =>
            graph'.state[n] = graph.state[n] /\ graph'.dependencies[n] = graph.dependencies[n]
      /\ graph'.dependencies[v] \subseteq Call
      /\ graph'.dependencies[c] = {}
      /\ graph'.state[c] # "Computing"
      /\ c \in graph.deferred => graph'.state[c] = "Invalidated"
      /\ \A d \in Call : d # c /\ d \in graph.deferred => d \in graph'.deferred
      /\ \A n \in Node \ {v} : graph'.state[n] = TrySetOutput(graph, c).state[n]
  <2>1. graph' = AddDependency(SetInvalidateCallback(TrySetOutput(graph, c), c), v, c)
    BY <1>2 DEF Receive
  <2> QED BY <1>1, <1>3, <2>1, AnsweredGraph
<1>5. /\ pc' = [pc EXCEPT ![v] = "returned"]
      /\ got' = [got EXCEPT ![v] = c]
  BY <1>2 DEF Receive
<1>6. /\ v \in Node /\ c \in Node /\ v # c /\ \A d \in Call : d # v /\ d \in Node /\ d # NoCall
      /\ \A u \in View : u # c /\ u \in Node
  BY <1>1, CallType
<1>7. /\ storage' \in [Key -> Call \union {NoCall}]
      /\ storage'[k] = c
      /\ \A j \in Key \ {k} :
            /\ storage'[j] \in {storage[j], NoCall}
            /\ storage[j] \in Call \ {c} => storage'[j] = storage[j]
  <2> DEFINE map == Unregistered(storage, graph, TrySetOutput(graph, c))
  <2>1. storage \in [Key -> Call \union {NoCall}]
    BY <1>1 DEF TypeOK
  <2>2. /\ map \in [Key -> Call \union {NoCall}]
        /\ \A j \in Key :
              /\ map[j] \in {storage[j], NoCall}
              /\ graph.state[storage[j]] = TrySetOutput(graph, c).state[storage[j]]
                    => map[j] = storage[j]
    BY <2>1, UnregisteredEntries
  <2>3. \A d \in Call \ {c} : graph.state[d] = TrySetOutput(graph, c).state[d]
    BY <1>4, <1>6
  <2> HIDE DEF map, k
  <2>4. storage' = [map EXCEPT ![k] = c]
    BY <1>2 DEF map, k
  <2> QED BY <1>1, <2>1, <2>2, <2>3, <2>4
<1> HIDE DEF k
<1>8. TypeInv'
  <2>1. /\ pc' \in [View -> {"idle", "locking", "calling", "returned"}]
        /\ got' \in [View -> Call \union {NoCall}]
    BY <1>1, <1>5 DEF TypeOK
  <2>2. TypeOK'
    BY <1>1, <1>2, <1>4, <1>7, <2>1 DEF TypeOK, GraphInv, Transport!TypeOK
  <2> QED BY <1>2, <1>4, <2>2 DEF IInv, TypeInv
<1>9. ASSUME NEW u \in View, u # v
      PROVE  pc'[u] = pc[u] /\ got'[u] = got[u]
  BY <1>1, <1>5, <1>9 DEF TypeOK
<1>10. pc'[v] = "returned"
  BY <1>1, <1>5 DEF TypeOK
<1>11. ClientInv'
  <2>1. LinksShaped'
    <3>1. \A n \in Node : graph'.dependencies[n] \subseteq Call
      BY <1>4 DEF IInv, ClientInv, LinksShaped
    <3>2. \A d \in Call : graph'.dependencies[d] = {}
      BY <1>4, <1>6 DEF IInv, ClientInv, LinksShaped
    <3>3. ASSUME NEW u \in View, pc'[u] = "idle", graph'.state[u] = "Computing"
          PROVE  graph'.dependencies[u] = {}
      <4>1. u # v
        BY <1>10, <3>3
      <4>2. pc[u] = "idle" /\ graph.state[u] = "Computing"
        BY <1>4, <1>6, <1>9, <3>3, <4>1
      <4> QED BY <1>4, <1>6, <4>1, <4>2 DEF IInv, ClientInv, LinksShaped
    <3> QED BY <3>1, <3>2, <3>3 DEF LinksShaped
  <2>2. Unmade'
    <3>1. \A d \in Call : d >= nextCall => d # c
      BY <1>1, MadeCalls
    <3> QED BY <1>2, <1>4, <1>6, <3>1 DEF IInv, ClientInv, Unmade
  <2>3. Awaiting'
    <3>1. ASSUME NEW u \in View, pc'[u] = "calling"
          PROVE  /\ got'[u] = got[u] /\ pc[u] = "calling"
                 /\ graph'.state[got[u]] = "Computing"
                 /\ storage'[KeyOf[u]] = NoCall
                 /\ \A w \in View : pc'[w] = "calling" => pc[w] = "calling"
      <4>1. u # v /\ \A w \in View : pc'[w] = "calling" => w # v
        BY <1>10, <3>1
      <4>2. pc[u] = "calling" /\ got'[u] = got[u] /\ \A w \in View : pc'[w] = "calling" => pc[w] = "calling"
        BY <1>9, <3>1, <4>1
      <4>3. /\ got[u] \in 1..(nextCall - 1) /\ key[got[u]] = KeyOf[u]
            /\ graph.state[got[u]] = "Computing" /\ storage[KeyOf[u]] = NoCall
            /\ KeyOf[u] \in Key
        BY <4>2, KeyOfAssumption DEF IInv, ClientInv, Awaiting
      <4>4. KeyOf[u] # k
        BY <1>1, <4>1, <4>2
      <4>5. got[u] \in Call /\ got[u] # c
        BY <1>1, <4>3, <4>4, MadeCalls
      <4> QED BY <1>4, <1>6, <1>7, <4>2, <4>3, <4>4, <4>5
    <3> QED BY <1>2, <3>1 DEF IInv, ClientInv, Awaiting
  <2>4. Registered'
    <3>1. ASSUME NEW d \in Call, graph'.state[d] = "Consistent"
          PROVE  storage'[key[d]] = d
      <4>1. CASE d = c
        BY <1>1, <1>7, <4>1
      <4>2. CASE d # c
        <5>1. graph.state[d] = "Consistent"
          BY <1>4, <1>6, <3>1, <4>2
        <5>2. d < nextCall
          BY <1>1, <5>1, MadeCalls DEF IInv, ClientInv, Unmade
        <5>3. key[d] \in Key /\ storage[key[d]] = d
          BY <1>1, <5>1, <5>2, MadeCalls DEF IInv, ClientInv, Registered, Served, TypeOK
        <5>4. key[d] # k
          BY <1>1, <1>6, <5>3
        <5> QED BY <1>7, <4>2, <5>3, <5>4
      <4> QED BY <4>1, <4>2
    <3> QED BY <1>2, <3>1 DEF Registered, Served
  <2> QED BY <2>1, <2>2, <2>3, <2>4 DEF ClientInv
<1>12. BeforeIsOver'
  <2>1. ASSUME ~closed, NEW d \in Call, d < since
        PROVE  graph'.state[d] # "Consistent"
    <3>1. d # c
      BY <1>0, <1>1, <2>1 DEF IInv, BeforeIsOver
    <3> QED BY <1>4, <1>6, <2>1, <3>1 DEF IInv, BeforeIsOver, Served
  <2>2. ASSUME ~closed, NEW u \in View, pc'[u] = "calling", got'[u] < since
        PROVE  answer[got'[u]] = "pending"
    <3>1. u # v
      BY <1>10, <2>2
    <3> QED BY <1>9, <2>2, <3>1 DEF IInv, BeforeIsOver
  <2> QED BY <1>2, <2>1, <2>2 DEF BeforeIsOver, Served
<1>13. PlacesInv'
  BY <1>2 DEF IInv, PlacesInv, ReadsPast, Requests, Dispatches, Answers, Notifications, InOrder,
              Requested, UnderWay, Stale, Once, Before
<1>14. Pending'
  BY <1>2 DEF IInv, Pending, Unanswered, Requested, UnderWay
<1>15. Notified'
  <2>1. ASSUME NEW d \in Call, Withdrawn(d)
        PROVE  Withdrawn(d)'
    <3>1. CASE d = c
      BY <1>1, <1>4, <2>1, <3>1 DEF Withdrawn
    <3>2. CASE d # c
      BY <1>4, <1>6, <2>1, <3>2 DEF Withdrawn
    <3> QED BY <3>1, <3>2
  <2>2. \A d \in since..(nextCall - 1) : d \in Call
    BY <1>1, MadeCalls
  <2> QED BY <1>2, <2>1, <2>2 DEF IInv, Notified, Connected
<1>16. EntriesAwaited'
  BY <1>2 DEF IInv, EntriesAwaited, Connected, Subscribed, UnderWay, Requested
<1> QED BY <1>8, <1>11, <1>12, <1>13, <1>14, <1>15, <1>16 DEF IInv

-----------------------------------------------------------------------------
(***************************************************************************)
(* The steps of the client's peer.                                         *)
(***************************************************************************)

\* From g to h served nodes are withdrawn and nothing else happens.
Withdraws(g, h) ==
    /\ GraphInv(h)
    /\ Later(g, h)
    /\ g.deferred \subseteq h.deferred

\* Such a change keeps the shape of the links, the calls that are not answered, and what
\* was withdrawn before.
LEMMA WithdrawsKeeps ==
    ASSUME IInv, Withdraws(graph, graph'),
           storage' \in [Key -> Call \union {NoCall}],
           \A k \in Key : storage'[k] \in {storage[k], NoCall},
           UNCHANGED <<pc, got, nextCall, key>>
    PROVE  /\ LinksShaped'
           /\ Awaiting'
           /\ \A c \in Call : graph.state[c] = "Computing" => graph'.state[c] = "Computing"
           /\ \A c \in Call : Served(c)' => Served(c)
           /\ \A c \in Call : Withdrawn(c) => Withdrawn(c)'
<1>1. /\ \A n \in Node :
            /\ \/ graph'.state[n] = graph.state[n]
               \/ graph.state[n] = "Consistent" /\ graph'.state[n] = "Invalidated"
            /\ graph'.state[n] # "Invalidated" => graph'.dependencies[n] = graph.dependencies[n]
            /\ graph'.state[n] = "Invalidated" => graph'.dependencies[n] = {}
      /\ graph.deferred \subseteq graph'.deferred
  BY DEF Withdraws, Later, GraphInv, Linked
<1>2. UNCHANGED pc /\ UNCHANGED got /\ UNCHANGED nextCall /\ UNCHANGED key
  OBVIOUS
<1>3. LinksShaped'
  <2>1. \A c \in Call : graph'.dependencies[c] = {}
    BY <1>1, CallType DEF IInv, ClientInv, LinksShaped
  <2>2. \A n \in Node : graph'.dependencies[n] \subseteq Call
    BY <1>1 DEF IInv, ClientInv, LinksShaped
  <2>3. ASSUME NEW v \in View, pc[v] = "idle", graph'.state[v] = "Computing"
        PROVE  graph'.dependencies[v] = {}
    BY <1>1, <2>3, CallType DEF IInv, ClientInv, LinksShaped
  <2> QED BY <1>2, <2>1, <2>2, <2>3 DEF LinksShaped
<1>4. \A c \in Call : graph.state[c] = "Computing" => graph'.state[c] = "Computing"
  BY <1>1, CallType
<1>5. Awaiting'
  <2>1. ASSUME NEW v \in View, pc[v] = "calling"
        PROVE  graph'.state[got[v]] = "Computing" /\ storage'[KeyOf[v]] = NoCall
    <3>1. /\ got[v] \in 1..(nextCall - 1) /\ graph.state[got[v]] = "Computing"
          /\ KeyOf[v] \in Key /\ storage[KeyOf[v]] = NoCall
      BY <2>1, KeyOfAssumption DEF IInv, ClientInv, Awaiting
    <3>2. got[v] \in Call
      BY <3>1, MadeCalls DEF IInv, TypeInv
    <3> QED BY <1>4, <3>1, <3>2
  <2> QED BY <1>2, <2>1 DEF IInv, ClientInv, Awaiting
<1>6. \A c \in Call : Served(c)' => Served(c)
  BY <1>1, CallType DEF Served
<1>7. \A c \in Call : Withdrawn(c) => Withdrawn(c)'
  BY <1>1, CallType DEF Withdrawn
<1> QED BY <1>3, <1>4, <1>5, <1>6, <1>7

\* A message of the server for call c, which the client takes.
Taken(type, c) ==
    /\ UnderWay(type, c)
    /\ type = "Invalidate" => ~UnderWay("Ok", c)
    /\ \A t \in MessageType, d \in Call :
          UnderWay(t, d)' <=> UnderWay(t, d) /\ ~(t = type /\ d = c)
    /\ toClient' \in Seq(Messages)
    /\ Once(toClient')
    /\ \A d \in Call : Before(Message("Ok", d), Message("Invalidate", d), toClient')
    /\ UNCHANGED <<pc, got, nextCall, key, serving, read, inbound, version, running, late>>
    /\ UNCHANGED <<inner, up, loop, attempts, closed, toServer, accepted, since>>

\* The places of the calls, whatever the client does with the message.
LEMMA TakenPlaces ==
    ASSUME IInv, NEW type \in MessageType, NEW c \in Call, Taken(type, c)
    PROVE  PlacesInv'
<1>1. /\ \A t \in MessageType, d \in Call :
            UnderWay(t, d)' <=> UnderWay(t, d) /\ ~(t = type /\ d = c)
      /\ UNCHANGED <<nextCall, key, serving, read, inbound, version, running, late, toServer, accepted, since>>
      /\ inbound \subseteq Call /\ serving \subseteq Call
      /\ \A d : Requested(d)' <=> Requested(d)
      /\ \A d : Stale(d)' <=> Stale(d)
  BY MadeCalls DEF Taken, Requested, Stale, IInv, TypeInv, TypeOK
<1>2. ReadsPast' /\ Requests' /\ Dispatches'
  BY <1>1 DEF IInv, PlacesInv, ReadsPast, Requests, Dispatches
<1>3. Answers'
  BY <1>1 DEF IInv, PlacesInv, Answers, MessageType
<1>4. Notifications'
  <2>1. ASSUME NEW d \in inbound, UnderWay("Ok", d)', Stale(d)
        PROVE  d \in late \/ UnderWay("Invalidate", d)'
    <3>1. d \in Call /\ {"Ok", "Invalidate"} \subseteq MessageType
      BY <1>1 DEF MessageType
    <3>2. UnderWay("Ok", d)
      BY <1>1, <2>1, <3>1
    <3>3. d \in late \/ UnderWay("Invalidate", d)
      BY <2>1, <3>2 DEF IInv, PlacesInv, Notifications
    <3>4. ~(type = "Invalidate" /\ c = d)
      BY <3>2 DEF Taken
    <3> QED BY <1>1, <3>1, <3>3, <3>4
  <2>2. "Invalidate" \in MessageType
    BY DEF MessageType
  <2> QED BY <1>1, <2>1, <2>2 DEF IInv, PlacesInv, Notifications
<1>5. InOrder'
  BY <1>1 DEF IInv, PlacesInv, InOrder, Taken
<1> QED BY <1>2, <1>3, <1>4, <1>5 DEF PlacesInv

\* The outcome of some calls that were pending.
LEMMA SettleOutcome ==
    ASSUME TypeOK, NEW C \in SUBSET Call, NEW outcome \in {"ok", "error"}, Settle(C, outcome)
    PROVE  /\ answer' \in [Call -> {"pending", "ok", "error"}]
           /\ \A c \in Call : c \notin C => answer'[c] = answer[c]
           /\ \A c \in Call : answer[c] # "pending" => answer'[c] = answer[c]
           /\ \A c \in C : answer[c] = "pending" => answer'[c] = outcome
BY DEF Settle, TypeOK

\* An answer arrives, or an error.
LEMMA HandleOkInv ==
    ASSUME IInv, NEW c \in Call,
           \/ Taken("Ok", c) /\ HandleOk(c)
           \/ Taken("Error", c) /\ HandleError(c)
    PROVE  IInv'
<1>1. PICK type \in {"Ok", "Error"} :
          /\ Taken(type, c)
          /\ type = "Ok" => HandleOk(c)
          /\ type = "Error" => HandleError(c)
  OBVIOUS
<1>2. /\ TypeOK /\ type \in MessageType
      /\ UNCHANGED <<graph, storage, pc, got, nextCall, key, serving, read, inbound, version, running, late>>
      /\ UNCHANGED <<inner, up, loop, attempts, closed, toServer, accepted, since>>
  BY <1>1 DEF Taken, HandleOk, HandleError, MessageType, IInv, TypeInv
<1>3. /\ UnderWay(type, c) /\ toClient' \in Seq(Messages)
      /\ \A t \in MessageType, d \in Call :
            UnderWay(t, d)' <=> UnderWay(t, d) /\ ~(t = type /\ d = c)
  BY <1>1 DEF Taken
<1>4. /\ answer' \in [Call -> {"pending", "ok", "error"}]
      /\ \A d \in Call \ {c} : answer'[d] = answer[d]
      /\ answer[c] # "pending" \/ c \notin outbound => answer'[c] = answer[c]
      /\ answer[c] = "pending" /\ c \in outbound =>
            answer'[c] = IF type = "Ok" THEN "ok" ELSE "error"
      /\ outbound' = IF type = "Ok" THEN outbound ELSE outbound \ {c}
  <2>1. {c} \intersect outbound \in SUBSET Call
    OBVIOUS
  <2>2. CASE type = "Ok"
    <3>1. Settle({c} \intersect outbound, "ok") /\ outbound' = outbound
      BY <1>1, <2>2 DEF HandleOk
    <3> QED BY <1>2, <2>1, <2>2, <3>1, SettleOutcome
  <2>3. CASE type = "Error"
    <3>1. Settle({c} \intersect outbound, "error") /\ outbound' = outbound \ {c}
      BY <1>1, <2>3 DEF HandleError
    <3> QED BY <1>2, <2>1, <2>3, <3>1, SettleOutcome
  <2> QED BY <2>2, <2>3
<1>5. /\ c >= since /\ c < nextCall /\ ~Requested(c) /\ c \notin serving
      /\ type = "Error" => c \notin inbound \union late
      /\ \A t \in {"Ok", "Error"} : ~UnderWay(t, c)'
      /\ type = "Error" => ~UnderWay("Invalidate", c)'
  <2>1. c >= since /\ c < nextCall
    BY <1>2, <1>3 DEF IInv, PlacesInv, Answers
  <2>2. ~Requested(c) /\ c \notin serving
    BY <1>2, <1>3 DEF IInv, PlacesInv, Requests, Dispatches
  <2>3. /\ type = "Error" => c \notin inbound \union late
        /\ type = "Error" => ~UnderWay("Invalidate", c) /\ ~UnderWay("Ok", c)
        /\ type = "Ok" => ~UnderWay("Error", c)
    BY <1>3 DEF IInv, PlacesInv, Answers
  <2> QED BY <1>2, <1>3, <2>1, <2>2, <2>3 DEF MessageType
<1>6. \A d \in Call : ~(d < since) \/ d # c
  BY <1>2, <1>5, MadeCalls
<1>7. TypeInv'
  <2>1. outbound' \subseteq outbound
    BY <1>4
  <2>2. TypeOK'
    BY <1>2, <1>3, <1>4, <2>1 DEF TypeOK, Messages, Transport!TypeOK
  <2> QED BY <1>2, <2>2 DEF IInv, TypeInv
<1>8. ClientInv'
  <2>1. LinksShaped' /\ Awaiting' /\ Registered'
    BY <1>2 DEF IInv, ClientInv, LinksShaped, Awaiting, Registered, Served
  <2>2. \A d \in Call : d >= nextCall => d # c
    BY <1>2, <1>5, MadeCalls
  <2>3. Unmade'
    BY <1>2, <1>4, <2>2 DEF IInv, ClientInv, Unmade
  <2> QED BY <2>1, <2>3 DEF ClientInv
<1>9. BeforeIsOver'
  <2>1. ASSUME NEW v \in View, pc[v] = "calling", got[v] < since, ~closed
        PROVE  answer'[got[v]] = "pending"
    <3>1. got[v] \in 1..(nextCall - 1)
      BY <2>1 DEF IInv, ClientInv, Awaiting
    <3>2. got[v] \in Call
      BY <1>2, <3>1, MadeCalls
    <3> QED BY <1>4, <1>6, <2>1, <3>2 DEF IInv, BeforeIsOver
  <2> QED BY <1>2, <2>1 DEF IInv, BeforeIsOver, Served
<1>10. PlacesInv'
  BY <1>1, <1>2, TakenPlaces
<1>11. Pending'
  <2>1. ASSUME ~closed, NEW d \in Call, Unanswered(d)'
        PROVE  answer'[d] = "pending"
    <3>1. d # c /\ Unanswered(d)
      BY <1>2, <1>3, <1>5, <2>1 DEF Unanswered, Requested, MessageType
    <3> QED BY <1>4, <2>1, <3>1 DEF IInv, Pending
  <2> QED BY <1>2, <2>1 DEF Pending
<1>12. ASSUME Connected, NEW d \in since..(nextCall - 1)
       PROVE  d \in outbound' <=>
                 \/ Requested(d)
                 \/ d \in serving \union Subscribed \union late
                 \/ \E t \in MessageType : UnderWay(t, d)'
  <2>1. /\ d \in Call
        /\ d \in outbound <=> \/ Requested(d)
                              \/ d \in serving \union Subscribed \union late
                              \/ \E t \in MessageType : UnderWay(t, d)
    BY <1>2, <1>12, MadeCalls DEF IInv, EntriesAwaited, Requested
  <2>2. CASE d # c
    BY <1>3, <1>4, <2>1, <2>2
  <2>3. CASE d = c /\ type = "Ok"
    <3>1. c \in inbound /\ read[c] # NoVersion
      BY <1>3, <1>12, <2>3 DEF IInv, PlacesInv, Answers, Notifications, Connected
    <3>2. c \in Subscribed \/ Stale(c)
      BY <3>1 DEF Subscribed, Stale
    <3>3. c \in Subscribed \/ c \in late \/ UnderWay("Invalidate", c)'
      BY <1>3, <2>3, <3>1, <3>2 DEF IInv, PlacesInv, Notifications, MessageType
    <3> QED BY <1>2, <1>3, <1>4, <2>1, <2>3, <3>3 DEF MessageType
  <2>4. CASE d = c /\ type = "Error"
    <3>1. c \notin Subscribed
      BY <1>5, <2>4 DEF Subscribed
    <3>2. ~\E t \in MessageType : UnderWay(t, c)'
      BY <1>5, <2>4 DEF MessageType
    <3> QED BY <1>4, <1>5, <2>4, <3>1, <3>2
  <2> QED BY <2>2, <2>3, <2>4
<1>13. Notified'
  <2>1. ASSUME Connected, NEW d \in since..(nextCall - 1), answer'[d] = "ok", d \notin outbound'
        PROVE  Withdrawn(d)
    <3>1. answer[d] = "ok" /\ d \notin outbound
      <4>1. CASE d # c
        BY <1>2, <1>4, <2>1, <4>1, MadeCalls
      <4>2. CASE d = c /\ type = "Ok"
        BY <1>4, <2>1, <4>2
      <4>3. CASE d = c /\ type = "Error"
        <5>1. answer[c] = "pending"
          BY <1>3, <2>1, <4>3 DEF IInv, Pending, Unanswered, Connected
        <5>2. c \in outbound
          BY <1>2, <1>3, <2>1, <4>3 DEF IInv, EntriesAwaited
        <5> QED BY <1>4, <2>1, <4>3, <5>1, <5>2
      <4> QED BY <4>1, <4>2, <4>3
    <3> QED BY <2>1, <3>1 DEF IInv, Notified
  <2> QED BY <1>2, <2>1 DEF Notified, Connected, Withdrawn
<1>14. EntriesAwaited'
  BY <1>2, <1>12 DEF EntriesAwaited, Requested, Connected, Subscribed
<1> QED BY <1>7, <1>8, <1>9, <1>10, <1>11, <1>13, <1>14 DEF IInv

\* A notification arrives: the call's Computed is withdrawn, now or as soon as it has an
\* output, if the call is still in the table.
LEMMA HandleInvalidateInv ==
    ASSUME IInv, NEW c \in Call, Taken("Invalidate", c), HandleInvalidate(c)
    PROVE  IInv'
<1>1. /\ TypeOK /\ GraphInv(graph) /\ graph \in Graph /\ c \in Node
      /\ UNCHANGED <<answer, pc, got, nextCall, key, serving, read, inbound, version, running, late>>
      /\ UNCHANGED <<inner, up, loop, attempts, closed, toServer, accepted, since>>
      /\ outbound' = outbound \ {c}
      /\ graph' = IF c \in outbound THEN Invalidate(graph, c) ELSE graph
      /\ storage' = Unregistered(storage, graph, graph')
  BY CallType DEF Taken, HandleInvalidate, IInv, TypeInv, GraphInv
<1>2. /\ UnderWay("Invalidate", c) /\ ~UnderWay("Ok", c) /\ toClient' \in Seq(Messages)
      /\ \A t \in MessageType, d \in Call :
            UnderWay(t, d)' <=> UnderWay(t, d) /\ ~(t = "Invalidate" /\ d = c)
  BY DEF Taken
<1>3. /\ Withdraws(graph, graph')
      /\ c \in outbound => Withdrawn(c)'
  <2>1. /\ GraphInv(Invalidate(graph, c)) /\ Later(graph, Invalidate(graph, c))
        /\ graph.deferred \subseteq Invalidate(graph, c).deferred
        /\ graph.state[c] # "Computing" => Invalidate(graph, c).state[c] = "Invalidated"
        /\ graph.state[c] = "Computing" =>
              c \in Invalidate(graph, c).deferred /\ Invalidate(graph, c).state = graph.state
    BY <1>1, InvalidateInv, InvalidateLater, InvalidateDeferred
  <2>2. GraphInv(graph) /\ Later(graph, graph) /\ graph.deferred \subseteq graph.deferred
    BY <1>1 DEF Later
  <2> QED BY <1>1, <2>1, <2>2 DEF Withdraws, Withdrawn
<1>4. /\ storage' \in [Key -> Call \union {NoCall}]
      /\ \A k \in Key :
            /\ storage'[k] \in {storage[k], NoCall}
            /\ graph.state[storage[k]] = graph'.state[storage[k]] => storage'[k] = storage[k]
  <2>1. storage \in [Key -> Call \union {NoCall}]
    BY <1>1 DEF TypeOK
  <2> QED BY <1>1, <2>1, UnregisteredEntries
<1>5. /\ LinksShaped'
      /\ Awaiting'
      /\ \A d \in Call : graph.state[d] = "Computing" => graph'.state[d] = "Computing"
      /\ \A d \in Call : Served(d)' => Served(d)
      /\ \A d \in Call : Withdrawn(d) => Withdrawn(d)'
  BY <1>1, <1>3, <1>4, WithdrawsKeeps
<1>6. /\ c \notin Subscribed /\ c \notin late /\ ~Requested(c) /\ c \notin serving
      /\ \A t \in MessageType : ~UnderWay(t, c)'
  <2>1. c \notin Subscribed /\ c \notin late
    BY <1>2 DEF IInv, PlacesInv, Notifications, Stale, Subscribed
  <2>2. ~Requested(c) /\ c \notin serving
    BY <1>2 DEF IInv, PlacesInv, Requests, Dispatches, MessageType
  <2>3. ~UnderWay("Error", c)
    BY <1>2 DEF IInv, PlacesInv, Answers
  <2> QED BY <1>2, <2>1, <2>2, <2>3 DEF MessageType
<1>7. TypeInv'
  <2>1. graph' \in Graph
    BY <1>3 DEF Withdraws, GraphInv
  <2>2. TypeOK'
    BY <1>1, <1>2, <1>4, <2>1 DEF TypeOK, Messages, Transport!TypeOK
  <2> QED BY <1>1, <1>3, <2>2 DEF IInv, TypeInv, Withdraws
<1>8. ClientInv'
  <2>1. Unmade'
    BY <1>1, <1>5 DEF IInv, ClientInv, Unmade
  <2>2. Registered'
    <3>1. ASSUME NEW d \in Call, graph'.state[d] = "Consistent"
          PROVE  storage'[key[d]] = d
      <4>1. graph.state[d] = "Consistent"
        BY <1>5, <3>1 DEF Served
      <4>2. d < nextCall
        BY <1>1, <4>1, MadeCalls DEF IInv, ClientInv, Unmade
      <4>3. key[d] \in Key /\ storage[key[d]] = d
        BY <1>1, <4>1, <4>2, MadeCalls DEF IInv, ClientInv, Registered, Served, TypeOK
      <4> QED BY <1>4, <3>1, <4>1, <4>3
    <3> QED BY <1>1, <3>1 DEF Registered, Served
  <2> QED BY <1>5, <2>1, <2>2 DEF ClientInv
<1>9. BeforeIsOver'
  BY <1>1, <1>5 DEF IInv, BeforeIsOver
<1>10. PlacesInv'
  BY <1>1, TakenPlaces DEF MessageType
<1>11. Pending'
  <2>1. \A d \in Call : Unanswered(d)' => Unanswered(d)
    BY <1>1, <1>2 DEF Unanswered, Requested, MessageType
  <2> QED BY <1>1, <2>1 DEF IInv, Pending
<1>12. Notified'
  <2>1. ASSUME Connected, NEW d \in since..(nextCall - 1), answer[d] = "ok", d \notin outbound'
        PROVE  Withdrawn(d)'
    <3>1. d \in Call
      BY <1>1, <2>1, MadeCalls
    <3>2. CASE d = c /\ c \in outbound
      BY <1>3, <3>2
    <3>3. CASE d \notin outbound
      BY <1>5, <2>1, <3>1, <3>3 DEF IInv, Notified
    <3> QED BY <1>1, <2>1, <3>2, <3>3
  <2> QED BY <1>1, <2>1 DEF Notified, Connected
<1>13. EntriesAwaited'
  <2>1. ASSUME Connected, NEW d \in since..(nextCall - 1)
        PROVE  d \in outbound' <=>
                  \/ Requested(d)
                  \/ d \in serving \union Subscribed \union late
                  \/ \E t \in MessageType : UnderWay(t, d)'
    <3>1. /\ d \in Call
          /\ d \in outbound <=> \/ Requested(d)
                                \/ d \in serving \union Subscribed \union late
                                \/ \E t \in MessageType : UnderWay(t, d)
      BY <1>1, <2>1, MadeCalls DEF IInv, EntriesAwaited, Requested
    <3>2. CASE d # c
      BY <1>1, <1>2, <3>1, <3>2
    <3>3. CASE d = c
      BY <1>1, <1>6, <3>3
    <3> QED BY <3>2, <3>3
  <2> QED BY <1>1, <2>1 DEF EntriesAwaited, Requested, Connected, Subscribed
<1> QED BY <1>7, <1>8, <1>9, <1>10, <1>11, <1>12, <1>13 DEF IInv

\* The step in which the client receives a message.
LEMMA ClientReceivesInv ==
    ASSUME IInv, ClientReceives
    PROVE  IInv'
<1>1. TypeOK /\ InOrder /\ toClient # <<>> /\ toClient' = Tail(toClient)
  BY DEF IInv, TypeInv, PlacesInv, ClientReceives
<1>2. PICK type \in MessageType, c \in Call :
          /\ Head(toClient) = Message(type, c)
          /\ UnderWay(type, c)
          /\ type = "Invalidate" => ~UnderWay("Ok", c)
          /\ \A t \in MessageType, d \in Call :
                UnderWay(t, d)' <=> UnderWay(t, d) /\ ~(t = type /\ d = c)
          /\ toClient' \in Seq(Messages)
          /\ Once(toClient')
          /\ \A d \in Call : Before(Message("Ok", d), Message("Invalidate", d), toClient')
  BY <1>1, MessageTaken
<1>3. Head(toClient).type = type /\ Head(toClient).call = c
  BY <1>2, MessageFields
<1>4. \/ type = "Ok" /\ HandleOk(c)
      \/ type = "Error" /\ HandleError(c)
      \/ type = "Invalidate" /\ HandleInvalidate(c)
  BY <1>3 DEF ClientReceives, HandleMessage
<1>5. /\ UNCHANGED <<pc, got, nextCall, key, serving, read, inbound, version, running, late>>
      /\ UNCHANGED <<inner, up, loop, attempts, closed, toServer, accepted, since>>
  BY DEF ClientReceives, server, transport
<1>6. Taken(type, c)
  BY <1>2, <1>5 DEF Taken
<1> QED BY <1>4, <1>6, HandleOkInv, HandleInvalidateInv

-----------------------------------------------------------------------------
(***************************************************************************)
(* The steps of the client's transport.                                    *)
(***************************************************************************)

\* A step after which the transport has no connection; the peer is told when it is the
\* end.
TransportEnds ==
    /\ ~up'
    /\ closed => closed'
    /\ Told
    /\ Transport!TypeOK'
    /\ toClient' \in {toClient, <<>>}
    /\ UNCHANGED <<graph, storage, pc, got, nextCall, key>>
    /\ UNCHANGED <<serving, read, inbound, version, running, late, toServer, accepted, since>>

\* Such a step preserves the invariant.
LEMMA TransportEndsInv ==
    ASSUME IInv, TransportEnds
    PROVE  IInv'
<1>1. /\ TypeOK /\ ~Connected'
      /\ UNCHANGED <<graph, storage, pc, got, nextCall, key>>
      /\ UNCHANGED <<serving, read, inbound, version, running, late, toServer, accepted, since>>
  BY DEF TransportEnds, Connected, IInv, TypeInv
<1>2. /\ toClient' \in Seq(Messages)
      /\ \A t, d : UnderWay(t, d)' => UnderWay(t, d)
      /\ \A d \in Call : UnderWay("Ok", d)' /\ UnderWay("Invalidate", d) => UnderWay("Invalidate", d)'
      /\ Once(toClient')
      /\ \A d \in Call : Before(Message("Ok", d), Message("Invalidate", d), toClient')
  <2>1. CASE toClient' = toClient
    <3>1. \A t, d : UnderWay(t, d)' <=> UnderWay(t, d)
      BY <2>1 DEF UnderWay
    <3>2. toClient \in Seq(Messages) /\ InOrder
      BY <1>1 DEF TypeOK, Messages, IInv, PlacesInv
    <3> QED BY <2>1, <3>1, <3>2 DEF InOrder
  <2>2. CASE toClient' = <<>>
    BY <2>2, NothingUnderWay
  <2> QED BY <2>1, <2>2 DEF TransportEnds
<1>3. /\ answer' \in [Call -> {"pending", "ok", "error"}]
      /\ outbound' \subseteq outbound
      /\ \A c \in Call : c \notin outbound => answer'[c] = answer[c]
      /\ ~closed' => ~closed /\ answer' = answer /\ outbound' = outbound
  <2>1. outbound \in SUBSET Call /\ closed \in BOOLEAN
    BY <1>1, MadeCalls DEF TypeOK, Transport!TypeOK
  <2>2. CASE Transport!Gone
    <3>1. Settle(outbound, "error") /\ outbound' = {}
      BY <2>2 DEF TransportEnds, Told, HandleClose
    <3> QED BY <1>1, <2>1, <2>2, <3>1, SettleOutcome DEF Transport!Gone
  <2>3. CASE ~Transport!Gone
    BY <1>1, <2>3 DEF TransportEnds, Told, TypeOK, Transport!Gone
  <2> QED BY <2>2, <2>3
<1>4. /\ \A d : Requested(d)' <=> Requested(d)
      /\ \A d : Stale(d)' <=> Stale(d)
  BY <1>1 DEF Requested, Stale
<1>5. TypeInv'
  <2>1. Transport!TypeOK'
    BY DEF TransportEnds
  <2>2. TypeOK'
    BY <1>1, <1>2, <1>3, <2>1 DEF TypeOK, Messages
  <2> QED BY <1>1, <2>2 DEF IInv, TypeInv, TransportEnds
<1>6. ClientInv'
  <2>1. LinksShaped' /\ Awaiting' /\ Registered'
    BY <1>1 DEF IInv, ClientInv, LinksShaped, Awaiting, Registered, Served
  <2>2. \A d \in Call : d >= nextCall => d \notin outbound
    BY <1>1, MadeCalls DEF TypeOK
  <2>3. Unmade'
    BY <1>1, <1>3, <2>2 DEF IInv, ClientInv, Unmade
  <2> QED BY <2>1, <2>3 DEF ClientInv
<1>7. BeforeIsOver'
  BY <1>1, <1>3 DEF IInv, BeforeIsOver, Served
<1>8. PlacesInv'
  <2>1. ReadsPast' /\ Requests' /\ Dispatches'
    BY <1>1, <1>2, <1>4 DEF IInv, PlacesInv, ReadsPast, Requests, Dispatches
  <2>2. Answers'
    BY <1>1, <1>2 DEF IInv, PlacesInv, Answers
  <2>3. Notifications'
    <3>1. inbound \subseteq Call
      BY <1>1, MadeCalls DEF TypeOK
    <3> QED BY <1>1, <1>2, <1>4, <3>1 DEF IInv, PlacesInv, Notifications
  <2>4. InOrder'
    BY <1>1, <1>2 DEF IInv, PlacesInv, InOrder
  <2> QED BY <2>1, <2>2, <2>3, <2>4 DEF PlacesInv
<1>9. Pending'
  <2>1. \A d \in Call : Unanswered(d)' => Unanswered(d)
    BY <1>1, <1>2, <1>4 DEF Unanswered
  <2> QED BY <1>3, <2>1 DEF IInv, Pending
<1>10. Notified' /\ EntriesAwaited'
  BY <1>1 DEF Notified, EntriesAwaited
<1> QED BY <1>5, <1>6, <1>7, <1>8, <1>9, <1>10 DEF IInv

\* The head of the loop keeps its counter within the bound, and never opens the transport.
LEMMA RetryTypes ==
    ASSUME attempts \in 0..MaxAttempts, closed \in BOOLEAN, Transport!Retry
    PROVE  /\ loop' \in {"none", "delaying", "connecting"}
           /\ attempts' \in 0..MaxAttempts /\ closed' \in BOOLEAN
           /\ closed => closed'
<1>1. MaxAttempts \in Nat
  BY BoundsAssumption
<1>2. CASE ~closed /\ attempts < MaxAttempts
  <2>1. loop' = "delaying" /\ attempts' = attempts + 1 /\ closed' = closed
    BY <1>2 DEF Transport!Retry
  <2> QED BY <1>1, <1>2, <2>1
<1>3. CASE ~(~closed /\ attempts < MaxAttempts)
  <2>1. loop' = "none" /\ attempts' = attempts /\ closed' = TRUE
    BY <1>3 DEF Transport!Retry
  <2> QED BY <2>1
<1> QED BY <1>2, <1>3

\* A connection that closes at the client's end ends.
LEMMA ClientClosesEnds ==
    ASSUME IInv, ClientCloses
    PROVE  TransportEnds
<1>1. /\ inner \in 1..MaxConnection /\ loop \in {"none", "delaying", "connecting"}
      /\ attempts \in 0..MaxAttempts /\ closed \in BOOLEAN
  BY DEF IInv, TypeInv, TypeOK, Transport!TypeOK
<1>2. ~up' /\ up' \in BOOLEAN /\ inner' = inner
  BY DEF ClientCloses, Transport!InnerCloses, Transport!Dispose
<1>3. /\ loop' \in {"none", "delaying", "connecting"}
      /\ attempts' \in 0..MaxAttempts /\ closed' \in BOOLEAN
      /\ closed => closed'
  <2>1. CASE Transport!InnerCloses /\ ~closed
    <3>1. Transport!Retry
      BY <2>1 DEF Transport!InnerCloses
    <3> QED BY <1>1, <3>1, RetryTypes
  <2>2. CASE Transport!InnerCloses /\ closed
    BY <1>1, <2>2 DEF Transport!InnerCloses
  <2>3. CASE Transport!Dispose
    BY <1>1, <2>3 DEF Transport!Dispose
  <2> QED BY <2>1, <2>2, <2>3 DEF ClientCloses
<1> QED BY <1>1, <1>2, <1>3 DEF ClientCloses, TransportEnds, Transport!TypeOK, server

\* The steps of the reconnecting loop that bring no connection find none either.
LEMMA ReconnectingEnds ==
    ASSUME IInv, Reconnecting
    PROVE  TransportEnds
<1>1. /\ inner \in 1..MaxConnection /\ loop \in {"none", "delaying", "connecting"}
      /\ attempts \in 0..MaxAttempts /\ closed \in BOOLEAN
      /\ up \in BOOLEAN /\ (loop # "none" => ~up)
  BY DEF IInv, TypeInv, TypeOK, Transport!TypeOK
<1>2. loop # "none" /\ up' = up /\ inner' = inner
  BY DEF Reconnecting, Transport!DelayOver, Transport!ConnectFails
<1>3. /\ loop' \in {"none", "delaying", "connecting"}
      /\ attempts' \in 0..MaxAttempts /\ closed' \in BOOLEAN
      /\ closed => closed'
  <2>1. CASE Transport!DelayOver
    BY <1>1, <2>1 DEF Transport!DelayOver
  <2>2. CASE Transport!ConnectFails
    BY <1>1, <2>2, RetryTypes DEF Transport!ConnectFails
  <2> QED BY <2>1, <2>2 DEF Reconnecting
<1> QED BY <1>1, <1>2, <1>3 DEF Reconnecting, TransportEnds, Transport!TypeOK, server, connection

\* What a flush leaves: nothing is served, and nothing is registered.
LEMMA Flushed ==
    ASSUME IInv, Flush
    PROVE  /\ Withdraws(graph, graph')
           /\ \A c \in Call : ~Served(c)'
           /\ storage' = [k \in Key |-> NoCall]
<1> DEFINE roots == {Get(k) : k \in Key} \ {NoCall}
<1>1. GraphInv(graph) /\ graph \in Graph /\ TypeOK
  BY DEF IInv, TypeInv, GraphInv
<1>2. graph' = Cascade(graph, roots) /\ storage' = [k \in Key |-> NoCall]
  BY DEF Flush
<1>3. \A c \in roots : c \in Call /\ graph.state[c] = "Consistent"
  BY <1>1, CleanedEntries DEF Served
<1>4. \A c \in Call : Served(c) => c \in roots
  <2>1. ASSUME NEW c \in Call, Served(c)
        PROVE  c \in roots
    <3>1. c < nextCall
      BY <1>1, <2>1, MadeCalls DEF IInv, ClientInv, Unmade, Served
    <3>2. key[c] \in Key /\ storage[key[c]] = c /\ c # NoCall
      BY <1>1, <2>1, <3>1, MadeCalls, CallType DEF TypeOK, IInv, ClientInv, Registered
    <3>3. Get(key[c]) = c
      BY <2>1, <3>2 DEF Get
    <3> QED BY <3>2, <3>3
  <2> QED BY <2>1
<1> HIDE DEF roots
<1>5. roots \in SUBSET Node
  BY <1>3, CallType
<1>6. GraphInv(graph')
  BY <1>1, <1>2, <1>3, <1>5, CascadeRootsInv
<1>7. Later(graph, graph') /\ \A c \in roots : graph'.state[c] = "Invalidated"
  BY <1>1, <1>2, <1>3, <1>5, CascadeLater
<1>8. graph.deferred \subseteq graph'.deferred
  BY <1>1, <1>2, <1>5, CascadeDeferred
<1>9. ASSUME NEW c \in Call, Served(c)'
      PROVE  FALSE
  <2>1. Served(c)
    BY <1>7, <1>9, CallType DEF Later, Served
  <2> QED BY <1>4, <1>7, <1>9, <2>1 DEF Served
<1> QED BY <1>2, <1>6, <1>7, <1>8, <1>9 DEF Withdraws

\* The step in which a new connection replaces the old one.
LEMMA ConnectsInv ==
    ASSUME IInv, Connects
    PROVE  IInv'
<1>1. /\ TypeOK /\ Withdraws(graph, graph')
      /\ \A c \in Call : ~Served(c)'
      /\ storage' = [k \in Key |-> NoCall]
  BY Flushed DEF Connects, OnReconnected, IInv, TypeInv
<1>2. /\ accepted' = TRUE /\ since' = nextCall /\ inbound' = {}
      /\ toServer' = <<>> /\ toClient' = <<>>
      /\ UNCHANGED <<pc, got, nextCall, key, answer, outbound, serving, read, version, running, late>>
      /\ inner' = inner + 1 /\ inner < MaxConnection /\ up' = TRUE /\ attempts' = 0 /\ loop' = "none"
      /\ closed' = closed
      /\ \A v \in View : pc[v] = "calling" => answer[got[v]] = "pending"
  BY DEF Connects, Transport!Connects, Drained
<1>3. /\ \A t, d : ~UnderWay(t, d)'
      /\ toClient' \in Seq(Messages) /\ Once(toClient')
      /\ \A m, n : Before(m, n, toClient')
      /\ \A d : ~Requested(d)'
      /\ toServer' \in Seq(Call) /\ Once(toServer')
  BY <1>2, NothingUnderWay
<1>4. /\ LinksShaped'
      /\ Awaiting'
      /\ \A c \in Call : graph.state[c] = "Computing" => graph'.state[c] = "Computing"
      /\ \A c \in Call : Served(c)' => Served(c)
      /\ \A c \in Call : Withdrawn(c) => Withdrawn(c)'
  <2>1. /\ storage' \in [Key -> Call \union {NoCall}]
        /\ \A k \in Key : storage'[k] \in {storage[k], NoCall}
    BY <1>1
  <2> QED BY <1>1, <1>2, <2>1, WithdrawsKeeps
<1>5. TypeInv'
  <2>1. Transport!TypeOK'
    BY <1>1, <1>2, BoundsAssumption DEF TypeOK, Transport!TypeOK
  <2>2. graph' \in Graph /\ GraphInv(graph')
    BY <1>1 DEF Withdraws, GraphInv
  <2>3. since' \in 1..nextCall
    BY <1>1, <1>2, MadeCalls
  <2>4. TypeOK'
    BY <1>1, <1>2, <1>3, <2>1, <2>2, <2>3 DEF TypeOK, Messages
  <2> QED BY <1>2, <2>2, <2>4 DEF IInv, TypeInv
<1>6. ClientInv'
  <2>1. Unmade'
    BY <1>2, <1>4 DEF IInv, ClientInv, Unmade
  <2>2. Registered'
    BY <1>1 DEF Registered
  <2> QED BY <1>4, <2>1, <2>2 DEF ClientInv
<1>7. BeforeIsOver'
  BY <1>1, <1>2 DEF BeforeIsOver
<1>8. PlacesInv'
  <2>1. \A d : Stale(d)' <=> Stale(d)
    BY <1>2 DEF Stale
  <2> QED BY <1>2, <1>3, <2>1
          DEF IInv, PlacesInv, ReadsPast, Requests, Dispatches, Answers, Notifications, InOrder
<1>9. Pending'
  BY <1>2, <1>3 DEF IInv, Pending, Unanswered
<1>10. Notified' /\ EntriesAwaited'
  <2>1. since'..(nextCall' - 1) = {}
    BY <1>1, <1>2, MadeCalls
  <2> QED BY <2>1 DEF Notified, EntriesAwaited
<1> QED BY <1>5, <1>6, <1>7, <1>8, <1>9, <1>10 DEF IInv

-----------------------------------------------------------------------------
(***************************************************************************)
(* The steps of the server.                                                *)
(***************************************************************************)

\* What the client keeps does not change with the steps of the server.
LEMMA ServerKeeps ==
    ASSUME IInv, UNCHANGED client, UNCHANGED transport, UNCHANGED <<since>>,
           \A c \in Call : c >= nextCall => read'[c] = read[c],
           accepted' => accepted
    PROVE  /\ ClientInv' /\ BeforeIsOver' /\ Notified'
           /\ UNCHANGED <<graph, storage, pc, got, nextCall, key, answer, outbound>>
           /\ UNCHANGED <<inner, up, loop, attempts, closed, since>>
<1>1. /\ UNCHANGED <<graph, storage, pc, got, nextCall, key, answer, outbound>>
      /\ UNCHANGED <<inner, up, loop, attempts, closed, since>>
  BY DEF client, transport
<1>2. LinksShaped' /\ Awaiting' /\ Registered'
  BY <1>1 DEF IInv, ClientInv, LinksShaped, Awaiting, Registered, Served
<1>3. Unmade'
  BY <1>1 DEF IInv, ClientInv, Unmade
<1>4. BeforeIsOver'
  BY <1>1 DEF IInv, BeforeIsOver, Served
<1>5. Notified'
  BY <1>1 DEF IInv, Notified, Connected, Withdrawn
<1> QED BY <1>1, <1>2, <1>3, <1>4, <1>5 DEF ClientInv

\* The tables of the server hold calls that were made.
LEMMA ServerTables ==
    ASSUME IInv
    PROVE  /\ TypeOK
           /\ serving \subseteq Call /\ inbound \subseteq Call /\ late \subseteq Call
           /\ Subscribed \subseteq inbound
           /\ \A c \in serving \union inbound \union late : c < nextCall /\ key[c] \in Key
           /\ \A c \in Call : read[c] # NoVersion => c < nextCall /\ key[c] \in Key /\ read[c] \in Version
           /\ \A k \in Key : version[k] \in Nat
           /\ Version \subseteq Nat
           /\ MessageType = {"Ok", "Error", "Invalidate"}
<1>1. TypeOK
  BY DEF IInv, TypeInv
<1>2. /\ serving \subseteq Call /\ inbound \subseteq Call /\ late \subseteq Call
      /\ \A c \in serving \union inbound \union late : c < nextCall /\ key[c] \in Key
  BY <1>1, MadeCalls DEF TypeOK
<1>3. ASSUME NEW c \in Call, read[c] # NoVersion
      PROVE  c < nextCall /\ key[c] \in Key /\ read[c] \in Version
  <2>1. c < nextCall
    BY <1>1, <1>3, MadeCalls DEF IInv, ClientInv, Unmade
  <2> QED BY <1>1, <1>3, <2>1, MadeCalls DEF TypeOK
<1>4. Version \subseteq Nat
  BY CallType DEF Version
<1>5. \A k \in Key : version[k] \in Nat
  BY <1>1, <1>4 DEF TypeOK
<1> QED BY <1>1, <1>2, <1>3, <1>4, <1>5 DEF Subscribed, MessageType

\* The step in which the server receives a request.
LEMMA ServerReceivesInv ==
    ASSUME IInv, ServerReceives
    PROVE  IInv'
<1>0. PICK c : c = Head(toServer)
  OBVIOUS
<1>1. /\ TypeOK /\ accepted /\ toServer # <<>> /\ toServer' = Tail(toServer)
      /\ serving' = serving \union {c}
      /\ UNCHANGED client /\ UNCHANGED transport
      /\ UNCHANGED <<read, inbound, version, running, late, toClient, accepted, since>>
  BY <1>0 DEF ServerReceives, HandleInboundCall, IInv, TypeInv
<1>2. /\ ClientInv' /\ BeforeIsOver' /\ Notified'
      /\ UNCHANGED <<graph, storage, pc, got, nextCall, key, answer, outbound>>
      /\ UNCHANGED <<inner, up, loop, attempts, closed, since>>
  BY <1>1, ServerKeeps
<1>3. /\ c \in Call /\ Requested(c)
      /\ \A d \in Call : Requested(d)' <=> Requested(d) /\ d # c
      /\ toServer' \in Seq(Call) /\ Once(toServer')
  BY <1>0, <1>1, RequestTaken DEF IInv, PlacesInv
<1>4. /\ c < nextCall /\ c \notin serving \union inbound \union late
      /\ \A t \in MessageType : ~UnderWay(t, c)
  BY <1>3 DEF IInv, PlacesInv, Requests
<1>5. /\ \A t, d : UnderWay(t, d)' <=> UnderWay(t, d)
      /\ \A d : Stale(d)' <=> Stale(d)
      /\ Subscribed' = Subscribed
  BY <1>1, <1>2 DEF UnderWay, Stale, Subscribed
<1>6. TypeInv'
  <2>1. serving' \subseteq 1..(nextCall - 1)
    BY <1>1, <1>3, <1>4, MadeCalls DEF TypeOK
  <2>2. TypeOK'
    BY <1>1, <1>2, <1>3, <2>1 DEF TypeOK, Transport!TypeOK
  <2> QED BY <1>2, <2>2 DEF IInv, TypeInv
<1>7. PlacesInv'
  <2>1. ReadsPast' /\ Answers' /\ Notifications'
    BY <1>1, <1>2, <1>5 DEF IInv, PlacesInv, ReadsPast, Answers, Notifications
  <2>2. Requests' /\ Dispatches'
    BY <1>1, <1>2, <1>3, <1>4, <1>5, MadeCalls DEF IInv, PlacesInv, Requests, Dispatches
  <2>3. InOrder'
    BY <1>1, <1>3 DEF IInv, PlacesInv, InOrder
  <2> QED BY <2>1, <2>2, <2>3 DEF PlacesInv
<1>8. Pending'
  <2>1. \A d \in Call : Unanswered(d)' => Unanswered(d)
    BY <1>1, <1>3, <1>5 DEF Unanswered
  <2> QED BY <1>2, <2>1 DEF IInv, Pending
<1>9. EntriesAwaited'
  <2>1. ASSUME NEW d \in Call
        PROVE  \/ Requested(d)'
               \/ d \in serving' \union Subscribed \union late
               <=>
               \/ Requested(d)
               \/ d \in serving \union Subscribed \union late
    BY <1>1, <1>3, <2>1
  <2>2. \A d \in since..(nextCall - 1) : d \in Call
    BY <1>1, MadeCalls
  <2> QED BY <1>1, <1>2, <1>5, <2>1, <2>2 DEF IInv, EntriesAwaited, Connected, Requested
<1> QED BY <1>2, <1>6, <1>7, <1>8, <1>9 DEF IInv

\* The step in which the method of a call is computed.
LEMMA ComputeInv ==
    ASSUME IInv, NEW c \in Call, Compute(c)
    PROVE  IInv'
<1>1. /\ c \in serving /\ read[c] = NoVersion /\ c < nextCall /\ key[c] \in Key
      /\ read' = [read EXCEPT ![c] = version[key[c]]]
      /\ UNCHANGED client /\ UNCHANGED transport
      /\ UNCHANGED <<serving, inbound, version, running, late, toServer, toClient, accepted, since>>
  BY ServerTables DEF Compute, connection
<1>2. /\ TypeOK /\ version[key[c]] \in Version /\ version[key[c]] \in Nat
      /\ read' \in [Call -> Version \union {NoVersion}]
      /\ read'[c] = version[key[c]]
      /\ \A d \in Call \ {c} : read'[d] = read[d]
  <2>1. TypeOK /\ version[key[c]] \in Version /\ version[key[c]] \in Nat
        /\ read \in [Call -> Version \union {NoVersion}]
    BY <1>1, ServerTables DEF TypeOK
  <2> QED BY <1>1, <2>1
<1>3. /\ ClientInv' /\ BeforeIsOver' /\ Notified'
      /\ UNCHANGED <<graph, storage, pc, got, nextCall, key, answer, outbound>>
      /\ UNCHANGED <<inner, up, loop, attempts, closed, since>>
  <2>1. \A d \in Call : d >= nextCall => d # c
    BY <1>1, <1>2, MadeCalls
  <2>2. \A d \in Call : d >= nextCall => read'[d] = read[d]
    BY <1>2, <2>1
  <2> QED BY <1>1, <2>2, ServerKeeps
<1>4. c \notin inbound \union late /\ \A t \in MessageType : ~UnderWay(t, c)
  BY <1>1 DEF IInv, PlacesInv, Dispatches
<1>5. /\ \A t, d : UnderWay(t, d)' <=> UnderWay(t, d)
      /\ \A d : Requested(d)' <=> Requested(d)
      /\ \A d \in Call \ {c} : Stale(d)' <=> Stale(d)
      /\ Subscribed' = Subscribed
  <2>1. \A d \in inbound : d \in Call /\ d # c
    BY <1>4, ServerTables
  <2>2. Subscribed' = Subscribed
    BY <1>1, <1>2, <1>3, <2>1 DEF Subscribed
  <2> QED BY <1>1, <1>2, <1>3, <2>2 DEF UnderWay, Requested, Stale
<1>6. TypeInv'
  <2>1. TypeOK'
    BY <1>1, <1>2, <1>3 DEF TypeOK, Transport!TypeOK
  <2> QED BY <1>3, <2>1 DEF IInv, TypeInv
<1>7. PlacesInv'
  <2>1. ReadsPast'
    BY <1>1, <1>2, <1>3 DEF IInv, PlacesInv, ReadsPast
  <2>2. Requests' /\ Dispatches' /\ Answers'
    BY <1>1, <1>3, <1>5 DEF IInv, PlacesInv, Requests, Dispatches, Answers
  <2>3. Notifications'
    <3>1. \A d \in inbound \union late : d \in Call \ {c}
      BY <1>4, ServerTables
    <3>2. \A d \in Call : UnderWay("Invalidate", d) => d # c
      BY <1>4, ServerTables
    <3> QED BY <1>1, <1>2, <1>3, <1>5, <3>1, <3>2 DEF IInv, PlacesInv, Notifications
  <2>4. InOrder'
    BY <1>1 DEF IInv, PlacesInv, InOrder
  <2> QED BY <2>1, <2>2, <2>3, <2>4 DEF PlacesInv
<1>8. Pending'
  BY <1>1, <1>3, <1>5 DEF IInv, Pending, Unanswered
<1>9. EntriesAwaited'
  BY <1>1, <1>3, <1>5 DEF IInv, EntriesAwaited, Connected
<1> QED BY <1>3, <1>6, <1>7, <1>8, <1>9 DEF IInv

\* The dispatch of call c ends: with an error, or with a value that the call subscribes to.
Refused(c) ==
    /\ Reachable(c)
    /\ toClient' = Sent("Error", {c})
    /\ UNCHANGED <<inbound, late>>

Accepted(c) ==
    /\ Reachable(c)
    /\ toClient' = Sent("Ok", {c})
    /\ inbound' = inbound \union {c}
    /\ late' = IF read[c] = version[key[c]] THEN late ELSE late \union {c}

\* Where the call of a dispatch that ends and the messages about it are then.
LEMMA Responded ==
    ASSUME IInv, NEW c \in Call, Respond(c)
    PROVE  /\ toClient' \in Seq(Messages) /\ Once(toClient')
           /\ \A d \in Call : Before(Message("Ok", d), Message("Invalidate", d), toClient')
           /\ \A t \in MessageType, d \in Call :
                 UnderWay(t, d)' <=> \/ UnderWay(t, d)
                                     \/ d = c /\ t = "Error" /\ Refused(c)
                                     \/ d = c /\ t = "Ok" /\ Accepted(c)
           /\ inbound' \in {inbound, inbound \union {c}}
           /\ late' \in {late, late \union {c}}
           /\ c \in inbound' <=> Accepted(c)
           /\ c \in late' <=> Accepted(c) /\ Stale(c)
           /\ accepted /\ c >= since
           /\ ~(Refused(c) /\ Accepted(c))
           /\ Refused(c) \/ Accepted(c)
<1>1. c \in serving /\ read[c] # NoVersion /\ TypeOK
  BY ServerTables DEF Respond
<1>2. Refused(c) \/ Accepted(c)
  BY DEF Respond, Refused, Accepted
<1>3. /\ c \notin inbound \union late
      /\ \A t \in MessageType : ~UnderWay(t, c)
  BY <1>1 DEF IInv, PlacesInv, Dispatches
<1>4. /\ toClient' \in Seq(Messages) /\ Once(toClient')
      /\ \A d \in Call : Before(Message("Ok", d), Message("Invalidate", d), toClient')
      /\ \A t \in MessageType, d \in Call :
            UnderWay(t, d)' <=> \/ UnderWay(t, d)
                                \/ d = c /\ t = "Error" /\ Refused(c)
                                \/ d = c /\ t = "Ok" /\ Accepted(c)
  <2>1. /\ TypeOK /\ InOrder /\ {c} \in SUBSET Call
        /\ "Ok" \in MessageType /\ "Error" \in MessageType /\ "Invalidate" \in MessageType
        /\ \A t \in MessageType : \A d \in {c} : ~UnderWay(t, d)
        /\ "Error" # "Ok"
    BY <1>1, <1>3 DEF MessageType, IInv, PlacesInv
  <2>3. CASE Refused(c)
    <3>1. toClient' = Sent("Error", {c}) /\ inbound' = inbound
      BY <2>3 DEF Refused
    <3>2. ~Accepted(c)
      BY <1>3, <3>1 DEF Accepted
    <3>3. /\ \A t \in MessageType, d \in Call :
                UnderWay(t, d)' <=> UnderWay(t, d) \/ (t = "Error" /\ d \in {c})
          /\ toClient' \in Seq(Messages)
          /\ Once(toClient')
          /\ \A d \in Call : Before(Message("Ok", d), Message("Invalidate", d), toClient')
      <4>1. /\ \A d \in {c} : ~UnderWay("Error", d)
            /\ \A d \in {c} : ~UnderWay("Invalidate", d)
        BY <2>1
      <4> QED BY <2>1, <3>1, <4>1, MessagesSent
    <3> QED BY <2>3, <3>2, <3>3
  <2>4. CASE Accepted(c)
    <3>1. toClient' = Sent("Ok", {c}) /\ c \in inbound'
      BY <2>4 DEF Accepted
    <3>2. ~Refused(c)
      BY <1>3, <3>1 DEF Refused
    <3>3. /\ \A t \in MessageType, d \in Call :
                UnderWay(t, d)' <=> UnderWay(t, d) \/ (t = "Ok" /\ d \in {c})
          /\ toClient' \in Seq(Messages)
          /\ Once(toClient')
          /\ \A d \in Call : Before(Message("Ok", d), Message("Invalidate", d), toClient')
      <4>1. /\ \A d \in {c} : ~UnderWay("Ok", d)
            /\ \A d \in {c} : ~UnderWay("Invalidate", d)
        BY <2>1
      <4> QED BY <2>1, <3>1, <4>1, MessagesSent
    <3> QED BY <2>4, <3>2, <3>3
  <2> QED BY <1>2, <2>3, <2>4
<1>5. /\ inbound' \in {inbound, inbound \union {c}}
      /\ late' \in {late, late \union {c}}
      /\ c \in inbound' <=> Accepted(c)
      /\ c \in late' <=> Accepted(c) /\ Stale(c)
      /\ accepted /\ c >= since
      /\ ~(Refused(c) /\ Accepted(c))
      /\ Refused(c) \/ Accepted(c)
  <2>2. CASE Refused(c)
    BY <1>3, <2>2 DEF Refused, Accepted, Reachable
  <2>3. CASE Accepted(c)
    BY <1>1, <1>3, <2>3 DEF Refused, Accepted, Reachable, Stale
  <2> QED BY <1>2, <2>2, <2>3
<1> QED BY <1>4, <1>5

\* The step in which a dispatch ends.
LEMMA RespondInv ==
    ASSUME IInv, NEW c \in Call, Respond(c)
    PROVE  IInv'
<1>1. /\ c \in serving /\ read[c] # NoVersion /\ c < nextCall /\ TypeOK
      /\ serving' = serving \ {c}
      /\ UNCHANGED client /\ UNCHANGED transport
      /\ UNCHANGED <<read, version, running, toServer, accepted, since>>
  BY ServerTables DEF Respond
<1>2. /\ ClientInv' /\ BeforeIsOver' /\ Notified'
      /\ UNCHANGED <<graph, storage, pc, got, nextCall, key, answer, outbound>>
      /\ UNCHANGED <<inner, up, loop, attempts, closed, since>>
  BY <1>1, ServerKeeps
<1>3. /\ c \notin inbound \union late /\ ~Requested(c)
      /\ \A t \in MessageType : ~UnderWay(t, c)
  BY <1>1 DEF IInv, PlacesInv, Dispatches, Requests
<1>4. /\ toClient' \in Seq(Messages) /\ Once(toClient')
      /\ \A d \in Call : Before(Message("Ok", d), Message("Invalidate", d), toClient')
      /\ \A t \in MessageType, d \in Call :
            UnderWay(t, d)' <=> \/ UnderWay(t, d)
                                \/ d = c /\ t = "Error" /\ Refused(c)
                                \/ d = c /\ t = "Ok" /\ Accepted(c)
  BY Responded
<1>5. /\ inbound' \in {inbound, inbound \union {c}}
      /\ late' \in {late, late \union {c}}
      /\ c \in inbound' <=> Accepted(c)
      /\ c \in late' <=> Accepted(c) /\ Stale(c)
      /\ accepted /\ c >= since
      /\ ~(Refused(c) /\ Accepted(c))
      /\ Refused(c) \/ Accepted(c)
  BY Responded
<1>6. /\ \A d : Requested(d)' <=> Requested(d)
      /\ \A d : Stale(d)' <=> Stale(d)
      /\ MessageType = {"Ok", "Error", "Invalidate"}
      /\ serving \subseteq Call /\ inbound \subseteq Call /\ late \subseteq Call
      /\ \A d \in Call \ {c} : (d \in Subscribed' <=> d \in Subscribed)
      /\ \A d \in Call \ {c} : \A t \in MessageType : UnderWay(t, d)' <=> UnderWay(t, d)
  <2>1. \A d \in Call \ {c} : (d \in Subscribed' <=> d \in Subscribed)
    BY <1>1, <1>2, <1>5 DEF Subscribed
  <2> QED BY <1>1, <1>2, <1>4, <2>1, ServerTables DEF Requested, Stale
<1>7. TypeInv'
  <2>1. serving' \union inbound' \union late' \subseteq 1..(nextCall - 1)
    BY <1>1, <1>5, MadeCalls DEF TypeOK
  <2>2. TypeOK'
    BY <1>1, <1>2, <1>4, <2>1 DEF TypeOK, Messages, Transport!TypeOK
  <2> QED BY <1>2, <2>2 DEF IInv, TypeInv
<1>8. PlacesInv'
  <2>1. ReadsPast'
    BY <1>1, <1>2 DEF IInv, PlacesInv, ReadsPast
  <2>2. Requests'
    <3>1. ASSUME NEW d \in Call, Requested(d)
          PROVE  /\ d >= since /\ d < nextCall /\ d \notin serving' \union inbound' \union late'
                 /\ \A t \in MessageType : ~UnderWay(t, d)'
      BY <1>1, <1>3, <1>5, <1>6, <3>1 DEF IInv, PlacesInv, Requests
    <3> QED BY <1>1, <1>2, <1>6, <3>1 DEF Requests
  <2>3. Dispatches'
    BY <1>1, <1>5, <1>6 DEF IInv, PlacesInv, Dispatches
  <2>4. Answers'
    <3>1. ASSUME NEW d \in Call
          PROVE  /\ \A t \in MessageType : UnderWay(t, d)' => d >= since /\ d < nextCall
                 /\ UnderWay("Error", d)' =>
                       /\ d \notin inbound' \union late'
                       /\ ~UnderWay("Ok", d)'
                       /\ ~UnderWay("Invalidate", d)'
                 /\ UnderWay("Ok", d)' /\ accepted => d \in inbound'
      <4>1. CASE d = c
        BY <1>1, <1>3, <1>4, <1>5, <1>6, <4>1
      <4>2. CASE d # c
        BY <1>5, <1>6, <4>2 DEF IInv, PlacesInv, Answers
      <4> QED BY <4>1, <4>2
    <3> QED BY <1>1, <1>2, <3>1 DEF Answers
  <2>5. Notifications'
    <3>1. \A d \in Call : UnderWay("Invalidate", d)' => UnderWay("Invalidate", d) /\ d # c
      BY <1>3, <1>4, <1>6
    <3>2. \A d \in Call : UnderWay("Invalidate", d)' => d \notin late' /\ Stale(d)
      BY <1>5, <3>1 DEF IInv, PlacesInv, Notifications
    <3>3. \A d \in inbound' : d >= since /\ read[d] # NoVersion
      BY <1>1, <1>5 DEF IInv, PlacesInv, Notifications
    <3>4. \A d \in late' : Stale(d)
      BY <1>5 DEF IInv, PlacesInv, Notifications
    <3>5. ASSUME NEW d \in inbound', UnderWay("Ok", d)', Stale(d)
          PROVE  d \in late' \/ UnderWay("Invalidate", d)'
      <4>1. CASE d = c
        BY <1>5, <3>5, <4>1
      <4>2. CASE d # c
        <5>1. d \in inbound /\ d \in Call
          BY <1>5, <1>6, <3>5, <4>2
        <5>2. UnderWay("Ok", d) /\ (UnderWay("Invalidate", d)' <=> UnderWay("Invalidate", d))
          BY <1>6, <3>5, <4>2, <5>1
        <5>3. d \in late \/ UnderWay("Invalidate", d)
          BY <3>5, <5>1, <5>2 DEF IInv, PlacesInv, Notifications
        <5> QED BY <1>5, <5>2, <5>3
      <4> QED BY <4>1, <4>2
    <3> QED BY <1>1, <1>6, <3>2, <3>3, <3>4, <3>5 DEF Notifications
  <2>6. InOrder'
    BY <1>1, <1>4 DEF IInv, PlacesInv, InOrder
  <2> QED BY <2>1, <2>2, <2>3, <2>4, <2>5, <2>6 DEF PlacesInv
<1>9. Pending'
  <2>1. ASSUME NEW d \in Call, Unanswered(d)'
        PROVE  Unanswered(d)
    BY <1>1, <1>6, <2>1 DEF Unanswered
  <2> QED BY <1>2, <2>1 DEF IInv, Pending
<1>10. EntriesAwaited'
  <2>1. ASSUME Connected, NEW d \in since..(nextCall - 1)
        PROVE  d \in outbound <=>
                  \/ Requested(d)
                  \/ d \in serving' \union Subscribed' \union late'
                  \/ \E t \in MessageType : UnderWay(t, d)'
    <3>1. /\ d \in Call /\ d >= since
          /\ d \in outbound <=> \/ Requested(d)
                                \/ d \in serving \union Subscribed \union late
                                \/ \E t \in MessageType : UnderWay(t, d)
      BY <1>1, <2>1, MadeCalls DEF IInv, EntriesAwaited, Requested
    <3>2. CASE d # c
      BY <1>1, <1>5, <1>6, <3>1, <3>2
    <3>3. CASE d = c
      <4>1. Refused(c) \/ Accepted(c)
        BY <1>5, <2>1, <3>1, <3>3 DEF Connected
      <4>2. \E t \in MessageType : UnderWay(t, c)'
        BY <1>4, <1>6, <4>1
      <4> QED BY <1>1, <3>1, <3>3, <4>2
    <3> QED BY <3>2, <3>3
  <2> QED BY <1>1, <1>2, <1>6, <2>1 DEF EntriesAwaited, Requested, Connected
<1> QED BY <1>2, <1>7, <1>8, <1>9, <1>10 DEF IInv

\* What was read before a change stays behind.
LEMMA ChangeTables ==
    ASSUME IInv, NEW k \in Key, version[k] < MaxVersion,
           version' = [version EXCEPT ![k] = @ + 1],
           UNCHANGED <<nextCall, key, read, inbound>>
    PROVE  /\ version' \in [Key -> Version]
           /\ ReadsPast'
           /\ \A c \in Call : Stale(c) => Stale(c)'
           /\ \A c \in inbound :
                 c \in Subscribed \/ Stale(c)
           /\ \A c \in inbound :
                 c \in Subscribed' <=> c \in Subscribed /\ key[c] # k
           /\ \A c \in inbound :
                 Stale(c)' <=> Stale(c) \/ (c \in Subscribed /\ key[c] = k)
<1>1. /\ version[k] + 1 \in Version /\ version \in [Key -> Version] /\ version[k] \in Nat
      /\ version[k] + 1 # version[k] /\ version[k] < version[k] + 1
  <2>1. version \in [Key -> Version] /\ version[k] \in Nat
    BY ServerTables DEF TypeOK
  <2> QED BY <2>1, CallType DEF Version
<1>2. /\ version' \in [Key -> Version]
      /\ version'[k] = version[k] + 1
      /\ \A l \in Key : l # k => version'[l] = version[l]
  BY <1>1
<1>3. ASSUME NEW c \in Call, read[c] # NoVersion
      PROVE  /\ read[c] \in Nat /\ key[c] \in Key
             /\ read[c] <= version[key[c]] /\ read[c] <= version'[key[c]]
             /\ key[c] = k => read[c] < version'[key[c]]
             /\ key[c] # k => version'[key[c]] = version[key[c]]
             /\ Stale(c) <=> read[c] # version[key[c]]
             /\ Stale(c)' <=> read[c] # version'[key[c]]
  <2>1. read[c] \in Nat /\ key[c] \in Key /\ version[key[c]] \in Nat
    BY <1>3, ServerTables
  <2>2. read[c] <= version[key[c]]
    BY <1>3 DEF IInv, PlacesInv, ReadsPast
  <2>3. key' = key /\ read' = read
    OBVIOUS
  <2> QED BY <1>1, <1>2, <1>3, <2>1, <2>2, <2>3 DEF Stale
<1>4. ReadsPast'
  BY <1>3 DEF ReadsPast
<1>5. \A c \in Call : Stale(c) => Stale(c)'
  <2>1. ASSUME NEW c \in Call, Stale(c)
        PROVE  Stale(c)'
    <3>1. read[c] # NoVersion /\ read[c] # version[key[c]]
      BY <2>1 DEF Stale
    <3>2. CASE key[c] = k
      BY <1>3, <3>1, <3>2, <1>1, <1>2
    <3>3. CASE key[c] # k
      BY <1>3, <3>1, <3>3
    <3> QED BY <3>2, <3>3
  <2> QED BY <2>1
<1>6. ASSUME NEW c \in inbound
      PROVE  /\ c \in Subscribed \/ Stale(c)
             /\ c \in Subscribed' <=> c \in Subscribed /\ key[c] # k
             /\ Stale(c)' <=> Stale(c) \/ (c \in Subscribed /\ key[c] = k)
  <2>1. c \in Call /\ read[c] # NoVersion
    BY ServerTables DEF IInv, PlacesInv, Notifications
  <2>2. /\ c \in Subscribed <=> read[c] = version[key[c]]
        /\ c \in Subscribed' <=> read[c] = version'[key[c]]
    BY DEF Subscribed
  <2>3. CASE key[c] = k
    <3>1. read[c] # version'[key[c]]
      BY <1>1, <1>2, <1>3, <2>1, <2>3
    <3> QED BY <1>3, <2>1, <2>2, <2>3, <3>1
  <2>4. CASE key[c] # k
    BY <1>3, <2>1, <2>2, <2>4
  <2> QED BY <2>3, <2>4
<1> QED BY <1>2, <1>4, <1>5, <1>6

\* The step in which the server's value of a key changes.
LEMMA ChangeInv ==
    ASSUME IInv, NEW k \in Key, Change(k)
    PROVE  IInv'
<1> DEFINE Informed == {c \in Subscribed : key[c] = k}
<1>1. PICK C : C = Informed
  OBVIOUS
<1> HIDE DEF Informed
<1>2. /\ version[k] < MaxVersion /\ version' = [version EXCEPT ![k] = @ + 1]
      /\ toClient' = Sent("Invalidate", C)
      /\ UNCHANGED client /\ UNCHANGED transport
      /\ UNCHANGED <<serving, read, inbound, running, late, toServer, accepted, since>>
  BY <1>1 DEF Change, Informed
<1>3. /\ ClientInv' /\ BeforeIsOver' /\ Notified'
      /\ UNCHANGED <<graph, storage, pc, got, nextCall, key, answer, outbound>>
      /\ UNCHANGED <<inner, up, loop, attempts, closed, since>>
  BY <1>2, ServerKeeps
<1>4. /\ C \in SUBSET Call /\ C \subseteq inbound
      /\ \A c \in C : c \in Subscribed /\ key[c] = k /\ ~Stale(c)
      /\ \A c \in Subscribed : key[c] = k => c \in C
      /\ serving \subseteq Call /\ inbound \subseteq Call /\ late \subseteq Call
  BY <1>1, ServerTables DEF Informed, Subscribed, Stale
<1>5. /\ version' \in [Key -> Version]
      /\ ReadsPast'
      /\ \A c \in Call : Stale(c) => Stale(c)'
      /\ \A c \in inbound : c \in Subscribed \/ Stale(c)
      /\ \A c \in inbound : c \in Subscribed' <=> c \in Subscribed /\ c \notin C
      /\ \A c \in inbound : Stale(c)' <=> Stale(c) \/ c \in C
      /\ \A c \in Subscribed' : c \in inbound
  BY <1>2, <1>3, <1>4, ChangeTables DEF Subscribed
<1>6. \A c \in C : ~UnderWay("Invalidate", c) /\ c \notin late /\ c >= since /\ c < nextCall
  BY <1>4, ServerTables DEF IInv, PlacesInv, Notifications
<1>7. /\ \A t \in MessageType, d \in Call :
            UnderWay(t, d)' <=> UnderWay(t, d) \/ (t = "Invalidate" /\ d \in C)
      /\ toClient' \in Seq(Messages)
      /\ Once(toClient')
      /\ \A d \in Call : Before(Message("Ok", d), Message("Invalidate", d), toClient')
  <2>1. /\ TypeOK /\ InOrder /\ "Invalidate" \in MessageType /\ "Invalidate" # "Ok"
        /\ \A c \in C : ~UnderWay("Invalidate", c)
    BY <1>6 DEF IInv, TypeInv, PlacesInv, MessageType
  <2> QED BY <1>2, <1>4, <2>1, MessagesSent
<1>8. \A d : Requested(d)' <=> Requested(d)
  BY <1>2 DEF Requested
<1>9. MessageType = {"Ok", "Error", "Invalidate"}
  BY DEF MessageType
<1>10. TypeInv'
  <2>1. TypeOK'
    BY <1>2, <1>3, <1>5, <1>7 DEF IInv, TypeInv, TypeOK, Messages, Transport!TypeOK
  <2> QED BY <1>3, <2>1 DEF IInv, TypeInv
<1>11. PlacesInv'
  <2>1. Requests'
    <3>1. ASSUME NEW d \in Call, Requested(d)
          PROVE  /\ d >= since /\ d < nextCall /\ d \notin serving \union inbound \union late
                 /\ \A t \in MessageType : ~UnderWay(t, d)'
      BY <1>4, <1>7, <3>1 DEF IInv, PlacesInv, Requests
    <3> QED BY <1>2, <1>3, <1>8, <3>1 DEF Requests
  <2>2. Dispatches'
    <3>1. \A d \in serving :
             d \notin inbound \union late /\ \A t \in MessageType : ~UnderWay(t, d)'
      BY <1>4, <1>7 DEF IInv, PlacesInv, Dispatches
    <3> QED BY <1>2, <3>1 DEF Dispatches
  <2>3. Answers'
    <3>1. ASSUME NEW d \in Call
          PROVE  /\ \A t \in MessageType : UnderWay(t, d)' => d >= since /\ d < nextCall
                 /\ UnderWay("Error", d)' =>
                       /\ d \notin inbound \union late
                       /\ ~UnderWay("Ok", d)'
                       /\ ~UnderWay("Invalidate", d)'
                 /\ UnderWay("Ok", d)' /\ accepted => d \in inbound
      <4>1. /\ UnderWay("Error", d)' <=> UnderWay("Error", d)
            /\ UnderWay("Ok", d)' <=> UnderWay("Ok", d)
            /\ UnderWay("Invalidate", d)' <=> UnderWay("Invalidate", d) \/ d \in C
        BY <1>7, <1>9
      <4>2. Answers
        BY DEF IInv, PlacesInv
      <4>3. \A t \in MessageType : UnderWay(t, d)' => d >= since /\ d < nextCall
        BY <1>6, <1>7, <4>2 DEF Answers
      <4> QED BY <1>4, <4>1, <4>2, <4>3, <1>9 DEF Answers
    <3> QED BY <1>2, <1>3, <3>1 DEF Answers
  <2>4. Notifications'
    <3>1. Notifications
      BY DEF IInv, PlacesInv
    <3>2. \A d \in Call : UnderWay("Invalidate", d)' => d \notin late /\ Stale(d)'
      BY <1>4, <1>5, <1>6, <1>7, <1>9, <3>1 DEF Notifications
    <3>3. \A d \in late : Stale(d)'
      BY <1>4, <1>5, <3>1 DEF Notifications
    <3>4. ASSUME NEW d \in inbound, UnderWay("Ok", d)', Stale(d)'
          PROVE  d \in late \/ UnderWay("Invalidate", d)'
      <4>1. d \in Call /\ UnderWay("Ok", d)
        BY <1>4, <1>7, <1>9, <3>4
      <4>2. CASE d \in C
        BY <1>7, <1>9, <4>1, <4>2
      <4>3. CASE Stale(d)
        <5>1. d \in late \/ UnderWay("Invalidate", d)
          BY <3>1, <4>1, <4>3 DEF Notifications
        <5> QED BY <1>7, <1>9, <4>1, <5>1
      <4> QED BY <1>5, <3>4, <4>2, <4>3
    <3>5. \A d \in inbound : d >= since /\ read[d] # NoVersion
      BY <3>1 DEF Notifications
    <3> QED BY <1>2, <3>2, <3>3, <3>4, <3>5 DEF Notifications
  <2>5. InOrder'
    BY <1>2, <1>7 DEF IInv, PlacesInv, InOrder
  <2> QED BY <1>5, <2>1, <2>2, <2>3, <2>4, <2>5 DEF PlacesInv
<1>12. Pending'
  <2>1. \A d \in Call : Unanswered(d)' => Unanswered(d)
    BY <1>2, <1>7, <1>8, <1>9 DEF Unanswered
  <2> QED BY <1>3, <2>1 DEF IInv, Pending
<1>13. EntriesAwaited'
  <2>1. ASSUME Connected, NEW d \in since..(nextCall - 1)
        PROVE  d \in outbound <=>
                  \/ Requested(d)
                  \/ d \in serving \union Subscribed' \union late
                  \/ \E t \in MessageType : UnderWay(t, d)'
    <3>1. /\ d \in Call
          /\ d \in outbound <=> \/ Requested(d)
                                \/ d \in serving \union Subscribed \union late
                                \/ \E t \in MessageType : UnderWay(t, d)
      BY <2>1, MadeCalls DEF IInv, TypeInv, EntriesAwaited, Requested
    <3>2. CASE d \in C
      BY <1>4, <1>7, <1>9, <3>1, <3>2
    <3>3. CASE d \notin C
      <4>1. d \in Subscribed' <=> d \in Subscribed
        BY <1>5, <3>3, ServerTables
      <4>2. \A t \in MessageType : UnderWay(t, d)' <=> UnderWay(t, d)
        BY <1>7, <3>1, <3>3
      <4> QED BY <3>1, <4>1, <4>2
    <3> QED BY <3>2, <3>3
  <2> QED BY <1>2, <1>3, <1>8, <2>1 DEF EntriesAwaited, Requested, Connected
<1> QED BY <1>3, <1>10, <1>11, <1>12, <1>13 DEF IInv

\* The step in which a dispatch ends over a closed transport: when the process ends with
\* it, nothing is left at the server; otherwise only this call leaves, which is not of the
\* latest connection while that is open.
LEMMA DispatchRejectedInv ==
    ASSUME IInv, NEW c \in Call, DispatchRejected(c)
    PROVE  IInv'
<1>1. /\ UNCHANGED client /\ UNCHANGED transport
      /\ UNCHANGED <<read, version, late, toClient, since>>
      /\ TypeOK
  BY ServerTables DEF DispatchRejected
<1>2. \/ /\ serving' = {} /\ inbound' = {} /\ toServer' = <<>>
         /\ accepted' = FALSE /\ running' = FALSE
      \/ /\ serving' = serving \ {c} /\ ~(accepted /\ c >= since)
         /\ UNCHANGED <<inbound, running, accepted, toServer>>
  BY DEF DispatchRejected, ProcessEnds, Reachable
<1>3. /\ ClientInv' /\ BeforeIsOver' /\ Notified'
      /\ UNCHANGED <<graph, storage, pc, got, nextCall, key, answer, outbound>>
      /\ UNCHANGED <<inner, up, loop, attempts, closed, since>>
  BY <1>1, <1>2, ServerKeeps
<1>4. /\ \A d : Requested(d)' => Requested(d)
      /\ toServer' \in Seq(Call) /\ Once(toServer')
  <2>1. CASE toServer' = <<>>
    BY <2>1, NothingUnderWay
  <2>2. CASE toServer' = toServer
    BY <1>1, <2>2 DEF TypeOK, Requested, Once, IInv, PlacesInv, InOrder
  <2> QED BY <1>2, <2>1, <2>2
<1>5. /\ \A t, d : UnderWay(t, d)' <=> UnderWay(t, d)
      /\ \A d : Stale(d)' <=> Stale(d)
  BY <1>1, <1>3 DEF UnderWay, Stale
<1>6. /\ serving' \subseteq serving /\ inbound' \subseteq inbound
      /\ accepted' => accepted /\ inbound' = inbound
  BY <1>2
<1>7. TypeInv'
  <2>1. running' \in BOOLEAN /\ accepted' \in BOOLEAN
    BY <1>1, <1>2 DEF TypeOK
  <2>2. TypeOK'
    BY <1>1, <1>3, <1>4, <1>6, <2>1 DEF TypeOK, Transport!TypeOK
  <2> QED BY <1>3, <2>2 DEF IInv, TypeInv
<1>8. PlacesInv'
  <2>1. ReadsPast' /\ InOrder'
    BY <1>1, <1>3, <1>4 DEF IInv, PlacesInv, ReadsPast, InOrder
  <2>2. Requests' /\ Dispatches'
    BY <1>1, <1>3, <1>4, <1>5, <1>6 DEF IInv, PlacesInv, Requests, Dispatches
  <2>3. Answers' /\ Notifications'
    BY <1>1, <1>3, <1>5, <1>6 DEF IInv, PlacesInv, Answers, Notifications
  <2> QED BY <2>1, <2>2, <2>3 DEF PlacesInv
<1>9. Pending'
  BY <1>1, <1>3, <1>4, <1>5, <1>6 DEF IInv, Pending, Unanswered
<1>10. EntriesAwaited'
  <2>1. ASSUME Connected', NEW d \in since..(nextCall - 1)
        PROVE  d \in outbound <=>
                  \/ Requested(d)'
                  \/ d \in serving' \union Subscribed' \union late'
                  \/ \E t \in MessageType : UnderWay(t, d)'
    <3>1. /\ accepted /\ Connected /\ d >= since
          /\ serving' = serving \ {c} /\ ~(c >= since)
          /\ UNCHANGED <<inbound, toServer>>
      <4>1. d \in Call /\ d >= since /\ since' = since /\ up' = up /\ closed' = closed
        BY <1>1, <1>3, <2>1, MadeCalls
      <4>2. accepted' /\ up' /\ ~closed'
        BY <2>1 DEF Connected
      <4>3. /\ serving' = serving \ {c} /\ ~(accepted /\ c >= since)
            /\ UNCHANGED <<inbound, toServer, accepted>>
        BY <1>2, <4>2
      <4> QED BY <4>1, <4>2, <4>3 DEF Connected
    <3>2. (Requested(d)' <=> Requested(d)) /\ Subscribed' = Subscribed
      BY <1>1, <1>3, <3>1 DEF Requested, Subscribed
    <3> QED BY <1>1, <1>5, <2>1, <3>1, <3>2 DEF IInv, EntriesAwaited, Requested
  <2> QED BY <1>1, <1>3, <2>1 DEF EntriesAwaited, Requested
<1> QED BY <1>3, <1>7, <1>8, <1>9, <1>10 DEF IInv

\* The step in which the server's transport closes.
LEMMA ServerClosesInv ==
    ASSUME IInv, ServerCloses
    PROVE  IInv'
<1>1. /\ accepted' = FALSE /\ inbound' = {} /\ toServer' = <<>>
      /\ UNCHANGED client /\ UNCHANGED transport
      /\ UNCHANGED <<serving, read, version, running, late, toClient, since>>
  BY DEF ServerCloses, ServerTransportCloses
<1>2. /\ ClientInv' /\ BeforeIsOver' /\ Notified'
      /\ UNCHANGED <<graph, storage, pc, got, nextCall, key, answer, outbound>>
      /\ UNCHANGED <<inner, up, loop, attempts, closed, since>>
  BY <1>1, ServerKeeps
<1>3. /\ \A d : ~Requested(d)'
      /\ toServer' \in Seq(Call) /\ Once(toServer')
  BY <1>1, NothingUnderWay
<1>4. /\ \A t, d : UnderWay(t, d)' <=> UnderWay(t, d)
      /\ \A d : Stale(d)' <=> Stale(d)
  BY <1>1, <1>2 DEF UnderWay, Stale
<1>5. TypeInv'
  <2>1. TypeOK'
    BY <1>1, <1>2, <1>3 DEF IInv, TypeInv, TypeOK, Transport!TypeOK
  <2> QED BY <1>2, <2>1 DEF IInv, TypeInv
<1>6. PlacesInv'
  BY <1>1, <1>2, <1>3, <1>4
     DEF IInv, PlacesInv, ReadsPast, Requests, Dispatches, Answers, Notifications, InOrder
<1>7. Pending'
  BY <1>1, <1>2, <1>3, <1>4 DEF IInv, Pending, Unanswered
<1>8. EntriesAwaited'
  BY <1>1 DEF EntriesAwaited, Connected
<1> QED BY <1>2, <1>5, <1>6, <1>7, <1>8 DEF IInv

-----------------------------------------------------------------------------
(***************************************************************************)
(* The invariant holds.                                                    *)
(***************************************************************************)

\* At first nothing was called, and the first connection is open.
LEMMA InitInv == Init => IInv
<1> SUFFICES ASSUME Init
             PROVE  IInv
  OBVIOUS
<1>1. /\ graph = NewGraph /\ storage = [k \in Key |-> NoCall]
      /\ pc = [v \in View |-> "idle"] /\ got = [v \in View |-> NoCall]
      /\ nextCall = 1 /\ since = 1
      /\ key = [c \in Call |-> CHOOSE k \in Key : TRUE]
      /\ answer = [c \in Call |-> "pending"]
      /\ toServer = <<>> /\ toClient = <<>>
      /\ outbound = {} /\ serving = {} /\ inbound = {} /\ late = {}
      /\ read = [c \in Call |-> NoVersion] /\ version = [k \in Key |-> 0]
      /\ inner = 1 /\ up = TRUE /\ loop = "none" /\ attempts = 0 /\ closed = FALSE
      /\ accepted = TRUE /\ running = TRUE
  BY DEF Init, Transport!Init
<1>2. GraphInv(graph) /\ graph \in Graph
  BY <1>1, NewGraphInv DEF GraphInv
<1>3. /\ \A n \in Node : graph.state[n] = "Computing" /\ graph.dependencies[n] = {}
      /\ \A c \in Call : ~Served(c)
  BY <1>1, CallType DEF NewGraph, Served
<1>4. /\ toServer \in Seq(Call) /\ toClient \in Seq(Messages)
      /\ 1..Len(toServer) = {} /\ 1..Len(toClient) = {}
  BY <1>1
<1>5. /\ \A t, c : ~UnderWay(t, c)
      /\ \A c : ~Requested(c)
      /\ Once(toServer) /\ Once(toClient)
      /\ \A m, n : Before(m, n, toClient)
  BY <1>4 DEF UnderWay, Requested, Once, Before
<1>6. /\ 1..(nextCall - 1) = {} /\ since..(nextCall - 1) = {}
      /\ nextCall \in 1..(MaxCall + 1) /\ since \in 1..nextCall
  BY <1>1, CallType
<1>7. TypeInv
  <2>1. Transport!TypeOK
    <3>1. 1 \in 1..MaxConnection /\ 0 \in 0..MaxAttempts
      BY BoundsAssumption
    <3> QED BY <1>1, <3>1 DEF Transport!TypeOK
  <2>2. 0 \in Version
    BY CallType DEF Version
  <2>3. TypeOK
    BY <1>1, <1>2, <1>4, <1>6, <2>1, <2>2 DEF TypeOK, Messages
  <2>4. key = [c \in Call |-> key[c]]
    BY <1>1
  <2> QED BY <1>1, <1>2, <2>3, <2>4 DEF TypeInv
<1>8. ClientInv
  <2>1. LinksShaped
    BY <1>3, CallType DEF LinksShaped
  <2>2. Unmade /\ Awaiting /\ Registered
    BY <1>1, <1>3, CallType DEF Unmade, Awaiting, Registered
  <2> QED BY <2>1, <2>2 DEF ClientInv
<1>9. BeforeIsOver
  BY <1>1, <1>3 DEF BeforeIsOver
<1>10. PlacesInv
  BY <1>1, <1>5 DEF PlacesInv, ReadsPast, Requests, Dispatches, Answers, Notifications, InOrder
<1>11. Pending
  BY <1>1 DEF Pending
<1>12. Notified /\ EntriesAwaited
  BY <1>6 DEF Notified, EntriesAwaited
<1> QED BY <1>7, <1>8, <1>9, <1>10, <1>11, <1>12 DEF IInv

\* What does not change keeps what is said of it.
LEMMA StutterInv == IInv /\ UNCHANGED vars => IInv'
<1> SUFFICES ASSUME IInv, UNCHANGED vars
             PROVE  IInv'
  OBVIOUS
<1>1. /\ UNCHANGED <<graph, storage, pc, got, nextCall, key, answer, outbound>>
      /\ UNCHANGED <<serving, read, inbound, version, running, late>>
      /\ UNCHANGED <<inner, up, loop, attempts, closed>>
      /\ UNCHANGED <<toServer, toClient, accepted, since>>
  BY DEF vars, client, server, transport, connection
<1>2. TypeInv'
  BY <1>1 DEF IInv, TypeInv, TypeOK, Transport!TypeOK
<1>3. ClientInv'
  BY <1>1 DEF IInv, ClientInv, LinksShaped, Unmade, Awaiting, Registered, Served
<1>4. PlacesInv'
  BY <1>1 DEF IInv, PlacesInv, ReadsPast, Requests, Dispatches, Answers, Notifications, InOrder,
              Requested, UnderWay, Stale, Once, Before
<1>5. BeforeIsOver' /\ Notified'
  BY <1>1 DEF IInv, BeforeIsOver, Notified, Connected, Withdrawn, Served
<1>6. Pending'
  BY <1>1 DEF IInv, Pending, Unanswered, Requested, UnderWay
<1>7. EntriesAwaited'
  BY <1>1 DEF IInv, EntriesAwaited, Connected, Subscribed, UnderWay, Requested
<1> QED BY <1>2, <1>3, <1>4, <1>5, <1>6, <1>7 DEF IInv

\* Every step preserves it.
LEMMA NextInv == IInv /\ [Next]_vars => IInv'
<1> SUFFICES ASSUME IInv, [Next]_vars
             PROVE  IInv'
  OBVIOUS
<1>1. ASSUME NEW v \in View, Begin(v)
      PROVE  IInv'
  BY <1>1, BeginMoves, ViewMovesInv
<1>2. ASSUME NEW v \in View, Locked(v)
      PROVE  IInv'
  BY <1>2, LockedMoves, ViewMovesInv, CallMadeInv
<1>3. ASSUME NEW v \in View, Answered(v)
      PROVE  IInv'
  BY <1>3, AnsweredInv
<1>4. ASSUME NEW v \in View, Finish(v)
      PROVE  IInv'
  BY <1>4, FinishMoves, ViewMovesInv
<1>5. ASSUME NEW c \in Call, Compute(c)
      PROVE  IInv'
  BY <1>5, ComputeInv
<1>6. ASSUME NEW c \in Call, Respond(c)
      PROVE  IInv'
  BY <1>6, RespondInv
<1>7. ASSUME NEW k \in Key, Change(k)
      PROVE  IInv'
  BY <1>7, ChangeInv
<1>8. CASE ClientReceives
  BY <1>8, ClientReceivesInv
<1>9. CASE ServerReceives
  BY <1>9, ServerReceivesInv
<1>10. CASE ClientCloses
  BY <1>10, ClientClosesEnds, TransportEndsInv
<1>11. CASE Reconnecting
  BY <1>11, ReconnectingEnds, TransportEndsInv
<1>12. CASE Connects
  BY <1>12, ConnectsInv
<1>13. CASE ServerCloses
  BY <1>13, ServerClosesInv
<1>14. ASSUME NEW c \in Call, DispatchRejected(c)
       PROVE  IInv'
  BY <1>14, DispatchRejectedInv
<1>15. CASE UNCHANGED vars
  BY <1>15, StutterInv
<1> QED BY <1>1, <1>2, <1>3, <1>4, <1>5, <1>6, <1>7, <1>8, <1>9, <1>10, <1>11, <1>12, <1>13,
           <1>14, <1>15 DEF Next, Run, Serve

\* The inductive invariant holds in every state.
THEOREM Invariance == Spec => []IInv
<1>1. Init => IInv
  BY InitInv
<1>2. IInv /\ [Next]_vars => IInv'
  BY NextInv
<1> QED BY <1>1, <1>2, PTL DEF Spec

\* Type correctness of RpcComputeCalls: the tables of calls hold only calls that were
\* made, and the queues only messages about them (peer.ts).
THEOREM TypeTheorem == Spec => []TypeOK
<1>1. IInv => TypeOK
  BY DEF IInv, TypeInv
<1> QED BY <1>1, Invariance, PTL

\* An entry of the outbound table waits for a message, and the server says nothing
\* about a call whose entry is gone (peer.ts, #outbound).
THEOREM EntriesTheorem == Spec => []EntriesAwaited
<1>1. IInv => EntriesAwaited
  BY DEF IInv
<1> QED BY <1>1, Invariance, PTL

\* The cache holds nothing from before the latest connection (reconnect.ts,
\* onReconnected; computed-registry.ts, invalidateAll).
THEOREM NothingFromBeforeTheorem == Spec => []NothingFromBefore
<1>1. IInv => NothingFromBefore
  BY DEF IInv, BeforeIsOver, NothingFromBefore, Connected
<1> QED BY <1>1, Invariance, PTL

\* What the client serves and the server has withdrawn was withdrawn when it was sent,
\* or its notification is under way: by the entries of the table, as only a
\* notification takes the entry of an answered call away (dispatch.ts; peer.ts).
THEOREM StaleTheorem == Spec => []StaleIsNotified
<1>1. IInv => StaleIsNotified
  <2> SUFFICES ASSUME IInv, Connected, NEW c \in Call, ServedStale(c)
               PROVE  c \in late \/ UnderWay("Invalidate", c)
    BY DEF StaleIsNotified
  <2>1. Served(c) /\ answer[c] = "ok" /\ read[c] # version[key[c]]
    BY DEF ServedStale
  <2>2. c \in since..(nextCall - 1)
    <3>1. ~(c < since)
      BY <2>1 DEF IInv, BeforeIsOver, Connected
    <3>2. ~(c >= nextCall)
      BY <2>1 DEF IInv, ClientInv, Unmade
    <3> QED BY <3>1, <3>2, MadeCalls DEF IInv, TypeInv
  <2>3. c \in outbound
    BY <2>1, <2>2 DEF IInv, Notified, Withdrawn, Served
  <2>4. ~Unanswered(c)
    BY <2>1 DEF IInv, Pending, Connected
  <2>5. c \notin Subscribed
    BY <2>1 DEF Subscribed
  <2>6. c \in late \/ \E type \in MessageType : UnderWay(type, c)
    BY <2>2, <2>3, <2>4, <2>5 DEF IInv, EntriesAwaited, Unanswered, Requested
  <2> QED BY <2>4, <2>6 DEF MessageType, Unanswered
<1> QED BY <1>1, Invariance, PTL

-----------------------------------------------------------------------------
(***************************************************************************)
(* What is withdrawn.                                                      *)
(***************************************************************************)

\* A current answer that is served.
Current(c) == Served(c) /\ answer[c] = "ok" /\ read[c] = version[key[c]]

\* An invalidation of a call withdraws, of all calls, that one only.
LEMMA InvalidateReach ==
    ASSUME IInv, NEW c \in Call, NEW d \in Call, d # c
    PROVE  Invalidate(graph, c).state[d] = graph.state[d]
<1>1. /\ GraphInv(graph) /\ graph \in Graph /\ c \in Node /\ d \in Node
      /\ graph.state[c] \in ConsistencyState
  BY CallType DEF IInv, TypeInv, GraphInv, Graph
<1>2. /\ \A n \in Node : graph.dependencies[n] \subseteq Call
      /\ graph.dependencies[d] = {}
      /\ \A e \in Call : graph.dependencies[e] = {}
  BY DEF IInv, ClientInv, LinksShaped
<1>3. /\ \A n \in graph.dependants[c] : n \in Node /\ c \in graph.dependencies[n]
      /\ \A n, m \in Node : m \in graph.dependants[n] => n \in graph.dependencies[m]
      /\ \A n \in Node : graph.dependants[n] \in SUBSET Node
  BY <1>1 DEF GraphInv, Linked, Graph
<1>4. ASSUME NEW n \in graph.dependants[c]
      PROVE  graph.dependants[n] = {}
  <2>1. n \in Node /\ n \notin Call
    BY <1>2, <1>3
  <2>2. ASSUME NEW m \in graph.dependants[n]
        PROVE  FALSE
    <3>1. m \in Node /\ n \in graph.dependencies[m]
      BY <1>3, <2>1
    <3> QED BY <1>2, <2>1, <3>1
  <2> QED BY <2>2
<1>5. d \notin graph.dependants[c]
  BY <1>2, <1>3
<1>6. CASE graph.state[c] = "Invalidated"
  BY <1>6 DEF Invalidate
<1>7. CASE graph.state[c] = "Computing"
  BY <1>1, <1>7, InvalidateDeferred
<1>8. CASE graph.state[c] = "Consistent"
  <2>1. Invalidate(graph, c) = Cascade(graph, {c})
    BY <1>8 DEF Invalidate
  <2> QED BY <1>1, <1>4, <1>5, <2>1, CascadeReach
<1> QED BY <1>1, <1>6, <1>7, <1>8 DEF ConsistencyState

\* A step over the same connection withdraws no current answer: a view's step changes
\* the graph at the view and at the call it gets the answer of, and a notification is
\* about a call that is not current.
LEMMA CurrentStays ==
    ASSUME IInv, Next, inner' = inner, NEW c \in Call, Current(c)
    PROVE  graph'.state[c] # "Invalidated"
<1>1. /\ graph.state[c] = "Consistent" /\ c \in Node /\ \A v \in View : c # v
      /\ ~Stale(c)
  BY CallType DEF Current, Served, Stale
<1>2. ASSUME NEW v \in View, ViewMoves(v)
      PROVE  graph'.state[c] = graph.state[c]
  BY <1>1, <1>2 DEF ViewMoves, OnlyView
<1>3. ASSUME NEW v \in View, Locked(v)
      PROVE  graph'.state[c] = graph.state[c]
  <2>1. CASE ViewMoves(v)
    BY <1>2, <2>1
  <2>2. CASE CallMade(v)
    BY <2>2 DEF CallMade
  <2> QED BY <1>3, <2>1, <2>2, LockedMoves
<1>4. ASSUME NEW v \in View, Answered(v)
      PROVE  graph'.state[c] = graph.state[c]
  <2>1. PICK d \in Call : d = got[v]
    BY <1>4, MadeCalls DEF Answered, IInv, ClientInv, Awaiting, TypeInv
  <2>2. graph.state[d] = "Computing" /\ storage[KeyOf[v]] = NoCall
    BY <1>4, <2>1 DEF Answered, IInv, ClientInv, Awaiting
  <2>3. graph.dependencies[d] = {} /\ graph.dependencies[v] \subseteq Call /\ GraphInv(graph)
    BY ViewLinks DEF IInv, ClientInv, LinksShaped
  <2>4. graph' = AddDependency(SetInvalidateCallback(TrySetOutput(graph, d), d), v, d)
    BY <1>4, <2>1, <2>2 DEF Answered, Receive
  <2>5. c # d
    BY <1>1, <2>2
  <2> QED BY <1>1, <2>2, <2>3, <2>4, <2>5, AnsweredGraph
<1>5. ASSUME ClientReceives
      PROVE  graph'.state[c] = graph.state[c]
  <2>1. /\ TypeOK /\ InOrder /\ toClient # <<>> /\ toClient' = Tail(toClient)
        /\ HandleMessage(Head(toClient))
    BY <1>5 DEF IInv, TypeInv, PlacesInv, ClientReceives
  <2>2. PICK type \in MessageType, d \in Call :
            Head(toClient) = Message(type, d) /\ UnderWay(type, d)
    BY <2>1, MessageTaken
  <2>3. Head(toClient).type = type /\ Head(toClient).call = d
    BY <2>2, MessageFields
  <2>4. \/ graph' = graph
        \/ HandleInvalidate(d) /\ type = "Invalidate"
    BY <2>1, <2>3 DEF HandleMessage, HandleOk, HandleError
  <2>5. CASE HandleInvalidate(d) /\ type = "Invalidate"
    <3>1. c # d
      BY <1>1, <2>2, <2>5 DEF IInv, PlacesInv, Notifications
    <3>2. graph' = graph \/ graph' = Invalidate(graph, d)
      BY <2>5 DEF HandleInvalidate
    <3> QED BY <3>1, <3>2, InvalidateReach
  <2> QED BY <2>4, <2>5
<1>6. ASSUME Connects
      PROVE  FALSE
  <2>1. inner' = inner + 1 /\ inner \in Nat
    BY <1>6, BoundsAssumption DEF Connects, Transport!Connects, IInv, TypeInv, TypeOK, Transport!TypeOK
  <2> QED BY <2>1
<1>7. ASSUME NEW v \in View, Begin(v) \/ Finish(v)
      PROVE  graph'.state[c] = graph.state[c]
  BY <1>2, <1>7, BeginMoves, FinishMoves
<1>8. ASSUME \/ \E d \in Call : Serve(d)
             \/ \E k \in Key : Change(k)
             \/ ServerReceives \/ ClientCloses \/ Reconnecting \/ ServerCloses
      PROVE  graph' = graph
  BY <1>8 DEF Serve, Compute, Respond, DispatchRejected, Change, ServerReceives, ClientCloses,
              Reconnecting, ServerCloses, client
<1>9. graph'.state[c] = graph.state[c]
  <2>1. CASE \E v \in View : Run(v)
    BY <1>3, <1>4, <1>7, <2>1 DEF Run
  <2>2. CASE ClientReceives
    BY <1>5, <2>2
  <2>3. CASE Connects
    BY <1>6, <2>3
  <2>4. CASE ~(\/ \E v \in View : Run(v)
               \/ ClientReceives \/ Connects)
    BY <1>8, <2>4 DEF Next
  <2> QED BY <2>1, <2>2, <2>3, <2>4
<1> QED BY <1>1, <1>9

\* A current answer is withdrawn by a new connection only (rpc-proxy.ts, the double
\* check and register; peer.ts, #handleInvalidate).
THEOREM WithdrawnTheorem == Spec => WithdrawnWithReason
<1>1. ASSUME IInv, [Next]_vars, NEW c \in Call, Current(c), graph'.state[c] = "Invalidated"
      PROVE  inner' # inner
  <2>1. CASE Next
    BY <1>1, <2>1, CurrentStays
  <2>2. CASE UNCHANGED vars
    BY <1>1, <2>2 DEF vars, client, Current, Served
  <2> QED BY <1>1, <2>1, <2>2
<1>2. IInv /\ [Next]_vars =>
          [\A c \in Call :
              /\ Served(c)
              /\ answer[c] = "ok"
              /\ read[c] = version[key[c]]
              /\ graph'.state[c] = "Invalidated"
              => inner' # inner]_vars
  BY <1>1 DEF Current
<1> QED BY <1>2, Invariance, PTL DEF Spec, WithdrawnWithReason

-----------------------------------------------------------------------------
(***************************************************************************)
(* What is waited for.                                                     *)
(***************************************************************************)

\* A call without an answer is in the table, and the transport is not closed for good.
Kept == \A c \in Call : c < nextCall /\ answer[c] = "pending" => c \in outbound /\ ~closed

\* One that the server has answered with a value, or whose value it has withdrawn since,
\* has the answer under way.
Answerable ==
    up => \A c \in Call :
              /\ c >= since
              /\ answer[c] = "pending"
              /\ c \in inbound \union late \/ UnderWay("Invalidate", c)
              => UnderWay("Ok", c)

\* A transport without a connection looks for one until it is closed for good.
Looping == ~up => loop # "none" \/ closed

WaitInv == Kept /\ Answerable /\ Looping

\* Steps in which no call is made or answered, and no message sent or received.
LEMMA OthersKeepWaits ==
    ASSUME WaitInv,
           UNCHANGED <<nextCall, answer, outbound, late, toClient, since>>, UNCHANGED transport,
           inbound' \subseteq inbound
    PROVE  WaitInv'
<1>1. UNCHANGED <<up, loop, closed>>
  BY DEF transport
<1>2. \A t, c : UnderWay(t, c)' <=> UnderWay(t, c)
  BY DEF UnderWay
<1>3. Kept' /\ Looping'
  BY <1>1 DEF WaitInv, Kept, Looping
<1>4. Answerable'
  BY <1>1, <1>2 DEF WaitInv, Answerable
<1> QED BY <1>3, <1>4 DEF WaitInv

\* A call that is made is entered in the table, and rejected when it cannot be sent.
LEMMA CallMadeKeepsWaits ==
    ASSUME IInv, WaitInv, NEW v \in View, CallMade(v)
    PROVE  WaitInv'
<1>1. PICK c \in Call : c = nextCall
  BY DEF CallMade
<1>2. /\ nextCall' = c + 1
      /\ outbound' = outbound \union {c}
      /\ IF up /\ ~closed THEN UNCHANGED answer ELSE answer' = [answer EXCEPT ![c] = "error"]
      /\ UNCHANGED <<inbound, late, toClient, since, up, loop, closed>>
  BY <1>1 DEF CallMade, ComputeCall, Transport!CanSend, server, transport
<1>3. /\ \A d \in Call \ {c} : answer'[d] = answer[d]
      /\ answer'[c] = "pending" => ~closed
  BY <1>1, <1>2 DEF IInv, TypeInv, TypeOK
<1>4. \A t, d : UnderWay(t, d)' <=> UnderWay(t, d)
  BY <1>2 DEF UnderWay
<1>5. Kept'
  <2>1. ASSUME NEW d \in Call, d < c + 1, answer'[d] = "pending"
        PROVE  d \in outbound' /\ ~closed
    <3>1. CASE d = c
      BY <1>2, <1>3, <2>1, <3>1
    <3>2. CASE d # c
      <4>1. d < c
        BY <2>1, <3>2, CallType
      <4> QED BY <1>1, <1>2, <1>3, <2>1, <3>2, <4>1 DEF WaitInv, Kept
    <3> QED BY <3>1, <3>2
  <2> QED BY <1>2, <2>1 DEF Kept
<1>6. Answerable'
  <2>1. c \notin inbound \union late /\ ~UnderWay("Invalidate", c)
    <3>1. ~(c < nextCall)
      BY <1>1, CallType
    <3>2. "Invalidate" \in MessageType
      BY DEF MessageType
    <3> QED BY <3>1, <3>2, ServerTables DEF IInv, PlacesInv, Answers
  <2> QED BY <1>2, <1>3, <1>4, <2>1 DEF WaitInv, Answerable
<1>7. Looping'
  BY <1>2 DEF WaitInv, Looping
<1> QED BY <1>5, <1>6, <1>7 DEF WaitInv

\* A dispatch that ends with a value sends it and subscribes.
LEMMA RespondKeepsWaits ==
    ASSUME IInv, WaitInv, NEW c \in Call, Respond(c)
    PROVE  WaitInv'
<1>1. /\ UNCHANGED <<nextCall, answer, outbound, since>>
      /\ UNCHANGED <<up, loop, closed>>
  BY DEF Respond, client, transport
<1>2. /\ inbound' \subseteq inbound \union {c}
      /\ late' \subseteq late \union {c}
      /\ c \in inbound' \union late' => Accepted(c)
  BY Responded
<1>3. /\ \A d \in Call : UnderWay("Ok", d)' <=> UnderWay("Ok", d) \/ (d = c /\ Accepted(c))
      /\ \A d \in Call : UnderWay("Invalidate", d)' <=> UnderWay("Invalidate", d)
  <2>1. "Ok" \in MessageType /\ "Invalidate" \in MessageType
        /\ "Ok" # "Error" /\ "Invalidate" # "Error" /\ "Invalidate" # "Ok"
    BY DEF MessageType
  <2> QED BY <2>1, Responded
<1>4. Kept' /\ Looping'
  BY <1>1 DEF WaitInv, Kept, Looping
<1>5. Answerable'
  BY <1>1, <1>2, <1>3 DEF WaitInv, Answerable
<1> QED BY <1>4, <1>5 DEF WaitInv

\* A call is notified after it was subscribed.
LEMMA ChangeKeepsWaits ==
    ASSUME IInv, WaitInv, NEW k \in Key, Change(k)
    PROVE  WaitInv'
<1>1. /\ UNCHANGED <<nextCall, answer, outbound, since>>
      /\ UNCHANGED <<up, loop, closed, inbound, late>>
  BY DEF Change, client, transport
<1>2. PICK C : C = {c \in Subscribed : key[c] = k}
  OBVIOUS
<1>3. /\ C \in SUBSET Call /\ C \subseteq inbound
      /\ \A c \in C : ~UnderWay("Invalidate", c)
      /\ toClient' = Sent("Invalidate", C)
      /\ TypeOK /\ InOrder
  <2>1. C \in SUBSET Call /\ C \subseteq inbound /\ \A c \in C : ~Stale(c)
    BY <1>2, ServerTables DEF Subscribed, Stale
  <2> QED BY <1>2, <2>1, ServerTables DEF Change, IInv, PlacesInv, Notifications
<1>4. /\ \A d \in Call : UnderWay("Ok", d)' <=> UnderWay("Ok", d)
      /\ \A d \in Call : UnderWay("Invalidate", d)' <=> UnderWay("Invalidate", d) \/ d \in C
  <2>1. "Ok" \in MessageType /\ "Invalidate" \in MessageType /\ "Invalidate" # "Ok"
    BY DEF MessageType
  <2>2. \A t \in MessageType, d \in Call :
           UnderWay(t, d)' <=> UnderWay(t, d) \/ (t = "Invalidate" /\ d \in C)
    BY <1>3, <2>1, MessagesSent
  <2> QED BY <2>1, <2>2
<1>5. Kept' /\ Looping'
  BY <1>1 DEF WaitInv, Kept, Looping
<1>6. Answerable'
  BY <1>1, <1>3, <1>4 DEF WaitInv, Answerable
<1> QED BY <1>5, <1>6 DEF WaitInv

\* A message that takes the entry of a call away comes after the answer, or is it.
LEMMA ClientReceivesKeepsWaits ==
    ASSUME IInv, WaitInv, ClientReceives
    PROVE  WaitInv'
<1>1. /\ TypeOK /\ InOrder /\ toClient # <<>> /\ toClient' = Tail(toClient)
      /\ up /\ HandleMessage(Head(toClient))
      /\ UNCHANGED <<nextCall, since, inbound, late, up, loop, closed>>
  BY DEF IInv, TypeInv, PlacesInv, ClientReceives, server, transport
<1>2. PICK type \in MessageType, c \in Call :
          /\ Head(toClient) = Message(type, c)
          /\ UnderWay(type, c)
          /\ type = "Invalidate" => ~UnderWay("Ok", c)
          /\ \A t \in MessageType, d \in Call :
                UnderWay(t, d)' <=> UnderWay(t, d) /\ ~(t = type /\ d = c)
  BY <1>1, MessageTaken
<1>3. Head(toClient).type = type /\ Head(toClient).call = c
  BY <1>2, MessageFields
<1>4. \/ type = "Ok" /\ HandleOk(c)
      \/ type = "Error" /\ HandleError(c)
      \/ type = "Invalidate" /\ HandleInvalidate(c)
  BY <1>1, <1>3 DEF HandleMessage
<1>5. c >= since /\ c < nextCall
  BY <1>2 DEF IInv, PlacesInv, Answers
<1>6. /\ \A d \in Call : answer'[d] = "pending" => answer[d] = "pending" /\ d # c
      /\ \A d \in Call : d # c /\ d \in outbound => d \in outbound'
  <2>1. CASE type = "Invalidate" /\ HandleInvalidate(c)
    <3>1. answer' = answer /\ outbound' = outbound \ {c}
      BY <2>1 DEF HandleInvalidate
    <3>2. answer[c] # "pending"
      BY <1>1, <1>2, <1>5, <2>1 DEF WaitInv, Answerable
    <3> QED BY <3>1, <3>2
  <2>2. CASE (type = "Ok" /\ HandleOk(c)) \/ (type = "Error" /\ HandleError(c))
    <3>1. PICK outcome \in {"ok", "error"} : Settle({c} \intersect outbound, outcome)
      BY <2>2 DEF HandleOk, HandleError
    <3>2. \A d \in Call : d # c /\ d \in outbound => d \in outbound'
      BY <2>2 DEF HandleOk, HandleError
    <3>3. /\ answer \in [Call -> {"pending", "ok", "error"}]
          /\ \A d \in Call : answer[d] # "pending" => answer'[d] = answer[d]
          /\ \A d \in {c} \intersect outbound : answer[d] = "pending" => answer'[d] = outcome
      <4>1. {c} \intersect outbound \in SUBSET Call
        OBVIOUS
      <4> QED BY <1>1, <3>1, <4>1, SettleOutcome DEF TypeOK
    <3>4. answer[c] = "pending" => c \in outbound
      BY <1>5 DEF WaitInv, Kept
    <3> QED BY <3>2, <3>3, <3>4
  <2> QED BY <1>4, <2>1, <2>2
<1>7. Kept'
  BY <1>1, <1>6 DEF WaitInv, Kept
<1>8. Answerable'
  <2>1. "Ok" \in MessageType /\ "Invalidate" \in MessageType
    BY DEF MessageType
  <2>2. ASSUME NEW d \in Call, d >= since, answer'[d] = "pending",
               d \in inbound \union late \/ UnderWay("Invalidate", d)'
        PROVE  UnderWay("Ok", d)'
    BY <1>1, <1>2, <1>6, <2>1, <2>2 DEF WaitInv, Answerable
  <2> QED BY <1>1, <2>2 DEF Answerable
<1>9. Looping'
  BY <1>1 DEF WaitInv, Looping
<1> QED BY <1>7, <1>8, <1>9 DEF WaitInv

\* When the transport closes for good, every call in the table is rejected.
LEMMA EndsKeepWaits ==
    ASSUME IInv, WaitInv, ClientCloses \/ Reconnecting
    PROVE  WaitInv'
<1>1. TransportEnds
  BY ClientClosesEnds, ReconnectingEnds
<1>2. /\ TypeOK /\ ~up' /\ Told /\ closed \in BOOLEAN /\ closed' \in BOOLEAN
      /\ closed => closed'
      /\ nextCall' = nextCall
  BY <1>1 DEF TransportEnds, IInv, TypeInv, TypeOK, Transport!TypeOK
<1>3. Kept'
  <2>1. CASE ~closed /\ closed'
    <3>1. Settle(outbound, "error")
      BY <1>2, <2>1 DEF Told, Transport!Gone, HandleClose
    <3>2. outbound \in SUBSET Call
      BY <1>2, MadeCalls DEF TypeOK
    <3>3. /\ answer \in [Call -> {"pending", "ok", "error"}]
          /\ \A d \in Call : answer[d] # "pending" => answer'[d] = answer[d]
          /\ \A d \in outbound : answer[d] = "pending" => answer'[d] = "error"
      BY <1>2, <3>1, <3>2, SettleOutcome DEF TypeOK
    <3>4. \A d \in Call : d < nextCall => answer'[d] # "pending"
      BY <3>3 DEF WaitInv, Kept
    <3> QED BY <1>2, <3>4 DEF Kept
  <2>2. CASE ~(~closed /\ closed')
    <3>1. UNCHANGED <<answer, outbound>> /\ closed' = closed
      BY <1>2, <2>2 DEF Told, Transport!Gone
    <3> QED BY <1>2, <3>1 DEF WaitInv, Kept
  <2> QED BY <2>1, <2>2
<1>4. Answerable'
  BY <1>2 DEF Answerable
<1>5. Looping'
  <2>1. Transport!Retry => loop' # "none" \/ closed'
    BY DEF Transport!Retry
  <2>2. CASE Transport!InnerCloses
    BY <1>2, <2>1, <2>2 DEF Transport!InnerCloses, Looping
  <2>3. CASE Transport!Dispose
    BY <2>3 DEF Transport!Dispose, Looping
  <2>4. CASE Transport!DelayOver
    BY <2>4 DEF Transport!DelayOver, Looping
  <2>5. CASE Transport!ConnectFails
    BY <2>1, <2>5 DEF Transport!ConnectFails, Looping
  <2> QED BY <2>2, <2>3, <2>4, <2>5 DEF ClientCloses, Reconnecting
<1> QED BY <1>3, <1>4, <1>5 DEF WaitInv

\* No call was made over a new connection yet.
LEMMA ConnectsKeepsWaits ==
    ASSUME IInv, WaitInv, Connects
    PROVE  WaitInv'
<1>1. /\ since' = nextCall /\ inbound' = {} /\ toClient' = <<>> /\ up' = TRUE
      /\ UNCHANGED <<nextCall, answer, outbound, late, closed>>
  BY DEF Connects, Transport!Connects
<1>2. Kept' /\ Looping'
  BY <1>1 DEF WaitInv, Kept, Looping
<1>3. Answerable'
  <2>1. \A t, d : ~UnderWay(t, d)'
    BY <1>1, NothingUnderWay
  <2>2. \A d \in late : ~(d >= nextCall)
    BY ServerTables, MadeCalls, CallType
  <2> QED BY <1>1, <2>1, <2>2 DEF Answerable
<1> QED BY <1>2, <1>3 DEF WaitInv

\* Every step keeps them.
LEMMA NextKeepsWaits ==
    ASSUME IInv, WaitInv, [Next]_vars
    PROVE  WaitInv'
<1>1. ASSUME NEW v \in View, ViewMoves(v) \/ Answered(v)
      PROVE  WaitInv'
  BY <1>1, OthersKeepWaits DEF ViewMoves, Answered, server, connection
<1>2. ASSUME NEW v \in View, Begin(v) \/ Locked(v) \/ Finish(v)
      PROVE  WaitInv'
  BY <1>1, <1>2, BeginMoves, LockedMoves, FinishMoves, CallMadeKeepsWaits
<1>3. ASSUME NEW c \in Call, Compute(c)
      PROVE  WaitInv'
  BY <1>3, OthersKeepWaits DEF Compute, client, connection
<1>4. CASE ServerReceives
  BY <1>4, OthersKeepWaits DEF ServerReceives, client
<1>5. CASE ServerCloses
  BY <1>5, OthersKeepWaits DEF ServerCloses, client
<1>6. ASSUME NEW c \in Call, DispatchRejected(c)
      PROVE  WaitInv'
  BY <1>6, OthersKeepWaits DEF DispatchRejected, ProcessEnds, client
<1>7. CASE UNCHANGED vars
  BY <1>7, OthersKeepWaits DEF vars, client, server, connection
<1> QED BY <1>1, <1>2, <1>3, <1>4, <1>5, <1>6, <1>7, RespondKeepsWaits, ChangeKeepsWaits,
           ClientReceivesKeepsWaits, EndsKeepWaits, ConnectsKeepsWaits DEF Next, Run, Serve

\* Nobody waits for an answer that cannot come: a call without one is in the table, and
\* what the table waits for leads to the answer (peer.ts, computeCall and #handleClose;
\* dispatch.ts).
THEOREM NoWaitInVainTheorem == Spec => []NoWaitInVain
<1>1. Init => WaitInv
  BY CallType DEF Init, Transport!Init, WaitInv, Kept, Answerable, Looping, UnderWay
<1>2. IInv /\ WaitInv /\ [Next]_vars => WaitInv'
  BY NextKeepsWaits
<1>3. IInv /\ WaitInv => NoWaitInVain
  <2> SUFFICES ASSUME IInv, WaitInv, NEW v \in View, NEW c, c = got[v],
                      pc[v] = "calling", answer[c] = "pending"
               PROVE  /\ ~closed
                      /\ \/ c < since
                         \/ loop # "none"
                         \/ up /\ ~accepted
                         \/ Requested(c)
                         \/ c \in serving
                         \/ UnderWay("Ok", c)
                         \/ UnderWay("Error", c)
    BY DEF NoWaitInVain
  <2>1. c \in Call /\ c < nextCall
    BY MadeCalls DEF IInv, TypeInv, ClientInv, Awaiting
  <2>2. c \in outbound /\ ~closed
    BY <2>1 DEF WaitInv, Kept
  <2>3. ASSUME loop = "none", ~(up /\ ~accepted), c >= since
        PROVE  \/ Requested(c) \/ c \in serving
               \/ UnderWay("Ok", c) \/ UnderWay("Error", c)
    <3>1. Connected
      BY <2>2, <2>3 DEF WaitInv, Looping, Connected
    <3>2. \/ Requested(c)
          \/ c \in serving \union Subscribed \union late
          \/ \E type \in MessageType : UnderWay(type, c)
      BY <2>1, <2>2, <2>3, <3>1, MadeCalls DEF IInv, TypeInv, EntriesAwaited
    <3>3. \/ Requested(c)
          \/ c \in serving \union inbound \union late
          \/ UnderWay("Ok", c) \/ UnderWay("Error", c) \/ UnderWay("Invalidate", c)
      BY <3>2 DEF MessageType, Subscribed
    <3> QED BY <2>1, <2>3, <3>1, <3>3 DEF WaitInv, Answerable, Connected
  <2> QED BY <2>1, <2>2, <2>3, MadeCalls DEF IInv, TypeInv
<1> QED BY <1>1, <1>2, <1>3, Invariance, PTL DEF Spec
=============================================================================
