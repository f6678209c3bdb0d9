----------------------------- MODULE CommandsProofs -----------------------------
(***************************************************************************)
(* Proofs about Commands: the types, that the bag of a call holds only     *)
(* sessions of that call, and that the second pass declares everything a   *)
(* command changed.                                                        *)
(*                                                                         *)
(* Much of it is about what a step does to the stack of one task: it puts  *)
(* another frame on top, or the frames of a call, or takes the top away.   *)
(***************************************************************************)
EXTENDS Commands, TLAPS

-----------------------------------------------------------------------------
(***************************************************************************)
(* Sequences.                                                              *)
(***************************************************************************)

\* A sequence without its first element.
LEMMA TailOf ==
    ASSUME NEW S, NEW s \in Seq(S), s # <<>>
    PROVE  /\ Head(s) = s[1] /\ s[1] \in S
           /\ Len(s) \in Nat \ {0}
           /\ Tail(s) \in Seq(S)
           /\ Len(Tail(s)) = Len(s) - 1
           /\ \A i \in 1..(Len(s) - 1) : Tail(s)[i] = s[i + 1]
OBVIOUS

\* A sequence with another first element.
LEMMA Replaced ==
    ASSUME NEW S, NEW s \in Seq(S), s # <<>>, NEW f \in S
    PROVE  /\ <<f>> \o Tail(s) \in Seq(S)
           /\ Len(<<f>> \o Tail(s)) = Len(s)
           /\ (<<f>> \o Tail(s))[1] = f
           /\ \A i \in 2..Len(s) : (<<f>> \o Tail(s))[i] = s[i]
OBVIOUS

\* A sequence with two elements in the place of the first.
LEMMA ReplacedByTwo ==
    ASSUME NEW S, NEW s \in Seq(S), s # <<>>, NEW f \in S, NEW g \in S
    PROVE  /\ <<f, g>> \o Tail(s) \in Seq(S)
           /\ Len(<<f, g>> \o Tail(s)) = Len(s) + 1
           /\ (<<f, g>> \o Tail(s))[1] = f
           /\ (<<f, g>> \o Tail(s))[2] = g
           /\ \A i \in 3..(Len(s) + 1) : (<<f, g>> \o Tail(s))[i] = s[i - 1]
OBVIOUS

\* The elements of a sequence are those at its positions.
LEMMA ElementsOf ==
    ASSUME NEW S, NEW s \in Seq(S)
    PROVE  Range(s) = {s[i] : i \in 1..Len(s)}
BY DEF Range

-----------------------------------------------------------------------------
(***************************************************************************)
(* Types.                                                                  *)
(***************************************************************************)

\* A stack of calls, typed.
Stack == Seq(Frame)

\* The types are those of the state before, as long as nobody adds filters.
LEMMA SameFrames ==
    ASSUME filters' = filters
    PROVE  /\ Handling' = Handling
           /\ Frame' = Frame
           /\ Stack' = Stack
           /\ \A f : In(f)' = In(f)
<1>1. Handling' = Handling
  BY DEF Handling
<1>2. Frame' = Frame
  BY <1>1 DEF Frame
<1> QED BY <1>1, <1>2 DEF Stack, In

\* There is a place for the handler.
LEMMA HandlingIsANumber ==
    ASSUME filters \in Pipelines
    PROVE  /\ Handling \in Nat \ {0}
           /\ Len(filters) \in Nat
           /\ Handling = Len(filters) + 1
           /\ filters \in Seq({"session", "invalidation", "retry"})
BY PipelinesAssumption DEF Handling

\* The frames of a call: one at every place of the pipeline, the handler on top.
LEMMA PipelineFrames ==
    ASSUME filters \in Pipelines, NEW k \in DOMAIN Handler, NEW b \in BOOLEAN
    PROVE  /\ Pipeline(k, b) \in Stack
           /\ Len(Pipeline(k, b)) = Handling
           /\ \A i \in 1..Handling :
                 Pipeline(k, b)[i] = Invocation(Handling - i + 1, k, b, {})
<1> DEFINE called == [i \in 1..Handling |-> Invocation(i, k, b, {})]
<1>1. Handling \in Nat \ {0}
  BY HandlingIsANumber
<1>2. \A i \in 1..Handling : Invocation(i, k, b, {}) \in Frame
  BY <1>1 DEF Invocation, Frame
<1>3. called \in Seq(Frame) /\ Len(called) = Handling
  BY <1>1, <1>2
<1>4. Pipeline(k, b) = [i \in 1..Handling |-> called[Handling - i + 1]]
  BY <1>1, <1>3 DEF Pipeline, Reverse
<1>5. \A i \in 1..Handling :
         /\ Handling - i + 1 \in 1..Handling
         /\ called[Handling - i + 1] = Invocation(Handling - i + 1, k, b, {})
  BY <1>1
<1>6. \A i \in 1..Handling : Pipeline(k, b)[i] = Invocation(Handling - i + 1, k, b, {})
  BY <1>4, <1>5
<1>7. \A i \in 1..Handling : called[Handling - i + 1] \in Frame
  BY <1>2, <1>5
<1> HIDE DEF called
<1>8. Pipeline(k, b) \in Seq(Frame) /\ Len(Pipeline(k, b)) = Handling
  BY <1>1, <1>4, <1>7
<1> QED BY <1>6, <1>8 DEF Stack

CommandsOn(s) == {f.command : f \in Range(s)}

\* The stack of t becomes one of commands K, and nothing loses its type.
Moves(t, K) ==
    /\ \A u \in Task \ {t} : stack'[u] = stack[u]
    /\ stack' \in [Task -> Stack]
    /\ CommandsOn(stack'[t]) \subseteq K
    /\ cache' \in [Cell -> Value]
    /\ reading' \in [Cell -> Value]

\* The types without those of the bags.
Typed ==
    /\ filters \in Pipelines
    /\ stack \in [Task -> Stack]
    /\ cache \in [Cell -> Value]
    /\ reading \in [Cell -> Value]

\* The types say so.
LEMMA TypedByTypeOK == TypeOK => Typed
BY DEF TypeOK, Typed, Stack

\* What becomes of the values is a value.
LEMMA Values ==
    ASSUME NEW v \in [Cell -> Value], NEW C
    PROVE  /\ Changed(v, C) \in [Cell -> Value]
           /\ Excused(v, C) \in [Cell -> Value]
           /\ Dropped(v, C) \in [Cell -> Value]
BY DEF Changed, Excused, Dropped, Value

\* The commands on a stack with another top.
LEMMA CommandsReplaced ==
    ASSUME NEW s \in Stack, s # <<>>, NEW f \in Frame
    PROVE  /\ <<f>> \o Tail(s) \in Stack
           /\ CommandsOn(<<f>> \o Tail(s)) \subseteq CommandsOn(s) \union {f.command}
<1> DEFINE r == <<f>> \o Tail(s)
<1>1. /\ r \in Stack /\ Len(r) = Len(s) /\ Len(s) \in Nat
      /\ r[1] = f
      /\ \A i \in 2..Len(s) : r[i] = s[i]
  BY Replaced DEF Stack
<1> HIDE DEF r
<1>2. \A i \in 1..Len(r) : r[i] = f \/ \E j \in 1..Len(s) : r[i] = s[j]
  BY <1>1
<1>3. Range(r) \subseteq Range(s) \union {f}
  BY <1>1, <1>2, ElementsOf DEF Stack
<1> QED BY <1>1, <1>3 DEF r, CommandsOn

\* The commands on a stack with two frames in the place of its top.
LEMMA CommandsReplacedByTwo ==
    ASSUME NEW s \in Stack, s # <<>>, NEW f \in Frame, NEW g \in Frame
    PROVE  /\ <<f, g>> \o Tail(s) \in Stack
           /\ CommandsOn(<<f, g>> \o Tail(s)) \subseteq CommandsOn(s) \union {f.command, g.command}
<1> DEFINE r == <<f, g>> \o Tail(s)
<1>1. /\ r \in Stack /\ Len(r) = Len(s) + 1 /\ Len(s) \in Nat
      /\ r[1] = f /\ r[2] = g
      /\ \A i \in 3..(Len(s) + 1) : r[i] = s[i - 1]
  BY ReplacedByTwo DEF Stack
<1> HIDE DEF r
<1>2. \A i \in 1..Len(r) : r[i] \in {f, g} \/ \E j \in 1..Len(s) : r[i] = s[j]
  BY <1>1
<1>3. Range(r) \subseteq Range(s) \union {f, g}
  BY <1>1, <1>2, ElementsOf DEF Stack
<1> QED BY <1>1, <1>3 DEF r, CommandsOn

\* The commands of the callers, without the call on top.
LEMMA CommandsOfTail ==
    ASSUME NEW s \in Stack, s # <<>>
    PROVE  /\ Tail(s) \in Stack
           /\ CommandsOn(Tail(s)) \subseteq CommandsOn(s)
           /\ Head(s) \in Frame
           /\ Head(s) \in Range(s)
           /\ Head(s).command \in CommandsOn(s)
<1> DEFINE r == Tail(s)
<1>1. /\ r \in Stack /\ Len(r) = Len(s) - 1 /\ Len(s) \in Nat \ {0}
      /\ \A i \in 1..(Len(s) - 1) : r[i] = s[i + 1]
      /\ Head(s) = s[1] /\ Head(s) \in Frame
  BY TailOf DEF Stack
<1> HIDE DEF r
<1>2. \A i \in 1..Len(r) : \E j \in 1..Len(s) : r[i] = s[j]
  BY <1>1
<1>3. Range(r) \subseteq Range(s) /\ Head(s) \in Range(s)
  BY <1>1, <1>2, ElementsOf DEF Stack
<1> QED BY <1>1, <1>3 DEF r, CommandsOn

\* The commands of a call and its callers.
LEMMA CommandsOfCall ==
    ASSUME filters \in Pipelines, NEW k \in DOMAIN Handler, NEW b \in BOOLEAN,
           NEW s \in Stack
    PROVE  /\ Pipeline(k, b) \o s \in Stack
           /\ CommandsOn(Pipeline(k, b) \o s) \subseteq CommandsOn(s) \union {k}
<1> DEFINE p == Pipeline(k, b)
           r == p \o s
<1>1. /\ p \in Seq(Frame) /\ Len(p) = Handling /\ Handling \in Nat
      /\ \A i \in 1..Handling : p[i] = Invocation(Handling - i + 1, k, b, {})
  BY PipelineFrames, HandlingIsANumber DEF Stack
<1> HIDE DEF p
<1>2. \A i \in 1..Len(p) : p[i].command = k
  BY <1>1 DEF Invocation
<1>3. s \in Seq(Frame) /\ Len(s) \in Nat
  BY DEF Stack
<1>4. /\ r \in Seq(Frame) /\ Len(r) = Len(p) + Len(s)
      /\ \A i \in 1..Len(p) : r[i] = p[i]
      /\ \A i \in 1..Len(s) : r[Len(p) + i] = s[i]
  BY <1>1, <1>3
<1> HIDE DEF r
<1>5. ASSUME NEW i \in 1..Len(r)
      PROVE  r[i].command = k \/ r[i] \in Range(s)
  <2>1. CASE i \in 1..Len(p)
    BY <1>2, <1>4, <2>1
  <2>2. CASE i \notin 1..Len(p)
    <3>1. i - Len(p) \in 1..Len(s) /\ Len(p) + (i - Len(p)) = i
      BY <1>1, <1>3, <1>4, <2>2
    <3>2. r[i] = s[i - Len(p)]
      BY <1>4, <3>1
    <3> QED BY <3>1, <3>2, <1>3, ElementsOf
  <2> QED BY <2>1, <2>2
<1>6. ASSUME NEW f \in Range(r)
      PROVE  f.command = k \/ f \in Range(s)
  <2>1. PICK i \in 1..Len(r) : f = r[i]
    BY <1>4, ElementsOf
  <2> QED BY <1>5, <2>1
<1> QED BY <1>4, <1>6 DEF p, r, CommandsOn, Stack

-----------------------------------------------------------------------------
(***************************************************************************)
(* What every step does to the types and to the commands on a stack.       *)
(***************************************************************************)

\* A stack with nothing on it, or with s on it.
LEMMA MovesTo ==
    ASSUME Typed, NEW t \in Task, NEW s \in Stack, NEW K,
           stack' = [stack EXCEPT ![t] = s], CommandsOn(s) \subseteq K,
           cache' \in [Cell -> Value], reading' \in [Cell -> Value]
    PROVE  Moves(t, K)
<1>1. stack'[t] = s /\ stack' \in [Task -> Stack]
  BY DEF Typed
<1>2. \A u \in Task \ {t} : stack'[u] = stack[u]
  BY DEF Typed
<1> QED BY <1>1, <1>2 DEF Moves

\* An empty stack has no commands and owes nothing.
LEMMA NoCommands ==
    <<>> \in Stack /\ CommandsOn(<<>>) = {} /\ OwedBy(<<>>) = {}
<1>1. <<>> \in Stack
  BY DEF Stack
<1>2. Range(<<>>) = {}
  BY DEF Range
<1> QED BY <1>1, <1>2 DEF CommandsOn, OwedBy

\* What the frames of a stack owe are cells.
LEMMA OwedAreCells ==
    ASSUME NEW s \in Stack
    PROVE  OwedBy(s) \subseteq Cell
<1>1. \A f \in Range(s) : f \in Frame
  BY ElementsOf DEF Stack
<1> QED BY <1>1 DEF OwedBy, Frame

\* A frame in its second invocation is a frame.
LEMMA SecondTime ==
    ASSUME NEW f \in Frame
    PROVE  [f EXCEPT !.at = 2] \in Frame
BY DEF Frame

\* The frames from the i-th on.
LEMMA RestOfStack ==
    ASSUME NEW s \in Stack, NEW i \in 1..Len(s)
    PROVE  /\ SubSeq(s, i, Len(s)) \in Stack
           /\ SubSeq(s, i, Len(s)) # <<>>
           /\ Tail(SubSeq(s, i, Len(s))) = SubSeq(s, i + 1, Len(s))
           /\ CommandsOn(SubSeq(s, i, Len(s))) \subseteq CommandsOn(s)
           /\ SubSeq(s, 1, i - 1) \in Stack
           /\ s[i] \in Frame
           /\ s[i].command \in CommandsOn(s)
<1> DEFINE r == SubSeq(s, i, Len(s))
<1>1. s \in Seq(Frame) /\ Len(s) \in Nat
  BY DEF Stack
<1>2. r \in Seq(Frame) /\ Len(r) = Len(s) + 1 - i /\ Len(r) # 0
  BY <1>1
<1>3. \A j \in 1..Len(r) : i + j - 1 \in 1..Len(s) /\ r[j] = s[i + j - 1]
  BY <1>1, <1>2
<1>4. Tail(r) = SubSeq(s, i + 1, Len(s)) /\ SubSeq(s, 1, i - 1) \in Seq(Frame)
  BY <1>1
<1> HIDE DEF r
<1>5. r # <<>>
  BY <1>2
<1>6. Range(r) = {r[j] : j \in 1..Len(r)} /\ Range(s) = {s[j] : j \in 1..Len(s)}
  BY <1>1, <1>2, ElementsOf
<1>7. Range(r) \subseteq Range(s)
  BY <1>3, <1>6
<1>8. s[i] \in Range(s) /\ s[i] \in Frame
  BY <1>1, <1>6
<1>9. CommandsOn(r) \subseteq CommandsOn(s) /\ s[i].command \in CommandsOn(s)
  BY <1>7, <1>8 DEF CommandsOn
<1> QED BY <1>2, <1>4, <1>5, <1>8, <1>9 DEF Stack, r

\* An exception leaves frames of commands that were called.
LEMMA FailMoves ==
    ASSUME Typed, NEW t \in Task, NEW called \in Stack, Fail(t, called)
    PROVE  Moves(t, CommandsOn(called))
<1>1. CASE Retries(called) = {}
  <2>1. /\ stack' = [stack EXCEPT ![t] = <<>>]
        /\ cache' = Excused(cache, OwedBy(called))
        /\ reading' = Excused(reading, OwedBy(called))
    BY <1>1 DEF Fail
  <2>2. cache' \in [Cell -> Value] /\ reading' \in [Cell -> Value]
    BY <2>1, Values DEF Typed
  <2> QED BY <2>1, <2>2, NoCommands, MovesTo
<1>2. CASE Retries(called) # {}
  <2>1. PICK i \in Retries(called) :
           LET f == called[i]
               owed == OwedBy(SubSeq(called, 1, i - 1))
           IN  stack' = [stack EXCEPT ![t] =
                   <<Invocation(Handling, f.command, f.invalidating, owed), [f EXCEPT !.at = 2]>>
                       \o SubSeq(called, i + 1, Len(called))]
    BY <1>2 DEF Fail
  <2>2. cache' = cache /\ reading' = reading
    BY <1>2 DEF Fail
  <2>3. i \in 1..Len(called)
    BY <2>1 DEF Retries, Stack
  <2> DEFINE s == SubSeq(called, i, Len(called))
             f == called[i]
             owed == OwedBy(SubSeq(called, 1, i - 1))
             h == Invocation(Handling, f.command, f.invalidating, owed)
             g == [f EXCEPT !.at = 2]
  <2>4. /\ s \in Stack /\ s # <<>> /\ Tail(s) = SubSeq(called, i + 1, Len(called))
        /\ CommandsOn(s) \subseteq CommandsOn(called)
        /\ SubSeq(called, 1, i - 1) \in Stack
        /\ f \in Frame
        /\ f.command \in CommandsOn(called)
    BY <2>3, RestOfStack
  <2>5. stack' = [stack EXCEPT ![t] = <<h, g>> \o Tail(s)]
    BY <2>1, <2>4
  <2>6. owed \subseteq Cell
    BY <2>4, OwedAreCells
  <2> HIDE DEF s, f, owed
  <2>7. h \in Frame /\ g \in Frame /\ h.command = f.command /\ g.command = f.command
    <3>1. g \in Frame
      BY <2>4, SecondTime
    <3>2. g.command = f.command /\ f.command \in DOMAIN Handler /\ f.invalidating \in BOOLEAN
      BY <2>4 DEF Frame
    <3>3. Handling \in 1..Handling
      BY HandlingIsANumber DEF Typed
    <3>4. h = [index |-> Handling, command |-> f.command, invalidating |-> f.invalidating,
               at |-> 1, owes |-> owed]
      BY DEF Invocation
    <3> HIDE DEF g, h
    <3>5. h \in Frame /\ h.command = f.command
      BY <2>6, <3>2, <3>3, <3>4 DEF Frame
    <3> QED BY <3>1, <3>2, <3>5
  <2> HIDE DEF h, g
  <2>8. /\ <<h, g>> \o Tail(s) \in Stack
        /\ CommandsOn(<<h, g>> \o Tail(s)) \subseteq CommandsOn(s) \union {h.command, g.command}
    BY <2>4, <2>7, CommandsReplacedByTwo
  <2>9. CommandsOn(<<h, g>> \o Tail(s)) \subseteq CommandsOn(called)
    BY <2>4, <2>7, <2>8
  <2> QED BY <2>2, <2>5, <2>8, <2>9, MovesTo DEF Typed
<1> QED BY <1>1, <1>2

\* A call puts frames of its command on top, or fails.
LEMMA CallMoves ==
    ASSUME Typed, NEW t \in Task, NEW k \in Command, NEW callers \in Stack, NEW b \in BOOLEAN,
           Call(t, k, callers, b)
    PROVE  Moves(t, CommandsOn(callers) \union ({k} \intersect DOMAIN Handler))
<1>1. CASE k \in DOMAIN Handler
  <2>1. /\ stack' = [stack EXCEPT ![t] = Pipeline(k, b) \o callers]
        /\ cache' = cache /\ reading' = reading
    BY <1>1 DEF Call
  <2>2. /\ Pipeline(k, b) \o callers \in Stack
        /\ CommandsOn(Pipeline(k, b) \o callers) \subseteq CommandsOn(callers) \union {k}
    BY <1>1, CommandsOfCall DEF Typed
  <2>3. {k} \intersect DOMAIN Handler = {k}
    BY <1>1
  <2> QED BY <2>1, <2>2, <2>3, MovesTo DEF Typed
<1>2. CASE k \notin DOMAIN Handler
  BY <1>2, FailMoves DEF Call, Moves
<1> QED BY <1>1, <1>2

\* What a handler has done by its next operation.
LEMMA AdvancedFrames ==
    ASSUME Typed, NEW t \in Task, stack[t] # <<>>, NEW owed \in SUBSET Cell
    PROVE  /\ Advanced(t, owed) \in Stack
           /\ CommandsOn(Advanced(t, owed)) \subseteq CommandsOn(stack[t])
           /\ Advanced(t, owed) # <<>>
<1> DEFINE f == [Top(t) EXCEPT !.at = @ + 1, !.owes = @ \union owed]
<1>1. stack[t] \in Stack /\ Top(t) \in Frame /\ Top(t).command \in CommandsOn(stack[t])
  BY CommandsOfTail DEF Top, Typed
<1>2. f \in Frame /\ f.command = Top(t).command
  <2>1. Top(t).at + 1 \in Nat \ {0} /\ Top(t).owes \union owed \in SUBSET Cell
    BY <1>1 DEF Frame
  <2> QED BY <1>1, <2>1 DEF Frame
<1>3. Advanced(t, owed) = <<f>> \o Tail(stack[t])
  BY DEF Advanced
<1> HIDE DEF f
<1>4. <<f>> \o Tail(stack[t]) # <<>>
  BY <1>1, <1>2 DEF Stack
<1> QED BY <1>1, <1>2, <1>3, <1>4, CommandsReplaced

\* A return leaves the callers, the innermost of them with what was owed.
LEMMA ReturnMoves ==
    ASSUME Typed, NEW t \in Task, stack[t] # <<>>, NEW owed \in SUBSET Cell, Return(t, owed)
    PROVE  Moves(t, CommandsOn(stack[t]))
<1> DEFINE callers == Tail(stack[t])
<1>1. callers \in Stack /\ CommandsOn(callers) \subseteq CommandsOn(stack[t])
  BY CommandsOfTail DEF Typed
<1>2. CASE callers = <<>>
  <2>1. /\ stack' = [stack EXCEPT ![t] = <<>>]
        /\ cache' = Excused(cache, owed)
        /\ reading' = Excused(reading, owed)
    BY <1>2 DEF Return
  <2>2. cache' \in [Cell -> Value] /\ reading' \in [Cell -> Value]
    BY <2>1, Values DEF Typed
  <2> QED BY <2>1, <2>2, NoCommands, MovesTo
<1>3. CASE callers # <<>>
  <2> DEFINE f == [Head(callers) EXCEPT !.owes = @ \union owed]
  <2>1. /\ stack' = [stack EXCEPT ![t] = <<f>> \o Tail(callers)]
        /\ cache' = cache /\ reading' = reading
    BY <1>3 DEF Return
  <2>2. Head(callers) \in Frame /\ Head(callers).command \in CommandsOn(callers)
    BY <1>1, <1>3, CommandsOfTail
  <2>3. f \in Frame /\ f.command = Head(callers).command
    BY <2>2 DEF Frame
  <2> HIDE DEF f, callers
  <2>4. /\ <<f>> \o Tail(callers) \in Stack
        /\ CommandsOn(<<f>> \o Tail(callers)) \subseteq CommandsOn(callers) \union {f.command}
    BY <1>1, <1>3, <2>3, CommandsReplaced
  <2>5. CommandsOn(<<f>> \o Tail(callers)) \subseteq CommandsOn(stack[t])
    BY <1>1, <2>2, <2>3, <2>4
  <2> QED BY <2>1, <2>4, <2>5, MovesTo DEF Typed
<1> QED BY <1>2, <1>3

-----------------------------------------------------------------------------
(***************************************************************************)
(* Types and sessions, step by step.                                       *)
(***************************************************************************)

\* What Commands needs of its types to go on.
LEMMA TypeAgain ==
    ASSUME TypeOK, filters' = filters, NEW t \in Task, NEW K, Moves(t, K),
           items' \in [Task -> Session], ran' \in [Task -> SUBSET Command],
           failures' \in 0..MaxFailure
    PROVE  TypeOK'
BY SameFrames DEF TypeOK, Moves, Stack

\* The part of SessionsStayInTheirCall that is about one task.
SessionsOf(t) ==
    stack[t] # <<>> =>
        /\ items[t] # NoSession => \E k \in ran[t] : items[t] = SessionOf[k]
        /\ "session" \in Range(filters) /\ (\E k \in CommandsOn(stack[t]) : SessionOf[k] # NoSession)
              => items[t] # NoSession

SessionInv == TypeOK /\ \A t \in Task : SessionsOf(t)

\* For all tasks together, it is SessionsStayInTheirCall.
LEMMA SessionInvIsEnough == SessionInv => SessionsStayInTheirCall
BY DEF SessionInv, SessionsOf, SessionsStayInTheirCall, CommandsOn

\* A step that calls nothing: the frames of t are of commands that were there, and the
\* bag stays as it is.
LEMMA NoCall ==
    ASSUME SessionInv, NEW t \in Task, stack[t] # <<>>, Moves(t, CommandsOn(stack[t])),
           UNCHANGED <<filters, items, ran>>, failures' \in 0..MaxFailure
    PROVE  SessionInv'
<1>1. TypeOK'
  BY TypeAgain DEF SessionInv, TypeOK
<1>2. ASSUME NEW u \in Task
      PROVE  SessionsOf(u)'
  <2>1. CASE u = t
    <3>1. CommandsOn(stack'[t]) \subseteq CommandsOn(stack[t])
      BY DEF Moves
    <3>2. SessionsOf(t)
      BY DEF SessionInv
    <3>3. items' = items /\ ran' = ran /\ filters' = filters
      OBVIOUS
    <3> QED BY <2>1, <3>1, <3>2, <3>3 DEF SessionsOf, CommandsOn
  <2>2. CASE u # t
    <3>1. stack'[u] = stack[u] /\ SessionsOf(u)
      BY <2>2 DEF Moves, SessionInv
    <3> QED BY <3>1 DEF SessionsOf, CommandsOn
  <2> QED BY <2>1, <2>2
<1> QED BY <1>1, <1>2 DEF SessionInv

\* The bag that a call finds or leaves is one of sessions.
LEMMA BagsOfSessions ==
    ASSUME TypeOK, NEW t \in Task, NEW k \in Command, NEW outermost \in BOOLEAN
    PROVE  /\ WithSession(k, Items(t, outermost)) \in Session
           /\ SessionOf[k] \in Session
BY DEF WithSession, Items, Session, TypeOK

\* A call, by nobody or by a command of t: the bag holds its session or one of the calls
\* around it.
LEMMA CallKeepsSessions ==
    ASSUME SessionInv, NEW t \in Task, NEW k \in Command, NEW callers \in Stack,
           NEW b \in BOOLEAN, Call(t, k, callers, b),
           CommandsOn(callers) \subseteq CommandsOn(stack[t]),
           callers = <<>> <=> stack[t] = <<>>,
           UNCHANGED <<filters, failures>>
    PROVE  SessionInv'
<1>1. Moves(t, CommandsOn(callers) \union ({k} \intersect DOMAIN Handler))
  BY CallMoves, TypedByTypeOK DEF SessionInv
<1>2. /\ ran' = [ran EXCEPT ![t] = IF callers = <<>> THEN {k} ELSE @ \union {k}]
      /\ k \in DOMAIN Handler => items' = [items EXCEPT ![t] = WithSession(k, Items(t, callers = <<>>))]
      /\ k \notin DOMAIN Handler => items' = items
  BY DEF Call
<1>3. ran' \in [Task -> SUBSET Command] /\ items' \in [Task -> Session]
  <2>1. (callers = <<>>) \in BOOLEAN
    OBVIOUS
  <2>2. WithSession(k, Items(t, callers = <<>>)) \in Session
    BY <2>1, BagsOfSessions DEF SessionInv
  <2> QED BY <1>2, <2>2 DEF SessionInv, TypeOK
<1>4. TypeOK'
  BY <1>1, <1>3, TypeAgain DEF SessionInv, TypeOK
<1>5. ASSUME NEW u \in Task, u # t
      PROVE  SessionsOf(u)'
  <2>1. stack'[u] = stack[u] /\ SessionsOf(u)
    BY <1>1, <1>5 DEF Moves, SessionInv
  <2>2. items'[u] = items[u] /\ ran'[u] = ran[u]
    BY <1>2, <1>5 DEF SessionInv, TypeOK
  <2> QED BY <2>1, <2>2 DEF SessionsOf, CommandsOn
<1>6. SessionsOf(t)'
  <2>1. /\ k \in ran'[t]
        /\ callers # <<>> => ran[t] \subseteq ran'[t]
    BY <1>2 DEF SessionInv, TypeOK
  <2>2. SessionsOf(t)
    BY DEF SessionInv
  <2>3. CommandsOn(stack'[t]) \subseteq CommandsOn(stack[t]) \union ({k} \intersect DOMAIN Handler)
    BY <1>1 DEF Moves
  <2>4. CASE k \in DOMAIN Handler
    <3>1. items'[t] = WithSession(k, Items(t, callers = <<>>))
      BY <1>2, <2>4 DEF SessionInv, TypeOK
    <3>2. CASE "session" \in Range(filters) /\ SessionOf[k] # NoSession
      <4>1. items'[t] = SessionOf[k]
        BY <3>1, <3>2 DEF WithSession
      <4> QED BY <2>1, <3>2, <4>1 DEF SessionsOf
    <3>3. CASE ~("session" \in Range(filters) /\ SessionOf[k] # NoSession)
      <4>1. items'[t] = IF callers = <<>> THEN NoSession ELSE items[t]
        BY <3>1, <3>3 DEF WithSession, Items
      <4>2. CASE callers = <<>>
        <5>1. CommandsOn(stack'[t]) \subseteq {k}
          BY <2>3, <4>2, NoCommands
        <5> QED BY <3>3, <4>1, <4>2, <5>1 DEF SessionsOf, CommandsOn
      <4>3. CASE callers # <<>>
        <5>1. items'[t] = items[t]
          BY <4>1, <4>3
        <5>2. items[t] # NoSession => \E j \in ran'[t] : items[t] = SessionOf[j]
          BY <2>1, <2>2, <4>3 DEF SessionsOf
        <5>3. ASSUME "session" \in Range(filters),
                     NEW j \in CommandsOn(stack'[t]), SessionOf[j] # NoSession
              PROVE  items[t] # NoSession
          <6>1. j \in CommandsOn(stack[t])
            BY <2>3, <3>3, <5>3
          <6> QED BY <2>2, <4>3, <5>3, <6>1 DEF SessionsOf
        <5> QED BY <5>1, <5>2, <5>3 DEF SessionsOf, CommandsOn
      <4> QED BY <4>2, <4>3
    <3> QED BY <3>2, <3>3
  <2>5. CASE k \notin DOMAIN Handler
    <3>1. items'[t] = items[t] /\ CommandsOn(stack'[t]) \subseteq CommandsOn(stack[t])
      BY <1>2, <2>3, <2>5
    <3>2. CASE callers = <<>>
      <4>1. Retries(callers) = {}
        BY <3>2 DEF Retries
      <4>2. stack'[t] = <<>>
        BY <2>5, <4>1 DEF Call, Fail, SessionInv, TypeOK
      <4> QED BY <4>2 DEF SessionsOf
    <3>3. CASE callers # <<>>
      <4>1. items[t] # NoSession => \E j \in ran'[t] : items[t] = SessionOf[j]
        BY <2>1, <2>2, <3>3 DEF SessionsOf
      <4> QED BY <2>2, <3>1, <3>3, <4>1 DEF SessionsOf, CommandsOn
    <3> QED BY <3>2, <3>3
  <2> QED BY <2>4, <2>5
<1> QED BY <1>4, <1>5, <1>6 DEF SessionInv

\* What readers do touches no stack, nor do signIn() and signOut().
LEMMA NoStackKeepsSessions ==
    ASSUME SessionInv, UNCHANGED <<filters, stack, items, ran, failures>>,
           cache' \in [Cell -> Value], reading' \in [Cell -> Value]
    PROVE  SessionInv'
<1>1. TypeOK'
  BY SameFrames DEF SessionInv, TypeOK
<1>2. \A t \in Task : SessionsOf(t)'
  BY DEF SessionInv, SessionsOf, CommandsOn
<1> QED BY <1>1, <1>2 DEF SessionInv

\* A reader that computes a cell, from its start to its end.
LEMMA ReadersKeepSessions ==
    ASSUME SessionInv, NEW c \in Cell, Compute(c) \/ Publish(c)
    PROVE  SessionInv'
<1>1. cache \in [Cell -> Value] /\ reading \in [Cell -> Value]
  BY DEF SessionInv, TypeOK
<1>2. CASE Compute(c)
  <2>1. reading' \in [Cell -> Value] /\ cache' \in [Cell -> Value]
    BY <1>1, <1>2 DEF Compute, Value
  <2> QED BY <1>2, <2>1, NoStackKeepsSessions DEF Compute
<1>3. CASE Publish(c)
  <2>1. reading' \in [Cell -> Value] /\ cache' \in [Cell -> Value]
    BY <1>1, <1>3 DEF Publish, Value
  <2> QED BY <1>3, <2>1, NoStackKeepsSessions DEF Publish
<1> QED BY <1>2, <1>3

\* A handler is at one of its operations.
LEMMA OperationOfTop ==
    ASSUME Typed, NEW t \in Task, Operate(t)
    PROVE  /\ stack[t] # <<>> /\ Top(t) \in Frame
           /\ Operations(Top(t)) \in Seq(Operation)
           /\ Top(t).at \in 1..Len(Operations(Top(t)))
           /\ Operations(Top(t))[Top(t).at] \in Operation
<1>1. stack[t] # <<>> /\ Top(t) \in Frame
  BY CommandsOfTail DEF Operate, Top, Typed
<1>2. Operations(Top(t)) \in Seq(Operation)
  BY <1>1, HandlerAssumption DEF Operations, Frame
<1>3. Top(t).at \in 1..Len(Operations(Top(t)))
  BY <1>1, <1>2 DEF Operate, Frame
<1> QED BY <1>1, <1>2, <1>3

\* A handler that changes a cell, tells of one, or calls another command.
LEMMA OperateKeepsSessions ==
    ASSUME SessionInv, NEW t \in Task, Operate(t)
    PROVE  SessionInv'
<1> DEFINE op == Operations(Top(t))[Top(t).at]
<1>1. Typed /\ filters' = filters /\ failures' = failures /\ failures' \in 0..MaxFailure
  BY TypedByTypeOK DEF SessionInv, Operate, TypeOK
<1>2. stack[t] # <<>> /\ Top(t) \in Frame /\ op \in Operation
  BY <1>1, OperationOfTop
<1>3. CASE op.do = "write"
  <2>1. op.what \in Cell
    BY <1>2, <1>3 DEF Operation
  <2>2. /\ cache' = Changed(cache, {op.what})
        /\ reading' = Changed(reading, {op.what})
        /\ stack' = [stack EXCEPT ![t] = Advanced(t, {op.what})]
        /\ items' = items /\ ran' = ran
    BY <1>3 DEF Operate
  <2>3. cache' \in [Cell -> Value] /\ reading' \in [Cell -> Value]
    BY <1>1, <2>2, Values DEF Typed
  <2>4. {op.what} \in SUBSET Cell
    BY <2>1
  <2> HIDE DEF op
  <2>5. Moves(t, CommandsOn(stack[t]))
    BY <1>1, <1>2, <2>2, <2>3, <2>4, AdvancedFrames, MovesTo
  <2> QED BY <1>1, <1>2, <2>2, <2>5, NoCall
<1>4. CASE op.do = "invalidate"
  <2>1. /\ cache' = Dropped(cache, {op.what})
        /\ reading' = Excused(reading, {op.what})
        /\ stack' = [stack EXCEPT ![t] = Advanced(t, {})]
        /\ items' = items /\ ran' = ran
    BY <1>4 DEF Operate, Invalidate
  <2>2. cache' \in [Cell -> Value] /\ reading' \in [Cell -> Value]
    BY <1>1, <2>1, Values DEF Typed
  <2> HIDE DEF op
  <2>3. Moves(t, CommandsOn(stack[t]))
    BY <1>1, <1>2, <2>1, <2>2, AdvancedFrames, MovesTo
  <2> QED BY <1>1, <1>2, <2>1, <2>3, NoCall
<1>5. CASE op.do = "call"
  <2>1. op.what \in Command
    BY <1>2, <1>5 DEF Operation
  <2>2. Call(t, op.what, Advanced(t, {}), Top(t).invalidating)
    BY <1>5 DEF Operate
  <2>3. Top(t).invalidating \in BOOLEAN
    BY <1>2 DEF Frame
  <2> HIDE DEF op
  <2>4. /\ Advanced(t, {}) \in Stack /\ Advanced(t, {}) # <<>>
        /\ CommandsOn(Advanced(t, {})) \subseteq CommandsOn(stack[t])
    BY <1>1, <1>2, AdvancedFrames
  <2> QED BY <1>1, <1>2, <2>1, <2>2, <2>3, <2>4, CallKeepsSessions
<1>6. op.do \in {"write", "invalidate", "call"}
  BY <1>2 DEF Operation
<1> QED BY <1>3, <1>4, <1>5, <1>6

\* What ends or goes on without a call.
LEMMA OthersKeepSessions ==
    ASSUME SessionInv, NEW t \in Task,
           \/ HandlerThrows(t) \/ HandlerReturns(t)
           \/ FilterReturns(t) \/ InvalidationMiddleware(t)
    PROVE  SessionInv'
<1>1. Typed /\ failures \in 0..MaxFailure
  BY TypedByTypeOK DEF SessionInv, TypeOK
<1>2. stack[t] # <<>> /\ UNCHANGED <<filters, items, ran>>
  BY DEF HandlerThrows, HandlerReturns, FilterReturns, InvalidationMiddleware
<1>3. stack[t] \in Stack
  BY <1>1 DEF Typed
<1>4. Top(t) \in Frame /\ Top(t).command \in CommandsOn(stack[t])
  BY <1>2, <1>3, CommandsOfTail DEF Top
<1>5. CASE HandlerThrows(t)
  <2>1. Moves(t, CommandsOn(stack[t]))
    BY <1>1, <1>3, <1>5, FailMoves DEF HandlerThrows
  <2>2. failures' \in 0..MaxFailure
    BY <1>1, <1>5, BoundAssumption DEF HandlerThrows
  <2> QED BY <1>2, <2>1, <2>2, NoCall
<1>6. CASE HandlerReturns(t) \/ FilterReturns(t)
  <2>1. Return(t, Top(t).owes) /\ failures' = failures
    BY <1>6 DEF HandlerReturns, FilterReturns
  <2>2. Top(t).owes \in SUBSET Cell
    BY <1>4 DEF Frame
  <2> QED BY <1>1, <1>2, <2>1, <2>2, ReturnMoves, NoCall
<1>7. CASE InvalidationMiddleware(t) /\ Top(t).at # 1
  <2>1. Return(t, {}) /\ failures' = failures
    BY <1>7 DEF InvalidationMiddleware
  <2> QED BY <1>1, <1>2, <2>1, ReturnMoves, NoCall
<1>8. CASE InvalidationMiddleware(t) /\ Top(t).at = 1
  <2> DEFINE f == SecondPass(Top(t))
             g == [Top(t) EXCEPT !.at = 2]
  <2>1. /\ stack' = [stack EXCEPT ![t] = <<f, g>> \o Tail(stack[t])]
        /\ cache' = cache /\ reading' = reading /\ failures' = failures
    BY <1>1, <1>8 DEF InvalidationMiddleware, Typed
  <2>2. f \in Frame /\ g \in Frame /\ f.command = Top(t).command /\ g.command = Top(t).command
    <3>1. g \in Frame /\ g.command = Top(t).command
      BY <1>4 DEF Frame
    <3>2. Handling \in 1..Handling
      BY <1>1, HandlingIsANumber DEF Typed
    <3>3. Top(t).command \in DOMAIN Handler
      BY <1>4 DEF Frame
    <3>4. f = [index |-> Handling, command |-> Top(t).command, invalidating |-> TRUE,
               at |-> 1, owes |-> {}]
      BY DEF SecondPass, Invocation
    <3> QED BY <3>1, <3>2, <3>3, <3>4 DEF Frame
  <2> HIDE DEF f, g
  <2>3. /\ <<f, g>> \o Tail(stack[t]) \in Stack
        /\ CommandsOn(<<f, g>> \o Tail(stack[t])) \subseteq CommandsOn(stack[t])
    BY <1>2, <1>3, <1>4, <2>2, CommandsReplacedByTwo
  <2>4. Moves(t, CommandsOn(stack[t]))
    BY <1>1, <2>1, <2>3, MovesTo DEF Typed
  <2> QED BY <1>1, <1>2, <2>1, <2>4, NoCall
<1> QED BY <1>5, <1>6, <1>7, <1>8

\* Every step keeps the types and the sessions.
LEMMA NextKeepsSessions ==
    ASSUME SessionInv, [Next]_vars
    PROVE  SessionInv'
<1>1. ASSUME NEW c \in Cell, Compute(c) \/ Publish(c)
      PROVE  SessionInv'
  BY <1>1, ReadersKeepSessions
<1>2. CASE SignIn
  <2>1. cache' \in [Cell -> Value] /\ reading' \in [Cell -> Value]
    BY <1>2, Values DEF SignIn, SessionInv, TypeOK
  <2> QED BY <1>2, <2>1, NoStackKeepsSessions DEF SignIn
<1>3. ASSUME NEW t \in Task, NEW k \in Command, Start(t, k)
      PROVE  SessionInv'
  <2>1. <<>> \in Stack /\ CommandsOn(<<>>) = {}
    BY NoCommands
  <2> QED BY <1>3, <2>1, CallKeepsSessions DEF Start
<1>4. ASSUME NEW t \in Task, Operate(t)
      PROVE  SessionInv'
  BY <1>4, OperateKeepsSessions
<1>5. ASSUME NEW t \in Task,
             \/ HandlerThrows(t) \/ HandlerReturns(t)
             \/ FilterReturns(t) \/ InvalidationMiddleware(t)
      PROVE  SessionInv'
  BY <1>5, OthersKeepSessions
<1>6. CASE UNCHANGED vars
  <2>1. cache' \in [Cell -> Value] /\ reading' \in [Cell -> Value]
    BY <1>6 DEF SessionInv, TypeOK, vars
  <2> QED BY <1>6, <2>1, NoStackKeepsSessions DEF vars
<1> QED BY <1>1, <1>2, <1>3, <1>4, <1>5, <1>6 DEF Next

\* At the start nothing is called.
LEMMA InitSessions == Init => SessionInv
<1> SUFFICES ASSUME Init PROVE SessionInv
  OBVIOUS
<1>1. TypeOK
  BY NoCommands, BoundAssumption DEF Init, TypeOK, Value, Session, Stack
<1>2. \A t \in Task : SessionsOf(t)
  BY DEF Init, SessionsOf
<1> QED BY <1>1, <1>2 DEF SessionInv

\* The variables keep their types, under every choice of filters.
THEOREM TypeTheorem == Spec => []TypeOK
<1>1. Init => SessionInv
  BY InitSessions
<1>2. SessionInv /\ [Next]_vars => SessionInv'
  BY NextKeepsSessions
<1>3. SessionInv => TypeOK
  BY DEF SessionInv
<1> QED BY <1>1, <1>2, <1>3, PTL DEF Spec

\* A command finds in the bag of its context only sessions of the call it belongs to,
\* whatever its handlers call and whichever filters try again.
THEOREM SessionsTheorem == Spec => []SessionsStayInTheirCall
<1>1. Init => SessionInv
  BY InitSessions
<1>2. SessionInv /\ [Next]_vars => SessionInv'
  BY NextKeepsSessions
<1> QED BY <1>1, <1>2, SessionInvIsEnough, PTL DEF Spec

-----------------------------------------------------------------------------
(***************************************************************************)
(* What is owed.  A frame is linked to the one below it as a filter to     *)
(* what it called with next(), as the second pass to the middleware, or as *)
(* a call to the handler that made it.  Where the middleware is, nothing   *)
(* is owed outside of it, and inside of it only what the command itself    *)
(* changes, and so declares; in an invalidation scope nothing is owed.     *)
(***************************************************************************)

\* No filter calls next() twice; those of the repository do not.
NoRetry == \A p \in Pipelines : "retry" \notin Range(p)

Writes(k) == {c \in Cell : [do |-> "write", what |-> c] \in Range(Handler[k].change)}

Passes(f, g) ==
    /\ f.index = g.index + 1
    /\ g.at = 1
    /\ f.command = g.command
    /\ f.invalidating = g.invalidating

Declares(f, g) ==
    /\ f.index = Handling
    /\ In(g) = "invalidation"
    /\ g.at # 1
    /\ f.command = g.command
    /\ f.invalidating

Nested(f, g) ==
    /\ f.index = 1
    /\ g.index = Handling
    /\ g.invalidating => f.invalidating

Linked(f, g) == Passes(f, g) \/ Declares(f, g) \/ Nested(f, g)

\* The middleware is further in than place i.
Covered(i) == \E q \in 1..Len(filters) : q > i /\ filters[q] = "invalidation"

Owing(f) ==
    /\ "invalidation" \in Range(filters) => f.owes \subseteq Writes(f.command)
    /\ f.invalidating => f.owes = {}
    /\ Covered(f.index) => f.owes = {}

Sound(s) ==
    /\ \A i \in 1..Len(s) : Owing(s[i])
    /\ \A i \in 2..Len(s) : Linked(s[i - 1], s[i])

\* The middleware in its second pass no longer owes what that has declared by now.
InSecondPass(f) == In(f) = "invalidation" /\ f.at # 1

DeclaredBefore(k, at, c) ==
    \E m \in 1..Len(Handler[k].declare) :
        m < at /\ Handler[k].declare[m] = [do |-> "invalidate", what |-> c]

Debt(s, i) ==
    {c \in s[i].owes :
        InSecondPass(s[i]) => i # 1 /\ ~DeclaredBefore(s[i].command, s[i - 1].at, c)}

InDebt(s, c) == \E i \in 1..Len(s) : c \in Debt(s, i)

\* Every stale value is owed by somebody.
Stale(c) == cache[c] = "stale" \/ reading[c] = "stale"

DebtInv ==
    /\ TypeOK
    /\ \A t \in Task : Sound(stack[t])
    /\ \A c \in Cell : Stale(c) => \E t \in Task : InDebt(stack[t], c)

\* What is left of a debt is owed.
LEMMA DebtIsOwed ==
    ASSUME NEW s \in Stack, NEW c, InDebt(s, c)
    PROVE  c \in OwedBy(s)
<1>1. PICK i \in 1..Len(s) : c \in s[i].owes
  BY DEF InDebt, Debt
<1>2. s[i] \in Range(s)
  BY ElementsOf DEF Stack
<1> QED BY <1>1, <1>2 DEF OwedBy

\* Stale values that are owed are those of a command that has yet to declare them.
LEMMA DebtInvIsEnough == DebtInv => StaleOnlyUntilDeclared
<1> SUFFICES ASSUME DebtInv, NEW c \in Cell, cache[c] = "stale"
             PROVE  \E t \in Task : c \in OwedBy(stack[t])
  BY DEF StaleOnlyUntilDeclared
<1>1. PICK t \in Task : InDebt(stack[t], c)
  BY DEF DebtInv, Stale
<1>2. stack[t] \in Stack
  BY DEF DebtInv, TypeOK, Stack
<1> QED BY <1>1, <1>2, DebtIsOwed

\* What a stack owes depends on the filters, which stay.
LEMMA SameDebts ==
    ASSUME filters' = filters
    PROVE  /\ \A s : Sound(s)' = Sound(s)
           /\ \A s, c : InDebt(s, c)' = InDebt(s, c)
<1>1. \A f : Owing(f)' = Owing(f)
  BY DEF Owing, Covered
<1>2. \A f, g : Linked(f, g)' = Linked(f, g)
  BY DEF Linked, Passes, Declares, Nested, In, Handling
<1>3. \A s : Sound(s)' = Sound(s)
  BY <1>1, <1>2 DEF Sound
<1>4. \A s, i : Debt(s, i)' = Debt(s, i)
  BY DEF Debt, InSecondPass, In, Handling, DeclaredBefore
<1>5. \A s, c : InDebt(s, c)' = InDebt(s, c)
  BY <1>4 DEF InDebt
<1> QED BY <1>3, <1>5

\* A step of t that excuses, clears or carries on what was stale.
LEMMA DebtsMove ==
    ASSUME DebtInv, TypeOK', filters' = filters, NEW t \in Task,
           \A u \in Task \ {t} : stack'[u] = stack[u],
           NEW r, r = stack'[t], Sound(r),
           \A c \in Cell : Stale(c)' =>
               \/ Stale(c) /\ (InDebt(stack[t], c) => InDebt(r, c))
               \/ InDebt(r, c)
    PROVE  DebtInv'
<1>1. /\ \A s : Sound(s)' = Sound(s)
      /\ \A s, c : InDebt(s, c)' = InDebt(s, c)
  BY SameDebts
<1>2. ASSUME NEW u \in Task
      PROVE  Sound(stack[u])'
  <2>1. Sound(stack'[u])
    BY DEF DebtInv
  <2> QED BY <1>1, <2>1
<1>3. ASSUME NEW c \in Cell, Stale(c)'
      PROVE  \E u \in Task : InDebt(stack[u], c)'
  <2>1. CASE InDebt(r, c)
    <3>1. InDebt(stack'[t], c)
      BY <2>1
    <3>2. InDebt(stack[t], c)'
      BY <1>1, <3>1
    <3> QED BY <3>2
  <2>2. CASE ~InDebt(r, c)
    <3>1. Stale(c) /\ ~InDebt(stack[t], c)
      BY <1>3, <2>2
    <3>2. PICK u \in Task : InDebt(stack[u], c)
      BY <3>1 DEF DebtInv
    <3>3. stack'[u] = stack[u]
      BY <3>1, <3>2
    <3>4. InDebt(stack'[u], c)
      BY <3>2, <3>3
    <3>5. InDebt(stack[u], c)'
      BY <1>1, <3>4
    <3> QED BY <3>5
  <2> QED BY <2>1, <2>2
<1> QED BY <1>2, <1>3 DEF DebtInv

-----------------------------------------------------------------------------
(***************************************************************************)
(* What a step does to the debts of one stack.                             *)
(***************************************************************************)

\* A handler is no filter, and no middleware is further in.
LEMMA HandlerIsLast ==
    ASSUME filters \in Pipelines, NEW f \in Frame
    PROVE  /\ f.index = Handling => In(f) = "handler" /\ ~Covered(f.index)
           /\ In(f) = "handler" => f.index = Handling
           /\ In(f) = "invalidation" =>
                 /\ "invalidation" \in Range(filters)
                 /\ f.index \in 1..Len(filters)
                 /\ filters[f.index] = "invalidation"
           /\ f.index \in 1..Handling
<1>1. /\ Handling = Len(filters) + 1 /\ Len(filters) \in Nat
      /\ filters \in Seq({"session", "invalidation", "retry"})
  BY HandlingIsANumber
<1>2. f.index \in 1..Handling
  BY DEF Frame
<1>3. f.index = Handling => In(f) = "handler" /\ ~Covered(f.index)
  BY <1>1, <1>2 DEF In, Covered
<1>4. f.index # Handling => f.index \in 1..Len(filters) /\ In(f) = filters[f.index]
  BY <1>1, <1>2 DEF In
<1>5. \A i \in 1..Len(filters) :
         filters[i] \in {"session", "invalidation", "retry"} /\ filters[i] \in Range(filters)
  BY <1>1, ElementsOf
<1> QED BY <1>2, <1>3, <1>4, <1>5

\* Below the second pass of a command is its middleware.
LEMMA BelowSecondPass ==
    ASSUME filters \in Pipelines, NEW f \in Frame, NEW g \in Frame,
           Linked(f, g), InSecondPass(g)
    PROVE  Declares(f, g) /\ f.index = Handling /\ f.invalidating /\ f.command = g.command
BY HandlerIsLast DEF Linked, Passes, Declares, Nested, InSecondPass

\* The frames once the handler on top goes on, having changed the cells `owed`.
Stepped(s, owed) ==
    <<[Head(s) EXCEPT !.at = @ + 1, !.owes = @ \union owed]>> \o Tail(s)

\* It owes these, and what it owed but for a cell it has just declared.
LEMMA AdvanceKeepsDebts ==
    ASSUME filters \in Pipelines, NEW s \in Stack, s # <<>>, Sound(s),
           In(Head(s)) = "handler",
           NEW owed \in SUBSET Writes(Head(s).command),
           Head(s).invalidating => owed = {},
           NEW r, r = Stepped(s, owed)
    PROVE  /\ Sound(r)
           /\ \A c \in owed : InDebt(r, c)
           /\ \A c : InDebt(s, c) =>
                 \/ InDebt(r, c)
                 \/ /\ Head(s).invalidating
                    /\ Head(s).at \in 1..Len(Handler[Head(s).command].declare)
                    /\ Handler[Head(s).command].declare[Head(s).at]
                          = [do |-> "invalidate", what |-> c]
<1> DEFINE f == Head(s)
           g == [Head(s) EXCEPT !.at = @ + 1, !.owes = @ \union owed]
<1>1. /\ f = s[1] /\ Len(s) \in Nat \ {0} /\ s \in Seq(Frame)
      /\ \A i \in 1..Len(s) : s[i] \in Frame
  BY TailOf DEF Stack
<1>2. f \in Frame
  BY <1>1
<1>3. /\ g.index = f.index /\ g.command = f.command /\ g.invalidating = f.invalidating
      /\ g.at = f.at + 1 /\ g.owes = f.owes \union owed /\ f.at \in Nat \ {0}
      /\ f.owes \in SUBSET Cell
  BY <1>2 DEF Frame
<1>4. g \in Frame
  <2>1. owed \in SUBSET Cell
    BY DEF Writes
  <2>2. f.at + 1 \in Nat \ {0} /\ f.owes \union owed \in SUBSET Cell
    BY <1>3, <2>1
  <2>3. g = [f EXCEPT !.at = f.at + 1, !.owes = f.owes \union owed]
    OBVIOUS
  <2> HIDE DEF f
  <2> QED BY <1>2, <2>2, <2>3 DEF Frame
<1>5. r = <<g>> \o Tail(s) /\ f.index = Handling /\ In(f) = "handler" /\ ~Covered(f.index)
  BY <1>2, HandlerIsLast DEF Stepped
<1> HIDE DEF f, g
<1>6. /\ Len(r) = Len(s) /\ r[1] = g
      /\ \A i \in 2..Len(s) : r[i] = s[i]
  BY <1>1, <1>4, <1>5
<1>7. Sound(r)
  <2>1. Owing(g)
    <3>1. Owing(f)
      BY <1>1 DEF Sound
    <3>2. owed \subseteq Writes(f.command) /\ (f.invalidating => owed = {})
      BY DEF f
    <3> QED BY <1>3, <1>5, <3>1, <3>2 DEF Owing
  <2>2. \A i \in 1..Len(r) : Owing(r[i])
    BY <1>1, <1>6, <2>1 DEF Sound
  <2>3. ASSUME NEW i \in 2..Len(r)
        PROVE  Linked(r[i - 1], r[i])
    <3>1. Linked(s[i - 1], s[i]) /\ r[i] = s[i]
      BY <1>6, <2>3 DEF Sound
    <3>2. CASE i = 2
      <4>1. s[i - 1] = f /\ r[i - 1] = g
        BY <1>1, <1>6, <3>2
      <4> QED BY <1>3, <3>1, <4>1 DEF Linked, Passes, Declares, Nested
    <3>3. CASE i # 2
      <4>1. r[i - 1] = s[i - 1]
        BY <1>1, <1>6, <2>3, <3>3
      <4> QED BY <3>1, <4>1
    <3> QED BY <3>2, <3>3
  <2> QED BY <2>2, <2>3 DEF Sound
<1>8. ~InSecondPass(f) /\ ~InSecondPass(g)
  BY <1>3, <1>4, <1>5, HandlerIsLast DEF InSecondPass
<1>9. Debt(r, 1) = f.owes \union owed
  BY <1>3, <1>6, <1>8 DEF Debt
<1>10. 1 \in 1..Len(r)
  BY <1>1, <1>6
<1>11. \A c \in owed : InDebt(r, c)
  BY <1>9, <1>10 DEF InDebt
<1>12. ASSUME NEW c, InDebt(s, c), ~InDebt(r, c)
       PROVE  /\ f.invalidating
              /\ f.at \in 1..Len(Handler[f.command].declare)
              /\ Handler[f.command].declare[f.at] = [do |-> "invalidate", what |-> c]
  <2>1. PICK i \in 1..Len(s) : c \in Debt(s, i)
    BY <1>12 DEF InDebt
  <2>2. c \notin Debt(r, i)
    BY <1>6, <1>12, <2>1 DEF InDebt
  <2>3. i # 1
    <3>1. i = 1 => c \in f.owes
      BY <1>1, <2>1 DEF Debt
    <3> QED BY <1>9, <2>2, <3>1
  <2>4. r[i] = s[i] /\ InSecondPass(s[i])
    BY <1>6, <2>1, <2>2, <2>3 DEF Debt
  <2>5. i = 2
    <3>1. i # 2 => r[i - 1] = s[i - 1]
      BY <1>1, <1>6, <2>3
    <3> QED BY <2>1, <2>2, <2>4, <3>1 DEF Debt
  <2>6. s[i - 1] = f /\ r[i - 1] = g
    BY <1>1, <1>6, <2>5
  <2>7. f.invalidating /\ f.command = s[i].command
    <3>1. Linked(f, s[i])
      BY <2>3, <2>6 DEF Sound
    <3> QED BY <1>1, <1>2, <2>4, <3>1, BelowSecondPass
  <2>8. ~DeclaredBefore(f.command, f.at, c)
    BY <2>1, <2>4, <2>6, <2>7 DEF Debt
  <2>9. DeclaredBefore(f.command, f.at + 1, c)
    BY <1>3, <2>1, <2>2, <2>3, <2>4, <2>6, <2>7 DEF Debt
  <2>10. PICK m \in 1..Len(Handler[f.command].declare) :
            /\ m < f.at + 1
            /\ Handler[f.command].declare[m] = [do |-> "invalidate", what |-> c]
    BY <2>9 DEF DeclaredBefore
  <2>11. ~(m < f.at)
    BY <2>8, <2>10 DEF DeclaredBefore
  <2>12. m = f.at
    BY <1>3, <2>10, <2>11
  <2> QED BY <2>7, <2>10, <2>12
<1> QED BY <1>7, <1>11, <1>12 DEF f

\* A debt stays when its frame and the progress of the frame above stay.
LEMMA SameDebt ==
    ASSUME NEW r, NEW s, NEW i, NEW j, NEW c, c \in Debt(s, i),
           i # 1, j # 1, r[j] = s[i], r[j - 1].at = s[i - 1].at
    PROVE  c \in Debt(r, j)
BY DEF Debt

\* A call on top of a handler, or of nothing, owes nothing yet.
LEMMA CallKeepsDebts ==
    ASSUME filters \in Pipelines, NEW s \in Stack, Sound(s),
           NEW k \in DOMAIN Handler, NEW b \in BOOLEAN,
           s # <<>> => In(Head(s)) = "handler" /\ (Head(s).invalidating => b),
           NEW r, r = Pipeline(k, b) \o s
    PROVE  /\ Sound(r)
           /\ \A c : InDebt(s, c) => InDebt(r, c)
<1> DEFINE p == Pipeline(k, b)
           n == Handling
<1>1. /\ p \in Seq(Frame) /\ Len(p) = n /\ n \in Nat \ {0}
      /\ \A i \in 1..n : p[i] = Invocation(n - i + 1, k, b, {})
  BY PipelineFrames, HandlingIsANumber DEF Stack
<1>2. /\ s \in Seq(Frame) /\ Len(s) \in Nat
      /\ \A i \in 1..Len(s) : s[i] \in Frame
  BY DEF Stack
<1> HIDE DEF p
<1>3. r = p \o s
  BY DEF p
<1> HIDE DEF n
<1>4. /\ Len(r) = n + Len(s)
      /\ \A i \in 1..n : r[i] = p[i]
      /\ \A i \in 1..Len(s) : r[n + i] = s[i]
  <2>1. /\ Len(p \o s) = Len(p) + Len(s)
        /\ \A i \in 1..Len(p) : (p \o s)[i] = p[i]
        /\ \A i \in 1..Len(s) : (p \o s)[Len(p) + i] = s[i]
    <3>1. p \in Seq(Frame) /\ s \in Seq(Frame)
      BY <1>1, <1>2
    <3> QED BY <3>1
  <2> QED BY <1>1, <1>3, <2>1
<1>5. \A i \in 1..n :
         /\ r[i].index = n - i + 1 /\ r[i].command = k /\ r[i].invalidating = b
         /\ r[i].at = 1 /\ r[i].owes = {}
  BY <1>1, <1>4 DEF Invocation
<1>6. s # <<>> => /\ s[1] \in Frame /\ 1 \in 1..Len(s)
                  /\ s[1].index = n /\ In(s[1]) = "handler" /\ (s[1].invalidating => b)
  <2> SUFFICES ASSUME s # <<>>
               PROVE  /\ s[1] \in Frame /\ 1 \in 1..Len(s)
                      /\ s[1].index = n /\ In(s[1]) = "handler" /\ (s[1].invalidating => b)
    OBVIOUS
  <2>1. Head(s) = s[1] /\ s[1] \in Frame /\ 1 \in 1..Len(s)
    BY <1>2
  <2> QED BY <2>1, HandlerIsLast DEF n
<1>7. Sound(r)
  <2>1. ASSUME NEW i \in 1..Len(r)
        PROVE  Owing(r[i])
    <3>1. CASE i \in 1..n
      BY <1>5, <3>1 DEF Owing
    <3>2. CASE i \notin 1..n
      <4>1. i - n \in 1..Len(s) /\ n + (i - n) = i
        BY <1>1, <1>2, <1>4, <3>2
      <4>2. r[i] = s[i - n]
        BY <1>4, <4>1
      <4> QED BY <4>1, <4>2 DEF Sound
    <3> QED BY <3>1, <3>2
  <2>2. ASSUME NEW i \in 2..Len(r)
        PROVE  Linked(r[i - 1], r[i])
    <3>1. CASE i \in 1..n
      <4>1. i - 1 \in 1..n /\ n - (i - 1) + 1 = (n - i + 1) + 1
        BY <1>1, <3>1, <2>2
      <4> QED BY <1>5, <3>1, <4>1 DEF Linked, Passes
    <3>2. CASE i = n + 1
      <4>a. Len(s) # 0 /\ 1 \in 1..Len(s)
        BY <1>1, <1>2, <1>4, <2>2, <3>2
      <4>b. r[n + 1] = s[1]
        BY <1>4, <4>a
      <4>c. s # <<>>
        BY <4>a
      <4>1. r[i] = s[1] /\ s # <<>> /\ i - 1 = n /\ n \in 1..n
        BY <1>1, <3>2, <4>b, <4>c
      <4>2. r[n].index = 1 /\ r[n].invalidating = b
        BY <1>1, <1>5, <4>1
      <4> QED BY <1>6, <4>1, <4>2 DEF Linked, Nested, n
    <3>3. CASE i \notin 1..(n + 1)
      <4>1. i - n \in 2..Len(s) /\ n + (i - n) = i /\ n + (i - n - 1) = i - 1
        BY <1>1, <1>2, <1>4, <2>2, <3>3
      <4>2. r[i] = s[i - n] /\ r[i - 1] = s[i - n - 1]
        <5>1. i - n \in 1..Len(s) /\ i - n - 1 \in 1..Len(s)
          BY <1>2, <4>1
        <5> QED BY <1>4, <4>1, <5>1
      <4>3. Linked(s[i - n - 1], s[i - n])
        BY <4>1 DEF Sound
      <4> QED BY <4>2, <4>3
    <3> QED BY <1>1, <3>1, <3>2, <3>3
  <2> QED BY <2>1, <2>2 DEF Sound
<1>8. ASSUME NEW c, InDebt(s, c)
      PROVE  InDebt(r, c)
  <2>1. PICK i \in 1..Len(s) : c \in Debt(s, i)
    BY <1>8 DEF InDebt
  <2>2. PICK j \in 1..Len(r) : j = n + i /\ j # 1 /\ r[j] = s[i]
    <3>1. n + i \in 1..Len(r) /\ n + i # 1 /\ r[n + i] = s[i]
      BY <1>1, <1>2, <1>4
    <3> QED BY <3>1
  <2>3. CASE i = 1
    <3>1. ~InSecondPass(s[i])
      BY <1>6, <2>1, <2>3, <1>2 DEF InSecondPass
    <3> QED BY <2>1, <2>2, <3>1 DEF Debt, InDebt
  <2>4. CASE i # 1
    <3>1. i - 1 \in 1..Len(s) /\ n + (i - 1) = j - 1
      BY <1>1, <1>2, <2>2, <2>4
    <3>2. r[j - 1] = s[i - 1]
      BY <1>4, <3>1
    <3>3. c \in Debt(r, j)
      BY <2>1, <2>2, <2>4, <3>2, SameDebt
    <3> QED BY <2>2, <3>3 DEF InDebt
  <2> QED BY <2>3, <2>4
<1> QED BY <1>7, <1>8

\* The middleware starts the second pass with everything still to be declared.
LEMMA SecondPassKeepsDebts ==
    ASSUME filters \in Pipelines, NEW s \in Stack, s # <<>>, Sound(s),
           In(Head(s)) = "invalidation", Head(s).at = 1,
           NEW r, r = <<SecondPass(Head(s)), [Head(s) EXCEPT !.at = 2]>> \o Tail(s)
    PROVE  /\ Sound(r)
           /\ \A c : InDebt(s, c) => InDebt(r, c)
<1> DEFINE f == Head(s)
           h == SecondPass(f)
           g == [f EXCEPT !.at = 2]
<1>1. /\ f = s[1] /\ Len(s) \in Nat \ {0} /\ s \in Seq(Frame)
      /\ \A i \in 1..Len(s) : s[i] \in Frame
  BY TailOf DEF Stack
<1>2. f \in Frame /\ f.command \in DOMAIN Handler
  BY <1>1 DEF Frame
<1>a. /\ r = <<h, g>> \o Tail(s) /\ In(f) = "invalidation" /\ f.at = 1
  OBVIOUS
<1> HIDE DEF f
<1>3. /\ g \in Frame
      /\ g.index = f.index /\ g.command = f.command /\ g.invalidating = f.invalidating
      /\ g.at = 2 /\ g.owes = f.owes
  <2>1. g \in Frame
    BY <1>2, SecondTime
  <2>2. g.index = f.index /\ g.command = f.command /\ g.invalidating = f.invalidating
    BY <1>2 DEF Frame
  <2>3. g.at = 2 /\ g.owes = f.owes
    BY <1>2 DEF Frame
  <2> QED BY <2>1, <2>2, <2>3
<1>4. /\ h.index = Handling /\ h.command = f.command /\ h.invalidating = TRUE
      /\ h.at = 1 /\ h.owes = {}
  BY DEF SecondPass, Invocation
<1>5. h \in Frame
  <2>1. Handling \in 1..Handling
    BY HandlingIsANumber
  <2>2. h = [index |-> Handling, command |-> f.command, invalidating |-> TRUE,
             at |-> 1, owes |-> {}]
    BY DEF SecondPass, Invocation
  <2> HIDE DEF h
  <2> QED BY <1>2, <2>1, <2>2 DEF Frame
<1>6. /\ r = <<h, g>> \o Tail(s)
      /\ In(f) = "invalidation" /\ f.at = 1 /\ f.index # Handling
  BY <1>2, <1>a, HandlerIsLast
<1> HIDE DEF g, h
<1>7. In(g) = "invalidation"
  BY <1>3, <1>6 DEF In
<1>8. /\ Len(r) = Len(s) + 1 /\ r[1] = h /\ r[2] = g
      /\ \A i \in 2..Len(s) : r[i + 1] = s[i]
  BY <1>1, <1>3, <1>5, <1>6
<1>9. Sound(r)
  <2>1. Owing(h)
    BY <1>4 DEF Owing
  <2>2. Owing(g)
    <3>1. Owing(f)
      BY <1>1 DEF Sound
    <3> QED BY <1>3, <3>1 DEF Owing
  <2>3. ASSUME NEW i \in 3..Len(r)
        PROVE  i - 1 \in 2..Len(s) /\ r[i] = s[i - 1]
    <3>1. i - 1 \in 2..Len(s) /\ (i - 1) + 1 = i
      BY <1>1, <1>8
    <3> QED BY <1>8, <3>1
  <2>4. ASSUME NEW i \in 1..Len(r)
        PROVE  Owing(r[i])
    <3>1. i = 1 \/ i = 2 \/ i \in 3..Len(r)
      BY <1>1, <1>8
    <3>2. i \in 3..Len(r) => Owing(r[i])
      BY <1>1, <2>3 DEF Sound
    <3> QED BY <1>8, <2>1, <2>2, <3>1, <3>2
  <2>5. Linked(h, g)
    BY <1>3, <1>4, <1>7 DEF Linked, Declares
  <2>6. ASSUME NEW i \in 3..Len(r)
        PROVE  Linked(r[i - 1], r[i])
    <3>1. Linked(s[i - 1 - 1], s[i - 1]) /\ r[i] = s[i - 1]
      BY <2>3 DEF Sound
    <3>2. CASE i = 3
      <4>1. s[i - 1 - 1] = f /\ r[i - 1] = g
        BY <1>1, <1>8, <3>2
      <4> QED BY <1>3, <3>1, <4>1 DEF Linked, Passes, Declares, Nested
    <3>3. CASE i # 3
      <4>1. i - 1 - 1 \in 2..Len(s) /\ (i - 1 - 1) + 1 = i - 1
        BY <1>1, <1>8, <3>3
      <4>2. r[i - 1] = s[i - 1 - 1]
        BY <1>8, <4>1
      <4> QED BY <3>1, <4>2
    <3> QED BY <3>2, <3>3
  <2>7. ASSUME NEW i \in 2..Len(r)
        PROVE  Linked(r[i - 1], r[i])
    <3>1. i = 2 \/ i \in 3..Len(r)
      BY <1>1, <1>8
    <3>2. i = 2 => r[i - 1] = h /\ r[i] = g
      BY <1>8
    <3> QED BY <2>5, <2>6, <3>1, <3>2
  <2> QED BY <2>4, <2>7 DEF Sound
<1>10. ASSUME NEW c, InDebt(s, c)
       PROVE  InDebt(r, c)
  <2>1. PICK i \in 1..Len(s) : c \in Debt(s, i)
    BY <1>10 DEF InDebt
  <2>2. PICK j \in 2..Len(r) : j = i + 1
    <3>1. i + 1 \in 2..Len(r)
      BY <1>1, <1>8
    <3> QED BY <3>1
  <2>3. j \in 1..Len(r) /\ j # 1 /\ j - 1 = i
    BY <1>1, <1>8, <2>2
  <2>4. CASE i = 1
    <3>1. c \in f.owes
      BY <1>1, <2>1, <2>4 DEF Debt
    <3>2. ~DeclaredBefore(g.command, h.at, c)
      BY <1>4 DEF DeclaredBefore
    <3>3. r[j] = g /\ r[j - 1] = h
      BY <1>8, <2>2, <2>3, <2>4
    <3>4. c \in Debt(r, j)
      BY <1>3, <2>3, <3>1, <3>2, <3>3 DEF Debt
    <3> QED BY <2>3, <3>4 DEF InDebt
  <2>5. CASE i # 1
    <3>1. r[j] = s[i] /\ i \in 2..Len(s)
      BY <1>1, <1>8, <2>2, <2>5
    <3>2. CASE i = 2
      <4>1. s[i - 1] = f
        BY <1>1, <3>2
      <4>2. Linked(f, s[i])
        BY <3>1, <4>1 DEF Sound
      <4>3. ~InSecondPass(s[i])
        BY <1>1, <1>2, <1>6, <4>2, BelowSecondPass
      <4>4. c \in Debt(r, j)
        BY <2>1, <3>1, <4>3 DEF Debt
      <4> QED BY <2>3, <4>4 DEF InDebt
    <3>3. CASE i # 2
      <4>1. i - 1 \in 2..Len(s) /\ (i - 1) + 1 = j - 1
        BY <1>1, <2>3, <3>1, <3>3
      <4>2. r[j - 1].at = s[i - 1].at
        BY <1>8, <4>1
      <4>3. j # 1 /\ r[j] = s[i]
        BY <2>3, <3>1
      <4>4. c \in Debt(r, j)
        BY <2>1, <2>5, <4>2, <4>3, SameDebt
      <4> QED BY <2>3, <4>4 DEF InDebt
    <3> QED BY <3>2, <3>3
  <2> QED BY <2>4, <2>5
<1> QED BY <1>9, <1>10

\* When the frame on top returns: what it still owes.  A handler has come to its end.
Returning(f, owed) ==
    \/ In(f) = "handler" /\ owed = f.owes /\ f.at > Len(Operations(f))
    \/ In(f) # "handler" /\ In(f) # "invalidation" /\ owed = f.owes
    \/ InSecondPass(f) /\ owed = {}

\* What is owed by a frame that returns may be owed by its caller.
LEMMA OwedToCaller ==
    ASSUME filters \in Pipelines, NEW f \in Frame, NEW g \in Frame, NEW owed,
           Linked(f, g), Owing(f), Returning(f, owed)
    PROVE  /\ owed \subseteq f.owes
           /\ owed # {} =>
                 /\ ~Declares(f, g)
                 /\ ~g.invalidating
                 /\ ~Covered(g.index)
                 /\ "invalidation" \in Range(filters) => f.command = g.command
<1>1. owed \subseteq f.owes
  BY DEF Returning
<1> SUFFICES ASSUME owed # {}
             PROVE  /\ ~Declares(f, g)
                    /\ ~g.invalidating
                    /\ ~Covered(g.index)
                    /\ "invalidation" \in Range(filters) => f.command = g.command
  BY <1>1
<1>3. In(f) # "invalidation" /\ f.owes # {}
  BY DEF Returning, InSecondPass
<1>4. ~Covered(f.index) /\ ~f.invalidating
  BY <1>3 DEF Owing
<1>5. /\ Handling = Len(filters) + 1 /\ Len(filters) \in Nat
      /\ f.index \in 1..Handling /\ g.index \in 1..Handling
      /\ filters \in Seq({"session", "invalidation", "retry"})
  BY HandlingIsANumber, HandlerIsLast
<1>6. ASSUME NEW q \in 1..Len(filters), filters[q] = "invalidation"
      PROVE  q < f.index
  <2>1. ~(q > f.index)
    BY <1>4, <1>6 DEF Covered
  <2>2. q # f.index
    BY <1>3, <1>5, <1>6 DEF In
  <2> QED BY <1>5, <2>1, <2>2
<1>7. ~Declares(f, g)
  BY <1>4 DEF Declares
<1>8. CASE Passes(f, g)
  <2>1. f.index = g.index + 1 /\ f.command = g.command /\ ~g.invalidating
    BY <1>4, <1>8 DEF Passes
  <2>2. ~Covered(g.index)
    <3>1. \A q \in 1..Len(filters) : filters[q] = "invalidation" => ~(q > g.index)
      BY <1>5, <1>6, <2>1
    <3> QED BY <3>1 DEF Covered
  <2> QED BY <1>7, <2>1, <2>2
<1>9. CASE Nested(f, g)
  <2>1. f.index = 1 /\ ~g.invalidating /\ ~Covered(g.index)
    BY <1>4, <1>9, HandlerIsLast DEF Nested
  <2>2. \A q \in 1..Len(filters) : filters[q] # "invalidation"
    BY <1>5, <1>6, <2>1
  <2>3. "invalidation" \notin Range(filters)
    <3>1. Range(filters) = {filters[q] : q \in 1..Len(filters)}
      BY <1>5, ElementsOf
    <3> QED BY <2>2, <3>1
  <2> QED BY <1>7, <2>1, <2>3
<1> QED BY <1>7, <1>8, <1>9 DEF Linked

\* The frames once the caller goes on, with what was still owed.
Resumed(s, owed) ==
    <<[Head(Tail(s)) EXCEPT !.owes = @ \union owed]>> \o Tail(Tail(s))

\* The caller that goes on owes all that is left.
LEMMA ReturnKeepsDebts ==
    ASSUME filters \in Pipelines, NEW s \in Stack, s # <<>>, Tail(s) # <<>>, Sound(s),
           NEW owed, Returning(Head(s), owed),
           NEW r, r = Resumed(s, owed)
    PROVE  /\ Sound(r)
           /\ \A c : InDebt(s, c) => InDebt(r, c)
<1> DEFINE f == s[1]
           g == s[2]
           h == [g EXCEPT !.owes = g.owes \union owed]
<1>1. /\ Len(s) \in Nat /\ Len(s) >= 2 /\ s \in Seq(Frame)
      /\ \A i \in 1..Len(s) : s[i] \in Frame
      /\ Head(s) = f /\ Head(Tail(s)) = g
      /\ 1 \in 1..Len(s) /\ 2 \in 1..Len(s) /\ 2 \in 2..Len(s)
  <2>1. s \in Seq(Frame) /\ Len(s) \in Nat /\ Head(s) = s[1]
    BY TailOf DEF Stack
  <2>2. Len(s) >= 2 /\ Head(Tail(s)) = s[2]
    BY <2>1
  <2> QED BY <2>1, <2>2
<1>2. f \in Frame /\ g \in Frame /\ Linked(f, g) /\ Owing(f) /\ Owing(g) /\ Returning(f, owed)
  <2>1. Linked(s[2 - 1], s[2])
    BY <1>1 DEF Sound
  <2> QED BY <1>1, <2>1 DEF Sound
<1>3. r = <<h>> \o Tail(Tail(s))
  BY <1>1 DEF Resumed
<1> HIDE DEF f, g
<1>4. f.owes \in SUBSET Cell /\ g.owes \in SUBSET Cell
  BY <1>2 DEF Frame
<1>5. owed \subseteq f.owes
  BY <1>2, OwedToCaller
<1>6. /\ h.index = g.index /\ h.command = g.command /\ h.invalidating = g.invalidating
      /\ h.at = g.at /\ h.owes = g.owes \union owed
  BY <1>2 DEF Frame
<1>7. h \in Frame
  <2>1. g.owes \union owed \in SUBSET Cell
    BY <1>4, <1>5
  <2> QED BY <1>2, <2>1 DEF Frame
<1> HIDE DEF h
<1>8. /\ Len(r) = Len(s) - 1 /\ r[1] = h
      /\ \A i \in 3..Len(s) : r[i - 1] = s[i]
  <2>1. /\ Tail(Tail(s)) \in Seq(Frame) /\ Len(Tail(Tail(s))) = Len(s) - 2
        /\ \A i \in 1..(Len(s) - 2) : Tail(Tail(s))[i] = s[i + 2]
    BY <1>1
  <2> QED BY <1>1, <1>3, <1>7, <2>1
<1>9. Owing(h)
  <2>1. CASE owed = {}
    BY <1>2, <1>6, <2>1 DEF Owing
  <2>2. CASE owed # {}
    <3>1. /\ ~g.invalidating /\ ~Covered(g.index)
          /\ "invalidation" \in Range(filters) => f.command = g.command
      BY <1>2, <2>2, OwedToCaller
    <3>2. "invalidation" \in Range(filters) =>
             f.owes \subseteq Writes(g.command) /\ g.owes \subseteq Writes(g.command)
      BY <1>2, <3>1 DEF Owing
    <3> QED BY <1>5, <1>6, <3>1, <3>2 DEF Owing
  <2> QED BY <2>1, <2>2
<1>10. Sound(r)
  <2>1. ASSUME NEW i \in 1..Len(r)
        PROVE  Owing(r[i])
    <3>1. CASE i = 1
      BY <1>8, <1>9, <3>1
    <3>2. CASE i # 1
      <4>1. i + 1 \in 3..Len(s) /\ (i + 1) - 1 = i /\ i + 1 \in 1..Len(s)
        BY <1>1, <1>8, <3>2
      <4>2. r[i] = s[i + 1]
        BY <1>8, <4>1
      <4> QED BY <4>1, <4>2 DEF Sound
    <3> QED BY <3>1, <3>2
  <2>2. ASSUME NEW i \in 2..Len(r)
        PROVE  Linked(r[i - 1], r[i])
    <3>1. PICK j \in 3..Len(s) : j - 1 = i /\ j \in 2..Len(s)
      <4>1. i + 1 \in 3..Len(s) /\ (i + 1) - 1 = i /\ i + 1 \in 2..Len(s)
        BY <1>1, <1>8
      <4> QED BY <4>1
    <3>2. r[i] = s[j] /\ Linked(s[i], s[j])
      BY <1>8, <3>1 DEF Sound
    <3>3. CASE i = 2
      <4>1. s[i] = g /\ r[i - 1] = h
        BY <1>8, <3>3 DEF g
      <4> QED BY <1>6, <3>2, <4>1 DEF Linked, Passes, Declares, Nested
    <3>4. CASE i # 2
      <4>1. i \in 3..Len(s)
        BY <1>1, <1>8, <3>4
      <4>2. r[i - 1] = s[i]
        BY <1>8, <4>1
      <4> QED BY <3>2, <4>2
    <3> QED BY <3>3, <3>4
  <2> QED BY <2>1, <2>2 DEF Sound
<1>11. InSecondPass(h) => InSecondPass(g)
  BY <1>6 DEF InSecondPass, In
<1>12. 1 \in 1..Len(r) /\ Debt(r, 1) = IF InSecondPass(h) THEN {} ELSE g.owes \union owed
  <2>1. 1 \in 1..Len(r) /\ r[1].owes = g.owes \union owed
    <3>1. 1 \in 1..Len(r)
      BY <1>1, <1>8
    <3>2. r[1] = h /\ h.owes = g.owes \union owed
      BY <1>6, <1>8
    <3> QED BY <3>1, <3>2
  <2>2. InSecondPass(h) => Debt(r, 1) = {}
    BY <1>8 DEF Debt
  <2>3. ~InSecondPass(h) => Debt(r, 1) = r[1].owes
    BY <1>8 DEF Debt
  <2> QED BY <2>1, <2>2, <2>3
<1>13. ASSUME InSecondPass(g)
       PROVE  /\ f.index = Handling /\ f.invalidating /\ f.command = g.command
              /\ f.owes = {} /\ Declares(f, g)
              /\ f.at > Len(Handler[g.command].declare)
  <2>1. Declares(f, g) /\ f.index = Handling /\ f.invalidating /\ f.command = g.command
    BY <1>2, <1>13, BelowSecondPass
  <2>2. f.owes = {}
    BY <1>2, <2>1 DEF Owing
  <2>3. In(f) = "handler"
    BY <1>2, <2>1, HandlerIsLast
  <2>4. f.at > Len(Operations(f))
    BY <1>2, <2>3 DEF Returning, InSecondPass
  <2>5. Operations(f) = Handler[g.command].declare
    BY <2>1 DEF Operations
  <2> QED BY <2>1, <2>2, <2>4, <2>5
<1>14. ASSUME NEW c, InDebt(s, c)
       PROVE  InDebt(r, c)
  <2>1. PICK i \in 1..Len(s) : c \in Debt(s, i)
    BY <1>14 DEF InDebt
  <2>2. CASE i = 1
    <3>1. c \in f.owes /\ ~InSecondPass(f)
      BY <2>1, <2>2 DEF Debt, f
    <3>2. c \in owed
      BY <1>2, <3>1 DEF Returning
    <3>3. ~InSecondPass(h)
      BY <1>11, <1>13, <3>1
    <3>4. c \in Debt(r, 1)
      BY <1>12, <3>2, <3>3
    <3> QED BY <1>12, <3>4 DEF InDebt
  <2>3. CASE i = 2
    <3>1. s[i] = g /\ s[i - 1] = f /\ c \in g.owes
      BY <2>1, <2>3 DEF Debt, f, g
    <3>2. CASE ~InSecondPass(h)
      <4>1. c \in Debt(r, 1)
        BY <1>12, <3>1, <3>2
      <4> QED BY <1>12, <4>1 DEF InDebt
    <3>3. CASE InSecondPass(h)
      <4>1. InSecondPass(g)
        BY <1>11, <3>3
      <4>2. ~DeclaredBefore(g.command, f.at, c)
        BY <2>1, <3>1, <4>1 DEF Debt
      <4>3. c \in Writes(g.command)
        <5>1. "invalidation" \in Range(filters)
          BY <1>2, <4>1, HandlerIsLast DEF InSecondPass
        <5> QED BY <1>2, <3>1, <5>1 DEF Owing
      <4>4. g.command \in DOMAIN Handler /\ f.at \in Nat
        BY <1>2 DEF Frame
      <4>5. [do |-> "invalidate", what |-> c] \in Range(Handler[g.command].declare)
        BY <4>3, <4>4, DeclarationAssumption DEF Writes
      <4>6. Handler[g.command].declare \in Seq(Operation)
        BY <4>4, HandlerAssumption
      <4>7. PICK m \in 1..Len(Handler[g.command].declare) :
               Handler[g.command].declare[m] = [do |-> "invalidate", what |-> c]
        <5>1. Range(Handler[g.command].declare)
                 = {Handler[g.command].declare[m] : m \in 1..Len(Handler[g.command].declare)}
          BY <4>6, ElementsOf
        <5> QED BY <4>5, <5>1
      <4>8. m < f.at
        BY <1>13, <4>1, <4>4, <4>6, <4>7
      <4> QED BY <4>2, <4>7, <4>8 DEF DeclaredBefore
    <3> QED BY <3>2, <3>3
  <2>4. CASE i \in 3..Len(s)
    <3>1. PICK j \in 2..Len(r) : j = i - 1 /\ j \in 1..Len(r) /\ j # 1
      <4>1. i - 1 \in 2..Len(r) /\ i - 1 \in 1..Len(r) /\ i - 1 # 1
        BY <1>1, <1>8, <2>4
      <4> QED BY <4>1
    <3>2. r[j] = s[i] /\ i # 1
      BY <1>8, <2>4, <3>1
    <3>3. r[j - 1].at = s[i - 1].at
      <4>1. CASE i = 3
        <5>1. r[j - 1] = h /\ s[i - 1] = g
          BY <1>8, <3>1, <4>1 DEF g
        <5> QED BY <1>6, <5>1
      <4>2. CASE i # 3
        <5>1. i - 1 \in 3..Len(s) /\ (i - 1) - 1 = j - 1
          BY <1>1, <2>4, <3>1, <4>2
        <5>2. r[j - 1] = s[i - 1]
          BY <1>8, <5>1
        <5> QED BY <5>2
      <4> QED BY <4>1, <4>2
    <3>4. j # 1
      BY <3>1
    <3>5. c \in Debt(r, j)
      BY <2>1, <3>2, <3>3, <3>4, SameDebt
    <3> QED BY <3>1, <3>5 DEF InDebt
  <2> QED BY <1>1, <2>2, <2>3, <2>4
<1> QED BY <1>10, <1>14

-----------------------------------------------------------------------------
(***************************************************************************)
(* What every step does to the debts.                                      *)
(***************************************************************************)

\* What is stale afterwards.
LEMMA StaleAfter ==
    ASSUME NEW v \in [Cell -> Value], NEW C, NEW c \in Cell
    PROVE  /\ Excused(v, C)[c] = "stale" => v[c] = "stale" /\ c \notin C
           /\ Dropped(v, C)[c] = "stale" => v[c] = "stale" /\ c \notin C
           /\ Changed(v, C)[c] = "stale" => v[c] = "stale" \/ c \in C
BY DEF Excused, Dropped, Changed

\* An empty stack is sound.
LEMMA NothingIsSound == Sound(<<>>)
BY DEF Sound

\* A stack of t that carries on all it owed, while nothing becomes stale.
LEMMA DebtsStay ==
    ASSUME DebtInv, TypeOK', filters' = filters, NEW t \in Task, NEW r \in Stack,
           stack' = [stack EXCEPT ![t] = r], Sound(r),
           \A c \in Cell : InDebt(stack[t], c) => InDebt(r, c),
           \A c \in Cell : Stale(c)' => Stale(c)
    PROVE  DebtInv'
<1>1. r = stack'[t] /\ \A u \in Task \ {t} : stack'[u] = stack[u]
  BY DEF DebtInv, TypeOK
<1>2. \A c \in Cell : Stale(c)' =>
         \/ Stale(c) /\ (InDebt(stack[t], c) => InDebt(r, c))
         \/ InDebt(r, c)
  OBVIOUS
<1> QED BY <1>1, <1>2, DebtsMove

\* A stack of t that ends, what it owed being excused.
LEMMA DebtsExcused ==
    ASSUME DebtInv, TypeOK', filters' = filters, NEW t \in Task, NEW C,
           stack' = [stack EXCEPT ![t] = <<>>],
           cache' = Excused(cache, C), reading' = Excused(reading, C),
           \A c \in Cell : InDebt(stack[t], c) => c \in C
    PROVE  DebtInv'
<1>1. <<>> = stack'[t] /\ \A u \in Task \ {t} : stack'[u] = stack[u]
  BY DEF DebtInv, TypeOK
<1>2. cache \in [Cell -> Value] /\ reading \in [Cell -> Value]
  BY DEF DebtInv, TypeOK
<1>3. ASSUME NEW c \in Cell, Stale(c)'
      PROVE  Stale(c) /\ ~InDebt(stack[t], c)
  <2>1. Excused(cache, C)[c] = "stale" \/ Excused(reading, C)[c] = "stale"
    BY <1>3 DEF Stale
  <2>2. (cache[c] = "stale" \/ reading[c] = "stale") /\ c \notin C
    BY <1>2, <2>1, StaleAfter
  <2> QED BY <2>2 DEF Stale
<1>4. \A c \in Cell : Stale(c)' =>
         \/ Stale(c) /\ (InDebt(stack[t], c) => InDebt(<<>>, c))
         \/ InDebt(<<>>, c)
  BY <1>3
<1> QED BY <1>1, <1>4, NothingIsSound, DebtsMove

\* Without filters that try again, an exception ends the outermost call.
LEMMA FailKeepsDebts ==
    ASSUME NoRetry, DebtInv, TypeOK', filters' = filters, NEW t \in Task,
           NEW called \in Stack, Fail(t, called),
           \A c \in Cell : InDebt(stack[t], c) => InDebt(called, c)
    PROVE  DebtInv'
<1>1. filters \in Pipelines
  BY DEF DebtInv, TypeOK
<1>2. Retries(called) = {}
  <2> SUFFICES ASSUME NEW i \in DOMAIN called, In(called[i]) = "retry"
               PROVE  FALSE
    BY DEF Retries
  <2>1. called[i] \in Frame
    BY DEF Stack
  <2>2. called[i].index \in 1..Len(filters) /\ In(called[i]) = filters[called[i].index]
    BY <1>1, <2>1, HandlingIsANumber DEF In, Frame
  <2>3. Range(filters) = {filters[j] : j \in 1..Len(filters)}
    BY <1>1, HandlingIsANumber, ElementsOf
  <2>4. "retry" \in Range(filters)
    BY <2>2, <2>3
  <2> QED BY <1>1, <2>4 DEF NoRetry
<1>3. /\ stack' = [stack EXCEPT ![t] = <<>>]
      /\ cache' = Excused(cache, OwedBy(called))
      /\ reading' = Excused(reading, OwedBy(called))
  BY <1>2 DEF Fail
<1>4. \A c \in Cell : InDebt(stack[t], c) => c \in OwedBy(called)
  BY DebtIsOwed
<1> QED BY <1>3, <1>4, DebtsExcused

\* A call, by nobody or by a handler, carries on all that is owed.
LEMMA CallKeepsAllDebts ==
    ASSUME NoRetry, DebtInv, TypeOK', filters' = filters, NEW t \in Task,
           NEW k \in Command, NEW callers \in Stack, NEW b \in BOOLEAN, Sound(callers),
           callers # <<>> => In(Head(callers)) = "handler" /\ (Head(callers).invalidating => b),
           \A c \in Cell : InDebt(stack[t], c) => InDebt(callers, c),
           Call(t, k, callers, b)
    PROVE  DebtInv'
<1>1. CASE k \in DOMAIN Handler
  <2> DEFINE r == Pipeline(k, b) \o callers
  <2>1. /\ stack' = [stack EXCEPT ![t] = r]
        /\ cache' = cache /\ reading' = reading
    BY <1>1 DEF Call
  <2>2. filters \in Pipelines
    BY DEF DebtInv, TypeOK
  <2>3. r \in Stack
    BY <1>1, <2>2, CommandsOfCall
  <2>4. Sound(r) /\ \A c : InDebt(callers, c) => InDebt(r, c)
    BY <1>1, <2>2, CallKeepsDebts
  <2>5. \A c \in Cell : Stale(c)' => Stale(c)
    BY <2>1 DEF Stale
  <2> HIDE DEF r
  <2> QED BY <2>1, <2>3, <2>4, <2>5, DebtsStay
<1>2. CASE k \notin DOMAIN Handler
  <2>1. Fail(t, callers)
    BY <1>2 DEF Call
  <2> QED BY <2>1, FailKeepsDebts
<1> QED BY <1>1, <1>2

\* A frame returns, and its caller owes what it owed.
LEMMA ReturnToCaller ==
    ASSUME DebtInv, TypeOK', filters' = filters, NEW t \in Task,
           NEW s, s = stack[t], s # <<>>, Tail(s) # <<>>,
           NEW owed, Returning(Head(s), owed),
           NEW r, r = Resumed(s, owed),
           stack' = [stack EXCEPT ![t] = r], UNCHANGED <<cache, reading>>
    PROVE  DebtInv'
<1>1. s \in Stack /\ Sound(s) /\ filters \in Pipelines
  BY DEF DebtInv, TypeOK, Stack
<1>2. Sound(r) /\ \A c : InDebt(s, c) => InDebt(r, c)
  BY <1>1, ReturnKeepsDebts
<1>3. \A c \in Cell : Stale(c)' => Stale(c)
  BY DEF Stale
<1>4. stack \in [Task -> Stack] /\ stack' \in [Task -> Stack]
  BY SameFrames DEF TypeOK, DebtInv, Stack
<1>5. r \in Stack
  BY <1>4
<1> QED BY <1>2, <1>3, <1>5, DebtsStay

\* The last frame returns, and the call is over.
LEMMA ReturnToNobody ==
    ASSUME DebtInv, TypeOK', filters' = filters, NEW t \in Task,
           NEW s, s = stack[t], s # <<>>, Tail(s) = <<>>,
           NEW owed, Returning(Head(s), owed),
           stack' = [stack EXCEPT ![t] = <<>>],
           cache' = Excused(cache, owed), reading' = Excused(reading, owed)
    PROVE  DebtInv'
<1>1. s \in Seq(Frame) /\ Len(Tail(s)) = 0
  BY DEF DebtInv, TypeOK
<1>2. Len(s) = 1 /\ Head(s) = s[1]
  BY <1>1, TailOf
<1>3. ASSUME NEW c \in Cell, InDebt(s, c)
      PROVE  c \in owed
  <2>1. c \in Debt(s, 1)
    BY <1>2, <1>3 DEF InDebt
  <2>2. c \in Head(s).owes /\ ~InSecondPass(Head(s))
    BY <1>2, <2>1 DEF Debt
  <2> QED BY <2>2 DEF Returning
<1> QED BY <1>3, DebtsExcused

\* A frame returns, to its caller or to nobody.
LEMMA ReturnKeepsAllDebts ==
    ASSUME DebtInv, TypeOK', filters' = filters, NEW t \in Task, stack[t] # <<>>,
           NEW owed, Returning(Top(t), owed), Return(t, owed)
    PROVE  DebtInv'
<1>1. Returning(Head(stack[t]), owed)
  BY DEF Top
<1>2. CASE Tail(stack[t]) = <<>>
  <2>1. /\ stack' = [stack EXCEPT ![t] = <<>>]
        /\ cache' = Excused(cache, owed)
        /\ reading' = Excused(reading, owed)
    BY <1>2 DEF Return
  <2> QED BY <1>1, <1>2, <2>1, ReturnToNobody
<1>3. CASE Tail(stack[t]) # <<>>
  <2>1. /\ stack' = [stack EXCEPT ![t] = Resumed(stack[t], owed)]
        /\ UNCHANGED <<cache, reading>>
    BY <1>3 DEF Return, Resumed
  <2> QED BY <1>1, <1>3, <2>1, ReturnToCaller
<1> QED BY <1>2, <1>3

\* A handler that goes on, without the debts it has just declared.
LEMMA OperateKeepsDebts ==
    ASSUME NoRetry, DebtInv, TypeOK', NEW t \in Task, Operate(t)
    PROVE  DebtInv'
<1> DEFINE s == stack[t]
           op == Operations(Top(t))[Top(t).at]
<1>1. /\ Typed /\ filters' = filters /\ filters \in Pipelines
      /\ s \in Stack /\ Sound(s) /\ s # <<>> /\ Top(t) = Head(s)
      /\ In(Head(s)) = "handler"
      /\ cache \in [Cell -> Value] /\ reading \in [Cell -> Value]
  BY TypedByTypeOK DEF DebtInv, TypeOK, Operate, Top, Stack
<1>2. /\ Top(t) \in Frame /\ op \in Operation
      /\ Operations(Top(t)) \in Seq(Operation)
      /\ Top(t).at \in 1..Len(Operations(Top(t)))
      /\ Top(t).command \in DOMAIN Handler /\ Top(t).invalidating \in BOOLEAN
  BY <1>1, OperationOfTop DEF Frame
<1>3. \A owed : Advanced(t, owed) = Stepped(s, owed)
  BY DEF Advanced, Top, Stepped
<1>4. op \in Range(Operations(Top(t)))
  BY <1>2, ElementsOf
<1>5. Advanced(t, {}) \in Stack /\ Advanced(t, {}) # <<>>
  BY <1>1, AdvancedFrames
<1>6. /\ Sound(Advanced(t, {}))
      /\ \A c : InDebt(s, c) => InDebt(Advanced(t, {}), c) \/ op = [do |-> "invalidate", what |-> c]
  <2>1. {} \in SUBSET Writes(Head(s).command)
    OBVIOUS
  <2>2. /\ Sound(Advanced(t, {}))
        /\ \A c : InDebt(s, c) =>
              \/ InDebt(Advanced(t, {}), c)
              \/ /\ Head(s).invalidating
                 /\ Head(s).at \in 1..Len(Handler[Head(s).command].declare)
                 /\ Handler[Head(s).command].declare[Head(s).at]
                       = [do |-> "invalidate", what |-> c]
    BY <1>1, <1>3, <2>1, AdvanceKeepsDebts
  <2>3. Head(s).invalidating => op = Handler[Head(s).command].declare[Head(s).at]
    BY <1>1 DEF Operations
  <2> QED BY <2>2, <2>3
<1>7. CASE op.do = "write"
  <2>1. /\ op.what \in Cell /\ op = [do |-> "write", what |-> op.what]
    BY <1>2, <1>7 DEF Operation
  <2>2. ~Top(t).invalidating
    BY <1>2, <1>4, <2>1, DeclarationAssumption DEF Operations
  <2>3. op.what \in Writes(Top(t).command)
    BY <1>2, <1>4, <2>1, <2>2 DEF Operations, Writes
  <2>4. /\ cache' = Changed(cache, {op.what})
        /\ reading' = Changed(reading, {op.what})
        /\ stack' = [stack EXCEPT ![t] = Advanced(t, {op.what})]
    BY <1>7 DEF Operate
  <2> DEFINE r == Advanced(t, {op.what})
  <2> HIDE DEF op, s
  <2>5. {op.what} \in SUBSET Writes(Head(s).command) /\ ~Head(s).invalidating
    BY <1>1, <2>2, <2>3
  <2>6. r = Stepped(s, {op.what})
    BY <1>3
  <2> HIDE DEF r
  <2>7. /\ Sound(r) /\ InDebt(r, op.what)
        /\ \A c : InDebt(s, c) => InDebt(r, c)
    <3> DEFINE owed == {op.what}
    <3>1. /\ owed \in SUBSET Writes(Head(s).command)
          /\ Head(s).invalidating => owed = {}
          /\ r = Stepped(s, owed)
          /\ op.what \in owed
      BY <2>5, <2>6
    <3> HIDE DEF owed
    <3>2. /\ Sound(r) /\ \A c \in owed : InDebt(r, c)
          /\ \A c : InDebt(s, c) => InDebt(r, c) \/ Head(s).invalidating
      BY <1>1, <3>1, AdvanceKeepsDebts
    <3> QED BY <2>5, <3>1, <3>2
  <2>8. r = stack'[t] /\ \A u \in Task \ {t} : stack'[u] = stack[u]
    BY <2>4 DEF r, DebtInv, TypeOK
  <2>9. ASSUME NEW c \in Cell, Stale(c)'
        PROVE  \/ Stale(c) /\ (InDebt(stack[t], c) => InDebt(r, c))
              \/ InDebt(r, c)
    <3>1. Stale(c) \/ c \in {op.what}
      BY <1>1, <2>4, <2>9, StaleAfter DEF Stale
    <3> QED BY <2>7, <3>1 DEF s
  <2> QED BY <1>1, <2>7, <2>8, <2>9, DebtsMove
<1>8. CASE op.do = "invalidate"
  <2>1. op = [do |-> "invalidate", what |-> op.what]
    BY <1>2, <1>8 DEF Operation
  <2>2. /\ cache' = Dropped(cache, {op.what})
        /\ reading' = Excused(reading, {op.what})
        /\ stack' = [stack EXCEPT ![t] = Advanced(t, {})]
    BY <1>8 DEF Operate, Invalidate
  <2> DEFINE r == Advanced(t, {})
  <2>3. r = stack'[t] /\ \A u \in Task \ {t} : stack'[u] = stack[u]
    BY <2>2 DEF DebtInv, TypeOK
  <2> HIDE DEF op, s, r
  <2>4. Sound(r) /\ \A c : InDebt(s, c) => InDebt(r, c) \/ op = [do |-> "invalidate", what |-> c]
    BY <1>6 DEF r
  <2>5. ASSUME NEW c \in Cell, Stale(c)'
        PROVE  \/ Stale(c) /\ (InDebt(stack[t], c) => InDebt(r, c))
              \/ InDebt(r, c)
    <3>1. Stale(c) /\ c \notin {op.what}
      BY <1>1, <2>2, <2>5, StaleAfter DEF Stale
    <3>2. op # [do |-> "invalidate", what |-> c]
      BY <2>1, <3>1
    <3> QED BY <2>4, <3>1, <3>2 DEF s
  <2> QED BY <1>1, <2>3, <2>4, <2>5, DebtsMove
<1>9. CASE op.do = "call"
  <2>1. op.what \in Command
    BY <1>2, <1>9 DEF Operation
  <2>2. Call(t, op.what, Advanced(t, {}), Top(t).invalidating)
    BY <1>9 DEF Operate
  <2>3. \A c : op # [do |-> "invalidate", what |-> c]
    BY <1>9
  <2>4. /\ In(Head(Advanced(t, {}))) = "handler"
        /\ Head(Advanced(t, {})).invalidating => Top(t).invalidating
    <3> DEFINE f == [Top(t) EXCEPT !.at = @ + 1, !.owes = @ \union {}]
    <3>1. Advanced(t, {}) = <<f>> \o Tail(stack[t])
      BY DEF Advanced
    <3>2. f.index = Top(t).index /\ f.invalidating = Top(t).invalidating
      BY <1>2 DEF Frame
    <3>3. Head(<<f>> \o Tail(stack[t])) = f
      BY <1>1 DEF Stack
    <3>4. In(Top(t)) = "handler"
      BY <1>1
    <3> HIDE DEF f
    <3> QED BY <3>1, <3>2, <3>3, <3>4 DEF In
  <2> HIDE DEF op
  <2>5. \A c \in Cell : InDebt(stack[t], c) => InDebt(Advanced(t, {}), c)
    BY <1>6, <2>3
  <2> QED BY <1>1, <1>2, <1>5, <1>6, <2>1, <2>2, <2>4, <2>5, CallKeepsAllDebts
<1>10. op.do \in {"write", "invalidate", "call"}
  BY <1>2 DEF Operation
<1> QED BY <1>7, <1>8, <1>9, <1>10

\* What ends or goes on without a call.
LEMMA OthersKeepDebts ==
    ASSUME NoRetry, DebtInv, TypeOK', NEW t \in Task,
           \/ HandlerThrows(t) \/ HandlerReturns(t)
           \/ FilterReturns(t) \/ InvalidationMiddleware(t)
    PROVE  DebtInv'
<1>1. stack[t] # <<>> /\ filters' = filters
  BY DEF HandlerThrows, HandlerReturns, FilterReturns, InvalidationMiddleware
<1>2. stack[t] \in Stack /\ Sound(stack[t]) /\ filters \in Pipelines
  BY DEF DebtInv, TypeOK, Stack
<1>3. CASE HandlerThrows(t)
  BY <1>1, <1>2, <1>3, FailKeepsDebts DEF HandlerThrows
<1>4. CASE HandlerReturns(t)
  <2>1. Returning(Top(t), Top(t).owes) /\ Return(t, Top(t).owes)
    BY <1>4 DEF HandlerReturns, Returning
  <2> QED BY <1>1, <2>1, ReturnKeepsAllDebts
<1>5. CASE FilterReturns(t)
  <2>1. Returning(Top(t), Top(t).owes) /\ Return(t, Top(t).owes)
    BY <1>5 DEF FilterReturns, Returning
  <2> QED BY <1>1, <2>1, ReturnKeepsAllDebts
<1>6. CASE InvalidationMiddleware(t) /\ Top(t).at # 1
  <2>1. Returning(Top(t), {}) /\ Return(t, {})
    BY <1>6 DEF InvalidationMiddleware, Returning, InSecondPass
  <2> QED BY <1>1, <2>1, ReturnKeepsAllDebts
<1>7. CASE InvalidationMiddleware(t) /\ Top(t).at = 1
  <2> DEFINE r == <<SecondPass(Head(stack[t])), [Head(stack[t]) EXCEPT !.at = 2]>> \o Tail(stack[t])
  <2>1. /\ stack' = [stack EXCEPT ![t] = r]
        /\ cache' = cache /\ reading' = reading
        /\ In(Head(stack[t])) = "invalidation" /\ Head(stack[t]).at = 1
    BY <1>7 DEF InvalidationMiddleware, Top
  <2>2. r = <<SecondPass(Head(stack[t])), [Head(stack[t]) EXCEPT !.at = 2]>> \o Tail(stack[t])
    OBVIOUS
  <2> HIDE DEF r
  <2>3. Sound(r) /\ \A c : InDebt(stack[t], c) => InDebt(r, c)
    BY <1>1, <1>2, <2>1, <2>2, SecondPassKeepsDebts
  <2>4. stack \in [Task -> Stack] /\ stack' \in [Task -> Stack]
    BY <1>1, SameFrames DEF TypeOK, DebtInv, Stack
  <2>5. r \in Stack
    BY <2>1, <2>4
  <2>6. \A c \in Cell : Stale(c)' => Stale(c)
    BY <2>1 DEF Stale
  <2> QED BY <1>1, <2>1, <2>3, <2>5, <2>6, DebtsStay
<1> QED BY <1>3, <1>4, <1>5, <1>6, <1>7

\* What touches no stack makes nothing stale that was not.
LEMMA NoStackKeepsDebts ==
    ASSUME DebtInv, TypeOK', UNCHANGED <<filters, stack>>,
           \A c \in Cell : Stale(c)' => Stale(c)
    PROVE  DebtInv'
<1>1. /\ \A s : Sound(s)' = Sound(s)
      /\ \A s, c : InDebt(s, c)' = InDebt(s, c)
  BY SameDebts
<1>2. ASSUME NEW t \in Task
      PROVE  Sound(stack[t])'
  <2>1. Sound(stack'[t])
    BY DEF DebtInv
  <2> QED BY <1>1, <2>1
<1>3. ASSUME NEW c \in Cell, Stale(c)'
      PROVE  \E t \in Task : InDebt(stack[t], c)'
  <2>1. PICK t \in Task : InDebt(stack'[t], c)
    BY <1>3 DEF DebtInv
  <2>2. InDebt(stack[t], c)'
    BY <1>1, <2>1
  <2> QED BY <2>2
<1> QED BY <1>2, <1>3 DEF DebtInv

\* Every step keeps every stale value owed by somebody.
LEMMA NextKeepsDebts ==
    ASSUME NoRetry, DebtInv, TypeOK', [Next]_vars
    PROVE  DebtInv'
<1>1. cache \in [Cell -> Value] /\ reading \in [Cell -> Value]
  BY DEF DebtInv, TypeOK
<1>2. ASSUME NEW c \in Cell, Compute(c) \/ Publish(c)
      PROVE  DebtInv'
  <2>1. \A d \in Cell : Stale(d)' => Stale(d)
    BY <1>1, <1>2 DEF Compute, Publish, Stale
  <2> QED BY <1>2, <2>1, NoStackKeepsDebts DEF Compute, Publish
<1>3. CASE SignIn
  <2>1. ASSUME NEW c \in Cell, Stale(c)'
        PROVE  Stale(c)
    <3>1. Changed(reading, Account) \in [Cell -> Value]
      BY <1>1, Values
    <3>2. \/ Dropped(cache, Account)[c] = "stale"
          \/ Excused(Changed(reading, Account), Account)[c] = "stale"
      BY <1>3, <2>1 DEF SignIn, Stale
    <3>3. Dropped(cache, Account)[c] = "stale" => cache[c] = "stale"
      BY <1>1, StaleAfter
    <3>4. Excused(Changed(reading, Account), Account)[c] = "stale" => reading[c] = "stale"
      BY <1>1, <3>1, StaleAfter
    <3> QED BY <3>2, <3>3, <3>4 DEF Stale
  <2> QED BY <1>3, <2>1, NoStackKeepsDebts DEF SignIn
<1>4. ASSUME NEW t \in Task, NEW k \in Command, Start(t, k)
      PROVE  DebtInv'
  <2>1. /\ stack[t] = <<>> /\ Call(t, k, <<>>, FALSE) /\ filters' = filters
    BY <1>4 DEF Start
  <2>2. <<>> \in Stack /\ FALSE \in BOOLEAN
    BY NoCommands
  <2>3. \A c \in Cell : InDebt(stack[t], c) => InDebt(<<>>, c)
    BY <2>1
  <2> QED BY <2>1, <2>2, <2>3, NothingIsSound, CallKeepsAllDebts
<1>5. ASSUME NEW t \in Task, Operate(t)
      PROVE  DebtInv'
  BY <1>5, OperateKeepsDebts
<1>6. ASSUME NEW t \in Task,
             \/ HandlerThrows(t) \/ HandlerReturns(t)
             \/ FilterReturns(t) \/ InvalidationMiddleware(t)
      PROVE  DebtInv'
  BY <1>6, OthersKeepDebts
<1>7. CASE UNCHANGED vars
  BY <1>7, NoStackKeepsDebts DEF vars, Stale
<1> QED BY <1>2, <1>3, <1>4, <1>5, <1>6, <1>7 DEF Next

\* Under filters that call next() once, as those of the repository do, in any number and
\* any order: when a command has returned, nothing it changed, or what it called changed,
\* is served as it was before.
THEOREM DeclaredTheorem ==
    ASSUME NoRetry
    PROVE  Spec => []StaleOnlyUntilDeclared
<1>1. Init => DebtInv
  <2> SUFFICES ASSUME Init PROVE DebtInv
    OBVIOUS
  <2>1. TypeOK
    BY InitSessions DEF SessionInv
  <2>2. \A t \in Task : Sound(stack[t])
    BY NothingIsSound DEF Init
  <2>3. \A c \in Cell : ~Stale(c)
    BY DEF Init, Stale
  <2> QED BY <2>1, <2>2, <2>3 DEF DebtInv
<1>2. DebtInv /\ TypeOK' /\ [Next]_vars => DebtInv'
  BY NextKeepsDebts
<1>3. DebtInv => StaleOnlyUntilDeclared
  BY DebtInvIsEnough
<1> QED BY <1>1, <1>2, <1>3, TypeTheorem, PTL DEF Spec
=============================================================================
