-------------------------------- MODULE Commands --------------------------------
(***************************************************************************)
(* The command bus of @fnodejs/commandr: the pipeline of filters of a call *)
(* (packages/commandr/src/commander.ts), the context nested commands share *)
(* (command-context.ts), the two passes of a handler                       *)
(* (invalidation-filter.ts), and what @fnodejs/auth adds: the session      *)
(* filter and the in-memory service, which invalidates by itself.          *)
(*                                                                         *)
(* A cell is a piece of data with the computed method that shows it.       *)
(* Commands change cells and then declare it; readers run in between.      *)
(***************************************************************************)
EXTENDS Naturals, SequencesExt

CONSTANTS
    Task,         \* the callers outside of any command
    Cell,
    Account,      \* the cells of one session of InMemoryAuthService
    Command,
    Handler,      \* #handlers: what the handler of a command does, in either pass
    SessionOf,    \* the session a command carries
    Pipelines,    \* the choices of #filters, the outermost first
    NoSession,
    MaxFailure    \* bound on the exceptions of handlers

Session == {SessionOf[k] : k \in Command} \union {NoSession}

Operation ==
    [do : {"write", "invalidate"}, what : Cell] \union [do : {"call"}, what : Command]

ASSUME AccountAssumption == Account \subseteq Cell
ASSUME HandlerAssumption ==
    /\ DOMAIN Handler \subseteq Command
    /\ \A k \in DOMAIN Handler : Handler[k] \in [change : Seq(Operation), declare : Seq(Operation)]
ASSUME PipelinesAssumption == Pipelines \subseteq Seq({"session", "invalidation", "retry"})
ASSUME BoundAssumption == MaxFailure \in Nat

\* A handler tells, in the invalidation scope, every cell it changes, and changes none
\* there: what the pattern of README.md asks of it.
ASSUME DeclarationAssumption ==
    \A k \in DOMAIN Handler : \A c \in Cell :
        /\ [do |-> "write", what |-> c] \in Range(Handler[k].change) =>
              [do |-> "invalidate", what |-> c] \in Range(Handler[k].declare)
        /\ [do |-> "write", what |-> c] \notin Range(Handler[k].declare)

VARIABLES
    filters,   \* #filters of the commander
    stack,     \* the calls of each task that have not returned, the innermost one first
    items,     \* the bag its commands share
    cache,     \* what the registry holds of each cell
    reading,   \* what the computation of each cell in progress has read
    ran,       \* history: the commands of the outermost call of each task
    failures   \* how many exceptions there were

vars == <<filters, stack, items, cache, reading, ran, failures>>

\* A value is "excused" once the invalidation that should have hit it was lost: it came
\* while the value was being computed, or an exception prevented it.
Value == {"none", "fresh", "stale", "excused"}

\* The place of the handler in a pipeline, after all the filters.
Handling == Len(filters) + 1

\* A handler at its next operation, or a filter that awaits its first or second
\* invocation of what follows it; and the cells changed but not yet declared.
Frame == [index : 1..Handling, command : DOMAIN Handler,
          invalidating : BOOLEAN, at : Nat \ {0}, owes : SUBSET Cell]

In(f) == IF f.index = Handling THEN "handler" ELSE filters[f.index]

TypeOK ==
    /\ filters \in Pipelines
    /\ stack \in [Task -> Seq(Frame)]
    /\ items \in [Task -> Session]
    /\ cache \in [Cell -> Value]
    /\ reading \in [Cell -> Value]
    /\ ran \in [Task -> SUBSET Command]
    /\ failures \in 0..MaxFailure

-----------------------------------------------------------------------------
(***************************************************************************)
(* Cells.                                                                  *)
(***************************************************************************)

Changed(values, C) ==
    [c \in Cell |-> IF c \in C /\ values[c] = "fresh" THEN "stale" ELSE values[c]]

Excused(values, C) ==
    [c \in Cell |-> IF c \in C /\ values[c] = "stale" THEN "excused" ELSE values[c]]

Dropped(values, C) == [c \in Cell |-> IF c \in C THEN "none" ELSE values[c]]

\* The computed methods of C are called in an invalidation scope: what is registered is
\* invalidated, what is being computed is not found.
Invalidate(C) ==
    /\ cache' = Dropped(cache, C)
    /\ reading' = Excused(reading, C)

\* A reader finds nothing cached, and reads the data.
Compute(c) ==
    /\ cache[c] = "none"
    /\ reading[c] = "none"
    /\ reading' = [reading EXCEPT ![c] = "fresh"]
    /\ UNCHANGED <<filters, stack, items, cache, ran, failures>>

Publish(c) ==
    /\ reading[c] # "none"
    /\ cache' = [cache EXCEPT ![c] = reading[c]]
    /\ reading' = [reading EXCEPT ![c] = "none"]
    /\ UNCHANGED <<filters, stack, items, ran, failures>>

\* signIn() or signOut(), in one go.
SignIn ==
    /\ cache' = Dropped(cache, Account)
    /\ reading' = Excused(Changed(reading, Account), Account)
    /\ UNCHANGED <<filters, stack, items, ran, failures>>

-----------------------------------------------------------------------------
(***************************************************************************)
(* Calls.                                                                  *)
(***************************************************************************)

Invocation(index, k, invalidating, owes) ==
    [index |-> index, command |-> k, invalidating |-> invalidating, at |-> 1, owes |-> owes]

\* The frames of a call at its first await: every filter has called next() by then.
Pipeline(k, invalidating) ==
    Reverse([i \in 1..Handling |-> Invocation(i, k, invalidating, {})])

\* Faulty variants of Items: the outermost call has no bag, or that of the call before.
ItemsMissing(t, outermost) == IF outermost THEN "undefined" ELSE items[t]

ItemsKept(t, outermost) == items[t]

\* The items of the context of a call: its own, or those of the outer context.
Items(t, outermost) == IF outermost THEN NoSession ELSE items[t]

\* createSessionMiddleware().
WithSession(k, bag) ==
    IF "session" \in Range(filters) /\ SessionOf[k] # NoSession THEN SessionOf[k] ELSE bag

\* An exception goes through the frames of `called`, until a filter tries again: the
\* index of its call is used up, so its next() goes to the handler straight.
Retries(called) == {i \in DOMAIN called : In(called[i]) = "retry" /\ called[i].at = 1}

OwedBy(frames) == UNION {f.owes : f \in Range(frames)}

Fail(t, called) ==
    \/ \E i \in Retries(called) :
          /\ \A j \in Retries(called) : i <= j
          /\ LET f == called[i]
                 owed == OwedBy(SubSeq(called, 1, i - 1))
             IN  stack' = [stack EXCEPT ![t] =
                     <<Invocation(Handling, f.command, f.invalidating, owed), [f EXCEPT !.at = 2]>>
                         \o SubSeq(called, i + 1, Len(called))]
          /\ UNCHANGED <<cache, reading>>
    \/ /\ Retries(called) = {}
       /\ stack' = [stack EXCEPT ![t] = <<>>]
       /\ cache' = Excused(cache, OwedBy(called))
       /\ reading' = Excused(reading, OwedBy(called))

\* Commander.call(), up to the first operation of the handler.
Call(t, k, callers, invalidating) ==
    /\ ran' = [ran EXCEPT ![t] = IF callers = <<>> THEN {k} ELSE @ \union {k}]
    /\ IF k \in DOMAIN Handler
       THEN /\ items' = [items EXCEPT ![t] = WithSession(k, Items(t, callers = <<>>))]
            /\ stack' = [stack EXCEPT ![t] = Pipeline(k, invalidating) \o callers]
            /\ UNCHANGED <<cache, reading>>
       ELSE Fail(t, callers) /\ UNCHANGED items

Start(t, k) ==
    /\ stack[t] = <<>>
    /\ Call(t, k, <<>>, FALSE)
    /\ UNCHANGED <<filters, failures>>

-----------------------------------------------------------------------------
(***************************************************************************)
(* The innermost frame of a task goes on.                                  *)
(***************************************************************************)

Top(t) == Head(stack[t])

Operations(f) ==
    IF f.invalidating THEN Handler[f.command].declare ELSE Handler[f.command].change

\* The frames of t with its handler one operation further.
Advanced(t, owed) ==
    <<[Top(t) EXCEPT !.at = @ + 1, !.owes = @ \union owed]>> \o Tail(stack[t])

Operate(t) ==
    /\ stack[t] # <<>> /\ In(Top(t)) = "handler" /\ Top(t).at <= Len(Operations(Top(t)))
    /\ LET op == Operations(Top(t))[Top(t).at]
       IN  \/ /\ op.do = "write"
              /\ cache' = Changed(cache, {op.what})
              /\ reading' = Changed(reading, {op.what})
              /\ stack' = [stack EXCEPT ![t] = Advanced(t, {op.what})]
              /\ UNCHANGED <<items, ran>>
           \/ /\ op.do = "invalidate"
              /\ Invalidate({op.what})
              /\ stack' = [stack EXCEPT ![t] = Advanced(t, {})]
              /\ UNCHANGED <<items, ran>>
           \/ /\ op.do = "call"
              /\ Call(t, op.what, Advanced(t, {}), Top(t).invalidating)
    /\ UNCHANGED <<filters, failures>>

\* The handler throws instead.
HandlerThrows(t) ==
    /\ stack[t] # <<>> /\ In(Top(t)) = "handler"
    /\ failures < MaxFailure
    /\ failures' = failures + 1
    /\ Fail(t, stack[t])
    /\ UNCHANGED <<filters, items, ran>>

\* The frame on top returns to what called it, which owes what it still owed.
Return(t, owed) ==
    LET callers == Tail(stack[t])
    IN  IF callers = <<>>
        THEN /\ stack' = [stack EXCEPT ![t] = <<>>]
             /\ cache' = Excused(cache, owed)
             /\ reading' = Excused(reading, owed)
        ELSE /\ stack' = [stack EXCEPT ![t] =
                    <<[Head(callers) EXCEPT !.owes = @ \union owed]>> \o Tail(callers)]
             /\ UNCHANGED <<cache, reading>>

HandlerReturns(t) ==
    /\ stack[t] # <<>> /\ In(Top(t)) = "handler" /\ Top(t).at > Len(Operations(Top(t)))
    /\ Return(t, Top(t).owes)
    /\ UNCHANGED <<filters, items, ran, failures>>

\* A filter that does nothing after next().
FilterReturns(t) ==
    /\ stack[t] # <<>> /\ In(Top(t)) \in {"session", "retry"}
    /\ Return(t, Top(t).owes)
    /\ UNCHANGED <<filters, items, ran, failures>>

\* Faulty variant of SecondPass: the scope is not entered.
SecondPassOutside(f) == Invocation(Handling, f.command, f.invalidating, {})

\* The handler is called again, not through the pipeline but in an invalidation scope.
SecondPass(f) == Invocation(Handling, f.command, TRUE, {})

InvalidationMiddleware(t) ==
    /\ stack[t] # <<>> /\ In(Top(t)) = "invalidation"
    /\ IF Top(t).at = 1
       THEN /\ stack' = [stack EXCEPT ![t] =
                            <<SecondPass(Top(t)), [Top(t) EXCEPT !.at = 2]>> \o Tail(@)]
            /\ UNCHANGED <<cache, reading>>
       ELSE Return(t, {})
    /\ UNCHANGED <<filters, items, ran, failures>>

-----------------------------------------------------------------------------
Init ==
    /\ filters \in Pipelines
    /\ stack = [t \in Task |-> <<>>]
    /\ items = [t \in Task |-> NoSession]
    /\ cache = [c \in Cell |-> "none"]
    /\ reading = [c \in Cell |-> "none"]
    /\ ran = [t \in Task |-> {}]
    /\ failures = 0

Next ==
    \/ \E c \in Cell : Compute(c) \/ Publish(c)
    \/ SignIn
    \/ \E t \in Task :
          \/ \E k \in Command : Start(t, k)
          \/ Operate(t)
          \/ HandlerThrows(t)
          \/ HandlerReturns(t)
          \/ FilterReturns(t)
          \/ InvalidationMiddleware(t)

Spec == Init /\ [][Next]_vars

-----------------------------------------------------------------------------
\* Once a command has returned, whatever it called, nothing it changed is served as it
\* was before: stale values are served only while a command that changed them has yet to
\* declare it, or because that was lost: to a computation in progress, to an exception,
\* or to a filter outside the middleware that called next() twice (invalidation-filter.ts;
\* commander.ts:103).
StaleOnlyUntilDeclared ==
    \A c \in Cell :
        cache[c] = "stale" => \E t \in Task : c \in OwedBy(stack[t])

\* Within a command the bag holds a session of this call: one that some command of it
\* carried, and one whenever a command that has not returned carries one
\* (command-context.ts, items; session-middleware.ts).
SessionsStayInTheirCall ==
    \A t \in Task :
        stack[t] # <<>> =>
            /\ items[t] # NoSession => \E k \in ran[t] : items[t] = SessionOf[k]
            /\ "session" \in Range(filters) /\ (\E f \in Range(stack[t]) : SessionOf[f.command] # NoSession)
                  => items[t] # NoSession
=============================================================================
