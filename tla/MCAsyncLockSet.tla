--------------------------- MODULE MCAsyncLockSet ---------------------------
(***************************************************************************)
(* Bounds for AsyncLockSet: three tasks queue up on a key while a second   *)
(* key has its own lock; as many heap addresses as tasks.  What the set is *)
(* locked by are the keys of inputs, and that different calls have         *)
(* different ones is ComputedInput's part: first the inputs of the calls   *)
(* below are constructed, with the arguments of computed-input.test.ts and *)
(* others that differ from them by the type of a value, by a quote or a    *)
(* comma, by the place of a value or a bracket, or only by the order of    *)
(* properties; then the tasks start.                                       *)
(***************************************************************************)
EXTENDS AsyncLockSet, ComputedInput

CONSTANTS s1, s2

Str(text) == [type |-> "string", text |-> text]
Num(text) == [type |-> "number", text |-> text]
Null == [type |-> "null", text |-> "null"]
Undefined == [type |-> "undefined", text |-> "undefined"]
Arr(items) == [type |-> "array", items |-> items]
Obj(props) == [type |-> "object", props |-> props]
Prop(name, value) == [name |-> name, value |-> value]

A1 == Prop("a", Num("1"))
B2 == Prop("b", Num("2"))
Y3 == Prop("y", Num("3"))

MCArgs ==
    << <<>>,
       <<Str("alice")>>, <<Str("")>>, <<Str("42")>>, <<Num("42")>>,
       <<Str("null")>>, <<Null>>, <<Null, Undefined>>,
       <<Str("a,b")>>, <<Str("a"), Str("b")>>, <<Str("a\",\"b")>>, <<Str("a\\"), Str("b")>>,
       <<Arr(<<Num("1"), Num("2")>>)>>, <<Arr(<<Num("2"), Num("1")>>)>>, <<Num("1"), Num("2")>>,
       <<Arr(<<Num("1")>>), Num("2")>>, <<Arr(<<>>)>>, <<Obj(<<>>)>>,
       <<Obj(<<A1, B2>>)>>, <<Obj(<<B2, A1>>)>>, <<Obj(<<Prop("a", Str("1")), B2>>)>>,
       <<Obj(<<Prop("x", Obj(<<A1, B2>>)), Y3>>)>>, <<Obj(<<Y3, Prop("x", Obj(<<B2, A1>>))>>)>> >>

CallsOf(service, method) ==
    [n \in DOMAIN MCArgs |-> [service |-> service, method |-> method, args |-> MCArgs[n]]]

MCCalls ==
    CallsOf(s1, "getUser") \o CallsOf(s2, "getUser")
        \o CallsOf(s1, "getCart") \o CallsOf(s1, "getUser")

MCInit == Init /\ NoInputs

MCNext ==
    \/ Construct /\ UNCHANGED vars
    \/ Len(keys) = Len(Calls) /\ Next /\ UNCHANGED inputVars

\* The fairness is that of FairSpec.
MCSpec ==
    /\ MCInit
    /\ [][MCNext]_<<vars, inputVars>>
    /\ \A t \in Task : WF_vars(Resume(t)) /\ WF_vars(Release(t))
=============================================================================
