----------------------------- MODULE ComputedInput -----------------------------
(***************************************************************************)
(* The keys of computed values (core/src/computed-input.ts).  Everything   *)
(* that is looked up by its input, in the registry, in the lock set and in *)
(* the cache of a proxy, is looked up by a text: the id of the service,    *)
(* the name of the method and a text of the arguments, in which an array   *)
(* or an object stands as a hash of 32 bits.  Texts are strings of         *)
(* printable ASCII; a value of JavaScript is a record with its type and    *)
(* what it consists of, its property list in the order of insertion.       *)
(***************************************************************************)
EXTENDS Integers, SequencesExt, TLC, Bitwise

\* The calls an input is constructed for, in this order: each a record of the service, the
\* method and the list of arguments.
CONSTANT Calls

-----------------------------------------------------------------------------
(***************************************************************************)
(* Characters, and numbers of 32 bits as their high and low 16 bits: TLC's *)
(* integers are too small for the products.                                *)
(***************************************************************************)

\* All printable characters but the backquote, in the order of their codes.
Printable ==
    " !\"#$%&'()*+,-./0123456789:;<=>?@ABCDEFGHIJKLMNOPQRSTUVWXYZ[\\]^_"
    \o "abcdefghijklmnopqrstuvwxyz{|}~"

Chars(str) == [i \in 1..Len(str) |-> SubSeq(str, i, i)]

CharCode ==
    [ch \in ToSet(Chars(Printable)) |->
        LET i == CHOOSE i \in 1..Len(Printable) : Chars(Printable)[i] = ch
        IN  IF i + 31 < 96 THEN i + 31 ELSE i + 32]

\* The order of sort().
Precedes(str, other) ==
    LET code(s, i) == IF i > Len(s) THEN 0 ELSE CharCode[Chars(s)[i]]
    IN  \E n \in 1..Len(other) :
            /\ \A i \in 1..(n - 1) : code(str, i) = code(other, i)
            /\ code(str, n) < code(other, n)

Half == 65536

\* x >>> 0, given -x.
Negated(h) == IF h[2] = 0 THEN <<(Half - h[1]) % Half, 0>> ELSE <<Half - 1 - h[1], Half - h[2]>>

AtLeast(h, bound) == h[1] > bound[1] \/ (h[1] = bound[1] /\ h[2] >= bound[2])

\* A product of h and FNV_PRIME is a double of 53 bits: from 2^53, 2^54 and 2^55 on, that
\* is for h from these bounds on, it is a multiple of 2, 4 and 8.
Inexact == <<<<8191, 52641>>, <<16383, 39745>>, <<32767, 13954>>>>

Spacing(h) == 2 ^ Cardinality({k \in 1..3 : AtLeast(h, Inexact[k])})

\* The nearest multiple of the spacing, the even one of two.
Rounded(h, spacing) ==
    LET rest == h[2] % spacing
        up   == \/ 2 * rest > spacing
                \/ 2 * rest = spacing /\ (h[2] \div spacing) % 2 = 1
        low  == h[2] - rest + IF up THEN spacing ELSE 0
    IN  <<(h[1] + (low \div Half)) % Half, low % Half>>

\* (h * FNV_PRIME) >>> 0 for an h that is not negative: FNV_PRIME is 2^24 + 403.
TimesPrime(h) ==
    LET low  == h[2] * 403
        high == (h[1] * 403) + (low \div Half) + ((h[2] % 256) * 256)
    IN  Rounded(<<high % Half, low % Half>>, Spacing(h))

\* One character: ^ takes and gives 32 bits with a sign.
HashChar(hash, ch) ==
    LET h == <<hash[1], hash[2] ^^ CharCode[ch]>>
    IN  IF h[1] < Half \div 2 THEN TimesPrime(h) ELSE Negated(TimesPrime(Negated(h)))

FnvOffset == <<33052, 39517>>

\* fnv1aStr().
Fnv1aStr(str, hash) == FoldLeft(HashChar, hash, Chars(str))

\* toString(36).
RECURSIVE Base36(_)
Base36(h) ==
    LET carried  == ((h[1] % 36) * Half) + h[2]
        quotient == <<h[1] \div 36, carried \div 36>>
        digit    == Chars("0123456789abcdefghijklmnopqrstuvwxyz")[(carried % 36) + 1]
    IN  IF quotient = <<0, 0>> THEN digit ELSE Base36(quotient) \o digit

-----------------------------------------------------------------------------
(***************************************************************************)
(* The text of the arguments.                                              *)
(***************************************************************************)

\* Faulty variant of JsonString: the quotes are left out.
JsonStringBare(str) == str

\* JSON.stringify() of a string.
JsonString(str) ==
    LET add(s, ch) == s \o (IF ch \in {"\"", "\\"} THEN "\\" ELSE "") \o ch
    IN  FoldLeft(add, "\"", Chars(str)) \o "\""

Joined(texts) ==
    IF texts = <<>> THEN ""
    ELSE FoldLeft(LAMBDA s, text : s \o "," \o text, Head(texts), Tail(texts))

\* Faulty variant of SortedKeys: the order of insertion.
SortedKeysNot(props) == props

\* Object.keys(arg).sort(), with the values.
SortedKeys(props) == SortSeq(props, LAMBDA p, q : Precedes(p.name, q.name))

\* hashArg().  Hashing texts one after another hashes their concatenation.
RECURSIVE HashArg(_)
HashArg(arg) ==
    CASE arg.type = "string" -> JsonString(arg.text)
      [] arg.type = "array" ->
            LET texts == [i \in DOMAIN arg.items |-> HashArg(arg.items[i])]
            IN  Base36(Fnv1aStr("[" \o Joined(texts), FnvOffset))
      [] arg.type = "object" ->
            LET add(hash, p) == Fnv1aStr(p.name \o ":" \o HashArg(p.value) \o "|", hash)
            IN  Base36(FoldLeft(add, FnvOffset, SortedKeys(arg.props)))
      [] OTHER -> arg.text

\* hashArgs().
HashArgs(args) == Joined([i \in DOMAIN args |-> HashArg(args[i])])

-----------------------------------------------------------------------------
(***************************************************************************)
(* The inputs, constructed one after another.                              *)
(***************************************************************************)

VARIABLES
    serviceIdMap,   \* the id of each service that has one
    nextServiceId,
    keys            \* the keys of the inputs constructed so far

inputVars == <<serviceIdMap, nextServiceId, keys>>

\* The static fields before the first input.
NoInputs ==
    /\ serviceIdMap = [service \in {} |-> 0]
    /\ nextServiceId = 1
    /\ keys = <<>>

\* Faulty variant of GetServiceId: the id is not looked up.
GetServiceIdAnew(service) ==
    /\ serviceIdMap' = (service :> nextServiceId) @@ serviceIdMap
    /\ nextServiceId' = nextServiceId + 1

\* getServiceId(), which leaves the id that it returns in the map.
GetServiceId(service) ==
    IF service \in DOMAIN serviceIdMap
    THEN UNCHANGED <<serviceIdMap, nextServiceId>>
    ELSE /\ serviceIdMap' = (service :> nextServiceId) @@ serviceIdMap
         /\ nextServiceId' = nextServiceId + 1

\* computeKey(), the id being known.
ComputeKey(id, call) == ToString(id) \o ":" \o call.method \o ":" \o HashArgs(call.args)

\* new ComputedInput(...), for the next call.
Construct ==
    /\ Len(keys) < Len(Calls)
    /\ LET call == Calls[Len(keys) + 1]
       IN  /\ GetServiceId(call.service)
           /\ keys' = Append(keys, ComputeKey(serviceIdMap'[call.service], call))

-----------------------------------------------------------------------------
(***************************************************************************)
(* The property.                                                           *)
(***************************************************************************)

\* Whether two values are the same but for the order of their properties.
RECURSIVE Same(_, _)
Same(x, y) ==
    /\ x.type = y.type
    /\ CASE x.type = "array" ->
              /\ Len(x.items) = Len(y.items)
              /\ \A i \in DOMAIN x.items : Same(x.items[i], y.items[i])
         [] x.type = "object" ->
              /\ Len(x.props) = Len(y.props)
              /\ \A p \in ToSet(x.props) : \E q \in ToSet(y.props) :
                    p.name = q.name /\ Same(p.value, q.value)
         [] OTHER -> x.text = y.text

SameCall(c, d) ==
    /\ c.service = d.service
    /\ c.method = d.method
    /\ Len(c.args) = Len(d.args)
    /\ \A n \in DOMAIN c.args : Same(c.args[n], d.args[n])

\* A new input equals (equals(), computed-input.test.ts) an earlier one exactly when they are
\* for the same call, whatever was constructed in between: the id of a service is given once,
\* quotes keep strings from other values and from the commas around them, and the order of
\* properties does not matter.
KeysTellApart ==
    LET new == Len(keys)
    IN  \A i \in DOMAIN keys : keys[i] = keys[new] <=> SameCall(Calls[i], Calls[new])
=============================================================================
