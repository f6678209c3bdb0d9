----------------------------- MODULE AsyncLockSet -----------------------------
(***************************************************************************)
(* AsyncLockSet<K> and the AsyncLock inside each of its entries            *)
(* (packages/core/src/async-lock-set.ts, async-lock.ts).  Entries are heap *)
(* objects: one is created when a key that has none is locked, and dropped *)
(* from the map when its last user releases it, while callers that queued  *)
(* on it still hold a reference.  An await splits lock() in two steps.     *)
(***************************************************************************)
EXTENDS Naturals, Sequences, FiniteSets

CONSTANTS
    Key,
    Task,     \* async calls of lock()
    Entry,    \* heap addresses of entries
    NoEntry

ASSUME NoEntryAssumption == NoEntry \notin Entry

VARIABLES
    entries,  \* #entries, the Map from keys to entries
    heap,     \* the entry objects
    pc,       \* where each task stands
    key,      \* the key it locks
    entry     \* the entry its closure captured

vars == <<entries, heap, pc, key, entry>>

\* Where a task stands: "granted" is the time between the resolution of its
\* promise and the microtask that resumes it.
Stage == {"idle", "queued", "granted", "holding"}

EntryObject == [locked : BOOLEAN, queue : Seq(Task), useCount : Nat]

NewEntry == [locked |-> FALSE, queue |-> <<>>, useCount |-> 0]

TypeOK ==
    /\ entries \in [Key -> Entry \union {NoEntry}]
    /\ heap \in [Entry -> EntryObject]
    /\ pc \in [Task -> Stage]
    /\ key \in [Task -> Key]
    /\ entry \in [Task -> Entry \union {NoEntry}]

Init ==
    /\ entries = [k \in Key |-> NoEntry]
    /\ heap = [e \in Entry |-> NewEntry]
    /\ pc = [t \in Task |-> "idle"]
    /\ key \in [Task -> Key]
    /\ entry = [t \in Task |-> NoEntry]

\* An address the allocator may hand out: nothing refers to it.
Garbage(e) ==
    /\ \A k \in Key : entries[k] # e
    /\ \A t \in Task : entry[t] # e

-----------------------------------------------------------------------------
\* Faulty variant of Acquired: the newest request goes first.
AcquiredFirst(obj, t) ==
    IF obj.locked
    THEN [obj EXCEPT !.useCount = @ + 1, !.queue = <<t>> \o @]
    ELSE [obj EXCEPT !.useCount = @ + 1, !.locked = TRUE]

\* An entry object counted once more, its AsyncLock taken by t or queued on.
Acquired(obj, t) ==
    IF obj.locked
    THEN [obj EXCEPT !.useCount = @ + 1, !.queue = Append(@, t)]
    ELSE [obj EXCEPT !.useCount = @ + 1, !.locked = TRUE]

\* lock() up to its await: the entry is found or created, then acquired.
Lock(t, k) ==
    /\ pc[t] = "idle"
    /\ \E e \in Entry :
         LET isNew == entries[k] = NoEntry
             found == IF isNew THEN NewEntry ELSE heap[e]
         IN  /\ IF isNew THEN Garbage(e) ELSE e = entries[k]
             /\ entries' = [entries EXCEPT ![k] = e]
             /\ heap' = [heap EXCEPT ![e] = Acquired(found, t)]
             /\ pc' = [pc EXCEPT ![t] = IF found.locked THEN "queued" ELSE "granted"]
             /\ entry' = [entry EXCEPT ![t] = e]
    /\ key' = [key EXCEPT ![t] = k]

\* The continuation of the await: the caller has its releaser.
Resume(t) ==
    /\ pc[t] = "granted"
    /\ pc' = [pc EXCEPT ![t] = "holding"]
    /\ UNCHANGED <<entries, heap, key, entry>>

\* Faulty variants: a releaser that runs both of its halves twice; a release that
\* frees the lock without resolving the promise of the next task; an entry dropped
\* one release too early; an entry never dropped.
ReleasedTwice(obj) ==
    IF obj.queue = <<>>
    THEN [obj EXCEPT !.useCount = @ - 2, !.locked = FALSE]
    ELSE [obj EXCEPT !.useCount = @ - 2, !.queue = Tail(@)]

WokenNobody(obj) == {}

UnusedTooEarly(obj) == obj.useCount <= 2

UnusedNever(obj) == FALSE

\* The entry object after a release; the AsyncLock stays locked when handed over.
Released(obj) ==
    IF obj.queue = <<>>
    THEN [obj EXCEPT !.useCount = @ - 1, !.locked = FALSE]
    ELSE [obj EXCEPT !.useCount = @ - 1, !.queue = Tail(@)]

\* The task the lock is handed over to.
Woken(obj) == IF obj.queue = <<>> THEN {} ELSE {Head(obj.queue)}

\* Whether the release was the last use of the entry.
Unused(obj) == obj.useCount = 1

\* The first dispose of the releaser; the later ones return at once.
Release(t) ==
    /\ pc[t] = "holding"
    /\ LET obj == heap[entry[t]]
       IN  /\ heap' = [heap EXCEPT ![entry[t]] = Released(obj)]
           /\ pc' = [u \in Task |-> IF u = t THEN "idle"
                                   ELSE IF u \in Woken(obj) THEN "granted" ELSE pc[u]]
           /\ entries' = IF Unused(obj)
                         THEN [entries EXCEPT ![key[t]] = NoEntry] ELSE entries
    /\ entry' = [entry EXCEPT ![t] = NoEntry]
    /\ UNCHANGED key

Next ==
    \E t \in Task : \/ \E k \in Key : Lock(t, k)
                    \/ Resume(t)
                    \/ Release(t)

Spec == Init /\ [][Next]_vars

\* Microtasks run, and a caller disposes its releaser (it declares it with using).
FairSpec == Spec /\ \A t \in Task : WF_vars(Resume(t)) /\ WF_vars(Release(t))

-----------------------------------------------------------------------------
Owning(t) == pc[t] \in {"granted", "holding"}

Using(k) == {t \in Task : pc[t] # "idle" /\ key[t] = k}

\* Two tasks never own the same key, although the entry that keeps them apart is
\* deleted and created again under way (async-lock-set.ts, lock and its releaser).
MutualExclusion ==
    \A t, u \in Task : Owning(t) /\ Owning(u) /\ key[t] = key[u] => t = u

\* The map holds the entries in use and no others, so it neither leaks entries nor
\* drops one that a queued task still needs (async-lock-set.ts, useCount).
EntriesInUse ==
    \A k \in Key :
        /\ entries[k] = NoEntry <=> Using(k) = {}
        /\ entries[k] # NoEntry => heap[entries[k]].useCount = Cardinality(Using(k))

\* Who calls lock() gets the lock (async-lock.ts, #release hands it to the queue).
EveryRequestGranted == \A t \in Task : pc[t] = "queued" ~> pc[t] = "holding"

-----------------------------------------------------------------------------
\* Forgetting the entries, the lock set is a mutex per key, first come first served.
Mutex == INSTANCE KeyedMutex WITH
    owners  <- [k \in Key |-> {t \in Task : Owning(t) /\ key[t] = k}],
    waiting <- [k \in Key |-> IF entries[k] = NoEntry THEN <<>> ELSE heap[entries[k]].queue]

ImplementsKeyedMutex == Mutex!Spec
=============================================================================
