-------------------------- MODULE AsyncLockSetProofs --------------------------
(***************************************************************************)
(* What AsyncLockSet guarantees for any number of tasks, keys and heap     *)
(* addresses: the invariants its run checks, and that it implements        *)
(* KeyedMutex, the mutex per key that ComputeMethods relies on.            *)
(***************************************************************************)
EXTENDS AsyncLockSet, FiniteSetTheorems, TLAPS

\* The requests an entry's AsyncLock has queued.
Queue(k) == heap[entries[k]].queue

\* A task in lock() or inside its critical section uses the entry that the map holds
\* for its key; an idle one keeps no entry alive.
Captured ==
    \A t \in Task :
        /\ pc[t] # "idle" => entries[key[t]] # NoEntry /\ entry[t] = entries[key[t]]
        /\ pc[t] = "idle" => entry[t] = NoEntry

\* No entry object serves two keys.
Separate ==
    \A j, k \in Key : entries[j] = entries[k] /\ entries[j] # NoEntry => j = k

\* An entry of the map is locked, and some task of its key has the lock.
Taken ==
    \A k \in Key : entries[k] # NoEntry =>
        /\ heap[entries[k]].locked
        /\ \E t \in Task : Owning(t) /\ key[t] = k

\* The queue of an entry holds the waiting tasks of its key, each of them once.
QueuedOnce ==
    \A k \in Key : entries[k] # NoEntry =>
        /\ \A i \in 1..Len(Queue(k)) :
              pc[Queue(k)[i]] = "queued" /\ key[Queue(k)[i]] = k
        /\ \A i, j \in 1..Len(Queue(k)) : Queue(k)[i] = Queue(k)[j] => i = j
        /\ \A t \in Task : pc[t] = "queued" /\ key[t] = k =>
              \E i \in 1..Len(Queue(k)) : Queue(k)[i] = t

\* The use count of an entry counts the tasks of its key, of which there are
\* finitely many however many tasks exist.
Counted ==
    \A k \in Key :
        /\ IsFiniteSet(Using(k))
        /\ entries[k] # NoEntry => heap[entries[k]].useCount = Cardinality(Using(k))

\* The inductive invariant: what ties the entry of a key to the tasks that use it.
IInv ==
    /\ TypeOK
    /\ MutualExclusion
    /\ Captured
    /\ Separate
    /\ Taken
    /\ QueuedOnce
    /\ Counted

-----------------------------------------------------------------------------
\* Nobody uses a lock set that was only constructed.
LEMMA InitIInv == Init => IInv
<1> SUFFICES ASSUME Init PROVE IInv
  OBVIOUS
<1>1. TypeOK
  BY DEF Init, TypeOK, NewEntry, EntryObject, Stage
<1>2. ASSUME NEW k \in Key PROVE IsFiniteSet(Using(k))
  <2>1. Using(k) = {}
    BY DEF Init, Using
  <2> QED BY <2>1, FS_EmptySet
<1> QED BY <1>1, <1>2 DEF IInv, Init, MutualExclusion, Owning, Captured, Separate, Taken,
                          QueuedOnce, Counted

\* A key that has no entry is free: nobody waits for it, nobody owns it.
LEMMA NoEntryNoUser ==
    ASSUME IInv, NEW k \in Key, entries[k] = NoEntry
    PROVE  Using(k) = {}
BY DEF IInv, Captured, Using

\* Taking an AsyncLock: a free one is locked, a locked one queues the request.
LEMMA AcquiredFields ==
    ASSUME NEW obj \in EntryObject, NEW t \in Task
    PROVE  /\ Acquired(obj, t) \in EntryObject
           /\ Acquired(obj, t).useCount = obj.useCount + 1
           /\ Acquired(obj, t).locked
           /\ Acquired(obj, t).queue =
                 IF obj.locked THEN Append(obj.queue, t) ELSE obj.queue
<1> DEFINE n == obj.useCount + 1
           q == Append(obj.queue, t)
           new == Acquired(obj, t)
<1>1. n \in Nat /\ q \in Seq(Task)
  BY DEF EntryObject
<1>2. CASE obj.locked
  <2>1. new = [obj EXCEPT !.useCount = n, !.queue = q]
    BY <1>2 DEF Acquired
  <2>2. /\ new \in EntryObject
        /\ new.useCount = n /\ new.queue = q /\ new.locked = obj.locked
    <3> HIDE DEF n, q, new
    <3> QED BY <1>1, <2>1 DEF EntryObject
  <2> QED BY <1>2, <2>2
<1>3. CASE ~obj.locked
  <2>1. new = [obj EXCEPT !.useCount = n, !.locked = TRUE]
    BY <1>3 DEF Acquired
  <2>2. new \in EntryObject /\ new.useCount = n /\ new.queue = obj.queue /\ new.locked
    <3> HIDE DEF n, new
    <3> QED BY <1>1, <2>1 DEF EntryObject
  <2> QED BY <1>3, <2>2
<1> QED BY <1>2, <1>3

\* Giving an AsyncLock up: it is handed to the oldest request or becomes free.
LEMMA ReleasedFields ==
    ASSUME NEW obj \in EntryObject, obj.useCount # 0
    PROVE  /\ Released(obj) \in EntryObject
           /\ Released(obj).useCount = obj.useCount - 1
           /\ obj.queue # <<>> => /\ Released(obj).locked = obj.locked
                                  /\ Released(obj).queue = Tail(obj.queue)
           /\ obj.queue = <<>> => /\ Released(obj).locked = FALSE
                                  /\ Released(obj).queue = <<>>
<1> DEFINE n == obj.useCount - 1
           q == Tail(obj.queue)
           new == Released(obj)
<1>1. n \in Nat
  BY DEF EntryObject
<1>2. CASE obj.queue # <<>>
  <2>1. q \in Seq(Task)
    BY <1>2 DEF EntryObject
  <2>2. new = [obj EXCEPT !.useCount = n, !.queue = q]
    BY <1>2 DEF Released
  <2>3. /\ new \in EntryObject
        /\ new.useCount = n /\ new.queue = q /\ new.locked = obj.locked
    <3> HIDE DEF n, q, new
    <3> QED BY <1>1, <2>1, <2>2 DEF EntryObject
  <2> QED BY <1>2, <2>3
<1>3. CASE obj.queue = <<>>
  <2>1. new = [obj EXCEPT !.useCount = n, !.locked = FALSE]
    BY <1>3 DEF Released
  <2>2. /\ new \in EntryObject
        /\ new.useCount = n /\ new.queue = obj.queue /\ new.locked = FALSE
    <3> HIDE DEF n, new
    <3> QED BY <1>1, <2>1 DEF EntryObject
  <2> QED BY <1>3, <2>2
<1> QED BY <1>2, <1>3

\* What lock() does to a key without an entry: a new one is created, taken at once.
LEMMA LockNew ==
    ASSUME IInv, NEW t \in Task, NEW k \in Key, Lock(t, k), entries[k] = NoEntry
    PROVE  \E e \in Entry :
              /\ Garbage(e)
              /\ entries' = [entries EXCEPT ![k] = e]
              /\ heap' = [heap EXCEPT ![e] = heap'[e]]
              /\ heap'[e] \in EntryObject
              /\ heap'[e].locked /\ heap'[e].queue = <<>> /\ heap'[e].useCount = 1
              /\ pc' = [pc EXCEPT ![t] = "granted"]
              /\ entry' = [entry EXCEPT ![t] = e]
<1>1. PICK e \in Entry :
         /\ Garbage(e)
         /\ entries' = [entries EXCEPT ![k] = e]
         /\ heap' = [heap EXCEPT ![e] = Acquired(NewEntry, t)]
         /\ pc' = [pc EXCEPT ![t] = "granted"]
         /\ entry' = [entry EXCEPT ![t] = e]
  BY DEF Lock, NewEntry
<1>2. /\ NewEntry \in EntryObject
      /\ NewEntry.locked = FALSE /\ NewEntry.queue = <<>> /\ NewEntry.useCount = 0
  BY DEF NewEntry, EntryObject
<1>3. heap'[e] = Acquired(NewEntry, t)
  BY <1>1 DEF IInv, TypeOK
<1>4. /\ heap'[e] \in EntryObject
      /\ heap'[e].locked /\ heap'[e].queue = <<>> /\ heap'[e].useCount = 1
  BY <1>2, <1>3, AcquiredFields
<1> QED BY <1>1, <1>3, <1>4

\* What lock() does to a key that has an entry: the request joins its queue.
LEMMA LockFound ==
    ASSUME IInv, NEW t \in Task, NEW k \in Key, Lock(t, k), entries[k] # NoEntry
    PROVE  /\ entries[k] \in Entry
           /\ entries' = entries
           /\ heap' = [heap EXCEPT ![entries[k]] = heap'[entries[k]]]
           /\ heap'[entries[k]] \in EntryObject
           /\ heap'[entries[k]].locked
           /\ heap'[entries[k]].queue = Append(Queue(k), t)
           /\ heap'[entries[k]].useCount = heap[entries[k]].useCount + 1
           /\ pc' = [pc EXCEPT ![t] = "queued"]
           /\ entry' = [entry EXCEPT ![t] = entries[k]]
<1> DEFINE e == entries[k]
<1>1. e \in Entry /\ heap[e] \in EntryObject /\ heap[e].locked
  BY DEF IInv, TypeOK, Taken
<1>2. /\ entries' = [entries EXCEPT ![k] = e]
      /\ heap' = [heap EXCEPT ![e] = Acquired(heap[e], t)]
      /\ pc' = [pc EXCEPT ![t] = "queued"]
      /\ entry' = [entry EXCEPT ![t] = e]
  BY <1>1 DEF Lock
<1>3. entries' = entries /\ heap'[e] = Acquired(heap[e], t)
  BY <1>1, <1>2 DEF IInv, TypeOK
<1>4. /\ heap'[e] \in EntryObject
      /\ heap'[e].locked
      /\ heap'[e].queue = Append(heap[e].queue, t)
      /\ heap'[e].useCount = heap[e].useCount + 1
  <2> DEFINE new == Acquired(heap[e], t)
  <2>1. /\ new \in EntryObject
        /\ new.locked
        /\ new.queue = Append(heap[e].queue, t)
        /\ new.useCount = heap[e].useCount + 1
    BY <1>1, AcquiredFields
  <2> QED BY <1>3, <2>1
<1> QED BY <1>1, <1>2, <1>3, <1>4 DEF Queue

\* lock() on a free key preserves the invariant: the new entry is nobody else's.
LEMMA LockNewIInv ==
    ASSUME IInv, NEW t \in Task, NEW k \in Key, Lock(t, k), entries[k] = NoEntry
    PROVE  IInv'
<1>1. PICK e \in Entry :
         /\ Garbage(e)
         /\ entries' = [entries EXCEPT ![k] = e]
         /\ heap' = [heap EXCEPT ![e] = heap'[e]]
         /\ heap'[e] \in EntryObject
         /\ heap'[e].locked /\ heap'[e].queue = <<>> /\ heap'[e].useCount = 1
         /\ pc' = [pc EXCEPT ![t] = "granted"]
         /\ entry' = [entry EXCEPT ![t] = e]
  BY LockNew
<1>2. pc[t] = "idle" /\ key' = [key EXCEPT ![t] = k]
  BY DEF Lock
<1>3. TypeOK'
  BY <1>1, <1>2 DEF IInv, TypeOK, Stage
<1>4. \A u \in Task : pc[u] # "idle" => key[u] # k
  BY DEF IInv, Captured
<1>5. /\ entries'[k] = e /\ pc'[t] = "granted" /\ key'[t] = k
      /\ e # NoEntry
      /\ \A j \in Key \ {k} : /\ entries'[j] = entries[j]
                              /\ entries[j] # e
                              /\ entries[j] # NoEntry => heap'[entries[j]] = heap[entries[j]]
      /\ \A u \in Task \ {t} : pc'[u] = pc[u] /\ key'[u] = key[u]
  BY <1>1, <1>2, NoEntryAssumption DEF IInv, TypeOK, Garbage
<1>6. MutualExclusion'
  BY <1>4, <1>5 DEF IInv, MutualExclusion, Owning
<1>7. Captured'
  BY <1>1, <1>2, <1>4, <1>5 DEF IInv, TypeOK, Captured
<1>8. Separate'
  BY <1>5 DEF IInv, Separate
<1>9. Taken'
  BY <1>1, <1>2, <1>5 DEF IInv, Taken, Owning
<1>10. QueuedOnce'
  <2>1. ASSUME NEW j \in Key \ {k}, entries[j] # NoEntry
        PROVE  Queue(j)' = Queue(j) /\ Queue(j) \in Seq(Task)
    BY <1>5, <2>1 DEF IInv, TypeOK, Queue, EntryObject
  <2>2. Queue(k)' = <<>>
    BY <1>1, <1>5 DEF Queue
  <2>3. ASSUME NEW j \in Key, j # k, entries[j] # NoEntry
        PROVE  /\ \A i \in 1..Len(Queue(j)) :
                     pc'[Queue(j)[i]] = "queued" /\ key'[Queue(j)[i]] = j
               /\ \A u \in Task : pc'[u] = "queued" /\ key'[u] = j =>
                     \E i \in 1..Len(Queue(j)) : Queue(j)[i] = u
    <3>1. \A i \in 1..Len(Queue(j)) : Queue(j)[i] \in Task \ {t}
      BY <1>2, <2>1, <2>3 DEF IInv, QueuedOnce
    <3> QED BY <1>5, <2>3, <3>1 DEF IInv, QueuedOnce
  <2> QED BY SMTT(30), <1>4, <1>5, <2>1, <2>2, <2>3 DEF IInv, QueuedOnce
<1>11. ASSUME NEW j \in Key
       PROVE  /\ IsFiniteSet(Using(j)')
              /\ entries'[j] # NoEntry =>
                    heap'[entries'[j]].useCount = Cardinality(Using(j)')
  <2>1. CASE j # k
    <3>1. Using(j)' = Using(j)
      BY <1>2, <1>5, <2>1 DEF Using
    <3> QED BY <1>5, <2>1, <3>1 DEF IInv, Counted
  <2>2. CASE j = k
    <3>1. Using(j)' = {t}
      BY <1>4, <1>5, <2>2 DEF Using
    <3>2. IsFiniteSet({t}) /\ Cardinality({t}) = 1
      BY FS_Singleton
    <3> QED BY <1>1, <1>5, <2>2, <3>1, <3>2
  <2> QED BY <2>1, <2>2
<1>12. Counted'
  BY <1>11 DEF Counted
<1> QED BY <1>3, <1>6, <1>7, <1>8, <1>9, <1>10, <1>12 DEF IInv

\* lock() on a key in use preserves the invariant: the task is queued and counted.
LEMMA LockFoundIInv ==
    ASSUME IInv, NEW t \in Task, NEW k \in Key, Lock(t, k), entries[k] # NoEntry
    PROVE  IInv'
<1> DEFINE e == entries[k]
<1>1. /\ e \in Entry
      /\ entries' = entries
      /\ heap' = [heap EXCEPT ![e] = heap'[e]]
      /\ heap'[e] \in EntryObject
      /\ heap'[e].locked
      /\ heap'[e].queue = Append(Queue(k), t)
      /\ heap'[e].useCount = heap[e].useCount + 1
      /\ pc' = [pc EXCEPT ![t] = "queued"]
      /\ entry' = [entry EXCEPT ![t] = e]
  BY LockFound
<1>2. pc[t] = "idle" /\ key' = [key EXCEPT ![t] = k]
  BY DEF Lock
<1>3. TypeOK'
  BY <1>1, <1>2 DEF IInv, TypeOK, Stage
<1>5. /\ pc'[t] = "queued" /\ key'[t] = k
      /\ \A j \in Key \ {k} : entries[j] # NoEntry => heap'[entries[j]] = heap[entries[j]]
      /\ \A u \in Task \ {t} : pc'[u] = pc[u] /\ key'[u] = key[u]
  BY <1>1, <1>2 DEF IInv, TypeOK, Separate
<1>6. MutualExclusion'
  BY <1>5 DEF IInv, MutualExclusion, Owning
<1>7. Captured'
  BY <1>1, <1>2, <1>5 DEF IInv, TypeOK, Captured
<1>8. Separate'
  BY <1>1 DEF IInv, Separate
<1>9. Taken'
  BY <1>1, <1>2, <1>5 DEF IInv, Taken, Owning
<1>10. QueuedOnce'
  <2>1. ASSUME NEW j \in Key, entries[j] # NoEntry
        PROVE  Queue(j) \in Seq(Task) /\ (j # k => Queue(j)' = Queue(j))
    BY <1>1, <1>5, <2>1 DEF IInv, TypeOK, Queue, EntryObject
  <2>2. ASSUME NEW j \in Key, entries[j] # NoEntry, NEW i \in 1..Len(Queue(j))
        PROVE  Queue(j)[i] \in Task \ {t}
    BY <1>2, <2>1, <2>2 DEF IInv, QueuedOnce
  <2>3. ASSUME NEW j \in Key, j # k, entries[j] # NoEntry
        PROVE  /\ \A i \in 1..Len(Queue(j)') :
                     pc'[Queue(j)'[i]] = "queued" /\ key'[Queue(j)'[i]] = j
               /\ \A h, i \in 1..Len(Queue(j)') : Queue(j)'[h] = Queue(j)'[i] => h = i
               /\ \A u \in Task : pc'[u] = "queued" /\ key'[u] = j =>
                     \E i \in 1..Len(Queue(j)') : Queue(j)'[i] = u
    BY <1>5, <2>1, <2>2, <2>3 DEF IInv, QueuedOnce
  <2>4. /\ \A i \in 1..Len(Queue(k)') :
              pc'[Queue(k)'[i]] = "queued" /\ key'[Queue(k)'[i]] = k
        /\ \A h, i \in 1..Len(Queue(k)') : Queue(k)'[h] = Queue(k)'[i] => h = i
        /\ \A u \in Task : pc'[u] = "queued" /\ key'[u] = k =>
              \E i \in 1..Len(Queue(k)') : Queue(k)'[i] = u
    <3> DEFINE q == Queue(k)
               r == Queue(k)'
    <3>1. q \in Seq(Task) /\ r = Append(q, t)
      BY <1>1, <2>1 DEF Queue
    <3>2. /\ Len(r) = Len(q) + 1 /\ Len(q) \in Nat
          /\ \A i \in 1..Len(q) : r[i] = q[i]
          /\ r[Len(q) + 1] = t
      <4> HIDE DEF q, r
      <4> QED BY <3>1
    <3>3. /\ \A i \in 1..Len(q) : q[i] \in Task \ {t} /\ pc[q[i]] = "queued" /\ key[q[i]] = k
          /\ \A h, i \in 1..Len(q) : q[h] = q[i] => h = i
          /\ \A u \in Task : pc[u] = "queued" /\ key[u] = k => \E i \in 1..Len(q) : q[i] = u
      BY <2>2 DEF IInv, QueuedOnce
    <3> HIDE DEF q, r
    <3>4. \A i \in 1..Len(r) : pc'[r[i]] = "queued" /\ key'[r[i]] = k
      BY <1>5, <3>2, <3>3
    <3>5. \A h, i \in 1..Len(r) : r[h] = r[i] => h = i
      BY <3>2, <3>3
    <3>6. ASSUME NEW u \in Task, pc'[u] = "queued", key'[u] = k
          PROVE  \E i \in 1..Len(r) : r[i] = u
      <4>1. CASE u = t
        BY <3>2, <4>1
      <4>2. CASE u # t
        <5>1. PICK i \in 1..Len(q) : q[i] = u
          BY <1>5, <3>3, <3>6, <4>2
        <5> QED BY <3>2, <5>1
      <4> QED BY <4>1, <4>2
    <3> QED BY <3>4, <3>5, <3>6 DEF r
  <2> QED BY <1>1, <2>3, <2>4 DEF QueuedOnce
<1>11. ASSUME NEW j \in Key
       PROVE  /\ IsFiniteSet(Using(j)')
              /\ entries'[j] # NoEntry =>
                    heap'[entries'[j]].useCount = Cardinality(Using(j)')
  <2>1. CASE j # k
    <3>1. Using(j)' = Using(j)
      BY <1>2, <1>5, <2>1 DEF Using
    <3> QED BY <1>1, <1>5, <2>1, <3>1 DEF IInv, Counted
  <2>2. CASE j = k
    <3>1. t \notin Using(j) /\ Using(j)' = Using(j) \union {t}
      BY <1>2, <1>5, <2>2 DEF Using
    <3>2. /\ IsFiniteSet(Using(j))
          /\ heap[e].useCount = Cardinality(Using(j))
      BY <2>2 DEF IInv, Counted
    <3>3. /\ IsFiniteSet(Using(j) \union {t})
          /\ Cardinality(Using(j) \union {t}) = Cardinality(Using(j)) + 1
      BY <3>1, <3>2, FS_AddElement
    <3> QED BY <1>1, <2>2, <3>1, <3>2, <3>3
  <2> QED BY <2>1, <2>2
<1>12. Counted'
  BY <1>11 DEF Counted
<1> QED BY <1>3, <1>6, <1>7, <1>8, <1>9, <1>10, <1>12 DEF IInv
-----------------------------------------------------------------------------
\* The task that gives a lock up uses the entry that the map holds for its key.
LEMMA ReleaseOwn ==
    ASSUME IInv, NEW t \in Task, Release(t)
    PROVE  LET k == key[t]
               e == entries[k]
           IN  /\ pc[t] = "holding" /\ Owning(t)
               /\ k \in Key /\ e \in Entry /\ e # NoEntry /\ entry[t] = e
               /\ heap[e] \in EntryObject /\ heap[e].locked
               /\ Queue(k) \in Seq(Task)
               /\ IsFiniteSet(Using(k)) /\ t \in Using(k)
               /\ heap[e].useCount = Cardinality(Using(k))
               /\ heap[e].useCount \in Nat \ {0}
<1> DEFINE k == key[t]
           e == entries[k]
<1>1. pc[t] = "holding" /\ Owning(t) /\ k \in Key
  BY DEF Release, Owning, IInv, TypeOK
<1>2. e # NoEntry /\ e \in Entry /\ entry[t] = e
  BY <1>1 DEF IInv, TypeOK, Captured
<1>3. heap[e] \in EntryObject /\ heap[e].locked /\ Queue(k) \in Seq(Task)
  BY <1>1, <1>2 DEF IInv, TypeOK, Taken, Queue, EntryObject
<1>4. /\ IsFiniteSet(Using(k)) /\ t \in Using(k)
      /\ heap[e].useCount = Cardinality(Using(k))
  BY <1>1, <1>2 DEF IInv, Counted, Using
<1>5. Cardinality(Using(k)) \in Nat /\ Cardinality(Using(k)) # 0
  BY <1>4, FS_CardinalityType, FS_EmptySet
<1> QED BY <1>1, <1>2, <1>3, <1>4, <1>5

\* A release that finds nobody waiting is the last use of the entry, which is dropped.
LEMMA ReleaseLast ==
    ASSUME IInv, NEW t \in Task, Release(t), Queue(key[t]) = <<>>
    PROVE  /\ Using(key[t]) = {t}
           /\ entries' = [entries EXCEPT ![key[t]] = NoEntry]
           /\ heap' = [heap EXCEPT ![entries[key[t]]] = Released(heap[entries[key[t]]])]
           /\ heap'[entries[key[t]]] \in EntryObject
           /\ pc' = [pc EXCEPT ![t] = "idle"]
           /\ entry' = [entry EXCEPT ![t] = NoEntry]
           /\ key' = key
<1> DEFINE k == key[t]
           e == entries[k]
           obj == heap[e]
<1>1. /\ pc[t] = "holding" /\ Owning(t)
      /\ k \in Key /\ e \in Entry /\ e # NoEntry /\ entry[t] = e
      /\ obj \in EntryObject /\ obj.useCount \in Nat \ {0}
      /\ t \in Using(k) /\ obj.useCount = Cardinality(Using(k))
  BY ReleaseOwn
<1>2. Using(k) = {t}
  <2>1. ASSUME NEW u \in Using(k) PROVE u = t
    <3>1. u \in Task /\ pc[u] \in Stage /\ pc[u] # "idle" /\ key[u] = k
      BY <2>1 DEF Using, IInv, TypeOK
    <3>2. pc[u] # "queued"
      <4>1. Len(Queue(k)) = 0
        OBVIOUS
      <4> QED BY <1>1, <3>1, <4>1 DEF IInv, QueuedOnce
    <3>3. Owning(u)
      BY <3>1, <3>2 DEF Owning, Stage
    <3> QED BY <1>1, <3>1, <3>3 DEF IInv, MutualExclusion
  <2> QED BY <1>1, <2>1
<1>3. obj.useCount = 1
  <2>1. Cardinality({t}) = 1
    BY FS_Singleton
  <2> QED BY <1>1, <1>2, <2>1
<1>4. obj.queue = <<>>
  BY DEF Queue
<1>5. Released(obj) \in EntryObject
  BY <1>1, ReleasedFields
<1>6. /\ heap' = [heap EXCEPT ![e] = Released(obj)]
      /\ pc' = [u \in Task |-> IF u = t THEN "idle" ELSE pc[u]]
      /\ entries' = [entries EXCEPT ![k] = NoEntry]
      /\ entry' = [entry EXCEPT ![t] = NoEntry]
      /\ key' = key
  <2>1. Woken(obj) = {} /\ Unused(obj)
    BY <1>3, <1>4 DEF Woken, Unused
  <2> QED BY <1>1, <2>1 DEF Release
<1> QED BY <1>1, <1>2, <1>5, <1>6 DEF IInv, TypeOK

\* A release that finds tasks waiting hands the lock to the first, and the entry stays.
LEMMA ReleaseHandsOver ==
    ASSUME IInv, NEW t \in Task, Release(t), Queue(key[t]) # <<>>
    PROVE  LET k == key[t]
               e == entries[k]
               u == Head(Queue(k))
           IN  /\ u \in Task \ {t} /\ pc[u] = "queued" /\ key[u] = k
               /\ entries' = entries
               /\ heap' = [heap EXCEPT ![e] = heap'[e]]
               /\ heap'[e] \in EntryObject
               /\ heap'[e].locked
               /\ heap'[e].queue = Tail(Queue(k))
               /\ heap'[e].useCount = heap[e].useCount - 1
               /\ pc' = [pc EXCEPT ![t] = "idle", ![u] = "granted"]
               /\ entry' = [entry EXCEPT ![t] = NoEntry]
               /\ key' = key
<1> DEFINE k == key[t]
           e == entries[k]
           obj == heap[e]
           u == Head(Queue(k))
<1>1. /\ pc[t] = "holding" /\ Owning(t)
      /\ k \in Key /\ e \in Entry /\ e # NoEntry /\ entry[t] = e
      /\ obj \in EntryObject /\ obj.locked /\ obj.useCount \in Nat \ {0}
      /\ Queue(k) \in Seq(Task)
      /\ IsFiniteSet(Using(k)) /\ t \in Using(k)
      /\ obj.useCount = Cardinality(Using(k))
  BY ReleaseOwn
<1>2. /\ 1 \in 1..Len(Queue(k)) /\ u = Queue(k)[1] /\ u \in Task
  BY <1>1
<1>3. pc[u] = "queued" /\ key[u] = k /\ u # t /\ u \in Using(k)
  BY <1>1, <1>2 DEF IInv, QueuedOnce, Using
<1>4. obj.useCount # 1
  <2>1. ASSUME Cardinality(Using(k)) = 1 PROVE FALSE
    <3>1. PICK x : Using(k) = {x}
      BY <1>1, <2>1, FS_Singleton
    <3> QED BY <1>1, <1>3, <3>1
  <2> QED BY <1>1, <2>1
<1>5. obj.queue = Queue(k) /\ obj.queue # <<>>
  BY DEF Queue
<1>6. /\ Released(obj) \in EntryObject /\ Released(obj).locked
      /\ Released(obj).queue = Tail(Queue(k))
      /\ Released(obj).useCount = obj.useCount - 1
  <2> HIDE DEF obj
  <2> QED BY <1>1, <1>5, ReleasedFields
<1>7. /\ heap' = [heap EXCEPT ![e] = Released(obj)]
      /\ pc' = [v \in Task |-> IF v = t THEN "idle" ELSE IF v = u THEN "granted" ELSE pc[v]]
      /\ entries' = entries
      /\ entry' = [entry EXCEPT ![t] = NoEntry]
      /\ key' = key
  <2>1. Woken(obj) = {u} /\ ~Unused(obj)
    BY <1>4, <1>5 DEF Woken, Unused
  <2> QED BY <1>1, <2>1 DEF Release
<1>8. heap'[e] = Released(obj)
  BY <1>1, <1>7 DEF IInv, TypeOK
<1>9. pc' = [pc EXCEPT ![t] = "idle", ![u] = "granted"]
  BY <1>2, <1>3, <1>7 DEF IInv, TypeOK
<1> QED BY <1>1, <1>2, <1>3, <1>6, <1>7, <1>8, <1>9
\* The last release of a key preserves the invariant: no trace of the entry is left.
LEMMA ReleaseLastIInv ==
    ASSUME IInv, NEW t \in Task, Release(t), Queue(key[t]) = <<>>
    PROVE  IInv'
<1> DEFINE k == key[t]
           e == entries[k]
<1>1. /\ Using(k) = {t}
      /\ entries' = [entries EXCEPT ![k] = NoEntry]
      /\ heap' = [heap EXCEPT ![e] = Released(heap[e])]
      /\ heap'[e] \in EntryObject
      /\ pc' = [pc EXCEPT ![t] = "idle"]
      /\ entry' = [entry EXCEPT ![t] = NoEntry]
      /\ key' = key
  BY ReleaseLast
<1>2. /\ pc[t] = "holding" /\ k \in Key /\ e \in Entry /\ e # NoEntry /\ entry[t] = e
  BY ReleaseOwn
<1>3. TypeOK'
  BY <1>1, <1>2 DEF IInv, TypeOK, Stage
<1>4. \A u \in Task \ {t} : pc[u] # "idle" => key[u] # k
  BY <1>1 DEF Using
<1>5. /\ entries'[k] = NoEntry /\ pc'[t] = "idle"
      /\ \A j \in Key \ {k} : /\ entries'[j] = entries[j]
                              /\ entries[j] # NoEntry => heap'[entries[j]] = heap[entries[j]]
      /\ \A u \in Task \ {t} : pc'[u] = pc[u]
  BY <1>1, <1>2 DEF IInv, TypeOK, Separate
<1>6. MutualExclusion'
  BY <1>1, <1>5 DEF IInv, MutualExclusion, Owning
<1>7. Captured'
  BY <1>1, <1>4, <1>5 DEF IInv, TypeOK, Captured
<1>8. Separate'
  BY <1>5 DEF IInv, Separate
<1>9. Taken'
  BY <1>1, <1>5 DEF IInv, Taken, Owning
<1>10. QueuedOnce'
  <2>1. ASSUME NEW j \in Key, entries'[j] # NoEntry
        PROVE  /\ j # k /\ entries[j] # NoEntry
               /\ Queue(j)' = Queue(j) /\ Queue(j) \in Seq(Task)
    BY <1>5, <2>1 DEF IInv, TypeOK, Queue, EntryObject
  <2>2. ASSUME NEW j \in Key, entries'[j] # NoEntry
        PROVE  /\ \A i \in 1..Len(Queue(j)') :
                     pc'[Queue(j)'[i]] = "queued" /\ key'[Queue(j)'[i]] = j
               /\ \A h, i \in 1..Len(Queue(j)') : Queue(j)'[h] = Queue(j)'[i] => h = i
               /\ \A u \in Task : pc'[u] = "queued" /\ key'[u] = j =>
                     \E i \in 1..Len(Queue(j)') : Queue(j)'[i] = u
    <3>1. /\ j # k /\ entries[j] # NoEntry
          /\ Queue(j)' = Queue(j) /\ Queue(j) \in Seq(Task)
      BY <2>1, <2>2
    <3>2. \A i \in 1..Len(Queue(j)) : Queue(j)[i] \in Task \ {t}
      BY <1>2, <3>1 DEF IInv, QueuedOnce
    <3> QED BY <1>1, <1>5, <3>1, <3>2 DEF IInv, QueuedOnce
  <2> QED BY <2>2 DEF QueuedOnce
<1>11. ASSUME NEW j \in Key
       PROVE  /\ IsFiniteSet(Using(j)')
              /\ entries'[j] # NoEntry =>
                    heap'[entries'[j]].useCount = Cardinality(Using(j)')
  <2>1. CASE j # k
    <3>1. Using(j)' = Using(j)
      BY <1>1, <1>5, <2>1 DEF Using
    <3> QED BY <1>5, <2>1, <3>1 DEF IInv, Counted
  <2>2. CASE j = k
    <3>1. Using(j)' = {}
      BY <1>1, <1>4, <1>5, <2>2 DEF Using
    <3> QED BY <1>5, <2>2, <3>1, FS_EmptySet
  <2> QED BY <2>1, <2>2
<1>12. Counted'
  BY <1>11 DEF Counted
<1> QED BY <1>3, <1>6, <1>7, <1>8, <1>9, <1>10, <1>12 DEF IInv

\* Handing the lock over preserves the invariant: one owner follows another.
LEMMA ReleaseHandsOverIInv ==
    ASSUME IInv, NEW t \in Task, Release(t), Queue(key[t]) # <<>>
    PROVE  IInv'
<1> DEFINE k == key[t]
           e == entries[k]
           w == Head(Queue(k))
<1>1. /\ w \in Task \ {t} /\ pc[w] = "queued" /\ key[w] = k
      /\ entries' = entries
      /\ heap' = [heap EXCEPT ![e] = heap'[e]]
      /\ heap'[e] \in EntryObject
      /\ heap'[e].locked
      /\ heap'[e].queue = Tail(Queue(k))
      /\ heap'[e].useCount = heap[e].useCount - 1
      /\ pc' = [pc EXCEPT ![t] = "idle", ![w] = "granted"]
      /\ entry' = [entry EXCEPT ![t] = NoEntry]
      /\ key' = key
  BY ReleaseHandsOver
<1>2. /\ pc[t] = "holding" /\ Owning(t)
      /\ k \in Key /\ e \in Entry /\ e # NoEntry /\ entry[t] = e
      /\ Queue(k) \in Seq(Task)
      /\ IsFiniteSet(Using(k)) /\ t \in Using(k)
      /\ heap[e].useCount = Cardinality(Using(k))
  BY ReleaseOwn
<1> HIDE DEF w
<1>3. TypeOK'
  BY <1>1, <1>2 DEF IInv, TypeOK, Stage
<1>5. /\ pc'[t] = "idle" /\ pc'[w] = "granted"
      /\ \A j \in Key \ {k} : entries[j] # NoEntry => heap'[entries[j]] = heap[entries[j]]
      /\ \A u \in Task \ {t, w} : pc'[u] = pc[u]
  BY <1>1, <1>2 DEF IInv, TypeOK, Separate
<1>6. MutualExclusion'
  BY <1>1, <1>2, <1>5 DEF IInv, MutualExclusion, Owning
<1>7. Captured'
  BY <1>1, <1>5 DEF IInv, TypeOK, Captured
<1>8. Separate'
  BY <1>1 DEF IInv, Separate
<1>9. Taken'
  <2>1. ASSUME NEW j \in Key, entries[j] # NoEntry
        PROVE  heap'[entries[j]].locked /\ \E u \in Task : Owning(u)' /\ key[u] = j
    <3>1. CASE j = k
      BY <1>1, <1>5, <3>1 DEF Owning
    <3>2. CASE j # k
      <4>1. PICK u \in Task : Owning(u) /\ key[u] = j
        BY <2>1 DEF IInv, Taken
      <4>2. u # t /\ u # w
        BY <1>1, <3>2, <4>1
      <4> QED BY <1>5, <2>1, <3>2, <4>1, <4>2 DEF IInv, Taken, Owning
    <3> QED BY <3>1, <3>2
  <2> QED BY <1>1, <2>1 DEF Taken
<1>10. QueuedOnce'
  <2>1. ASSUME NEW j \in Key, entries[j] # NoEntry, j # k
        PROVE  /\ \A i \in 1..Len(Queue(j)') :
                     pc'[Queue(j)'[i]] = "queued" /\ key[Queue(j)'[i]] = j
               /\ \A h, i \in 1..Len(Queue(j)') : Queue(j)'[h] = Queue(j)'[i] => h = i
               /\ \A u \in Task : pc'[u] = "queued" /\ key[u] = j =>
                     \E i \in 1..Len(Queue(j)') : Queue(j)'[i] = u
    <3>1. Queue(j)' = Queue(j) /\ Queue(j) \in Seq(Task)
      BY <1>1, <1>5, <2>1 DEF IInv, TypeOK, Queue, EntryObject
    <3>2. \A i \in 1..Len(Queue(j)) : Queue(j)[i] \in Task \ {t, w}
      BY <1>1, <2>1, <3>1 DEF IInv, QueuedOnce
    <3>3. \A i \in 1..Len(Queue(j)) : pc'[Queue(j)[i]] = "queued" /\ key[Queue(j)[i]] = j
      BY <1>5, <2>1, <3>2 DEF IInv, QueuedOnce
    <3>4. \A h, i \in 1..Len(Queue(j)) : Queue(j)[h] = Queue(j)[i] => h = i
      BY <2>1 DEF IInv, QueuedOnce
    <3>5. \A u \in Task : pc'[u] = "queued" /\ key[u] = j =>
             \E i \in 1..Len(Queue(j)) : Queue(j)[i] = u
      BY <1>5, <2>1 DEF IInv, QueuedOnce
    <3> QED BY <3>1, <3>3, <3>4, <3>5
  <2>2. ASSUME NEW j \in Key, j = k
        PROVE  /\ \A i \in 1..Len(Queue(j)') :
                     pc'[Queue(j)'[i]] = "queued" /\ key[Queue(j)'[i]] = j
               /\ \A h, i \in 1..Len(Queue(j)') : Queue(j)'[h] = Queue(j)'[i] => h = i
               /\ \A u \in Task : pc'[u] = "queued" /\ key[u] = j =>
                     \E i \in 1..Len(Queue(j)') : Queue(j)'[i] = u
    <3> DEFINE q == Queue(j)
               r == Queue(j)'
    <3>1. q \in Seq(Task) /\ q # <<>> /\ r = Tail(q) /\ w = q[1]
      <4>1. entries'[j] = e /\ heap'[e].queue = Tail(Queue(k)) /\ j = k
        BY <1>1, <2>2
      <4>2. r = Tail(q) /\ w = Head(q) /\ q # <<>>
        BY <1>1, <4>1 DEF Queue, w
      <4>3. q \in Seq(Task)
        BY <1>1, <1>2, <4>1 DEF Queue
      <4> QED BY <4>2, <4>3
    <3>2. /\ Len(q) \in Nat \ {0} /\ Len(r) = Len(q) - 1
          /\ \A i \in 1..Len(r) : i + 1 \in 1..Len(q) /\ r[i] = q[i + 1]
      <4> HIDE DEF q, r
      <4> QED BY <3>1
    <3>3. /\ \A i \in 1..Len(q) : q[i] \in Task \ {t} /\ pc[q[i]] = "queued" /\ key[q[i]] = j
          /\ \A h, i \in 1..Len(q) : q[h] = q[i] => h = i
          /\ \A u \in Task : pc[u] = "queued" /\ key[u] = j => \E i \in 1..Len(q) : q[i] = u
      BY <1>2, <2>2 DEF IInv, QueuedOnce
    <3> HIDE DEF q, r
    <3>4. \A i \in 1..Len(r) : q[i + 1] # w
      BY <3>1, <3>2, <3>3
    <3>5. ASSUME NEW i \in 1..Len(r)
          PROVE  pc'[r[i]] = "queued" /\ key[r[i]] = j
      <4>1. i + 1 \in 1..Len(q) /\ r[i] = q[i + 1]
        BY <3>2
      <4>2. r[i] \in Task \ {t, w} /\ pc[r[i]] = "queued" /\ key[r[i]] = j
        BY <3>3, <3>4, <4>1
      <4> QED BY <1>5, <4>2
    <3>6. \A h, i \in 1..Len(r) : r[h] = r[i] => h = i
      BY <3>2, <3>3
    <3>7. ASSUME NEW u \in Task, pc'[u] = "queued", key[u] = j
          PROVE  \E i \in 1..Len(r) : r[i] = u
      <4>1. u # t /\ u # w /\ pc[u] = "queued"
        BY <1>5, <3>7
      <4>2. PICK i \in 1..Len(q) : q[i] = u
        BY <3>3, <3>7, <4>1
      <4>3. i # 1 /\ i - 1 \in 1..Len(r) /\ (i - 1) + 1 = i
        BY <3>1, <3>2, <4>1, <4>2
      <4>4. r[i - 1] = u
        BY <3>2, <4>2, <4>3
      <4> QED BY <4>3, <4>4
    <3> QED BY <3>5, <3>6, <3>7 DEF r
  <2>3. ASSUME NEW j \in Key, entries'[j] # NoEntry
        PROVE  /\ \A i \in 1..Len(Queue(j)') :
                     pc'[Queue(j)'[i]] = "queued" /\ key'[Queue(j)'[i]] = j
               /\ \A h, i \in 1..Len(Queue(j)') : Queue(j)'[h] = Queue(j)'[i] => h = i
               /\ \A u \in Task : pc'[u] = "queued" /\ key'[u] = j =>
                     \E i \in 1..Len(Queue(j)') : Queue(j)'[i] = u
    <3>1. CASE j = k
      <4>1. key' = key
        BY <1>1
      <4> QED BY <2>2, <3>1, <4>1
    <3>2. CASE j # k
      <4>1. key' = key /\ entries' = entries
        BY <1>1
      <4>2. entries[j] # NoEntry
        BY <2>3, <4>1
      <4> QED BY <2>1, <3>2, <4>1, <4>2
    <3> QED BY <3>1, <3>2
  <2> QED BY <2>3 DEF QueuedOnce
<1>11. ASSUME NEW j \in Key
       PROVE  /\ IsFiniteSet(Using(j)')
              /\ entries'[j] # NoEntry =>
                    heap'[entries'[j]].useCount = Cardinality(Using(j)')
  <2>1. CASE j # k
    <3>1. Using(j)' = Using(j)
      BY <1>1, <1>5, <2>1 DEF Using
    <3> QED BY <1>1, <1>5, <2>1, <3>1 DEF IInv, Counted
  <2>2. CASE j = k
    <3>1. Using(j)' = Using(j) \ {t}
      BY <1>1, <1>5, <2>2 DEF Using
    <3>2. /\ IsFiniteSet(Using(j) \ {t})
          /\ Cardinality(Using(j) \ {t}) = Cardinality(Using(j)) - 1
      BY <1>2, <2>2, FS_RemoveElement
    <3> QED BY <1>1, <1>2, <2>2, <3>1, <3>2
  <2> QED BY <2>1, <2>2
<1>12. Counted'
  BY <1>11 DEF Counted
<1> QED BY <1>3, <1>6, <1>7, <1>8, <1>9, <1>10, <1>12 DEF IInv

\* Every step preserves the inductive invariant.
LEMMA NextIInv == IInv /\ [Next]_vars => IInv'
<1> SUFFICES ASSUME IInv, [Next]_vars PROVE IInv'
  OBVIOUS
<1>1. ASSUME NEW t \in Task, NEW k \in Key, Lock(t, k)
      PROVE  IInv'
  BY <1>1, LockNewIInv, LockFoundIInv
<1>2. ASSUME NEW t \in Task, Resume(t)
      PROVE  IInv'
  <2>1. /\ pc[t] = "granted" /\ pc' = [pc EXCEPT ![t] = "holding"]
        /\ UNCHANGED <<entries, heap, key, entry>>
    BY <1>2 DEF Resume
  <2>2. TypeOK'
    BY <2>1 DEF IInv, TypeOK, Stage
  <2>3. /\ pc'[t] = "holding"
        /\ \A u \in Task \ {t} : pc'[u] = pc[u]
    BY <2>1 DEF IInv, TypeOK
  <2>4. MutualExclusion' /\ Captured' /\ Separate' /\ Taken'
    BY <2>1, <2>3 DEF IInv, MutualExclusion, Captured, Separate, Taken, Owning
  <2>5. QueuedOnce'
    <3>1. ASSUME NEW j \in Key, entries[j] # NoEntry, NEW i \in 1..Len(Queue(j))
          PROVE  Queue(j)[i] \in Task
      BY <3>1 DEF IInv, TypeOK, Queue, EntryObject
    <3> QED BY <2>1, <2>3, <3>1 DEF IInv, QueuedOnce, Queue
  <2>6. Counted'
    BY <2>1, <2>3 DEF IInv, Counted, Using
  <2> QED BY <2>2, <2>4, <2>5, <2>6 DEF IInv
<1>3. ASSUME NEW t \in Task, Release(t)
      PROVE  IInv'
  BY <1>3, ReleaseLastIInv, ReleaseHandsOverIInv
<1>4. CASE UNCHANGED vars
  BY <1>4 DEF vars, IInv, TypeOK, MutualExclusion, Captured, Separate, Taken, QueuedOnce,
              Counted, Owning, Using, Queue
<1> QED BY <1>1, <1>2, <1>3, <1>4 DEF Next

\* The inductive invariant holds of every reachable state.
THEOREM Invariance == Spec => []IInv
<1>1. Init => IInv
  BY InitIInv
<1>2. IInv /\ [Next]_vars => IInv'
  BY NextIInv
<1> QED BY <1>1, <1>2, PTL DEF Spec

\* The state stays within its types: a use count never falls below zero
\* (async-lock-set.ts, the releaser).
THEOREM TypeTheorem == Spec => []TypeOK
<1>1. IInv => TypeOK
  BY DEF IInv
<1> QED BY <1>1, Invariance, PTL

\* No two tasks own a key at a time, although its entry comes and goes
\* (async-lock-set.ts, lock and its releaser).
THEOREM MutualExclusionTheorem == Spec => []MutualExclusion
<1>1. IInv => MutualExclusion
  BY DEF IInv
<1> QED BY <1>1, Invariance, PTL

\* The map neither leaks entries nor drops one that is needed (async-lock-set.ts,
\* useCount).
THEOREM EntriesInUseTheorem == Spec => []EntriesInUse
<1>1. ASSUME IInv, NEW k \in Key
      PROVE  entries[k] = NoEntry <=> Using(k) = {}
  <2>1. entries[k] # NoEntry => \E t \in Task : Owning(t) /\ key[t] = k
    BY <1>1 DEF IInv, Taken
  <2> QED BY <1>1, <2>1, NoEntryNoUser DEF Owning, Using
<1>2. IInv => EntriesInUse
  BY <1>1 DEF IInv, Counted, EntriesInUse
<1> QED BY <1>2, Invariance, PTL
-----------------------------------------------------------------------------
\* The state of KeyedMutex that a state of the lock set stands for.
Owners(k) == {t \in Task : Owning(t) /\ key[t] = k}

Waiting(k) == IF entries[k] = NoEntry THEN <<>> ELSE Queue(k)

\* A lock set that was only constructed has no owners and no requests.
LEMMA InitRefines == Init => Mutex!Init
BY DEF Init, Mutex!Init, Owning

\* lock() on a free key is a request that is granted at once.
LEMMA LockNewRefines ==
    ASSUME IInv, NEW t \in Task, NEW k \in Key, Lock(t, k), entries[k] = NoEntry
    PROVE  Mutex!RequestFree(t, k)
<1>1. PICK e \in Entry :
         /\ Garbage(e)
         /\ entries' = [entries EXCEPT ![k] = e]
         /\ heap' = [heap EXCEPT ![e] = heap'[e]]
         /\ heap'[e] \in EntryObject
         /\ heap'[e].locked /\ heap'[e].queue = <<>> /\ heap'[e].useCount = 1
         /\ pc' = [pc EXCEPT ![t] = "granted"]
         /\ entry' = [entry EXCEPT ![t] = e]
  BY LockNew
<1>2. pc[t] = "idle" /\ key' = [key EXCEPT ![t] = k]
  BY DEF Lock
<1>3. Using(k) = {}
  BY NoEntryNoUser
<1>4. ASSUME NEW j \in Key
      PROVE  /\ Owners(j)' = IF j = k THEN {t} ELSE Owners(j)
             /\ Waiting(j)' = Waiting(j)
  <2>1. CASE j = k
    <3>1. Owners(j)' = {t}
      BY <1>1, <1>2, <1>3, <2>1 DEF IInv, TypeOK, Owners, Owning, Using
    <3>2. Waiting(j)' = <<>> /\ Waiting(j) = <<>>
      BY <1>1, <2>1 DEF IInv, TypeOK, Waiting, Queue
    <3> QED BY <2>1, <3>1, <3>2
  <2>2. CASE j # k
    <3>1. Owners(j)' = Owners(j)
      BY <1>1, <1>2, <2>2 DEF IInv, TypeOK, Owners, Owning
    <3>2. entries'[j] = entries[j] /\ entries[j] # e
      BY <1>1, <2>2 DEF IInv, TypeOK, Garbage
    <3>3. entries[j] # NoEntry => heap'[entries[j]] = heap[entries[j]]
      BY <1>1, <3>2 DEF IInv, TypeOK
    <3>4. Waiting(j)' = Waiting(j)
      BY <3>2, <3>3 DEF Waiting, Queue
    <3> QED BY <2>2, <3>1, <3>4
  <2> QED BY <2>1, <2>2
<1>5. Owners(k) = {}
  BY <1>3 DEF Owners, Using, Owning
<1> QED BY <1>4, <1>5 DEF Mutex!RequestFree, Owners, Waiting, Queue

\* lock() on a key in use is a request that waits behind the others.
LEMMA LockFoundRefines ==
    ASSUME IInv, NEW t \in Task, NEW k \in Key, Lock(t, k), entries[k] # NoEntry
    PROVE  Mutex!RequestHeld(t, k)
<1> DEFINE e == entries[k]
<1>1. /\ e \in Entry
      /\ entries' = entries
      /\ heap' = [heap EXCEPT ![e] = heap'[e]]
      /\ heap'[e].queue = Append(Queue(k), t)
      /\ pc' = [pc EXCEPT ![t] = "queued"]
  BY LockFound
<1>2. pc[t] = "idle" /\ key' = [key EXCEPT ![t] = k]
  BY DEF Lock
<1>3. ASSUME NEW j \in Key
      PROVE  /\ Owners(j)' = Owners(j)
             /\ Waiting(j)' = IF j = k THEN Append(Waiting(k), t) ELSE Waiting(j)
  <2>1. Owners(j)' = Owners(j)
    BY <1>1, <1>2 DEF IInv, TypeOK, Owners, Owning
  <2>2. CASE j = k
    BY <1>1, <2>1, <2>2 DEF Waiting, Queue
  <2>3. CASE j # k
    <3>1. entries[j] # NoEntry => heap'[entries[j]] = heap[entries[j]]
      BY <1>1, <2>3 DEF IInv, TypeOK, Separate
    <3> QED BY <1>1, <2>1, <2>3, <3>1 DEF Waiting, Queue
  <2> QED BY <2>2, <2>3
<1>4. Owners(k) # {}
  BY DEF IInv, Taken, Owners
<1> QED BY <1>3, <1>4 DEF Mutex!RequestHeld, Owners, Waiting, Queue

\* A release that finds nobody waiting leaves the mutex of its key free.
LEMMA ReleaseLastRefines ==
    ASSUME IInv, NEW t \in Task, Release(t),
           NEW k \in Key, k = key[t], Queue(k) = <<>>
    PROVE  Mutex!Release(t, k)
<1> DEFINE e == entries[k]
<1>1. /\ Using(k) = {t}
      /\ entries' = [entries EXCEPT ![k] = NoEntry]
      /\ heap' = [heap EXCEPT ![e] = Released(heap[e])]
      /\ pc' = [pc EXCEPT ![t] = "idle"]
      /\ key' = key
  BY ReleaseLast
<1>2. /\ pc[t] = "holding" /\ k \in Key /\ e \in Entry /\ e # NoEntry
  BY ReleaseOwn
<1>3. ASSUME NEW j \in Key
      PROVE  /\ Owners(j)' = IF j = k THEN {} ELSE Owners(j)
             /\ Waiting(j)' = Waiting(j)
  <2>1. CASE j = k
    <3>1. Owners(j)' = {}
      BY <1>1, <2>1 DEF IInv, TypeOK, Owners, Owning, Using
    <3>2. Waiting(j)' = <<>> /\ Waiting(j) = <<>>
      BY <1>1, <2>1 DEF IInv, TypeOK, Waiting
    <3> QED BY <2>1, <3>1, <3>2
  <2>2. CASE j # k
    <3>1. Owners(j)' = Owners(j)
      BY <1>1, <2>2 DEF IInv, TypeOK, Owners, Owning
    <3>2. /\ entries'[j] = entries[j]
          /\ entries[j] # NoEntry => heap'[entries[j]] = heap[entries[j]]
      BY <1>1, <1>2, <2>2 DEF IInv, TypeOK, Separate
    <3>3. Waiting(j)' = Waiting(j)
      BY <3>2 DEF Waiting, Queue
    <3> QED BY <2>2, <3>1, <3>3
  <2> QED BY <2>1, <2>2
<1>4. t \in Owners(k) /\ Waiting(k) = <<>>
  BY <1>2 DEF Owners, Owning, Waiting
<1> QED BY <1>2, <1>3, <1>4 DEF Mutex!Release, Owners, Waiting, Queue

\* A release that finds tasks waiting makes the oldest request the owner.
LEMMA ReleaseHandsOverRefines ==
    ASSUME IInv, NEW t \in Task, Release(t),
           NEW k \in Key, k = key[t], Queue(k) # <<>>
    PROVE  Mutex!Release(t, k)
<1> DEFINE e == entries[k]
           w == Head(Queue(k))
<1>1. /\ w \in Task \ {t} /\ pc[w] = "queued" /\ key[w] = k
      /\ entries' = entries
      /\ heap' = [heap EXCEPT ![e] = heap'[e]]
      /\ heap'[e].queue = Tail(Queue(k))
      /\ pc' = [pc EXCEPT ![t] = "idle", ![w] = "granted"]
      /\ key' = key
  BY ReleaseHandsOver
<1>2. /\ Owning(t) /\ k \in Key /\ e \in Entry /\ e # NoEntry
  BY ReleaseOwn
<1> HIDE DEF w
<1>3. /\ pc'[t] = "idle" /\ pc'[w] = "granted"
      /\ \A u \in Task \ {t, w} : pc'[u] = pc[u]
  BY <1>1 DEF IInv, TypeOK
<1>4. ASSUME NEW j \in Key
      PROVE  /\ Owners(j)' = IF j = k THEN {w} ELSE Owners(j)
             /\ Waiting(j)' = IF j = k THEN Tail(Waiting(k)) ELSE Waiting(j)
  <2>1. CASE j = k
    <3>1. Owners(j)' = {w}
      <4>1. \A u \in Task : Owning(u) /\ key[u] = k => u = t
        BY <1>2 DEF IInv, MutualExclusion
      <4>2. \A u \in Task : Owning(u)' /\ key'[u] = j <=> u = w
        BY <1>1, <1>3, <2>1, <4>1 DEF Owning
      <4> QED BY <1>1, <4>2 DEF Owners
    <3>2. Waiting(j)' = Tail(Waiting(k))
      BY <1>1, <1>2, <2>1 DEF Waiting, Queue
    <3> QED BY <2>1, <3>1, <3>2
  <2>2. CASE j # k
    <3>1. Owners(j)' = Owners(j)
      BY <1>1, <1>3, <2>2 DEF Owners, Owning
    <3>2. entries[j] # NoEntry => heap'[entries[j]] = heap[entries[j]]
      BY <1>1, <1>2, <2>2 DEF IInv, TypeOK, Separate
    <3>3. Waiting(j)' = Waiting(j)
      BY <1>1, <3>2 DEF Waiting, Queue
    <3> QED BY <2>2, <3>1, <3>3
  <2> QED BY <2>1, <2>2
<1>5. t \in Owners(k) /\ Waiting(k) # <<>> /\ w = Head(Waiting(k))
  BY <1>2 DEF Owners, Waiting, w
<1> QED BY <1>2, <1>4, <1>5 DEF Mutex!Release, Owners, Waiting, Queue

\* Every step of the lock set is a step of the mutexes or leaves them alone.
LEMMA NextRefines == IInv /\ [Next]_vars => [Mutex!Next]_Mutex!vars
<1> SUFFICES ASSUME IInv, [Next]_vars PROVE [Mutex!Next]_Mutex!vars
  OBVIOUS
<1>1. ASSUME NEW t \in Task, NEW k \in Key, Lock(t, k)
      PROVE  Mutex!Next
  BY <1>1, LockNewRefines, LockFoundRefines DEF Mutex!Next, Mutex!Request
<1>2. ASSUME NEW t \in Task, Resume(t)
      PROVE  UNCHANGED Mutex!vars
  <2>1. /\ pc[t] = "granted" /\ pc' = [pc EXCEPT ![t] = "holding"]
        /\ UNCHANGED <<entries, heap, key>>
    BY <1>2 DEF Resume
  <2>2. \A u \in Task : Owning(u)' <=> Owning(u)
    BY <2>1 DEF IInv, TypeOK, Owning
  <2> QED BY <2>1, <2>2 DEF Mutex!vars
<1>3. ASSUME NEW t \in Task, Release(t)
      PROVE  Mutex!Next
  <2>1. PICK k \in Key : k = key[t]
    BY DEF IInv, TypeOK
  <2>2. Mutex!Release(t, k)
    BY <1>3, <2>1, ReleaseLastRefines, ReleaseHandsOverRefines
  <2> QED BY <2>2 DEF Mutex!Next
<1>4. CASE UNCHANGED vars
  BY <1>4 DEF vars, Mutex!vars, Owning
<1> QED BY <1>1, <1>2, <1>3, <1>4 DEF Next

\* The lock set implements a mutex per key, first come first served (async-lock-set.ts,
\* async-lock.ts).
THEOREM Refinement == Spec => ImplementsKeyedMutex
<1>1. Init => Mutex!Init
  BY InitRefines
<1>2. IInv /\ [Next]_vars => [Mutex!Next]_Mutex!vars
  BY NextRefines
<1> QED BY <1>1, <1>2, Invariance, PTL DEF Spec, ImplementsKeyedMutex, Mutex!Spec
=============================================================================
