SPECIFICATION MCSpec
CONSTANTS
    Key = {k1, k2}
    Task = {t1, t2, t3}
    Entry = {e1, e2, e3}
    NoEntry = NoEntry
    s1 = s1
    s2 = s2
    Calls <- MCCalls
INVARIANTS
    TypeOK
    EntriesInUse
    KeysTellApart
PROPERTIES
    EveryRequestGranted
    ImplementsKeyedMutex
