SPECIFICATION Spec
CONSTANTS
    c1 = c1
    c2 = c2
    p = p
    q = q
    west = west
    east = east
    south = south
    sink = sink
    s1 = s1
    s2 = s2
    s3 = s3
    Cell <- MCCell
    Node <- MCNode
    AutoInvalidate <- MCNoTimers
    Snapshot <- MCSnapshot
    Sink = sink
    Reads <- MCReads
    Subscriptions <- MCSubscriptions
    MaxSet = 3
    MaxCall = 2
INVARIANTS
    TypeOK
    CascadeIsComplete
    StaleOnlyUnderWay
    LatestSetWins
CHECK_DEADLOCK FALSE
