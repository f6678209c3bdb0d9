SPECIFICATION Spec
CONSTANTS
    v1 = v1
    v2 = v2
    price = price
    View <- MCView
    Key <- MCKey
    KeyOf <- MCKeyOf
    Fails <- MCNoFailure
    MaxCall = 4
    MaxVersion = 1
    MaxAttempts = 2
    MaxConnection = 2
    NoCall = NoCall
    NoVersion = NoVersion
    Node <- MCNode
    AutoInvalidate <- MCNoTimers
INVARIANTS
    DisposedStaysClosed
CHECK_DEADLOCK FALSE
