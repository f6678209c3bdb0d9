SPECIFICATION Spec
CONSTANTS
    get = get
    total = total
    row = row
    currency = currency
    Key <- MCKey
    Plain <- MCPlain
    Tracked <- MCTracked
    Body <- MCBody
    Task = {t1, t2}
    MaxVersion = 1
    Node <- MCNode
    AutoInvalidate <- MCNoTimers
    NoNode = NoNode
CHECK_DEADLOCK FALSE
INVARIANT NoStaleData
