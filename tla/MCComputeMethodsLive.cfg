SPECIFICATION FairSpec
CONSTANTS
    get = get
    total = total
    row = row
    currency = currency
    Key <- MCKey
    Plain <- MCPlain
    Tracked <- MCNoCells
    Body <- MCBodyPlain
    Task = {t1, t2}
    MaxVersion = 1
    Node <- MCNode4
    AutoInvalidate <- MCNoTimers
    NoNode = NoNode
CHECK_DEADLOCK FALSE
PROPERTY EveryCallReturns
