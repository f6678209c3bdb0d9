SPECIFICATION Spec
CONSTANTS
    get = get
    total = total
    row = row
    currency = currency
    Key <- MCKey
    Plain <- MCPlain
    Tracked <- MCTracked
    Body <- MCBody
    Task = {t1, t2}
    MaxVersion = 1
    Node <- MCNode
    AutoInvalidate <- MCNoTimers
    NoNode = NoNode
SYMMETRY MCSymmetry
CHECK_DEADLOCK FALSE
INVARIANTS
    TypeOK
    GraphStaysSound
    AtMostOneCopy
    ServedIsRegistered
    FreshOverTracked
    StaleOnlyByRace
    ReadYourWrites
    LocksNeverBlock
