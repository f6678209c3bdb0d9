SPECIFICATION FairSpec
CONSTANTS
    s1 = s1
    State <- MCState
    Awaits <- MCAwaits
    MaxVersion = 2
    Node <- MCNode
    AutoInvalidate <- MCNoTimers
    NoNode = NoNode
    Hooked = {}
INVARIANTS
    TypeOK
    ServedIsCurrent
    FallbackNeverFails
    NothingLeaks
PROPERTIES
    DisposedStaysIdle
    EventuallyCurrent
