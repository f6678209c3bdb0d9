SPECIFICATION Spec
CONSTANTS
    n1 = n1
    n2 = n2
    n3 = n3
    n4 = n4
    Node <- MCNode4
    AutoInvalidate <- MCAutoInvalidate
    Watcher = {w1}
    NoNode = NoNode
SYMMETRY MCSymmetry
INVARIANTS
    TypeOK
    CoherentInv
    LinkedInv
    TimedInv
PROPERTY ImplementsTransitiveInvalidation
