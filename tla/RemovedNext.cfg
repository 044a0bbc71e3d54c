SPECIFICATION WalkSpec
SYMMETRY Symmetry
CONSTANTS
    c1 = c1
    c2 = c2
    c3 = c3
    q1 = q1
    f1 = f1
    f2 = f2
    None = None
    Subs <- MCSubs
    RxType <- MCRxType
    Priorities <- MCPriorities
    Prioritized <- MCPrioritized
PROPERTIES
    VisitsListedOnly
