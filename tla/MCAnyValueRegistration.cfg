SPECIFICATION Spec
CONSTANTS
    a = a
    b = b
    c = c
    q1 = q1
    q2 = q2
    i1 = i1
    i2 = i2
    t1 = t1
    t2 = t2
    Threads <- MCThreads
    Names <- MCNames
    InputServers <- MCInputServers
    RequestName <- MCRequestName
    NameLists <- MCNameLists
    None = None
SYMMETRY Symmetry
INVARIANTS
    IndInv
    EachNameServedOnce
    FoundServerIsCurrent
    SuccessfulHandlerIsComplete
PROPERTIES
    AddsAllOrNothing
