SPECIFICATION FairSpec
CONSTANTS
    a = a
    b = b
    v0 = v0
    v1 = v1
    p1 = p1
    p2 = p2
    Names <- MCNames
    Values <- MCValues
    Producers <- MCProducers
    Initial = v0
    NotServed = NotServed
    Owner = Owner
    Exit = Exit
    MaxUpdates = 3
CHECK_DEADLOCK FALSE
INVARIANTS
    IndInv
    NoLostWakeup
    FinalValuesAreLatest
PROPERTIES
    ImplementsFIFO
    UpdatesAreShown
    DestructorReturns
