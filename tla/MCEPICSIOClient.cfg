SPECIFICATION FairSpec
CONSTANTS
    Requests = 2
    MaxDeliveries = 5
    NoReply = NoReply
CHECK_DEADLOCK FALSE
INVARIANTS
    IndInv
    OnlyStaleRepliesAreDropped
    InterruptIsForActiveReply
PROPERTIES
    ImplementsContract
    StaleReplyIsInterrupted
    QueuedRepliesLeave
    DestructorReturns
