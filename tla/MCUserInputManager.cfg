SPECIFICATION Spec
CONSTANTS
    s1 = s1
    s2 = s2
    r1 = r1
    r2 = r2
    h1 = h1
    h2 = h2
    Servers <- MCServers
    Ids <- MCIds
    Calls <- MCCalls
    Replies <- MCReplies
    Helpers <- MCHelpers
    InvalidReply = InvalidReply
    NoServer = NoServer
    NoCall = NoCall
    Clear = Clear
SYMMETRY Symmetry
INVARIANTS
    IndInv
    ReplyIsOwn
    FailureHasCause
    AcceptedReplyIsReturned
    NoLostWakeup
    NoStaleRequest
PROPERTIES
    RequestsSeparatedByClear
    ImplementsContract
