SPECIFICATION FairSpec
CONSTANTS
    s1 = s1
    s2 = s2
    r1 = r1
    r2 = r2
    h1 = h1
    h2 = h2
    Servers = {s1}
    Ids <- MCIds
    Calls <- MCOneCall
    Replies = {r1}
    Helpers = {h1}
    InvalidReply = InvalidReply
    NoServer = NoServer
    NoCall = NoCall
    Clear = Clear
PROPERTIES
    EarlyInterruptIsHonoured
