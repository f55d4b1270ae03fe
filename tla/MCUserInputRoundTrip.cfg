SPECIFICATION FairSpec
CONSTANTS
    Text <- MCText
    Stoul <- MCStoul
    MaxUInt32 = 0
    Requests = 2
    Clients = {c1, c2}
    FairClients = {c1}
    ValueTypes <- MCValueTypes
    AskedType = "uint32"
    AssignedType <- MCAssignedType
CHECK_DEADLOCK FALSE
INVARIANT AnswerIsForRequest
PROPERTY RequestIsAnswered
