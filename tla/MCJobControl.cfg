SPECIFICATION Spec
CONSTANTS
    Text <- MCText
    Stoul <- MCStoul
    MaxUInt32 = 5
    Procs <- MCProcs
    m_server_prefix <- MCServerPrefix
    Calls = {1, 2, 3, 4}
    NoReply = NoReply
    Clients = {c1, c2}
    NoCall = NoCall
    JobIndices = {1, 2}
    InstrIndices = {1, 2}
    Commands <- MCCommands
    MaxFailures = 1
    MaxDirectCalls = 2
SYMMETRY Symmetry
CHECK_DEADLOCK FALSE
INVARIANTS
    IndInv
    MirrorMatchesJob
PROPERTY ImplementsContract
