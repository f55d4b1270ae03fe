SPECIFICATION FairSpec
CONSTANTS
    Text <- MCText
    Stoul <- MCStoul
    MaxUInt32 = 1
    ServerPrefix <- MCServerPrefix
    JobIdx = 0
    NVars = 0
    NInstr = 1
    IndexModulus = 2
    Threads = {t1}
    NoEntry = NoEntry
    MaxReports = 1
    MaxObjects = 1
    NoCallback = NoCallback
    Workers = {w1}
    NoUpdate = NoUpdate
CHECK_DEADLOCK FALSE
PROPERTY UpdatesAreForwarded
