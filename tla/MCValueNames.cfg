SPECIFICATION NameSpec
CONSTANTS
    Text <- MCText
    Stoul <- MCStoul
    MaxUInt32 = 1
    Tokens <- MCTokens
    MaxLength = 5
CHECK_DEADLOCK FALSE
INVARIANT
    ParseInvertsNaming
