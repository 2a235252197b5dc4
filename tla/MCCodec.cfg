\* Every chain of at most eight offsets; chains of at most three are signed.
CONSTANTS
    k1 = k1  k2 = k2  none = none
    Keys <- TwoKeys
    NoKey = none
    RefWord = 7
    MaxNodes = 8
    Offsets <- AllChains
    MaxSteps = 3
    MaxSignedNodes = 3
SPECIFICATION Spec
CHECK_DEADLOCK FALSE
INVARIANTS
    RoundTrip
    OneEncoding
    ChainAsSigned
    ReplyAsMade
