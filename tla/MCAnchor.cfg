\* Two edits of the allowlist of any kind, two tickers.
CONSTANTS
    k1 = k1  k2 = k2  n1 = n1  a = a  anchor = anchor
    blank = blank  bad = bad
    Keys <- TwoKeys
    IPs <- OneIP
    Nonces <- OneNonce
    AnchorKey = anchor
    Word = 64
    VerifyInterval = 3
    StaleTimeout = 1
    OffsetVectors <- StampedOffsets
    AllowLists <- NoLists
    Sizes <- ProbeSize
    RandMayFail = FALSE
    MaxGen = 3
    MaxClock = 6
    MaxInbox = 0
    MaxSent = 0
    RefreshEvery = 2
    ReloadEvery = 2
    LoopLag = 1
    Files <- SomeFiles
    Blank = blank
    Bad = bad
    MaxEdits = 2
SPECIFICATION AnchorSpec
CHECK_DEADLOCK FALSE
INVARIANTS
    EditInForce
    ListedKeysUndisturbed
    ObservedAtFresh
