\* The anchor's wall clock is corrected during a measurement.
CONSTANTS
    n1 = n1  n2 = n2  n3 = n3  n4 = n4
    me = me  a = a  anchor = anchor  other = other  none = none
    Nonces <- TheNonces
    Word = 1024
    SelfKey = me
    RemoteKey = anchor
    AnchorKey = anchor
    OtherKey = other
    None = none
    Modes = {TRUE}
    Timeout = 9
    BusyPoll = 0
    RttSlack = 0
    SeqWord = 16
    SendMayFail = FALSE
    Interval = 21
    Count = 1
    MaxLag = 0
    MaxBuf = 8
    Keys <- OneKey
    IPs <- OneIP
    AttesterIP = a
    VerifyInterval = 20
    StaleTimeout = 10
    OffsetVectors <- AnchorOffsets
    AllowLists <- NoLists
    Sizes <- ProbeSize
    RandMayFail = FALSE
    MaxClock = 80
    MaxInbox = 8
    MaxGen = 1
    MaxSent = 16
    MinDelay = 1
    MaxDelay = 1
    MaxLosses = 0
    MaxDups = 0
SPECIFICATION SteppedExchange
SYMMETRY NonceSymmetry
CHECK_DEADLOCK FALSE
INVARIANTS
    ProvableBoundSound
