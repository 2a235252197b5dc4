\* The cadence of the default flags, scaled, in both modes: losses, duplicates
\* and reloads while pairs are in flight.
CONSTANTS
    n1 = n1  n2 = n2  n3 = n3  n4 = n4
    me = me  a = a  anchor = anchor  other = other  none = none
    Nonces <- TheNonces
    Word = 1024
    SelfKey = me
    RemoteKey = anchor
    AnchorKey = anchor
    OtherKey = other
    None = none
    Modes = {TRUE, FALSE}
    Timeout = 9
    BusyPoll = 0
    RttSlack = 0
    SeqWord = 16
    SendMayFail = FALSE
    Interval = 21
    Count = 2
    MaxLag = 0
    MaxBuf = 8
    Keys <- OneKey
    IPs <- OneIP
    AttesterIP = a
    VerifyInterval = 20
    StaleTimeout = 10
    OffsetVectors <- AnchorOffsets
    AllowLists <- KeepingLists
    Sizes <- ProbeSize
    RandMayFail = FALSE
    MaxClock = 120
    MaxInbox = 8
    MaxGen = 1
    MaxSent = 16
    MinDelay = 1
    MaxDelay = 2
    MaxLosses = 3
    MaxDups = 2
SPECIFICATION DeployedExchange
SYMMETRY NonceSymmetry
CHECK_DEADLOCK FALSE
INVARIANTS
    ReportedIntervalIsMeasured
    ProvableBoundSound
    SuccessIsChallenged
    CleanRoundSucceeds
