\* The documented meaning of the interval, against a duplicated first probe.
CONSTANTS
    k1 = k1  k2 = k2  n1 = n1  n2 = n2  n3 = n3  a = a  b = b  anchor = anchor
    Keys <- OneKey
    IPs <- OneIP
    Nonces <- ThreeNonces
    AnchorKey = anchor
    Word = 64
    VerifyInterval = 4
    StaleTimeout = 1
    OffsetVectors <- AnchorOffsets
    AllowLists <- NoLists
    Sizes <- ProbeSize
    RandMayFail = FALSE
    MaxGen = 1
    MaxClock = 6
    MaxInbox = 2
    MaxSent = 3
SPECIFICATION Spec
INVARIANTS
    IntervalIsElapsedTime
