\* One key: the pair state machine against loss, duplication, delay, changes of
\* address and offsets that NewReplyPacket accepts and refuses.
CONSTANTS
    k1 = k1  k2 = k2  n1 = n1  n2 = n2  n3 = n3  a = a  b = b  anchor = anchor
    Keys <- OneKey
    IPs <- TwoIPs
    Nonces <- ThreeNonces
    AnchorKey = anchor
    Word = 64
    VerifyInterval = 3
    StaleTimeout = 1
    OffsetVectors <- OddOffsets
    AllowLists <- NoLists
    Sizes <- ProbeSize
    RandMayFail = FALSE
    MaxGen = 1
    MaxClock = 5
    MaxInbox = 2
    MaxSent = 4
SPECIFICATION Spec
SYMMETRY PairSymmetry
INVARIANTS
    TypeOK
    ChallengeIsCausal
    CompletedPairsSpaced
