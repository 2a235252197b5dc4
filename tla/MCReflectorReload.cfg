\* Two keys, no rate limit: the allowlist changes while probes are handled.
CONSTANTS
    k1 = k1  k2 = k2  n1 = n1  n2 = n2  n3 = n3  a = a  b = b  anchor = anchor
    Keys <- TwoKeys
    IPs <- OneIP
    Nonces <- TwoNonces
    AnchorKey = anchor
    Word = 64
    VerifyInterval = 0
    StaleTimeout = 0
    OffsetVectors <- AnchorOffsets
    AllowLists <- AllLists
    Sizes <- AnySize
    RandMayFail = TRUE
    MaxGen = 2
    MaxClock = 1
    MaxInbox = 1
    MaxSent = 3
SPECIFICATION Spec
SYMMETRY ReloadSymmetry
INVARIANTS
    ChallengeIsCausal
    RevocationBounded
    NonceAcceptedOnce
    AllowlistReplaced
PROPERTIES
    KeptKeysStayAuthorized
    ImplementsChallenge
