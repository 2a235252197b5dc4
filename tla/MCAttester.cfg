\* Both modes against an arbitrary network: what a report rests on, and that
\* every round ends.
CONSTANTS
    n1 = n1  me = me  anchor = anchor  other = other  none = none
    Nonces <- OneNonce
    Word = 64
    SelfKey = me
    RemoteKey = anchor
    OtherKey = other
    None = none
    Modes = {TRUE, FALSE}
    Timeout = 1
    BusyPoll = 1
    RttSlack = 0
    SeqWord = 2
    SendMayFail = TRUE
    Interval = 1
    Count = 2
    MaxLag = 1
    MaxBuf = 1
SPECIFICATION OpenSpec
CHECK_DEADLOCK FALSE
INVARIANTS
    AttesterTypeOK
    ReportIsOneExchange
    EchoesNonce
PROPERTIES
    EveryRoundReports
    Stops
