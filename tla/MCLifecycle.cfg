\* Construction, Run, Close from two goroutines, faults and a steady stream.
CONSTANTS
    c1 = c1  c2 = c2
    Closers <- TwoClosers
    MaxCalls = 2
    MaxQueue = 2
SPECIFICATION LifeSpec
CHECK_DEADLOCK FALSE
INVARIANTS
    LifeTypeOK
    NothingLeaks
    ClosesOnlyItsOwn
    SequentialClosesSafe
PROPERTIES
    ShutdownEnds
    CloseEnds
