\* Programs start, alone or together, crash anywhere and start again.
CONSTANTS
    p1 = p1  p2 = p2  p3 = p3  s1 = s1  s2 = s2  s3 = s3  s4 = s4
    Procs <- ThreeProcs
    PrivateKeys <- FourKeys
    Absent = absent
    Empty = empty
    NoKey = nokey
    MaxCrashes = 3
SPECIFICATION KeySpec
SYMMETRY KeySymmetry
CHECK_DEADLOCK FALSE
INVARIANTS
    OneIdentity
PROPERTIES
    SettledKeyIsFinal
