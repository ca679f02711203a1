CONSTANTS
    s1 = s1
    s2 = s2
    k1 = k1
    k2 = k2
    n1 = n1
    n2 = n2
    Sessions <- MCSessions
    Keys <- MCKeys
    Nonces <- MCNonces
    MaxExecs = 1
SPECIFICATION FairSessionSpec
INVARIANTS SessionTypeOK AuthenticatedBySigner RevokedStaysOut RunsOnlyAuthenticated RefusalIsLast
PROPERTIES SessionEnds
CHECK_DEADLOCK FALSE
