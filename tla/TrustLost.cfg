CONSTANTS
    f1 = f1
    f2 = f2
    p1 = p1
    p2 = p2
    Tokens <- MCTokens
    HostOrder <- MCHostOrder
    Names <- MCNames
    Fps <- MCFps
    Procs <- MCProcs
    Cuts = {0, 1, 2, 3, 4, 5, 6, 7, 8, 9}
    Modes <- AllModes
SPECIFICATION TrustSpec
SYMMETRY Symmetry
INVARIANTS FileIsLedger
CHECK_DEADLOCK FALSE
