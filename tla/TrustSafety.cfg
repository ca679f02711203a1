CONSTANTS
    f1 = f1
    f2 = f2
    p1 = p1
    p2 = p2
    Tokens <- MCTokens
    HostOrder <- MCHostOrder
    Names <- TwoNames
    Fps <- MCFps
    Procs <- MCProcs
    Cuts = {0, 2, 5}
    Modes = {"tty"}
SPECIFICATION TrustSpec
SYMMETRY Symmetry
INVARIANTS TrustTypeOK PinsAccepted SessionKeyAccepted ConfirmedKeyIsUsed
VIEW Seen
CHECK_DEADLOCK FALSE
