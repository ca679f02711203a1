CONSTANTS
    p1 = p1
    p2 = p2
    k1 = k1
    k2 = k2
    k3 = k3
    Absent = Absent
    Empty = Empty
    Procs <- MCProcs
    Pairs <- MCPairs
SPECIFICATION BootSpec
SYMMETRY Symmetry
INVARIANTS BootTypeOK OnePin BrokenOnlyIfTorn PolicyInForce
PROPERTIES AdminKeysKept
CHECK_DEADLOCK FALSE
