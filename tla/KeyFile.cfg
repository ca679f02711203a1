CONSTANTS
    p1 = p1
    p2 = p2
    p3 = p3
    k1 = k1
    k2 = k2
    k3 = k3
    Absent = Absent
    Empty = Empty
    Procs <- MCProcs
    Keys <- MCKeys
SPECIFICATION KeyFileSpec
SYMMETRY Symmetry
INVARIANTS KeyFileTypeOK OneIdentity AloneAgrees UnusableOnlyIfTorn
PROPERTIES KeyKept
CHECK_DEADLOCK FALSE
