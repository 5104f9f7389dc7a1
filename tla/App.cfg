CONSTANTS
    s1 = s1
    s2 = s2
    n1 = n1
    n2 = n2
    k1 = k1
    k2 = k2
    k3 = k3
    Servers = {s1, s2}
    Official = s1
    Names = {n1, n2}
    Keys = {k1, k2, k3}
    Conns = {c1, c2, c3}
    Absent = Absent
    Elsewhere <- MCElsewhere
    MaxCommands = 4
    MaxFaults = 2
SPECIFICATION Spec
SYMMETRY AppSymmetry
CHECK_DEADLOCK FALSE
INVARIANTS
    IndexBacked
    IdentityWhole
    Connections
    RecoverableUnlessFault
