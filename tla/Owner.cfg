\* Two users, two rotations, requests that are late but never early.
CONSTANTS
    Users = {u1, u2}
    NoUser = NoUser
    Modes = {"open", "approval"}
    Durations = {1}
    Skew = 0
    MaxOrders = 2
    MaxFrames = 2
    MaxFaults = 1
    MaxTime = 1
SPECIFICATION Spec
SYMMETRY UserSymmetry
CHECK_DEADLOCK FALSE
INVARIANTS
    TypeOK
    BarredOffRoster
    ExpelledLockedOut
    MembersKeyed
