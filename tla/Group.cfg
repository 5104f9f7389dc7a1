SPECIFICATION Spec
CONSTANTS
    Peers = {o, p}
    Me = me
    Nobody = nobody
    Unknown = unknown
    Rosters <- FullRoster
    Orders <- EveryOrder
    Faithful = FALSE
    MaxSessions = 2
    MaxSent = 4
    MaxTime = 1
SYMMETRY PeerSymmetry
INVARIANTS TypeOK AppliedInOrder ModeratedSilent 
PROPERTIES OwnerPinned
CHECK_DEADLOCK FALSE
