\* Logins, sends, pulls and hangups on three connections of two users.
CONSTANTS
    a = a  b = b
    c1 = c1
    c2 = c2
    c3 = c3
    Users = {a, b}
    NoUser = NoUser  NoConn = NoConn  Reply = Reply  Junk = Junk
    Registered0 = {a, b}
    Conns = {c1, c2, c3}
    ToLists <- ToPeer
    Sizes <- PlainOnly
    JunkSize <- Plain
    Cap = 1
    CapRows = 2
    CapBytes = 2
    TTL = 1
    Interval = 1
    Legacy = {}
    MaxSends = 2
    MaxStops = 0
    MaxNow = 0
SPECIFICATION Spec
SYMMETRY ConnSymmetry
CHECK_DEADLOCK FALSE
INVARIANTS
    PresenceIsOwn
    NewestLoginReachable
    NoFrameVanishes
    StreamSound
