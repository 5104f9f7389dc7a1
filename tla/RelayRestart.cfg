\* A stop or crash, a late registration, a row an older build left, the clock,
\* a recipient list with repetitions, a short frame and one too long for the
\* outbox.
CONSTANTS
    a = a  b = b
    c1 = c1
    c2 = c2
    c3 = c3
    Users = {a, b}
    NoUser = NoUser  NoConn = NoConn  Reply = Reply  Junk = Junk
    Registered0 = {a}
    Conns = {c1, c2}
    ToLists <- ToMany
    Sizes <- PlainOrLong
    JunkSize <- Plain
    Cap = 1
    CapRows = 1
    CapBytes = 2
    TTL = 1
    Interval = 2
    Legacy = {a}
    MaxSends = 1
    MaxStops = 1
    MaxNow = 4
SPECIFICATION Spec
SYMMETRY ConnSymmetry
CHECK_DEADLOCK FALSE
INVARIANTS
    TypeOK
    QueueDrainable
    RowQuota
    NoDuplicateOnConnection
    QueueLifetime
PROPERTIES
    RowsLeaveProperly
