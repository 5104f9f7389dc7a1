\* Two connections, a stop of the process, a row an older build left, and with it
\* a frame of a two-byte character or one too long for what is left of the outbox.
CONSTANTS
    a = a  b = b
    c1 = c1
    c2 = c2
    c3 = c3
    Users = {a, b}
    NoUser = NoUser  NoConn = NoConn  Reply = Reply  Junk = Junk
    Registered0 = {a, b}
    Conns = {c1, c2}
    ToLists <- ToMany
    Sizes <- WideOrLong
    JunkSize <- Wide
    Cap = 1
    CapRows = 2
    CapBytes = 3
    TTL = 1
    Interval = 1
    Legacy = {b}
    MaxSends = 1
    MaxStops = 1
    MaxNow = 0
SPECIFICATION HandlerSpec
CHECK_DEADLOCK FALSE
INVARIANTS
    ByteQuota
PROPERTIES
    FlushEnds
    CleanupEnds
    SendEnds
