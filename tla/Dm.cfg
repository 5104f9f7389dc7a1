CONSTANTS
    Clients = {a, b}
    Stranger = stranger
    Idents = {real, other}
    Real = real
    NoSession = NoSession
    NoIdent = NoIdent
    Published = 1
    MaxOps = 4
    MaxFaults = 1
SPECIFICATION Spec
CHECK_DEADLOCK FALSE
INVARIANTS
    TypeOK
    KeyOnce
    SessionPinned
    RefusalHasCause
