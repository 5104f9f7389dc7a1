CONSTANTS
    Clients = {a, b}
    Stranger = stranger
    Idents = {real}
    Real = real
    NoSession = NoSession
    NoIdent = NoIdent
    Published = 1
    MaxOps = 4
    MaxFaults = 0
SPECIFICATION Spec
CHECK_DEADLOCK FALSE
INVARIANT GlareHeals
