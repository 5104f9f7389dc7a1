\* Two key holders register, log in, publish and fetch on two connections.
CONSTANTS
    alice = alice  bob = bob  root = root  ka = ka  kb = kb
    c1 = c1  c2 = c2
    Names = {alice, bob, root}
    Reserved = {root}
    Keys = {ka, kb}
    Conns = {c1, c2}
    ClientKey <- TwoHolders
    NoName = NoName  NoKey = NoKey  NoBuild = NoBuild  NoConn = NoConn
    Builds = {"official", "fork"}
    RejectUnofficial = TRUE
    AllowedBuilds = {"official"}
    Batches <- Repeating
    MaxUnused = 2
    MaxNonces = 2
    MaxFetches = 2
SPECIFICATION Spec
CHECK_DEADLOCK FALSE
INVARIANTS
    TypeOK
    SpeaksForKeyHolder
    OneTime
PROPERTIES
    IdentityImmutable
    ImplementsAccounts
