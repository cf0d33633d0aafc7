\* Two users, two connections, three session objects, one reload request.
SPECIFICATION Spec
CONSTANTS
    plain = plain
    cb = cb
    noUri = noUri
    Users = {u1, u2}
    Profiled = {u1}
    Conns = {c1, c2}
    Sessions = {s1, s2, s3}
    Configs = {cb, noUri}
    WithUri = {cb}
    WithCb = {cb}
    Reloaders = {r1}
    Monitor = monitor
    None = None
SYMMETRY Symmetry
INVARIANTS
    TypeOK
    OwnTraffic
    ServedAfterSetup
    ClosedOnce
    
    NilClientExplained
PROPERTIES
    ImplementsRegistry
CHECK_DEADLOCK FALSE
