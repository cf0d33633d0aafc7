\* One user; two connections that race for the session or come back; the
\* monitor and a reload; fair goroutines.
SPECIFICATION FairSpec
CONSTANTS
    plain = plain
    cb = cb
    noUri = noUri
    Users = {u1}
    Profiled = {u1}
    Conns = {c1, c2}
    Sessions = {s1, s2}
    Configs = {cb}
    WithUri = {cb}
    WithCb = {cb}
    Reloaders = {r1}
    Monitor = monitor
    None = None
PROPERTIES
    IdleSessionRemoved
    UpgradeAnswered
CHECK_DEADLOCK FALSE
