\* One user, two connections, no reload.
SPECIFICATION Spec
CONSTANTS
    plain = plain
    cb = cb
    noUri = noUri
    Users = {u1}
    Profiled = {u1}
    Conns = {c1, c2}
    Sessions = {s1, s2}
    Configs = {plain}
    WithUri = {plain}
    WithCb = {}
    Reloaders = {}
    Monitor = monitor
    None = None
INVARIANT
    MqttLivesWithSession
CHECK_DEADLOCK FALSE
