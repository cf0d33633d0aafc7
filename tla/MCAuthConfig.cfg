\* A browser and the control router, two users, a password typed the same or not
\* the second time, all modes, two configurations, the process killed at any point.
SPECIFICATION FairSpec
CONSTANTS
    Browsers = {b1}
    Router = router
    Names = {unknown, alice}
    Unknown = unknown
    Passwords = {secret}
    EmptyPw = emptyPw
    Confs = {conf1, conf2}
    NoConf = noConf
    DefConf = conf1
    GlobalConf = conf1
    FormTypes = {"password"}
    RouterTypes = {"password", "none", "code"}
    Nobody = nobody
    Empty = empty
INVARIANTS
    IdleIsDurable
    
    ConfigReadable
PROPERTY RequestEnds
CHECK_DEADLOCK FALSE
