\* A page whose connection opens, fails and drops at any second, a message to publish,
\* and a log of two messages of four that arrive; fair timers.
SPECIFICATION ServiceSpec
CONSTANTS
    Sockets = {s1, s2}
    Msgs = {m1}
    Answer = 2
    MsgKinds = {"cmd", "evt"}
    maxLogSize = 2
    MaxMessages = 4
INVARIANTS
    OneChain
    LostOnlyInOutage
    
    
PROPERTIES
    Reconnects
    PublishEnds
    ImplementsDelivery
