SPECIFICATION Spec
CONSTANTS
    NodeTypes = {"if", "receive"}
    StoredFlows <- TwoFlows
    Requests = {r1, r2}
    NoRequest = noRequest
    MaxId = 2
    MaxEdits = 4
SYMMETRY Symmetry
INVARIANTS   LinesAgree
PROPERTY OvertakenLoadIsIgnored
CHECK_DEADLOCK FALSE
