---------------------------- MODULE MCFlowEditor ----------------------------
(* Instances of FlowCanvas for TLC.                                        *)
EXTENDS FlowCanvas

Plain(id, type) ==
    [id |-> id, type |-> type, config |-> TRUE, succ |-> NoNode,
     err |-> NoNode, timeout |-> NoNode, iftrue |-> NoNode, iffalse |-> NoNode]

\* A node that waits for an event and leads to another one, and no flow at all.
WaitingFlow == <<[Plain(1, "receive") EXCEPT !.succ = 2], Plain(2, "receive")>>
TwoFlows == {<<>>, WaitingFlow}

\* The uids are interchangeable.
Symmetry == Permutations(Requests)
=============================================================================
