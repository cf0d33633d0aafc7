--------------------------- MODULE FlowCanvasProofs ---------------------------
(***************************************************************************)
(* Proofs about the flow editor with its canvas, for any stored flows, node*)
(* types, uids and bounds.  A flow that the editor, a dialog, tpflow or a  *)
(* message has is either the one that is edited or was there before, so    *)
(* that what every operation keeps for the edited flow holds of all.       *)
(***************************************************************************)
EXTENDS FlowCanvas, SequenceTheorems, WellFoundedInduction, TLAPS

\* The flows that are anywhere in the system.
AllFlows ==
    {nodes, stored} \cup {m.flow : m \in requests \cup reports}
    \cup (IF dialog.kind = "source" THEN {dialog.text} ELSE {})

Message == [id : Requests, kind : {"load", "save"}, flow : Seq(Node), overtaken : BOOLEAN]
MessagesOK == requests \subseteq Message /\ reports \subseteq Message

\* What an open dialog refers to, and that nothing is dragged under it.
DialogOK ==
    /\ dialog.kind \in {"closed", "props", "source", "node"}
    /\ dialog = Closed <=> dialog.kind = "closed"
    /\ drag # NoDrag => dialog = Closed
    /\ dialog.kind = "node" =>
           /\ dialog = [kind |-> "node", node |-> dialog.node, inFlow |-> dialog.inFlow,
                        attached |-> dialog.attached]
           /\ dialog.node \in Node
           /\ dialog.attached /\ dialog.inFlow =>
                  \E i \in DOMAIN nodes : nodes[i].id = dialog.node.id

IInv == /\ \A f \in AllFlows : f \in Seq(Node) /\ UniqueIn(f)
        /\ MessagesOK
        /\ DialogOK

\* Success, error and if transitions of a flow lead to its nodes.
Linked(flow) ==
    \A i \in DOMAIN flow : \A t \in Points(flow[i]) : \E j \in DOMAIN flow : flow[j].id = t

LinkIInv ==
    ~halfway =>
        /\ \A f \in AllFlows : Linked(f)
        /\ dialog.kind = "node" /\ dialog.attached =>
               dialog.inFlow /\ \E i \in DOMAIN nodes : nodes[i] = dialog.node

\* A request that the user has overtaken by saving is not the last one.
OvertakenIsOld == \A m \in requests \cup reports : m.overtaken => m.id # last

-----------------------------------------------------------------------------
(* The operations on a flow.                                               *)

\* getNewNodeId gives an id that no node has.
LEMMA NewNodeIdIsNew ==
    ASSUME NEW flow \in Seq(Node), NEW i \in DOMAIN flow
    PROVE  flow[i].id # NewNodeId(flow)
<1> DEFINE ids == {flow[j].id : j \in DOMAIN flow}
           bounds == {u \in Nat : \A k \in ids : k <= u}
<1>1. ids \subseteq 1 .. MaxId /\ flow[i].id \in ids /\ MaxId \in Nat
  BY FlowEditorAssumption DEF Node, Ids
<1>2. MaxId \in bounds
  BY <1>1
<1>3. PICK u \in bounds : \A v \in bounds : ~(v < u)
  <2>1. PICK u \in bounds : \A v \in bounds : ~(<<v, u>> \in OpToRel(<, Nat))
    BY <1>2, NatLessThanWellFounded, WFMin
  <2> QED
    BY <2>1 DEF OpToRel
<1>4. u \in ids
  <2> SUFFICES ASSUME u \notin ids PROVE FALSE
    OBVIOUS
  <2>1. u \in Nat /\ \A k \in ids : k \in Nat \ {0} /\ k <= u /\ k # u
    BY <1>1
  <2> HIDE DEF ids
  <2>2. \A k \in ids : u - 1 \in Nat /\ k <= u - 1
    BY <2>1
  <2> QED
    <3>1. u - 1 \in bounds
      BY <1>1, <2>2 DEF bounds
    <3> QED
      BY <1>3, <2>1, <3>1
<1>5. ids # {} /\ \A l \in ids : l <= u
  BY <1>1
<1>6. NewNodeId(flow) = 1 + CHOOSE k \in ids : \A l \in ids : l <= k
  BY <1>5 DEF NewNodeId
<1> HIDE DEF ids
<1>7. PICK k \in ids : NewNodeId(flow) = 1 + k /\ \A l \in ids : l <= k
  BY <1>4, <1>5, <1>6
<1> QED
  BY <1>1, <1>7

\* Appending a node with a new id.
LEMMA AppendKeepsFlow ==
    ASSUME NEW flow \in Seq(Node), UniqueIn(flow), NEW n \in Node, n.id = NewNodeId(flow)
    PROVE  Append(flow, n) \in Seq(Node) /\ UniqueIn(Append(flow, n))
<1>1. \A i \in DOMAIN flow : flow[i].id # n.id
  BY NewNodeIdIsNew
<1> QED
  BY <1>1 DEF UniqueIn

LEMMA AppendKeepsLinked ==
    ASSUME NEW flow \in Seq(Node), Linked(flow), NEW n \in Node,
           \A t \in Points(n) : \E j \in DOMAIN flow : flow[j].id = t
    PROVE  Linked(Append(flow, n))
<1> DEFINE longer == Append(flow, n)
<1>1. /\ DOMAIN longer = 1 .. Len(flow) + 1 /\ DOMAIN flow = 1 .. Len(flow)
      /\ \A i \in DOMAIN flow : longer[i] = flow[i]
      /\ longer[Len(flow) + 1] = n
  OBVIOUS
<1>2. ASSUME NEW t, \E j \in DOMAIN flow : flow[j].id = t
      PROVE  \E j \in DOMAIN longer : longer[j].id = t
  BY <1>1, <1>2
<1> HIDE DEF longer
<1>3. \A i \in DOMAIN longer : \A t \in Points(longer[i]) : \E j \in DOMAIN flow : flow[j].id = t
  BY <1>1 DEF Linked
<1> QED
  BY <1>2, <1>3 DEF Linked, longer

\* splice takes the one node with that id out.
LEMMA RemovedNode ==
    ASSUME NEW flow \in Seq(Node), UniqueIn(flow), NEW id,
           \E i \in DOMAIN flow : flow[i].id = id,
           NEW rest, rest = RemoveAt(flow, PlaceOf(flow, id))
    PROVE  /\ rest \in Seq(Node) /\ UniqueIn(rest)
           /\ \A i \in DOMAIN rest : \E j \in DOMAIN flow : rest[i] = flow[j]
           /\ \A j \in DOMAIN flow : flow[j].id # id => \E i \in DOMAIN rest : rest[i] = flow[j]
<1> DEFINE k == PlaceOf(flow, id)
           n == Len(flow)
           front == SubSeq(flow, 1, k - 1)
           back == SubSeq(flow, k + 1, n)
<1>1. k \in 1 .. n /\ flow[k].id = id /\ n \in Nat
  BY DEF PlaceOf
<1> HIDE DEF k
<1>2. /\ front \in Seq(Node) /\ Len(front) = k - 1
      /\ \A i \in 1 .. k - 1 : front[i] = flow[i]
  BY <1>1
<1>3. /\ back \in Seq(Node) /\ Len(back) = n - k
      /\ \A i \in 1 .. n - k : back[i] = flow[k + i]
  BY <1>1
<1>4. rest = front \o back
  BY DEF RemoveAt, k
<1> HIDE DEF front, back
<1>5. /\ rest \in Seq(Node) /\ Len(rest) = n - 1
      /\ \A i \in 1 .. n - 1 : rest[i] = IF i < k THEN flow[i] ELSE flow[i + 1]
  <2>1. /\ rest \in Seq(Node) /\ Len(rest) = n - 1
        /\ \A i \in 1 .. n - 1 : rest[i] = IF i <= k - 1 THEN front[i] ELSE back[i - (k - 1)]
    <3>1. Len(front) + Len(back) = n - 1
      BY <1>1, <1>2, <1>3
    <3> QED
      BY <1>2, <1>3, <1>4, <3>1, ConcatProperties
  <2>2. ASSUME NEW i \in 1 .. n - 1, ~(i < k) PROVE rest[i] = flow[i + 1]
    <3>1. i - (k - 1) \in 1 .. n - k /\ k + (i - (k - 1)) = i + 1 /\ ~(i <= k - 1)
      BY <1>1, <2>2
    <3> QED
      BY <1>3, <2>1, <3>1
  <2>3. ASSUME NEW i \in 1 .. n - 1, i < k PROVE rest[i] = flow[i]
    BY <1>1, <1>2, <2>1, <2>3
  <2> QED
    BY <2>1, <2>2, <2>3
<1>6. ASSUME NEW i \in DOMAIN rest
      PROVE  \E j \in DOMAIN flow : rest[i] = flow[j] /\ j = IF i < k THEN i ELSE i + 1
  BY <1>1, <1>5
<1>7. UniqueIn(rest)
  <2> SUFFICES ASSUME NEW i \in DOMAIN rest, NEW j \in DOMAIN rest, rest[i].id = rest[j].id
               PROVE  i = j
    BY DEF UniqueIn
  <2>1. (IF i < k THEN i ELSE i + 1) = (IF j < k THEN j ELSE j + 1)
    BY <1>6 DEF UniqueIn
  <2> QED
    BY <1>1, <1>5, <2>1
<1>8. ASSUME NEW j \in DOMAIN flow, flow[j].id # id
      PROVE  \E i \in DOMAIN rest : rest[i] = flow[j]
  <2>1. CASE j < k
    BY <1>1, <1>5, <2>1
  <2>2. CASE j > k
    <3>1. j - 1 \in 1 .. n - 1 /\ rest[j - 1] = flow[j]
      BY <1>1, <1>5, <2>2
    <3> QED
      BY <1>5, <3>1
  <2> QED
    BY <1>1, <1>8, <2>1, <2>2
<1> QED
  BY <1>5, <1>6, <1>7, <1>8

LEMMA UnlinkKeepsNode ==
    ASSUME NEW n \in Node, NEW id, NEW reached \in BOOLEAN
    PROVE  /\ Unlink(n, id, reached) \in Node
           /\ Unlink(n, id, reached).id = n.id
           /\ Points(Unlink(n, id, reached)) \subseteq Points(n)
           /\ reached => id \notin Points(Unlink(n, id, reached))
  BY DEF Unlink, Forget, Node, Points, Target, NoNode

\* The loop of deleteNode keeps the ids, and takes transitions away only.
LEMMA UnlinkedKeepsFlow ==
    ASSUME NEW flow \in Seq(Node), UniqueIn(flow), NEW id
    PROVE  /\ Unlinked(flow, id) \in Seq(Node) /\ UniqueIn(Unlinked(flow, id))
           /\ DOMAIN Unlinked(flow, id) = DOMAIN flow
           /\ \A i \in DOMAIN flow : Unlinked(flow, id)[i].id = flow[i].id
           /\ Stops(flow) = {} =>
                  \A i \in DOMAIN flow : /\ Points(Unlinked(flow, id)[i]) \subseteq Points(flow[i])
                                         /\ id \notin Points(Unlinked(flow, id)[i])
<1>1. ASSUME NEW i \in DOMAIN flow
      PROVE  Unlinked(flow, id)[i] \in Node /\ Unlinked(flow, id)[i].id = flow[i].id
  <2>1. flow[i] \in Node
    OBVIOUS
  <2>2. flow[i].config \in BOOLEAN
    BY <2>1 DEF Node
  <2>3. Unlinked(flow, id)[i] \in {flow[i], Unlink(flow[i], id, flow[i].config)}
    BY DEF Unlinked
  <2> QED
    BY <2>1, <2>2, <2>3, UnlinkKeepsNode
<1>2. DOMAIN Unlinked(flow, id) = DOMAIN flow
  BY DEF Unlinked
<1>3. Unlinked(flow, id) \in Seq(Node)
  BY <1>1 DEF Unlinked
<1>4. UniqueIn(Unlinked(flow, id))
  BY <1>1, <1>2 DEF UniqueIn
<1>5. ASSUME Stops(flow) = {}, NEW i \in DOMAIN flow
      PROVE  /\ Points(Unlinked(flow, id)[i]) \subseteq Points(flow[i])
             /\ id \notin Points(Unlinked(flow, id)[i])
  <2>1. flow[i] \in Node /\ flow[i].config = TRUE
    <3>1. flow[i].config
      BY <1>5 DEF Stops
    <3>2. flow[i] \in Node
      OBVIOUS
    <3>3. flow[i].config \in BOOLEAN
      BY <3>2 DEF Node
    <3> QED
      BY <3>1, <3>2, <3>3
  <2>2. Unlinked(flow, id)[i] = Unlink(flow[i], id, TRUE)
    BY <1>5, <2>1 DEF Unlinked
  <2> QED
    BY <2>1, <2>2, UnlinkKeepsNode
<1> QED
  BY <1>1, <1>2, <1>3, <1>4, <1>5

\* lineDrop sets one transition of its source.
LEMMA WiredKeepsNode ==
    ASSUME NEW n \in Node, NEW socket, NEW id \in Ids
    PROVE  /\ Wired(n, socket, id) \in Node
           /\ Wired(n, socket, id).id = n.id
           /\ Points(Wired(n, socket, id)) \subseteq Points(n) \cup {id}
<1>1. CASE n.type = "if"
  BY <1>1 DEF Wired, Node, Points, Target, NoNode, Ids
<1>2. CASE n.type # "if" /\ socket \in {"succ", "err", "timeout"}
  BY <1>2 DEF Wired, Node, Points, Target, NoNode, Ids
<1>3. CASE n.type # "if" /\ socket \notin {"succ", "err", "timeout"}
  BY <1>3 DEF Wired
<1> QED
  BY <1>1, <1>2, <1>3

-----------------------------------------------------------------------------
(* What a step does to the flows.                                          *)

\* The steps by what they do to the flow editor.
LEMMA UserSteps ==
    ASSUME User
    PROVE  \/ UNCHANGED vars
           \/ \E i \in DOMAIN nodes : LineDrop(i) \/ OpenNode(i)
           \/ \E t \in NodeTypes : AddNode(t)
           \/ CloneNode \/ DeleteNode
           \/ SaveSource \/ ShowProps \/ OpenSource \/ CloseDialog
<1>1. CASE EditNodes \/ OpenOrClose
  BY <1>1 DEF EditNodes, OpenOrClose
<1> QED
  BY <1>1 DEF User, DragNode, DragLine, NodeDrop

\* Every flow that is anywhere after a step was there before, or is the one that
\* is edited, or is that of a request to load, which is empty.
LEMMA FlowsMove ==
    ASSUME [Next]_<<vars, canvasVars>>, IInv
    PROVE  AllFlows' \subseteq AllFlows \cup {nodes', <<>>}
<1> USE DEF IInv
<1>0. /\ Closed.kind = "closed"
      /\ dialog.kind = "node" => /\ [dialog EXCEPT !.inFlow = FALSE].kind = "node"
                                 /\ [dialog EXCEPT !.attached = FALSE].kind = "node"
  BY DEF Closed, DialogOK
<1>1. ASSUME dialog'.kind = "source" => \/ dialog.kind = "source" /\ dialog'.text = dialog.text
                                        \/ dialog'.text = nodes,
             NEW f \in AllFlows', f # nodes'
      PROVE  f \in AllFlows \cup {stored'} \cup {m.flow : m \in requests' \cup reports'}
  BY <1>1 DEF AllFlows
<1>2. ASSUME UNCHANGED netVars,
             dialog'.kind = "source" => \/ dialog.kind = "source" /\ dialog'.text = dialog.text
                                        \/ dialog'.text = nodes
      PROVE  AllFlows' \subseteq AllFlows \cup {nodes'}
  BY <1>1, <1>2 DEF AllFlows, netVars
<1>3. CASE User
  <2>1. UNCHANGED netVars
    BY <1>3, UserSteps DEF vars, LineDrop, Edit, Alter, AddNode, OpenNode, CloneNode,
       SaveSource, DeleteNode, ShowProps, OpenSource, CloseDialog
  <2>2. \/ UNCHANGED dialog
        \/ dialog'.kind # "source"
        \/ dialog' = [kind |-> "source", text |-> nodes]
    <3>1. CASE DeleteNode
      BY <1>0, <3>1 DEF DeleteNode
    <3>2. CASE ShowProps
      BY <3>2 DEF ShowProps, Props
    <3>3. CASE OpenSource
      BY <3>3 DEF OpenSource
    <3>4. CASE SaveSource \/ CloseDialog
      BY <1>0, <3>4 DEF SaveSource, CloseDialog
    <3>5. CASE \E i \in DOMAIN nodes : LineDrop(i) \/ OpenNode(i)
      BY <3>5 DEF LineDrop, OpenNode
    <3>6. CASE UNCHANGED vars \/ CloneNode \/ \E t \in NodeTypes : AddNode(t)
      BY <3>6 DEF vars, CloneNode, AddNode
    <3> QED
      BY <1>3, <3>1, <3>2, <3>3, <3>4, <3>5, <3>6, UserSteps
  <2> QED
    BY <1>2, <2>1, <2>2
<1>4. CASE UNCHANGED <<vars, canvasVars>> \/ RedrawTimer
  BY <1>2, <1>4 DEF RedrawTimer, vars
<1>5. CASE Messaging
  <2>1. ASSUME NEW f \in {m.flow : m \in requests' \cup reports'}
        PROVE  f \in AllFlows \cup {stored', <<>>}
    <3>1. PICK m \in requests' \cup reports' : f = m.flow
      BY <2>1
    <3>2. ASSUME NEW r \in Requests, ConnectionEvent(r) PROVE f \in AllFlows \cup {<<>>}
      BY <3>1, <3>2 DEF ConnectionEvent, Msg, AllFlows
    <3>3. ASSUME NEW r \in Requests, SaveFlow(r) \/ SaveProps(r) PROVE f \in AllFlows
      <4>1. \/ m \in Overtake(requests) \cup Overtake(reports)
            \/ m = Msg(r, "save", nodes)
        BY <3>1, <3>3 DEF SaveFlow, SaveProps, Save
      <4>2. CASE m = Msg(r, "save", nodes)
        BY <3>1, <4>2 DEF Msg, AllFlows
      <4>3. CASE m \in Overtake(requests) \cup Overtake(reports)
        <5>1. PICK o \in requests \cup reports : m = [o EXCEPT !.overtaken = TRUE]
          BY <4>3 DEF Overtake
        <5> QED
          BY <3>1, <5>1 DEF AllFlows, MessagesOK, Message
      <4> QED
        BY <4>1, <4>2, <4>3
    <3>4. ASSUME NEW o \in requests, TpflowAnswers(o) \/ RequestLost(o)
          PROVE  f \in AllFlows \cup {stored'}
      <4>1. \/ m \in requests \cup reports
            \/ m = [o EXCEPT !.flow = stored']
        BY <3>1, <3>4 DEF TpflowAnswers, RequestLost
      <4>2. CASE m = [o EXCEPT !.flow = stored']
        BY <3>1, <3>4, <4>2 DEF MessagesOK, Message
      <4> QED
        BY <3>1, <4>1, <4>2 DEF AllFlows
    <3>5. ASSUME NEW o \in reports, Report(o) PROVE f \in AllFlows
      BY <3>1, <3>5 DEF Report, AllFlows
    <3> QED
      BY <1>5, <3>2, <3>3, <3>4, <3>5 DEF Messaging
  <2>2. stored' \in AllFlows
    BY <1>5 DEF Messaging, ConnectionEvent, SaveFlow, SaveProps, Save, TpflowAnswers,
       RequestLost, Report, AllFlows
  <2>3. dialog'.kind = "source" => dialog.kind = "source" /\ dialog'.text = dialog.text
    <3>1. dialog' \in {dialog, Closed, Detached}
      BY <1>5 DEF Messaging, ConnectionEvent, SaveFlow, SaveProps, TpflowAnswers, RequestLost,
         Report, Accept
    <3> QED
      BY <1>0, <3>1 DEF Detached
  <2> QED
    BY <1>1, <2>1, <2>2, <2>3
<1> QED
  BY <1>2, <1>3, <1>4, <1>5 DEF Next

\* Only the user and an answer that is accepted change the flow that is edited.
LEMMA OtherSteps ==
    ASSUME Messaging \/ RedrawTimer \/ UNCHANGED <<vars, canvasVars>>
    PROVE  \/ UNCHANGED <<nodes, halfway>>
           \/ \E m \in reports : m.id = last /\ m.kind = "load" /\ Report(m)
<1>1. CASE Messaging
  BY <1>1 DEF Messaging, ConnectionEvent, SaveFlow, SaveProps, TpflowAnswers, RequestLost,
     Report, Accept
<1> QED
  BY <1>1 DEF RedrawTimer, vars

-----------------------------------------------------------------------------
(* Ids.                                                                    *)

LEMMA AddNodeKeepsFlow ==
    ASSUME nodes \in Seq(Node), UniqueIn(nodes), NEW t \in NodeTypes, AddNode(t)
    PROVE  nodes' \in Seq(Node) /\ UniqueIn(nodes')
<1> DEFINE n == [id |-> NewNodeId(nodes), type |-> t, config |-> HasConfig(t),
                 succ |-> NoNode, err |-> NoNode, timeout |-> NoNode,
                 iftrue |-> NoNode, iffalse |-> NoNode]
<1>1. NewNodeId(nodes) \in Ids /\ HasConfig(t) \in BOOLEAN /\ NoNode \in Target
  BY FlowEditorAssumption DEF AddNode, HasConfig, Target, NoNode
<1>2. n \in Node /\ n.id = NewNodeId(nodes)
  BY <1>1 DEF Node
<1>3. nodes' = Append(nodes, n)
  BY DEF AddNode
<1> HIDE DEF n
<1> QED
  BY <1>2, <1>3, AppendKeepsFlow

LEMMA LineDropKeepsFlow ==
    ASSUME nodes \in Seq(Node), UniqueIn(nodes), NEW j \in DOMAIN nodes, LineDrop(j)
    PROVE  /\ nodes' \in Seq(Node) /\ UniqueIn(nodes')
           /\ DOMAIN nodes' = DOMAIN nodes
           /\ \A i \in DOMAIN nodes : /\ nodes'[i].id = nodes[i].id
                                      /\ Points(nodes'[i]) \subseteq Points(nodes[i]) \cup {nodes[j].id}
<1>1. CASE nodes' = nodes
  BY <1>1
<1>2. CASE nodes' = [i \in DOMAIN nodes |->
                        IF i \in DraggedNode THEN Wired(nodes[i], drag.socket, nodes[j].id)
                                             ELSE nodes[i]]
  <2>1. nodes[j].id \in Ids
    BY DEF Node
  <2>2. ASSUME NEW i \in DOMAIN nodes
        PROVE  /\ nodes'[i] \in Node /\ nodes'[i].id = nodes[i].id
               /\ Points(nodes'[i]) \subseteq Points(nodes[i]) \cup {nodes[j].id}
    BY <1>2, <2>1, WiredKeepsNode
  <2>3. nodes' \in Seq(Node) /\ DOMAIN nodes' = DOMAIN nodes
    BY <1>2, <2>2
  <2> QED
    BY <2>2, <2>3 DEF UniqueIn
<1> QED
  BY <1>1, <1>2 DEF LineDrop

LEMMA OpenNodeKeepsFlow ==
    ASSUME nodes \in Seq(Node), UniqueIn(nodes), NEW i \in DOMAIN nodes, OpenNode(i)
    PROVE  /\ nodes' \in Seq(Node) /\ UniqueIn(nodes')
           /\ DOMAIN nodes' = DOMAIN nodes
           /\ \A k \in DOMAIN nodes : \E c \in BOOLEAN : nodes'[k] = [nodes[k] EXCEPT !.config = c]
<1>1. ASSUME NEW n \in Node, NEW c \in BOOLEAN
      PROVE  [n EXCEPT !.config = c] \in Node /\ [n EXCEPT !.config = c].id = n.id
  BY <1>1 DEF Node
<1>2. nodes' = [nodes EXCEPT ![i] = [nodes[i] EXCEPT !.config = TRUE]]
  BY DEF OpenNode
<1>3. \A k \in DOMAIN nodes : nodes[k] = [nodes[k] EXCEPT !.config = nodes[k].config]
                              /\ nodes[k].config \in BOOLEAN
  BY DEF Node
<1>4. DOMAIN nodes' = DOMAIN nodes
  BY <1>2
<1>5. \A k \in DOMAIN nodes : \E c \in BOOLEAN : nodes'[k] = [nodes[k] EXCEPT !.config = c]
  BY <1>2, <1>3
<1>6. ASSUME NEW k \in DOMAIN nodes PROVE nodes'[k] \in Node /\ nodes'[k].id = nodes[k].id
  <2>1. PICK c \in BOOLEAN : nodes'[k] = [nodes[k] EXCEPT !.config = c]
    BY <1>5
  <2> QED
    BY <1>1, <2>1
<1>7. nodes' \in Seq(Node)
  <2>1. nodes[i] \in Node /\ TRUE \in BOOLEAN /\ i \in 1 .. Len(nodes)
    OBVIOUS
  <2>2. [nodes[i] EXCEPT !.config = TRUE] \in Node
    BY <1>1, <2>1
  <2> QED
    BY <1>2, <2>1, <2>2, ExceptSeq
<1> QED
  BY <1>4, <1>5, <1>6, <1>7 DEF UniqueIn

LEMMA CloneKeepsFlow ==
    ASSUME nodes \in Seq(Node), UniqueIn(nodes), DialogOK, CloneNode
    PROVE  nodes' \in Seq(Node) /\ UniqueIn(nodes')
<1> DEFINE n == [dialog.node EXCEPT !.id = NewNodeId(nodes)]
<1>1. NewNodeId(nodes) \in Ids /\ dialog.node \in Node
  BY DEF CloneNode, DialogOK
<1>2. n \in Node /\ n.id = NewNodeId(nodes)
  BY <1>1 DEF Node
<1>3. nodes' = nodes \/ nodes' = Append(nodes, n)
  BY DEF CloneNode
<1> HIDE DEF n
<1> QED
  BY <1>2, <1>3, AppendKeepsFlow

LEMMA DeleteKeepsFlow ==
    ASSUME nodes \in Seq(Node), UniqueIn(nodes), DialogOK, DeleteNode
    PROVE  nodes' \in Seq(Node) /\ UniqueIn(nodes')
<1> DEFINE id == dialog.node.id
           rest == IF dialog.inFlow THEN RemoveAt(nodes, PlaceOf(nodes, id)) ELSE nodes
<1>1. CASE ~dialog.attached
  BY <1>1 DEF DeleteNode
<1>2. CASE dialog.attached
  <2>1. rest \in Seq(Node) /\ UniqueIn(rest)
    BY <1>2, RemovedNode DEF DeleteNode, DialogOK
  <2>2. nodes' = Unlinked(rest, id)
    BY <1>2 DEF DeleteNode
  <2> HIDE DEF rest, id
  <2> QED
    BY <2>1, <2>2, UnlinkedKeepsFlow
<1> QED
  BY <1>1, <1>2

LEMMA NextKeepsFlow ==
    ASSUME IInv, [Next]_<<vars, canvasVars>>
    PROVE  nodes' \in Seq(Node) /\ UniqueIn(nodes')
<1>1. nodes \in Seq(Node) /\ UniqueIn(nodes) /\ DialogOK
  BY DEF IInv, AllFlows
<1>2. CASE User
  <2>1. CASE SaveSource
    BY <2>1 DEF SaveSource, IInv, AllFlows
  <2>2. CASE UNCHANGED nodes
    BY <1>1, <2>2
  <2> QED
    BY <1>1, <1>2, <2>1, <2>2, UserSteps, AddNodeKeepsFlow, LineDropKeepsFlow,
       OpenNodeKeepsFlow, CloneKeepsFlow, DeleteKeepsFlow
       DEF vars, ShowProps, OpenSource, CloseDialog
<1>3. CASE \E m \in reports : m.id = last /\ m.kind = "load" /\ Report(m)
  BY <1>3 DEF Report, Accept, IInv, AllFlows
<1> QED
  BY <1>1, <1>2, <1>3, OtherSteps DEF Next

LEMMA MsgIsMessage ==
    ASSUME NEW r \in Requests, NEW kind \in {"load", "save"}, NEW flow \in Seq(Node)
    PROVE  Msg(r, kind, flow) \in Message
  BY DEF Msg, Message

LEMMA NextKeepsMessages ==
    ASSUME IInv, [Next]_<<vars, canvasVars>> PROVE MessagesOK'
<1> USE DEF IInv, MessagesOK
<1>1. nodes \in Seq(Node) /\ stored \in Seq(Node)
  BY DEF AllFlows
<1>2. CASE User
  BY <1>2, UserSteps DEF vars, netVars, LineDrop, Edit, Alter, AddNode, OpenNode, CloneNode,
     SaveSource, DeleteNode, ShowProps, OpenSource, CloseDialog
<1>3. CASE RedrawTimer \/ UNCHANGED <<vars, canvasVars>>
  BY <1>3 DEF RedrawTimer, vars, netVars
<1>4. ASSUME NEW r \in Requests, ConnectionEvent(r) PROVE MessagesOK'
  <2>1. <<>> \in Seq(Node)
    OBVIOUS
  <2> QED
    BY <1>4, <2>1, MsgIsMessage DEF ConnectionEvent
<1>5. ASSUME NEW r \in Requests, SaveFlow(r) \/ SaveProps(r) PROVE MessagesOK'
  <2>1. \A m \in Message : [m EXCEPT !.overtaken = TRUE] \in Message
    BY DEF Message
  <2>2. Overtake(requests) \subseteq Message /\ Overtake(reports) \subseteq Message
    BY <2>1 DEF Overtake
  <2>3. Msg(r, "save", nodes) \in Message
    BY <1>1, MsgIsMessage
  <2> QED
    BY <1>5, <2>2, <2>3 DEF SaveFlow, SaveProps, Save
<1>6. ASSUME NEW m \in requests, TpflowAnswers(m) PROVE MessagesOK'
  <2>1. stored' \in Seq(Node)
    BY <1>1, <1>6 DEF TpflowAnswers, Message
  <2>2. [m EXCEPT !.flow = stored'] \in Message
    BY <2>1 DEF Message
  <2> QED
    BY <1>6, <2>2 DEF TpflowAnswers
<1>7. CASE Messaging
  BY <1>4, <1>5, <1>6, <1>7 DEF Messaging, RequestLost, Report
<1> QED
  BY <1>2, <1>3, <1>7 DEF Next

LEMMA NextKeepsDialog ==
    ASSUME IInv, [Next]_<<vars, canvasVars>> PROVE DialogOK'
<1> USE DEF IInv, DialogOK
<1>1. Closed.kind = "closed"
  BY DEF Closed
<1>2. ASSUME UNCHANGED <<dialog, drag, nodes>> PROVE DialogOK'
  BY <1>2
<1>3. ASSUME dialog' = Closed PROVE DialogOK'
  BY <1>1, <1>3
<1>4. ASSUME drag' = NoDrag, \/ \E new \in BOOLEAN : dialog' = Props(new)
                             \/ dialog' = [kind |-> "source", text |-> nodes]
      PROVE  DialogOK'
  BY <1>1, <1>4 DEF Props
<1>5. ASSUME drag' = drag, dialog.kind = "node",
             \/ dialog' = [dialog EXCEPT !.inFlow = FALSE]
             \/ dialog' = [dialog EXCEPT !.attached = FALSE]
      PROVE  DialogOK'
  <2>1. /\ dialog' = [kind |-> "node", node |-> dialog.node, inFlow |-> dialog'.inFlow,
                      attached |-> dialog'.attached]
        /\ ~(dialog'.attached /\ dialog'.inFlow)
    BY <1>5
  <2>2. drag' = NoDrag
    BY <1>1, <1>5
  <2> HIDE DEF DialogOK
  <2>3. dialog'.kind = "node" /\ dialog'.node = dialog.node /\ dialog.node \in Node
    BY <1>5, <2>1 DEF DialogOK
  <2> QED
    BY <1>1, <2>1, <2>2, <2>3 DEF DialogOK
<1>6. ASSUME NEW i \in DOMAIN nodes, OpenNode(i), drag' = NoDrag PROVE DialogOK'
  <2>1. nodes \in Seq(Node) /\ UniqueIn(nodes)
    BY DEF AllFlows
  <2>2. nodes' \in Seq(Node) /\ DOMAIN nodes' = DOMAIN nodes
    BY <1>6, <2>1, OpenNodeKeepsFlow
  <2>3. dialog' = [kind |-> "node", node |-> nodes'[i], inFlow |-> TRUE, attached |-> TRUE]
    BY <1>6 DEF OpenNode
  <2>4. nodes'[i] \in Node
    BY <2>2
  <2> QED
    BY <1>1, <1>6, <2>2, <2>3, <2>4
<1>7. ASSUME CloneNode, drag' = NoDrag PROVE DialogOK'
  <2>1. nodes \in Seq(Node)
    BY DEF AllFlows
  <2>2. \A i \in DOMAIN nodes : i \in DOMAIN nodes' /\ nodes'[i] = nodes[i]
    BY <1>7, <2>1 DEF CloneNode
  <2> QED
    BY <1>7, <2>2 DEF CloneNode
<1>8. ASSUME DeleteNode, drag' = drag PROVE DialogOK'
  <2>1. \/ dialog' = Closed
        \/ dialog' = [dialog EXCEPT !.inFlow = FALSE]
        \/ UNCHANGED <<dialog, nodes>>
    BY <1>8 DEF DeleteNode
  <2> QED
    BY <1>2, <1>3, <1>5, <1>8, <2>1 DEF DeleteNode
<1>9. CASE User
  <2>1. CASE \E i \in DOMAIN nodes : \/ DragNode(i) \/ LineDrop(i)
                                     \/ \E s \in Sockets(nodes[i]) : DragLine(i, s)
    <3>1. dialog' = Closed
      BY <2>1 DEF DragNode, LineDrop, DragLine, vars
    <3> QED
      BY <1>3, <3>1
  <2>2. CASE NodeDrop
    BY <1>1, <2>2 DEF NodeDrop, vars
  <2>3. CASE EditNodes
    <3>1. drag = NoDrag /\ drag' = drag
      BY <2>3 DEF EditNodes, MouseUp
    <3>2. CASE SaveSource \/ \E t \in NodeTypes : AddNode(t)
      BY <1>3, <3>2 DEF SaveSource, AddNode
    <3> QED
      BY <1>6, <1>7, <1>8, <2>3, <3>1, <3>2 DEF EditNodes
  <2>4. CASE OpenOrClose
    BY <1>3, <1>4, <2>4 DEF OpenOrClose, ShowProps, OpenSource, CloseDialog, MouseUp
  <2> QED
    BY <1>9, <2>1, <2>2, <2>3, <2>4 DEF User
<1>10. CASE Messaging
  <2>1. CASE \E r \in Requests : SaveProps(r)
    BY <1>3, <2>1 DEF SaveProps
  <2>2. CASE UNCHANGED <<nodes, dialog>>
    BY <1>2, <1>10, <2>2 DEF Messaging, MouseUp
  <2>3. ASSUME NEW m \in reports, Report(m), UNCHANGED drag PROVE DialogOK'
    <3>1. CASE m.id = last /\ m.kind = "load" /\ dialog.kind = "node"
      BY <1>5, <2>3, <3>1 DEF Report, Accept, Detached
    <3>2. CASE ~(m.id = last /\ m.kind = "load" /\ dialog.kind = "node")
      BY <2>3, <3>2 DEF Report, Accept, Detached
    <3> QED
      BY <3>1, <3>2
  <2> QED
    BY <1>10, <2>1, <2>2, <2>3
       DEF Messaging, ConnectionEvent, SaveFlow, TpflowAnswers, RequestLost
<1>11. CASE RedrawTimer \/ UNCHANGED <<vars, canvasVars>>
  BY <1>2, <1>11 DEF RedrawTimer, vars, canvasVars
<1> QED
  BY <1>9, <1>10, <1>11 DEF Next

LEMMA InitOK == ASSUME CanvasInit PROVE IInv
<1>1. <<>> \in Seq(Node) /\ UniqueIn(<<>>)
  BY DEF UniqueIn
<1>2. stored \in Seq(Node) /\ UniqueIn(stored)
  BY FlowEditorAssumption DEF CanvasInit, Init
<1>3. dialog.kind \in {"closed", "props"}
  BY DEF CanvasInit, Init, Closed, Props
<1>4. \A m \in requests \cup reports : m = Msg(last, "load", <<>>) /\ last \in Requests
  BY DEF CanvasInit, Init
<1>5. MessagesOK
  <2>1. ASSUME NEW m \in requests \cup reports PROVE m \in Message
    <3>1. last \in Requests /\ "load" \in {"load", "save"}
      BY <1>4, <2>1
    <3>2. Msg(last, "load", <<>>) \in Message
      BY <1>1, <3>1, MsgIsMessage
    <3> QED
      BY <1>4, <2>1, <3>2
  <2> QED
    BY <2>1 DEF MessagesOK
<1>6. DialogOK
  BY <1>3 DEF CanvasInit, Init, DialogOK, Closed, Props
<1>7. \A f \in AllFlows : f \in {<<>>, stored}
  BY <1>3, <1>4 DEF AllFlows, Msg, CanvasInit, Init
<1> QED
  BY <1>1, <1>2, <1>5, <1>6, <1>7 DEF IInv

LEMMA NextKeepsIInv == ASSUME IInv, [Next]_<<vars, canvasVars>> PROVE IInv'
<1>1. <<>> \in Seq(Node) /\ UniqueIn(<<>>)
  BY DEF UniqueIn
<1>2. \A f \in AllFlows' : f \in Seq(Node) /\ UniqueIn(f)
  BY <1>1, FlowsMove, NextKeepsFlow DEF IInv
<1> QED
  BY <1>2, NextKeepsMessages, NextKeepsDialog DEF IInv

\* No two nodes of a flow have the same id, whatever nodes are added, wired,
\* cloned and deleted, in whatever order flows are loaded, saved, lost and
\* answered, and in whatever dialog a flow is kept meanwhile (getNewNodeId,
\* cloneNode, deleteNode and the source dialog of flow-editor.component.ts).
THEOREM IdsStayUnique == Spec => []UniqueIds
<1>1. IInv => UniqueIds
  BY DEF IInv, AllFlows, UniqueIds
<1> QED
  BY <1>1, InitOK, NextKeepsIInv, PTL DEF Spec

-----------------------------------------------------------------------------
(* Transitions.                                                            *)

\* A flow whose nodes keep their ids stays linked if the transitions that a node
\* gets lead to a node.
LEMMA LinkedIfSameIds ==
    ASSUME NEW flow, Linked(flow), NEW after, DOMAIN after = DOMAIN flow,
           NEW j \in DOMAIN flow,
           \A i \in DOMAIN flow : /\ after[i].id = flow[i].id
                                  /\ Points(after[i]) \subseteq Points(flow[i]) \cup {flow[j].id}
    PROVE  Linked(after)
  BY DEF Linked

LEMMA AddNodeKeepsLinked ==
    ASSUME nodes \in Seq(Node), Linked(nodes), NEW t \in NodeTypes, AddNode(t)
    PROVE  Linked(nodes')
<1> DEFINE n == [id |-> NewNodeId(nodes), type |-> t, config |-> HasConfig(t),
                 succ |-> NoNode, err |-> NoNode, timeout |-> NoNode,
                 iftrue |-> NoNode, iffalse |-> NoNode]
<1>1. NewNodeId(nodes) \in Ids /\ HasConfig(t) \in BOOLEAN /\ NoNode \in Target
  BY FlowEditorAssumption DEF AddNode, HasConfig, Target, NoNode
<1>2. n \in Node /\ Points(n) = {}
  BY <1>1 DEF Node, Points
<1>3. nodes' = Append(nodes, n)
  BY DEF AddNode
<1> HIDE DEF n
<1> QED
  BY <1>2, <1>3, AppendKeepsLinked

LEMMA OpenNodeKeepsLinked ==
    ASSUME nodes \in Seq(Node), UniqueIn(nodes), Linked(nodes),
           NEW i \in DOMAIN nodes, OpenNode(i)
    PROVE  Linked(nodes')
<1>1. ASSUME NEW n \in Node, NEW c \in BOOLEAN
      PROVE  [n EXCEPT !.config = c].id = n.id /\ Points([n EXCEPT !.config = c]) = Points(n)
  BY <1>1 DEF Node, Points
<1>2. DOMAIN nodes' = DOMAIN nodes
  BY OpenNodeKeepsFlow
<1>3. ASSUME NEW k \in DOMAIN nodes
      PROVE  nodes'[k].id = nodes[k].id /\ Points(nodes'[k]) = Points(nodes[k])
  <2>1. PICK c \in BOOLEAN : nodes'[k] = [nodes[k] EXCEPT !.config = c]
    BY OpenNodeKeepsFlow
  <2> QED
    BY <1>1, <2>1
<1> QED
  BY <1>2, <1>3, LinkedIfSameIds

LEMMA CloneKeepsLinked ==
    ASSUME IInv, LinkIInv, ~halfway, CloneNode PROVE Linked(nodes')
<1> DEFINE n == [dialog.node EXCEPT !.id = NewNodeId(nodes)]
<1>1. nodes \in Seq(Node) /\ Linked(nodes) /\ dialog.kind = "node" /\ dialog.node \in Node
  BY DEF IInv, LinkIInv, AllFlows, CloneNode, DialogOK
<1>2. n \in Node /\ Points(n) = Points(dialog.node)
  BY <1>1 DEF CloneNode, Node, Points
<1>3. nodes' = IF dialog.attached THEN Append(nodes, n) ELSE nodes
  BY DEF CloneNode
<1> HIDE DEF n
<1>4. dialog.attached => \E i \in DOMAIN nodes : nodes[i] = dialog.node
  BY <1>1 DEF LinkIInv
<1>5. dialog.attached => \A t \in Points(n) : \E j \in DOMAIN nodes : nodes[j].id = t
  BY <1>1, <1>2, <1>4 DEF Linked
<1> QED
  BY <1>1, <1>2, <1>3, <1>5, AppendKeepsLinked

\* A deletion that comes to its end leaves no transition to the node it deletes.
LEMMA DeleteKeepsLinked ==
    ASSUME IInv, LinkIInv, ~halfway', DeleteNode PROVE Linked(nodes')
<1> DEFINE id == dialog.node.id
           rest == IF dialog.inFlow THEN RemoveAt(nodes, PlaceOf(nodes, id)) ELSE nodes
<1>1. /\ nodes \in Seq(Node) /\ UniqueIn(nodes) /\ DialogOK
      /\ dialog.kind = "node" /\ ~halfway
  BY DEF IInv, AllFlows, DeleteNode
<1>2. Linked(nodes)
  BY <1>1 DEF LinkIInv, AllFlows
<1>3. CASE ~dialog.attached
  BY <1>2, <1>3 DEF DeleteNode
<1>4. CASE dialog.attached
  <2>1. nodes' = Unlinked(rest, id) /\ Stops(rest) = {}
    BY <1>4 DEF DeleteNode
  <2>2. dialog.inFlow /\ \E i \in DOMAIN nodes : nodes[i].id = id
    BY <1>1, <1>4 DEF LinkIInv, DialogOK
  <2>3. rest = RemoveAt(nodes, PlaceOf(nodes, id))
    BY <2>2
  <2> HIDE DEF rest, id
  <2>4. /\ rest \in Seq(Node) /\ UniqueIn(rest)
        /\ \A i \in DOMAIN rest : \E j \in DOMAIN nodes : rest[i] = nodes[j]
        /\ \A j \in DOMAIN nodes : nodes[j].id # id => \E i \in DOMAIN rest : rest[i] = nodes[j]
    BY <1>1, <2>2, <2>3, RemovedNode
  <2>5. /\ DOMAIN nodes' = DOMAIN rest
        /\ \A i \in DOMAIN rest : /\ nodes'[i].id = rest[i].id
                                  /\ Points(nodes'[i]) \subseteq Points(rest[i])
                                  /\ id \notin Points(nodes'[i])
    BY <2>1, <2>4, UnlinkedKeepsFlow
  <2>6. ASSUME NEW i \in DOMAIN nodes', NEW t \in Points(nodes'[i])
        PROVE  \E j \in DOMAIN nodes' : nodes'[j].id = t
    <3>1. t \in Points(rest[i]) /\ t # id
      BY <2>5, <2>6
    <3>2. PICK k \in DOMAIN nodes : nodes[k].id = t
      BY <1>2, <2>4, <2>5, <3>1 DEF Linked
    <3>3. PICK j \in DOMAIN rest : rest[j] = nodes[k]
      BY <2>4, <3>1, <3>2
    <3> QED
      BY <2>5, <3>2, <3>3
  <2> QED
    BY <2>6 DEF Linked
<1> QED
  BY <1>3, <1>4

LEMMA NextKeepsLinked ==
    ASSUME IInv, LinkIInv, [Next]_<<vars, canvasVars>>, ~halfway'
    PROVE  ~halfway /\ Linked(nodes')
<1>1. ~halfway
  <2>1. CASE User
    <3>1. CASE DeleteNode
      BY <3>1 DEF DeleteNode
    <3>2. CASE UNCHANGED halfway
      BY <3>2
    <3> QED
      BY <2>1, <3>1, <3>2, UserSteps DEF vars, LineDrop, Edit, AddNode, OpenNode, CloneNode,
         SaveSource, ShowProps, OpenSource, CloseDialog
  <2> QED
    BY <2>1, OtherSteps DEF Next, Report
<1>2. nodes \in Seq(Node) /\ UniqueIn(nodes) /\ Linked(nodes)
  BY <1>1 DEF IInv, LinkIInv, AllFlows
<1>3. CASE User
  <2>1. CASE SaveSource
    BY <1>1, <2>1 DEF SaveSource, LinkIInv, AllFlows
  <2>2. CASE UNCHANGED nodes
    BY <1>1, <1>2, <2>2
  <2>3. ASSUME NEW j \in DOMAIN nodes, LineDrop(j) PROVE Linked(nodes')
    BY <1>2, <2>3, LineDropKeepsFlow, LinkedIfSameIds
  <2>4. ASSUME NEW i \in DOMAIN nodes, OpenNode(i) PROVE Linked(nodes')
    BY <1>2, <2>4, OpenNodeKeepsLinked
  <2>5. ASSUME NEW t \in NodeTypes, AddNode(t) PROVE Linked(nodes')
    BY <1>2, <2>5, AddNodeKeepsLinked
  <2>6. ASSUME CloneNode \/ DeleteNode PROVE Linked(nodes')
    BY <1>1, <2>6, CloneKeepsLinked, DeleteKeepsLinked
  <2> QED
    BY <1>1, <1>2, <1>3, <2>1, <2>2, <2>3, <2>4, <2>5, <2>6, UserSteps
       DEF vars, ShowProps, OpenSource, CloseDialog
<1>4. CASE \E m \in reports : m.id = last /\ m.kind = "load" /\ Report(m)
  BY <1>1, <1>4 DEF Report, Accept, LinkIInv, AllFlows
<1> QED
  BY <1>1, <1>2, <1>3, <1>4, OtherSteps DEF Next

\* A dialog that works on the flow refers to a node that is still there.
LEMMA NextKeepsReference ==
    ASSUME IInv, LinkIInv, [Next]_<<vars, canvasVars>>, ~halfway',
           dialog'.kind = "node", dialog'.attached
    PROVE  dialog'.inFlow /\ \E i \in DOMAIN nodes' : nodes'[i] = dialog'.node
<1> DEFINE Reference == dialog.inFlow /\ \E i \in DOMAIN nodes : nodes[i] = dialog.node
<1>1. dialog.kind = "node" /\ dialog.attached => Reference
  BY NextKeepsLinked DEF LinkIInv
<1>2. Closed.kind # "node" /\ \A new : Props(new).kind # "node"
  BY DEF Closed, Props
<1>3. CASE UNCHANGED <<dialog, nodes>>
  BY <1>1, <1>3
<1>4. ASSUME dialog = Closed, dialog' = dialog PROVE FALSE
  BY <1>2, <1>4
<1>5. ASSUME NEW i \in DOMAIN nodes, OpenNode(i) PROVE Reference'
  <2>1. DOMAIN nodes' = DOMAIN nodes
    BY <1>5, OpenNodeKeepsFlow DEF IInv, AllFlows
  <2>2. dialog' = [kind |-> "node", node |-> nodes'[i], inFlow |-> TRUE, attached |-> TRUE]
    BY <1>5 DEF OpenNode
  <2> QED
    BY <2>1, <2>2
<1>6. CASE CloneNode
  <2>1. nodes \in Seq(Node) /\ dialog' = dialog
    BY <1>6 DEF IInv, AllFlows, CloneNode
  <2>2. \A i \in DOMAIN nodes : i \in DOMAIN nodes' /\ nodes'[i] = nodes[i]
    BY <1>6, <2>1 DEF CloneNode
  <2> QED
    BY <1>1, <2>1, <2>2
<1>7. CASE DeleteNode
  <2>1. dialog.attached => dialog' = Closed
    <3> DEFINE id == dialog.node.id
               rest == IF dialog.inFlow THEN RemoveAt(nodes, PlaceOf(nodes, id)) ELSE nodes
    <3>1. dialog.attached =>
              /\ halfway' = (halfway \/ Stops(rest) # {})
              /\ dialog' = IF Stops(rest) = {} THEN Closed ELSE [dialog EXCEPT !.inFlow = FALSE]
      BY <1>7 DEF DeleteNode
    <3> HIDE DEF rest
    <3> QED
      BY <3>1
  <2>2. ~dialog.attached => dialog' \in {dialog, Closed}
    BY <1>7 DEF DeleteNode
  <2> QED
    BY <1>2, <2>1, <2>2
<1>8. CASE User
  <2>1. CASE \E j \in DOMAIN nodes : LineDrop(j)
    BY <1>4, <2>1 DEF LineDrop, IInv, DialogOK
  <2>2. CASE \E t \in NodeTypes : AddNode(t)
    BY <1>4, <2>2 DEF AddNode
  <2>3. CASE SaveSource \/ ShowProps \/ OpenSource \/ CloseDialog
    <3>1. \/ dialog' = Closed \/ dialog' = Props(FALSE)
          \/ dialog' = [kind |-> "source", text |-> nodes]
      BY <2>3 DEF SaveSource, ShowProps, OpenSource, CloseDialog
    <3>2. dialog'.kind # "node"
      BY <1>2, <3>1 DEF Props
    <3> QED
      BY <3>2
  <2> QED
    BY <1>3, <1>5, <1>6, <1>7, <1>8, <2>1, <2>2, <2>3, UserSteps DEF vars
<1>9. CASE Messaging
  <2>1. CASE \E m \in reports : Report(m)
    <3>1. \/ UNCHANGED <<dialog, nodes>>
          \/ dialog' = Detached
      BY <2>1 DEF Report, Accept
    <3>2. dialog' = Detached => FALSE
      <4>1. CASE dialog.kind = "node"
        BY <4>1 DEF Detached, IInv, DialogOK
      <4> QED
        BY <4>1 DEF Detached
    <3> QED
      BY <1>3, <3>1, <3>2
  <2>2. CASE \E r \in Requests : SaveProps(r)
    BY <1>2, <2>2 DEF SaveProps
  <2> QED
    BY <1>3, <1>9, <2>1, <2>2
       DEF Messaging, ConnectionEvent, SaveFlow, TpflowAnswers, RequestLost
<1>10. CASE RedrawTimer \/ UNCHANGED <<vars, canvasVars>>
  BY <1>3, <1>10 DEF RedrawTimer, vars
<1> QED
  BY <1>8, <1>9, <1>10 DEF Next

\* Every success, error and if transition of a flow leads to one of its nodes
\* if those of the stored flows do, unless a deletion has stopped half-way
\* (lineDrop, cloneNode and deleteNode of flow-editor.component.ts), whatever is
\* edited, loaded and saved in between.
THEOREM NoLineDangles ==
    ASSUME \A f \in StoredFlows : Linked(f) PROVE Spec => []NoDanglingLine
<1>1. CanvasInit => IInv /\ LinkIInv
  <2> SUFFICES ASSUME CanvasInit PROVE LinkIInv
    BY InitOK
  <2>1. dialog.kind \in {"closed", "props"} /\ nodes = <<>> /\ stored \in StoredFlows
    BY DEF CanvasInit, Init, Closed, Props
  <2>2. \A m \in requests \cup reports : m.flow = <<>>
    BY DEF CanvasInit, Init, Msg
  <2>3. \A f \in AllFlows : f \in {<<>>, stored}
    BY <2>1, <2>2 DEF AllFlows
  <2>4. Linked(<<>>)
    BY DEF Linked
  <2> QED
    BY <2>1, <2>3, <2>4 DEF LinkIInv
<1>2. IInv /\ LinkIInv /\ [Next]_<<vars, canvasVars>> => IInv' /\ LinkIInv'
  <2> SUFFICES ASSUME IInv, LinkIInv, [Next]_<<vars, canvasVars>>, ~halfway'
               PROVE  /\ \A f \in AllFlows' : Linked(f)
                      /\ dialog'.kind = "node" /\ dialog'.attached =>
                           dialog'.inFlow /\ \E i \in DOMAIN nodes' : nodes'[i] = dialog'.node
    BY NextKeepsIInv DEF LinkIInv
  <2>1. Linked(<<>>)
    BY DEF Linked
  <2>2. \A f \in AllFlows : Linked(f)
    BY NextKeepsLinked DEF LinkIInv
  <2> QED
    BY <2>1, <2>2, FlowsMove, NextKeepsLinked, NextKeepsReference
<1>3. IInv /\ LinkIInv => NoDanglingLine
  BY DEF LinkIInv, NoDanglingLine, AllFlows, Linked
<1> QED
  BY <1>1, <1>2, <1>3, PTL DEF Spec

-----------------------------------------------------------------------------
(* The image.                                                              *)

LEMMA LinesAtAre ==
    ASSUME NEW flow, NEW id, NEW l
    PROVE  l \in LinesAt(flow, id) <=>
               \/ \E i \in DOMAIN flow : flow[i].id = id /\ l \in LinesFrom(flow, flow[i])
               \/ \E i \in ParentsOf(flow, id) : l \in LinesFrom(flow, flow[i]) /\ l.to = id
<1> DEFINE own == UNION {LinesFrom(flow, flow[i]) : i \in {i \in DOMAIN flow : flow[i].id = id}}
           ofParents == UNION {LinesFrom(flow, flow[i]) : i \in ParentsOf(flow, id)}
<1>1. LinesAt(flow, id) = own \cup {line \in ofParents : line.to = id}
  BY DEF LinesAt
<1>2. l \in own <=> \E i \in DOMAIN flow : flow[i].id = id /\ l \in LinesFrom(flow, flow[i])
  OBVIOUS
<1>3. l \in ofParents <=> \E i \in ParentsOf(flow, id) : l \in LinesFrom(flow, flow[i])
  OBVIOUS
<1> HIDE DEF own, ofParents
<1> QED
  BY <1>1, <1>2, <1>3

\* The lines of a flow are its transitions from the sockets that a node shows to
\* nodes that have an input, however the code goes about collecting them.
LEMMA LinesAre ==
    ASSUME NEW flow, NEW l
    PROVE  l \in Lines(flow) <=>
               \E i, j \in DOMAIN flow : \E s \in Sockets(flow[i]) :
                   /\ flow[j].id = flow[i][s] /\ HasInput(flow[j])
                   /\ l = [from |-> flow[i].id, to |-> flow[j].id, type |-> s]
<1> DEFINE Line(i, j, s) == /\ flow[j].id = flow[i][s] /\ HasInput(flow[j])
                            /\ l = [from |-> flow[i].id, to |-> flow[j].id, type |-> s]
<1>1. ASSUME NEW i \in DOMAIN flow
      PROVE  l \in LinesFrom(flow, flow[i]) <=>
                 \E j \in DOMAIN flow : \E s \in Sockets(flow[i]) : Line(i, j, s)
  BY DEF LinesFrom, LineBetween
<1>2. ASSUME NEW i \in DOMAIN flow, l \in LinesFrom(flow, flow[i]) PROVE l \in Lines(flow)
  BY <1>2 DEF Lines, LinesAt
<1>3. ASSUME l \in Lines(flow) PROVE \E i \in DOMAIN flow : l \in LinesFrom(flow, flow[i])
  <2>1. PICK k \in DOMAIN flow : l \in LinesAt(flow, flow[k].id)
    BY <1>3 DEF Lines
  <2> QED
    BY <2>1, LinesAtAre DEF ParentsOf
<1> QED
  BY <1>1, <1>2, <1>3

\* Lines depend on ids, types and transitions only, and dropping a node on the
\* canvas draws no line that the flow does not have.
LEMMA ConfigIsNotDrawn ==
    ASSUME nodes \in Seq(Node), UniqueIn(nodes), NEW i \in DOMAIN nodes, OpenNode(i)
    PROVE  Lines(nodes') = Lines(nodes)
<1>1. ASSUME NEW n \in Node, NEW c \in BOOLEAN, NEW m, m = [n EXCEPT !.config = c]
      PROVE  /\ m.id = n.id /\ Sockets(m) = Sockets(n) /\ (HasInput(m) <=> HasInput(n))
             /\ \A s \in Sockets(n) : m[s] = n[s]
  BY <1>1 DEF Node, Sockets, HasInput
<1>2. DOMAIN nodes' = DOMAIN nodes
  BY OpenNodeKeepsFlow
<1>3. ASSUME NEW k \in DOMAIN nodes
      PROVE  /\ nodes'[k].id = nodes[k].id /\ Sockets(nodes'[k]) = Sockets(nodes[k])
             /\ HasInput(nodes'[k]) <=> HasInput(nodes[k])
             /\ \A s \in Sockets(nodes[k]) : nodes'[k][s] = nodes[k][s]
  <2>1. PICK c \in BOOLEAN : nodes'[k] = [nodes[k] EXCEPT !.config = c]
    BY OpenNodeKeepsFlow
  <2> QED
    BY <1>1, <2>1
<1>4. ASSUME NEW l PROVE l \in Lines(nodes') <=> l \in Lines(nodes)
  BY <1>2, <1>3, LinesAre
<1> QED
  BY <1>4

LEMMA NodeDropDrawsLines ==
    ASSUME NEW flow, NEW id PROVE LinesAt(flow, id) \subseteq Lines(flow)
<1> SUFFICES ASSUME NEW l \in LinesAt(flow, id) PROVE l \in Lines(flow)
  OBVIOUS
<1>1. CASE \E i \in DOMAIN flow : flow[i].id = id
  <2>1. PICK i \in DOMAIN flow : flow[i].id = id
    BY <1>1
  <2>2. LinesAt(flow, flow[i].id) \subseteq Lines(flow)
    BY DEF Lines
  <2> QED
    BY <2>1, <2>2
<1>2. CASE ~ \E i \in DOMAIN flow : flow[i].id = id
  <2>1. PICK i \in ParentsOf(flow, id) : l \in LinesFrom(flow, flow[i]) /\ l.to = id
    BY <1>2, LinesAtAre
  <2>2. \E j \in DOMAIN flow : l.to = flow[j].id
    BY <2>1 DEF LinesFrom, LineBetween
  <2> QED
    BY <1>2, <2>1, <2>2
<1> QED
  BY <1>1, <1>2

\* A node that nothing leads to is added without a line.
LEMMA AddNodeAddsNoLine ==
    ASSUME nodes \in Seq(Node), NEW t \in NodeTypes, AddNode(t), ~Revives(NewNodeId(nodes))
    PROVE  Lines(nodes') = Lines(nodes)
<1> DEFINE n == [id |-> NewNodeId(nodes), type |-> t, config |-> HasConfig(t),
                 succ |-> NoNode, err |-> NoNode, timeout |-> NoNode,
                 iftrue |-> NoNode, iffalse |-> NoNode]
           k == Len(nodes) + 1
<1>1. n.id \in Ids /\ n.id = NewNodeId(nodes) /\ \A s \in Sockets(n) : n[s] = NoNode
  BY DEF AddNode, Sockets
<1>2. nodes' = Append(nodes, n)
  BY DEF AddNode
<1> HIDE DEF n
<1>3. /\ DOMAIN nodes' = 1 .. k /\ DOMAIN nodes = 1 .. k - 1 /\ nodes'[k] = n
      /\ \A i \in DOMAIN nodes : nodes'[i] = nodes[i] /\ nodes[i].id \in Ids
  BY <1>2 DEF Node
<1>4. NoNode \notin Ids
  BY FlowEditorAssumption DEF NoNode, Ids
<1>5. ASSUME NEW l PROVE l \in Lines(nodes') <=> l \in Lines(nodes)
  <2>1. ASSUME l \in Lines(nodes) PROVE l \in Lines(nodes')
    BY <1>3, <2>1, LinesAre
  <2>2. ASSUME l \in Lines(nodes') PROVE l \in Lines(nodes)
    <3>1. PICK i \in DOMAIN nodes', j \in DOMAIN nodes' : \E s \in Sockets(nodes'[i]) :
              /\ nodes'[j].id = nodes'[i][s] /\ HasInput(nodes'[j])
              /\ l = [from |-> nodes'[i].id, to |-> nodes'[j].id, type |-> s]
      BY <2>2, LinesAre
    <3>2. i # k
      BY <1>1, <1>3, <1>4, <3>1
    <3>3. i \in DOMAIN nodes /\ nodes'[i] = nodes[i]
      BY <1>3, <3>2
    <3>4. j # k
      BY <1>1, <1>3, <3>1, <3>3 DEF Revives
    <3> QED
      BY <1>3, <3>1, <3>3, <3>4, LinesAre
  <2> QED
    BY <2>1, <2>2
<1> QED
  BY <1>5

LEMMA NextKeepsLines ==
    ASSUME IInv, LinesAgree, [Next]_<<vars, canvasVars>> PROVE LinesAgree'
<1>1. nodes \in Seq(Node) /\ UniqueIn(nodes)
  BY DEF IInv, AllFlows
<1>2. ASSUME UNCHANGED <<drawn, lagging>>, Lines(nodes') = Lines(nodes) PROVE LinesAgree'
  BY <1>2 DEF LinesAgree
<1>3. ASSUME RedrawAllLines \/ NotDrawn PROVE LinesAgree'
  BY <1>3 DEF LinesAgree, RedrawAllLines, NotDrawn
<1>4. CASE EditNodes
  <2>1. ASSUME NEW t \in NodeTypes, AddNode(t), UNCHANGED drawn,
               lagging' = (lagging \/ Revives(NewNodeId(nodes)))
        PROVE  LinesAgree'
    BY <1>1, <2>1, AddNodeAddsNoLine DEF LinesAgree
  <2>2. ASSUME NEW i \in DOMAIN nodes, OpenNode(i), Undisturbed PROVE LinesAgree'
    BY <1>1, <1>2, <2>2, ConfigIsNotDrawn DEF Undisturbed
  <2>3. CASE CloneNode /\ (IF nodes' = nodes THEN Undisturbed ELSE NotDrawn)
    BY <1>2, <1>3, <2>3 DEF Undisturbed
  <2> QED
    BY <1>3, <1>4, <2>1, <2>2, <2>3 DEF EditNodes
<1>5. CASE NodeDrop
  BY <1>5, NodeDropDrawsLines DEF NodeDrop, vars, LinesAgree
<1>6. CASE \E j \in DOMAIN nodes : LineDrop(j)
  BY <1>2, <1>3, <1>6 DEF LineDrop, Undisturbed
<1>7. CASE User
  BY <1>2, <1>4, <1>5, <1>6, <1>7
     DEF User, DragNode, DragLine, OpenOrClose, ShowProps, OpenSource, CloseDialog,
         vars, Undisturbed
<1>8. CASE Messaging
  BY <1>2, <1>3, <1>8 DEF Messaging, ConnectionEvent, SaveFlow, SaveProps, TpflowAnswers,
     RequestLost, Report, Accept, Undisturbed
<1>9. CASE RedrawTimer \/ UNCHANGED <<vars, canvasVars>>
  BY <1>2, <1>3, <1>9 DEF RedrawTimer, vars, canvasVars
<1> QED
  BY <1>7, <1>8, <1>9 DEF Next

\* The image shows exactly the transitions of the flow (redrawAllLines,
\* redrawNodeLines and getParentNodes), except after the changes that do not
\* draw, until it is drawn the next time.
THEOREM ImageShowsTheFlow == Spec => []LinesAgree
<1>1. CanvasInit => LinesAgree
  <2> SUFFICES ASSUME CanvasInit PROVE Lines(nodes) = drawn
    BY DEF LinesAgree
  <2>1. nodes = <<>> /\ drawn = {}
    BY DEF CanvasInit, Init
  <2> QED
    BY <2>1 DEF Lines
<1> QED
  BY <1>1, InitOK, NextKeepsIInv, NextKeepsLines, PTL DEF Spec

-----------------------------------------------------------------------------
(* Requests that were overtaken.                                           *)

LEMMA NextKeepsOvertaken ==
    ASSUME IInv, OvertakenIsOld, [Next]_<<vars, canvasVars>> PROVE OvertakenIsOld'
<1> USE DEF OvertakenIsOld
<1>1. CASE UNCHANGED <<last, requests, reports>>
  BY <1>1
<1>2. ASSUME NEW r \in Requests, ConnectionEvent(r) PROVE OvertakenIsOld'
  BY <1>2 DEF ConnectionEvent, Fresh, Msg
<1>3. ASSUME NEW r \in Requests, SaveFlow(r) \/ SaveProps(r) PROVE OvertakenIsOld'
  <2>1. ASSUME NEW m \in Overtake(requests) \cup Overtake(reports) PROVE m.id # r
    <3>1. PICK o \in requests \cup reports : m = [o EXCEPT !.overtaken = TRUE]
      BY <2>1 DEF Overtake
    <3>2. m.id = o.id
      BY <3>1 DEF IInv, MessagesOK, Message
    <3> QED
      BY <1>3, <3>1, <3>2 DEF SaveFlow, SaveProps, Save, Fresh
  <2>2. ~Msg(r, "save", nodes).overtaken
    BY DEF Msg
  <2> QED
    BY <1>3, <2>1, <2>2 DEF SaveFlow, SaveProps, Save
<1>4. ASSUME NEW m \in requests, TpflowAnswers(m) PROVE OvertakenIsOld'
  <2>1. [m EXCEPT !.flow = stored'].id = m.id /\ [m EXCEPT !.flow = stored'].overtaken = m.overtaken
    BY DEF IInv, MessagesOK, Message
  <2> QED
    BY <1>4, <2>1 DEF TpflowAnswers
<1>5. CASE Messaging
  BY <1>2, <1>3, <1>4, <1>5 DEF Messaging, RequestLost, Report
<1>6. CASE User
  BY <1>1, <1>6, UserSteps DEF vars, netVars, LineDrop, Edit, Alter, AddNode, OpenNode,
     CloneNode, SaveSource, DeleteNode, ShowProps, OpenSource, CloseDialog
<1>7. CASE RedrawTimer \/ UNCHANGED <<vars, canvasVars>>
  BY <1>1, <1>7 DEF RedrawTimer, vars, netVars
<1> QED
  BY <1>5, <1>6, <1>7 DEF Next

\* The answer to a load that the user has overtaken by saving never replaces the
\* flow that is edited (lastRequestId in configureFimpListener), in whatever
\* order requests and answers arrive.
THEOREM OvertakenLoadsAreIgnored == Spec => OvertakenLoadIsIgnored
<1>1. CanvasInit => OvertakenIsOld
  BY DEF CanvasInit, Init, OvertakenIsOld, Msg
<1>2. ASSUME IInv, OvertakenIsOld, [Next]_<<vars, canvasVars>>,
             NEW m \in reports, m.overtaken, m.kind = "load", reports' = reports \ {m}
      PROVE  nodes' = nodes
  <2>1. CASE User
    BY <1>2, <2>1, UserSteps DEF vars, netVars, LineDrop, Edit, Alter, AddNode, OpenNode,
       CloneNode, SaveSource, DeleteNode, ShowProps, OpenSource, CloseDialog
  <2>2. ASSUME NEW o \in reports, o.id = last, Report(o) PROVE FALSE
    <3>1. o = m
      BY <1>2, <2>2 DEF Report
    <3> QED
      BY <1>2, <2>2, <3>1 DEF OvertakenIsOld
  <2> QED
    BY <1>2, <2>1, <2>2, OtherSteps DEF Next
<1>3. IInv /\ OvertakenIsOld /\ [Next]_<<vars, canvasVars>> =>
          [(\E m \in reports : /\ m.overtaken /\ m.kind = "load"
                               /\ reports' = reports \ {m}) => nodes' = nodes]_vars
  BY <1>2
<1> QED
  BY <1>1, <1>3, InitOK, NextKeepsIInv, NextKeepsOvertaken, PTL DEF Spec, OvertakenLoadIsIgnored
===============================================================================
