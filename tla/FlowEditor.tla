------------------------------ MODULE FlowEditor ------------------------------
(***************************************************************************)
(* The flow editor of the browser, flow-editor.component.ts: the nodes of  *)
(* one flow, the dialogs that edit them, and the requests that load and    *)
(* save the flow; FlowCanvas adds the canvas and the next-state relation.  *)
(* The tpflow application that stores flows is external, and so is the way *)
(* there: requests may be lost or overtake one another (a publish that     *)
(* WsClient retries is sent after a later one).                            *)
(***************************************************************************)
EXTENDS Naturals, Sequences, FiniteSets, SequencesExt

CONSTANTS
    NodeTypes,    \* the types of node that people add
    StoredFlows,  \* what tpflow may have stored when the editor is opened
    Requests,     \* the uids of requests
    NoRequest,    \* lastRequestId is undefined
    MaxId         \* bound on node ids, for the model checker

NoNode == 0   \* the empty string in a transition
Ids == 1..MaxId
Target == 0..MaxId

\* Node.config: Config is not null.  An "if" node keeps its two transitions in
\* it and has no others.
Node ==
    {n \in [id : Ids, type : NodeTypes, config : BOOLEAN, succ : Target,
            err : Target, timeout : Target, iftrue : Target, iffalse : Target] :
        IF n.type = "if" THEN {n.succ, n.err, n.timeout} = {NoNode}
                         ELSE {n.iftrue, n.iffalse} = {NoNode}}

UniqueIn(flow) ==
    \A i, j \in DOMAIN flow : flow[i].id = flow[j].id => i = j

ASSUME FlowEditorAssumption ==
    /\ MaxId \in Nat
    /\ NoRequest \notin Requests
    /\ \A f \in StoredFlows : f \in Seq(Node) /\ UniqueIn(f)

VARIABLES
    nodes,    \* FlowEditorComponent.flow.Nodes
    loaded,   \* flow.Nodes is defined
    connSub,  \* subscribed to connection events: the page opened while offline
    last,     \* lastRequestId
    dialog,   \* the open dialog and what it refers to
    halfway,  \* a deletion has stopped half-way
    stored,   \* the flow as tpflow has it
    requests, \* requests under way to tpflow
    reports   \* answers under way to the browser

netVars == <<stored, requests, reports>>
vars == <<nodes, loaded, connSub, last, dialog, halfway, netVars>>

\* A node dialog has the node it was opened on, whether that node is in the flow
\* (inFlow) and whether the dialog works on the flow that is shown (attached); a
\* source dialog has the nodes it was opened with, a properties dialog whether it
\* was opened for a new flow.
Closed == [kind |-> "closed"]
Props(new) == [kind |-> "props", new |-> new]

-----------------------------------------------------------------------------
(* Loading and saving.                                                     *)

\* Uids do not repeat.
Fresh(r) == r # last /\ \A m \in requests \cup reports : m.id # r

\* A request or its report; overtaken: the user saved after the request was made.
Msg(r, kind, flow) ==
    [id |-> r, kind |-> kind, flow |-> flow, overtaken |-> FALSE]

\* ngOnInit: the flow is requested at once, or when the connection changes; for a
\* new flow (its id is "-") the dialog of properties is shown first.
Init ==
    /\ nodes = <<>>
    /\ loaded = FALSE
    /\ halfway = FALSE
    /\ stored \in StoredFlows
    /\ dialog = Closed \/ (stored = <<>> /\ dialog = Props(TRUE))
    /\ reports = {}
    /\ \/ connSub = TRUE /\ last = NoRequest /\ requests = {}
       \/ /\ connSub = FALSE
          /\ last \in Requests
          /\ requests = {Msg(last, "load", <<>>)}

\* loadFlow, on every event of the connection.
ConnectionEvent(r) ==
    /\ connSub
    /\ Fresh(r)
    /\ last' = r
    /\ requests' = requests \cup {Msg(r, "load", <<>>)}
    /\ UNCHANGED <<nodes, loaded, connSub, dialog, halfway, stored, reports>>

Overtake(msgs) == {[m EXCEPT !.overtaken = TRUE] : m \in msgs}

Save(r) ==
    /\ Fresh(r)
    /\ last' = r
    /\ requests' = Overtake(requests) \cup {Msg(r, "save", nodes)}
    /\ reports' = Overtake(reports)

SaveFlow(r) ==
    /\ loaded
    /\ dialog = Closed
    /\ Save(r)
    /\ UNCHANGED <<nodes, loaded, connSub, dialog, halfway, stored>>

\* The properties of a new flow are saved at once, loaded or not.
SaveProps(r) ==
    /\ dialog = Props(TRUE)
    /\ dialog' = Closed
    /\ Save(r)
    /\ UNCHANGED <<nodes, loaded, connSub, halfway, stored>>

\* tpflow: cmd.flow.get_definition and cmd.flow.update_definition.
TpflowAnswers(m) ==
    /\ m \in requests
    /\ requests' = requests \ {m}
    /\ stored' = IF m.kind = "save" THEN m.flow ELSE stored
    /\ reports' = reports \cup {[m EXCEPT !.flow = stored']}
    /\ UNCHANGED <<nodes, loaded, connSub, last, dialog, halfway>>

RequestLost(m) ==
    /\ m \in requests
    /\ requests' = requests \ {m}
    /\ UNCHANGED <<nodes, loaded, connSub, last, dialog, halfway, stored, reports>>

\* A node dialog that is open keeps the objects of the flow that is replaced.
Detached == IF dialog.kind = "node" THEN [dialog EXCEPT !.attached = FALSE]
                                    ELSE dialog

Accept(m) ==
    IF m.kind = "load"
    THEN /\ nodes' = m.flow
         /\ loaded' = TRUE
         /\ dialog' = Detached
    ELSE UNCHANGED <<nodes, loaded, dialog>>

\* Fault: the report is not compared with lastRequestId.
AnyReport(m) ==
    /\ m \in reports
    /\ reports' = reports \ {m}
    /\ Accept(m)
    /\ UNCHANGED <<connSub, last, halfway, stored, requests>>

\* configureFimpListener: only the answer to the last request is accepted.
Report(m) ==
    /\ m \in reports
    /\ reports' = reports \ {m}
    /\ IF m.id = last THEN Accept(m)
                      ELSE UNCHANGED <<nodes, loaded, dialog>>
    /\ UNCHANGED <<connSub, last, halfway, stored, requests>>

-----------------------------------------------------------------------------
(* Editing.                                                                *)

Alter == UNCHANGED <<loaded, connSub, last, netVars>>
Edit == Alter /\ UNCHANGED halfway

\* Fault: ids are numbered by the count of nodes.
NextByCount(flow) == Len(flow) + 1

\* getNewNodeId: one more than the largest id.
NewNodeId(flow) ==
    LET ids == {flow[i].id : i \in DOMAIN flow}
    IN  IF ids = {} THEN 1 ELSE 1 + CHOOSE k \in ids : \A l \in ids : l <= k

HasConfig(type) == type \in {"if", "wait", "loop", "set_variable", "time_trigger"}

AddNode(type) ==
    /\ loaded
    /\ dialog = Closed
    /\ NewNodeId(nodes) \in Ids
    /\ nodes' = Append(nodes,
           [id |-> NewNodeId(nodes), type |-> type, config |-> HasConfig(type),
            succ |-> NoNode, err |-> NoNode, timeout |-> NoNode,
            iftrue |-> NoNode, iffalse |-> NoNode])
    /\ Edit
    /\ UNCHANGED dialog

\* The sockets a node shows, and the nodes a line can end at.
Sockets(n) == CASE n.type = "if" -> {"iftrue", "iffalse"}
                [] n.type \in {"trigger", "receive"} -> {"succ", "err", "timeout"}
                [] OTHER -> {"succ", "err"}

HasInput(n) == n.type \notin {"trigger", "time_trigger"}

\* What lineDrop sets: it goes by the type of the source, and for an "if" node
\* everything that is not its true socket means false.
Wired(n, socket, id) ==
    IF n.type = "if" THEN IF socket = "iftrue" THEN [n EXCEPT !.iftrue = id]
                                               ELSE [n EXCEPT !.iffalse = id]
    ELSE IF socket \in {"succ", "err", "timeout"} THEN [n EXCEPT ![socket] = id] ELSE n

\* The component of the node in the dialog fills in a Config that is null.
OpenNode(i) ==
    /\ dialog = Closed
    /\ nodes' = [nodes EXCEPT ![i].config = TRUE]
    /\ dialog' = [kind |-> "node", node |-> nodes'[i], inFlow |-> TRUE,
                  attached |-> TRUE]
    /\ Edit

\* NodeEditorDialog works on data.flow, which is no longer shown if a report
\* has replaced the flow meanwhile.
CloneNode ==
    /\ dialog.kind = "node"
    /\ NewNodeId(nodes) \in Ids
    /\ nodes' = IF dialog.attached
                THEN Append(nodes, [dialog.node EXCEPT !.id = NewNodeId(nodes)])
                ELSE nodes
    /\ Edit
    /\ UNCHANGED dialog

Forget(t, id) == IF t = id THEN NoNode ELSE t

\* Fault: the error transition is forgotten.
UnlinkWithoutError(n, id, reached) ==
    [n EXCEPT !.succ = Forget(@, id),
              !.iftrue = IF reached THEN Forget(@, id) ELSE @,
              !.iffalse = IF reached THEN Forget(@, id) ELSE @]

\* What the loop of deleteNode clears; the timeout transition is not cleared.
Unlink(n, id, reached) ==
    [n EXCEPT !.succ = Forget(@, id), !.err = Forget(@, id),
              !.iftrue = IF reached THEN Forget(@, id) ELSE @,
              !.iffalse = IF reached THEN Forget(@, id) ELSE @]

\* The loop stops with a TypeError at the first node whose Config is null.
Stops(flow) == {i \in DOMAIN flow : ~flow[i].config}

Unlinked(flow, id) ==
    [i \in DOMAIN flow |->
        IF \E k \in Stops(flow) : k < i THEN flow[i]
        ELSE Unlink(flow[i], id, flow[i].config)]

PlaceOf(flow, id) == CHOOSE i \in DOMAIN flow : flow[i].id = id

\* deleteNode: the dialog is closed only if the loop comes to its end.
DeleteNode ==
    LET id == dialog.node.id
        rest == IF dialog.inFlow THEN RemoveAt(nodes, PlaceOf(nodes, id)) ELSE nodes
    IN  /\ dialog.kind = "node"
        /\ IF dialog.attached
           THEN /\ nodes' = Unlinked(rest, id)
                /\ dialog' = IF Stops(rest) = {} THEN Closed
                             ELSE [dialog EXCEPT !.inFlow = FALSE]
                /\ halfway' = (halfway \/ Stops(rest) # {})
           ELSE /\ UNCHANGED <<nodes, halfway>>
                /\ dialog' \in {dialog, Closed}
        /\ Alter

ShowProps ==
    /\ dialog = Closed
    /\ dialog' = Props(FALSE)
    /\ Edit
    /\ UNCHANGED nodes

OpenSource ==
    /\ loaded
    /\ dialog = Closed
    /\ dialog' = [kind |-> "source", text |-> nodes]
    /\ Edit
    /\ UNCHANGED nodes

\* FlowSourceDialog.save; the text is the one the dialog was opened with.
SaveSource ==
    /\ dialog.kind = "source"
    /\ nodes' = dialog.text
    /\ dialog' = Closed
    /\ Edit

CloseDialog ==
    /\ dialog # Closed
    /\ dialog' = Closed
    /\ Edit
    /\ UNCHANGED nodes

-----------------------------------------------------------------------------
(* Properties.                                                             *)

\* No two nodes of a flow have the same id, whatever is added, cloned, deleted
\* and reloaded, in the browser, in tpflow and on the way between them.
UniqueIds ==
    /\ UniqueIn(nodes)
    /\ UniqueIn(stored)
    /\ dialog.kind = "source" => UniqueIn(dialog.text)
    /\ \A m \in requests \cup reports : UniqueIn(m.flow)

Points(n) == {n.succ, n.err, n.iftrue, n.iffalse} \ {NoNode}

\* Every success, error and if transition leads to a node of the flow, unless a
\* deletion has stopped half-way.  (Timeout transitions are not covered:
\* deleteNode keeps them.)
NoDanglingLine == ~halfway =>
    \A i \in DOMAIN nodes : \A t \in Points(nodes[i]) :
        \E j \in DOMAIN nodes : nodes[j].id = t

\* A flow that was requested before the user saved does not replace what the
\* user sees, in whatever order requests and answers arrive.
OvertakenLoadIsIgnored ==
    [][(\E m \in reports : /\ m.overtaken /\ m.kind = "load"
                           /\ reports' = reports \ {m}) => nodes' = nodes]_vars
===============================================================================
