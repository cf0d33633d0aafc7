------------------------------ MODULE FlowCanvas ------------------------------
(***************************************************************************)
(* The canvas of the flow editor: nodes are dragged, lines are dragged from*)
(* a socket to a node, and an SVG image shows a line for each transition.  *)
(* The image is drawn anew by lineDrop, after a deletion, and 100 ms after *)
(* a flow was loaded; a drag refers to its node by the id, and a load may  *)
(* come while the mouse is down.  Positions are left out.                  *)
(***************************************************************************)
EXTENDS FlowEditor

CONSTANT MaxEdits  \* bounds the edits and saves, for the model checker

ASSUME FlowCanvasAssumption == MaxEdits \in Nat

VARIABLES
    drag,     \* what nodeDragStart has noted, while the mouse is down
    drawn,    \* the lines in the image
    redraw,   \* the timer set by a load is running
    lagging,  \* the flow has changed without the image since it was last drawn
    edits     \* number of edits and saves

canvasVars == <<drag, drawn, redraw, lagging, edits>>

NoDrag == [kind |-> "none", id |-> NoNode, socket |-> "none"]

CanvasInit == /\ Init
              /\ drag = NoDrag /\ drawn = {} /\ redraw = FALSE
              /\ lagging = FALSE /\ edits = 0

-----------------------------------------------------------------------------
(* Drawing.                                                                *)

\* drawLineBetweenNodes: both sockets must be on the page.
LineBetween(flow, n, socket) ==
    {[from |-> n.id, to |-> flow[j].id, type |-> socket] :
        j \in {j \in DOMAIN flow : flow[j].id = n[socket] /\ HasInput(flow[j])}}

\* redrawNodeLines draws these for the node itself and for its parents.
LinesFrom(flow, n) == UNION {LineBetween(flow, n, s) : s \in Sockets(n)}
ParentsOf(flow, id) == {i \in DOMAIN flow : \E s \in Sockets(flow[i]) : flow[i][s] = id}

LinesAt(flow, id) ==
    LET own == UNION {LinesFrom(flow, flow[i]) : i \in {i \in DOMAIN flow : flow[i].id = id}}
        ofParents == UNION {LinesFrom(flow, flow[i]) : i \in ParentsOf(flow, id)}
    IN  own \cup {l \in ofParents : l.to = id}

Lines(flow) == UNION {LinesAt(flow, flow[i].id) : i \in DOMAIN flow}

\* Fault: the lines that were there are not taken away.
RedrawKeepingOld == drawn' = drawn \cup Lines(nodes') /\ lagging' = FALSE

\* redrawAllLines takes all lines away first.
RedrawAllLines == drawn' = Lines(nodes') /\ lagging' = FALSE

NotDrawn == lagging' = TRUE /\ UNCHANGED drawn
Undisturbed == UNCHANGED <<drawn, lagging>>

EditsOne == edits < MaxEdits /\ edits' = edits + 1
MouseUp == drag = NoDrag /\ UNCHANGED drag

-----------------------------------------------------------------------------
(* The mouse.                                                              *)

DragNode(i) == /\ drag = NoDrag /\ dialog = Closed /\ edits < MaxEdits
               /\ drag' = [kind |-> "node", id |-> nodes[i].id, socket |-> "none"]
               /\ UNCHANGED <<vars, drawn, redraw, lagging, edits>>

DragLine(i, s) == /\ drag = NoDrag /\ dialog = Closed /\ edits < MaxEdits
                  /\ s \in Sockets(nodes[i])
                  /\ drag' = [kind |-> "line", id |-> nodes[i].id, socket |-> s]
                  /\ UNCHANGED <<vars, drawn, redraw, lagging, edits>>

DraggedNode == {i \in DOMAIN nodes : nodes[i].id = drag.id}

\* lineDrop, on the input socket of a node, of a line or of a whole node; when
\* the source is gone it throws.
LineDrop(j) ==
    /\ drag # NoDrag /\ drag' = NoDrag
    /\ HasInput(nodes[j])
    /\ IF DraggedNode = {} THEN UNCHANGED nodes /\ Undisturbed
       ELSE /\ nodes' = [i \in DOMAIN nodes |->
                            IF i \in DraggedNode THEN Wired(nodes[i], drag.socket, nodes[j].id)
                                                 ELSE nodes[i]]
            /\ RedrawAllLines
    /\ EditsOne
    /\ Edit
    /\ UNCHANGED <<dialog, redraw>>

\* nodeDrop, on the canvas; a line that is dropped there is forgotten.
NodeDrop ==
    /\ drag # NoDrag /\ drag' = NoDrag
    /\ drawn' = IF drag.kind = "node" THEN drawn \cup LinesAt(nodes, drag.id) ELSE drawn
    /\ EditsOne
    /\ UNCHANGED <<vars, redraw, lagging>>

RedrawTimer == /\ redraw /\ redraw' = FALSE
               /\ UNCHANGED vars /\ RedrawAllLines
               /\ UNCHANGED <<drag, edits>>

-----------------------------------------------------------------------------
(* The other edits and their effect on the image.                          *)

\* A line whose end was missing gets one without being drawn.
Revives(id) == \E i \in DOMAIN nodes : \E s \in Sockets(nodes[i]) : nodes[i][s] = id

EditNodes ==
    /\ \/ \E t \in NodeTypes : /\ AddNode(t) /\ UNCHANGED drawn
                               /\ lagging' = (lagging \/ Revives(NewNodeId(nodes)))
       \/ \E i \in DOMAIN nodes : OpenNode(i) /\ Undisturbed
       \/ CloneNode /\ (IF nodes' = nodes THEN Undisturbed ELSE NotDrawn)
       \/ SaveSource /\ NotDrawn
       \/ DeleteNode /\ (IF dialog' = Closed THEN RedrawAllLines ELSE NotDrawn)
    /\ EditsOne /\ MouseUp /\ UNCHANGED redraw

OpenOrClose == /\ ShowProps \/ OpenSource \/ CloseDialog
               /\ MouseUp /\ Undisturbed /\ UNCHANGED <<redraw, edits>>

User == \/ \E i \in DOMAIN nodes : \/ DragNode(i) \/ LineDrop(i)
                                   \/ \E s \in Sockets(nodes[i]) : DragLine(i, s)
        \/ NodeDrop \/ EditNodes \/ OpenOrClose

Messaging ==
    \/ \E r \in Requests : /\ ConnectionEvent(r)
                          /\ Undisturbed /\ UNCHANGED <<redraw, edits, drag>>
    \/ \E r \in Requests : /\ SaveFlow(r) \/ SaveProps(r)
                          /\ Undisturbed /\ UNCHANGED redraw /\ EditsOne /\ MouseUp
    \/ \E m \in requests : /\ TpflowAnswers(m) \/ RequestLost(m)
                          /\ Undisturbed /\ UNCHANGED <<redraw, edits, drag>>
    \/ \E m \in reports :
          /\ Report(m)
          /\ IF m.id = last /\ m.kind = "load" THEN NotDrawn /\ redraw' = TRUE
                                              ELSE Undisturbed /\ UNCHANGED redraw
          /\ UNCHANGED <<edits, drag>>

Next == User \/ Messaging \/ RedrawTimer

Spec == CanvasInit /\ [][Next]_<<vars, canvasVars>>

-----------------------------------------------------------------------------
(* Properties.                                                             *)

\* The image shows exactly the transitions of the flow, whatever is dragged,
\* added, deleted and loaded in between, except after the changes that do not
\* draw: a clone, an edited source, a deletion that failed half-way, a node that
\* gets the id of one that was deleted, and a load until its timer.
LinesAgree == ~lagging => drawn = Lines(nodes)
===============================================================================
