------------------------------ MODULE FlowPages ------------------------------
(* The pages of the browser around the flow editor, and tpflow's answers to   *)
(* them: the list of flows (flow-overview), the context of variables of a     *)
(* flow or of all flows (flow-context), and the variable selectors of the     *)
(* node dialogs with the one FlowContextService that they share. One page or  *)
(* dialog is open at a time; the service lives from the first selector on.    *)
(* Reports of context records carry no trace of the flow they answer for, and *)
(* everyone takes every one of them. tpflow serves the requests in their      *)
(* order and answers each with a value; a record is the name of its variable. *)
EXTENDS Naturals, Sequences

CONSTANTS Flows, Names,
          MaxOnTheWay      \* bounds what the user starts before it is answered

ASSUME FlowPagesAssumption == "global" \notin Flows /\ MaxOnTheWay \in Nat

Contexts == Flows \cup {"global"}
Unknown == [f \in Flows |-> "unknown"]

VARIABLES store, state,         \* tpflow: the variables of each context; the flows
          online, requests, reports,
          contextRecords,       \* FlowContextService: the variables offered, with IsGlobal
          lastRequestFlowId,    \* "none" until a selector has created the service
          page, loadMode, dialog, shown,    \* the open page; the context page's dialog and table
          flows, connSub, timers            \* the list; its subscription; the timers of imports

tpflow == <<store, state>>
wire == <<requests, reports>>
service == <<contextRecords, lastRequestFlowId>>
contextPage == <<loadMode, dialog, shown>>
overview == <<flows, connSub, timers>>
vars == <<tpflow, online, wire, service, page, contextPage, overview>>

NoPage == <<"none">>
Overview == <<"overview">>
Selector(f) == <<"selector", f>>
Context(ctx) == <<"context", ctx>>     \* embedded in the editor if ctx is a flow

Init == /\ store \in [Contexts -> SUBSET Names] /\ state \in [Flows -> {"RUNNING", "gone"}]
        /\ online \in BOOLEAN /\ requests = <<>> /\ reports = <<>>
        /\ contextRecords = {} /\ lastRequestFlowId = "none"
        /\ page = NoPage /\ loadMode = "global" /\ dialog = "none" /\ shown = {}
        /\ flows = Unknown /\ connSub = FALSE /\ timers = 0

GetRecords(ctx) == <<"cmd.flow.ctx_get_records", ctx>>
GetList == <<"cmd.flow.get_list">>

Publish(msgs) == requests' = requests \o msgs /\ UNCHANGED reports
Free == Len(requests) + Len(reports) < MaxOnTheWay

-----------------------------------------------------------------------------
(* tpflow: every request is carried out and answered by a report.             *)
Carry(r) ==
  CASE r[1] = "cmd.flow.ctx_update_record" ->
         store' = [store EXCEPT ![r[2]] = @ \cup {r[3]}] /\ UNCHANGED state
    [] r[1] = "cmd.flow.ctx_delete" -> store' = [store EXCEPT ![r[2]] = @ \ {r[3]}] /\ UNCHANGED state
    [] r[1] = "cmd.flow.ctrl" ->
         state' = [state EXCEPT ![r[2]] = IF @ = "gone" THEN @ ELSE r[3]] /\ UNCHANGED store
    [] r[1] = "cmd.flow.delete" -> state' = [state EXCEPT ![r[2]] = "gone"] /\ UNCHANGED store
    [] r[1] = "cmd.flow.import" -> state' = [state EXCEPT ![r[2]] = "RUNNING"] /\ UNCHANGED store
    [] OTHER -> UNCHANGED tpflow

ReportOn(r) ==
  CASE r[1] = "cmd.flow.ctx_get_records" -> <<"evt.flow.ctx_records_report", store[r[2]]>>
    [] r[1] = "cmd.flow.get_list" -> <<"evt.flow.list_report", state>>
    [] r[1] = "cmd.flow.ctx_update_record" -> <<"evt.flow.ctx_update_report">>
    [] r[1] = "cmd.flow.ctx_delete" -> <<"evt.flow.ctx_delete_report">>
    [] r[1] = "cmd.flow.ctrl" -> <<"evt.flow.ctr_report">>
    [] r[1] = "cmd.flow.delete" -> <<"evt.flow.delete_report">>
    [] r[1] = "cmd.flow.import" -> <<"evt.flow.import_report">>

Serve == /\ online /\ requests # <<>>
         /\ Carry(Head(requests))
         /\ requests' = Tail(requests)
         /\ reports' = Append(reports, ReportOn(Head(requests)))
         /\ UNCHANGED <<online, service, page, contextPage, overview>>

-----------------------------------------------------------------------------
(* FlowContextService.                                                        *)
\* Fault: a variable is known by its name alone.
MapContextByName(names, flowId) ==
  contextRecords \cup {<<n, flowId = "global">> : n \in {m \in names : \A b \in BOOLEAN : <<m, b>> \notin contextRecords}}

\* mapContext: records that are known keep their place, by name and scope.
MapContext(names, flowId) == contextRecords \cup {<<n, flowId = "global">> : n \in names}

\* The service files any report under the context it has asked for last, and
\* asks for the global records after it has filed one under a flow.
ServiceTakes(r) ==
  IF r[1] = "evt.flow.ctx_records_report" /\ lastRequestFlowId # "none"
  THEN /\ contextRecords' = MapContext(r[2], lastRequestFlowId)
       /\ lastRequestFlowId' = "global"
       /\ requests' = requests \o IF lastRequestFlowId # "global"
                                  THEN <<GetRecords("global")>> ELSE <<>>
  ELSE UNCHANGED <<service, requests>>

\* requestContext.
RequestContext(f) == lastRequestFlowId' = f /\ Publish(<<GetRecords(f)>>)

\* ngOnInit of a selector: getContextData asks only if there are no records.
OpenSelector(f) ==
  /\ page = NoPage /\ online /\ Free /\ page' = Selector(f)
  /\ IF contextRecords = {} THEN RequestContext(f) /\ UNCHANGED contextRecords
     ELSE UNCHANGED <<wire, service>>
  /\ UNCHANGED <<tpflow, online, contextPage, overview>>

\* A selector's record dialog is saved; afterClosed calls reloadFullContext.
SaveNewVariable(n, isGlobal) ==
  \E f \in Flows :
    /\ page = Selector(f) /\ Free
    /\ contextRecords' = {} /\ lastRequestFlowId' = f
    /\ Publish(<<<<"cmd.flow.ctx_update_record", IF isGlobal THEN "global" ELSE f, n>>, GetRecords(f)>>)
    /\ UNCHANGED <<tpflow, online, page, contextPage, overview>>

-----------------------------------------------------------------------------
(* FlowContextComponent and its record dialog.                                *)
OpenContext(ctx) ==
  /\ page = NoPage /\ online /\ Free /\ page' = Context(ctx)
  /\ loadMode' = IF ctx = "global" THEN "global" ELSE "local"
  /\ shown' = {} /\ dialog' = "none"
  /\ Publish(<<GetRecords(ctx)>>)
  /\ UNCHANGED <<tpflow, online, service, overview>>

OnContext == page[1] = "context"
ContextOfMode == IF loadMode = "local" THEN page[2] ELSE "global"

\* The radio buttons of an embedded page.
OnModeChange ==
  /\ OnContext /\ page[2] # "global" /\ dialog = "none" /\ Free
  /\ loadMode' = IF loadMode = "local" THEN "global" ELSE "local"
  /\ Publish(<<GetRecords(IF loadMode' = "local" THEN page[2] ELSE "global")>>)
  /\ UNCHANGED <<tpflow, online, service, page, dialog, shown, overview>>

\* reload: always the records of the page's flow, whatever the mode.
Reload == /\ OnContext /\ dialog = "none" /\ Free
          /\ Publish(<<GetRecords(page[2])>>)
          /\ UNCHANGED <<tpflow, online, service, page, contextPage, overview>>

\* showRecordEditorDialog of a row, or showAddNewRecordEditorDialog.
OpenDialog(d) == /\ OnContext /\ dialog = "none" /\ (d = "edit" => shown # {})
                 /\ dialog' = d
                 /\ UNCHANGED <<tpflow, online, wire, service, page, loadMode, shown, overview>>

SaveRecord(n) ==
  /\ dialog \in {"edit", "add"} /\ Free /\ dialog' = "closing"
  /\ Publish(<<<<"cmd.flow.ctx_update_record", ContextOfMode, n>>>>)
  /\ UNCHANGED <<tpflow, online, service, page, loadMode, shown, overview>>

\* afterClosed of a dialog that was saved.
AfterClosed == /\ dialog = "closing" /\ dialog' = "none"
               /\ Publish(<<GetRecords("global")>>)
               /\ UNCHANGED <<tpflow, online, service, page, loadMode, shown, overview>>

DeleteRecord(n) ==
  /\ dialog \in {"edit", "add"} /\ Free /\ dialog' = "none"
  /\ Publish(<<<<"cmd.flow.ctx_delete", ContextOfMode, n>>>>)
  /\ UNCHANGED <<tpflow, online, service, page, loadMode, shown, overview>>

CancelDialog == /\ dialog \in {"edit", "add"} /\ dialog' = "none"
                /\ UNCHANGED <<tpflow, online, wire, service, page, loadMode, shown, overview>>

\* Fault: a deleted record does not make the page load again.
Changed == {"evt.flow.ctx_update_report"}

\* The reports that make a context page reload and close the dialog of a row.
ContextChanged == {"evt.flow.ctx_update_report", "evt.flow.ctx_delete_report"}

-----------------------------------------------------------------------------
(* FlowOverviewComponent.                                                     *)
OpenOverview ==
  /\ page = NoPage /\ Free /\ page' = Overview /\ flows' = Unknown
  /\ connSub' = ~online
  /\ IF online THEN Publish(<<GetList>>) ELSE UNCHANGED wire
  /\ UNCHANGED <<tpflow, online, service, contextPage, timers>>

\* The connection comes up; a list that was opened offline loads.
Connect == /\ ~online /\ online' = TRUE
           /\ IF connSub THEN Publish(<<GetList>>) ELSE UNCHANGED wire
           /\ UNCHANGED <<tpflow, service, page, contextPage, overview>>

\* deleteFlow, sendFlowControlCommand: a button of a flow that is listed.
FlowCommand(f, cmd) ==
  /\ page = Overview /\ Free /\ flows[f] \notin {"unknown", "gone"}
  /\ Publish(<<cmd>>)
  /\ UNCHANGED <<tpflow, online, service, page, contextPage, overview>>

\* The import dialog is closed, with a flow or without one.
CloseImport(msgs) ==
  /\ page = Overview /\ online /\ Free /\ timers = 0 /\ timers' = 1
  /\ Publish(msgs)
  /\ UNCHANGED <<tpflow, online, service, page, contextPage, flows, connSub>>

ImportTimer == /\ timers > 0 /\ timers' = timers - 1
               /\ Publish(<<GetList>>)
               /\ UNCHANGED <<tpflow, online, service, page, contextPage, flows, connSub>>

\* Fault: the answer to a deletion does not load the list.
ListChangedByOthers == {"evt.flow.ctr_report", "evt.flow.import_report"}

ListChanged == {"evt.flow.delete_report", "evt.flow.ctr_report", "evt.flow.import_report"}

\* Leaving a page ends its subscriptions, not the timers.
Leave == /\ page # NoPage /\ dialog = "none"
         /\ page' = NoPage /\ flows' = Unknown /\ connSub' = FALSE /\ shown' = {}
         /\ UNCHANGED <<tpflow, online, wire, service, loadMode, dialog, timers>>

-----------------------------------------------------------------------------
(* One report, delivered to the service and to the open page.                 *)
\* mapContext of the page: a row for each record, of the page's flow whatever context they are of.
Rows(names, flowId) == {[FlowId |-> flowId, Name |-> n] : n \in names}

ContextPageTakes(r) ==
  /\ shown' = IF r[1] = "evt.flow.ctx_records_report" THEN Rows(r[2], page[2]) ELSE shown
  /\ dialog' = IF r[1] \in ContextChanged /\ dialog = "edit" THEN "none" ELSE dialog
  /\ IF r[1] \in ContextChanged
     THEN requests' = Append(requests, GetRecords(page[2])) /\ UNCHANGED service
     ELSE ServiceTakes(r)
  /\ UNCHANGED flows

OverviewTakes(r) ==
  /\ flows' = IF r[1] = "evt.flow.list_report" THEN r[2] ELSE flows
  /\ IF r[1] \in ListChanged
     THEN requests' = Append(requests, GetList) /\ UNCHANGED service
     ELSE ServiceTakes(r)
  /\ UNCHANGED <<dialog, shown>>

Receive ==
  /\ reports # <<>>
  /\ reports' = Tail(reports)
  /\ CASE OnContext       -> ContextPageTakes(Head(reports))
       [] page = Overview -> OverviewTakes(Head(reports))
       [] OTHER           -> ServiceTakes(Head(reports)) /\ UNCHANGED <<dialog, shown, flows>>
  /\ UNCHANGED <<tpflow, online, page, loadMode, connSub, timers>>

Next ==
  \/ Serve \/ Receive \/ Connect
  \/ \E f \in Flows : \/ OpenSelector(f)
                      \/ FlowCommand(f, <<"cmd.flow.delete", f>>)
                      \/ \E op \in {"RUNNING", "STOPPED"} : FlowCommand(f, <<"cmd.flow.ctrl", f, op>>)
                      \/ CloseImport(<<<<"cmd.flow.import", f>>>>)
  \/ \E n \in Names : \/ \E isGlobal \in BOOLEAN : SaveNewVariable(n, isGlobal)
                      \/ SaveRecord(n) \/ DeleteRecord(n)
  \/ \E ctx \in Contexts : OpenContext(ctx)
  \/ OnModeChange \/ Reload \/ AfterClosed \/ CancelDialog
  \/ \E d \in {"edit", "add"} : OpenDialog(d)
  \/ OpenOverview \/ CloseImport(<<>>) \/ ImportTimer \/ Leave

Spec == Init /\ [][Next]_vars

-----------------------------------------------------------------------------
(* Properties.                                                                *)
Rest == online /\ requests = <<>> /\ reports = <<>> /\ timers = 0 /\ dialog # "closing"

(* Once everything is answered, the list of flows shows what tpflow has,      *)
(* whatever was started, stopped, deleted or imported, in whatever order the  *)
(* answers, the reloads they cause and the import timer came.                 *)
ListCurrent == page = Overview /\ Rest => flows = state

(* The page of global variables, at rest, shows tpflow's global variables:    *)
(* the records that selectors asked for have not stayed in its table.         *)
GlobalPageCurrent == page = Context("global") /\ Rest => shown = Rows(store["global"], "global")

(* However reports for pages, other flows and selectors were filed, every     *)
(* global variable is offered as a global one once all is answered.           *)
GlobalsOffered ==
  Rest /\ lastRequestFlowId # "none" => \A n \in store["global"] : <<n, TRUE>> \in contextRecords
=============================================================================
