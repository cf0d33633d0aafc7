------------------------------ MODULE Registry ------------------------------
(* The registry of things in the browser (registry.service.ts) and the pages  *)
(* that show it: the dashboard, the tables of things, devices, services and   *)
(* locations, and the wizard that selects a service for a node of a flow. The *)
(* service asks tpflow for four lists; things and devices come back in        *)
(* reports of one type, told apart by the id of the request.                  *)
(* All browsers of a user, and all that answer to "tplex-ui", hear the        *)
(* answers to any of them. A list is abstracted to the answer it came with:   *)
(* what was asked, by whom, and the version of tpflow's database.             *)
EXTENDS Naturals, Sequences, FiniteSets

CONSTANTS Plain,                \* the lists taken without a look at the request:
                                \* {"services", "locations"}, alike in everything
          Pages,                \* the pages that are opened: tables by their kind, "dashboard",
                                \* "wizard"
          NoAnswer,             \* a list that was never received
          MaxLoads, MaxEdits, MaxDrops, MaxAnswers    \* bounds of the exploration

ASSUME RegistryAssumption == {MaxLoads, MaxEdits, MaxDrops, MaxAnswers} \subseteq Nat

VARIABLES connected,    \* the WebSocket is open
          deferred,     \* the service was constructed offline: it waits for "connected"
          subs,         \* how often configureFimpListener has subscribed
          loads,        \* number of loadAllComponents so far: the request ids
          asked,        \* requests on the way to tpflow
          answers,      \* answers on the way to the browser, in order
          lists,        \* things, devices, services, locations
          db, drops,    \* version of tpflow's database; bounds the outages
          page,         \* the page that is shown
          pageSub,      \* its subscription to registryState$ is alive
          shown,        \* the lists as the page has last taken them
          current       \* version when the lists were last asked for, 0 when an answer was lost

wire == <<connected, deferred, subs, loads, asked, answers, drops>>
view == <<page, pageSub, shown>>
vars == <<wire, lists, db, view, current>>

Matched == {"things", "devices"}    \* the lists whose reports are matched by request id
Kinds == Matched \cup Plain

\* A list, as the answer it came with.
Answers == [kind : Kinds, own : BOOLEAN, version : Nat]

ASSUME NamesAssumption == NoAnswer \notin Answers /\ "none" \notin Pages

\* Requests of other browsers carry the id 0.
Request(k, id) == [kind |-> k, id |-> id]

(* loadAllComponents: the ids of the last requests are remembered. *)
LoadAllComponents ==
  /\ loads < MaxLoads /\ loads' = loads + 1
  /\ asked' = asked \cup {Request(k, loads') : k \in Kinds}
  /\ current' = db

thingsQueryRequestId == Request("things", loads)
devicesQueryRequestId == Request("devices", loads)

Init == /\ connected \in BOOLEAN /\ deferred = ~connected
        /\ subs = IF connected THEN 1 ELSE 0
        /\ loads = subs /\ answers = <<>> /\ drops = 0 /\ db = 1
        /\ asked = IF connected THEN {Request(k, 1) : k \in Kinds} ELSE {}
        /\ current = IF connected THEN db ELSE 0
        /\ lists = [k \in Kinds |-> NoAnswer]
        /\ page = "none" /\ pageSub = FALSE /\ shown = [k \in Kinds |-> NoAnswer]

\* Fault: a connection throws away the lists it has.
ConnectAfresh == /\ ~connected /\ connected' = TRUE
                 /\ IF deferred THEN subs' = subs + 1 /\ LoadAllComponents
                    ELSE UNCHANGED <<subs, loads, asked, current>>
                 /\ lists' = [k \in Kinds |-> NoAnswer]
                 /\ UNCHANGED <<deferred, answers, drops, db, view>>

\* A service that was constructed offline subscribes and loads at every connection.
Connect == /\ ~connected /\ connected' = TRUE
           /\ IF deferred THEN subs' = subs + 1 /\ LoadAllComponents
              ELSE UNCHANGED <<subs, loads, asked, current>>
           /\ UNCHANGED <<deferred, answers, drops, lists, db, view>>

\* What is on the way is lost.
Disconnect == /\ connected /\ drops < MaxDrops /\ drops' = drops + 1
              /\ connected' = FALSE /\ asked' = {} /\ answers' = <<>>
              /\ current' = IF asked = {} /\ answers = <<>> THEN current ELSE 0
              /\ UNCHANGED <<deferred, subs, loads, lists, db, view>>

\* The timer of a page that synchronised the rooms reloads everything.
SyncTimer == /\ connected /\ page \in {"locations", "none"} /\ LoadAllComponents
             /\ UNCHANGED <<connected, deferred, subs, answers, drops, lists, db, view>>

(* tpflow: requests are answered in any order, from its database. *)
Answer(r) == /\ connected /\ Len(answers) < MaxAnswers
             /\ asked' = asked \ {r}
             /\ answers' = Append(answers, [kind |-> r.kind, id |-> r.id, version |-> db])
             /\ UNCHANGED <<connected, deferred, subs, loads, drops, lists, db, view, current>>

AnswerToOthers(k) == /\ connected /\ Len(answers) < MaxAnswers
                     /\ answers' = Append(answers, [kind |-> k, id |-> 0, version |-> db])
                     /\ UNCHANGED <<connected, deferred, subs, loads, asked, drops, lists, db, view, current>>

\* update_thing, update_device, inclusion, or a synchronisation.
Edit == /\ db < MaxEdits /\ db' = db + 1
        /\ UNCHANGED <<wire, lists, view, current>>

(* The listener. *)
Received(ls, k) == ls[k] # NoAnswer
IsRegistryInitialized(ls) == \A k \in {"things"} \cup Plain : Received(ls, k)

\* Fault: reports are told apart by the id of the last request alone.
StoresByOneId(a, k) ==
  \/ a.kind = k /\ k \notin Matched
  \/ k = "devices" /\ a.kind \in Matched /\ Request(a.kind, a.id) = devicesQueryRequestId

\* The list a report is stored in; a report matched by neither id is dropped.
Stores(a, k) ==
  \/ a.kind = k /\ k \notin Matched
  \/ k = "things" /\ a.kind \in Matched /\ Request(a.kind, a.id) = thingsQueryRequestId
  \/ k = "devices" /\ a.kind \in Matched /\ Request(a.kind, a.id) = devicesQueryRequestId

\* What a page shows of the registry.
ShownBy(p) == IF p = "dashboard" THEN {"things"} \cup Plain ELSE {p} \cap Kinds

\* Things, devices and the rest are looked up in the list that was received last:
\* before it has come nothing is found, and of a list that has come perhaps.
Lookups(ls, k) == {FALSE} \cup (IF Received(ls, k) THEN {TRUE} ELSE {})

\* The figures of the dashboard (those by technology and power source are added
\* to what was there), and getData of the tables.
Figures(ls, was) == [k \in Kinds |-> IF k \in ShownBy("dashboard") THEN ls[k] ELSE was[k]]
TableData(ls, was) == [was EXCEPT ![page] = ls[page]]
Taken(ls, was) == IF page = "dashboard" THEN Figures(ls, was) ELSE TableData(ls, was)

\* The table of devices looks for the location or the thing it is filtered by,
\* throws if there is none, and is no subscriber any more. It need not have a filter.
SubscribedAfter(ls) ==
  {TRUE} \cup (IF page = "devices" THEN UNION {Lookups(ls, k) : k \in {"things", "locations"} \cap Kinds}
                                    ELSE {})

\* Fault: a page is told of the first load only.
NotifyOnce(ls) ==
  IF subs > 0 /\ pageSub /\ IsRegistryInitialized(ls) /\ ~IsRegistryInitialized(lists)
  THEN shown' = Taken(ls, shown) /\ pageSub' \in SubscribedAfter(ls)
  ELSE UNCHANGED <<shown, pageSub>>

\* notifyRegistryState after every report: a page that is subscribed takes the lists.
Notify(ls) ==
  IF subs > 0 /\ pageSub /\ IsRegistryInitialized(ls)
  THEN shown' = Taken(ls, shown) /\ pageSub' \in SubscribedAfter(ls)
  ELSE UNCHANGED <<shown, pageSub>>

OnReport ==
  /\ answers # <<>> /\ answers' = Tail(answers)
  /\ LET a == Head(answers)
         new == [k \in Kinds |-> IF subs > 0 /\ Stores(a, k)
                             THEN [kind |-> a.kind, own |-> a.id # 0, version |-> a.version]
                             ELSE lists[k]]
     IN /\ lists' = new
        /\ IF \E k \in Kinds : Stores(a, k) THEN Notify(new) ELSE UNCHANGED <<shown, pageSub>>
  /\ UNCHANGED <<connected, deferred, subs, loads, asked, drops, db, page, current>>

(* ngOnInit of a page: it takes the lists if there are any, and subscribes    *)
(* only if there are not. The dashboard unsubscribes when it is left; the     *)
(* tables stay subscribed, and work on a table nobody sees.                   *)
Subscribes(ls) == ~IsRegistryInitialized(ls)

OpenPage(p) ==
  /\ page = "none" /\ p # "wizard" /\ page' = p
  /\ pageSub' = Subscribes(lists)
  /\ shown' = [k \in Kinds |-> IF k \in ShownBy(p) /\ ~pageSub' THEN lists[k] ELSE NoAnswer]
  /\ UNCHANGED <<wire, lists, db, current>>

OpenDashboard == "dashboard" \in Pages /\ OpenPage("dashboard")

\* The dialog of a row is closed, or the row deleted: the table takes its list again.
RowEdited == /\ page \in Kinds /\ shown[page] # NoAnswer
             /\ shown' = Taken(lists, shown)
             /\ UNCHANGED <<wire, lists, db, page, pageSub, current>>

(* The wizard never subscribes: it looks up devices and services when it is   *)
(* opened on a service that is found, and when the user selects a location or *)
(* a thing.                                                                   *)
TakeNow(kinds) == shown' = [k \in Kinds |-> IF k \in kinds THEN lists[k] ELSE shown[k]]

OpenWizard == /\ page = "none" /\ "wizard" \in Pages /\ page' = "wizard"
              /\ \E found \in Lookups(lists, "services") :
                   IF found THEN TakeNow({"devices", "services"}) ELSE UNCHANGED shown
              /\ UNCHANGED <<wire, lists, db, pageSub, current>>

SelectLocation == /\ page = "wizard" /\ TakeNow({"devices"})
                  /\ UNCHANGED <<wire, lists, db, page, pageSub, current>>

SelectThing == /\ page = "wizard" /\ shown["devices"] # NoAnswer /\ TakeNow({"services"})
               /\ UNCHANGED <<wire, lists, db, page, pageSub, current>>

ClosePage == /\ page # "none" /\ page' = "none" /\ pageSub' = FALSE
             /\ shown' = [k \in Kinds |-> NoAnswer]
             /\ UNCHANGED <<wire, lists, db, current>>

Next == \/ Connect \/ Disconnect \/ SyncTimer \/ Edit \/ OnReport \/ RowEdited \/ ClosePage
        \/ OpenWizard \/ SelectLocation \/ SelectThing
        \/ \E r \in asked : Answer(r)
        \/ \E k \in Kinds : AnswerToOthers(k)
        \/ OpenDashboard \/ \E p \in Pages \ {"dashboard"} : OpenPage(p)

Spec == Init /\ [][Next]_vars

(* No report takes a list back to an older state of the database, whichever   *)
(* requests of whichever browser overtook one another: not even the lists     *)
(* whose reports are not matched with a request. And what a page shows only   *)
(* gets newer while it is open, even if it takes its lists one by one.        *)
NotOlder(new, old) ==
  \A k \in Kinds : old[k] # NoAnswer => new[k] # NoAnswer /\ new[k].version >= old[k].version
ListsGoForward ==
  [][NotOlder(lists', lists) /\ (page' = page => NotOlder(shown', shown))]_vars

(* Things and devices are never exchanged, although their reports have one    *)
(* type, arrive in any order, and those of other browsers are heard too. And  *)
(* when every answer has come and none was lost since the last load, all four *)
(* lists are at least as new as the database was at that load.                *)
OwnAnswers == \A k \in Kinds : lists[k] # NoAnswer =>
                /\ lists[k].kind = k
                /\ k \in Matched => lists[k].own
LoadedAtRest ==
  /\ OwnAnswers
  /\ (current # 0 /\ asked = {} /\ answers = <<>>) =>
        \A k \in Kinds : lists[k] # NoAnswer /\ lists[k].version >= current

(* A page that is subscribed shows the lists the registry has, from the       *)
(* moment it is initialised on, through every later load: devices are         *)
(* reported, and shown, also after the registry counts as initialised.        *)
PageFollowsRegistry ==
  (page # "none" /\ pageSub /\ IsRegistryInitialized(lists)) =>
     \A k \in ShownBy(page) : shown[k] = lists[k]
=============================================================================
