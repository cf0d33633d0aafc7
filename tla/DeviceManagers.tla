--------------------------- MODULE DeviceManagers ---------------------------
(* The pages that manage the adapters: Z-Wave (zwave-man.component.ts),       *)
(* Zigbee (zigbee-man.component.ts) and any adapter (generic-ad-man.          *)
(* component.ts), and the page of one node (thing-view.component.ts). The     *)
(* router shows one at a time. A page keeps the list of nodes in memory and   *)
(* in the local storage, asks its adapter for it, and takes reports from the  *)
(* stream that all pages share. The requests may overtake one another (see    *)
(* WsClient), the reports may be lost while the WebSocket is down, but arrive *)
(* in order. Above a page there may be a dialog that starts and stops the     *)
(* inclusion or exclusion of nodes, or pings a node, and lists messages.      *)
(* Progress bars, statuses, totals, aliases and values of sensors are left    *)
(* out.                                                                       *)
EXTENDS Naturals, Sequences, FiniteSets, Bags

CONSTANTS Pages,        \* the pages that are opened, of "zwave", "zigbee", "generic", "thing"
          Addresses,    \* addresses of nodes, every adapter has its own
          NoList,       \* the list (or the adapter) is undefined, or not stored
          MaxOnTheWay, MaxChanges     \* bounds of the exploration: commands and
                                      \* reports under way, changes of the networks

ASSUME ManagersAssumption == /\ Pages \subseteq {"zwave", "zigbee", "generic", "thing"}
                              /\ NoList \notin {"zwave-ad", "zigbee"}
                              /\ {MaxOnTheWay, MaxChanges} \subseteq Nat

VARIABLES screen,      \* the page that is shown
          dialog,      \* the dialog above it, and the nodes its messages told of
          adapter,     \* the adapter it manages
          shown,       \* nodes; on the page of a node: the thing
          autoReload,  \* isReloadNodesEnabled
          subscribed,  \* globalSub is alive: a subscriber that throws is dropped
          stats,       \* networkStats: undefined, [] or as reported
          cache, storedStats, selectedAdapter,    \* the local storage
          requests,    \* commands under way to the adapters
          reports,     \* events under way to the browser
          network,     \* the nodes each adapter has
          changes,     \* bounds the changes of the networks
          fresh        \* the page got its adapter's list, and lost nothing since it asked

store == <<cache, storedStats, selectedAdapter>>
hub == <<network, changes>>
managersVars == <<screen, dialog, adapter, shown, autoReload, subscribed, stats, store, requests, reports, hub, fresh>>

Adapters == {"zwave-ad", "zigbee"}
Keys == Adapters \cup {"zwave"}
NodesOf(a) == {a} \X Addresses

\* The key of the local storage a page caches its list under.
CacheKey == IF screen = "zwave" THEN "zwave" ELSE adapter
OwnerOf(key) == IF key = "zwave" THEN "zwave-ad" ELSE key

Command(a, cmd) == [to |-> a, cmd |-> cmd, address |-> NoList]
Room == BagCardinality(requests) + Len(reports) < MaxOnTheWay
Publish(c) == requests' = requests (+) SetToBag({c})
ReloadNodes == Publish(Command(adapter, "get_all_nodes"))

Dialog(op) == [op |-> op, address |-> NoList, told |-> {}]
NoDialog == Dialog("none")

\* drawNetworkTopology: it throws without statistics, and the graph of routes
\* (graphType, the user's choice) also without the gateway's.
DrawsWith(s) == CASE s = "reported" -> {TRUE} [] s = "undefined" -> {FALSE} [] s = "empty" -> BOOLEAN

ManagersInit == /\ screen = "none" /\ dialog = NoDialog /\ adapter = NoList /\ shown = NoList
                /\ autoReload = TRUE /\ subscribed = FALSE /\ fresh = FALSE
                /\ stats = "undefined"
                /\ cache = [k \in Keys |-> NoList]
                /\ storedStats = FALSE /\ selectedAdapter = NoList
                /\ requests = EmptyBag /\ reports = <<>> /\ changes = 0
                /\ network \in [Adapters -> SUBSET (Adapters \X Addresses)]
                /\ \A a \in Adapters : network[a] \subseteq NodesOf(a)

(* ngOnInit of the page p: from the cache, or from the adapter. *)
AdapterOf(p) == CASE p = "zwave" -> "zwave-ad" [] p = "zigbee" -> "zigbee"
                  [] p = "generic" -> selectedAdapter

Open(p) ==
  /\ screen = "none" /\ p # "thing"
  /\ screen' = p /\ adapter' = AdapterOf(p) /\ subscribed' = TRUE /\ fresh' = FALSE
  /\ autoReload' = TRUE
  /\ stats' = IF p = "zwave" /\ storedStats THEN "reported" ELSE "undefined"
  /\ LET key == IF p = "zwave" THEN "zwave" ELSE adapter' IN
     IF key = NoList THEN shown' = NoList /\ UNCHANGED requests
     ELSE /\ shown' = cache[key]
          /\ IF cache[key] = NoList THEN Publish(Command(adapter', "get_all_nodes"))
             ELSE UNCHANGED requests
  /\ UNCHANGED <<dialog, store, reports, hub>>

Silently == UNCHANGED <<screen, dialog, adapter, shown, autoReload, subscribed, stats, store, reports, hub, fresh>>

\* ngOnInit of the page of a node: its inclusion report is asked for.
GetReport(d) == Publish([to |-> d[1], cmd |-> "get_inclusion_report", address |-> d[2]])

OpenThing(d) ==
  /\ screen = "none" /\ "thing" \in Pages
  /\ screen' = "thing" /\ adapter' = d[1] /\ subscribed' = TRUE
  /\ GetReport(d)
  /\ UNCHANGED <<dialog, shown, autoReload, stats, fresh, store, reports, hub>>

\* The button that asks for the report of the thing that is shown again.
SyncThing == /\ screen = "thing" /\ shown # NoList /\ \E d \in shown : GetReport(d)
             /\ Silently

CloseManager == /\ screen # "none"
                /\ screen' = "none" /\ dialog' = NoDialog /\ adapter' = NoList /\ shown' = NoList
                /\ autoReload' = TRUE /\ subscribed' = FALSE /\ fresh' = FALSE
                /\ stats' = "undefined"
                /\ UNCHANGED <<store, requests, reports, hub>>

\* onAdapterSelected: the list of the adapter selected before stays on the screen.
OnAdapterSelected(a) ==
  /\ screen = "generic" /\ adapter # a
  /\ adapter' = a /\ selectedAdapter' = a /\ fresh' = FALSE
  /\ Publish(Command(a, "get_all_nodes"))
  /\ UNCHANGED <<screen, dialog, shown, autoReload, subscribed, stats, cache, storedStats, reports, hub>>

Reload == /\ screen \notin {"none", "thing"} /\ adapter # NoList
          /\ autoReload' = TRUE /\ fresh' = FALSE
          /\ ReloadNodes
          /\ UNCHANGED <<screen, dialog, adapter, shown, subscribed, stats, store, reports, hub>>

RequestAllInclusionReports ==
  /\ screen = "zwave"
  /\ autoReload' = FALSE
  /\ requests' = IF shown = NoList THEN requests
                 ELSE requests (+) SetToBag({[to |-> adapter, cmd |-> "get_inclusion_report",
                                              address |-> d[2]] : d \in shown})
  /\ UNCHANGED <<screen, dialog, adapter, shown, subscribed, stats, store, reports, hub, fresh>>

PingNetwork == /\ screen = "zwave" /\ Publish(Command(adapter, "net_ping")) /\ Silently

RequestImaStats ==
  /\ screen = "zwave" /\ stats' = "empty" /\ Publish(Command(adapter, "get_full_report"))
  /\ UNCHANGED <<screen, dialog, adapter, shown, autoReload, subscribed, store, reports, hub, fresh>>

(* The dialogs. The inclusion is started in its dialog, the exclusion before  *)
(* it. A dialog that is dismissed, or closed with its page, stops nothing.    *)
OpenDialog(op) ==
  /\ dialog = NoDialog /\ dialog' = Dialog(op)
  /\ UNCHANGED <<screen, adapter, shown, autoReload, subscribed, stats, store, reports, hub, fresh>>

\* A command about a node that is listed; the adapter only sees its address.
Send(cmd, d) ==
  /\ adapter # NoList /\ shown # NoList /\ d \in shown
  /\ Publish([to |-> adapter, cmd |-> cmd, address |-> d[2]])

RemoveDevice(d) == screen \in {"zigbee", "generic"} /\ Send("delete", d) /\ Silently

\* The user announces an exclusion that did not happen.
GenerateExclusionReport(d) == screen \in {"zigbee", "generic"} /\ Send("exclusion_report", d) /\ Silently

\* Both open the dialog of the exclusion.
DeleteFailedDevice(d) == Send("delete", d) /\ OpenDialog("exclusion")
ReplaceDevice(d) == Send("replace", d) /\ OpenDialog("exclusion")
PingDevice(d) == OpenDialog("ping") /\ Send("ping", d)

\* runCommand of the Z-Wave page; an update or a template do not change its list.
RunCommand(d) == screen = "zwave" /\ (DeleteFailedDevice(d) \/ ReplaceDevice(d) \/ PingDevice(d))

ResetNetwork == /\ screen = "zwave" /\ Publish(Command(adapter, "reset")) /\ Silently

\* The commands of the Zigbee page for experts, whose answers no page takes.
Custom == screen = "zigbee" /\ Publish(Command(adapter, "other")) /\ Silently

\* Nor those of the channel (changeChannel), of the network (runZigbeeNetCommand,
\* updateNetwork, cleanUpNetwork, resetImaStats) and of updates (updateDevice).
NetworkCommand == screen \in {"zwave", "zigbee"} /\ Publish(Command(adapter, "other")) /\ Silently

AddDevice == /\ screen \in {"zwave", "zigbee", "generic"} /\ adapter # NoList
             /\ OpenDialog("inclusion") /\ UNCHANGED requests
RemoveByExclusion == screen = "zwave" /\ OpenDialog("exclusion") /\ Publish(Command(adapter, "other"))

InDialog == UNCHANGED <<screen, adapter, shown, autoReload, subscribed, stats, store, reports, hub, fresh>>

\* startInclusion; the dialog of the Z-Wave page keeps its messages.
StartInclusion == /\ dialog.op = "inclusion"
                  /\ dialog' = IF screen = "zwave" THEN dialog ELSE Dialog("inclusion")
                  /\ Publish(Command(adapter, "other")) /\ InDialog

\* stopInclusion, stopExclusion.
StopDialog == /\ dialog.op \in {"inclusion", "exclusion"} /\ dialog' = NoDialog
              /\ Publish(Command(adapter, "other")) /\ InDialog

\* clearPingResults.
ClearPingResults == /\ dialog.op = "ping" /\ dialog' = [dialog EXCEPT !.told = {}]
                    /\ UNCHANGED requests /\ InDialog

\* The button pings the node that was reported last, nothing before a report.
PingAgain == /\ dialog.op = "ping" /\ UNCHANGED dialog /\ InDialog
             /\ Publish([to |-> adapter, cmd |-> IF dialog.address = NoList THEN "other" ELSE "ping",
                         address |-> dialog.address])

Dismiss == dialog # NoDialog /\ dialog' = NoDialog /\ UNCHANGED requests /\ InDialog

(* The adapters. *)
\* A thing_report is an inclusion report, of one node, or an exclusion report.
Report(a, type, nodes) == [from |-> a, type |-> type, nodes |-> nodes]
Emit(r) == reports' = Append(reports, r)

\* What a command makes of the nodes of its adapter.
After(c) == CASE c.cmd = "delete" -> network[c.to] \ {<<c.to, c.address>>}
              [] c.cmd = "reset"  -> {}
              [] OTHER            -> network[c.to]

Answer(c) ==
  /\ BagIn(c, requests)
  /\ requests' = requests (-) SetToBag({c})
  /\ network' = [network EXCEPT ![c.to] = After(c)]
  /\ IF c.cmd = "other" \/ (c.cmd \in {"delete", "reset"} /\ network' = network)
     THEN UNCHANGED reports
     ELSE Emit(CASE c.cmd = "get_all_nodes"   -> Report(c.to, "all_nodes_report", network[c.to])
                 [] c.cmd = "net_ping"        -> Report(c.to, "net_ping_report", network[c.to])
                 [] c.cmd = "get_full_report" -> Report(c.to, "full_report", {})
                 [] c.cmd = "ping"            -> Report(c.to, "ping_report", {<<c.to, c.address>>})
                 [] c.cmd \in {"get_inclusion_report", "replace"} ->
                      Report(c.to, "thing_report", {<<c.to, c.address>>})
                 [] OTHER                     -> Report(c.to, "thing_report", {}))
  /\ UNCHANGED <<screen, dialog, adapter, shown, autoReload, subscribed, stats, store, changes, fresh>>

\* A node is included, excluded or moved: the adapter reports it to everybody.
NetworkChanges(a) ==
  /\ changes < MaxChanges /\ changes' = changes + 1
  /\ \E d \in NodesOf(a) :
       \/ d \in network[a] /\ network' = [network EXCEPT ![a] = @ \ {d}] /\ Emit(Report(a, "thing_report", {}))
       \/ network' = [network EXCEPT ![a] = @ \cup {d}] /\ Emit(Report(a, "thing_report", {d}))
  /\ UNCHANGED <<screen, dialog, adapter, shown, autoReload, subscribed, stats, store, requests, fresh>>

(* The handlers of reports. *)
\* Fault: a page hears every adapter.
HeardAll(r) == screen # "none" /\ subscribed /\ adapter # NoList

Heard(r) == screen # "none" /\ subscribed /\ r.from = adapter

\* The list is kept with what the registry of things knows of its nodes.
CacheList(nodes) == cache' = [cache EXCEPT ![CacheKey] = nodes]

OnAllNodes(r) ==
  /\ r.type = "all_nodes_report"
  /\ shown' = r.nodes /\ CacheList(r.nodes)
  /\ fresh' = TRUE
  /\ UNCHANGED <<autoReload, subscribed, stats, storedStats, requests>>

\* The loop adds the nodes it does not know and draws after each of them.
OnNetPing(r) ==
  /\ r.type = "net_ping_report"
  /\ \/ shown = NoList /\ subscribed' = FALSE /\ UNCHANGED shown
     \/ /\ shown # NoList
        /\ \E draws \in DrawsWith(stats) :
             IF draws \/ r.nodes = {} THEN shown' = shown \cup r.nodes /\ UNCHANGED subscribed
             ELSE subscribed' = FALSE /\ \E n \in r.nodes : shown' = shown \cup {n}
  /\ UNCHANGED <<autoReload, stats, cache, storedStats, requests, fresh>>

OnFullReport(r) ==
  /\ r.type = "full_report"
  /\ stats' = "reported" /\ storedStats' = TRUE
  /\ UNCHANGED <<shown, autoReload, subscribed, cache, requests, fresh>>

OnThingReport(r) ==
  /\ r.type = "thing_report"
  /\ IF autoReload THEN ReloadNodes /\ UNCHANGED fresh ELSE fresh' = FALSE /\ UNCHANGED requests
  /\ UNCHANGED <<shown, autoReload, subscribed, stats, cache, storedStats>>

Ignored == UNCHANGED <<shown, autoReload, subscribed, stats, cache, storedStats, requests, fresh>>

ZwaveTakes(r) == /\ screen = "zwave" /\ Heard(r)
                 /\ \/ OnAllNodes(r) \/ OnNetPing(r) \/ OnFullReport(r) \/ OnThingReport(r)
                    \/ r.type = "ping_report" /\ Ignored

\* Fault: an inclusion or exclusion does not make the page load the list again.
ZigbeeTakesLists(r) == screen = "zigbee" /\ Heard(r) /\ (OnAllNodes(r) \/ (r.type # "all_nodes_report" /\ Ignored))

\* The other pages always reload; what only the Z-Wave page asks for is not for them.
ZigbeeTakes(r) == /\ screen = "zigbee" /\ Heard(r)
                  /\ \/ OnAllNodes(r) \/ OnThingReport(r)
                     \/ r.type \in {"net_ping_report", "full_report", "ping_report"} /\ Ignored
GenericTakes(r) == /\ screen = "generic" /\ Heard(r)
                   /\ \/ OnAllNodes(r) \/ OnThingReport(r)
                      \/ r.type \in {"net_ping_report", "full_report", "ping_report"} /\ Ignored

\* The page of a node takes the inclusion report of any node of its adapter.
ThingTakes(r) == /\ screen = "thing" /\ Heard(r)
                 /\ shown' = IF r.type = "thing_report" /\ r.nodes # {} THEN r.nodes ELSE shown
                 /\ UNCHANGED <<autoReload, subscribed, stats, cache, storedStats, requests, fresh>>

\* A dialog has its own subscription, and tells of every node of its adapter.
DialogHears(r) == dialog # NoDialog /\ r.from = adapter
PingReport(r) == [dialog EXCEPT !.told = @ \cup r.nodes, !.address = (CHOOSE n \in r.nodes : TRUE)[2]]
InclusionReport(r) == [dialog EXCEPT !.told = @ \cup r.nodes]
DialogTakes(r) ==
  /\ DialogHears(r)
  /\ dialog' = CASE dialog.op = "ping" /\ r.type = "ping_report"   -> PingReport(r)
                 [] dialog.op # "ping" /\ r.type = "thing_report"  -> InclusionReport(r)
                 [] OTHER -> dialog

Receive ==
  /\ reports # <<>> /\ reports' = Tail(reports)
  /\ LET r == Head(reports) IN
     ZwaveTakes(r) \/ ZigbeeTakes(r) \/ GenericTakes(r) \/ ThingTakes(r) \/ (~Heard(r) /\ Ignored)
  /\ DialogTakes(Head(reports)) \/ (~DialogHears(Head(reports)) /\ UNCHANGED dialog)
  /\ UNCHANGED <<screen, adapter, selectedAdapter, hub>>

\* The WebSocket is down when a report or a command passes.
Lose == /\ \/ reports # <<>> /\ reports' = Tail(reports) /\ UNCHANGED requests
           \/ \E c \in BagToSet(requests) : requests' = requests (-) SetToBag({c}) /\ UNCHANGED reports
        /\ fresh' = FALSE
        /\ UNCHANGED <<screen, dialog, adapter, shown, autoReload, subscribed, stats, store, hub>>

OnPage == \/ \E p \in Pages : Open(p)
        \/ Reload \/ RequestAllInclusionReports \/ PingNetwork \/ RequestImaStats
        \/ \E a \in Adapters : OnAdapterSelected(a)
        \/ ResetNetwork \/ SyncThing \/ Custom \/ NetworkCommand \/ AddDevice \/ RemoveByExclusion
        \/ \E d \in Adapters \X Addresses :
             OpenThing(d) \/ RemoveDevice(d) \/ GenerateExclusionReport(d) \/ RunCommand(d)

User == \/ dialog = NoDialog /\ OnPage
        \/ StartInclusion \/ StopDialog \/ PingAgain

\* What is under way is bounded where users and networks add to it.
ManagersNext == \/ Room /\ (User \/ \E a \in Adapters : NetworkChanges(a))
                \/ ClearPingResults \/ Dismiss \/ CloseManager \/ Receive \/ Lose
                \/ \E c \in BagToSet(requests) : Answer(c)

ManagersSpec == ManagersInit /\ [][ManagersNext]_managersVars

(* Once the page got a list of its adapter and nothing is under way any more, *)
(* it shows the nodes the adapter has, however nodes were included, excluded, *)
(* pinged and deleted meanwhile, by whichever client. Not promised: after a   *)
(* loss, to a page that shows its cache, to one that ignores inclusion        *)
(* reports, or to one whose subscription a failed drawing ended.              *)
CurrentAtRest ==
  (screen # "none" /\ subscribed /\ fresh /\ reports = <<>> /\ requests = EmptyBag)
    => shown = network[adapter]

(* No page ever takes or caches the nodes of another adapter, although all    *)
(* pages hear all reports, and the generic page changes its adapter while     *)
(* answers are under way; it shows the former adapter's only until the        *)
(* answer it asked for arrives. Nor does the page of a node show a thing, or  *)
(* a dialog tell of a node, of another adapter.                               *)
OwnNodesOnly ==
  /\ \A k \in Keys : cache[k] # NoList => cache[k] \subseteq NodesOf(OwnerOf(k))
  /\ (fresh \/ (screen = "thing" /\ shown # NoList)) => shown \subseteq NodesOf(adapter)
  /\ dialog.told \subseteq NodesOf(adapter)
=============================================================================
