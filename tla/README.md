# A verification project for fimpui (ThingsplexUI)

fimpui is the web interface of a FIMP smart hub: a Go server that authenticates
browsers and bridges their WebSockets to an MQTT broker, and an Angular
application that does everything else in the browser by exchanging FIMP
messages over that bridge. This directory holds TLA+ modules that model the
parts with state and concurrency, TLC configurations that check them on small
instances, and proofs that TLAPS checks for every instance.

Run from this directory: `tlc -config MCWsBridge_safety.cfg MCWsBridge.tla`,
`tlapm WsBridgeProofs.tla`, and so on for the other modules. `PROJECT.json` lists the runs, the source lines
behind every definition, the faults each property is known to catch, the
disagreement between code and comments that a run shows, and the hazards.

## 1. Inventory

| component | state it keeps | operations | what makes it correct |
|---|---|---|---|
| **WS north bridge** `cloud/ws_north_bridge.go` | `sessions` (user -> session), `sesLock` | `Upgrade`, `ReloadUserConfig`, `StartSessionMonitor` | one user's traffic never reaches another; an idle session is removed, a used one is not; a configuration change reaches the session; nobody waits for ever |
| **Bridge session** `cloud/brsession/ws_mqtt.go` | MQTT client, `wsConn`, `isConnected`, `lastWsDisconnectAt`, keep-alive goroutine | `ConnectToMqttBroker`, `StartWsToSouthboundRouter`, `onMqttMessage`, `IsStale`, `Close` | browsers are served only after set-up; closed once; every connection is unregistered |
| **Users** `user/auth.go`, `user/profiles.go` | `GlobalAuthType`, `Users`, `dbLock`, `users.json`, cookies | login, sign-up, logout, upsert, save, load, migrate | what was saved survives a restart; no profile without configuration; a failed sign-up leaves a way back |
| **Configuration** `model/config.go` | `Configs` in memory and in `config.json` | load, save | the file is readable and current |
| **HTTP handlers** `main.go` | none of their own | `/fimp/login`, `/fimp/auth-config`, `/fimp/api/configs`, templates, proxies | steps that belong together are not torn apart by other requests |
| **Control router** `api/control_router.go` | none of its own | `cmd.config.extended_set`, `cmd.log.set_level`, reports | like the HTTP handlers |
| **Browser WebSocket client** `fimp/ws.service.ts` | `connState`, `websocket`, timers | `connect` and its event handlers, `publish` | exactly one connection or reconnection under way; a message is sent once, and lost only in an outage |
| **FIMP service, message log** `fimp/fimp.service.ts`, `timeline` | the stream, two bounded lists of messages, a filter | `getGlobalObservable`, `saveMessage`, `setFilter`, capture | bounds, order, agreement of list and filter |
| **Flow editor** `tpui-modules/flow/flow-editor` | the flow, the last request, a dialog, the lines drawn, what is dragged | load, save, add, connect, drag, clone, delete, source, properties | unique ids, lines that lead somewhere and are drawn, no lost edits |
| **Flow list, flow context** `flow-overview`, `flow-context` | the list of flows; records of variables, the flow asked for last | requests, reports, edits of records, import | what is shown is what tpflow has, whoever asked for it |
| **Thing registry** `tpui-modules/registry` | four lists, flags, request ids; the pages' copies | load, reports, notifications, editing | "allLoaded" only when loaded; late reports do not mix generations |
| **Applications** `system/apps` | the list of apps, local storage, timers; the page of one app | version report, discovery, playground list, install | an app appears once; what is stored is what is listed |
| **Device managers** `zwave-man`, `zigbee-man`, `generic-ad-man`, `thing-view` | node lists, caches, the adapter, dialogs | commands, reports, inclusion, exclusion, ping | the nodes shown are those of the adapter shown |
| **Z-Wave templates** `integr/zwave/products.go`, `template-editor` | files in two directories, the template edited | list, get, move, update, delete | files and editors hold whole templates |
| **Charts and analytics pages** `tpui-modules/analytics` | charts, their last requests, colours, configurations | query, answer, select, tag, save | a chart shows its own last query, under its own label |
| Systems manager, system dashboard, settings | the last report | send a command, show a report | not modelled |
| Topic matching, log reader, South bridge, MQTT proxy, WebRTC | | unused, or file input | not modelled |
| `vendor/` | | third-party | external |

How they interact. A browser logs in over HTTP (users), opens `/ws-bridge`
(`WsFimpService.connect` -> `Upgrade`), which finds or makes the user's session
from the user's configuration (profiles). FIMP messages go browser ->
`publish` -> session -> MQTT, and back MQTT -> `onMqttMessage` -> every browser
of the session. `POST /fimp/api/configs` changes a profile and reloads the
session. The control router changes users and the access mode from the MQTT
side. Pages (flow editor, registry, managers) are clients of the FIMP service:
they send requests and take reports from one stream shared by all pages, which
also carries the answers to other browsers. Several pages share a service (the
registry, the applications, the context of flows, the chart settings) or keep
what they know in the local storage for the next visit.

What is hard about it:

- *goroutines*: every browser's handler, the monitor and every reload share the
  map of sessions; the map is read, the lock released, and the result used.
- *partial failure*: a session is put in the map before it is connected, and
  stays when that fails; panics are recovered in requests but not in goroutines.
- *unlocked state*: profiles are written through pointers, `config.json` without
  a lock, and both files are truncated before they are written.
- *timers and retries* of the browser client, which race each other.
- *answers in any order*: pages match reports by the id of the last request, or
  not at all.
- *subscriptions*: a handler that throws is dropped from the stream, one that is
  never unsubscribed works on for a page that is gone, and a service created
  offline subscribes once more at every connection.
- *copies*: a page's list, the service's list, the local storage and the hub's
  own state are four copies of one thing, updated at different times.

`PROJECT.json` lists each of these under `hazards`, at its line.

## 2. Plan

Modules in the order of importance; ticked ones exist.

1. [x] `WsBridge` with its abstract specification `SessionRegistry`, and
   `WsBridgeProofs`.
2. [x] `AuthConfig`: users, access mode, configuration, crashes.
3. [x] `WsClient`: reconnection and retries of the browser, with its abstract
   specification `Delivery`; `FimpLog`: the two message logs; `FimpService`:
   the composition of client and logs.
4. [x] `FlowEditor`: requests, reports and editing of one flow; `FlowCanvas`
   on top of it: dragging and drawing.
5. [x] `Registry`: generations of requests, an outage between them, the pages.
6. [x] `FlowPages`: the list of flows, context records, variable selectors.
7. [x] `AppsRegistry`: version report, HTTP answer, discovery reports and timers.
8. [x] `DeviceManagers`: the pages of adapters and of one node, their dialogs.
9. [x] `TemplateStore`: files of two directories, requests that overlap, with
   its abstract specification `TemplateFiles`.
10. [x] `Charts`: queries, answers, colours and settings.

Each component's proofs are in a module of their own, `<Component>Proofs`;
those of `AppsRegistry`, `Charts` and `DeviceManagers` share `PagesProofs`.

Two modules that were planned are left out: the matching of topics, which
nothing calls, and `WsClient` composed with `WsBridge` (section 6 says why).

## 3. The models

### WsBridge

Variables carry the names of the fields: `sessions`, `sesLock`, and per session
`id`, `userConfig`, `wsConn`, `mqtt`, `isConnected`, the keep-alive goroutine,
and `expired`, which stands for `lastWsDisconnectAt` (true while it is the zero
time or more than 30 seconds ago). A connection `c` has a handler goroutine:
`pc[c]` is the point it has reached, `user[c]` the name it read from the HTTP
session and `ses[c]` the session it holds a pointer to. A *closer* is the
monitor or a request that reloads a configuration; while it closes a session it
holds `sesLock`.

A step of a goroutine ends where another goroutine could see the difference:
one action for a critical section, one for every call that blocks.

| action | code |
|---|---|
| `Upgrade`, `Lookup`, `Create` | `Upgrade`, up to the read of the name, under the read lock, under the write lock |
| `Dial`, `StartOk`, `StartFails`, `Setup` | `ConnectToMqttBroker` before, in and after `mqtt.Start` |
| `Route`, `EndRead` | `StartWsToSouthboundRouter` before its loop, and its deferred function |
| `Abandon` | a WebSocket whose handler returned an error is left open by the code, until the browser or the finalizer of the socket closes it (external) |
| `MonitorLock`, `MonitorCheck`, `MonitorUnlock` | the loop of the monitor |
| `SaveConfig`, `ReloadLock` | `POST /fimp/api/configs` and the first half of `ReloadUserConfig` |
| `StopCb`, `StopMqtt` | `Close`, with the deletion from the map (and the unlock of a reload) |
| `ReloadPanics` | `Close` on a session without an MQTT client; the web framework recovers, the lock stays (`Poisoned`) |
| `MonitorPanics`, `Restart` | the same in the monitor: the process dies; systemd restarts it (`Restart=on-failure`) |

`SessionRegistry` is what the bridge promises: a user has one current session,
a session has one owner and never becomes current again once it was replaced or
retired, and a connection is served by one session at a time, of its own user.
`ImplementsRegistry` maps `sessions`, `id`, `user`, and `ses` of the handlers
that are reading to it. The registry lets a connection join a session that was
retired meanwhile, because the code does.

### AuthConfig

Requests of browsers and of the control router, step by step between the calls
that take a lock or write a file: mode in memory, mode in `Configs`, truncating
and filling `config.json`; the comparison of passwords; `UpsertUserProfile`,
`UpdateUserConfig`, the write through a pointer (`onSlice` says whether that
pointer still reaches the slice), truncating and filling `users.json` under
`dbLock`. `Stop` ends the process at any point, files as they are; `Start` is
`main` up to the user "unknown"; `KilledInMigration` is a kill while
`LoadLocalDefaults` saves. Two saves of `config.json` that overlap write into
one file, each from its start, so that the longer one may leave its tail behind
the shorter one: `Empty` stands for every file that cannot be read, truncated
or torn, and `overlap` says that the last save began during another. A process
that cannot read `config.json` returns
from `main` without an error and is not restarted (`up = "dead"`).
Passwords are compared, not hashed. Not modelled: the configuration saved for
`MQTT_URL` and for the first cookie key, a posted configuration without broker
address, torn reads of the slice header.

### WsClient, FimpLog, FimpService

One action per JavaScript handler. Time passes by seconds (`Tick`), never past
a due timer: one second to a reconnection, one and three to the retries of
`publish`, at most `Answer` seconds to the end of a handshake. A socket that is
"lost" is gone with its close event still to come. When a connection fails the
browser delivers error and close in one task, so that `OnError` is both.

`FimpLog` has the two logs and the timeline page, which shows one of the two
arrays. `messages` gets a message in front, `filteredMessages` at the end, and
`Rotate` removes the last element of both, as `pop()` does. `FimpService`
composes them: a message reaches the log only over an open socket.

`Delivery` is what `publish` promises to a page that knows nothing of sockets
and timers: a message is put on the connection at once or waits; it waits only
while the page is offline and is put on the connection at most once; it is lost
only when the connection just broke and the page could not know, or while it
waits without a connection. `ImplementsDelivery` maps the state of the current
socket to `link` (a socket whose close event is still to come is "broken") and
the stages of the retries to "waiting".

### FlowEditor, FlowCanvas

The flow as a sequence of nodes with id, type, transitions and whether `Config`
is null; the open dialog, with whether it still works on the flow that is
shown; requests to tpflow and reports, which may be lost or arrive in any order
(a publish that `WsClient` retries is overtaken by a later one). Deleting a
node follows the code to the letter: the loop without braces stops with a
TypeError at the first node without `Config`, and the timeout transition is
never cleared.

`FlowCanvas` extends it: `drag` is what a mouse-down noted (the id of a node,
perhaps a socket), `drawn` the lines in the image, `redraw` the 100 ms timer of
a load. Its actions wrap those of the editor and say which of them draw:
`LineDrop`, `DeleteNode` and the timer do, a clone, an edited source and a new
node do not (`lagging`). A load may come while the mouse is down.

### Registry

`loads` numbers the calls of `loadAllComponents`; a request is its kind and its
number, a list is the answer it came with (kind, own or not, version of the
database). A service constructed offline (`deferred`) subscribes and loads at
every connection (`Connect`), and `subs` listeners then handle every report.
`Notify` tells the page that is subscribed; pages opened on an initialised
registry do not subscribe. The table of devices may lose its subscription in a
lookup that throws (`SubscribedAfter`). Services and locations, which the code
treats alike, are the members of `Plain`.

### FlowPages

tpflow serves requests in order and changes `store` and `state`; other clients
change them too. `contextRecords` and `lastRequestFlowId` are the shared
`FlowContextService`, which exists from the first selector on. Reports of
records do not say whose they are: the service files them under the flow asked
for last, and every page takes them by its mode. The overview loads its list
after every answer and by the timer of an import.

### AppsRegistry

The array of the service is its generation number: a version report replaces
the array, a page holds on to the one it got. A discovery completes the record
whose package name contains the service's name (`Match`; `Odd` applications
have none and are appended again). The page of one application is modelled by
what keeps it alive: its record, its two subscriptions, its manifest.

### DeviceManagers

One page at a time with its list (`shown`), its adapter and its cache; a dialog
above it. Commands to adapters are a bag, because `publish` may retry them past
one another; reports are a sequence and may be lost. `fresh` says that the page
got its adapter's list and lost nothing since it asked. A command changes the
network of its adapter only (`After`); networks change by themselves and by
other clients too. `OnNetPing` ends the subscription where the drawing throws.
The ping dialog pings again the node that was *reported* last, which need not
be the one it was opened for (`PingAgain`).

### TemplateStore

Requests of HTTP in slots, each with the stage it has reached at the server: a
save truncates (`BeginUpdate`) and writes (`EndUpdate`), and a file that is
moved or deleted takes its open writers along. Two writers mix a file, a reader
of a truncated one gets `null`. `overlapped` remembers that a request met a
file being written.

`TemplateFiles` is the store with every request done in one step. Under
`ImplementsAtomicFiles` a save is done when it truncates the file: what counts
as stored is the body of the request that writes a file, or the file if nobody
writes it. When requests have met at a file (`overlapped`) nothing is promised
any more, because the code then mixes them.

### Charts

A page has a chart per selected measurement; each has the id of its last
request and the data it shows (`req`: the request it came for, `by`: the tag
that was queried, `label`: the tag that it was labelled by). Requests and
answers overtake one another and may be lost. The settings keep colours and
configurations with `changeDetected`, and the local storage has what was saved.

## 4. Runs

| run | question | instance | result |
|---|---|---|---|
| `bridge_safety` | types, `OwnTraffic`, `ServedAfterSetup`, `ClosedOnce`, `ConfigCurrent`, `NilClientExplained`, `ImplementsRegistry` | 2 users (one with a profile), 2 connections, 3 sessions, 1 reload, CloudBridge or no broker | holds |
| `bridge_live` | `IdleSessionRemoved`, `UpgradeAnswered` | 1 user, 2 connections, 2 sessions, 1 reload, fair | holds |
| `bridge_multiplex` | a statement of a comment, `MqttLivesWithSession` | 1 user, 2 connections | violated |
| `auth` | `IdleIsDurable`, `IdleProfilesConfigured`, `ConfigReadable`, `RequestEnds` | 1 browser and the router, 2 names, 2 configurations, all modes, mistyped passwords, kills, fair | holds |
| `service` | `OneChain`, `LostOnlyInOutage`, `NewestFirst`, `FilteredAgrees`, `ImplementsDelivery`, `Reconnects`, `PublishEnds` | 2 sockets, 1 message to publish, handshakes of up to 2 s, logs of 2, 4 messages of 2 kinds, fair | holds |
| `flow` | `NoDanglingLine`, `UniqueIds`, `LinesAgree`, `OvertakenLoadIsIgnored` | types "if" and "receive", 2 stored flows, 2 ids, 2 requests, 4 edits | holds |
| `device_managers` | `CurrentAtRest`, `OwnNodesOnly` | all 4 pages, 2 adapters with a node each, 2 messages under way, 1 change of a network | holds |
| `registry` | `LoadedAtRest`, `PageFollowsRegistry`, `ListsGoForward` | dashboard, devices, wizard; 3 lists, 2 loads, 2 edits, 1 outage, 2 answers under way | holds |
| `apps` | `ListedOnce`, `StoredAtRest`, `ConfigKeepsApp` | 3 applications (one core, one odd), 3 arrays, 2 timers | holds |
| `charts` | `ShowsLastQuery`, `LegendTrue`, `SettingsStored` | 2 measurements, 2 tags, 2 colours, 2 pages, 2 messages under way | holds |
| `flow_pages` | `ListCurrent`, `GlobalPageCurrent`, `GlobalsOffered` | 2 flows, 1 variable, 2 requests of the user | holds |
| `templates` | `EditorsComplete`, `ImplementsAtomicFiles` | 1 browser, 2 requests at a time, 3 edits | holds |

Three invariants are proved but have no run of their own, because a refinement
that a run checks has them as consequences: `ConnectedIsOpen` (a page that is
mistaken about its connection makes a message wait, or sends it, in a state
where `Delivery` does not), `SentOnce` (`Delivery` never puts a message on the
wire twice) and `FilesIntact` (`TemplateFiles` stores whole templates only). So
has the type invariant of `AuthConfig`, on which its other proofs rest.

Why the bounds are enough. The races of the bridge are between two handlers of
one user, a handler and a closer, or two closers; two connections, the
monitor and a reload meet all of them, a second user is needed only to see
traffic go astray, and three session objects let a session be replaced twice.
Two reloads that overlap are left to the proof of `ConfigCurrent`. A session object is used once; when the pool is empty the model makes no
more sessions, which `UpgradeAnswered` excludes. The proofs below remove the
bounds for the safety properties. In `AuthConfig` the requests that race are
two, also the two saves that tear `config.json`; two names let one profile be
new and one old. In `WsClient` one more
socket than can be alive would show a second chain. `LostOnlyInOutage` is
tight: with handshakes of three seconds it is violated, because the retries of
`publish` last four seconds and a reconnection takes one second plus the
handshake. Logs of two that get four messages are filled, and cut twice. In the
editor a node, its target and an edit of each while a load is under way need
two ids and two requests. A page of the browser goes wrong when an answer meets
a state that changed since the request: two messages under way, one of each
generation, show that, and one change of the hub behind the page's back makes
the copies differ. Two requests at one file are what the store of templates can
mix; two edits more than the first one let a save, its successor and the file
before differ. Where a list has a single element, finding it or not is all
that the property tells apart.

`CHECK_DEADLOCK FALSE` stands where the system may really stop: a lost
`sesLock`, a server that cannot start, an editor whose load was lost; and where
a bound of the exploration ends a behaviour (requests of a registry, edits of
templates, saved configurations). Symmetry is used for connections, sessions,
browsers, request ids, measurements and colours, and only in runs without a
liveness property.

### Fairness

- `WsBridge`: goroutines run (weak fairness of the next step of a handler or a
  closer); `sync.RWMutex` lets waiting readers and writers in (strong fairness
  of taking it); time passes; `mqtt.Start` returns, as it gives up after three
  retries; systemd restarts the process. No browser has to come or go.
- `AuthConfig`: goroutines run, `sync.Mutex` is not starved (strong fairness of
  a step that may wait for it). The process need not stop or start.
- `WsClient`, `FimpService`: time passes, due timers fire, close events are
  delivered, and a handshake that is attempted for ever again succeeds some
  time (strong fairness of `OnOpen`). Nothing is assumed about drops, about
  messages or the user.

The other modules state no fairness: reports may be lost for good, so that the
pages promise nothing but what holds when everything is answered.

### What the runs show of the code

`bridge_multiplex`: two browsers of one user that connect at the same time get a
session each; the first is overwritten in the map and its MQTT client never
stopped, against "mqtt connection lifetime equals to session lifetimes".

Not expressed as a violated run, because no document plainly says otherwise, but
visible in the models, and the reason for a premise in a property:

- *bridge*: a second browser that finds the session while it is being connected
  is refused, and its WebSocket stays open without a reader; the monitor stops a
  session that a browser joined after `IsStale`, or that is as yet unused,
  because the zero time is long ago; a session without broker address makes the
  monitor dereference nil, and the server dies; a reload of such a session
  leaves `sesLock` taken for ever (`Poisoned`).
- *server*: a mistyped first sign-up sets the access mode although there is no
  user; a posted configuration is lost when a user is added meanwhile; two
  unlocked saves leave the older mode in `config.json`, or a torn file; after
  that, or a kill during its truncation, no later start succeeds; modes set over FIMP are forgotten by a
  restart.
- *flow editor*: two saves that overtake one another leave the older flow at
  tpflow; timeout lines keep the id of a deleted node, which a new node may get;
  properties of a new flow saved before its load is answered make the editor
  ignore the load; a clone and an edited source are not drawn.
- *pages*: tables opened on an initialised registry never follow later loads;
  services and locations are taken from whoever's answer comes; the network
  ping of the Z-Wave page ends its subscription when there are no statistics;
  the page of any adapter shows the old adapter's nodes until the new list
  comes, and deletes them at the new one; the page of a node takes the
  inclusion report of any node of its adapter; an application whose package
  name does not contain its service's name is listed again by every discovery;
  a configuration page opened before the list is loaded loses its subscription
  at the first message; records of a flow are filed under the flow asked for
  last; a colour that is chosen is not stored until something else changes;
  overlapping saves and moves mix template files.

## 5. Proofs

Eight modules prove the safety properties of the runs for every value of the
constants: for any number of users, sockets, nodes, charts, messages under way
and so on. Each states an inductive invariant, checks that the initial states
satisfy it, has a lemma for each action that could disturb it, and derives the
properties.

| module | theorem | property |
|---|---|---|
| `WsBridgeProofs` | `TypeCorrect` | `TypeOK` |
| | `OwnTrafficOnly` | `OwnTraffic` |
| | `ServedOnlyAfterSetup` | `ServedAfterSetup` |
| | `SessionsClosedOnce` | `ClosedOnce` |
| | `ConfigIsCurrent` | `ConfigCurrent` |
| | `NilClientIsExplained` | `NilClientExplained` |
| | `BridgeImplementsRegistry` | `ImplementsRegistry` (refinement) |
| `AuthConfigProofs` | `AuthTypeCorrect` | `TypeOK` |
| | `ChangesReachTheFile` | `IdleIsDurable` |
| | `ProfilesAreConfigured` | `IdleProfilesConfigured` |
| | `ConfigIsReadable` | `ConfigReadable` |
| `FimpServiceProofs` | `OneReconnectionChain` | `OneChain` |
| | `ConnectedTellsTheTruth` | `ConnectedIsOpen` |
| | `TransmittedOnce` | `SentOnce` |
| | `RetriesOutlastReconnection` | `LostOnlyInOutage`, if `Answer <= 2` |
| | `RetriesImplementDelivery` | `ImplementsDelivery` (refinement) |
| | `LogIsNewestFirst` | `NewestFirst` |
| | `FilteredLogAgrees` | `FilteredAgrees` |
| `FlowCanvasProofs` | `IdsStayUnique` | `UniqueIds` |
| | `NoLineDangles` | `NoDanglingLine`, if the stored flows have none |
| | `ImageShowsTheFlow` | `LinesAgree` |
| | `OvertakenLoadsAreIgnored` | `OvertakenLoadIsIgnored` (action property) |
| `TemplateStoreProofs` | `TemplatesStayIntact` | `FilesIntact` |
| | `EditorsShowAll` | `EditorsComplete` |
| | `FilesLookAtomic` | `ImplementsAtomicFiles` (refinement) |
| `RegistryProofs` | `ListsAreLoaded` | `LoadedAtRest` |
| | `PagesFollow` | `PageFollowsRegistry` |
| | `RegistryGoesForward` | `ListsGoForward` (action property) |
| `FlowPagesProofs` | `ListIsCurrent` | `ListCurrent` |
| | `GlobalPageIsCurrent` | `GlobalPageCurrent` |
| | `GlobalsAreOffered` | `GlobalsOffered` |
| `PagesProofs` | `AppsAreStored` | `StoredAtRest` |
| | `AppsAreListedOnce` | `ListedOnce` |
| | `ConfigurationKeepsItsApp` | `ConfigKeepsApp` |
| | `ChartsShowTheLastQuery` | `ShowsLastQuery` |
| | `LegendsAreTrue` | `LegendTrue` |
| | `SettingsAreStored` | `SettingsStored` |
| | `ManagersAreCurrent` | `CurrentAtRest` |
| | `AdaptersAreKeptApart` | `OwnNodesOnly` |

`PagesProofs` extends three components at once, `AppsRegistry`, `Charts` and
`DeviceManagers`. They share no variable, so each theorem is about the
specification of its own component (`Spec`, `ChartsSpec`, `ManagersSpec`).

### Assumptions

Every theorem rests on the `ASSUME`s of the modules it extends, which TLC
evaluates in the runs. They say that bounds are natural numbers, that special
values ("none", `Idle`, `Nobody`, ...) are no ordinary ones, that a constant
set of pages or kinds is one the code has, and, where a finite list is made of
a set, that it is finite. Two theorems need more, and say so themselves:

- `RetriesOutlastReconnection`: a handshake ends within two seconds. The retries
  of `publish` last 1 + 3 seconds, a reconnection 1 second and the handshake;
  with three seconds TLC finds a lost message, so the bound is exact.
- `NoLineDangles`: what tpflow stores has no dangling line to begin with. The
  editor does not check what it loads.

### The arguments

None of the properties is inductive: each speaks about a state of rest, or
about one copy of something, and says nothing about what is under way. The
invariants say what is under way.

**WsBridge.** What keeps two handlers from
setting up one session is that only its creator holds it before it is
connected; what keeps a session from being closed twice is that a closer holds
the lock and removes it in the step that stops it. `IInv` says so for each
program counter: `HandlerOK` (past the lookup a handler works on a session of
its own user), `Registered` (a registered connection is being read),
`Untouched` (a session nobody created is as new), `SetupOK` (between "dial" and
"setup" a session has one handler; a connected session's client was started),
`LockOK` (a closer at work holds the lock, on a session that is in the map, and
the monitor's remaining users have sessions), `MapAlive` (a session in the map
is not stopped, and its keep-alive has ended only under a closer about to stop
it). `ConfigCurrent` is then inductive relative to `IInv`, and so is
`NilOK`, from which `NilClientExplained` follows: it names, for every session
that was created and has no client, the handler that is about to make one,
whether the session is in the map or not. The refinement
maps handlers' steps (`HandlerRefines`) and those of closers and the rest
(`OthersRefine`) to steps of the registry or stutters, with one more invariant:
a closed connection has no user.

**AuthConfig.** Memory and file differ only while a request is on its way to
save. `Durable` names that request (`WillSave`: it has changed the profiles and
has not filled the file yet) and the point it has reached; `Configured` names
the one that will give a new profile its configuration; `ReqOK` says what a
request carries at each point, and that only a server that runs has requests.
`Durable` speaks of a server that runs: a kill ends every request, and the next
start reads the file. `SavesOK` is about `config.json`: while no save overlapped
another, at most one is under way, and the file is empty until that one ends;
the file it leaves can be read, because what was marshalled is a mode.

**WsClient, FimpLog, FimpService.** Each
property has an invariant no larger than it needs. `ConnIInv`: `OneChain` and `ConnectedIsOpen` are inductive
together, and `OneSocket` draws from them that with no timer only the socket in
use is not closed. `SentIInv`: a message that is sent stands at exactly one
place of the wire, others nowhere (a fact about places is inductive where one
about a cardinality is not). `TimeIInv`: ages and timers stay within their
limits (`ClockOK`), and a message that waits has more time to go than the
connection needs (`RetriesOK`: `Remaining < ToGo`), unless there was an outage
while it waited. `LogIInv`: the log is ordered by arrival, and is subscribed
once at most. `FilterIInv` adds that messages are numbered as they come and the
filtered log has none of those to come, so that a message is never added to it
twice; a full one is cut by the very message that was added. The model states
a new filter by the places of the log that it keeps, since a recursive
`SelectSeq` could not be reasoned about. The refinement of `Delivery` needs
only `ConnIInv`: with it `isConnected()` is true exactly when the link is up or
broken, and a socket is replaced only when it is closed. A handler of the
connection then turns the link (`ConnectionRefines`), and one of a message
moves that message on (`MessageRefines`).

**FlowEditor, FlowCanvas.** A flow is in many places: on the screen, at tpflow,
in requests, in reports, in the text of the source dialog, and any of them may
replace the one on the screen. `IInv` says that every flow of `AllFlows` has
unique ids, and `LinkIInv` that each is `Linked`, until a deletion stops
half-way. The node of an open dialog is a node of the flow as long as the
dialog is attached. The lemma behind is `NewNodeIdIsNew`: the id that
`getNewNodeId` computes is the greatest plus one, so that no node has it.
`LinesAgree` is
inductive relative to `IInv`: with unique ids, the lines that an action draws
or removes are those of the nodes it changes. `OvertakenIsOld`: the answer to
a load that the user overtook has an id that is not the last request's.

**TemplateStore.** While nothing overlapped, everything between the files and
the editors is whole: the template that a save or an answer carries
(`RequestsOK`), the one a page shows (`PagesOK`), and a file, unless one request
alone is writing it and found no other there (`FilesOK`). Who asked for a
template still has its editor open (`GetsOK`), so that no answer fills a page
that was closed. The refinement rests on the third part: as the only writer of
a file found it empty, what counts as stored is determined (`StoredIs`), a
reader that does not overlap gets it, and the end of a save changes nothing.
A file that is moved takes its writer along and with it what counts as stored
(`MoveToStableRefines`); one that is deleted leaves a writer whose body counts
no longer.

**Registry.** Versions are ordered along the way of an answer: those in the
queue among themselves (`QueueOK`), behind the lists received (`ListsOK`), which
are behind the page's copies (`ShownOK`). `LoadOK` follows each list of the last
load: it is asked for, on its way, or received and as new as the load. When no
answer is to come, only the third is left.

**FlowPages.** A list on a page may be old as long as what renews it is under
way, and so may a report be old as long as a request or report behind it in the
queue renews it: `ListOK`, `GlobalPageOK` and `ServiceOK` say which. That
requests are served in order is what makes "behind" mean "later".

**AppsRegistry.** `StoreOK` is about the storage, `ListsOK` about arrays that
list each recognised application once (the array made of a set by `SetToSeq`
does), `ConfigOK` about the configuration page: opened on a loaded list it
follows the list, and every later list has its application.

**Charts.** `WireOK`: the ids of messages under way are unique, so that a new id
is not among them; `ChartOK`: the last query of a chart is answered, under way,
or lost, and what is under way was grouped by the page's tag unless the tag was
changed since; `SettingsOK`: colours are given to tags injectively, and what is
stored is what was saved last.

**DeviceManagers.** `HubOK` types the wire and says that every list carries
nodes of its sender; `ReportsCurrent`: a list on its way is what the adapter
has, or the change is reported behind it; `ViewOK` keeps list, cache and dialog
to one adapter; `ShownOK`: a page that is fresh shows the network, or a list
that will show it is asked for or under way.

Every invariant, every action property and every refinement that the passing
runs check is thus proved.

### Only model-checked

- Liveness: `IdleSessionRemoved`, `UpgradeAnswered`, `RequestEnds`,
  `Reconnects`, `PublishEnds`. Reasoning with fairness needs ENABLED, which is
  out of the prover's reach.
- That `MqttLivesWithSession` fails is a counterexample of a run.

## 6. Not modelled

- `systems-man`, the system dashboard and the settings page: forms that send a
  command or show the last report, without state that is shared or kept.
- The forms of an application's configuration, its login and its tokens; the
  forms of the types of flow nodes; run, log and context dialogs of the flow
  editor: they send commands, and what comes back is displayed.
- `WsClient` over `WsBridge` as one system. Each of the two models leaves the
  other side open: to `WsClient` a handshake may end in either way and a
  connection break at any second, to `WsBridge` browsers come and go at any
  step. What is proved of one side for every behaviour of the other holds of
  the two together; what a composition would add is the fate of messages that
  wait in a socket until the session is set up, which neither side stores.
- The energy flow page and the drawing of charts, topology and gauges.
- WebRTC and MQTT transports of the browser (the constructor of `FimpService`
  chooses the WebSocket), the South bridge and the MQTT proxy (unused in
  `main.go`), topic matching (called by nothing), the log reader (file input).
- `vendor/`: third-party code appears as external steps.
