------------------------------- MODULE WsBridge -------------------------------
(***************************************************************************)
(* The WebSocket <-> MQTT bridge of the fimpui server:                     *)
(* cloud/ws_north_bridge.go (the registry of sessions, the HTTP upgrade    *)
(* handler, the reload of a user's configuration, the session monitor) and *)
(* cloud/brsession/ws_mqtt.go (one session: its MQTT client, its browser   *)
(* connections, its CloudBridge keep-alive goroutine).                     *)
(*                                                                         *)
(* Every browser connection is served by a handler goroutine of its own,   *)
(* whose program counter is pc[c].  The monitor and every request that     *)
(* reloads a configuration are closers: they take sesLock for writing and  *)
(* close sessions while they hold it.                                      *)
(***************************************************************************)
EXTENDS FiniteSets

CONSTANTS
    Users,       \* user names
    Profiled,    \* the users GetUserProfileByName finds
    Conns,       \* browser WebSocket connections
    Sessions,    \* pool of WsToMqttSession objects: bounds those ever created
    Configs,     \* values of user.Configs
    WithUri,     \* configurations whose MqttServerURI is not empty
    WithCb,      \* configurations with EnableCbSupport
    Reloaders,   \* requests to POST /fimp/api/configs
    Monitor,     \* the goroutine of StartSessionMonitor
    None         \* no user, no session, nobody

ASSUME BridgeAssumption ==
    /\ Profiled \subseteq Users
    /\ WithUri \subseteq Configs
    /\ WithCb \subseteq Configs
    /\ Configs # {}
    /\ Monitor \notin Reloaders
    /\ None \notin Users \cup Sessions \cup Reloaders \cup {Monitor}
    /\ Reloaders \cap Sessions = {}

Closers == Reloaders \cup {Monitor}

VARIABLES
    up,           \* FALSE after a panic nobody recovers, until systemd restarts
    conf,         \* UserProfile.Configs of each user, kept on disk
    sessions,     \* WsNorthBridge.sessions
    sesLock,      \* the closer that holds sesLock for writing, or None
    id,           \* session -> the user it was created for, None: not created
    userConfig,   \* session -> the copy of the configuration it was given
    wsConn,       \* session -> its registered browser connections
    mqtt,         \* session -> state of its MQTT client
    isConnected,  \* session -> the field of that name
    expired,      \* session -> lastWsDisconnectAt is more than 30 s ago
    keepAlive,    \* session -> ticker and goroutine of startCBSession
    pc,           \* connection -> where its handler is
    user,         \* connection -> username found in the HTTP session
    ses,          \* connection -> the session the handler holds a pointer to
    cpc,          \* closer -> where it is
    target,       \* closer -> the user whose session it is closing
    todo          \* users the monitor's loop has still to look at

sesVars == <<id, userConfig, wsConn, mqtt, isConnected, expired, keepAlive>>
connVars == <<pc, user, ses>>
closerVars == <<cpc, target, todo>>
vars == <<up, conf, sessions, sesLock, sesVars, connVars, closerVars>>

(***************************************************************************)
(* mqtt[s]: "nil" before NewMqttTransport; "starting" in Start; "stopping" *)
(* when Stop came during Start; "up" a client that stays connected (it     *)
(* reconnects by itself); "failed" Start gave up; "stopped" after Stop.    *)
(***************************************************************************)
MqttState == {"nil", "starting", "stopping", "up", "failed", "stopped"}

\* "dropped": the handler returned an error and left the WebSocket open.
HandlerState == {"closed", "lookup", "create", "dial", "start", "setup",
                 "route", "read", "dropped"}

CloserState == {"idle", "scan", "pending", "close", "stop", "panicked"}

TypeOK ==
    /\ up \in BOOLEAN
    /\ conf \in [Users -> Configs]
    /\ sessions \in [Users -> Sessions \cup {None}]
    /\ sesLock \in Closers \cup {None}
    /\ id \in [Sessions -> Users \cup {None}]
    /\ userConfig \in [Sessions -> Configs \cup {None}]
    /\ wsConn \in [Sessions -> SUBSET Conns]
    /\ mqtt \in [Sessions -> MqttState]
    /\ isConnected \in [Sessions -> BOOLEAN]
    /\ expired \in [Sessions -> BOOLEAN]
    /\ keepAlive \in [Sessions -> {"none", "running", "ended"}]
    /\ pc \in [Conns -> HandlerState]
    /\ user \in [Conns -> Users \cup {None}]
    /\ ses \in [Conns -> Sessions \cup {None}]
    /\ cpc \in [Closers -> CloserState]
    /\ target \in [Closers -> Users \cup {None}]
    /\ todo \subseteq Users

\* The process starts with empty memory; the configurations are on disk.
Init ==
    /\ up = TRUE
    /\ conf \in [Users -> Configs]
    /\ sessions = [x \in Users |-> None]
    /\ sesLock = None
    /\ id = [x \in Sessions |-> None]
    /\ userConfig = [x \in Sessions |-> None]
    /\ wsConn = [x \in Sessions |-> {}]
    /\ mqtt = [x \in Sessions |-> "nil"]
    /\ isConnected = [x \in Sessions |-> FALSE]
    /\ expired = [x \in Sessions |-> TRUE]
    /\ keepAlive = [x \in Sessions |-> "none"]
    /\ pc = [x \in Conns |-> "closed"]
    /\ user = [x \in Conns |-> None]
    /\ ses = [x \in Conns |-> None]
    /\ cpc = [x \in Closers |-> "idle"]
    /\ target = [x \in Closers |-> None]
    /\ todo = {}

InMap(s) == \E u \in Users : sessions[u] = s

Unlocked == sesLock = None

-----------------------------------------------------------------------------
(* The upgrade handler of connection c.                                    *)

\* The request is authenticated and upgraded; the user name is read.  An
\* empty user name ends the handler with an error after the upgrade.
Upgrade(c, u) ==
    /\ up
    /\ pc[c] = "closed"
    /\ pc' = [pc EXCEPT ![c] = IF u = None THEN "dropped" ELSE "lookup"]
    /\ user' = [user EXCEPT ![c] = u]
    /\ UNCHANGED <<up, conf, sessions, sesLock, sesVars, ses, closerVars>>

\* Fault for the mutation tests: the lookup ignores whose session it finds.
FoundOfAnyUser(c) ==
    IF \E s \in Sessions : InMap(s) THEN CHOOSE s \in Sessions : InMap(s)
                                    ELSE None

Found(c) == sessions[user[c]]

\* The map is read under the read lock; what follows uses the result after
\* the lock is released.
Lookup(c) ==
    /\ pc[c] = "lookup"
    /\ Unlocked
    /\ ses' = [ses EXCEPT ![c] = Found(c)]
    /\ pc' = [pc EXCEPT ![c] =
                  IF Found(c) # None THEN "route"
                  ELSE IF user[c] \in Profiled THEN "create" ELSE "dropped"]
    /\ UNCHANGED <<up, conf, sessions, sesLock, sesVars, user, closerVars>>

\* A new session with a copy of the user's configuration goes into the map
\* in one critical section.  The map is not looked at again, and the new
\* session's lastWsDisconnectAt is the zero time.
Create(c, s) ==
    /\ pc[c] = "create"
    /\ Unlocked
    /\ id[s] = None
    /\ id' = [id EXCEPT ![s] = user[c]]
    /\ userConfig' = [userConfig EXCEPT ![s] = conf[user[c]]]
    /\ sessions' = [sessions EXCEPT ![user[c]] = s]
    /\ ses' = [ses EXCEPT ![c] = s]
    /\ pc' = [pc EXCEPT ![c] = "dial"]
    /\ UNCHANGED <<up, conf, sesLock, wsConn, mqtt, isConnected, expired,
                   keepAlive, user, closerVars>>

\* Fault: the profile is asked again, not the copy the session was given.
ProfileHasBroker(c) == conf[user[c]] \in WithUri

HasBroker(c) == userConfig[ses[c]] \in WithUri

\* ConnectToMqttBroker up to the call of Start.
Dial(c) ==
    /\ pc[c] = "dial"
    /\ IF HasBroker(c)
       THEN /\ mqtt' = [mqtt EXCEPT ![ses[c]] = "starting"]
            /\ pc' = [pc EXCEPT ![c] = "start"]
       ELSE /\ pc' = [pc EXCEPT ![c] = "dropped"]
            /\ UNCHANGED mqtt
    /\ UNCHANGED <<up, conf, sessions, sesLock, id, userConfig, wsConn,
                   isConnected, expired, keepAlive, user, ses, closerVars>>

\* Start returns without an error.  A Stop that came before does not cancel
\* it: the client comes up all the same, or stays down.
StartOk(c) ==
    /\ pc[c] = "start"
    /\ \/ mqtt' = [mqtt EXCEPT ![ses[c]] = "up"]
       \/ /\ mqtt[ses[c]] = "stopping"
          /\ mqtt' = [mqtt EXCEPT ![ses[c]] = "stopped"]
    /\ pc' = [pc EXCEPT ![c] = "setup"]
    /\ UNCHANGED <<up, conf, sessions, sesLock, id, userConfig, wsConn,
                   isConnected, expired, keepAlive, user, ses, closerVars>>

\* Start has used up its retries.  The session stays in the map.
StartFails(c) ==
    /\ pc[c] = "start"
    /\ mqtt' = [mqtt EXCEPT ![ses[c]] =
                   IF @ = "stopping" THEN "stopped" ELSE "failed"]
    /\ pc' = [pc EXCEPT ![c] = "dropped"]
    /\ UNCHANGED <<up, conf, sessions, sesLock, id, userConfig, wsConn,
                   isConnected, expired, keepAlive, user, ses, closerVars>>

\* Subscriptions, startCBSession in CloudBridge mode, isConnected.
Setup(c) ==
    /\ pc[c] = "setup"
    /\ keepAlive' = [keepAlive EXCEPT ![ses[c]] =
                        IF userConfig[ses[c]] \in WithCb THEN "running" ELSE @]
    /\ isConnected' = [isConnected EXCEPT ![ses[c]] = TRUE]
    /\ pc' = [pc EXCEPT ![c] = "route"]
    /\ UNCHANGED <<up, conf, sessions, sesLock, id, userConfig, wsConn, mqtt,
                   expired, user, ses, closerVars>>

\* Fault: the router does not look at isConnected.
CanRouteAlways(c) == TRUE

CanRoute(c) == isConnected[ses[c]]

\* StartWsToSouthboundRouter up to its read loop.
Route(c) ==
    /\ pc[c] = "route"
    /\ IF CanRoute(c)
       THEN /\ wsConn' = [wsConn EXCEPT ![ses[c]] = @ \cup {c}]
            /\ pc' = [pc EXCEPT ![c] = "read"]
       ELSE /\ pc' = [pc EXCEPT ![c] = "dropped"]
            /\ UNCHANGED wsConn
    /\ UNCHANGED <<up, conf, sessions, sesLock, id, userConfig, mqtt,
                   isConnected, expired, keepAlive, user, ses, closerVars>>

\* Fault: the deferred function forgets the connection in wsConn.
OthersAndMe(c) == wsConn[ses[c]]

Others(c) == wsConn[ses[c]] \ {c}

\* The read loop ends (the browser left, a read error, a recovered panic on
\* a malformed message): the deferred function closes and unregisters.
EndRead(c) ==
    /\ pc[c] = "read"
    /\ wsConn' = [wsConn EXCEPT ![ses[c]] = Others(c)]
    /\ expired' = [expired EXCEPT ![ses[c]] = FALSE]
    /\ pc' = [pc EXCEPT ![c] = "closed"]
    /\ user' = [user EXCEPT ![c] = None]
    /\ ses' = [ses EXCEPT ![c] = None]
    /\ UNCHANGED <<up, conf, sessions, sesLock, id, userConfig, mqtt,
                   isConnected, keepAlive, closerVars>>

\* A WebSocket whose handler is gone: the browser gives up, or the finalizer
\* of the socket closes it.
Abandon(c) ==
    /\ pc[c] = "dropped"
    /\ pc' = [pc EXCEPT ![c] = "closed"]
    /\ user' = [user EXCEPT ![c] = None]
    /\ ses' = [ses EXCEPT ![c] = None]
    /\ UNCHANGED <<up, conf, sessions, sesLock, sesVars, closerVars>>

\* 30 seconds pass since the last disconnect.
Expire(s) ==
    /\ ~expired[s]
    /\ expired' = [expired EXCEPT ![s] = TRUE]
    /\ UNCHANGED <<up, conf, sessions, sesLock, id, userConfig, wsConn, mqtt,
                   isConnected, keepAlive, connVars, closerVars>>

-----------------------------------------------------------------------------
(* The monitor and the reload requests.                                    *)

\* Fault: a session whose broker never answered is not considered stale.
IsStaleConnected(s) == isConnected[s] /\ wsConn[s] = {} /\ expired[s]

IsStale(s) == wsConn[s] = {} /\ expired[s]

\* Fault: the loop also visits the zero key.
KeysAndEmpty == {u \in Users : sessions[u] # None} \cup {None}

Keys == {u \in Users : sessions[u] # None}

\* One round of the monitor's loop starts.
MonitorLock ==
    /\ up
    /\ cpc[Monitor] = "idle"
    /\ Unlocked
    /\ sesLock' = Monitor
    /\ cpc' = [cpc EXCEPT ![Monitor] = "scan"]
    /\ todo' = Keys
    /\ UNCHANGED <<up, conf, sessions, sesVars, connVars, target>>

MonitorCheck(u) ==
    /\ cpc[Monitor] = "scan"
    /\ u \in todo
    /\ todo' = todo \ {u}
    /\ IF IsStale(sessions[u])
       THEN /\ cpc' = [cpc EXCEPT ![Monitor] = "close"]
            /\ target' = [target EXCEPT ![Monitor] = u]
       ELSE UNCHANGED <<cpc, target>>
    /\ UNCHANGED <<up, conf, sessions, sesLock, sesVars, connVars>>

MonitorUnlock ==
    /\ cpc[Monitor] = "scan"
    /\ todo = {}
    /\ sesLock' = None
    /\ cpc' = [cpc EXCEPT ![Monitor] = "idle"]
    /\ UNCHANGED <<up, conf, sessions, sesVars, connVars, target, todo>>

\* POST /fimp/api/configs stores the new configuration in the profile.
SaveConfig(r, u, k) ==
    /\ up
    /\ cpc[r] = "idle"
    /\ u \in Profiled
    /\ conf' = [conf EXCEPT ![u] = k]
    /\ cpc' = [cpc EXCEPT ![r] = "pending"]
    /\ target' = [target EXCEPT ![r] = u]
    /\ UNCHANGED <<up, sessions, sesLock, sesVars, connVars, todo>>

\* Fault: a session that is still connecting is not reloaded.
HasConnectedSession(r) ==
    sessions[target[r]] # None /\ isConnected[sessions[target[r]]]

HasSession(r) == sessions[target[r]] # None

\* ReloadUserConfig takes the lock; it has nothing to do without a session.
ReloadLock(r) ==
    /\ cpc[r] = "pending"
    /\ Unlocked
    /\ IF HasSession(r)
       THEN /\ cpc' = [cpc EXCEPT ![r] = "close"]
            /\ sesLock' = r
            /\ UNCHANGED target
       ELSE /\ cpc' = [cpc EXCEPT ![r] = "idle"]
            /\ target' = [target EXCEPT ![r] = None]
            /\ UNCHANGED sesLock
    /\ UNCHANGED <<up, conf, sessions, sesVars, connVars, todo>>

Closing(p) == sessions[target[p]]

\* stopCBSession: with a ticker the closer hands sessionClosedSignal to the
\* keep-alive goroutine, over an unbuffered channel.
StopCb(p) ==
    /\ cpc[p] = "close"
    /\ mqtt[Closing(p)] # "nil"
    /\ IF userConfig[Closing(p)] \in WithCb /\ keepAlive[Closing(p)] # "none"
       THEN /\ keepAlive[Closing(p)] = "running"
            /\ keepAlive' = [keepAlive EXCEPT ![Closing(p)] = "ended"]
       ELSE UNCHANGED keepAlive
    /\ cpc' = [cpc EXCEPT ![p] = "stop"]
    /\ UNCHANGED <<up, conf, sessions, sesLock, id, userConfig, wsConn, mqtt,
                   isConnected, expired, connVars, target, todo>>

\* Fault: ReloadUserConfig closes the session and leaves it in the map.
StillMapped(p) ==
    IF p = Monitor THEN [sessions EXCEPT ![target[p]] = None] ELSE sessions

Remaining(p) == [sessions EXCEPT ![target[p]] = None]

\* Fault: ReloadUserConfig returns without unlocking.
LockKept(p) == sesLock

LockAfter(p) == IF p = Monitor THEN sesLock ELSE None

\* mqtt.Stop, the deletion from the map and, in ReloadUserConfig, the unlock.
StopMqtt(p) ==
    /\ cpc[p] = "stop"
    /\ mqtt' = [mqtt EXCEPT ![Closing(p)] =
                   IF @ = "starting" THEN "stopping" ELSE "stopped"]
    /\ sessions' = Remaining(p)
    /\ cpc' = [cpc EXCEPT ![p] = IF p = Monitor THEN "scan" ELSE "idle"]
    /\ target' = [target EXCEPT ![p] = None]
    /\ sesLock' = LockAfter(p)
    /\ UNCHANGED <<up, conf, id, userConfig, wsConn, isConnected, expired,
                   keepAlive, connVars, todo>>

\* Close on a session without an MQTT client dereferences nil.  The web
\* framework recovers the panic of a request, whose lock stays taken.
ReloadPanics(r) ==
    /\ cpc[r] = "close"
    /\ mqtt[Closing(r)] = "nil"
    /\ cpc' = [cpc EXCEPT ![r] = "panicked"]
    /\ UNCHANGED <<up, conf, sessions, sesLock, sesVars, connVars, target, todo>>

\* Nobody recovers the panic of the monitor goroutine: the process dies, and
\* with it every socket.
MonitorPanics ==
    /\ cpc[Monitor] = "close"
    /\ mqtt[Closing(Monitor)] = "nil"
    /\ up' = FALSE
    /\ sessions' = [x \in Users |-> None]
    /\ sesLock' = None
    /\ id' = [x \in Sessions |-> None]
    /\ userConfig' = [x \in Sessions |-> None]
    /\ wsConn' = [x \in Sessions |-> {}]
    /\ mqtt' = [x \in Sessions |-> "nil"]
    /\ isConnected' = [x \in Sessions |-> FALSE]
    /\ expired' = [x \in Sessions |-> TRUE]
    /\ keepAlive' = [x \in Sessions |-> "none"]
    /\ pc' = [x \in Conns |-> "closed"]
    /\ user' = [x \in Conns |-> None]
    /\ ses' = [x \in Conns |-> None]
    /\ cpc' = [x \in Closers |-> "idle"]
    /\ target' = [x \in Closers |-> None]
    /\ todo' = {}
    /\ UNCHANGED conf

\* systemd starts the server again (Restart=on-failure).
Restart ==
    /\ ~up
    /\ up' = TRUE
    /\ UNCHANGED <<conf, sessions, sesLock, sesVars, connVars, closerVars>>

-----------------------------------------------------------------------------
Handler(c) ==
    \/ \E u \in Users \cup {None} : Upgrade(c, u)
    \/ Lookup(c)
    \/ \E s \in Sessions : Create(c, s)
    \/ Dial(c)
    \/ StartOk(c)
    \/ StartFails(c)
    \/ Setup(c)
    \/ Route(c)
    \/ EndRead(c)
    \/ Abandon(c)

Reload(r) ==
    \/ \E u \in Users, k \in Configs : SaveConfig(r, u, k)
    \/ ReloadLock(r)
    \/ StopCb(r)
    \/ StopMqtt(r)
    \/ ReloadPanics(r)

MonitorLoop ==
    \/ MonitorLock
    \/ \E u \in Users : MonitorCheck(u)
    \/ MonitorUnlock
    \/ StopCb(Monitor)
    \/ StopMqtt(Monitor)
    \/ MonitorPanics

\* Without up, only Upgrade, SaveConfig and MonitorLock would have a say:
\* a process that is down has no handler and no closer at work.
Next ==
    \/ \E c \in Conns : Handler(c)
    \/ \E r \in Reloaders : Reload(r)
    \/ MonitorLoop
    \/ \E s \in Sessions : Expire(s)
    \/ Restart

Spec == Init /\ [][Next]_vars

(***************************************************************************)
(* Goroutines run (weak fairness of what a started handler or closer does  *)
(* next), time passes, and sync.RWMutex starves neither readers nor        *)
(* writers (strong fairness of taking the lock).  Nothing makes a browser  *)
(* connect or leave, or a user change a configuration.                     *)
(***************************************************************************)
Fairness ==
    /\ \A c \in Conns :
        /\ SF_vars(Lookup(c))
        /\ SF_vars(\E s \in Sessions : Create(c, s))
        /\ WF_vars(Dial(c) \/ StartOk(c) \/ StartFails(c) \/ Setup(c) \/ Route(c))
    /\ \A r \in Reloaders :
        /\ SF_vars(ReloadLock(r))
        /\ WF_vars(StopCb(r) \/ StopMqtt(r) \/ ReloadPanics(r))
    /\ SF_vars(MonitorLock)
    /\ WF_vars(\/ \E u \in Users : MonitorCheck(u)
               \/ MonitorUnlock
               \/ StopCb(Monitor)
               \/ StopMqtt(Monitor)
               \/ MonitorPanics)
    /\ \A s \in Sessions : WF_vars(Expire(s))
    /\ WF_vars(Restart)

FairSpec == Spec /\ Fairness
-----------------------------------------------------------------------------
(* Correctness properties.                                                 *)

\* A reload request that panicked keeps sesLock for ever.
Poisoned == \E r \in Reloaders : cpc[r] = "panicked"

\* Traffic of a session reaches browsers of its user only: a connection
\* registered in wsConn (ws_mqtt.go:140-142, read by onMqttMessage) is being
\* read, belongs to that one session, and the session was created for the
\* user the connection was authenticated as.
OwnTraffic ==
    /\ \A u \in Users : sessions[u] # None => id[sessions[u]] = u
    /\ \A s \in Sessions : \A c \in wsConn[s] :
           pc[c] = "read" /\ ses[c] = s /\ id[s] = user[c]

\* A browser's messages are published only through an MQTT client that was
\* set up completely (ws_mqtt.go:124, :175), whatever the order in which the
\* first connection, the others, the monitor and a reload reach the session.
ServedAfterSetup ==
    \A s \in Sessions : wsConn[s] # {} =>
        /\ isConnected[s]
        /\ mqtt[s] \in {"up", "stopped"}

\* Close is not run on a session a second time: a session found in the map
\* has not been stopped, and a closer never waits on sessionClosedSignal for
\* a keep-alive goroutine that already ended, which would hold sesLock for
\* ever (ws_mqtt.go:280-283, ws_north_bridge.go:54-55 and :129-130).
ClosedOnce ==
    /\ \A u \in Users : sessions[u] # None =>
           mqtt[sessions[u]] \notin {"stopping", "stopped"}
    /\ \A p \in Closers : cpc[p] = "close" => keepAlive[Closing(p)] # "ended"

\* Once the reload that follows a configuration change is over, the user's
\* session in the map runs with that configuration, even when a handler was
\* creating it meanwhile (main.go:326-329, ws_north_bridge.go:107-110).
ConfigCurrent ==
    \A u \in Users :
        sessions[u] # None /\ userConfig[sessions[u]] # conf[u] =>
            \E r \in Reloaders : target[r] = u /\ cpc[r] # "idle"

\* Close may be run on a session without an MQTT client, which panics, only when
\* the configuration it was created with has no broker address, or in the moment
\* before its creator makes the client: not after a failed or a half-done setup,
\* and not because the profile was changed meanwhile (ws_mqtt.go:57,
\* ws_north_bridge.go:54, :129).
NilClientExplained ==
    \A u \in Users : sessions[u] # None /\ mqtt[sessions[u]] = "nil" =>
        \/ userConfig[sessions[u]] \notin WithUri
        \/ \E c \in Conns : pc[c] = "dial" /\ ses[c] = sessions[u]

\* No session stays in the map unused for ever: the monitor gets to it
\* (ws_north_bridge.go:123-139), unless sesLock is lost.
IdleSessionRemoved ==
    \A s \in Sessions :
        InMap(s) /\ wsConn[s] = {} ~> ~InMap(s) \/ wsConn[s] # {} \/ Poisoned

\* A handler that looks for its session gets an answer, and ends up reading
\* or refused: neither the monitor nor reloads keep it waiting for ever.
\* (With the pool of session objects used up the model has no answer.)
UpgradeAnswered ==
    \A c \in Conns :
        pc[c] = "lookup" ~> \/ pc[c] \in {"read", "dropped", "closed"}
                            \/ Poisoned
                            \/ \A s \in Sessions : id[s] # None

\* The bridge, with all its goroutines, is a registry of sessions as
\* SessionRegistry describes it (ws_north_bridge.go:67-139): whatever the
\* interleaving, no retired session becomes current again, and no connection
\* is served by a session of another user or by two sessions.
Registry == INSTANCE SessionRegistry WITH
                current <- sessions,
                owner <- id,
                as <- user,
                serving <- [c \in Conns |-> IF pc[c] = "read" THEN ses[c]
                                            ELSE None]

ImplementsRegistry == Registry!Spec

-----------------------------------------------------------------------------
(* Statements of the source that the code does not keep.                   *)

\* ws_mqtt.go:17: "mqtt connection lifetime equals to session lifetimes":
\* an MQTT client that is up is that of a session still in the map.
MqttLivesWithSession ==
    \A s \in Sessions : mqtt[s] = "up" => InMap(s)
===============================================================================
