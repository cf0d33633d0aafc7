---------------------------- MODULE WsBridgeProofs ----------------------------
(***************************************************************************)
(* Proofs about WsBridge, for any number of users, connections, sessions   *)
(* and reload requests.  IInv is the inductive invariant: it adds to the   *)
(* properties what each program counter says about the session the         *)
(* goroutine works on.                                                     *)
(***************************************************************************)
EXTENDS WsBridge, TLAPS

\* A session in the map was created for the user it is filed under.
MapOwner == \A u \in Users : sessions[u] # None => id[sessions[u]] = u

\* A handler past the lookup works for its user, on a session of that user.
HandlerOK ==
    \A c \in Conns :
        /\ pc[c] \in {"lookup", "create"} => user[c] \in Users
        /\ pc[c] \in {"dial", "start", "setup", "route", "read"} =>
               /\ user[c] \in Users
               /\ ses[c] \in Sessions
               /\ id[ses[c]] = user[c]

\* A registered connection is being read, by the handler of that session.
Registered ==
    \A s \in Sessions : \A c \in wsConn[s] : pc[c] = "read" /\ ses[c] = s

\* A session nobody created yet is untouched.
Untouched ==
    \A s \in Sessions : id[s] = None =>
        /\ mqtt[s] = "nil"
        /\ ~isConnected[s]
        /\ keepAlive[s] = "none"

\* Only the handler that created a session brings it up, step by step.
SetupOK ==
    /\ \A c \in Conns : pc[c] \in {"dial", "start", "setup"} =>
           ~isConnected[ses[c]] /\ keepAlive[ses[c]] = "none"
    /\ \A c \in Conns :
           /\ pc[c] = "dial" => mqtt[ses[c]] = "nil"
           /\ pc[c] = "start" => mqtt[ses[c]] \in {"starting", "stopping"}
           /\ pc[c] = "setup" => mqtt[ses[c]] \in {"up", "stopped"}
    /\ \A c, d \in Conns :
           /\ pc[c] \in {"dial", "start", "setup"}
           /\ pc[d] \in {"dial", "start", "setup"}
           /\ ses[c] = ses[d]
           => c = d
    /\ \A s \in Sessions : isConnected[s] => mqtt[s] \in {"up", "stopped"}
    /\ \A s \in Sessions : wsConn[s] # {} => isConnected[s]

\* A closer at work holds the lock, on a session that is in the map.
LockOK ==
    /\ \A p \in Closers :
           cpc[p] \in {"scan", "close", "stop", "panicked"} => sesLock = p
    /\ \A p \in Closers :
           cpc[p] \in {"close", "stop"} =>
               target[p] \in Users /\ sessions[target[p]] # None
    /\ \A r \in Reloaders :
           cpc[r] # "scan" /\ (cpc[r] = "pending" => target[r] \in Users)
    /\ cpc[Monitor] # "pending"
    /\ \A p \in Closers : cpc[p] = "stop" => mqtt[Closing(p)] # "nil"
    /\ cpc[Monitor] \in {"scan", "close", "stop"} =>
           \A u \in todo : sessions[u] # None
    /\ cpc[Monitor] \in {"close", "stop"} => target[Monitor] \notin todo

\* A session in the map is not stopped, and its keep-alive goroutine has
\* ended only if a closer is about to stop it.
MapAlive ==
    \A u \in Users : sessions[u] # None =>
        /\ mqtt[sessions[u]] \notin {"stopping", "stopped"}
        /\ keepAlive[sessions[u]] = "ended" =>
               \E p \in Closers : cpc[p] = "stop" /\ target[p] = u

IInv ==
    /\ TypeOK
    /\ MapOwner
    /\ HandlerOK
    /\ Registered
    /\ Untouched
    /\ SetupOK
    /\ LockOK
    /\ MapAlive

-----------------------------------------------------------------------------
\* The invariant holds when the process starts.
LEMMA InitIInv == Init => IInv
  BY BridgeAssumption
     DEF Init, IInv, TypeOK, MapOwner, HandlerOK, Registered, Untouched,
         SetupOK, LockOK, MapAlive, MqttState, HandlerState, CloserState,
         Closers

\* A browser connects; without a user name its handler ends at once.
LEMMA UpgradeIInv ==
  ASSUME IInv, NEW c \in Conns, NEW u \in Users \cup {None}, Upgrade(c, u)
  PROVE  IInv'
<1>1. TypeOK'
  BY DEF Upgrade, IInv, HandlerState, closerVars, TypeOK, sesVars
<1>2. HandlerOK'
  BY DEF Upgrade, IInv, HandlerOK, TypeOK, sesVars
<1>3. Registered'
  BY DEF Upgrade, IInv, Registered, TypeOK, sesVars
<1>4. SetupOK'
  BY DEF Upgrade, IInv, SetupOK, TypeOK, sesVars
<1>5. MapOwner' /\ Untouched' /\ LockOK' /\ MapAlive'
  BY DEF Upgrade, IInv, MapOwner, Untouched, LockOK, MapAlive, sesVars,
         closerVars, Closing
<1> QED
  BY <1>1, <1>2, <1>3, <1>4, <1>5 DEF IInv

\* The handler leaves the map with the session of its own user, or none.
LEMMA LookupIInv ==
  ASSUME IInv, NEW c \in Conns, Lookup(c)
  PROVE  IInv'
<1>1. TypeOK'
  BY DEF Lookup, Found, Unlocked, IInv, HandlerOK, HandlerState, closerVars,
         TypeOK, sesVars
<1>2. HandlerOK'
  BY DEF Lookup, Found, Unlocked, IInv, MapOwner, HandlerOK, TypeOK, sesVars
<1>3. Registered'
  BY DEF Lookup, Found, Unlocked, IInv, Registered, TypeOK, sesVars
<1>4. SetupOK'
  BY DEF Lookup, Found, Unlocked, IInv, SetupOK, TypeOK, sesVars
<1>5. MapOwner' /\ Untouched' /\ LockOK' /\ MapAlive'
  BY DEF Lookup, IInv, MapOwner, Untouched, LockOK, MapAlive, sesVars,
         closerVars, Closing
<1> QED
  BY <1>1, <1>2, <1>3, <1>4, <1>5 DEF IInv

\* The session created is a new one: it is not in the map under another
\* user, no handler holds it and nobody has touched it.
LEMMA CreateIInv ==
  ASSUME IInv, NEW c \in Conns, NEW s \in Sessions, Create(c, s)
  PROVE  IInv'
<1>1. TypeOK'
  BY DEF Create, Unlocked, IInv, HandlerOK, HandlerState, closerVars, TypeOK
<1>2. MapOwner'
  BY BridgeAssumption DEF Create, Unlocked, IInv, MapOwner, TypeOK
<1>3. HandlerOK'
  BY BridgeAssumption DEF Create, Unlocked, IInv, HandlerOK, TypeOK
<1>4. Registered'
  BY DEF Create, Unlocked, IInv, Registered
<1>5. Untouched'
  BY DEF Create, Unlocked, IInv, Untouched
<1>6. SetupOK'
  BY BridgeAssumption
     DEF Create, Unlocked, IInv, HandlerOK, Untouched, SetupOK, TypeOK
<1>7. LockOK'
  BY BridgeAssumption DEF Create, Unlocked, Closers, IInv, LockOK, closerVars
<1>8. MapAlive'
  BY DEF Create, Unlocked, IInv, Untouched, MapAlive, closerVars
<1> QED
  BY <1>1, <1>2, <1>3, <1>4, <1>5, <1>6, <1>7, <1>8 DEF IInv

\* Only its creator brings the session from "nil" to "starting".
LEMMA DialIInv ==
  ASSUME IInv, NEW c \in Conns, Dial(c)
  PROVE  IInv'
<1>1. TypeOK'
  BY DEF Dial, IInv, MqttState, HandlerState, closerVars, TypeOK
<1>2. HandlerOK'
  BY DEF Dial, IInv, HandlerOK, TypeOK
<1>3. Registered'
  BY DEF Dial, IInv, Registered, TypeOK
<1>4. Untouched'
  BY BridgeAssumption DEF Dial, IInv, HandlerOK, Untouched, TypeOK
<1>5. SetupOK'
  BY DEF Dial, IInv, HandlerOK, SetupOK, TypeOK
<1>6. LockOK'
  BY DEF Dial, Closing, IInv, LockOK, closerVars, TypeOK
<1>7. MapAlive'
  BY DEF Dial, IInv, MapAlive, closerVars, TypeOK
<1>8. MapOwner'
  BY DEF Dial, IInv, MapOwner
<1> QED
  BY <1>1, <1>2, <1>3, <1>4, <1>5, <1>6, <1>7, <1>8 DEF IInv

\* Start returns to the one handler that called it.
LEMMA StartOkIInv ==
  ASSUME IInv, NEW c \in Conns, StartOk(c)
  PROVE  IInv'
<1>1. TypeOK'
  BY DEF StartOk, IInv, MqttState, HandlerState, closerVars, TypeOK
<1>2. HandlerOK'
  BY DEF StartOk, IInv, HandlerOK
<1>3. Registered'
  BY DEF StartOk, IInv, Registered
<1>4. Untouched'
  BY DEF StartOk, IInv, Untouched, SetupOK, TypeOK
<1>5. SetupOK'
  BY DEF StartOk, IInv, HandlerOK, SetupOK, TypeOK
<1>6. LockOK'
  BY DEF StartOk, Closing, IInv, LockOK, closerVars, TypeOK
<1>7. MapAlive'
  BY DEF StartOk, IInv, MapAlive, closerVars, TypeOK
<1>8. MapOwner'
  BY DEF StartOk, IInv, MapOwner
<1> QED
  BY <1>1, <1>2, <1>3, <1>4, <1>5, <1>6, <1>7, <1>8 DEF IInv

\* The failed session is left in the map, not connected.
LEMMA StartFailsIInv ==
  ASSUME IInv, NEW c \in Conns, StartFails(c)
  PROVE  IInv'
<1>1. TypeOK'
  BY DEF StartFails, IInv, MqttState, HandlerState, closerVars, TypeOK
<1>2. HandlerOK'
  BY DEF StartFails, IInv, HandlerOK
<1>3. Registered'
  BY DEF StartFails, IInv, Registered
<1>4. Untouched'
  BY DEF StartFails, IInv, Untouched, SetupOK
<1>5. SetupOK'
  BY DEF StartFails, IInv, SetupOK, TypeOK
<1>6. LockOK'
  BY DEF StartFails, Closing, IInv, LockOK, closerVars
<1>7. MapAlive'
  BY DEF StartFails, IInv, MapAlive, closerVars
<1>8. MapOwner'
  BY DEF StartFails, IInv, MapOwner
<1> QED
  BY <1>1, <1>2, <1>3, <1>4, <1>5, <1>6, <1>7, <1>8 DEF IInv

\* The session becomes connected after Start, when no other handler is
\* still setting it up.
LEMMA SetupIInv ==
  ASSUME IInv, NEW c \in Conns, Setup(c)
  PROVE  IInv'
<1>1. TypeOK'
  BY DEF Setup, IInv, HandlerState, closerVars, TypeOK
<1>2. HandlerOK'
  BY DEF Setup, IInv, HandlerOK
<1>3. Registered'
  BY DEF Setup, IInv, Registered
<1>4. Untouched'
  BY DEF Setup, IInv, Untouched, SetupOK
<1>5. SetupOK'
  BY DEF Setup, IInv, SetupOK, TypeOK
<1>6. MapAlive'
  BY DEF Setup, IInv, MapAlive, closerVars
<1>7. MapOwner' /\ LockOK'
  BY DEF Setup, IInv, MapOwner, LockOK, closerVars, Closing
<1> QED
  BY <1>1, <1>2, <1>3, <1>4, <1>5, <1>6, <1>7 DEF IInv

\* A connection is registered with a connected session of its user only.
LEMMA RouteIInv ==
  ASSUME IInv, NEW c \in Conns, Route(c)
  PROVE  IInv'
<1>1. TypeOK'
  BY DEF Route, CanRoute, IInv, HandlerState, closerVars, TypeOK
<1>2. HandlerOK'
  BY DEF Route, CanRoute, IInv, HandlerOK, TypeOK
<1>3. Registered'
  BY DEF Route, CanRoute, IInv, Registered, TypeOK
<1>4. SetupOK'
  BY DEF Route, CanRoute, IInv, HandlerOK, Registered, SetupOK, TypeOK
<1>5. MapOwner' /\ Untouched' /\ LockOK' /\ MapAlive'
  BY DEF Route, IInv, MapOwner, Untouched, LockOK, MapAlive, closerVars,
         Closing
<1> QED
  BY <1>1, <1>2, <1>3, <1>4, <1>5 DEF IInv

\* The connection that leaves is no longer registered with its session.
LEMMA EndReadIInv ==
  ASSUME IInv, NEW c \in Conns, EndRead(c)
  PROVE  IInv'
<1>1. TypeOK'
  BY DEF EndRead, Others, IInv, HandlerState, closerVars, TypeOK
<1>2. HandlerOK'
  BY DEF EndRead, Others, IInv, HandlerOK, TypeOK
<1>3. Registered'
  BY DEF EndRead, Others, IInv, Registered, TypeOK
<1>4. SetupOK'
  BY DEF EndRead, Others, IInv, SetupOK
<1>5. MapOwner' /\ Untouched' /\ LockOK' /\ MapAlive'
  BY DEF EndRead, IInv, MapOwner, Untouched, LockOK, MapAlive, closerVars,
         Closing
<1> QED
  BY <1>1, <1>2, <1>3, <1>4, <1>5 DEF IInv

\* A dropped connection is registered nowhere.
LEMMA AbandonIInv ==
  ASSUME IInv, NEW c \in Conns, Abandon(c)
  PROVE  IInv'
<1>1. TypeOK'
  BY DEF Abandon, IInv, HandlerState, closerVars, TypeOK, sesVars
<1>2. HandlerOK'
  BY DEF Abandon, IInv, HandlerOK, TypeOK, sesVars
<1>3. Registered'
  BY DEF Abandon, IInv, Registered, TypeOK, sesVars
<1>4. SetupOK'
  BY DEF Abandon, IInv, SetupOK, TypeOK, sesVars
<1>5. MapOwner' /\ Untouched' /\ LockOK' /\ MapAlive'
  BY DEF Abandon, IInv, MapOwner, Untouched, LockOK, MapAlive, sesVars,
         closerVars, Closing
<1> QED
  BY <1>1, <1>2, <1>3, <1>4, <1>5 DEF IInv

\* Time passing disturbs nothing but the clock of the session.
LEMMA ExpireIInv ==
  ASSUME IInv, NEW s \in Sessions, Expire(s)
  PROVE  IInv'
<1>1. TypeOK'
  BY DEF Expire, IInv, connVars, closerVars, TypeOK
<1>2. MapOwner' /\ HandlerOK' /\ Registered' /\ Untouched' /\ SetupOK' /\
      LockOK' /\ MapAlive'
  BY DEF Expire, IInv, MapOwner, HandlerOK, Registered, Untouched, SetupOK,
         LockOK, MapAlive, connVars, closerVars, Closing
<1> QED
  BY <1>1, <1>2 DEF IInv

\* The monitor takes a free lock, and looks at users with a session.
LEMMA MonitorLockIInv ==
  ASSUME IInv, MonitorLock
  PROVE  IInv'
<1>1. TypeOK'
  BY DEF MonitorLock, Unlocked, Keys, Closers, IInv, CloserState, connVars,
         TypeOK, sesVars
<1>2. LockOK'
  BY BridgeAssumption DEF MonitorLock, Unlocked, Keys, Closers, IInv, LockOK
<1>3. MapAlive'
  BY DEF MonitorLock, Unlocked, Keys, IInv, MapAlive, TypeOK, sesVars
<1>4. MapOwner' /\ HandlerOK' /\ Registered' /\ Untouched' /\ SetupOK'
  BY DEF MonitorLock, IInv, MapOwner, HandlerOK, Registered, Untouched,
         SetupOK, sesVars, connVars
<1> QED
  BY <1>1, <1>2, <1>3, <1>4 DEF IInv

\* The session the monitor is about to close is in the map.
LEMMA MonitorCheckIInv ==
  ASSUME IInv, NEW u \in Users, MonitorCheck(u)
  PROVE  IInv'
<1>1. TypeOK'
  BY DEF MonitorCheck, IsStale, IInv, CloserState, connVars, TypeOK, sesVars
<1>2. LockOK'
  BY DEF MonitorCheck, IsStale, Closers, IInv, LockOK, TypeOK
<1>3. MapAlive'
  BY DEF MonitorCheck, IsStale, IInv, MapAlive, TypeOK, sesVars
<1>4. MapOwner' /\ HandlerOK' /\ Registered' /\ Untouched' /\ SetupOK'
  BY DEF MonitorCheck, IInv, MapOwner, HandlerOK, Registered, Untouched,
         SetupOK, sesVars, connVars
<1> QED
  BY <1>1, <1>2, <1>3, <1>4 DEF IInv

\* The monitor releases the lock when it closes nothing.
LEMMA MonitorUnlockIInv ==
  ASSUME IInv, MonitorUnlock
  PROVE  IInv'
<1>1. TypeOK'
  BY DEF MonitorUnlock, IInv, CloserState, connVars, TypeOK, sesVars
<1>2. LockOK'
  BY DEF MonitorUnlock, Closers, IInv, LockOK, TypeOK
<1>3. MapAlive'
  BY DEF MonitorUnlock, IInv, MapAlive, TypeOK, sesVars
<1>4. MapOwner' /\ HandlerOK' /\ Registered' /\ Untouched' /\ SetupOK'
  BY DEF MonitorUnlock, IInv, MapOwner, HandlerOK, Registered, Untouched,
         SetupOK, sesVars, connVars
<1> QED
  BY <1>1, <1>2, <1>3, <1>4 DEF IInv

\* A request that saves a configuration does not hold the lock yet.
LEMMA SaveConfigIInv ==
  ASSUME IInv, NEW r \in Reloaders, NEW u \in Users, NEW k \in Configs,
     SaveConfig(r, u, k)
  PROVE  IInv'
<1>1. TypeOK'
  BY DEF SaveConfig, IInv, CloserState, connVars, TypeOK, sesVars
<1>2. LockOK'
  BY BridgeAssumption DEF SaveConfig, Closing, IInv, LockOK, TypeOK, sesVars
<1>3. MapAlive'
  BY DEF SaveConfig, IInv, MapAlive, TypeOK, sesVars
<1>4. MapOwner' /\ HandlerOK' /\ Registered' /\ Untouched' /\ SetupOK'
  BY DEF SaveConfig, IInv, MapOwner, HandlerOK, Registered, Untouched,
         SetupOK, sesVars, connVars
<1> QED
  BY <1>1, <1>2, <1>3, <1>4 DEF IInv

\* A reload takes a free lock, on a session that is in the map.
LEMMA ReloadLockIInv ==
  ASSUME IInv, NEW r \in Reloaders, ReloadLock(r)
  PROVE  IInv'
<1>1. TypeOK'
  BY DEF ReloadLock, HasSession, Unlocked, Closers, IInv, CloserState,
         connVars, TypeOK, sesVars
<1>2. LockOK'
  BY BridgeAssumption
     DEF ReloadLock, HasSession, Unlocked, Closers, IInv, LockOK, TypeOK
<1>3. MapAlive'
  BY DEF ReloadLock, HasSession, Unlocked, IInv, MapAlive, TypeOK, sesVars
<1>4. MapOwner' /\ HandlerOK' /\ Registered' /\ Untouched' /\ SetupOK'
  BY DEF ReloadLock, IInv, MapOwner, HandlerOK, Registered, Untouched,
         SetupOK, sesVars, connVars
<1> QED
  BY <1>1, <1>2, <1>3, <1>4 DEF IInv

\* The keep-alive goroutine ends when its closer goes on to stop the
\* session, which is filed under the one user the closer works on.
LEMMA StopCbIInv ==
  ASSUME IInv, NEW p \in Closers, StopCb(p)
  PROVE  IInv'
<1>1. TypeOK'
  BY DEF StopCb, IInv, CloserState, connVars, TypeOK
<1>2. Untouched'
  BY DEF StopCb, IInv, Untouched, TypeOK
<1>3. SetupOK'
  BY DEF StopCb, IInv, HandlerOK, SetupOK, connVars, TypeOK
<1>4. LockOK'
  BY DEF StopCb, Closing, IInv, LockOK
<1>5. MapAlive'
  BY DEF StopCb, Closing, IInv, MapOwner, LockOK, MapAlive, TypeOK
<1>6. MapOwner' /\ HandlerOK' /\ Registered'
  BY DEF StopCb, IInv, MapOwner, HandlerOK, Registered, connVars
<1> QED
  BY <1>1, <1>2, <1>3, <1>4, <1>5, <1>6 DEF IInv

\* A session leaves the map in the step that stops it.
LEMMA StopMqttIInv ==
  ASSUME IInv, NEW p \in Closers, StopMqtt(p)
  PROVE  IInv'
<1>1. TypeOK'
  BY DEF StopMqtt, Remaining, LockAfter, IInv, MqttState, CloserState,
         connVars, TypeOK
<1>2. MapOwner'
  BY DEF StopMqtt, Remaining, LockAfter, IInv, MapOwner
<1>3. Untouched'
  BY DEF StopMqtt, Remaining, LockAfter, IInv, Untouched, LockOK
<1>4. SetupOK'
  BY DEF StopMqtt, Remaining, LockAfter, Closing, IInv, SetupOK, LockOK,
         MapAlive, connVars
<1>5. LockOK'
  BY BridgeAssumption
     DEF StopMqtt, Remaining, LockAfter, Closers, IInv, LockOK, TypeOK
<1>6. MapAlive'
  BY DEF StopMqtt, Remaining, LockAfter, Closing, IInv, MapOwner, LockOK,
         MapAlive, TypeOK
<1>7. HandlerOK' /\ Registered'
  BY DEF StopMqtt, IInv, HandlerOK, Registered, connVars
<1> QED
  BY <1>1, <1>2, <1>3, <1>4, <1>5, <1>6, <1>7 DEF IInv

\* A reload that panics keeps the lock.
LEMMA ReloadPanicsIInv ==
  ASSUME IInv, NEW r \in Reloaders, ReloadPanics(r)
  PROVE  IInv'
<1>1. TypeOK'
  BY DEF ReloadPanics, IInv, CloserState, connVars, TypeOK, sesVars
<1>2. LockOK'
  BY DEF ReloadPanics, Closers, IInv, LockOK
<1>3. MapAlive'
  BY DEF ReloadPanics, IInv, MapAlive, TypeOK, sesVars
<1>4. MapOwner' /\ HandlerOK' /\ Registered' /\ Untouched' /\ SetupOK'
  BY DEF ReloadPanics, IInv, MapOwner, HandlerOK, Registered, Untouched,
         SetupOK, sesVars, connVars
<1> QED
  BY <1>1, <1>2, <1>3, <1>4 DEF IInv

\* A process that died starts with nothing.
LEMMA MonitorPanicsIInv ==
  ASSUME IInv, MonitorPanics
  PROVE  IInv'
<1>1. TypeOK'
  BY DEF MonitorPanics, IInv, MqttState, HandlerState, CloserState, TypeOK
<1>2. MapOwner'
  BY DEF MonitorPanics, IInv, MapOwner
<1>3. HandlerOK'
  BY DEF MonitorPanics, IInv, HandlerOK
<1>4. Registered'
  BY DEF MonitorPanics, IInv, Registered
<1>5. Untouched'
  BY DEF MonitorPanics, IInv, Untouched
<1>6. SetupOK'
  BY DEF MonitorPanics, IInv, SetupOK
<1>7. LockOK'
  BY DEF MonitorPanics, Closers, IInv, LockOK
<1>8. MapAlive'
  BY DEF MonitorPanics, IInv, MapAlive
<1> QED
  BY <1>1, <1>2, <1>3, <1>4, <1>5, <1>6, <1>7, <1>8 DEF IInv

\* systemd starts the process in the state the crash left.
LEMMA RestartIInv ==
  ASSUME IInv, Restart
  PROVE  IInv'
<1>1. TypeOK'
  BY DEF Restart, IInv, connVars, closerVars, TypeOK, sesVars
<1>2. MapOwner' /\ HandlerOK' /\ Registered' /\ Untouched' /\ SetupOK' /\
      LockOK' /\ MapAlive'
  BY DEF Restart, IInv, MapOwner, HandlerOK, Registered, Untouched, SetupOK,
         LockOK, MapAlive, sesVars, connVars, closerVars, Closing
<1> QED
  BY <1>1, <1>2 DEF IInv

-----------------------------------------------------------------------------
\* Every step preserves the inductive invariant.
LEMMA NextIInv ==
  ASSUME IInv, [Next]_vars
  PROVE  IInv'
<1>1. CASE UNCHANGED vars
  BY <1>1 DEF vars, sesVars, connVars, closerVars, IInv, TypeOK, MapOwner,
              HandlerOK, Registered, Untouched, SetupOK, LockOK, MapAlive,
              Closing
<1>2. ASSUME NEW c \in Conns, Handler(c)
      PROVE  IInv'
  BY <1>2, UpgradeIInv, LookupIInv, CreateIInv, DialIInv, StartOkIInv,
     StartFailsIInv, SetupIInv, RouteIInv, EndReadIInv, AbandonIInv
     DEF Handler
<1>3. ASSUME NEW r \in Reloaders, Reload(r)
      PROVE  IInv'
  <2>1. r \in Closers
    BY DEF Closers
  <2> QED
    BY <1>3, <2>1, SaveConfigIInv, ReloadLockIInv, StopCbIInv, StopMqttIInv,
       ReloadPanicsIInv DEF Reload
<1>4. CASE MonitorLoop
  <2>1. Monitor \in Closers
    BY DEF Closers
  <2> QED
    BY <1>4, <2>1, MonitorLockIInv, MonitorCheckIInv, MonitorUnlockIInv,
       StopCbIInv, StopMqttIInv, MonitorPanicsIInv DEF MonitorLoop
<1>5. ASSUME NEW s \in Sessions, Expire(s)
      PROVE  IInv'
  BY <1>5, ExpireIInv
<1>6. CASE Restart
  BY <1>6, RestartIInv
<1> QED
  BY <1>1, <1>2, <1>3, <1>4, <1>5, <1>6 DEF Next

\* The inductive invariant holds in every reachable state, whatever the
\* numbers of users, connections, sessions and reload requests.
THEOREM Inductive == Spec => []IInv
  BY InitIInv, NextIInv, PTL DEF Spec

\* Every variable of the bridge keeps its type.
THEOREM TypeCorrect == Spec => []TypeOK
<1>1. IInv => TypeOK
  BY DEF IInv
<1> QED
  BY <1>1, Inductive, PTL

\* Traffic of a session reaches browsers of its user only.
THEOREM OwnTrafficOnly == Spec => []OwnTraffic
<1>1. IInv => OwnTraffic
  BY DEF IInv, MapOwner, HandlerOK, Registered, OwnTraffic, TypeOK
<1> QED
  BY <1>1, Inductive, PTL

\* Browsers are served only through an MQTT client that was set up.
THEOREM ServedOnlyAfterSetup == Spec => []ServedAfterSetup
<1>1. IInv => ServedAfterSetup
  BY DEF IInv, SetupOK, ServedAfterSetup
<1> QED
  BY <1>1, Inductive, PTL

\* No session is closed twice, so no closer waits for ever for a keep-alive
\* goroutine that has ended.
THEOREM SessionsClosedOnce == Spec => []ClosedOnce
<1>1. ASSUME IInv
      PROVE  ClosedOnce
  <2>1. ASSUME NEW p \in Closers, cpc[p] = "close"
        PROVE  keepAlive[Closing(p)] # "ended"
    <3>1. target[p] \in Users /\ sessions[target[p]] # None /\ sesLock = p
      BY <1>1, <2>1 DEF IInv, LockOK
    <3>2. ASSUME NEW q \in Closers, cpc[q] = "stop"
          PROVE  FALSE
      BY <1>1, <2>1, <3>1, <3>2 DEF IInv, LockOK
    <3> QED
      BY <1>1, <3>1, <3>2 DEF IInv, MapAlive, Closing
  <2> QED
    BY <1>1, <2>1 DEF IInv, MapAlive, ClosedOnce
<1> QED
  BY <1>1, Inductive, PTL

-----------------------------------------------------------------------------
\* A step keeps every session in the map at the current configuration, or
\* leaves a reload of its user unfinished.
LEMMA NextConfigCurrent ==
  ASSUME IInv, ConfigCurrent, [Next]_vars
  PROVE  ConfigCurrent'
<1> USE DEF IInv
<1>1. CASE UNCHANGED <<conf, sessions, userConfig, cpc, target>>
  BY <1>1 DEF ConfigCurrent
<1>2. ASSUME NEW c \in Conns, NEW s \in Sessions, Create(c, s)
      PROVE  ConfigCurrent'
  <2>1. user[c] \in Users
    BY <1>2 DEF Create, HandlerOK
  <2>2. \A u \in Users : sessions[u] # None => sessions[u] # s
    BY <1>2, BridgeAssumption DEF Create, MapOwner, TypeOK
  <2> QED
    BY <1>2, <2>1, <2>2 DEF Create, ConfigCurrent, TypeOK, closerVars
<1>3. ASSUME NEW r \in Reloaders, NEW u \in Users, NEW k \in Configs,
             SaveConfig(r, u, k)
      PROVE  ConfigCurrent'
  BY <1>3 DEF SaveConfig, ConfigCurrent, TypeOK, Closers, sesVars
<1>4. ASSUME NEW r \in Reloaders, ReloadLock(r)
      PROVE  ConfigCurrent'
  BY <1>4 DEF ReloadLock, HasSession, ConfigCurrent, TypeOK, Closers, sesVars
<1>5. ASSUME NEW p \in Closers, StopCb(p)
      PROVE  ConfigCurrent'
  BY <1>5, BridgeAssumption DEF StopCb, ConfigCurrent, TypeOK, Closers
<1>6. ASSUME NEW p \in Closers, StopMqtt(p)
      PROVE  ConfigCurrent'
  BY <1>6, BridgeAssumption
     DEF StopMqtt, Remaining, ConfigCurrent, TypeOK, Closers, LockOK
<1>7. ASSUME NEW r \in Reloaders, ReloadPanics(r)
      PROVE  ConfigCurrent'
  BY <1>7 DEF ReloadPanics, ConfigCurrent, TypeOK, Closers, sesVars
<1>8. CASE MonitorPanics
  BY <1>8 DEF MonitorPanics, ConfigCurrent
<1>9. CASE MonitorLock \/ MonitorUnlock \/ \E u \in Users : MonitorCheck(u)
  BY <1>9, BridgeAssumption
     DEF MonitorLock, MonitorUnlock, MonitorCheck, ConfigCurrent, TypeOK,
         Closers, sesVars
<1>10. ASSUME NEW c \in Conns, Handler(c),
              ~ \E s \in Sessions : Create(c, s)
       PROVE  UNCHANGED <<conf, sessions, userConfig, cpc, target>>
  BY <1>10 DEF Handler, Upgrade, Lookup, Dial, StartOk, StartFails, Setup,
               Route, EndRead, Abandon, sesVars, closerVars
<1>11. ASSUME NEW s \in Sessions, Expire(s)
       PROVE  UNCHANGED <<conf, sessions, userConfig, cpc, target>>
  BY <1>11 DEF Expire, closerVars
<1>12. CASE Restart
  BY <1>1, <1>12 DEF Restart, sesVars, closerVars
<1>13. CASE UNCHANGED vars
  BY <1>1, <1>13 DEF vars, sesVars, closerVars
<1>14. Monitor \in Closers /\ Reloaders \subseteq Closers
  BY DEF Closers
<1> QED
  BY <1>1, <1>2, <1>3, <1>4, <1>5, <1>6, <1>7, <1>8, <1>9, <1>10, <1>11,
     <1>12, <1>13, <1>14
     DEF Next, Reload, MonitorLoop

\* After a reload the session in the map runs with the stored configuration.
THEOREM ConfigIsCurrent == Spec => []ConfigCurrent
<1>1. Init => ConfigCurrent
  BY DEF Init, ConfigCurrent
<1> QED
  BY <1>1, NextConfigCurrent, Inductive, PTL DEF Spec

-----------------------------------------------------------------------------
\* A session that was created and has no MQTT client yet, or never gets one.
NilOK ==
    \A s \in Sessions : id[s] # None /\ mqtt[s] = "nil" =>
        \/ userConfig[s] \notin WithUri
        \/ \E c \in Conns : pc[c] = "dial" /\ ses[c] = s

\* Its creator leaves "dial" only with a client, or because there is no address.
LEMMA NextNilOK ==
  ASSUME IInv, NilOK, [Next]_vars
  PROVE  NilOK'
<1> USE DEF IInv
<1>1. CASE UNCHANGED <<id, mqtt, userConfig, pc, ses>>
  BY <1>1 DEF NilOK
<1>2. ASSUME NEW c \in Conns, NEW s \in Sessions, Create(c, s)
      PROVE  NilOK'
  <2>1. /\ UNCHANGED mqtt /\ id' = [id EXCEPT ![s] = user[c]]
        /\ userConfig' = [userConfig EXCEPT ![s] = conf[user[c]]]
        /\ pc' = [pc EXCEPT ![c] = "dial"] /\ ses' = [ses EXCEPT ![c] = s]
        /\ pc[c] = "create"
    BY <1>2 DEF Create
  <2> QED
    BY <2>1 DEF NilOK, TypeOK
<1>3. ASSUME NEW c \in Conns, Dial(c)
      PROVE  NilOK'
  <2>1. ses[c] \in Sessions /\ pc[c] = "dial" /\ UNCHANGED <<id, userConfig, ses>>
    BY <1>3 DEF Dial, HandlerOK
  <2>2. CASE HasBroker(c)
    <3>1. mqtt' = [mqtt EXCEPT ![ses[c]] = "starting"] /\ pc' = [pc EXCEPT ![c] = "start"]
      BY <1>3, <2>2 DEF Dial
    <3> QED
      BY <2>1, <3>1 DEF NilOK, TypeOK
  <2>3. CASE ~HasBroker(c)
    <3>1. UNCHANGED mqtt /\ pc' = [pc EXCEPT ![c] = "dropped"] /\ userConfig[ses[c]] \notin WithUri
      BY <1>3, <2>3 DEF Dial, HasBroker
    <3> QED
      BY <2>1, <3>1 DEF NilOK, TypeOK
  <2> QED
    BY <2>2, <2>3
<1>4. ASSUME NEW c \in Conns,
             \/ \E u \in Users \cup {None} : Upgrade(c, u)
             \/ Lookup(c) \/ StartOk(c) \/ StartFails(c) \/ Setup(c) \/ Route(c)
             \/ EndRead(c) \/ Abandon(c)
      PROVE  NilOK'
  <2>1. /\ UNCHANGED <<id, userConfig>> /\ pc[c] # "dial"
        /\ \A d \in Conns \ {c} : pc'[d] = pc[d] /\ ses'[d] = ses[d]
    BY <1>4 DEF Upgrade, Lookup, StartOk, StartFails, Setup, Route, EndRead, Abandon, TypeOK, sesVars
  <2>2. \A s \in Sessions : mqtt'[s] = "nil" => mqtt[s] = "nil"
    BY <1>4 DEF Upgrade, Lookup, StartOk, StartFails, Setup, Route, EndRead, Abandon, TypeOK, sesVars
  <2> QED
    BY <2>1, <2>2 DEF NilOK
<1>5. ASSUME NEW p \in Closers, StopCb(p) \/ StopMqtt(p)
      PROVE  NilOK'
  <2>1. UNCHANGED <<id, userConfig, pc, ses>> /\ \A s \in Sessions : mqtt'[s] = "nil" => mqtt[s] = "nil"
    BY <1>5 DEF StopCb, StopMqtt, TypeOK, connVars
  <2> QED
    BY <2>1 DEF NilOK
<1>6. CASE MonitorPanics
  BY <1>6 DEF MonitorPanics, NilOK
<1>7. CASE \/ MonitorLock \/ MonitorUnlock \/ Restart \/ UNCHANGED vars
           \/ \E u \in Users : MonitorCheck(u)
           \/ \E s \in Sessions : Expire(s)
           \/ \E r \in Reloaders : ReloadLock(r) \/ ReloadPanics(r)
           \/ \E r \in Reloaders, u \in Users, k \in Configs : SaveConfig(r, u, k)
  BY <1>1, <1>7 DEF MonitorLock, MonitorUnlock, Restart, MonitorCheck, Expire, ReloadLock,
                    ReloadPanics, SaveConfig, vars, sesVars, connVars
<1>8. Monitor \in Closers /\ Reloaders \subseteq Closers
  BY DEF Closers
<1> QED
  BY <1>2, <1>3, <1>4, <1>5, <1>6, <1>7, <1>8 DEF Next, Handler, Reload, MonitorLoop

(* Close meets a session without a client only in the moment before its       *)
(* creator makes one, or when its configuration has no broker address.        *)
THEOREM NilClientIsExplained == Spec => []NilClientExplained
<1>1. Init => NilOK
  BY DEF Init, NilOK
<1>2. IInv /\ NilOK => NilClientExplained
  BY BridgeAssumption DEF IInv, TypeOK, MapOwner, NilOK, NilClientExplained
<1> QED
  BY <1>1, <1>2, NextNilOK, Inductive, PTL DEF Spec

-----------------------------------------------------------------------------
\* A connection without a handler has no user.
ClosedHasNoUser == \A c \in Conns : pc[c] = "closed" => user[c] = None

\* A handler that ends forgets its user.
LEMMA NextClosedHasNoUser ==
  ASSUME IInv, ClosedHasNoUser, [Next]_vars
  PROVE  ClosedHasNoUser'
<1> USE DEF IInv, ClosedHasNoUser
<1>1. CASE UNCHANGED connVars
  BY <1>1 DEF connVars
<1>2. ASSUME NEW c \in Conns, Handler(c)
      PROVE  ClosedHasNoUser'
  BY <1>2 DEF Handler, Upgrade, Lookup, Create, Dial, StartOk, StartFails,
              Setup, Route, EndRead, Abandon, TypeOK
<1>3. ASSUME NEW r \in Reloaders, Reload(r)
      PROVE  UNCHANGED connVars
  BY <1>3 DEF Reload, SaveConfig, ReloadLock, StopCb, StopMqtt, ReloadPanics
<1>4. CASE MonitorLoop /\ ~MonitorPanics
  BY <1>1, <1>4 DEF MonitorLoop, MonitorLock, MonitorCheck, MonitorUnlock,
                    StopCb, StopMqtt
<1>5. CASE MonitorPanics
  BY <1>5 DEF MonitorPanics
<1>6. ASSUME NEW s \in Sessions, Expire(s)
      PROVE  UNCHANGED connVars
  BY <1>6 DEF Expire
<1>7. CASE Restart
  BY <1>1, <1>7 DEF Restart
<1>8. CASE UNCHANGED vars
  BY <1>1, <1>8 DEF vars
<1> QED
  BY <1>1, <1>2, <1>3, <1>4, <1>5, <1>6, <1>7, <1>8 DEF Next

\* What the registry sees of the bridge.
Serving == [c \in Conns |-> IF pc[c] = "read" THEN ses[c] ELSE None]
Seen == <<sessions, id, user, Serving>>

\* A step of a handler is a login, the opening of a session, the joining or
\* the leaving of one, or nothing the registry sees.
LEMMA HandlerRefines ==
  ASSUME IInv, ClosedHasNoUser, NEW c \in Conns, Handler(c)
  PROVE  Registry!Next \/ UNCHANGED Seen
<1> USE DEF IInv
<1>1. ASSUME NEW u \in Users \cup {None}, Upgrade(c, u)
      PROVE  Registry!Next \/ UNCHANGED Seen
  <2>1. UNCHANGED Serving
    BY <1>1 DEF Upgrade, Serving, TypeOK
  <2>2. user[c] = None
    BY <1>1 DEF Upgrade, ClosedHasNoUser
  <2>3. CASE u = None
    <3>1. UNCHANGED <<sessions, id, user>>
      BY <1>1, <2>2, <2>3 DEF Upgrade, sesVars, TypeOK
    <3> QED
      BY <2>1, <3>1 DEF Seen
  <2>4. CASE u \in Users
    <3>1. Registry!Login(c, u)
      BY <1>1, <2>1, <2>2 DEF Upgrade, Registry!Login, Serving, sesVars
    <3> QED
      BY <2>4, <3>1 DEF Registry!Next
  <2> QED
    BY <2>3, <2>4
<1>2. ASSUME Lookup(c) \/ Dial(c) \/ StartOk(c) \/ StartFails(c) \/ Setup(c)
      PROVE  UNCHANGED Seen
  <2>1. UNCHANGED <<sessions, id, user>>
    BY <1>2 DEF Lookup, Dial, StartOk, StartFails, Setup, sesVars
  <2>2. \A d \in Conns : /\ pc'[d] = "read" <=> pc[d] = "read"
                         /\ pc[d] = "read" => ses'[d] = ses[d]
    BY <1>2 DEF Lookup, Dial, StartOk, StartFails, Setup, TypeOK
  <2> QED
    BY <2>1, <2>2 DEF Seen, Serving
<1>3. ASSUME NEW s \in Sessions, Create(c, s)
      PROVE  Registry!Next
  <2>1. user[c] \in Users
    BY <1>3 DEF Create, HandlerOK
  <2>2. UNCHANGED Serving
    BY <1>3 DEF Create, Serving, TypeOK
  <2>3. Registry!Open(user[c], s)
    BY <1>3, <2>2 DEF Create, Registry!Open, Serving
  <2> QED
    BY <2>1, <2>3 DEF Registry!Next
<1>4. ASSUME Route(c)
      PROVE  Registry!Next \/ UNCHANGED Seen
  <2>1. user[c] \in Users /\ ses[c] \in Sessions /\ id[ses[c]] = user[c]
    BY <1>4 DEF Route, HandlerOK
  <2>2. CASE CanRoute(c)
    <3>1. Serving' = [Serving EXCEPT ![c] = ses[c]] /\ Serving[c] = None
      BY <1>4, <2>2 DEF Route, Serving, TypeOK
    <3>2. PICK s \in Sessions : s = ses[c]
      BY <2>1
    <3>3. Registry!Attach(c, s)
      BY <1>4, <2>1, <2>2, <3>1, <3>2, BridgeAssumption
         DEF Route, Registry!Attach, Serving
    <3> QED
      BY <3>3 DEF Registry!Next
  <2>3. CASE ~CanRoute(c)
    BY <1>4, <2>3 DEF Route, Seen, Serving, TypeOK
  <2> QED
    BY <2>2, <2>3
<1>5. ASSUME EndRead(c) \/ Abandon(c)
      PROVE  Registry!Next
  <2>1. Serving' = [Serving EXCEPT ![c] = None]
    BY <1>5 DEF EndRead, Abandon, Serving, TypeOK
  <2>2. Registry!Leave(c)
    BY <1>5, <2>1 DEF EndRead, Abandon, Registry!Leave, Serving, sesVars
  <2> QED
    BY <2>2 DEF Registry!Next
<1> QED
  BY <1>1, <1>2, <1>3, <1>4, <1>5 DEF Handler

\* Closers and the rest of the system retire sessions, forget everything, or
\* do nothing the registry sees.
LEMMA OthersRefine ==
  ASSUME IInv, Next, \A c \in Conns : ~Handler(c)
  PROVE  Registry!Next \/ UNCHANGED Seen
<1> USE DEF IInv
<1>1. ASSUME NEW p \in Closers, StopMqtt(p)
      PROVE  Registry!Next
  <2>1. target[p] \in Users
    BY <1>1 DEF StopMqtt, LockOK
  <2>2. Registry!Retire(target[p])
    BY <1>1 DEF StopMqtt, Remaining, Registry!Retire, connVars
  <2> QED
    BY <2>1, <2>2 DEF Registry!Next
<1>2. CASE MonitorPanics
  <2>1. Registry!Reboot
    BY <1>2 DEF MonitorPanics, Registry!Reboot
  <2> QED
    BY <2>1 DEF Registry!Next
<1>3. ASSUME NEW r \in Reloaders, Reload(r), ~StopMqtt(r)
      PROVE  UNCHANGED Seen
  BY <1>3 DEF Reload, SaveConfig, ReloadLock, StopCb, ReloadPanics, sesVars,
              connVars, Seen, Serving
<1>4. CASE MonitorLoop /\ ~StopMqtt(Monitor) /\ ~MonitorPanics
  BY <1>4 DEF MonitorLoop, MonitorLock, MonitorCheck, MonitorUnlock, StopCb,
              sesVars, connVars, Seen, Serving
<1>5. ASSUME NEW s \in Sessions, Expire(s)
      PROVE  UNCHANGED Seen
  BY <1>5 DEF Expire, connVars, Seen, Serving
<1>6. CASE Restart
  BY <1>6 DEF Restart, sesVars, connVars, Seen, Serving
<1>7. Monitor \in Closers /\ Reloaders \subseteq Closers
  BY DEF Closers
<1> QED
  BY <1>1, <1>2, <1>3, <1>4, <1>5, <1>6, <1>7 DEF Next, MonitorLoop

\* The bridge implements the registry of sessions: whatever the interleaving,
\* no retired session becomes current again, and no connection is served by a
\* session of another user or by two sessions.
THEOREM BridgeImplementsRegistry == Spec => ImplementsRegistry
<1>1. Init => Registry!Init /\ ClosedHasNoUser
  BY DEF Init, Registry!Init, ClosedHasNoUser
<1>2. Spec => []ClosedHasNoUser
  <2>1. Init => ClosedHasNoUser
    BY <1>1
  <2> QED
    BY <2>1, NextClosedHasNoUser, Inductive, PTL DEF Spec
<1>3. ASSUME IInv, ClosedHasNoUser, [Next]_vars
      PROVE  [Registry!Next]_(Registry!vars)
  <2>1. UNCHANGED Seen <=> UNCHANGED Registry!vars
    BY DEF Seen, Serving, Registry!vars
  <2>2. CASE UNCHANGED vars
    <3>1. UNCHANGED Seen
      BY <2>2 DEF vars, sesVars, connVars, Seen, Serving
    <3> QED
      BY <2>1, <3>1
  <2> QED
    BY <1>3, <2>1, <2>2, HandlerRefines, OthersRefine
<1> QED
  BY <1>1, <1>2, <1>3, Inductive, PTL DEF Spec, ImplementsRegistry, Registry!Spec
===============================================================================
