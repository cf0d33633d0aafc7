---------------------------- MODULE SessionRegistry ----------------------------
(***************************************************************************)
(* What the bridge promises about sessions, without locks, MQTT clients or *)
(* goroutines (cloud/ws_north_bridge.go seen from outside): a user has at  *)
(* most one current session; a session is created once, for one user, and  *)
(* once it is no longer current it never is again; a browser connection is *)
(* served by one session at a time, and only by one of the user it is      *)
(* authenticated as.                                                       *)
(***************************************************************************)
CONSTANTS Users, Conns, Sessions, None

VARIABLES
    current,   \* user -> the session new connections join
    owner,     \* session -> the user it was created for
    as,        \* connection -> the user it is authenticated as
    serving    \* connection -> the session that serves it

vars == <<current, owner, as, serving>>

Init ==
    /\ current = [u \in Users |-> None]
    /\ owner = [s \in Sessions |-> None]
    /\ as = [c \in Conns |-> None]
    /\ serving = [c \in Conns |-> None]

\* A new session takes the place of the current one, if there is any.
Open(u, s) ==
    /\ owner[s] = None
    /\ owner' = [owner EXCEPT ![s] = u]
    /\ current' = [current EXCEPT ![u] = s]
    /\ UNCHANGED <<as, serving>>

Retire(u) ==
    /\ current' = [current EXCEPT ![u] = None]
    /\ UNCHANGED <<owner, as, serving>>

Login(c, u) ==
    /\ as[c] = None
    /\ as' = [as EXCEPT ![c] = u]
    /\ UNCHANGED <<current, owner, serving>>

\* A connection may still join a session that was retired meanwhile.
Attach(c, s) ==
    /\ serving[c] = None
    /\ owner[s] # None
    /\ owner[s] = as[c]
    /\ serving' = [serving EXCEPT ![c] = s]
    /\ UNCHANGED <<current, owner, as>>

Leave(c) ==
    /\ as' = [as EXCEPT ![c] = None]
    /\ serving' = [serving EXCEPT ![c] = None]
    /\ UNCHANGED <<current, owner>>

\* The process dies: everything is forgotten.
Reboot ==
    /\ current' = [u \in Users |-> None]
    /\ owner' = [s \in Sessions |-> None]
    /\ as' = [c \in Conns |-> None]
    /\ serving' = [c \in Conns |-> None]

Next ==
    \/ \E u \in Users, s \in Sessions : Open(u, s)
    \/ \E u \in Users : Retire(u)
    \/ \E c \in Conns, u \in Users : Login(c, u)
    \/ \E c \in Conns, s \in Sessions : Attach(c, s)
    \/ \E c \in Conns : Leave(c)
    \/ Reboot

Spec == Init /\ [][Next]_vars
===============================================================================
