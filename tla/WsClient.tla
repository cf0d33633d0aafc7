------------------------------- MODULE WsClient -------------------------------
(***************************************************************************)
(* The browser's connection to the bridge: fimp/ws.service.ts, used by     *)
(* fimp/fimp.service.ts.  Time passes in whole seconds; a timer that is due*)
(* fires before the next second.  JavaScript runs one handler at a time, so*)
(* an action is a handler.  The network and the server are external: they  *)
(* accept or refuse a connection within Answer seconds and may drop it.    *)
(***************************************************************************)
EXTENDS Naturals, Sequences, FiniteSets

CONSTANTS
    Sockets,    \* WebSocket objects; one is used again when it is closed
    Msgs,       \* messages that the pages publish
    Answer      \* seconds within which a handshake ends

ASSUME WsClientAssumption ==
    /\ Sockets # {}
    /\ Answer \in Nat

\* The delays of ws.service.ts, in seconds.
ReconnectDelay == 1
FirstRetry == 1

\* Fault: the second retry follows the first as quickly.
SecondRetryTooSoon == 1
SecondRetry == 3

VARIABLES
    connState,  \* WsFimpService.connState
    websocket,  \* WsFimpService.websocket
    sock,       \* what each socket is; "lost": dropped, its event still due
    age,        \* seconds a handshake has taken
    timers,     \* pending reconnect timers: seconds left
    fate,       \* message -> where publish() has got with it
    left,       \* message -> seconds until its next retry
    outage,     \* message -> the connection broke or was refused meanwhile
    wire        \* the messages put on an open connection, in order

connVars == <<connState, websocket, sock, age, timers>>
msgVars == <<fate, left, outage, wire>>
vars == <<connVars, msgVars>>

Retrying == {"retry1", "retry2"}

-----------------------------------------------------------------------------
\* FimpService's constructor has called connect().
Init ==
    /\ connState = "connecting"
    /\ \E s \in Sockets :
          /\ websocket = s
          /\ sock = [t \in Sockets |-> IF t = s THEN "connecting" ELSE "closed"]
    /\ age = [s \in Sockets |-> 0]
    /\ timers = <<>>
    /\ fate = [m \in Msgs |-> "new"]
    /\ left = [m \in Msgs |-> 0]
    /\ outage = [m \in Msgs |-> FALSE]
    /\ wire = <<>>

\* Every message that waits for a retry sees the outage.
NoteOutage == outage' = [m \in Msgs |-> outage[m] \/ fate[m] \in Retrying]

RemoveTimer(i) == SubSeq(timers, 1, i - 1) \o SubSeq(timers, i + 1, Len(timers))

\* The timer set by onclose calls connect().
Reconnect(i, s) ==
    /\ timers[i] = 0
    /\ sock[s] = "closed"
    /\ timers' = RemoveTimer(i)
    /\ connState' = "connecting"
    /\ websocket' = s
    /\ sock' = [sock EXCEPT ![s] = "connecting"]
    /\ UNCHANGED <<age, msgVars>>

OnOpen(s) ==
    /\ sock[s] = "connecting"
    /\ sock' = [sock EXCEPT ![s] = "open"]
    /\ age' = [age EXCEPT ![s] = 0]
    /\ connState' = "connected"
    /\ UNCHANGED <<websocket, timers, msgVars>>

\* The connection goes away; the page does not know yet.
Drop(s) ==
    /\ sock[s] = "open"
    /\ sock' = [sock EXCEPT ![s] = "lost"]
    /\ NoteOutage
    /\ UNCHANGED <<connState, websocket, age, timers, fate, left, wire>>

\* Fault: onclose does not set the timer.
ClosedForGood ==
    /\ connState' = "reconnecting"
    /\ UNCHANGED timers

\* onclose: connState and the timer.
Closed ==
    /\ connState' = "reconnecting"
    /\ timers' = Append(timers, ReconnectDelay)

OnClose(s) ==
    /\ sock[s] = "lost"
    /\ sock' = [sock EXCEPT ![s] = "closed"]
    /\ Closed
    /\ UNCHANGED <<websocket, age, msgVars>>

\* Fault: onerror reconnects as well.
ErrorReconnects(s) ==
    /\ sock[s] \in {"connecting", "lost"}
    /\ sock' = [sock EXCEPT ![s] = "closed"]
    /\ age' = [age EXCEPT ![s] = 0]
    /\ connState' = "reconnecting"
    /\ timers' = timers \o <<ReconnectDelay, ReconnectDelay>>
    /\ NoteOutage
    /\ UNCHANGED <<websocket, fate, left, wire>>

\* onerror, when the handshake fails or the connection breaks, and the onclose
\* that the browser delivers in the same task.  onerror closes this.websocket.
OnError(s) ==
    /\ sock[s] \in {"connecting", "lost"}
    /\ sock' = [t \in Sockets |->
                   IF t = s THEN "closed"
                   ELSE IF t = websocket /\ sock[t] # "closed" THEN "lost"
                   ELSE sock[t]]
    /\ age' = [age EXCEPT ![s] = 0]
    /\ Closed
    /\ NoteOutage
    /\ UNCHANGED <<websocket, fate, left, wire>>

-----------------------------------------------------------------------------
\* websocket.send: only an open socket transmits.  One that is still connecting
\* throws InvalidStateError, one that is closing or closed discards the data.
Send(m) ==
    IF sock[websocket] = "open"
    THEN /\ fate' = [fate EXCEPT ![m] = "sent"]
         /\ wire' = Append(wire, m)
    ELSE /\ fate' = [fate EXCEPT ![m] = "lost"]
         /\ UNCHANGED wire

RetryLater(m, stage, delay) ==
    /\ fate' = [fate EXCEPT ![m] = stage]
    /\ left' = [left EXCEPT ![m] = delay]
    /\ UNCHANGED wire

IsConnected == connState = "connected"

Publish(m) ==
    /\ fate[m] = "new"
    /\ IF IsConnected
       THEN /\ Send(m)
            /\ outage' = [outage EXCEPT ![m] = sock[websocket] # "open"]
            /\ UNCHANGED left
       ELSE RetryLater(m, "retry1", FirstRetry) /\ UNCHANGED outage
    /\ UNCHANGED connVars

\* Fault: the else of the first retry is missing.
RetryOnceAndAgain(m) ==
    /\ fate[m] = "retry1"
    /\ left[m] = 0
    /\ wire' = IF IsConnected THEN Append(wire, m) ELSE wire
    /\ fate' = [fate EXCEPT ![m] = "retry2"]
    /\ left' = [left EXCEPT ![m] = SecondRetry]
    /\ UNCHANGED <<connVars, outage>>

\* Fault: the first retry is repeated until the connection is up.
RetryForever(m) ==
    /\ fate[m] = "retry1"
    /\ left[m] = 0
    /\ IF IsConnected THEN Send(m) /\ UNCHANGED left
                      ELSE RetryLater(m, "retry1", FirstRetry)
    /\ UNCHANGED <<connVars, outage>>

RetryOnce(m) ==
    /\ fate[m] = "retry1"
    /\ left[m] = 0
    /\ IF IsConnected THEN Send(m) /\ UNCHANGED left
                      ELSE RetryLater(m, "retry2", SecondRetry)
    /\ UNCHANGED <<connVars, outage>>

\* The second retry does not ask for the state.
RetryTwice(m) ==
    /\ fate[m] = "retry2"
    /\ left[m] = 0
    /\ Send(m)
    /\ UNCHANGED <<connVars, left, outage>>

-----------------------------------------------------------------------------
Due == \/ \E i \in DOMAIN timers : timers[i] = 0
       \/ \E m \in Msgs : fate[m] \in Retrying /\ left[m] = 0
       \/ \E s \in Sockets : sock[s] = "connecting" /\ age[s] = Answer

\* A second passes.
Tick ==
    /\ ~Due
    /\ timers' = [i \in DOMAIN timers |-> timers[i] - 1]
    /\ left' = [m \in Msgs |-> IF fate[m] \in Retrying THEN left[m] - 1
                                                       ELSE left[m]]
    /\ age' = [s \in Sockets |-> IF sock[s] = "connecting" THEN age[s] + 1
                                                           ELSE age[s]]
    /\ UNCHANGED <<connState, websocket, sock, fate, outage, wire>>

Network == \E s \in Sockets : OnOpen(s) \/ Drop(s) \/ OnClose(s) \/ OnError(s)

Timers ==
    \/ \E i \in DOMAIN timers, s \in Sockets : Reconnect(i, s)
    \/ \E m \in Msgs : RetryOnce(m) \/ RetryTwice(m)

Next == Network \/ Timers \/ Tick \/ \E m \in Msgs : Publish(m)

Spec == Init /\ [][Next]_vars

\* Timers fire and time passes, the browser delivers the close event of a lost
\* connection, and the server accepts a connection now and then.
Fairness ==
    /\ WF_vars(Tick)
    /\ \A s \in Sockets : WF_vars(OnClose(s)) /\ SF_vars(OnOpen(s))
    /\ WF_vars(\E i \in DOMAIN timers, s \in Sockets : Reconnect(i, s))
    /\ \A m \in Msgs : WF_vars(RetryOnce(m) \/ RetryTwice(m))

FairSpec == Spec /\ Fairness

-----------------------------------------------------------------------------
(* Properties.                                                             *)

Live == {s \in Sockets : sock[s] # "closed"}

\* There is always exactly one socket that is not closed or one timer that will
\* make one, never none and never two, and what the handlers call
\* this.websocket is the socket they were installed on.
OneChain ==
    /\ \/ timers = <<>> /\ \E s \in Sockets : Live = {s}
       \/ Len(timers) = 1 /\ Live = {}
    /\ Live \subseteq {websocket}

\* isConnected() tells the truth except while a close event is due.
ConnectedIsOpen == IsConnected <=> sock[websocket] \in {"open", "lost"}

\* However the retries of publish() and the reconnection interleave, a message
\* is transmitted at most once, and exactly when publish() has done with it.
SentOnce ==
    \A m \in Msgs : Cardinality({i \in DOMAIN wire : wire[i] = m})
                    = IF fate[m] = "sent" THEN 1 ELSE 0

\* The retries outlast a reconnection: if a handshake takes at most two seconds,
\* a message is lost only when the connection was dropped or refused after the
\* message was published, or was already dropped without the page knowing.
LostOnlyInOutage == \A m \in Msgs : fate[m] = "lost" => outage[m]

\* The page comes back online whatever the network does, if the server accepts
\* connections again and again.
Reconnects == []<>IsConnected

\* publish() comes to an end for every message: sent, or lost.
PublishEnds == \A m \in Msgs : fate[m] \in Retrying ~> fate[m] \in {"sent", "lost"}

\* What the network and the handlers make of the connection, and of a message.
Link == CASE sock[websocket] = "open" -> "up"
          [] sock[websocket] = "lost" -> "broken"
          [] OTHER                    -> "down"
Status == [m \in Msgs |-> IF fate[m] \in Retrying THEN "waiting" ELSE fate[m]]

Service == INSTANCE Delivery WITH link <- Link, status <- Status

\* The sockets, timers and retries are an implementation of what Delivery
\* promises: while the page is offline no message that can wait is given up, and
\* while it is online none has to wait, whichever handlers come between.
ImplementsDelivery == Service!DeliverySpec
===============================================================================
