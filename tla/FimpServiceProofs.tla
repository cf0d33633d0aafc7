-------------------------- MODULE FimpServiceProofs ---------------------------
(***************************************************************************)
(* Proofs about FimpService, for any sockets, any messages, any time that  *)
(* a handshake may take and any size of the log.  Each proof names only the*)
(* variables it needs: ConnIInv is the inductive invariant of the          *)
(* connection, SentIInv that of the messages that pages publish, LogIInv   *)
(* that of the log of the messages that come, FilterIInv that of the       *)
(* filtered log.  The connection does not read                             *)
(* the log, so that every step of ServiceSpec is a step of WsClient or     *)
(* leaves its variables alone.                                             *)
(***************************************************************************)
EXTENDS FimpService, SequenceTheorems, FiniteSetTheorems, TLAPS

SockStates == {"connecting", "open", "lost", "closed"}

\* The types of the connection.
ConnTypeOK ==
    /\ connState \in {"connecting", "connected", "reconnecting"}
    /\ websocket \in Sockets
    /\ sock \in [Sockets -> SockStates]
    /\ timers \in Seq(Nat)

ConnIInv == ConnTypeOK /\ OneChain /\ ConnectedIsOpen

\* A message that is sent stands at exactly one place of the wire, and no
\* other message stands there at all.
SentOnceAt ==
    \A m \in Msgs :
        /\ fate[m] # "sent" => \A i \in DOMAIN wire : wire[i] # m
        /\ fate[m] = "sent" =>
               \E i \in DOMAIN wire : \A j \in DOMAIN wire : wire[j] = m <=> j = i

SentIInv ==
    /\ wire \in Seq(Msgs)
    /\ fate \in [Msgs -> {"new", "retry1", "retry2", "sent", "lost"}]
    /\ SentOnceAt

\* What the log holds; it has been subscribed once at most.
Message == [kind : MsgKinds, nr : Nat]

LogIInv ==
    /\ messages \in Seq(Message)
    /\ arrived \in Seq(Message)
    /\ observable \in {0, 1}
    /\ NewestFirst

-----------------------------------------------------------------------------
(* The connection.                                                         *)

\* The service takes the steps of its connection.
LEMMA ServiceTakesSteps == ASSUME [ServiceNext]_<<vars, logPage>> PROVE [Next]_vars
  BY DEF ServiceNext, OnMessage

\* connect() in the constructor makes the one socket.
LEMMA ConnInit == ASSUME Init PROVE ConnIInv
<1>1. PICK s \in Sockets :
          /\ websocket = s
          /\ sock = [t \in Sockets |-> IF t = s THEN "connecting" ELSE "closed"]
  BY DEF Init
<1>2. ConnTypeOK
  BY <1>1 DEF Init, ConnTypeOK, SockStates
<1>3. Live = {s}
  BY <1>1 DEF Live
<1>4. OneChain
  BY <1>1, <1>3 DEF Init, OneChain
<1>5. ConnectedIsOpen
  BY <1>1 DEF Init, ConnectedIsOpen, IsConnected
<1> QED
  BY <1>2, <1>4, <1>5 DEF ConnIInv

\* The one pending timer is used up by the connect() it makes.
LEMMA ReconnectKeepsConn ==
    ASSUME ConnIInv, NEW i \in DOMAIN timers, NEW s \in Sockets, Reconnect(i, s)
    PROVE  ConnIInv'
<1>1. Len(timers) = 1 /\ Live = {} /\ i = 1
  <2>1. timers # <<>>
    BY DEF ConnIInv, ConnTypeOK
  <2> QED
    BY <2>1 DEF ConnIInv, ConnTypeOK, OneChain
<1>2. timers' = <<>>
  BY <1>1 DEF Reconnect, RemoveTimer, ConnIInv, ConnTypeOK
<1>3. ConnTypeOK'
  BY <1>2 DEF Reconnect, ConnIInv, ConnTypeOK, SockStates
<1>4. Live' = {s}
  BY <1>1 DEF Reconnect, ConnIInv, ConnTypeOK, Live
<1>5. OneChain'
  BY <1>2, <1>4 DEF Reconnect, OneChain
<1>6. ConnectedIsOpen'
  BY DEF Reconnect, ConnIInv, ConnTypeOK, ConnectedIsOpen, IsConnected
<1> QED
  BY <1>3, <1>5, <1>6 DEF ConnIInv

\* A socket that opens or is dropped remains the one that is not closed.
LEMMA OpenKeepsConn ==
    ASSUME ConnIInv, NEW s \in Sockets, OnOpen(s) \/ Drop(s)
    PROVE  ConnIInv'
<1>1. s = websocket /\ s \in Live
  BY DEF ConnIInv, ConnTypeOK, OneChain, Live, OnOpen, Drop
<1>2. ConnTypeOK'
  BY DEF OnOpen, Drop, ConnIInv, ConnTypeOK, SockStates
<1>3. Live' = Live
  BY DEF OnOpen, Drop, ConnIInv, ConnTypeOK, Live
<1>4. OneChain'
  BY <1>3 DEF OnOpen, Drop, ConnIInv, OneChain
<1>5. ConnectedIsOpen'
  BY <1>1 DEF OnOpen, Drop, ConnIInv, ConnTypeOK, ConnectedIsOpen, IsConnected
<1> QED
  BY <1>2, <1>4, <1>5 DEF ConnIInv

\* A socket that closes leaves none open and one timer, set when there was none.
LEMMA CloseKeepsConn ==
    ASSUME ConnIInv, NEW s \in Sockets, OnClose(s) \/ OnError(s)
    PROVE  ConnIInv'
<1>1. s = websocket /\ s \in Live /\ timers = <<>>
  BY DEF ConnIInv, ConnTypeOK, OneChain, Live, OnClose, OnError
<1>2. timers' = <<ReconnectDelay>>
  BY <1>1 DEF OnClose, OnError, Closed
<1>3. sock' = [sock EXCEPT ![s] = "closed"]
  BY <1>1 DEF OnClose, OnError, ConnIInv, ConnTypeOK
<1>4. ConnTypeOK'
  BY <1>2, <1>3 DEF OnClose, OnError, Closed, ReconnectDelay, ConnIInv, ConnTypeOK, SockStates
<1>5. Live' = {}
  BY <1>1, <1>3 DEF ConnIInv, ConnTypeOK, OneChain, Live
<1>6. OneChain'
  BY <1>2, <1>5 DEF OneChain
<1>7. ConnectedIsOpen'
  BY <1>1, <1>3 DEF OnClose, OnError, Closed, ConnIInv, ConnTypeOK, ConnectedIsOpen, IsConnected
<1> QED
  BY <1>4, <1>6, <1>7 DEF ConnIInv

\* A second that passes leaves as many timers as there were.
LEMMA TickKeepsConn == ASSUME ConnIInv, Tick PROVE ConnIInv'
<1>1. timers' \in Seq(Nat) /\ Len(timers') = Len(timers)
  <2>1. \A i \in 1 .. Len(timers) : timers[i] \in Nat \ {0}
    BY DEF Tick, Due, ConnIInv, ConnTypeOK
  <2>2. timers' = [i \in 1 .. Len(timers) |-> timers[i] - 1]
    BY DEF Tick, ConnIInv, ConnTypeOK
  <2>3. \A i \in 1 .. Len(timers) : timers[i] - 1 \in Nat
    BY <2>1
  <2> QED
    BY <2>2, <2>3, IsASeq DEF ConnIInv, ConnTypeOK
<1>2. timers = <<>> => timers' = <<>>
  BY <1>1
<1> QED
  BY <1>1, <1>2 DEF Tick, ConnIInv, ConnTypeOK, OneChain, Live, ConnectedIsOpen, IsConnected

LEMMA NextKeepsConn == ASSUME ConnIInv, [Next]_vars PROVE ConnIInv'
<1>1. CASE Network
  BY <1>1, OpenKeepsConn, CloseKeepsConn DEF Network
<1>2. CASE \E i \in DOMAIN timers, s \in Sockets : Reconnect(i, s)
  BY <1>2, ReconnectKeepsConn
<1>3. CASE Tick
  BY <1>3, TickKeepsConn
<1>4. ASSUME UNCHANGED connVars PROVE ConnIInv'
  BY <1>4 DEF connVars, ConnIInv, ConnTypeOK, OneChain, Live, ConnectedIsOpen, IsConnected
<1>5. CASE \E m \in Msgs : RetryOnce(m) \/ RetryTwice(m) \/ Publish(m)
  BY <1>4, <1>5 DEF RetryOnce, RetryTwice, Publish
<1>6. CASE UNCHANGED vars
  BY <1>4, <1>6 DEF vars
<1> QED
  BY <1>1, <1>2, <1>3, <1>5, <1>6 DEF Next, Timers

\* There is always one socket that is not closed or one timer that will make
\* one, and the page's websocket is that socket (connect, onclose and onerror
\* of ws.service.ts), however often connections open, fail and break.
THEOREM OneReconnectionChain == ServiceSpec => []OneChain
<1>1. ConnIInv => OneChain
  BY DEF ConnIInv
<1> QED
  BY <1>1, ConnInit, NextKeepsConn, ServiceTakesSteps, PTL DEF ServiceSpec, ServiceInit

\* isConnected() is true exactly when this.websocket is open, or broken with its
\* close event still due, so that publish() never retries on an open connection.
THEOREM ConnectedTellsTheTruth == ServiceSpec => []ConnectedIsOpen
<1>1. ConnIInv => ConnectedIsOpen
  BY DEF ConnIInv
<1> QED
  BY <1>1, ConnInit, NextKeepsConn, ServiceTakesSteps, PTL DEF ServiceSpec, ServiceInit

-----------------------------------------------------------------------------
(* The messages.                                                           *)

LEMMA SentInit == ASSUME Init PROVE SentIInv
  BY DEF Init, SentIInv, SentOnceAt

\* A message put on the wire stands behind all others.
LEMMA AppendKeepsSent ==
    ASSUME SentIInv, NEW m \in Msgs, fate[m] # "sent",
           fate' = [fate EXCEPT ![m] = "sent"], wire' = Append(wire, m)
    PROVE  SentIInv'
<1>1. wire' \in Seq(Msgs)
  BY DEF SentIInv
<1>2. DOMAIN wire' = 1 .. Len(wire) + 1 /\ DOMAIN wire = 1 .. Len(wire)
  BY DEF SentIInv
<1>3. \A i \in DOMAIN wire' : wire'[i] = IF i = Len(wire) + 1 THEN m ELSE wire[i]
  BY <1>2 DEF SentIInv
<1>4. \A j \in DOMAIN wire' : wire'[j] = m <=> j = Len(wire) + 1
  BY <1>2, <1>3 DEF SentIInv, SentOnceAt
<1>5. Len(wire) + 1 \in DOMAIN wire'
  BY <1>2 DEF SentIInv
<1>6. ASSUME NEW n \in Msgs, n # m
      PROVE  /\ fate'[n] # "sent" => \A i \in DOMAIN wire' : wire'[i] # n
             /\ fate'[n] = "sent" =>
                    \E i \in DOMAIN wire' : \A j \in DOMAIN wire' : wire'[j] = n <=> j = i
  <2>1. fate'[n] = fate[n]
    BY <1>6 DEF SentIInv
  <2>2. CASE fate[n] # "sent"
    BY <1>2, <1>3, <1>6, <2>1, <2>2 DEF SentIInv, SentOnceAt
  <2>3. CASE fate[n] = "sent"
    <3>1. PICK i \in DOMAIN wire : \A j \in DOMAIN wire : wire[j] = n <=> j = i
      BY <2>3 DEF SentIInv, SentOnceAt
    <3>2. i \in DOMAIN wire' /\ \A j \in DOMAIN wire' : wire'[j] = n <=> j = i
      BY <1>2, <1>3, <1>6, <3>1 DEF SentIInv
    <3> QED
      BY <2>1, <2>3, <3>2
  <2> QED
    BY <2>2, <2>3
<1>7. fate'[m] = "sent"
  BY DEF SentIInv
<1>8. SentOnceAt'
  <2> SUFFICES ASSUME NEW n \in Msgs
               PROVE  /\ fate'[n] # "sent" => \A i \in DOMAIN wire' : wire'[i] # n
                      /\ fate'[n] = "sent" =>
                             \E i \in DOMAIN wire' :
                                 \A j \in DOMAIN wire' : wire'[j] = n <=> j = i
    BY DEF SentOnceAt
  <2>1. CASE n = m
    BY <1>4, <1>5, <1>7, <2>1
  <2>2. CASE n # m
    BY <1>6, <2>2
  <2> QED
    BY <2>1, <2>2
<1> QED
  BY <1>1, <1>8 DEF SentIInv

\* send() transmits a message that has not been sent, or loses it.
LEMMA SendKeepsSent ==
    ASSUME SentIInv, NEW m \in Msgs, fate[m] # "sent", Send(m) PROVE SentIInv'
<1>1. CASE sock[websocket] = "open"
  BY <1>1, AppendKeepsSent DEF Send
<1>2. CASE sock[websocket] # "open"
  BY <1>2 DEF Send, SentIInv, SentOnceAt
<1> QED
  BY <1>1, <1>2

LEMMA NextKeepsSent == ASSUME SentIInv, [Next]_vars PROVE SentIInv'
<1>1. ASSUME NEW m \in Msgs, Publish(m) \/ RetryOnce(m) \/ RetryTwice(m)
      PROVE  SentIInv'
  <2>1. fate[m] # "sent"
    BY <1>1 DEF Publish, RetryOnce, RetryTwice
  <2>2. CASE Send(m)
    BY <2>1, <2>2, SendKeepsSent
  <2>3. ASSUME NEW stage \in Retrying, NEW delay, RetryLater(m, stage, delay)
        PROVE  SentIInv'
    BY <2>1, <2>3 DEF RetryLater, Retrying, SentIInv, SentOnceAt
  <2> QED
    BY <1>1, <2>2, <2>3 DEF Publish, RetryOnce, RetryTwice, Retrying
<1>2. ASSUME UNCHANGED <<fate, wire>> PROVE SentIInv'
  BY <1>2 DEF SentIInv, SentOnceAt
<1>3. CASE Network
  BY <1>2, <1>3 DEF Network, OnOpen, Drop, OnClose, OnError, msgVars
<1>4. CASE \E i \in DOMAIN timers, s \in Sockets : Reconnect(i, s)
  BY <1>2, <1>4 DEF Reconnect, msgVars
<1>5. CASE Tick
  BY <1>2, <1>5 DEF Tick
<1>6. CASE UNCHANGED vars
  BY <1>2, <1>6 DEF vars, msgVars
<1> QED
  BY <1>1, <1>3, <1>4, <1>5, <1>6 DEF Next, Timers

\* A message is transmitted at most once, and exactly when publish() has done
\* with it, whichever of publish() and its two retries does so and whatever the
\* connection does between them.
THEOREM TransmittedOnce == ServiceSpec => []SentOnce
<1>1. ASSUME SentIInv PROVE SentOnce
  <2> SUFFICES ASSUME NEW m \in Msgs
               PROVE  Cardinality({i \in DOMAIN wire : wire[i] = m})
                      = IF fate[m] = "sent" THEN 1 ELSE 0
    BY DEF SentOnce
  <2>1. CASE fate[m] = "sent"
    <3>1. PICK i \in DOMAIN wire : \A j \in DOMAIN wire : wire[j] = m <=> j = i
      BY <1>1, <2>1 DEF SentIInv, SentOnceAt
    <3>2. {j \in DOMAIN wire : wire[j] = m} = {i}
      BY <3>1
    <3> QED
      BY <2>1, <3>2, FS_Singleton
  <2>2. CASE fate[m] # "sent"
    <3>1. {i \in DOMAIN wire : wire[i] = m} = {}
      BY <1>1, <2>2 DEF SentIInv, SentOnceAt
    <3> QED
      BY <2>2, <3>1, FS_EmptySet
  <2> QED
    BY <2>1, <2>2
<1> QED
  BY <1>1, SentInit, NextKeepsSent, ServiceTakesSteps, PTL DEF ServiceSpec, ServiceInit

-----------------------------------------------------------------------------
(* The retries against the clock.                                          *)

\* A handshake is counted while it lasts, and a reconnect timer is set to one
\* second and runs out.
ClockOK ==
    /\ age \in [Sockets -> 0 .. Answer]
    /\ \A s \in Sockets : sock[s] # "connecting" => age[s] = 0
    /\ \A i \in DOMAIN timers : timers[i] <= ReconnectDelay

\* The seconds after which the connection is open or refused at the latest, and
\* those after which the last retry of a message comes at the soonest.
Remaining == IF timers # <<>> THEN timers[1] + Answer ELSE Answer - age[websocket]
ToGo(m) == IF fate[m] = "retry1" THEN left[m] + SecondRetry ELSE left[m]

\* The connection will be there before the last retry.
InTime(m) == \/ sock[websocket] = "open"
             \/ sock[websocket] # "lost" /\ Remaining < ToGo(m)

RetriesOK ==
    /\ fate \in [Msgs -> {"new", "retry1", "retry2", "sent", "lost"}]
    /\ left \in [Msgs -> Nat]
    /\ outage \in [Msgs -> BOOLEAN]
    /\ \A m \in Msgs : fate[m] \in Retrying => outage[m] \/ InTime(m)

TimeIInv == ConnIInv /\ ClockOK /\ RetriesOK /\ LostOnlyInOutage

\* What the chain of reconnections says about the socket in use.
LEMMA OneSocket ==
    ASSUME ConnIInv
    PROVE  /\ timers # <<>> => /\ \A s \in Sockets : sock[s] = "closed"
                               /\ DOMAIN timers = {1} /\ timers[1] \in Nat
                               /\ connState # "connected"
           /\ timers = <<>> => \A s \in Sockets : sock[s] # "closed" <=> s = websocket
<1>1. timers = <<>> <=> Len(timers) = 0
  BY DEF ConnIInv, ConnTypeOK
<1>2. CASE timers # <<>>
  <2>1. Len(timers) = 1 /\ Live = {}
    BY <1>2 DEF ConnIInv, OneChain
  <2> QED
    BY <1>2, <2>1 DEF ConnIInv, ConnTypeOK, Live, ConnectedIsOpen, IsConnected
<1>3. CASE timers = <<>>
  BY <1>1, <1>3 DEF ConnIInv, ConnTypeOK, OneChain, Live
<1> QED
  BY <1>2, <1>3

LEMMA TimeInit == ASSUME Init PROVE TimeIInv
<1>1. ClockOK /\ RetriesOK /\ LostOnlyInOutage
  BY WsClientAssumption DEF Init, ClockOK, RetriesOK, Retrying, LostOnlyInOutage
<1> QED
  BY <1>1, ConnInit DEF TimeIInv

\* An outage is noted for every message that waits for a retry.
LEMMA OutageIsNoted ==
    ASSUME TimeIInv, NoteOutage, UNCHANGED <<fate, left>>
    PROVE  RetriesOK' /\ LostOnlyInOutage'
<1>1. \A m \in Msgs : outage'[m] <=> outage[m] \/ fate[m] \in Retrying
  BY DEF NoteOutage
<1>2. outage' \in [Msgs -> BOOLEAN]
  BY DEF NoteOutage
<1> QED
  BY <1>1, <1>2 DEF TimeIInv, RetriesOK, LostOnlyInOutage

LEMMA NetworkKeepsTime == ASSUME TimeIInv, Network PROVE TimeIInv'
<1> USE DEF TimeIInv
<1>1. PICK s \in Sockets : OnOpen(s) \/ Drop(s) \/ OnClose(s) \/ OnError(s)
  BY DEF Network
<1>2. s = websocket /\ timers = <<>>
  BY <1>1, OneSocket DEF OnOpen, Drop, OnClose, OnError, ConnIInv, ConnTypeOK
<1>3. ConnIInv'
  BY <1>1, OpenKeepsConn, CloseKeepsConn
<1>4. CASE OnOpen(s)
  BY <1>2, <1>3, <1>4, WsClientAssumption
     DEF OnOpen, msgVars, ConnIInv, ConnTypeOK, ClockOK, RetriesOK, InTime, LostOnlyInOutage
<1>5. CASE Drop(s)
  BY <1>3, <1>5, OutageIsNoted DEF Drop, ConnIInv, ConnTypeOK, ClockOK
<1>6. CASE OnClose(s) \/ OnError(s)
  <2>1. timers' = <<ReconnectDelay>>
    BY <1>2, <1>6 DEF OnClose, OnError, Closed
  <2>2. sock' = [sock EXCEPT ![s] = "closed"]
    BY <1>2, <1>6, OneSocket DEF OnClose, OnError, ConnIInv, ConnTypeOK
  <2>3. ClockOK'
    <3>1. age' \in [Sockets -> 0 .. Answer] /\ \A t \in Sockets : t # s => age'[t] = age[t]
      BY <1>6, WsClientAssumption DEF OnClose, OnError, ClockOK
    <3>2. age'[s] = 0
      BY <1>6 DEF OnClose, OnError, ClockOK
    <3>3. \A t \in Sockets : sock'[t] # "connecting" => age'[t] = 0
      BY <2>2, <3>1, <3>2 DEF ConnIInv, ConnTypeOK, ClockOK
    <3>4. \A i \in DOMAIN timers' : timers'[i] <= ReconnectDelay
      BY <2>1 DEF ReconnectDelay
    <3> QED
      BY <3>1, <3>3, <3>4 DEF ClockOK
  <2>4. RetriesOK' /\ LostOnlyInOutage'
    <3>1. CASE OnClose(s)
      BY <1>2, <3>1 DEF OnClose, msgVars, RetriesOK, InTime, LostOnlyInOutage
    <3>2. CASE OnError(s)
      BY <3>2, OutageIsNoted DEF OnError
    <3> QED
      BY <1>6, <3>1, <3>2
  <2> QED
    BY <1>3, <2>3, <2>4
<1> QED
  BY <1>1, <1>4, <1>5, <1>6

\* The handshake begins when the timer has run out.
LEMMA ReconnectKeepsTime ==
    ASSUME TimeIInv, NEW i \in DOMAIN timers, NEW s \in Sockets, Reconnect(i, s)
    PROVE  TimeIInv'
<1> USE DEF TimeIInv
<1>1. i = 1 /\ timers # <<>> /\ timers[1] = 0
  BY OneSocket DEF Reconnect, ConnIInv, ConnTypeOK
<1>2. Len(timers) = 1
  BY <1>1 DEF ConnIInv, OneChain
<1>3. timers' = <<>>
  BY <1>1, <1>2 DEF Reconnect, RemoveTimer, ConnIInv, ConnTypeOK
<1>4. ConnIInv'
  BY ReconnectKeepsConn
<1>5. ClockOK'
  BY <1>3 DEF Reconnect, ConnIInv, ConnTypeOK, ClockOK
<1>6. sock[websocket] = "closed" /\ sock'[websocket'] = "connecting" /\ age[s] = 0
  BY <1>1, OneSocket DEF Reconnect, ConnIInv, ConnTypeOK, ClockOK
<1>7. Remaining' = Remaining
  BY <1>1, <1>3, <1>6, WsClientAssumption DEF Reconnect, Remaining
<1>8. RetriesOK' /\ LostOnlyInOutage'
  BY <1>6, <1>7 DEF Reconnect, msgVars, RetriesOK, InTime, ToGo, LostOnlyInOutage
<1> QED
  BY <1>4, <1>5, <1>8

\* Both clocks move on together.
LEMMA TickKeepsTime == ASSUME TimeIInv, Tick PROVE TimeIInv'
<1> USE DEF TimeIInv
<1>1. ConnIInv'
  BY TickKeepsConn
<1>2. \A s \in Sockets : age'[s] = IF sock[s] = "connecting" THEN age[s] + 1 ELSE age[s]
  BY DEF Tick
<1>3. \A s \in Sockets : sock[s] = "connecting" => age[s] # Answer
  BY DEF Tick, Due
<1>4. DOMAIN timers' = DOMAIN timers /\ \A i \in DOMAIN timers : timers'[i] = timers[i] - 1
  BY DEF Tick
<1>5. ClockOK'
  BY <1>2, <1>3, <1>4, WsClientAssumption
     DEF Tick, ConnIInv, ConnTypeOK, ClockOK, ReconnectDelay
<1>6. \A m \in Msgs : left'[m] = IF fate[m] \in Retrying THEN left[m] - 1 ELSE left[m]
  BY DEF Tick
<1>7. \A m \in Msgs : fate[m] \in Retrying => left[m] # 0
  BY DEF Tick, Due
<1>8. left' \in [Msgs -> Nat]
  BY <1>6, <1>7 DEF Tick, RetriesOK
<1>9. ASSUME NEW m \in Msgs, fate[m] \in Retrying, InTime(m) PROVE InTime(m)'
  <2>1. ToGo(m)' = ToGo(m) - 1
    BY <1>6, <1>9 DEF Tick, ToGo, SecondRetry, RetriesOK
  <2>2. CASE sock[websocket] = "open"
    BY <2>2 DEF Tick, InTime
  <2>3. CASE sock[websocket] # "open"
    <3>1. sock[websocket] # "lost" /\ Remaining < ToGo(m)
      BY <1>9, <2>3 DEF InTime
    <3>2. CASE timers # <<>>
      <4>1. timers' # <<>> /\ timers'[1] = timers[1] - 1 /\ timers[1] \in Nat
        BY <1>4, <3>2, OneSocket
      <4> QED
        BY <2>1, <3>1, <3>2, <4>1, WsClientAssumption
           DEF Tick, InTime, Remaining, ToGo, SecondRetry, RetriesOK
    <3>3. CASE timers = <<>>
      <4>1. sock[websocket] = "connecting" /\ timers' = <<>>
        BY <1>4, <2>3, <3>1, <3>3, OneSocket DEF Tick, ConnIInv, ConnTypeOK, SockStates
      <4>2. age'[websocket] = age[websocket] + 1 /\ age[websocket] \in Nat
        BY <1>2, <4>1 DEF ConnIInv, ConnTypeOK, ClockOK
      <4> QED
        BY <2>1, <3>1, <3>3, <4>1, <4>2, WsClientAssumption
           DEF Tick, InTime, Remaining, ToGo, SecondRetry, RetriesOK
    <3> QED
      BY <3>2, <3>3
  <2> QED
    BY <2>2, <2>3
<1>10. RetriesOK' /\ LostOnlyInOutage'
  BY <1>8, <1>9 DEF Tick, RetriesOK, LostOnlyInOutage
<1> QED
  BY <1>1, <1>5, <1>10

\* A message that is published while there is no connection waits for longer
\* than the reconnection takes.
LEMMA PublishKeepsTime ==
    ASSUME Answer <= 2, TimeIInv, NEW m \in Msgs, Publish(m) PROVE TimeIInv'
<1> USE DEF TimeIInv
<1>1. ConnIInv' /\ ClockOK'
  BY DEF Publish, connVars, ConnIInv, ConnTypeOK, OneChain, Live, ConnectedIsOpen,
         IsConnected, ClockOK
<1>2. UNCHANGED <<sock, websocket, timers, age>>
  BY DEF Publish, connVars
<1>3. CASE IsConnected
  <2>1. /\ Send(m)
        /\ outage' = [outage EXCEPT ![m] = sock[websocket] # "open"]
        /\ left' = left
    BY <1>3 DEF Publish
  <2>2. outage' \in [Msgs -> BOOLEAN]
    BY <2>1 DEF RetriesOK
  <2>3. /\ \A n \in Msgs : n # m => outage'[n] = outage[n]
        /\ sock[websocket] # "open" => outage'[m]
    BY <2>1 DEF RetriesOK
  <2>4. /\ fate' \in [Msgs -> {"new", "retry1", "retry2", "sent", "lost"}]
        /\ \A n \in Msgs : n # m => fate'[n] = fate[n]
        /\ fate'[m] = IF sock[websocket] = "open" THEN "sent" ELSE "lost"
    BY <2>1 DEF Send, RetriesOK
  <2>5. LostOnlyInOutage'
    BY <2>3, <2>4 DEF LostOnlyInOutage
  <2>6. RetriesOK'
    BY <1>2, <2>1, <2>2, <2>3, <2>4 DEF RetriesOK, Retrying, InTime, Remaining, ToGo
  <2> QED
    BY <1>1, <2>5, <2>6
<1>4. CASE ~IsConnected
  <2>1. /\ fate' = [fate EXCEPT ![m] = "retry1"]
        /\ left' = [left EXCEPT ![m] = FirstRetry]
        /\ outage' = outage
    BY <1>4 DEF Publish, RetryLater
  <2>2. sock[websocket] # "lost" /\ sock[websocket] # "open"
    BY <1>4 DEF ConnIInv, ConnectedIsOpen
  <2>3. Remaining <= 3
    <3>1. CASE timers # <<>>
      BY <3>1, OneSocket, WsClientAssumption DEF ClockOK, ReconnectDelay, Remaining
    <3>2. CASE timers = <<>>
      BY <3>2, WsClientAssumption DEF ConnIInv, ConnTypeOK, ClockOK, Remaining
    <3> QED
      BY <3>1, <3>2
  <2>4. Remaining \in Int
    BY OneSocket, WsClientAssumption DEF ConnIInv, ConnTypeOK, ClockOK, Remaining
  <2>5. InTime(m)'
    <3>1. ToGo(m)' = 4
      BY <2>1 DEF ToGo, RetriesOK, FirstRetry, SecondRetry
    <3>2. Remaining' = Remaining
      BY <1>2 DEF Remaining
    <3> QED
      BY <1>2, <2>2, <2>3, <2>4, <3>1, <3>2 DEF InTime
  <2>6. \A n \in Msgs : n # m => ToGo(n)' = ToGo(n) /\ fate'[n] = fate[n]
    BY <2>1 DEF ToGo, RetriesOK
  <2>7. RetriesOK' /\ LostOnlyInOutage'
    BY <1>2, <2>1, <2>5, <2>6
       DEF RetriesOK, LostOnlyInOutage, InTime, Remaining, FirstRetry, Retrying
  <2> QED
    BY <1>1, <2>7
<1> QED
  BY <1>1, <1>3, <1>4

\* A retry that does not find the connection up is the first one, or comes too
\* late for it because of an outage.
LEMMA RetryKeepsTime ==
    ASSUME TimeIInv, NEW m \in Msgs, RetryOnce(m) \/ RetryTwice(m) PROVE TimeIInv'
<1> USE DEF TimeIInv
<1>1. ConnIInv' /\ ClockOK'
  BY DEF RetryOnce, RetryTwice, connVars, ConnIInv, ConnTypeOK, OneChain, Live,
         ConnectedIsOpen, IsConnected, ClockOK
<1>2. UNCHANGED <<sock, websocket, timers, age, outage>>
  BY DEF RetryOnce, RetryTwice, connVars
<1>3. fate[m] \in Retrying /\ (outage[m] \/ InTime(m))
  BY DEF RetryOnce, RetryTwice, Retrying, RetriesOK
<1>4. ASSUME Send(m), left' = left, sock[websocket] # "open" => outage[m]
      PROVE  RetriesOK' /\ LostOnlyInOutage'
  BY <1>2, <1>4 DEF Send, RetriesOK, Retrying, InTime, Remaining, ToGo, LostOnlyInOutage
<1>5. CASE RetryOnce(m) /\ IsConnected
  BY <1>1, <1>3, <1>4, <1>5 DEF RetryOnce, InTime, ConnIInv, ConnectedIsOpen
<1>6. CASE RetryOnce(m) /\ ~IsConnected
  <2>1. /\ fate' = [fate EXCEPT ![m] = "retry2"]
        /\ left' = [left EXCEPT ![m] = SecondRetry]
        /\ fate[m] = "retry1" /\ left[m] = 0
    BY <1>6 DEF RetryOnce, RetryLater
  <2>2. ToGo(m)' = ToGo(m)
    BY <2>1 DEF ToGo, RetriesOK, SecondRetry
  <2>3. \A n \in Msgs : n # m => ToGo(n)' = ToGo(n) /\ fate'[n] = fate[n]
    BY <2>1 DEF ToGo, RetriesOK
  <2>4. RetriesOK' /\ LostOnlyInOutage'
    BY <1>2, <1>3, <2>1, <2>2, <2>3
       DEF RetriesOK, LostOnlyInOutage, InTime, Remaining, SecondRetry, Retrying
  <2> QED
    BY <1>1, <2>4
<1>7. CASE RetryTwice(m)
  <2>1. ToGo(m) = 0
    BY <1>7 DEF RetryTwice, ToGo
  <2>2. Remaining \in Nat
    BY OneSocket, WsClientAssumption DEF ConnIInv, ConnTypeOK, ClockOK, Remaining
  <2>3. sock[websocket] # "open" => outage[m]
    BY <1>3, <2>1, <2>2 DEF InTime
  <2> QED
    BY <1>1, <1>4, <1>7, <2>3 DEF RetryTwice
<1> QED
  BY <1>5, <1>6, <1>7

\* The delays of publish() (1 s, then 3 s) outlast the delay of onclose (1 s) and
\* a handshake: if one takes two seconds at most, a message is lost only when
\* the connection was dropped or refused while the message waited, or was
\* already dropped without the page knowing.
THEOREM RetriesOutlastReconnection ==
    ASSUME Answer <= 2 PROVE ServiceSpec => []LostOnlyInOutage
<1>1. TimeIInv /\ [Next]_vars => TimeIInv'
  <2> SUFFICES ASSUME TimeIInv, [Next]_vars PROVE TimeIInv'
    OBVIOUS
  <2>1. CASE UNCHANGED vars
    BY <2>1 DEF vars, connVars, msgVars, TimeIInv, ConnIInv, ConnTypeOK, OneChain, Live,
                ConnectedIsOpen, IsConnected, ClockOK, RetriesOK, InTime, Remaining, ToGo,
                LostOnlyInOutage
  <2> QED
    BY <2>1, NetworkKeepsTime, ReconnectKeepsTime, TickKeepsTime, PublishKeepsTime,
       RetryKeepsTime DEF Next, Timers
<1>2. TimeIInv => LostOnlyInOutage
  BY DEF TimeIInv
<1> QED
  BY <1>1, <1>2, TimeInit, ServiceTakesSteps, PTL DEF ServiceSpec, ServiceInit

-----------------------------------------------------------------------------
(* The log.                                                                *)

LEMMA LogInit == ASSUME ServiceInit PROVE LogIInv
  BY LogAssumption DEF ServiceInit, Log!Init, LogIInv, NewestFirst, Log!NewestFirst

\* A message put in front of the log, and the oldest one dropped when the log
\* is full, leaves the newest in front.
LEMMA SavedIsNewest ==
    ASSUME LogIInv, NEW m \in Message,
           arrived' = Append(arrived, m),
           messages' = Log!Rotate(<<m>> \o messages)
    PROVE  messages' \in Seq(Message) /\ NewestFirst'
<1> DEFINE n == Len(messages)
           a == Len(arrived)
           longer == <<m>> \o messages
<1>1. n \in Nat /\ a \in Nat /\ maxLogSize \in Nat \ {0}
  BY LogAssumption DEF LogIInv
<1>2. n = IF a < maxLogSize THEN a ELSE maxLogSize
  BY DEF LogIInv, NewestFirst, Log!NewestFirst
<1>3. longer \in Seq(Message) /\ Len(longer) = n + 1
  BY DEF LogIInv
<1>4. \A i \in 1 .. n + 1 : longer[i] = IF i = 1 THEN m ELSE messages[i - 1]
  BY DEF LogIInv
<1>5. /\ Len(arrived') = a + 1
      /\ \A i \in 1 .. a + 1 : arrived'[i] = IF i = a + 1 THEN m ELSE arrived[i]
  BY DEF LogIInv
<1>6. \A i \in 1 .. n : messages[i] = arrived[a + 1 - i]
  BY DEF LogIInv, NewestFirst, Log!NewestFirst
<1>7. \A i \in 1 .. n + 1 : longer[i] = arrived'[a + 2 - i]
  <2> SUFFICES ASSUME NEW i \in 1 .. n + 1 PROVE longer[i] = arrived'[a + 2 - i]
    OBVIOUS
  <2>1. CASE i = 1
    BY <1>1, <1>4, <1>5, <2>1
  <2>2. CASE i # 1
    <3>1. i - 1 \in 1 .. n /\ a + 2 - i \in 1 .. a
      BY <1>1, <1>2, <2>2
    <3>2. longer[i] = arrived[a + 1 - (i - 1)]
      BY <1>4, <1>6, <2>2, <3>1
    <3>3. a + 1 - (i - 1) = a + 2 - i /\ a + 2 - i # a + 1
      BY <1>1, <2>2
    <3> QED
      BY <1>5, <3>1, <3>2, <3>3
  <2> QED
    BY <2>1, <2>2
<1>8. /\ messages' \in Seq(Message)
      /\ Len(messages') = IF n + 1 > maxLogSize THEN n ELSE n + 1
      /\ \A i \in 1 .. Len(messages') : messages'[i] = longer[i]
  <2>1. CASE n + 1 > maxLogSize
    <3>1. messages' = SubSeq(longer, 1, n)
      BY <1>1, <1>3, <2>1 DEF Log!Rotate, Log!Front
    <3>2. Len(messages') = n
      BY <1>1, <1>3, <3>1
    <3>3. messages' \in Seq(Message)
      <4>1. \A i \in 1 .. n : longer[i] \in Message
        BY <1>1, <1>3
      <4> QED
        BY <1>1, <3>1, <4>1, SubSeqProperties
    <3>4. \A i \in 1 .. n : messages'[i] = longer[i]
      BY <1>1, <1>3, <3>1
    <3> HIDE DEF longer
    <3> QED
      BY <2>1, <3>2, <3>3, <3>4
  <2>2. CASE ~(n + 1 > maxLogSize)
    <3>1. messages' = longer
      BY <1>3, <2>2 DEF Log!Rotate
    <3> QED
      BY <1>3, <2>2, <3>1
  <2> QED
    BY <2>1, <2>2
<1>9. /\ Len(messages') = IF a + 1 < maxLogSize THEN a + 1 ELSE maxLogSize
      /\ Len(messages') <= n + 1
  BY <1>1, <1>2, <1>8
<1>10. \A i \in DOMAIN messages' : messages'[i] = arrived'[a + 1 + 1 - i]
  <2>1. DOMAIN messages' = 1 .. Len(messages') /\ Len(messages') \in Nat
    BY <1>8
  <2>2. \A i \in 1 .. Len(messages') : i \in 1 .. n + 1 /\ a + 1 + 1 - i = a + 2 - i
    BY <1>1, <1>9, <2>1
  <2> QED
    BY <1>7, <1>8, <2>1, <2>2
<1> QED
  BY <1>5, <1>8, <1>9, <1>10 DEF NewestFirst, Log!NewestFirst

\* saveMessage has been subscribed once, so that a message is saved once.
LEMMA MessageKeepsLog ==
    ASSUME LogIInv, NEW kind \in MsgKinds, Log!SaveMessage(kind) PROVE LogIInv'
<1> DEFINE m == [kind |-> kind, nr |-> Len(arrived) + 1]
<1>1. observable' = observable
  BY DEF Log!SaveMessage
<1>2. CASE isMessageCaptureEnabled /\ observable > 0
  <2>1. observable = 1 /\ m \in Message
    BY <1>2 DEF LogIInv, Message
  <2>2. arrived' = Append(arrived, m) /\ messages' = Log!Rotate(<<m>> \o messages)
    BY <1>2, <2>1 DEF Log!SaveMessage, Log!Saved
  <2>3. arrived' \in Seq(Message)
    BY <2>1, <2>2 DEF LogIInv
  <2> HIDE DEF m
  <2> QED
    BY <1>1, <2>1, <2>2, <2>3, SavedIsNewest DEF LogIInv
<1>3. CASE ~(isMessageCaptureEnabled /\ observable > 0)
  BY <1>1, <1>3 DEF Log!SaveMessage, LogIInv, NewestFirst, Log!NewestFirst
<1> QED
  BY <1>2, <1>3

LEMMA NextKeepsLog ==
    ASSUME LogIInv, [ServiceNext]_<<vars, logPage>> PROVE LogIInv'
<1>1. ASSUME UNCHANGED <<messages, arrived>>, observable' \in {0, 1} PROVE LogIInv'
  BY <1>1 DEF LogIInv, NewestFirst, Log!NewestFirst
<1>2. CASE Log!Page
  BY <1>1, <1>2 DEF Log!Page, Log!Filter, Log!ResetFilter, Log!SetFilter, Log!StartStream,
                    Log!OpenTimeline, Log!CloseTimeline, Log!GetGlobalObservable,
                    Log!SubscribeToAll, Log!logVars, LogIInv
<1>3. CASE \E kind \in MsgKinds : OnMessage(kind)
  BY <1>3, MessageKeepsLog DEF OnMessage
<1>4. CASE UNCHANGED logPage
  BY <1>1, <1>4 DEF logPage, LogIInv
<1> QED
  BY <1>2, <1>3, <1>4 DEF ServiceNext

\* The log of the timeline is the newest messages that came while messages were
\* captured, the newest in front, each once, and never more than maxLogSize
\* (getGlobalObservable, saveMessage and rotateMessages of fimp.service.ts),
\* whatever page is opened, filtered, stopped and closed in between.
THEOREM LogIsNewestFirst == ServiceSpec => []NewestFirst
<1>1. LogIInv => NewestFirst
  BY DEF LogIInv
<1> QED
  BY <1>1, LogInit, NextKeepsLog, PTL DEF ServiceSpec
-----------------------------------------------------------------------------
(* The filtered log.                                                       *)

\* Messages are numbered as they come; the filtered log has none to come.
FilterIInv ==
    /\ LogIInv
    /\ \A i \in DOMAIN arrived : arrived[i].nr = i
    /\ filteredMessages \in Seq(Message)
    /\ \A i \in DOMAIN filteredMessages : filteredMessages[i].nr <= Len(arrived)
    /\ FilteredAgrees

LEMMA FilterInit == ASSUME ServiceInit PROVE FilterIInv
<1>1. filteredMessages = <<>> /\ arrived = <<>> /\ messages = <<>>
  BY DEF ServiceInit, Log!Init
<1> QED
  BY <1>1, LogInit, LogAssumption DEF FilterIInv, FilteredAgrees, Log!FilteredAgrees

\* Every message of the log stands there once.
LEMMA LogHasEachOnce ==
    ASSUME FilterIInv
    PROVE  /\ Len(messages) \in Nat /\ Len(messages) <= maxLogSize
           /\ DOMAIN messages = 1 .. Len(messages)
           /\ \A i \in DOMAIN messages : messages[i] \in Message /\ messages[i].nr <= Len(arrived)
           /\ \A i, j \in DOMAIN messages : messages[i] = messages[j] => i = j
<1>1. /\ Len(messages) \in Nat /\ DOMAIN messages = 1 .. Len(messages)
      /\ Len(arrived) \in Nat /\ DOMAIN arrived = 1 .. Len(arrived)
      /\ maxLogSize \in Nat
      /\ \A i \in DOMAIN messages : messages[i] \in Message
  BY LogAssumption DEF FilterIInv, LogIInv
<1>2. /\ Len(messages) = IF Len(arrived) < maxLogSize THEN Len(arrived) ELSE maxLogSize
      /\ \A i \in DOMAIN messages : messages[i] = arrived[Len(arrived) + 1 - i]
  BY DEF FilterIInv, LogIInv, NewestFirst, Log!NewestFirst
<1>3. \A i \in DOMAIN messages : messages[i].nr = Len(arrived) + 1 - i
  <2> SUFFICES ASSUME NEW i \in DOMAIN messages PROVE messages[i].nr = Len(arrived) + 1 - i
    OBVIOUS
  <2>1. Len(arrived) + 1 - i \in DOMAIN arrived
    BY <1>1, <1>2
  <2> QED
    BY <1>2, <2>1 DEF FilterIInv
<1>4. Len(messages) <= maxLogSize
  BY <1>1, <1>2
<1>5. \A i \in DOMAIN messages : messages[i].nr <= Len(arrived)
  BY <1>1, <1>3
<1>6. ASSUME NEW i \in DOMAIN messages, NEW j \in DOMAIN messages, messages[i] = messages[j] PROVE i = j
  <2>1. Len(arrived) + 1 - i = Len(arrived) + 1 - j
    BY <1>3, <1>6
  <2> QED
    BY <1>1, <2>1
<1> QED
  BY <1>1, <1>4, <1>5, <1>6

\* A filter that is set anew.
LEMMA SetFilterKeepsFilter ==
    ASSUME FilterIInv, LogIInv', NEW filter, Log!SetFilter(filter) PROVE FilterIInv'
<1>0. PICK n \in 0 .. Len(messages) : \E place \in [1 .. n -> DOMAIN messages] :
        /\ \A i, j \in 1 .. n : i < j => place[i] < place[j]
        /\ {place[i] : i \in 1 .. n} = {i \in DOMAIN messages : Log!Matches(messages[i], filter)}
        /\ filteredMessages' = [i \in 1 .. n |-> messages[place[i]]]
  BY DEF Log!SetFilter
<1>1. PICK place \in [1 .. n -> DOMAIN messages] :
        /\ \A i, j \in 1 .. n : i < j => place[i] < place[j]
        /\ {place[i] : i \in 1 .. n} = {i \in DOMAIN messages : Log!Matches(messages[i], filter)}
        /\ filteredMessages' = [i \in 1 .. n |-> messages[place[i]]]
  BY <1>0
<1>2. UNCHANGED <<messages, arrived>> /\ fimpFilter' = filter
  BY DEF Log!SetFilter
<1>3. n \in Nat /\ n <= maxLogSize
  BY LogHasEachOnce, LogAssumption
<1>4. /\ filteredMessages' \in Seq(Message) /\ Len(filteredMessages') = n
      /\ DOMAIN filteredMessages' = 1 .. n
      /\ \A i \in 1 .. n : filteredMessages'[i] = messages[place[i]] /\ place[i] \in DOMAIN messages
  <2>1. \A i \in 1 .. n : place[i] \in DOMAIN messages
    OBVIOUS
  <2>2. \A i \in 1 .. n : messages[place[i]] \in Message
    BY <2>1, LogHasEachOnce
  <2> QED
    BY <1>1, <1>3, <2>1, <2>2
<1>5. \A i \in DOMAIN filteredMessages' : Log!Matches(filteredMessages'[i], filter)
  BY <1>1, <1>4
<1>6. ASSUME NEW i \in 1 .. n, NEW j \in 1 .. n, filteredMessages'[i] = filteredMessages'[j] PROVE i = j
  <2>1. place[i] = place[j] /\ place[i] \in Nat
    BY <1>4, <1>6, LogHasEachOnce
  <2>2. ~(i < j) /\ ~(j < i)
    BY <1>1, <2>1
  <2> QED
    BY <2>2
<1>7. ASSUME NEW i \in DOMAIN messages, Log!Matches(messages[i], filter)
      PROVE  \E j \in DOMAIN filteredMessages' : filteredMessages'[j] = messages[i]
  <2>1. PICK j \in 1 .. n : place[j] = i
    BY <1>1, <1>7
  <2> QED
    BY <1>4, <2>1
<1>8. \A i \in DOMAIN filteredMessages' : filteredMessages'[i].nr <= Len(arrived')
  BY <1>2, <1>4, LogHasEachOnce
<1>9. FilteredAgrees'
  BY <1>2, <1>3, <1>4, <1>5, <1>6, <1>7 DEF FilteredAgrees, Log!FilteredAgrees
<1> QED
  BY <1>2, <1>4, <1>8, <1>9 DEF FilterIInv

\* A message that comes is added to the filtered log, unless that is full.
LEMMA MessageKeepsFilter ==
    ASSUME FilterIInv, LogIInv', NEW kind \in MsgKinds, Log!SaveMessage(kind),
           isMessageCaptureEnabled, observable > 0
    PROVE  FilterIInv'
<1> DEFINE a == Len(arrived)
           m == [kind |-> kind, nr |-> a + 1]
           f == Len(filteredMessages)
<1>1. observable = 1 /\ m \in Message /\ a \in Nat /\ m.nr = a + 1
  BY DEF FilterIInv, LogIInv, Message
<1>2. /\ arrived' = Append(arrived, m)
      /\ messages' = Log!Rotate(<<m>> \o messages)
      /\ filteredMessages' = Log!Rotate(Log!SaveFiltered(filteredMessages, m, fimpFilter))
      /\ fimpFilter' = fimpFilter
  BY <1>1 DEF Log!SaveMessage, Log!Saved
<1>3. /\ filteredMessages \in Seq(Message) /\ f \in Nat /\ DOMAIN filteredMessages = 1 .. f
      /\ f <= maxLogSize /\ maxLogSize \in Nat
  BY LogAssumption DEF FilterIInv, FilteredAgrees, Log!FilteredAgrees
<1> HIDE DEF m
<1>4. Len(arrived') = a + 1 /\ \A i \in DOMAIN arrived' : arrived'[i].nr = i
  <2>1. arrived \in Seq(Message) /\ \A i \in 1 .. a : arrived[i].nr = i
    BY DEF FilterIInv, LogIInv
  <2> QED
    BY <1>1, <1>2, <2>1
<1>5. \/ filteredMessages' = filteredMessages /\ (f = maxLogSize \/ ~Log!Matches(m, fimpFilter))
      \/ filteredMessages' = Append(filteredMessages, m) /\ f < maxLogSize /\ Log!Matches(m, fimpFilter)
  <2>0. filteredMessages' = Log!Rotate(IF Log!Matches(m, fimpFilter) THEN Append(filteredMessages, m)
                                                                     ELSE filteredMessages)
    BY <1>2 DEF Log!SaveFiltered
  <2>1. CASE ~Log!Matches(m, fimpFilter)
    <3>1. filteredMessages' = Log!Rotate(filteredMessages)
      BY <2>0, <2>1
    <3>2. ~(f > maxLogSize)
      BY <1>3
    <3>3. filteredMessages' = filteredMessages
      BY <3>1, <3>2 DEF Log!Rotate
    <3> QED
      BY <2>1, <3>3
  <2>2. CASE Log!Matches(m, fimpFilter) /\ f < maxLogSize
    <3>1. Len(Append(filteredMessages, m)) = f + 1
      BY <1>3
    <3>2. filteredMessages' = Log!Rotate(Append(filteredMessages, m))
      BY <2>0, <2>2
    <3>3. ~(f + 1 > maxLogSize)
      BY <1>3, <2>2
    <3> QED
      BY <2>2, <3>1, <3>2, <3>3 DEF Log!Rotate
  <2>3. CASE Log!Matches(m, fimpFilter) /\ ~(f < maxLogSize)
    <3> DEFINE longer == Append(filteredMessages, m)
    <3>1. Len(longer) = f + 1 /\ longer \in Seq(Message) /\ \A i \in 1 .. f : longer[i] = filteredMessages[i]
      BY <1>1, <1>3
    <3>2. filteredMessages' = SubSeq(longer, 1, f)
      BY <1>2, <1>3, <2>3, <3>1 DEF Log!SaveFiltered, Log!Rotate, Log!Front
    <3> HIDE DEF longer
    <3>3. filteredMessages' = [i \in 1 .. f |-> filteredMessages[i]]
      BY <1>3, <3>1, <3>2
    <3>4. filteredMessages' = filteredMessages
      BY <1>3, <3>3
    <3>5. f \in Nat /\ maxLogSize \in Nat /\ f <= maxLogSize /\ ~(f < maxLogSize)
      BY <1>3, <2>3, Zenon
    <3>6. f = maxLogSize
      <4> HIDE DEF f
      <4> QED
        BY <3>5
    <3> QED
      BY <3>4, <3>6
  <2> QED
    BY <2>1, <2>2, <2>3
<1>6. \A i \in 1 .. f : /\ filteredMessages[i] # m /\ filteredMessages[i].nr <= a + 1
                        /\ Log!Matches(filteredMessages[i], fimpFilter)
                        /\ \A j \in 1 .. f : filteredMessages[i] = filteredMessages[j] => i = j
  <2>1. \A i \in 1 .. f : filteredMessages[i].nr <= a /\ filteredMessages[i].nr \in Nat
    <3>1. \A i \in 1 .. f : filteredMessages[i].nr <= a
      BY <1>3 DEF FilterIInv
    <3>2. \A i \in 1 .. f : filteredMessages[i] \in Message
      BY <1>3
    <3> QED
      BY <3>1, <3>2 DEF Message
  <2>2. \A i \in 1 .. f : filteredMessages[i].nr # a + 1 /\ filteredMessages[i].nr <= a + 1
    BY <1>1, <2>1
  <2> QED
    BY <1>1, <1>3, <2>2 DEF FilterIInv, FilteredAgrees, Log!FilteredAgrees
\* What the log holds is the message, or was there before.
<1>7. ASSUME NEW i \in DOMAIN messages'
      PROVE  messages'[i] = m \/ \E j \in DOMAIN messages : messages'[i] = messages[j]
  <2>1. /\ DOMAIN messages' = 1 .. Len(messages') /\ Len(messages') \in Nat
        /\ Len(messages') = IF a + 1 < maxLogSize THEN a + 1 ELSE maxLogSize
        /\ messages'[i] = arrived'[a + 2 - i]
    <3>1. messages' \in Seq(Message)
      BY DEF LogIInv
    <3>2. /\ Len(messages') = IF a + 1 < maxLogSize THEN a + 1 ELSE maxLogSize
          /\ messages'[i] = arrived'[a + 1 + 1 - i]
      BY <1>4, <1>7 DEF LogIInv, NewestFirst, Log!NewestFirst
    <3>3. i \in Int /\ a + 1 + 1 - i = a + 2 - i
      BY <1>1, <1>7, <3>1
    <3> QED
      BY <3>1, <3>2, <3>3
  <2>2. /\ DOMAIN messages = 1 .. Len(messages) /\ Len(messages) \in Nat
        /\ Len(messages) = IF a < maxLogSize THEN a ELSE maxLogSize
        /\ \A j \in DOMAIN messages : messages[j] = arrived[a + 1 - j]
    BY DEF FilterIInv, LogIInv, NewestFirst, Log!NewestFirst
  <2>3. /\ arrived'[a + 1] = m
        /\ \A j \in 1 .. a : arrived'[j] = arrived[j]
    BY <1>1, <1>2 DEF FilterIInv, LogIInv
  <2>4. CASE i = 1
    BY <1>1, <2>1, <2>3, <2>4
  <2>5. CASE i # 1
    <3>1. i - 1 \in DOMAIN messages /\ a + 2 - i \in 1 .. a /\ a + 1 - (i - 1) = a + 2 - i
      BY <1>1, <1>3, <1>7, <2>1, <2>2, <2>5
    <3> QED
      BY <2>1, <2>2, <2>3, <3>1
  <2> QED
    BY <2>4, <2>5
<1>8. f < maxLogSize => \A j \in DOMAIN messages :
        Log!Matches(messages[j], fimpFilter) => \E k \in 1 .. f : filteredMessages[k] = messages[j]
  BY <1>3 DEF FilterIInv, FilteredAgrees, Log!FilteredAgrees
<1>9. CASE filteredMessages' = filteredMessages /\ (f = maxLogSize \/ ~Log!Matches(m, fimpFilter))
  <2>1. ASSUME f < maxLogSize, NEW i \in DOMAIN messages', Log!Matches(messages'[i], fimpFilter)
        PROVE  \E k \in 1 .. f : filteredMessages[k] = messages'[i]
    <3>1. f # maxLogSize
      <4>1. f \in Nat /\ maxLogSize \in Nat
        BY <1>3, Zenon
      <4> HIDE DEF f
      <4> QED
        BY <2>1, <4>1
    <3>2. messages'[i] # m
      BY <1>9, <2>1, <3>1
    <3>3. PICK j \in DOMAIN messages : messages'[i] = messages[j]
      BY <1>7, <3>2
    <3> QED
      BY <1>8, <2>1, <3>3
  <2>2. FilteredAgrees'
    <3>1. fimpFilter' = fimpFilter /\ Len(filteredMessages') = f /\ DOMAIN filteredMessages' = 1 .. f
      BY <1>2, <1>3, <1>9, Zenon
    <3>2. \A i \in 1 .. f : Log!Matches(filteredMessages'[i], fimpFilter')
      BY <1>6, <1>9, <3>1
    <3>3. \A i, j \in 1 .. f : filteredMessages'[i] = filteredMessages'[j] => i = j
      BY <1>6, <1>9
    <3>4. f < maxLogSize => \A i \in DOMAIN messages' :
            Log!Matches(messages'[i], fimpFilter') => \E k \in 1 .. f : filteredMessages'[k] = messages'[i]
      BY <1>9, <2>1, <3>1
    <3>5. f <= maxLogSize
      BY <1>3
    <3> HIDE DEF f
    <3> QED
      BY <3>1, <3>2, <3>3, <3>4, <3>5 DEF FilteredAgrees, Log!FilteredAgrees
  <2> QED
    <3>1. \A i \in DOMAIN filteredMessages' : filteredMessages'[i].nr <= Len(arrived')
      BY <1>3, <1>4, <1>6, <1>9
    <3> QED
      BY <1>3, <1>4, <1>9, <2>2, <3>1, Zenon DEF FilterIInv
<1>10. CASE filteredMessages' = Append(filteredMessages, m) /\ f < maxLogSize /\ Log!Matches(m, fimpFilter)
  <2>1. /\ filteredMessages' \in Seq(Message) /\ Len(filteredMessages') = f + 1
        /\ DOMAIN filteredMessages' = 1 .. f + 1
        /\ \A i \in 1 .. f + 1 : filteredMessages'[i] = IF i = f + 1 THEN m ELSE filteredMessages[i]
    BY <1>1, <1>3, <1>10
  <2>2. \A i \in 1 .. f + 1 : i # f + 1 => i \in 1 .. f
    BY <1>3
  <2>3. \A i \in DOMAIN filteredMessages' : /\ filteredMessages'[i].nr <= Len(arrived')
                                            /\ Log!Matches(filteredMessages'[i], fimpFilter')
    BY <1>1, <1>2, <1>4, <1>6, <1>10, <2>1, <2>2
  <2>4. \A i, j \in DOMAIN filteredMessages' : filteredMessages'[i] = filteredMessages'[j] => i = j
    BY <1>6, <2>1, <2>2
  <2>5. ASSUME NEW i \in DOMAIN messages', Log!Matches(messages'[i], fimpFilter')
        PROVE  \E j \in DOMAIN filteredMessages' : filteredMessages'[j] = messages'[i]
    <3>1. CASE messages'[i] = m
      <4>1. f + 1 \in DOMAIN filteredMessages' /\ filteredMessages'[f + 1] = m
        BY <1>3, <2>1
      <4> QED
        BY <3>1, <4>1
    <3>2. CASE \E j \in DOMAIN messages : messages'[i] = messages[j]
      <4>1. PICK k \in 1 .. f : filteredMessages[k] = messages'[i]
        BY <1>2, <1>8, <1>10, <2>5, <3>2
      <4>2. k \in DOMAIN filteredMessages' /\ k # f + 1
        BY <1>3, <2>1
      <4> QED
        BY <2>1, <4>1, <4>2
    <3> QED
      BY <1>7, <3>1, <3>2
  <2>6. FilteredAgrees'
    <3>1. Len(filteredMessages') <= maxLogSize
      BY <1>3, <1>10, <2>1
    <3> QED
      BY <2>3, <2>4, <2>5, <3>1 DEF FilteredAgrees, Log!FilteredAgrees
  <2> QED
    BY <1>4, <2>1, <2>3, <2>6 DEF FilterIInv
<1> QED
  BY <1>5, <1>9, <1>10

LEMMA NextKeepsFilter ==
    ASSUME FilterIInv, [ServiceNext]_<<vars, logPage>> PROVE FilterIInv'
<1>1. LogIInv'
  BY NextKeepsLog DEF FilterIInv
<1>2. ASSUME UNCHANGED <<messages, arrived, filteredMessages, fimpFilter>> PROVE FilterIInv'
  BY <1>1, <1>2 DEF FilterIInv, FilteredAgrees, Log!FilteredAgrees
<1>3. CASE Log!Page
  <2>1. CASE \E filter \in SUBSET MsgKinds : Log!Filter(filter)
    BY <1>1, <2>1, SetFilterKeepsFilter DEF Log!Filter
  <2>2. CASE Log!ResetFilter
    BY <1>1, <2>2, SetFilterKeepsFilter DEF Log!ResetFilter
  <2>3. CASE \E state \in BOOLEAN : Log!StartStream(state)
    BY <1>2, <2>3 DEF Log!StartStream
  <2>4. CASE Log!OpenTimeline \/ Log!CloseTimeline \/ Log!GetGlobalObservable
    BY <1>2, <2>4 DEF Log!OpenTimeline, Log!CloseTimeline, Log!GetGlobalObservable, Log!logVars
  <2> QED
    BY <1>3, <2>1, <2>2, <2>3, <2>4 DEF Log!Page
<1>4. CASE \E kind \in MsgKinds : OnMessage(kind)
  <2>1. PICK kind \in MsgKinds : Log!SaveMessage(kind)
    BY <1>4 DEF OnMessage
  <2>2. CASE isMessageCaptureEnabled /\ observable > 0
    BY <1>1, <2>1, <2>2, MessageKeepsFilter
  <2>3. CASE ~(isMessageCaptureEnabled /\ observable > 0)
    BY <1>2, <2>1, <2>3 DEF Log!SaveMessage
  <2> QED
    BY <2>2, <2>3
<1>5. CASE UNCHANGED logPage
  BY <1>2, <1>5 DEF logPage
<1> QED
  BY <1>3, <1>4, <1>5 DEF ServiceNext

\* The filtered log of the timeline holds messages that pass the filter that is
\* set, each once, at most maxLogSize of them, and all those of the log unless it
\* is full (setFilter and saveMessage of fimp.service.ts), in whatever order
\* messages come and filters are set and reset.
THEOREM FilteredLogAgrees == ServiceSpec => []FilteredAgrees
<1>1. FilterIInv => FilteredAgrees
  BY DEF FilterIInv
<1> QED
  BY <1>1, FilterInit, NextKeepsFilter, PTL DEF ServiceSpec

-----------------------------------------------------------------------------
(* What publish() promises.                                                *)

LEMMA LinkIs ==
    ASSUME ConnIInv
    PROVE  /\ Link = "up" <=> sock[websocket] = "open"
           /\ Link = "broken" <=> sock[websocket] = "lost"
           /\ Link = "down" <=> sock[websocket] \in {"connecting", "closed"}
           /\ Link \in {"up", "broken", "down"}
  BY DEF Link, ConnIInv, ConnTypeOK, SockStates

\* The handlers of the socket turn the connection and touch no message.
LEMMA ConnectionRefines ==
    ASSUME ConnIInv, ConnIInv', UNCHANGED <<fate, wire>>,
           \/ \E s \in Sockets : OnOpen(s) \/ Drop(s) \/ OnClose(s) \/ OnError(s)
           \/ \E i \in DOMAIN timers, s \in Sockets : Reconnect(i, s)
           \/ UNCHANGED <<sock, websocket>>
    PROVE  [Service!DeliveryNext]_(Service!deliveryVars)
<1>1. UNCHANGED Status
  BY DEF Status
<1> DEFINE Turned == \/ Link = "down" /\ Link' = "up"
                     \/ Link = "up" /\ Link' = "broken"
                     \/ Link = "broken" /\ Link' = "down"
                     \/ Link' = Link
<1>2. Turned
  <2>1. ASSUME NEW s \in Sockets, OnOpen(s) \/ Drop(s) \/ OnClose(s) \/ OnError(s)
        PROVE  /\ s = websocket /\ websocket' = websocket
               /\ \/ sock[s] = "connecting" /\ sock'[s] \in {"open", "closed"}
                  \/ sock[s] = "open" /\ sock'[s] = "lost"
                  \/ sock[s] = "lost" /\ sock'[s] = "closed"
    BY <2>1 DEF ConnIInv, ConnTypeOK, OneChain, Live, OnOpen, Drop, OnClose, OnError
  <2>2. ASSUME NEW i \in DOMAIN timers, NEW s \in Sockets, Reconnect(i, s)
        PROVE  Link = "down" /\ Link' = "down"
    <3>1. Live = {}
      BY <2>2 DEF ConnIInv, ConnTypeOK, OneChain
    <3>2. sock[websocket] = "closed" /\ sock'[websocket'] = "connecting"
      BY <2>2, <3>1 DEF Reconnect, Live, ConnIInv, ConnTypeOK
    <3> QED
      BY <3>2 DEF Link
  <2>3. ASSUME UNCHANGED <<sock, websocket>>
        PROVE  Link' = Link
    BY <2>3 DEF Link
  <2>4. ASSUME NEW s \in Sockets, s = websocket, websocket' = websocket,
               \/ sock[s] = "connecting" /\ sock'[s] \in {"open", "closed"}
               \/ sock[s] = "open" /\ sock'[s] = "lost"
               \/ sock[s] = "lost" /\ sock'[s] = "closed"
        PROVE  Turned
    BY <2>4 DEF Link
  <2> QED
    BY <2>1, <2>2, <2>3, <2>4
<1> QED
  BY <1>1, <1>2 DEF Service!DeliveryNext, Service!Turns, Service!deliveryVars

\* publish() and its retries transmit a message, make it wait or give it up.
LEMMA MessageRefines ==
    ASSUME ConnIInv, SentIInv, NEW m \in Msgs, Publish(m) \/ RetryOnce(m) \/ RetryTwice(m)
    PROVE  [Service!DeliveryNext]_(Service!deliveryVars)
<1>1. UNCHANGED Link
  BY DEF Link, Publish, RetryOnce, RetryTwice, connVars
<1>2. ASSUME NEW f \in {"retry1", "retry2", "sent", "lost"}, fate' = [fate EXCEPT ![m] = f]
      PROVE  Status' = [Status EXCEPT ![m] = IF f \in Retrying THEN "waiting" ELSE f]
  BY <1>2 DEF Status, SentIInv
<1>3. Status[m] = IF fate[m] \in Retrying THEN "waiting" ELSE fate[m]
  BY DEF Status
<1>4. CASE Send(m)
  <2>1. \/ fate[m] = "new" /\ IsConnected
        \/ fate[m] \in Retrying
    BY <1>4 DEF Publish, RetryOnce, RetryTwice, Retrying, RetryLater, Send, SentIInv
  <2>2. CASE sock[websocket] = "open"
    <3>1. Link = "up" /\ Status' = [Status EXCEPT ![m] = "sent"] /\ wire' = Append(wire, m)
      BY <1>2, <1>4, <2>2, LinkIs DEF Send, Retrying
    <3>2. Service!Transmit(m)
      BY <1>1, <1>3, <2>1, <3>1 DEF Service!Transmit, Service!Becomes
    <3> QED
      BY <3>2 DEF Service!DeliveryNext
  <2>3. CASE sock[websocket] # "open"
    <3>1. Link # "up" /\ Status' = [Status EXCEPT ![m] = "lost"] /\ UNCHANGED wire
      BY <1>2, <1>4, <2>3, LinkIs DEF Send, Retrying
    <3>2. fate[m] = "new" => Link = "broken"
      BY <2>1, <2>3, LinkIs DEF ConnIInv, ConnectedIsOpen, Retrying
    <3>3. Service!Forget(m)
      BY <1>1, <1>3, <2>1, <3>1, <3>2 DEF Service!Forget, Service!Becomes
    <3> QED
      BY <3>3 DEF Service!DeliveryNext
  <2> QED
    BY <2>2, <2>3
<1>5. CASE Publish(m) /\ ~Send(m)
  <2>1. fate[m] = "new" /\ ~IsConnected /\ fate' = [fate EXCEPT ![m] = "retry1"] /\ UNCHANGED wire
    BY <1>5 DEF Publish, RetryLater
  <2>2. Link = "down" /\ Status' = [Status EXCEPT ![m] = "waiting"]
    BY <1>2, <2>1, LinkIs DEF ConnIInv, ConnectedIsOpen, Retrying
  <2>3. Service!Wait(m)
    BY <1>1, <1>3, <2>1, <2>2 DEF Service!Wait, Service!Becomes, Retrying
  <2> QED
    BY <2>3 DEF Service!DeliveryNext
<1>6. CASE RetryOnce(m) /\ ~Send(m)
  <2>1. fate[m] = "retry1" /\ fate' = [fate EXCEPT ![m] = "retry2"] /\ UNCHANGED wire
    BY <1>6 DEF RetryOnce, RetryLater
  <2>2. Status' = Status
    BY <1>2, <1>3, <2>1 DEF Retrying, Status
  <2> QED
    BY <1>1, <2>1, <2>2 DEF Service!deliveryVars
<1> QED
  BY <1>4, <1>5, <1>6 DEF RetryTwice

(* The sockets, timers and retries of the page implement Delivery, whatever   *)
(* the network does and however long a handshake takes: the retry that finds  *)
(* the page still offline is no step of it, and all others are one.           *)
THEOREM RetriesImplementDelivery == ServiceSpec => ImplementsDelivery
<1>1. Init => Service!DeliveryInit
  <2> SUFFICES ASSUME Init PROVE Service!DeliveryInit
    OBVIOUS
  <2>1. Link = "down"
    BY ConnInit, LinkIs DEF Init
  <2>2. Status = [m \in Msgs |-> "new"]
    BY DEF Init, Status, Retrying
  <2> QED
    BY <2>1, <2>2 DEF Init, Service!DeliveryInit
<1>2. ASSUME ConnIInv, ConnIInv', SentIInv, [Next]_vars
      PROVE  [Service!DeliveryNext]_(Service!deliveryVars)
  <2>1. CASE UNCHANGED vars
    BY <1>2, <2>1, ConnectionRefines DEF vars, connVars, msgVars
  <2>2. CASE Network \/ Tick \/ \E i \in DOMAIN timers, s \in Sockets : Reconnect(i, s)
    <3>1. UNCHANGED <<fate, wire>>
      BY <2>2 DEF Network, OnOpen, Drop, OnClose, OnError, Tick, Reconnect, msgVars
    <3>2. Tick => UNCHANGED <<sock, websocket>>
      BY DEF Tick
    <3> QED
      BY <1>2, <2>2, <3>1, <3>2, ConnectionRefines DEF Network
  <2>3. CASE \E m \in Msgs : Publish(m) \/ RetryOnce(m) \/ RetryTwice(m)
    BY <1>2, <2>3, MessageRefines
  <2> QED
    BY <1>2, <2>1, <2>2, <2>3 DEF Next, Timers
<1>3. ServiceSpec => []ConnIInv
  <2>1. ServiceInit => ConnIInv
    BY ConnInit DEF ServiceInit
  <2>2. ConnIInv /\ [ServiceNext]_<<vars, logPage>> => ConnIInv'
    BY NextKeepsConn, ServiceTakesSteps
  <2> QED
    BY <2>1, <2>2, PTL DEF ServiceSpec
<1>4. ServiceSpec => []SentIInv
  <2>1. ServiceInit => SentIInv
    BY SentInit DEF ServiceInit
  <2>2. SentIInv /\ [ServiceNext]_<<vars, logPage>> => SentIInv'
    BY NextKeepsSent, ServiceTakesSteps
  <2> QED
    BY <2>1, <2>2, PTL DEF ServiceSpec
<1>5. ServiceInit => Service!DeliveryInit
  BY <1>1 DEF ServiceInit
<1>6. ConnIInv /\ ConnIInv' /\ SentIInv /\ [ServiceNext]_<<vars, logPage>>
        => [Service!DeliveryNext]_(Service!deliveryVars)
  BY <1>2, ServiceTakesSteps
<1> QED
  BY <1>3, <1>4, <1>5, <1>6, PTL DEF ServiceSpec, ImplementsDelivery, Service!DeliverySpec
===============================================================================
