---------------------------- MODULE FimpService -----------------------------
(* fimp.service.ts as a page has it: the connection and publish() of WsClient  *)
(* and the message log of FimpLog, which only gets messages from a socket that *)
(* is open.                                                                    *)
EXTENDS WsClient

CONSTANTS MsgKinds, maxLogSize, MaxMessages

ASSUME LogAssumption == maxLogSize \in Nat \ {0} /\ MaxMessages \in Nat

VARIABLES messages, filteredMessages, fimpFilter, isMessageCaptureEnabled, observable, arrived, events

logPage == <<messages, filteredMessages, fimpFilter, isMessageCaptureEnabled, observable, arrived, events>>

Log == INSTANCE FimpLog

ServiceInit == Init /\ Log!Init

\* onmessage hands the message to the stream.
OnMessage(kind) == /\ \E s \in Sockets : sock[s] = "open"
                   /\ Log!SaveMessage(kind)
                   /\ UNCHANGED vars

ServiceNext == \/ Next /\ UNCHANGED logPage
               \/ \E kind \in MsgKinds : OnMessage(kind)
               \/ Log!Page /\ UNCHANGED vars

\* The connection is scheduled as in WsClient; nobody has to send or to click.
ServiceSpec == ServiceInit /\ [][ServiceNext]_<<vars, logPage>> /\ Fairness

(* The properties of the log in this composition. *)
NewestFirst == Log!NewestFirst
FilteredAgrees == Log!FilteredAgrees
=============================================================================
