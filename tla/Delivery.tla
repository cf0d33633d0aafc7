------------------------------ MODULE Delivery ------------------------------
(* What publish() promises to the pages, without sockets, timers and retries  *)
(* (fimp/ws.service.ts and fimp.service.ts seen from outside). A message is   *)
(* put on the connection when it is published, or it waits. It is put there   *)
(* at most once, only while the connection is up, and what happened to it is  *)
(* final. A message is lost at once only when the connection just broke and   *)
(* the page could not know; one that waits is lost only while the connection  *)
(* is not up.                                                                 *)
EXTENDS Sequences

CONSTANT Msgs

VARIABLES link,     \* "up", "broken" (the page does not know yet) or "down"
          status,   \* message -> "new", "waiting", "sent" or "lost"
          wire      \* the messages put on the connection, in order

deliveryVars == <<link, status, wire>>

DeliveryInit == link = "down" /\ status = [m \in Msgs |-> "new"] /\ wire = <<>>

\* The connection: opened by the page, broken by the network, given up by the page.
Turns(from, to) == link = from /\ link' = to /\ UNCHANGED <<status, wire>>

Becomes(m, s) == status' = [status EXCEPT ![m] = s] /\ UNCHANGED link

Transmit(m) == /\ link = "up" /\ status[m] \in {"new", "waiting"}
               /\ Becomes(m, "sent") /\ wire' = Append(wire, m)

\* Only a page that knows it is offline makes a message wait.
Wait(m) == link = "down" /\ status[m] = "new" /\ Becomes(m, "waiting") /\ UNCHANGED wire

Forget(m) == /\ \/ status[m] = "new" /\ link = "broken"
                \/ status[m] = "waiting" /\ link # "up"
             /\ Becomes(m, "lost") /\ UNCHANGED wire

DeliveryNext == \/ Turns("down", "up") \/ Turns("up", "broken") \/ Turns("broken", "down")
                \/ \E m \in Msgs : Transmit(m) \/ Wait(m) \/ Forget(m)

DeliverySpec == DeliveryInit /\ [][DeliveryNext]_deliveryVars
=============================================================================
