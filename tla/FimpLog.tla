------------------------------ MODULE FimpLog -------------------------------
(* The message log of fimp.service.ts and the timeline page that shows it.    *)
(* Every message of the stream is put in front of the log while capturing is  *)
(* enabled, and behind the filtered log if it matches the filter; both are    *)
(* cut to maxLogSize by removing the last element, which is the oldest        *)
(* message of the log and the newest of the filtered one. The page shows one  *)
(* of the two arrays. A message is its serial number and its kind; a filter   *)
(* is the set of kinds that pass its three substring tests.                   *)
EXTENDS Naturals, Sequences, SequencesExt

CONSTANTS MsgKinds, maxLogSize,
          MaxMessages      \* bounds the exploration

VARIABLES messages, filteredMessages, fimpFilter, isMessageCaptureEnabled,
          observable,   \* how often saveMessage is subscribed to the stream
          arrived,      \* messages that came while there was a subscription and capturing, in order
          events        \* the array the timeline shows, "none" when it is closed

logVars == <<messages, filteredMessages, fimpFilter, isMessageCaptureEnabled, arrived>>

Init == /\ messages = <<>> /\ filteredMessages = <<>> /\ arrived = <<>>
        /\ fimpFilter = MsgKinds    \* isFilteringEnabled = false
        /\ isMessageCaptureEnabled = TRUE /\ observable = 0 /\ events = "none"

\* Fault: every page subscribes the log again. (2 stands for any larger number.)
SubscribeToAllAgain == IF observable < 2 THEN observable + 1 ELSE 2

\* getGlobalObservable: the first page that asks for the stream has the log subscribed to it.
SubscribeToAll == IF observable = 0 THEN 1 ELSE observable

GetGlobalObservable == observable' = SubscribeToAll /\ UNCHANGED <<logVars, events>>

\* rotateMessages: pop the last element of a log that has become too long.
Rotate(msgLog) == IF Len(msgLog) > maxLogSize THEN Front(msgLog) ELSE msgLog

Matches(m, filter) == m.kind \in filter

\* Fault: the filter is not asked.
SaveUnfiltered(log, m, filter) == Append(log, m)

SaveFiltered(log, m, filter) == IF Matches(m, filter) THEN Append(log, m) ELSE log

\* saveMessage of one subscription.
Saved(logs, m) == [all      |-> Rotate(<<m>> \o logs.all),
                   filtered |-> Rotate(SaveFiltered(logs.filtered, m, fimpFilter))]

\* A message of the stream, saved by every subscription.
SaveMessage(kind) ==
  LET m == [kind |-> kind, nr |-> Len(arrived) + 1]
      once == Saved([all |-> messages, filtered |-> filteredMessages], m)
      logs == IF observable = 1 THEN once ELSE Saved(once, m) IN
  /\ Len(arrived) < MaxMessages
  /\ IF isMessageCaptureEnabled /\ observable > 0
     THEN /\ arrived' = Append(arrived, m)
          /\ messages' = logs.all
          /\ filteredMessages' = logs.filtered
     ELSE UNCHANGED <<arrived, messages, filteredMessages>>
  /\ UNCHANGED <<fimpFilter, isMessageCaptureEnabled, observable, events>>

\* setFilter: the filtered log is made anew from the log, of the messages that
\* match, in their order. (Their places are named instead of SelectSeq, whose
\* recursion cannot be reasoned about.)
SetFilter(filter) ==
  /\ fimpFilter' = filter
  /\ \E n \in 0 .. Len(messages) : \E place \in [1 .. n -> DOMAIN messages] :
       /\ \A i, j \in 1 .. n : i < j => place[i] < place[j]
       /\ {place[i] : i \in 1 .. n} = {i \in DOMAIN messages : Matches(messages[i], filter)}
       /\ filteredMessages' = [i \in 1 .. n |-> messages[place[i]]]
  /\ UNCHANGED <<messages, isMessageCaptureEnabled, arrived, observable>>

\* The buttons of the page: texts that some or all kinds contain, no texts, start and stop.
Filter(filter) == events # "none" /\ SetFilter(filter) /\ events' = "filtered"
ResetFilter == events # "none" /\ SetFilter(MsgKinds) /\ events' = "log"
StartStream(state) == /\ events # "none" /\ isMessageCaptureEnabled' = state
                      /\ UNCHANGED <<messages, filteredMessages, fimpFilter, arrived, observable, events>>

\* A page opened anew shows the log, whatever filter is still set.
OpenTimeline == events = "none" /\ events' = "log" /\ observable' = SubscribeToAll /\ UNCHANGED logVars
CloseTimeline == events # "none" /\ events' = "none" /\ UNCHANGED <<logVars, observable>>

Page == \/ \E filter \in SUBSET MsgKinds : Filter(filter)
        \/ \E state \in BOOLEAN : StartStream(state)
        \/ ResetFilter \/ OpenTimeline \/ CloseTimeline \/ GetGlobalObservable

-----------------------------------------------------------------------------
(* The log is the newest messages that arrived, the newest first, each once,  *)
(* and never more than maxLogSize of them.                                    *)
NewestFirst ==
  /\ Len(messages) = IF Len(arrived) < maxLogSize THEN Len(arrived) ELSE maxLogSize
  /\ \A i \in DOMAIN messages : messages[i] = arrived[Len(arrived) + 1 - i]

(* The filtered log only holds messages of the filter that is set, once each, *)
(* never more than maxLogSize although setFilter does not rotate, and misses  *)
(* none that is in the log unless it is full: then it drops the newest, and   *)
(* stays as it is until a filter is set again.                                *)
FilteredAgrees ==
  /\ Len(filteredMessages) <= maxLogSize
  /\ \A i \in DOMAIN filteredMessages : Matches(filteredMessages[i], fimpFilter)
  /\ \A i, j \in DOMAIN filteredMessages : filteredMessages[i] = filteredMessages[j] => i = j
  /\ Len(filteredMessages) < maxLogSize =>
       \A i \in DOMAIN messages :
         Matches(messages[i], fimpFilter) => \E j \in DOMAIN filteredMessages : filteredMessages[j] = messages[i]
=============================================================================
