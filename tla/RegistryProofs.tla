--------------------------- MODULE RegistryProofs ---------------------------
(***************************************************************************)
(* Proofs about Registry, for any lists, pages, loads, edits and outages.  *)
(* They rest on one order: answers leave tpflow with versions that do not  *)
(* decrease and wait in a queue, so that what waits is at least as new as  *)
(* what a list has, and that as what a page has taken from it.             *)
(***************************************************************************)
EXTENDS Registry, SequenceTheorems, TLAPS

OnTheWay == [kind : Kinds, id : Nat, version : Nat]

TypeOK ==
    /\ connected \in BOOLEAN /\ deferred \in BOOLEAN /\ pageSub \in BOOLEAN
    /\ subs \in Nat /\ loads \in Nat /\ drops \in Nat /\ db \in Nat /\ current \in Nat
    /\ asked \subseteq [kind : Kinds, id : Nat]
    /\ answers \in Seq(OnTheWay)
    /\ lists \in [Kinds -> Answers \cup {NoAnswer}]
    /\ shown \in [Kinds -> Answers \cup {NoAnswer}]

\* Who is connected listens, and has loaded; nothing is under way to others.
ConnOK ==
    /\ connected \/ ~deferred \/ current # 0 => subs > 0
    /\ subs > 0 => loads > 0
    /\ ~connected => asked = {} /\ answers = <<>>

\* The answers wait in the order of the database ...
QueueOK ==
    /\ current <= db
    /\ \A i \in 1 .. Len(answers) :
          /\ answers[i].version <= db
          /\ \A j \in 1 .. Len(answers) : i <= j => answers[i].version <= answers[j].version

\* ... behind those that were received ...
ListsOK ==
    /\ OwnAnswers
    /\ \A k \in Kinds : lists[k] # NoAnswer =>
          /\ lists[k].version <= db
          /\ \A i \in 1 .. Len(answers) : lists[k].version <= answers[i].version

\* ... and those behind what a page has taken.
ShownOK ==
    /\ \A k \in Kinds : shown[k] # NoAnswer =>
          lists[k] # NoAnswer /\ shown[k].version <= lists[k].version
    /\ page \in {"none", "wizard"} => ~pageSub
    /\ page = "none" => \A k \in Kinds : shown[k] = NoAnswer
    /\ PageFollowsRegistry

\* Of the last load each list is asked for, on the way, or as new as it.
OnItsWay(k, i) ==
    answers[i].kind = k /\ answers[i].id = loads /\ answers[i].version >= current
LoadOK ==
    current # 0 =>
        \A k \in Kinds :
            \/ Request(k, loads) \in asked
            \/ \E i \in 1 .. Len(answers) : OnItsWay(k, i)
            \/ lists[k] # NoAnswer /\ lists[k].version >= current

IInv == TypeOK /\ ConnOK /\ QueueOK /\ ListsOK /\ ShownOK /\ LoadOK
-----------------------------------------------------------------------------
(* The steps of the wire leave the lists and the page alone.                 *)

LEMMA Elements ==
    ASSUME TypeOK
    PROVE  /\ Len(answers) \in Nat
           /\ \A i \in 1 .. Len(answers) : answers[i] \in OnTheWay /\ answers[i].version \in Nat
<1>1. \A i \in 1 .. Len(answers) : answers[i] \in OnTheWay
  BY DEF TypeOK
<1> QED
  BY <1>1 DEF TypeOK, OnTheWay

LEMMA SameShown ==
    ASSUME IInv, UNCHANGED <<lists, view>>
    PROVE  ShownOK'
  BY DEF IInv, view, ShownOK, PageFollowsRegistry, ShownBy, IsRegistryInitialized, Received

LEMMA SameNotOlder ==
    ASSUME NEW ls \in [Kinds -> Answers \cup {NoAnswer}]
    PROVE  NotOlder(ls, ls)
<1>1. \A k \in Kinds : ls[k] # NoAnswer => ls[k].version \in Nat
  BY DEF Answers
<1> QED
  BY <1>1 DEF NotOlder

\* A load asks for everything anew.
LEMMA Loading ==
    ASSUME IInv, LoadAllComponents, UNCHANGED <<answers, lists, db>>
    PROVE  /\ loads' \in Nat /\ loads' > 0 /\ current' \in Nat /\ current' = db
           /\ asked' \subseteq [kind : Kinds, id : Nat]
           /\ LoadOK'
<1>1. loads' \in Nat /\ loads' > 0 /\ current' \in Nat /\ current' = db
  BY DEF IInv, TypeOK, LoadAllComponents
<1>2. \A k \in Kinds : Request(k, loads') \in asked' /\ Request(k, loads') \in [kind : Kinds, id : Nat]
  BY <1>1 DEF LoadAllComponents, Request
<1>3. asked' \subseteq [kind : Kinds, id : Nat]
  BY <1>2 DEF LoadAllComponents, IInv, TypeOK
<1>4. LoadOK'
  BY <1>2 DEF LoadOK
<1> QED
  BY <1>1, <1>3, <1>4

LEMMA ConnectKeeps ==
    ASSUME IInv, Connect
    PROVE  IInv'
<1>1. /\ UNCHANGED <<deferred, answers, drops, lists, db, view>> /\ ~connected /\ connected'
      /\ connected' = TRUE
  BY DEF Connect
<1>2. answers = <<>> /\ asked = {}
  BY <1>1 DEF IInv, ConnOK
<1>3. CASE deferred
  <2>1. LoadAllComponents /\ subs' = subs + 1
    BY <1>3 DEF Connect
  <2>2. /\ loads' \in Nat /\ loads' > 0 /\ current' \in Nat /\ current' = db
        /\ asked' \subseteq [kind : Kinds, id : Nat] /\ LoadOK'
    BY <1>1, <2>1, Loading
  <2>3. subs' \in Nat /\ subs' > 0
    BY <2>1 DEF IInv, TypeOK
  <2>4. TypeOK' /\ ConnOK'
    BY <1>1, <2>2, <2>3 DEF IInv, TypeOK, ConnOK, view
  <2>5. QueueOK' /\ ListsOK'
    BY <1>1, <1>2, <2>2 DEF IInv, TypeOK, QueueOK, ListsOK, OwnAnswers
  <2> QED
    BY <1>1, <2>2, <2>4, <2>5, SameShown DEF IInv
<1>4. CASE ~deferred
  <2>1. UNCHANGED <<subs, loads, asked, current>>
    BY <1>4 DEF Connect
  <2>2. TypeOK' /\ ConnOK'
    BY <1>1, <1>2, <1>4, <2>1 DEF IInv, TypeOK, ConnOK, view
  <2>3. QueueOK' /\ ListsOK' /\ LoadOK'
    BY <1>1, <1>2, <2>1 DEF IInv, QueueOK, ListsOK, OwnAnswers, LoadOK, OnItsWay
  <2> QED
    BY <1>1, <2>2, <2>3, SameShown DEF IInv
<1> QED
  BY <1>3, <1>4

LEMMA SyncTimerKeeps ==
    ASSUME IInv, SyncTimer
    PROVE  IInv'
<1>1. UNCHANGED <<connected, deferred, subs, answers, drops, lists, db, view>> /\ connected
  BY DEF SyncTimer
<1>2. /\ loads' \in Nat /\ loads' > 0 /\ current' \in Nat /\ current' = db
      /\ asked' \subseteq [kind : Kinds, id : Nat] /\ LoadOK'
  BY <1>1, Loading DEF SyncTimer
<1>3. TypeOK' /\ ConnOK'
  BY <1>1, <1>2 DEF IInv, TypeOK, ConnOK, view
<1>4. QueueOK' /\ ListsOK'
  BY <1>1, <1>2 DEF IInv, TypeOK, QueueOK, ListsOK, OwnAnswers
<1> QED
  BY <1>1, <1>2, <1>3, <1>4, SameShown DEF IInv

\* What an outage loses no longer counts as loaded.
LEMMA DisconnectKeeps ==
    ASSUME IInv, Disconnect
    PROVE  IInv'
<1>1. /\ UNCHANGED <<deferred, subs, loads, lists, db, view>> /\ connected /\ connected' = FALSE
      /\ asked' = {} /\ answers' = <<>> /\ drops' = drops + 1
      /\ current' = IF asked = {} /\ answers = <<>> THEN current ELSE 0
  BY DEF Disconnect
<1>2. TypeOK' /\ ConnOK'
  <2>1. current' \in {0, current} /\ current' \in Nat /\ drops' \in Nat
    BY <1>1 DEF IInv, TypeOK
  <2>2. answers' \in Seq(OnTheWay) /\ asked' \subseteq [kind : Kinds, id : Nat]
    BY <1>1
  <2>3. TypeOK'
    BY <1>1, <2>1, <2>2 DEF IInv, TypeOK, view
  <2>4. subs' > 0 /\ loads' > 0
    BY <1>1 DEF IInv, ConnOK
  <2> QED
    BY <1>1, <2>3, <2>4 DEF ConnOK
<1>3. QueueOK' /\ ListsOK'
  BY <1>1 DEF IInv, TypeOK, QueueOK, ListsOK, OwnAnswers
<1>4. LoadOK'
  BY <1>1 DEF IInv, LoadOK, OnItsWay
<1> QED
  BY <1>1, <1>2, <1>3, <1>4, SameShown DEF IInv

LEMMA EditKeeps ==
    ASSUME IInv, Edit
    PROVE  IInv'
<1>1. UNCHANGED <<wire, lists, view, current>> /\ db' = db + 1
  BY DEF Edit
<1>2. TypeOK' /\ ConnOK'
  BY <1>1 DEF IInv, TypeOK, ConnOK, view, wire
<1>3. \A i \in 1 .. Len(answers) : answers[i].version \in Nat
  BY Elements DEF IInv
<1>4. \A k \in Kinds : lists[k] # NoAnswer => lists[k].version \in Nat
  BY DEF IInv, TypeOK, Answers
<1>5. QueueOK'
  BY <1>1, <1>3 DEF IInv, TypeOK, QueueOK, wire
<1>6. ListsOK'
  BY <1>1, <1>4 DEF IInv, TypeOK, ListsOK, OwnAnswers, wire
<1>7. LoadOK'
  BY <1>1 DEF IInv, LoadOK, OnItsWay, wire
<1> QED
  BY <1>1, <1>2, <1>5, <1>6, <1>7, SameShown DEF IInv

\* An answer carries the newest version and goes behind the others.
LEMMA Queueing ==
    ASSUME IInv, NEW a \in OnTheWay, a.version = db, answers' = Append(answers, a),
           UNCHANGED <<lists, db, current>>
    PROVE  /\ QueueOK' /\ ListsOK'
           /\ answers' \in Seq(OnTheWay) /\ Len(answers') = Len(answers) + 1
           /\ \A i \in 1 .. Len(answers) : answers'[i] = answers[i]
           /\ answers'[Len(answers) + 1] = a
<1>1. answers \in Seq(OnTheWay) /\ Len(answers) \in Nat /\ db \in Nat
  BY DEF IInv, TypeOK
<1>2. /\ answers' \in Seq(OnTheWay) /\ Len(answers') = Len(answers) + 1
      /\ \A i \in 1 .. Len(answers) : answers'[i] = answers[i]
      /\ answers'[Len(answers) + 1] = a
  BY <1>1
<1>3. \A i \in 1 .. Len(answers') : i \in 1 .. Len(answers) \/ answers'[i] = a
  BY <1>1, <1>2
<1>4. \A i \in 1 .. Len(answers) : answers[i].version \in Nat /\ answers[i].version <= db
  BY Elements DEF IInv, QueueOK
<1>5. QueueOK'
  <2>1. current' <= db'
    BY DEF IInv, QueueOK
  <2>2. ASSUME NEW i \in 1 .. Len(answers')
        PROVE  /\ answers'[i].version <= db'
               /\ \A j \in 1 .. Len(answers') : i <= j => answers'[i].version <= answers'[j].version
    <3>1. CASE i \in 1 .. Len(answers)
      BY <1>1, <1>2, <1>3, <1>4, <3>1 DEF IInv, QueueOK
    <3>2. CASE i = Len(answers) + 1
      <4>1. \A j \in 1 .. Len(answers') : i <= j => j = i
        BY <1>1, <1>2, <3>2
      <4> QED
        BY <1>1, <1>2, <3>2, <4>1
    <3> QED
      BY <1>1, <1>2, <3>1, <3>2
  <2> QED
    BY <2>1, <2>2 DEF QueueOK
<1>6. ListsOK'
  <2>1. OwnAnswers'
    BY DEF IInv, ListsOK, OwnAnswers
  <2>2. ASSUME NEW k \in Kinds, lists[k] # NoAnswer, NEW i \in 1 .. Len(answers')
        PROVE  lists[k].version <= db /\ lists[k].version <= answers'[i].version
    BY <1>2, <1>3, <2>2 DEF IInv, ListsOK
  <2>3. \A k \in Kinds : lists[k] # NoAnswer => lists[k].version <= db
    BY DEF IInv, ListsOK
  <2> QED
    BY <2>1, <2>2, <2>3 DEF ListsOK
<1> QED
  BY <1>2, <1>5, <1>6

LEMMA AnswerKeeps ==
    ASSUME IInv, NEW r \in asked, Answer(r)
    PROVE  IInv'
<1> DEFINE a == [kind |-> r.kind, id |-> r.id, version |-> db]
<1>1. /\ UNCHANGED <<connected, deferred, subs, loads, drops, lists, db, view, current>> /\ connected
      /\ asked' = asked \ {r} /\ answers' = Append(answers, a)
  BY DEF Answer
<1>2. r \in [kind : Kinds, id : Nat] /\ db \in Nat
  BY DEF IInv, TypeOK
<1>3. a \in OnTheWay /\ a.version = db /\ a.kind = r.kind /\ a.id = r.id
  BY <1>2 DEF OnTheWay
<1> HIDE DEF a
<1>4. /\ QueueOK' /\ ListsOK'
      /\ answers' \in Seq(OnTheWay) /\ Len(answers') = Len(answers) + 1
      /\ \A i \in 1 .. Len(answers) : answers'[i] = answers[i]
      /\ answers'[Len(answers) + 1] = a
  BY <1>1, <1>3, Queueing
<1>5. TypeOK' /\ ConnOK'
  BY <1>1, <1>4 DEF IInv, TypeOK, ConnOK, view
<1>6. PICK n \in Nat : n = Len(answers)
  BY Elements DEF IInv
<1>7. ASSUME current # 0, NEW k \in Kinds
      PROVE  \/ Request(k, loads) \in asked'
             \/ \E i \in 1 .. Len(answers') : OnItsWay(k, i)'
             \/ lists[k] # NoAnswer /\ lists[k].version >= current
  <2>1. CASE Request(k, loads) = r
    <3>1. a.kind = k /\ a.id = loads
      BY <1>3, <2>1 DEF Request
    <3>2. a.version >= current
      BY <1>2, <1>3 DEF IInv, TypeOK, QueueOK
    <3>3. OnItsWay(k, n + 1)' /\ n + 1 \in 1 .. Len(answers')
      BY <1>1, <1>4, <1>6, <3>1, <3>2 DEF OnItsWay
    <3> QED
      BY <3>3
  <2>2. CASE Request(k, loads) # r /\ Request(k, loads) \in asked
    BY <1>1, <2>2
  <2>3. CASE \E i \in 1 .. Len(answers) : OnItsWay(k, i)
    <3>1. PICK i \in 1 .. Len(answers) : OnItsWay(k, i)
      BY <2>3
    <3>2. OnItsWay(k, i)' /\ i \in 1 .. Len(answers')
      BY <1>1, <1>4, <1>6, <3>1 DEF OnItsWay
    <3> QED
      BY <3>2
  <2> QED
    BY <1>7, <2>1, <2>2, <2>3 DEF IInv, LoadOK
<1>8. LoadOK'
  BY <1>1, <1>7 DEF LoadOK, Request
<1> QED
  BY <1>1, <1>4, <1>5, <1>8, SameShown DEF IInv

LEMMA AnswerToOthersKeeps ==
    ASSUME IInv, NEW k \in Kinds, AnswerToOthers(k)
    PROVE  IInv'
<1> DEFINE a == [kind |-> k, id |-> 0, version |-> db]
<1>1. /\ UNCHANGED <<connected, deferred, subs, loads, asked, drops, lists, db, view, current>>
      /\ connected /\ answers' = Append(answers, a)
  BY DEF AnswerToOthers
<1>2. a \in OnTheWay /\ a.version = db
  BY DEF OnTheWay, IInv, TypeOK
<1> HIDE DEF a
<1>3. /\ QueueOK' /\ ListsOK'
      /\ answers' \in Seq(OnTheWay) /\ Len(answers') = Len(answers) + 1
      /\ \A i \in 1 .. Len(answers) : answers'[i] = answers[i]
  BY <1>1, <1>2, Queueing
<1>4. TypeOK' /\ ConnOK'
  BY <1>1, <1>3 DEF IInv, TypeOK, ConnOK, view
<1>5. Len(answers) \in Nat
  BY DEF IInv, TypeOK
<1>6. \A i \in 1 .. Len(answers), l \in Kinds : OnItsWay(l, i) => OnItsWay(l, i)' /\ i \in 1 .. Len(answers')
  BY <1>1, <1>3, <1>5 DEF OnItsWay
<1>7. LoadOK'
  BY <1>1, <1>6 DEF IInv, LoadOK
<1> QED
  BY <1>1, <1>3, <1>4, <1>7, SameShown DEF IInv

-----------------------------------------------------------------------------
(* A report is stored in the list it belongs to, and no other.               *)

\* A page that takes lists that only get newer keeps up with them.
LEMMA TakingIsForward ==
    ASSUME IInv, lists' \in [Kinds -> Answers \cup {NoAnswer}], NotOlder(lists', lists),
           shown' \in [Kinds -> Answers \cup {NoAnswer}],
           \A k \in Kinds : shown'[k] = shown[k] \/ shown'[k] = lists'[k]
    PROVE  /\ NotOlder(shown', shown)
           /\ \A k \in Kinds : shown'[k] # NoAnswer =>
                 lists'[k] # NoAnswer /\ shown'[k].version <= lists'[k].version
<1>1. ASSUME NEW k \in Kinds
      PROVE  /\ shown[k] # NoAnswer => shown[k].version \in Nat
             /\ lists[k] # NoAnswer => lists[k].version \in Nat
             /\ lists'[k] # NoAnswer => lists'[k].version \in Nat
  BY DEF IInv, TypeOK, Answers
<1>2. ASSUME NEW k \in Kinds, shown[k] # NoAnswer
      PROVE  /\ shown'[k] # NoAnswer /\ lists'[k] # NoAnswer
             /\ shown'[k].version >= shown[k].version
             /\ lists'[k].version >= shown[k].version
  <2>1. lists[k] # NoAnswer /\ shown[k].version <= lists[k].version
    BY <1>2 DEF IInv, ShownOK
  <2>2. lists'[k] # NoAnswer /\ lists'[k].version >= lists[k].version
    BY <2>1 DEF NotOlder
  <2> QED
    BY <1>1, <1>2, <2>1, <2>2
<1>3. NotOlder(shown', shown)
  BY <1>2 DEF NotOlder
<1>4. ASSUME NEW k \in Kinds, shown'[k] # NoAnswer
      PROVE  lists'[k] # NoAnswer /\ shown'[k].version <= lists'[k].version
  <2>1. CASE shown'[k] = lists'[k]
    BY <1>1, <1>4, <2>1
  <2>2. CASE shown'[k] = shown[k]
    BY <1>1, <1>2, <1>4, <2>2
  <2> QED
    BY <2>1, <2>2
<1> QED
  BY <1>3, <1>4

\* What a page takes are lists of the registry, those it shows in any case.
LEMMA TakenLists ==
    ASSUME NEW ls \in [Kinds -> Answers \cup {NoAnswer}], NEW was \in [Kinds -> Answers \cup {NoAnswer}]
    PROVE  /\ Taken(ls, was) \in [Kinds -> Answers \cup {NoAnswer}]
           /\ \A k \in Kinds : Taken(ls, was)[k] = was[k] \/ Taken(ls, was)[k] = ls[k]
           /\ \A k \in ShownBy(page) : k \in Kinds /\ Taken(ls, was)[k] = ls[k]
<1>1. CASE page = "dashboard"
  BY <1>1 DEF Taken, Figures, ShownBy, Kinds, Matched
<1>2. CASE page # "dashboard" /\ page \in Kinds
  BY <1>2 DEF Taken, TableData, ShownBy
<1>3. CASE page # "dashboard" /\ page \notin Kinds
  BY <1>3 DEF Taken, TableData, ShownBy
<1> QED
  BY <1>1, <1>2, <1>3

\* A report that belongs to a list of things or devices answers the last load.
LEMMA StoredAnswer ==
    ASSUME NEW a \in OnTheWay, NEW k \in Kinds, Stores(a, k)
    PROVE  a.kind = k /\ (k \in Matched => a.id = loads)
  BY DEF Stores, Matched, Request, thingsQueryRequestId, devicesQueryRequestId

LEMMA LastLoadIsStored ==
    ASSUME NEW a \in OnTheWay, a.id = loads
    PROVE  Stores(a, a.kind)
  BY DEF Stores, OnTheWay, Kinds, Matched, Request, thingsQueryRequestId, devicesQueryRequestId

LEMMA OnReportKeeps ==
    ASSUME IInv, OnReport
    PROVE  IInv' /\ NotOlder(lists', lists) /\ NotOlder(shown', shown)
<1> DEFINE a == Head(answers)
           stored == [kind |-> a.kind, own |-> a.id # 0, version |-> a.version]
<1>1. /\ UNCHANGED <<connected, deferred, subs, loads, asked, drops, db, page, current>>
      /\ answers # <<>> /\ answers' = Tail(answers)
      /\ lists' = [k \in Kinds |-> IF subs > 0 /\ Stores(a, k) THEN stored ELSE lists[k]]
      /\ IF \E k \in Kinds : Stores(a, k) THEN Notify(lists') ELSE UNCHANGED <<shown, pageSub>>
  BY DEF OnReport
<1>2. /\ Len(answers) \in Nat /\ Len(answers) > 0 /\ a = answers[1] /\ a \in OnTheWay
      /\ Len(answers') = Len(answers) - 1 /\ answers' \in Seq(OnTheWay)
      /\ \A i \in 1 .. Len(answers') : answers'[i] = answers[i + 1] /\ i + 1 \in 1 .. Len(answers)
  BY <1>1 DEF IInv, TypeOK
<1>3. stored \in Answers /\ stored # NoAnswer /\ stored.kind = a.kind /\ stored.version = a.version
      /\ (stored.own <=> a.id # 0)
  <2>1. (a.id # 0) \in BOOLEAN /\ a.kind \in Kinds /\ a.version \in Nat
    BY <1>2 DEF OnTheWay
  <2> HIDE DEF a
  <2>2. stored \in Answers
    BY <2>1 DEF Answers
  <2>3. stored.kind = a.kind /\ stored.version = a.version
    OBVIOUS
  <2>4. stored.own <=> a.id # 0
    OBVIOUS
  <2> HIDE DEF stored
  <2> QED
    BY <2>2, <2>3, <2>4, NamesAssumption
<1>4. subs > 0 /\ loads > 0 /\ connected
  BY <1>1 DEF IInv, ConnOK
<1> HIDE DEF a, stored
<1>5. lists' \in [Kinds -> Answers \cup {NoAnswer}]
  BY <1>1, <1>3 DEF IInv, TypeOK
<1>6. \A k \in Kinds : lists'[k] = IF Stores(a, k) THEN stored ELSE lists[k]
  BY <1>1, <1>4
<1>7. NotOlder(lists', lists)
  <2>1. ASSUME NEW k \in Kinds, lists[k] # NoAnswer
        PROVE  lists'[k] # NoAnswer /\ lists'[k].version >= lists[k].version
    <3>1. lists[k].version \in Nat
      BY <2>1 DEF IInv, TypeOK, Answers
    <3>2. lists[k].version <= a.version
      BY <1>2, <2>1 DEF IInv, ListsOK
    <3>3. a.version \in Nat
      BY <1>2 DEF OnTheWay
    <3> QED
      BY <1>3, <1>6, <2>1, <3>1, <3>2, <3>3
  <2> QED
    BY <2>1 DEF NotOlder
<1>8. /\ shown' \in [Kinds -> Answers \cup {NoAnswer}] /\ pageSub' \in BOOLEAN
      /\ \A k \in Kinds : shown'[k] = shown[k] \/ shown'[k] = lists'[k]
      /\ pageSub' => pageSub
      /\ pageSub /\ IsRegistryInitialized(lists') =>
            \A k \in ShownBy(page) : shown'[k] = lists'[k]
      /\ ~pageSub => shown' = shown
  <2>1. shown \in [Kinds -> Answers \cup {NoAnswer}] /\ pageSub \in BOOLEAN
    BY DEF IInv, TypeOK
  <2>2. CASE \A k \in Kinds : ~Stores(a, k)
    <3>1. lists' = lists
      BY <1>6, <1>5, <2>2 DEF IInv, TypeOK
    <3>2. UNCHANGED <<shown, pageSub>>
      BY <1>1, <2>2
    <3>3. pageSub => page # "none"
      BY DEF IInv, ShownOK
    <3> QED
      BY <2>1, <3>1, <3>2, <3>3 DEF IInv, ShownOK, PageFollowsRegistry
  <2>3. CASE pageSub /\ IsRegistryInitialized(lists') /\ \E k \in Kinds : Stores(a, k)
    <3>1. shown' = Taken(lists', shown) /\ pageSub' \in SubscribedAfter(lists')
      BY <1>1, <1>4, <2>3 DEF Notify
    <3>2. pageSub' \in BOOLEAN
      BY <3>1 DEF SubscribedAfter, Lookups
    <3> QED
      BY <1>5, <2>1, <2>3, <3>1, <3>2, TakenLists
  <2>4. CASE ~(pageSub /\ IsRegistryInitialized(lists')) /\ \E k \in Kinds : Stores(a, k)
    <3>1. UNCHANGED <<shown, pageSub>>
      BY <1>1, <2>4 DEF Notify
    <3> QED
      BY <2>1, <2>4, <3>1
  <2> QED
    BY <2>2, <2>3, <2>4
<1>9. TypeOK' /\ ConnOK'
  BY <1>1, <1>2, <1>4, <1>5, <1>8 DEF IInv, TypeOK, ConnOK
<1>10. QueueOK'
  BY <1>1, <1>2 DEF IInv, QueueOK
<1>11. ListsOK'
  <2>1. ASSUME NEW k \in Kinds, lists'[k] # NoAnswer
        PROVE  /\ lists'[k].kind = k
               /\ k \in Matched => lists'[k].own
               /\ lists'[k].version <= db
               /\ \A i \in 1 .. Len(answers') : lists'[k].version <= answers'[i].version
    <3>1. CASE Stores(a, k)
      <4>1. lists'[k] = stored
        BY <1>6, <3>1
      <4>2. a.kind = k /\ (k \in Matched => a.id # 0)
        BY <1>2, <1>4, <3>1, StoredAnswer
      <4>3. a.version <= db /\ \A i \in 1 .. Len(answers') : a.version <= answers'[i].version
        <5>1. 1 \in 1 .. Len(answers) /\ \A i \in 1 .. Len(answers') : 1 <= i + 1
          BY <1>2
        <5> QED
          BY <1>2, <5>1 DEF IInv, QueueOK
      <4> QED
        BY <1>3, <4>1, <4>2, <4>3
    <3>2. CASE ~Stores(a, k)
      <4>1. lists'[k] = lists[k]
        BY <1>6, <3>2
      <4> QED
        BY <1>2, <2>1, <4>1 DEF IInv, ListsOK, OwnAnswers
    <3> QED
      BY <3>1, <3>2
  <2> QED
    BY <1>1, <2>1 DEF ListsOK, OwnAnswers
<1>12. ShownOK' /\ NotOlder(shown', shown)
  <2>1. /\ NotOlder(shown', shown)
        /\ \A k \in Kinds : shown'[k] # NoAnswer =>
                 lists'[k] # NoAnswer /\ shown'[k].version <= lists'[k].version
    BY <1>5, <1>7, <1>8, TakingIsForward
  <2>2. PageFollowsRegistry'
    BY <1>1, <1>8 DEF PageFollowsRegistry, ShownBy
  <2>3. /\ page' \in {"none", "wizard"} => ~pageSub'
        /\ page' = "none" => \A k \in Kinds : shown'[k] = NoAnswer
    BY <1>1, <1>8 DEF IInv, ShownOK
  <2> QED
    BY <2>1, <2>2, <2>3 DEF ShownOK
<1>13. LoadOK'
  <2>1. SUFFICES ASSUME current # 0, NEW k \in Kinds
                 PROVE  \/ Request(k, loads) \in asked
                        \/ \E i \in 1 .. Len(answers') : OnItsWay(k, i)'
                        \/ lists'[k] # NoAnswer /\ lists'[k].version >= current
    BY <1>1 DEF LoadOK, Request
  <2>2. CASE Request(k, loads) \in asked
    BY <2>2
  <2>3. CASE \E i \in 1 .. Len(answers) : OnItsWay(k, i)
    <3>1. PICK i \in 1 .. Len(answers) : OnItsWay(k, i)
      BY <2>3
    <3>2. CASE i = 1
      <4>1. a.kind = k /\ a.id = loads /\ a.version >= current
        BY <1>2, <3>1, <3>2 DEF OnItsWay
      <4>2. Stores(a, k)
        BY <1>2, <4>1, LastLoadIsStored
      <4> QED
        BY <1>3, <1>6, <4>1, <4>2
    <3>3. CASE i # 1
      <4>1. i - 1 \in 1 .. Len(answers') /\ answers'[i - 1] = answers[i]
        BY <1>2, <3>3
      <4>2. OnItsWay(k, i - 1)'
        BY <1>1, <3>1, <4>1 DEF OnItsWay
      <4> QED
        BY <4>1, <4>2
    <3> QED
      BY <3>2, <3>3
  <2>4. CASE lists[k] # NoAnswer /\ lists[k].version >= current
    <3>1. lists'[k] # NoAnswer /\ lists'[k].version >= lists[k].version
      BY <1>7, <2>4 DEF NotOlder
    <3>2. lists'[k].version \in Nat /\ lists[k].version \in Nat /\ current \in Nat
      BY <1>5, <2>4, <3>1 DEF IInv, TypeOK, Answers
    <3> QED
      BY <2>4, <3>1, <3>2
  <2> QED
    BY <2>1, <2>2, <2>3, <2>4 DEF IInv, LoadOK
<1> QED
  BY <1>7, <1>9, <1>10, <1>11, <1>12, <1>13 DEF IInv

-----------------------------------------------------------------------------
(* The pages.                                                                *)

LEMMA SameWire ==
    ASSUME IInv, UNCHANGED <<wire, lists, db, current>>, shown' \in [Kinds -> Answers \cup {NoAnswer}],
           pageSub' \in BOOLEAN
    PROVE  TypeOK' /\ ConnOK' /\ QueueOK' /\ ListsOK' /\ LoadOK' /\ NotOlder(lists', lists)
<1>1. TypeOK' /\ ConnOK'
  BY DEF IInv, TypeOK, ConnOK, wire
<1>2. QueueOK' /\ ListsOK'
  BY DEF IInv, QueueOK, ListsOK, OwnAnswers, wire
<1>3. LoadOK'
  BY DEF IInv, LoadOK, OnItsWay, wire
<1>4. NotOlder(lists', lists)
  BY SameNotOlder DEF IInv, TypeOK
<1> QED
  BY <1>1, <1>2, <1>3, <1>4

\* A page that has just opened is not told of the lists it took.
LEMMA OpenPageKeeps ==
    ASSUME IInv, NEW p \in Pages, OpenPage(p)
    PROVE  IInv' /\ NotOlder(lists', lists) /\ page' # page
<1>1. /\ UNCHANGED <<wire, lists, db, current>> /\ page = "none" /\ p # "wizard" /\ page' = p
      /\ pageSub' = ~IsRegistryInitialized(lists)
      /\ shown' = [k \in Kinds |-> IF k \in ShownBy(p) /\ ~pageSub' THEN lists[k] ELSE NoAnswer]
  BY DEF OpenPage, Subscribes
<1>2. p # "none"
  BY NamesAssumption
<1>3. lists \in [Kinds -> Answers \cup {NoAnswer}]
  BY DEF IInv, TypeOK
<1>4. shown' \in [Kinds -> Answers \cup {NoAnswer}] /\ \A k \in Kinds : shown'[k] \in {lists[k], NoAnswer}
  BY <1>1, <1>3
<1>5. pageSub' \in BOOLEAN
  BY <1>1 DEF IsRegistryInitialized
<1>6. \A k \in Kinds : lists[k] # NoAnswer => lists[k].version \in Nat
  BY <1>3 DEF Answers
<1>7. ShownOK'
  <2>1. ~(pageSub' /\ IsRegistryInitialized(lists'))
    BY <1>1
  <2>2. PageFollowsRegistry'
    BY <2>1 DEF PageFollowsRegistry
  <2>3. \A k \in Kinds : shown'[k] # NoAnswer =>
           lists'[k] # NoAnswer /\ shown'[k].version <= lists'[k].version
    BY <1>1, <1>4, <1>6
  <2> QED
    BY <1>1, <1>2, <2>2, <2>3 DEF ShownOK
<1> QED
  BY <1>1, <1>2, <1>4, <1>5, <1>7, SameWire DEF IInv

LEMMA RowEditedKeeps ==
    ASSUME IInv, RowEdited
    PROVE  IInv' /\ NotOlder(lists', lists) /\ NotOlder(shown', shown)
<1>1. UNCHANGED <<wire, lists, db, page, pageSub, current>> /\ shown' = Taken(lists, shown)
  BY DEF RowEdited
<1>2. page \in Kinds /\ shown[page] # NoAnswer /\ page # "none"
  BY DEF RowEdited, IInv, ShownOK
<1>3. /\ shown' \in [Kinds -> Answers \cup {NoAnswer}]
      /\ \A k \in Kinds : shown'[k] = shown[k] \/ shown'[k] = lists'[k]
      /\ \A k \in ShownBy(page) : k \in Kinds /\ shown'[k] = lists[k]
  BY <1>1, TakenLists DEF IInv, TypeOK
<1>4. /\ TypeOK' /\ ConnOK' /\ QueueOK' /\ ListsOK' /\ LoadOK' /\ NotOlder(lists', lists)
      /\ lists' \in [Kinds -> Answers \cup {NoAnswer}]
  BY <1>1, <1>3, SameWire DEF IInv, TypeOK
<1>5. /\ NotOlder(shown', shown)
      /\ \A k \in Kinds : shown'[k] # NoAnswer =>
            lists'[k] # NoAnswer /\ shown'[k].version <= lists'[k].version
  BY <1>3, <1>4, TakingIsForward
<1>6. ShownOK'
  BY <1>1, <1>2, <1>3, <1>5 DEF IInv, ShownOK, PageFollowsRegistry, ShownBy
<1> QED
  BY <1>4, <1>5, <1>6 DEF IInv

\* The wizard takes some lists when it needs them, and is told of none.
LEMMA WizardStep ==
    ASSUME IInv, UNCHANGED <<wire, lists, db, pageSub, current>>, page \in {"none", "wizard"},
           page' = "wizard", NEW kinds, TakeNow(kinds) \/ UNCHANGED shown
    PROVE  IInv' /\ NotOlder(lists', lists) /\ NotOlder(shown', shown)
<1>1. /\ shown' \in [Kinds -> Answers \cup {NoAnswer}]
      /\ \A k \in Kinds : shown'[k] = shown[k] \/ shown'[k] = lists'[k]
  BY DEF TakeNow, IInv, TypeOK
<1>2. /\ TypeOK' /\ ConnOK' /\ QueueOK' /\ ListsOK' /\ LoadOK' /\ NotOlder(lists', lists)
      /\ lists' \in [Kinds -> Answers \cup {NoAnswer}]
  BY <1>1, SameWire DEF IInv, TypeOK
<1>3. /\ NotOlder(shown', shown)
      /\ \A k \in Kinds : shown'[k] # NoAnswer =>
            lists'[k] # NoAnswer /\ shown'[k].version <= lists'[k].version
  BY <1>1, <1>2, TakingIsForward
<1>4. ~pageSub /\ ~pageSub'
  BY DEF IInv, ShownOK
<1>5. ShownOK'
  BY <1>3, <1>4 DEF ShownOK, PageFollowsRegistry
<1> QED
  BY <1>2, <1>3, <1>5 DEF IInv

LEMMA ClosePageKeeps ==
    ASSUME IInv, ClosePage
    PROVE  IInv' /\ NotOlder(lists', lists) /\ page' # page
<1>1. /\ UNCHANGED <<wire, lists, db, current>> /\ page # "none" /\ page' = "none" /\ pageSub' = FALSE
      /\ shown' = [k \in Kinds |-> NoAnswer]
  BY DEF ClosePage
<1>2. shown' \in [Kinds -> Answers \cup {NoAnswer}] /\ \A k \in Kinds : shown'[k] = NoAnswer
  BY <1>1
<1>3. ShownOK'
  BY <1>1, <1>2 DEF ShownOK, PageFollowsRegistry
<1> QED
  BY <1>1, <1>2, <1>3, SameWire DEF IInv

-----------------------------------------------------------------------------

LEMMA InitIInv == Init => IInv
<1> SUFFICES ASSUME Init PROVE IInv
  OBVIOUS
<1>1. subs \in {0, 1} /\ subs = loads /\ (connected => subs = 1) /\ current \in {0, 1}
  BY DEF Init
<1>2. asked \subseteq [kind : Kinds, id : Nat]
  BY DEF Init, Request
<1>3. answers = <<>> /\ answers \in Seq(OnTheWay)
  BY DEF Init
<1>4. TypeOK
  BY <1>1, <1>2, <1>3 DEF Init, TypeOK
<1>5. ConnOK
  <2>1. CASE connected
    BY <1>1, <2>1 DEF Init, ConnOK
  <2>2. CASE ~connected
    BY <1>1, <1>3, <2>2 DEF Init, ConnOK
  <2> QED
    BY <2>1, <2>2
<1>6. QueueOK /\ ListsOK /\ ShownOK
  BY <1>1, <1>3 DEF Init, QueueOK, ListsOK, OwnAnswers, ShownOK, PageFollowsRegistry
<1>7. LoadOK
  BY DEF Init, LoadOK
<1> QED
  BY <1>4, <1>5, <1>6, <1>7 DEF IInv

\* Every step keeps the invariant and takes neither the lists nor the page back.
LEMMA NextKeeps ==
    ASSUME IInv, [Next]_vars
    PROVE  IInv' /\ NotOlder(lists', lists) /\ (page' = page => NotOlder(shown', shown))
<1>0. NotOlder(lists, lists) /\ NotOlder(shown, shown)
  BY SameNotOlder DEF IInv, TypeOK
<1>1. CASE UNCHANGED vars
  <2>1. UNCHANGED <<wire, lists, db, view, current>>
    BY <1>1 DEF vars
  <2>2. shown' \in [Kinds -> Answers \cup {NoAnswer}] /\ pageSub' \in BOOLEAN
    BY <2>1 DEF view, IInv, TypeOK
  <2> QED
    BY <1>0, <2>1, <2>2, SameWire, SameShown DEF view, IInv
<1>2. CASE Connect \/ Disconnect \/ SyncTimer \/ Edit \/ (\E r \in asked : Answer(r))
           \/ (\E k \in Kinds : AnswerToOthers(k))
  <2>1. UNCHANGED <<lists, view>>
    BY <1>2 DEF Connect, Disconnect, SyncTimer, Edit, Answer, AnswerToOthers
  <2>2. IInv'
    BY <1>2, ConnectKeeps, DisconnectKeeps, SyncTimerKeeps, EditKeeps, AnswerKeeps, AnswerToOthersKeeps
  <2> QED
    BY <1>0, <2>1, <2>2 DEF view
<1>3. CASE OpenDashboard \/ (\E p \in Pages \ {"dashboard"} : OpenPage(p)) \/ ClosePage
  BY <1>3, OpenPageKeeps, ClosePageKeeps DEF OpenDashboard
<1>4. CASE OpenWizard
  <2>1. UNCHANGED <<wire, lists, db, pageSub, current>> /\ page = "none" /\ page' = "wizard"
    BY <1>4 DEF OpenWizard
  <2>2. TakeNow({"devices", "services"}) \/ UNCHANGED shown
    BY <1>4 DEF OpenWizard
  <2> QED
    BY <2>1, <2>2, WizardStep
<1>5. CASE SelectLocation
  <2>1. UNCHANGED <<wire, lists, db, pageSub, current>> /\ page = "wizard" /\ page' = "wizard"
    BY <1>5 DEF SelectLocation
  <2>2. TakeNow({"devices"})
    BY <1>5 DEF SelectLocation
  <2> QED
    BY <2>1, <2>2, WizardStep
<1>6. CASE SelectThing
  <2>1. UNCHANGED <<wire, lists, db, pageSub, current>> /\ page = "wizard" /\ page' = "wizard"
    BY <1>6 DEF SelectThing
  <2>2. TakeNow({"services"})
    BY <1>6 DEF SelectThing
  <2> QED
    BY <2>1, <2>2, WizardStep
<1> QED
  BY <1>1, <1>2, <1>3, <1>4, <1>5, <1>6, OnReportKeeps, RowEditedKeeps DEF Next

\* Things and devices are never exchanged (configureFimpListener matches their
\* reports with the ids of the last load), and once every answer to the last
\* load has come, every list is at least as new as the database was then,
\* whatever other browsers asked and however often the connection was lost.
THEOREM ListsAreLoaded == Spec => []LoadedAtRest
<1>1. IInv => LoadedAtRest
  <2> SUFFICES ASSUME IInv PROVE LoadedAtRest
    OBVIOUS
  <2>1. OwnAnswers
    BY DEF IInv, ListsOK
  <2>2. ASSUME current # 0, asked = {}, answers = <<>>, NEW k \in Kinds
        PROVE  lists[k] # NoAnswer /\ lists[k].version >= current
    <3>1. ~ \E i \in 1 .. Len(answers) : OnItsWay(k, i)
      BY <2>2
    <3> QED
      BY <2>2, <3>1 DEF IInv, LoadOK
  <2> QED
    BY <2>1, <2>2 DEF LoadedAtRest
<1> QED
  BY <1>1, InitIInv, NextKeeps, PTL DEF Spec

\* A page that is told of the registry (notifyRegistryState) shows what the
\* registry has, from the moment it is initialised on, through every later load.
THEOREM PagesFollow == Spec => []PageFollowsRegistry
<1>1. IInv => PageFollowsRegistry
  BY DEF IInv, ShownOK
<1> QED
  BY <1>1, InitIInv, NextKeeps, PTL DEF Spec

\* Neither a list of the registry nor what an open page shows of it goes back to
\* an older state of the database, in whatever order the requests of whichever
\* browsers are answered.
THEOREM RegistryGoesForward == Spec => ListsGoForward
<1>1. IInv /\ [Next]_vars => IInv'
  BY NextKeeps
<1>2. IInv /\ [Next]_vars =>
        [NotOlder(lists', lists) /\ (page' = page => NotOlder(shown', shown))]_vars
  BY NextKeeps
<1> QED
  BY <1>1, <1>2, InitIInv, PTL DEF Spec, ListsGoForward
=============================================================================
