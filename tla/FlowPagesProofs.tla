--------------------------- MODULE FlowPagesProofs ---------------------------
(***************************************************************************)
(* Proofs about FlowPages, for any flows, variables and bound.  Requests    *)
(* wait in one queue and reports in another; what a page or the service     *)
(* shows may be old as long as one of the queues holds what will renew it,  *)
(* and so may every report that waits: what renews it comes after it.       *)
(***************************************************************************)
EXTENDS FlowPages, SequenceTheorems, TLAPS

Requests ==
    {GetRecords(c) : c \in Contexts} \cup {GetList}
    \cup {<<"cmd.flow.ctx_update_record", c, n>> : c \in Contexts, n \in Names}
    \cup {<<"cmd.flow.ctx_delete", c, n>> : c \in Contexts, n \in Names}
    \cup {<<"cmd.flow.ctrl", f, op>> : f \in Flows, op \in {"RUNNING", "STOPPED"}}
    \cup {<<"cmd.flow.delete", f>> : f \in Flows} \cup {<<"cmd.flow.import", f>> : f \in Flows}

FlowStates == [Flows -> {"RUNNING", "STOPPED", "gone"}]

Reports ==
    {<<"evt.flow.ctx_records_report", names>> : names \in SUBSET Names}
    \cup {<<"evt.flow.list_report", fs>> : fs \in FlowStates}
    \cup {<<x>> : x \in ContextChanged} \cup {<<x>> : x \in ListChanged}

TypeOK ==
    /\ store \in [Contexts -> SUBSET Names] /\ state \in FlowStates /\ online \in BOOLEAN
    /\ requests \in Seq(Requests) /\ reports \in Seq(Reports)
    /\ page \in {NoPage, Overview} \cup {Selector(f) : f \in Flows} \cup {Context(c) : c \in Contexts}
    /\ ~OnContext => dialog = "none"

RecordsReport(i) == reports[i][1] = "evt.flow.ctx_records_report"
ListReport(i) == reports[i][1] = "evt.flow.list_report"
Asked(r) == \E i \in 1 .. Len(requests) : requests[i] = r

\* A flow that is listed is as tpflow has it, or a report or an answer still
\* to come makes the list load again.
ListOK ==
    /\ page = Overview /\ ~online => connSub
    /\ \A i \in 1 .. Len(reports) : ListReport(i) =>
          \/ reports[i][2] = state
          \/ \E j \in 1 .. Len(reports) : j > i /\ reports[j][1] \in ListChanged
    /\ page = Overview /\ online =>
          \/ flows = state \/ Asked(GetList)
          \/ \E i \in 1 .. Len(reports) : ListReport(i) \/ reports[i][1] \in ListChanged

\* On the page of global variables no flow's records are asked for last, and
\* what is old, in the table or on its way, is followed by what is newer.
Renewed(i) ==
    \/ Asked(GetRecords("global"))
    \/ \E j \in 1 .. Len(reports) : j > i /\ (RecordsReport(j) \/ reports[j][1] \in ContextChanged)
GlobalPageOK ==
    page = Context("global") =>
        /\ \A i \in 1 .. Len(requests) : requests[i][1] = "cmd.flow.ctx_get_records" =>
              requests[i] = GetRecords("global")
                \/ \E j \in 1 .. Len(requests) : j > i /\ requests[j] = GetRecords("global")
        /\ \A i \in 1 .. Len(reports) : RecordsReport(i) =>
              reports[i][2] = store["global"] \/ Renewed(i)
        /\ shown = Rows(store["global"], "global") \/ Renewed(0)

\* The service that waits for a flow's records gets some, and asks for the
\* global ones then; one that files what it gets as global has them all, but
\* for those it has asked for or that are on their way.
ServiceOK ==
    /\ lastRequestFlowId \notin {"none", "global"} =>
          \/ \E i \in 1 .. Len(requests) : requests[i][1] = "cmd.flow.ctx_get_records"
          \/ \E i \in 1 .. Len(reports) : RecordsReport(i)
    /\ lastRequestFlowId = "global" /\ dialog # "closing" =>
          /\ \A i \in 1 .. Len(requests) :
                requests[i][1] = "cmd.flow.ctx_update_record" /\ requests[i][2] = "global" =>
                  \E j \in 1 .. Len(requests) : j > i /\ requests[j] = GetRecords("global")
          /\ \A n \in store["global"] :
                \/ <<n, TRUE>> \in contextRecords
                \/ Asked(GetRecords("global"))
                \/ \E i \in 1 .. Len(reports) : RecordsReport(i) /\ n \in reports[i][2]

IInv == TypeOK /\ ListOK /\ GlobalPageOK /\ ServiceOK
-----------------------------------------------------------------------------
(* The queues.                                                               *)

LEMMA Kinds ==
    /\ \A c \in Contexts : GetRecords(c) \in Requests /\ GetRecords(c)[1] = "cmd.flow.ctx_get_records"
                           /\ GetRecords(c)[2] = c
    /\ GetList \in Requests /\ GetList[1] = "cmd.flow.get_list"
    /\ "global" \in Contexts
    /\ \A r \in Requests : r[1] = "cmd.flow.ctx_get_records" =>
          \E c \in Contexts : r = GetRecords(c)
  BY DEF GetRecords, GetList, Requests, Contexts

\* The page, told apart by its name.
LEMMA Pages ==
    /\ NoPage[1] = "none" /\ Overview[1] = "overview"
    /\ \A f : Selector(f)[1] = "selector"
    /\ \A c : Context(c)[1] = "context" /\ Context(c)[2] = c
  BY DEF NoPage, Overview, Selector, Context

LEMMA Elements ==
    ASSUME TypeOK
    PROVE  /\ Len(requests) \in Nat /\ Len(reports) \in Nat
           /\ \A i \in 1 .. Len(requests) : requests[i] \in Requests
           /\ \A i \in 1 .. Len(reports) : reports[i] \in Reports
  BY DEF TypeOK

LEMMA Growing ==
    ASSUME TypeOK, NEW m \in Seq(Requests), requests' = requests \o m
    PROVE  /\ requests' \in Seq(Requests)
           /\ Len(m) \in Nat /\ Len(requests') = Len(requests) + Len(m)
           /\ \A i \in 1 .. Len(requests) : i \in 1 .. Len(requests') /\ requests'[i] = requests[i]
           /\ \A i \in 1 .. Len(m) :
                 Len(requests) + i \in 1 .. Len(requests') /\ requests'[Len(requests) + i] = m[i]
           /\ \A i \in 1 .. Len(requests') :
                 i \in 1 .. Len(requests) \/
                 (i > Len(requests) /\ i - Len(requests) \in 1 .. Len(m) /\ requests'[i] = m[i - Len(requests)])
<1>1. requests \in Seq(Requests) /\ Len(requests) \in Nat /\ Len(m) \in Nat
  BY DEF TypeOK
<1>2. /\ Len(requests') = Len(requests) + Len(m) /\ requests' \in Seq(Requests)
      /\ \A i \in 1 .. Len(requests) + Len(m) :
            requests'[i] = IF i <= Len(requests) THEN requests[i] ELSE m[i - Len(requests)]
  BY <1>1
<1> QED
  BY <1>1, <1>2

LEMMA GrowingByOne ==
    ASSUME TypeOK, NEW r \in Requests, requests' = requests \o <<r>>
    PROVE  \E n \in Nat : /\ n = Len(requests) /\ Len(requests') = n + 1
                          /\ n + 1 \in 1 .. Len(requests') /\ requests'[n + 1] = r
                          /\ \A i \in 1 .. Len(requests') : i = n + 1 \/ n + 1 > i
<1> DEFINE m == <<r>>
<1>1. m \in Seq(Requests) /\ Len(m) = 1 /\ m[1] = r /\ 1 \in 1 .. Len(m)
  OBVIOUS
<1> HIDE DEF m
<1>2. requests' = requests \o m
  BY DEF m
<1>3. PICK n \in Nat : n = Len(requests)
  BY Elements
<1>4. Len(requests') = n + 1 /\ n + 1 \in 1 .. Len(requests') /\ requests'[n + 1] = r
  BY <1>1, <1>2, <1>3, Growing
<1> QED
  BY <1>3, <1>4

LEMMA NoMessage ==
    ASSUME TypeOK
    PROVE  <<>> \in Seq(Requests) /\ requests \o <<>> = requests
  BY DEF TypeOK

-----------------------------------------------------------------------------
(* What the pages publish.                                                   *)

LEMMA PublishKeepsList ==
    ASSUME IInv, NEW m \in Seq(Requests), requests' = requests \o m, UNCHANGED <<tpflow, reports>>,
           page' = Overview /\ ~online' => connSub',
           page' = Overview /\ online' =>
               \/ page = Overview /\ online /\ flows' = flows
               \/ \E i \in 1 .. Len(m) : m[i] = GetList
    PROVE  ListOK'
<1>1. Asked(GetList) => Asked(GetList)'
  BY Growing DEF IInv, Asked
<1>2. (\E i \in 1 .. Len(m) : m[i] = GetList) => Asked(GetList)'
  BY Growing DEF IInv, Asked
<1>3. ASSUME NEW i \in 1 .. Len(reports), ListReport(i)'
      PROVE  \/ reports[i][2] = state
             \/ \E j \in 1 .. Len(reports) : j > i /\ reports[j][1] \in ListChanged
  BY <1>3 DEF IInv, ListOK, ListReport
<1>4. ASSUME page' = Overview, online'
      PROVE  \/ flows' = state \/ Asked(GetList)'
             \/ \E i \in 1 .. Len(reports) : ListReport(i)' \/ reports[i][1] \in ListChanged
  BY <1>1, <1>2, <1>4 DEF IInv, ListOK, ListReport
<1> QED
  BY <1>3, <1>4 DEF ListOK, tpflow

LEMMA PublishKeepsGlobalPage ==
    ASSUME IInv, NEW m \in Seq(Requests), requests' = requests \o m, UNCHANGED <<tpflow, reports>>,
           page' = Context("global") =>
               \/ /\ page' = page /\ shown' = shown
                  /\ \A i \in 1 .. Len(m) :
                        m[i][1] = "cmd.flow.ctx_get_records" => m[i] = GetRecords("global")
               \/ m = <<GetRecords("global")>>
    PROVE  GlobalPageOK'
<1> DEFINE g == GetRecords("global")
<1>1. Asked(g) => Asked(g)'
  BY Growing DEF IInv, Asked
<1>2. SUFFICES ASSUME page' = Context("global")
               PROVE  /\ \A i \in 1 .. Len(requests') :
                            requests'[i][1] = "cmd.flow.ctx_get_records" =>
                               requests'[i] = g \/ \E j \in 1 .. Len(requests') : j > i /\ requests'[j] = g
                      /\ \A i \in 1 .. Len(reports) : RecordsReport(i) =>
                            reports[i][2] = store["global"] \/ Renewed(i)'
                      /\ shown' = Rows(store["global"], "global") \/ Renewed(0)'
  BY DEF GlobalPageOK, RecordsReport, tpflow, Rows
<1>3. \A i \in Nat : Renewed(i) => Renewed(i)'
  BY <1>1 DEF Renewed, RecordsReport
<1>4. Len(requests) \in Nat
  BY Elements DEF IInv
<1>5. CASE /\ page' = page /\ shown' = shown
           /\ \A i \in 1 .. Len(m) :
                 m[i][1] = "cmd.flow.ctx_get_records" => m[i] = GetRecords("global")
  <2>1. ASSUME NEW i \in 1 .. Len(requests'), requests'[i][1] = "cmd.flow.ctx_get_records"
        PROVE  requests'[i] = g \/ \E j \in 1 .. Len(requests') : j > i /\ requests'[j] = g
    <3>1. CASE i \in 1 .. Len(requests)
      BY <1>2, <1>5, <2>1, <3>1, Growing DEF IInv, GlobalPageOK
    <3>2. CASE i \notin 1 .. Len(requests)
      BY <1>5, <2>1, <3>2, Growing DEF IInv
    <3> QED
      BY <3>1, <3>2
  <2>2. \A i \in 1 .. Len(reports) : RecordsReport(i) => reports[i][2] = store["global"] \/ Renewed(i)'
    BY <1>2, <1>3, <1>5 DEF IInv, GlobalPageOK
  <2>3. shown' = Rows(store["global"], "global") \/ Renewed(0)'
    BY <1>2, <1>3, <1>5 DEF IInv, GlobalPageOK
  <2> QED
    BY <2>1, <2>2, <2>3
<1>6. CASE m = <<g>>
  <2>1. PICK n \in Nat : /\ n + 1 \in 1 .. Len(requests') /\ requests'[n + 1] = g
                         /\ \A i \in 1 .. Len(requests') : i = n + 1 \/ n + 1 > i
    BY <1>6, GrowingByOne, Kinds DEF IInv
  <2>2. Renewed(0)' /\ \A i \in 1 .. Len(reports) : Renewed(i)'
    BY <2>1 DEF Renewed, Asked
  <2>3. \A i \in 1 .. Len(requests') :
           requests'[i] = g \/ \E j \in 1 .. Len(requests') : j > i /\ requests'[j] = g
    BY <2>1
  <2> HIDE DEF g
  <2> QED
    BY <2>2, <2>3
<1> QED
  BY <1>2, <1>5, <1>6

LEMMA PublishKeepsService ==
    ASSUME IInv, NEW m \in Seq(Requests), requests' = requests \o m, UNCHANGED <<tpflow, reports>>,
           lastRequestFlowId' \notin {"none", "global"} =>
               \/ lastRequestFlowId' = lastRequestFlowId
               \/ \E i \in 1 .. Len(m) : m[i][1] = "cmd.flow.ctx_get_records",
           lastRequestFlowId' = "global" /\ dialog' # "closing" =>
               \/ /\ lastRequestFlowId = "global" /\ dialog # "closing"
                  /\ contextRecords' = contextRecords
                  /\ \A i \in 1 .. Len(m) : ~(m[i][1] = "cmd.flow.ctx_update_record" /\ m[i][2] = "global")
               \/ m = <<GetRecords("global")>>
    PROVE  ServiceOK'
<1> DEFINE g == GetRecords("global")
<1>1. Asked(g) => Asked(g)'
  BY Growing DEF IInv, Asked
<1>2. ASSUME lastRequestFlowId' \notin {"none", "global"}
      PROVE  \/ \E i \in 1 .. Len(requests') : requests'[i][1] = "cmd.flow.ctx_get_records"
             \/ \E i \in 1 .. Len(reports) : RecordsReport(i)
  <2>1. CASE lastRequestFlowId' = lastRequestFlowId
    BY <1>2, <2>1, Growing DEF IInv, ServiceOK
  <2>2. CASE \E i \in 1 .. Len(m) : m[i][1] = "cmd.flow.ctx_get_records"
    BY <2>2, Growing DEF IInv
  <2> QED
    BY <1>2, <2>1, <2>2
<1>3. ASSUME lastRequestFlowId' = "global", dialog' # "closing"
      PROVE  /\ \A i \in 1 .. Len(requests') :
                   requests'[i][1] = "cmd.flow.ctx_update_record" /\ requests'[i][2] = "global" =>
                      \E j \in 1 .. Len(requests') : j > i /\ requests'[j] = g
             /\ \A n \in store["global"] :
                   \/ <<n, TRUE>> \in contextRecords' \/ Asked(g)'
                   \/ \E i \in 1 .. Len(reports) : RecordsReport(i) /\ n \in reports[i][2]
  <2>1. CASE /\ lastRequestFlowId = "global" /\ dialog # "closing"
             /\ contextRecords' = contextRecords
             /\ \A i \in 1 .. Len(m) : ~(m[i][1] = "cmd.flow.ctx_update_record" /\ m[i][2] = "global")
    <3>1. ASSUME NEW i \in 1 .. Len(requests'),
                 requests'[i][1] = "cmd.flow.ctx_update_record", requests'[i][2] = "global"
          PROVE  \E j \in 1 .. Len(requests') : j > i /\ requests'[j] = g
      <4>1. i \in 1 .. Len(requests) /\ requests'[i] = requests[i]
        BY <2>1, <3>1, Growing DEF IInv
      <4> QED
        BY <2>1, <3>1, <4>1, Growing DEF IInv, ServiceOK
    <3> QED
      BY <1>1, <2>1, <3>1 DEF IInv, ServiceOK
  <2>2. CASE m = <<g>>
    <3>1. PICK n \in Nat : /\ n + 1 \in 1 .. Len(requests') /\ requests'[n + 1] = g
                           /\ \A i \in 1 .. Len(requests') : i = n + 1 \/ n + 1 > i
      BY <2>2, GrowingByOne, Kinds DEF IInv
    <3>2. g[1] # "cmd.flow.ctx_update_record"
      BY Kinds
    <3> QED
      BY <3>1, <3>2 DEF Asked
  <2> QED
    BY <1>3, <2>1, <2>2
<1> QED
  BY <1>2, <1>3 DEF ServiceOK, RecordsReport, tpflow

\* A step that publishes messages of other kinds, on the page that is open.
Plain(m) == \A i \in 1 .. Len(m) :
                /\ m[i][1] # "cmd.flow.ctx_get_records"
                /\ ~(m[i][1] = "cmd.flow.ctx_update_record" /\ m[i][2] = "global")

LEMMA PlainPublish ==
    ASSUME IInv, NEW m \in Seq(Requests), Plain(m), requests' = requests \o m,
           UNCHANGED <<tpflow, reports, online, page, connSub, flows, shown, service>>,
           dialog' # "closing" => dialog # "closing", ~OnContext => dialog' = "none"
    PROVE  IInv'
<1>1. ListOK'
  BY PublishKeepsList DEF IInv, ListOK
<1>2. GlobalPageOK'
  BY PublishKeepsGlobalPage DEF Plain
<1>3. ServiceOK'
  BY PublishKeepsService DEF Plain, service
<1>4. TypeOK'
  BY Growing DEF IInv, TypeOK, tpflow, OnContext
<1> QED
  BY <1>1, <1>2, <1>3, <1>4 DEF IInv

LEMMA OneMessage ==
    ASSUME NEW r \in Requests
    PROVE  /\ <<r>> \in Seq(Requests) /\ Len(<<r>>) = 1 /\ <<r>>[1] = r
           /\ (r[1] # "cmd.flow.ctx_get_records" /\ ~(r[1] = "cmd.flow.ctx_update_record" /\ r[2] = "global"))
                => Plain(<<r>>)
           /\ \A i \in 1 .. Len(<<r>>) : <<r>>[i] = r
           /\ 1 \in 1 .. Len(<<r>>)
  BY DEF Plain

LEMMA OpenSelectorKeeps ==
    ASSUME IInv, NEW f \in Flows, OpenSelector(f)
    PROVE  IInv'
<1>1. /\ UNCHANGED <<tpflow, online, contextPage, overview, reports, contextRecords>>
      /\ page = NoPage /\ online /\ page' = Selector(f)
  BY DEF OpenSelector, RequestContext, Publish, wire, service
<1>2. ~OnContext /\ ~OnContext' /\ page' # Overview /\ \A c : page' # Context(c)
  BY <1>1, Pages DEF OnContext
<1>3. GetRecords(f) \in Requests /\ GetRecords(f)[1] = "cmd.flow.ctx_get_records" /\ f # "global"
  BY Kinds, FlowPagesAssumption DEF Contexts
<1>4. PICK m \in Seq(Requests) :
         /\ requests' = requests \o m
         /\ \/ m = <<GetRecords(f)>> /\ lastRequestFlowId' = f
            \/ m = <<>> /\ lastRequestFlowId' = lastRequestFlowId
  <2>1. CASE contextRecords = {}
    BY <1>3, <2>1, OneMessage DEF OpenSelector, RequestContext, Publish
  <2>2. CASE contextRecords # {}
    BY <2>2, NoMessage DEF OpenSelector, wire, service, IInv
  <2> QED
    BY <2>1, <2>2
<1>5. ListOK' /\ GlobalPageOK'
  BY <1>1, <1>2, <1>4, PublishKeepsList, PublishKeepsGlobalPage
<1>6. ServiceOK'
  <2>1. CASE m = <<GetRecords(f)>> /\ lastRequestFlowId' = f
    BY <1>1, <1>3, <1>4, <2>1, OneMessage, PublishKeepsService
  <2>2. CASE m = <<>> /\ lastRequestFlowId' = lastRequestFlowId
    <3>1. \A i \in 1 .. Len(m) : FALSE
      BY <2>2
    <3> QED
      BY <1>1, <1>4, <2>2, <3>1, PublishKeepsService DEF contextPage
  <2> QED
    BY <1>4, <2>1, <2>2
<1>7. TypeOK'
  BY <1>1, <1>2, <1>4, Growing DEF IInv, TypeOK, tpflow, contextPage
<1> QED
  BY <1>5, <1>6, <1>7 DEF IInv

\* The service files what comes next as the flow's, and asks for the global ones then.
LEMMA SaveNewVariableKeeps ==
    ASSUME IInv, NEW n \in Names, NEW isGlobal \in BOOLEAN, SaveNewVariable(n, isGlobal)
    PROVE  IInv'
<1>1. PICK f \in Flows : 
         /\ page = Selector(f) /\ lastRequestFlowId' = f /\ UNCHANGED <<tpflow, online, page, contextPage, overview>>
         /\ Publish(<<<<"cmd.flow.ctx_update_record", IF isGlobal THEN "global" ELSE f, n>>, GetRecords(f)>>)
  BY DEF SaveNewVariable
<1> DEFINE r == <<"cmd.flow.ctx_update_record", IF isGlobal THEN "global" ELSE f, n>>
           m == <<r, GetRecords(f)>>
<1>2. r \in Requests
  <2>1. (IF isGlobal THEN "global" ELSE f) \in Contexts
    BY DEF Contexts
  <2> QED
    BY <2>1 DEF Requests
<1>3. GetRecords(f) \in Requests /\ GetRecords(f)[1] = "cmd.flow.ctx_get_records" /\ f # "global"
  BY Kinds, FlowPagesAssumption DEF Contexts
<1> HIDE DEF r
<1>4. m \in Seq(Requests) /\ Len(m) = 2 /\ m[2] = GetRecords(f) /\ 2 \in 1 .. Len(m)
  BY <1>2, <1>3
<1>5. requests' = requests \o m /\ UNCHANGED reports
  BY <1>1 DEF Publish, r
<1> HIDE DEF m
<1>6. page' = page /\ page # Overview /\ \A c : page # Context(c)
  BY <1>1, Pages
<1>7. ListOK' /\ GlobalPageOK'
  BY <1>1, <1>4, <1>5, <1>6, PublishKeepsList, PublishKeepsGlobalPage
<1>8. ServiceOK'
  BY <1>1, <1>3, <1>4, <1>5, PublishKeepsService
<1>9. TypeOK'
  BY <1>1, <1>4, <1>5, <1>6, Growing DEF IInv, TypeOK, tpflow, contextPage, OnContext
<1> QED
  BY <1>7, <1>8, <1>9 DEF IInv

LEMMA OpenContextKeeps ==
    ASSUME IInv, NEW ctx \in Contexts, OpenContext(ctx)
    PROVE  IInv'
<1>1. /\ UNCHANGED <<tpflow, online, service, overview, reports>>
      /\ page = NoPage /\ page' = Context(ctx) /\ dialog' = "none"
      /\ requests' = requests \o <<GetRecords(ctx)>>
  BY DEF OpenContext, Publish
<1>2. ~OnContext /\ page' # Overview /\ dialog = "none"
  BY <1>1, Pages DEF OnContext, IInv, TypeOK
<1>3. GetRecords(ctx) \in Requests /\ GetRecords(ctx)[1] = "cmd.flow.ctx_get_records"
  BY Kinds
<1>4. <<GetRecords(ctx)>> \in Seq(Requests)
  BY <1>3
<1>5. ListOK'
  BY <1>1, <1>2, <1>4, PublishKeepsList
<1>6. page' = Context("global") => ctx = "global"
  <2>1. page'[2] = ctx /\ Context("global")[2] = "global"
    BY <1>1, Pages
  <2> QED
    BY <2>1
<1>7. GlobalPageOK'
  BY <1>1, <1>4, <1>6, PublishKeepsGlobalPage
<1>8. ServiceOK'
  BY <1>1, <1>2, <1>3, <1>4, OneMessage, PublishKeepsService DEF service
<1>9. TypeOK'
  BY <1>1, <1>2, <1>4, Growing DEF IInv, TypeOK, tpflow
<1> QED
  BY <1>5, <1>7, <1>8, <1>9 DEF IInv

\* A context page that asks for the records of a context; of a page of global
\* variables, for the global ones.
LEMMA AskingKeeps ==
    ASSUME IInv, OnContext, NEW c \in Contexts, requests' = requests \o <<GetRecords(c)>>,
           UNCHANGED <<tpflow, reports, online, page, service, shown, overview>>,
           page = Context("global") => c = "global",
           dialog' # "closing" /\ dialog = "closing" => c = "global"
    PROVE  IInv'
<1>1. GetRecords(c) \in Requests /\ GetRecords(c)[1] = "cmd.flow.ctx_get_records"
  BY Kinds
<1>2. <<GetRecords(c)>> \in Seq(Requests)
  BY <1>1
<1>3. ListOK'
  BY <1>2, PublishKeepsList, Pages DEF IInv, ListOK, OnContext
<1>4. GlobalPageOK'
  BY <1>2, PublishKeepsGlobalPage
<1>5. ServiceOK'
  BY <1>1, <1>2, OneMessage, PublishKeepsService DEF service
<1>6. TypeOK'
  BY <1>2, Growing DEF IInv, TypeOK, tpflow, OnContext
<1> QED
  BY <1>3, <1>4, <1>5, <1>6 DEF IInv

LEMMA ContextPage ==
    ASSUME TypeOK, OnContext
    PROVE  page[2] \in Contexts /\ page = Context(page[2])
  BY Pages DEF TypeOK, OnContext

LEMMA ContextPageKeeps ==
    ASSUME IInv,
           \/ OnModeChange \/ Reload \/ AfterClosed \/ CancelDialog
           \/ \E d \in {"edit", "add"} : OpenDialog(d)
           \/ \E n \in Names : SaveRecord(n) \/ DeleteRecord(n)
    PROVE  IInv'
<1>1. /\ UNCHANGED <<tpflow, reports, online, page, service, shown, overview>>
      /\ OnContext
  BY DEF IInv, TypeOK, OnModeChange, Reload, AfterClosed, CancelDialog, OpenDialog, SaveRecord,
         DeleteRecord, Publish, wire, contextPage
<1>2. page[2] \in Contexts /\ page = Context(page[2]) /\ "global" \in Contexts
  BY <1>1, ContextPage, Kinds DEF IInv
<1>3. page = Context("global") => page[2] = "global"
  BY Pages
<1>4. CASE OnModeChange
  <2>1. page[2] # "global" /\ UNCHANGED dialog
    BY <1>4 DEF OnModeChange
  <2>2. PICK c \in Contexts : requests' = requests \o <<GetRecords(c)>>
    BY <1>2, <1>4 DEF OnModeChange, Publish
  <2> QED
    BY <1>1, <1>3, <2>1, <2>2, AskingKeeps
<1>5. CASE Reload
  <2>1. requests' = requests \o <<GetRecords(page[2])>> /\ UNCHANGED dialog
    BY <1>5 DEF Reload, Publish, contextPage
  <2> QED
    BY <1>1, <1>2, <1>3, <2>1, AskingKeeps
<1>6. CASE AfterClosed
  <2>1. requests' = requests \o <<GetRecords("global")>>
    BY <1>6 DEF AfterClosed, Publish
  <2> QED
    BY <1>1, <1>2, <2>1, AskingKeeps
<1>7. CASE CancelDialog \/ \E d \in {"edit", "add"} : OpenDialog(d)
  <2>1. requests' = requests \o <<>> /\ <<>> \in Seq(Requests) /\ dialog # "closing"
    BY <1>7, NoMessage DEF CancelDialog, OpenDialog, wire, IInv
  <2>2. Plain(<<>>)
    BY DEF Plain
  <2> QED
    BY <1>1, <2>1, <2>2, PlainPublish DEF overview
<1>8. ContextOfMode \in Contexts
  BY <1>2 DEF ContextOfMode
<1>9. ASSUME NEW n \in Names, SaveRecord(n)
      PROVE  IInv'
  <2> DEFINE r == <<"cmd.flow.ctx_update_record", ContextOfMode, n>>
  <2>1. r \in Requests /\ r[1] = "cmd.flow.ctx_update_record"
    BY <1>8 DEF Requests
  <2>2. requests' = requests \o <<r>> /\ dialog' = "closing"
    BY <1>9 DEF SaveRecord, Publish
  <2> HIDE DEF r
  <2>3. <<r>> \in Seq(Requests)
    BY <2>1
  <2>4. ListOK'
    BY <1>1, <2>2, <2>3, PublishKeepsList, Pages DEF IInv, ListOK, OnContext
  <2>5. GlobalPageOK'
    BY <1>1, <2>1, <2>2, <2>3, OneMessage, PublishKeepsGlobalPage
  <2>6. ServiceOK'
    BY <1>1, <2>2, <2>3, PublishKeepsService DEF service
  <2>7. TypeOK'
    BY <1>1, <2>2, <2>3, Growing DEF IInv, TypeOK, tpflow, OnContext
  <2> QED
    BY <2>4, <2>5, <2>6, <2>7 DEF IInv
<1>10. ASSUME NEW n \in Names, DeleteRecord(n)
       PROVE  IInv'
  <2> DEFINE r == <<"cmd.flow.ctx_delete", ContextOfMode, n>>
  <2>1. r \in Requests /\ r[1] = "cmd.flow.ctx_delete"
    BY <1>8 DEF Requests
  <2>2. requests' = requests \o <<r>> /\ dialog # "closing"
    BY <1>10 DEF DeleteRecord, Publish
  <2> HIDE DEF r
  <2> QED
    BY <1>1, <2>1, <2>2, OneMessage, PlainPublish DEF overview
<1> QED
  BY <1>4, <1>5, <1>6, <1>7, <1>9, <1>10

LEMMA OverviewKeeps ==
    ASSUME IInv,
           \/ OpenOverview \/ Connect \/ ImportTimer \/ Leave \/ CloseImport(<<>>)
           \/ \E f \in Flows :
                \/ FlowCommand(f, <<"cmd.flow.delete", f>>)
                \/ \E op \in {"RUNNING", "STOPPED"} : FlowCommand(f, <<"cmd.flow.ctrl", f, op>>)
                \/ CloseImport(<<<<"cmd.flow.import", f>>>>)
    PROVE  IInv'
<1> DEFINE list == <<GetList>>
<1>1. /\ GetList \in Requests /\ list \in Seq(Requests) /\ Plain(list)
      /\ Len(list) = 1 /\ list[1] = GetList /\ 1 \in 1 .. Len(list)
  BY Kinds, OneMessage
<1>2. <<>> \in Seq(Requests) /\ requests \o <<>> = requests /\ Plain(<<>>)
  BY NoMessage DEF IInv, Plain
<1> HIDE DEF list
<1>3. CASE OpenOverview
  <2>1. /\ UNCHANGED <<tpflow, reports, online, service, contextPage>> /\ page = NoPage
        /\ page' = Overview /\ (connSub' <=> ~online)
    BY <1>3 DEF OpenOverview, Publish, wire
  <2>2. PICK m \in {list, <<>>} : requests' = requests \o m /\ (online => m = list)
    BY <1>2, <1>3 DEF OpenOverview, Publish, wire, list
  <2>3. ~OnContext /\ ~OnContext' /\ \A c : page' # Context(c)
    BY <2>1, Pages DEF OnContext
  <2>4. m \in Seq(Requests) /\ Plain(m)
    BY <1>1, <1>2
  <2>5. ListOK'
    BY <1>1, <2>1, <2>2, <2>4, PublishKeepsList
  <2>6. GlobalPageOK'
    BY <2>1, <2>2, <2>3, <2>4, PublishKeepsGlobalPage
  <2>7. ServiceOK'
    BY <2>1, <2>2, <2>4, PublishKeepsService DEF Plain, service, contextPage
  <2>8. TypeOK'
    BY <2>1, <2>2, <2>3, <2>4, Growing DEF IInv, TypeOK, tpflow, contextPage
  <2> QED
    BY <2>5, <2>6, <2>7, <2>8 DEF IInv
<1>4. CASE Connect
  <2>1. /\ UNCHANGED <<tpflow, reports, service, page, contextPage, overview>> /\ ~online
        /\ online' = TRUE
    BY <1>4 DEF Connect, Publish, wire
  <2>2. PICK m \in {list, <<>>} : requests' = requests \o m /\ (connSub => m = list)
    BY <1>2, <1>4 DEF Connect, Publish, wire, list
  <2>3. m \in Seq(Requests) /\ Plain(m)
    BY <1>1, <1>2
  <2>4. page' = Overview => m = list
    BY <2>1, <2>2 DEF IInv, ListOK
  <2>5. ListOK'
    BY <1>1, <2>1, <2>2, <2>3, <2>4, PublishKeepsList
  <2>6. GlobalPageOK'
    BY <2>1, <2>2, <2>3, PublishKeepsGlobalPage DEF Plain, contextPage
  <2>7. ServiceOK'
    BY <2>1, <2>2, <2>3, PublishKeepsService DEF Plain, service, contextPage
  <2>8. TypeOK'
    BY <2>1, <2>2, <2>3, Growing DEF IInv, TypeOK, tpflow, contextPage, OnContext
  <2> QED
    BY <2>5, <2>6, <2>7, <2>8 DEF IInv
<1>5. CASE Leave
  <2>1. /\ UNCHANGED <<tpflow, online, wire, service, dialog>> /\ dialog = "none" /\ page' = NoPage
    BY <1>5 DEF Leave
  <2>2. page' # Overview /\ \A c : page' # Context(c)
    BY <2>1, Pages
  <2>3. ListOK' /\ GlobalPageOK' 
    BY <1>2, <2>1, <2>2, PublishKeepsList, PublishKeepsGlobalPage DEF wire
  <2>4. ServiceOK'
    BY <1>2, <2>1, PublishKeepsService DEF wire, service, Plain
  <2>5. TypeOK'
    BY <2>1 DEF IInv, TypeOK, tpflow, wire
  <2> QED
    BY <2>3, <2>4, <2>5 DEF IInv
<1>6. CASE ImportTimer
  <2>1. /\ UNCHANGED <<tpflow, reports, online, service, page, contextPage, flows, connSub>>
        /\ requests' = requests \o list
    BY <1>6 DEF ImportTimer, Publish, list
  <2> QED
    BY <1>1, <2>1, PlainPublish DEF contextPage, IInv, TypeOK
<1>7. CASE CloseImport(<<>>)
  <2>1. /\ UNCHANGED <<tpflow, reports, online, service, page, contextPage, flows, connSub>>
        /\ requests' = requests \o <<>>
    BY <1>7 DEF CloseImport, Publish
  <2> QED
    BY <1>2, <2>1, PlainPublish DEF contextPage, IInv, TypeOK
<1>8. ASSUME NEW f \in Flows, NEW r \in Requests, r[1] \in {"cmd.flow.delete", "cmd.flow.ctrl", "cmd.flow.import"},
             FlowCommand(f, r) \/ CloseImport(<<r>>)
      PROVE  IInv'
  <2>1. /\ UNCHANGED <<tpflow, reports, online, service, page, contextPage, flows, connSub>>
        /\ requests' = requests \o <<r>>
    BY <1>8 DEF FlowCommand, CloseImport, Publish, overview
  <2>2. <<r>> \in Seq(Requests) /\ Plain(<<r>>)
    BY <1>8, OneMessage
  <2> QED
    BY <2>1, <2>2, PlainPublish DEF contextPage, IInv, TypeOK
<1>9. ASSUME NEW f \in Flows
      PROVE  /\ <<"cmd.flow.delete", f>> \in Requests /\ <<"cmd.flow.delete", f>>[1] = "cmd.flow.delete"
             /\ <<"cmd.flow.import", f>> \in Requests /\ <<"cmd.flow.import", f>>[1] = "cmd.flow.import"
             /\ \A op \in {"RUNNING", "STOPPED"} :
                  <<"cmd.flow.ctrl", f, op>> \in Requests /\ <<"cmd.flow.ctrl", f, op>>[1] = "cmd.flow.ctrl"
  BY DEF Requests
<1> QED
  BY <1>3, <1>4, <1>5, <1>6, <1>7, <1>8, <1>9

-----------------------------------------------------------------------------
(* tpflow.                                                                   *)

\* A request is carried out and answered by a report of its kind.
LEMMA Serving ==
    ASSUME IInv, Serve
    PROVE  /\ UNCHANGED <<online, service, page, contextPage, overview>>
           /\ requests # <<>> /\ requests' = Tail(requests)
           /\ \E r \in Requests, x \in Reports :
                /\ r = requests[1] /\ reports' = Append(reports, x)
                /\ store' \in [Contexts -> SUBSET Names] /\ state' \in FlowStates
                /\ r[1] = "cmd.flow.ctx_get_records" =>
                      x = <<"evt.flow.ctx_records_report", store[r[2]]>> /\ UNCHANGED tpflow
                /\ r[1] # "cmd.flow.ctx_get_records" => x[1] # "evt.flow.ctx_records_report"
                /\ r = GetList => x = <<"evt.flow.list_report", state>> /\ UNCHANGED tpflow
                /\ r # GetList => x[1] # "evt.flow.list_report"
                /\ state' # state => x[1] \in ListChanged
                /\ store'["global"] # store["global"] => x[1] \in ContextChanged
                /\ \A n \in store'["global"] :
                      \/ n \in store["global"]
                      \/ r[1] = "cmd.flow.ctx_update_record" /\ r[2] = "global"
<1>1. /\ UNCHANGED <<online, service, page, contextPage, overview>>
      /\ requests # <<>> /\ requests' = Tail(requests)
      /\ Carry(requests[1]) /\ reports' = Append(reports, ReportOn(requests[1]))
  BY DEF Serve, IInv, TypeOK
<1>2. requests[1] \in Requests
  BY <1>1 DEF IInv, TypeOK
<1>3. PICK r \in Requests : r = requests[1]
  BY <1>2
<1>4. store \in [Contexts -> SUBSET Names] /\ state \in FlowStates /\ "global" \in Contexts
  BY Kinds DEF IInv, TypeOK
<1>5. Carry(r) /\ reports' = Append(reports, ReportOn(r))
  BY <1>1, <1>3
<1> DEFINE Case(x) ==
                /\ x \in Reports
                /\ store' \in [Contexts -> SUBSET Names] /\ state' \in FlowStates
                /\ r[1] = "cmd.flow.ctx_get_records" =>
                      x = <<"evt.flow.ctx_records_report", store[r[2]]>> /\ UNCHANGED tpflow
                /\ r[1] # "cmd.flow.ctx_get_records" => x[1] # "evt.flow.ctx_records_report"
                /\ r = GetList => x = <<"evt.flow.list_report", state>> /\ UNCHANGED tpflow
                /\ r # GetList => x[1] # "evt.flow.list_report"
                /\ state' # state => x[1] \in ListChanged
                /\ store'["global"] # store["global"] => x[1] \in ContextChanged
                /\ \A n \in store'["global"] :
                      \/ n \in store["global"]
                      \/ r[1] = "cmd.flow.ctx_update_record" /\ r[2] = "global"
<1>6. ASSUME NEW c \in Contexts, r = GetRecords(c)
      PROVE  Case(ReportOn(r))
  <2>1. ReportOn(r) = <<"evt.flow.ctx_records_report", store[c]>> /\ r[2] = c /\ UNCHANGED tpflow
    BY <1>5, <1>6 DEF ReportOn, GetRecords, Carry
  <2>2. store[c] \in SUBSET Names
    BY <1>4
  <2>3. ReportOn(r) \in Reports
    BY <2>1, <2>2 DEF Reports
  <2>4. r[1] = "cmd.flow.ctx_get_records" /\ r # GetList
    BY <1>6 DEF GetRecords, GetList
  <2> QED
    BY <1>4, <2>1, <2>3, <2>4 DEF tpflow
<1>7. ASSUME r = GetList
      PROVE  Case(ReportOn(r))
  <2>1. ReportOn(r) = <<"evt.flow.list_report", state>> /\ UNCHANGED tpflow
    BY <1>5, <1>7 DEF ReportOn, GetList, Carry
  <2>2. ReportOn(r) \in Reports
    BY <1>4, <2>1 DEF Reports
  <2>3. r[1] = "cmd.flow.get_list"
    BY <1>7 DEF GetList
  <2> QED
    BY <1>4, <1>7, <2>1, <2>2, <2>3 DEF tpflow
<1>8. ASSUME NEW c \in Contexts, NEW n \in Names,
             r = <<"cmd.flow.ctx_update_record", c, n>> \/ r = <<"cmd.flow.ctx_delete", c, n>>
      PROVE  Case(ReportOn(r))
  <2>1. PICK x \in ContextChanged : ReportOn(r) = <<x>>
    BY <1>8 DEF ReportOn, ContextChanged
  <2>2. PICK names \in SUBSET Names : store' = [store EXCEPT ![c] = names] /\ state' = state
                /\ \A k \in names : k \in store[c] \/ r[1] = "cmd.flow.ctx_update_record"
    <3>1. CASE r = <<"cmd.flow.ctx_update_record", c, n>>
      BY <1>4, <1>5, <3>1 DEF Carry
    <3>2. CASE r = <<"cmd.flow.ctx_delete", c, n>>
      BY <1>4, <1>5, <3>2 DEF Carry
    <3> QED
      BY <1>8, <3>1, <3>2
  <2>3. r[1] \in {"cmd.flow.ctx_update_record", "cmd.flow.ctx_delete"} /\ r[2] = c /\ r # GetList
    BY <1>8 DEF GetList
  <2>4. ReportOn(r) \in Reports /\ ReportOn(r)[1] \in ContextChanged
    BY <2>1 DEF Reports
  <2>5. store' \in [Contexts -> SUBSET Names]
    BY <1>4, <2>2
  <2>6. \A k \in store'["global"] : k \in store["global"] \/ (r[1] = "cmd.flow.ctx_update_record" /\ c = "global")
    BY <1>4, <2>2
  <2> QED
    BY <1>4, <2>2, <2>3, <2>4, <2>5, <2>6 DEF ContextChanged
<1>9. ASSUME NEW f \in Flows,
             \/ \E op \in {"RUNNING", "STOPPED"} : r = <<"cmd.flow.ctrl", f, op>>
             \/ r = <<"cmd.flow.delete", f>> \/ r = <<"cmd.flow.import", f>>
      PROVE  Case(ReportOn(r))
  <2>1. PICK x \in ListChanged : ReportOn(r) = <<x>>
    BY <1>9 DEF ReportOn, ListChanged
  <2>2. store' = store /\ state' \in FlowStates
    <3>1. ASSUME NEW op \in {"RUNNING", "STOPPED"}, r = <<"cmd.flow.ctrl", f, op>>
          PROVE  store' = store /\ state' \in FlowStates
      BY <1>4, <1>5, <3>1 DEF Carry, FlowStates
    <3>2. CASE r = <<"cmd.flow.delete", f>>
      BY <1>4, <1>5, <3>2 DEF Carry, FlowStates
    <3>3. CASE r = <<"cmd.flow.import", f>>
      BY <1>4, <1>5, <3>3 DEF Carry, FlowStates
    <3> QED
      BY <1>9, <3>1, <3>2, <3>3
  <2>3. r[1] \in {"cmd.flow.ctrl", "cmd.flow.delete", "cmd.flow.import"} /\ r # GetList
    BY <1>9 DEF GetList
  <2>4. ReportOn(r) \in Reports /\ ReportOn(r)[1] \in ListChanged
    BY <2>1 DEF Reports
  <2> QED
    BY <1>4, <2>2, <2>3, <2>4 DEF ListChanged
<1> HIDE DEF Case
<1>10. Case(ReportOn(r))
  BY <1>3, <1>6, <1>7, <1>8, <1>9 DEF Requests
<1> USE DEF Case
<1> QED
  BY <1>1, <1>3, <1>5, <1>10

LEMMA Shortened ==
    ASSUME NEW S, NEW q \in Seq(S), q # <<>>
    PROVE  /\ Tail(q) \in Seq(S) /\ 1 \in 1 .. Len(q) /\ Head(q) = q[1]
           /\ \A i \in 1 .. Len(Tail(q)) : i + 1 \in 1 .. Len(q) /\ Tail(q)[i] = q[i + 1]
           /\ \A i \in 1 .. Len(q) : i > 1 => i - 1 \in 1 .. Len(Tail(q)) /\ Tail(q)[i - 1] = q[i]
<1>1. Len(q) \in Nat /\ Len(q) # 0
  OBVIOUS
<1>2. Tail(q) \in Seq(S) /\ Len(Tail(q)) = Len(q) - 1 /\ Head(q) = q[1]
  OBVIOUS
<1>3. \A i \in 1 .. Len(q) - 1 : Tail(q)[i] = q[i + 1]
  BY <1>1
<1> QED
  BY <1>1, <1>2, <1>3

LEMMA Lengthened ==
    ASSUME NEW S, NEW q \in Seq(S), NEW x \in S
    PROVE  \E n \in Nat :
              /\ Append(q, x) \in Seq(S) /\ n \in 1 .. Len(Append(q, x)) /\ Append(q, x)[n] = x
              /\ \A i \in 1 .. Len(q) : /\ i \in 1 .. Len(Append(q, x)) /\ Append(q, x)[i] = q[i]
                                        /\ n > i
              /\ \A i \in 1 .. Len(Append(q, x)) : i = n \/ i \in 1 .. Len(q)
              /\ n > 0
<1>1. PICK l \in Nat : l = Len(q)
  OBVIOUS
<1>2. /\ Append(q, x) \in Seq(S) /\ Len(Append(q, x)) = l + 1 /\ Append(q, x)[l + 1] = x
      /\ \A i \in 1 .. l : Append(q, x)[i] = q[i]
  BY <1>1
<1> QED
  BY <1>1, <1>2

\* A request leaves its queue, its report is the last of theirs.
LEMMA ServeKeeps ==
    ASSUME IInv, Serve
    PROVE  IInv'
<1> DEFINE g == GetRecords("global")
<1>1. /\ UNCHANGED <<online, service, page, contextPage, overview>>
      /\ requests # <<>> /\ requests' = Tail(requests)
  BY Serving
<1>2. PICK r \in Requests, x \in Reports :
                /\ r = requests[1] /\ reports' = Append(reports, x)
                /\ store' \in [Contexts -> SUBSET Names] /\ state' \in FlowStates
                /\ r[1] = "cmd.flow.ctx_get_records" =>
                      x = <<"evt.flow.ctx_records_report", store[r[2]]>> /\ UNCHANGED tpflow
                /\ r[1] # "cmd.flow.ctx_get_records" => x[1] # "evt.flow.ctx_records_report"
                /\ r = GetList => x = <<"evt.flow.list_report", state>> /\ UNCHANGED tpflow
                /\ r # GetList => x[1] # "evt.flow.list_report"
                /\ state' # state => x[1] \in ListChanged
                /\ store'["global"] # store["global"] => x[1] \in ContextChanged
                /\ \A n \in store'["global"] :
                      \/ n \in store["global"]
                      \/ r[1] = "cmd.flow.ctx_update_record" /\ r[2] = "global"
  BY Serving
<1>3. /\ requests' \in Seq(Requests) /\ 1 \in 1 .. Len(requests)
      /\ \A i \in 1 .. Len(requests') : i + 1 \in 1 .. Len(requests) /\ requests'[i] = requests[i + 1]
      /\ \A i \in 1 .. Len(requests) : i > 1 => i - 1 \in 1 .. Len(requests') /\ requests'[i - 1] = requests[i]
  BY <1>1, Shortened DEF IInv, TypeOK
<1>4. PICK n \in Nat :
         /\ reports' \in Seq(Reports) /\ n \in 1 .. Len(reports') /\ reports'[n] = x
         /\ \A i \in 1 .. Len(reports) : i \in 1 .. Len(reports') /\ reports'[i] = reports[i] /\ n > i
         /\ \A i \in 1 .. Len(reports') : i = n \/ i \in 1 .. Len(reports)
         /\ n > 0
  BY <1>2, Lengthened DEF IInv, TypeOK
<1>5. /\ g[1] = "cmd.flow.ctx_get_records" /\ g[2] = "global" /\ "global" \in Contexts
      /\ GetList[1] = "cmd.flow.get_list"
  BY Kinds
<1>6. ASSUME NEW a, Asked(a), r # a
      PROVE  Asked(a)'
  <2>1. PICK i \in 1 .. Len(requests) : requests[i] = a
    BY <1>6 DEF Asked
  <2>2. i > 1
    BY <1>2, <1>3, <1>6, <2>1
  <2> QED
    BY <1>3, <2>1, <2>2 DEF Asked
<1>7. \A a : (\E j \in 1 .. Len(requests) : j > 1 /\ requests[j] = a) => Asked(a)'
  BY <1>3 DEF Asked
<1>8. ASSUME NEW a, NEW i \in 1 .. Len(requests'), NEW j \in 1 .. Len(requests), j > i + 1, requests[j] = a
      PROVE  \E k \in 1 .. Len(requests') : k > i /\ requests'[k] = a
  <2>1. j - 1 > i /\ j - 1 \in 1 .. Len(requests') /\ requests'[j - 1] = a
    BY <1>3, <1>8
  <2> QED
    BY <2>1
<1>9. /\ x = <<"evt.flow.ctx_records_report", store[r[2]]>> =>
            RecordsReport(n)' /\ x[2] = store[r[2]]
      /\ x = <<"evt.flow.list_report", state>> => ListReport(n)' /\ x[2] = state
  BY <1>4 DEF RecordsReport, ListReport
<1>10. ListOK'
  <2>1. ASSUME NEW i \in 1 .. Len(reports'), ListReport(i)'
        PROVE  \/ reports'[i][2] = state'
               \/ \E j \in 1 .. Len(reports') : j > i /\ reports'[j][1] \in ListChanged
    <3>1. CASE i = n
      <4>1. r = GetList
        BY <1>2, <1>4, <2>1, <3>1 DEF ListReport
      <4> QED
        BY <1>2, <1>4, <1>9, <3>1, <4>1 DEF tpflow
    <3>2. CASE i \in 1 .. Len(reports)
      <4>1. \/ reports[i][2] = state
            \/ \E j \in 1 .. Len(reports) : j > i /\ reports[j][1] \in ListChanged
        BY <1>4, <2>1, <3>2 DEF ListReport, IInv, ListOK
      <4> QED
        BY <1>2, <1>4, <3>2, <4>1
    <3> QED
      BY <1>4, <3>1, <3>2
  <2>2. ASSUME page = Overview, online
        PROVE  \/ flows = state' \/ Asked(GetList)'
               \/ \E i \in 1 .. Len(reports') : ListReport(i)' \/ reports'[i][1] \in ListChanged
    <3>1. CASE flows = state
      BY <1>2, <1>4, <3>1
    <3>2. CASE Asked(GetList)
      BY <1>2, <1>4, <1>6, <1>9, <3>2
    <3>3. CASE \E i \in 1 .. Len(reports) : ListReport(i) \/ reports[i][1] \in ListChanged
      BY <1>4, <3>3 DEF ListReport
    <3> QED
      BY <2>2, <3>1, <3>2, <3>3 DEF IInv, ListOK
  <2> QED
    BY <1>1, <2>1, <2>2 DEF IInv, ListOK, overview
<1>11. GlobalPageOK'
  <2>1. SUFFICES ASSUME page = Context("global")
                 PROVE  /\ \A i \in 1 .. Len(requests') :
                              requests'[i][1] = "cmd.flow.ctx_get_records" =>
                                 requests'[i] = g \/ \E j \in 1 .. Len(requests') : j > i /\ requests'[j] = g
                        /\ \A i \in 1 .. Len(reports') : RecordsReport(i)' =>
                              reports'[i][2] = store'["global"] \/ Renewed(i)'
                        /\ shown = Rows(store'["global"], "global") \/ Renewed(0)'
    BY <1>1 DEF GlobalPageOK, Rows, contextPage
  <2>2. ASSUME NEW i \in 1 .. Len(requests'), requests'[i][1] = "cmd.flow.ctx_get_records"
        PROVE  requests'[i] = g \/ \E j \in 1 .. Len(requests') : j > i /\ requests'[j] = g
    <3>1. \/ requests[i + 1] = g
          \/ \E j \in 1 .. Len(requests) : j > i + 1 /\ requests[j] = g
      BY <1>3, <2>1, <2>2 DEF IInv, GlobalPageOK
    <3> QED
      BY <1>3, <1>8, <3>1
  <2>3. ASSUME NEW i \in 0 .. n, i # n, Renewed(i)
        PROVE  Renewed(i)'
    <3>1. CASE Asked(g)
      <4>1. CASE r = g
        BY <1>2, <1>4, <1>5, <1>9, <2>3, <4>1 DEF Renewed
      <4> QED
        BY <1>6, <3>1, <4>1 DEF Renewed
    <3>2. CASE \E j \in 1 .. Len(reports) : j > i /\ (RecordsReport(j) \/ reports[j][1] \in ContextChanged)
      BY <1>4, <3>2 DEF Renewed, RecordsReport
    <3> QED
      BY <2>3, <3>1, <3>2 DEF Renewed
  <2>4. ASSUME NEW i \in 0 .. n, i # n, store'["global"] # store["global"]
        PROVE  Renewed(i)'
    BY <1>2, <1>4, <2>4 DEF Renewed
  <2>5. ASSUME NEW i \in 1 .. Len(reports'), RecordsReport(i)'
        PROVE  reports'[i][2] = store'["global"] \/ Renewed(i)'
    <3>1. CASE i = n
      <4>1. r[1] = "cmd.flow.ctx_get_records"
        BY <1>2, <1>4, <2>5, <3>1 DEF RecordsReport
      <4>2. r = g \/ Asked(g)'
        BY <1>2, <1>3, <1>7, <2>1, <4>1 DEF IInv, GlobalPageOK
      <4>3. r = g => reports'[i][2] = store'["global"]
        BY <1>2, <1>4, <1>5, <1>9, <3>1, <4>1 DEF tpflow
      <4> QED
        BY <4>2, <4>3 DEF Renewed
    <3>2. CASE i \in 1 .. Len(reports)
      <4>1. reports[i][2] = store["global"] \/ Renewed(i)
        BY <1>4, <2>1, <2>5, <3>2 DEF RecordsReport, IInv, GlobalPageOK
      <4>2. i \in 0 .. n /\ i # n
        BY <1>4, <3>2
      <4> QED
        BY <1>4, <2>3, <2>4, <3>2, <4>1, <4>2
    <3> QED
      BY <1>4, <3>1, <3>2
  <2>6. shown = Rows(store'["global"], "global") \/ Renewed(0)'
    <3>1. 0 \in 0 .. n /\ 0 # n
      BY <1>4
    <3>2. shown = Rows(store["global"], "global") \/ Renewed(0)
      BY <2>1 DEF IInv, GlobalPageOK
    <3>3. CASE store'["global"] = store["global"]
      BY <2>3, <3>1, <3>2, <3>3
    <3> QED
      BY <2>4, <3>1, <3>3
  <2> QED
    BY <2>2, <2>5, <2>6
<1>12. ServiceOK'
  <2>1. ASSUME lastRequestFlowId \notin {"none", "global"}
        PROVE  \/ \E i \in 1 .. Len(requests') : requests'[i][1] = "cmd.flow.ctx_get_records"
               \/ \E i \in 1 .. Len(reports') : RecordsReport(i)'
    <3>1. CASE \E i \in 1 .. Len(reports) : RecordsReport(i)
      BY <1>4, <3>1 DEF RecordsReport
    <3>2. ASSUME NEW i \in 1 .. Len(requests), requests[i][1] = "cmd.flow.ctx_get_records"
          PROVE  \/ \E k \in 1 .. Len(requests') : requests'[k][1] = "cmd.flow.ctx_get_records"
                 \/ RecordsReport(n)'
      <4>1. CASE i = 1
        BY <1>2, <1>9, <3>2, <4>1
      <4>2. CASE i > 1
        BY <1>3, <3>2, <4>2
      <4> QED
        BY <1>3, <4>1, <4>2
    <3> QED
      BY <1>4, <2>1, <3>1, <3>2 DEF IInv, ServiceOK
  <2>2. ASSUME lastRequestFlowId = "global", dialog # "closing"
        PROVE  /\ \A i \in 1 .. Len(requests') :
                     requests'[i][1] = "cmd.flow.ctx_update_record" /\ requests'[i][2] = "global" =>
                        \E j \in 1 .. Len(requests') : j > i /\ requests'[j] = g
               /\ \A v \in store'["global"] :
                     \/ <<v, TRUE>> \in contextRecords \/ Asked(g)'
                     \/ \E i \in 1 .. Len(reports') : RecordsReport(i)' /\ v \in reports'[i][2]
    <3>1. ASSUME NEW i \in 1 .. Len(requests'),
                 requests'[i][1] = "cmd.flow.ctx_update_record", requests'[i][2] = "global"
          PROVE  \E j \in 1 .. Len(requests') : j > i /\ requests'[j] = g
      <4>1. \E j \in 1 .. Len(requests) : j > i + 1 /\ requests[j] = g
        BY <1>3, <2>2, <3>1 DEF IInv, ServiceOK
      <4> QED
        BY <1>8, <4>1
    <3>2. ASSUME NEW v \in store'["global"], v \notin store["global"]
          PROVE  Asked(g)'
      BY <1>2, <1>3, <1>7, <2>2, <3>2 DEF IInv, ServiceOK
    <3>3. ASSUME NEW v \in store["global"]
          PROVE  \/ <<v, TRUE>> \in contextRecords \/ Asked(g)'
                 \/ \E i \in 1 .. Len(reports') : RecordsReport(i)' /\ v \in reports'[i][2]
      <4>1. CASE Asked(g)
        <5>1. CASE r = g
          BY <1>2, <1>4, <1>5, <1>9, <5>1
        <5> QED
          BY <1>6, <4>1, <5>1
      <4>2. CASE \E i \in 1 .. Len(reports) : RecordsReport(i) /\ v \in reports[i][2]
        BY <1>4, <4>2 DEF RecordsReport
      <4> QED
        BY <2>2, <3>3, <4>1, <4>2 DEF IInv, ServiceOK
    <3> QED
      BY <3>1, <3>2, <3>3
  <2> QED
    BY <1>1, <2>1, <2>2 DEF ServiceOK, service, contextPage
<1>13. TypeOK'
  BY <1>1, <1>2, <1>3, <1>4 DEF IInv, TypeOK, OnContext, contextPage
<1> QED
  BY <1>10, <1>11, <1>12, <1>13 DEF IInv

-----------------------------------------------------------------------------
(* The reports.                                                              *)

LEMMA ReportKinds ==
    ASSUME NEW x \in Reports
    PROVE  /\ x[1] = "evt.flow.ctx_records_report" =>
                x[1] \notin ContextChanged \cup ListChanged /\ x[1] # "evt.flow.list_report"
           /\ x[1] = "evt.flow.list_report" => x[1] \notin ContextChanged \cup ListChanged
  BY DEF Reports, ContextChanged, ListChanged

\* What the service does with a report, and what it asks for.
LEMMA ServiceTaking ==
    ASSUME IInv, NEW x, ServiceTakes(x)
    PROVE  \E m \in {<<>>, <<GetRecords("global")>>} :
              /\ requests' = requests \o m
              /\ x[1] = "evt.flow.ctx_records_report" /\ lastRequestFlowId # "none" =>
                    /\ contextRecords' = MapContext(x[2], lastRequestFlowId)
                    /\ lastRequestFlowId' = "global"
                    /\ lastRequestFlowId # "global" => m = <<GetRecords("global")>>
              /\ ~(x[1] = "evt.flow.ctx_records_report" /\ lastRequestFlowId # "none") => UNCHANGED service
<1>1. requests \o <<>> = requests
  BY NoMessage DEF IInv
<1>2. CASE x[1] = "evt.flow.ctx_records_report" /\ lastRequestFlowId # "none"
  <2>1. /\ contextRecords' = MapContext(x[2], lastRequestFlowId) /\ lastRequestFlowId' = "global"
        /\ requests' = requests \o IF lastRequestFlowId # "global" THEN <<GetRecords("global")>> ELSE <<>>
    BY <1>2 DEF ServiceTakes
  <2> QED
    BY <1>2, <2>1
<1>3. CASE ~(x[1] = "evt.flow.ctx_records_report" /\ lastRequestFlowId # "none")
  <2>1. UNCHANGED service /\ requests' = requests
    BY <1>3 DEF ServiceTakes
  <2> QED
    BY <1>1, <1>3, <2>1
<1> QED
  BY <1>2, <1>3

\* One report leaves its queue; at most one request is asked for by it.
LEMMA Receiving ==
    ASSUME IInv, Receive
    PROVE  /\ UNCHANGED <<tpflow, online, page, connSub>>
           /\ reports # <<>> /\ reports' = Tail(reports)
           /\ dialog' = dialog \/ (OnContext /\ dialog' = "none" /\ dialog = "edit")
           /\ \E x \in Reports, m \in {<<>>, <<GetList>>} \cup {<<GetRecords(c)>> : c \in Contexts} :
                /\ x = reports[1] /\ requests' = requests \o m
                /\ page = Overview =>
                      /\ flows' = IF x[1] = "evt.flow.list_report" THEN x[2] ELSE flows
                      /\ x[1] \in ListChanged => m = <<GetList>>
                /\ page = Context("global") =>
                      /\ shown' = IF x[1] = "evt.flow.ctx_records_report" THEN Rows(x[2], "global") ELSE shown
                      /\ x[1] \in ContextChanged => m = <<GetRecords("global")>>
                      /\ m \in {<<>>, <<GetRecords("global")>>}
                /\ x[1] = "evt.flow.ctx_records_report" /\ lastRequestFlowId # "none" =>
                      /\ contextRecords' = MapContext(x[2], lastRequestFlowId)
                      /\ lastRequestFlowId' = "global"
                      /\ lastRequestFlowId # "global" => m = <<GetRecords("global")>>
                /\ ~(x[1] = "evt.flow.ctx_records_report" /\ lastRequestFlowId # "none") => UNCHANGED service
<1>1. reports # <<>> /\ reports' = Tail(reports) /\ UNCHANGED <<tpflow, online, page, connSub>>
  BY DEF Receive
<1>2. PICK x \in Reports : x = reports[1] /\ x = Head(reports)
  BY <1>1 DEF IInv, TypeOK
<1>3. "global" \in Contexts
  BY Kinds
<1>4. requests \in Seq(Requests)
  BY DEF IInv, TypeOK
<1> DEFINE Asks == {<<>>, <<GetList>>} \cup {<<GetRecords(c)>> : c \in Contexts}
<1> DEFINE Records == x[1] = "evt.flow.ctx_records_report" /\ lastRequestFlowId # "none"
<1> DEFINE Filed(m) ==
       /\ Records => /\ contextRecords' = MapContext(x[2], lastRequestFlowId)
                     /\ lastRequestFlowId' = "global"
                     /\ lastRequestFlowId # "global" => m = <<GetRecords("global")>>
       /\ ~Records => UNCHANGED service
<1>5. ASSUME ServiceTakes(x)
      PROVE  \E m \in {<<>>, <<GetRecords("global")>>} : requests' = requests \o m /\ Filed(m)
  BY <1>5, ServiceTaking
<1>6. ASSUME UNCHANGED service, x[1] \in ContextChanged \cup ListChanged, NEW m
      PROVE  Filed(m)
  BY <1>6, ReportKinds
<1> DEFINE OfPages(m) ==
       /\ page = Overview =>
             /\ flows' = IF x[1] = "evt.flow.list_report" THEN x[2] ELSE flows
             /\ x[1] \in ListChanged => m = <<GetList>>
       /\ page = Context("global") =>
             /\ shown' = IF x[1] = "evt.flow.ctx_records_report" THEN Rows(x[2], "global") ELSE shown
             /\ x[1] \in ContextChanged => m = <<GetRecords("global")>>
             /\ m \in {<<>>, <<GetRecords("global")>>}
<1> HIDE DEF Filed
<1>7. CASE OnContext
  <2>1. ContextPageTakes(x)
    <3>1. page # Overview
      BY <1>7, Pages DEF OnContext
    <3> QED
      BY <1>2, <1>7, <3>1 DEF Receive
  <2>2. /\ shown' = IF x[1] = "evt.flow.ctx_records_report" THEN Rows(x[2], page[2]) ELSE shown
        /\ dialog' = dialog \/ (dialog' = "none" /\ dialog = "edit")
    BY <2>1 DEF ContextPageTakes
  <2>3. page # Overview /\ (page = Context("global") => page[2] = "global") /\ page[2] \in Contexts
    BY <1>7, Pages, ContextPage DEF OnContext, IInv
  <2>4. CASE x[1] \in ContextChanged
    <3>1. requests' = requests \o <<GetRecords(page[2])>> /\ UNCHANGED service
      BY <1>4, <2>1, <2>3, <2>4, Kinds DEF ContextPageTakes
    <3>2. Filed(<<GetRecords(page[2])>>)
      BY <1>6, <2>4, <3>1
    <3>3. OfPages(<<GetRecords(page[2])>>)
      BY <2>2, <2>3
    <3>4. <<GetRecords(page[2])>> \in Asks
      BY <2>3
    <3> QED
      BY <1>1, <1>2, <1>7, <2>2, <3>1, <3>2, <3>3, <3>4 DEF Filed
  <2>5. CASE x[1] \notin ContextChanged
    <3>1. PICK m \in {<<>>, <<GetRecords("global")>>} : requests' = requests \o m /\ Filed(m)
      BY <1>5, <2>1, <2>5 DEF ContextPageTakes
    <3>2. OfPages(m)
      BY <2>2, <2>3, <2>5
    <3>3. m \in Asks
      BY <1>3
    <3> QED
      BY <1>1, <1>2, <1>7, <2>2, <3>1, <3>2, <3>3 DEF Filed
  <2> QED
    BY <2>4, <2>5
<1>8. CASE page = Overview
  <2>1. ~OnContext /\ page # Context("global")
    BY <1>8, Pages DEF OnContext
  <2>2. OverviewTakes(x)
    BY <1>2, <1>8, <2>1 DEF Receive
  <2>3. /\ flows' = IF x[1] = "evt.flow.list_report" THEN x[2] ELSE flows
        /\ dialog' = dialog
    BY <2>2 DEF OverviewTakes
  <2>4. CASE x[1] \in ListChanged
    <3>1. requests' = requests \o <<GetList>> /\ UNCHANGED service
      BY <1>4, <2>2, <2>4, Kinds DEF OverviewTakes
    <3>2. Filed(<<GetList>>)
      BY <1>6, <2>4, <3>1
    <3>3. OfPages(<<GetList>>)
      BY <2>1, <2>3
    <3> QED
      BY <1>1, <1>2, <2>3, <3>1, <3>2, <3>3 DEF Filed
  <2>5. CASE x[1] \notin ListChanged
    <3>1. PICK m \in {<<>>, <<GetRecords("global")>>} : requests' = requests \o m /\ Filed(m)
      BY <1>5, <2>2, <2>5 DEF OverviewTakes
    <3>2. OfPages(m)
      BY <2>1, <2>3, <2>5
    <3>3. m \in Asks
      BY <1>3
    <3> QED
      BY <1>1, <1>2, <2>3, <3>1, <3>2, <3>3 DEF Filed
  <2> QED
    BY <2>4, <2>5
<1>9. CASE ~OnContext /\ page # Overview
  <2>1. ServiceTakes(x) /\ dialog' = dialog
    BY <1>2, <1>9 DEF Receive
  <2>2. page # Context("global")
    BY <1>9, Pages DEF OnContext
  <2>3. PICK m \in {<<>>, <<GetRecords("global")>>} : requests' = requests \o m /\ Filed(m)
    BY <1>5, <2>1
  <2>4. OfPages(m)
    BY <1>9, <2>2
  <2>5. m \in Asks
    BY <1>3
  <2> QED
    BY <1>1, <1>2, <2>1, <2>3, <2>4, <2>5 DEF Filed
<1> QED
  BY <1>7, <1>8, <1>9

LEMMA ReceiveKeeps ==
    ASSUME IInv, Receive
    PROVE  IInv'
<1> DEFINE g == GetRecords("global")
<1>1. /\ UNCHANGED <<tpflow, online, page, connSub>>
      /\ reports # <<>> /\ reports' = Tail(reports)
      /\ dialog' = dialog \/ (OnContext /\ dialog' = "none" /\ dialog = "edit")
  BY Receiving
<1>2. PICK x \in Reports, m \in {<<>>, <<GetList>>} \cup {<<GetRecords(c)>> : c \in Contexts} :
         /\ x = reports[1] /\ requests' = requests \o m
         /\ page = Overview =>
               /\ flows' = IF x[1] = "evt.flow.list_report" THEN x[2] ELSE flows
               /\ x[1] \in ListChanged => m = <<GetList>>
         /\ page = Context("global") =>
               /\ shown' = IF x[1] = "evt.flow.ctx_records_report" THEN Rows(x[2], "global") ELSE shown
               /\ x[1] \in ContextChanged => m = <<g>>
               /\ m \in {<<>>, <<g>>}
         /\ x[1] = "evt.flow.ctx_records_report" /\ lastRequestFlowId # "none" =>
               /\ contextRecords' = MapContext(x[2], lastRequestFlowId)
               /\ lastRequestFlowId' = "global"
               /\ lastRequestFlowId # "global" => m = <<g>>
         /\ ~(x[1] = "evt.flow.ctx_records_report" /\ lastRequestFlowId # "none") => UNCHANGED service
  BY Receiving
<1>3. /\ reports' \in Seq(Reports) /\ 1 \in 1 .. Len(reports)
      /\ \A i \in 1 .. Len(reports') : i + 1 \in 1 .. Len(reports) /\ reports'[i] = reports[i + 1]
      /\ \A i \in 1 .. Len(reports) : i > 1 => i - 1 \in 1 .. Len(reports') /\ reports'[i - 1] = reports[i]
  BY <1>1, Shortened DEF IInv, TypeOK
<1>4. /\ m \in Seq(Requests)
      /\ \A i \in 1 .. Len(m) : m[i][1] # "cmd.flow.ctx_update_record"
  <2>1. CASE m = <<>>
    BY <2>1
  <2>2. ASSUME NEW a \in Requests, a[1] # "cmd.flow.ctx_update_record", m = <<a>>
        PROVE  m \in Seq(Requests) /\ \A i \in 1 .. Len(m) : m[i][1] # "cmd.flow.ctx_update_record"
    BY <2>2, OneMessage
  <2>3. GetList \in Requests /\ GetList[1] # "cmd.flow.ctx_update_record"
    BY Kinds
  <2>4. \A c \in Contexts : GetRecords(c) \in Requests /\ GetRecords(c)[1] # "cmd.flow.ctx_update_record"
    BY Kinds
  <2> QED
    BY <1>2, <2>1, <2>2, <2>3, <2>4
<1>5. /\ requests' \in Seq(Requests)
      /\ \A i \in 1 .. Len(requests) : i \in 1 .. Len(requests') /\ requests'[i] = requests[i]
      /\ \A i \in 1 .. Len(requests') :
            \/ i \in 1 .. Len(requests)
            \/ i - Len(requests) \in 1 .. Len(m) /\ requests'[i] = m[i - Len(requests)]
  BY <1>2, <1>4, Growing DEF IInv
<1>6. /\ g \in Requests /\ g[1] = "cmd.flow.ctx_get_records" /\ GetList \in Requests
      /\ Len(requests) \in Nat /\ Len(reports) \in Nat
  BY Kinds, Elements DEF IInv
<1>7. ASSUME NEW a \in Requests, m = <<a>>
      PROVE  \E k \in 1 .. Len(requests') :
                requests'[k] = a /\ \A i \in 1 .. Len(requests') : i = k \/ k > i
  BY <1>2, <1>7, GrowingByOne DEF IInv
<1>8. \A a : Asked(a) => \E k \in 1 .. Len(requests') : requests'[k] = a
  BY <1>5 DEF Asked
<1>9. ASSUME NEW a \in Requests, Asked(a) \/ m = <<a>>
      PROVE  Asked(a)'
  BY <1>7, <1>8, <1>9 DEF Asked
<1>10. ASSUME NEW i \in 1 .. Len(reports), i > 1
       PROVE  \E j \in 1 .. Len(reports') : j + 1 = i /\ reports'[j] = reports[i]
  <2>1. i - 1 \in 1 .. Len(reports') /\ reports'[i - 1] = reports[i] /\ (i - 1) + 1 = i
    BY <1>3, <1>10
  <2> QED
    BY <2>1
<1>11. ListOK'
  <2>1. ASSUME NEW i \in 1 .. Len(reports'), ListReport(i)'
        PROVE  \/ reports'[i][2] = state'
               \/ \E j \in 1 .. Len(reports') : j > i /\ reports'[j][1] \in ListChanged
    <3>1. /\ i + 1 \in 1 .. Len(reports) /\ reports'[i] = reports[i + 1] /\ ListReport(i + 1)
          /\ state' = state
      BY <1>1, <1>3, <2>1 DEF ListReport, tpflow
    <3>2. ASSUME NEW j \in 1 .. Len(reports), j > i + 1, reports[j][1] \in ListChanged
          PROVE  \E k \in 1 .. Len(reports') : k > i /\ reports'[k][1] \in ListChanged
      BY <1>10, <3>2
    <3> QED
      BY <3>1, <3>2 DEF IInv, ListOK
  <2>2. ASSUME page = Overview, online
        PROVE  \/ flows' = state \/ Asked(GetList)'
               \/ \E i \in 1 .. Len(reports') : ListReport(i)' \/ reports'[i][1] \in ListChanged
    <3>1. CASE x[1] = "evt.flow.list_report"
      <4>1. flows' = reports[1][2] /\ ListReport(1)
        BY <1>2, <2>2, <3>1 DEF ListReport
      <4>2. \/ reports[1][2] = state
            \/ \E j \in 1 .. Len(reports) : j > 1 /\ reports[j][1] \in ListChanged
        BY <1>3, <4>1 DEF IInv, ListOK
      <4> QED
        BY <1>10, <4>1, <4>2
    <3>2. CASE x[1] # "evt.flow.list_report"
      <4>1. flows' = flows /\ ~ListReport(1) /\ (x[1] \in ListChanged => Asked(GetList)')
        BY <1>2, <1>6, <1>9, <2>2, <3>2 DEF ListReport
      <4>2. Asked(GetList) => Asked(GetList)'
        BY <1>6, <1>9
      <4>3. ASSUME NEW i \in 1 .. Len(reports), ListReport(i) \/ reports[i][1] \in ListChanged
            PROVE  \/ Asked(GetList)'
                   \/ \E k \in 1 .. Len(reports') : ListReport(k)' \/ reports'[k][1] \in ListChanged
        <5>1. CASE i = 1
          BY <1>2, <4>1, <4>3, <5>1
        <5>2. CASE i > 1
          BY <1>10, <4>3, <5>2 DEF ListReport
        <5> QED
          BY <1>6, <5>1, <5>2
      <4> QED
        BY <2>2, <4>1, <4>2, <4>3 DEF IInv, ListOK
    <3> QED
      BY <3>1, <3>2
  <2> QED
    BY <1>1, <2>1, <2>2 DEF IInv, ListOK, tpflow
<1>12. GlobalPageOK'
  <2>1. SUFFICES ASSUME page = Context("global")
                 PROVE  /\ \A i \in 1 .. Len(requests') :
                              requests'[i][1] = "cmd.flow.ctx_get_records" =>
                                 requests'[i] = g \/ \E j \in 1 .. Len(requests') : j > i /\ requests'[j] = g
                        /\ \A i \in 1 .. Len(reports') : RecordsReport(i)' =>
                              reports'[i][2] = store["global"] \/ Renewed(i)'
                        /\ shown' = Rows(store["global"], "global") \/ Renewed(0)'
    BY <1>1 DEF GlobalPageOK, Rows, tpflow
  <2>2. ASSUME NEW i \in 1 .. Len(requests'), requests'[i][1] = "cmd.flow.ctx_get_records"
        PROVE  requests'[i] = g \/ \E j \in 1 .. Len(requests') : j > i /\ requests'[j] = g
    <3>1. CASE i \in 1 .. Len(requests)
      BY <1>5, <2>1, <2>2, <3>1 DEF IInv, GlobalPageOK
    <3>2. CASE i \notin 1 .. Len(requests)
      <4>1. m = <<g>>
        BY <1>2, <1>5, <2>1, <3>2
      <4> QED
        BY <1>5, <3>2, <4>1
    <3> QED
      BY <3>1, <3>2
  <2>3. ASSUME NEW i \in Nat, Renewed(i + 1)
        PROVE  Renewed(i)'
    <3>1. Asked(g) => Asked(g)'
      BY <1>6, <1>9
    <3>2. ASSUME NEW j \in 1 .. Len(reports), j > i + 1,
                 RecordsReport(j) \/ reports[j][1] \in ContextChanged
          PROVE  Renewed(i)'
      BY <1>10, <3>2 DEF Renewed, RecordsReport
    <3> QED
      BY <2>3, <3>1, <3>2 DEF Renewed
  <2>4. ASSUME NEW i \in 1 .. Len(reports'), RecordsReport(i)'
        PROVE  reports'[i][2] = store["global"] \/ Renewed(i)'
    <3>1. i + 1 \in 1 .. Len(reports) /\ reports'[i] = reports[i + 1] /\ RecordsReport(i + 1)
      BY <1>3, <2>4 DEF RecordsReport
    <3> QED
      BY <2>1, <2>3, <3>1 DEF IInv, GlobalPageOK
  <2>5. shown' = Rows(store["global"], "global") \/ Renewed(0)'
    <3>1. CASE x[1] = "evt.flow.ctx_records_report"
      <4>1. shown' = Rows(x[2], "global") /\ RecordsReport(1) /\ x = reports[1]
        BY <1>2, <2>1, <3>1 DEF RecordsReport
      <4>2. x[2] = store["global"] \/ Renewed(0 + 1)
        BY <1>3, <2>1, <4>1 DEF IInv, GlobalPageOK
      <4> QED
        BY <2>3, <4>1, <4>2
    <3>2. CASE x[1] # "evt.flow.ctx_records_report"
      <4>1. shown' = shown /\ ~RecordsReport(1)
        BY <1>2, <2>1, <3>2 DEF RecordsReport
      <4>2. x[1] \in ContextChanged => Renewed(0)'
        BY <1>2, <1>6, <1>9, <2>1 DEF Renewed
      <4>3. Asked(g) => Renewed(0)'
        BY <1>6, <1>9 DEF Renewed
      <4>4. ASSUME NEW j \in 1 .. Len(reports), RecordsReport(j) \/ reports[j][1] \in ContextChanged
            PROVE  Renewed(0)'
        <5>1. CASE j = 1
          BY <1>2, <4>1, <4>2, <4>4, <5>1
        <5>2. CASE j > 1
          <6>1. Renewed(0 + 1)
            BY <4>4, <5>2 DEF Renewed
          <6> QED
            BY <2>3, <6>1
        <5> QED
          BY <1>6, <5>1, <5>2
      <4> QED
        BY <2>1, <4>1, <4>3, <4>4 DEF IInv, GlobalPageOK, Renewed
    <3> QED
      BY <3>1, <3>2
  <2> QED
    BY <2>2, <2>4, <2>5
<1>13. ServiceOK'
  <2>1. ASSUME lastRequestFlowId' \notin {"none", "global"}
        PROVE  \/ \E i \in 1 .. Len(requests') : requests'[i][1] = "cmd.flow.ctx_get_records"
               \/ \E i \in 1 .. Len(reports') : RecordsReport(i)'
    <3>1. ~(x[1] = "evt.flow.ctx_records_report" /\ lastRequestFlowId # "none")
      BY <1>2, <2>1
    <3>2. lastRequestFlowId' = lastRequestFlowId /\ x[1] # "evt.flow.ctx_records_report"
      BY <1>2, <2>1, <3>1 DEF service
    <3>3. ASSUME NEW i \in 1 .. Len(reports), RecordsReport(i)
          PROVE  \E k \in 1 .. Len(reports') : RecordsReport(k)'
      <4>1. i # 1
        BY <1>2, <3>2, <3>3 DEF RecordsReport
      <4> QED
        BY <1>6, <1>10, <3>3, <4>1 DEF RecordsReport
    <3> QED
      BY <1>5, <2>1, <3>2, <3>3 DEF IInv, ServiceOK
  <2>2. ASSUME lastRequestFlowId' = "global", dialog' # "closing"
        PROVE  /\ \A i \in 1 .. Len(requests') :
                     requests'[i][1] = "cmd.flow.ctx_update_record" /\ requests'[i][2] = "global" =>
                        \E j \in 1 .. Len(requests') : j > i /\ requests'[j] = g
               /\ \A v \in store["global"] :
                     \/ <<v, TRUE>> \in contextRecords' \/ Asked(g)'
                     \/ \E i \in 1 .. Len(reports') : RecordsReport(i)' /\ v \in reports'[i][2]
    <3>1. dialog # "closing"
      BY <1>1, <2>2
    <3>2. CASE lastRequestFlowId = "global"
      <4>1. ASSUME NEW i \in 1 .. Len(requests'),
                   requests'[i][1] = "cmd.flow.ctx_update_record", requests'[i][2] = "global"
            PROVE  \E j \in 1 .. Len(requests') : j > i /\ requests'[j] = g
        <5>1. i \in 1 .. Len(requests) /\ requests'[i] = requests[i]
          BY <1>4, <1>5, <4>1
        <5> QED
          BY <1>5, <3>1, <3>2, <4>1, <5>1 DEF IInv, ServiceOK
      <4>2. ASSUME NEW v
            PROVE  /\ <<v, TRUE>> \in contextRecords => <<v, TRUE>> \in contextRecords'
                   /\ x[1] = "evt.flow.ctx_records_report" /\ v \in x[2] => <<v, TRUE>> \in contextRecords'
        <5>1. CASE x[1] = "evt.flow.ctx_records_report"
          <6>1. contextRecords' = contextRecords \cup {<<n, "global" = "global">> : n \in x[2]}
            BY <1>2, <3>2, <5>1 DEF MapContext
          <6>2. ("global" = "global") = TRUE
            OBVIOUS
          <6> QED
            BY <6>1, <6>2
        <5>2. CASE x[1] # "evt.flow.ctx_records_report"
          BY <1>2, <5>2 DEF service
        <5> QED
          BY <5>1, <5>2
      <4>3. ASSUME NEW v, NEW i \in 1 .. Len(reports), RecordsReport(i), v \in reports[i][2]
            PROVE  \/ <<v, TRUE>> \in contextRecords'
                   \/ \E k \in 1 .. Len(reports') : RecordsReport(k)' /\ v \in reports'[k][2]
        <5>1. CASE i = 1
          BY <1>2, <4>2, <4>3, <5>1 DEF RecordsReport
        <5>2. CASE i > 1
          BY <1>10, <4>3, <5>2 DEF RecordsReport
        <5> QED
          BY <1>6, <5>1, <5>2
      <4>4. Asked(g) => Asked(g)'
        BY <1>6, <1>9
      <4>5. ASSUME NEW v \in store["global"]
            PROVE  \/ <<v, TRUE>> \in contextRecords' \/ Asked(g)'
                   \/ \E i \in 1 .. Len(reports') : RecordsReport(i)' /\ v \in reports'[i][2]
        BY <3>1, <3>2, <4>2, <4>3, <4>4, <4>5 DEF IInv, ServiceOK
      <4> QED
        BY <4>1, <4>5
    <3>3. CASE lastRequestFlowId # "global"
      <4>1. m = <<g>>
        BY <1>2, <2>2, <3>3 DEF service
      <4>2. Asked(g)'
        BY <1>6, <1>9, <4>1
      <4>3. ASSUME NEW i \in 1 .. Len(requests'),
                   requests'[i][1] = "cmd.flow.ctx_update_record", requests'[i][2] = "global"
            PROVE  \E j \in 1 .. Len(requests') : j > i /\ requests'[j] = g
        <5>1. PICK k \in 1 .. Len(requests') :
                 requests'[k] = g /\ \A j \in 1 .. Len(requests') : j = k \/ k > j
          BY <1>6, <1>7, <4>1
        <5>2. i # k
          BY <1>6, <4>3, <5>1
        <5> QED
          BY <5>1, <5>2
      <4> QED
        BY <4>2, <4>3
    <3> QED
      BY <3>2, <3>3
  <2> QED
    BY <1>1, <2>1, <2>2 DEF ServiceOK, tpflow
<1>14. TypeOK'
  BY <1>1, <1>3, <1>5 DEF IInv, TypeOK, OnContext, tpflow
<1> QED
  BY <1>11, <1>12, <1>13, <1>14 DEF IInv

-----------------------------------------------------------------------------
LEMMA InitIInv ==
    ASSUME Init
    PROVE  IInv
<1>1. page = NoPage /\ NoPage # Overview /\ ~OnContext /\ page # Context("global")
  BY Pages DEF Init, OnContext
<1>2. requests \in Seq(Requests) /\ reports \in Seq(Reports) /\ Len(reports) = 0
  BY DEF Init
<1>3. TypeOK
  BY <1>1, <1>2 DEF Init, TypeOK, FlowStates
<1>4. ListOK /\ GlobalPageOK /\ ServiceOK
  BY <1>1, <1>2 DEF Init, ListOK, GlobalPageOK, ServiceOK
<1> QED
  BY <1>3, <1>4 DEF IInv

LEMMA NextIInv ==
    ASSUME IInv, [Next]_vars
    PROVE  IInv'
<1>1. CASE UNCHANGED vars
  <2>1. UNCHANGED <<tpflow, online, requests, reports, service, page, contextPage, overview>>
    BY <1>1 DEF vars, wire
  <2>2. TypeOK'
    BY <2>1 DEF IInv, TypeOK, tpflow, contextPage, OnContext
  <2>3. ListOK'
    BY <2>1 DEF IInv, ListOK, tpflow, overview, Asked, ListReport
  <2>4. GlobalPageOK'
    BY <2>1 DEF IInv, GlobalPageOK, tpflow, contextPage, Renewed, Asked, RecordsReport, Rows
  <2>5. ServiceOK'
    BY <2>1 DEF IInv, ServiceOK, tpflow, service, contextPage, Asked, RecordsReport
  <2> QED
    BY <2>2, <2>3, <2>4, <2>5 DEF IInv
<1>2. ASSUME NEW f \in Flows, OpenSelector(f)
      PROVE  IInv'
  BY <1>2, OpenSelectorKeeps
<1>3. ASSUME NEW n \in Names, NEW isGlobal \in BOOLEAN, SaveNewVariable(n, isGlobal)
      PROVE  IInv'
  BY <1>3, SaveNewVariableKeeps
<1>4. ASSUME NEW ctx \in Contexts, OpenContext(ctx)
      PROVE  IInv'
  BY <1>4, OpenContextKeeps
<1>5. CASE \/ OnModeChange \/ Reload \/ AfterClosed \/ CancelDialog
           \/ \E d \in {"edit", "add"} : OpenDialog(d)
           \/ \E n \in Names : SaveRecord(n) \/ DeleteRecord(n)
  BY <1>5, ContextPageKeeps
<1>6. CASE \/ OpenOverview \/ Connect \/ ImportTimer \/ Leave \/ CloseImport(<<>>)
           \/ \E f \in Flows :
                \/ FlowCommand(f, <<"cmd.flow.delete", f>>)
                \/ \E op \in {"RUNNING", "STOPPED"} : FlowCommand(f, <<"cmd.flow.ctrl", f, op>>)
                \/ CloseImport(<<<<"cmd.flow.import", f>>>>)
  BY <1>6, OverviewKeeps
<1> QED
  BY <1>1, <1>2, <1>3, <1>4, <1>5, <1>6, ServeKeeps, ReceiveKeeps DEF Next

LEMMA Invariance == Spec => []IInv
<1>1. Init => IInv
  BY InitIInv
<1>2. IInv /\ [Next]_vars => IInv'
  BY NextIInv
<1> QED
  BY <1>1, <1>2, PTL DEF Spec

-----------------------------------------------------------------------------
(* However the commands of the overview (deleteFlow, sendFlowControlCommand, *)
(* the import and its timer) and tpflow's answers interleave, a list that is *)
(* at rest is what tpflow has: the answer to a change comes behind every     *)
(* list that misses it, and makes the overview ask again.                    *)
THEOREM ListIsCurrent == Spec => []ListCurrent
<1>1. IInv => ListCurrent
  BY DEF IInv, TypeOK, ListOK, ListCurrent, Rest, Asked
<1> QED
  BY <1>1, Invariance, PTL

(* The page of global variables takes every report of records, those that    *)
(* selectors asked for as well; it comes to rest on the global ones, for the *)
(* service asks for them whenever it has asked for a flow's.                 *)
THEOREM GlobalPageIsCurrent == Spec => []GlobalPageCurrent
<1>1. IInv => GlobalPageCurrent
  BY DEF IInv, TypeOK, GlobalPageOK, GlobalPageCurrent, Rest, Asked, Renewed
<1> QED
  BY <1>1, Invariance, PTL

(* FlowContextService files what it gets under the context it asked for      *)
(* last, which may be another's; its second request, for the global records, *)
(* still brings every global variable to the selectors.                      *)
THEOREM GlobalsAreOffered == Spec => []GlobalsOffered
<1>1. IInv => GlobalsOffered
  <2>1. SUFFICES ASSUME IInv, Rest, lastRequestFlowId # "none"
                 PROVE  \A n \in store["global"] : <<n, TRUE>> \in contextRecords
    BY DEF GlobalsOffered
  <2>2. Len(requests) = 0 /\ Len(reports) = 0 /\ dialog # "closing"
    BY <2>1 DEF Rest
  <2>3. lastRequestFlowId = "global"
    BY <2>1, <2>2 DEF IInv, ServiceOK
  <2>4. ~Asked(GetRecords("global")) /\ \A i : i \notin 1 .. Len(reports)
    BY <2>2 DEF Asked
  <2> QED
    BY <2>1, <2>2, <2>3, <2>4 DEF IInv, ServiceOK
<1> QED
  BY <1>1, Invariance, PTL
=============================================================================
