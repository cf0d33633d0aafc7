------------------------------- MODULE Charts -------------------------------
(* The analytics pages with their charts (line-chart, bar-chart and binary-   *)
(* sensor-chart, alike in what is modelled) and the settings they share.      *)
(* A page has one chart for each selected measurement; every chart queries    *)
(* ecollector by itself and hears all answers. Requests and answers overtake  *)
(* one another, or are lost with the WebSocket. What the query asked for is   *)
(* abstracted to the tag it groups by, a series to the tag it is labelled by, *)
(* and the labels of a tag have one colour. Time ranges, sizes and the layout *)
(* are left out; the timer of "auto reload" is a Reload like the button's.    *)
EXTENDS Naturals, FiniteSets, Functions

CONSTANTS Measurements, Tags, Colors,
          ChartPages,   \* of "sensors" and "energy"; "activity" is like "energy"
          Ids,          \* uids of messages: bounds the queries under way
          MaxSaved,     \* bounds the pages with a saved configuration
          None          \* no chart, no request, no colour, no configuration

ASSUME ChartsAssumption ==
  /\ IsFiniteSet(Ids) /\ IsFiniteSet(Measurements) /\ Tags # {} /\ MaxSaved \in Nat
  /\ ChartPages \subseteq {"sensors", "energy"}
  /\ None \notin Tags \cup Colors \cup Ids \cup Measurements

VARIABLES chartPage, selected, groupByTag,
          listRequest,      \* sensors: uid of the request for the list of measurements
          listKnown,        \* the list is there; the other pages have it in the code
          charts,           \* by measurement: None or a chart
          queries, answers,
          colors, changeDetected, dashboardConfigStore,     \* the settings
          storedColors, storedConfigs,                      \* the local storage
          chosen            \* labels that got a colour from the user, not saved since

chartsView == <<chartPage, selected, groupByTag, listRequest, listKnown, charts>>
wire == <<queries, answers>>
settings == <<colors, changeDetected, dashboardConfigStore, storedColors, storedConfigs, chosen>>
chartsVars == <<chartsView, wire, settings>>

NoData == [req |-> None, by |-> None, label |-> None, color |-> None]
NewChart(id) == [lastRequestId |-> id, lost |-> FALSE, clean |-> TRUE, data |-> NoData]
OpenCharts == {m \in Measurements : charts[m] # None}

InUse == {r.id : r \in queries \cup answers} \cup (IF listKnown THEN {} ELSE {listRequest})
           \cup UNION {{charts[m].lastRequestId, charts[m].data.req} : m \in OpenCharts}

\* Uids for messages about the members of S; messages get them in any order.
FreshFor(S) == CHOOSE uid \in [S -> Ids \ InUse] : IsInjective(uid)
CanAsk(S) == Cardinality(S) <= Cardinality(Ids \ InUse)
Message(id, of, tag) == [id |-> id, of |-> of, by |-> tag]

ChartsInit == /\ chartPage = "none" /\ selected = {} /\ groupByTag = CHOOSE t \in Tags : TRUE
              /\ listRequest = None /\ listKnown = FALSE
              /\ charts = [m \in Measurements |-> None]
              /\ queries = {} /\ answers = {}
              /\ colors = [t \in Tags |-> None] /\ storedColors = colors
              /\ changeDetected = FALSE /\ chosen = {}
              /\ dashboardConfigStore = [p \in ChartPages |-> None] /\ storedConfigs = dashboardConfigStore

(* The settings service. *)
\* Fault: the colours are not written.
SaveConfigsOnly(cols, configs, picked, changed) ==
  IF changed THEN storedConfigs' = configs /\ changeDetected' = FALSE /\ chosen' = {} /\ UNCHANGED storedColors
  ELSE chosen' = picked /\ UNCHANGED <<storedColors, storedConfigs, changeDetected>>

\* save: nothing is written unless something changed.
SaveSettings(cols, configs, picked, changed) ==
  IF changed THEN /\ storedColors' = cols /\ storedConfigs' = configs
                  /\ changeDetected' = FALSE /\ chosen' = {}
  ELSE /\ chosen' = picked
       /\ UNCHANGED <<storedColors, storedConfigs, changeDetected>>

\* Fault: a label gets another colour each time.
GetColorAnew(t, c) == c

\* getColor: a label without a colour gets one for good.
GetColor(t, c) == IF colors[t] # None THEN colors[t] ELSE c

\* colorUpdate of tsdb-config: setColor does not count as a change.
ColorUpdate(t, c) ==
  /\ chartPage = "tsdb" /\ colors[t] # None /\ colors' = [colors EXCEPT ![t] = c]
  /\ SaveSettings(colors', dashboardConfigStore, chosen \cup {t}, changeDetected)
  /\ UNCHANGED <<chartsView, wire, dashboardConfigStore>>

\* A pie chart colours its labels and does not save.
PieChart(t) == /\ chartPage = "none" /\ colors[t] = None
               /\ \E c \in Colors : colors' = [colors EXCEPT ![t] = c]
               /\ changeDetected' = TRUE
               /\ UNCHANGED <<chartsView, wire, dashboardConfigStore, storedColors, storedConfigs, chosen>>

\* queryData of a chart that is there.
Reloaded(chart, uid) == [chart EXCEPT !.lastRequestId = uid, !.lost = FALSE, !.clean = TRUE]

(* queryData of the charts of M, new ones or such that are told to reload. *)
QueryData(M, old) ==
  LET uid == FreshFor(M) IN
  /\ CanAsk(M)
  /\ charts' = [m \in Measurements |->
                  IF m \notin M THEN old[m]
                  ELSE IF old[m] = None THEN NewChart(uid[m])
                  ELSE Reloaded(old[m], uid[m])]
  /\ queries' = queries \cup {Message(uid[m], m, groupByTag') : m \in M}

\* The page shows the charts of S: others are destroyed, new ones query.
Show(S) == LET kept == [m \in Measurements |-> IF m \in S THEN charts[m] ELSE None] IN
           QueryData({m \in S : kept[m] = None}, kept)

\* loadFromStorage: what was saved for the page p, or its defaults; and what is saved.
ConfigOf(p) == IF dashboardConfigStore[p] # None THEN dashboardConfigStore[p]
               ELSE [selected |-> {}, tag |-> CHOOSE t \in Tags : TRUE]
Configs == [selected |-> selected, tag |-> groupByTag]

(* ngOnInit of a page: loadFromStorage, then the charts of a list known. *)
OpenPage(p) ==
  /\ chartPage = "none" /\ chartPage' = p
  /\ selected' = ConfigOf(p).selected /\ groupByTag' = ConfigOf(p).tag
  /\ listKnown' = (p # "sensors")
  /\ IF p = "sensors"
     THEN /\ CanAsk({None}) /\ listRequest' = FreshFor({None})[None]
          /\ queries' = queries \cup {Message(listRequest', None, None)}
          /\ UNCHANGED charts
     ELSE Show(selected') /\ UNCHANGED listRequest
  /\ UNCHANGED <<answers, settings>>

OpenTsdb == chartPage = "none" /\ chartPage' = "tsdb"
            /\ UNCHANGED <<selected, groupByTag, listRequest, listKnown, charts, wire, settings>>

Leave == /\ chartPage' = "none" /\ selected' = {} /\ listRequest' = None /\ listKnown' = FALSE
         /\ groupByTag' = CHOOSE t \in Tags : TRUE
         /\ charts' = [m \in Measurements |-> None]
ClosePage == chartPage # "none" /\ Leave /\ UNCHANGED <<wire, settings>>

\* updateListOfSensorTypes, or the *ngFor over the selection.
Select(S) == /\ chartPage \in ChartPages /\ selected' = S /\ S # selected
             /\ IF listKnown THEN UNCHANGED groupByTag /\ Show(S)
                ELSE UNCHANGED <<groupByTag, charts, queries>>
             /\ UNCHANGED <<chartPage, listRequest, listKnown, answers, settings>>

\* The charts get the new tag and do not query: an answer under way is for the old one.
ChangeTag(t) ==
  /\ chartPage \in ChartPages /\ groupByTag # t /\ groupByTag' = t
  /\ charts' = [m \in Measurements |->
                  IF m \in OpenCharts /\ charts[m].data.req # charts[m].lastRequestId
                  THEN [charts[m] EXCEPT !.clean = FALSE] ELSE charts[m]]
  /\ UNCHANGED <<chartPage, selected, listRequest, listKnown, wire, settings>>

\* reload: the button or the timer toggles reloadSignal, which every chart has as an input.
ReloadCharts == /\ chartPage \in ChartPages /\ OpenCharts # {}
                /\ UNCHANGED groupByTag /\ QueryData(OpenCharts, charts)
                /\ UNCHANGED <<chartPage, selected, listRequest, listKnown, answers, settings>>

Save == /\ chartPage \in ChartPages
        /\ Cardinality({chartPage} \cup {p \in ChartPages : dashboardConfigStore[p] # None}) <= MaxSaved
        /\ dashboardConfigStore' = [dashboardConfigStore EXCEPT ![chartPage] = Configs]
        /\ SaveSettings(colors, dashboardConfigStore', chosen, TRUE)
        /\ UNCHANGED <<chartsView, wire, colors>>

(* Answers: with series or without; reports for others pass every filter of   *)
(* the page's own subscriptions in the same way as answers to closed charts.  *)
EcollectorAnswers(r) == /\ r \in queries /\ queries' = queries \ {r}
                        /\ answers' = answers \cup {r}
                        /\ UNCHANGED <<chartsView, settings>>

\* Fault: the answers to other queries are taken too.
AcceptsAny(m, r) == m \in OpenCharts

\* The filter of a chart's subscription.
Accepts(m, r) == m \in OpenCharts /\ charts[m].lastRequestId = r.id

\* The series of a report, labelled by the tag the chart has now; a report may have none.
Series(r, hasSeries, c) ==
  IF hasSeries THEN [req |-> r.id, by |-> r.by, label |-> groupByTag, color |-> GetColor(groupByTag, c)]
               ELSE [NoData EXCEPT !.req = r.id]

\* transformData puts the new series in the place of the old ones; then the settings are saved.
TransformData(r, hasSeries, c) ==
  /\ charts' = [m \in Measurements |->
       IF Accepts(m, r)
       THEN [charts[m] EXCEPT !.data = Series(r, hasSeries, c)]
       ELSE charts[m]]
  /\ colors' = IF hasSeries /\ \E m \in Measurements : Accepts(m, r)
               THEN [colors EXCEPT ![groupByTag] = GetColor(groupByTag, c)] ELSE colors
  /\ SaveSettings(colors', dashboardConfigStore, chosen,
       (changeDetected /\ \E m \in Measurements : Accepts(m, r)) \/ colors' # colors)
  /\ UNCHANGED dashboardConfigStore

ReceiveData(r) == /\ r \in answers /\ r.of # None /\ answers' = answers \ {r}
                  /\ \E hasSeries \in BOOLEAN, c \in Colors : TransformData(r, hasSeries, c)
                  /\ UNCHANGED <<chartPage, selected, groupByTag, listRequest, listKnown, queries>>

ReceiveList(r) == /\ r \in answers /\ r.of = None /\ answers' = answers \ {r}
                  /\ IF r.id = listRequest THEN listKnown' = TRUE /\ UNCHANGED groupByTag /\ Show(selected)
                     ELSE UNCHANGED <<listKnown, groupByTag, charts, queries>>
                  /\ UNCHANGED <<chartPage, selected, listRequest, settings>>

LoseMessage(r) == /\ r \in queries \cup answers
                  /\ queries' = queries \ {r} /\ answers' = answers \ {r}
                  /\ charts' = [m \in Measurements |->
                                  IF Accepts(m, r) THEN [charts[m] EXCEPT !.lost = TRUE] ELSE charts[m]]
                  /\ UNCHANGED <<chartPage, selected, groupByTag, listRequest, listKnown, settings>>

ReloadWindow == /\ Leave /\ colors' = storedColors /\ dashboardConfigStore' = storedConfigs
                /\ changeDetected' = FALSE /\ chosen' = {}
                /\ UNCHANGED <<wire, storedColors, storedConfigs>>

ChartsNext == \/ \E p \in ChartPages : OpenPage(p)
              \/ OpenTsdb \/ ClosePage \/ ReloadCharts \/ Save \/ ReloadWindow
              \/ \E S \in SUBSET Measurements : Select(S)
              \/ \E t \in Tags : ChangeTag(t) \/ PieChart(t) \/ \E c \in Colors : ColorUpdate(t, c)
              \/ \E r \in queries : EcollectorAnswers(r)
              \/ \E r \in answers : ReceiveData(r) \/ ReceiveList(r)
              \/ \E r \in queries \cup answers : LoseMessage(r)

ChartsSpec == ChartsInit /\ [][ChartsNext]_chartsVars

-----------------------------------------------------------------------------
(* A chart whose last query is answered shows that answer, although all       *)
(* charts hear all answers, and answers to earlier queries may come later.    *)
ShowsLastQuery ==
  \A m \in OpenCharts : \/ charts[m].lost
                  \/ charts[m].lastRequestId \in {r.id : r \in {q \in queries \cup answers : q.of = m}}
                  \/ charts[m].data.req = charts[m].lastRequestId

(* The series are labelled by the tag they were grouped by, unless the user   *)
(* changed the tag after the query; and one label has one colour everywhere.  *)
LegendTrue ==
  \A m \in OpenCharts : LET d == charts[m].data IN
    d.label # None => /\ (charts[m].clean /\ d.req = charts[m].lastRequestId => d.by = d.label)
                      /\ d.color = colors[d.label]

(* What the next visit loads is what this one has, except the colours the     *)
(* user chose (they wait for another change) and those of a pie chart.        *)
SettingsStored ==
  ~changeDetected => /\ storedConfigs = dashboardConfigStore
                     /\ \A t \in Tags \ chosen : storedColors[t] = colors[t]
=============================================================================
