---------------------------- MODULE PagesProofs ----------------------------
(* Proofs about pages of the browser, for any applications, charts and        *)
(* adapters: the list of applications with the pages that use it, the charts  *)
(* of the analytics pages, and the managers of adapters. The three components *)
(* have no identifier in common, and their behaviours are independent.        *)
EXTENDS AppsRegistry, Charts, DeviceManagers, FiniteSetTheorems, FunctionTheorems, TLAPS

\* The counters, and what is saved.
StoreOK == /\ http \in Nat /\ timers \in Nat
           /\ http = 0 /\ timers = 0 /\ stored # NotStored => unsaved \/ stored = apps

LEMMA StoreKept ==
    ASSUME StoreOK, [Next]_vars
    PROVE  StoreOK'
<1>1. CASE UNCHANGED vars
  BY <1>1 DEF vars, list, StoreOK
<1>2. CASE OnVersionReport
  <2>1. http' = http + 1 /\ UNCHANGED timers
    BY <1>2 DEF OnVersionReport
  <2> QED
    BY <2>1 DEF StoreOK
<1>3. CASE OnPlaygrounds
  <2>1. timers' = timers + 1 /\ http > 0 /\ http' = http - 1
    BY <1>3 DEF OnPlaygrounds
  <2> QED
    BY <2>1 DEF StoreOK
<1>4. CASE PlaygroundsFail
  BY <1>4 DEF PlaygroundsFail, StoreOK
<1>5. CASE TimerFires
  <2>1. timers > 0 /\ timers' = timers - 1 /\ UNCHANGED <<apps, http>> /\ stored' = apps
    BY <1>5 DEF TimerFires, CompleteResourceDiscovery, SaveToLocalStorage
  <2> QED
    BY <2>1 DEF StoreOK
<1>6. CASE DiscoverLocalApps
  BY <1>6 DEF DiscoverLocalApps, StoreOK
<1>7. CASE \/ OpenMan \/ RequestInstalledApps \/ OpenConfig \/ AnyMessage
           \/ OnManifestReport \/ OnActionReport \/ Close
  <2>1. UNCHANGED list
    BY <1>7 DEF OpenMan, RequestInstalledApps, OpenConfig, AnyMessage, OnManifestReport,
                OnActionReport, Close
  <2> QED
    BY <2>1 DEF list, StoreOK
<1>8. CASE ReloadBrowser
  <2>1. http' = 0 /\ timers' = 0 /\ stored' = stored /\ (stored # NotStored => apps' = stored)
    BY <1>8 DEF ReloadBrowser
  <2> QED
    BY <2>1 DEF StoreOK
<1>9. ASSUME NEW a \in Apps, OnDiscoveryReport(a)
      PROVE  StoreOK'
  <2>1. UNCHANGED <<stored, http, timers>> /\ (timers = 0 => (unsaved => unsaved') /\ (apps' # apps => unsaved'))
    BY <1>9 DEF OnDiscoveryReport
  <2> QED
    BY <2>1 DEF StoreOK
<1>10. ASSUME NEW a \in Apps, NEW op \in {"install", "uninstall"}, Control(a, op)
       PROVE  StoreOK'
  <2>1. /\ UNCHANGED <<apps, http, timers>>
        /\ stored' = apps \/ UNCHANGED <<stored, unsaved>>
    BY <1>10 DEF Control, CompleteResourceDiscovery, SaveToLocalStorage
  <2> QED
    BY <2>1 DEF StoreOK
<1> QED
  BY <1>1, <1>2, <1>3, <1>4, <1>5, <1>6, <1>7, <1>8, <1>9, <1>10 DEF Next

(* Every way to change the list in memory (a version report, a discovery)    *)
(* starts or meets a request or a timer at whose end it is saved, or is      *)
(* remembered as too late for it.                                            *)
THEOREM AppsAreStored == Spec => []StoredAtRest
<1>1. Init => StoreOK
  <2>1. Init => http = 0 /\ timers = 0 /\ stored = NotStored
    BY DEF Init
  <2> QED
    BY <2>1 DEF StoreOK
<1>2. StoreOK /\ [Next]_vars => StoreOK'
  BY StoreKept
<1>3. StoreOK => StoredAtRest
  BY DEF StoreOK, StoredAtRest
<1> QED
  BY <1>1, <1>2, <1>3, PTL DEF Spec

Records == [name : Apps, isDiscoverable : BOOLEAN]

\* The list and what is saved of it are lists of applications; what fhbutler
\* reports always has the core ones.
ListsOK == /\ installed \subseteq Apps /\ Core \subseteq installed
           /\ apps \in Seq(Records) /\ Once(apps)
           /\ stored # NotStored => stored \in Seq(Records) /\ Once(stored)

\* SetToSeq has every element of a finite set at one place.
LEMMA SetToSeqProperties ==
    ASSUME NEW S, IsFiniteSet(S)
    PROVE  \E n \in Nat : /\ SetToSeq(S) \in [1 .. n -> S]
                          /\ \A i, j \in 1 .. n : SetToSeq(S)[i] = SetToSeq(S)[j] => i = j
                          /\ \A a \in S : \E i \in 1 .. n : SetToSeq(S)[i] = a
<1>1. PICK n \in Nat : n = Cardinality(S) /\ ExistsBijection(1 .. n, S)
  BY FS_CardinalityType
<1>2. PICK f : f \in Bijection(1 .. n, S)
  BY <1>1 DEF ExistsBijection
<1>3. f \in [1 .. n -> S] /\ \A a, b \in 1 .. n : f[a] = f[b] => a = b
  BY <1>2, Fun_BijectionProperties
<1>4. IsInjective(f)
  BY <1>3 DEF IsInjective
<1> DEFINE names == SetToSeq(S)
<1>5. names \in [1 .. n -> S] /\ IsInjective(names)
  <2>1. Cardinality(S) = Cardinality(S)
    BY DEF Cardinality, Cardinality
  <2>2. names = CHOOSE g \in [1 .. n -> S] : IsInjective(g)
    BY <1>1, <2>1 DEF SetToSeq
  <2> QED
    BY <1>3, <1>4, <2>2
<1> HIDE DEF names
<1>6. \A i, j \in 1 .. n : names[i] = names[j] => i = j
  BY <1>5 DEF IsInjective
<1>7. names \in Surjection(1 .. n, S)
  <2>1. names \in Injection(1 .. n, S)
    BY <1>5, <1>6, Fun_IsInj
  <2>2. Cardinality(1 .. n) = n
    BY <1>1, FS_Interval
  <2> QED
    BY <1>1, <2>1, <2>2, FS_Injection
<1>8. \A a \in S : \E i \in 1 .. n : names[i] = a
  BY <1>7, Fun_SurjectionProperties
<1> QED
  BY <1>5, <1>6, <1>8 DEF names

\* The list that is made of a report has each application once.
Reported(S) == LET names == SetToSeq(S) IN [i \in DOMAIN names |-> AppRecord(names[i], FALSE)]

LEMMA ReportedOnce ==
    ASSUME NEW S \in SUBSET Apps
    PROVE  /\ Reported(S) \in Seq(Records) /\ Once(Reported(S))
           /\ \A a \in S : Named(Reported(S), a)
<1> DEFINE names == SetToSeq(S)
<1>1. IsFiniteSet(S)
  BY AppsAssumption, FS_Subset
<1>2. PICK n \in Nat : /\ names \in [1 .. n -> S]
                       /\ \A i, j \in 1 .. n : names[i] = names[j] => i = j
                       /\ \A a \in S : \E i \in 1 .. n : names[i] = a
  BY <1>1, SetToSeqProperties
<1> HIDE DEF names
<1>3. PICK records : records = [i \in 1 .. n |-> AppRecord(names[i], FALSE)] /\ records = Reported(S)
  BY <1>2 DEF Reported, names
<1>4. \A i \in 1 .. n : records[i].name = names[i] /\ records[i] \in Records
  BY <1>2, <1>3 DEF AppRecord, Records
<1>5. records \in [1 .. n -> Records] /\ DOMAIN records = 1 .. n
  BY <1>3, <1>4
<1>6. records \in Seq(Records)
  BY <1>5
<1>7. Once(records)
  BY <1>2, <1>4, <1>5 DEF Once
<1>8. \A a \in S : Named(records, a)
  BY <1>2, <1>4, <1>5 DEF Named
<1> QED
  BY <1>3, <1>6, <1>7, <1>8

LEMMA ListsKept ==
    ASSUME ListsOK, [Next]_vars
    PROVE  ListsOK'
<1>1. CASE UNCHANGED vars
  BY <1>1 DEF vars, list, Once, ListsOK
<1>2. CASE OnVersionReport
  <2>1. /\ UNCHANGED <<stored, installed>>
        /\ apps' = Reported(installed)
    BY <1>2 DEF OnVersionReport, Reported
  <2>2. apps' \in Seq(Records) /\ Once(apps')
    BY <2>1, ReportedOnce DEF ListsOK
  <2> QED
    BY <2>1, <2>2 DEF ListsOK, Once
<1>3. CASE \/ OnPlaygrounds \/ PlaygroundsFail \/ TimerFires \/ DiscoverLocalApps
           \/ OpenMan \/ RequestInstalledApps \/ OpenConfig \/ AnyMessage
           \/ OnManifestReport \/ OnActionReport \/ Close
  <2>1. UNCHANGED <<apps, installed>> /\ (stored' = stored \/ stored' = apps)
    BY <1>3 DEF OnPlaygrounds, PlaygroundsFail, TimerFires, DiscoverLocalApps, OpenMan,
                RequestInstalledApps, OpenConfig, AnyMessage, OnManifestReport,
                OnActionReport, Close, CompleteResourceDiscovery, SaveToLocalStorage, list
  <2> QED
    BY <2>1 DEF ListsOK, Once
<1>4. CASE ReloadBrowser
  <2>1. UNCHANGED <<stored, installed>> /\ apps' = IF stored # NotStored THEN stored ELSE <<>>
    BY <1>4 DEF ReloadBrowser
  <2> QED
    BY <2>1 DEF ListsOK, Once
<1>5. ASSUME NEW a \in Apps, OnDiscoveryReport(a)
      PROVE  ListsOK'
  <2>1. UNCHANGED <<stored, installed>>
    BY <1>5 DEF OnDiscoveryReport
  <2>2. CASE Match(a) # {}
    <3>1. PICK k \in Match(a) : apps' = [apps EXCEPT ![k].isDiscoverable = TRUE]
      BY <1>5, <2>2 DEF OnDiscoveryReport
    <3>2. k \in DOMAIN apps /\ apps \in Seq(Records)
      BY <3>1 DEF Match, ListsOK
    <3>3. apps[k] \in Records
      BY <3>2
    <3> DEFINE e == [apps[k] EXCEPT !.isDiscoverable = TRUE]
    <3>4. e \in Records /\ e.name = apps[k].name
      BY <3>3 DEF Records
    <3>5. apps' = [apps EXCEPT ![k] = e]
      BY <3>1
    <3> HIDE DEF e
    <3>6. apps' \in Seq(Records) /\ DOMAIN apps' = DOMAIN apps
      BY <3>2, <3>4, <3>5
    <3>7. \A i \in DOMAIN apps : apps'[i].name = apps[i].name
      BY <3>2, <3>4, <3>5
    <3> QED
      BY <2>1, <3>6, <3>7 DEF ListsOK, Once
  <2>3. CASE Match(a) = {}
    <3> DEFINE r == AppRecord(a, TRUE)
    <3>1. apps' = Append(apps, r) /\ r \in Records /\ r.name = a
      BY <1>5, <2>3 DEF OnDiscoveryReport, AppRecord, Records
    <3>2. a \in Odd \/ \A i \in DOMAIN apps : apps[i].name # a
      BY <2>3 DEF Match
    <3> HIDE DEF r
    <3>3. PICK n \in Nat : n = Len(apps)
      BY DEF ListsOK
    <3>4. /\ apps' \in Seq(Records) /\ DOMAIN apps = 1 .. n /\ DOMAIN apps' = 1 .. n + 1
          /\ apps'[n + 1] = r /\ \A i \in 1 .. n : apps'[i] = apps[i]
      BY <3>1, <3>3 DEF ListsOK
    <3>5. Once(apps')
      BY <3>1, <3>2, <3>3, <3>4 DEF ListsOK, Once
    <3> QED
      BY <2>1, <3>4, <3>5 DEF ListsOK, Once
  <2> QED
    BY <2>2, <2>3
<1>6. ASSUME NEW a \in Apps, NEW op \in {"install", "uninstall"}, Control(a, op)
      PROVE  ListsOK'
  <2>1. /\ UNCHANGED apps /\ (stored' = stored \/ stored' = apps)
        /\ a \notin Core /\ (installed' = installed \cup {a} \/ installed' = installed \ {a})
    BY <1>6 DEF Control, CompleteResourceDiscovery, SaveToLocalStorage
  <2>2. installed' \subseteq Apps /\ Core \subseteq installed'
    BY <2>1 DEF ListsOK
  <2> QED
    BY <2>1, <2>2 DEF ListsOK, Once
<1> QED
  BY <1>1, <1>2, <1>3, <1>4, <1>5, <1>6 DEF Next

LEMMA ListsInit ==
    ASSUME Init
    PROVE  ListsOK
<1>1. apps = <<>> /\ stored = NotStored /\ installed = Core
  BY DEF Init
<1> QED
  BY <1>1, AppsAssumption DEF ListsOK, Once

(* However version reports, playgrounds, discoveries, reloads of the browser *)
(* and (un)installations follow each other, the service finds the record of  *)
(* an application again whose package name contains the service's name.      *)
THEOREM AppsAreListedOnce == Spec => []ListedOnce
<1>1. Init => ListsOK
  BY ListsInit
<1>2. ListsOK /\ [Next]_vars => ListsOK'
  BY ListsKept
<1>3. ListsOK => ListedOnce
  BY DEF ListsOK, ListedOnce
<1> QED
  BY <1>1, <1>2, <1>3, PTL DEF Spec

-----------------------------------------------------------------------------
\* A configuration page that was opened from the list follows it, and its
\* application stays in the list.
ConfigOK ==
    /\ ListsOK
    /\ page = "config" /\ openedLoaded =>
          following /\ app = configApp /\ Named(apps, configApp)

LEMMA ConfigKept ==
    ASSUME ConfigOK, [Next]_vars
    PROVE  ConfigOK'
<1> DEFINE c == configApp
<1>1. c \in Core
  BY AppsAssumption DEF configApp
<1>2. ListsOK'
  BY ListsKept DEF ConfigOK
<1>3. SUFFICES ASSUME page' = "config", openedLoaded'
               PROVE  following' /\ app' = c /\ Named(apps', c)
  BY <1>2 DEF ConfigOK, Named
<1> HIDE DEF c
<1>4. ConfigOK <=> ListsOK /\ (page = "config" /\ openedLoaded => following /\ app = c /\ Named(apps, c))
  BY DEF ConfigOK, c
<1>5. ASSUME page = "config", openedLoaded, Notify(apps, generation)
      PROVE  following' /\ app' = c
  <2>1. following' = Named(apps, c) /\ app' = IF following' THEN c ELSE "null"
    BY <1>4, <1>5 DEF Notify, c
  <2> QED
    BY <1>4, <1>5, <2>1
<1>6. ASSUME Notify(apps, generation)
      PROVE  page = "config" /\ openedLoaded
  BY <1>3, <1>6 DEF Notify
<1>7. CASE UNCHANGED vars
  BY <1>3, <1>4, <1>7 DEF vars, list, view, config
<1>8. CASE OnVersionReport
  <2>1. /\ UNCHANGED view
        /\ apps' = Reported(installed)
    BY <1>8 DEF OnVersionReport, Reported
  <2>2. c \in installed /\ installed \subseteq Apps
    BY <1>1 DEF ConfigOK, ListsOK
  <2>3. Named(apps', c)
    BY <2>1, <2>2, ReportedOnce
  <2> QED
    BY <1>3, <1>4, <2>1, <2>3 DEF view, config
<1>9. CASE OnPlaygrounds \/ TimerFires
  <2>1. UNCHANGED apps /\ Notify(apps, generation)
    BY <1>9 DEF OnPlaygrounds, TimerFires, CompleteResourceDiscovery
  <2> QED
    BY <1>4, <1>5, <1>6, <2>1
<1>10. CASE PlaygroundsFail \/ DiscoverLocalApps
  <2>1. UNCHANGED <<apps, view>>
    BY <1>10 DEF PlaygroundsFail, DiscoverLocalApps
  <2> QED
    BY <1>3, <1>4, <2>1 DEF view, config
<1>11. CASE OpenMan \/ RequestInstalledApps \/ AnyMessage \/ OnManifestReport \/ OnActionReport \/ Close
  <2>1. UNCHANGED <<apps, page, app, following, openedLoaded>>
    BY <1>3, <1>11 DEF OpenMan, RequestInstalledApps, AnyMessage, OnManifestReport,
                OnActionReport, Close, list, config
  <2> QED
    BY <1>3, <1>4, <2>1
<1>12. CASE OpenConfig
  <2>1. /\ UNCHANGED apps
        /\ openedLoaded' => Named(apps, c) /\ following' /\ registryState # ""
    BY <1>12 DEF OpenConfig, list, c
  <2>2. app' = CASE registryState = "" -> "undefined" [] openedLoaded' -> c [] OTHER -> "null"
    BY <1>12 DEF OpenConfig, c
  <2> QED
    BY <1>3, <2>1, <2>2
<1>13. CASE ReloadBrowser
  BY <1>3, <1>13 DEF ReloadBrowser
<1>14. ASSUME NEW a \in Apps, OnDiscoveryReport(a)
       PROVE  following' /\ app' = c /\ Named(apps', c)
  <2>1. UNCHANGED view
    BY <1>14 DEF OnDiscoveryReport
  <2>2. Named(apps, c) => Named(apps', c)
    <3>1. CASE Match(a) # {}
      <4>1. PICK k \in Match(a) : apps' = [apps EXCEPT ![k].isDiscoverable = TRUE]
        BY <1>14, <3>1 DEF OnDiscoveryReport
      <4>2. k \in DOMAIN apps /\ apps \in Seq(Records)
        BY <4>1 DEF Match, ListsOK, ConfigOK
      <4>3. DOMAIN apps' = DOMAIN apps
        BY <4>1, <4>2
      <4>4. ASSUME NEW i \in DOMAIN apps
            PROVE  apps'[i].name = apps[i].name
        BY <4>1, <4>2 DEF Records
      <4> QED
        BY <4>3, <4>4 DEF Named
    <3>2. CASE Match(a) = {}
      <4>1. PICK r : apps' = Append(apps, r)
        BY <1>14, <3>2 DEF OnDiscoveryReport
      <4>2. DOMAIN apps \subseteq DOMAIN apps' /\ \A i \in DOMAIN apps : apps'[i] = apps[i]
        BY <4>1 DEF ListsOK, ConfigOK
      <4> QED
        BY <4>2 DEF Named
    <3> QED
      BY <3>1, <3>2
  <2> QED
    BY <1>3, <1>4, <2>1, <2>2 DEF view, config
<1>15. ASSUME NEW a \in Apps, NEW op \in {"install", "uninstall"}, Control(a, op)
       PROVE  following' /\ app' = c /\ Named(apps', c)
  <2>1. UNCHANGED apps /\ (Notify(apps, generation) \/ UNCHANGED view)
    BY <1>15 DEF Control, CompleteResourceDiscovery
  <2> QED
    BY <1>3, <1>4, <1>5, <1>6, <2>1 DEF view, config
<1> QED
  BY <1>7, <1>8, <1>9, <1>10, <1>11, <1>12, <1>13, <1>14, <1>15 DEF Next

(* A configuration page throws, and is deaf from then on, when its           *)
(* application is missing from a list that is announced; a core application  *)
(* that was there when the page was opened is in every later one.            *)
THEOREM ConfigurationKeepsItsApp == Spec => []ConfigKeepsApp
<1>1. Init => ConfigOK
  <2>1. Init => page # "config"
    BY DEF Init
  <2> QED
    BY <2>1, ListsInit DEF ConfigOK
<1>2. ConfigOK /\ [Next]_vars => ConfigOK'
  BY ConfigKept
<1>3. ConfigOK => ConfigKeepsApp
  BY DEF ConfigOK, ConfigKeepsApp
<1> QED
  BY <1>1, <1>2, <1>3, PTL DEF Spec

-----------------------------------------------------------------------------
(* The charts.                                                               *)
Data == [req : Ids \cup {None}, by : Tags \cup {None}, label : Tags \cup {None},
         color : Colors \cup {None}]
Chart == [lastRequestId : Ids, lost : BOOLEAN, clean : BOOLEAN, data : Data]
Messages == [id : Ids, of : Measurements \cup {None}, by : Tags \cup {None}]
Config == [selected : SUBSET Measurements, tag : Tags]

\* The settings and what is stored of them.
SettingsOK ==
    /\ colors \in [Tags -> Colors \cup {None}] /\ storedColors \in [Tags -> Colors \cup {None}]
    /\ dashboardConfigStore \in [ChartPages -> Config \cup {None}]
    /\ storedConfigs \in [ChartPages -> Config \cup {None}]
    /\ selected \in SUBSET Measurements /\ groupByTag \in Tags
    /\ SettingsStored

InFlight == queries \cup answers

\* Only a page of charts has any; a message is told from others by its id.
WireOK ==
    /\ queries \in SUBSET Messages /\ answers \in SUBSET Messages
    /\ queries \cap answers = {}
    /\ \A r, s \in InFlight : r.id = s.id => r = s
    /\ charts \in [Measurements -> Chart \cup {None}]
    /\ chartPage \notin ChartPages => listRequest = None /\ \A m \in Measurements : charts[m] = None

\* The last query of a chart is answered, under way or lost; what is under way
\* was grouped by the tag of the page, unless that was changed since; what the
\* chart shows has the colour of its label.
ChartOK(m) ==
    LET c == charts[m]
        d == c.data
    IN  /\ \/ c.lost \/ d.req = c.lastRequestId
           \/ \E q \in InFlight : q.of = m /\ q.id = c.lastRequestId
        /\ d.req = c.lastRequestId => \A q \in InFlight : q.id # c.lastRequestId
        /\ c.clean => \A q \in InFlight : q.id = c.lastRequestId => q.by = groupByTag
        /\ d.label # None =>
              /\ c.clean /\ d.req = c.lastRequestId => d.by = d.label
              /\ d.color = colors[d.label] /\ d.color \in Colors

ChartsOK == \A m \in Measurements : charts[m] # None => ChartOK(m)

ChartsIInv == SettingsOK /\ WireOK /\ ChartsOK

\* A finite set that is not larger than another has an injection into it.
LEMMA InjectionExists ==
    ASSUME NEW S, NEW T, IsFiniteSet(S), IsFiniteSet(T), Cardinality(S) <= Cardinality(T)
    PROVE  \E f \in [S -> T] : IsInjective(f)
<1>1. PICK n \in Nat : n = Cardinality(S) /\ ExistsBijection(1 .. n, S)
  BY FS_CardinalityType
<1>2. PICK k \in Nat : k = Cardinality(T) /\ ExistsBijection(1 .. k, T)
  BY FS_CardinalityType
<1>3. PICK b : b \in Bijection(1 .. n, S)
  BY <1>1 DEF ExistsBijection
<1>4. PICK e : e \in Bijection(1 .. k, T)
  BY <1>2 DEF ExistsBijection
<1>5. PICK g : g \in Bijection(S, 1 .. n)
  BY <1>3, Fun_BijInverse
<1>6. g \in [S -> 1 .. n] /\ \A x, y \in S : g[x] = g[y] => x = y
  BY <1>5, Fun_BijectionProperties
<1>7. e \in [1 .. k -> T] /\ \A i, j \in 1 .. k : e[i] = e[j] => i = j
  BY <1>4, Fun_BijectionProperties
<1>8. n <= k
  BY <1>1, <1>2
<1>9. PICK f : f = [x \in S |-> e[g[x]]]
  OBVIOUS
<1>10. f \in [S -> T] /\ \A x, y \in S : f[x] = f[y] => x = y
  BY <1>6, <1>7, <1>8, <1>9
<1> QED
  BY <1>10 DEF IsInjective

\* The ids of new messages are different from each other and not in use.
LEMMA FreshIds ==
    ASSUME NEW S, IsFiniteSet(S), CanAsk(S)
    PROVE  /\ FreshFor(S) \in [S -> Ids \ InUse]
           /\ \A x, y \in S : FreshFor(S)[x] = FreshFor(S)[y] => x = y
<1>1. IsFiniteSet(Ids \ InUse)
  BY FS_Subset, ChartsAssumption
<1>2. Cardinality(S) = Cardinality(S) /\ Cardinality(Ids \ InUse) = Cardinality(Ids \ InUse)
  BY DEF Cardinality, Cardinality
<1>3. Cardinality(S) <= Cardinality(Ids \ InUse)
  BY <1>2 DEF CanAsk
<1>4. \E f \in [S -> Ids \ InUse] : IsInjective(f)
  BY <1>1, <1>3, InjectionExists
<1> DEFINE uid == FreshFor(S)
<1>5. uid \in [S -> Ids \ InUse] /\ IsInjective(uid)
  BY <1>4 DEF FreshFor
<1> HIDE DEF uid
<1>6. \A x, y \in S : uid[x] = uid[y] => x = y
  BY <1>5 DEF IsInjective
<1> QED
  BY <1>5, <1>6 DEF uid

LEMMA UsedIds ==
    /\ \A r \in InFlight : r.id \in InUse
    /\ \A m \in Measurements : charts[m] # None =>
          charts[m].lastRequestId \in InUse /\ charts[m].data.req \in InUse
  BY DEF InFlight, InUse, OpenCharts

ColorsType == [Tags -> Colors \cup {None}]
ConfigsType == [ChartPages -> Config \cup {None}]

\* What a save leaves in memory and in the storage.
LEMMA SaveKept ==
    ASSUME SettingsOK, NEW cols \in ColorsType, NEW configs \in ConfigsType,
           NEW picked, NEW changed,
           SaveSettings(cols, configs, picked, changed),
           colors' = cols, dashboardConfigStore' = configs,
           ~changed => /\ configs = dashboardConfigStore /\ chosen \subseteq picked
                       /\ \A t \in Tags \ picked : cols[t] = colors[t]
    PROVE  SettingsStored' /\ storedColors' \in ColorsType /\ storedConfigs' \in ConfigsType
<1>1. CASE changed
  BY <1>1 DEF SaveSettings, SettingsStored
<1>2. CASE ~changed
  <2>1. UNCHANGED <<storedColors, storedConfigs, changeDetected>> /\ chosen' = picked
    BY <1>2 DEF SaveSettings
  <2>2. storedColors' \in ColorsType /\ storedConfigs' \in ConfigsType
    BY <2>1 DEF SettingsOK, ColorsType, ConfigsType
  <2> QED
    BY <1>2, <2>1, <2>2 DEF SettingsStored, SettingsOK
<1> QED
  BY <1>1, <1>2

LEMMA SettingsKept ==
    ASSUME SettingsOK, [ChartsNext]_chartsVars
    PROVE  SettingsOK'
<1>0. /\ colors \in ColorsType /\ storedColors \in ColorsType
      /\ dashboardConfigStore \in ConfigsType /\ storedConfigs \in ConfigsType
      /\ selected \in SUBSET Measurements /\ groupByTag \in Tags /\ SettingsStored
  BY DEF SettingsOK, ColorsType, ConfigsType
<1>1. ASSUME /\ colors' \in ColorsType /\ storedColors' \in ColorsType
             /\ dashboardConfigStore' \in ConfigsType /\ storedConfigs' \in ConfigsType
             /\ selected' \in SUBSET Measurements /\ groupByTag' \in Tags /\ SettingsStored'
      PROVE  SettingsOK'
  BY <1>1 DEF SettingsOK, ColorsType, ConfigsType
<1>2. (CHOOSE t \in Tags : TRUE) \in Tags
  BY ChartsAssumption
<1>3. ASSUME UNCHANGED settings
      PROVE  /\ colors' \in ColorsType /\ storedColors' \in ColorsType
             /\ dashboardConfigStore' \in ConfigsType /\ storedConfigs' \in ConfigsType /\ SettingsStored'
  BY <1>0, <1>3 DEF settings, SettingsStored
<1>4. CASE UNCHANGED chartsVars
  BY <1>0, <1>1, <1>3, <1>4 DEF chartsVars, chartsView
<1>5. ASSUME NEW p \in ChartPages, OpenPage(p)
      PROVE  SettingsOK'
  <2>1. UNCHANGED settings /\ selected' = ConfigOf(p).selected /\ groupByTag' = ConfigOf(p).tag
    BY <1>5 DEF OpenPage
  <2>2. ConfigOf(p) \in Config
    BY <1>0, <1>2 DEF ConfigOf, Config, ConfigsType
  <2> QED
    BY <1>1, <1>3, <2>1, <2>2 DEF Config
<1>6. CASE OpenTsdb \/ ClosePage \/ ReloadCharts
  <2>1. /\ UNCHANGED settings
        /\ selected' \in {selected, {}} /\ groupByTag' \in {groupByTag, CHOOSE t \in Tags : TRUE}
    BY <1>6 DEF OpenTsdb, ClosePage, ReloadCharts, Leave
  <2> QED
    BY <1>0, <1>1, <1>2, <1>3, <2>1
<1>7. CASE Save
  <2>1. /\ chartPage \in ChartPages /\ UNCHANGED <<selected, groupByTag, colors>>
        /\ dashboardConfigStore' = [dashboardConfigStore EXCEPT ![chartPage] = Configs]
        /\ SaveSettings(colors, dashboardConfigStore', chosen, TRUE)
    BY <1>7 DEF Save, chartsView
  <2>2. Configs \in Config
    BY <1>0 DEF Configs, Config
  <2>3. dashboardConfigStore' \in ConfigsType
    BY <1>0, <2>1, <2>2 DEF ConfigsType
  <2>4. PICK configs \in ConfigsType : configs = dashboardConfigStore'
    BY <2>3
  <2>5. SaveSettings(colors, configs, chosen, TRUE)
    BY <2>1, <2>4
  <2>6. SettingsStored' /\ storedColors' \in ColorsType /\ storedConfigs' \in ConfigsType
    BY <1>0, <2>1, <2>4, <2>5, SaveKept
  <2> QED
    BY <1>0, <1>1, <2>1, <2>3, <2>6
<1>8. CASE ReloadWindow
  <2>1. /\ UNCHANGED <<storedColors, storedConfigs>>
        /\ colors' = storedColors /\ dashboardConfigStore' = storedConfigs
        /\ selected' = {} /\ groupByTag' = CHOOSE t \in Tags : TRUE
    BY <1>8 DEF ReloadWindow, Leave
  <2> QED
    BY <1>0, <1>1, <1>2, <2>1 DEF SettingsStored
<1>9. ASSUME NEW S \in SUBSET Measurements, Select(S)
      PROVE  SettingsOK'
  <2>1. UNCHANGED settings /\ selected' = S /\ groupByTag' = groupByTag
    BY <1>9 DEF Select
  <2> QED
    BY <1>0, <1>1, <1>3, <2>1
<1>10. ASSUME NEW t \in Tags, ChangeTag(t)
       PROVE  SettingsOK'
  <2>1. UNCHANGED settings /\ selected' = selected /\ groupByTag' = t
    BY <1>10 DEF ChangeTag
  <2> QED
    BY <1>0, <1>1, <1>3, <2>1
<1>11. ASSUME NEW t \in Tags, PieChart(t)
       PROVE  SettingsOK'
  <2>1. PICK c \in Colors : colors' = [colors EXCEPT ![t] = c]
    BY <1>11 DEF PieChart
  <2>2. UNCHANGED <<selected, groupByTag, dashboardConfigStore, storedColors, storedConfigs>> /\ changeDetected'
    BY <1>11 DEF PieChart, chartsView
  <2>3. colors' \in ColorsType
    BY <1>0, <2>1 DEF ColorsType
  <2> QED
    BY <1>0, <1>1, <2>2, <2>3 DEF SettingsStored
<1>12. ASSUME NEW t \in Tags, NEW c \in Colors, ColorUpdate(t, c)
       PROVE  SettingsOK'
  <2>1. /\ colors' = [colors EXCEPT ![t] = c] /\ UNCHANGED <<selected, groupByTag, dashboardConfigStore>>
        /\ SaveSettings(colors', dashboardConfigStore, chosen \cup {t}, changeDetected)
    BY <1>12 DEF ColorUpdate, chartsView
  <2>2. PICK cols \in ColorsType : cols = colors'
    BY <1>0, <2>1 DEF ColorsType
  <2>3. SaveSettings(cols, dashboardConfigStore, chosen \cup {t}, changeDetected)
    BY <2>1, <2>2
  <2>4. \A u \in Tags \ (chosen \cup {t}) : cols[u] = colors[u]
    BY <1>0, <2>1, <2>2 DEF ColorsType
  <2>5. SettingsStored' /\ storedColors' \in ColorsType /\ storedConfigs' \in ConfigsType
    BY <1>0, <2>1, <2>2, <2>3, <2>4, SaveKept
  <2> QED
    BY <1>0, <1>1, <2>1, <2>2, <2>5
<1>13. ASSUME NEW r, EcollectorAnswers(r) \/ ReceiveList(r) \/ LoseMessage(r)
       PROVE  SettingsOK'
  <2>1. UNCHANGED settings /\ selected' = selected /\ groupByTag' = groupByTag
    BY <1>13 DEF EcollectorAnswers, ReceiveList, LoseMessage, chartsView
  <2> QED
    BY <1>0, <1>1, <1>3, <2>1
<1>14. ASSUME NEW r \in answers, ReceiveData(r)
       PROVE  SettingsOK'
  <2>1. PICK hasSeries \in BOOLEAN, c \in Colors : TransformData(r, hasSeries, c)
    BY <1>14 DEF ReceiveData
  <2>2. UNCHANGED <<selected, groupByTag, dashboardConfigStore>>
    BY <1>14, <2>1 DEF ReceiveData, TransformData
  <2>3. /\ colors' = IF hasSeries /\ \E m \in Measurements : Accepts(m, r)
                     THEN [colors EXCEPT ![groupByTag] = GetColor(groupByTag, c)] ELSE colors
        /\ SaveSettings(colors', dashboardConfigStore, chosen,
             (changeDetected /\ \E m \in Measurements : Accepts(m, r)) \/ colors' # colors)
    BY <2>1 DEF TransformData
  <2>4. GetColor(groupByTag, c) \in Colors \cup {None}
    BY <1>0 DEF GetColor, ColorsType
  <2>5. PICK cols \in ColorsType : cols = colors'
    BY <1>0, <2>3, <2>4 DEF ColorsType
  <2>6. PICK changed \in BOOLEAN :
           changed <=> (changeDetected /\ \E m \in Measurements : Accepts(m, r)) \/ colors' # colors
    OBVIOUS
  <2>7. SaveSettings(cols, dashboardConfigStore, chosen, changed)
    <3> DEFINE given == (changeDetected /\ \E m \in Measurements : Accepts(m, r)) \/ colors' # colors
    <3>1. IF given THEN /\ storedColors' = colors' /\ storedConfigs' = dashboardConfigStore
                        /\ changeDetected' = FALSE /\ chosen' = {}
          ELSE chosen' = chosen /\ UNCHANGED <<storedColors, storedConfigs, changeDetected>>
      BY <2>3 DEF SaveSettings
    <3>2. changed <=> given
      BY <2>6
    <3> HIDE DEF given
    <3> QED
      BY <2>5, <3>1, <3>2 DEF SaveSettings
  <2>8. ~changed => cols = colors
    BY <2>5, <2>6
  <2>9. SettingsStored' /\ storedColors' \in ColorsType /\ storedConfigs' \in ConfigsType
    BY <1>0, <2>2, <2>5, <2>7, <2>8, SaveKept
  <2> QED
    BY <1>0, <1>1, <2>2, <2>5, <2>9
<1> QED
  BY <1>4, <1>5, <1>6, <1>7, <1>8, <1>9, <1>10, <1>11, <1>12, <1>13, <1>14 DEF ChartsNext

\* Charts that query, while others stay or are destroyed: the new messages have
\* ids that nothing else in the page or under way has.
LEMMA QueryKept ==
    ASSUME WireOK, ChartsOK,
           NEW M \in SUBSET Measurements, NEW old \in [Measurements -> Chart \cup {None}],
           \A m \in Measurements : old[m] \in {charts[m], None},
           QueryData(M, old), colors' = colors, groupByTag' \in Tags,
           groupByTag' = groupByTag \/ \A m \in Measurements : old[m] = None,
           answers' \subseteq answers, \A q \in answers : q.of \in Measurements => q \in answers',
           chartPage' \in ChartPages
    PROVE  WireOK' /\ ChartsOK'
<1>1. IsFiniteSet(M) /\ CanAsk(M)
  BY FS_Subset, ChartsAssumption DEF QueryData
<1>2. PICK uid \in [M -> Ids \ InUse] : uid = FreshFor(M) /\ \A x, y \in M : uid[x] = uid[y] => x = y
  BY <1>1, FreshIds
<1>3. PICK tag \in Tags : tag = groupByTag'
  OBVIOUS
<1> DEFINE new == {Message(uid[m], m, tag) : m \in M}
<1>4. /\ charts' = [m \in Measurements |->
                      IF m \notin M THEN old[m]
                      ELSE IF old[m] = None THEN NewChart(uid[m]) ELSE Reloaded(old[m], uid[m])]
      /\ queries' = queries \cup new
  BY <1>2, <1>3 DEF QueryData
<1>5. \A q \in new : q \in Messages /\ q.id \notin InUse /\ q.by = tag
  BY <1>2 DEF Message, Messages
<1>6. \A q, r \in new : q.id = r.id => q = r
  BY <1>2 DEF Message
<1>7. ASSUME NEW m \in M
      PROVE  \E q \in new : q.id = uid[m] /\ q.of = m
  <2>1. Message(uid[m], m, tag) \in new
    OBVIOUS
  <2>2. Message(uid[m], m, tag).id = uid[m] /\ Message(uid[m], m, tag).of = m
    BY DEF Message
  <2> QED
    BY <2>1, <2>2
<1>8. \A q \in InFlight : q \in Messages /\ q.id \in InUse
  BY UsedIds DEF WireOK, InFlight
<1> HIDE DEF new
<1>9. InFlight' \subseteq InFlight \cup new /\ new \subseteq InFlight'
  BY <1>4 DEF InFlight
<1>10. \A q \in InFlight : q.of \in Measurements => q \in InFlight'
  BY <1>4 DEF InFlight
<1>11. ASSUME NEW m \in M
       PROVE  LET c == NewChart(uid[m]) IN
                c \in Chart /\ c.lastRequestId = uid[m] /\ c.data.req = None /\ c.data.label = None
  BY <1>2 DEF NewChart, NoData, Chart, Data
<1>12. ASSUME NEW m \in M, old[m] # None
       PROVE  LET c == Reloaded(old[m], uid[m]) IN
                c \in Chart /\ c.lastRequestId = uid[m] /\ c.data = old[m].data /\ c.data.req # uid[m]
  <2>1. old[m] \in Chart /\ old[m] = charts[m]
    BY <1>12
  <2>2. old[m].data.req \in InUse
    BY <1>12, <2>1, UsedIds
  <2> QED
    BY <1>2, <2>1, <2>2 DEF Reloaded, Chart
<1>13. WireOK'
  <2>1. queries' \in SUBSET Messages /\ answers' \in SUBSET Messages /\ queries' \cap answers' = {}
    BY <1>4, <1>5, <1>8 DEF WireOK, InFlight
  <2>2. \A r, s \in InFlight' : r.id = s.id => r = s
    BY <1>5, <1>6, <1>8, <1>9 DEF WireOK
  <2>3. charts' \in [Measurements -> Chart \cup {None}]
    BY <1>4, <1>11, <1>12
  <2> QED
    BY <2>1, <2>2, <2>3 DEF WireOK
<1>14. ASSUME NEW m \in Measurements, charts'[m] # None
       PROVE  ChartOK(m)'
  <2>1. CASE m \in M
    <3>1. /\ charts'[m].lastRequestId = uid[m] /\ charts'[m].data.req # uid[m]
          /\ charts'[m].data.label # None => old[m] # None /\ charts'[m].data = charts[m].data
      BY <1>2, <1>4, <1>11, <1>12, <1>14, <2>1, ChartsAssumption
    <3>2. \E q \in InFlight' : q.of = m /\ q.id = uid[m]
      BY <1>7, <1>9, <2>1
    <3>3. \A q \in InFlight' : q.id = uid[m] => q.by = groupByTag'
      BY <1>2, <1>3, <1>5, <1>8, <1>9, <2>1
    <3>4. charts'[m].data.label # None => ChartOK(m)
      BY <3>1 DEF ChartsOK
    <3> QED
      BY <3>1, <3>2, <3>3, <3>4 DEF ChartOK
  <2>2. CASE m \notin M
    <3>1. charts'[m] = charts[m] /\ charts[m] # None /\ groupByTag' = groupByTag /\ ChartOK(m)
      BY <1>4, <1>14, <2>2 DEF ChartsOK
    <3>2. charts[m].lastRequestId \in InUse
      BY <3>1, UsedIds
    <3>3. \A q \in InFlight' : q.id = charts[m].lastRequestId => q \in InFlight
      BY <1>5, <1>9, <3>2
    <3> QED
      BY <1>10, <3>1, <3>3 DEF ChartOK
  <2> QED
    BY <2>1, <2>2
<1> QED
  BY <1>13, <1>14 DEF ChartsOK

LEMMA ShowKept ==
    ASSUME WireOK, ChartsOK, NEW S \in SUBSET Measurements,
           Show(S), colors' = colors, groupByTag' \in Tags,
           groupByTag' = groupByTag \/ \A m \in Measurements : charts[m] = None,
           answers' \subseteq answers, \A q \in answers : q.of \in Measurements => q \in answers',
           chartPage' \in ChartPages
    PROVE  WireOK' /\ ChartsOK'
<1>1. PICK old : old = [m \in Measurements |-> IF m \in S THEN charts[m] ELSE None]
  OBVIOUS
<1>2. PICK M : M = {m \in S : old[m] = None}
  OBVIOUS
<1>3. QueryData(M, old)
  BY <1>1, <1>2 DEF Show
<1>4. /\ M \in SUBSET Measurements /\ old \in [Measurements -> Chart \cup {None}]
      /\ \A m \in Measurements : old[m] \in {charts[m], None}
  BY <1>1, <1>2 DEF WireOK
<1>5. groupByTag' = groupByTag \/ \A m \in Measurements : old[m] = None
  BY <1>1
<1> QED
  BY <1>3, <1>4, <1>5, QueryKept

\* No page of charts is there.
LEMMA ClosedKept ==
    ASSUME WireOK, UNCHANGED <<queries, answers>>,
           \A m \in Measurements : charts'[m] = None, charts' \in [Measurements -> {None}],
           chartPage' \notin ChartPages => listRequest' = None
    PROVE  WireOK' /\ ChartsOK'
  BY DEF WireOK, ChartsOK, InFlight

LEMMA WireKept ==
    ASSUME SettingsOK, WireOK, ChartsOK, [ChartsNext]_chartsVars
    PROVE  WireOK' /\ ChartsOK'
<1>1. ASSUME UNCHANGED <<chartPage, charts, queries, answers, listRequest>>, ChartsOK'
      PROVE  WireOK' /\ ChartsOK'
  BY <1>1 DEF WireOK, InFlight
<1>2. CASE UNCHANGED chartsVars \/ Save
  <2>1. UNCHANGED <<chartsView, wire, colors>>
    BY <1>2 DEF chartsVars, settings, Save
  <2> QED
    BY <1>1, <2>1 DEF chartsView, wire, ChartsOK, ChartOK, InFlight
<1>3. "none" \notin ChartPages /\ "tsdb" \notin ChartPages
  BY ChartsAssumption
<1>4. CASE OpenTsdb
  <2>1. chartPage = "none" /\ chartPage' = "tsdb" /\ UNCHANGED <<charts, queries, answers, listRequest>>
    BY <1>4 DEF OpenTsdb, wire
  <2> QED
    BY <1>3, <2>1, ClosedKept DEF WireOK
<1>5. CASE ClosePage \/ ReloadWindow
  <2>1. chartPage' = "none" /\ charts' = [m \in Measurements |-> None] /\ listRequest' = None /\ UNCHANGED <<queries, answers>>
    BY <1>5 DEF ClosePage, ReloadWindow, Leave, wire
  <2> QED
    BY <2>1, ClosedKept
<1>6. ASSUME NEW t \in Tags, PieChart(t) \/ \E c \in Colors : ColorUpdate(t, c)
      PROVE  WireOK' /\ ChartsOK'
  <2>1. chartPage \notin ChartPages /\ UNCHANGED <<chartPage, charts, queries, answers, listRequest>>
    BY <1>3, <1>6 DEF PieChart, ColorUpdate, chartsView, wire
  <2> QED
    BY <2>1, ClosedKept DEF WireOK
<1>7. ASSUME NEW p \in ChartPages, OpenPage(p)
      PROVE  WireOK' /\ ChartsOK'
  <2>1. chartPage = "none" /\ chartPage' = p /\ UNCHANGED <<answers, colors>>
    BY <1>7 DEF OpenPage, settings
  <2>2. \A m \in Measurements : charts[m] = None
    BY <1>3, <2>1 DEF WireOK
  <2>3. groupByTag' \in Tags /\ selected' \in SUBSET Measurements
    BY SettingsKept, <1>7 DEF ChartsNext, SettingsOK
  <2>4. CASE p = "sensors"
    <3>1. PICK q : /\ q = Message(FreshFor({None})[None], None, None)
                   /\ queries' = queries \cup {q}
      BY <1>7, <2>4 DEF OpenPage
    <3>2. UNCHANGED charts /\ CanAsk({None}) /\ IsFiniteSet({None})
      BY <1>7, <2>4, FS_Singleton DEF OpenPage
    <3>3. FreshFor({None})[None] \in Ids \ InUse
      BY <3>2, FreshIds
    <3>4. q \in Messages /\ q.id \notin InUse
      BY <3>1, <3>3 DEF Message, Messages
    <3>5. \A r \in InFlight : r.id # q.id
      BY <3>4, UsedIds
    <3> QED
      BY <2>1, <2>2, <3>1, <3>2, <3>4, <3>5 DEF WireOK, ChartsOK, InFlight
  <2>5. CASE p # "sensors"
    <3>1. PICK S \in SUBSET Measurements : S = selected'
      BY <2>3
    <3>2. Show(S)
      BY <1>7, <2>5, <3>1 DEF OpenPage
    <3> QED
      BY <2>1, <2>2, <2>3, <3>2, ShowKept
  <2> QED
    BY <2>4, <2>5
<1>8. CASE ReloadCharts
  <2>1. /\ QueryData(OpenCharts, charts) /\ chartPage \in ChartPages
        /\ UNCHANGED <<chartPage, groupByTag, answers, colors>>
    BY <1>8 DEF ReloadCharts, settings
  <2>2. PICK M \in SUBSET Measurements : M = OpenCharts
    BY DEF OpenCharts
  <2>3. PICK old \in [Measurements -> Chart \cup {None}] : old = charts
    BY DEF WireOK
  <2>4. QueryData(M, old)
    BY <2>1, <2>2, <2>3
  <2> QED
    BY <2>1, <2>3, <2>4, QueryKept DEF SettingsOK
<1>9. ASSUME NEW S \in SUBSET Measurements, Select(S)
      PROVE  WireOK' /\ ChartsOK'
  <2>1. chartPage \in ChartPages /\ UNCHANGED <<chartPage, groupByTag, answers, colors, listRequest>>
    BY <1>9 DEF Select, settings
  <2>2. CASE listKnown
    <3>1. Show(S)
      BY <1>9, <2>2 DEF Select
    <3> QED
      BY <2>1, <3>1, ShowKept DEF SettingsOK
  <2>3. CASE ~listKnown
    <3>1. UNCHANGED <<charts, queries>>
      BY <1>9, <2>3 DEF Select
    <3> QED
      BY <1>1, <2>1, <3>1 DEF ChartsOK, ChartOK, InFlight
  <2> QED
    BY <2>2, <2>3
<1>10. ASSUME NEW t \in Tags, ChangeTag(t)
       PROVE  WireOK' /\ ChartsOK'
  <2>1. /\ chartPage \in ChartPages /\ UNCHANGED <<chartPage, queries, answers, listRequest, colors>>
        /\ charts' = [m \in Measurements |->
              IF m \in OpenCharts /\ charts[m].data.req # charts[m].lastRequestId
              THEN [charts[m] EXCEPT !.clean = FALSE] ELSE charts[m]]
    BY <1>10 DEF ChangeTag, wire, settings
  <2>2. ASSUME NEW m \in Measurements
        PROVE  charts'[m] \in Chart \cup {None}
    BY <2>1 DEF WireOK, OpenCharts, Chart
  <2>3. ASSUME NEW m \in Measurements, charts'[m] # None
        PROVE  ChartOK(m)'
    <3>1. charts[m] # None
      BY <2>1, <2>3 DEF OpenCharts
    <3>2. ChartOK(m) /\ charts[m] \in Chart
      BY <3>1 DEF ChartsOK, WireOK
    <3>3. CASE charts[m].data.req # charts[m].lastRequestId
      <4>1. charts'[m] = [charts[m] EXCEPT !.clean = FALSE]
        BY <2>1, <3>1, <3>3 DEF OpenCharts
      <4>2. /\ charts'[m].lastRequestId = charts[m].lastRequestId /\ charts'[m].data = charts[m].data
            /\ charts'[m].lost = charts[m].lost /\ ~charts'[m].clean
        BY <3>2, <4>1 DEF Chart
      <4> QED
        BY <2>1, <3>2, <4>2 DEF ChartOK, InFlight
    <3>4. CASE charts[m].data.req = charts[m].lastRequestId
      <4>1. charts'[m] = charts[m]
        BY <2>1, <3>4
      <4> QED
        BY <2>1, <3>2, <3>4, <4>1 DEF ChartOK, InFlight
    <3> QED
      BY <3>3, <3>4
  <2>4. charts' \in [Measurements -> Chart \cup {None}]
    BY <2>1, <2>2
  <2> QED
    BY <2>1, <2>3, <2>4 DEF WireOK, ChartsOK, InFlight
<1>11. ASSUME NEW r \in queries, EcollectorAnswers(r)
       PROVE  WireOK' /\ ChartsOK'
  <2>1. /\ UNCHANGED <<chartPage, groupByTag, charts, listRequest, colors>>
        /\ queries' = queries \ {r} /\ answers' = answers \cup {r}
    BY <1>11 DEF EcollectorAnswers, chartsView, settings
  <2>2. InFlight' = InFlight
    BY <2>1 DEF InFlight
  <2> QED
    BY <2>1, <2>2 DEF WireOK, ChartsOK, ChartOK
<1>12. ASSUME NEW r \in InFlight, queries' = queries \ {r}, answers' = answers \ {r},
              UNCHANGED <<chartPage, listRequest, groupByTag>>
       PROVE  /\ InFlight' = InFlight \ {r}
              /\ charts' \in [Measurements -> Chart \cup {None}] 
                    /\ (chartPage \notin ChartPages => charts' = charts) => WireOK'
              /\ \A m \in Measurements :
                    charts'[m] = charts[m] /\ charts[m] # None /\ UNCHANGED colors
                    /\ (r.of = None \/ ~Accepts(m, r)) => ChartOK(m)'
  <2>1. InFlight' = InFlight \ {r}
    BY <1>12 DEF InFlight
  <2>2. ASSUME NEW m \in Measurements, charts'[m] = charts[m], charts[m] # None, UNCHANGED colors,
               r.of = None \/ ~Accepts(m, r)
        PROVE  ChartOK(m)'
    <3>1. ChartOK(m) /\ m # None
      BY <2>2, ChartsAssumption DEF ChartsOK
    <3>2. r.of # m \/ r.id # charts[m].lastRequestId
      BY <2>2, <3>1 DEF Accepts, OpenCharts
    <3> QED
      BY <1>12, <2>1, <2>2, <3>1, <3>2 DEF ChartOK
  <2>3. ASSUME charts' \in [Measurements -> Chart \cup {None}], chartPage \notin ChartPages => charts' = charts
        PROVE  WireOK'
    BY <1>12, <2>1, <2>3 DEF WireOK, InFlight
  <2> QED
    BY <2>1, <2>2, <2>3
<1>13. ASSUME NEW r \in InFlight, chartPage \notin ChartPages
       PROVE  \A m \in Measurements : ~Accepts(m, r)
  BY <1>13 DEF WireOK, Accepts, OpenCharts
<1>14. ASSUME NEW r \in InFlight, LoseMessage(r)
       PROVE  WireOK' /\ ChartsOK'
  <2>1. /\ queries' = queries \ {r} /\ answers' = answers \ {r}
        /\ UNCHANGED <<chartPage, listRequest, groupByTag, colors>>
        /\ charts' = [m \in Measurements |->
                        IF Accepts(m, r) THEN [charts[m] EXCEPT !.lost = TRUE] ELSE charts[m]]
    BY <1>14 DEF LoseMessage, settings
  <2>2. ASSUME NEW m \in Measurements, Accepts(m, r)
        PROVE  charts'[m] \in Chart /\ ChartOK(m)'
    <3>1. ChartOK(m) /\ charts[m] \in Chart /\ charts'[m] = [charts[m] EXCEPT !.lost = TRUE]
      BY <2>1, <2>2 DEF ChartsOK, WireOK, Accepts, OpenCharts
    <3>2. /\ charts'[m].lastRequestId = charts[m].lastRequestId /\ charts'[m].data = charts[m].data
          /\ charts'[m].clean = charts[m].clean /\ charts'[m].lost /\ charts'[m] \in Chart
      BY <3>1 DEF Chart
    <3>3. InFlight' \subseteq InFlight
      BY <1>12, <2>1
    <3> QED
      BY <2>1, <3>1, <3>2, <3>3 DEF ChartOK
  <2>3. charts' \in [Measurements -> Chart \cup {None}] /\ (chartPage \notin ChartPages => charts' = charts)
    BY <1>13, <2>1, <2>2 DEF WireOK
  <2>4. ASSUME NEW m \in Measurements, ~Accepts(m, r), charts'[m] # None
        PROVE  ChartOK(m)'
    <3>1. charts'[m] = charts[m]
      BY <2>1, <2>4
    <3> QED
      BY <1>12, <2>1, <2>4, <3>1
  <2> QED
    BY <1>12, <2>1, <2>2, <2>3, <2>4 DEF ChartsOK
<1>15. ASSUME NEW r \in answers, ReceiveList(r)
       PROVE  WireOK' /\ ChartsOK'
  <2>1. r.of = None /\ answers' = answers \ {r} /\ UNCHANGED <<chartPage, listRequest, colors>>
    BY <1>15 DEF ReceiveList, settings
  <2>2. CASE r.id = listRequest
    <3>1. groupByTag' = groupByTag /\ Show(selected)
      BY <1>15, <2>2 DEF ReceiveList
    <3>2. chartPage \in ChartPages
      BY <2>2, ChartsAssumption DEF WireOK, Messages
    <3>3. PICK S \in SUBSET Measurements : S = selected
      BY DEF SettingsOK
    <3>4. Show(S) /\ groupByTag' \in Tags
      BY <3>1, <3>3 DEF SettingsOK
    <3>5. \A q \in answers : q.of \in Measurements => q \in answers'
      BY <2>1, ChartsAssumption
    <3> QED
      BY <2>1, <3>1, <3>2, <3>4, <3>5, ShowKept
  <2>3. CASE r.id # listRequest
    <3>1. UNCHANGED <<groupByTag, charts, queries>>
      BY <1>15, <2>3 DEF ReceiveList
    <3>2. queries' = queries \ {r} /\ r \in InFlight
      BY <3>1 DEF WireOK, InFlight
    <3>3. WireOK'
      BY <1>12, <2>1, <3>1, <3>2 DEF WireOK
    <3>4. \A m \in Measurements : charts'[m] # None => ChartOK(m)'
      BY <1>12, <2>1, <3>1, <3>2
    <3> QED
      BY <3>3, <3>4 DEF ChartsOK
  <2> QED
    BY <2>2, <2>3
<1>16. ASSUME NEW r \in answers, ReceiveData(r)
       PROVE  WireOK' /\ ChartsOK'
  <2>1. /\ r.of # None /\ answers' = answers \ {r} /\ queries' = queries \ {r} /\ r \in InFlight
        /\ UNCHANGED <<chartPage, listRequest, groupByTag>>
    BY <1>16 DEF ReceiveData, WireOK, InFlight
  <2>2. PICK hasSeries \in BOOLEAN, c \in Colors : TransformData(r, hasSeries, c)
    BY <1>16 DEF ReceiveData
  <2> DEFINE shade == GetColor(groupByTag, c)
  <2>3. shade \in Colors /\ shade # None /\ (colors[groupByTag] # None => shade = colors[groupByTag])
    BY ChartsAssumption DEF GetColor, SettingsOK
  <2>4. r.by \in Tags \cup {None} /\ r.id \in Ids
    BY DEF WireOK, Messages
  <2>5. PICK d : d = Series(r, hasSeries, c)
    OBVIOUS
  <2>6. /\ d \in Data /\ d.req = r.id
        /\ d.label # None => hasSeries /\ d.label = groupByTag /\ d.by = r.by /\ d.color = shade
    BY <2>3, <2>4, <2>5 DEF Series, NoData, Data, SettingsOK
  <2> HIDE DEF shade
  <2>7. /\ charts' = [m \in Measurements |->
              IF Accepts(m, r) THEN [charts[m] EXCEPT !.data = d] ELSE charts[m]]
        /\ colors' = IF hasSeries /\ \E m \in Measurements : Accepts(m, r)
                     THEN [colors EXCEPT ![groupByTag] = shade] ELSE colors
    BY <2>2, <2>5 DEF TransformData, shade
  <2>8. colors \in [Tags -> Colors \cup {None}] /\ groupByTag \in Tags
    BY DEF SettingsOK
  <2>9. \A t \in Tags : colors[t] \in Colors => colors'[t] = colors[t]
    BY <2>3, <2>7, <2>8, ChartsAssumption
  <2>10. ASSUME NEW m \in Measurements, Accepts(m, r)
         PROVE  charts'[m] \in Chart /\ ChartOK(m)'
    <3>1. ChartOK(m) /\ charts[m] \in Chart /\ charts[m].lastRequestId = r.id
      BY <2>10 DEF ChartsOK, WireOK, Accepts, OpenCharts
    <3>2. charts'[m] = [charts[m] EXCEPT !.data = d]
      BY <2>7, <2>10
    <3>3. /\ charts'[m].lastRequestId = r.id /\ charts'[m].data = d
          /\ charts'[m].clean = charts[m].clean /\ charts'[m] \in Chart
      BY <2>6, <3>1, <3>2 DEF Chart
    <3>4. \A q \in InFlight' : q.id # r.id
      BY <1>12, <2>1 DEF WireOK
    <3>5. charts[m].clean => r.by = groupByTag
      BY <2>1, <3>1 DEF ChartOK
    <3>6. hasSeries => colors'[groupByTag] = shade
      BY <2>7, <2>8, <2>10
    <3> QED
      BY <2>3, <2>6, <3>3, <3>4, <3>5, <3>6 DEF ChartOK
  <2>11. charts' \in [Measurements -> Chart \cup {None}] /\ (chartPage \notin ChartPages => charts' = charts)
    BY <1>13, <2>1, <2>7, <2>10 DEF WireOK
  <2>12. ASSUME NEW m \in Measurements, ~Accepts(m, r), charts'[m] # None
         PROVE  ChartOK(m)'
    <3>1. charts'[m] = charts[m] /\ ChartOK(m) /\ charts[m] \in Chart
      BY <2>7, <2>12 DEF ChartsOK, WireOK
    <3>2. \A q \in InFlight : q.id = charts[m].lastRequestId => q \in InFlight'
      BY <1>12, <2>1, <2>12, <3>1 DEF Accepts, OpenCharts
    <3>3. charts[m].data.label \in Tags \cup {None}
      BY <3>1 DEF Chart, Data
    <3>4. InFlight' \subseteq InFlight
      BY <1>12, <2>1
    <3> QED
      BY <2>1, <2>9, <3>1, <3>2, <3>3, <3>4 DEF ChartOK
  <2> QED
    BY <1>12, <2>1, <2>10, <2>11, <2>12 DEF ChartsOK
<1> QED
  BY <1>2, <1>4, <1>5, <1>6, <1>7, <1>8, <1>9, <1>10, <1>11, <1>14, <1>15, <1>16 DEF ChartsNext, InFlight

LEMMA ChartsStart ==
    ASSUME ChartsInit
    PROVE  ChartsIInv
<1>1. /\ chartPage = "none" /\ selected = {} /\ groupByTag \in Tags /\ listRequest = None
      /\ charts = [m \in Measurements |-> None] /\ queries = {} /\ answers = {}
      /\ colors = [t \in Tags |-> None] /\ storedColors = colors
      /\ dashboardConfigStore = [p \in ChartPages |-> None] /\ storedConfigs = dashboardConfigStore
  BY ChartsAssumption DEF ChartsInit
<1>2. SettingsOK
  BY <1>1 DEF SettingsOK, SettingsStored
<1>3. WireOK /\ ChartsOK
  BY <1>1 DEF WireOK, ChartsOK, InFlight
<1> QED
  BY <1>2, <1>3 DEF ChartsIInv

LEMMA ChartsInvariant == ChartsSpec => []ChartsIInv
<1>1. ChartsInit => ChartsIInv
  BY ChartsStart
<1>2. ChartsIInv /\ [ChartsNext]_chartsVars => ChartsIInv'
  BY SettingsKept, WireKept DEF ChartsIInv
<1> QED
  BY <1>1, <1>2, PTL DEF ChartsSpec

(* The answer to a chart's last query is shown, under way or lost: the uids  *)
(* of later queries differ from those of all messages a chart may still hear. *)
THEOREM ChartsShowTheLastQuery == ChartsSpec => []ShowsLastQuery
<1>1. ChartsIInv => ShowsLastQuery
  BY DEF ChartsIInv, ChartsOK, ChartOK, InFlight, ShowsLastQuery, OpenCharts
<1> QED
  BY <1>1, ChartsInvariant, PTL

(* A chart that was not told of another tag since its query labels its series *)
(* by the tag they were grouped by, and with the one colour of the label.     *)
THEOREM LegendsAreTrue == ChartsSpec => []LegendTrue
<1>1. ChartsIInv => LegendTrue
  BY DEF ChartsIInv, ChartsOK, ChartOK, LegendTrue, OpenCharts
<1> QED
  BY <1>1, ChartsInvariant, PTL

(* The flag of a change is raised by every change of the settings but the     *)
(* user's choice of a colour, and cleared only by writing them.               *)
THEOREM SettingsAreStored == ChartsSpec => []SettingsStored
<1>1. ChartsIInv => SettingsStored
  BY DEF ChartsIInv, SettingsOK, SettingsStored
<1> QED
  BY <1>1, ChartsInvariant, PTL

-----------------------------------------------------------------------------
(* The managers of adapters.                                                 *)
LEMMA NoAdapterIsNoList == NoList \notin Adapters
  BY ManagersAssumption DEF Adapters

Nodes == Adapters \X Addresses
Types == {"all_nodes_report", "net_ping_report", "full_report", "ping_report", "thing_report"}
Lists == {"all_nodes_report", "net_ping_report"}
Events == {r \in [from : Adapters, type : Types, nodes : SUBSET Nodes] :
              r.nodes \subseteq NodesOf(r.from) /\ (r.type = "ping_report" => r.nodes # {})}

\* Commands go to adapters, those about a node have its address.
CommandOK(c) == /\ c.to \in Adapters
                /\ c.cmd \in {"get_inclusion_report", "replace", "ping"} => c.address \in Addresses
HubOK ==
    /\ \A c \in DOMAIN requests : requests[c] \in Nat \ {0} /\ CommandOK(c)
    /\ reports \in Seq(Events)
    /\ network \in [Adapters -> SUBSET Nodes] /\ \A a \in Adapters : network[a] \subseteq NodesOf(a)

\* A list on its way is what its adapter has, or the change is reported behind it.
ReportedBehind(i) == \E j \in 1 .. Len(reports) :
                        j > i /\ reports[j].from = reports[i].from /\ reports[j].type = "thing_report"
ReportsCurrent == \A i \in 1 .. Len(reports) :
                     reports[i].type \in Lists => reports[i].nodes = network[reports[i].from] \/ ReportedBehind(i)

Dialogs == [op : {"none", "inclusion", "exclusion", "ping"}, address : Addresses \cup {NoList},
            told : SUBSET Nodes]

\* What page and dialog are about.
ViewOK ==
    /\ screen \in {"none", "zwave", "zigbee", "generic", "thing"}
    /\ screen = "none" => shown = NoList /\ dialog = NoDialog
    /\ fresh => screen \in {"zwave", "zigbee", "generic"} /\ adapter \in Adapters
    /\ screen = "zwave" => adapter = "zwave-ad"
    /\ screen = "zigbee" => adapter = "zigbee"
    /\ screen = "thing" => adapter \in Adapters
    /\ adapter \in Adapters \cup {NoList} /\ selectedAdapter \in Adapters \cup {NoList}
    /\ shown # NoList => shown \subseteq Nodes
    /\ dialog # NoDialog => adapter \in Adapters
    /\ dialog \in Dialogs
    /\ cache \in [Keys -> (SUBSET Nodes) \cup {NoList}]
    /\ OwnNodesOnly

\* A list that is not what the adapter has will be loaded again.
Renewed == \/ Command(adapter, "get_all_nodes") \in DOMAIN requests
           \/ \E i \in 1 .. Len(reports) : reports[i].from = adapter
                                            /\ reports[i].type \in {"all_nodes_report", "thing_report"}
ShownOK == screen # "none" /\ subscribed /\ fresh => shown = network[adapter] \/ Renewed

ManagersIInv == HubOK /\ ReportsCurrent /\ ViewOK /\ ShownOK

\* A bag to which commands are added, or from which one is taken.
LEMMA Added ==
    ASSUME NEW S, HubOK, requests' = requests (+) SetToBag(S)
    PROVE  DOMAIN requests' = DOMAIN requests \cup S /\ \A c \in DOMAIN requests' : requests'[c] \in Nat \ {0}
<1>1. SetToBag(S) = [c \in S |-> 1]
  BY DEF SetToBag
<1>2. requests' = [c \in DOMAIN requests \cup S |->
                     (IF c \in DOMAIN requests THEN requests[c] ELSE 0) + (IF c \in S THEN 1 ELSE 0)]
  BY <1>1 DEF (+)
<1> QED
  BY <1>2 DEF HubOK

LEMMA Taken ==
    ASSUME NEW c, HubOK, requests' = requests (-) SetToBag({c})
    PROVE  /\ DOMAIN requests' \subseteq DOMAIN requests
           /\ \A d \in DOMAIN requests : d # c => d \in DOMAIN requests'
           /\ \A d \in DOMAIN requests' : requests'[d] \in Nat \ {0}
<1>1. SetToBag({c}) = [d \in {c} |-> 1]
  BY DEF SetToBag
<1>2. PICK B : B = [d \in DOMAIN requests |-> IF d \in {c} THEN requests[d] - 1 ELSE requests[d]]
  OBVIOUS
<1>3. requests' = [d \in {e \in DOMAIN B : B[e] > 0} |-> B[d]]
  BY <1>1, <1>2 DEF (-)
<1>4. \A d \in DOMAIN requests : requests[d] \in Nat /\ requests[d] > 0
  BY DEF HubOK
<1>5. \A d \in DOMAIN requests : B[d] \in Nat /\ (d # c => B[d] > 0)
  BY <1>2, <1>4
<1>6. DOMAIN B = DOMAIN requests
  BY <1>2
<1>7. DOMAIN requests' = {e \in DOMAIN requests : B[e] > 0} /\ \A d \in DOMAIN requests' : requests'[d] = B[d]
  BY <1>3, <1>6
<1> QED
  BY <1>5, <1>7

\* Nothing happens at the hub but that commands are sent.
Sent == /\ UNCHANGED <<reports, network>>
        /\ \/ UNCHANGED requests
           \/ \E S : requests' = requests (+) SetToBag(S) /\ \A c \in S : CommandOK(c)

LEMMA SentKept ==
    ASSUME HubOK, ReportsCurrent, Sent
    PROVE  HubOK' /\ ReportsCurrent' /\ DOMAIN requests \subseteq DOMAIN requests'
<1>1. CASE UNCHANGED requests
  BY <1>1 DEF HubOK, ReportsCurrent, ReportedBehind, Sent
<1>2. ASSUME NEW S, requests' = requests (+) SetToBag(S), \A c \in S : CommandOK(c)
      PROVE  HubOK' /\ ReportsCurrent' /\ DOMAIN requests \subseteq DOMAIN requests'
  <2>1. DOMAIN requests' = DOMAIN requests \cup S /\ \A c \in DOMAIN requests' : requests'[c] \in Nat \ {0}
    BY <1>2, Added
  <2> QED
    BY <1>2, <2>1 DEF HubOK, ReportsCurrent, ReportedBehind, Sent
<1> QED
  BY <1>1, <1>2 DEF Sent

\* A command to an adapter about a node, or about none.
LEMMA Commanded ==
    ASSUME NEW c, Publish(c), CommandOK(c), UNCHANGED <<reports, network>>
    PROVE  Sent
  BY DEF Publish, Sent

Screen == <<screen, adapter, shown, subscribed, fresh, cache, selectedAdapter>>

\* Only the dialog changes.
LEMMA DialogKept ==
    ASSUME ManagersIInv, Sent, UNCHANGED Screen,
           dialog' = NoDialog \/ (screen # "none" /\ adapter \in Adapters),
           dialog'.told \subseteq NodesOf(adapter),
           dialog' \in Dialogs
    PROVE  ManagersIInv'
<1>1. HubOK' /\ ReportsCurrent' /\ DOMAIN requests \subseteq DOMAIN requests'
  BY SentKept DEF ManagersIInv
<1>2. ViewOK'
  BY DEF ManagersIInv, ViewOK, Screen, OwnNodesOnly
<1>3. ShownOK'
  BY <1>1 DEF ManagersIInv, ShownOK, Renewed, Sent, Screen
<1> QED
  BY <1>1, <1>2, <1>3 DEF ManagersIInv

\* Not even the dialog.
LEMMA SilentKept ==
    ASSUME ManagersIInv, Sent, UNCHANGED <<Screen, dialog>>
    PROVE  ManagersIInv'
<1>1. /\ dialog' = NoDialog \/ (screen # "none" /\ adapter \in Adapters)
      /\ dialog'.told \subseteq NodesOf(adapter)
      /\ dialog' \in Dialogs
  BY DEF ManagersIInv, ViewOK, OwnNodesOnly
<1> QED
  BY <1>1, DialogKept DEF Screen

\* The page changes, or asks for its list.
LEMMA ScreenKept ==
    ASSUME ManagersIInv, Sent, ViewOK', ~fresh'
    PROVE  ManagersIInv'
  BY SentKept DEF ManagersIInv, ShownOK

-----------------------------------------------------------------------------
\* A report that is appended tells what its adapter has, or that it changed.
LEMMA Appended ==
    ASSUME HubOK, ReportsCurrent, NEW e \in Events, reports' = Append(reports, e),
           \A a \in Adapters : network'[a] = network[a] \/ (a = e.from /\ e.type = "thing_report"),
           e.type \in Lists => e.nodes = network[e.from]
    PROVE  /\ reports' \in Seq(Events) /\ ReportsCurrent'
           /\ \A i \in 1 .. Len(reports) : i \in 1 .. Len(reports') /\ reports'[i] = reports[i]
           /\ \E i \in 1 .. Len(reports') : reports'[i] = e
<1>1. PICK n \in Nat : n = Len(reports)
  BY DEF HubOK
<1>2. /\ reports' \in Seq(Events) /\ Len(reports') = n + 1 /\ reports'[n + 1] = e
      /\ \A i \in 1 .. n : reports'[i] = reports[i] /\ reports[i] \in Events
  BY <1>1 DEF HubOK
<1>3. ASSUME NEW i \in 1 .. n + 1, reports'[i].type \in Lists
      PROVE  reports'[i].nodes = network'[reports'[i].from] \/ ReportedBehind(i)'
  <2>1. CASE i = n + 1
    BY <1>2, <1>3, <2>1 DEF Events, Lists
  <2>2. CASE i \in 1 .. n /\ ReportedBehind(i)
    <3>1. PICK j \in 1 .. n : j > i /\ reports[j].from = reports[i].from /\ reports[j].type = "thing_report"
      BY <1>1, <2>2 DEF ReportedBehind
    <3>2. j \in 1 .. n + 1 /\ reports'[j] = reports[j] /\ reports'[i] = reports[i]
      BY <1>1, <1>2, <2>2
    <3> QED
      BY <1>2, <3>1, <3>2 DEF ReportedBehind
  <2>3. CASE i \in 1 .. n /\ ~ReportedBehind(i)
    <3>1. reports'[i] = reports[i] /\ reports[i] \in Events /\ reports[i].nodes = network[reports[i].from]
      BY <1>1, <1>2, <1>3, <2>3 DEF ReportsCurrent
    <3>2. reports[i].from \in Adapters
      BY <3>1 DEF Events
    <3>3. CASE network'[reports[i].from] = network[reports[i].from]
      BY <3>1, <3>3
    <3>4. CASE reports[i].from = e.from /\ e.type = "thing_report"
      <4>1. n + 1 \in 1 .. Len(reports') /\ n + 1 > i
        BY <1>1, <1>2, <2>3
      <4> QED
        BY <1>2, <3>1, <3>4, <4>1 DEF ReportedBehind
    <3> QED
      BY <3>2, <3>3, <3>4
  <2> QED
    BY <1>1, <2>1, <2>2, <2>3
<1>4. ReportsCurrent'
  BY <1>2, <1>3 DEF ReportsCurrent
<1> QED
  BY <1>1, <1>2, <1>4

\* What the screen shows needs no more than is under way after an answer.
LEMMA AdapterReports ==
    ASSUME ManagersIInv, NEW e \in Events, reports' = Append(reports, e),
           \A a \in Adapters : network'[a] = network[a] \/ (a = e.from /\ e.type = "thing_report"),
           e.type \in Lists => e.nodes = network[e.from],
           UNCHANGED <<Screen, dialog>>,
           network' \in [Adapters -> SUBSET Nodes], \A a \in Adapters : network'[a] \subseteq NodesOf(a),
           \A c \in DOMAIN requests' : requests'[c] \in Nat \ {0} /\ CommandOK(c),
           \A c \in DOMAIN requests : c \in DOMAIN requests' \/ c.cmd # "get_all_nodes"
                                       \/ (e.type = "all_nodes_report" /\ e.from = c.to)
    PROVE  ManagersIInv'
<1>1. /\ reports' \in Seq(Events) /\ ReportsCurrent'
      /\ \A i \in 1 .. Len(reports) : i \in 1 .. Len(reports') /\ reports'[i] = reports[i]
      /\ \E i \in 1 .. Len(reports') : reports'[i] = e
  BY Appended DEF ManagersIInv
<1>2. HubOK' /\ ViewOK'
  BY <1>1 DEF ManagersIInv, HubOK, ViewOK, Screen, OwnNodesOnly
<1>3. ASSUME screen # "none", subscribed, fresh, Renewed
      PROVE  Renewed'
  <2>1. CASE Command(adapter, "get_all_nodes") \in DOMAIN requests
    BY <1>1, <2>1 DEF Renewed, Screen, Command
  <2>2. CASE Command(adapter, "get_all_nodes") \notin DOMAIN requests
    BY <1>1, <1>3, <2>2 DEF Renewed, Screen
  <2> QED
    BY <2>1, <2>2
<1>4. ASSUME screen # "none", subscribed, fresh, ~Renewed
      PROVE  shown = network'[adapter] \/ Renewed'
  <2>1. shown = network[adapter] /\ adapter \in Adapters
    BY <1>4 DEF ManagersIInv, ShownOK, ViewOK
  <2> QED
    BY <1>1, <2>1 DEF Renewed, Screen
<1>5. ShownOK'
  BY <1>3, <1>4 DEF ShownOK, Screen
<1> QED
  BY <1>1, <1>2, <1>5 DEF ManagersIInv

LEMMA NetworkChangeKept ==
    ASSUME ManagersIInv, NEW a \in Adapters, NetworkChanges(a)
    PROVE  ManagersIInv'
<1>1. UNCHANGED <<Screen, dialog, requests>>
  BY DEF NetworkChanges, Screen, store
<1>2. PICK N \in SUBSET NodesOf(a), S \in SUBSET NodesOf(a) :
         network' = [network EXCEPT ![a] = N] /\ reports' = Append(reports, Report(a, "thing_report", S))
  <2>1. PICK d \in NodesOf(a) :
           \/ /\ network' = [network EXCEPT ![a] = @ \ {d}]
              /\ reports' = Append(reports, Report(a, "thing_report", {}))
           \/ /\ network' = [network EXCEPT ![a] = @ \cup {d}]
              /\ reports' = Append(reports, Report(a, "thing_report", {d}))
    BY DEF NetworkChanges, Emit
  <2>2. network[a] \subseteq NodesOf(a)
    BY DEF ManagersIInv, HubOK
  <2> QED
    BY <2>1, <2>2
<1>3. PICK e : e = Report(a, "thing_report", S)
  OBVIOUS
<1>4. NodesOf(a) \subseteq Nodes
  BY DEF NodesOf, Nodes
<1>5. e \in Events /\ e.from = a /\ e.type = "thing_report"
  BY <1>2, <1>3, <1>4 DEF Report, Events, Types
<1>6. /\ network' \in [Adapters -> SUBSET Nodes] /\ \A b \in Adapters : network'[b] \subseteq NodesOf(b)
      /\ \A b \in Adapters : network'[b] = network[b] \/ b = a
  BY <1>2, <1>4 DEF ManagersIInv, HubOK
<1>7. \A c \in DOMAIN requests' : requests'[c] \in Nat \ {0} /\ CommandOK(c)
  BY <1>1 DEF ManagersIInv, HubOK
<1> QED
  BY <1>1, <1>2, <1>3, <1>5, <1>6, <1>7, AdapterReports DEF Lists

\* The adapter does not report.
LEMMA Unreported ==
    ASSUME ManagersIInv, UNCHANGED <<Screen, dialog, network, reports>>,
           \A c \in DOMAIN requests' : requests'[c] \in Nat \ {0} /\ CommandOK(c),
           \A c \in DOMAIN requests : c \in DOMAIN requests' \/ c.cmd # "get_all_nodes"
    PROVE  ManagersIInv'
<1>1. HubOK' /\ ReportsCurrent' /\ ViewOK'
  BY DEF ManagersIInv, HubOK, ReportsCurrent, ReportedBehind, ViewOK, Screen, OwnNodesOnly
<1>2. Renewed => Renewed'
  BY DEF Renewed, Screen, Command
<1> QED
  BY <1>1, <1>2 DEF ManagersIInv, ShownOK, Screen

LEMMA AnswerKept ==
    ASSUME ManagersIInv, NEW c \in DOMAIN requests, Answer(c)
    PROVE  ManagersIInv'
<1> DEFINE N == After(c)
<1>1. /\ requests' = requests (-) SetToBag({c}) /\ network' = [network EXCEPT ![c.to] = N]
      /\ UNCHANGED <<Screen, dialog>>
  BY DEF Answer, Screen, store
<1>2. CommandOK(c) /\ c.to \in Adapters /\ HubOK
  BY DEF ManagersIInv, HubOK, CommandOK
<1>3. /\ \A d \in DOMAIN requests' : requests'[d] \in Nat \ {0} /\ CommandOK(d)
      /\ \A d \in DOMAIN requests : d \in DOMAIN requests' \/ d = c
  BY <1>1, <1>2, Taken DEF HubOK
<1>4. /\ N \subseteq network[c.to]
      /\ c.cmd \notin {"delete", "reset"} => N = network[c.to]
  BY DEF After
<1> HIDE DEF N
<1>5. /\ network' \in [Adapters -> SUBSET Nodes] /\ \A b \in Adapters : network'[b] \subseteq NodesOf(b)
      /\ \A b \in Adapters : network'[b] = network[b] \/ b = c.to
      /\ c.cmd \notin {"delete", "reset"} => network' = network
  BY <1>1, <1>2, <1>4 DEF HubOK
<1>6. CASE c.cmd = "other" \/ (c.cmd \in {"delete", "reset"} /\ network' = network)
  <2>1. UNCHANGED reports
    BY <1>6 DEF Answer
  <2> QED
    BY <1>1, <1>3, <1>5, <1>6, <2>1, Unreported
<1>7. ASSUME NEW e \in Events, reports' = Append(reports, e), e.from = c.to,
             network' = network \/ e.type = "thing_report",
             e.type \in Lists => e.nodes = network[c.to],
             c.cmd = "get_all_nodes" => e.type = "all_nodes_report"
      PROVE  ManagersIInv'
  <2>1. \A a \in Adapters : network'[a] = network[a] \/ (a = e.from /\ e.type = "thing_report")
    BY <1>5, <1>7
  <2> QED
    BY <1>1, <1>3, <1>5, <1>7, <2>1, AdapterReports
<1>8. CASE ~(c.cmd = "other" \/ (c.cmd \in {"delete", "reset"} /\ network' = network))
  <2>1. Emit(CASE c.cmd = "get_all_nodes"   -> Report(c.to, "all_nodes_report", network[c.to])
                 [] c.cmd = "net_ping"        -> Report(c.to, "net_ping_report", network[c.to])
                 [] c.cmd = "get_full_report" -> Report(c.to, "full_report", {})
                 [] c.cmd = "ping"            -> Report(c.to, "ping_report", {<<c.to, c.address>>})
                 [] c.cmd \in {"get_inclusion_report", "replace"} ->
                      Report(c.to, "thing_report", {<<c.to, c.address>>})
                 [] OTHER                     -> Report(c.to, "thing_report", {}))
    BY <1>8 DEF Answer
  <2>2. PICK type \in Types, S \in SUBSET NodesOf(c.to) :
           /\ reports' = Append(reports, Report(c.to, type, S))
           /\ type = "ping_report" => S # {}
           /\ network' = network \/ type = "thing_report"
           /\ type \in Lists => S = network[c.to]
           /\ c.cmd = "get_all_nodes" => type = "all_nodes_report"
    <3>1. network[c.to] \subseteq NodesOf(c.to)
      BY <1>2 DEF HubOK
    <3>2. CASE c.cmd = "get_all_nodes"
      BY <1>5, <2>1, <3>1, <3>2 DEF Emit, Types, Lists
    <3>3. CASE c.cmd = "net_ping"
      BY <1>5, <2>1, <3>1, <3>3 DEF Emit, Types, Lists
    <3>4. CASE c.cmd = "get_full_report"
      BY <1>5, <2>1, <3>4 DEF Emit, Types, Lists
    <3>5. CASE c.cmd \in {"ping", "get_inclusion_report", "replace"}
      <4>1. <<c.to, c.address>> \in NodesOf(c.to)
        BY <1>2, <3>5 DEF CommandOK, NodesOf
      <4>2. CASE c.cmd = "ping"
        <5>1. reports' = Append(reports, Report(c.to, "ping_report", {<<c.to, c.address>>}))
          BY <2>1, <4>2 DEF Emit
        <5>2. /\ "ping_report" \in Types /\ "ping_report" \notin Lists /\ network' = network
              /\ {<<c.to, c.address>>} \in SUBSET NodesOf(c.to) /\ {<<c.to, c.address>>} # {}
          BY <1>5, <4>1, <4>2 DEF Types, Lists
        <5> QED
          BY <4>2, <5>1, <5>2
      <4>3. CASE c.cmd \in {"get_inclusion_report", "replace"}
        <5>1. reports' = Append(reports, Report(c.to, "thing_report", {<<c.to, c.address>>}))
          BY <2>1, <4>3 DEF Emit
        <5> QED
          BY <1>5, <4>1, <4>3, <5>1 DEF Types, Lists
      <4> QED
        BY <3>5, <4>2, <4>3
    <3>6. CASE c.cmd \notin {"get_all_nodes", "net_ping", "get_full_report", "ping", "get_inclusion_report", "replace"}
      BY <2>1, <3>6 DEF Emit, Types, Lists
    <3> QED
      BY <3>2, <3>3, <3>4, <3>5, <3>6
  <2>3. PICK e : e = Report(c.to, type, S)
    OBVIOUS
  <2>4. e \in Events /\ e.from = c.to /\ e.type = type /\ e.nodes = S
    <3>1. NodesOf(c.to) \subseteq Nodes
      BY <1>2 DEF NodesOf, Nodes
    <3> QED
      BY <1>2, <2>2, <2>3, <3>1 DEF Report, Events
  <2> QED
    BY <1>7, <2>2, <2>3, <2>4
<1> QED
  BY <1>6, <1>8

LEMMA TailKept ==
    ASSUME HubOK, ReportsCurrent, reports # <<>>, reports' = Tail(reports), UNCHANGED network
    PROVE  /\ reports' \in Seq(Events) /\ ReportsCurrent' /\ Head(reports) \in Events
           /\ \A i \in 2 .. Len(reports) : i - 1 \in 1 .. Len(reports') /\ reports'[i - 1] = reports[i]
           /\ Head(reports).type \in Lists =>
                \/ Head(reports).nodes = network[Head(reports).from]
                \/ \E i \in 1 .. Len(reports') :
                      reports'[i].from = Head(reports).from /\ reports'[i].type = "thing_report"
<1>1. PICK n \in Nat : n + 1 = Len(reports) /\ Len(reports') = n
  BY DEF HubOK
<1>2. /\ reports' \in Seq(Events) /\ \A i \in 1 .. n : reports'[i] = reports[i + 1]
      /\ Head(reports) = reports[1] /\ reports[1] \in Events
  BY <1>1 DEF HubOK
<1>3. ASSUME NEW i \in 2 .. Len(reports)
      PROVE  i - 1 \in 1 .. n /\ reports'[i - 1] = reports[i]
  BY <1>1, <1>2
<1>4. ASSUME NEW i \in 1 .. n + 1, ReportedBehind(i)
      PROVE  \E j \in 1 .. n : /\ j > i - 1 /\ reports'[j].from = reports[i].from
                               /\ reports'[j].type = "thing_report"
  <2>1. PICK j \in 1 .. n + 1 : j > i /\ reports[j].from = reports[i].from /\ reports[j].type = "thing_report"
    BY <1>1, <1>4 DEF ReportedBehind
  <2>2. j - 1 \in 1 .. n /\ j - 1 > i - 1 /\ reports'[j - 1] = reports[j]
    BY <1>1, <1>3, <2>1
  <2> QED
    BY <2>1, <2>2
<1>5. ASSUME NEW i \in 1 .. n, reports'[i].type \in Lists
      PROVE  reports'[i].nodes = network'[reports'[i].from] \/ ReportedBehind(i)'
  <2>1. i + 1 \in 1 .. Len(reports) /\ reports'[i] = reports[i + 1]
    BY <1>1, <1>2
  <2>2. reports[i + 1].nodes = network[reports[i + 1].from] \/ ReportedBehind(i + 1)
    BY <1>5, <2>1 DEF ReportsCurrent
  <2>3. CASE ReportedBehind(i + 1)
    <3>1. PICK j \in 1 .. n : /\ j > (i + 1) - 1 /\ reports'[j].from = reports[i + 1].from
                              /\ reports'[j].type = "thing_report"
      BY <1>1, <1>4, <2>1, <2>3
    <3> QED
      BY <1>1, <2>1, <3>1 DEF ReportedBehind
  <2> QED
    BY <2>1, <2>2, <2>3
<1>6. ReportsCurrent'
  BY <1>1, <1>5 DEF ReportsCurrent
<1>7. Head(reports).type \in Lists =>
        \/ Head(reports).nodes = network[Head(reports).from]
        \/ \E i \in 1 .. n : reports'[i].from = Head(reports).from /\ reports'[i].type = "thing_report"
  BY <1>1, <1>2, <1>4 DEF ReportsCurrent
<1> QED
  BY <1>1, <1>2, <1>3, <1>6, <1>7

LEMMA LoseKept ==
    ASSUME ManagersIInv, Lose
    PROVE  ManagersIInv'
<1>1. /\ ~fresh' /\ UNCHANGED <<screen, dialog, adapter, shown, cache, selectedAdapter, network>>
  BY DEF Lose, store, hub
<1>2. ViewOK' /\ ShownOK'
  BY <1>1 DEF ManagersIInv, ViewOK, ShownOK, OwnNodesOnly
<1>3. CASE reports # <<>> /\ reports' = Tail(reports) /\ UNCHANGED requests
  BY <1>1, <1>2, <1>3, TailKept DEF ManagersIInv, HubOK
<1>4. ASSUME NEW c, requests' = requests (-) SetToBag({c}), UNCHANGED reports
      PROVE  ManagersIInv'
  <2>1. \A d \in DOMAIN requests' : requests'[d] \in Nat \ {0} /\ CommandOK(d)
    BY <1>4, Taken DEF ManagersIInv, HubOK
  <2> QED
    BY <1>1, <1>2, <1>4, <2>1 DEF ManagersIInv, HubOK, ReportsCurrent, ReportedBehind
<1> QED
  BY <1>3, <1>4 DEF Lose

LEMMA ReceiveKept ==
    ASSUME ManagersIInv, Receive
    PROVE  ManagersIInv'
<1> DEFINE r == Head(reports)
<1>1. /\ reports # <<>> /\ reports' = Tail(reports) /\ UNCHANGED <<screen, adapter, selectedAdapter, network>>
      /\ DialogTakes(r) \/ (~DialogHears(r) /\ UNCHANGED dialog)
      /\ ZwaveTakes(r) \/ ZigbeeTakes(r) \/ GenericTakes(r) \/ ThingTakes(r)
           \/ (~Heard(r) /\ Ignored)
  BY DEF Receive, hub
<1>2. /\ reports' \in Seq(Events) /\ ReportsCurrent' /\ r \in Events
      /\ \A i \in 2 .. Len(reports) : i - 1 \in 1 .. Len(reports') /\ reports'[i - 1] = reports[i]
      /\ r.type \in Lists => r.nodes = network[r.from]
                              \/ \E i \in 1 .. Len(reports') :
                                    reports'[i].from = r.from /\ reports'[i].type = "thing_report"
  BY <1>1, TailKept DEF ManagersIInv
<1>3. reports[1] = r /\ Len(reports) \in Nat
  BY DEF ManagersIInv, HubOK
<1> HIDE DEF r
<1>4. r.from \in Adapters /\ r.type \in Types /\ r.nodes \subseteq NodesOf(r.from) /\ r.nodes \subseteq Nodes
  BY <1>2 DEF Events
\* The dialog.
\* The dialog.
<1>5. /\ dialog' = NoDialog \/ (screen # "none" /\ adapter \in Adapters)
      /\ dialog'.told \subseteq NodesOf(adapter) /\ dialog' \in Dialogs
      /\ screen = "none" => dialog' = NoDialog
  <2>1. CASE UNCHANGED dialog
    BY <2>1 DEF ManagersIInv, ViewOK, OwnNodesOnly
  <2>2. CASE DialogTakes(r) /\ dialog' # dialog
    <3>1. dialog # NoDialog /\ r.from = adapter
      BY <2>2 DEF DialogTakes, DialogHears
    <3>2. (dialog' = PingReport(r) /\ r.type = "ping_report") \/ dialog' = InclusionReport(r)
      BY <2>2 DEF DialogTakes
    <3>3. screen # "none" /\ dialog \in Dialogs /\ dialog.told \subseteq NodesOf(adapter)
      BY <3>1 DEF ManagersIInv, ViewOK, OwnNodesOnly
    <3>4. dialog.told \cup r.nodes \subseteq NodesOf(adapter) /\ dialog.told \cup r.nodes \in SUBSET Nodes
      BY <1>4, <3>1, <3>3 DEF Dialogs
    <3>5. CASE dialog' = InclusionReport(r)
      BY <1>4, <3>1, <3>3, <3>4, <3>5 DEF InclusionReport, Dialogs
    <3>6. CASE dialog' = PingReport(r) /\ r.type = "ping_report"
      <4>1. PICK d : d = CHOOSE n \in r.nodes : TRUE
        OBVIOUS
      <4>2. d \in Nodes
        BY <1>2, <1>4, <3>6, <4>1 DEF Events
      <4>3. d[2] \in Addresses
        BY <4>2 DEF Nodes
      <4>4. dialog' = [dialog EXCEPT !.told = dialog.told \cup r.nodes, !.address = d[2]]
        BY <3>3, <3>6, <4>1 DEF PingReport
      <4> QED
        BY <1>4, <3>1, <3>3, <3>4, <4>3, <4>4 DEF Dialogs
    <3> QED
      BY <3>2, <3>5, <3>6
  <2> QED
    BY <1>1, <2>1, <2>2
\* The pages with a list.
<1>6. ASSUME screen \in {"zwave", "zigbee", "generic"}, r.from = adapter, OnAllNodes(r)
      PROVE  ManagersIInv'
  <2>1. r.type = "all_nodes_report" /\ shown' = r.nodes /\ cache' = [cache EXCEPT ![CacheKey] = r.nodes]
        /\ UNCHANGED <<subscribed, requests>>
    BY <1>6 DEF OnAllNodes, CacheList
  <2>2. CacheKey \in Keys /\ OwnerOf(CacheKey) = adapter
    BY <1>4, <1>6 DEF CacheKey, OwnerOf, Keys, Adapters, ManagersIInv, ViewOK
  <2>3. /\ cache' \in [Keys -> (SUBSET Nodes) \cup {NoList}]
        /\ \A k \in Keys : cache'[k] # NoList => cache'[k] \subseteq NodesOf(OwnerOf(k))
    BY <1>4, <1>6, <2>1, <2>2 DEF ManagersIInv, ViewOK, OwnNodesOnly
  <2>4. ViewOK'
    BY <1>1, <1>4, <1>5, <1>6, <2>1, <2>3 DEF ManagersIInv, ViewOK, OwnNodesOnly
  <2>5. ShownOK'
    BY <1>1, <1>2, <1>6, <2>1 DEF ShownOK, Renewed, Lists
  <2> QED
    BY <1>1, <1>2, <2>1, <2>4, <2>5 DEF ManagersIInv, HubOK
\* What the page showed and what was under way stay, but for the report.
<1>7. ASSUME Renewed, UNCHANGED requests, r.from # adapter \/ r.type \notin {"all_nodes_report", "thing_report"}
      PROVE  Renewed'
  <2>1. CASE Command(adapter, "get_all_nodes") \in DOMAIN requests
    BY <1>1, <1>7, <2>1 DEF Renewed, Command
  <2>2. ASSUME NEW i \in 1 .. Len(reports), reports[i].from = adapter,
               reports[i].type \in {"all_nodes_report", "thing_report"}
        PROVE  Renewed'
    <3>1. i # 1
      BY <1>3, <1>7, <2>2
    <3>2. i - 1 \in 1 .. Len(reports') /\ reports'[i - 1] = reports[i]
      BY <1>2, <1>3, <3>1
    <3> QED
      BY <1>1, <2>2, <3>2 DEF Renewed
  <2> QED
    BY <1>7, <2>1, <2>2 DEF Renewed
<1>8. ASSUME UNCHANGED <<cache, requests>>, shown' = shown \/ shown' \subseteq Nodes, ShownOK',
             fresh' => fresh,
             (fresh' \/ (screen = "thing" /\ shown' # NoList)) => shown' \subseteq NodesOf(adapter),
             screen = "none" => UNCHANGED shown
      PROVE  ManagersIInv'
  <2>1. ViewOK'
    BY <1>1, <1>5, <1>8 DEF ManagersIInv, ViewOK, OwnNodesOnly
  <2> QED
    BY <1>1, <1>2, <1>8, <2>1 DEF ManagersIInv, HubOK
<1>9. ASSUME UNCHANGED <<shown, subscribed, cache, requests, fresh>>,
             \/ r.from # adapter \/ r.type \notin {"all_nodes_report", "thing_report"}
             \/ screen \in {"none", "thing"} \/ ~subscribed
      PROVE  ManagersIInv'
  <2>1. ShownOK'
    BY <1>1, <1>7, <1>9 DEF ManagersIInv, ShownOK, ViewOK
  <2>2. (fresh' \/ (screen = "thing" /\ shown' # NoList)) => shown' \subseteq NodesOf(adapter)
    BY <1>1, <1>9 DEF ManagersIInv, ViewOK, OwnNodesOnly
  <2> QED
    BY <1>8, <1>9, <2>1, <2>2
<1>10. ASSUME screen = "zwave", r.from = adapter, OnNetPing(r)
       PROVE  ManagersIInv'
  <2>1. r.type = "net_ping_report" /\ UNCHANGED <<cache, requests, fresh>>
    BY <1>10 DEF OnNetPing
  <2>2. \/ UNCHANGED shown /\ ~subscribed'
        \/ shown # NoList /\ \/ shown' = shown \cup r.nodes /\ UNCHANGED subscribed
                             \/ ~subscribed' /\ \E n \in r.nodes : shown' = shown \cup {n}
    BY <1>10 DEF OnNetPing
  <2>3. shown' = shown \/ (shown # NoList /\ shown' \subseteq shown \cup r.nodes)
    BY <2>2
  <2>4. shown' = shown \/ shown' \subseteq Nodes
    BY <1>4, <2>3 DEF ManagersIInv, ViewOK
  <2>5. fresh' => shown' \subseteq NodesOf(adapter)
    BY <1>4, <1>10, <2>1, <2>3 DEF ManagersIInv, ViewOK, OwnNodesOnly
  <2>6. ShownOK'
    <3>1. CASE ~subscribed' \/ ~fresh
      BY <2>1, <3>1 DEF ShownOK
    <3>2. CASE shown' = shown \cup r.nodes /\ UNCHANGED subscribed /\ subscribed /\ fresh
      <4>1. CASE Renewed
        BY <1>7, <2>1, <4>1 DEF ShownOK
      <4>2. CASE ~Renewed
        <5>1. shown = network[adapter]
          BY <1>10, <3>2, <4>2 DEF ManagersIInv, ShownOK
        <5>2. CASE r.nodes = network[adapter]
          BY <1>1, <3>2, <5>1, <5>2 DEF ShownOK
        <5>3. CASE r.nodes # network[adapter]
          BY <1>1, <1>2, <1>10, <2>1, <5>3 DEF ShownOK, Renewed, Lists
        <5> QED
          BY <5>2, <5>3
      <4> QED
        BY <4>1, <4>2
    <3>3. CASE UNCHANGED subscribed /\ subscribed /\ fresh
      BY <2>2, <3>2, <3>3
    <3> QED
      BY <2>2, <3>1, <3>2
  <2> QED
    BY <1>8, <1>10, <2>1, <2>4, <2>5, <2>6
<1>11. ASSUME screen \in {"zwave", "zigbee", "generic"}, r.from = adapter, OnThingReport(r)
       PROVE  ManagersIInv'
  <2>1. r.type = "thing_report" /\ UNCHANGED <<shown, subscribed, cache>>
    BY <1>11 DEF OnThingReport
  <2>2. CASE requests' = requests /\ ~fresh'
    <3>1. ShownOK' /\ (screen = "thing" => FALSE)
      BY <1>11, <2>2 DEF ShownOK
    <3> QED
      BY <1>8, <2>1, <2>2, <3>1
  <2>3. CASE ReloadNodes /\ UNCHANGED fresh
    <3> DEFINE c == Command(adapter, "get_all_nodes")
    <3>1. requests' = requests (+) SetToBag({c})
      BY <2>3 DEF ReloadNodes, Publish
    <3>2. DOMAIN requests' = DOMAIN requests \cup {c} /\ \A d \in DOMAIN requests' : requests'[d] \in Nat \ {0}
      BY <3>1, Added DEF ManagersIInv
    <3>3. CommandOK(c)
      BY <1>4, <1>11 DEF CommandOK, Command
    <3> HIDE DEF c
    <3>4. HubOK'
      BY <1>1, <1>2, <3>2, <3>3 DEF ManagersIInv, HubOK
    <3>5. ShownOK'
      BY <1>1, <3>2 DEF ShownOK, Renewed, c
    <3>6. ViewOK'
      BY <1>1, <1>5, <1>11, <2>1, <2>3 DEF ManagersIInv, ViewOK, OwnNodesOnly
    <3> QED
      BY <1>2, <3>4, <3>5, <3>6 DEF ManagersIInv
  <2> QED
    BY <1>11, <2>2, <2>3 DEF OnThingReport
<1>12. CASE ZwaveTakes(r)
  <2>1. screen = "zwave" /\ r.from = adapter
    BY <1>12 DEF ZwaveTakes, Heard
  <2>2. CASE OnFullReport(r) \/ (r.type = "ping_report" /\ Ignored)
    <3>1. r.type \in {"full_report", "ping_report"} /\ UNCHANGED <<shown, subscribed, cache, requests, fresh>>
      BY <2>2 DEF OnFullReport, Ignored
    <3> QED
      BY <1>9, <3>1
  <2> QED
    BY <1>6, <1>10, <1>11, <1>12, <2>1, <2>2 DEF ZwaveTakes
<1>13. CASE ZigbeeTakes(r) \/ GenericTakes(r)
  <2>1. screen \in {"zigbee", "generic"} /\ r.from = adapter
    BY <1>13 DEF ZigbeeTakes, GenericTakes, Heard
  <2>2. CASE r.type \in {"net_ping_report", "full_report", "ping_report"} /\ Ignored
    <3>1. UNCHANGED <<shown, subscribed, cache, requests, fresh>>
      BY <2>2 DEF Ignored
    <3> QED
      BY <1>9, <2>2, <3>1
  <2> QED
    BY <1>6, <1>11, <1>13, <2>1, <2>2 DEF ZigbeeTakes, GenericTakes
<1>14. CASE ThingTakes(r)
  <2>1. /\ screen = "thing" /\ r.from = adapter /\ shown' \in {shown, r.nodes}
        /\ UNCHANGED <<subscribed, cache, requests, fresh>>
    BY <1>14 DEF ThingTakes, Heard
  <2>2. ~fresh
    BY <2>1 DEF ManagersIInv, ViewOK
  <2>3. ShownOK' /\ (screen = "none" => FALSE)
    BY <2>1, <2>2 DEF ShownOK
  <2>4. screen = "thing" /\ shown' # NoList => shown' \subseteq NodesOf(adapter)
    BY <1>4, <2>1 DEF ManagersIInv, ViewOK, OwnNodesOnly
  <2> QED
    BY <1>4, <1>8, <2>1, <2>2, <2>3, <2>4
<1>15. CASE ~Heard(r) /\ Ignored
  <2>1. UNCHANGED <<shown, subscribed, cache, requests, fresh>> /\ (screen = "none" \/ ~subscribed \/ r.from # adapter)
    BY <1>15 DEF Heard, Ignored
  <2> QED
    BY <1>9, <2>1
<1> QED
  BY <1>1, <1>12, <1>13, <1>14, <1>15

-----------------------------------------------------------------------------
\* The user's actions that leave the screen and the dialog as they are.
LEMMA SilentUser ==
    ASSUME ManagersIInv,
           \/ SyncThing \/ PingNetwork \/ ResetNetwork \/ Custom \/ NetworkCommand
           \/ RequestAllInclusionReports \/ RequestImaStats
           \/ \E d \in Nodes : RemoveDevice(d) \/ GenerateExclusionReport(d)
    PROVE  ManagersIInv'
<1>1. UNCHANGED <<Screen, dialog, reports, network>>
  BY DEF SyncThing, PingNetwork, ResetNetwork, Custom, NetworkCommand, RequestAllInclusionReports,
         RequestImaStats, RemoveDevice, GenerateExclusionReport, Silently, store, hub, Screen
<1>2. SUFFICES Sent
  BY <1>1, SilentKept
<1>3. CASE SyncThing
  <2>1. PICK d \in shown : Publish([to |-> d[1], cmd |-> "get_inclusion_report", address |-> d[2]])
    BY <1>3 DEF SyncThing, GetReport
  <2>2. d \in Nodes
    BY <1>3 DEF SyncThing, ManagersIInv, ViewOK
  <2> QED
    BY <1>1, <2>1, <2>2, Commanded DEF Nodes, CommandOK
<1>4. CASE PingNetwork \/ ResetNetwork \/ Custom \/ NetworkCommand \/ RequestImaStats
  <2>1. /\ screen \in {"zwave", "zigbee"}
        /\ \E cmd \in {"net_ping", "reset", "other", "get_full_report"} : Publish(Command(adapter, cmd))
    BY <1>4 DEF PingNetwork, ResetNetwork, Custom, NetworkCommand, RequestImaStats
  <2>2. adapter \in Adapters
    BY <2>1 DEF ManagersIInv, ViewOK, Adapters
  <2> QED
    BY <1>1, <2>1, <2>2, Commanded DEF Command, CommandOK
<1>5. CASE RequestAllInclusionReports
  <2>1. PICK S : S = {[to |-> adapter, cmd |-> "get_inclusion_report", address |-> d[2]] : d \in shown}
    OBVIOUS
  <2>2. screen = "zwave" /\ requests' = IF shown = NoList THEN requests ELSE requests (+) SetToBag(S)
    BY <1>5, <2>1 DEF RequestAllInclusionReports
  <2>3. ASSUME shown # NoList
        PROVE  \A c \in S : CommandOK(c)
    <3>1. adapter \in Adapters /\ shown \subseteq Nodes
      BY <2>2, <2>3 DEF ManagersIInv, ViewOK, Adapters
    <3> QED
      BY <2>1, <3>1 DEF CommandOK, Nodes
  <2> QED
    BY <1>1, <2>2, <2>3 DEF Sent
<1>6. ASSUME NEW d \in Nodes, RemoveDevice(d) \/ GenerateExclusionReport(d)
      PROVE  Sent
  <2>1. /\ adapter # NoList
        /\ \E cmd \in {"delete", "exclusion_report"} : Publish([to |-> adapter, cmd |-> cmd, address |-> d[2]])
    BY <1>6 DEF RemoveDevice, GenerateExclusionReport, Send
  <2>2. adapter \in Adapters
    BY <2>1 DEF ManagersIInv, ViewOK
  <2> QED
    BY <1>1, <2>1, <2>2, Commanded DEF CommandOK
<1> QED
  BY <1>3, <1>4, <1>5, <1>6

\* Those that open, use or leave a dialog.
LEMMA DialogUser ==
    ASSUME ManagersIInv,
           \/ AddDevice \/ RemoveByExclusion \/ StartInclusion \/ StopDialog \/ PingAgain
           \/ ClearPingResults \/ Dismiss
           \/ \E d \in Nodes : RunCommand(d)
    PROVE  ManagersIInv'
<1>1. UNCHANGED <<Screen, reports, network>>
  BY DEF AddDevice, RemoveByExclusion, StartInclusion, StopDialog, PingAgain, ClearPingResults,
         Dismiss, RunCommand, DeleteFailedDevice, ReplaceDevice, PingDevice, OpenDialog,
         InDialog, store, hub, Screen
<1>2. dialog \in Dialogs /\ dialog.told \subseteq NodesOf(adapter)
  BY DEF ManagersIInv, ViewOK, OwnNodesOnly
<1>3. ASSUME dialog # NoDialog \/ (screen # "none" /\ adapter # NoList),
             \/ dialog' = dialog \/ dialog' = [dialog EXCEPT !.told = {}]
             \/ \E op \in {"none", "inclusion", "exclusion", "ping"} : dialog' = Dialog(op),
             UNCHANGED requests
               \/ \E c : Publish(c) /\ (adapter \in Adapters => CommandOK(c))
      PROVE  ManagersIInv'
  <2>1. screen # "none" /\ adapter \in Adapters
    BY <1>3 DEF ManagersIInv, ViewOK
  <2>2. Sent
    BY <1>1, <1>3, <2>1, Commanded DEF Sent
  <2>3. dialog' \in Dialogs /\ dialog'.told \subseteq NodesOf(adapter)
    BY <1>2, <1>3 DEF Dialog, Dialogs
  <2> QED
    BY <1>1, <2>1, <2>2, <2>3, DialogKept
<1>4. ASSUME NEW op, dialog.op = op, op # "none"
      PROVE  dialog # NoDialog
  BY <1>4 DEF NoDialog, Dialog
<1>5. ASSUME NEW cmd \in {"other", "get_all_nodes", "delete"}, adapter \in Adapters
      PROVE  CommandOK(Command(adapter, cmd))
  BY <1>5 DEF CommandOK, Command
<1>6. CASE AddDevice
  <2>1. screen # "none" /\ adapter # NoList /\ dialog' = Dialog("inclusion") /\ UNCHANGED requests
    BY <1>6 DEF AddDevice, OpenDialog
  <2> QED
    BY <1>3, <2>1
<1>7. CASE RemoveByExclusion
  <2>1. screen = "zwave" /\ dialog' = Dialog("exclusion") /\ Publish(Command(adapter, "other"))
    BY <1>7 DEF RemoveByExclusion, OpenDialog
  <2>2. adapter # NoList
    BY <2>1, NoAdapterIsNoList DEF ManagersIInv, ViewOK, Adapters
  <2> QED
    BY <1>3, <1>5, <2>1, <2>2
<1>8. CASE StartInclusion \/ StopDialog
  <2>1. /\ dialog.op \in {"inclusion", "exclusion"} /\ Publish(Command(adapter, "other"))
        /\ dialog' = dialog \/ dialog' = Dialog("inclusion") \/ dialog' = Dialog("none")
    BY <1>8 DEF StartInclusion, StopDialog, NoDialog
  <2> QED
    BY <1>3, <1>4, <1>5, <2>1
<1>9. CASE ClearPingResults \/ Dismiss
  <2>1. /\ UNCHANGED requests /\ (dialog.op = "ping" \/ dialog # NoDialog)
        /\ dialog' = [dialog EXCEPT !.told = {}] \/ dialog' = Dialog("none")
    BY <1>9 DEF ClearPingResults, Dismiss, NoDialog
  <2> QED
    BY <1>3, <1>4, <1>9, <2>1 DEF ClearPingResults, Dismiss
<1>10. CASE PingAgain
  <2>1. /\ dialog.op = "ping" /\ UNCHANGED dialog
        /\ Publish([to |-> adapter, cmd |-> IF dialog.address = NoList THEN "other" ELSE "ping",
                      address |-> dialog.address])
    BY <1>10 DEF PingAgain
  <2>2. PICK c : c = [to |-> adapter, cmd |-> IF dialog.address = NoList THEN "other" ELSE "ping",
                      address |-> dialog.address]
    OBVIOUS
  <2>3. dialog.address \in Addresses \cup {NoList}
    BY <1>2 DEF Dialogs
  <2>4. adapter \in Adapters => CommandOK(c)
    BY <2>2, <2>3 DEF CommandOK
  <2>5. Publish(c)
    BY <2>1, <2>2
  <2> QED
    BY <1>3, <1>4, <2>1, <2>4, <2>5
<1>11. ASSUME NEW d \in Nodes, RunCommand(d)
       PROVE  ManagersIInv'
  <2>1. screen = "zwave" /\ \E op \in {"exclusion", "ping"} : dialog' = Dialog(op)
    BY <1>11 DEF RunCommand, DeleteFailedDevice, ReplaceDevice, PingDevice, OpenDialog
  <2>2. PICK cmd \in {"delete", "replace", "ping"} :
           adapter # NoList /\ Publish([to |-> adapter, cmd |-> cmd, address |-> d[2]])
    BY <1>11 DEF RunCommand, DeleteFailedDevice, ReplaceDevice, PingDevice, Send
  <2>3. adapter \in Adapters => CommandOK([to |-> adapter, cmd |-> cmd, address |-> d[2]])
    BY DEF CommandOK, Nodes
  <2> QED
    BY <1>3, <2>1, <2>2, <2>3
<1> QED
  BY <1>6, <1>7, <1>8, <1>9, <1>10, <1>11

\* Those that open or leave a page, or ask for its list.
LEMMA PageUser ==
    ASSUME ManagersIInv,
           \/ \E p \in Pages : dialog = NoDialog /\ Open(p)
           \/ \E d \in Nodes : OpenThing(d)
           \/ CloseManager \/ Reload \/ (dialog = NoDialog /\ \E a \in Adapters : OnAdapterSelected(a))
    PROVE  ManagersIInv'
<1> USE DEF store, hub
<1>1. NoDialog \in Dialogs /\ NoDialog.told = {}
  BY DEF NoDialog, Dialog, Dialogs
<1>2. ASSUME NEW p \in Pages, Open(p), dialog = NoDialog
      PROVE  ManagersIInv'
  <2>1. /\ screen = "none" /\ screen' = p /\ p \in {"zwave", "zigbee", "generic"}
        /\ adapter' = AdapterOf(p) /\ ~fresh' /\ UNCHANGED <<dialog, cache, selectedAdapter, reports, network>>
    BY <1>2, ManagersAssumption DEF Open
  <2> DEFINE key == IF p = "zwave" THEN "zwave" ELSE adapter'
  <2>2. IF key = NoList THEN shown' = NoList /\ UNCHANGED requests
        ELSE /\ shown' = cache[key]
             /\ IF cache[key] = NoList THEN Publish(Command(adapter', "get_all_nodes")) ELSE UNCHANGED requests
    BY <1>2 DEF Open
  <2>3. /\ adapter' \in Adapters \cup {NoList} /\ (p = "zwave" => adapter' = "zwave-ad")
        /\ (p = "zigbee" => adapter' = "zigbee")
    BY <2>1 DEF AdapterOf, ManagersIInv, ViewOK, Adapters
  <2>4. key # NoList => key \in Keys /\ adapter' \in Adapters
    BY <2>3 DEF Keys, Adapters
  <2> HIDE DEF key
  <2>5. shown' # NoList => shown' \subseteq Nodes
    BY <2>2, <2>4 DEF ManagersIInv, ViewOK
  <2>6. Sent
    <3>1. key # NoList => CommandOK(Command(adapter', "get_all_nodes"))
      BY <2>4 DEF CommandOK, Command
    <3>2. PICK c : c = Command(adapter', "get_all_nodes")
      OBVIOUS
    <3> QED
      BY <2>1, <2>2, <3>1, <3>2, Commanded DEF Sent
  <2>7. ViewOK'
    BY <1>1, <1>2, <2>1, <2>3, <2>5 DEF ManagersIInv, ViewOK, OwnNodesOnly
  <2> QED
    BY <2>1, <2>6, <2>7, ScreenKept
<1>3. ASSUME NEW d \in Nodes, OpenThing(d)
      PROVE  ManagersIInv'
  <2>1. /\ screen = "none" /\ screen' = "thing" /\ adapter' = d[1]
        /\ Publish([to |-> d[1], cmd |-> "get_inclusion_report", address |-> d[2]])
        /\ UNCHANGED <<dialog, shown, fresh, cache, selectedAdapter, reports, network>>
    BY <1>3 DEF OpenThing, GetReport
  <2>2. d[1] \in Adapters /\ d[2] \in Addresses
    BY DEF Nodes
  <2>3. Sent
    BY <2>1, <2>2, Commanded DEF CommandOK
  <2>4. ~fresh' /\ shown' = NoList /\ dialog' = NoDialog
    BY <2>1 DEF ManagersIInv, ViewOK
  <2>5. ViewOK'
    BY <1>1, <2>1, <2>2, <2>4 DEF ManagersIInv, ViewOK, OwnNodesOnly
  <2> QED
    BY <2>3, <2>4, <2>5, ScreenKept
<1>4. CASE CloseManager
  <2>1. /\ screen' = "none" /\ dialog' = NoDialog /\ adapter' = NoList /\ shown' = NoList /\ ~fresh'
        /\ UNCHANGED <<cache, selectedAdapter, requests, reports, network>>
    BY <1>4 DEF CloseManager
  <2>2. ViewOK' /\ Sent
    BY <1>1, <2>1 DEF ManagersIInv, ViewOK, OwnNodesOnly, Sent
  <2> QED
    BY <2>1, <2>2, ScreenKept
<1>5. CASE Reload
  <2>1. /\ adapter # NoList /\ ~fresh' /\ Publish(Command(adapter, "get_all_nodes"))
        /\ UNCHANGED <<screen, dialog, adapter, shown, cache, selectedAdapter, reports, network>>
    BY <1>5 DEF Reload, ReloadNodes
  <2>2. adapter \in Adapters
    BY <2>1 DEF ManagersIInv, ViewOK
  <2>3. Sent
    BY <2>1, <2>2, Commanded DEF CommandOK, Command
  <2>4. ViewOK'
    BY <2>1 DEF ManagersIInv, ViewOK, OwnNodesOnly
  <2> QED
    BY <2>1, <2>3, <2>4, ScreenKept
<1>6. ASSUME NEW a \in Adapters, OnAdapterSelected(a), dialog = NoDialog
      PROVE  ManagersIInv'
  <2>1. /\ screen = "generic" /\ adapter' = a /\ selectedAdapter' = a /\ ~fresh'
        /\ Publish(Command(a, "get_all_nodes"))
        /\ UNCHANGED <<screen, dialog, shown, cache, reports, network>>
    BY <1>6 DEF OnAdapterSelected
  <2>2. Sent
    BY <2>1, Commanded DEF CommandOK, Command
  <2>3. ViewOK'
    BY <1>1, <1>6, <2>1 DEF ManagersIInv, ViewOK, OwnNodesOnly
  <2> QED
    BY <2>1, <2>2, <2>3, ScreenKept
<1> QED
  BY <1>2, <1>3, <1>4, <1>5, <1>6

LEMMA ManagersStep ==
    ASSUME ManagersIInv, [ManagersNext]_managersVars
    PROVE  ManagersIInv'
<1>1. CASE UNCHANGED managersVars
  <2>1. UNCHANGED <<Screen, dialog, requests, reports, network>>
    BY <1>1 DEF managersVars, store, hub, Screen
  <2> QED
    BY <2>1, SilentKept DEF Sent
<1>2. CASE User
  BY <1>2, SilentUser, DialogUser, PageUser DEF User, OnPage, Nodes
<1>3. CASE \E c \in BagToSet(requests) : Answer(c)
  BY <1>3, AnswerKept DEF BagToSet
<1> QED
  BY <1>1, <1>2, <1>3, DialogUser, PageUser, ReceiveKept, LoseKept, NetworkChangeKept DEF ManagersNext

LEMMA ManagersStart ==
    ASSUME ManagersInit
    PROVE  ManagersIInv
<1>1. /\ screen = "none" /\ dialog = NoDialog /\ adapter = NoList /\ shown = NoList /\ ~fresh
      /\ cache = [k \in Keys |-> NoList] /\ selectedAdapter = NoList
      /\ requests = EmptyBag /\ reports = <<>>
      /\ network \in [Adapters -> SUBSET (Adapters \X Addresses)]
      /\ \A a \in Adapters : network[a] \subseteq NodesOf(a)
  BY DEF ManagersInit
<1>2. DOMAIN requests = {}
  BY <1>1 DEF EmptyBag, SetToBag
<1>3. HubOK /\ ReportsCurrent
  BY <1>1, <1>2 DEF HubOK, ReportsCurrent, Nodes
<1>4. NoDialog \in Dialogs /\ NoDialog.told = {}
  BY DEF NoDialog, Dialog, Dialogs
<1>5. OwnNodesOnly
  BY <1>1, <1>4 DEF OwnNodesOnly
<1>6. cache \in [Keys -> (SUBSET Nodes) \cup {NoList}]
  BY <1>1
<1>7. ViewOK /\ ShownOK
  BY <1>1, <1>4, <1>5, <1>6 DEF ViewOK, ShownOK
<1> QED
  BY <1>3, <1>7 DEF ManagersIInv

LEMMA ManagersInvariant == ManagersSpec => []ManagersIInv
<1>1. ManagersInit => ManagersIInv
  BY ManagersStart
<1>2. ManagersIInv /\ [ManagersNext]_managersVars => ManagersIInv'
  BY ManagersStep
<1> QED
  BY <1>1, <1>2, PTL DEF ManagersSpec

(* A list that became old while it was on its way has the change reported     *)
(* behind it, and that report makes the page ask again: with nothing under    *)
(* way, what the page shows is what its adapter has.                          *)
THEOREM ManagersAreCurrent == ManagersSpec => []CurrentAtRest
<1>1. ManagersIInv => CurrentAtRest
  <2> SUFFICES ASSUME ManagersIInv, screen # "none", subscribed, fresh, reports = <<>>, requests = EmptyBag
               PROVE  shown = network[adapter]
    BY DEF CurrentAtRest
  <2>1. DOMAIN requests = {} /\ Len(reports) = 0
    BY DEF EmptyBag, SetToBag
  <2> QED
    BY <2>1 DEF ManagersIInv, ShownOK, Renewed
<1> QED
  BY <1>1, ManagersInvariant, PTL

(* Commands and reports carry the adapter they are to or from, and a page     *)
(* that changes its adapter forgets that its list was fresh: no list, cache   *)
(* or dialog ever takes in a node of another adapter.                         *)
THEOREM AdaptersAreKeptApart == ManagersSpec => []OwnNodesOnly
<1>1. ManagersIInv => OwnNodesOnly
  BY DEF ManagersIInv, ViewOK, OwnNodesOnly
<1> QED
  BY <1>1, ManagersInvariant, PTL
=============================================================================
