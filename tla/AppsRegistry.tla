---------------------------- MODULE AppsRegistry ----------------------------
(* The list of applications in the browser (apps-registry.service.ts) and the *)
(* two pages that use it: the manager (apps-man) and the configuration of one *)
(* application (app-config). The list is put together from the version report *)
(* of fhbutler, an HTTP answer about the playgrounds, and discovery reports;  *)
(* it is kept in the local storage. A page holds a reference to the array of  *)
(* the service, which every version report replaces: an array is its          *)
(* generation number. An application is its package name and has one service. *)
EXTENDS Naturals, Sequences, SequencesExt, FiniteSets

CONSTANTS Apps,           \* package names
          Core,           \* those that are always installed
          Odd,            \* those whose package name does not contain the service's name
          NotStored,      \* nothing in the local storage
          MaxGenerations, MaxTimers, MaxRecords    \* bounds of the exploration

ASSUME AppsAssumption == IsFiniteSet(Apps) /\ Core \subseteq Apps /\ Core # {} /\ Odd \subseteq Apps

VARIABLES apps, generation,     \* the array of records
          stored,               \* "appsRegistry" in the local storage
          registryState,        \* last value of registryStateSource, given to new subscribers
          http, timers,         \* playground requests and timers of five seconds under way
          unsaved,              \* a report came too late for the last timer, or a request failed
          installed,            \* what fhbutler reports
          page,                 \* "none", "man" or "config"
          listed,               \* manager: generation of the array shown, 0 for its own empty one
          app,                  \* configuration: "undefined", "null" or the name of its record
          listening, following, \* configuration: globalSub and registrySub are alive
          manifest,             \* configuration: the manifest was reported
          openedLoaded          \* configuration: it was opened when the application was in the list

list == <<apps, generation, stored, registryState, http, timers, unsaved>>
config == <<app, listening, following, manifest, openedLoaded>>
view == <<page, listed, config>>
vars == <<list, installed, view>>

configApp == CHOOSE a \in Core : TRUE   \* the application that is configured
AppRecord(a, isDiscoverable) == [name |-> a, isDiscoverable |-> isDiscoverable]
Named(records, a) == \E i \in DOMAIN records : records[i].name = a

Init == /\ apps = <<>> /\ generation = 1 /\ stored = NotStored /\ registryState = ""
        /\ http = 0 /\ timers = 0 /\ unsaved = FALSE /\ installed = Core
        /\ page = "none" /\ listed = 0 /\ app = "undefined" /\ openedLoaded = FALSE
        /\ listening = FALSE /\ following = FALSE /\ manifest = FALSE

\* Fault: the configuration page ends its subscription.
NotifyWithoutFollowing(records, gen) ==
  /\ registryState' = "allLoaded"
  /\ listed' = IF page = "man" THEN gen ELSE listed
  /\ following' = FALSE
  /\ UNCHANGED <<page, app, listening, manifest, openedLoaded>>

(* "allLoaded" reaches the page that is open: the manager takes the array,    *)
(* the configuration looks its application up, and throws if it is not there. *)
Notify(records, gen) ==
  /\ registryState' = "allLoaded"
  /\ listed' = IF page = "man" THEN gen ELSE listed
  /\ IF page = "config" /\ following
     THEN /\ following' = Named(records, configApp)
          /\ app' = IF following' THEN configApp ELSE "null"
     ELSE UNCHANGED <<following, app>>
  /\ UNCHANGED <<page, listening, manifest, openedLoaded>>

SaveToLocalStorage == stored' = apps /\ unsaved' = FALSE

(* A report of fhbutler, in answer to whoever asked: a new array, and the     *)
(* playgrounds are asked about it.                                            *)
OnVersionReport ==
  /\ generation < MaxGenerations /\ generation' = generation + 1 /\ http' = http + 1
  /\ apps' = LET names == SetToSeq(installed) IN [i \in DOMAIN names |-> AppRecord(names[i], FALSE)]
  /\ UNCHANGED <<stored, registryState, timers, unsaved, installed, view>>

\* The playgrounds complete the records; everything is saved and discovered again.
OnPlaygrounds ==
  /\ http > 0 /\ http' = http - 1 /\ timers < MaxTimers
  /\ SaveToLocalStorage /\ timers' = timers + 1
  /\ Notify(apps, generation)
  /\ UNCHANGED <<apps, generation, installed>>

PlaygroundsFail == /\ http > 0 /\ http' = http - 1 /\ unsaved' = TRUE
                   /\ UNCHANGED <<apps, generation, stored, registryState, timers, installed, view>>

\* Fault: what was discovered is not saved.
CompleteWithoutSave == unsaved' = FALSE /\ UNCHANGED stored /\ Notify(apps, generation)

CompleteResourceDiscovery == SaveToLocalStorage /\ Notify(apps, generation)

TimerFires == /\ timers > 0 /\ timers' = timers - 1 /\ CompleteResourceDiscovery
              /\ UNCHANGED <<apps, generation, http, installed>>

DiscoverLocalApps == /\ page = "man" /\ timers < MaxTimers /\ timers' = timers + 1
                     /\ UNCHANGED <<apps, generation, stored, registryState, http, unsaved, installed, view>>

\* Fault: a record that was discovered before is not found again.
UndiscoveredMatch(a) == {i \in DOMAIN apps : apps[i] = AppRecord(a, FALSE) /\ a \notin Odd}

\* getAppByNameMatch: the record whose package name contains the name of the service.
Match(a) == {i \in DOMAIN apps : apps[i].name = a /\ a \notin Odd}

OnDiscoveryReport(a) ==
  /\ IF Match(a) # {}
     THEN apps' = [apps EXCEPT ![CHOOSE i \in Match(a) : TRUE].isDiscoverable = TRUE]
     ELSE Len(apps) < MaxRecords /\ apps' = Append(apps, AppRecord(a, TRUE))
  /\ unsaved' = (unsaved \/ (timers = 0 /\ apps' # apps))
  /\ UNCHANGED <<generation, stored, registryState, http, timers, installed, view>>

\* controlApp or another client: fhbutler installs or removes, and reports an installation.
Control(a, op) ==
  /\ a \notin Core
  /\ \/ /\ op = "install" /\ installed' = installed \cup {a}
        /\ CompleteResourceDiscovery
     \/ /\ op = "uninstall" /\ installed' = installed \ {a}
        /\ UNCHANGED <<stored, unsaved, registryState, view>>
  /\ UNCHANGED <<apps, generation, http, timers>>

(* The manager: opened on the array if there was ever one, emptied when the   *)
(* list is asked for.                                                         *)
OpenMan == /\ page = "none" /\ page' = "man"
           /\ listed' = IF registryState = "allLoaded" THEN generation ELSE 0
           /\ UNCHANGED <<list, installed, config>>

RequestInstalledApps == /\ page = "man" /\ listed' = 0
                        /\ UNCHANGED <<list, installed, page, config>>

(* The configuration of one application. *)
OpenConfig ==
  /\ page = "none" /\ page' = "config" /\ listening' = TRUE /\ manifest' = FALSE
  /\ openedLoaded' = (registryState = "allLoaded" /\ Named(apps, configApp))
  /\ following' = (registryState = "" \/ Named(apps, configApp))
  /\ app' = CASE registryState = "" -> "undefined" [] openedLoaded' -> configApp [] OTHER -> "null"
  /\ UNCHANGED <<list, installed, listed>>

\* The first message of any service but fhbutler kills a page without its application.
AnyMessage == /\ page = "config" /\ listening /\ app \in {"undefined", "null"}
              /\ listening' = FALSE
              /\ UNCHANGED <<list, installed, page, listed, app, following, manifest, openedLoaded>>

OnManifestReport == /\ page = "config" /\ listening /\ app = configApp
                    /\ manifest' = TRUE
                    /\ UNCHANGED <<list, installed, page, listed, app, listening, following, openedLoaded>>

\* config_action_report and error_report write into the manifest.
OnActionReport == /\ page = "config" /\ listening /\ app = configApp
                  /\ listening' = manifest
                  /\ UNCHANGED <<list, installed, page, listed, app, following, manifest, openedLoaded>>

Close == /\ page # "none" /\ page' = "none" /\ listed' = 0 /\ app' = "undefined"
         /\ listening' = FALSE /\ following' = FALSE /\ manifest' = FALSE /\ openedLoaded' = FALSE
         /\ UNCHANGED <<list, installed>>

\* The page is loaded anew: the service is constructed from the local storage, or asks.
ReloadBrowser ==
  /\ IF stored # NotStored THEN apps' = stored /\ registryState' = "allLoaded"
     ELSE apps' = <<>> /\ registryState' = ""
  /\ generation' = 1 /\ http' = 0 /\ timers' = 0 /\ unsaved' = FALSE
  /\ page' = "none" /\ listed' = 0 /\ app' = "undefined"
  /\ listening' = FALSE /\ following' = FALSE /\ manifest' = FALSE /\ openedLoaded' = FALSE
  /\ UNCHANGED <<stored, installed>>

Next == \/ OnVersionReport \/ OnPlaygrounds \/ PlaygroundsFail \/ TimerFires \/ DiscoverLocalApps
        \/ OpenMan \/ RequestInstalledApps \/ OpenConfig \/ AnyMessage \/ OnManifestReport
        \/ OnActionReport \/ Close \/ ReloadBrowser
        \/ \E a \in Apps : OnDiscoveryReport(a) \/ \E op \in {"install", "uninstall"} : Control(a, op)

Spec == Init /\ [][Next]_vars

(* An application whose package name contains the name of its service is      *)
(* listed once, also in the local storage, in whatever order the version      *)
(* report, the playgrounds and any number of discoveries come.                *)
Once(records) == \A i, j \in DOMAIN records :
                   (records[i].name = records[j].name /\ records[i].name \notin Odd) => i = j
ListedOnce == Once(apps) /\ (stored # NotStored => Once(stored))

(* When no request or timer is under way, what the next visit will find in    *)
(* the local storage is the list, unless a report came after the five         *)
(* seconds or the playgrounds could not be reached.                           *)
StoredAtRest ==
  (http = 0 /\ timers = 0 /\ ~unsaved /\ stored # NotStored) => stored = apps

(* A configuration page opened from the list keeps its application while      *)
(* fhbutler reports it, through every later report, timer and discovery.      *)
ConfigKeepsApp ==
  (page = "config" /\ openedLoaded) => following /\ app = configApp
=============================================================================
