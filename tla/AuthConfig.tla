------------------------------ MODULE AuthConfig ------------------------------
(***************************************************************************)
(* Users, access mode and configurations of the fimpui server: user/auth.go*)
(* and user/profiles.go, model/config.go, the handlers of main.go that log *)
(* in, sign up and store a configuration, and the command                  *)
(* cmd.config.extended_set of api/control_router.go.                       *)
(*                                                                         *)
(* A browser has one request under way at a time; requests of different    *)
(* browsers and the control router's goroutine interleave.  Memory is lost *)
(* when the process stops; config.json and users.json survive.             *)
(***************************************************************************)
CONSTANTS
    Browsers,    \* each holds one cookie
    Router,      \* the goroutine of AppControlApiRouter
    Names,       \* user names
    Unknown,     \* the name "unknown"
    Passwords,   \* passwords people type
    EmptyPw,     \* the password ""
    Confs,       \* values of user.Configs with a broker address
    NoConf,      \* the zero value of user.Configs
    DefConf,     \* what LoadLocalDefaults fills in
    GlobalConf,  \* the MQTT part of config.json
    FormTypes,   \* modes that people choose on the sign-up form
    RouterTypes, \* modes sent with cmd.config.extended_set
    Nobody,      \* no user, no process, no profile
    Empty        \* a file that cannot be read: truncated by WriteFile and not yet
                 \* filled, or left torn by two writes

ASSUME AuthAssumption ==
    /\ Unknown \in Names
    /\ {DefConf, GlobalConf} \subseteq Confs
    /\ NoConf \notin Confs
    /\ FormTypes \subseteq {"password", "none"}
    /\ RouterTypes \subseteq {"password", "none", "code"}
    /\ Router \notin Browsers
    /\ Nobody \notin Names \cup Browsers \cup {Router}
    /\ Empty \notin {"unknown", "none", "password", "code"}

Procs == Browsers \cup {Router}
AuthType == {"unknown", "none", "password", "code"}
Profile == [password : Passwords \cup {EmptyPw}, configs : Confs \cup {NoConf}]

VARIABLES
    up,         \* "up", "down", or "dead": main returned, config.json unreadable
    authType,   \* Auth.GlobalAuthType
    cfgType,    \* Configs.GlobalAuthType in memory
    cfgFile,    \* the same in config.json, or Empty
    users,      \* ProfilesDB.Users: name -> profile or Nobody
    usersFile,  \* users.json, or Empty
    dbLock,     \* holder of ProfilesDB.dbLock
    cookie,     \* browser -> user name in an authenticated cookie, or Nobody
    pc,         \* process -> where its request is
    req,        \* process -> the request
    snap,       \* process -> the access mode it marshalled in SaveToFile
    dbSnap,     \* the profiles that the holder of dbLock marshalled
    overlap,    \* the last save of config.json began in the middle of another
    onSlice     \* browser -> its *UserProfile still points into Users

files == <<cfgFile, usersFile>>
saving == <<snap, dbSnap, overlap>>
vars == <<up, authType, cfgType, files, users, dbLock, cookie, pc,
          req, saving, onSlice>>

Request == [op : {"none", "signup", "post", "set", "level"},
            name : Names \cup {Nobody}, pw : Passwords \cup {EmptyPw}, same : BOOLEAN,
            type : AuthType, conf : Confs \cup {NoConf}]

Idle == [op |-> "none", name |-> Nobody, pw |-> EmptyPw, same |-> TRUE,
         type |-> "unknown", conf |-> NoConf]

Stage == {"idle", "type", "cfgType", "openCfg", "writeCfg", "match", "upsert",
          "conf", "write", "openDb", "writeDb"}
UserDB == [Names -> Profile \cup {Nobody}]

\* The special values are neither profiles nor lists of profiles.
ASSUME ValueAssumption == Nobody \notin Profile /\ Empty \notin UserDB

TypeOK ==
    /\ up \in {"up", "down", "dead"}
    /\ authType \in AuthType
    /\ cfgType \in AuthType
    /\ cfgFile \in AuthType \cup {Empty}
    /\ users \in UserDB
    /\ usersFile = Empty \/ usersFile \in UserDB
    /\ dbLock \in Procs \cup {Nobody}
    /\ cookie \in [Browsers -> Names \cup {Nobody}]
    /\ pc \in [Procs -> Stage]
    /\ req \in [Procs -> Request]
    /\ \A p \in Procs : /\ pc[p] = "idle" <=> req[p] = Idle
                        /\ pc[p] = "writeDb" <=> dbLock = p
    /\ snap \in [Procs -> AuthType]
    /\ dbSnap \in UserDB
    /\ overlap \in BOOLEAN
    /\ onSlice \in [Browsers -> BOOLEAN]

-----------------------------------------------------------------------------
(* Start and stop of the process.                                          *)

NoUsers == [n \in Names |-> Nobody]
Loaded == IF usersFile = Empty THEN NoUsers ELSE usersFile

\* Fault: LoadLocalDefaults is not called.
NotMigrated(db) == db

\* LoadLocalDefaults gives a configuration to profiles that have none.
Migrated(db) == [n \in Names |-> IF db[n] # Nobody /\ db[n].configs = NoConf
                                 THEN [db[n] EXCEPT !.configs = DefConf]
                                 ELSE db[n]]

\* In mode "unknown", main adds the user "unknown" in memory.
WithUnknown(db, type) ==
    IF type = "unknown" /\ db[Unknown] = Nobody
    THEN [db EXCEPT ![Unknown] = [password |-> EmptyPw, configs |-> GlobalConf]]
    ELSE db

\* A first start: config.json comes from the defaults, there is no users.json.
Init ==
    /\ up = "up"
    /\ authType = "unknown"
    /\ cfgType = "unknown"
    /\ cfgFile = "unknown"
    /\ usersFile = NoUsers
    /\ users = WithUnknown(NoUsers, "unknown")
    /\ dbLock = Nobody
    /\ cookie = [b \in Browsers |-> Nobody]
    /\ pc = [p \in Procs |-> "idle"]
    /\ req = [p \in Procs |-> Idle]
    /\ snap = [p \in Procs |-> "unknown"]
    /\ dbSnap = NoUsers
    /\ overlap = FALSE
    /\ onSlice = [b \in Browsers |-> FALSE]

\* The process stops at any point, in the middle of a write as well.
Stop ==
    /\ up = "up"
    /\ up' = "down"
    /\ dbLock' = Nobody
    /\ pc' = [p \in Procs |-> "idle"]
    /\ req' = [p \in Procs |-> Idle]
    /\ onSlice' = [b \in Browsers |-> FALSE]
    /\ snap' = [p \in Procs |-> "unknown"]
    /\ dbSnap' = NoUsers
    /\ overlap' = FALSE
    /\ users' = NoUsers
    /\ authType' = "unknown"
    /\ cfgType' = "unknown"
    /\ UNCHANGED <<files, cookie>>

\* Fault: main goes on when config.json cannot be read.
StartAnyway ==
    /\ up = "down"
    /\ up' = "up"
    /\ authType' = IF cfgFile = Empty THEN "unknown" ELSE cfgFile
    /\ cfgType' = authType'
    /\ users' = WithUnknown(Migrated(Loaded), authType')
    /\ usersFile' = IF Migrated(Loaded) = Loaded THEN usersFile ELSE Migrated(Loaded)
    /\ UNCHANGED <<cfgFile, dbLock, cookie, pc, req, saving, onSlice>>

\* main: LoadFromFile, LoadUserDB, LoadLocalDefaults, the unknown user.
Start ==
    /\ up = "down"
    /\ IF cfgFile = Empty
       THEN /\ up' = "dead"
            /\ UNCHANGED <<authType, cfgType, users, usersFile>>
       ELSE /\ up' = "up"
            /\ authType' = cfgFile
            /\ cfgType' = cfgFile
            /\ users' = WithUnknown(Migrated(Loaded), cfgFile)
            /\ usersFile' = IF Migrated(Loaded) = Loaded THEN usersFile
                            ELSE Migrated(Loaded)
    /\ UNCHANGED <<cfgFile, dbLock, cookie, pc, req, saving, onSlice>>

\* The process is killed while LoadLocalDefaults saves the migrated profiles.
KilledInMigration ==
    /\ up = "down"
    /\ cfgFile # Empty
    /\ Migrated(Loaded) # Loaded
    /\ usersFile' = Empty
    /\ UNCHANGED <<up, authType, cfgType, cfgFile, users, dbLock, cookie, pc, req, saving, onSlice>>

-----------------------------------------------------------------------------
(* Login and logout.                                                       *)

IsRequestAuthenticated(b) == authType = "none" \/ cookie[b] # Nobody

Authenticate(n, w) ==
    CASE authType = "password" -> users[n] # Nobody /\ users[n].password = w
      [] authType = "code" -> FALSE
      [] OTHER -> TRUE

Login(b, n, w) ==
    /\ up = "up"
    /\ pc[b] = "idle"
    /\ Authenticate(n, w)
    /\ cookie' = [cookie EXCEPT ![b] = n]
    /\ UNCHANGED <<up, authType, cfgType, files, users, dbLock, pc, req,
                   saving, onSlice>>

\* GET /fimp/logout, or the cookie's two hours are over.
Logout(b) ==
    /\ pc[b] = "idle"
    /\ cookie' = [cookie EXCEPT ![b] = Nobody]
    /\ UNCHANGED <<up, authType, cfgType, files, users, dbLock, pc, req,
                   saving, onSlice>>

-----------------------------------------------------------------------------
(* Starting a request.                                                     *)

Begin(p, r, stage) ==
    /\ up = "up"
    /\ pc[p] = "idle"
    /\ req' = [req EXCEPT ![p] = r]
    /\ pc' = [pc EXCEPT ![p] = stage]
    /\ UNCHANGED <<up, authType, cfgType, files, users, dbLock, cookie, saving>>

MaySignUp(b) == IsRequestAuthenticated(b) \/ authType = "unknown"

\* POST /fimp/auth-config; the form offers "password" and "none", and the
\* password typed again is the same or not.
SignUp(b, n, w, same, type) ==
    /\ MaySignUp(b)
    /\ Begin(b, [Idle EXCEPT !.op = "signup", !.name = n, !.pw = w,
                             !.same = same, !.type = type],
             IF type # cfgType THEN "type" ELSE "match")
    /\ UNCHANGED onSlice

\* POST /fimp/api/configs: the handler keeps a pointer into Users.
PosterName(b) == IF authType = "none" /\ cookie[b] = Nobody THEN Unknown
                                                            ELSE cookie[b]

PostConfig(b, k) ==
    /\ IsRequestAuthenticated(b)
    /\ users[PosterName(b)] # Nobody
    /\ Begin(b, [Idle EXCEPT !.op = "post", !.name = PosterName(b), !.conf = k],
             "write")
    /\ onSlice' = [onSlice EXCEPT ![b] = TRUE]

\* cmd.config.extended_set: a user is stored only if both fields are there.
ExtendedSet(n, w, type) ==
    /\ Begin(Router, [Idle EXCEPT !.op = "set", !.name = n, !.pw = w,
                                  !.type = type],
             IF type = "password" /\ n # Nobody /\ w # EmptyPw THEN "upsert"
                                                               ELSE "type")
    /\ UNCHANGED onSlice

\* cmd.log.set_level saves config.json with everything in it.
SetLevel ==
    /\ Begin(Router, [Idle EXCEPT !.op = "level"], "openCfg")
    /\ UNCHANGED onSlice

-----------------------------------------------------------------------------
(* The steps of a request.                                                 *)

Goto(p, stage) == pc' = [pc EXCEPT ![p] = stage]

\* SetGlobalAuthType.  The control router stores only "password" in Configs.
SetType(p) ==
    /\ pc[p] = "type"
    /\ authType' = req[p].type
    /\ Goto(p, IF p = Router /\ req[p].type \in {"none", "code", cfgType}
               THEN "openDb" ELSE "cfgType")
    /\ UNCHANGED <<up, cfgType, files, users, dbLock, cookie, req,
                   saving, onSlice>>

\* Configs.GlobalAuthType = ...
SetConfigType(p) ==
    /\ pc[p] = "cfgType"
    /\ cfgType' = req[p].type
    /\ Goto(p, "openCfg")
    /\ UNCHANGED <<up, authType, files, users, dbLock, cookie, req,
                   saving, onSlice>>

Saving == {p \in Procs : pc[p] = "writeCfg"}

\* SaveToFile marshals, truncates the file, then writes it: without a lock.
OpenConfig(p) ==
    /\ pc[p] = "openCfg"
    /\ snap' = [snap EXCEPT ![p] = cfgType]
    /\ cfgFile' = Empty
    /\ overlap' = (Saving # {})
    /\ Goto(p, "writeCfg")
    /\ UNCHANGED <<up, authType, cfgType, users, usersFile, dbLock, cookie,
                   req, dbSnap, onSlice>>

AfterConfig(p) == CASE req[p].op = "signup" -> "match"
                    [] req[p].op = "set" -> "openDb"
                    [] OTHER -> "idle"

\* Each writes from the start of the file: one that finds the file filled by
\* another, with more than it has itself, leaves the rest of that behind.
WriteConfig(p) ==
    /\ pc[p] = "writeCfg"
    /\ cfgFile' \in IF cfgFile = Empty THEN {snap[p]} ELSE {snap[p], Empty}
    /\ Goto(p, AfterConfig(p))
    /\ req' = IF AfterConfig(p) = "idle" THEN [req EXCEPT ![p] = Idle] ELSE req
    /\ snap' = [snap EXCEPT ![p] = "unknown"]
    /\ UNCHANGED <<up, authType, cfgType, users, usersFile, dbLock, cookie,
                   dbSnap, overlap, onSlice>>

\* The two passwords are compared after the mode has been changed.
Match(b) ==
    /\ pc[b] = "match"
    /\ IF req[b].same
       THEN /\ Goto(b, "upsert")
            /\ UNCHANGED req
       ELSE /\ Goto(b, "idle")
            /\ req' = [req EXCEPT ![b] = Idle]
    /\ UNCHANGED <<up, authType, cfgType, files, users, dbLock, cookie, saving,
                   onSlice>>

\* After the upsert: only a new user gets a configuration.
AfterUpsert(p, isNew) == IF isNew THEN "conf"
                         ELSE IF p = Router THEN "type" ELSE "openDb"

\* UpsertUserProfile.  Appending may move the slice, and then pointers that
\* handlers hold do not reach it any more.
Upsert(p) ==
    LET n == req[p].name
        w == req[p].pw
    IN  /\ pc[p] = "upsert"
        /\ dbLock = Nobody
        /\ IF users[n] = Nobody
           THEN /\ users' = [users EXCEPT ![n] =
                                [password |-> w, configs |-> NoConf]]
                /\ \/ onSlice' = [b \in Browsers |-> FALSE]
                   \/ UNCHANGED onSlice
                /\ Goto(p, AfterUpsert(p, TRUE))
           ELSE /\ users' = [users EXCEPT ![n].password =
                                IF w # EmptyPw THEN w ELSE @]
                /\ UNCHANGED onSlice
                /\ Goto(p, AfterUpsert(p, FALSE))
        /\ UNCHANGED <<up, authType, cfgType, files, dbLock, cookie, req, saving>>

\* UpdateUserConfig for a new user.
UpdateUserConfig(p) ==
    /\ pc[p] = "conf"
    /\ dbLock = Nobody
    /\ users' = [users EXCEPT ![req[p].name].configs = GlobalConf]
    /\ Goto(p, AfterUpsert(p, FALSE))
    /\ UNCHANGED <<up, authType, cfgType, files, dbLock, cookie, req,
                   saving, onSlice>>

\* uprof.Configs = userConf, without the lock.
WriteProfile(b) ==
    /\ pc[b] = "write"
    /\ users' = IF onSlice[b]
                THEN [users EXCEPT ![req[b].name].configs = req[b].conf]
                ELSE users
    /\ onSlice' = [onSlice EXCEPT ![b] = FALSE]
    /\ Goto(b, "openDb")
    /\ UNCHANGED <<up, authType, cfgType, files, dbLock, cookie, req,
                   saving>>

\* Fault: SaveUserDB does not wait for dbLock.
OpenUserDBUnlocked(p) ==
    /\ pc[p] = "openDb"
    /\ dbLock' = p
    /\ dbSnap' = users
    /\ usersFile' = Empty
    /\ Goto(p, "writeDb")
    /\ UNCHANGED <<up, authType, cfgType, cfgFile, users, cookie, req,
                   snap, overlap, onSlice>>

\* SaveUserDB marshals the profiles, truncates the file and writes it, all
\* under dbLock; a handler that writes through its pointer does not take dbLock.
OpenUserDB(p) ==
    /\ pc[p] = "openDb"
    /\ dbLock = Nobody
    /\ dbLock' = p
    /\ dbSnap' = users
    /\ usersFile' = Empty
    /\ Goto(p, "writeDb")
    /\ UNCHANGED <<up, authType, cfgType, cfgFile, users, cookie, req,
                   snap, overlap, onSlice>>

\* Fault: SaveUserDB returns without releasing dbLock.
WriteUserDBKeepsLock(p) ==
    /\ pc[p] = "writeDb"
    /\ usersFile' = dbSnap
    /\ dbSnap' = NoUsers
    /\ Goto(p, "idle")
    /\ req' = [req EXCEPT ![p] = Idle]
    /\ UNCHANGED <<up, authType, cfgType, cfgFile, users, dbLock, cookie, snap, overlap, onSlice>>

WriteUserDB(p) ==
    /\ pc[p] = "writeDb"
    /\ usersFile' = dbSnap
    /\ dbSnap' = NoUsers
    /\ dbLock' = Nobody
    /\ Goto(p, "idle")
    /\ req' = [req EXCEPT ![p] = Idle]
    /\ IF req[p].op = "signup"
       THEN cookie' = [cookie EXCEPT ![p] = req[p].name]
       ELSE UNCHANGED cookie
    /\ UNCHANGED <<up, authType, cfgType, cfgFile, users, snap, overlap, onSlice>>

-----------------------------------------------------------------------------
Browse(b) ==
    \/ \E n \in Names, w \in Passwords : Login(b, n, w)
    \/ Logout(b)
    \/ \E n \in Names, w \in Passwords, same \in BOOLEAN, type \in FormTypes :
          SignUp(b, n, w, same, type)
    \/ \E k \in Confs : PostConfig(b, k)
    \/ Match(b)
    \/ WriteProfile(b)

Control ==
    \/ \E n \in Names \cup {Nobody}, w \in Passwords,
          type \in RouterTypes : ExtendedSet(n, w, type)
    \/ SetLevel

Work(p) ==
    \/ SetType(p)
    \/ SetConfigType(p)
    \/ OpenConfig(p)
    \/ WriteConfig(p)
    \/ Upsert(p)
    \/ UpdateUserConfig(p)
    \/ OpenUserDB(p)
    \/ WriteUserDB(p)

Next ==
    \/ \E b \in Browsers : Browse(b)
    \/ Control
    \/ \E p \in Procs : Work(p)
    \/ Stop
    \/ Start
    \/ KilledInMigration

Spec == Init /\ [][Next]_vars

\* The goroutines of the requests are scheduled; dbLock is a sync.Mutex that
\* does not starve a waiter.
Fairness ==
    /\ \A b \in Browsers : WF_vars(Match(b) \/ WriteProfile(b))
    /\ \A p \in Procs : SF_vars(Work(p))

FairSpec == Spec /\ Fairness

-----------------------------------------------------------------------------
(* Properties.                                                             *)

AllIdle == up = "up" /\ \A p \in Procs : pc[p] = "idle"

\* When no request is under way, a restart would bring back every profile as
\* it is in memory (the user "unknown" is added in memory only): what the
\* handlers changed under different locks, or none, has reached users.json.
IdleIsDurable ==
    AllIdle => \A n \in Names \ {Unknown} : users[n] = Loaded[n]

\* When no request is under way every profile has a broker address, although
\* a new profile is appended without one, other handlers may save it in that
\* state, and the process may be killed before its configuration is stored.
IdleProfilesConfigured ==
    AllIdle => \A n \in Names : users[n] # Nobody => users[n].configs # NoConf

\* config.json cannot be read only while a request is writing it, or when the
\* saves of two requests overlapped: a server whose saves came one after the
\* other could be started again at any moment between them.
ConfigReadable == up = "up" /\ cfgFile = Empty => Saving # {} \/ overlap

\* Every request ends, by its last step or with the process.
RequestEnds == \A p \in Procs : pc[p] # "idle" ~> pc[p] = "idle"

===============================================================================
