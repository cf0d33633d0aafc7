--------------------------- MODULE AuthConfigProofs ---------------------------
(***************************************************************************)
(* Proofs about AuthConfig, for any browsers, names, passwords and         *)
(* configurations.  The two properties of the idle server hold because of  *)
(* the request that is still under way when they do not: IInv names it.    *)
(***************************************************************************)
EXTENDS AuthConfig, TLAPS

\* What a request carries and has checked, by the place where it is.
ReqOK ==
    \A p \in Procs :
        /\ pc[p] \in {"upsert", "conf", "write"} \/ req[p].op = "signup" =>
               req[p].name \in Names
        /\ pc[p] \in {"conf", "write"} => users[req[p].name] # Nobody
        /\ pc[p] = "write" => req[p].conf \in Confs
        /\ pc[p] = "match" => req[p].op = "signup"
        /\ up # "up" => pc[p] = "idle"
        /\ p = Router /\ pc[p] \in {"upsert", "conf"} => req[p].op = "set"

\* A profile without a configuration has a request that will give it one.
Configured ==
    \A n \in Names : users[n] # Nobody /\ users[n].configs = NoConf =>
        \E p \in Procs : pc[p] = "conf" /\ req[p].name = n

\* A request that will save the profiles.
WillSave(p) ==
    \/ pc[p] \in {"conf", "openDb"}
    \/ req[p].op = "set" /\ pc[p] \in {"type", "cfgType", "openCfg", "writeCfg"}

InMemory(db) == \A n \in Names \ {Unknown} : users[n] = db[n]

\* The profiles in memory will be saved, are being saved, or are saved.
Durable ==
    up = "up" =>
        \/ \E p \in Procs : WillSave(p)
        \/ \E p \in Procs : pc[p] = "writeDb" /\ InMemory(dbSnap)
        \/ (\A p \in Procs : pc[p] # "writeDb") /\ InMemory(Loaded)

IInv == TypeOK /\ ReqOK /\ Configured /\ Durable

-----------------------------------------------------------------------------
(* Each action preserves IInv.                                             *)

LEMMA IdleRequest == Idle \in Request
  BY DEF Idle, Request, AuthType

\* What a request carries is a request.
LEMMA BegunRequest ==
    ASSUME NEW op \in {"signup", "post", "set", "level"},
           NEW n \in Names \cup {Nobody}, NEW w \in Passwords \cup {EmptyPw},
           NEW same \in BOOLEAN, NEW type \in AuthType, NEW k \in Confs \cup {NoConf}
    PROVE  LET r == [op |-> op, name |-> n, pw |-> w, same |-> same, type |-> type, conf |-> k]
           IN  r \in Request /\ r # Idle
  BY DEF Idle, Request

LEMMA LoginKeeps ==
    ASSUME IInv, NEW b \in Browsers, NEW n \in Names, NEW w \in Passwords, Login(b, n, w)
    PROVE  IInv'
<1>1. TypeOK'
  BY DEF IInv, TypeOK, Login, files, saving
<1>2. ReqOK'
  BY DEF IInv, ReqOK, Login
<1>3. Configured'
  BY DEF IInv, Configured, Login
<1>4. Durable'
  BY DEF IInv, Durable, WillSave, InMemory, Loaded, Login, files, saving
<1> QED
  BY <1>1, <1>2, <1>3, <1>4 DEF IInv

LEMMA LogoutKeeps ==
    ASSUME IInv, NEW b \in Browsers, Logout(b)
    PROVE  IInv'
<1>1. TypeOK'
  BY DEF IInv, TypeOK, Logout, files, saving
<1>2. ReqOK'
  BY DEF IInv, ReqOK, Logout
<1>3. Configured'
  BY DEF IInv, Configured, Logout
<1>4. Durable'
  BY DEF IInv, Durable, WillSave, InMemory, Loaded, Logout, files, saving
<1> QED
  BY <1>1, <1>2, <1>3, <1>4 DEF IInv

LEMMA SignUpKeeps ==
    ASSUME IInv, NEW b \in Browsers, NEW n \in Names, NEW w \in Passwords,
           NEW same \in BOOLEAN, NEW type \in FormTypes, SignUp(b, n, w, same, type)
    PROVE  IInv'
<1> DEFINE r == [Idle EXCEPT !.op = "signup", !.name = n, !.pw = w, !.same = same, !.type = type]
<1>0. r \in Request /\ r # Idle
  BY AuthAssumption DEF Idle, Request, AuthType
<1> HIDE DEF r
<1>1. TypeOK'
  <2>1. req' \in [Procs -> Request] /\ pc' \in [Procs -> Stage]
    BY <1>0 DEF IInv, TypeOK, SignUp, Begin, Stage, r
  <2>2. \A q \in Procs : /\ pc'[q] = "idle" <=> req'[q] = Idle
                         /\ pc'[q] = "writeDb" <=> dbLock' = q
    BY <1>0 DEF IInv, TypeOK, SignUp, Begin, r
  <2>3. UNCHANGED <<up, authType, cfgType, cfgFile, usersFile, users, dbLock, cookie, snap, dbSnap, overlap>>
    BY DEF SignUp, Begin, files, saving
  <2>4. onSlice' \in [Browsers -> BOOLEAN]
    BY DEF IInv, TypeOK, SignUp
  <2> QED
    BY <2>1, <2>2, <2>3, <2>4 DEF IInv, TypeOK
<1>2. ReqOK'
  BY DEF IInv, TypeOK, ReqOK, SignUp, Begin
<1>3. Configured'
  BY DEF IInv, Configured, SignUp, Begin
<1>4. Durable'
  BY DEF IInv, Durable, WillSave, InMemory, Loaded, SignUp, Begin, files,
         saving
<1> QED
  BY <1>1, <1>2, <1>3, <1>4 DEF IInv

LEMMA PostConfigKeeps ==
    ASSUME IInv, NEW b \in Browsers, NEW k \in Confs, PostConfig(b, k)
    PROVE  IInv'
<1> DEFINE r == [Idle EXCEPT !.op = "post", !.name = PosterName(b), !.conf = k]
<1>0. r \in Request /\ r # Idle
  BY AuthAssumption DEF IInv, TypeOK, PosterName, Idle, Request, AuthType
<1> HIDE DEF r
<1>1. TypeOK'
  <2>1. req' \in [Procs -> Request] /\ pc' \in [Procs -> Stage]
    BY <1>0 DEF IInv, TypeOK, PostConfig, Begin, Stage, r
  <2>2. \A q \in Procs : /\ pc'[q] = "idle" <=> req'[q] = Idle
                         /\ pc'[q] = "writeDb" <=> dbLock' = q
    BY <1>0 DEF IInv, TypeOK, PostConfig, Begin, r
  <2>3. UNCHANGED <<up, authType, cfgType, cfgFile, usersFile, users, dbLock, cookie, snap, dbSnap, overlap>>
    BY DEF PostConfig, Begin, files, saving
  <2>4. onSlice' \in [Browsers -> BOOLEAN]
    BY DEF IInv, TypeOK, PostConfig
  <2> QED
    BY <2>1, <2>2, <2>3, <2>4 DEF IInv, TypeOK
<1>2. ReqOK'
  BY AuthAssumption
     DEF IInv, TypeOK, ReqOK, PostConfig, Begin, PosterName,
         IsRequestAuthenticated
<1>3. Configured'
  BY DEF IInv, Configured, PostConfig, Begin
<1>4. Durable'
  BY DEF IInv, Durable, WillSave, InMemory, Loaded, PostConfig, Begin, files,
         saving
<1> QED
  BY <1>1, <1>2, <1>3, <1>4 DEF IInv

LEMMA ExtendedSetKeeps ==
    ASSUME IInv, NEW n \in Names \cup {Nobody}, NEW w \in Passwords,
           NEW type \in RouterTypes, ExtendedSet(n, w, type)
    PROVE  IInv'
<1> DEFINE r == [Idle EXCEPT !.op = "set", !.name = n, !.pw = w, !.type = type]
<1>0. r \in Request /\ r # Idle
  BY AuthAssumption DEF Idle, Request, AuthType
<1> HIDE DEF r
<1>1. TypeOK'
  <2>1. req' \in [Procs -> Request] /\ pc' \in [Procs -> Stage]
    BY <1>0 DEF IInv, TypeOK, ExtendedSet, Begin, Stage, r
  <2>2. \A q \in Procs : /\ pc'[q] = "idle" <=> req'[q] = Idle
                         /\ pc'[q] = "writeDb" <=> dbLock' = q
    BY <1>0 DEF IInv, TypeOK, ExtendedSet, Begin, r
  <2>3. UNCHANGED <<up, authType, cfgType, cfgFile, usersFile, users, dbLock, cookie, snap, dbSnap, overlap>>
    BY DEF ExtendedSet, Begin, files, saving
  <2>4. onSlice' \in [Browsers -> BOOLEAN]
    BY DEF IInv, TypeOK, ExtendedSet
  <2> QED
    BY <2>1, <2>2, <2>3, <2>4 DEF IInv, TypeOK
<1>2. ReqOK'
  BY DEF IInv, TypeOK, ReqOK, ExtendedSet, Begin
<1>3. Configured'
  BY DEF IInv, Configured, ExtendedSet, Begin
<1>4. Durable'
  BY DEF IInv, Durable, WillSave, InMemory, Loaded, ExtendedSet, Begin, files,
         saving
<1> QED
  BY <1>1, <1>2, <1>3, <1>4 DEF IInv

LEMMA SetLevelKeeps ==
    ASSUME IInv, SetLevel
    PROVE  IInv'
<1> DEFINE r == [Idle EXCEPT !.op = "level"]
<1>0. r \in Request /\ r # Idle
  BY DEF Idle, Request, AuthType
<1> HIDE DEF r
<1>1. TypeOK'
  <2>1. req' \in [Procs -> Request] /\ pc' \in [Procs -> Stage]
    BY <1>0 DEF IInv, TypeOK, SetLevel, Begin, Stage, r
  <2>2. \A q \in Procs : /\ pc'[q] = "idle" <=> req'[q] = Idle
                         /\ pc'[q] = "writeDb" <=> dbLock' = q
    BY <1>0 DEF IInv, TypeOK, SetLevel, Begin, r
  <2>3. UNCHANGED <<up, authType, cfgType, cfgFile, usersFile, users, dbLock, cookie, snap, dbSnap, overlap>>
    BY DEF SetLevel, Begin, files, saving
  <2>4. onSlice' \in [Browsers -> BOOLEAN]
    BY DEF IInv, TypeOK, SetLevel
  <2> QED
    BY <2>1, <2>2, <2>3, <2>4 DEF IInv, TypeOK
<1>2. ReqOK'
  BY DEF IInv, ReqOK, SetLevel, Begin
<1>3. Configured'
  BY DEF IInv, Configured, SetLevel, Begin
<1>4. Durable'
  BY DEF IInv, Durable, WillSave, InMemory, Loaded, SetLevel, Begin, files,
         saving
<1> QED
  BY <1>1, <1>2, <1>3, <1>4 DEF IInv

LEMMA SetTypeKeeps ==
    ASSUME IInv, NEW p \in Procs, SetType(p)
    PROVE  IInv'
<1>1. TypeOK'
  BY DEF IInv, TypeOK, SetType, Goto, files, saving, Request, Stage
<1>2. ReqOK'
  BY DEF IInv, ReqOK, SetType, Goto
<1>3. Configured'
  BY DEF IInv, Configured, SetType, Goto
<1>4. Durable'
  BY DEF IInv, Durable, WillSave, InMemory, Loaded, SetType, Goto, files,
         saving
<1> QED
  BY <1>1, <1>2, <1>3, <1>4 DEF IInv

LEMMA SetConfigTypeKeeps ==
    ASSUME IInv, NEW p \in Procs, SetConfigType(p)
    PROVE  IInv'
<1>1. TypeOK'
  BY DEF IInv, TypeOK, SetConfigType, Goto, files, saving, Request, Stage
<1>2. ReqOK'
  BY DEF IInv, ReqOK, SetConfigType, Goto
<1>3. Configured'
  BY DEF IInv, Configured, SetConfigType, Goto
<1>4. Durable'
  BY DEF IInv, Durable, WillSave, InMemory, Loaded, SetConfigType, Goto, files,
         saving
<1> QED
  BY <1>1, <1>2, <1>3, <1>4 DEF IInv

LEMMA OpenConfigKeeps ==
    ASSUME IInv, NEW p \in Procs, OpenConfig(p)
    PROVE  IInv'
<1>1. TypeOK'
  BY DEF IInv, TypeOK, OpenConfig, Goto, Stage
<1>2. ReqOK'
  BY DEF IInv, ReqOK, OpenConfig, Goto
<1>3. Configured'
  BY DEF IInv, Configured, OpenConfig, Goto
<1>4. Durable'
  BY DEF IInv, Durable, WillSave, InMemory, Loaded, OpenConfig, Goto
<1> QED
  BY <1>1, <1>2, <1>3, <1>4 DEF IInv

LEMMA WriteConfigKeeps ==
    ASSUME IInv, NEW p \in Procs, WriteConfig(p)
    PROVE  IInv'
<1>1. TypeOK'
  BY DEF IInv, TypeOK, WriteConfig, Goto, AfterConfig, Procs, AuthType,
         Request, Stage, Idle
<1>2. ReqOK'
  BY DEF IInv, ReqOK, WriteConfig, Goto, AfterConfig, Idle
<1>3. Configured'
  BY DEF IInv, Configured, WriteConfig, Goto
<1>4. Durable'
  BY DEF IInv, Durable, WillSave, InMemory, Loaded, WriteConfig, Goto,
         AfterConfig
<1> QED
  BY <1>1, <1>2, <1>3, <1>4 DEF IInv

LEMMA MatchKeeps ==
    ASSUME IInv, NEW b \in Browsers, Match(b)
    PROVE  IInv'
<1>1. TypeOK'
  <2>1. req' \in [Procs -> Request] /\ pc' \in [Procs -> Stage]
    BY IdleRequest DEF IInv, TypeOK, Match, Goto, Stage
  <2>2. \A q \in Procs : /\ pc'[q] = "idle" <=> req'[q] = Idle
                         /\ pc'[q] = "writeDb" <=> dbLock' = q
    BY DEF IInv, TypeOK, Match, Goto
  <2>3. UNCHANGED <<up, authType, cfgType, cfgFile, users, snap, overlap, onSlice>>
    BY DEF Match, files, saving
  <2>4. /\ usersFile' = Empty \/ usersFile' \in UserDB
        /\ dbSnap' \in UserDB
    BY DEF IInv, TypeOK, Match, files, saving
  <2>5. dbLock' \in Procs \cup {Nobody}
    BY DEF IInv, TypeOK, Match
  <2>6. cookie' \in [Browsers -> Names \cup {Nobody}]
    BY DEF IInv, TypeOK, Match
  <2> QED
    BY <2>1, <2>2, <2>3, <2>4, <2>5, <2>6 DEF IInv, TypeOK
<1>2. ReqOK'
  BY AuthAssumption DEF IInv, TypeOK, ReqOK, Match, Goto, Idle
<1>3. Configured'
  <2>1. ASSUME NEW p \in Procs, pc[p] = "conf" PROVE pc'[p] = "conf" /\ req'[p] = req[p]
    BY <2>1 DEF IInv, TypeOK, Match, Goto
  <2>2. users' = users
    BY DEF Match
  <2> QED
    BY <2>1, <2>2 DEF IInv, Configured
<1>4. Durable'
  BY DEF IInv, TypeOK, Durable, WillSave, InMemory, Loaded, Match, Goto, files,
         saving
<1> QED
  BY <1>1, <1>2, <1>3, <1>4 DEF IInv

LEMMA UpsertKeeps ==
    ASSUME IInv, NEW p \in Procs, Upsert(p)
    PROVE  IInv'
<1>1. TypeOK'
  <2>1. users' \in UserDB
    BY DEF IInv, TypeOK, Upsert, AfterUpsert, UserDB, Profile, Request
  <2>2. pc' \in [Procs -> Stage]
    BY DEF IInv, TypeOK, Upsert, Goto, AfterUpsert, Stage
  <2>3. \A q \in Procs : /\ pc'[q] = "idle" <=> req'[q] = Idle
                         /\ pc'[q] = "writeDb" <=> dbLock' = q
    BY DEF IInv, TypeOK, Upsert, Goto, AfterUpsert
  <2>4. UNCHANGED <<up, authType, cfgType, cfgFile, usersFile, dbLock, cookie, req, snap, dbSnap, overlap>>
    BY DEF Upsert, files, saving
  <2>5. onSlice' \in [Browsers -> BOOLEAN]
    BY DEF IInv, TypeOK, Upsert
  <2> QED
    BY <2>1, <2>2, <2>3, <2>4, <2>5 DEF IInv, TypeOK
<1>2. ReqOK'
  <2>1. \A n \in Names : users[n] # Nobody \/ n = req[p].name => users'[n] \in Profile
    BY DEF IInv, TypeOK, Upsert, AfterUpsert, UserDB, Profile, Request
  <2>2. \A n \in Names : users[n] # Nobody \/ n = req[p].name => users'[n] # Nobody
    BY <2>1, ValueAssumption
  <2>3. UNCHANGED <<up, req>>
    BY DEF Upsert
  <2>4. \A q \in Procs \ {p} : pc'[q] = pc[q]
    BY DEF Upsert, Goto, IInv, TypeOK
  <2>5. up = "up" /\ pc'[p] \in {"conf", "type", "openDb"}
    BY DEF Upsert, Goto, AfterUpsert, IInv, TypeOK, ReqOK
  <2> QED
    BY <2>2, <2>4, <2>5 DEF IInv, ReqOK, Upsert
<1>3. Configured'
  BY DEF IInv, TypeOK, Configured, Upsert, Goto, AfterUpsert, UserDB, Profile
<1>4. Durable'
  BY DEF IInv, TypeOK, ReqOK, Durable, WillSave, Upsert, Goto, AfterUpsert
<1> QED
  BY <1>1, <1>2, <1>3, <1>4 DEF IInv

LEMMA UpdateUserConfigKeeps ==
    ASSUME IInv, NEW p \in Procs, UpdateUserConfig(p)
    PROVE  IInv'
<1>1. TypeOK'
  <2>1. users' \in UserDB
    BY AuthAssumption
       DEF IInv, TypeOK, ReqOK, UpdateUserConfig, AfterUpsert, UserDB, Profile
  <2>2. pc' \in [Procs -> Stage]
    BY DEF IInv, TypeOK, UpdateUserConfig, Goto, AfterUpsert, Stage
  <2>3. \A q \in Procs : /\ pc'[q] = "idle" <=> req'[q] = Idle
                         /\ pc'[q] = "writeDb" <=> dbLock' = q
    BY DEF IInv, TypeOK, UpdateUserConfig, Goto, AfterUpsert
  <2>4. UNCHANGED <<up, authType, cfgType, cfgFile, usersFile, dbLock, cookie, req, snap, dbSnap, overlap>>
    BY DEF UpdateUserConfig, files, saving
  <2>5. onSlice' \in [Browsers -> BOOLEAN]
    BY DEF IInv, TypeOK, UpdateUserConfig
  <2> QED
    BY <2>1, <2>2, <2>3, <2>4, <2>5 DEF IInv, TypeOK
<1>2. ReqOK'
  <2>1. \A n \in Names : users[n] # Nobody => users'[n] \in Profile
    BY AuthAssumption DEF IInv, TypeOK, UpdateUserConfig, UserDB, Profile
  <2>2. \A n \in Names : users[n] # Nobody => users'[n] # Nobody
    BY <2>1, ValueAssumption
  <2>3. UNCHANGED <<up, req>>
    BY DEF UpdateUserConfig
  <2>4. \A q \in Procs \ {p} : pc'[q] = pc[q]
    BY DEF UpdateUserConfig, Goto
  <2>5. up = "up" /\ pc'[p] \in {"type", "openDb"}
    BY DEF UpdateUserConfig, Goto, AfterUpsert, IInv, TypeOK, ReqOK
  <2> QED
    BY <2>2, <2>3, <2>4, <2>5 DEF IInv, ReqOK, AfterUpsert
<1>3. Configured'
  BY AuthAssumption
     DEF IInv, TypeOK, Configured, UpdateUserConfig, Goto, AfterUpsert, UserDB
<1>4. Durable'
  BY DEF IInv, ReqOK, Durable, WillSave, UpdateUserConfig, Goto, AfterUpsert
<1> QED
  BY <1>1, <1>2, <1>3, <1>4 DEF IInv

LEMMA WriteProfileKeeps ==
    ASSUME IInv, NEW b \in Browsers, WriteProfile(b)
    PROVE  IInv'
<1>1. TypeOK'
  <2>1. users' \in UserDB
    BY DEF IInv, TypeOK, ReqOK, WriteProfile, Procs, UserDB, Profile
  <2>2. pc' \in [Procs -> Stage]
    BY DEF IInv, TypeOK, WriteProfile, Goto, Stage
  <2>3. \A q \in Procs : /\ pc'[q] = "idle" <=> req'[q] = Idle
                         /\ pc'[q] = "writeDb" <=> dbLock' = q
    BY DEF IInv, TypeOK, WriteProfile, Goto
  <2>4. UNCHANGED <<up, authType, cfgType, cfgFile, usersFile, dbLock, cookie, req, snap, dbSnap, overlap>>
    BY DEF WriteProfile, files, saving
  <2>5. onSlice' \in [Browsers -> BOOLEAN]
    BY DEF IInv, TypeOK, WriteProfile
  <2> QED
    BY <2>1, <2>2, <2>3, <2>4, <2>5 DEF IInv, TypeOK
<1>2. ReqOK'
  <2>1. \A n \in Names : users[n] # Nobody => users'[n] \in Profile
    BY DEF IInv, TypeOK, ReqOK, WriteProfile, Procs, UserDB, Profile
  <2>2. \A n \in Names : users[n] # Nobody => users'[n] # Nobody
    BY <2>1, ValueAssumption
  <2>3. UNCHANGED <<up, req>>
    BY DEF WriteProfile
  <2>4. \A q \in Procs \ {b} : pc'[q] = pc[q]
    BY DEF WriteProfile, Goto
  <2>5. up = "up" /\ pc'[b] \in {"openDb"}
    BY DEF WriteProfile, Goto, IInv, TypeOK, ReqOK, Procs
  <2> QED
    BY <2>2, <2>3, <2>4, <2>5 DEF IInv, ReqOK
<1>3. Configured'
  BY AuthAssumption DEF IInv, ReqOK, Configured, WriteProfile, Goto, Procs
<1>4. Durable'
  BY DEF IInv, TypeOK, Durable, WillSave, WriteProfile, Goto, Procs
<1> QED
  BY <1>1, <1>2, <1>3, <1>4 DEF IInv

LEMMA OpenUserDBKeeps ==
    ASSUME IInv, NEW p \in Procs, OpenUserDB(p)
    PROVE  IInv'
<1>1. TypeOK'
  BY AuthAssumption DEF IInv, TypeOK, OpenUserDB, Goto, Procs, Stage
<1>2. ReqOK'
  BY DEF IInv, ReqOK, OpenUserDB, Goto
<1>3. Configured'
  BY DEF IInv, Configured, OpenUserDB, Goto
<1>4. Durable'
  BY DEF IInv, TypeOK, Durable, InMemory, OpenUserDB, Goto
<1> QED
  BY <1>1, <1>2, <1>3, <1>4 DEF IInv

LEMMA WriteUserDBKeeps ==
    ASSUME IInv, NEW p \in Procs, WriteUserDB(p)
    PROVE  IInv'
<1>1. TypeOK'
  <2>1. req' \in [Procs -> Request] /\ pc' \in [Procs -> Stage]
    BY IdleRequest DEF IInv, TypeOK, WriteUserDB, Goto, Stage
  <2>2. \A q \in Procs : /\ pc'[q] = "idle" <=> req'[q] = Idle
                         /\ pc'[q] = "writeDb" <=> dbLock' = q
    BY AuthAssumption DEF IInv, TypeOK, WriteUserDB, Goto, Procs
  <2>3. UNCHANGED <<up, authType, cfgType, cfgFile, users, snap, overlap, onSlice>>
    BY DEF WriteUserDB
  <2>4. /\ usersFile' = Empty \/ usersFile' \in UserDB
        /\ dbSnap' \in UserDB
    BY DEF IInv, TypeOK, WriteUserDB, UserDB, NoUsers
  <2>5. dbLock' \in Procs \cup {Nobody}
    BY DEF WriteUserDB
  <2>6. cookie' \in [Browsers -> Names \cup {Nobody}]
    BY DEF IInv, TypeOK, WriteUserDB, Request
  <2> QED
    BY <2>1, <2>2, <2>3, <2>4, <2>5, <2>6 DEF IInv, TypeOK
<1>2. ReqOK'
  BY DEF IInv, ReqOK, WriteUserDB, Goto, Idle
<1>3. Configured'
  BY DEF IInv, Configured, WriteUserDB, Goto
<1>4. Durable'
  BY ValueAssumption
     DEF IInv, TypeOK, Durable, WillSave, InMemory, Loaded, WriteUserDB, Goto
<1> QED
  BY <1>1, <1>2, <1>3, <1>4 DEF IInv

LEMMA StopKeeps ==
    ASSUME IInv, Stop
    PROVE  IInv'
<1>1. TypeOK'
  BY AuthAssumption
     DEF IInv, TypeOK, Stop, NoUsers, Procs, files, AuthType, UserDB, Request,
         Stage, Idle
<1>2. ReqOK'
  BY DEF ReqOK, Stop, Idle
<1>3. Configured'
  BY DEF Configured, Stop, NoUsers
<1>4. Durable'
  BY DEF Durable, Stop
<1> QED
  BY <1>1, <1>2, <1>3, <1>4 DEF IInv

\* What is loaded is migrated, and has every profile configured.
LEMMA LoadedProfiles ==
    ASSUME TypeOK
    PROVE  /\ Loaded \in UserDB
           /\ Migrated(Loaded) \in UserDB
           /\ \A n \in Names : Migrated(Loaded)[n] # Nobody =>
                  Migrated(Loaded)[n].configs # NoConf
<1>1. Loaded \in UserDB
  BY DEF TypeOK, Loaded, NoUsers, UserDB
<1> DEFINE db == Loaded
<1> HIDE DEF db
<1>2. db \in UserDB
  BY <1>1 DEF db
<1>3. ASSUME NEW n \in Names
      PROVE  /\ Migrated(db)[n] \in Profile \cup {Nobody}
             /\ Migrated(db)[n] # Nobody => Migrated(db)[n].configs # NoConf
  BY <1>2, AuthAssumption DEF Migrated, UserDB, Profile
<1>4. Migrated(db) \in UserDB
  BY <1>3 DEF Migrated, UserDB
<1> QED
  BY <1>1, <1>3, <1>4 DEF db

LEMMA WithUnknownProfiles ==
    ASSUME NEW db \in UserDB, NEW type,
           \A n \in Names : db[n] # Nobody => db[n].configs # NoConf
    PROVE  /\ WithUnknown(db, type) \in UserDB
           /\ \A n \in Names : WithUnknown(db, type)[n] # Nobody =>
                  WithUnknown(db, type)[n].configs # NoConf
           /\ \A n \in Names \ {Unknown} : WithUnknown(db, type)[n] = db[n]
  BY AuthAssumption DEF WithUnknown, UserDB, Profile

LEMMA StartKeeps == ASSUME IInv, Start PROVE IInv'
<1>1. CASE cfgFile = Empty
  <2>1. UNCHANGED <<authType, cfgType, cfgFile, usersFile, users, dbLock, cookie, pc, req, snap, dbSnap, overlap, onSlice>>
        /\ up' = "dead"
    BY <1>1 DEF Start, saving
  <2>2. TypeOK'
    BY <2>1 DEF IInv, TypeOK
  <2>3. ReqOK' /\ Configured' /\ Durable'
    BY <2>1 DEF IInv, ReqOK, Configured, Durable, Start
  <2> QED
    BY <2>2, <2>3 DEF IInv
<1>2. CASE cfgFile # Empty
  <2> DEFINE db == Migrated(Loaded)
  <2>1. /\ UNCHANGED <<cfgFile, dbLock, cookie, pc, req, snap, dbSnap, overlap, onSlice>>
        /\ up' = "up" /\ authType' = cfgFile /\ cfgType' = cfgFile
        /\ users' = WithUnknown(db, cfgFile)
        /\ usersFile' = IF db = Loaded THEN usersFile ELSE db
    BY <1>2 DEF Start, saving
  <2>2. /\ users' \in UserDB
        /\ \A n \in Names : users'[n] # Nobody => users'[n].configs # NoConf
        /\ \A n \in Names \ {Unknown} : users'[n] = db[n]
    BY <2>1, LoadedProfiles, WithUnknownProfiles DEF IInv
  <2>3. Loaded' = db /\ (usersFile' = Empty \/ usersFile' \in UserDB)
    BY <2>1, LoadedProfiles, ValueAssumption DEF IInv, Loaded
  <2>4. \A p \in Procs : pc'[p] = "idle" /\ req'[p] = Idle
    BY DEF IInv, TypeOK, ReqOK, Start
  <2>5. TypeOK'
    BY <1>2, <2>1, <2>2, <2>3 DEF IInv, TypeOK
  <2>6. ReqOK'
    BY <2>4 DEF ReqOK, Idle
  <2>7. Configured'
    BY <2>2 DEF Configured
  <2>8. Durable'
    BY <2>2, <2>3, <2>4 DEF Durable, InMemory
  <2> QED
    BY <2>5, <2>6, <2>7, <2>8 DEF IInv
<1> QED
  BY <1>1, <1>2

LEMMA KilledInMigrationKeeps ==
    ASSUME IInv, KilledInMigration
    PROVE  IInv'
<1>1. TypeOK'
  BY DEF IInv, TypeOK, KilledInMigration, saving
<1>2. ReqOK'
  BY DEF IInv, ReqOK, KilledInMigration
<1>3. Configured'
  BY DEF IInv, Configured, KilledInMigration
<1>4. Durable'
  BY DEF Durable, KilledInMigration
<1> QED
  BY <1>1, <1>2, <1>3, <1>4 DEF IInv

-----------------------------------------------------------------------------
LEMMA InitIInv == ASSUME Init PROVE IInv
<1>1. TypeOK
  <2>1. NoUsers \in UserDB
    BY DEF NoUsers, UserDB
  <2>2. users \in UserDB
    BY <2>1, AuthAssumption DEF Init, WithUnknown, UserDB, Profile
  <2>3. \A p \in Procs : dbLock # p
    BY AuthAssumption DEF Init, Procs
  <2> QED
    BY <2>1, <2>2, <2>3, IdleRequest DEF Init, TypeOK, AuthType, Stage
<1>2. ReqOK
  BY DEF Init, ReqOK, Idle
<1>3. Configured
  BY AuthAssumption DEF Init, Configured, WithUnknown, NoUsers
<1>4. Durable
  BY DEF Init, Durable, InMemory, Loaded, WithUnknown
<1> QED
  BY <1>1, <1>2, <1>3, <1>4 DEF IInv

LEMMA NextIInv == ASSUME IInv, [Next]_vars PROVE IInv'
<1>1. CASE \E b \in Browsers : Browse(b)
  BY <1>1, LoginKeeps, LogoutKeeps, SignUpKeeps, PostConfigKeeps, MatchKeeps,
     WriteProfileKeeps
     DEF Browse
<1>2. CASE Control
  BY <1>2, ExtendedSetKeeps, SetLevelKeeps DEF Control
<1>3. CASE \E p \in Procs : Work(p)
  BY <1>3, SetTypeKeeps, SetConfigTypeKeeps, OpenConfigKeeps, WriteConfigKeeps,
     UpsertKeeps, UpdateUserConfigKeeps, OpenUserDBKeeps, WriteUserDBKeeps
     DEF Work
<1>4. CASE Stop \/ Start \/ KilledInMigration
  BY <1>4, StopKeeps, StartKeeps, KilledInMigrationKeeps
<1>5. CASE UNCHANGED vars
  <2>1. TypeOK'
    BY <1>5 DEF vars, files, saving, IInv, TypeOK
  <2>2. ReqOK' /\ Configured'
    BY <1>5 DEF vars, IInv, ReqOK, Configured
  <2>3. Durable'
    BY <1>5 DEF vars, files, saving, IInv, Durable, WillSave, InMemory, Loaded
  <2> QED
    BY <2>1, <2>2, <2>3 DEF IInv
<1> QED
  BY <1>1, <1>2, <1>3, <1>4, <1>5 DEF Next

\* Every variable keeps its type; a request that has ended has left nothing
\* behind, and whoever writes users.json (SaveUserDB) holds dbLock.
THEOREM AuthTypeCorrect == Spec => []TypeOK
<1>1. IInv => TypeOK
  BY DEF IInv
<1> QED
  BY <1>1, InitIInv, NextIInv, PTL DEF Spec

\* When no request is under way, users.json has what the handlers of sign-up,
\* configuration and extended_set changed in memory, in whatever order they ran.
THEOREM ChangesReachTheFile == Spec => []IdleIsDurable
<1>1. ASSUME IInv PROVE IdleIsDurable
  <2>1. AllIdle => \A p \in Procs : ~WillSave(p) /\ pc[p] # "writeDb"
    BY DEF AllIdle, WillSave
  <2> QED
    BY <1>1, <2>1 DEF IInv, Durable, InMemory, IdleIsDurable, AllIdle
<1> QED
  BY <1>1, InitIInv, NextIInv, PTL DEF Spec

\* When no request is under way, every profile has a configuration, although
\* UpsertUserProfile appends it without one and the process may be killed
\* before UpdateUserConfig: LoadLocalDefaults then gives it one at the start.
THEOREM ProfilesAreConfigured == Spec => []IdleProfilesConfigured
<1>1. ASSUME IInv PROVE IdleProfilesConfigured
  BY <1>1 DEF IInv, Configured, IdleProfilesConfigured, AllIdle
<1> QED
  BY <1>1, InitIInv, NextIInv, PTL DEF Spec

-----------------------------------------------------------------------------
(* Saves of config.json.                                                   *)

\* Two savers overlap; a file that is filled before a saver writes was filled by
\* another one, that began meanwhile or before.
SavesOK ==
    /\ \A p, q \in Saving : p # q => overlap
    /\ Saving # {} /\ cfgFile # Empty => overlap
    /\ ConfigReadable

LEMMA InitSaves == ASSUME Init PROVE SavesOK
  BY AuthAssumption DEF Init, SavesOK, Saving, ConfigReadable

LEMMA NextSaves == ASSUME TypeOK, SavesOK, [Next]_vars PROVE SavesOK'
<1>1. ASSUME UNCHANGED <<up, cfgFile, overlap, Saving>>
      PROVE  SavesOK'
  BY <1>1 DEF SavesOK, ConfigReadable
<1>2. ASSUME NEW p \in Procs, NEW stage \in Stage \ {"writeCfg"}, pc[p] # "writeCfg", Goto(p, stage)
      PROVE  Saving' = Saving
  BY <1>2 DEF Goto, Saving, TypeOK
<1>3. CASE UNCHANGED vars
  BY <1>1, <1>3 DEF vars, files, saving, Saving
<1>4. ASSUME NEW p \in Procs, OpenConfig(p)
      PROVE  SavesOK'
  <2>1. Saving' = Saving \cup {p} /\ overlap' = (Saving # {}) /\ cfgFile' = Empty
    BY <1>4 DEF OpenConfig, Goto, Saving, TypeOK
  <2> QED
    BY <2>1 DEF SavesOK, ConfigReadable
<1>5. ASSUME NEW p \in Procs, WriteConfig(p)
      PROVE  SavesOK'
  <2>1. p \in Saving /\ Saving' = Saving \ {p} /\ overlap' = overlap
    BY <1>5 DEF WriteConfig, Goto, Saving, TypeOK, AfterConfig
  <2>2. CASE overlap
    BY <2>1, <2>2 DEF SavesOK, ConfigReadable
  <2>3. CASE ~overlap
    <3>1. Saving = {p} /\ cfgFile = Empty
      BY <2>1, <2>3 DEF SavesOK
    <3>2. cfgFile' # Empty
      BY <1>5, <3>1, AuthAssumption DEF WriteConfig, TypeOK, AuthType
    <3> QED
      BY <2>1, <3>1, <3>2 DEF SavesOK, ConfigReadable
  <2> QED
    BY <2>2, <2>3
<1>6. ASSUME NEW p \in Procs,
             \/ SetType(p) \/ SetConfigType(p) \/ Upsert(p) \/ UpdateUserConfig(p)
             \/ OpenUserDB(p) \/ WriteUserDB(p)
      PROVE  SavesOK'
  <2>1. UNCHANGED <<up, cfgFile, overlap>>
    BY <1>6 DEF SetType, SetConfigType, Upsert, UpdateUserConfig, OpenUserDB, WriteUserDB, files, saving
  <2>2. pc[p] # "writeCfg" /\ \E stage \in Stage \ {"writeCfg"} : Goto(p, stage)
    BY <1>6 DEF SetType, SetConfigType, Upsert, UpdateUserConfig, OpenUserDB, WriteUserDB,
                AfterUpsert, Stage
  <2> QED
    BY <1>1, <1>2, <2>1, <2>2
<1>7. ASSUME NEW b \in Browsers, Browse(b)
      PROVE  SavesOK'
  <2>1. UNCHANGED <<up, cfgFile, overlap>>
    BY <1>7 DEF Browse, Login, Logout, SignUp, PostConfig, Match, WriteProfile, Begin, files, saving
  <2>2. \/ UNCHANGED pc
        \/ pc[b] # "writeCfg" /\ \E stage \in Stage \ {"writeCfg"} : Goto(b, stage)
    BY <1>7 DEF Browse, Login, Logout, SignUp, PostConfig, Match, WriteProfile, Begin, Goto, Stage
  <2> QED
    BY <1>1, <1>2, <2>1, <2>2 DEF Saving, Procs
<1>8. CASE Control
  <2>1. UNCHANGED <<up, cfgFile, overlap>>
    BY <1>8 DEF Control, ExtendedSet, SetLevel, Begin, files, saving
  <2>2. pc[Router] # "writeCfg" /\ \E stage \in Stage \ {"writeCfg"} : Goto(Router, stage)
    BY <1>8 DEF Control, ExtendedSet, SetLevel, Begin, Goto, Stage
  <2> QED
    BY <1>1, <1>2, <2>1, <2>2 DEF Procs
<1>9. CASE Stop
  <2>1. Saving' = {} /\ up' # "up"
    BY <1>9 DEF Stop, Saving
  <2> QED
    BY <2>1 DEF SavesOK, ConfigReadable
<1>10. CASE Start
  <2>1. UNCHANGED <<cfgFile, overlap, Saving>> /\ (up' = "up" => cfgFile # Empty)
    BY <1>10 DEF Start, saving, Saving
  <2> QED
    BY <2>1 DEF SavesOK, ConfigReadable
<1>11. CASE KilledInMigration
  BY <1>1, <1>11 DEF KilledInMigration, saving, Saving
<1> QED
  BY <1>3, <1>4, <1>5, <1>6, <1>7, <1>8, <1>9, <1>10, <1>11 DEF Next, Work

(* Saves that overlap are noticed, whichever begins or ends first; a save on  *)
(* its own finds the file as it truncated it and leaves it whole.             *)
THEOREM ConfigIsReadable == Spec => []ConfigReadable
<1>1. Init => SavesOK
  BY InitSaves
<1>2. TypeOK /\ SavesOK /\ [Next]_vars => SavesOK'
  BY NextSaves
<1>3. SavesOK => ConfigReadable
  BY DEF SavesOK
<1> QED
  BY <1>1, <1>2, <1>3, AuthTypeCorrect, PTL DEF Spec
===============================================================================
