------------------------ MODULE AccountSessions_proofs ------------------------
(***************************************************************************)
(* Proofs about AccountSessions, for every set of accounts, names, tokens  *)
(* and configurations and every length of time.                            *)
(***************************************************************************)
EXTENDS AccountSessions, TLAPS

USE ConfigurationsAssumption, SessionTtlAssumption, MaxTimeAssumption,
    NoUserAssumption, NoNameAssumption

UniqueNames == \A u, v \in Accounts : login[u].name = login[v].name => u = v

(* The names that logins are looked up in are right from the moment the    *)
(* constructor has them, before anybody is appointed.                      *)
NamesFollow == phase # "down" => byName = NamesOf(login)

(* At most one administrator, none while one is being appointed, and the   *)
(* account that will be appointed has the configured login.                *)
Appointment ==
  /\ \A a, b \in admins : a = b
  /\ phase = "appointing" =>
       admins = {} /\ login[candidate] = configuration
  /\ phase = "up" => \E a \in admins : login[a] = configuration
  /\ (admins \union {candidate}) \cap selfRegistered = {}

SessionsInv ==
  /\ TypeOK
  /\ UniqueNames
  /\ NamesFollow
  /\ Appointment
  /\ SessionsFollowCredentials

-----------------------------------------------------------------------------
LoginTables == [Users -> Logins \union {NoLogin}]

OneEach(logins) ==
  \A u, v \in Users :
    logins[u] # NoLogin /\ logins[v] # NoLogin /\ logins[u].name = logins[v].name
    => u = v

(* An account has a name; what has no row has none. *)
LEMMA RowsHaveNames ==
  ASSUME NEW logins \in LoginTables, NEW u \in Users
  PROVE  /\ logins[u] # NoLogin <=> logins[u] \in Logins
         /\ logins[u] # NoLogin <=> logins[u].name \in Names
BY DEF LoginTables, Logins, NoLogin

(* What hydration makes of a table with one account for each name.         *)
LEMMA NamesOfValues ==
  ASSUME NEW logins \in LoginTables, OneEach(logins), NEW name \in Names
  PROVE  /\ \A u \in Users : logins[u].name = name =>
              NamesOf(logins)[name] = Entry(u, logins[u].password)
         /\ (\A u \in Users : logins[u].name # name) =>
              NamesOf(logins)[name] = NoEntry
  <1>1. ASSUME NEW u \in Users, logins[u].name = name
        PROVE  NamesOf(logins)[name] = Entry(u, logins[u].password)
    <2> DEFINE v == CHOOSE w \in Users : logins[w].name = name
    <2>1. v \in Users /\ logins[v].name = name
      BY <1>1
    <2>2. v = u
      <3> HIDE DEF v
      <3> QED BY <1>1, <2>1, RowsHaveNames DEF OneEach
    <2>3. NamesOf(logins)[name] = Entry(v, logins[v].password)
      BY <1>1 DEF NamesOf
    <2> QED BY <2>2, <2>3
  <1>2. (\A u \in Users : logins[u].name # name) => NamesOf(logins)[name] = NoEntry
    BY DEF NamesOf
  <1> QED BY <1>1, <1>2

LEMMA NamesOfTyped ==
  ASSUME NEW logins \in LoginTables, OneEach(logins)
  PROVE  NamesOf(logins) \in
           [Names -> [user : Users, password : Passwords] \union {NoEntry}]
  <1>1. ASSUME NEW name \in Names
        PROVE  NamesOf(logins)[name] \in
                 [user : Users, password : Passwords] \union {NoEntry}
    <2>1. CASE \A u \in Users : logins[u].name # name
      BY <2>1, NamesOfValues
    <2>2. ASSUME NEW u \in Users, logins[u].name = name
          PROVE  NamesOf(logins)[name] \in [user : Users, password : Passwords]
      <3>1. logins[u] \in Logins
        BY <2>2, RowsHaveNames
      <3>2. NamesOf(logins)[name] = Entry(u, logins[u].password)
        BY <2>2, NamesOfValues
      <3> QED BY <3>1, <3>2 DEF Logins, Entry
    <2> QED BY <2>1, <2>2
  <1>2. NamesOf(logins) = [name \in Names |-> NamesOf(logins)[name]]
    BY DEF NamesOf
  <1> QED BY <1>1, <1>2

(* A login is written that has a name nobody else has: the table keeps one *)
(* account for each name, and looking the names up again gives the old     *)
(* ones, without the one that was replaced, and the new one.               *)
LEMMA LoginWritten ==
  ASSUME NEW logins \in LoginTables, OneEach(logins),
         NEW u \in Users, NEW l \in Logins,
         \A v \in Users \ {u} : logins[v].name # l.name,
         NEW written \in LoginTables, written[u] = l,
         \A v \in Users \ {u} : written[v] = logins[v]
  PROVE  /\ OneEach(written)
         /\ \A name \in Names :
              NamesOf(written)[name] =
                IF name = l.name THEN Entry(u, l.password)
                ELSE IF name = logins[u].name THEN NoEntry
                ELSE NamesOf(logins)[name]
  <1>1. OneEach(written)
    BY DEF OneEach
  <1>2. ASSUME NEW name \in Names
        PROVE  NamesOf(written)[name] =
                 IF name = l.name THEN Entry(u, l.password)
                 ELSE IF name = logins[u].name THEN NoEntry
                 ELSE NamesOf(logins)[name]
    <2>1. CASE name = l.name
      BY <2>1, <1>1, NamesOfValues
    <2>2. CASE name # l.name /\ name = logins[u].name
      <3>1. \A v \in Users : written[v].name # name
        BY <2>2, RowsHaveNames DEF OneEach
      <3> QED BY <2>2, <3>1, <1>1, NamesOfValues
    <2>3. CASE name # l.name /\ name # logins[u].name
      <3>1. CASE \A v \in Users : logins[v].name # name
        <4>1. \A v \in Users : written[v].name # name
          BY <2>3, <3>1
        <4> QED BY <2>3, <3>1, <4>1, <1>1, NamesOfValues
      <3>2. ASSUME NEW v \in Users, logins[v].name = name
            PROVE  NamesOf(written)[name] = NamesOf(logins)[name]
        <4>1. written[v] = logins[v]
          BY <2>3, <3>2
        <4>2. NamesOf(logins)[name] = Entry(v, logins[v].password)
          BY <3>2, NamesOfValues
        <4>3. NamesOf(written)[name] = Entry(v, written[v].password)
          BY <3>2, <4>1, <1>1, NamesOfValues
        <4> QED BY <4>1, <4>2, <4>3
      <3> QED BY <2>3, <3>1, <3>2
    <2> QED BY <2>1, <2>2, <2>3
  <1> QED BY <1>1, <1>2

LEMMA LoginsAreOneEach ==
  ASSUME SessionsInv
  PROVE  login \in LoginTables /\ OneEach(login)
BY DEF SessionsInv, TypeOK, LoginTables, UniqueNames, OneEach, Accounts

(* The invariant of the login table, in the terms of the module.           *)
LEMMA OneEachIsUnique ==
  ASSUME login' \in LoginTables, OneEach(login')
  PROVE  UniqueNames'
BY DEF UniqueNames, OneEach, Accounts

-----------------------------------------------------------------------------
LEMMA SessionsInitial == Init => SessionsInv
BY DEF Init, SessionsInv, TypeOK, UniqueNames, NamesFollow, Appointment,
       SessionsFollowCredentials, Accounts, NoLogin, NoSession

(* Sessions go, or one comes for an account that exists, and nothing else  *)
(* changes.                                                                *)
LEMMA SessionStepKeeps ==
  ASSUME SessionsInv,
         UNCHANGED <<phase, candidate, configuration, now, login, admins, byName,
                     selfRegistered>>,
         sessions' \in [Tokens -> SessionRows \union {NoSession}],
         \A t \in Tokens :
           \/ sessions'[t] \in {sessions[t], NoSession}
           \/ login[sessions'[t].user] = sessions'[t].openedWith
  PROVE  SessionsInv'
  <1> USE DEF SessionsInv
  <1>1. TypeOK'
    BY DEF TypeOK, Accounts
  <1>2. UniqueNames' /\ NamesFollow' /\ Appointment'
    BY DEF UniqueNames, NamesFollow, Appointment, Accounts
  <1>3. SessionsFollowCredentials'
    BY DEF SessionsFollowCredentials
  <1> QED BY <1>1, <1>2, <1>3

LEMMA LogInKeeps ==
  ASSUME SessionsInv, NEW u \in Users, NEW t \in Tokens, NEW typed \in Credentials,
         LogIn(u, t, typed)
  PROVE  SessionsInv'
  <1>1. /\ login \in LoginTables /\ OneEach(login) /\ typed.name \in Names
        /\ byName = NamesOf(login) /\ byName[typed.name] = Entry(u, typed.password)
    BY LoginsAreOneEach
       DEF LogIn, Authenticates, SessionsInv, NamesFollow, Credentials
  <1>2. login[u] \in Logins
    <2>1. PICK v \in Users : login[v].name = typed.name
      BY <1>1, NamesOfValues DEF Entry, NoEntry
    <2>2. byName[typed.name] = Entry(v, login[v].password)
      BY <1>1, <2>1, NamesOfValues
    <2>3. u = v
      BY <1>1, <2>2 DEF Entry
    <2> QED BY <1>1, <2>1, <2>3, RowsHaveNames
  <1>3. Session(u) \in SessionRows /\ Session(u).openedWith = login[u]
        /\ Session(u).user = u
    BY <1>2 DEF Session, SessionRows, SessionsInv, TypeOK
  <1>4. WithoutExpired \in [Tokens -> SessionRows \union {NoSession}]
    BY DEF WithoutExpired, SessionsInv, TypeOK
  <1>5. /\ sessions' \in [Tokens -> SessionRows \union {NoSession}]
        /\ sessions'[t] = Session(u)
        /\ \A s \in Tokens \ {t} : sessions'[s] \in {sessions[s], NoSession}
    BY <1>3, <1>4 DEF LogIn, WithoutExpired
  <1> QED BY <1>3, <1>5, SessionStepKeeps DEF LogIn

LEMMA LogOutKeeps ==
  ASSUME SessionsInv, NEW t \in Tokens, LogOut(t)
  PROVE  SessionsInv'
  <1>1. /\ sessions' \in [Tokens -> SessionRows \union {NoSession}]
        /\ \A s \in Tokens : sessions'[s] \in {sessions[s], NoSession}
    BY DEF LogOut, SessionsInv, TypeOK
  <1> QED BY <1>1, SessionStepKeeps DEF LogOut

LEMMA RequireSessionKeeps ==
  ASSUME SessionsInv, RequireSession
  PROVE  SessionsInv'
  <1>1. /\ sessions' \in [Tokens -> SessionRows \union {NoSession}]
        /\ \A s \in Tokens : sessions'[s] \in {sessions[s], NoSession}
    BY DEF RequireSession, WithoutExpired, SessionsInv, TypeOK
  <1> QED BY <1>1, SessionStepKeeps DEF RequireSession

LEMMA ProcessStepKeeps ==
  ASSUME SessionsInv,
         \/ Crash \/ Tick \/ AppointSystemAdministrator
         \/ \E c \in Configurations : Configure(c)
         \/ UNCHANGED vars
  PROVE  SessionsInv'
  <1> USE DEF SessionsInv, vars, database
  <1>1. CASE Crash
    BY <1>1 DEF Crash, TypeOK, UniqueNames, NamesFollow, Appointment,
                SessionsFollowCredentials, Accounts
  <1>2. CASE Tick
    BY <1>2 DEF Tick, TypeOK, UniqueNames, NamesFollow, Appointment,
                SessionsFollowCredentials, Accounts
  <1>3. CASE AppointSystemAdministrator
    <2>1. candidate \in Accounts
      BY <1>3 DEF AppointSystemAdministrator, TypeOK, Appointment, Accounts,
                  Logins, NoLogin
    <2> QED BY <1>3, <2>1
            DEF AppointSystemAdministrator, TypeOK, UniqueNames, NamesFollow,
                Appointment, SessionsFollowCredentials, Accounts
  <1>4. CASE \E c \in Configurations : Configure(c)
    BY <1>4 DEF Configure, TypeOK, UniqueNames, NamesFollow, Appointment,
                SessionsFollowCredentials, Accounts
  <1>5. CASE UNCHANGED vars
    BY <1>5 DEF TypeOK, UniqueNames, NamesFollow, Appointment,
                SessionsFollowCredentials, Accounts
  <1> QED BY <1>1, <1>2, <1>3, <1>4, <1>5

(* A new account: the row, and its name beside the others.                 *)
LEMMA AccountCreated ==
  ASSUME SessionsInv, NEW u \in Users, NEW l \in Logins,
         \A v \in Users : login[v].name # l.name,
         CreateAccount(u, l, NamesOf(login)), UNCHANGED sessions
  PROVE  /\ login' \in LoginTables /\ UniqueNames'
         /\ byName' = NamesOf(login')
         /\ byName' \in
              [Names -> [user : Users, password : Passwords] \union {NoEntry}]
         /\ SessionsFollowCredentials'
         /\ Accounts' = Accounts \union {u} /\ u \notin Accounts
         /\ login'[u] = l /\ \A v \in Users \ {u} : login'[v] = login[v]
  <1>1. login \in LoginTables /\ OneEach(login)
    BY LoginsAreOneEach
  <1>2. /\ login' = [login EXCEPT ![u] = l] /\ u \notin Accounts
        /\ byName' = [NamesOf(login) EXCEPT ![l.name] = Entry(u, l.password)]
    BY DEF CreateAccount
  <1>3. login'[u] = l /\ \A v \in Users \ {u} : login'[v] = login[v]
    BY <1>1, <1>2 DEF LoginTables
  <1>3a. login' \in LoginTables
    BY <1>1, <1>2 DEF LoginTables
  <1>4. /\ login' \in LoginTables /\ OneEach(login')
        /\ \A name \in Names :
             NamesOf(login')[name] =
               IF name = l.name THEN Entry(u, l.password)
               ELSE IF name = login[u].name THEN NoEntry
               ELSE NamesOf(login)[name]
    BY <1>1, <1>3, <1>3a, LoginWritten
  <1>5. login[u].name \notin Names
    BY <1>1, <1>2, RowsHaveNames DEF Accounts
  <1>6. byName' = NamesOf(login')
    <2>1. \A name \in Names : byName'[name] = NamesOf(login')[name]
      BY <1>2, <1>4, <1>5 DEF NamesOf
    <2>2. byName' = [name \in Names |-> byName'[name]]
      BY <1>2 DEF NamesOf
    <2>3. NamesOf(login') = [name \in Names |-> NamesOf(login')[name]]
      BY DEF NamesOf
    <2> QED BY <2>1, <2>2, <2>3
  <1>7. byName' \in [Names -> [user : Users, password : Passwords] \union {NoEntry}]
    BY <1>4, <1>6, NamesOfTyped
  <1>8. SessionsFollowCredentials'
    <2> SUFFICES ASSUME NEW t \in Tokens, sessions[t] # NoSession
                 PROVE  login'[sessions[t].user] = sessions[t].openedWith
      BY DEF SessionsFollowCredentials
    <2>1. /\ login[sessions[t].user] = sessions[t].openedWith
          /\ sessions[t] \in SessionRows
      BY DEF SessionsInv, SessionsFollowCredentials, TypeOK
    <2>2. sessions[t].user \in Accounts
      BY <2>1, <1>1, RowsHaveNames DEF SessionRows, Accounts
    <2> QED BY <1>2, <1>3, <2>1, <2>2 DEF Accounts
  <1>9. Accounts' = Accounts \union {u}
    <2>1. l # NoLogin
      BY DEF Logins, NoLogin
    <2> QED BY <1>3, <2>1 DEF Accounts
  <1> QED BY <1>2, <1>3, <1>4, <1>6, <1>7, <1>8, <1>9, OneEachIsUnique

LEMMA RegisterKeeps ==
  ASSUME SessionsInv, NEW u \in Users, NEW l \in Logins, Register(u, l)
  PROVE  SessionsInv'
  <1>0. login \in LoginTables /\ OneEach(login)
    BY LoginsAreOneEach
  <1>1. \A v \in Users : login[v].name # l.name
    <2>1. byName = NamesOf(login) /\ byName[l.name] = NoEntry /\ l.name \in Names
      BY DEF Register, SessionsInv, NamesFollow, Logins
    <2> SUFFICES ASSUME NEW v \in Users, login[v].name = l.name PROVE FALSE
      OBVIOUS
    <2>2. byName[l.name] = Entry(v, login[v].password)
      BY <1>0, <2>1, NamesOfValues
    <2> QED BY <2>1, <2>2 DEF Entry, NoEntry
  <1>2. /\ CreateAccount(u, l, NamesOf(login))
        /\ selfRegistered' = selfRegistered \union {u}
        /\ phase = "up"
        /\ UNCHANGED <<phase, candidate, configuration, now, admins, sessions>>
    BY DEF Register, SessionsInv, NamesFollow
  <1>3. /\ login' \in LoginTables /\ UniqueNames'
        /\ byName' = NamesOf(login')
        /\ byName' \in
             [Names -> [user : Users, password : Passwords] \union {NoEntry}]
        /\ SessionsFollowCredentials'
        /\ Accounts' = Accounts \union {u} /\ u \notin Accounts
        /\ \A v \in Users \ {u} : login'[v] = login[v]
    BY <1>1, <1>2, AccountCreated
  <1>4. TypeOK'
    BY <1>2, <1>3 DEF TypeOK, SessionsInv, LoginTables
  <1>5. NamesFollow'
    BY <1>3 DEF NamesFollow
  <1>6. Appointment'
    <2>1. admins \subseteq Accounts /\ candidate = NoUser
      BY <1>2 DEF SessionsInv, TypeOK
    <2>2. \A a \in admins : login'[a] = login[a]
      BY <1>3, <2>1 DEF Accounts
    <2> QED BY <1>2, <1>3, <2>1, <2>2 DEF SessionsInv, Appointment
  <1> QED BY <1>3, <1>4, <1>5, <1>6 DEF SessionsInv

LEMMA StartCreatesAccountKeeps ==
  ASSUME SessionsInv, NEW u \in Users, StartCreatesAccount(u)
  PROVE  SessionsInv'
  <1>1. /\ configuration \in Logins
        /\ \A v \in Users : login[v].name # configuration.name
    BY LoginsAreOneEach, RowsHaveNames
       DEF StartCreatesAccount, Taken, HasName, Accounts, SessionsInv, TypeOK, Logins
  <1>2. /\ CreateAccount(u, configuration, NamesOf(login))
        /\ phase' = "appointing" /\ candidate' = u /\ admins = {}
        /\ UNCHANGED <<configuration, now, admins, sessions, selfRegistered>>
    BY DEF StartCreatesAccount
  <1>3. /\ login' \in LoginTables /\ UniqueNames'
        /\ byName' = NamesOf(login')
        /\ byName' \in
             [Names -> [user : Users, password : Passwords] \union {NoEntry}]
        /\ SessionsFollowCredentials'
        /\ Accounts' = Accounts \union {u} /\ u \notin Accounts
        /\ login'[u] = configuration
    BY <1>1, <1>2, AccountCreated
  <1>4. TypeOK'
    BY <1>2, <1>3 DEF TypeOK, SessionsInv, LoginTables
  <1>5. NamesFollow' /\ Appointment'
    <2>1. u \notin selfRegistered
      BY <1>3 DEF SessionsInv, TypeOK
    <2> QED BY <1>2, <1>3, <2>1 DEF NamesFollow, Appointment, SessionsInv
  <1> QED BY <1>3, <1>4, <1>5 DEF SessionsInv

(* The administrator gets a new login: its sessions end and its old name   *)
(* is gone.                                                                *)
LEMMA LoginRotated ==
  ASSUME SessionsInv, NEW a \in Users, a \in admins, AdministratorToUse(a),
         UpdateAccountCredentials(a), byName' = RotatedNames(a)
  PROVE  /\ login' \in LoginTables /\ UniqueNames'
         /\ byName' = NamesOf(login')
         /\ byName' \in
              [Names -> [user : Users, password : Passwords] \union {NoEntry}]
         /\ sessions' \in [Tokens -> SessionRows \union {NoSession}]
         /\ SessionsFollowCredentials'
         /\ Accounts' = Accounts /\ login'[a] = configuration
  <1>0. login \in LoginTables /\ OneEach(login)
    BY LoginsAreOneEach
  <1>1. configuration \in Logins /\ a \in Accounts /\ login[a] \in Logins
        /\ login[a].name \in Names /\ configuration.name \in Names
    BY <1>0, RowsHaveNames DEF SessionsInv, TypeOK, Accounts, Logins
  <1>2. \A v \in Users \ {a} : login[v].name # configuration.name
    BY <1>0, <1>1, RowsHaveNames
       DEF AdministratorToUse, HasName, Taken, Accounts, OneEach
  <1>3. /\ login' = [login EXCEPT ![a] = configuration]
        /\ sessions' = WithoutSessionsOf(a)
    BY DEF UpdateAccountCredentials
  <1>4. /\ login'[a] = configuration
        /\ \A v \in Users \ {a} : login'[v] = login[v]
    BY <1>0, <1>3 DEF LoginTables
  <1>4a. login' \in LoginTables
    BY <1>0, <1>1, <1>3 DEF LoginTables
  <1>5. /\ login' \in LoginTables /\ OneEach(login')
        /\ \A name \in Names :
             NamesOf(login')[name] =
               IF name = configuration.name THEN Entry(a, configuration.password)
               ELSE IF name = login[a].name THEN NoEntry
               ELSE NamesOf(login)[name]
    BY <1>0, <1>1, <1>2, <1>4, <1>4a, LoginWritten
  <1>6. byName' = NamesOf(login')
    <2>1. byName' = [NamesOf(login) EXCEPT ![login[a].name] = NoEntry,
                                           ![configuration.name] =
                                             Entry(a, configuration.password)]
      BY DEF RotatedNames
    <2>2. ASSUME NEW name \in Names PROVE byName'[name] = NamesOf(login')[name]
      <3>1. /\ NamesOf(login) = [n \in Names |-> NamesOf(login)[n]]
            /\ name \in Names
        BY DEF NamesOf
      <3> HIDE DEF NamesOf
      <3>2. byName'[name] =
              IF name = configuration.name THEN Entry(a, configuration.password)
              ELSE IF name = login[a].name THEN NoEntry
              ELSE NamesOf(login)[name]
        BY <2>1, <3>1, <1>1
      <3> QED BY <3>2, <1>5
    <2>3. byName' = [name \in Names |-> byName'[name]]
      BY <2>1 DEF NamesOf
    <2>4. NamesOf(login') = [name \in Names |-> NamesOf(login')[name]]
      BY DEF NamesOf
    <2> QED BY <2>2, <2>3, <2>4
  <1>7. byName' \in [Names -> [user : Users, password : Passwords] \union {NoEntry}]
    BY <1>5, <1>6, NamesOfTyped
  <1>8. sessions' \in [Tokens -> SessionRows \union {NoSession}]
    BY <1>3 DEF WithoutSessionsOf, SessionsInv, TypeOK
  <1>9. SessionsFollowCredentials'
    <2> SUFFICES ASSUME NEW t \in Tokens, sessions'[t] # NoSession
                 PROVE  login'[sessions'[t].user] = sessions'[t].openedWith
      BY DEF SessionsFollowCredentials
    <2>1. sessions'[t] = sessions[t] /\ sessions[t].user # a
      BY <1>3 DEF WithoutSessionsOf
    <2>2. /\ sessions[t].user \in Users
          /\ login[sessions[t].user] = sessions[t].openedWith
      BY <2>1 DEF SessionsInv, SessionsFollowCredentials, TypeOK, SessionRows
    <2> QED BY <1>4, <2>1, <2>2
  <1>10. Accounts' = Accounts
    <2>1. configuration # NoLogin
      BY <1>1 DEF Logins, NoLogin
    <2> QED BY <1>1, <1>4, <2>1 DEF Accounts
  <1> QED BY <1>4, <1>5, <1>6, <1>7, <1>8, <1>9, <1>10, OneEachIsUnique

LEMMA StartWithAdministratorKeeps ==
  ASSUME SessionsInv, NEW a \in Users, StartWithAdministrator(a)
  PROVE  SessionsInv'
  <1>1. /\ phase = "down" /\ phase' = "up" /\ AdministratorToUse(a) /\ a \in admins
        /\ UNCHANGED <<candidate, configuration, now, admins, selfRegistered>>
    BY DEF StartWithAdministrator, AdministratorToUse
  <1>2. /\ login' \in LoginTables /\ UniqueNames'
        /\ byName' = NamesOf(login')
        /\ byName' \in
             [Names -> [user : Users, password : Passwords] \union {NoEntry}]
        /\ sessions' \in [Tokens -> SessionRows \union {NoSession}]
        /\ SessionsFollowCredentials'
        /\ Accounts' = Accounts /\ login'[a] = configuration
    <2>1. CASE CredentialsDiffer(a)
      BY <2>1, <1>1, LoginRotated DEF StartWithAdministrator
    <2>2. CASE ~CredentialsDiffer(a)
      <3>1. login' = login /\ sessions' = sessions /\ byName' = NamesOf(login)
        BY <2>2 DEF StartWithAdministrator
      <3>2. login \in LoginTables /\ OneEach(login)
        BY LoginsAreOneEach
      <3>3. byName' \in
              [Names -> [user : Users, password : Passwords] \union {NoEntry}]
        BY <3>1, <3>2, NamesOfTyped
      <3> QED BY <2>2, <3>1, <3>2, <3>3
              DEF CredentialsDiffer, SessionsInv, UniqueNames, TypeOK, Accounts,
                  SessionsFollowCredentials
    <2> QED BY <2>1, <2>2
  <1>3. TypeOK'
    BY <1>1, <1>2 DEF TypeOK, SessionsInv, LoginTables
  <1>4. NamesFollow' /\ Appointment'
    BY <1>1, <1>2 DEF NamesFollow, Appointment, SessionsInv
  <1> QED BY <1>2, <1>3, <1>4 DEF SessionsInv

LEMMA SessionsKept == SessionsInv /\ [Next]_vars => SessionsInv'
  <1> SUFFICES ASSUME SessionsInv, [Next]_vars PROVE SessionsInv'
    OBVIOUS
  <1>1. CASE \E u \in Users : StartWithAdministrator(u) \/ StartCreatesAccount(u)
    BY <1>1, StartWithAdministratorKeeps, StartCreatesAccountKeeps
  <1>2. CASE \/ Crash \/ Tick \/ AppointSystemAdministrator
             \/ \E c \in Configurations : Configure(c)
             \/ UNCHANGED vars
    BY <1>2, ProcessStepKeeps
  <1>3. CASE \E u \in Users, l \in Logins : Register(u, l)
    BY <1>3, RegisterKeeps
  <1>4. CASE \E u \in Users, t \in Tokens, typed \in Credentials : LogIn(u, t, typed)
    BY <1>4, LogInKeeps
  <1>5. CASE \E t \in Tokens : LogOut(t)
    BY <1>5, LogOutKeeps
  <1>6. CASE RequireSession
    BY <1>6, RequireSessionKeeps
  <1> QED BY <1>1, <1>2, <1>3, <1>4, <1>5, <1>6 DEF Next, Starting

LEMMA SessionsInvariant == Spec => []SessionsInv
BY SessionsInitial, SessionsKept, PTL DEF Spec

-----------------------------------------------------------------------------
(* Every variable keeps its type. *)
THEOREM SessionsTypeCorrect == Spec => []TypeOK
BY SessionsInvariant, PTL DEF SessionsInv

(* A username belongs to one account, and the names and passwords that     *)
(* work are those of the database, whatever was registered, renamed or     *)
(* restarted (#accountsByUsername, updateAccountCredentials).              *)
THEOREM NamesAgree == Spec => []NamesMatchDatabase
  <1>1. SessionsInv => NamesMatchDatabase
    BY DEF SessionsInv, UniqueNames, NamesFollow, NamesMatchDatabase
  <1> QED BY <1>1, SessionsInvariant, PTL

(* The administrator of a server that serves has the configured login, and *)
(* no account that registered is ever one (#ensureBootstrapAdministrator). *)
THEOREM AdministratorConfigured == Spec => []AdministratorAsConfigured
  <1>1. SessionsInv => AdministratorAsConfigured
    BY DEF SessionsInv, Appointment, AdministratorAsConfigured
  <1> QED BY <1>1, SessionsInvariant, PTL

(* No session survives a change of its account's login. *)
THEOREM SessionsFollow == Spec => []SessionsFollowCredentials
BY SessionsInvariant, PTL DEF SessionsInv

(* A session ends by expiry, by logout or by a change of the login only,   *)
(* through restarts and whoever else's session is looked at                *)
(* (sessionUserId, deleteSession).                                         *)
THEOREM SessionsEndForAReason == Spec => SessionsAreKept
  <1> DEFINE Kept ==
        \A t \in Tokens :
          (sessions[t] # NoSession /\ sessions'[t] = NoSession)
          => \/ Expired(t)
             \/ LogOut(t)
             \/ login'[sessions[t].user] # login[sessions[t].user]
  <1>1. SessionsInv /\ [Next]_vars => Kept
    <2> SUFFICES ASSUME SessionsInv, [Next]_vars, NEW t \in Tokens,
                        sessions[t] # NoSession, sessions'[t] = NoSession
                 PROVE  \/ Expired(t)
                        \/ LogOut(t)
                        \/ login'[sessions[t].user] # login[sessions[t].user]
      OBVIOUS
    <2>1. /\ login \in LoginTables
          /\ sessions \in [Tokens -> SessionRows \union {NoSession}]
      BY LoginsAreOneEach DEF SessionsInv, TypeOK
    <2>2. CASE \E a \in Users : StartWithAdministrator(a)
      <3>1. PICK a \in Users : StartWithAdministrator(a)
        BY <2>2
      <3>2. CredentialsDiffer(a) /\ UpdateAccountCredentials(a)
        BY <3>1 DEF StartWithAdministrator
      <3>3. sessions[t].user = a
        BY <3>2 DEF UpdateAccountCredentials, WithoutSessionsOf
      <3> QED BY <2>1, <3>2, <3>3
              DEF UpdateAccountCredentials, CredentialsDiffer, LoginTables
    <2>3. CASE \E s \in Tokens : LogOut(s)
      <3>1. PICK s \in Tokens : LogOut(s)
        BY <2>3
      <3>2. s = t
        BY <2>1, <3>1 DEF LogOut
      <3> QED BY <3>1, <3>2
    <2>4. CASE RequireSession \/ \E u \in Users, s \in Tokens, typed \in Credentials :
                                   LogIn(u, s, typed)
      <3>1. WithoutExpired[t] = NoSession
        BY <2>4 DEF RequireSession, LogIn, WithoutExpired
      <3> QED BY <3>1 DEF WithoutExpired
    <2>5. CASE UNCHANGED sessions
      BY <2>5
    <2> QED BY <2>2, <2>3, <2>4, <2>5
            DEF Next, Starting, StartCreatesAccount, AppointSystemAdministrator,
                Crash, Tick, Configure, Register, vars, database
  <1> QED BY <1>1, SessionsInvariant, PTL DEF Spec, SessionsAreKept
=============================================================================
