--------------------------- MODULE AccountSessions ---------------------------
(***************************************************************************)
(* Accounts, their logins and their sessions: registration, login, logout, *)
(* expiry, and the start of the server, which brings the account of the    *)
(* system administrator in line with its configuration.  Accounts and      *)
(* sessions are in the database and outlive the process; the names that a  *)
(* login is looked up in are in memory.                                    *)
(*                                                                         *)
(* A login is a username, a password and a display name, which the code    *)
(* replaces together; salts and hashes are left out, and tokens are never  *)
(* guessed.  A token stands for a new one when its row is gone.            *)
(***************************************************************************)
EXTENDS Naturals, FiniteSets

CONSTANTS
  Users, Names, Passwords, DisplayNames, Tokens,
  Configurations,      \* the administrator logins that an operator configures
  SessionTtl,          \* sessionTtlMs, in instants
  MaxTime,             \* bound: the last instant of the clock
  NoUser, NoName, NoPassword, NoDisplayName

(* What an account has, and what somebody who logs in types.               *)
Logins == [name : Names, password : Passwords, display : DisplayNames]
Credentials == [name : Names, password : Passwords]

ASSUME ConfigurationsAssumption == Configurations \subseteq Logins
ASSUME SessionTtlAssumption == SessionTtl \in Nat \ {0}
ASSUME MaxTimeAssumption == MaxTime \in Nat
ASSUME NoUserAssumption == NoUser \notin Users
ASSUME NoNameAssumption == NoName \notin Names

VARIABLES
  phase,               \* the process: "down", "appointing", "up"
  candidate,           \* the account the constructor is about to appoint
  configuration,       \* INFORMATION_FLOW_ADMIN_USERNAME, ..._PASSWORD, ...
  now,
  login,               \* table accounts, NoLogin if no row
  admins,              \* table system_administrators
  sessions,            \* table login_sessions, NoSession if no row
  byName,              \* #accountsByUsername
  selfRegistered       \* accounts that came from register

database == <<login, admins, sessions>>
vars == <<phase, candidate, configuration, now, database, byName,
          selfRegistered>>

NoLogin ==
  [name |-> NoName, password |-> NoPassword, display |-> NoDisplayName]
NoSession == [user |-> NoUser]
NoEntry == [user |-> NoUser]
Entry(u, password) == [user |-> u, password |-> password]

(* openedWith, the login of the account when the session was opened, is    *)
(* not in the row: it is kept to state what a change of it must do.        *)
Session(u) ==
  [user |-> u, expiresAt |-> now + SessionTtl, openedWith |-> login[u]]
Expired(t) == sessions[t] # NoSession /\ sessions[t].expiresAt <= now

(* sessionUserId deletes the expired sessions, whoever asks. *)
WithoutExpired == [t \in Tokens |-> IF Expired(t) THEN NoSession ELSE sessions[t]]
WithoutSessionsOf(a) ==
  [t \in Tokens |-> IF sessions[t].user = a THEN NoSession ELSE sessions[t]]

Accounts == {u \in Users : login[u] # NoLogin}
HasName(u, name) == u \in Accounts /\ login[u].name = name

Init ==
  /\ phase = "down" /\ candidate = NoUser
  /\ configuration \in Configurations
  /\ now = 0
  /\ login = [u \in Users |-> NoLogin]
  /\ admins = {}
  /\ sessions = [t \in Tokens |-> NoSession]
  /\ byName = [name \in Names |-> NoEntry]
  /\ selfRegistered = {}

-----------------------------------------------------------------------------
(* Process start: #hydrateFoundation and #ensureBootstrapAdministrator.    *)

(* #accountsByUsername after hydration, from given accounts. *)
NamesOf(logins) ==
  [name \in Names |->
     IF \E u \in Users : logins[u].name = name
     THEN LET u == CHOOSE u \in Users : logins[u].name = name
          IN Entry(u, logins[u].password)
     ELSE NoEntry]

Taken(name) == \E u \in Users : HasName(u, name)

(* The administrator of that name or, if nobody has the name, the only     *)
(* administrator on record, to be renamed.  An ordinary account of that    *)
(* name makes the constructor throw: no step.                              *)
AdministratorToUse(a) ==
  /\ a \in admins
  /\ \/ HasName(a, configuration.name)
     \/ ~Taken(configuration.name) /\ admins = {a}

(* Variant: the old name is left in memory.                                *)
RotatedNamesKeepingOld(a) ==
  [NamesOf(login) EXCEPT ![configuration.name] =
                           Entry(a, configuration.password)]

(* #accountsByUsername.delete(old name), then set(new name). *)
RotatedNames(a) ==
  [NamesOf(login) EXCEPT ![login[a].name] = NoEntry,
                         ![configuration.name] =
                           Entry(a, configuration.password)]

(* Variant: the credentials are written at every start. *)
RotateAlways(a) == TRUE

(* Variant: only a new name is noticed. *)
RotateOnRename(a) == login[a].name # configuration.name

CredentialsDiffer(a) == login[a] # configuration

(* Variant: the sessions outlive the credentials. *)
UpdateLoginOnly(a) ==
  /\ login' = [login EXCEPT ![a] = configuration]
  /\ UNCHANGED sessions

(* The transaction of updateAccountCredentials. *)
UpdateAccountCredentials(a) ==
  /\ login' = [login EXCEPT ![a] = configuration]
  /\ sessions' = WithoutSessionsOf(a)

(* Variant: an ordinary account that has the name is appointed. *)
StartPromotes(a) ==
  /\ phase = "down" /\ HasName(a, configuration.name)
  /\ UpdateAccountCredentials(a) /\ byName' = RotatedNames(a)
  /\ phase' = "up"
  /\ admins' = admins \union {a}
  /\ UNCHANGED <<candidate, configuration, now, selfRegistered>>

(* #createAccount: the row, and the name where logins are looked up. *)
CreateAccount(u, l, names) ==
  /\ u \notin Accounts
  /\ login' = [login EXCEPT ![u] = l]
  /\ byName' = [names EXCEPT ![l.name] = Entry(u, l.password)]

StartWithAdministrator(a) ==
  /\ phase = "down" /\ AdministratorToUse(a)
  /\ IF CredentialsDiffer(a)
     THEN UpdateAccountCredentials(a) /\ byName' = RotatedNames(a)
     ELSE UNCHANGED <<login, sessions>> /\ byName' = NamesOf(login)
  /\ phase' = "up"
  /\ UNCHANGED <<candidate, configuration, now, admins, selfRegistered>>

StartCreatesAccount(u) ==
  /\ phase = "down"
  /\ ~Taken(configuration.name) /\ admins = {}
  /\ CreateAccount(u, configuration, NamesOf(login))
  /\ phase' = "appointing" /\ candidate' = u
  /\ UNCHANGED <<configuration, now, admins, sessions, selfRegistered>>

(* Variant: the candidate is forgotten before it is appointed. *)
AppointForgotten ==
  /\ phase = "appointing"
  /\ phase' = "up" /\ candidate' = NoUser
  /\ admins' = admins \union {candidate'}
  /\ UNCHANGED <<configuration, now, login, sessions, byName, selfRegistered>>

AppointSystemAdministrator ==
  /\ phase = "appointing"
  /\ admins' = admins \union {candidate}
  /\ phase' = "up" /\ candidate' = NoUser
  /\ UNCHANGED <<configuration, now, login, sessions, byName, selfRegistered>>

(* Bound: a bootstrap dies half way only while an id is left for the next. *)
Crash ==
  /\ phase # "down"
  /\ phase = "appointing" => Accounts # Users
  /\ phase' = "down" /\ candidate' = NoUser
  /\ byName' = [name \in Names |-> NoEntry]
  /\ UNCHANGED <<configuration, now, database, selfRegistered>>

(* The operator edits the configuration before the next start. *)
Configure(c) ==
  /\ phase = "down" /\ configuration # c
  /\ configuration' = c
  /\ UNCHANGED <<phase, candidate, now, database, byName, selfRegistered>>

Tick ==
  /\ now < MaxTime
  /\ now' = now + 1
  /\ UNCHANGED <<phase, candidate, configuration, database, byName,
                 selfRegistered>>

-----------------------------------------------------------------------------
Register(u, l) ==
  /\ phase = "up" /\ byName[l.name] = NoEntry
  /\ CreateAccount(u, l, byName)
  /\ selfRegistered' = selfRegistered \union {u}
  /\ UNCHANGED <<phase, candidate, configuration, now, admins, sessions>>

(* #authenticateAccount *)
Authenticates(u, typed) == byName[typed.name] = Entry(u, typed.password)

(* The answer is the dashboard, which looks the session up.  A login as    *)
(* administrator is the same with one condition more.                      *)
LogIn(u, t, typed) ==
  /\ phase = "up" /\ Authenticates(u, typed)
  /\ sessions[t] = NoSession
  /\ sessions' = [WithoutExpired EXCEPT ![t] = Session(u)]
  /\ UNCHANGED <<phase, candidate, configuration, now, login, admins, byName,
                 selfRegistered>>

LogOut(t) ==
  /\ phase = "up" /\ sessions[t] # NoSession
  /\ sessions' = [sessions EXCEPT ![t] = NoSession]
  /\ UNCHANGED <<phase, candidate, configuration, now, login, admins, byName,
                 selfRegistered>>

(* Any request that carries a token: #requireSession. *)
RequireSession ==
  /\ phase = "up"
  /\ sessions' = WithoutExpired
  /\ UNCHANGED <<phase, candidate, configuration, now, login, admins, byName,
                 selfRegistered>>

-----------------------------------------------------------------------------
Starting ==
  \/ \E u \in Users : StartWithAdministrator(u) \/ StartCreatesAccount(u)
  \/ AppointSystemAdministrator

Next ==
  \/ Starting \/ Crash \/ Tick
  \/ \E c \in Configurations : Configure(c)
  \/ \E u \in Users, l \in Logins : Register(u, l)
  \/ \E u \in Users, t \in Tokens, typed \in Credentials : LogIn(u, t, typed)
  \/ \E t \in Tokens : LogOut(t)
  \/ RequireSession

Spec == Init /\ [][Next]_vars

(* start.sh is run until the server serves. *)
FairSpec == Spec /\ WF_vars(Starting)

-----------------------------------------------------------------------------
SessionRows ==
  [user : Users, expiresAt : 0..(MaxTime + SessionTtl), openedWith : Logins]

TypeOK ==
  /\ phase \in {"down", "appointing", "up"}
  /\ candidate \in IF phase = "appointing" THEN Users ELSE {NoUser}
  /\ configuration \in Configurations
  /\ now \in 0..MaxTime
  /\ login \in [Users -> Logins \union {NoLogin}]
  /\ admins \subseteq Accounts
  /\ sessions \in [Tokens -> SessionRows \union {NoSession}]
  /\ byName \in [Names -> [user : Users, password : Passwords] \union {NoEntry}]
  /\ selfRegistered \subseteq Accounts

(* A username belongs to one account, and the names that logins are looked *)
(* up in are those of the database, through registrations, restarts and a  *)
(* change of the administrator's name: no old name or password works.      *)
NamesMatchDatabase ==
  /\ \A u, v \in Accounts : login[u].name = login[v].name => u = v
  /\ phase = "up" => byName = NamesOf(login)

(* While the server serves, its one administrator has the login that is    *)
(* configured; and registration never leads to administration              *)
(* (README.md:122), whatever name the account has and whatever is          *)
(* configured later.                                                       *)
AdministratorAsConfigured ==
  /\ phase = "up" => \E a \in admins : admins = {a} /\ login[a] = configuration
  /\ admins \cap selfRegistered = {}

(* A session lives only while its account is as it was when the session    *)
(* was opened: none survives a change of the administrator's login.        *)
SessionsFollowCredentials ==
  \A t \in Tokens :
    sessions[t] # NoSession => login[sessions[t].user] = sessions[t].openedWith

(* A session outlives restarts: it ends by expiry, logout or a change of   *)
(* its account's login only.                                               *)
SessionsAreKept ==
  [][\A t \in Tokens :
       (sessions[t] # NoSession /\ sessions'[t] = NoSession)
       => \/ Expired(t)
          \/ LogOut(t)
          \/ login'[sessions[t].user] # login[sessions[t].user]]_vars

(* The application is restartable (README.md:16): if the process dies      *)
(* finitely often and its configuration stays as it is, it serves again.   *)
IsRestartable ==
  <>[][phase # "down" => phase' # "down"]_vars => <>[](phase = "up")
=============================================================================
