------------------------------- MODULE WebPage -------------------------------
(***************************************************************************)
(* The page (web/app.js) and the HTTP server (src/demo-server.ts) between  *)
(* it and the platform.  Requests are under way at the same time: nothing  *)
(* is disabled while the page is busy.  A request reaches the server with  *)
(* the cookie that the browser had when it was sent, the server reads its  *)
(* body and then serves it in one go, and its answer arrives after those   *)
(* of later requests, or not at all.                                       *)
(*                                                                         *)
(* The platform is as far here as the page can tell: sessions, and the     *)
(* purchases of each account, of which a replacement may be requested      *)
(* once.  CaseLifecycle and AccountSessions say what it does in full.      *)
(*                                                                         *)
(* The page is not alone: the session ends on the server, the browser      *)
(* drops the cookie, another tab that shares the cookie logs in or out,    *)
(* and the accounts buy and ask for replacements in other browsers.        *)
(***************************************************************************)
EXTENDS Naturals, FiniteSets

CONSTANTS
  Accounts,
  Administrator,
  MaxRequests,         \* bound: requests of the page
  MaxNumber,           \* bound: the last number of a purchase
  MaxEpochs,           \* bound: restarts
  NoUser

ASSUME AdministratorIsAnAccount == Administrator \in Accounts
ASSUME NoUserIsNoAccount == NoUser \notin Accounts
(* There is room for the first request of the page and its dashboard.      *)
ASSUME BoundsAreNumbers ==
  {MaxRequests, MaxNumber, MaxEpochs} \subseteq Nat /\ MaxRequests >= 2

VARIABLES
  session,             \* table sessions: the account of each live token
  opened,              \* the account that each token was made for
  owner,               \* #purchases of the platform: the buyer of each
  requested,           \* those with a supportCaseId
  epoch,               \* how often the server was started again
  cookie,              \* the session cookie of the browser, 0 if none
  page,                \* the view, and the dashboard it shows
  busy,                \* state.busy
  request,             \* the requests of the page, in the order of sending
  overlapped           \* two of them have been under way at once, or another
                       \* tab has logged in (history)

server == <<session, opened, owner, requested, epoch>>
browser == <<cookie, page, busy>>
vars == <<server, browser, request, overlapped>>

Requests == 1..MaxRequests
Tokens == Requests     \* named after the login that made it; 1: an earlier one
Numbers == 1..MaxNumber

Kinds == {"session", "dashboard", "register", "login", "administrator-login",
          "administrator-logout", "logout", "buy", "request-support"}

(* What a request does on the server ("effect"), and what is answered:     *)
(* "ok", "refused" (a 4xx), "failed" (a 500); or "lost", and the page gets *)
(* an error of the network.                                                *)
NoRequest == [kind |-> "none", account |-> NoUser, number |-> 0, token |-> 0,
              status |-> "none", result |-> "none", effect |-> FALSE,
              shows |-> NoUser, cards |-> {}, epoch |-> 0]

(* The page when the view is that of the login forms. *)
AuthView == [account |-> NoUser, cards |-> {}, epoch |-> 0]

UnderWay(r) == request[r].status \in {"sent", "answered"}
Idle == \A r \in Requests : ~UnderWay(r)
Sent == {r \in Requests : request[r] # NoRequest}

(* Within the bound, an answer finds room for the request of its handler. *)
GoingOn == {r \in Sent : /\ request[r].kind \in {"session", "administrator-login"}
                         /\ UnderWay(r)}
Room == MaxRequests - Cardinality(Sent) - Cardinality(GoingOn)

(* The hour of the cookie's Max-Age is over, by the clock of the browser:  *)
(* the page is not told, and nothing sees it before the next request.      *)
BrowserDropsCookie == cookie' = 0

NewRequest(r, kind, account, number) ==
  /\ r = Cardinality(Sent) + 1
  /\ Room >= (IF kind = "administrator-login" THEN 2 ELSE 1)
  /\ cookie' = cookie \/ (page.account # NoUser /\ BrowserDropsCookie)
  /\ request' = [request EXCEPT
       ![r] = [NoRequest EXCEPT !.kind = kind, !.account = account,
                                !.number = number, !.token = cookie',
                                !.status = "sent"]]
  /\ overlapped' = (overlapped \/ ~Idle)

(* The page is loaded: it asks for its session, which may be there from an *)
(* earlier visit.                                                          *)
Init ==
  /\ \E account \in Accounts \union {NoUser} :
       /\ session = [t \in Tokens |-> IF t = 1 THEN account ELSE NoUser]
       /\ opened = session
       /\ cookie = IF account = NoUser THEN 0 ELSE 1
  /\ owner = [n \in Numbers |-> NoUser]
  /\ requested = {}
  /\ epoch = 0
  /\ page = AuthView /\ busy = FALSE
  /\ request = [r \in Requests |->
       IF r = 1 THEN [NoRequest EXCEPT !.kind = "session", !.token = cookie,
                                       !.status = "sent"]
       ELSE NoRequest]
  /\ overlapped = FALSE

-----------------------------------------------------------------------------
(* The user: the forms of the view that is shown.  setBusy(true) comes     *)
(* before the request.                                                     *)
Use(r) ==
  /\ \/ /\ page.account = NoUser
        /\ \/ NewRequest(r, "register", NoUser, 0)
           \/ \E account \in Accounts :
                \E kind \in {"login", "administrator-login"} :
                  NewRequest(r, kind, account, 0)
     \/ /\ page.account # NoUser
        /\ \/ NewRequest(r, "logout", NoUser, 0)
           \/ NewRequest(r, "buy", NoUser, 0)
           \/ \E n \in page.cards : NewRequest(r, "request-support", NoUser, n)
  /\ busy' = TRUE
  /\ UNCHANGED <<server, page>>

-----------------------------------------------------------------------------
(* The server. *)

(* requireToken, #requireUser: the account of the session, or NoUser. *)
UserOf(r) ==
  IF request[r].token = 0 THEN NoUser ELSE session[request[r].token]

Answers(r, result, effect, account, cards) ==
  request' = [request EXCEPT
    ![r] = [request[r] EXCEPT !.status = "answered", !.result = result,
                              !.effect = effect, !.shows = account,
                              !.cards = cards, !.epoch = epoch]]

(* dashboard(): the purchases whose card has the button "Replacement". *)
CardsOf(account, owners, used) ==
  {n \in Numbers : owners[n] = account /\ account # NoUser} \ used

(* A handler that changes something: it may end with the dashboard; with   *)
(* 401, if the session expired between requireUser and dashboard; or with  *)
(* 500, if a row of the inbox could not be written.                        *)
EndsAfterEffect(r, account, owners, used) ==
  /\ owner' = owners /\ requested' = used
  /\ \/ /\ Answers(r, "ok", TRUE, account, CardsOf(account, owners, used))
        /\ UNCHANGED session
     \/ /\ Answers(r, "refused", TRUE, NoUser, {})
        /\ session' = [session EXCEPT ![request[r].token] = NoUser]
     \/ /\ Answers(r, "failed", TRUE, NoUser, {})
        /\ UNCHANGED session
  /\ UNCHANGED <<opened, epoch>>

Refuses(r) ==
  /\ Answers(r, "refused", FALSE, NoUser, {})
  /\ UNCHANGED server

(* The domain system throws (CaseLifecycle, RequestSupportRefused). *)
Fails(r) ==
  /\ Answers(r, "failed", FALSE, NoUser, {})
  /\ UNCHANGED server

(* The number after the last one: numbers start again with the server. *)
NextNumber == Cardinality({n \in Numbers : owner[n] # NoUser}) + 1

(* Within the bound; the product may also have no seller.                  *)
ServeBuy(r) ==
  /\ request[r].kind = "buy"
  /\ \/ /\ UserOf(r) \notin {NoUser, Administrator}
        /\ NextNumber \in Numbers
        /\ EndsAfterEffect(r, UserOf(r),
                           [owner EXCEPT ![NextNumber] = UserOf(r)], requested)
     \/ Refuses(r)

(* Variant: a purchase is looked up without a look at its buyer. *)
AnyPurchase(r) ==
  UserOf(r) # NoUser /\ owner[request[r].number] # NoUser

(* requireUser, #requireOwnedPurchase *)
OwnedPurchase(r) ==
  UserOf(r) # NoUser /\ owner[request[r].number] = UserOf(r)

(* The thirty days may be over, or there may be no handler. *)
ServeRequestSupport(r) ==
  LET n == request[r].number
      accepted == OwnedPurchase(r) /\ n \notin requested
  IN
  /\ request[r].kind = "request-support"
  /\ \/ accepted /\ EndsAfterEffect(r, UserOf(r), owner, requested \union {n})
     \/ accepted /\ Fails(r)
     \/ Refuses(r)

(* Both login forms send /api/login.  The username or password may be      *)
(* wrong.                                                                  *)
ServeLogin(r) ==
  /\ request[r].kind \in {"login", "administrator-login"}
  /\ \/ /\ LET account == request[r].account IN
           /\ session' = [session EXCEPT ![r] = account]
           /\ opened' = [opened EXCEPT ![r] = account]
           /\ Answers(r, "ok", TRUE, account, CardsOf(account, owner, requested))
        /\ UNCHANGED <<owner, requested, epoch>>
     \/ Refuses(r)

ServeLogout(r) ==
  /\ request[r].kind \in {"logout", "administrator-logout"}
  /\ session' = [t \in Tokens |->
       IF t = request[r].token THEN NoUser ELSE session[t]]
  /\ Answers(r, "ok", TRUE, NoUser, {})
  /\ UNCHANGED <<opened, owner, requested, epoch>>

(* The account is made elsewhere (AccountSessions). *)
ServeRegister(r) ==
  /\ request[r].kind = "register"
  /\ \/ Answers(r, "ok", TRUE, NoUser, {}) /\ UNCHANGED server
     \/ Refuses(r)

(* GET /api/session names the account, or nobody; GET /api/dashboard is    *)
(* refused without a session.                                              *)
ServeRead(r) ==
  /\ request[r].kind \in {"session", "dashboard"}
  /\ IF request[r].kind = "dashboard" /\ UserOf(r) = NoUser THEN Refuses(r)
     ELSE /\ Answers(r, "ok", FALSE, UserOf(r),
                     CardsOf(UserOf(r), owner, requested))
          /\ UNCHANGED server

Serve(r) ==
  /\ request[r].status = "sent"
  /\ \/ ServeBuy(r) \/ ServeRequestSupport(r) \/ ServeLogin(r)
     \/ ServeLogout(r) \/ ServeRegister(r) \/ ServeRead(r)
  /\ UNCHANGED <<browser, overlapped>>

(* Of a session that the browser has left nothing more is seen. *)
Expire(t) ==
  /\ session[t] # NoUser
  /\ t = cookie \/ \E r \in Requests : UnderWay(r) /\ request[r].token = t
  /\ session' = [session EXCEPT ![t] = NoUser]
  /\ UNCHANGED <<opened, owner, requested, epoch, browser, request, overlapped>>

(* An account buys in another browser. *)
BuyElsewhere(account) ==
  /\ account # Administrator
  /\ NextNumber \in Numbers
  /\ owner' = [owner EXCEPT ![NextNumber] = account]
  /\ UNCHANGED <<session, opened, requested, epoch, browser, request, overlapped>>

(* An account asks for a replacement in another browser. *)
RequestElsewhere(n) ==
  /\ owner[n] # NoUser /\ n \notin requested
  /\ requested' = requested \union {n}
  /\ UNCHANGED <<session, opened, owner, epoch, browser, request, overlapped>>

(* Another tab with the same cookie logs in, in one go: its request counts *)
(* as one of the bound.  (Behind the login forms nothing looks at the      *)
(* cookie but the request that follows the first one.)                     *)
LoginInAnotherTab(r, account) ==
  /\ \/ page.account # NoUser
     \/ \E q \in Requests : UnderWay(q) /\ request[q].kind = "session"
  /\ r = Cardinality(Sent) + 1 /\ Room >= 1
  /\ session' = [session EXCEPT ![r] = account]
  /\ opened' = [opened EXCEPT ![r] = account]
  /\ cookie' = r
  /\ request' = [request EXCEPT
       ![r] = [NoRequest EXCEPT !.kind = "login", !.status = "over",
                                !.result = "ok", !.effect = TRUE]]
  /\ overlapped' = TRUE
  /\ UNCHANGED <<owner, requested, epoch, page, busy>>

(* The server is started again: sessions are in the database, purchases    *)
(* are not.                                                                *)
Restart ==
  /\ epoch < MaxEpochs
  /\ epoch' = epoch + 1
  /\ owner' = [n \in Numbers |-> NoUser] /\ requested' = {}
  /\ UNCHANGED <<session, opened, browser, request, overlapped>>

-----------------------------------------------------------------------------
(* The answer arrives, or the page is told that none will: the request was *)
(* lost on its way to the server, or the answer was on its way back.       *)
Outcomes(r) ==
  IF request[r].status = "sent" THEN {"lost"} ELSE {request[r].result, "lost"}

(* Variant: the answer to a refused login sets a cookie, too. *)
CookieAfterAnyLogin(r, result) ==
  CASE request[r].kind = "login" /\ result \in {"ok", "refused"} -> r
    [] request[r].kind = "logout" /\ result = "ok" -> 0
    [] OTHER -> cookie

(* The cookie that the answer sets. *)
CookieAfter(r, result) ==
  IF result # "ok" THEN cookie
  ELSE CASE request[r].kind \in {"login", "administrator-login"} -> r
         [] request[r].kind \in {"logout", "administrator-logout"} -> 0
         [] OTHER -> cookie

(* What is no longer needed of a request is forgotten. *)
Over(r, result) ==
  LET kept == request[r].kind \in {"buy", "request-support"} IN
  [request EXCEPT ![r] = [request[r] EXCEPT
     !.status = "over", !.account = NoUser, !.shows = NoUser, !.cards = {},
     !.token = IF kept \/ request[r].kind \in {"logout", "administrator-logout"}
               THEN @ ELSE 0,
     !.epoch = IF kept THEN @ ELSE 0,
     !.result = IF kept \/ result = "ok" THEN result ELSE "failed"]]

(* Variant: the cards of the last dashboard are not removed. *)
RendersBelow(r) ==
  /\ page' = [account |-> request[r].shows, epoch |-> request[r].epoch,
              cards |-> page.cards \union request[r].cards]
  /\ busy' = FALSE

(* renderDashboard *)
Renders(r) ==
  /\ page' = [account |-> request[r].shows, cards |-> request[r].cards,
              epoch |-> request[r].epoch]
  /\ busy' = FALSE

ShowAuth == page' = AuthView

(* Variant: the catch of the administrator form does not end the wait. *)
EndsInErrorBusily(kind) ==
  busy' = (kind = "administrator-logout" /\ busy) /\ UNCHANGED page

(* An error is told in a toast. *)
EndsInError(kind) == busy' = FALSE /\ UNCHANGED page

(* The handler of an answer that leads to no other request. *)
Settles(r, result) ==
  LET kind == request[r].kind
      shows == request[r].shows
  IN
  /\ request' = Over(r, result) /\ UNCHANGED overlapped
  /\ IF result = "ok"
     THEN \/ /\ kind \in {"login", "buy", "request-support", "dashboard"}
             /\ Renders(r)
          \/ /\ kind = "administrator-login" /\ shows = Administrator
             /\ Renders(r)
          \/ kind \in {"logout", "register"} /\ ShowAuth /\ busy' = FALSE
          \/ kind = "session" /\ shows = NoUser /\ ShowAuth /\ UNCHANGED busy
          \/ kind = "administrator-logout" /\ EndsInError(kind)
     ELSE IF kind \in {"session", "dashboard"} THEN ShowAuth /\ UNCHANGED busy
     ELSE EndsInError(kind)

(* The handler goes on with a request of its own, with the cookie that the *)
(* answer has set: an ordinary account is logged out of the administrator  *)
(* form, and a page with a session asks for its dashboard.                 *)
GoesOn(r, kind) ==
  /\ \/ kind = "dashboard" /\ request[r].kind = "session"
        /\ request[r].shows # NoUser
     \/ kind = "administrator-logout" /\ request[r].kind = "administrator-login"
        /\ request[r].shows # Administrator
  /\ \/ cookie' = CookieAfter(r, "ok")
     \/ kind = "dashboard" /\ BrowserDropsCookie
  /\ request' = [Over(r, "ok") EXCEPT
       ![Cardinality(Sent) + 1] =
         [NoRequest EXCEPT !.kind = kind, !.token = cookie', !.status = "sent"]]
  /\ overlapped' = (overlapped \/ \E s \in Requests \ {r} : UnderWay(s))
  /\ UNCHANGED <<page, busy>>

Arrive(r) ==
  /\ UnderWay(r)
  /\ \E result \in Outcomes(r) :
       \/ cookie' = CookieAfter(r, result) /\ Settles(r, result)
       \/ /\ result = "ok"
          /\ \E kind \in {"administrator-logout", "dashboard"} : GoesOn(r, kind)
  /\ UNCHANGED server

-----------------------------------------------------------------------------
(* The requests of the bound have been made. *)
Done ==
  /\ Idle /\ Room = 0
  /\ UNCHANGED vars

Next ==
  \/ \E r \in Requests : Use(r) \/ Serve(r) \/ Arrive(r)
  \/ \E t \in Tokens : Expire(t)
  \/ \E account \in Accounts :
       \/ BuyElsewhere(account)
       \/ \E r \in Requests : LoginInAnotherTab(r, account)
  \/ \E n \in Numbers : RequestElsewhere(n)
  \/ Restart \/ Done

Spec == Init /\ [][Next]_vars

-----------------------------------------------------------------------------
TypeOK ==
  /\ session \in [Tokens -> Accounts \union {NoUser}]
  /\ opened \in [Tokens -> Accounts \union {NoUser}]
  /\ \A t \in Tokens : session[t] \in {opened[t], NoUser}
  /\ owner \in [Numbers -> Accounts \union {NoUser}]
  /\ requested \subseteq {n \in Numbers : owner[n] # NoUser}
  /\ epoch \in 0..MaxEpochs
  /\ cookie \in {0} \union {t \in Tokens : opened[t] # NoUser}
  /\ page \in [account : Accounts \union {NoUser}, cards : SUBSET Numbers,
               epoch : 0..MaxEpochs]
  /\ busy \in BOOLEAN /\ overlapped \in BOOLEAN
  /\ request \in [Requests ->
       [kind : Kinds \union {"none"}, account : Accounts \union {NoUser},
        number : 0..MaxNumber, token : 0..MaxRequests,
        status : {"none", "sent", "answered", "over"},
        result : {"none", "ok", "refused", "failed", "lost"},
        effect : BOOLEAN, shows : Accounts \union {NoUser},
        cards : SUBSET Numbers, epoch : 0..MaxEpochs]]

Changing == {r \in Sent : /\ request[r].kind \in {"buy", "request-support"}
                          /\ request[r].status # "sent"}

(* What the page is told of a purchase or a replacement request is what    *)
(* happened, although the handler checks the session twice and writes to   *)
(* two stores: success is never claimed for nothing, and a refusal means   *)
(* that nothing was done, unless the session is over and the user has to   *)
(* log in again anyway.  A 500 or an error of the network leaves it open;  *)
(* even so a button that is pressed twice, or again after an error,        *)
(* requests one replacement, and only for a purchase of the account whose  *)
(* session sent it, also when the card is from before a restart.           *)
AnswersAreHonest ==
  \A r \in Changing :
    /\ request[r].result = "ok" => request[r].effect
    /\ request[r].result = "refused" /\ request[r].effect =>
         session[request[r].token] = NoUser
    /\ request[r].kind = "request-support" /\ request[r].effect =>
         /\ request[r].epoch = epoch =>
              owner[request[r].number] = opened[request[r].token]
         /\ \A q \in Changing :
              /\ request[q].kind = "request-support" /\ request[q].effect
              /\ request[q].number = request[r].number
              /\ request[q].epoch = request[r].epoch
              => q = r

(* The replacements that this page has requested since the last start. *)
RequestedHere ==
  {request[r].number : r \in {q \in Changing :
     /\ request[q].kind = "request-support" /\ request[q].effect
     /\ request[q].epoch = epoch}}

(* As long as requests have not overlapped and no other tab has logged in, *)
(* the page shows the account that the cookie of the browser acts for,     *)
(* after errors and expiries too, until the browser drops the cookie (the  *)
(* page goes on showing its dashboard then).  After an answer without an   *)
(* error it offers a replacement only for purchases of that account, and   *)
(* only where it has requested none itself, lost answers included, as long *)
(* as the server was not started again; what another browser has requested *)
(* since, the page cannot know.  After a logout, or when an ordinary       *)
(* account was turned away from the administrator's form, the session that *)
(* was logged out is over.  With two requests under way this is lost: an   *)
(* answer that comes late renders its dashboard (renderDashboard) over     *)
(* whatever the page shows by then.                                        *)
SequentialPageIsCurrent ==
  ~overlapped /\ Idle =>
    LET last == request[Cardinality(Sent)] IN
    /\ page.account # NoUser /\ cookie # 0 => opened[cookie] = page.account
    /\ page.account # NoUser /\ last.result = "ok" /\ page.epoch = epoch =>
         /\ \A n \in page.cards : owner[n] = page.account
         /\ page.cards \intersect RequestedHere = {}
    /\ last.kind \in {"logout", "administrator-logout"} /\ last.result = "ok" =>
         /\ page = AuthView /\ cookie = 0
         /\ last.token # 0 => session[last.token] = NoUser

(* The page is not busy for nothing: each handler ends the wait on every   *)
(* way out, the second request of the administrator form included.         *)
BusyMeansWaiting == busy => ~Idle
=============================================================================
