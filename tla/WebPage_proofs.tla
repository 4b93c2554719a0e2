---------------------------- MODULE WebPage_proofs ----------------------------
(***************************************************************************)
(* The page and the server, for any number of accounts, requests, products *)
(* and restarts, with answers in any order or lost, and with other tabs    *)
(* and other browsers of the same accounts.                                *)
(***************************************************************************)
EXTENDS WebPage, Integers, FiniteSetTheorems, TLAPS

USE NoUserIsNoAccount, AdministratorIsAnAccount, BoundsAreNumbers

-----------------------------------------------------------------------------
(* The inductive invariant. *)

Logins == {"login", "administrator-login"}
Logouts == {"logout", "administrator-logout"}

(* The number of the last request that was sent. *)
Last == Cardinality(Sent)

(* Requests are made one after the other, the session of the page first,   *)
(* and there is room for what the handlers of their answers will send.     *)
OneByOne ==
  /\ Sent = 1..Last /\ Last \in 1..MaxRequests
  /\ \A r \in Requests : request[r].status = "none" => request[r] = NoRequest
  /\ request[1].kind = "session"

HasRoom == Last + Cardinality(GoingOn) <= MaxRequests

(* A token is named after the login that made it, and nobody carries one   *)
(* that is not there yet.                                                  *)
Opened == {t \in Tokens : opened[t] # NoUser}

TokensAreOpened ==
  /\ \A t \in Opened \ {1} :
       request[t].kind \in Logins /\ request[t].status \in {"answered", "over"}
  /\ \A r \in Requests : request[r].token \in {0} \union Opened

(* What the page puts into a request. *)
RequestsAreMeant ==
  \A r \in Requests :
    /\ request[r].kind = "request-support" => request[r].number \in Numbers
    /\ request[r].kind \in Logins /\ request[r].status = "sent" =>
         request[r].account \in Accounts
    /\ request[r].status = "sent" =>
         ~request[r].effect /\ request[r].result = "none"

(* Whose dashboard an answer is. *)
AnswersAreTheirs ==
  \A r \in Requests :
    request[r].status = "answered" /\ request[r].result = "ok" =>
      /\ request[r].kind \in Logins =>
           request[r].shows # NoUser /\ opened[r] = request[r].shows
      /\ request[r].kind \in {"session", "dashboard", "buy", "request-support"}
           /\ request[r].shows # NoUser =>
           request[r].token # 0 /\ opened[request[r].token] = request[r].shows
      /\ request[r].kind \in {"dashboard", "buy", "request-support"} =>
           request[r].shows # NoUser

LogoutsEnd ==
  \A r \in Requests :
    /\ request[r].kind \in Logouts /\ request[r].status \in {"answered", "over"}
    /\ request[r].result = "ok" /\ request[r].token # 0
    => session[request[r].token] = NoUser

Owned == {n \in Numbers : owner[n] # NoUser}
PurchasesInOrder == Owned = 1..Cardinality(Owned)

EffectsAreStored ==
  \A r \in Requests :
    /\ request[r].epoch <= epoch
    /\ request[r].kind \in {"buy", "request-support"} /\ request[r].effect =>
         request[r].token # 0
    /\ request[r].kind = "request-support" /\ request[r].effect
         /\ request[r].epoch = epoch =>
         /\ request[r].number \in requested /\ request[r].token # 0
         /\ owner[request[r].number] = opened[request[r].token]

PageIsWhole ==
  /\ page.account = NoUser => page = AuthView
  /\ page.epoch <= epoch

(* The requests of this page that led to a replacement, and the purchases  *)
(* that were replaced in this way since the server was started.            *)
Replacing == {r \in Requests : request[r].kind = "request-support" /\ request[r].effect}
Replaced == {request[r].number : r \in {q \in Replacing : request[q].epoch = epoch}}

(* What may be offered on the page of an account. *)
Offers(cards, account) ==
  \A n \in cards : n \in Owned /\ owner[n] = account /\ n \notin Replaced

SequentialInv ==
  ~overlapped =>
    /\ \A r \in Requests : UnderWay(r) => r = Last
    /\ page.account # NoUser /\ cookie # 0 => opened[cookie] = page.account
    /\ UnderWay(Last) =>
         /\ cookie # 0 => request[Last].token = cookie
         /\ request[Last].kind \notin {"logout", "buy", "request-support"} =>
              page.account = NoUser
         /\ request[Last].status = "answered" /\ request[Last].epoch = epoch =>
              Offers(request[Last].cards, request[Last].shows)

BusyInv ==
  busy => \E r \in Requests :
    UnderWay(r) /\ request[r].kind \notin {"session", "dashboard"}
IInv ==
  /\ TypeOK /\ OneByOne /\ HasRoom /\ TokensAreOpened /\ RequestsAreMeant
  /\ AnswersAreTheirs /\ LogoutsEnd /\ PurchasesInOrder /\ EffectsAreStored
  /\ PageIsWhole

-----------------------------------------------------------------------------
(* Rows. *)
Users == Accounts \union {NoUser}

RequestRow ==
  [kind : Kinds \union {"none"}, account : Users,
   number : 0..MaxNumber, token : 0..MaxRequests,
   status : {"none", "sent", "answered", "over"},
   result : {"none", "ok", "refused", "failed", "lost"},
   effect : BOOLEAN, shows : Users,
   cards : SUBSET Numbers, epoch : 0..MaxEpochs]

LEMMA Typed ==
  ASSUME TypeOK
  PROVE  /\ request \in [Requests -> RequestRow]
         /\ session \in [Tokens -> Users] /\ opened \in [Tokens -> Users]
         /\ owner \in [Numbers -> Users] /\ requested \subseteq Owned
         /\ epoch \in 0..MaxEpochs
         /\ \A t \in Tokens : session[t] \in {opened[t], NoUser}
         /\ cookie \in {0} \union Opened
<1>1. request \in [Requests -> RequestRow]
  BY DEF TypeOK, RequestRow, Users
<1>2. /\ session \in [Tokens -> Users] /\ opened \in [Tokens -> Users]
      /\ owner \in [Numbers -> Users] /\ epoch \in 0..MaxEpochs
      /\ \A t \in Tokens : session[t] \in {opened[t], NoUser}
  BY DEF TypeOK, Users
<1>3. requested \subseteq Owned
  BY DEF TypeOK, Owned
<1>4. cookie \in {0} \union Opened
  BY DEF TypeOK, Opened
<1> QED
  BY <1>1, <1>2, <1>3, <1>4

LEMMA RowFields ==
  ASSUME NEW row \in RequestRow
  PROVE  /\ row.kind \in Kinds \union {"none"} /\ row.account \in Users
         /\ row.number \in 0..MaxNumber /\ row.token \in 0..MaxRequests
         /\ row.status \in {"none", "sent", "answered", "over"}
         /\ row.result \in {"none", "ok", "refused", "failed", "lost"}
         /\ row.effect \in BOOLEAN /\ row.shows \in Users
         /\ row.cards \in SUBSET Numbers /\ row.epoch \in 0..MaxEpochs
BY DEF RequestRow

LEMMA NoRequestTyped == NoRequest \in RequestRow
BY DEF NoRequest, RequestRow, Users

-----------------------------------------------------------------------------
(* Counting. *)

LEMMA SizeOfInterval ==
  ASSUME NEW n \in Nat
  PROVE  IsFiniteSet(1..n) /\ Cardinality(1..n) = n
<1>1. n \in Int /\ 1 \in Int
  OBVIOUS
<1>2. IsFiniteSet(1..n) /\ Cardinality(1..n) = (IF 1 > n THEN 0 ELSE n - 1 + 1)
  BY <1>1, FS_Interval
<1> QED
  BY <1>2

(* The sets that are counted are finite. *)
LEMMA SentIsFinite ==
  /\ IsFiniteSet(Sent) /\ IsFiniteSet(GoingOn)
  /\ Cardinality(Sent) \in Nat /\ Cardinality(GoingOn) \in Nat
<1>1. IsFiniteSet(Requests)
  BY SizeOfInterval DEF Requests
<1>2. Sent \in SUBSET Requests /\ GoingOn \in SUBSET Requests
  BY DEF Sent, GoingOn
<1>3. IsFiniteSet(Sent) /\ IsFiniteSet(GoingOn)
  BY <1>1, <1>2, FS_Subset
<1> QED
  BY <1>3, FS_CardinalityType

LEMMA OwnedIsFinite ==
  IsFiniteSet(Owned) /\ Cardinality(Owned) \in Nat
<1>1. IsFiniteSet(Numbers)
  BY SizeOfInterval DEF Numbers
<1>2. Owned \in SUBSET Numbers
  BY DEF Owned
<1>3. IsFiniteSet(Owned)
  BY <1>1, <1>2, FS_Subset
<1> QED
  BY <1>3, FS_CardinalityType

(* Once requests are made one after the other, having been sent is a       *)
(* status.                                                                 *)
LEMMA SentIsAStatus ==
  ASSUME OneByOne, NEW r \in Requests
  PROVE  /\ r \in Sent <=> request[r].status # "none"
         /\ r \in Sent <=> r <= Last
         /\ UnderWay(r) => r \in Sent
<1>1. NoRequest.status = "none"
  BY DEF NoRequest
<1> QED
  BY <1>1 DEF OneByOne, Sent, UnderWay, Requests

(* A step that answers or ends a request leaves the list as it is. *)
LEMMA OrderKept ==
  ASSUME OneByOne,
         \A s \in Requests : request'[s].status = "none" <=> request[s].status = "none",
         \A s \in Requests : request'[s].status = "none" => request'[s] = request[s],
         \A s \in Requests : request'[s].kind = request[s].kind
  PROVE  OneByOne' /\ Sent' = Sent /\ Last' = Last
<1>1. NoRequest.status = "none"
  BY DEF NoRequest
<1>2. ASSUME NEW s \in Requests
      PROVE  request'[s] # NoRequest <=> request[s] # NoRequest
  BY <1>1, <1>2 DEF OneByOne
<1>3. Sent' = Sent
  BY <1>2 DEF Sent
<1>4. 1 \in Requests
  BY DEF Requests
<1> QED
  BY <1>3, <1>4 DEF OneByOne, Last

(* A request joins the list. *)
LEMMA OrderGrows ==
  ASSUME OneByOne, NEW r \in Requests, r = Last + 1,
         request'[r].status # "none", 
         \A s \in Requests \ {r} :
           /\ request'[s].status = "none" <=> request[s].status = "none"
           /\ request'[s].status = "none" => request'[s] = request[s]
           /\ request'[s].kind = request[s].kind
  PROVE  OneByOne' /\ Sent' = Sent \union {r} /\ Last' = Last + 1
<1>1. NoRequest.status = "none"
  BY DEF NoRequest
<1>2. ASSUME NEW s \in Requests \ {r}
      PROVE  request'[s] # NoRequest <=> request[s] # NoRequest
  BY <1>1, <1>2 DEF OneByOne
<1>3. Sent' = Sent \union {r}
  BY <1>1, <1>2 DEF Sent
<1>4. Last \in Nat /\ Sent = 1..Last
  BY DEF OneByOne
<1>5. Sent' = 1..(Last + 1)
  BY <1>3, <1>4
<1>6. Last' = Last + 1
  BY <1>4, <1>5, SizeOfInterval DEF Last
<1>7. 1 \in Requests \ {r}
  BY DEF OneByOne, Requests
<1> QED
  BY <1>3, <1>5, <1>6, <1>7 DEF OneByOne, Requests

-----------------------------------------------------------------------------
(* The server. *)

(* The row of an answered request. *)
Reply(r, result, effect, account, cards) ==
  /\ request' \in [Requests -> RequestRow]
  /\ \A s \in Requests \ {r} : request'[s] = request[s]
  /\ request'[r].kind = request[r].kind /\ request'[r].account = request[r].account
  /\ request'[r].number = request[r].number /\ request'[r].token = request[r].token
  /\ request'[r].status = "answered" /\ request'[r].result = result
  /\ request'[r].effect = effect /\ request'[r].shows = account
  /\ request'[r].cards = cards /\ request'[r].epoch = epoch

LEMMA Replies ==
  ASSUME request \in [Requests -> RequestRow], epoch \in 0..MaxEpochs,
         NEW r \in Requests, NEW result \in {"ok", "refused", "failed"},
         NEW effect \in BOOLEAN, NEW account \in Users,
         NEW cards \in SUBSET Numbers,
         Answers(r, result, effect, account, cards)
  PROVE  Reply(r, result, effect, account, cards)
<1>0. [request[r] EXCEPT !.status = "answered", !.result = result,
                              !.effect = effect, !.shows = account,
                              !.cards = cards, !.epoch = epoch] \in RequestRow
  BY DEF RequestRow
<1>1. request' \in [Requests -> RequestRow]
  BY <1>0 DEF Answers
<1>2. \A s \in Requests \ {r} : request'[s] = request[s]
  BY DEF Answers
<1>3. request'[r] = [request[r] EXCEPT !.status = "answered", !.result = result,
                              !.effect = effect, !.shows = account,
                              !.cards = cards, !.epoch = epoch]
  BY DEF Answers
<1>4. request[r] \in RequestRow
  OBVIOUS
<1>5. /\ request'[r].kind = request[r].kind /\ request'[r].account = request[r].account
      /\ request'[r].number = request[r].number /\ request'[r].token = request[r].token
  BY <1>3, <1>4 DEF RequestRow
<1>6. /\ request'[r].status = "answered" /\ request'[r].result = result
      /\ request'[r].shows = account
      /\ request'[r].cards = cards /\ request'[r].epoch = epoch
  BY <1>3, <1>4 DEF RequestRow
<1>7. request'[r].effect = effect
  BY <1>3, <1>4 DEF RequestRow
<1> QED
  BY <1>1, <1>2, <1>5, <1>6, <1>7 DEF Reply

(* What serving a request may do, whatever its kind. *)
ServedRows(r) ==
  /\ request[r].status = "sent"
  /\ request' \in [Requests -> RequestRow]
  /\ \A s \in Requests \ {r} : request'[s] = request[s]
  /\ request'[r].kind = request[r].kind
  /\ request'[r].number = request[r].number /\ request'[r].token = request[r].token
  /\ request'[r].status = "answered"
  /\ request'[r].result \in {"ok", "refused", "failed"}
  /\ request'[r].epoch = epoch
  /\ UNCHANGED <<epoch, cookie, page, busy, overlapped>>

ServedTokens(r) ==
  LET kind == request[r].kind
      token == request[r].token
  IN
  /\ session' \in [Tokens -> Users]
  /\ \/ /\ ~(kind \in Logins /\ request'[r].result = "ok")
        /\ opened' = opened
        /\ \A t \in Tokens : session'[t] \in {session[t], NoUser}
        /\ kind \in Logouts /\ token # 0 => session'[token] = NoUser
     \/ /\ kind \in Logins /\ request[r].account \in Accounts
        /\ session' = [session EXCEPT ![r] = request[r].account]
        /\ opened' = [opened EXCEPT ![r] = request[r].account]
        /\ request'[r].shows = request[r].account

ServedPurchases(r) ==
  \/ /\ ~(request[r].kind = "request-support" /\ request'[r].effect)
     /\ UNCHANGED <<owner, requested>>
  \/ /\ request[r].kind = "buy" /\ UserOf(r) # NoUser /\ NextNumber \in Numbers
     /\ owner' = [owner EXCEPT ![NextNumber] = UserOf(r)]
     /\ requested' = requested
  \/ /\ request[r].kind = "request-support" /\ OwnedPurchase(r)
     /\ request[r].number \notin requested
     /\ owner' = owner
     /\ requested' = requested \union {request[r].number}

ServedAnswer(r) ==
  LET kind == request[r].kind
      row == request'[r]
  IN
  /\ row.result = "ok" /\ kind \notin Logins \union Logouts \union {"register"} =>
       row.shows = UserOf(r)
  /\ row.result = "ok" /\ kind \in {"dashboard", "buy", "request-support"} =>
       row.shows # NoUser
  /\ row.cards \subseteq CardsOf(row.shows, owner', requested')
  /\ kind \in {"buy", "request-support"} =>
       /\ row.effect => UserOf(r) # NoUser
       /\ row.result = "ok" => row.effect
       /\ row.result = "refused" /\ row.effect =>
            session'[request[r].token] = NoUser

Served(r) ==
  ServedRows(r) /\ ServedTokens(r) /\ ServedPurchases(r) /\ ServedAnswer(r)

LEMMA UsersOfRequests ==
  ASSUME TypeOK, NEW r \in Requests
  PROVE  /\ UserOf(r) \in Users
         /\ UserOf(r) # NoUser =>
              /\ request[r].token \in Tokens /\ request[r].token # 0
              /\ session[request[r].token] = UserOf(r)
              /\ opened[request[r].token] = UserOf(r)
<1>1. request[r] \in RequestRow
  BY Typed
<1>2. request[r].token \in 0..MaxRequests
  BY <1>1, RowFields
<1>3. request[r].token # 0 => request[r].token \in Tokens
  BY <1>2 DEF Tokens, Requests
<1>4. NoUser \in Users
  BY DEF Users
<1> QED
  BY <1>3, <1>4, Typed DEF UserOf

LEMMA CardsAreNumbers ==
  ASSUME NEW account, NEW owners, NEW used
  PROVE  CardsOf(account, owners, used) \in SUBSET Numbers
BY DEF CardsOf

(* A refusal, and a read, leave the stores alone. *)
LEMMA ServingReads ==
  ASSUME TypeOK, NEW r \in Requests, request[r].status = "sent",
         NEW result \in {"ok", "refused", "failed"}, NEW account \in Users,
         NEW cards, cards \subseteq CardsOf(account, owner, requested),
         Answers(r, result, FALSE, account, cards), UNCHANGED server,
         UNCHANGED <<browser, overlapped>>,
         request[r].kind \notin Logouts,
         result = "ok" => /\ request[r].kind \in {"session", "dashboard"}
                          /\ account = UserOf(r)
                          /\ request[r].kind = "dashboard" => account # NoUser
  PROVE  Served(r)
<1>1. Reply(r, result, FALSE, account, cards)
  BY Typed, Replies, CardsAreNumbers
<1>2. ServedRows(r)
  BY <1>1 DEF Reply, ServedRows, server, browser
<1>3. UNCHANGED <<session, opened, owner, requested>>
  BY DEF server
<1>4. ServedTokens(r)
  BY <1>1, <1>3, Typed DEF Reply, ServedTokens, Logins
<1>5. ~request'[r].effect
  BY <1>1 DEF Reply
<1>6. ServedPurchases(r)
  BY <1>3, <1>5 DEF ServedPurchases
<1>7. ServedAnswer(r)
  BY <1>1, <1>3, <1>5 DEF Reply, ServedAnswer
<1> QED
  BY <1>2, <1>4, <1>6, <1>7 DEF Served

(* A handler that changes a store. *)
LEMMA ServingEffects ==
  ASSUME TypeOK, NEW r \in Requests, request[r].status = "sent",
         request[r].kind \in {"buy", "request-support"}, UserOf(r) # NoUser,
         NEW owners, NEW used, EndsAfterEffect(r, UserOf(r), owners, used),
         UNCHANGED <<browser, overlapped>>
  PROVE  /\ ServedRows(r) /\ ServedTokens(r) /\ ServedAnswer(r)
         /\ owner' = owners /\ requested' = used
<1>1. request[r].token \in Tokens /\ request[r].token # 0 /\ UserOf(r) \in Users
  BY UsersOfRequests
<1>2. owner' = owners /\ requested' = used /\ opened' = opened /\ epoch' = epoch
  BY DEF EndsAfterEffect
<1>3. NoUser \in Users /\ {} \in SUBSET Numbers /\ TRUE \in BOOLEAN
  BY DEF Users
<1>4. \E result \in {"ok", "refused", "failed"}, account \in Users,
           cards \in SUBSET Numbers :
        /\ Reply(r, result, TRUE, account, cards)
        /\ cards \subseteq CardsOf(account, owners, used)
        /\ result = "ok" => account = UserOf(r)
        /\ result # "refused" => session' = session
        /\ result = "refused" =>
             session' = [session EXCEPT ![request[r].token] = NoUser]
  <2>1. CASE /\ Answers(r, "ok", TRUE, UserOf(r), CardsOf(UserOf(r), owners, used))
             /\ UNCHANGED session
    <3>1. Reply(r, "ok", TRUE, UserOf(r), CardsOf(UserOf(r), owners, used))
      BY <1>1, <1>3, <2>1, Typed, Replies, CardsAreNumbers
    <3> QED
      BY <1>1, <2>1, <3>1, CardsAreNumbers
  <2>2. CASE /\ Answers(r, "refused", TRUE, NoUser, {})
             /\ session' = [session EXCEPT ![request[r].token] = NoUser]
    <3>1. Reply(r, "refused", TRUE, NoUser, {})
      BY <1>3, <2>2, Typed, Replies
    <3> QED
      BY <1>3, <2>2, <3>1
  <2>3. CASE Answers(r, "failed", TRUE, NoUser, {}) /\ UNCHANGED session
    <3>1. Reply(r, "failed", TRUE, NoUser, {})
      BY <1>3, <2>3, Typed, Replies
    <3> QED
      BY <1>3, <2>3, <3>1
  <2> QED
    BY <2>1, <2>2, <2>3 DEF EndsAfterEffect
<1>5. PICK result \in {"ok", "refused", "failed"}, account \in Users,
           cards \in SUBSET Numbers :
        /\ Reply(r, result, TRUE, account, cards)
        /\ cards \subseteq CardsOf(account, owners, used)
        /\ result = "ok" => account = UserOf(r)
        /\ result # "refused" => session' = session
        /\ result = "refused" =>
             session' = [session EXCEPT ![request[r].token] = NoUser]
  BY <1>4
<1>6. ServedRows(r)
  BY <1>2, <1>5 DEF Reply, ServedRows, browser
<1>7. ServedTokens(r)
  BY <1>1, <1>2, <1>3, <1>5, Typed DEF ServedTokens, Logins, Logouts
<1>8. ServedAnswer(r)
  <2>1. /\ request'[r].result = result /\ request'[r].shows = account
        /\ request'[r].cards = cards /\ request'[r].effect
    BY <1>5 DEF Reply
  <2>2. result = "refused" => session'[request[r].token] = NoUser
    BY <1>1, <1>5, Typed
  <2> QED
    BY <1>2, <1>5, <2>1, <2>2 DEF ServedAnswer
<1> QED
  BY <1>2, <1>6, <1>7, <1>8

LEMMA ServingRefuses ==
  ASSUME TypeOK, NEW r \in Requests, request[r].status = "sent",
         Refuses(r) \/ Fails(r), request[r].kind \notin Logouts,
         UNCHANGED <<browser, overlapped>>
  PROVE  Served(r)
<1>1. NoUser \in Users /\ {} \subseteq CardsOf(NoUser, owner, requested)
  BY DEF Users
<1>2. \A result \in {"refused", "failed"} :
        result # "ok" /\ result \in {"ok", "refused", "failed"}
  OBVIOUS
<1>3. PICK result \in {"refused", "failed"} :
        Answers(r, result, FALSE, NoUser, {}) /\ UNCHANGED server
  BY DEF Refuses, Fails
<1> QED
  BY <1>1, <1>2, <1>3, ServingReads

LEMMA ServingBuys ==
  ASSUME TypeOK, NEW r \in Requests, request[r].status = "sent", ServeBuy(r),
         UNCHANGED <<browser, overlapped>>
  PROVE  Served(r)
<1>1. request[r].kind = "buy"
  BY DEF ServeBuy
<1>2. CASE /\ UserOf(r) \notin {NoUser, Administrator} /\ NextNumber \in Numbers
           /\ EndsAfterEffect(r, UserOf(r),
                              [owner EXCEPT ![NextNumber] = UserOf(r)], requested)
  <2>1. /\ ServedRows(r) /\ ServedTokens(r) /\ ServedAnswer(r)
        /\ owner' = [owner EXCEPT ![NextNumber] = UserOf(r)]
        /\ requested' = requested
    BY <1>1, <1>2, ServingEffects
  <2> QED
    BY <1>1, <1>2, <2>1 DEF Served, ServedPurchases
<1>3. CASE Refuses(r)
  BY <1>1, <1>3, ServingRefuses DEF Logouts
<1> QED
  BY <1>2, <1>3 DEF ServeBuy

LEMMA ServingSupport ==
  ASSUME TypeOK, NEW r \in Requests, request[r].status = "sent",
         ServeRequestSupport(r), UNCHANGED <<browser, overlapped>>
  PROVE  Served(r)
<1> DEFINE n == request[r].number
<1>1. request[r].kind = "request-support"
  BY DEF ServeRequestSupport
<1>2. CASE /\ OwnedPurchase(r) /\ n \notin requested
           /\ EndsAfterEffect(r, UserOf(r), owner, requested \union {n})
  <2>1. UserOf(r) # NoUser
    BY <1>2 DEF OwnedPurchase
  <2>2. /\ ServedRows(r) /\ ServedTokens(r) /\ ServedAnswer(r)
        /\ owner' = owner /\ requested' = requested \union {n}
    BY <1>1, <1>2, <2>1, ServingEffects
  <2> QED
    BY <1>1, <1>2, <2>2 DEF Served, ServedPurchases
<1>3. CASE Refuses(r) \/ Fails(r)
  BY <1>1, <1>3, ServingRefuses DEF Logouts
<1> QED
  BY <1>2, <1>3 DEF ServeRequestSupport

LEMMA ServingLogins ==
  ASSUME TypeOK, RequestsAreMeant, NEW r \in Requests, request[r].status = "sent",
         ServeLogin(r), UNCHANGED <<browser, overlapped>>
  PROVE  Served(r)
<1> DEFINE account == request[r].account
<1>1. request[r].kind \in Logins /\ account \in Accounts
  BY DEF ServeLogin, RequestsAreMeant, Logins
<1>2. CASE /\ session' = [session EXCEPT ![r] = account]
           /\ opened' = [opened EXCEPT ![r] = account]
           /\ Answers(r, "ok", TRUE, account, CardsOf(account, owner, requested))
           /\ UNCHANGED <<owner, requested, epoch>>
  <2>1. account \in Users /\ TRUE \in BOOLEAN
    BY <1>1 DEF Users
  <2>2. Reply(r, "ok", TRUE, account, CardsOf(account, owner, requested))
    BY <1>2, <2>1, Typed, Replies, CardsAreNumbers
  <2>3. ServedRows(r)
    BY <1>2, <2>2 DEF Reply, ServedRows, browser
  <2>4. ServedTokens(r)
    BY <1>1, <1>2, <2>1, <2>2, Typed DEF Reply, ServedTokens, Tokens
  <2>5. request[r].kind \notin {"buy", "request-support", "dashboard", "session"}
    BY <1>1 DEF Logins
  <2>6. ServedPurchases(r)
    BY <1>2, <2>5 DEF ServedPurchases
  <2>7. ServedAnswer(r)
    BY <1>1, <1>2, <2>2, <2>5 DEF Reply, ServedAnswer
  <2> QED
    BY <2>3, <2>4, <2>6, <2>7 DEF Served
<1>3. CASE Refuses(r)
  BY <1>1, <1>3, ServingRefuses DEF Logins, Logouts
<1> QED
  BY <1>2, <1>3 DEF ServeLogin

LEMMA ServingLogouts ==
  ASSUME TypeOK, NEW r \in Requests, request[r].status = "sent",
         ServeLogout(r), UNCHANGED <<browser, overlapped>>
  PROVE  Served(r)
<1>1. request[r].kind \in Logouts
  BY DEF ServeLogout, Logouts
<1>2. UNCHANGED <<opened, owner, requested, epoch>>
  BY DEF ServeLogout
<1>3. Reply(r, "ok", TRUE, NoUser, {})
  BY Typed, Replies DEF ServeLogout, Users
<1>4. ServedRows(r)
  BY <1>2, <1>3 DEF Reply, ServedRows, browser
<1>5. session' = [t \in Tokens |->
         IF t = request[r].token THEN NoUser ELSE session[t]]
  BY DEF ServeLogout
<1>6. request[r].token # 0 => request[r].token \in Tokens
  BY Typed, RowFields DEF Tokens, Requests
<1>7. ServedTokens(r)
  BY <1>1, <1>2, <1>5, <1>6, Typed DEF ServedTokens, Logins, Logouts, Users
<1>8. request[r].kind \notin {"buy", "request-support", "dashboard", "session"}
  BY <1>1 DEF Logouts
<1>9. ServedPurchases(r)
  BY <1>2, <1>8 DEF ServedPurchases
<1>10. ServedAnswer(r)
  BY <1>1, <1>3, <1>8 DEF Reply, ServedAnswer
<1> QED
  BY <1>4, <1>7, <1>9, <1>10 DEF Served

LEMMA ServingRegisters ==
  ASSUME TypeOK, NEW r \in Requests, request[r].status = "sent",
         ServeRegister(r), UNCHANGED <<browser, overlapped>>
  PROVE  Served(r)
<1>1. request[r].kind = "register"
  BY DEF ServeRegister
<1>2. CASE Answers(r, "ok", TRUE, NoUser, {}) /\ UNCHANGED server
  <2>1. Reply(r, "ok", TRUE, NoUser, {})
    BY <1>2, Typed, Replies DEF Users
  <2>2. UNCHANGED <<session, opened, owner, requested, epoch>>
    BY <1>2 DEF server
  <2>3. ServedRows(r)
    BY <2>1, <2>2 DEF Reply, ServedRows, browser
  <2>4. ServedTokens(r)
    BY <1>1, <2>2, Typed DEF ServedTokens, Logins, Logouts
  <2>5. ServedPurchases(r)
    BY <1>1, <2>2 DEF ServedPurchases
  <2>6. ServedAnswer(r)
    BY <1>1, <2>1 DEF Reply, ServedAnswer
  <2> QED
    BY <2>3, <2>4, <2>5, <2>6 DEF Served
<1>3. CASE Refuses(r)
  BY <1>1, <1>3, ServingRefuses DEF Logouts
<1> QED
  BY <1>2, <1>3 DEF ServeRegister

LEMMA Serving ==
  ASSUME TypeOK, RequestsAreMeant, NEW r \in Requests, Serve(r)
  PROVE  Served(r)
<1>1. request[r].status = "sent" /\ UNCHANGED <<browser, overlapped>>
  BY DEF Serve
<1>2. CASE ServeRead(r)
  <2>1. request[r].kind \in {"session", "dashboard"}
    BY <1>2 DEF ServeRead
  <2>2. CASE Refuses(r)
    BY <1>1, <2>1, <2>2, ServingRefuses DEF Logouts
  <2>3. CASE /\ ~(request[r].kind = "dashboard" /\ UserOf(r) = NoUser)
             /\ Answers(r, "ok", FALSE, UserOf(r),
                        CardsOf(UserOf(r), owner, requested))
             /\ UNCHANGED server
    BY <1>1, <2>1, <2>3, ServingReads, UsersOfRequests DEF Logouts
  <2> QED
    BY <1>2, <2>2, <2>3 DEF ServeRead
<1> QED
  BY <1>1, <1>2, ServingBuys, ServingSupport, ServingLogins, ServingLogouts,
     ServingRegisters DEF Serve

-----------------------------------------------------------------------------
(* The next purchase is one that nobody has. *)
LEMMA PurchaseJoins ==
  ASSUME TypeOK, PurchasesInOrder, NextNumber \in Numbers, NEW account \in Accounts,
         owner' = [owner EXCEPT ![NextNumber] = account]
  PROVE  /\ owner' \in [Numbers -> Users] /\ NextNumber \notin Owned
         /\ Owned \subseteq Owned' /\ \A n \in Owned : owner'[n] = owner[n]
         /\ PurchasesInOrder'
<1>1. NextNumber = Cardinality(Owned) + 1 /\ Cardinality(Owned) \in Nat
  BY OwnedIsFinite DEF NextNumber, Owned
<1>2. Owned = 1..Cardinality(Owned)
  BY DEF PurchasesInOrder
<1>3. NextNumber \notin Owned
  BY <1>1, <1>2
<1>4. owner' \in [Numbers -> Users] /\ account # NoUser
  BY Typed DEF Users
<1>5. \A n \in Numbers : owner'[n] = IF n = NextNumber THEN account ELSE owner[n]
  BY Typed
<1>6. Owned' = Owned \union {NextNumber}
  BY <1>4, <1>5 DEF Owned
<1>7. Owned' = 1..(Cardinality(Owned) + 1)
  BY <1>1, <1>2, <1>6
<1>8. Cardinality(Owned') = Cardinality(Owned) + 1
  BY <1>1, <1>7, SizeOfInterval
<1>9. PurchasesInOrder'
  BY <1>7, <1>8 DEF PurchasesInOrder
<1> QED
  BY <1>3, <1>4, <1>5, <1>6, <1>9 DEF Owned

(* The token of a request that is served is not in use before. *)
LEMMA TokensKept ==
  ASSUME TypeOK, OneByOne, TokensAreOpened, NEW r \in Requests, Served(r)
  PROVE  /\ opened' \in [Tokens -> Users]
         /\ \A t \in Opened : /\ opened'[t] = opened[t]
                             /\ session'[t] \in {session[t], NoUser}
         /\ \A t \in Tokens : session'[t] \in {opened'[t], NoUser}
         /\ Opened \subseteq Opened' /\ Opened' \subseteq Opened \union {r}
         /\ Opened' # Opened => request[r].kind \in Logins
<1>1. request[r].status = "sent" /\ ServedTokens(r)
  BY DEF Served, ServedRows
<1>2. CASE opened' = opened /\ \A t \in Tokens : session'[t] \in {session[t], NoUser}
  BY <1>2, Typed DEF Opened
<1>3. CASE /\ request[r].kind \in Logins /\ request[r].account \in Accounts
           /\ session' = [session EXCEPT ![r] = request[r].account]
           /\ opened' = [opened EXCEPT ![r] = request[r].account]
  <2>1. r # 1
    BY <1>3 DEF OneByOne, Logins
  <2>2. r \in Tokens /\ r \notin Opened
    BY <1>1, <2>1 DEF TokensAreOpened, Tokens
  <2>3. request[r].account \in Users /\ request[r].account # NoUser
    BY <1>3 DEF Users
  <2>4. opened' \in [Tokens -> Users]
    BY <1>3, <2>3, Typed
  <2>5. \A t \in Tokens \ {r} : opened'[t] = opened[t] /\ session'[t] = session[t]
    BY <1>3, Typed
  <2>6. opened'[r] = request[r].account /\ session'[r] = request[r].account
    BY <1>3, <2>2, Typed
  <2>7. Opened' = Opened \union {r}
    BY <2>2, <2>3, <2>5, <2>6 DEF Opened
  <2> QED
    BY <1>3, <2>2, <2>4, <2>5, <2>6, <2>7, Typed DEF Opened
<1> QED
  BY <1>1, <1>2, <1>3 DEF ServedTokens

(* Requests carry tokens that are there. *)
LEMMA TokensOfRequests ==
  ASSUME TokensAreOpened, NEW r \in Requests, request[r].token # 0
  PROVE  request[r].token \in Opened /\ request[r].token \in Tokens
BY DEF TokensAreOpened, Opened

LEMMA PurchasesKept ==
  ASSUME TypeOK, RequestsAreMeant, PurchasesInOrder, NEW r \in Requests, Served(r)
  PROVE  /\ owner' \in [Numbers -> Users] /\ Owned \subseteq Owned'
         /\ \A n \in Owned : owner'[n] = owner[n]
         /\ requested \subseteq requested' /\ requested' \subseteq Owned'
         /\ PurchasesInOrder'
<1>1. ServedPurchases(r)
  BY DEF Served
<1>2. CASE UNCHANGED <<owner, requested>>
  BY <1>2, Typed DEF Owned, PurchasesInOrder
<1>3. CASE /\ UserOf(r) # NoUser /\ NextNumber \in Numbers
           /\ owner' = [owner EXCEPT ![NextNumber] = UserOf(r)]
           /\ requested' = requested
  <2>1. UserOf(r) \in Accounts
    BY <1>3, UsersOfRequests DEF Users
  <2> QED
    BY <1>3, <2>1, PurchaseJoins, Typed
<1>4. CASE /\ request[r].kind = "request-support" /\ OwnedPurchase(r)
           /\ owner' = owner /\ requested' = requested \union {request[r].number}
  <2>1. Owned' = Owned /\ PurchasesInOrder'
    BY <1>4 DEF Owned, PurchasesInOrder
  <2>2. owner[request[r].number] # NoUser /\ request[r].number \in Numbers
    BY <1>4 DEF OwnedPurchase, RequestsAreMeant
  <2> QED
    BY <1>4, <2>1, <2>2, Typed DEF Owned
<1> QED
  BY <1>1, <1>2, <1>3, <1>4 DEF ServedPurchases

(* Serving keeps the invariant. *)
LEMMA ServeKeeps ==
  ASSUME IInv, NEW r \in Requests, Served(r)
  PROVE  IInv'
<1> USE DEF IInv
<1>1. /\ request[r].status = "sent" /\ request' \in [Requests -> RequestRow]
      /\ \A s \in Requests \ {r} : request'[s] = request[s]
      /\ request'[r].kind = request[r].kind
      /\ request'[r].number = request[r].number
      /\ request'[r].token = request[r].token
      /\ request'[r].status = "answered"
      /\ request'[r].result \in {"ok", "refused", "failed"}
      /\ request'[r].epoch = epoch
      /\ UNCHANGED <<epoch, cookie, page, busy, overlapped>>
  BY DEF Served, ServedRows
<1>2. ServedTokens(r) /\ ServedPurchases(r) /\ ServedAnswer(r)
  BY DEF Served
<1>3. session' \in [Tokens -> Users] /\ opened' \in [Tokens -> Users]
  BY <1>2, TokensKept DEF ServedTokens
<1>4. TypeOK'
  <2>1. owner' \in [Numbers -> Users] /\ requested' \subseteq Owned'
    BY PurchasesKept
  <2>2. cookie' \in {0} \union Opened'
    BY <1>1, TokensKept, Typed
  <2>3. \A t \in Tokens : session'[t] \in {opened'[t], NoUser}
    BY TokensKept
  <2>4. /\ page' \in [account : Users, cards : SUBSET Numbers, epoch : 0..MaxEpochs]
        /\ busy' \in BOOLEAN /\ overlapped' \in BOOLEAN /\ epoch' \in 0..MaxEpochs
    BY <1>1 DEF TypeOK, Users
  <2> QED
    BY <1>1, <1>3, <2>1, <2>2, <2>3, <2>4
       DEF TypeOK, Users, Owned, Opened, RequestRow
<1>5. OneByOne' /\ Sent' = Sent /\ Last' = Last
  BY <1>1, OrderKept
<1>6. HasRoom'
  <2>1. GoingOn' = GoingOn
    BY <1>1, <1>5 DEF GoingOn, UnderWay, Sent
  <2> QED
    BY <1>5, <2>1 DEF HasRoom
<1>7. TokensAreOpened'
  BY <1>1, TokensKept DEF TokensAreOpened, Tokens, Opened
<1>8. RequestsAreMeant'
  BY <1>1 DEF RequestsAreMeant
<1>9. AnswersAreTheirs'
  <2> SUFFICES ASSUME NEW s \in Requests,
                      request'[s].status = "answered", request'[s].result = "ok"
               PROVE  /\ request'[s].kind \in Logins =>
                           request'[s].shows # NoUser /\ opened'[s] = request'[s].shows
                      /\ request'[s].kind
                           \in {"session", "dashboard", "buy", "request-support"}
                         /\ request'[s].shows # NoUser =>
                           /\ request'[s].token # 0
                           /\ opened'[request'[s].token] = request'[s].shows
                      /\ request'[s].kind \in {"dashboard", "buy", "request-support"} =>
                           request'[s].shows # NoUser
    BY DEF AnswersAreTheirs
  <2>1. CASE s # r
    <3>1. request'[s] = request[s]
      BY <1>1, <2>1
    <3>2. request[s].kind \in Logins =>
            request[s].shows # NoUser /\ opened[s] = request[s].shows
      BY <3>1 DEF AnswersAreTheirs
    <3>3. request[s].kind \in {"session", "dashboard", "buy", "request-support"}
            /\ request[s].shows # NoUser =>
            request[s].token \in Opened /\ opened[request[s].token] = request[s].shows
              /\ request[s].token # 0
      BY <3>1, TokensOfRequests DEF AnswersAreTheirs
    <3>4. request[s].kind \in {"dashboard", "buy", "request-support"} =>
            request[s].shows # NoUser
      BY <3>1 DEF AnswersAreTheirs
    <3>5. request[s].kind \in Logins => s \in Opened
      BY <3>2 DEF Opened, Tokens
    <3> QED
      BY <3>1, <3>2, <3>3, <3>4, <3>5, TokensKept
  <2>2. CASE s = r /\ request[r].kind \in Logins
    <3>1. /\ request[r].account \in Accounts
          /\ opened' = [opened EXCEPT ![r] = request[r].account]
          /\ request'[r].shows = request[r].account
      BY <1>2, <2>2 DEF ServedTokens
    <3> QED
      BY <1>1, <2>2, <3>1, Typed DEF Logins, Tokens
  <2>3. CASE s = r /\ request[r].kind \notin Logins
    <3>1. opened' = opened
      BY <1>2, <2>3 DEF ServedTokens
    <3>2. request[r].kind \in {"session", "dashboard", "buy", "request-support"} =>
            request'[r].shows = UserOf(r)
      BY <1>2, <2>3 DEF ServedAnswer, Logins, Logouts
    <3>3. request[r].kind \in {"dashboard", "buy", "request-support"} =>
            request'[r].shows # NoUser
      BY <1>2, <2>3 DEF ServedAnswer
    <3> QED
      BY <1>1, <2>3, <3>1, <3>2, <3>3, UsersOfRequests
  <2> QED
    BY <2>1, <2>2, <2>3
<1>10. LogoutsEnd'
  <2> SUFFICES ASSUME NEW s \in Requests, request'[s].kind \in Logouts,
                      request'[s].status \in {"answered", "over"},
                      request'[s].result = "ok", request'[s].token # 0
               PROVE  session'[request'[s].token] = NoUser
    BY DEF LogoutsEnd
  <2>1. CASE s # r
    <3>1. request'[s] = request[s]
      BY <1>1, <2>1
    <3>2. session[request[s].token] = NoUser /\ request[s].token \in Opened
      BY <3>1, TokensOfRequests DEF LogoutsEnd
    <3> QED
      BY <3>1, <3>2, TokensKept
  <2>2. CASE s = r
    BY <1>1, <1>2, <2>2 DEF ServedTokens, Logins, Logouts
  <2> QED
    BY <2>1, <2>2
<1>11. PurchasesInOrder'
  BY PurchasesKept
<1>12. EffectsAreStored'
  <2> SUFFICES ASSUME NEW s \in Requests
               PROVE  /\ request'[s].epoch <= epoch'
                      /\ request'[s].kind \in {"buy", "request-support"}
                           /\ request'[s].effect => request'[s].token # 0
                      /\ request'[s].kind = "request-support" /\ request'[s].effect
                           /\ request'[s].epoch = epoch' =>
                           /\ request'[s].number \in requested'
                           /\ request'[s].token # 0
                           /\ owner'[request'[s].number] = opened'[request'[s].token]
    BY DEF EffectsAreStored
  <2>1. CASE s # r
    <3>1. request'[s] = request[s] /\ epoch' = epoch
      BY <1>1, <2>1
    <3>2. /\ request[s].epoch <= epoch
          /\ request[s].kind \in {"buy", "request-support"} /\ request[s].effect =>
               request[s].token # 0
      BY DEF EffectsAreStored
    <3>3. ASSUME request[s].kind = "request-support", request[s].effect,
                 request[s].epoch = epoch
          PROVE  /\ request[s].number \in requested /\ request[s].token # 0
                 /\ owner[request[s].number] = opened[request[s].token]
      BY <3>3 DEF EffectsAreStored
    <3>4. ASSUME request[s].kind = "request-support", request[s].effect,
                 request[s].epoch = epoch
          PROVE  /\ request[s].number \in requested' /\ request[s].token # 0
                 /\ owner'[request[s].number] = opened'[request[s].token]
      BY <3>3, <3>4, PurchasesKept, TokensKept, TokensOfRequests, Typed
    <3> QED
      BY <3>1, <3>2, <3>4
  <2>2. CASE s = r
    <3>1. epoch \in Nat
      BY Typed
    <3>2. request[r].kind \in {"buy", "request-support"} /\ request'[r].effect =>
            UserOf(r) # NoUser /\ request[r].token # 0
      BY <1>2, UsersOfRequests DEF ServedAnswer
    <3>3. ASSUME request[r].kind = "request-support", request'[r].effect
          PROVE  /\ request[r].number \in requested'
                 /\ owner'[request[r].number] = opened'[request[r].token]
      <4>1. /\ OwnedPurchase(r) /\ owner' = owner
            /\ requested' = requested \union {request[r].number}
        BY <1>2, <3>3 DEF ServedPurchases
      <4>2. opened' = opened
        BY <1>2, <3>3 DEF ServedTokens, Logins
      <4> QED
        BY <4>1, <4>2, UsersOfRequests DEF OwnedPurchase
    <3> QED
      BY <1>1, <2>2, <3>1, <3>2, <3>3
  <2> QED
    BY <2>1, <2>2
<1>13. PageIsWhole'
  BY <1>1 DEF PageIsWhole
<1> QED
  BY <1>4, <1>5, <1>6, <1>7, <1>8, <1>9, <1>10, <1>11, <1>12, <1>13

-----------------------------------------------------------------------------
(* What happens to the session, to the cookie and on the server without a  *)
(* request of this page or another tab.                                    *)

Elsewhere ==
  /\ UNCHANGED <<opened, cookie, page, busy, request, overlapped>>
  /\ session' \in [Tokens -> Users]
  /\ \A t \in Tokens : session'[t] \in {session[t], NoUser}
  /\ owner' \in [Numbers -> Users] /\ requested' \subseteq Owned'
  /\ PurchasesInOrder' /\ epoch' \in 0..MaxEpochs
  /\ \/ /\ epoch' = epoch /\ requested \subseteq requested'
        /\ \A n \in Owned : owner'[n] = owner[n]
     \/ epoch' = epoch + 1

LEMMA ElsewhereKeeps ==
  ASSUME IInv, Elsewhere
  PROVE  IInv'
<1> USE DEF IInv
<1>1. UNCHANGED <<opened, page, busy, request, overlapped>>
  BY DEF Elsewhere
<1>2. TypeOK'
  BY <1>1, Typed DEF Elsewhere, TypeOK, Users, Owned, Opened
<1>3. OneByOne' /\ HasRoom'
  BY <1>1 DEF OneByOne, HasRoom, Last, Sent, GoingOn, UnderWay
<1>4. TokensAreOpened' /\ RequestsAreMeant' /\ AnswersAreTheirs'
  BY <1>1 DEF TokensAreOpened, RequestsAreMeant, AnswersAreTheirs, Opened
<1>5. LogoutsEnd'
  BY <1>1, TokensOfRequests DEF Elsewhere, LogoutsEnd
<1>6. EffectsAreStored'
  <2>1. epoch \in Nat /\ \A r \in Requests : request[r].epoch \in Nat
    BY Typed, RowFields
  <2>2. CASE /\ epoch' = epoch /\ requested \subseteq requested'
             /\ \A n \in Owned : owner'[n] = owner[n]
    <3>1. ASSUME NEW r \in Requests, request[r].kind = "request-support",
                 request[r].effect, request[r].epoch = epoch
          PROVE  /\ request[r].number \in requested /\ request[r].number \in Owned
                 /\ request[r].token # 0
                 /\ owner[request[r].number] = opened[request[r].token]
      BY <3>1, Typed DEF EffectsAreStored
    <3> QED
      BY <1>1, <2>2, <3>1 DEF EffectsAreStored
  <2>3. CASE epoch' = epoch + 1
    BY <1>1, <2>1, <2>3 DEF EffectsAreStored
  <2> QED
    BY <2>2, <2>3 DEF Elsewhere
<1>7. PurchasesInOrder'
  BY DEF Elsewhere
<1>8. PageIsWhole'
  <2>1. epoch \in Nat /\ page.epoch \in Nat /\ (epoch' = epoch \/ epoch' = epoch + 1)
    BY Typed DEF Elsewhere, TypeOK
  <2> QED
    BY <1>1, <2>1 DEF PageIsWhole
<1> QED
  BY <1>2, <1>3, <1>4, <1>5, <1>6, <1>7, <1>8

LEMMA Expires ==
  ASSUME IInv, NEW t \in Tokens, Expire(t)
  PROVE  Elsewhere
<1> USE DEF IInv
<1>1. /\ session' = [session EXCEPT ![t] = NoUser]
      /\ UNCHANGED <<opened, owner, requested, epoch, browser, request, overlapped>>
  BY DEF Expire
<1>2. Owned' = Owned /\ PurchasesInOrder'
  BY <1>1 DEF Owned, PurchasesInOrder
<1>3. session' \in [Tokens -> Users] /\ \A s \in Tokens : session'[s] \in {session[s], NoUser}
  BY <1>1, Typed DEF Users
<1> QED
  BY <1>1, <1>2, <1>3, Typed DEF Elsewhere, browser

LEMMA BuysElsewhere ==
  ASSUME IInv, NEW account \in Accounts, BuyElsewhere(account)
  PROVE  Elsewhere
<1> USE DEF IInv
<1>1. /\ NextNumber \in Numbers /\ owner' = [owner EXCEPT ![NextNumber] = account]
      /\ UNCHANGED <<session, opened, requested, epoch, browser, request, overlapped>>
  BY DEF BuyElsewhere
<1>2. /\ owner' \in [Numbers -> Users] /\ Owned \subseteq Owned'
      /\ \A n \in Owned : owner'[n] = owner[n] /\ PurchasesInOrder'
  BY <1>1, PurchaseJoins
<1>3. requested' \subseteq Owned'
  BY <1>1, <1>2, Typed
<1>4. PurchasesInOrder'
  BY <1>1, PurchaseJoins
<1> QED
  BY <1>1, <1>2, <1>3, <1>4, Typed DEF Elsewhere, browser

LEMMA RequestsElsewhere ==
  ASSUME IInv, NEW n \in Numbers, RequestElsewhere(n)
  PROVE  Elsewhere
<1> USE DEF IInv
<1>1. /\ owner[n] # NoUser /\ requested' = requested \union {n}
      /\ UNCHANGED <<session, opened, owner, epoch, browser, request, overlapped>>
  BY DEF RequestElsewhere
<1>2. Owned' = Owned /\ n \in Owned /\ PurchasesInOrder'
  BY <1>1 DEF Owned, PurchasesInOrder
<1> QED
  BY <1>1, <1>2, Typed DEF Elsewhere, browser

LEMMA NobodyOwns ==
  ASSUME NEW owners, owners = [n \in Numbers |-> NoUser]
  PROVE  {n \in Numbers : owners[n] # NoUser} = 1..Cardinality({n \in Numbers : owners[n] # NoUser})
<1>1. {n \in Numbers : owners[n] # NoUser} = {} /\ 1..0 = {}
  OBVIOUS
<1> QED
  BY <1>1, FS_EmptySet

LEMMA Restarts ==
  ASSUME IInv, Restart
  PROVE  Elsewhere
<1> USE DEF IInv
<1>1. /\ epoch < MaxEpochs /\ epoch' = epoch + 1
      /\ owner' = [n \in Numbers |-> NoUser] /\ requested' = {}
      /\ UNCHANGED <<session, opened, browser, request, overlapped>>
  BY DEF Restart
<1>2. epoch' \in 0..MaxEpochs
  BY <1>1, Typed
<1>3. owner' \in [Numbers -> Users] /\ PurchasesInOrder'
  BY <1>1, NobodyOwns DEF Users, PurchasesInOrder, Owned
<1> QED
  BY <1>1, <1>2, <1>3, Typed DEF Elsewhere, browser

-----------------------------------------------------------------------------
(* The user. *)

(* The forms of the two views. *)
Forms == {"register"} \union Logins
Buttons == {"logout", "buy", "request-support"}

LEMMA Using ==
  ASSUME TypeOK, NEW r \in Requests, Use(r)
  PROVE  \E kind \in Forms \union Buttons, account \in Users, number \in 0..MaxNumber :
           /\ NewRequest(r, kind, account, number)
           /\ kind \in Forms <=> page.account = NoUser
           /\ kind \in Logins => account \in Accounts
           /\ kind = "request-support" => number \in Numbers
<1>1. 0 \in 0..MaxNumber /\ NoUser \in Users /\ Accounts \subseteq Users
  BY DEF Users
<1>2. page.cards \subseteq Numbers /\ Numbers \subseteq 0..MaxNumber
  BY DEF TypeOK, Numbers
<1>3. CASE page.account = NoUser /\ NewRequest(r, "register", NoUser, 0)
  BY <1>1, <1>3 DEF Forms, Buttons, Logins
<1>4. CASE /\ page.account = NoUser
           /\ \E account \in Accounts, kind \in {"login", "administrator-login"} :
                NewRequest(r, kind, account, 0)
  BY <1>1, <1>4 DEF Forms, Buttons, Logins
<1>5. CASE /\ page.account # NoUser
           /\ \E kind \in {"logout", "buy"} : NewRequest(r, kind, NoUser, 0)
  BY <1>1, <1>5 DEF Forms, Buttons, Logins
<1>6. CASE /\ page.account # NoUser
           /\ \E n \in page.cards : NewRequest(r, "request-support", NoUser, n)
  BY <1>1, <1>2, <1>6 DEF Forms, Buttons, Logins
<1> QED
  BY <1>3, <1>4, <1>5, <1>6 DEF Use

(* A row that was just sent. *)
Fresh(row, kind, account, number, token) ==
  /\ row \in RequestRow /\ row.kind = kind /\ row.account = account
  /\ row.number = number /\ row.token = token /\ row.status = "sent"
  /\ row.result = "none" /\ ~row.effect /\ row.epoch = 0

LEMMA NewRow ==
  ASSUME NEW row, NEW kind \in Kinds, NEW account \in Users,
         NEW number \in 0..MaxNumber, NEW token \in 0..MaxRequests,
         row = [NoRequest EXCEPT !.kind = kind, !.account = account,
                                 !.number = number, !.token = token,
                                 !.status = "sent"]
  PROVE  Fresh(row, kind, account, number, token)
<1>1. /\ NoRequest \in RequestRow /\ NoRequest.result = "none" /\ ~NoRequest.effect
      /\ NoRequest.epoch = 0
  BY NoRequestTyped DEF NoRequest
<1>2. row \in RequestRow
  BY <1>1 DEF RequestRow
<1>3. /\ row.kind = kind /\ row.account = account
      /\ row.number = number /\ row.token = token /\ row.status = "sent"
  BY <1>1 DEF RequestRow
<1>4. /\ row.result = NoRequest.result /\ row.epoch = NoRequest.epoch
      /\ row.effect = NoRequest.effect
  BY <1>1 DEF RequestRow
<1> QED
  BY <1>1, <1>2, <1>3, <1>4 DEF Fresh

LEMMA NewPlainRow ==
  ASSUME NEW row, NEW kind \in Kinds, NEW token \in 0..MaxRequests,
         row = [NoRequest EXCEPT !.kind = kind, !.token = token, !.status = "sent"]
  PROVE  Fresh(row, kind, NoUser, 0, token)
<1>1. /\ NoRequest \in RequestRow /\ NoRequest.result = "none" /\ ~NoRequest.effect
      /\ NoRequest.epoch = 0 /\ NoRequest.account = NoUser /\ NoRequest.number = 0
  BY NoRequestTyped DEF NoRequest
<1>2. row \in RequestRow
  BY <1>1 DEF RequestRow
<1>3. row.kind = kind /\ row.token = token /\ row.status = "sent"
  BY <1>1 DEF RequestRow
<1>4. /\ row.result = NoRequest.result /\ row.epoch = NoRequest.epoch
      /\ row.account = NoRequest.account /\ row.number = NoRequest.number
      /\ row.effect = NoRequest.effect
  BY <1>1 DEF RequestRow
<1> QED
  BY <1>1, <1>2, <1>3, <1>4 DEF Fresh

(* A new request joins the list, as long as there is room. *)
LEMMA RoomIsKept ==
  ASSUME OneByOne, OneByOne', Sent' = Sent \union {Last + 1}, Last' = Last + 1,
         GoingOn' \subseteq GoingOn \union {Last + 1},
         Room >= (IF Last + 1 \in GoingOn' THEN 2 ELSE 1)
  PROVE  HasRoom'
<1>1. /\ IsFiniteSet(GoingOn) /\ Cardinality(GoingOn) \in Nat /\ Last \in Nat
  BY SentIsFinite DEF Last
<1>2. MaxRequests - Last - Cardinality(GoingOn) >= (IF Last + 1 \in GoingOn' THEN 2 ELSE 1)
  BY DEF Room, Last
<1>3. CASE Last + 1 \in GoingOn'
  <2>1. /\ IsFiniteSet(GoingOn \union {Last + 1})
        /\ Cardinality(GoingOn \union {Last + 1})
             = IF Last + 1 \in GoingOn THEN Cardinality(GoingOn)
               ELSE Cardinality(GoingOn) + 1
    BY <1>1, FS_AddElement
  <2>2. Cardinality(GoingOn') <= Cardinality(GoingOn \union {Last + 1})
        /\ Cardinality(GoingOn') \in Nat
    BY <2>1, FS_Subset, FS_CardinalityType
  <2>3. Cardinality(GoingOn \union {Last + 1}) <= Cardinality(GoingOn) + 1
    BY <1>1, <2>1
  <2> QED
    BY <1>1, <1>2, <1>3, <2>1, <2>2, <2>3 DEF HasRoom
<1>4. CASE Last + 1 \notin GoingOn'
  <2>1. GoingOn' \subseteq GoingOn
    BY <1>4
  <2>2. Cardinality(GoingOn') <= Cardinality(GoingOn) /\ Cardinality(GoingOn') \in Nat
    BY <1>1, <2>1, FS_Subset, FS_CardinalityType
  <2> QED
    BY <1>1, <1>2, <1>4, <2>2 DEF HasRoom
<1> QED
  BY <1>3, <1>4

LEMMA RequestJoins ==
  ASSUME TypeOK, OneByOne, NEW r \in Requests, NEW kind \in Kinds,
         NEW account \in Users, NEW number \in 0..MaxNumber,
         NewRequest(r, kind, account, number)
  PROVE  /\ r = Last + 1 /\ request[r] = NoRequest /\ r # 1
         /\ request' \in [Requests -> RequestRow]
         /\ \A s \in Requests \ {r} : request'[s] = request[s]
         /\ cookie' \in {0, cookie}
         /\ Fresh(request'[r], kind, account, number, cookie')
         /\ OneByOne' /\ Sent' = Sent \union {r} /\ Last' = Last + 1
         /\ Room >= (IF kind = "administrator-login" THEN 2 ELSE 1)
         /\ overlapped' = (overlapped \/ ~Idle)
<1>1. /\ r = Last + 1 /\ Room >= (IF kind = "administrator-login" THEN 2 ELSE 1)
      /\ overlapped' = (overlapped \/ ~Idle)
      /\ cookie' \in {0, cookie}
      /\ request' = [request EXCEPT
           ![r] = [NoRequest EXCEPT !.kind = kind, !.account = account,
                                    !.number = number, !.token = cookie',
                                    !.status = "sent"]]
  BY DEF NewRequest, BrowserDropsCookie, Last
<1>2. request \in [Requests -> RequestRow] /\ cookie' \in 0..MaxRequests
  <2>1. cookie = 0 \/ cookie \in 1..MaxRequests
    BY Typed DEF Opened, Tokens, Requests
  <2> QED
    BY <1>1, <2>1, Typed
<1>3. \A s \in Requests \ {r} : request'[s] = request[s]
  BY <1>1, <1>2
<1>4. request'[r] = [NoRequest EXCEPT !.kind = kind, !.account = account,
                                    !.number = number, !.token = cookie',
                                    !.status = "sent"]
  BY <1>1, <1>2
<1>5. Fresh(request'[r], kind, account, number, cookie')
  BY <1>2, <1>4, NewRow
<1>6. request' \in [Requests -> RequestRow]
  BY <1>1, <1>2, <1>4, <1>5 DEF Fresh
<1>7. request[r] = NoRequest /\ r # 1
  BY <1>1, SentIsAStatus DEF OneByOne
<1>8. request'[r].status # "none"
  BY <1>5 DEF Fresh
<1>9. OneByOne' /\ Sent' = Sent \union {r} /\ Last' = Last + 1
  BY <1>1, <1>3, <1>8, OrderGrows
<1> QED
  BY <1>1, <1>3, <1>5, <1>6, <1>7, <1>9

LEMMA UseKeeps ==
  ASSUME IInv, NEW r \in Requests, Use(r)
  PROVE  IInv'
<1> USE DEF IInv
<1>1. PICK kind \in Forms \union Buttons, account \in Users, number \in 0..MaxNumber :
        /\ NewRequest(r, kind, account, number)
        /\ kind \in Logins => account \in Accounts
        /\ kind = "request-support" => number \in Numbers
  BY Using
<1>2. kind \in Kinds /\ kind \notin {"session"}
  BY DEF Forms, Buttons, Logins, Kinds
<1>3. /\ r = Last + 1 /\ request[r] = NoRequest /\ r # 1
      /\ request' \in [Requests -> RequestRow]
      /\ \A s \in Requests \ {r} : request'[s] = request[s]
      /\ OneByOne' /\ Sent' = Sent \union {r} /\ Last' = Last + 1
      /\ Room >= (IF kind = "administrator-login" THEN 2 ELSE 1)
      /\ overlapped' = (overlapped \/ ~Idle)
  BY <1>1, <1>2, RequestJoins
<1>4. Fresh(request'[r], kind, account, number, cookie') /\ cookie' \in {0, cookie}
  BY <1>1, <1>2, RequestJoins
<1>5. UNCHANGED <<session, opened, owner, requested, epoch, page>> /\ busy' = TRUE
  BY DEF Use, server
<1>6. TypeOK'
  <2>1. overlapped' \in BOOLEAN
    BY <1>3, Zenon DEF TypeOK
  <2>2. busy' \in BOOLEAN
    BY <1>5
  <2>3. /\ session' \in [Tokens -> Users] /\ opened' \in [Tokens -> Users]
        /\ \A t \in Tokens : session'[t] \in {opened'[t], NoUser}
        /\ owner' \in [Numbers -> Users] /\ requested' \subseteq Owned'
        /\ epoch' \in 0..MaxEpochs /\ cookie' \in {0} \union Opened'
    BY <1>4, <1>5, Typed DEF Owned, Opened
  <2>4. page' \in [account : Users, cards : SUBSET Numbers, epoch : 0..MaxEpochs]
    BY <1>5 DEF TypeOK, Users
  <2> QED
    BY <1>3, <2>1, <2>2, <2>3, <2>4 DEF TypeOK, Users, Owned, Opened, RequestRow
<1>7. HasRoom'
  <2>1. GoingOn' \subseteq GoingOn \union {r}
    <3>1. Sent \subseteq Requests
      BY DEF Sent
    <3>2. \A s \in Sent : s # r => (UnderWay(s) <=> UnderWay(s)')
      BY <1>3, <3>1 DEF UnderWay
    <3> QED
      BY <1>3, <3>1, <3>2 DEF GoingOn
  <2>2. r \in GoingOn' => kind = "administrator-login"
    BY <1>2, <1>4 DEF GoingOn, Fresh
  <2>3. Room >= (IF Last + 1 \in GoingOn' THEN 2 ELSE 1)
    <3>1. (Last + 1 \in GoingOn') => kind = "administrator-login"
      BY <1>3, <2>2
    <3>2. CASE Last + 1 \in GoingOn'
      BY <1>3, <3>1, <3>2
    <3>3. CASE Last + 1 \notin GoingOn' /\ kind = "administrator-login"
      <4>1. Room \in Int
        BY SentIsFinite DEF Room
      <4> QED
        BY <1>3, <3>3, <4>1
    <3>4. CASE Last + 1 \notin GoingOn' /\ kind # "administrator-login"
      BY <1>3, <3>4
    <3> QED
      BY <3>2, <3>3, <3>4
  <2> QED
    BY <1>3, <2>1, <2>3, RoomIsKept
<1>8. TokensAreOpened'
  <2>1. Opened' = Opened /\ cookie' \in {0} \union Opened
    BY <1>4, <1>5, Typed DEF Opened
  <2>2. request[r].status = "none"
    BY <1>3 DEF NoRequest
  <2>3. r \notin Opened
    BY <1>3, <2>2 DEF TokensAreOpened
  <2>4. \A t \in Opened \ {1} : request'[t] = request[t]
    BY <1>3, <2>3 DEF Opened, Tokens
  <2> QED
    BY <1>3, <1>4, <2>1, <2>4 DEF TokensAreOpened, Fresh
<1>9. RequestsAreMeant'
  BY <1>1, <1>3, <1>4 DEF RequestsAreMeant, Fresh
<1>10. AnswersAreTheirs' /\ LogoutsEnd'
  BY <1>3, <1>4, <1>5 DEF AnswersAreTheirs, LogoutsEnd, Fresh
<1>11. PurchasesInOrder' /\ PageIsWhole'
  BY <1>5 DEF PurchasesInOrder, Owned, PageIsWhole
<1>12. EffectsAreStored'
  BY <1>3, <1>4, <1>5, Typed DEF EffectsAreStored, Fresh
<1> QED
  BY <1>3, <1>6, <1>7, <1>8, <1>9, <1>10, <1>11, <1>12

-----------------------------------------------------------------------------
(* Another tab. *)

(* The row of a login that is over, and what it leaves. *)
Tabbed(r, account) ==
  /\ r = Last + 1 /\ r # 1 /\ request[r].status = "none" /\ account \in Accounts
  /\ request' \in [Requests -> RequestRow]
  /\ \A s \in Requests \ {r} : request'[s] = request[s]
  /\ request'[r].kind = "login" /\ request'[r].status = "over"
  /\ request'[r].token = 0 /\ request'[r].epoch = 0
  /\ OneByOne' /\ Sent' = Sent \union {r} /\ Last' = Last + 1 /\ Room >= 1
  /\ session' = [session EXCEPT ![r] = account]
  /\ opened' = [opened EXCEPT ![r] = account]
  /\ cookie' = r /\ overlapped' = TRUE
  /\ UNCHANGED <<owner, requested, epoch, page, busy>>

LEMMA TabJoins ==
  ASSUME IInv, NEW r \in Requests, NEW account \in Accounts,
         LoginInAnotherTab(r, account)
  PROVE  Tabbed(r, account)
<1> USE DEF IInv
<1> DEFINE row == [NoRequest EXCEPT !.kind = "login", !.status = "over",
                                    !.result = "ok", !.effect = TRUE]
<1>1. /\ r = Last + 1 /\ Room >= 1
      /\ session' = [session EXCEPT ![r] = account]
      /\ opened' = [opened EXCEPT ![r] = account]
      /\ cookie' = r /\ overlapped' = TRUE
      /\ UNCHANGED <<owner, requested, epoch, page, busy>>
      /\ request' = [request EXCEPT ![r] = row]
  BY DEF LoginInAnotherTab, Last
<1>2. /\ row \in RequestRow /\ row.kind = "login" /\ row.status = "over"
      /\ row.token = 0 /\ row.epoch = 0
  <2>1. NoRequest \in RequestRow /\ NoRequest.token = 0 /\ NoRequest.epoch = 0
    BY NoRequestTyped DEF NoRequest
  <2>2. row \in RequestRow
    BY <2>1 DEF RequestRow, Kinds
  <2>3. row.kind = "login" /\ row.status = "over"
    BY <2>1 DEF RequestRow
  <2>4. row.token = NoRequest.token /\ row.epoch = NoRequest.epoch
    BY <2>1 DEF RequestRow
  <2> QED
    BY <2>1, <2>2, <2>3, <2>4
<1> HIDE DEF row
<1>3. /\ request' \in [Requests -> RequestRow] /\ request'[r] = row
      /\ \A s \in Requests \ {r} : request'[s] = request[s]
  BY <1>1, <1>2, Typed
<1>4. request[r] = NoRequest /\ r # 1
  BY <1>1, SentIsAStatus DEF OneByOne
<1>5. OneByOne' /\ Sent' = Sent \union {r} /\ Last' = Last + 1
  BY <1>1, <1>2, <1>3, OrderGrows
<1> QED
  BY <1>1, <1>2, <1>3, <1>4, <1>5 DEF Tabbed, NoRequest

(* The token of the other tab is not in use before. *)
LEMMA TabTokens ==
  ASSUME TypeOK, OneByOne, TokensAreOpened, NEW r \in Requests, NEW account,
         Tabbed(r, account)
  PROVE  /\ session' \in [Tokens -> Users] /\ opened' \in [Tokens -> Users]
         /\ r \in Tokens /\ r \notin Opened /\ Opened' = Opened \union {r}
         /\ \A t \in Opened : opened'[t] = opened[t] /\ session'[t] = session[t]
         /\ \A t \in Tokens : session'[t] \in {opened'[t], NoUser}
<1>1. /\ r # 1 /\ request[r].status = "none" /\ account \in Accounts
      /\ session' = [session EXCEPT ![r] = account]
      /\ opened' = [opened EXCEPT ![r] = account]
  BY DEF Tabbed
<1>2. r \in Tokens /\ r \notin Opened
  BY <1>1 DEF TokensAreOpened, Tokens
<1>3. account \in Users /\ account # NoUser
  BY <1>1 DEF Users
<1>4. session' \in [Tokens -> Users] /\ opened' \in [Tokens -> Users]
  BY <1>1, <1>3, Typed
<1>5. \A t \in Tokens \ {r} : opened'[t] = opened[t] /\ session'[t] = session[t]
  BY <1>1, Typed
<1>6. opened'[r] = account /\ session'[r] = account
  BY <1>1, <1>2, Typed
<1>7. Opened' = Opened \union {r}
  BY <1>2, <1>3, <1>5, <1>6 DEF Opened
<1> QED
  BY <1>2, <1>4, <1>5, <1>6, <1>7, Typed DEF Opened

LEMMA TabKeeps ==
  ASSUME IInv, NEW r \in Requests, NEW account, Tabbed(r, account)
  PROVE  IInv'
<1> USE DEF IInv
<1>1. /\ r = Last + 1 /\ r # 1 /\ request[r].status = "none"
      /\ request' \in [Requests -> RequestRow]
      /\ \A s \in Requests \ {r} : request'[s] = request[s]
      /\ request'[r].kind = "login" /\ request'[r].status = "over"
      /\ request'[r].token = 0 /\ request'[r].epoch = 0
      /\ OneByOne' /\ Sent' = Sent \union {r} /\ Last' = Last + 1 /\ Room >= 1
      /\ cookie' = r /\ overlapped' = TRUE
      /\ UNCHANGED <<owner, requested, epoch, page, busy>>
  BY DEF Tabbed
<1>2. /\ session' \in [Tokens -> Users] /\ opened' \in [Tokens -> Users]
      /\ r \in Tokens /\ r \notin Opened /\ Opened' = Opened \union {r}
      /\ \A t \in Opened : opened'[t] = opened[t] /\ session'[t] = session[t]
      /\ \A t \in Tokens : session'[t] \in {opened'[t], NoUser}
  BY TabTokens
<1>3. TypeOK'
  <2>1. /\ owner' \in [Numbers -> Users] /\ requested' \subseteq Owned'
        /\ epoch' \in 0..MaxEpochs /\ cookie' \in {0} \union Opened'
    BY <1>1, <1>2, Typed DEF Owned
  <2>2. /\ page' \in [account : Users, cards : SUBSET Numbers, epoch : 0..MaxEpochs]
        /\ busy' \in BOOLEAN /\ overlapped' \in BOOLEAN
    BY <1>1 DEF TypeOK, Users
  <2> QED
    BY <1>1, <1>2, <2>1, <2>2 DEF TypeOK, Users, Owned, Opened, RequestRow
<1>4. HasRoom'
  <2>1. Sent \subseteq Requests
    BY DEF Sent
  <2>2. \A s \in Sent : s # r => (UnderWay(s) <=> UnderWay(s)')
    BY <1>1, <2>1 DEF UnderWay
  <2>3. GoingOn' \subseteq GoingOn
    BY <1>1, <2>1, <2>2 DEF GoingOn, UnderWay
  <2>4. Last + 1 \notin GoingOn'
    BY <1>1 DEF GoingOn
  <2> QED
    BY <1>1, <2>3, <2>4, RoomIsKept
<1>5. TokensAreOpened'
  <2>1. \A t \in Opened : t # r /\ t \in Requests
    BY <1>2 DEF Opened, Tokens
  <2> QED
    BY <1>1, <1>2, <2>1 DEF TokensAreOpened, Logins
<1>6. RequestsAreMeant'
  BY <1>1 DEF RequestsAreMeant
<1>7. AnswersAreTheirs'
  <2> SUFFICES ASSUME NEW s \in Requests,
                      request'[s].status = "answered", request'[s].result = "ok"
               PROVE  /\ request'[s].kind \in Logins =>
                           request'[s].shows # NoUser /\ opened'[s] = request'[s].shows
                      /\ request'[s].kind
                           \in {"session", "dashboard", "buy", "request-support"}
                         /\ request'[s].shows # NoUser =>
                           /\ request'[s].token # 0
                           /\ opened'[request'[s].token] = request'[s].shows
                      /\ request'[s].kind \in {"dashboard", "buy", "request-support"} =>
                           request'[s].shows # NoUser
    BY DEF AnswersAreTheirs
  <2>1. s # r /\ request'[s] = request[s]
    BY <1>1
  <2>2. request[s].kind \in Logins =>
          request[s].shows # NoUser /\ opened[s] = request[s].shows
    BY <2>1 DEF AnswersAreTheirs
  <2>3. request[s].kind \in {"session", "dashboard", "buy", "request-support"}
          /\ request[s].shows # NoUser =>
          /\ request[s].token \in Opened /\ request[s].token # 0
          /\ opened[request[s].token] = request[s].shows
    BY <2>1, TokensOfRequests DEF AnswersAreTheirs
  <2>4. request[s].kind \in {"dashboard", "buy", "request-support"} =>
          request[s].shows # NoUser
    BY <2>1 DEF AnswersAreTheirs
  <2>5. request[s].kind \in Logins => s \in Opened
    BY <2>2 DEF Opened, Tokens
  <2> QED
    BY <1>2, <2>1, <2>2, <2>3, <2>4, <2>5
<1>8. LogoutsEnd'
  <2> SUFFICES ASSUME NEW s \in Requests, request'[s].kind \in Logouts,
                      request'[s].status \in {"answered", "over"},
                      request'[s].result = "ok", request'[s].token # 0
               PROVE  session'[request'[s].token] = NoUser
    BY DEF LogoutsEnd
  <2>1. request'[s] = request[s]
    BY <1>1
  <2>2. session[request[s].token] = NoUser /\ request[s].token \in Opened
    BY <2>1, TokensOfRequests DEF LogoutsEnd
  <2> QED
    BY <1>2, <2>1, <2>2
<1>9. PurchasesInOrder' /\ PageIsWhole'
  BY <1>1 DEF PurchasesInOrder, Owned, PageIsWhole
<1>10. EffectsAreStored'
  <2> SUFFICES ASSUME NEW s \in Requests
               PROVE  /\ request'[s].epoch <= epoch
                      /\ request'[s].kind \in {"buy", "request-support"}
                           /\ request'[s].effect => request'[s].token # 0
                      /\ request'[s].kind = "request-support" /\ request'[s].effect
                           /\ request'[s].epoch = epoch =>
                           /\ request'[s].number \in requested
                           /\ request'[s].token # 0
                           /\ owner[request'[s].number] = opened'[request'[s].token]
    BY <1>1 DEF EffectsAreStored
  <2>1. CASE s = r
    BY <1>1, <2>1, Typed
  <2>2. CASE s # r
    <3>1. request'[s] = request[s]
      BY <1>1, <2>2
    <3>2. /\ request[s].epoch <= epoch
          /\ request[s].kind \in {"buy", "request-support"} /\ request[s].effect =>
               request[s].token # 0
      BY DEF EffectsAreStored
    <3>3. ASSUME request[s].kind = "request-support", request[s].effect,
                 request[s].epoch = epoch
          PROVE  /\ request[s].number \in requested /\ request[s].token # 0
                 /\ owner[request[s].number] = opened[request[s].token]
                 /\ request[s].token \in Opened
      BY <3>3, TokensOfRequests DEF EffectsAreStored
    <3> QED
      BY <1>2, <3>1, <3>2, <3>3
  <2> QED
    BY <2>1, <2>2
<1> QED
  BY <1>1, <1>3, <1>4, <1>5, <1>6, <1>7, <1>8, <1>9, <1>10

-----------------------------------------------------------------------------
(* Answers. *)

(* What is left of a request when its answer is there, or lost. *)
Ended(row, r, result) ==
  /\ row.kind = request[r].kind /\ row.number = request[r].number
  /\ row.effect = request[r].effect /\ row.status = "over"
  /\ row.result = "ok" <=> result = "ok"
  /\ row.token \in {0, request[r].token} /\ row.epoch \in {0, request[r].epoch}
  /\ request[r].kind \in {"buy", "request-support"} \union Logouts =>
       row.token = request[r].token
  /\ request[r].kind \in {"buy", "request-support"} =>
       row.epoch = request[r].epoch /\ row.result = result

LEMMA OverRows ==
  ASSUME request \in [Requests -> RequestRow], NEW r \in Requests,
         NEW result \in {"none", "ok", "refused", "failed", "lost"}
  PROVE  /\ Over(r, result) \in [Requests -> RequestRow]
         /\ \A s \in Requests \ {r} : Over(r, result)[s] = request[s]
         /\ Ended(Over(r, result)[r], r, result)
<1> DEFINE old == request[r]
           kept == old.kind \in {"buy", "request-support"}
           token == IF kept \/ old.kind \in Logouts THEN old.token ELSE 0
           era == IF kept THEN old.epoch ELSE 0
           told == IF kept \/ result = "ok" THEN result ELSE "failed"
           row == [old EXCEPT !.status = "over", !.account = NoUser, !.shows = NoUser,
                              !.cards = {}, !.token = token, !.epoch = era,
                              !.result = told]
<1>1. old \in RequestRow
  OBVIOUS
<1>2. /\ token \in 0..MaxRequests /\ era \in 0..MaxEpochs
      /\ told \in {"none", "ok", "refused", "failed", "lost"}
  BY <1>1, RowFields
<1>3. Over(r, result) = [request EXCEPT ![r] = row]
  BY <1>1 DEF Over, RequestRow, Logouts
<1> HIDE DEF token, era, told
<1>4. row \in RequestRow
  BY <1>1, <1>2 DEF RequestRow, Users
<1>5. Over(r, result) \in [Requests -> RequestRow]
  BY <1>3, <1>4
<1>6. Over(r, result)[r] = row /\ \A s \in Requests \ {r} : Over(r, result)[s] = request[s]
  BY <1>3
<1>7. /\ row.kind = old.kind /\ row.number = old.number /\ row.effect = old.effect
      /\ row.status = "over" /\ row.token = token /\ row.epoch = era
      /\ row.result = told
  BY <1>1 DEF RequestRow
<1> HIDE DEF row
<1>8. Ended(row, r, result)
  BY <1>7 DEF Ended, token, era, told, Logouts
<1> QED
  BY <1>5, <1>6, <1>8

(* The rows when an answer arrives: its handler may go on with a request.  *)
Follows(r, kind) ==
  /\ \/ kind = "dashboard" /\ request[r].kind = "session"
     \/ kind = "administrator-logout" /\ request[r].kind = "administrator-login"
  /\ Last + 1 \in Requests /\ Last + 1 # r
  /\ Fresh(request'[Last + 1], kind, NoUser, 0, cookie')
  /\ \A s \in Requests \ {r, Last + 1} : request'[s] = request[s]
  /\ overlapped' = (overlapped \/ \E s \in Requests \ {r} : UnderWay(s))
  /\ UNCHANGED <<page, busy>>

ArrivedRows(r, result) ==
  /\ UnderWay(r) /\ result \in Outcomes(r)
  /\ request' \in [Requests -> RequestRow]
  /\ Ended(request'[r], r, result)
  /\ UNCHANGED <<session, opened, owner, requested, epoch>>
  /\ cookie' \in {0, CookieAfter(r, result)}

LEMMA CookieIsOpened ==
  ASSUME TypeOK, AnswersAreTheirs, NEW r \in Requests, UnderWay(r),
         NEW result \in Outcomes(r)
  PROVE  CookieAfter(r, result) \in {0} \union Opened
<1>1. CASE result = "ok" /\ request[r].kind \in Logins
  <2>1. request[r].status = "answered" /\ request[r].result = "ok"
    BY <1>1 DEF Outcomes, UnderWay
  <2>2. opened[r] = request[r].shows /\ request[r].shows # NoUser
    BY <1>1, <2>1 DEF AnswersAreTheirs
  <2>3. CookieAfter(r, result) = r
    BY <1>1 DEF CookieAfter, Logins
  <2> QED
    BY <2>2, <2>3 DEF Opened, Tokens
<1>2. CASE result = "ok" /\ request[r].kind \in Logouts
  BY <1>2 DEF CookieAfter, Logouts
<1>3. CASE result # "ok" \/ request[r].kind \notin Logins \union Logouts
  BY <1>3, Typed DEF CookieAfter, Logins, Logouts
<1> QED
  BY <1>1, <1>2, <1>3

LEMMA Arriving ==
  ASSUME IInv, NEW r \in Requests, Arrive(r)
  PROVE  \E result \in Outcomes(r) :
           /\ ArrivedRows(r, result)
           /\ \/ /\ Settles(r, result) /\ cookie' = CookieAfter(r, result)
                 /\ \A s \in Requests \ {r} : request'[s] = request[s]
              \/ /\ result = "ok"
                 /\ \E kind \in {"administrator-logout", "dashboard"} : Follows(r, kind)
<1> USE DEF IInv
<1>1. PICK result \in Outcomes(r) :
        /\ cookie' \in {0, CookieAfter(r, result)}
        /\ \/ cookie' = CookieAfter(r, result) /\ Settles(r, result)
           \/ /\ result = "ok"
              /\ \E kind \in {"administrator-logout", "dashboard"} : GoesOn(r, kind)
  BY DEF Arrive, GoesOn, BrowserDropsCookie
<1>2. UnderWay(r) /\ UNCHANGED <<session, opened, owner, requested, epoch>>
  BY DEF Arrive, server
<1>3. request \in [Requests -> RequestRow] /\ request[r] \in RequestRow
  BY Typed
<1>4. result \in {"none", "ok", "refused", "failed", "lost"}
  BY <1>3, RowFields DEF Outcomes
<1>5. /\ Over(r, result) \in [Requests -> RequestRow]
      /\ \A s \in Requests \ {r} : Over(r, result)[s] = request[s]
      /\ Ended(Over(r, result)[r], r, result)
  BY <1>3, <1>4, OverRows
<1>6. CASE cookie' = CookieAfter(r, result) /\ Settles(r, result)
  <2>1. request' = Over(r, result)
    BY <1>6 DEF Settles
  <2> QED
    BY <1>1, <1>2, <1>5, <1>6, <2>1 DEF ArrivedRows
<1>7. ASSUME NEW kind \in {"administrator-logout", "dashboard"}, result = "ok",
             GoesOn(r, kind)
      PROVE  ArrivedRows(r, result) /\ Follows(r, kind)
  <2> DEFINE n == Last + 1
             row == [NoRequest EXCEPT !.kind = kind, !.token = cookie', !.status = "sent"]
  <2>1. r \in GoingOn /\ r \in Sent
    BY <1>2, <1>7, SentIsAStatus DEF GoesOn, GoingOn
  <2>2. n \in Requests /\ n # r
    <3>1. Cardinality(GoingOn) \in Nat /\ Cardinality(GoingOn) # 0
      BY <2>1, SentIsFinite, FS_EmptySet
    <3>2. Last \in Nat /\ r <= Last
      BY <2>1, SentIsAStatus DEF OneByOne
    <3> QED
      BY <3>1, <3>2 DEF HasRoom, Requests
  <2>3. request' = [Over(r, result) EXCEPT ![n] = row]
    BY <1>1, <1>7 DEF GoesOn, Last
  <2>4. cookie' \in 0..MaxRequests
    BY <1>1, <1>2, CookieIsOpened DEF Opened, Tokens, Requests
  <2>5. Fresh(row, kind, NoUser, 0, cookie')
    <3>1. kind \in Kinds
      BY DEF Kinds
    <3> QED
      BY <2>4, <3>1, NewPlainRow
  <2> HIDE DEF row
  <2>6. row \in RequestRow
    BY <2>5 DEF Fresh
  <2>7. request' \in [Requests -> RequestRow]
    BY <1>5, <2>3, <2>6
  <2>8. /\ request'[r] = Over(r, result)[r] /\ request'[n] = row
        /\ \A s \in Requests \ {r, n} : request'[s] = request[s]
    BY <1>5, <2>2, <2>3
  <2>9. ArrivedRows(r, result)
    BY <1>1, <1>2, <1>5, <2>7, <2>8 DEF ArrivedRows
  <2>10. Follows(r, kind)
    <3>1. /\ \/ kind = "dashboard" /\ request[r].kind = "session"
             \/ kind = "administrator-logout" /\ request[r].kind = "administrator-login"
          /\ UNCHANGED <<page, busy>>
      BY <1>7 DEF GoesOn
    <3>2. overlapped' = (overlapped \/ \E s \in Requests \ {r} : UnderWay(s))
      BY <1>7 DEF GoesOn
    <3>3. Fresh(request'[n], kind, NoUser, 0, cookie')
      BY <2>5, <2>8
    <3> QED
      BY <2>2, <2>8, <3>1, <3>2, <3>3, Zenon DEF Follows
  <2> QED
    BY <2>9, <2>10
<1> QED
  BY <1>1, <1>6, <1>7

(* What the page is after an answer: what it was, the login forms, or the  *)
(* dashboard that was answered.                                            *)
LEMMA ArrivedPage ==
  ASSUME IInv, NEW r \in Requests, NEW result \in Outcomes(r), UnderWay(r),
         Settles(r, result)
  PROVE  /\ \/ /\ page' = page
               /\ result # "ok" \/ request[r].kind = "administrator-logout"
            \/ page' = AuthView
            \/ /\ request[r].status = "answered" /\ request[r].result = "ok"
               /\ result = "ok" /\ request[r].shows # NoUser
               /\ request[r].kind \in {"login", "administrator-login", "buy",
                                      "request-support", "dashboard"}
               /\ page' = [account |-> request[r].shows, cards |-> request[r].cards,
                           epoch |-> request[r].epoch]
         /\ busy' \in BOOLEAN
         /\ overlapped' = overlapped
<1> USE DEF IInv
<1>1. result = "ok" => request[r].status = "answered" /\ request[r].result = "ok"
  BY DEF Outcomes, UnderWay
<1>2. /\ request[r].status = "answered" /\ request[r].result = "ok"
      /\ request[r].kind \in {"login", "buy", "request-support", "dashboard"}
      => request[r].shows # NoUser
  BY DEF AnswersAreTheirs, Logins
<1>3. busy' = busy \/ busy' = FALSE
  BY DEF Settles, Renders, ShowAuth, EndsInError
<1>4. busy' \in BOOLEAN
  BY <1>3 DEF TypeOK
<1>5. overlapped' = overlapped
  BY DEF Settles
<1>6. \/ /\ page' = page
         /\ result # "ok" \/ request[r].kind = "administrator-logout"
      \/ page' = AuthView
      \/ /\ result = "ok" /\ request[r].shows # NoUser
         /\ request[r].kind \in {"login", "administrator-login", "buy",
                                "request-support", "dashboard"}
         /\ page' = [account |-> request[r].shows, cards |-> request[r].cards,
                     epoch |-> request[r].epoch]
  <2>1. CASE result = "ok" /\ Renders(r)
             /\ request[r].kind \in {"login", "buy", "request-support", "dashboard"}
    BY <1>1, <1>2, <2>1 DEF Renders
  <2>2. CASE /\ result = "ok" /\ Renders(r)
             /\ request[r].kind = "administrator-login"
             /\ request[r].shows = Administrator
    BY <2>2 DEF Renders
  <2>3. CASE ShowAuth
    BY <2>3 DEF ShowAuth
  <2>4. CASE /\ EndsInError(request[r].kind)
             /\ result # "ok" \/ request[r].kind = "administrator-logout"
    BY <2>4 DEF EndsInError
  <2> QED
    BY <2>1, <2>2, <2>3, <2>4 DEF Settles
<1> QED
  BY <1>1, <1>4, <1>5, <1>6

LEMMA ArriveKeeps ==
  ASSUME IInv, NEW r \in Requests, Arrive(r)
  PROVE  IInv'
<1> USE DEF IInv
<1>1. PICK result \in Outcomes(r) :
        /\ ArrivedRows(r, result)
        /\ \/ /\ Settles(r, result)
              /\ \A s \in Requests \ {r} : request'[s] = request[s]
           \/ /\ result = "ok"
              /\ \E kind \in {"administrator-logout", "dashboard"} : Follows(r, kind)
  BY Arriving
<1>2. /\ UnderWay(r) /\ request' \in [Requests -> RequestRow]
      /\ Ended(request'[r], r, result)
      /\ UNCHANGED <<session, opened, owner, requested, epoch>>
      /\ cookie' \in {0} \union Opened
  BY <1>1, CookieIsOpened DEF ArrivedRows
<1>3. \A s \in Requests \ {r} :
        \/ request'[s] = request[s]
        \/ /\ s = Last + 1
           /\ \E kind \in {"administrator-logout", "dashboard"} :
                Fresh(request'[s], kind, NoUser, 0, cookie')
  BY <1>1 DEF Follows
<1>4. request[r].status \in {"sent", "answered"} /\ request'[r].status = "over"
  BY <1>2 DEF UnderWay, Ended
<1>5. \A s \in Requests : s = Last + 1 => s # r /\ request[s].status = "none"
  <2>1. Last \in Nat
    BY DEF OneByOne
  <2> QED
    BY <1>2, <2>1, SentIsAStatus
<1>6. OneByOne' /\ HasRoom'
  <2>1. CASE \A s \in Requests \ {r} : request'[s] = request[s]
    <3>1. \A s \in Requests : request'[s].kind = request[s].kind
      BY <1>2, <2>1 DEF Ended
    <3>2. OneByOne' /\ Sent' = Sent /\ Last' = Last
      BY <1>4, <2>1, <3>1, OrderKept
    <3>3. Sent \subseteq Requests
      BY DEF Sent
    <3>4. GoingOn' \subseteq GoingOn
      BY <1>4, <2>1, <3>2, <3>3 DEF GoingOn, UnderWay
    <3>5. Cardinality(GoingOn') <= Cardinality(GoingOn) /\ Cardinality(GoingOn') \in Nat
      BY <3>4, SentIsFinite, FS_Subset, FS_CardinalityType
    <3> QED
      BY <3>2, <3>5, SentIsFinite DEF HasRoom, Last
  <2>2. ASSUME NEW kind \in {"administrator-logout", "dashboard"}, Follows(r, kind)
        PROVE  OneByOne' /\ HasRoom'
    <3> DEFINE n == Last + 1
    <3>1. /\ n \in Requests /\ n # r /\ Fresh(request'[n], kind, NoUser, 0, cookie')
          /\ \A s \in Requests \ {r, n} : request'[s] = request[s]
          /\ request[r].kind \in {"session", "administrator-login"}
      BY <2>2 DEF Follows
    <3>2. \A s \in Requests \ {n} :
            /\ request'[s].status = "none" <=> request[s].status = "none"
            /\ request'[s].status = "none" => request'[s] = request[s]
            /\ request'[s].kind = request[s].kind
      BY <1>2, <1>4, <3>1 DEF Ended
    <3>3. request'[n].status = "sent" /\ request'[n].kind = kind
      BY <3>1 DEF Fresh
    <3>4. OneByOne' /\ Sent' = Sent \union {n} /\ Last' = Last + 1
      BY <3>1, <3>2, <3>3, OrderGrows
    <3>5. r \in GoingOn
      BY <1>2, <3>1, SentIsAStatus DEF GoingOn
    <3>6. GoingOn' \subseteq GoingOn \ {r}
      <4>1. Sent \subseteq Requests
        BY DEF Sent
      <4>2. ASSUME NEW s \in GoingOn' PROVE s \in GoingOn \ {r}
        BY <1>4, <3>1, <3>3, <3>4, <4>1, <4>2 DEF GoingOn, UnderWay
      <4> QED
        BY <4>2
    <3>7. /\ IsFiniteSet(GoingOn \ {r})
          /\ Cardinality(GoingOn \ {r}) = Cardinality(GoingOn) - 1
      BY <3>5, SentIsFinite, FS_RemoveElement
    <3>8. /\ Cardinality(GoingOn') <= Cardinality(GoingOn \ {r})
          /\ Cardinality(GoingOn') \in Nat
      BY <3>6, <3>7, FS_Subset, FS_CardinalityType
    <3> QED
      BY <3>4, <3>7, <3>8, SentIsFinite DEF HasRoom, Last
  <2> QED
    BY <1>1, <2>1, <2>2
<1>7. TypeOK'
  <2>1. /\ page' \in [account : Users, cards : SUBSET Numbers, epoch : 0..MaxEpochs]
        /\ busy' \in BOOLEAN /\ overlapped' \in BOOLEAN
    <3>1. CASE Settles(r, result)
      <4>1. AuthView \in [account : Users, cards : SUBSET Numbers, epoch : 0..MaxEpochs]
        BY DEF AuthView, Users
      <4>2. request[r].shows \in Users /\ request[r].cards \in SUBSET Numbers
              /\ request[r].epoch \in 0..MaxEpochs
        BY Typed, RowFields
      <4>3. page \in [account : Users, cards : SUBSET Numbers, epoch : 0..MaxEpochs]
        BY DEF TypeOK, Users
      <4>4. page' \in [account : Users, cards : SUBSET Numbers, epoch : 0..MaxEpochs]
        BY <1>2, <3>1, <4>1, <4>2, <4>3, ArrivedPage
      <4>5. busy' \in BOOLEAN /\ overlapped' = overlapped
        BY <1>2, <3>1, ArrivedPage
      <4> QED
        BY <4>4, <4>5 DEF TypeOK
    <3>2. ASSUME NEW kind \in {"administrator-logout", "dashboard"}, Follows(r, kind)
          PROVE  /\ UNCHANGED <<page, busy>>
                 /\ overlapped' = (overlapped \/ \E s \in Requests \ {r} : UnderWay(s))
      BY <3>2 DEF Follows
    <3>3. ASSUME NEW kind \in {"administrator-logout", "dashboard"}, Follows(r, kind)
          PROVE  overlapped' \in BOOLEAN
      BY <3>2, <3>3, Zenon DEF TypeOK
    <3> QED
      BY <1>1, <3>1, <3>2, <3>3 DEF TypeOK, Users
  <2>2. /\ session' \in [Tokens -> Users] /\ opened' \in [Tokens -> Users]
        /\ \A t \in Tokens : session'[t] \in {opened'[t], NoUser}
        /\ owner' \in [Numbers -> Users] /\ requested' \subseteq Owned'
        /\ epoch' \in 0..MaxEpochs /\ cookie' \in {0} \union Opened'
    BY <1>2, Typed DEF Owned, Opened
  <2> QED
    BY <1>2, <2>1, <2>2 DEF TypeOK, Users, Owned, Opened, RequestRow
<1>8. TokensAreOpened'
  <2>1. Opened' = Opened
    BY <1>2 DEF Opened
  <2>2. ASSUME NEW t \in Opened \ {1}
        PROVE  request'[t].kind \in Logins /\ request'[t].status \in {"answered", "over"}
    <3>1. t \in Requests
      BY DEF Opened, Tokens
    <3>2. request[t].kind \in Logins /\ request[t].status \in {"answered", "over"}
      BY DEF TokensAreOpened
    <3> QED
      BY <1>2, <1>3, <1>5, <3>1, <3>2 DEF Ended
  <2>3. ASSUME NEW s \in Requests PROVE request'[s].token \in {0} \union Opened
    BY <1>2, <1>3, <2>3 DEF TokensAreOpened, Ended, Fresh
  <2> QED
    BY <2>1, <2>2, <2>3 DEF TokensAreOpened
<1>9. RequestsAreMeant'
  <2>1. ASSUME NEW s \in Requests
        PROVE  /\ request'[s].kind = "request-support" => request'[s].number \in Numbers
               /\ request'[s].kind \in Logins /\ request'[s].status = "sent" =>
                    request'[s].account \in Accounts
               /\ request'[s].status = "sent" =>
                    ~request'[s].effect /\ request'[s].result = "none"
    BY <1>2, <1>3, <2>1 DEF RequestsAreMeant, Ended, Fresh, Logins
  <2> QED
    BY <2>1 DEF RequestsAreMeant
<1>10. AnswersAreTheirs'
  <2>1. ASSUME NEW s \in Requests, request'[s].status = "answered"
        PROVE  request'[s] = request[s]
    BY <1>3, <1>4, <2>1 DEF Fresh
  <2> QED
    BY <1>2, <2>1 DEF AnswersAreTheirs
<1>11. LogoutsEnd'
  <2>1. ASSUME NEW s \in Requests, request'[s].kind \in Logouts,
               request'[s].status \in {"answered", "over"},
               request'[s].result = "ok", request'[s].token # 0
        PROVE  session[request'[s].token] = NoUser
    <3>1. CASE s = r
      <4>1. result = "ok" /\ request[r].kind \in Logouts
            /\ request'[r].token = request[r].token
        BY <1>2, <2>1, <3>1 DEF Ended
      <4>2. request[r].status = "answered" /\ request[r].result = "ok"
        BY <1>1, <1>4, <4>1 DEF ArrivedRows, Outcomes
      <4> QED
        BY <2>1, <3>1, <4>1, <4>2 DEF LogoutsEnd
    <3>2. CASE s # r
      BY <1>3, <2>1, <3>2 DEF LogoutsEnd, Fresh
    <3> QED
      BY <3>1, <3>2
  <2> QED
    BY <1>2, <2>1 DEF LogoutsEnd
<1>12. PurchasesInOrder'
  BY <1>2 DEF PurchasesInOrder, Owned
<1>13. EffectsAreStored'
  <2>1. epoch \in Nat
    BY Typed
  <2>2. ASSUME NEW s \in Requests
        PROVE  /\ request'[s].epoch <= epoch
               /\ request'[s].kind \in {"buy", "request-support"} /\ request'[s].effect =>
                    request'[s].token # 0
               /\ request'[s].kind = "request-support" /\ request'[s].effect
                    /\ request'[s].epoch = epoch =>
                    /\ request'[s].number \in requested /\ request'[s].token # 0
                    /\ owner[request'[s].number] = opened[request'[s].token]
    <3>1. CASE s = r
      BY <1>2, <2>1, <3>1 DEF EffectsAreStored, Ended
    <3>2. CASE s # r
      BY <1>3, <2>1, <3>2 DEF EffectsAreStored, Fresh
    <3> QED
      BY <3>1, <3>2
  <2> QED
    BY <1>2, <2>2 DEF EffectsAreStored
<1>14. PageIsWhole'
  <2>1. CASE Settles(r, result)
    <3>1. request[r].epoch <= epoch /\ 0 <= epoch /\ AuthView.epoch = 0
      BY Typed DEF EffectsAreStored, AuthView
    <3> QED
      BY <1>2, <2>1, <3>1, ArrivedPage DEF PageIsWhole, AuthView
  <2>2. CASE page' = page
    BY <1>2, <2>2 DEF PageIsWhole
  <2> QED
    BY <1>1, <2>1, <2>2 DEF Follows
<1> QED
  BY <1>6, <1>7, <1>8, <1>9, <1>10, <1>11, <1>12, <1>13, <1>14

-----------------------------------------------------------------------------
(* The invariant. *)

LEMMA InitHolds ==
  ASSUME Init
  PROVE  IInv
<1> DEFINE first == [NoRequest EXCEPT !.kind = "session", !.token = cookie,
                                      !.status = "sent"]
<1>1. PICK account \in Users :
        /\ session = [t \in Tokens |-> IF t = 1 THEN account ELSE NoUser]
        /\ opened = session
        /\ cookie = IF account = NoUser THEN 0 ELSE 1
  BY DEF Init, Users
<1>2. /\ owner = [n \in Numbers |-> NoUser] /\ requested = {} /\ epoch = 0
      /\ page = AuthView /\ busy = FALSE /\ overlapped = FALSE
      /\ request = [r \in Requests |-> IF r = 1 THEN first ELSE NoRequest]
  BY DEF Init
<1>3. 1 \in Requests /\ 1 \in Tokens
  BY DEF Requests, Tokens
<1>4. /\ session \in [Tokens -> Users] /\ opened \in [Tokens -> Users]
      /\ \A t \in Tokens : session[t] \in {opened[t], NoUser}
      /\ cookie \in {0} \union Opened /\ Opened \subseteq {1}
  BY <1>1, <1>3 DEF Opened, Users
<1>5. cookie \in 0..MaxRequests
  BY <1>1
<1>6. Fresh(first, "session", NoUser, 0, cookie)
  BY <1>5, NewPlainRow DEF Kinds
<1> HIDE DEF first
<1>7. request \in [Requests -> RequestRow]
  BY <1>2, <1>6, NoRequestTyped DEF Fresh
<1>8. request[1] = first /\ \A r \in Requests \ {1} : request[r] = NoRequest
  BY <1>2, <1>3
<1>9. NoRequest.kind = "none" /\ NoRequest.status = "none" /\ NoRequest.token = 0
      /\ ~NoRequest.effect /\ NoRequest.epoch = 0
  BY DEF NoRequest
<1>10. Sent = {1} /\ GoingOn = {1}
  BY <1>3, <1>6, <1>8, <1>9 DEF Sent, GoingOn, UnderWay, Fresh
<1>11. Cardinality({1}) = 1 /\ 1..1 = {1}
  <2>1. 1..1 = {1} /\ 1 \in Nat
    OBVIOUS
  <2> QED
    BY <2>1, SizeOfInterval
<1>12. OneByOne
  BY <1>6, <1>8, <1>9, <1>10, <1>11 DEF OneByOne, Last, Fresh
<1>13. HasRoom
  BY <1>10, <1>11 DEF HasRoom, Last
<1>14. TypeOK
  <2>1. page \in [account : Users, cards : SUBSET Numbers, epoch : 0..MaxEpochs]
    BY <1>2 DEF AuthView, Users
  <2>2. owner \in [Numbers -> Users] /\ requested \subseteq Owned
        /\ epoch \in 0..MaxEpochs /\ busy \in BOOLEAN /\ overlapped \in BOOLEAN
    <3>1. 0 \in 0..MaxEpochs
      OBVIOUS
    <3> QED
      BY <1>2, <3>1 DEF Users
  <2> QED
    BY <1>4, <1>7, <2>1, <2>2 DEF TypeOK, Users, Owned, Opened, RequestRow
<1>15. TokensAreOpened
  BY <1>4, <1>6, <1>8, <1>9 DEF TokensAreOpened, Fresh
<1>16. RequestsAreMeant /\ AnswersAreTheirs /\ LogoutsEnd
  BY <1>6, <1>8, <1>9
     DEF RequestsAreMeant, AnswersAreTheirs, LogoutsEnd, Fresh, Logins, Logouts
<1>17. EffectsAreStored
  BY <1>2, <1>6, <1>8, <1>9 DEF EffectsAreStored, Fresh
<1>18. PurchasesInOrder /\ PageIsWhole
  BY <1>2, NobodyOwns DEF PurchasesInOrder, Owned, PageIsWhole, AuthView
<1> QED
  BY <1>12, <1>13, <1>14, <1>15, <1>16, <1>17, <1>18 DEF IInv

LEMMA Stutters ==
  ASSUME IInv, UNCHANGED vars
  PROVE  Elsewhere
<1>1. UNCHANGED <<session, opened, owner, requested, epoch, cookie, page, busy,
                  request, overlapped>>
  BY DEF vars, server, browser
<1>2. TypeOK /\ PurchasesInOrder
  BY DEF IInv
<1>3. Owned' = Owned /\ PurchasesInOrder'
  BY <1>1, <1>2 DEF Owned, PurchasesInOrder
<1> QED
  BY <1>1, <1>2, <1>3, Typed DEF Elsewhere

(* A step is one of the user, one of the server, an answer, a login in     *)
(* another tab, or none of the page's.                                     *)
LEMMA Steps ==
  ASSUME IInv, [Next]_vars
  PROVE  \/ \E r \in Requests : Use(r) \/ Served(r) \/ Arrive(r)
         \/ \E r \in Requests, account \in Accounts : Tabbed(r, account)
         \/ Elsewhere
<1>1. CASE \E r \in Requests : Use(r)
  BY <1>1
<1>2. CASE \E r \in Requests : Serve(r)
  BY <1>2, Serving DEF IInv
<1>3. CASE \E r \in Requests : Arrive(r)
  BY <1>3
<1>4. CASE \E t \in Tokens : Expire(t)
  BY <1>4, Expires
<1>5. CASE \E account \in Accounts : BuyElsewhere(account)
  BY <1>5, BuysElsewhere
<1>6. CASE \E n \in Numbers : RequestElsewhere(n)
  BY <1>6, RequestsElsewhere
<1>7. CASE \E r \in Requests, account \in Accounts : LoginInAnotherTab(r, account)
  BY <1>7, TabJoins
<1>8. CASE Restart
  BY <1>8, Restarts
<1>9. CASE Done \/ UNCHANGED vars
  BY <1>9, Stutters DEF Done
<1> QED
  BY <1>1, <1>2, <1>3, <1>4, <1>5, <1>6, <1>7, <1>8, <1>9 DEF Next

LEMMA NextKeeps ==
  ASSUME IInv, [Next]_vars
  PROVE  IInv'
BY Steps, UseKeeps, ServeKeeps, ArriveKeeps, TabKeeps, ElsewhereKeeps

LEMMA InvariantHolds == Spec => []IInv
<1>1. Init => IInv
  BY InitHolds
<1>2. IInv /\ [Next]_vars => IInv'
  BY NextKeeps
<1> QED
  BY <1>1, <1>2, PTL DEF Spec

(* The values that the page, the requests and the stores of the server may *)
(* take: among them that a cookie names a token that a login has made, and *)
(* that a replacement is requested only for a purchase.                    *)
THEOREM PageTypeCorrect == Spec => []TypeOK
<1>1. IInv => TypeOK
  BY DEF IInv
<1> QED
  BY <1>1, InvariantHolds, PTL

-----------------------------------------------------------------------------
(* The page is busy only as long as it waits for an answer. *)

LEMMA BusyKept ==
  ASSUME IInv, BusyInv, [Next]_vars
  PROVE  BusyInv'
<1> DEFINE Waits(r) == UnderWay(r) /\ request[r].kind \notin {"session", "dashboard"}
<1> SUFFICES ASSUME busy'
             PROVE  \E r \in Requests :
                      /\ request'[r].status \in {"sent", "answered"}
                      /\ request'[r].kind \notin {"session", "dashboard"}
  BY DEF BusyInv, UnderWay
<1>1. ASSUME NEW r \in Requests, Use(r)
      PROVE  request'[r].status = "sent"
             /\ request'[r].kind \notin {"session", "dashboard"}
  <2>1. PICK kind \in Forms \union Buttons, account \in Users, number \in 0..MaxNumber :
          NewRequest(r, kind, account, number)
    BY <1>1, Using DEF IInv
  <2>2. kind \in Kinds /\ kind \notin {"session", "dashboard"}
    BY DEF Forms, Buttons, Logins, Kinds
  <2>3. Fresh(request'[r], kind, account, number, cookie')
    BY <2>1, <2>2, RequestJoins DEF IInv
  <2> QED
    BY <2>2, <2>3 DEF Fresh
<1>2. CASE Elsewhere
  <2>1. UNCHANGED <<busy, request>>
    BY <1>2 DEF Elsewhere
  <2> QED
    BY <2>1 DEF BusyInv, UnderWay
<1>3. ASSUME NEW r \in Requests, Served(r)
      PROVE  \E s \in Requests :
                      /\ request'[s].status \in {"sent", "answered"}
                      /\ request'[s].kind \notin {"session", "dashboard"}
  <2>1. /\ request'[r].kind = request[r].kind /\ request'[r].status = "answered"
        /\ busy' = busy /\ \A s \in Requests \ {r} : request'[s] = request[s]
    BY <1>3 DEF Served, ServedRows
  <2>2. PICK s \in Requests : Waits(s)
    BY <2>1 DEF BusyInv
  <2> QED
    BY <2>1, <2>2 DEF UnderWay
<1>4. ASSUME NEW r \in Requests, Arrive(r)
      PROVE  \E s \in Requests :
                      /\ request'[s].status \in {"sent", "answered"}
                      /\ request'[s].kind \notin {"session", "dashboard"}
  <2>1. PICK result \in Outcomes(r) :
          \/ /\ Settles(r, result)
             /\ \A s \in Requests \ {r} : request'[s] = request[s]
          \/ \E kind \in {"administrator-logout", "dashboard"} : Follows(r, kind)
    BY <1>4, Arriving
  <2>2. CASE /\ Settles(r, result)
             /\ \A s \in Requests \ {r} : request'[s] = request[s]
    <3>1. request[r].kind \in {"session", "dashboard"} /\ busy' = busy
      BY <2>2 DEF Settles, Renders, EndsInError
    <3>2. PICK s \in Requests : Waits(s)
      BY <3>1 DEF BusyInv
    <3> QED
      BY <2>2, <3>1, <3>2 DEF UnderWay
  <2>3. CASE Follows(r, "administrator-logout")
    BY <2>3 DEF Follows, Fresh
  <2>4. CASE Follows(r, "dashboard")
    <3>1. /\ request[r].kind = "session" /\ busy' = busy
          /\ \A s \in Requests \ {r, Last + 1} : request'[s] = request[s]
      BY <2>4 DEF Follows
    <3>2. PICK s \in Requests : Waits(s)
      BY <3>1 DEF BusyInv
    <3>3. Last \in Nat /\ s <= Last
      BY <3>2, SentIsAStatus DEF IInv, OneByOne
    <3> QED
      BY <3>1, <3>2, <3>3 DEF UnderWay, Requests
  <2> QED
    BY <2>1, <2>2, <2>3, <2>4
<1>5. ASSUME NEW r \in Requests, NEW account \in Accounts, Tabbed(r, account)
      PROVE  \E s \in Requests :
                      /\ request'[s].status \in {"sent", "answered"}
                      /\ request'[s].kind \notin {"session", "dashboard"}
  <2>1. /\ busy' = busy /\ request[r].status = "none"
        /\ \A s \in Requests \ {r} : request'[s] = request[s]
    BY <1>5 DEF Tabbed
  <2>2. PICK s \in Requests : Waits(s)
    BY <2>1 DEF BusyInv
  <2> QED
    BY <2>1, <2>2 DEF UnderWay
<1> QED
  BY <1>1, <1>2, <1>3, <1>4, <1>5, Steps

(* The page is not busy for nothing: each handler ends the wait on every   *)
(* way out, the second request of the administrator form included, in any  *)
(* order of the answers.                                                   *)
THEOREM BusyOnlyWaiting == Spec => []BusyMeansWaiting
<1>1. Init => BusyInv
  BY DEF Init, BusyInv
<1>2. IInv /\ BusyInv /\ [Next]_vars => BusyInv'
  BY BusyKept
<1>3. BusyInv => BusyMeansWaiting
  BY DEF BusyInv, BusyMeansWaiting, Idle
<1> QED
  BY <1>1, <1>2, <1>3, InvariantHolds, PTL DEF Spec

-----------------------------------------------------------------------------
(* What the page is told is what happened. *)

Purchasing == {"buy", "request-support"}

Told ==
  \A r \in Requests :
    request[r].kind \in Purchasing /\ request[r].status # "sent" =>
      /\ request[r].result = "ok" => request[r].effect
      /\ request[r].result = "refused" /\ request[r].effect =>
           session[request[r].token] = NoUser

OnceEach ==
  \A r, q \in Replacing :
    request[q].number = request[r].number /\ request[q].epoch = request[r].epoch
    => q = r

LEMMA HonestFromParts ==
  ASSUME IInv, Told, OnceEach
  PROVE  AnswersAreHonest
<1> SUFFICES ASSUME NEW r \in Changing
             PROVE  /\ request[r].result = "ok" => request[r].effect
                    /\ request[r].result = "refused" /\ request[r].effect =>
                         session[request[r].token] = NoUser
                    /\ request[r].kind = "request-support" /\ request[r].effect =>
                         /\ request[r].epoch = epoch =>
                              owner[request[r].number] = opened[request[r].token]
                         /\ \A q \in Changing :
                              /\ request[q].kind = "request-support" /\ request[q].effect
                              /\ request[q].number = request[r].number
                              /\ request[q].epoch = request[r].epoch
                              => q = r
  BY DEF AnswersAreHonest
<1>1. /\ r \in Requests /\ request[r].kind \in Purchasing
      /\ request[r].status # "sent" /\ Changing \subseteq Requests
  BY DEF Changing, Sent, Purchasing
<1>2. /\ request[r].result = "ok" => request[r].effect
      /\ request[r].result = "refused" /\ request[r].effect =>
           session[request[r].token] = NoUser
  BY <1>1 DEF Told
<1>3. request[r].kind = "request-support" /\ request[r].effect
        /\ request[r].epoch = epoch =>
        owner[request[r].number] = opened[request[r].token]
  BY <1>1 DEF IInv, EffectsAreStored
<1>4. ASSUME request[r].kind = "request-support", request[r].effect,
             NEW q \in Changing,
             request[q].kind = "request-support", request[q].effect,
             request[q].number = request[r].number,
             request[q].epoch = request[r].epoch
      PROVE  q = r
  BY <1>1, <1>4 DEF OnceEach, Replacing
<1> QED
  BY <1>2, <1>3, <1>4

LEMMA ToldKept ==
  ASSUME IInv, Told, [Next]_vars
  PROVE  Told'
<1> USE DEF IInv
<1> SUFFICES ASSUME NEW s \in Requests, request'[s].kind \in Purchasing,
                    request'[s].status # "sent"
             PROVE  /\ request'[s].result = "ok" => request'[s].effect
                    /\ request'[s].result = "refused" /\ request'[s].effect =>
                         session'[request'[s].token] = NoUser
  BY DEF Told
<1>1. ASSUME request'[s] = request[s],
             \A t \in Opened : session'[t] \in {session[t], NoUser}
      PROVE  /\ request'[s].result = "ok" => request'[s].effect
             /\ request'[s].result = "refused" /\ request'[s].effect =>
                  session'[request'[s].token] = NoUser
  <2>1. /\ request[s].result = "ok" => request[s].effect
        /\ request[s].result = "refused" /\ request[s].effect =>
             session[request[s].token] = NoUser
    BY <1>1 DEF Told
  <2>2. request[s].effect => request[s].token # 0
    BY <1>1 DEF EffectsAreStored, Purchasing
  <2> QED
    BY <1>1, <2>1, <2>2, TokensOfRequests
<1>2. ASSUME NEW r \in Requests, Use(r)
      PROVE  request'[s] = request[s] /\ session' = session
  <2>1. PICK kind \in Forms \union Buttons, account \in Users, number \in 0..MaxNumber :
          NewRequest(r, kind, account, number)
    BY <1>2, Using
  <2>2. kind \in Kinds
    BY DEF Forms, Buttons, Logins, Kinds
  <2>3. Fresh(request'[r], kind, account, number, cookie')
        /\ \A q \in Requests \ {r} : request'[q] = request[q]
    BY <2>1, <2>2, RequestJoins
  <2> QED
    BY <1>2, <2>3 DEF Fresh, Use, server
<1>3. CASE Elsewhere
  BY <1>1, <1>3 DEF Elsewhere, Opened
<1>4. ASSUME NEW r \in Requests, Served(r)
      PROVE  /\ request'[s].result = "ok" => request'[s].effect
             /\ request'[s].result = "refused" /\ request'[s].effect =>
                  session'[request'[s].token] = NoUser
  <2>1. CASE s # r
    BY <1>1, <1>4, <2>1, TokensKept DEF Served, ServedRows
  <2>2. CASE s = r
    BY <1>4, <2>2 DEF Served, ServedRows, ServedAnswer, Purchasing
  <2> QED
    BY <2>1, <2>2
<1>5. ASSUME NEW r \in Requests, Arrive(r)
      PROVE  /\ request'[s].result = "ok" => request'[s].effect
             /\ request'[s].result = "refused" /\ request'[s].effect =>
                  session'[request'[s].token] = NoUser
  <2>1. PICK result \in Outcomes(r) :
          /\ ArrivedRows(r, result)
          /\ \/ \A q \in Requests \ {r} : request'[q] = request[q]
             \/ \E kind \in {"administrator-logout", "dashboard"} : Follows(r, kind)
    BY <1>5, Arriving
  <2>2. session' = session /\ Ended(request'[r], r, result) /\ UnderWay(r)
    BY <2>1 DEF ArrivedRows
  <2>3. CASE s # r
    BY <1>1, <2>1, <2>2, <2>3 DEF Follows, Fresh
  <2>4. CASE s = r
    <3>1. /\ request[r].kind \in Purchasing /\ request'[r].result = result
          /\ request'[r].token = request[r].token
          /\ request'[r].effect = request[r].effect
      BY <2>2, <2>4 DEF Ended, Purchasing
    <3>2. CASE result = "lost"
      BY <2>4, <3>1, <3>2
    <3>3. CASE request[r].status = "answered" /\ result = request[r].result
      BY <2>2, <2>4, <3>1, <3>3 DEF Told
    <3> QED
      BY <2>2, <3>2, <3>3 DEF Outcomes, UnderWay
  <2> QED
    BY <2>3, <2>4
<1>6. ASSUME NEW r \in Requests, NEW account \in Accounts, Tabbed(r, account)
      PROVE  /\ request'[s].result = "ok" => request'[s].effect
             /\ request'[s].result = "refused" /\ request'[s].effect =>
                  session'[request'[s].token] = NoUser
  <2>1. request'[s] = request[s]
    BY <1>6 DEF Tabbed, Purchasing
  <2> QED
    BY <1>1, <1>6, <2>1, TabTokens
<1> QED
  BY <1>1, <1>2, <1>3, <1>4, <1>5, <1>6, Steps

LEMMA OnceEachKept ==
  ASSUME IInv, OnceEach, [Next]_vars
  PROVE  OnceEach'
<1> USE DEF IInv
<1>1. ASSUME \A s \in Replacing' : /\ s \in Replacing
                                   /\ request'[s].number = request[s].number
                                   /\ request'[s].epoch = request[s].epoch
      PROVE  OnceEach'
  BY <1>1 DEF OnceEach
<1>2. ASSUME NEW r \in Requests, Use(r)
      PROVE  OnceEach'
  <2>1. PICK kind \in Forms \union Buttons, account \in Users, number \in 0..MaxNumber :
          NewRequest(r, kind, account, number)
    BY <1>2, Using
  <2>2. kind \in Kinds
    BY DEF Forms, Buttons, Logins, Kinds
  <2>3. Fresh(request'[r], kind, account, number, cookie')
        /\ \A q \in Requests \ {r} : request'[q] = request[q]
    BY <2>1, <2>2, RequestJoins
  <2> QED
    BY <1>1, <2>3 DEF Fresh, Replacing
<1>3. CASE Elsewhere
  BY <1>1, <1>3 DEF Elsewhere, Replacing
<1>4. ASSUME NEW r \in Requests, Served(r)
      PROVE  OnceEach'
  <2>1. /\ \A s \in Requests \ {r} : request'[s] = request[s]
        /\ request'[r].kind = request[r].kind /\ request'[r].number = request[r].number
        /\ request'[r].epoch = epoch
    BY <1>4 DEF Served, ServedRows
  <2>2. CASE r \notin Replacing'
    BY <1>1, <2>1, <2>2 DEF Replacing
  <2>3. CASE r \in Replacing'
    <3>1. request[r].number \notin requested
      BY <1>4, <2>1, <2>3 DEF Served, ServedPurchases, Replacing
    <3>2. ASSUME NEW q \in Replacing' \ {r}, request'[q].number = request[r].number,
                 request'[q].epoch = epoch
          PROVE  FALSE
      BY <2>1, <3>1, <3>2 DEF Replacing, EffectsAreStored
    <3>3. \A s \in Replacing' \ {r} : s \in Replacing /\ request'[s] = request[s]
      BY <2>1 DEF Replacing
    <3> SUFFICES ASSUME NEW s \in Replacing', NEW q \in Replacing',
                        request'[q].number = request'[s].number,
                        request'[q].epoch = request'[s].epoch
                 PROVE  q = s
      BY DEF OnceEach
    <3> QED
      BY <2>1, <3>2, <3>3 DEF OnceEach
  <2> QED
    BY <2>2, <2>3
<1>5. ASSUME NEW r \in Requests, Arrive(r)
      PROVE  OnceEach'
  <2>1. PICK result \in Outcomes(r) :
          /\ ArrivedRows(r, result)
          /\ \/ \A q \in Requests \ {r} : request'[q] = request[q]
             \/ \E kind \in {"administrator-logout", "dashboard"} : Follows(r, kind)
    BY <1>5, Arriving
  <2>2. Ended(request'[r], r, result)
    BY <2>1 DEF ArrivedRows
  <2>3. ASSUME NEW s \in Replacing'
        PROVE  /\ s \in Replacing
               /\ request'[s].number = request[s].number
               /\ request'[s].epoch = request[s].epoch
    <3>1. CASE s = r
      BY <2>2, <3>1 DEF Ended, Replacing
    <3>2. CASE s # r
      BY <2>1, <3>2 DEF Follows, Fresh, Replacing
    <3> QED
      BY <3>1, <3>2
  <2> QED
    BY <1>1, <2>3
<1>6. ASSUME NEW r \in Requests, NEW account \in Accounts, Tabbed(r, account)
      PROVE  OnceEach'
  BY <1>1, <1>6 DEF Tabbed, Replacing
<1> QED
  BY <1>2, <1>3, <1>4, <1>5, <1>6, Steps

(* Success is never claimed for nothing, a refusal means that nothing was  *)
(* done unless the session is over, and a button that is pressed again     *)
(* requests one replacement, for a purchase of the account whose session   *)
(* sent it: with any requests under way, lost answers and restarts.        *)
THEOREM HonestAnswers == Spec => []AnswersAreHonest
<1>1. Init => Told /\ OnceEach
  <2> SUFFICES ASSUME Init PROVE Told /\ OnceEach
    OBVIOUS
  <2>1. /\ NoRequest.kind = "none"
        /\ [NoRequest EXCEPT !.kind = "session", !.token = cookie,
                              !.status = "sent"].kind = "session"
    BY DEF NoRequest
  <2>2. \A r \in Requests : request[r].kind \in {"none", "session"}
    BY <2>1 DEF Init
  <2> QED
    BY <2>2 DEF Told, OnceEach, Replacing, Purchasing
<1>2. IInv /\ Told /\ OnceEach /\ [Next]_vars => Told' /\ OnceEach'
  BY ToldKept, OnceEachKept
<1>3. IInv /\ Told /\ OnceEach => AnswersAreHonest
  BY HonestFromParts
<1> QED
  BY <1>1, <1>2, <1>3, InvariantHolds, PTL DEF Spec

-----------------------------------------------------------------------------
(* The page shows what the browser acts for, one request after the other.  *)

(* A dashboard offers what is open, and stays free of what this page has   *)
(* replaced.                                                               *)
LEMMA OffersMade ==
  ASSUME IInv', NEW cards, NEW account,
         cards \subseteq CardsOf(account, owner', requested')
  PROVE  \A n \in cards : n \in Owned' /\ owner'[n] = account /\ n \notin Replaced'
<1>1. \A n \in cards : n \in Owned' /\ owner'[n] = account /\ n \notin requested'
  BY DEF CardsOf, Owned
<1>2. Replaced' \subseteq requested'
  BY DEF IInv, EffectsAreStored, Replaced, Replacing
<1> QED
  BY <1>1, <1>2

LEMMA OffersStay ==
  ASSUME NEW cards, NEW account, Offers(cards, account),
         \A n \in Owned : owner'[n] = owner[n], Replaced' \subseteq Replaced
  PROVE  \A n \in cards : n \in Owned' /\ owner'[n] = account /\ n \notin Replaced'
BY DEF Offers, Owned

(* An answer that arrives, or is lost, replaces nothing. *)
LEMMA ArriveReplacesNothing ==
  ASSUME IInv, NEW r \in Requests, Arrive(r)
  PROVE  Replaced' \subseteq Replaced
<1> USE DEF IInv
<1>1. PICK result \in Outcomes(r) :
        /\ ArrivedRows(r, result)
        /\ \/ \A q \in Requests \ {r} : request'[q] = request[q]
           \/ \E kind \in {"administrator-logout", "dashboard"} : Follows(r, kind)
  BY Arriving
<1>2. Ended(request'[r], r, result) /\ epoch' = epoch
  BY <1>1 DEF ArrivedRows
<1>3. ASSUME NEW s \in Replacing'
      PROVE  /\ s \in Replacing
             /\ request'[s].number = request[s].number
             /\ request'[s].epoch = request[s].epoch
  <2>1. CASE s = r
    BY <1>2, <2>1 DEF Ended, Replacing
  <2>2. CASE s # r
    BY <1>1, <2>2 DEF Follows, Fresh, Replacing
  <2> QED
    BY <2>1, <2>2
<1> QED
  BY <1>2, <1>3 DEF Replaced

(* The conjuncts of SequentialInv, of the state after a step. *)
LEMMA SequentialUse ==
  ASSUME IInv, SequentialInv, NEW r \in Requests, Use(r)
  PROVE  SequentialInv'
<1> USE DEF IInv
<1>1. PICK kind \in Forms \union Buttons, account \in Users, number \in 0..MaxNumber :
        /\ NewRequest(r, kind, account, number)
        /\ kind \in Forms <=> page.account = NoUser
  BY Using
<1>2. /\ kind \in Kinds
      /\ kind \notin Forms => kind \in {"logout", "buy", "request-support"}
  BY DEF Forms, Buttons, Logins, Kinds
<1>3. /\ r = Last + 1 /\ Last' = Last + 1
      /\ \A s \in Requests \ {r} : request'[s] = request[s]
      /\ Fresh(request'[r], kind, account, number, cookie')
      /\ cookie' \in {0, cookie}
  BY <1>1, <1>2, RequestJoins
<1>4. UNCHANGED <<opened, page>>
  BY DEF Use, server
<1> SUFFICES ASSUME ~overlapped'
             PROVE  SequentialInv'
  BY DEF SequentialInv
<1>5. ~overlapped /\ Idle
  <2>1. overlapped' = (overlapped \/ ~Idle)
    BY <1>1 DEF NewRequest
  <2> QED
    BY <2>1
<1>6. \A s \in Requests : request'[s].status \in {"sent", "answered"} => s = r
  BY <1>3, <1>5 DEF Idle, UnderWay
<1>7. page'.account # NoUser /\ cookie' # 0 => opened'[cookie'] = page'.account
  BY <1>3, <1>4, <1>5 DEF SequentialInv
<1>8. /\ request'[r].token = cookie' /\ request'[r].status = "sent"
      /\ request'[r].kind \notin {"logout", "buy", "request-support"} =>
           page'.account = NoUser
  <2>1. /\ request'[r].kind = kind /\ request'[r].status = "sent"
        /\ request'[r].token = cookie'
    BY <1>3 DEF Fresh
  <2>2. kind \in Forms => page.account = NoUser
    BY <1>1
  <2> QED
    BY <1>2, <1>4, <2>1, <2>2
<1> QED
  BY <1>3, <1>6, <1>7, <1>8 DEF SequentialInv, UnderWay

LEMMA SequentialServe ==
  ASSUME IInv, SequentialInv, NEW r \in Requests, Served(r)
  PROVE  SequentialInv'
<1> USE DEF IInv
<1>1. /\ request[r].status = "sent"
      /\ \A s \in Requests \ {r} : request'[s] = request[s]
      /\ request'[r].kind = request[r].kind /\ request'[r].token = request[r].token
      /\ request'[r].status = "answered"
      /\ UNCHANGED <<epoch, cookie, page, busy, overlapped>>
      /\ request'[r].cards \subseteq CardsOf(request'[r].shows, owner', requested')
  BY DEF Served, ServedRows, ServedAnswer
<1> SUFFICES ASSUME ~overlapped
             PROVE  SequentialInv'
  BY <1>1 DEF SequentialInv
<1>2. r = Last /\ UnderWay(r)
  BY <1>1 DEF SequentialInv, UnderWay
<1>3. Sent' = Sent
  BY <1>1, OrderKept
<1>4. Last' = Last
  BY <1>3 DEF Last
<1>5. \A s \in Requests : request'[s].status \in {"sent", "answered"} => s = Last
  BY <1>1, <1>2 DEF SequentialInv, UnderWay
<1>6. page.account # NoUser /\ cookie # 0 => opened'[cookie] = page.account
  <2>1. cookie # 0 => opened'[cookie] = opened[cookie]
    BY TokensKept, Typed
  <2> QED
    BY <2>1 DEF SequentialInv
<1>7. /\ cookie # 0 => request'[Last].token = cookie
      /\ request'[Last].kind \notin {"logout", "buy", "request-support"} =>
           page.account = NoUser
  BY <1>1, <1>2 DEF SequentialInv
<1>8. Offers(request[Last].cards, request[Last].shows)'
  <2>1. IInv'
    BY ServeKeeps
  <2>2. \A n \in request'[r].cards :
          n \in Owned' /\ owner'[n] = request'[r].shows /\ n \notin Replaced'
    BY <1>1, <2>1, OffersMade
  <2> QED
    BY <1>2, <1>4, <2>2 DEF Offers
<1> QED
  BY <1>1, <1>2, <1>4, <1>5, <1>6, <1>7, <1>8 DEF SequentialInv, UnderWay

LEMMA SequentialElsewhere ==
  ASSUME IInv, SequentialInv, Elsewhere
  PROVE  SequentialInv'
<1> USE DEF IInv
<1>1. UNCHANGED <<opened, cookie, page, busy, request, overlapped>>
  BY DEF Elsewhere
<1>2. Last' = Last
  BY <1>1 DEF Last, Sent
<1>3. Last \in Requests
  BY DEF OneByOne, Requests
<1>4. ASSUME ~overlapped, UnderWay(Last), request[Last].status = "answered",
             request[Last].epoch = epoch'
      PROVE  Offers(request[Last].cards, request[Last].shows)'
  <2>1. CASE epoch' = epoch /\ \A n \in Owned : owner'[n] = owner[n]
    <3>1. Replaced' = Replaced
      BY <1>1, <2>1 DEF Replaced, Replacing
    <3>2. Offers(request[Last].cards, request[Last].shows)
      BY <1>4, <2>1 DEF SequentialInv
    <3>3. \A n \in request[Last].cards :
            n \in Owned' /\ owner'[n] = request[Last].shows /\ n \notin Replaced'
      BY <2>1, <3>1, <3>2, OffersStay
    <3> QED
      BY <1>1, <1>2, <3>3 DEF Offers
  <2>2. CASE epoch' = epoch + 1
    BY <1>3, <1>4, <2>2, Typed DEF EffectsAreStored
  <2> QED
    BY <2>1, <2>2 DEF Elsewhere
<1> QED
  BY <1>1, <1>2, <1>4 DEF SequentialInv, UnderWay

LEMMA SequentialArrive ==
  ASSUME IInv, SequentialInv, NEW r \in Requests, Arrive(r)
  PROVE  SequentialInv'
<1> USE DEF IInv
<1>1. PICK result \in Outcomes(r) :
        /\ ArrivedRows(r, result)
        /\ \/ /\ Settles(r, result) /\ cookie' = CookieAfter(r, result)
              /\ \A s \in Requests \ {r} : request'[s] = request[s]
           \/ /\ result = "ok"
              /\ \E kind \in {"administrator-logout", "dashboard"} : Follows(r, kind)
  BY Arriving
<1>2. /\ UnderWay(r) /\ opened' = opened /\ request'[r].status = "over"
      /\ request'[r].kind = request[r].kind
  BY <1>1 DEF ArrivedRows, Ended
<1>3. CASE /\ Settles(r, result) /\ cookie' = CookieAfter(r, result)
           /\ \A s \in Requests \ {r} : request'[s] = request[s]
  <2> SUFFICES ASSUME ~overlapped
               PROVE  SequentialInv'
    BY <1>2, <1>3, ArrivedPage DEF SequentialInv
  <2>1. /\ r = Last
        /\ cookie # 0 => request[r].token = cookie
        /\ request[r].kind \notin {"logout", "buy", "request-support"} =>
             page.account = NoUser
    BY <1>2 DEF SequentialInv
  <2>2. \A s \in Requests : request'[s].status \notin {"sent", "answered"}
    BY <1>2, <1>3, <2>1 DEF SequentialInv, UnderWay
  <2>3. ASSUME page'.account # NoUser, cookie' # 0
        PROVE  opened[cookie'] = page'.account
    <3>1. CASE page' = page /\ result # "ok"
      BY <1>3, <2>3, <3>1 DEF CookieAfter, SequentialInv
    <3>2. CASE page' = page /\ request[r].kind = "administrator-logout"
      BY <2>1, <2>3, <3>2
    <3>3. CASE page' = AuthView
      BY <2>3, <3>3 DEF AuthView
    <3>4. CASE /\ request[r].status = "answered" /\ request[r].result = "ok"
               /\ result = "ok" /\ request[r].shows # NoUser
               /\ page'.account = request[r].shows
               /\ request[r].kind \in Logins
      BY <1>3, <3>4 DEF CookieAfter, AnswersAreTheirs, Requests, Logins
    <3>5. CASE /\ request[r].status = "answered" /\ request[r].result = "ok"
               /\ result = "ok" /\ request[r].shows # NoUser
               /\ page'.account = request[r].shows
               /\ request[r].kind \in {"buy", "request-support", "dashboard"}
      <4>1. cookie' = cookie
        BY <1>3, <3>5 DEF CookieAfter
      <4> QED
        BY <1>2, <2>1, <2>3, <3>5, <4>1 DEF AnswersAreTheirs
    <3> QED
      <4>1. \/ page' = page /\ (result # "ok" \/ request[r].kind = "administrator-logout")
            \/ page' = AuthView
            \/ /\ request[r].status = "answered" /\ request[r].result = "ok"
               /\ result = "ok" /\ request[r].shows # NoUser
               /\ request[r].kind \in {"login", "administrator-login", "buy",
                                      "request-support", "dashboard"}
               /\ page'.account = request[r].shows
        BY <1>2, <1>3, ArrivedPage
      <4> QED
        BY <3>1, <3>2, <3>3, <3>4, <3>5, <4>1 DEF Logins
  <2>4. Last' \in Requests
    <3>1. IInv'
      BY ArriveKeeps
    <3> QED
      BY <3>1 DEF OneByOne, Requests
  <2> QED
    BY <1>2, <2>2, <2>3, <2>4 DEF SequentialInv, UnderWay
<1>4. ASSUME NEW kind \in {"administrator-logout", "dashboard"}, Follows(r, kind),
             result = "ok"
      PROVE  SequentialInv'
  <2> DEFINE n == Last + 1
  <2>1. /\ n \in Requests /\ n # r /\ request'[n].kind = kind
        /\ request'[n].token = cookie' /\ request'[n].status = "sent"
        /\ \A s \in Requests \ {r, n} : request'[s] = request[s]
        /\ request[r].kind \in {"session", "administrator-login"}
        /\ page' = page
    BY <1>4 DEF Follows, Fresh
  <2>2. overlapped' = (overlapped \/ \E s \in Requests \ {r} : UnderWay(s))
    BY <1>4 DEF Follows
  <2> SUFFICES ASSUME ~overlapped'
               PROVE  SequentialInv'
    BY DEF SequentialInv
  <2>3. ~overlapped /\ \A s \in Requests \ {r} : ~UnderWay(s)
    BY <2>2
  <2>4. r = Last
    BY <1>2, <2>3 DEF SequentialInv
  <2>5. page'.account = NoUser
    BY <1>2, <2>1, <2>3, <2>4 DEF SequentialInv
  <2>6. Last' = n
    <3>1. \A s \in Requests \ {n} :
            /\ request'[s].status = "none" <=> request[s].status = "none"
            /\ request'[s].status = "none" => request'[s] = request[s]
            /\ request'[s].kind = request[s].kind
      BY <1>2, <2>1 DEF UnderWay
    <3> QED
      BY <2>1, <3>1, OrderGrows
  <2>7. \A s \in Requests : request'[s].status \in {"sent", "answered"} => s = n
    BY <1>2, <2>1, <2>3 DEF UnderWay
  <2> QED
    BY <2>1, <2>5, <2>6, <2>7 DEF SequentialInv, UnderWay
<1> QED
  BY <1>1, <1>3, <1>4

LEMMA SequentialKept ==
  ASSUME IInv, SequentialInv, [Next]_vars
  PROVE  SequentialInv'
<1>1. ASSUME NEW r \in Requests, NEW account \in Accounts, Tabbed(r, account)
      PROVE  SequentialInv'
  BY <1>1 DEF Tabbed, SequentialInv
<1> QED
  BY <1>1, Steps, SequentialUse, SequentialServe, SequentialElsewhere,
     SequentialArrive

(* The property after each step. *)
LEMMA CurrentArrive ==
  ASSUME IInv, SequentialInv, NEW r \in Requests, Arrive(r), ~overlapped', Idle'
  PROVE  LET last == request'[Last'] IN
         /\ page'.account # NoUser /\ last.result = "ok" /\ page'.epoch = epoch' =>
              Offers(page.cards, page.account)'
         /\ last.kind \in Logouts /\ last.result = "ok" =>
              /\ page' = AuthView /\ cookie' = 0
              /\ last.token # 0 => session'[last.token] = NoUser
<1> USE DEF IInv
<1>1. PICK result \in Outcomes(r) :
        /\ ArrivedRows(r, result)
        /\ \/ /\ Settles(r, result) /\ cookie' = CookieAfter(r, result)
              /\ \A s \in Requests \ {r} : request'[s] = request[s]
           \/ \E kind \in {"administrator-logout", "dashboard"} : Follows(r, kind)
  BY Arriving
<1>2. ~ \E kind \in {"administrator-logout", "dashboard"} : Follows(r, kind)
  BY DEF Follows, Fresh, Idle, UnderWay
<1>3. /\ UnderWay(r) /\ result \in Outcomes(r) /\ Settles(r, result)
      /\ UNCHANGED <<session, opened, owner, requested, epoch>>
      /\ cookie' = CookieAfter(r, result)
  BY <1>1, <1>2 DEF ArrivedRows
<1>4. /\ request'[r].kind = request[r].kind
      /\ request'[r].result = "ok" => result = "ok"
      /\ request'[r].status = "over"
      /\ request[r].kind \in Logouts => request'[r].token = request[r].token
  BY <1>1 DEF ArrivedRows, Ended
<1>5. ~overlapped
  BY <1>3, ArrivedPage
<1>6. /\ r = Last
      /\ request[r].kind \notin {"logout", "buy", "request-support"} =>
           page.account = NoUser
      /\ request[r].status = "answered" /\ request[r].epoch = epoch =>
           Offers(request[r].cards, request[r].shows)
  BY <1>3, <1>5 DEF SequentialInv
<1>7. Last' = Last
  <2>1. \A s \in Requests \ {r} : request'[s] = request[s]
    BY <1>1, <1>2
  <2>2. Sent' = Sent
    BY <1>3, <1>4, <2>1, OrderKept DEF UnderWay
  <2> QED
    BY <2>2 DEF Last
<1>8. result = "ok" => request[r].status = "answered" /\ request[r].result = "ok"
  BY <1>3 DEF Outcomes, UnderWay
<1>9. ASSUME page'.account # NoUser, result = "ok", page'.epoch = epoch
      PROVE  Offers(page.cards, page.account)'
  <2>1. CASE page' = page /\ request[r].kind = "administrator-logout"
    BY <1>6, <1>9, <2>1
  <2>2. CASE page' = AuthView
    BY <1>9, <2>2 DEF AuthView
  <2>3. CASE page' = [account |-> request[r].shows, cards |-> request[r].cards,
                      epoch |-> request[r].epoch]
    <3>1. Offers(request[r].cards, request[r].shows)
      BY <1>6, <1>8, <1>9, <2>3
    <3>2. \A n \in request[r].cards :
            n \in Owned' /\ owner'[n] = request[r].shows /\ n \notin Replaced'
      BY <1>3, <3>1, ArriveReplacesNothing, OffersStay
    <3> QED
      BY <2>3, <3>2 DEF Offers
  <2> QED
    BY <1>3, <1>9, <2>1, <2>2, <2>3, ArrivedPage
<1>10. ASSUME request[r].kind \in Logouts, result = "ok"
       PROVE  /\ page' = AuthView /\ cookie' = 0
              /\ request[r].token # 0 => session[request[r].token] = NoUser
  <2>1. cookie' = 0
    BY <1>3, <1>10 DEF CookieAfter, Logouts
  <2>2. request[r].token # 0 => session[request[r].token] = NoUser
    BY <1>8, <1>10 DEF LogoutsEnd
  <2>3. CASE request[r].kind = "administrator-logout"
    <3>1. page = AuthView
      BY <1>6, <2>3 DEF PageIsWhole
    <3> QED
      BY <1>3, <2>1, <2>2, <2>3, <3>1, ArrivedPage
  <2>4. CASE request[r].kind = "logout"
    BY <1>3, <1>10, <2>1, <2>2, <2>4, ArrivedPage
  <2> QED
    BY <1>10, <2>3, <2>4 DEF Logouts
<1> QED
  BY <1>3, <1>4, <1>6, <1>7, <1>9, <1>10

(* What the property says of the offers, and of a logout. *)
CurrentParts ==
  ~overlapped /\ Idle =>
    /\ page.account # NoUser /\ request[Last].result = "ok" /\ page.epoch = epoch =>
         Offers(page.cards, page.account)
    /\ request[Last].kind \in Logouts /\ request[Last].result = "ok" =>
         /\ page = AuthView /\ cookie = 0
         /\ request[Last].token # 0 => session[request[Last].token] = NoUser

LEMMA CurrentFromParts ==
  ASSUME SequentialInv, CurrentParts
  PROVE  SequentialPageIsCurrent
<1> SUFFICES ASSUME ~overlapped, Idle
             PROVE  LET last == request[Last] IN
                    /\ page.account # NoUser /\ cookie # 0 => opened[cookie] = page.account
                    /\ page.account # NoUser /\ last.result = "ok" /\ page.epoch = epoch =>
                         /\ \A n \in page.cards : owner[n] = page.account
                         /\ page.cards \intersect RequestedHere = {}
                    /\ last.kind \in Logouts /\ last.result = "ok" =>
                         /\ page = AuthView /\ cookie = 0
                         /\ last.token # 0 => session[last.token] = NoUser
  BY DEF SequentialPageIsCurrent, Last, Logouts
<1>1. RequestedHere \subseteq Replaced
  BY DEF RequestedHere, Replaced, Replacing, Changing, Sent
<1>2. page.account # NoUser /\ cookie # 0 => opened[cookie] = page.account
  BY DEF SequentialInv
<1>3. ASSUME page.account # NoUser, request[Last].result = "ok", page.epoch = epoch
      PROVE  /\ \A n \in page.cards : owner[n] = page.account
             /\ page.cards \intersect RequestedHere = {}
  BY <1>1, <1>3 DEF CurrentParts, Offers
<1>4. request[Last].kind \in Logouts /\ request[Last].result = "ok" =>
        /\ page = AuthView /\ cookie = 0
        /\ request[Last].token # 0 => session[request[Last].token] = NoUser
  BY DEF CurrentParts
<1> QED
  BY <1>2, <1>3, <1>4

LEMMA CurrentKept ==
  ASSUME IInv, SequentialInv, CurrentParts, [Next]_vars
  PROVE  CurrentParts'
<1> USE DEF IInv
<1> SUFFICES ASSUME ~overlapped', Idle'
             PROVE  /\ page'.account # NoUser /\ request'[Last'].result = "ok"
                         /\ page'.epoch = epoch' =>
                         Offers(page.cards, page.account)'
                    /\ request'[Last'].kind \in Logouts
                         /\ request'[Last'].result = "ok" =>
                         /\ page' = AuthView /\ cookie' = 0
                         /\ request'[Last'].token # 0 =>
                              session'[request'[Last'].token] = NoUser
  BY DEF CurrentParts
<1>1. ASSUME NEW r \in Requests, Use(r)
      PROVE  FALSE
  <2>1. PICK kind \in Forms \union Buttons, account \in Users, number \in 0..MaxNumber :
          NewRequest(r, kind, account, number)
    BY <1>1, Using
  <2>2. kind \in Kinds
    BY DEF Forms, Buttons, Logins, Kinds
  <2>3. Fresh(request'[r], kind, account, number, cookie')
    BY <2>1, <2>2, RequestJoins
  <2> QED
    BY <2>3 DEF Fresh, Idle, UnderWay
<1>2. ASSUME NEW r \in Requests, Served(r)
      PROVE  FALSE
  BY <1>2 DEF Served, ServedRows, Idle, UnderWay
<1>3. ASSUME NEW r \in Requests, NEW account \in Accounts, Tabbed(r, account)
      PROVE  FALSE
  BY <1>3 DEF Tabbed
<1>4. ASSUME NEW r \in Requests, Arrive(r)
      PROVE  /\ page'.account # NoUser /\ request'[Last'].result = "ok"
                  /\ page'.epoch = epoch' =>
                  Offers(page.cards, page.account)'
             /\ request'[Last'].kind \in Logouts /\ request'[Last'].result = "ok" =>
                  /\ page' = AuthView /\ cookie' = 0
                  /\ request'[Last'].token # 0 =>
                       session'[request'[Last'].token] = NoUser
  BY <1>4, CurrentArrive
<1>5. CASE Elsewhere
  <2>1. /\ UNCHANGED <<opened, cookie, page, busy, request, overlapped>>
        /\ \A t \in Tokens : session'[t] \in {session[t], NoUser}
    BY <1>5 DEF Elsewhere
  <2>2. Last' = Last /\ Last \in Requests
    BY <2>1 DEF Last, Sent, OneByOne, Requests
  <2>3. /\ page.account # NoUser /\ request[Last].result = "ok" /\ page.epoch = epoch =>
             Offers(page.cards, page.account)
        /\ request[Last].kind \in Logouts /\ request[Last].result = "ok" =>
             /\ page = AuthView /\ cookie = 0
             /\ request[Last].token # 0 => session[request[Last].token] = NoUser
    BY <2>1 DEF CurrentParts, Idle, UnderWay
  <2>4. ASSUME page.account # NoUser, request[Last].result = "ok", page.epoch = epoch'
        PROVE  Offers(page.cards, page.account)'
    <3>1. CASE epoch' = epoch /\ \A n \in Owned : owner'[n] = owner[n]
      <4>1. Replaced' = Replaced
        BY <2>1, <3>1 DEF Replaced, Replacing
      <4>2. Offers(page.cards, page.account)
        BY <2>3, <2>4, <3>1
      <4>3. \A n \in page.cards :
              n \in Owned' /\ owner'[n] = page.account /\ n \notin Replaced'
        BY <3>1, <4>1, <4>2, OffersStay
      <4> QED
        BY <2>1, <4>3 DEF Offers
    <3>2. CASE epoch' = epoch + 1
      BY <2>4, <3>2, Typed DEF PageIsWhole
    <3> QED
      BY <1>5, <3>1, <3>2 DEF Elsewhere
  <2>5. request[Last].token # 0 => request[Last].token \in Tokens
    BY <2>2, TokensOfRequests
  <2> QED
    BY <2>1, <2>2, <2>3, <2>4, <2>5
<1> QED
  BY <1>1, <1>2, <1>3, <1>4, <1>5, Steps

(* As long as requests have not overlapped and no other tab has logged in, *)
(* the page shows the account that the cookie acts for, after errors and   *)
(* expiries too, until the browser drops the cookie; after an answer       *)
(* without an error it offers a replacement only for purchases of that     *)
(* account of which this page has requested none, whatever is requested in *)
(* other browsers; and after a logout, or when an ordinary account was     *)
(* turned away from the administrator's form, its session is over.         *)
THEOREM SequentialPage == Spec => []SequentialPageIsCurrent
<1>1. Init => SequentialInv /\ CurrentParts
  <2> SUFFICES ASSUME Init PROVE SequentialInv /\ CurrentParts
    OBVIOUS
  <2>1. IInv
    BY InitHolds
  <2>2. page.account = NoUser
    BY DEF Init, AuthView
  <2>3. Sent = 1..Last /\ Last \in 1..MaxRequests /\ 1 \in Requests
    BY <2>1 DEF IInv, OneByOne, Requests
  <2>4. /\ request[1] = [NoRequest EXCEPT !.kind = "session", !.token = cookie,
                                         !.status = "sent"]
        /\ \A r \in Requests \ {1} : request[r] = NoRequest
    BY <2>3 DEF Init
  <2>5. /\ request[1].token = cookie /\ request[1].kind = "session"
        /\ request[1].status = "sent" /\ NoRequest.status = "none"
    BY <2>4 DEF NoRequest
  <2>6. Last = 1
    BY <2>3, <2>4 DEF Sent, Requests
  <2>7. ~Idle
    BY <2>3, <2>5 DEF Idle, UnderWay
  <2>8. CurrentParts
    BY <2>7 DEF CurrentParts
  <2>9. SequentialInv
    BY <2>2, <2>4, <2>5, <2>6 DEF SequentialInv, UnderWay
  <2> QED
    BY <2>8, <2>9
<1>2. IInv /\ SequentialInv /\ CurrentParts /\ [Next]_vars
        => SequentialInv' /\ CurrentParts'
  BY SequentialKept, CurrentKept
<1>3. SequentialInv /\ CurrentParts => SequentialPageIsCurrent
  BY CurrentFromParts
<1> QED
  BY <1>1, <1>2, <1>3, InvariantHolds, PTL DEF Spec
===============================================================================
