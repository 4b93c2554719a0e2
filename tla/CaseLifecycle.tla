---------------------------- MODULE CaseLifecycle ----------------------------
(***************************************************************************)
(* From a purchase to the verification of a disputed case: the maps that   *)
(* InformationFlowPlatform (src/platform-demo.ts) keeps about purchases,   *)
(* support cases and regulatory cases, the records of the domain system    *)
(* (DomainRecords) that the same handlers write, and what the dashboard    *)
(* offers to do with them.  All of it lives in the memory of one process.  *)
(* A handler is one action; the numbers it draws stay drawn when the       *)
(* domain system then refuses.                                             *)
(*                                                                         *)
(* One product of one organization: purchases of different products share  *)
(* the sequences and nothing else.  Authority over it comes and goes       *)
(* (AuthorityGrants): a seller is any member that was ever authorized, as  *)
(* the domain system never forgets a grant, and the handler of a request,  *)
(* the last that listAuthorityGrants gives, is any active one.             *)
(***************************************************************************)
EXTENDS DomainRecords

CONSTANTS
  Creator,             \* creator of the organization and of the product
  Regulators           \* accounts approved as "regulator"

ASSUME CreatorAssumption == Creator \in Users
ASSUME RegulatorsAssumption == Regulators \subseteq Users

VARIABLES
  handlers,            \* active grants to handle support cases
  sequence,            \* #purchaseSequence, #reviewSequence, ...
  purchase,            \* #purchases
  supportCase,         \* #supportCases of the platform
  regulatoryCase       \* #regulatoryCases of the platform

authority == <<issuers, handlers>>
platform == <<sequence, purchase, supportCase, regulatoryCase>>
vars == <<authority, late, platform, domain>>

(* Rows of the maps; in a row 0 is the null id, NoUser marks "no row". *)
NoPurchase ==
  [buyer |-> NoUser, issuer |-> NoUser, review |-> 0, support |-> 0,
   regulatory |-> 0]
NoSupportCase ==
  [buyer |-> NoUser, merchant |-> NoUser, purchase |-> 0,
   outcome |-> "pending"]
NoRegulatoryCase ==
  [buyer |-> NoUser, recipient |-> NoUser, purchase |-> 0, records |-> {},
   verified |-> FALSE, reviewIntegrity |-> FALSE]

NothingDrawn == [purchase |-> 0, review |-> 0, support |-> 0, regulatory |-> 0]

Init ==
  /\ issuers = {Creator} /\ handlers = {Creator} /\ late = {}
  /\ sequence = NothingDrawn
  /\ purchase = Nothing(NoPurchase)
  /\ supportCase = Nothing(NoSupportCase)
  /\ regulatoryCase = Nothing(NoRegulatoryCase)
  /\ EmptyDomain

-----------------------------------------------------------------------------
(* A member is authorized to sell for the first time; until then it can    *)
(* still be a buyer of these maps.                                         *)
AuthorizeSeller(u) ==
  /\ u \notin issuers
  /\ issuers' = issuers \union {u}
  /\ UNCHANGED <<handlers, late, platform, domain>>

(* Any member, whether or not it may sell as well. *)
AuthorizeHandler(u) ==
  /\ u \notin handlers
  /\ handlers' = handlers \union {u}
  /\ UNCHANGED <<issuers, late, platform, domain>>

(* Revoked, or expired. *)
HandlerLosesAuthority(u) ==
  /\ u \in handlers
  /\ handlers' = handlers \ {u}
  /\ UNCHANGED <<issuers, late, platform, domain>>

ThirtyDaysPass(n) ==
  /\ purchase[n] # NoPurchase /\ n \notin late
  /\ late' = late \union {n}
  /\ UNCHANGED <<authority, platform, domain>>

(* The process dies and is started again: nothing of this is stored. *)
Crash ==
  /\ UNCHANGED authority
  /\ late' = {}
  /\ sequence' = NothingDrawn
  /\ purchase' = Nothing(NoPurchase)
  /\ supportCase' = Nothing(NoSupportCase)
  /\ regulatoryCase' = Nothing(NoRegulatoryCase)
  /\ ForgetDomain

(* #recordPurchase, for issuePurchase and buyProduct: the buyer is not of  *)
(* the organization (who was a handler once and never a seller is a member *)
(* without a trace here: it may still buy in the model).                   *)
RecordPurchase(s, b) ==
  LET n == sequence.purchase + 1 IN
  /\ MayIssue(s) /\ b \notin issuers \union handlers
  /\ n \in Numbers
  /\ sequence' = [sequence EXCEPT !.purchase = n]
  /\ IssueCredential(n, s, b)
  /\ purchase' = [purchase EXCEPT
                    ![n] = [NoPurchase EXCEPT !.buyer = b, !.issuer = s]]
  /\ UNCHANGED <<authority, late, supportCase, regulatoryCase, reviewOf,
                 domainCase, decision, domainRegulatory, bridge, actions>>

-----------------------------------------------------------------------------
(* Reviews. *)
MayReview(n) ==
  /\ purchase[n] # NoPurchase /\ purchase[n].review = 0
  /\ sequence.review < MaxNumber

(* Variant: the purchase keeps no note of its review. *)
PublishReviewUnmarked(n) ==
  LET r == sequence.review + 1 IN
  /\ MayReview(n) /\ DomainAcceptsReview(n)
  /\ sequence' = [sequence EXCEPT !.review = r]
  /\ StoreReview(r, n)
  /\ UNCHANGED <<authority, late, purchase, supportCase, regulatoryCase,
                 credential, domainCase, decision, domainRegulatory, bridge>>

PublishReview(n) ==
  LET r == sequence.review + 1 IN
  /\ MayReview(n) /\ DomainAcceptsReview(n)
  /\ sequence' = [sequence EXCEPT !.review = r]
  /\ StoreReview(r, n)
  /\ purchase' = [purchase EXCEPT ![n].review = r]
  /\ UNCHANGED <<authority, late, supportCase, regulatoryCase, credential,
                 domainCase, decision, domainRegulatory, bridge>>

(* A comment without text: refused after the number was drawn. *)
PublishEmptyReview(n) ==
  /\ MayReview(n)
  /\ sequence' = [sequence EXCEPT !.review = @ + 1]
  /\ UNCHANGED <<authority, late, purchase, supportCase, regulatoryCase,
                 domain>>

-----------------------------------------------------------------------------
(* Support. *)

(* Without a handler the request is refused before a number is drawn. *)
MayRequestSupport(n, h) ==
  /\ purchase[n] # NoPurchase /\ purchase[n].support = 0
  /\ h \in handlers
  /\ sequence.support < MaxNumber

(* Variant: the case gets the last number drawn instead of a new one. *)
RequestSupportWithOldNumber(n, h) ==
  LET c == sequence.support + 1 IN
  /\ MayRequestSupport(n, h) /\ DomainAcceptsSupport(n, h)
  /\ StoreSupportCase(c, n, h)
  /\ supportCase' = [supportCase EXCEPT
       ![c] = [buyer |-> purchase[n].buyer, merchant |-> h, purchase |-> n,
               outcome |-> "pending"]]
  /\ purchase' = [purchase EXCEPT ![n].support = c]
  /\ UNCHANGED <<authority, late, sequence, regulatoryCase, credential,
                 reviewOf, decision, domainRegulatory, bridge>>

RequestSupport(n, h) ==
  LET c == sequence.support + 1 IN
  /\ MayRequestSupport(n, h) /\ DomainAcceptsSupport(n, h)
  /\ sequence' = [sequence EXCEPT !.support = c]
  /\ StoreSupportCase(c, n, h)
  /\ supportCase' = [supportCase EXCEPT
       ![c] = [buyer |-> purchase[n].buyer, merchant |-> h, purchase |-> n,
               outcome |-> "pending"]]
  /\ purchase' = [purchase EXCEPT ![n].support = c]
  /\ UNCHANGED <<authority, late, regulatoryCase, credential, reviewOf,
                 decision, domainRegulatory, bridge>>

(* Variant: the flow is stored before it is validated. *)
RequestSupportCommittedFirst(n, h) ==
  LET c == sequence.support + 1 IN
  /\ MayRequestSupport(n, h) /\ ~DomainAcceptsSupport(n, h)
  /\ sequence' = [sequence EXCEPT !.support = c]
  /\ RecordAction(CaseId(c))
  /\ UNCHANGED <<authority, late, purchase, supportCase, regulatoryCase,
                 credential, reviewOf, domainCase, decision,
                 domainRegulatory, bridge>>

(* Variant: the purchase is marked before the domain system is asked. *)
RequestSupportMarkedFirst(n, h) ==
  LET c == sequence.support + 1 IN
  /\ MayRequestSupport(n, h) /\ ~DomainAcceptsSupport(n, h)
  /\ sequence' = [sequence EXCEPT !.support = c]
  /\ purchase' = [purchase EXCEPT ![n].support = c]
  /\ UNCHANGED <<authority, late, supportCase, regulatoryCase, domain>>

(* The domain system throws: too late, or not a valid flow (HTTP 500). *)
RequestSupportRefused(n, h) ==
  /\ MayRequestSupport(n, h) /\ ~DomainAcceptsSupport(n, h)
  /\ sequence' = [sequence EXCEPT !.support = @ + 1]
  /\ UNCHANGED <<authority, late, purchase, supportCase, regulatoryCase,
                 domain>>

(* The member a case was given to, and only while its grant is active. *)
MayDecide(c) ==
  /\ supportCase[c] # NoSupportCase /\ supportCase[c].outcome = "pending"
  /\ supportCase[c].merchant \in handlers

(* The number of a decision is that of its case. *)
DecideSupport(c, outcome) ==
  LET merchant == supportCase[c].merchant IN
  /\ MayDecide(c)
  /\ decision[c] = NoDecision /\ DomainAcceptsDecision(c, merchant)
  /\ StoreDecision(c, c, merchant, outcome)
  /\ supportCase' = [supportCase EXCEPT ![c].outcome = outcome]
  /\ UNCHANGED <<authority, late, sequence, purchase, regulatoryCase,
                 credential, reviewOf, domainCase, domainRegulatory, bridge>>

-----------------------------------------------------------------------------
(* Escalation. *)

(* Variant: the published review is forgotten. *)
EvidenceWithoutReview(n) ==
  {PurchaseId(n), CaseId(purchase[n].support), DecisionId(purchase[n].support)}

(* The records the platform discloses. *)
EvidenceOf(n) ==
  {PurchaseId(n), CaseId(purchase[n].support), DecisionId(purchase[n].support)}
  \union {ReviewId(r) : r \in {purchase[n].review} \ {0}}

(* Variant: an approved request can be escalated too. *)
MayEscalateDecided(n, r) ==
  /\ purchase[n] # NoPurchase /\ purchase[n].regulatory = 0
  /\ purchase[n].support # 0
  /\ supportCase[purchase[n].support].outcome # "pending"
  /\ r \in Regulators /\ r # purchase[n].buyer
  /\ sequence.regulatory < MaxNumber

MayEscalate(n, r) ==
  /\ purchase[n] # NoPurchase /\ purchase[n].regulatory = 0
  /\ purchase[n].support # 0
  /\ supportCase[purchase[n].support].outcome = "rejected"
  /\ r \in Regulators /\ r # purchase[n].buyer
  /\ sequence.regulatory < MaxNumber

(* The case is open in the domain system when the bridge is refused there. *)
Escalate(n, r) ==
  LET k == sequence.regulatory + 1
      b == purchase[n].buyer
  IN
  /\ MayEscalate(n, r)
  /\ sequence' = [sequence EXCEPT !.regulatory = k]
  /\ OpenRegulatoryCase(k, n)
  /\ \/ /\ DomainAcceptsBridge(n, b, r, EvidenceOf(n))
        /\ StoreBridge(k, k, b, r, EvidenceOf(n))
        /\ purchase' = [purchase EXCEPT ![n].regulatory = k]
        /\ regulatoryCase' = [regulatoryCase EXCEPT
             ![k] = [NoRegulatoryCase EXCEPT
                       !.buyer = b, !.recipient = r, !.purchase = n,
                       !.records = EvidenceOf(n)]]
     \/ /\ ~DomainAcceptsBridge(n, b, r, EvidenceOf(n))
        /\ UNCHANGED <<bridge, actions, purchase, regulatoryCase>>
  /\ UNCHANGED <<authority, late, supportCase, credential, reviewOf,
                 domainCase, decision>>

DomainVerifies(k) ==
  MayVerifyBridge(k, regulatoryCase[k].recipient, k, regulatoryCase[k].records)

VerifyCase(k) ==
  /\ regulatoryCase[k] # NoRegulatoryCase /\ ~regulatoryCase[k].verified
  /\ DomainVerifies(k)
  /\ regulatoryCase' = [regulatoryCase EXCEPT
       ![k].verified = TRUE, ![k].reviewIntegrity = ReviewIsVerified(k)]
  /\ UNCHANGED <<authority, late, sequence, purchase, supportCase, domain>>

-----------------------------------------------------------------------------
Authorizing(u) ==
  AuthorizeSeller(u) \/ AuthorizeHandler(u) \/ HandlerLosesAuthority(u)

Buying == \E s, b \in Users : RecordPurchase(s, b)

Reviewing(n) == PublishReview(n) \/ PublishEmptyReview(n)

Supporting(n) ==
  \E h \in Users : RequestSupport(n, h) \/ RequestSupportRefused(n, h)

Deciding(c) == \E outcome \in Outcomes : DecideSupport(c, outcome)

Escalating(n) == \E r \in Users : Escalate(n, r)

Next ==
  \/ \E u \in Users : Authorizing(u)
  \/ Buying
  \/ \E n \in Numbers :
       \/ ThirtyDaysPass(n) \/ Reviewing(n) \/ Supporting(n)
       \/ Deciding(n) \/ Escalating(n) \/ VerifyCase(n)
  \/ Crash

Spec == Init /\ [][Next]_vars

-----------------------------------------------------------------------------
(* What the dashboard shows of these maps, and app.js makes a form of.     *)

(* #purchaseCard *)
CanReview(n) == purchase[n] # NoPurchase /\ purchase[n].review = 0

CanEscalate(n) ==
  /\ purchase[n] # NoPurchase /\ purchase[n].support # 0
  /\ supportCase[purchase[n].support].outcome = "rejected"
  /\ purchase[n].regulatory = 0

AvailableRegulators(u) == Regulators \ {u}

SupportInbox(u) ==
  {c \in Rows(supportCase, NoSupportCase) :
     supportCase[c].merchant = u /\ u \in handlers}

AssignedCases(u) ==
  {k \in Rows(regulatoryCase, NoRegulatoryCase) :
     regulatoryCase[k].recipient = u /\ u \in Regulators}

-----------------------------------------------------------------------------
(* Every map has its type, and no row has a number that its sequence has   *)
(* not drawn yet: the next number is always a new one.                     *)
PlatformTypeOK ==
  /\ handlers \subseteq Users
  /\ sequence \in [purchase : 0..MaxNumber, review : 0..MaxNumber,
                   support : 0..MaxNumber, regulatory : 0..MaxNumber]
  /\ purchase \in [Numbers -> [buyer : Users \union {NoUser},
                               issuer : Users \union {NoUser},
                               review : 0..MaxNumber, support : 0..MaxNumber,
                               regulatory : 0..MaxNumber]]
  /\ supportCase \in [Numbers -> [buyer : Users \union {NoUser},
                                  merchant : Users \union {NoUser},
                                  purchase : 0..MaxNumber,
                                  outcome : Outcomes \union {"pending"}]]
  /\ regulatoryCase \in [Numbers -> [buyer : Users \union {NoUser},
                                     recipient : Users \union {NoUser},
                                     purchase : 0..MaxNumber,
                                     records : SUBSET RecordIds,
                                     verified : BOOLEAN,
                                     reviewIntegrity : BOOLEAN]]

NumbersAreDrawn ==
  /\ Rows(purchase, NoPurchase) \union Rows(credential, NoCredential)
       \subseteq 1..sequence.purchase
  /\ Rows(reviewOf, 0) \subseteq 1..sequence.review
  /\ Rows(supportCase, NoSupportCase) \union Rows(domainCase, NoDomainCase)
       \subseteq 1..sequence.support
  /\ Rows(regulatoryCase, NoRegulatoryCase)
       \union Rows(domainRegulatory, NoDomainRegulatory)
       \subseteq 1..sequence.regulatory

TypeOK == PlatformTypeOK /\ DomainTypeOK /\ NumbersAreDrawn

(* The platform's maps and the domain system's tell the same story of      *)
(* every purchase, also after a refusal half way through a handler: who    *)
(* bought it, its one review, its one case and the decision on it.         *)
MapsAgree ==
  /\ \A n \in Numbers :
       /\ credential[n] = [holder |-> purchase[n].buyer,
                           issuer |-> purchase[n].issuer]
       /\ ReviewsOf(n) = {purchase[n].review} \ {0}
       /\ CasesOf(n) = {purchase[n].support} \ {0}
  /\ \A c \in Numbers :
       /\ domainCase[c] = [claimant |-> supportCase[c].buyer,
                           recipient |-> supportCase[c].merchant,
                           purchase |-> supportCase[c].purchase]
       /\ decision[c] = IF supportCase[c].outcome = "pending"
                        THEN NoDecision
                        ELSE [issuer |-> supportCase[c].merchant, case |-> c,
                              outcome |-> supportCase[c].outcome]

(* Nobody decides on its own complaint, though a buyer may become a member *)
(* and a handler after the purchase: a case is only ever with the seller   *)
(* that issued the credential.  No guard says so; it follows from what a   *)
(* valid flow is.                                                          *)
HandlerIsTheSeller ==
  \A c \in Rows(supportCase, NoSupportCase) :
    LET n == supportCase[c].purchase IN
    /\ supportCase[c].merchant = purchase[n].issuer
    /\ supportCase[c].merchant # purchase[n].buyer
    /\ supportCase[c].buyer = purchase[n].buyer

(* No regulatory case is left half open, and what a bridge discloses is    *)
(* one purchase of its authorizer with the case, the decision and the      *)
(* review of that purchase: nobody else's records.                         *)
DisclosureIsOneOwnPurchase ==
  /\ BridgesAreComplete
  /\ \A k \in Rows(domainRegulatory, NoDomainRegulatory) :
       /\ bridge[k].case = k
       /\ regulatoryCase[k].records = bridge[k].records
       /\ regulatoryCase[k].recipient = bridge[k].recipient
       /\ purchase[domainRegulatory[k].purchase].regulatory = k

(* What a dashboard offers at this moment, the domain system accepts at    *)
(* this moment, so that the handler does not stop half way: a comment on a *)
(* purchase, a decision in the inbox, an escalation to any of the          *)
(* regulators listed, the verification of an assigned case.  (A request    *)
(* for a replacement is the exception: SupportReachesHandler.)             *)
CaseOffersAreAccepted ==
  /\ \A n \in Numbers :
       /\ CanReview(n) => DomainAcceptsReview(n)
       /\ CanEscalate(n) =>
            \A r \in AvailableRegulators(purchase[n].buyer) :
              DomainAcceptsBridge(n, purchase[n].buyer, r, EvidenceOf(n))
  /\ \A u \in Users :
       /\ \A c \in SupportInbox(u) :
            supportCase[c].outcome = "pending"
            => decision[c] = NoDecision /\ DomainAcceptsDecision(c, u)
       /\ \A k \in AssignedCases(u) :
            ~regulatoryCase[k].verified => DomainVerifies(k)

(* The result a regulator was given does not change, though the purchase   *)
(* can still be reviewed.                                                  *)
ResultsAreFinal ==
  [][\A k \in Numbers :
       regulatoryCase[k].verified
       => regulatoryCase'[k] \in {regulatoryCase[k], NoRegulatoryCase}]_vars

-----------------------------------------------------------------------------
(* The journey of each purchase, as the domain system knows it: the domain *)
(* system by itself would take several cases for one purchase, and the     *)
(* escalation of an approved one; the platform's maps keep it from that.   *)
SupportOf(n) ==
  IF CasesOf(n) = {} THEN "none"
  ELSE LET c == CHOOSE c \in CasesOf(n) : \A d \in CasesOf(n) : d <= c
       IN IF DecisionsOf(c) = {} THEN "pending"
          ELSE decision[CHOOSE d \in DecisionsOf(c) : TRUE].outcome

BridgesOf(n) ==
  {j \in Rows(bridge, NoBridge) :
     domainRegulatory[bridge[j].case].purchase = n}

JourneyOf(n) ==
  [buyer |-> credential[n].holder,
   seller |-> credential[n].issuer,
   reviewed |-> ReviewsOf(n) # {},
   support |-> SupportOf(n),
   regulator |-> IF BridgesOf(n) = {} THEN NoUser
                 ELSE bridge[CHOOSE j \in BridgesOf(n) : TRUE].recipient,
   verified |-> \E j \in BridgesOf(n) : regulatoryCase[bridge[j].case].verified]

Journey == INSTANCE PurchaseJourney
             WITH PurchaseIds <- Numbers,
                  journey <- [n \in Numbers |-> JourneyOf(n)]

(* Every step of the platform is a step of the journey of one purchase, or *)
(* changes none, or is the end of the process.                             *)
ImplementsJourney == Journey!Spec

-----------------------------------------------------------------------------
(* What the texts of the repository say and the code does not keep.        *)

(* A request within thirty days fails only if there is no handler ("No     *)
(* active support handler is available for this product").                 *)
SupportReachesHandler ==
  [][\A n \in Numbers \ late, h \in Users : ~RequestSupportRefused(n, h)]_vars

(* A bridge is record-bound: a regulator learns of a review only if the    *)
(* review is among the records of the bridge.                              *)
DisclosureIsExact ==
  \A k \in Numbers :
    regulatoryCase[k].reviewIntegrity
    => \E r \in Numbers : ReviewId(r) \in regulatoryCase[k].records
=============================================================================
