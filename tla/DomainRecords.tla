---------------------------- MODULE DomainRecords ----------------------------
(***************************************************************************)
(* The records of the behaviour-derived domain system                      *)
(* (src/behavior-derived-system.ts): for each operation, when the domain   *)
(* system accepts it and what it then stores.  Its callers put them        *)
(* together: anybody in any order (DomainSystem), the platform             *)
(* (CaseLifecycle), the scenario of the demonstration (FourActorScenario). *)
(*                                                                         *)
(* One product of one organization.  Signatures are unforgeable and a      *)
(* holder's secret is known to the holder only, so that both checks pass   *)
(* exactly for the actor that the operators below name.                    *)
(*                                                                         *)
(* An id is a number.  The maps are searched in the order of insertion,    *)
(* which is the order of the numbers: an id that is new for what it is     *)
(* about is larger than the earlier ones.                                  *)
(***************************************************************************)
EXTENDS Naturals, InformationFlowAggregate

CONSTANTS
  Users,
  MaxNumber,           \* bound: the last number of every kind of record
  NoUser

ASSUME MaxNumberAssumption == MaxNumber \in Nat
ASSUME NoUserAssumption == NoUser \notin Users

VARIABLES
  issuers,             \* #grants: who may issue a credential of the product
  late,                \* purchases whose 30 days are over
  credential,          \* #credentials
  reviewOf,            \* #reviewCredentialIds, 0 if no review
  domainCase,          \* #supportCases
  decision,            \* #supportDecisions
  domainRegulatory,    \* #regulatoryCases
  bridge,              \* #bridges
  actions              \* #actions: ids of the flows committed to

domain == <<credential, reviewOf, domainCase, decision, domainRegulatory,
            bridge, actions>>
domainVars == <<issuers, late, domain>>

Numbers == 1..MaxNumber
Outcomes == {"approved", "rejected"}

(* Ids carry their kind: "purchase-001", "CASE-001", "decision-case-001". *)
PurchaseId(n) == <<"purchase", n>>
ReviewId(r) == <<"review", r>>
CaseId(c) == <<"case", c>>
DecisionId(d) == <<"decision", d>>
BridgeId(j) == <<"bridge", j>>
RecordIds == {"purchase", "review", "case", "decision"} \X Numbers
ActionIds == {"review", "case", "decision", "bridge"} \X Numbers

(* Rows of the maps; in a row 0 is the null id, NoUser marks "no row". *)
NoCredential == [holder |-> NoUser, issuer |-> NoUser]
NoDomainCase == [claimant |-> NoUser, recipient |-> NoUser, purchase |-> 0]
NoDecision == [issuer |-> NoUser, case |-> 0, outcome |-> "none"]
NoDomainRegulatory == [claimant |-> NoUser, purchase |-> 0]
NoBridge == [authorizer |-> NoUser, recipient |-> NoUser, case |-> 0,
             records |-> {}]

Nothing(none) == [n \in Numbers |-> none]
Rows(table, none) == {n \in Numbers : table[n] # none}

EmptyDomain ==
  /\ credential = Nothing(NoCredential)
  /\ reviewOf = Nothing(0)
  /\ domainCase = Nothing(NoDomainCase)
  /\ decision = Nothing(NoDecision)
  /\ domainRegulatory = Nothing(NoDomainRegulatory)
  /\ bridge = Nothing(NoBridge)
  /\ actions = {}

(* Nothing of the domain system is stored. *)
ForgetDomain ==
  /\ credential' = Nothing(NoCredential)
  /\ reviewOf' = Nothing(0)
  /\ domainCase' = Nothing(NoDomainCase)
  /\ decision' = Nothing(NoDecision)
  /\ domainRegulatory' = Nothing(NoDomainRegulatory)
  /\ bridge' = Nothing(NoBridge)
  /\ actions' = {}

(* #recordAction: the commitment to a flow, before the record is stored. *)
RecordAction(id) == actions' = actions \union {id}

-----------------------------------------------------------------------------
(* Credentials. *)

(* canIssuePurchaseCredential *)
MayIssue(s) == s \in issuers

IssueCredential(n, s, b) ==
  credential' = [credential EXCEPT ![n] = [holder |-> b, issuer |-> s]]

-----------------------------------------------------------------------------
(* Reviews. *)
ReviewsOf(n) == {r \in Numbers : reviewOf[r] = n}

(* The nullifier of a credential is a hash of its id and product. *)
NullifierUsed(n) == ReviewsOf(n) # {}

ReviewFlow(n) ==
  MakeFlow({credential[n].holder, credential[n].issuer},
           credential[n].holder,
           [claim \in {"product", "verified-purchase", "rating", "text"} |->
              IF claim \in {"product", "verified-purchase"}
              THEN credential[n].issuer ELSE credential[n].holder],
           Public)

DomainAcceptsReview(n) ==
  /\ credential[n] # NoCredential
  /\ ~NullifierUsed(n) /\ ValidFlow(ReviewFlow(n))

StoreReview(r, n) ==
  /\ reviewOf' = [reviewOf EXCEPT ![r] = n]
  /\ RecordAction(ReviewId(r))

-----------------------------------------------------------------------------
(* Support. *)
CasesOf(n) == {c \in Numbers : domainCase[c].purchase = n}

(* Variant: the handler vouches for the facts it is told. *)
SupportFlowOfHandler(n, h) ==
  MakeFlow({credential[n].holder, h}, credential[n].holder,
           [claim \in {"product", "within-thirty-days", "unused-entitlement"} |->
              h],
           h)

(* The facts are vouched for by the issuer of the credential; the actors   *)
(* are the holder and the handler.                                         *)
SupportFlow(n, h) ==
  MakeFlow({credential[n].holder, h}, credential[n].holder,
           [claim \in {"product", "within-thirty-days", "unused-entitlement"} |->
              credential[n].issuer],
           h)

DomainAcceptsSupport(n, h) ==
  /\ credential[n] # NoCredential
  /\ n \notin late /\ ValidFlow(SupportFlow(n, h))

StoreSupportCase(c, n, h) ==
  /\ domainCase' = [domainCase EXCEPT
       ![c] = [claimant |-> credential[n].holder, recipient |-> h,
               purchase |-> n]]
  /\ RecordAction(CaseId(c))

DecisionFlow(c, issuer) ==
  MakeFlow({issuer, domainCase[c].claimant}, issuer,
           [claim \in {"outcome", "reason", "signature"} |-> issuer],
           credential[domainCase[c].purchase].holder)

(* A case may be decided more than once, each time by its recipient. *)
DomainAcceptsDecision(c, issuer) ==
  /\ domainCase[c] # NoDomainCase
  /\ domainCase[c].recipient = issuer
  /\ ValidFlow(DecisionFlow(c, issuer))

(* Variant: a decision is stored without a commitment. *)
StoreDecisionAlone(d, c, issuer, outcome) ==
  /\ decision' = [decision EXCEPT
       ![d] = [issuer |-> issuer, case |-> c, outcome |-> outcome]]
  /\ UNCHANGED actions

StoreDecision(d, c, issuer, outcome) ==
  /\ decision' = [decision EXCEPT
       ![d] = [issuer |-> issuer, case |-> c, outcome |-> outcome]]
  /\ RecordAction(DecisionId(d))

-----------------------------------------------------------------------------
(* Regulatory cases and evidence bridges. *)
DecisionsOf(c) == {d \in Numbers : decision[d].case = c}

Earliest(numbers) == {n \in numbers : \A m \in numbers : n <= m}

EarliestDecisions(n) ==
  UNION {Earliest(DecisionsOf(c)) : c \in Earliest(CasesOf(n))}

(* #assertBridgeRecords: the only records a bridge may disclose. *)
ExpectedRecords(n) ==
  {PurchaseId(n)}
  \union {ReviewId(r) : r \in Earliest(ReviewsOf(n))}
  \union {CaseId(c) : c \in Earliest(CasesOf(n))}
  \union {DecisionId(d) : d \in EarliestDecisions(n)}

OpenRegulatoryCase(k, n) ==
  domainRegulatory' = [domainRegulatory EXCEPT
    ![k] = [claimant |-> credential[n].holder, purchase |-> n]]

BridgeFlow(authorizer, recipient) ==
  MakeFlow({authorizer, recipient}, authorizer,
           [claim \in {"authorization", "same-holder", "same-transaction"} |->
              authorizer],
           recipient)

(* For an open regulatory case about purchase n: a decided case is there,  *)
(* and the records are exactly the expected ones.                          *)
DomainAcceptsBridge(n, authorizer, recipient, records) ==
  /\ EarliestDecisions(n) # {}
  /\ records = ExpectedRecords(n)
  /\ ValidFlow(BridgeFlow(authorizer, recipient))

StoreBridge(j, k, authorizer, recipient, records) ==
  /\ bridge' = [bridge EXCEPT
       ![j] = [authorizer |-> authorizer, recipient |-> recipient, case |-> k,
               records |-> records]]
  /\ RecordAction(BridgeId(j))

(* canVerifyEvidenceBridge *)
MayVerifyBridge(j, actor, k, records) ==
  /\ bridge[j] # NoBridge
  /\ bridge[j].recipient = actor
  /\ bridge[j].case = k
  /\ bridge[j].records = records

(* verifyEvidenceBridge looks for a review of the purchase again. *)
ReviewIsVerified(j) ==
  ReviewsOf(domainRegulatory[bridge[j].case].purchase) # {}

-----------------------------------------------------------------------------
DomainTypeOK ==
  /\ issuers \subseteq Users /\ late \subseteq Numbers
  /\ credential \in [Numbers -> [holder : Users \union {NoUser},
                                 issuer : Users \union {NoUser}]]
  /\ reviewOf \in [Numbers -> 0..MaxNumber]
  /\ domainCase \in [Numbers -> [claimant : Users \union {NoUser},
                                 recipient : Users \union {NoUser},
                                 purchase : 0..MaxNumber]]
  /\ decision \in [Numbers -> [issuer : Users \union {NoUser},
                               case : 0..MaxNumber,
                               outcome : Outcomes \union {"none"}]]
  /\ domainRegulatory \in [Numbers -> [claimant : Users \union {NoUser},
                                       purchase : 0..MaxNumber]]
  /\ bridge \in [Numbers -> [authorizer : Users \union {NoUser},
                             recipient : Users \union {NoUser},
                             case : 0..MaxNumber,
                             records : SUBSET RecordIds]]
  /\ actions \subseteq ActionIds

(* The public commitments are those of the records that exist: a refused   *)
(* call leaves none behind and no record goes without (auditCommitments).  *)
CommitmentsMatchRecords ==
  actions = {ReviewId(r) : r \in Rows(reviewOf, 0)}
            \union {CaseId(c) : c \in Rows(domainCase, NoDomainCase)}
            \union {DecisionId(d) : d \in Rows(decision, NoDecision)}
            \union {BridgeId(j) : j \in Rows(bridge, NoBridge)}

(* A credential is used for one review, however often its holder tries.    *)
OneReviewPerCredential ==
  \A r, q \in Rows(reviewOf, 0) : reviewOf[r] = reviewOf[q] => r = q

(* A support case tells its recipient three facts about a purchase, which  *)
(* the issuer of the credential vouches for; so the recipient is that      *)
(* issuer, unless somebody sold to itself.  No guard compares the two: it  *)
(* follows from what a valid flow is.                                      *)
SupportStaysWithIssuer ==
  \A c \in Rows(domainCase, NoDomainCase) :
    LET n == domainCase[c].purchase IN
    /\ n \in Rows(credential, NoCredential)
    /\ domainCase[c].claimant = credential[n].holder
    /\ credential[n].issuer \in {domainCase[c].recipient, credential[n].holder}

(* A decision is signed by the recipient of its case, that is by the       *)
(* issuer of the credential, or by anybody a self-seller chose.            *)
DecisionsAreOfTheRecipient ==
  \A d \in Rows(decision, NoDecision) :
    /\ decision[d].case \in Rows(domainCase, NoDomainCase)
    /\ decision[d].issuer = domainCase[decision[d].case].recipient

(* A regulatory case is opened by the holder of its purchase. *)
RegulatoryCasesAreOfTheHolder ==
  \A k \in Rows(domainRegulatory, NoDomainRegulatory) :
    LET n == domainRegulatory[k].purchase IN
    /\ n \in Rows(credential, NoCredential)
    /\ domainRegulatory[k].claimant = credential[n].holder

(* What a bridge discloses is one purchase of its authorizer, one case     *)
(* about that purchase with a decision on that very case, and at most      *)
(* reviews of that purchase: never part of it, never anybody else's.       *)
BridgesAreComplete ==
  \A j \in Rows(bridge, NoBridge) :
    LET k == bridge[j].case
        n == domainRegulatory[k].purchase
    IN
    /\ k \in Rows(domainRegulatory, NoDomainRegulatory)
    /\ n \in Rows(credential, NoCredential)
    /\ bridge[j].authorizer = credential[n].holder
    /\ \E c \in CasesOf(n) : \E d \in DecisionsOf(c) :
         /\ {PurchaseId(n), CaseId(c), DecisionId(d)} \subseteq bridge[j].records
         /\ bridge[j].records
              \subseteq {PurchaseId(n), CaseId(c), DecisionId(d)}
                        \union {ReviewId(r) : r \in ReviewsOf(n)}
=============================================================================
