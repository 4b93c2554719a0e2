-------------------------- MODULE DomainSystem_proofs --------------------------
(***************************************************************************)
(* The records of the domain system agree with each other, whoever uses it *)
(* and in whatever order, as long as new ids come in their normal form:    *)
(* RecordsAgree is inductive for such steps (Careful).  One lemma per part *)
(* of the invariant; RecordsAreKept, which says that no step but a restart *)
(* changes a record, serves those that relate two maps.  What holds in     *)
(* spite of careless callers comes last.                                   *)
(***************************************************************************)
EXTENDS DomainSystem, TLAPS

(* Users and numbers are not the values that stand for "none". *)
LEMMA NumbersAreNat == /\ Numbers \subseteq Nat \ {0}
                       /\ Numbers \subseteq 0..MaxNumber
BY MaxNumberAssumption DEF Numbers

(* The rows of a map have the type that the map has. *)
LEMMA TypeStep == DomainTypeOK /\ Careful => DomainTypeOK'
<1> SUFFICES ASSUME DomainTypeOK, Careful PROVE DomainTypeOK'
  OBVIOUS
<1> USE NumbersAreNat DEF DomainTypeOK
<1>1. CASE \E u \in Users : GrantAuthority(u)
  BY <1>1 DEF GrantAuthority, domain
<1>2. CASE \E n \in Numbers : ThirtyDaysPass(n)
  BY <1>2 DEF ThirtyDaysPass, Rows, domain
<1>3. CASE \E n \in Numbers : \E s, b \in Users :
             IssuePurchaseCredential(n, s, b)
  BY <1>3 DEF IssuePurchaseCredential, IssueCredential
<1>4. CASE \E n \in Numbers : \E r \in Numbers : PublishReview(r, n)
  BY <1>4 DEF PublishReview, StoreReview, RecordAction, ReviewId, ActionIds
<1>5. ASSUME NEW n \in Numbers, NEW c \in Numbers, NEW h \in Users,
             RequestSupport(c, n, h)
      PROVE  DomainTypeOK'
  <2>1. credential[n] \in [holder : Users \union {NoUser},
                          issuer : Users \union {NoUser}]
    OBVIOUS
  <2>2. domainCase' \in [Numbers -> [claimant : Users \union {NoUser},
                                    recipient : Users \union {NoUser},
                                    purchase : 0..MaxNumber]]
    BY <1>5, <2>1 DEF RequestSupport, StoreSupportCase
  <2>3. actions' \subseteq ActionIds
    BY <1>5 DEF RequestSupport, StoreSupportCase, RecordAction, CaseId,
                ActionIds
  <2> QED
    BY <1>5, <2>2, <2>3 DEF RequestSupport
<1>6. CASE \E n \in Numbers : \E k \in Numbers : OpenCase(k, n)
  BY <1>6 DEF OpenCase, OpenRegulatoryCase
<1>7. ASSUME NEW d \in Numbers, NEW c \in Numbers, NEW issuer \in Users,
             NEW outcome \in Outcomes,
             RecordSupportDecision(d, c, issuer, outcome)
      PROVE  DomainTypeOK'
  <2>1. [issuer |-> issuer, case |-> c, outcome |-> outcome]
          \in [issuer : Users \union {NoUser}, case : 0..MaxNumber,
              outcome : Outcomes \union {"none"}]
    OBVIOUS
  <2>2. decision' \in [Numbers -> [issuer : Users \union {NoUser},
                                  case : 0..MaxNumber,
                                  outcome : Outcomes \union {"none"}]]
    BY <1>7, <2>1 DEF RecordSupportDecision, StoreDecision
  <2>3. actions' \subseteq ActionIds
    BY <1>7 DEF RecordSupportDecision, StoreDecision, RecordAction,
                DecisionId, ActionIds
  <2> QED
    BY <1>7, <2>2, <2>3 DEF RecordSupportDecision
<1>8. ASSUME NEW j \in Numbers, NEW k \in Numbers, NEW recipient \in Users,
             NEW records \in SUBSET RecordIds,
             AuthorizeEvidenceBridge(j, k, recipient, records)
      PROVE  DomainTypeOK'
  <2>1. domainRegulatory[k] \in [claimant : Users \union {NoUser},
                                purchase : 0..MaxNumber]
    OBVIOUS
  <2>2. bridge' \in [Numbers -> [authorizer : Users \union {NoUser},
                                recipient : Users \union {NoUser},
                                case : 0..MaxNumber,
                                records : SUBSET RecordIds]]
    BY <1>8, <2>1 DEF AuthorizeEvidenceBridge, StoreBridge
  <2>3. actions' \subseteq ActionIds
    BY <1>8 DEF AuthorizeEvidenceBridge, StoreBridge, RecordAction, BridgeId,
                ActionIds
  <2> QED
    BY <1>8, <2>2, <2>3 DEF AuthorizeEvidenceBridge
<1>9. CASE Restart
  <2>1. 0 \in 0..MaxNumber
    BY MaxNumberAssumption
  <2>2. /\ credential' = Nothing(NoCredential) /\ reviewOf' = Nothing(0)
        /\ issuers' = {} /\ late' = {} /\ actions' = {}
        /\ domainCase' = Nothing(NoDomainCase)
        /\ decision' = Nothing(NoDecision)
        /\ domainRegulatory' = Nothing(NoDomainRegulatory)
        /\ bridge' = Nothing(NoBridge)
    BY <1>9 DEF Restart, ForgetDomain
  <2> HIDE DEF DomainTypeOK
  <2> QED
    BY <2>1, <2>2 DEF DomainTypeOK, Nothing, NoCredential, NoDomainCase,
                      NoDecision, NoDomainRegulatory, NoBridge
<1> QED
  BY <1>1, <1>2, <1>3, <1>4, <1>5, <1>6, <1>7, <1>8, <1>9 DEF Careful

-----------------------------------------------------------------------------
(* With ids in the normal form every action but Restart adds rows at most. *)
LEMMA RecordsAreKept ==
  ASSUME DomainTypeOK, Careful, ~Restart
  PROVE  Kept
<1> USE DEF DomainTypeOK, Kept, DecisionsAndBridgesKept, Rows, RecordAction
<1>1. CASE \E u \in Users : GrantAuthority(u)
  BY <1>1 DEF GrantAuthority, domain
<1>2. CASE \E n \in Numbers : ThirtyDaysPass(n)
  BY <1>2 DEF ThirtyDaysPass, domain
<1>3. CASE \E n \in Numbers : \E s, b \in Users :
             IssuePurchaseCredential(n, s, b)
  BY <1>3 DEF IssuePurchaseCredential, IssueCredential
<1>4. CASE \E n \in Numbers : \E r \in Numbers : PublishReview(r, n)
  BY <1>4 DEF PublishReview, StoreReview
<1>5. CASE \E n \in Numbers : \E c \in Numbers, h \in Users :
             RequestSupport(c, n, h)
  BY <1>5 DEF RequestSupport, StoreSupportCase
<1>6. CASE \E n \in Numbers : \E k \in Numbers : OpenCase(k, n)
  BY <1>6 DEF OpenCase, OpenRegulatoryCase
<1>7. CASE \E d, c \in Numbers, issuer \in Users, outcome \in Outcomes :
             RecordSupportDecision(d, c, issuer, outcome)
  BY <1>7 DEF RecordSupportDecision, StoreDecision
<1>8. CASE \E j, k \in Numbers, recipient \in Users :
             \E records \in SUBSET RecordIds :
               AuthorizeEvidenceBridge(j, k, recipient, records)
  BY <1>8 DEF AuthorizeEvidenceBridge, StoreBridge
<1> QED
  BY <1>1, <1>2, <1>3, <1>4, <1>5, <1>6, <1>7, <1>8 DEF Careful

(* The ids of the commitments, with one record more. *)
LEMMA IdsGrow ==
  ASSUME NEW R, NEW i
  PROVE  /\ {ReviewId(x) : x \in R \union {i}}
              = {ReviewId(x) : x \in R} \union {ReviewId(i)}
         /\ {CaseId(x) : x \in R \union {i}}
              = {CaseId(x) : x \in R} \union {CaseId(i)}
         /\ {DecisionId(x) : x \in R \union {i}}
              = {DecisionId(x) : x \in R} \union {DecisionId(i)}
         /\ {BridgeId(x) : x \in R \union {i}}
              = {BridgeId(x) : x \in R} \union {BridgeId(i)}
OBVIOUS

LEMMA CommitmentsStep ==
  ASSUME DomainTypeOK, CommitmentsMatchRecords, Careful
  PROVE  CommitmentsMatchRecords'
<1>1. CASE \/ \E u \in Users : GrantAuthority(u)
           \/ \E n \in Numbers :
                \/ ThirtyDaysPass(n)
                \/ \E s, b \in Users : IssuePurchaseCredential(n, s, b)
                \/ \E k \in Numbers : OpenCase(k, n)
  <2>1. UNCHANGED <<reviewOf, domainCase, decision, bridge, actions>>
    BY <1>1 DEF GrantAuthority, ThirtyDaysPass, IssuePurchaseCredential,
                OpenCase, domain
  <2> QED
    BY <2>1 DEF CommitmentsMatchRecords, Rows
<1>2. ASSUME NEW n \in Numbers, NEW r \in Numbers, PublishReview(r, n)
      PROVE  CommitmentsMatchRecords'
  <2>1. n # 0
    BY NumbersAreNat
  <2>2. Rows(reviewOf', 0) = Rows(reviewOf, 0) \union {r}
    BY <1>2, <2>1 DEF PublishReview, StoreReview, DomainTypeOK, Rows
  <2>3. actions' = actions \union {ReviewId(r)}
    BY <1>2 DEF PublishReview, StoreReview, RecordAction
  <2>4. UNCHANGED <<domainCase, decision, bridge>>
    BY <1>2 DEF PublishReview
  <2> QED
    BY <2>2, <2>3, <2>4, IdsGrow DEF CommitmentsMatchRecords
<1>3. ASSUME NEW n \in Numbers, NEW c \in Numbers, NEW h \in Users,
             RequestSupport(c, n, h)
      PROVE  CommitmentsMatchRecords'
  <2>1. [claimant |-> credential[n].holder, recipient |-> h, purchase |-> n]
          # NoDomainCase
    BY NumbersAreNat DEF NoDomainCase
  <2>2. Rows(domainCase', NoDomainCase)
          = Rows(domainCase, NoDomainCase) \union {c}
    BY <1>3, <2>1 DEF RequestSupport, StoreSupportCase,
                        DomainTypeOK, Rows
  <2>3. actions' = actions \union {CaseId(c)}
    BY <1>3 DEF RequestSupport, StoreSupportCase, RecordAction
  <2>4. UNCHANGED <<reviewOf, decision, bridge>>
    BY <1>3 DEF RequestSupport
  <2> QED
    BY <2>2, <2>3, <2>4, IdsGrow DEF CommitmentsMatchRecords
<1>4. ASSUME NEW d \in Numbers, NEW c \in Numbers, NEW issuer \in Users,
             NEW outcome \in Outcomes,
             RecordSupportDecision(d, c, issuer, outcome)
      PROVE  CommitmentsMatchRecords'
  <2>1. [issuer |-> issuer, case |-> c, outcome |-> outcome] # NoDecision
    BY NumbersAreNat DEF NoDecision
  <2>2. Rows(decision', NoDecision) = Rows(decision, NoDecision) \union {d}
    BY <1>4, <2>1
       DEF RecordSupportDecision, StoreDecision, DomainTypeOK, Rows
  <2>3. actions' = actions \union {DecisionId(d)}
    BY <1>4 DEF RecordSupportDecision, StoreDecision, RecordAction
  <2>4. UNCHANGED <<reviewOf, domainCase, bridge>>
    BY <1>4 DEF RecordSupportDecision
  <2> QED
    BY <2>2, <2>3, <2>4, IdsGrow DEF CommitmentsMatchRecords
<1>5. ASSUME NEW j \in Numbers, NEW k \in Numbers, NEW recipient \in Users,
             NEW records \in SUBSET RecordIds,
             AuthorizeEvidenceBridge(j, k, recipient, records)
      PROVE  CommitmentsMatchRecords'
  <2> DEFINE row == [authorizer |-> domainRegulatory[k].claimant,
                     recipient |-> recipient, case |-> k,
                     records |-> records]
  <2>1. row # NoBridge
    BY NumbersAreNat DEF NoBridge
  <2>2. bridge' = [bridge EXCEPT ![j] = row]
    BY <1>5 DEF AuthorizeEvidenceBridge, StoreBridge
  <2> HIDE DEF row
  <2>3. Rows(bridge', NoBridge) = Rows(bridge, NoBridge) \union {j}
    BY <2>1, <2>2 DEF DomainTypeOK, Rows
  <2>4. actions' = actions \union {BridgeId(j)}
    BY <1>5 DEF AuthorizeEvidenceBridge, StoreBridge, RecordAction
  <2>5. UNCHANGED <<reviewOf, domainCase, decision>>
    BY <1>5 DEF AuthorizeEvidenceBridge
  <2> QED
    BY <2>3, <2>4, <2>5, IdsGrow DEF CommitmentsMatchRecords
<1>6. CASE Restart
  BY <1>6 DEF Restart, ForgetDomain, CommitmentsMatchRecords, Rows, Nothing
<1> QED
  BY <1>1, <1>2, <1>3, <1>4, <1>5, <1>6 DEF Careful

-----------------------------------------------------------------------------
(* A restart leaves no rows: what is said of rows holds. *)
LEMMA NoRowsAfterRestart ==
  ASSUME Restart
  PROVE  /\ Rows(reviewOf', 0) = {}
         /\ Rows(domainCase', NoDomainCase) = {}
         /\ Rows(decision', NoDecision) = {}
         /\ Rows(domainRegulatory', NoDomainRegulatory) = {}
         /\ Rows(bridge', NoBridge) = {}
BY DEF Restart, ForgetDomain, Nothing, Rows

(* A review is stored only for a credential that has none. *)
LEMMA OneReviewStep ==
  ASSUME DomainTypeOK, OneReviewPerCredential, Careful
  PROVE  OneReviewPerCredential'
<1>1. ASSUME NEW n \in Numbers, NEW r \in Numbers, PublishReview(r, n)
      PROVE  OneReviewPerCredential'
  <2>1. \A q \in Numbers : reviewOf[q] # n
    BY <1>1 DEF PublishReview, DomainAcceptsReview, NullifierUsed, ReviewsOf
  <2>2. reviewOf' = [reviewOf EXCEPT ![r] = n]
    BY <1>1 DEF PublishReview, StoreReview
  <2> QED
    BY <2>1, <2>2 DEF OneReviewPerCredential, Rows, DomainTypeOK
<1>2. CASE Restart
  BY <1>2, NoRowsAfterRestart DEF OneReviewPerCredential
<1>3. CASE UNCHANGED reviewOf
  BY <1>3 DEF OneReviewPerCredential, Rows
<1> QED
  BY <1>1, <1>2, <1>3
     DEF Careful, GrantAuthority, ThirtyDaysPass, IssuePurchaseCredential,
         RequestSupport, OpenCase, RecordSupportDecision,
         AuthorizeEvidenceBridge, domain

(* The facts are claims of the issuer, who has to be one of the actors of  *)
(* the flow: the holder and the recipient.                                 *)
LEMMA IssuerIsAnActor ==
  ASSUME NEW n \in Numbers, NEW h, ValidFlow(SupportFlow(n, h))
  PROVE  credential[n].issuer \in {credential[n].holder, h}
<1> DEFINE claims == {"product", "within-thirty-days", "unused-entitlement"}
           flow == SupportFlow(n, h)
<1>1. /\ flow.actors = {credential[n].holder, h}
      /\ flow.issuerOf = [claim \in claims |-> credential[n].issuer]
  BY DEF SupportFlow, MakeFlow
<1>2. \A claim \in DOMAIN flow.issuerOf : flow.issuerOf[claim] \in flow.actors
  BY DEF ValidFlow
<1>3. "product" \in DOMAIN flow.issuerOf
  BY <1>1
<1>4. flow.issuerOf["product"] = credential[n].issuer
  BY <1>1
<1> HIDE DEF flow
<1> QED
  BY <1>1, <1>2, <1>3, <1>4

LEMMA SupportStep ==
  ASSUME DomainTypeOK, SupportStaysWithIssuer, Careful
  PROVE  SupportStaysWithIssuer'
<1>1. CASE Restart
  BY <1>1, NoRowsAfterRestart DEF SupportStaysWithIssuer
<1>2. CASE ~Restart
  <2>1. Kept
    BY <1>2, RecordsAreKept
  <2> SUFFICES ASSUME NEW c \in Rows(domainCase', NoDomainCase)
               PROVE  LET n == domainCase'[c].purchase IN
                      /\ n \in Rows(credential', NoCredential)
                      /\ domainCase'[c].claimant = credential'[n].holder
                      /\ credential'[n].issuer
                           \in {domainCase'[c].recipient, credential'[n].holder}
    BY DEF SupportStaysWithIssuer
  <2>2. CASE c \in Rows(domainCase, NoDomainCase)
    <3>1. domainCase'[c] = domainCase[c]
      BY <2>1, <2>2 DEF Kept, DecisionsAndBridgesKept
    <3>2. domainCase[c].purchase \in Rows(credential, NoCredential)
      BY <2>2 DEF SupportStaysWithIssuer
    <3>3. credential'[domainCase[c].purchase]
            = credential[domainCase[c].purchase]
      BY <2>1, <3>2 DEF Kept
    <3> QED
      BY <2>2, <3>1, <3>2, <3>3 DEF SupportStaysWithIssuer, Rows
  <2>3. CASE c \notin Rows(domainCase, NoDomainCase)
    <3>1. PICK n \in Numbers, e \in Numbers, h \in Users :
            RequestSupport(e, n, h)
      BY <1>2, <2>3
         DEF Rows, Careful, GrantAuthority, ThirtyDaysPass,
             IssuePurchaseCredential, PublishReview, OpenCase,
             RecordSupportDecision, AuthorizeEvidenceBridge, domain
    <3>2. e = c
      BY <2>3, <3>1
         DEF RequestSupport, StoreSupportCase, Rows, DomainTypeOK
    <3>3. domainCase'[c] = [claimant |-> credential[n].holder,
                            recipient |-> h, purchase |-> n]
      BY <3>1, <3>2 DEF RequestSupport, StoreSupportCase, DomainTypeOK
    <3>4. UNCHANGED credential /\ n \in Rows(credential, NoCredential)
      BY <3>1 DEF RequestSupport, DomainAcceptsSupport, Rows
    <3>5. credential[n].issuer \in {credential[n].holder, h}
      BY <3>1, IssuerIsAnActor DEF RequestSupport, DomainAcceptsSupport
    <3> QED
      BY <3>3, <3>4, <3>5 DEF Rows
  <2> QED
    BY <2>2, <2>3
<1> QED
  BY <1>1, <1>2

LEMMA DecisionsStep ==
  ASSUME DomainTypeOK, DecisionsAreOfTheRecipient, Careful
  PROVE  DecisionsAreOfTheRecipient'
<1>1. CASE Restart
  BY <1>1, NoRowsAfterRestart DEF DecisionsAreOfTheRecipient
<1>2. CASE ~Restart
  <2>1. Kept
    BY <1>2, RecordsAreKept
  <2> SUFFICES ASSUME NEW d \in Rows(decision', NoDecision)
               PROVE  /\ decision'[d].case
                           \in Rows(domainCase', NoDomainCase)
                      /\ decision'[d].issuer
                           = domainCase'[decision'[d].case].recipient
    BY DEF DecisionsAreOfTheRecipient
  <2>2. CASE d \in Rows(decision, NoDecision)
    <3>1. decision'[d] = decision[d]
      BY <2>1, <2>2 DEF Kept, DecisionsAndBridgesKept
    <3>2. decision[d].case \in Rows(domainCase, NoDomainCase)
      BY <2>2 DEF DecisionsAreOfTheRecipient
    <3>3. domainCase'[decision[d].case] = domainCase[decision[d].case]
      BY <2>1, <3>2 DEF Kept
    <3> QED
      BY <2>2, <3>1, <3>2, <3>3 DEF DecisionsAreOfTheRecipient, Rows
  <2>3. CASE d \notin Rows(decision, NoDecision)
    <3>1. PICK e \in Numbers, c \in Numbers, issuer \in Users,
               outcome \in Outcomes :
            RecordSupportDecision(e, c, issuer, outcome)
      BY <1>2, <2>3
         DEF Rows, Careful, GrantAuthority, ThirtyDaysPass,
             IssuePurchaseCredential, PublishReview, OpenCase,
             RequestSupport, AuthorizeEvidenceBridge, domain
    <3>2. e = d
      BY <2>3, <3>1
         DEF RecordSupportDecision, StoreDecision, Rows, DomainTypeOK
    <3>3. decision'[d] = [issuer |-> issuer, case |-> c, outcome |-> outcome]
      BY <3>1, <3>2 DEF RecordSupportDecision, StoreDecision, DomainTypeOK
    <3>4. UNCHANGED domainCase /\ domainCase[c] # NoDomainCase
          /\ domainCase[c].recipient = issuer
      BY <3>1 DEF RecordSupportDecision, DomainAcceptsDecision
    <3> QED
      BY <3>3, <3>4 DEF Rows
  <2> QED
    BY <2>2, <2>3
<1> QED
  BY <1>1, <1>2

LEMMA RegulatoryStep ==
  ASSUME DomainTypeOK, RegulatoryCasesAreOfTheHolder, Careful
  PROVE  RegulatoryCasesAreOfTheHolder'
<1>1. CASE Restart
  BY <1>1, NoRowsAfterRestart DEF RegulatoryCasesAreOfTheHolder
<1>2. CASE ~Restart
  <2>1. Kept
    BY <1>2, RecordsAreKept
  <2> SUFFICES ASSUME NEW k \in Rows(domainRegulatory', NoDomainRegulatory)
               PROVE  LET n == domainRegulatory'[k].purchase IN
                      /\ n \in Rows(credential', NoCredential)
                      /\ domainRegulatory'[k].claimant = credential'[n].holder
    BY DEF RegulatoryCasesAreOfTheHolder
  <2>2. CASE k \in Rows(domainRegulatory, NoDomainRegulatory)
    <3>1. domainRegulatory'[k] = domainRegulatory[k]
      BY <2>1, <2>2 DEF Kept, DecisionsAndBridgesKept
    <3>2. domainRegulatory[k].purchase \in Rows(credential, NoCredential)
      BY <2>2 DEF RegulatoryCasesAreOfTheHolder
    <3>3. credential'[domainRegulatory[k].purchase]
            = credential[domainRegulatory[k].purchase]
      BY <2>1, <3>2 DEF Kept
    <3> QED
      BY <2>2, <3>1, <3>2, <3>3 DEF RegulatoryCasesAreOfTheHolder, Rows
  <2>3. CASE k \notin Rows(domainRegulatory, NoDomainRegulatory)
    <3>1. PICK n \in Numbers, e \in Numbers : OpenCase(e, n)
      BY <1>2, <2>3
         DEF Rows, Careful, GrantAuthority, ThirtyDaysPass,
             IssuePurchaseCredential, PublishReview, RecordSupportDecision,
             RequestSupport, AuthorizeEvidenceBridge, domain
    <3>2. e = k
      BY <2>3, <3>1 DEF OpenCase, OpenRegulatoryCase, Rows, DomainTypeOK
    <3>3. domainRegulatory'[k]
            = [claimant |-> credential[n].holder, purchase |-> n]
      BY <3>1, <3>2 DEF OpenCase, OpenRegulatoryCase, DomainTypeOK
    <3>4. UNCHANGED credential /\ n \in Rows(credential, NoCredential)
      BY <3>1 DEF OpenCase, Rows
    <3> QED
      BY <3>3, <3>4 DEF Rows
  <2> QED
    BY <2>2, <2>3
<1> QED
  BY <1>1, <1>2

-----------------------------------------------------------------------------
(* Evidence bridges. *)

(* Among numbers at most one is the earliest. *)
LEMMA EarliestIsOne ==
  ASSUME NEW S \in SUBSET Numbers, NEW a \in Earliest(S), NEW b \in Earliest(S)
  PROVE  a = b
BY NumbersAreNat DEF Earliest

LEMMA EarliestIsIn ==
  ASSUME NEW S, NEW a \in Earliest(S)
  PROVE  a \in S
BY DEF Earliest

(* What a bridge may disclose about a purchase that has a decided case: the *)
(* purchase, one case, one decision on that case, and reviews of it.       *)
LEMMA ExpectedRecordsAreOfOneCase ==
  ASSUME NEW n \in Numbers, EarliestDecisions(n) # {}
  PROVE  \E c \in CasesOf(n) : \E d \in DecisionsOf(c) :
           /\ {PurchaseId(n), CaseId(c), DecisionId(d)} \subseteq ExpectedRecords(n)
           /\ ExpectedRecords(n)
                \subseteq {PurchaseId(n), CaseId(c), DecisionId(d)}
                          \union {ReviewId(r) : r \in ReviewsOf(n)}
<1>1. PICK c \in Earliest(CasesOf(n)) : \E d \in Earliest(DecisionsOf(c)) : TRUE
  BY DEF EarliestDecisions
<1>2. PICK d \in Earliest(DecisionsOf(c)) : TRUE
  BY <1>1
<1>3. c \in CasesOf(n) /\ d \in DecisionsOf(c)
  BY <1>1, <1>2, EarliestIsIn
<1>4. \A e \in Earliest(CasesOf(n)) : e = c
  <2>1. CasesOf(n) \in SUBSET Numbers
    BY DEF CasesOf
  <2> QED
    BY <2>1, <1>1, EarliestIsOne
<1>5. \A e \in EarliestDecisions(n) : e = d
  <2>1. DecisionsOf(c) \in SUBSET Numbers
    BY DEF DecisionsOf
  <2>2. \A e \in EarliestDecisions(n) : e \in Earliest(DecisionsOf(c))
    BY <1>4 DEF EarliestDecisions
  <2> QED
    BY <2>1, <2>2, <1>2, EarliestIsOne
<1>6. d \in EarliestDecisions(n)
  BY <1>1, <1>2 DEF EarliestDecisions
<1>7. \A r \in Earliest(ReviewsOf(n)) : r \in ReviewsOf(n)
  BY EarliestIsIn
<1>8. {PurchaseId(n), CaseId(c), DecisionId(d)} \subseteq ExpectedRecords(n)
  BY <1>1, <1>6 DEF ExpectedRecords
<1>9. ExpectedRecords(n)
        \subseteq {PurchaseId(n), CaseId(c), DecisionId(d)}
                  \union {ReviewId(r) : r \in ReviewsOf(n)}
  BY <1>4, <1>5, <1>7 DEF ExpectedRecords
<1> QED
  BY <1>3, <1>8, <1>9

(* Later records do not take anything from a purchase's history. *)
LEMMA HistoryGrows ==
  ASSUME DomainTypeOK, Kept, NEW n \in Numbers
  PROVE  /\ ReviewsOf(n) \subseteq ReviewsOf(n)'
         /\ CasesOf(n) \subseteq CasesOf(n)'
         /\ \A c \in Numbers : DecisionsOf(c) \subseteq DecisionsOf(c)'
<1>1. n # 0 /\ \A c \in Numbers : c # 0
  BY NumbersAreNat
<1>2. ReviewsOf(n) \subseteq ReviewsOf(n)'
  BY <1>1 DEF Kept, DecisionsAndBridgesKept, Rows, ReviewsOf
<1>3. CasesOf(n) \subseteq CasesOf(n)'
  BY <1>1 DEF Kept, DecisionsAndBridgesKept, Rows, CasesOf, NoDomainCase
<1>4. \A c \in Numbers : DecisionsOf(c) \subseteq DecisionsOf(c)'
  BY <1>1 DEF Kept, DecisionsAndBridgesKept, Rows, DecisionsOf, NoDecision
<1> QED
  BY <1>2, <1>3, <1>4

(* One decided case about purchase n, with reviews of it at most. *)
OneCaseAbout(n, records) ==
  \E c \in CasesOf(n) : \E d \in DecisionsOf(c) :
    /\ {PurchaseId(n), CaseId(c), DecisionId(d)} \subseteq records
    /\ records \subseteq {PurchaseId(n), CaseId(c), DecisionId(d)}
                         \union {ReviewId(r) : r \in ReviewsOf(n)}

LEMMA OneCaseStaysOneCase ==
  ASSUME DomainTypeOK, Kept, NEW n \in Numbers, NEW records,
         OneCaseAbout(n, records)
  PROVE  OneCaseAbout(n, records)'
<1>1. PICK c \in CasesOf(n) : \E d \in DecisionsOf(c) :
        /\ {PurchaseId(n), CaseId(c), DecisionId(d)} \subseteq records
        /\ records \subseteq {PurchaseId(n), CaseId(c), DecisionId(d)}
                             \union {ReviewId(r) : r \in ReviewsOf(n)}
  BY DEF OneCaseAbout
<1>2. PICK d \in DecisionsOf(c) :
        /\ {PurchaseId(n), CaseId(c), DecisionId(d)} \subseteq records
        /\ records \subseteq {PurchaseId(n), CaseId(c), DecisionId(d)}
                             \union {ReviewId(r) : r \in ReviewsOf(n)}
  BY <1>1
<1>3. c \in Numbers
  BY DEF CasesOf
<1>4. c \in CasesOf(n)' /\ d \in DecisionsOf(c)'
  BY <1>1, <1>2, <1>3, HistoryGrows
<1>5. records \subseteq {PurchaseId(n), CaseId(c), DecisionId(d)}
                       \union {ReviewId(r) : r \in ReviewsOf(n)'}
  BY <1>2, HistoryGrows
<1> QED
  BY <1>2, <1>4, <1>5 DEF OneCaseAbout, PurchaseId, CaseId, DecisionId, ReviewId

LEMMA BridgesStep ==
  ASSUME DomainTypeOK, RegulatoryCasesAreOfTheHolder, BridgesAreComplete, Careful
  PROVE  BridgesAreComplete'
<1>1. CASE Restart
  BY <1>1, NoRowsAfterRestart DEF BridgesAreComplete
<1>2. CASE ~Restart
  <2>1. Kept
    BY <1>2, RecordsAreKept
  <2> SUFFICES ASSUME NEW j \in Rows(bridge', NoBridge),
                      NEW k, k = bridge'[j].case,
                      NEW n, n = domainRegulatory'[k].purchase,
                      NEW records, records = bridge'[j].records
               PROVE  /\ k \in Rows(domainRegulatory', NoDomainRegulatory)
                      /\ n \in Rows(credential', NoCredential)
                      /\ bridge'[j].authorizer = credential'[n].holder
                      /\ OneCaseAbout(n, records)'
    BY DEF BridgesAreComplete, OneCaseAbout
  <2>2. CASE j \in Rows(bridge, NoBridge)
    <3>1. bridge'[j] = bridge[j]
      BY <2>1, <2>2 DEF Kept, DecisionsAndBridgesKept
    <3>2. k \in Rows(domainRegulatory, NoDomainRegulatory)
      BY <2>2, <3>1 DEF BridgesAreComplete
    <3>3. domainRegulatory'[k] = domainRegulatory[k]
      BY <2>1, <3>2 DEF Kept
    <3>4. /\ n \in Rows(credential, NoCredential)
          /\ bridge[j].authorizer = credential[n].holder
          /\ OneCaseAbout(n, records)
      BY <2>2, <3>1, <3>3 DEF BridgesAreComplete, OneCaseAbout
    <3>5. credential'[n] = credential[n] /\ n \in Numbers
      BY <2>1, <3>4 DEF Kept, DecisionsAndBridgesKept, Rows
    <3>6. OneCaseAbout(n, records)'
      BY <2>1, <3>4, <3>5, OneCaseStaysOneCase
    <3> QED
      BY <3>1, <3>2, <3>3, <3>4, <3>5, <3>6 DEF Rows
  <2>3. CASE j \notin Rows(bridge, NoBridge)
    <3>1. PICK i \in Numbers, key \in Numbers, recipient \in Users,
               disclosed \in SUBSET RecordIds :
            AuthorizeEvidenceBridge(i, key, recipient, disclosed)
      BY <1>2, <2>3
         DEF Rows, Careful, GrantAuthority, ThirtyDaysPass,
             IssuePurchaseCredential, PublishReview, OpenCase,
             RecordSupportDecision, RequestSupport, domain
    <3>2. i = j
      BY <2>3, <3>1
         DEF AuthorizeEvidenceBridge, StoreBridge, Rows, DomainTypeOK
    <3>3. bridge'[j] = [authorizer |-> domainRegulatory[key].claimant,
                        recipient |-> recipient, case |-> key,
                        records |-> disclosed]
      BY <3>1, <3>2 DEF AuthorizeEvidenceBridge, StoreBridge, DomainTypeOK
    <3>4. UNCHANGED <<credential, reviewOf, domainCase, decision,
                      domainRegulatory>>
      BY <3>1 DEF AuthorizeEvidenceBridge
    <3>5. /\ key = k /\ disclosed = records
          /\ k \in Rows(domainRegulatory, NoDomainRegulatory)
      BY <3>1, <3>3 DEF AuthorizeEvidenceBridge, Rows
    <3>6. /\ n \in Rows(credential, NoCredential)
          /\ domainRegulatory[k].claimant = credential[n].holder
      BY <3>4, <3>5 DEF RegulatoryCasesAreOfTheHolder
    <3>7. n \in Numbers
      BY <3>6 DEF Rows
    <3>8. EarliestDecisions(n) # {} /\ records = ExpectedRecords(n)
      BY <3>1, <3>4, <3>5 DEF AuthorizeEvidenceBridge, DomainAcceptsBridge
    <3>9. OneCaseAbout(n, records)
      BY <3>7, <3>8, ExpectedRecordsAreOfOneCase DEF OneCaseAbout
    <3>10. OneCaseAbout(n, records)'
      BY <3>4, <3>9 DEF OneCaseAbout, ReviewsOf, CasesOf, DecisionsOf
    <3> QED
      BY <3>3, <3>4, <3>5, <3>6, <3>10 DEF Rows
  <2> QED
    BY <2>2, <2>3
<1> QED
  BY <1>1, <1>2

-----------------------------------------------------------------------------
LEMMA EmptyRecordsAgree ==
  ASSUME Init
  PROVE  RecordsAgree
<1>1. 0 \in 0..MaxNumber
  BY MaxNumberAssumption
<1>2. DomainTypeOK
  BY <1>1 DEF Init, EmptyDomain, DomainTypeOK, Nothing, NoCredential,
              NoDomainCase, NoDecision, NoDomainRegulatory, NoBridge
<1>3. /\ Rows(reviewOf, 0) = {}
      /\ Rows(domainCase, NoDomainCase) = {}
      /\ Rows(decision, NoDecision) = {}
      /\ Rows(domainRegulatory, NoDomainRegulatory) = {}
      /\ Rows(bridge, NoBridge) = {}
      /\ actions = {}
  BY DEF Init, EmptyDomain, Nothing, Rows
<1>4. CommitmentsMatchRecords
  BY <1>3 DEF CommitmentsMatchRecords
<1> QED
  BY <1>2, <1>3, <1>4
     DEF RecordsAgree, OneReviewPerCredential, SupportStaysWithIssuer,
         DecisionsAreOfTheRecipient, RegulatoryCasesAreOfTheHolder,
         BridgesAreComplete

LEMMA EmptyAgain ==
  ASSUME Restart
  PROVE  RecordsAgree'
<1>1. 0 \in 0..MaxNumber
  BY MaxNumberAssumption
<1>2. /\ credential' = Nothing(NoCredential) /\ reviewOf' = Nothing(0)
      /\ issuers' = {} /\ late' = {} /\ actions' = {}
      /\ domainCase' = Nothing(NoDomainCase)
      /\ decision' = Nothing(NoDecision)
      /\ domainRegulatory' = Nothing(NoDomainRegulatory)
      /\ bridge' = Nothing(NoBridge)
  BY DEF Restart, ForgetDomain
<1>3. DomainTypeOK'
  BY <1>1, <1>2 DEF DomainTypeOK, Nothing, NoCredential, NoDomainCase,
                    NoDecision, NoDomainRegulatory, NoBridge
<1>4. CommitmentsMatchRecords'
  BY <1>2 DEF CommitmentsMatchRecords, Rows, Nothing
<1> QED
  BY <1>3, <1>4, NoRowsAfterRestart
     DEF RecordsAgree, OneReviewPerCredential, SupportStaysWithIssuer,
         DecisionsAreOfTheRecipient, RegulatoryCasesAreOfTheHolder,
         BridgesAreComplete

LEMMA RecordsStutter ==
  ASSUME RecordsAgree, UNCHANGED systemVars
  PROVE  RecordsAgree'
<1>1. UNCHANGED <<issuers, late, credential, reviewOf, domainCase, decision,
                  domainRegulatory, bridge, actions>>
  BY DEF systemVars, domainVars, domain
<1> QED
  BY <1>1
     DEF RecordsAgree, DomainTypeOK, CommitmentsMatchRecords,
         OneReviewPerCredential, SupportStaysWithIssuer,
         DecisionsAreOfTheRecipient, RegulatoryCasesAreOfTheHolder,
         BridgesAreComplete, Rows, CasesOf, DecisionsOf, ReviewsOf

-----------------------------------------------------------------------------
(* As long as new ids come in their normal form, whoever uses the domain   *)
(* system and in whatever order: every commitment is that of a record, a   *)
(* credential has one review, support stays with the issuer, a decision is *)
(* the recipient's, and a bridge discloses one purchase of its authorizer  *)
(* together with its decided case.                                         *)
THEOREM DomainRecordsAgree == Spec => []CarefulRecordsAgree
<1>1. Init => CarefulRecordsAgree
  BY EmptyRecordsAgree DEF CarefulRecordsAgree
<1>2. CarefulRecordsAgree /\ [Next]_systemVars => CarefulRecordsAgree'
  <2> SUFFICES ASSUME CarefulRecordsAgree, [Next]_systemVars, ~careless'
               PROVE  RecordsAgree'
    BY DEF CarefulRecordsAgree
  <2>1. CASE Careful /\ ~Restart
    <3>1. careless' = careless
      BY <2>1
         DEF Careful, GrantAuthority, ThirtyDaysPass, IssuePurchaseCredential,
             PublishReview, RequestSupport, OpenCase, RecordSupportDecision,
             AuthorizeEvidenceBridge
    <3>2. RecordsAgree
      BY <3>1 DEF CarefulRecordsAgree
    <3> QED
      BY <2>1, <3>2, TypeStep, CommitmentsStep, OneReviewStep, SupportStep,
         DecisionsStep, RegulatoryStep, BridgesStep DEF RecordsAgree
  <2>2. CASE Restart
    BY <2>2, EmptyAgain
  <2>3. CASE UNCHANGED systemVars
    BY <2>3, RecordsStutter DEF CarefulRecordsAgree, systemVars
  <2> QED
    BY <2>1, <2>2, <2>3 DEF Next, Careless
<1> QED
  BY <1>1, <1>2, PTL DEF Spec

-----------------------------------------------------------------------------
(* Whatever form the ids come in. *)
MapsOfNumbers ==
  /\ DOMAIN reviewOf = Numbers /\ DOMAIN domainCase = Numbers
  /\ DOMAIN decision = Numbers /\ DOMAIN bridge = Numbers

LEMMA MapsStay ==
  ASSUME MapsOfNumbers, [Next]_systemVars
  PROVE  MapsOfNumbers'
<1> USE DEF MapsOfNumbers
<1>1. CASE Careful
  BY <1>1
     DEF Careful, GrantAuthority, ThirtyDaysPass, IssuePurchaseCredential,
         PublishReview, StoreReview, RequestSupport, StoreSupportCase,
         OpenCase, RecordSupportDecision, StoreDecision,
         AuthorizeEvidenceBridge, StoreBridge, Restart, ForgetDomain, Nothing,
         domain
<1>2. CASE Careless
  BY <1>2
     DEF Careless, GrantReplaced, CredentialPadded, ReviewPadded,
         SupportPadded, BlankRefused, OpenCasePadded, domain
<1>3. CASE UNCHANGED systemVars
  BY <1>3 DEF systemVars, domainVars, domain
<1> QED
  BY <1>1, <1>2, <1>3 DEF Next

LEMMA MapsAreMaps == Spec => []MapsOfNumbers
<1>1. Init => MapsOfNumbers
  BY DEF Init, EmptyDomain, Nothing, MapsOfNumbers
<1>2. MapsOfNumbers /\ [Next]_systemVars => MapsOfNumbers'
  BY MapsStay
<1> QED
  BY <1>1, <1>2, PTL DEF Spec

LEMMA SignedRecordsStay ==
  ASSUME MapsOfNumbers, Next, ~Restart
  PROVE  DecisionsAndBridgesKept
<1> USE DEF MapsOfNumbers, DecisionsAndBridgesKept, Rows, RecordAction
<1>1. CASE Careful
  <2>1. CASE UNCHANGED <<decision, bridge>> /\ actions \subseteq actions'
    BY <2>1
  <2>2. ASSUME NEW d \in Numbers, NEW c \in Numbers, NEW issuer \in Users,
               NEW outcome \in Outcomes,
               RecordSupportDecision(d, c, issuer, outcome)
        PROVE  DecisionsAndBridgesKept
    BY <2>2 DEF RecordSupportDecision, StoreDecision
  <2>3. ASSUME NEW j \in Numbers, NEW k \in Numbers, NEW recipient \in Users,
               NEW records \in SUBSET RecordIds,
               AuthorizeEvidenceBridge(j, k, recipient, records)
        PROVE  DecisionsAndBridgesKept
    BY <2>3 DEF AuthorizeEvidenceBridge, StoreBridge
  <2> HIDE DEF DecisionsAndBridgesKept
  <2> QED
    BY <1>1, <2>1, <2>2, <2>3
       DEF Careful, GrantAuthority, ThirtyDaysPass, IssuePurchaseCredential,
           PublishReview, StoreReview, RequestSupport, StoreSupportCase,
           OpenCase, domain
<1>2. CASE Careless
  <2>1. UNCHANGED <<decision, bridge>> /\ actions \subseteq actions'
    BY <1>2
       DEF Careless, GrantReplaced, CredentialPadded, ReviewPadded,
           SupportPadded, BlankRefused, OpenCasePadded, domain
  <2> QED
    BY <2>1
<1> QED
  BY <1>1, <1>2 DEF Next

(* Decisions, bridges and commitments are what they were until the process *)
(* ends, whatever the callers do and whatever form their ids come in; and  *)
(* so is every record, as long as new ids come in their normal form: no    *)
(* call of anybody replaces or removes it.                                 *)
THEOREM DomainRecordsStay == Spec => RecordsStay
<1>1. MapsOfNumbers /\ [Next]_systemVars =>
        [Restart \/ DecisionsAndBridgesKept]_systemVars
  BY SignedRecordsStay
<1>2. CarefulRecordsAgree /\ [Next]_systemVars =>
        [Restart \/ careless' \/ Kept]_systemVars
  <2> SUFFICES ASSUME CarefulRecordsAgree, Next, ~Restart, ~careless'
               PROVE  Kept
    OBVIOUS
  <2>1. Careful
    BY DEF Next, Careless
  <2>2. careless' = careless
    BY <2>1
       DEF Careful, GrantAuthority, ThirtyDaysPass, IssuePurchaseCredential,
           PublishReview, RequestSupport, OpenCase, RecordSupportDecision,
           AuthorizeEvidenceBridge
  <2> QED
    BY <2>1, <2>2, RecordsAreKept DEF CarefulRecordsAgree, RecordsAgree
<1>3. MapsOfNumbers /\ CarefulRecordsAgree /\ [Next]_systemVars =>
        [Restart \/ (DecisionsAndBridgesKept /\ (careless' \/ Kept))]_systemVars
  BY <1>1, <1>2
<1> QED
  BY <1>3, MapsAreMaps, DomainRecordsAgree, PTL DEF Spec, RecordsStay

(* Each kind of record with its commitments. *)
LEMMA CommittedStep ==
  ASSUME MapsOfNumbers, RecordsAreCommitted, Next, ~Restart
  PROVE  RecordsAreCommitted'
<1>1. DecisionsAndBridgesKept
  BY SignedRecordsStay
<1>2. \A r \in Numbers : reviewOf'[r] # reviewOf[r] =>
        {ReviewId(r), Padded(ReviewId(r))} \intersect actions' # {}
  BY DEF MapsOfNumbers, Next, Careful, Careless, GrantAuthority, ThirtyDaysPass,
         IssuePurchaseCredential, PublishReview, StoreReview, RequestSupport,
         OpenCase, RecordSupportDecision, AuthorizeEvidenceBridge,
         GrantReplaced, CredentialPadded, ReviewPadded, SupportPadded,
         BlankRefused, OpenCasePadded, domain, RecordAction
<1>3. \A c \in Numbers : domainCase'[c] # domainCase[c] =>
        {CaseId(c), Padded(CaseId(c))} \intersect actions' # {}
  BY DEF MapsOfNumbers, Next, Careful, Careless, GrantAuthority, ThirtyDaysPass,
         IssuePurchaseCredential, PublishReview, RequestSupport,
         StoreSupportCase, OpenCase, RecordSupportDecision,
         AuthorizeEvidenceBridge, GrantReplaced, CredentialPadded,
         ReviewPadded, SupportPadded, BlankRefused, OpenCasePadded, domain,
         RecordAction
<1>4. \A d \in Numbers : decision'[d] # decision[d] => DecisionId(d) \in actions'
  BY DEF MapsOfNumbers, Next, Careful, Careless, GrantAuthority, ThirtyDaysPass,
         IssuePurchaseCredential, PublishReview, RequestSupport, OpenCase,
         RecordSupportDecision, StoreDecision, AuthorizeEvidenceBridge,
         GrantReplaced, CredentialPadded, ReviewPadded, SupportPadded,
         BlankRefused, OpenCasePadded, domain, RecordAction
<1>5. \A j \in Numbers : bridge'[j] # bridge[j] => BridgeId(j) \in actions'
  BY DEF MapsOfNumbers, Next, Careful, Careless, GrantAuthority, ThirtyDaysPass,
         IssuePurchaseCredential, PublishReview, RequestSupport, OpenCase,
         RecordSupportDecision, AuthorizeEvidenceBridge, StoreBridge,
         GrantReplaced, CredentialPadded, ReviewPadded, SupportPadded,
         BlankRefused, OpenCasePadded, domain, RecordAction
<1>6. /\ \A r \in Rows(reviewOf, 0) :
           {ReviewId(r), Padded(ReviewId(r))} \intersect actions' # {}
      /\ \A c \in Rows(domainCase, NoDomainCase) :
           {CaseId(c), Padded(CaseId(c))} \intersect actions' # {}
      /\ \A d \in Rows(decision, NoDecision) : DecisionId(d) \in actions'
      /\ \A j \in Rows(bridge, NoBridge) : BridgeId(j) \in actions'
  BY <1>1 DEF RecordsAreCommitted, DecisionsAndBridgesKept
<1> QED
  BY <1>2, <1>3, <1>4, <1>5, <1>6
     DEF RecordsAreCommitted, Rows, ReviewId, CaseId, DecisionId, BridgeId, Padded

(* No record goes without a commitment, whatever the callers do and        *)
(* whatever form their ids come in; and by DomainRecordsAgree there is no  *)
(* commitment without its record, as long as the ids come in normal form.  *)
THEOREM DomainRecordsAreCommitted == Spec => []RecordsAreCommitted
<1>1. Init => RecordsAreCommitted
  BY DEF Init, EmptyDomain, Nothing, Rows, RecordsAreCommitted
<1>2. MapsOfNumbers /\ RecordsAreCommitted /\ [Next]_systemVars
        => RecordsAreCommitted'
  <2> SUFFICES ASSUME MapsOfNumbers, RecordsAreCommitted, [Next]_systemVars
               PROVE  RecordsAreCommitted'
    OBVIOUS
  <2>1. CASE Next /\ ~Restart
    BY <2>1, CommittedStep
  <2>2. CASE Restart
    BY <2>2, NoRowsAfterRestart DEF RecordsAreCommitted
  <2>3. CASE UNCHANGED systemVars
    BY <2>3 DEF systemVars, domainVars, domain, RecordsAreCommitted, Rows
  <2> QED
    BY <2>1, <2>2, <2>3
<1> QED
  BY <1>1, <1>2, MapsAreMaps, PTL DEF Spec
=============================================================================
