------------------------ MODULE CaseLifecycle_proofs ------------------------
(***************************************************************************)
(* Proofs about CaseLifecycle, for every set of accounts and regulators    *)
(* and every bound on the numbers: the maps of the platform and of the     *)
(* domain system agree, an escalation is never refused half way, and the   *)
(* two together implement PurchaseJourney.                                 *)
(***************************************************************************)
EXTENDS CaseLifecycle, TLAPS

USE MaxNumberAssumption, NoUserAssumption, CreatorAssumption,
    RegulatorsAssumption

(* A number is new if its sequence has not drawn it yet. *)
NextPurchase == sequence.purchase + 1
NextReview == sequence.review + 1
NextCase == sequence.support + 1
NextRegulatory == sequence.regulatory + 1

LEMMA NumbersAreNat == /\ Numbers \subseteq Nat \ {0}
                       /\ Numbers \subseteq 0..MaxNumber
                       /\ 0 \in 0..MaxNumber
BY DEF Numbers

LEMMA NotZero == \A n \in Numbers : n # 0
BY NumbersAreNat

(* Calls that are refused after a number was drawn. *)
Refused ==
  \E n \in Numbers :
    \/ PublishEmptyReview(n)
    \/ \E h \in Users : RequestSupportRefused(n, h)

(* Steps that change who may do what, and no record. *)
Quiet ==
  \/ \E u \in Users : Authorizing(u)
  \/ \E n \in Numbers : ThirtyDaysPass(n)

LEMMA QuietKeeps ==
  ASSUME Quiet \/ Refused
  PROVE  UNCHANGED <<purchase, supportCase, regulatoryCase, domain>>
BY DEF Quiet, Refused, Authorizing, AuthorizeSeller, AuthorizeHandler,
       HandlerLosesAuthority, ThirtyDaysPass, PublishEmptyReview,
       RequestSupportRefused, platform

(* The cases of a step. *)
LEMMA NextCases ==
  ASSUME Next
  PROVE  \/ Quiet \/ Refused \/ Crash
         \/ \E s, b \in Users : RecordPurchase(s, b)
         \/ \E n \in Numbers : PublishReview(n)
         \/ \E n \in Numbers, h \in Users : RequestSupport(n, h)
         \/ \E c \in Numbers, outcome \in Outcomes : DecideSupport(c, outcome)
         \/ \E n \in Numbers, r \in Users : Escalate(n, r)
         \/ \E k \in Numbers : VerifyCase(k)
BY DEF Next, Quiet, Refused, Buying, Reviewing, Supporting, Deciding,
       Escalating

(* A sequence that draws its next number. *)
Sequences == [purchase : 0..MaxNumber, review : 0..MaxNumber,
              support : 0..MaxNumber, regulatory : 0..MaxNumber]

LEMMA Drawn ==
  ASSUME TypeOK
  PROVE  /\ \A m \in Numbers :
              /\ [sequence EXCEPT !.purchase = m] \in Sequences
              /\ [sequence EXCEPT !.review = m] \in Sequences
              /\ [sequence EXCEPT !.support = m] \in Sequences
              /\ [sequence EXCEPT !.regulatory = m] \in Sequences
         /\ sequence.review < MaxNumber => NextReview \in Numbers
         /\ sequence.support < MaxNumber => NextCase \in Numbers
         /\ sequence.regulatory < MaxNumber => NextRegulatory \in Numbers
<1>1. sequence \in Sequences
  BY DEF TypeOK, PlatformTypeOK, Sequences
<1>2. \A m \in Numbers :
        /\ [sequence EXCEPT !.purchase = m] \in Sequences
        /\ [sequence EXCEPT !.review = m] \in Sequences
        /\ [sequence EXCEPT !.support = m] \in Sequences
        /\ [sequence EXCEPT !.regulatory = m] \in Sequences
  BY <1>1, NumbersAreNat DEF Sequences
<1>3. /\ sequence.review \in 0..MaxNumber
      /\ sequence.support \in 0..MaxNumber
      /\ sequence.regulatory \in 0..MaxNumber
  BY <1>1 DEF Sequences
<1>4. /\ sequence.review < MaxNumber => NextReview \in Numbers
      /\ sequence.support < MaxNumber => NextCase \in Numbers
      /\ sequence.regulatory < MaxNumber => NextRegulatory \in Numbers
  BY <1>3 DEF NextReview, NextCase, NextRegulatory, Numbers
<1> QED
  BY <1>2, <1>4

(* A new number has no row in any of the maps. *)
LEMMA NewNumbers ==
  ASSUME TypeOK
  PROVE  /\ NextPurchase \in Numbers =>
              /\ purchase[NextPurchase] = NoPurchase
              /\ credential[NextPurchase] = NoCredential
         /\ NextReview \in Numbers => reviewOf[NextReview] = 0
         /\ NextCase \in Numbers =>
              /\ supportCase[NextCase] = NoSupportCase
              /\ domainCase[NextCase] = NoDomainCase
         /\ NextRegulatory \in Numbers =>
              /\ regulatoryCase[NextRegulatory] = NoRegulatoryCase
              /\ domainRegulatory[NextRegulatory] = NoDomainRegulatory
<1>1. /\ sequence.purchase \in Nat /\ sequence.review \in Nat
      /\ sequence.support \in Nat /\ sequence.regulatory \in Nat
  BY DEF TypeOK, PlatformTypeOK
<1>2. /\ NextPurchase \notin 1..sequence.purchase
      /\ NextReview \notin 1..sequence.review
      /\ NextCase \notin 1..sequence.support
      /\ NextRegulatory \notin 1..sequence.regulatory
  BY <1>1 DEF NextPurchase, NextReview, NextCase, NextRegulatory
<1> QED
  BY <1>2 DEF TypeOK, NumbersAreDrawn, Rows

-----------------------------------------------------------------------------
(* Types. *)
Users0 == Users \union {NoUser}

Purchases == [buyer : Users0, issuer : Users0, review : 0..MaxNumber,
              support : 0..MaxNumber, regulatory : 0..MaxNumber]
SupportCases == [buyer : Users0, merchant : Users0, purchase : 0..MaxNumber,
                 outcome : Outcomes \union {"pending"}]
RegulatoryCases == [buyer : Users0, recipient : Users0,
                    purchase : 0..MaxNumber, records : SUBSET RecordIds,
                    verified : BOOLEAN, reviewIntegrity : BOOLEAN]

(* The same, in parts that are easier to cite. *)
LEMMA Types ==
  TypeOK <=>
    /\ handlers \subseteq Users /\ issuers \subseteq Users
    /\ late \subseteq Numbers
    /\ sequence \in Sequences
    /\ purchase \in [Numbers -> Purchases]
    /\ supportCase \in [Numbers -> SupportCases]
    /\ regulatoryCase \in [Numbers -> RegulatoryCases]
    /\ credential \in [Numbers -> [holder : Users0, issuer : Users0]]
    /\ reviewOf \in [Numbers -> 0..MaxNumber]
    /\ domainCase \in [Numbers -> [claimant : Users0, recipient : Users0,
                                   purchase : 0..MaxNumber]]
    /\ decision \in [Numbers -> [issuer : Users0, case : 0..MaxNumber,
                                 outcome : Outcomes \union {"none"}]]
    /\ domainRegulatory \in [Numbers -> [claimant : Users0,
                                         purchase : 0..MaxNumber]]
    /\ bridge \in [Numbers -> [authorizer : Users0, recipient : Users0,
                               case : 0..MaxNumber,
                               records : SUBSET RecordIds]]
    /\ actions \subseteq ActionIds
    /\ NumbersAreDrawn
BY DEF TypeOK, PlatformTypeOK, DomainTypeOK, Users0, Purchases, SupportCases,
       RegulatoryCases, Sequences

(* The records that an escalation discloses are records. *)
LEMMA EvidenceIsRecords ==
  ASSUME NEW n \in Numbers, TypeOK, purchase[n].support # 0
  PROVE  EvidenceOf(n) \in SUBSET RecordIds
<1>1. purchase[n] \in Purchases
  BY DEF TypeOK, PlatformTypeOK, Purchases, Users0
<1>2. purchase[n].support \in Numbers
  BY <1>1 DEF Purchases, Numbers
<1>3. \A r \in {purchase[n].review} \ {0} : r \in Numbers
  BY <1>1 DEF Purchases, Numbers
<1> QED
  BY <1>2, <1>3 DEF EvidenceOf, PurchaseId, CaseId, DecisionId, ReviewId,
                    RecordIds

(* Drawing numbers does not undo that rows have drawn numbers. *)
LEMMA DrawnStays ==
  ASSUME TypeOK,
         sequence' \in Sequences,
         sequence.purchase <= sequence'.purchase,
         sequence.review <= sequence'.review,
         sequence.support <= sequence'.support,
         sequence.regulatory <= sequence'.regulatory
  PROVE  /\ 1..sequence.purchase \subseteq 1..sequence'.purchase
         /\ 1..sequence.review \subseteq 1..sequence'.review
         /\ 1..sequence.support \subseteq 1..sequence'.support
         /\ 1..sequence.regulatory \subseteq 1..sequence'.regulatory
<1>1. sequence \in Sequences
  BY Types
<1> QED
  BY <1>1 DEF Sequences

LEMMA TypeStep ==
  ASSUME TypeOK, Next
  PROVE  TypeOK'
<1> USE NumbersAreNat
<1>1. CASE Quiet
  <2>1. /\ UNCHANGED <<purchase, supportCase, regulatoryCase, domain>>
        /\ UNCHANGED sequence
        /\ handlers' \subseteq Users /\ issuers' \subseteq Users
        /\ late' \subseteq Numbers
    BY <1>1, Types
       DEF Quiet, Authorizing, AuthorizeSeller, AuthorizeHandler,
           HandlerLosesAuthority, ThirtyDaysPass, platform, authority
  <2> QED
    BY <2>1 DEF TypeOK, PlatformTypeOK, DomainTypeOK, NumbersAreDrawn, domain,
                Rows
<1>2. CASE Refused
  <2>1. /\ UNCHANGED <<purchase, supportCase, regulatoryCase, domain>>
        /\ UNCHANGED <<authority, late>>
    BY <1>2 DEF Refused, PublishEmptyReview, RequestSupportRefused
  <2>2. \/ /\ sequence.review < MaxNumber
           /\ sequence' = [sequence EXCEPT !.review = NextReview]
        \/ /\ sequence.support < MaxNumber
           /\ sequence' = [sequence EXCEPT !.support = NextCase]
    BY <1>2 DEF Refused, PublishEmptyReview, RequestSupportRefused, MayReview,
                MayRequestSupport, NextReview, NextCase
  <2>3. sequence' \in Sequences /\ sequence \in Sequences
    BY <2>2, Drawn, Types
  <2>4. /\ sequence.purchase <= sequence'.purchase
        /\ sequence.review <= sequence'.review
        /\ sequence.support <= sequence'.support
        /\ sequence.regulatory <= sequence'.regulatory
    BY <2>2, <2>3 DEF Sequences, NextReview, NextCase
  <2>5. NumbersAreDrawn'
    BY <2>1, <2>3, <2>4, DrawnStays DEF TypeOK, NumbersAreDrawn, domain, Rows
  <2> QED
    BY <2>1, <2>3, <2>5 DEF TypeOK, PlatformTypeOK, DomainTypeOK, domain,
                            authority, Sequences
<1>3. CASE Crash
  <2>1. /\ sequence' = NothingDrawn /\ late' = {} /\ actions' = {}
        /\ UNCHANGED <<issuers, handlers>>
        /\ purchase' = Nothing(NoPurchase)
        /\ supportCase' = Nothing(NoSupportCase)
        /\ regulatoryCase' = Nothing(NoRegulatoryCase)
        /\ credential' = Nothing(NoCredential) /\ reviewOf' = Nothing(0)
        /\ domainCase' = Nothing(NoDomainCase)
        /\ decision' = Nothing(NoDecision)
        /\ domainRegulatory' = Nothing(NoDomainRegulatory)
        /\ bridge' = Nothing(NoBridge)
    BY <1>3 DEF Crash, ForgetDomain, authority
  <2>2. NumbersAreDrawn'
    BY <2>1 DEF NumbersAreDrawn, Rows, Nothing
  <2>3. PlatformTypeOK'
    BY <2>1, Types
       DEF PlatformTypeOK, NothingDrawn, Nothing, NoPurchase, NoSupportCase,
           NoRegulatoryCase
  <2>4. DomainTypeOK'
    BY <2>1, Types
       DEF DomainTypeOK, Nothing, NoCredential, NoDomainCase, NoDecision,
           NoDomainRegulatory, NoBridge
  <2> QED
    BY <2>2, <2>3, <2>4 DEF TypeOK
<1>4. ASSUME NEW s \in Users, NEW b \in Users, RecordPurchase(s, b)
      PROVE  TypeOK'
  <2> DEFINE n == NextPurchase
             row == [NoPurchase EXCEPT !.buyer = b, !.issuer = s]
  <2>1. /\ n \in Numbers
        /\ sequence' = [sequence EXCEPT !.purchase = n]
        /\ purchase' = [purchase EXCEPT ![n] = row]
        /\ credential' = [credential EXCEPT
                            ![n] = [holder |-> b, issuer |-> s]]
        /\ UNCHANGED <<authority, late, supportCase, regulatoryCase, reviewOf,
                       domainCase, decision, domainRegulatory, bridge, actions>>
    BY <1>4 DEF RecordPurchase, IssueCredential, NextPurchase
  <2>2. sequence' \in Sequences /\ sequence \in Sequences
    BY <2>1, Drawn, Types
  <2>3. row \in Purchases
    BY DEF Purchases, NoPurchase, Users0
  <2> HIDE DEF row
  <2>4. sequence'.purchase = sequence.purchase + 1
        /\ sequence'.review = sequence.review
        /\ sequence'.support = sequence.support
        /\ sequence'.regulatory = sequence.regulatory
    BY <2>1, <2>2 DEF Sequences, NextPurchase
  <2>5. n \in 1..sequence'.purchase
    BY <2>2, <2>4 DEF NextPurchase, Sequences
  <2> HIDE DEF n
  <2>6. NumbersAreDrawn'
    BY <2>1, <2>2, <2>4, <2>5, DrawnStays, Types
       DEF NumbersAreDrawn, Rows, Sequences
  <2>7. /\ purchase' \in [Numbers -> Purchases]
        /\ credential' \in [Numbers -> [holder : Users0, issuer : Users0]]
    BY <2>1, <2>3, Types DEF Users0
  <2> QED
    BY <2>1, <2>2, <2>6, <2>7, Types
       DEF TypeOK, PlatformTypeOK, DomainTypeOK, authority, Sequences,
           Purchases, Users0
<1>5. ASSUME NEW n \in Numbers, PublishReview(n)
      PROVE  TypeOK'
  <2> DEFINE r == NextReview
  <2>1. /\ sequence.review < MaxNumber
        /\ sequence' = [sequence EXCEPT !.review = r]
        /\ purchase[n] # NoPurchase
        /\ purchase' = [purchase EXCEPT ![n].review = r]
        /\ reviewOf' = [reviewOf EXCEPT ![r] = n]
        /\ actions' = actions \union {ReviewId(r)}
        /\ UNCHANGED <<authority, late, supportCase, regulatoryCase,
                       credential, domainCase, decision, domainRegulatory,
                       bridge>>
    BY <1>5 DEF PublishReview, StoreReview, RecordAction, MayReview, NextReview
  <2>2. sequence' \in Sequences /\ sequence \in Sequences /\ r \in Numbers
    BY <2>1, Drawn, Types
  <2>3. sequence'.purchase = sequence.purchase
        /\ sequence'.review = sequence.review + 1
        /\ sequence'.support = sequence.support
        /\ sequence'.regulatory = sequence.regulatory
    BY <2>1, <2>2 DEF Sequences, NextReview
  <2>4. r \in 1..sequence'.review
    BY <2>2, <2>3 DEF NextReview, Sequences
  <2> HIDE DEF r
  <2>5. /\ purchase' \in [Numbers -> Purchases]
        /\ reviewOf' \in [Numbers -> 0..MaxNumber]
        /\ actions' \subseteq ActionIds
    <3>1. purchase[n] \in Purchases
      BY Types
    <3>2. [purchase[n] EXCEPT !.review = r] \in Purchases
      BY <2>2, <3>1 DEF Purchases
    <3>3. purchase' \in [Numbers -> Purchases]
      BY <2>1, <3>2, Types
    <3>4. reviewOf' \in [Numbers -> 0..MaxNumber]
      BY <2>1, Types
    <3>5. actions' \subseteq ActionIds
      BY <2>1, <2>2, Types DEF ReviewId, ActionIds
    <3> QED
      BY <3>3, <3>4, <3>5
  <2>6. NumbersAreDrawn'
    BY <2>1, <2>2, <2>3, <2>4, DrawnStays, Types
       DEF NumbersAreDrawn, Rows, Sequences
  <2> QED
    BY <2>1, <2>2, <2>5, <2>6, Types
       DEF TypeOK, PlatformTypeOK, DomainTypeOK, authority, Sequences,
           Purchases, Users0
<1>6. ASSUME NEW n \in Numbers, NEW h \in Users, RequestSupport(n, h)
      PROVE  TypeOK'
  <2> DEFINE c == NextCase
             row == [buyer |-> purchase[n].buyer, merchant |-> h,
                     purchase |-> n, outcome |-> "pending"]
             domainRow == [claimant |-> credential[n].holder, recipient |-> h,
                           purchase |-> n]
  <2>1. /\ sequence.support < MaxNumber
        /\ sequence' = [sequence EXCEPT !.support = c]
        /\ purchase[n] # NoPurchase
        /\ purchase' = [purchase EXCEPT ![n].support = c]
        /\ supportCase' = [supportCase EXCEPT ![c] = row]
        /\ domainCase' = [domainCase EXCEPT ![c] = domainRow]
        /\ actions' = actions \union {CaseId(c)}
        /\ UNCHANGED <<authority, late, regulatoryCase, credential, reviewOf,
                       decision, domainRegulatory, bridge>>
    BY <1>6 DEF RequestSupport, StoreSupportCase, RecordAction,
                MayRequestSupport, NextCase
  <2>2. sequence' \in Sequences /\ sequence \in Sequences /\ c \in Numbers
    BY <2>1, Drawn, Types
  <2>3. sequence'.purchase = sequence.purchase
        /\ sequence'.review = sequence.review
        /\ sequence'.support = sequence.support + 1
        /\ sequence'.regulatory = sequence.regulatory
    BY <2>1, <2>2 DEF Sequences, NextCase
  <2>4. c \in 1..sequence'.support
    BY <2>2, <2>3 DEF NextCase, Sequences
  <2>5. /\ row \in SupportCases
        /\ domainRow \in [claimant : Users0, recipient : Users0,
                          purchase : 0..MaxNumber]
    BY Types DEF Purchases, SupportCases, Users0
  <2> HIDE DEF c, row, domainRow
  <2>6. /\ purchase' \in [Numbers -> Purchases]
        /\ supportCase' \in [Numbers -> SupportCases]
        /\ domainCase' \in [Numbers -> [claimant : Users0, recipient : Users0,
                                        purchase : 0..MaxNumber]]
        /\ actions' \subseteq ActionIds
    <3>1. purchase[n] \in Purchases
      BY Types
    <3>2. [purchase[n] EXCEPT !.support = c] \in Purchases
      BY <2>2, <3>1 DEF Purchases
    <3>3. purchase' \in [Numbers -> Purchases]
      BY <2>1, <3>2, Types
    <3>4. /\ supportCase' \in [Numbers -> SupportCases]
          /\ domainCase' \in [Numbers -> [claimant : Users0,
                                          recipient : Users0,
                                          purchase : 0..MaxNumber]]
      BY <2>1, <2>5, Types
    <3>5. actions' \subseteq ActionIds
      BY <2>1, <2>2, Types DEF CaseId, ActionIds
    <3> QED
      BY <3>3, <3>4, <3>5
  <2>7. NumbersAreDrawn'
    BY <2>1, <2>2, <2>3, <2>4, DrawnStays, Types
       DEF NumbersAreDrawn, Rows, Sequences
  <2> QED
    BY <2>1, <2>2, <2>6, <2>7, Types
       DEF TypeOK, PlatformTypeOK, DomainTypeOK, authority, Sequences,
           Purchases, SupportCases, Users0
<1>7. ASSUME NEW c \in Numbers, NEW outcome \in Outcomes,
             DecideSupport(c, outcome)
      PROVE  TypeOK'
  <2> DEFINE row == [issuer |-> supportCase[c].merchant, case |-> c,
                     outcome |-> outcome]
  <2>1. /\ supportCase[c] # NoSupportCase
        /\ supportCase' = [supportCase EXCEPT ![c].outcome = outcome]
        /\ decision' = [decision EXCEPT ![c] = row]
        /\ actions' = actions \union {DecisionId(c)}
        /\ UNCHANGED <<authority, late, sequence, purchase, regulatoryCase,
                       credential, reviewOf, domainCase, domainRegulatory,
                       bridge>>
    BY <1>7 DEF DecideSupport, StoreDecision, RecordAction, MayDecide
  <2>2. supportCase[c] \in SupportCases
    BY Types
  <2>3. /\ [supportCase[c] EXCEPT !.outcome = outcome] \in SupportCases
        /\ row \in [issuer : Users0, case : 0..MaxNumber,
                    outcome : Outcomes \union {"none"}]
    BY <2>2 DEF SupportCases
  <2> HIDE DEF row
  <2>4. /\ supportCase' \in [Numbers -> SupportCases]
        /\ decision' \in [Numbers -> [issuer : Users0, case : 0..MaxNumber,
                                      outcome : Outcomes \union {"none"}]]
    BY <2>1, <2>3, Types
  <2>5. actions' \subseteq ActionIds
    BY <2>1, Types DEF DecisionId, ActionIds
  <2>6. NumbersAreDrawn'
    BY <2>1, Types DEF NumbersAreDrawn, Rows
  <2> QED
    BY <2>1, <2>4, <2>5, <2>6, Types
       DEF TypeOK, PlatformTypeOK, DomainTypeOK, authority, Sequences,
           SupportCases, Purchases, Users0
<1>8. ASSUME NEW n \in Numbers, NEW r \in Users, Escalate(n, r)
      PROVE  TypeOK'
  <2> DEFINE k == NextRegulatory
             b == purchase[n].buyer
             row == [NoRegulatoryCase EXCEPT
                       !.buyer = b, !.recipient = r, !.purchase = n,
                       !.records = EvidenceOf(n)]
             domainRow == [claimant |-> credential[n].holder, purchase |-> n]
             bridgeRow == [authorizer |-> b, recipient |-> r, case |-> k,
                           records |-> EvidenceOf(n)]
  <2>1. /\ sequence.regulatory < MaxNumber
        /\ purchase[n] # NoPurchase /\ purchase[n].support # 0
        /\ sequence' = [sequence EXCEPT !.regulatory = k]
        /\ domainRegulatory' = [domainRegulatory EXCEPT ![k] = domainRow]
        /\ \/ /\ bridge' = [bridge EXCEPT ![k] = bridgeRow]
              /\ actions' = actions \union {BridgeId(k)}
              /\ purchase' = [purchase EXCEPT ![n].regulatory = k]
              /\ regulatoryCase' = [regulatoryCase EXCEPT ![k] = row]
           \/ UNCHANGED <<bridge, actions, purchase, regulatoryCase>>
        /\ UNCHANGED <<authority, late, supportCase, credential, reviewOf,
                       domainCase, decision>>
    BY <1>8 DEF Escalate, StoreBridge, RecordAction, OpenRegulatoryCase,
                MayEscalate, NextRegulatory
  <2>2. sequence' \in Sequences /\ sequence \in Sequences /\ k \in Numbers
    BY <2>1, Drawn, Types
  <2>3. sequence'.purchase = sequence.purchase
        /\ sequence'.review = sequence.review
        /\ sequence'.support = sequence.support
        /\ sequence'.regulatory = sequence.regulatory + 1
    BY <2>1, <2>2 DEF Sequences, NextRegulatory
  <2>4. k \in 1..sequence'.regulatory
    BY <2>2, <2>3 DEF NextRegulatory, Sequences
  <2>5. /\ EvidenceOf(n) \in SUBSET RecordIds
        /\ purchase[n] \in Purchases
        /\ credential[n] \in [holder : Users0, issuer : Users0]
    BY <2>1, EvidenceIsRecords, Types
  <2>6. /\ row \in RegulatoryCases
        /\ domainRow \in [claimant : Users0, purchase : 0..MaxNumber]
        /\ bridgeRow \in [authorizer : Users0, recipient : Users0,
                          case : 0..MaxNumber, records : SUBSET RecordIds]
        /\ [purchase[n] EXCEPT !.regulatory = k] \in Purchases
    <3> HIDE DEF k
    <3>1. row \in RegulatoryCases
      <4>1. r \in Users0 /\ b \in Users0
        BY <2>5 DEF Purchases, Users0
      <4>2. NoRegulatoryCase \in RegulatoryCases
        BY DEF NoRegulatoryCase, RegulatoryCases, Users0
      <4>3. n \in 0..MaxNumber /\ EvidenceOf(n) \in SUBSET RecordIds
        BY <2>5
      <4> HIDE DEF b
      <4> QED
        BY <4>1, <4>2, <4>3 DEF RegulatoryCases
    <3>2. [purchase[n] EXCEPT !.regulatory = k] \in Purchases
      BY <2>2, <2>5 DEF Purchases
    <3>3. bridgeRow \in [authorizer : Users0, recipient : Users0,
                         case : 0..MaxNumber, records : SUBSET RecordIds]
      BY <2>2, <2>5 DEF Purchases, Users0
    <3>4. domainRow \in [claimant : Users0, purchase : 0..MaxNumber]
      BY <2>5
    <3> QED
      BY <3>1, <3>2, <3>3, <3>4
  <2> HIDE DEF k, row, domainRow, bridgeRow
  <2>7. /\ purchase' \in [Numbers -> Purchases]
        /\ regulatoryCase' \in [Numbers -> RegulatoryCases]
        /\ domainRegulatory' \in [Numbers -> [claimant : Users0,
                                              purchase : 0..MaxNumber]]
        /\ bridge' \in [Numbers -> [authorizer : Users0, recipient : Users0,
                                    case : 0..MaxNumber,
                                    records : SUBSET RecordIds]]
    <3>1. purchase' \in [Numbers -> Purchases]
      BY <2>1, <2>6, Types
    <3>2. regulatoryCase' \in [Numbers -> RegulatoryCases]
      BY <2>1, <2>6, Types
    <3>3. domainRegulatory' \in [Numbers -> [claimant : Users0,
                                            purchase : 0..MaxNumber]]
      BY <2>1, <2>6, Types
    <3>4. bridge' \in [Numbers -> [authorizer : Users0, recipient : Users0,
                                  case : 0..MaxNumber,
                                  records : SUBSET RecordIds]]
      BY <2>1, <2>6, Types
    <3> QED
      BY <3>1, <3>2, <3>3, <3>4
  <2>8. actions' \subseteq ActionIds
    BY <2>1, <2>2, Types DEF BridgeId, ActionIds
  <2>9. NumbersAreDrawn'
    BY <2>1, <2>2, <2>3, <2>4, DrawnStays, Types
       DEF NumbersAreDrawn, Rows, Sequences
  <2> QED
    BY <2>1, <2>2, <2>7, <2>8, <2>9, Types
       DEF TypeOK, PlatformTypeOK, DomainTypeOK, authority, Sequences,
           RegulatoryCases, SupportCases, Purchases, Users0
<1>9. ASSUME NEW k \in Numbers, VerifyCase(k)
      PROVE  TypeOK'
  <2>1. /\ regulatoryCase[k] # NoRegulatoryCase
        /\ regulatoryCase' = [regulatoryCase EXCEPT
             ![k].verified = TRUE, ![k].reviewIntegrity = ReviewIsVerified(k)]
        /\ UNCHANGED <<authority, late, sequence, purchase, supportCase,
                       domain>>
    BY <1>9 DEF VerifyCase
  <2>2. regulatoryCase[k] \in RegulatoryCases
    BY Types
  <2>3. ReviewIsVerified(k) \in BOOLEAN
    BY DEF ReviewIsVerified
  <2>4. [regulatoryCase[k] EXCEPT !.verified = TRUE,
                                  !.reviewIntegrity = ReviewIsVerified(k)]
          \in RegulatoryCases
    BY <2>2, <2>3 DEF RegulatoryCases
  <2>5. regulatoryCase' \in [Numbers -> RegulatoryCases]
    BY <2>1, <2>4, Types
  <2>6. NumbersAreDrawn'
    BY <2>1, Types DEF NumbersAreDrawn, Rows, domain
  <2> QED
    BY <2>1, <2>5, <2>6, Types
       DEF TypeOK, PlatformTypeOK, DomainTypeOK, authority, Sequences,
           domain, RegulatoryCases, SupportCases, Purchases, Users0
<1> QED
  BY <1>1, <1>2, <1>3, <1>4, <1>5, <1>6, <1>7, <1>8, <1>9, NextCases

-----------------------------------------------------------------------------
(* What the actions do to the maps, field by field. *)

(* The field that a handler sets in the row of a purchase, and no other. *)
LEMMA PurchaseFields ==
  ASSUME TypeOK, NEW n \in Numbers, NEW i \in Numbers
  PROVE  /\ \A row : row = [purchase[n] EXCEPT !.review = i] =>
              /\ row.buyer = purchase[n].buyer /\ row.issuer = purchase[n].issuer
              /\ row.support = purchase[n].support
              /\ row.regulatory = purchase[n].regulatory /\ row.review = i
         /\ \A row : row = [purchase[n] EXCEPT !.support = i] =>
              /\ row.buyer = purchase[n].buyer /\ row.issuer = purchase[n].issuer
              /\ row.review = purchase[n].review
              /\ row.regulatory = purchase[n].regulatory /\ row.support = i
         /\ \A row : row = [purchase[n] EXCEPT !.regulatory = i] =>
              /\ row.buyer = purchase[n].buyer /\ row.issuer = purchase[n].issuer
              /\ row.review = purchase[n].review
              /\ row.support = purchase[n].support /\ row.regulatory = i
<1>1. purchase[n] \in Purchases
  BY Types
<1> QED
  BY <1>1 DEF Purchases

(* A sale takes a row that was empty. *)
SaleAt(n, s, b) ==
  /\ purchase[n] = NoPurchase /\ credential[n] = NoCredential
  /\ s \in issuers /\ b \notin issuers
  /\ purchase'[n] = [NoPurchase EXCEPT !.buyer = b, !.issuer = s]
  /\ purchase'[n].buyer = b /\ purchase'[n].issuer = s
  /\ purchase'[n].review = 0 /\ purchase'[n].support = 0
  /\ purchase'[n].regulatory = 0
  /\ credential'[n] = [holder |-> b, issuer |-> s]
  /\ \A m \in Numbers \ {n} : /\ purchase'[m] = purchase[m]
                              /\ credential'[m] = credential[m]
  /\ UNCHANGED <<supportCase, regulatoryCase, reviewOf, domainCase,
                 decision, domainRegulatory, bridge, actions>>

LEMMA SaleStep ==
  ASSUME TypeOK, NEW s \in Users, NEW b \in Users, RecordPurchase(s, b)
  PROVE  \E n \in Numbers : SaleAt(n, s, b)
<1>1. NextPurchase \in Numbers
  BY DEF RecordPurchase, NextPurchase
<1>2. /\ purchase' = [purchase EXCEPT
           ![NextPurchase] = [NoPurchase EXCEPT !.buyer = b, !.issuer = s]]
      /\ credential' = [credential EXCEPT
           ![NextPurchase] = [holder |-> b, issuer |-> s]]
  BY DEF RecordPurchase, IssueCredential, NextPurchase
<1>3. /\ purchase'[NextPurchase]
           = [NoPurchase EXCEPT !.buyer = b, !.issuer = s]
      /\ credential'[NextPurchase] = [holder |-> b, issuer |-> s]
      /\ \A m \in Numbers \ {NextPurchase} :
           purchase'[m] = purchase[m] /\ credential'[m] = credential[m]
  BY <1>1, <1>2, Types
<1>4. \A row : row = [NoPurchase EXCEPT !.buyer = b, !.issuer = s] =>
         /\ row.buyer = b /\ row.issuer = s /\ row.review = 0
         /\ row.support = 0 /\ row.regulatory = 0
  BY DEF NoPurchase
<1>5. SaleAt(NextPurchase, s, b)
  BY <1>1, <1>3, <1>4, NewNumbers DEF SaleAt, RecordPurchase, MayIssue
<1> QED
  BY <1>1, <1>5

ReviewAt(r, n) ==
  /\ purchase[n] # NoPurchase /\ purchase[n].review = 0
  /\ reviewOf[r] = 0
  /\ purchase'[n].buyer = purchase[n].buyer
  /\ purchase'[n].issuer = purchase[n].issuer
  /\ purchase'[n].review = r
  /\ purchase'[n].support = purchase[n].support
  /\ purchase'[n].regulatory = purchase[n].regulatory
  /\ reviewOf'[r] = n
  /\ \A m \in Numbers \ {n} : purchase'[m] = purchase[m]
  /\ \A q \in Numbers \ {r} : reviewOf'[q] = reviewOf[q]
  /\ actions' = actions \union {ReviewId(r)}
  /\ UNCHANGED <<supportCase, regulatoryCase, credential, domainCase,
                 decision, domainRegulatory, bridge>>

LEMMA ReviewStep ==
  ASSUME TypeOK, NEW n \in Numbers, PublishReview(n)
  PROVE  \E r \in Numbers : ReviewAt(r, n)
<1>1. NextReview \in Numbers
  BY Drawn DEF PublishReview, MayReview
<1>2. /\ purchase' = [purchase EXCEPT ![n].review = NextReview]
      /\ reviewOf' = [reviewOf EXCEPT ![NextReview] = n]
  BY DEF PublishReview, StoreReview, NextReview
<1>3. /\ purchase'[n] = [purchase[n] EXCEPT !.review = NextReview]
      /\ reviewOf'[NextReview] = n
      /\ \A m \in Numbers \ {n} : purchase'[m] = purchase[m]
      /\ \A q \in Numbers \ {NextReview} : reviewOf'[q] = reviewOf[q]
  BY <1>1, <1>2, Types
<1>4. ReviewAt(NextReview, n)
  BY <1>1, <1>3, PurchaseFields, NewNumbers
     DEF ReviewAt, PublishReview, MayReview, StoreReview, RecordAction,
         NextReview
<1> QED
  BY <1>1, <1>4

CaseAt(c, n, h) ==
  /\ purchase[n] # NoPurchase /\ purchase[n].support = 0
  /\ supportCase[c] = NoSupportCase /\ domainCase[c] = NoDomainCase
  /\ purchase'[n].buyer = purchase[n].buyer
  /\ purchase'[n].issuer = purchase[n].issuer
  /\ purchase'[n].review = purchase[n].review
  /\ purchase'[n].support = c
  /\ purchase'[n].regulatory = purchase[n].regulatory
  /\ supportCase'[c] = [buyer |-> purchase[n].buyer, merchant |-> h,
                        purchase |-> n, outcome |-> "pending"]
  /\ domainCase'[c] = [claimant |-> credential[n].holder,
                       recipient |-> h, purchase |-> n]
  /\ \A m \in Numbers \ {n} : purchase'[m] = purchase[m]
  /\ \A d \in Numbers \ {c} : /\ supportCase'[d] = supportCase[d]
                              /\ domainCase'[d] = domainCase[d]
  /\ actions' = actions \union {CaseId(c)}
  /\ ValidFlow(SupportFlow(n, h))
  /\ UNCHANGED <<regulatoryCase, credential, reviewOf, decision,
                 domainRegulatory, bridge>>

LEMMA SupportCaseStep ==
  ASSUME TypeOK, NEW n \in Numbers, NEW h \in Users, RequestSupport(n, h)
  PROVE  \E c \in Numbers : CaseAt(c, n, h)
<1>1. NextCase \in Numbers
  BY Drawn DEF RequestSupport, MayRequestSupport
<1>2. /\ purchase' = [purchase EXCEPT ![n].support = NextCase]
      /\ supportCase' = [supportCase EXCEPT
           ![NextCase] = [buyer |-> purchase[n].buyer, merchant |-> h,
                          purchase |-> n, outcome |-> "pending"]]
      /\ domainCase' = [domainCase EXCEPT
           ![NextCase] = [claimant |-> credential[n].holder, recipient |-> h,
                          purchase |-> n]]
  BY DEF RequestSupport, StoreSupportCase, NextCase
<1>3. /\ purchase'[n] = [purchase[n] EXCEPT !.support = NextCase]
      /\ \A m \in Numbers \ {n} : purchase'[m] = purchase[m]
  BY <1>1, <1>2, Types
<1>4. /\ supportCase'[NextCase]
           = [buyer |-> purchase[n].buyer, merchant |-> h,
              purchase |-> n, outcome |-> "pending"]
      /\ domainCase'[NextCase]
           = [claimant |-> credential[n].holder, recipient |-> h,
              purchase |-> n]
      /\ \A d \in Numbers \ {NextCase} : /\ supportCase'[d] = supportCase[d]
                                         /\ domainCase'[d] = domainCase[d]
  BY <1>1, <1>2, Types
<1>5. /\ supportCase[NextCase] = NoSupportCase
      /\ domainCase[NextCase] = NoDomainCase
  BY <1>1, NewNumbers
<1>6. /\ purchase[n] # NoPurchase /\ purchase[n].support = 0
      /\ actions' = actions \union {CaseId(NextCase)}
      /\ ValidFlow(SupportFlow(n, h))
      /\ UNCHANGED <<regulatoryCase, credential, reviewOf, decision,
                     domainRegulatory, bridge>>
  BY DEF RequestSupport, MayRequestSupport, StoreSupportCase, RecordAction,
         NextCase, DomainAcceptsSupport
<1>7. /\ purchase'[n].buyer = purchase[n].buyer
      /\ purchase'[n].issuer = purchase[n].issuer
      /\ purchase'[n].review = purchase[n].review
      /\ purchase'[n].support = NextCase
      /\ purchase'[n].regulatory = purchase[n].regulatory
  BY <1>1, <1>3, PurchaseFields
<1>8. CaseAt(NextCase, n, h)
  BY <1>1, <1>3, <1>4, <1>5, <1>6, <1>7 DEF CaseAt
<1> QED
  BY <1>1, <1>8

LEMMA DecisionStep ==
  ASSUME TypeOK, NEW c \in Numbers, NEW outcome \in Outcomes,
         DecideSupport(c, outcome)
  PROVE  /\ supportCase[c] # NoSupportCase /\ supportCase[c].outcome = "pending"
         /\ decision[c] = NoDecision
         /\ supportCase'[c].buyer = supportCase[c].buyer
         /\ supportCase'[c].merchant = supportCase[c].merchant
         /\ supportCase'[c].purchase = supportCase[c].purchase
         /\ supportCase'[c].outcome = outcome
         /\ decision'[c] = [issuer |-> supportCase[c].merchant, case |-> c,
                            outcome |-> outcome]
         /\ \A d \in Numbers \ {c} : /\ supportCase'[d] = supportCase[d]
                                     /\ decision'[d] = decision[d]
         /\ actions' = actions \union {DecisionId(c)}
         /\ UNCHANGED <<purchase, regulatoryCase, credential, reviewOf,
                        domainCase, domainRegulatory, bridge>>
<1>1. supportCase' = [supportCase EXCEPT ![c].outcome = outcome]
  BY DEF DecideSupport
<1>2. decision' = [decision EXCEPT
        ![c] = [issuer |-> supportCase[c].merchant, case |-> c,
                outcome |-> outcome]]
  BY DEF DecideSupport, StoreDecision
<1>3. /\ supportCase'[c] = [supportCase[c] EXCEPT !.outcome = outcome]
      /\ supportCase[c] \in SupportCases
      /\ \A d \in Numbers \ {c} : supportCase'[d] = supportCase[d]
  BY <1>1, Types
<1>4. \A row : row = [supportCase[c] EXCEPT !.outcome = outcome] =>
         /\ row.buyer = supportCase[c].buyer
         /\ row.merchant = supportCase[c].merchant
         /\ row.purchase = supportCase[c].purchase /\ row.outcome = outcome
  BY <1>3 DEF SupportCases
<1>5. /\ decision'[c] = [issuer |-> supportCase[c].merchant, case |-> c,
                         outcome |-> outcome]
      /\ \A d \in Numbers \ {c} : decision'[d] = decision[d]
  BY <1>2, Types
<1> QED
  BY <1>3, <1>4, <1>5 DEF DecideSupport, MayDecide, StoreDecision, RecordAction

(* The regulatory case is opened in the domain system in any case. *)
EscalationAt(k, n, r) ==
  /\ MayEscalate(n, r)
  /\ regulatoryCase[k] = NoRegulatoryCase
  /\ domainRegulatory[k] = NoDomainRegulatory
  /\ domainRegulatory'[k] = [claimant |-> credential[n].holder,
                             purchase |-> n]
  /\ \A m \in Numbers : /\ purchase'[m].buyer = purchase[m].buyer
                        /\ purchase'[m].issuer = purchase[m].issuer
                        /\ purchase'[m].review = purchase[m].review
                        /\ purchase'[m].support = purchase[m].support
  /\ \/ /\ bridge'[k] = [authorizer |-> purchase[n].buyer,
                         recipient |-> r, case |-> k,
                         records |-> EvidenceOf(n)]
        /\ actions' = actions \union {BridgeId(k)}
        /\ purchase'[n].regulatory = k
        /\ regulatoryCase'[k].buyer = purchase[n].buyer
        /\ regulatoryCase'[k].recipient = r
        /\ regulatoryCase'[k].purchase = n
        /\ regulatoryCase'[k].records = EvidenceOf(n)
        /\ regulatoryCase'[k].verified = FALSE
     \/ /\ ~DomainAcceptsBridge(n, purchase[n].buyer, r, EvidenceOf(n))
        /\ UNCHANGED <<bridge, actions, purchase, regulatoryCase>>
  /\ \A m \in Numbers \ {n} : purchase'[m] = purchase[m]
  /\ \A j \in Numbers \ {k} :
       /\ domainRegulatory'[j] = domainRegulatory[j]
       /\ bridge'[j] = bridge[j]
       /\ regulatoryCase'[j] = regulatoryCase[j]
  /\ UNCHANGED <<supportCase, credential, reviewOf, domainCase,
                 decision>>

LEMMA EscalationStep ==
  ASSUME TypeOK, NEW n \in Numbers, NEW r \in Users, Escalate(n, r)
  PROVE  \E k \in Numbers : EscalationAt(k, n, r)
<1> DEFINE k == NextRegulatory
           row == [NoRegulatoryCase EXCEPT
                     !.buyer = purchase[n].buyer, !.recipient = r,
                     !.purchase = n, !.records = EvidenceOf(n)]
           bridgeRow == [authorizer |-> purchase[n].buyer, recipient |-> r,
                         case |-> k, records |-> EvidenceOf(n)]
<1>1. k \in Numbers
  BY Drawn DEF Escalate, MayEscalate
<1>2. /\ domainRegulatory' = [domainRegulatory EXCEPT
           ![k] = [claimant |-> credential[n].holder, purchase |-> n]]
      /\ \/ /\ bridge' = [bridge EXCEPT ![k] = bridgeRow]
            /\ actions' = actions \union {BridgeId(k)}
            /\ purchase' = [purchase EXCEPT ![n].regulatory = k]
            /\ regulatoryCase' = [regulatoryCase EXCEPT ![k] = row]
         \/ /\ ~DomainAcceptsBridge(n, purchase[n].buyer, r, EvidenceOf(n))
            /\ UNCHANGED <<bridge, actions, purchase, regulatoryCase>>
      /\ MayEscalate(n, r)
      /\ UNCHANGED <<supportCase, credential, reviewOf, domainCase, decision>>
  BY DEF Escalate, OpenRegulatoryCase, StoreBridge, RecordAction, NextRegulatory
<1>3. /\ regulatoryCase[k] = NoRegulatoryCase
      /\ domainRegulatory[k] = NoDomainRegulatory
  BY <1>1, NewNumbers
<1>4. /\ row.buyer = purchase[n].buyer /\ row.recipient = r
      /\ row.purchase = n /\ row.records = EvidenceOf(n)
      /\ row.verified = FALSE
  BY DEF NoRegulatoryCase
<1> HIDE DEF k, row, bridgeRow
<1>5. /\ domainRegulatory'[k] = [claimant |-> credential[n].holder,
                                 purchase |-> n]
      /\ \A j \in Numbers \ {k} : domainRegulatory'[j] = domainRegulatory[j]
  BY <1>1, <1>2, Types
<1>6. ASSUME /\ bridge' = [bridge EXCEPT ![k] = bridgeRow]
             /\ actions' = actions \union {BridgeId(k)}
             /\ purchase' = [purchase EXCEPT ![n].regulatory = k]
             /\ regulatoryCase' = [regulatoryCase EXCEPT ![k] = row]
      PROVE  EscalationAt(k, n, r)
  <2>1. /\ bridge'[k] = bridgeRow /\ regulatoryCase'[k] = row
        /\ purchase'[n] = [purchase[n] EXCEPT !.regulatory = k]
        /\ \A m \in Numbers \ {n} : purchase'[m] = purchase[m]
        /\ \A j \in Numbers \ {k} : /\ bridge'[j] = bridge[j]
                                    /\ regulatoryCase'[j] = regulatoryCase[j]
    BY <1>1, <1>6, Types
  <2>2. /\ purchase'[n].buyer = purchase[n].buyer
        /\ purchase'[n].issuer = purchase[n].issuer
        /\ purchase'[n].review = purchase[n].review
        /\ purchase'[n].support = purchase[n].support
        /\ purchase'[n].regulatory = k
    BY <1>1, <2>1, PurchaseFields
  <2>3. bridgeRow = [authorizer |-> purchase[n].buyer, recipient |-> r,
                     case |-> k, records |-> EvidenceOf(n)]
    BY DEF bridgeRow
  <2>4. \A m \in Numbers : /\ purchase'[m].buyer = purchase[m].buyer
                          /\ purchase'[m].issuer = purchase[m].issuer
                          /\ purchase'[m].review = purchase[m].review
                          /\ purchase'[m].support = purchase[m].support
    BY <2>1, <2>2
  <2> QED
    BY <1>1, <1>2, <1>3, <1>4, <1>5, <1>6, <2>1, <2>2, <2>3, <2>4
       DEF EscalationAt
<1>7. ASSUME /\ ~DomainAcceptsBridge(n, purchase[n].buyer, r, EvidenceOf(n))
             /\ UNCHANGED <<bridge, actions, purchase, regulatoryCase>>
      PROVE  EscalationAt(k, n, r)
  BY <1>1, <1>2, <1>3, <1>5, <1>7 DEF EscalationAt
<1>8. EscalationAt(k, n, r)
  BY <1>2, <1>6, <1>7
<1> QED
  BY <1>1, <1>8

LEMMA CrashStep ==
  ASSUME Crash
  PROVE  /\ actions' = {}
         /\ \A n \in Numbers :
              /\ purchase'[n] = NoPurchase /\ credential'[n] = NoCredential
              /\ supportCase'[n] = NoSupportCase
              /\ regulatoryCase'[n] = NoRegulatoryCase
              /\ reviewOf'[n] = 0 /\ domainCase'[n] = NoDomainCase
              /\ decision'[n] = NoDecision
              /\ domainRegulatory'[n] = NoDomainRegulatory
              /\ bridge'[n] = NoBridge
BY DEF Crash, ForgetDomain, Nothing

LEMMA VerificationStep ==
  ASSUME TypeOK, NEW k \in Numbers, VerifyCase(k)
  PROVE  /\ regulatoryCase[k] # NoRegulatoryCase /\ ~regulatoryCase[k].verified
         /\ regulatoryCase'[k].buyer = regulatoryCase[k].buyer
         /\ regulatoryCase'[k].recipient = regulatoryCase[k].recipient
         /\ regulatoryCase'[k].purchase = regulatoryCase[k].purchase
         /\ regulatoryCase'[k].records = regulatoryCase[k].records
         /\ regulatoryCase'[k].verified = TRUE
         /\ \A j \in Numbers \ {k} : regulatoryCase'[j] = regulatoryCase[j]
         /\ UNCHANGED <<purchase, supportCase, credential, reviewOf, domainCase,
                        decision, domainRegulatory, bridge, actions>>
<1> DEFINE row == [regulatoryCase[k] EXCEPT
                     !.verified = TRUE,
                     !.reviewIntegrity = ReviewIsVerified(k)]
<1>1. regulatoryCase' = [regulatoryCase EXCEPT ![k] = row]
  BY DEF VerifyCase
<1>2. regulatoryCase[k] \in RegulatoryCases
  BY Types
<1>3. /\ row.buyer = regulatoryCase[k].buyer
      /\ row.recipient = regulatoryCase[k].recipient
      /\ row.purchase = regulatoryCase[k].purchase
      /\ row.records = regulatoryCase[k].records /\ row.verified = TRUE
  BY <1>2 DEF RegulatoryCases
<1> HIDE DEF row
<1>4. /\ regulatoryCase'[k] = row
      /\ \A j \in Numbers \ {k} : regulatoryCase'[j] = regulatoryCase[j]
  BY <1>1, Types
<1> QED
  BY <1>3, <1>4 DEF VerifyCase, domain

-----------------------------------------------------------------------------
(* What the maps of the platform say about those of the domain system, row *)
(* by row; a sale is to somebody else, and a case is with the seller.      *)
SameSales ==
  \A n \in Numbers : credential[n] = [holder |-> purchase[n].buyer,
                                     issuer |-> purchase[n].issuer]

SameReviews ==
  \A n, r \in Numbers : reviewOf[r] = n <=> purchase[n].review = r

SameCases ==
  \A n, c \in Numbers : domainCase[c].purchase = n <=> purchase[n].support = c

SameRows ==
  \A c \in Numbers :
    domainCase[c] = [claimant |-> supportCase[c].buyer,
                     recipient |-> supportCase[c].merchant,
                     purchase |-> supportCase[c].purchase]

SameDecisions ==
  \A c \in Numbers :
    decision[c] = IF supportCase[c].outcome = "pending"
                  THEN NoDecision
                  ELSE [issuer |-> supportCase[c].merchant, case |-> c,
                        outcome |-> supportCase[c].outcome]

SoldToOthers ==
  \A n \in Numbers :
    \/ purchase[n] = NoPurchase
    \/ /\ purchase[n].buyer \in Users /\ purchase[n].issuer \in Users
       /\ purchase[n].buyer # purchase[n].issuer

WithTheSeller ==
  \A c \in Numbers :
    \/ supportCase[c] = NoSupportCase
    \/ /\ supportCase[c].purchase \in Numbers
       /\ supportCase[c].buyer \in Users
       /\ supportCase[c].merchant = purchase[supportCase[c].purchase].issuer
       /\ supportCase[c].buyer = purchase[supportCase[c].purchase].buyer

Agreement ==
  /\ SameSales /\ SameReviews /\ SameCases
  /\ SameRows /\ SameDecisions
  /\ SoldToOthers /\ WithTheSeller

LEMMA SaleAgrees ==
  ASSUME TypeOK, Agreement, NEW s \in Users, NEW b \in Users,
         RecordPurchase(s, b)
  PROVE  Agreement'
<1>0. PICK n \in Numbers : SaleAt(n, s, b)
  BY SaleStep
<1>1. /\ purchase[n] = NoPurchase /\ credential[n] = NoCredential
      /\ s \in issuers /\ b \notin issuers
      /\ purchase'[n].buyer = b /\ purchase'[n].issuer = s
      /\ purchase'[n].review = 0 /\ purchase'[n].support = 0
      /\ credential'[n] = [holder |-> b, issuer |-> s]
      /\ \A m \in Numbers \ {n} : /\ purchase'[m] = purchase[m]
                                  /\ credential'[m] = credential[m]
      /\ UNCHANGED <<supportCase, reviewOf, domainCase, decision>>
  BY <1>0 DEF SaleAt
<1>2. purchase[n].review = 0 /\ purchase[n].support = 0
      /\ purchase[n].buyer = NoUser
  BY <1>1 DEF NoPurchase
<1>3. SameSales'
  BY <1>1 DEF Agreement, SameSales
<1>4. SameReviews' /\ SameCases'
  BY <1>1, <1>2 DEF Agreement, SameReviews, SameCases
<1>5. SameRows' /\ SameDecisions'
  BY <1>1 DEF Agreement, SameRows, SameDecisions
<1>6. SoldToOthers'
  BY <1>1 DEF Agreement, SoldToOthers
<1>7. WithTheSeller'
  BY <1>1, <1>2 DEF Agreement, WithTheSeller
<1> QED
  BY <1>3, <1>4, <1>5, <1>6, <1>7 DEF Agreement

(* A review, and the purchase's reference to it, keep the agreement. *)
LEMMA ReviewAgrees ==
  ASSUME TypeOK, Agreement, NEW n \in Numbers, PublishReview(n)
  PROVE  Agreement'
<1>0. PICK r \in Numbers : ReviewAt(r, n)
  BY ReviewStep
<1>1. /\ purchase[n] # NoPurchase /\ purchase[n].review = 0
      /\ reviewOf[r] = 0
      /\ purchase'[n].buyer = purchase[n].buyer
      /\ purchase'[n].issuer = purchase[n].issuer
      /\ purchase'[n].review = r
      /\ purchase'[n].support = purchase[n].support
      /\ reviewOf'[r] = n
      /\ \A m \in Numbers \ {n} : purchase'[m] = purchase[m]
      /\ \A q \in Numbers \ {r} : reviewOf'[q] = reviewOf[q]
      /\ UNCHANGED <<supportCase, credential, domainCase, decision>>
  BY <1>0 DEF ReviewAt
<1>2. \A m \in Numbers : /\ purchase'[m].buyer = purchase[m].buyer
                        /\ purchase'[m].issuer = purchase[m].issuer
                        /\ purchase'[m].support = purchase[m].support
  BY <1>1
<1>3. SameSales'
  BY <1>1, <1>2 DEF Agreement, SameSales
<1>4. SameReviews'
  BY <1>1, NotZero DEF Agreement, SameReviews
<1>5. SameCases'
  BY <1>1, <1>2 DEF Agreement, SameCases
<1>6. SameRows' /\ SameDecisions'
  BY <1>1 DEF Agreement, SameRows, SameDecisions
<1>7. SoldToOthers'
  BY <1>1 DEF Agreement, SoldToOthers
<1>8. WithTheSeller'
  BY <1>1, <1>2 DEF Agreement, WithTheSeller
<1> QED
  BY <1>3, <1>4, <1>5, <1>6, <1>7, <1>8 DEF Agreement

(* The flow is valid only if the issuer of its claims is one of its actors. *)
LEMMA IssuerIsAnActor ==
  ASSUME NEW n \in Numbers, NEW h, ValidFlow(SupportFlow(n, h))
  PROVE  credential[n].issuer \in {credential[n].holder, h}
<1> DEFINE claims == {"product", "within-thirty-days", "unused-entitlement"}
           flow == SupportFlow(n, h)
<1>1. /\ flow.actors = {credential[n].holder, h}
      /\ flow.issuerOf = [claim \in claims |-> credential[n].issuer]
  BY DEF SupportFlow, MakeFlow
<1>2. \A claim \in DOMAIN flow.issuerOf : flow.issuerOf[claim] \in flow.actors
  BY DEF ValidFlow
<1>3. "product" \in DOMAIN flow.issuerOf
  BY <1>1
<1>4. flow.issuerOf["product"] = credential[n].issuer
  BY <1>1
<1> HIDE DEF flow
<1> QED
  BY <1>1, <1>2, <1>3, <1>4

LEMMA CaseAgrees ==
  ASSUME TypeOK, Agreement, NEW n \in Numbers, NEW h \in Users,
         RequestSupport(n, h)
  PROVE  Agreement'
<1>0. PICK c \in Numbers : CaseAt(c, n, h)
  BY SupportCaseStep
<1>1. /\ purchase[n] # NoPurchase /\ purchase[n].support = 0
      /\ supportCase[c] = NoSupportCase /\ domainCase[c] = NoDomainCase
      /\ purchase'[n].buyer = purchase[n].buyer
      /\ purchase'[n].issuer = purchase[n].issuer
      /\ purchase'[n].review = purchase[n].review
      /\ purchase'[n].support = c
      /\ supportCase'[c] = [buyer |-> purchase[n].buyer, merchant |-> h,
                            purchase |-> n, outcome |-> "pending"]
      /\ domainCase'[c] = [claimant |-> credential[n].holder,
                           recipient |-> h, purchase |-> n]
      /\ \A m \in Numbers \ {n} : purchase'[m] = purchase[m]
      /\ \A d \in Numbers \ {c} : /\ supportCase'[d] = supportCase[d]
                                  /\ domainCase'[d] = domainCase[d]
      /\ ValidFlow(SupportFlow(n, h))
      /\ UNCHANGED <<credential, reviewOf, decision>>
  BY <1>0 DEF CaseAt
<1>2. \A m \in Numbers : /\ purchase'[m].buyer = purchase[m].buyer
                        /\ purchase'[m].issuer = purchase[m].issuer
                        /\ purchase'[m].review = purchase[m].review
  BY <1>1
<1>3. SameSales'
  BY <1>1, <1>2 DEF Agreement, SameSales
<1>4. SameReviews'
  BY <1>1, <1>2 DEF Agreement, SameReviews
<1>5. domainCase[c].purchase = 0 /\ domainCase'[c].purchase = n
      /\ supportCase[c].outcome = "pending"
      /\ supportCase'[c].outcome = "pending"
  BY <1>1 DEF NoDomainCase, NoSupportCase
<1>6. SameCases'
  BY <1>1, <1>5, NotZero DEF Agreement, SameCases
<1>7. credential[n].holder = purchase[n].buyer
      /\ credential[n].issuer = purchase[n].issuer
  <2>1. credential[n] = [holder |-> purchase[n].buyer,
                         issuer |-> purchase[n].issuer]
    BY DEF Agreement, SameSales
  <2> QED
    BY <2>1
<1>8. SameRows'
  BY <1>1, <1>7 DEF Agreement, SameRows
<1>9. SameDecisions'
  BY <1>1, <1>5 DEF Agreement, SameDecisions
<1>10. SoldToOthers'
  BY <1>1 DEF Agreement, SoldToOthers
<1>11. h = purchase[n].issuer /\ purchase[n].buyer \in Users
  BY <1>1, <1>7, IssuerIsAnActor DEF Agreement, SoldToOthers
<1>12. WithTheSeller'
  BY <1>1, <1>2, <1>11 DEF Agreement, WithTheSeller
<1> QED
  BY <1>3, <1>4, <1>6, <1>8, <1>9, <1>10, <1>12 DEF Agreement

LEMMA DecisionAgrees ==
  ASSUME TypeOK, Agreement, NEW c \in Numbers, NEW outcome \in Outcomes,
         DecideSupport(c, outcome)
  PROVE  Agreement'
<1>1. /\ supportCase[c] # NoSupportCase
      /\ supportCase'[c].buyer = supportCase[c].buyer
      /\ supportCase'[c].merchant = supportCase[c].merchant
      /\ supportCase'[c].purchase = supportCase[c].purchase
      /\ supportCase'[c].outcome = outcome
      /\ decision'[c] = [issuer |-> supportCase[c].merchant, case |-> c,
                         outcome |-> outcome]
      /\ \A d \in Numbers \ {c} : /\ supportCase'[d] = supportCase[d]
                                  /\ decision'[d] = decision[d]
      /\ UNCHANGED <<purchase, credential, reviewOf, domainCase>>
  BY DecisionStep
<1>2. SameSales' /\ SameReviews' /\ SameCases' /\ SoldToOthers'
  BY <1>1 DEF Agreement, SameSales, SameReviews, SameCases, SoldToOthers
<1>3. SameRows'
  BY <1>1 DEF Agreement, SameRows
<1>4. outcome # "pending"
  BY DEF Outcomes
<1>5. SameDecisions'
  BY <1>1, <1>4 DEF Agreement, SameDecisions
<1>6. WithTheSeller'
  BY <1>1 DEF Agreement, WithTheSeller
<1> QED
  BY <1>2, <1>3, <1>5, <1>6 DEF Agreement

LEMMA EscalationAgrees ==
  ASSUME TypeOK, Agreement, NEW n \in Numbers, NEW r \in Users, Escalate(n, r)
  PROVE  Agreement'
<1>0. PICK k \in Numbers : EscalationAt(k, n, r)
  BY EscalationStep
<1>1. /\ purchase[n] # NoPurchase
      /\ \A m \in Numbers : /\ purchase'[m].buyer = purchase[m].buyer
                            /\ purchase'[m].issuer = purchase[m].issuer
                            /\ purchase'[m].review = purchase[m].review
                            /\ purchase'[m].support = purchase[m].support
      /\ \A m \in Numbers \ {n} : purchase'[m] = purchase[m]
      /\ UNCHANGED <<supportCase, credential, reviewOf, domainCase, decision>>
  BY <1>0 DEF EscalationAt, MayEscalate
<1>2. SameSales' /\ SameReviews' /\ SameCases' /\ WithTheSeller'
  BY <1>1 DEF Agreement, SameSales, SameReviews, SameCases, WithTheSeller
<1>3. SameRows' /\ SameDecisions'
  BY <1>1 DEF Agreement, SameRows, SameDecisions
<1>4. SoldToOthers'
  BY <1>1 DEF Agreement, SoldToOthers
<1> QED
  BY <1>2, <1>3, <1>4 DEF Agreement

LEMMA AgreementStep ==
  ASSUME TypeOK, Agreement, Next
  PROVE  Agreement'
<1>1. CASE \/ Quiet \/ Refused \/ \E k \in Numbers : VerifyCase(k)
  <2>1. UNCHANGED <<purchase, supportCase, credential, reviewOf, domainCase,
                    decision>>
    BY <1>1, QuietKeeps, VerificationStep DEF domain
  <2> QED
    BY <2>1 DEF Agreement, SameSales, SameReviews, SameCases, SameRows,
                SameDecisions, SoldToOthers, WithTheSeller
<1>2. CASE Crash
  <2>1. \A n \in Numbers :
          /\ purchase'[n] = NoPurchase /\ credential'[n] = NoCredential
          /\ supportCase'[n] = NoSupportCase /\ reviewOf'[n] = 0
          /\ domainCase'[n] = NoDomainCase /\ decision'[n] = NoDecision
    BY <1>2, CrashStep
  <2> QED
    BY <2>1, NumbersAreNat
       DEF Agreement, SameSales, SameReviews, SameCases, SameRows,
           SameDecisions, SoldToOthers, WithTheSeller, NoPurchase,
           NoCredential, NoSupportCase, NoDomainCase
<1> QED
  BY <1>1, <1>2, NextCases, SaleAgrees, ReviewAgrees, CaseAgrees,
     DecisionAgrees, EscalationAgrees

-----------------------------------------------------------------------------
(* An escalation is never refused half way: the records of the platform    *)
(* are those that the domain system expects.                               *)
LEMMA EarliestOfOne ==
  ASSUME NEW c \in Numbers
  PROVE  Earliest({c}) = {c}
BY NumbersAreNat DEF Earliest

LEMMA OneCaseOneDecision ==
  ASSUME TypeOK, Agreement, NEW n \in Numbers,
         purchase[n].support # 0,
         supportCase[purchase[n].support].outcome # "pending"
  PROVE  /\ purchase[n].support \in Numbers
         /\ CasesOf(n) = {purchase[n].support}
         /\ DecisionsOf(purchase[n].support) = {purchase[n].support}
<1>1. PICK c : c = purchase[n].support
  OBVIOUS
<1>2. purchase[n] \in Purchases
  BY Types
<1>3. c \in Numbers
  BY <1>1, <1>2 DEF Purchases, Numbers
<1>4. CasesOf(n) = {c}
  BY <1>1, <1>3 DEF Agreement, SameCases, CasesOf
<1>5. decision[c].case = c
  <2>1. decision[c] = [issuer |-> supportCase[c].merchant, case |-> c,
                       outcome |-> supportCase[c].outcome]
    BY <1>1, <1>3 DEF Agreement, SameDecisions
  <2> QED
    BY <2>1
<1>6. \A d \in Numbers : decision[d].case \in {0, d}
  <2> SUFFICES ASSUME NEW d \in Numbers PROVE decision[d].case \in {0, d}
    OBVIOUS
  <2>1. CASE supportCase[d].outcome = "pending"
    <3>1. decision[d] = NoDecision
      BY <2>1 DEF Agreement, SameDecisions
    <3> QED
      BY <3>1 DEF NoDecision
  <2>2. CASE supportCase[d].outcome # "pending"
    <3>1. decision[d] = [issuer |-> supportCase[d].merchant, case |-> d,
                         outcome |-> supportCase[d].outcome]
      BY <2>2 DEF Agreement, SameDecisions
    <3> QED
      BY <3>1
  <2> QED
    BY <2>1, <2>2
<1>7. DecisionsOf(c) = {c}
  BY <1>3, <1>5, <1>6, NotZero DEF DecisionsOf
<1> QED
  BY <1>1, <1>3, <1>4, <1>7

LEMMA OneReview ==
  ASSUME TypeOK, Agreement, NEW n \in Numbers
  PROVE  /\ ReviewsOf(n) = {purchase[n].review} \ {0}
         /\ Earliest(ReviewsOf(n)) = ReviewsOf(n)
<1>1. purchase[n] \in Purchases
  BY Types
<1>2. purchase[n].review = 0 \/ purchase[n].review \in Numbers
  BY <1>1 DEF Purchases, Numbers
<1>3. ReviewsOf(n) = {purchase[n].review} \ {0}
  BY <1>2, NotZero DEF Agreement, SameReviews, ReviewsOf
<1>4. PICK r : r = purchase[n].review
  OBVIOUS
<1>5. CASE r = 0
  <2>1. ReviewsOf(n) = {}
    BY <1>3, <1>4, <1>5
  <2>2. Earliest({}) = {}
    BY DEF Earliest
  <2> QED
    BY <1>3, <2>1, <2>2
<1>6. CASE r \in Numbers
  <2>1. ReviewsOf(n) = {r}
    BY <1>3, <1>4, <1>6, NotZero
  <2> QED
    BY <1>3, <1>6, <2>1, EarliestOfOne
<1> QED
  BY <1>2, <1>4, <1>5, <1>6

LEMMA BridgeFlowIsValid ==
  ASSUME NEW a, NEW r
  PROVE  ValidFlow(BridgeFlow(a, r))
BY DEF ValidFlow, BridgeFlow, MakeFlow

LEMMA EscalationIsAccepted ==
  ASSUME TypeOK, Agreement, NEW n \in Numbers, NEW r,
         purchase[n].support # 0,
         supportCase[purchase[n].support].outcome # "pending"
  PROVE  DomainAcceptsBridge(n, purchase[n].buyer, r, EvidenceOf(n))
<1>1. PICK c : c = purchase[n].support
  OBVIOUS
<1>2. c \in Numbers /\ CasesOf(n) = {c} /\ DecisionsOf(c) = {c}
  BY <1>1, OneCaseOneDecision
<1>3. Earliest(CasesOf(n)) = {c} /\ Earliest(DecisionsOf(c)) = {c}
  BY <1>2, EarliestOfOne
<1>4. EarliestDecisions(n) = {c}
  BY <1>3 DEF EarliestDecisions
<1>5. Earliest(ReviewsOf(n)) = {purchase[n].review} \ {0}
  BY OneReview
<1>6. ExpectedRecords(n) = EvidenceOf(n)
  BY <1>1, <1>3, <1>4, <1>5 DEF ExpectedRecords, EvidenceOf
<1> QED
  BY <1>4, <1>6, BridgeFlowIsValid DEF DomainAcceptsBridge

-----------------------------------------------------------------------------
(* Regulatory cases: the platform's, the domain system's and the bridge    *)
(* are there together, about a purchase whose request was rejected.        *)
NotEscalated(k) ==
  /\ regulatoryCase[k] = NoRegulatoryCase
  /\ domainRegulatory[k] = NoDomainRegulatory
  /\ bridge[k] = NoBridge

Escalated(k) ==
  LET n == regulatoryCase[k].purchase
      c == purchase[n].support
  IN
  /\ n \in Numbers /\ c \in Numbers
  /\ regulatoryCase[k].buyer = purchase[n].buyer
  /\ regulatoryCase[k].buyer \in Users
  /\ supportCase[c].outcome = "rejected"
  /\ domainRegulatory[k] = [claimant |-> purchase[n].buyer, purchase |-> n]
  /\ bridge[k] = [authorizer |-> purchase[n].buyer,
                  recipient |-> regulatoryCase[k].recipient, case |-> k,
                  records |-> regulatoryCase[k].records]
  /\ regulatoryCase[k].recipient \in Regulators \ {purchase[n].buyer}
  /\ {PurchaseId(n), CaseId(c), DecisionId(c)} \subseteq regulatoryCase[k].records
  /\ regulatoryCase[k].records \subseteq EvidenceOf(n)

SameRegulatory ==
  \A n, k \in Numbers :
    regulatoryCase[k].purchase = n <=> purchase[n].regulatory = k

Escalations ==
  SameRegulatory /\ \A k \in Numbers : NotEscalated(k) \/ Escalated(k)

(* What keeps an escalated case as it is. *)
LEMMA EscalatedStays ==
  ASSUME NEW k \in Numbers, Escalated(k),
         regulatoryCase'[k].buyer = regulatoryCase[k].buyer,
         regulatoryCase'[k].recipient = regulatoryCase[k].recipient,
         regulatoryCase'[k].purchase = regulatoryCase[k].purchase,
         regulatoryCase'[k].records = regulatoryCase[k].records,
         domainRegulatory'[k] = domainRegulatory[k],
         bridge'[k] = bridge[k],
         NEW n, n = regulatoryCase[k].purchase,
         purchase'[n].buyer = purchase[n].buyer,
         purchase'[n].support = purchase[n].support,
         purchase[n].review \in {0, purchase'[n].review},
         supportCase'[purchase[n].support].outcome
           = supportCase[purchase[n].support].outcome
  PROVE  Escalated(k)'
<1>1. EvidenceOf(n) \subseteq EvidenceOf(n)'
  BY DEF EvidenceOf, PurchaseId, CaseId, DecisionId, ReviewId
<1> QED
  BY <1>1 DEF Escalated, PurchaseId, CaseId, DecisionId

LEMMA EscalationsStep ==
  ASSUME TypeOK, Agreement, Escalations, Next
  PROVE  Escalations'
<1>1. CASE Quiet \/ Refused
  <2>1. UNCHANGED <<purchase, supportCase, regulatoryCase, domainRegulatory,
                    bridge>>
    BY <1>1, QuietKeeps DEF domain
  <2> QED
    BY <2>1 DEF Escalations, SameRegulatory, NotEscalated, Escalated,
                EvidenceOf, PurchaseId, CaseId, DecisionId, ReviewId
<1>2. CASE Crash
  <2>1. \A n \in Numbers : NotEscalated(n)'
    BY <1>2, CrashStep DEF NotEscalated
  <2>2. \A n \in Numbers : purchase'[n].regulatory = 0
    BY <1>2, CrashStep DEF NoPurchase
  <2>3. \A k \in Numbers : regulatoryCase'[k].purchase = 0
    BY <2>1 DEF NotEscalated, NoRegulatoryCase
  <2> QED
    BY <2>1, <2>2, <2>3, NotZero DEF Escalations, SameRegulatory
<1>3. ASSUME NEW s \in Users, NEW b \in Users, RecordPurchase(s, b)
      PROVE  Escalations'
  <2>1. PICK n \in Numbers : SaleAt(n, s, b)
    BY <1>3, SaleStep
  <2>2. /\ purchase[n].support = 0 /\ purchase[n].regulatory = 0
        /\ purchase'[n].regulatory = 0
        /\ \A m \in Numbers \ {n} : purchase'[m] = purchase[m]
        /\ UNCHANGED <<supportCase, regulatoryCase, domainRegulatory, bridge>>
    BY <2>1 DEF SaleAt, NoPurchase
  <2>3. SameRegulatory'
    BY <2>2 DEF Escalations, SameRegulatory
  <2>4. ASSUME NEW k \in Numbers, Escalated(k)
        PROVE  Escalated(k)'
    <3>1. PICK m : m = regulatoryCase[k].purchase
      OBVIOUS
    <3>2. m \in Numbers /\ m # n
      BY <2>2, <2>4, <3>1, NotZero DEF Escalated
    <3> QED
      BY <2>2, <2>4, <3>1, <3>2, EscalatedStays
  <2> QED
    BY <2>2, <2>3, <2>4 DEF Escalations, NotEscalated
<1>4. ASSUME NEW n \in Numbers, PublishReview(n)
      PROVE  Escalations'
  <2>1. PICK r \in Numbers : ReviewAt(r, n)
    BY <1>4, ReviewStep
  <2>2. /\ purchase[n].review = 0
        /\ \A m \in Numbers : /\ purchase'[m].buyer = purchase[m].buyer
                              /\ purchase'[m].support = purchase[m].support
                              /\ purchase'[m].regulatory = purchase[m].regulatory
                              /\ purchase[m].review \in {0, purchase'[m].review}
        /\ UNCHANGED <<supportCase, regulatoryCase, domainRegulatory, bridge>>
    BY <2>1 DEF ReviewAt
  <2>3. SameRegulatory'
    BY <2>2 DEF Escalations, SameRegulatory
  <2>4. ASSUME NEW k \in Numbers, Escalated(k)
        PROVE  Escalated(k)'
    <3>1. PICK m : m = regulatoryCase[k].purchase
      OBVIOUS
    <3>2. m \in Numbers
      BY <2>4, <3>1 DEF Escalated
    <3> QED
      BY <2>2, <2>4, <3>1, <3>2, EscalatedStays
  <2> QED
    BY <2>2, <2>3, <2>4 DEF Escalations, NotEscalated
<1>5. ASSUME NEW n \in Numbers, NEW h \in Users, RequestSupport(n, h)
      PROVE  Escalations'
  <2>1. PICK c \in Numbers : CaseAt(c, n, h)
    BY <1>5, SupportCaseStep
  <2>2. /\ purchase[n].support = 0
        /\ supportCase[c].outcome = "pending"
        /\ \A m \in Numbers : purchase'[m].regulatory = purchase[m].regulatory
        /\ \A m \in Numbers \ {n} : purchase'[m] = purchase[m]
        /\ \A d \in Numbers \ {c} : supportCase'[d] = supportCase[d]
        /\ UNCHANGED <<regulatoryCase, domainRegulatory, bridge>>
    BY <2>1 DEF CaseAt, NoSupportCase
  <2>3. SameRegulatory'
    BY <2>2 DEF Escalations, SameRegulatory
  <2>4. ASSUME NEW k \in Numbers, Escalated(k)
        PROVE  Escalated(k)'
    <3>1. PICK m : m = regulatoryCase[k].purchase
      OBVIOUS
    <3>2. /\ m \in Numbers /\ m # n
          /\ purchase[m].support \in Numbers /\ purchase[m].support # c
      BY <2>2, <2>4, <3>1, NotZero DEF Escalated
    <3> QED
      BY <2>2, <2>4, <3>1, <3>2, EscalatedStays
  <2> QED
    BY <2>2, <2>3, <2>4 DEF Escalations, NotEscalated
<1>6. ASSUME NEW c \in Numbers, NEW outcome \in Outcomes,
             DecideSupport(c, outcome)
      PROVE  Escalations'
  <2>1. /\ supportCase[c].outcome = "pending"
        /\ \A d \in Numbers \ {c} : supportCase'[d] = supportCase[d]
        /\ UNCHANGED <<purchase, regulatoryCase, domainRegulatory, bridge>>
    BY <1>6, DecisionStep
  <2>2. SameRegulatory'
    BY <2>1 DEF Escalations, SameRegulatory
  <2>3. ASSUME NEW k \in Numbers, Escalated(k)
        PROVE  Escalated(k)'
    <3>1. PICK m : m = regulatoryCase[k].purchase
      OBVIOUS
    <3>2. purchase[m].support \in Numbers /\ purchase[m].support # c
      BY <2>1, <2>3, <3>1 DEF Escalated
    <3> QED
      BY <2>1, <2>3, <3>1, <3>2, EscalatedStays
  <2> QED
    BY <2>1, <2>2, <2>3 DEF Escalations, NotEscalated
<1>7. ASSUME NEW n \in Numbers, NEW r \in Users, Escalate(n, r)
      PROVE  Escalations'
  <2>1. PICK k \in Numbers : EscalationAt(k, n, r)
    BY <1>7, EscalationStep
  <2>2. /\ purchase[n] # NoPurchase /\ purchase[n].regulatory = 0
        /\ purchase[n].support # 0
        /\ supportCase[purchase[n].support].outcome = "rejected"
        /\ r \in Regulators /\ r # purchase[n].buyer
    BY <2>1 DEF EscalationAt, MayEscalate
  <2>3. DomainAcceptsBridge(n, purchase[n].buyer, r, EvidenceOf(n))
    BY <2>2, EscalationIsAccepted
  <2>4. /\ regulatoryCase[k] = NoRegulatoryCase
        /\ domainRegulatory'[k] = [claimant |-> credential[n].holder,
                                   purchase |-> n]
        /\ bridge'[k] = [authorizer |-> purchase[n].buyer, recipient |-> r,
                         case |-> k, records |-> EvidenceOf(n)]
        /\ regulatoryCase'[k].buyer = purchase[n].buyer
        /\ regulatoryCase'[k].recipient = r
        /\ regulatoryCase'[k].purchase = n
        /\ regulatoryCase'[k].records = EvidenceOf(n)
        /\ purchase'[n].regulatory = k
        /\ \A m \in Numbers : /\ purchase'[m].buyer = purchase[m].buyer
                              /\ purchase'[m].review = purchase[m].review
                              /\ purchase'[m].support = purchase[m].support
        /\ \A m \in Numbers \ {n} : purchase'[m] = purchase[m]
        /\ \A j \in Numbers \ {k} :
             /\ domainRegulatory'[j] = domainRegulatory[j]
             /\ bridge'[j] = bridge[j]
             /\ regulatoryCase'[j] = regulatoryCase[j]
        /\ UNCHANGED supportCase
    BY <2>1, <2>3 DEF EscalationAt
  <2>5. regulatoryCase[k].purchase = 0
    BY <2>4 DEF NoRegulatoryCase
  <2>6. SameRegulatory'
    BY <2>2, <2>4, <2>5, NotZero DEF Escalations, SameRegulatory
  <2>7. ASSUME NEW j \in Numbers \ {k}, Escalated(j)
        PROVE  Escalated(j)'
    <3>1. PICK m : m = regulatoryCase[j].purchase
      OBVIOUS
    <3>2. m \in Numbers
      BY <2>7, <3>1 DEF Escalated
    <3> QED
      BY <2>4, <2>7, <3>1, <3>2, EscalatedStays
  <2>8. ASSUME NEW j \in Numbers \ {k}, NotEscalated(j)
        PROVE  NotEscalated(j)'
    BY <2>4, <2>8 DEF NotEscalated
  <2>9. Escalated(k)'
    <3>1. credential[n].holder = purchase[n].buyer
      <4>1. credential[n] = [holder |-> purchase[n].buyer,
                             issuer |-> purchase[n].issuer]
        BY DEF Agreement, SameSales
      <4> QED
        BY <4>1
    <3>2. purchase[n].buyer \in Users
      BY <2>2 DEF Agreement, SoldToOthers
    <3>3. purchase[n].support \in Numbers
      BY <2>2, OneCaseOneDecision
    <3>4. EvidenceOf(n)' = EvidenceOf(n)
      BY <2>4 DEF EvidenceOf, PurchaseId, CaseId, DecisionId, ReviewId
    <3>5. {PurchaseId(n), CaseId(purchase[n].support),
           DecisionId(purchase[n].support)} \subseteq EvidenceOf(n)
      BY DEF EvidenceOf
    <3> QED
      BY <2>2, <2>4, <3>1, <3>2, <3>3, <3>4, <3>5
         DEF Escalated, PurchaseId, CaseId, DecisionId
  <2> QED
    BY <2>6, <2>7, <2>8, <2>9 DEF Escalations
<1>8. ASSUME NEW k \in Numbers, VerifyCase(k)
      PROVE  Escalations'
  <2>1. /\ regulatoryCase[k] # NoRegulatoryCase
        /\ \A j \in Numbers :
             /\ regulatoryCase'[j].buyer = regulatoryCase[j].buyer
             /\ regulatoryCase'[j].recipient = regulatoryCase[j].recipient
             /\ regulatoryCase'[j].purchase = regulatoryCase[j].purchase
             /\ regulatoryCase'[j].records = regulatoryCase[j].records
        /\ \A j \in Numbers \ {k} : regulatoryCase'[j] = regulatoryCase[j]
        /\ UNCHANGED <<purchase, supportCase, domainRegulatory, bridge>>
    BY <1>8, VerificationStep
  <2>2. SameRegulatory'
    BY <2>1 DEF Escalations, SameRegulatory
  <2>3. ASSUME NEW j \in Numbers, Escalated(j)
        PROVE  Escalated(j)'
    <3>1. PICK m : m = regulatoryCase[j].purchase
      OBVIOUS
    <3> QED
      BY <2>1, <2>3, <3>1, EscalatedStays
  <2>4. ASSUME NEW j \in Numbers \ {k}, NotEscalated(j)
        PROVE  NotEscalated(j)'
    BY <2>1, <2>4 DEF NotEscalated
  <2>5. ~NotEscalated(k)
    BY <2>1 DEF NotEscalated
  <2> QED
    BY <2>2, <2>3, <2>4, <2>5 DEF Escalations
<1> QED
  BY <1>1, <1>2, <1>3, <1>4, <1>5, <1>6, <1>7, <1>8, NextCases

-----------------------------------------------------------------------------
(* The commitments. *)

(* The ids of the commitments, with one record more. *)
LEMMA IdsGrow ==
  ASSUME NEW R, NEW i
  PROVE  /\ {ReviewId(x) : x \in R \union {i}}
              = {ReviewId(x) : x \in R} \union {ReviewId(i)}
         /\ {CaseId(x) : x \in R \union {i}}
              = {CaseId(x) : x \in R} \union {CaseId(i)}
         /\ {DecisionId(x) : x \in R \union {i}}
              = {DecisionId(x) : x \in R} \union {DecisionId(i)}
         /\ {BridgeId(x) : x \in R \union {i}}
              = {BridgeId(x) : x \in R} \union {BridgeId(i)}
OBVIOUS

LEMMA CommitmentsStep ==
  ASSUME TypeOK, Agreement, CommitmentsMatchRecords, Next
  PROVE  CommitmentsMatchRecords'
<1>1. CASE \/ Quiet \/ Refused
           \/ \E s, b \in Users : RecordPurchase(s, b)
           \/ \E k \in Numbers : VerifyCase(k)
  <2>1. UNCHANGED <<reviewOf, domainCase, decision, bridge, actions>>
    BY <1>1, QuietKeeps DEF domain, RecordPurchase, VerifyCase
  <2> QED
    BY <2>1 DEF CommitmentsMatchRecords, Rows
<1>2. CASE Crash
  <2>1. /\ Rows(reviewOf', 0) = {} /\ Rows(domainCase', NoDomainCase) = {}
        /\ Rows(decision', NoDecision) = {} /\ Rows(bridge', NoBridge) = {}
        /\ actions' = {}
    BY <1>2, CrashStep DEF Rows
  <2> QED
    BY <2>1 DEF CommitmentsMatchRecords
<1>3. ASSUME NEW n \in Numbers, PublishReview(n)
      PROVE  CommitmentsMatchRecords'
  <2>1. PICK r \in Numbers : ReviewAt(r, n)
    BY <1>3, ReviewStep
  <2>2. Rows(reviewOf', 0) = Rows(reviewOf, 0) \union {r}
    BY <2>1, NotZero DEF ReviewAt, Rows
  <2>3. /\ actions' = actions \union {ReviewId(r)}
        /\ UNCHANGED <<domainCase, decision, bridge>>
    BY <2>1 DEF ReviewAt
  <2> QED
    BY <2>2, <2>3, IdsGrow DEF CommitmentsMatchRecords
<1>4. ASSUME NEW n \in Numbers, NEW h \in Users, RequestSupport(n, h)
      PROVE  CommitmentsMatchRecords'
  <2>1. PICK c \in Numbers : CaseAt(c, n, h)
    BY <1>4, SupportCaseStep
  <2>2. domainCase'[c] # NoDomainCase
    BY <2>1, NotZero DEF CaseAt, NoDomainCase
  <2>3. Rows(domainCase', NoDomainCase)
          = Rows(domainCase, NoDomainCase) \union {c}
    BY <2>1, <2>2 DEF CaseAt, Rows
  <2>4. /\ actions' = actions \union {CaseId(c)}
        /\ UNCHANGED <<reviewOf, decision, bridge>>
    BY <2>1 DEF CaseAt
  <2> QED
    BY <2>3, <2>4, IdsGrow DEF CommitmentsMatchRecords
<1>5. ASSUME NEW c \in Numbers, NEW outcome \in Outcomes,
             DecideSupport(c, outcome)
      PROVE  CommitmentsMatchRecords'
  <2>1. /\ decision'[c] = [issuer |-> supportCase[c].merchant, case |-> c,
                           outcome |-> outcome]
        /\ \A d \in Numbers \ {c} : decision'[d] = decision[d]
        /\ actions' = actions \union {DecisionId(c)}
        /\ UNCHANGED <<reviewOf, domainCase, bridge>>
    BY <1>5, DecisionStep
  <2>2. decision'[c] # NoDecision
    BY <2>1, NotZero DEF NoDecision
  <2>3. Rows(decision', NoDecision) = Rows(decision, NoDecision) \union {c}
    BY <2>1, <2>2 DEF Rows
  <2> QED
    BY <2>1, <2>3, IdsGrow DEF CommitmentsMatchRecords
<1>6. ASSUME NEW n \in Numbers, NEW r \in Users, Escalate(n, r)
      PROVE  CommitmentsMatchRecords'
  <2>1. PICK k \in Numbers : EscalationAt(k, n, r)
    BY <1>6, EscalationStep
  <2>2. DomainAcceptsBridge(n, purchase[n].buyer, r, EvidenceOf(n))
    BY <2>1, EscalationIsAccepted DEF EscalationAt, MayEscalate
  <2>3. /\ bridge'[k] = [authorizer |-> purchase[n].buyer, recipient |-> r,
                         case |-> k, records |-> EvidenceOf(n)]
        /\ \A j \in Numbers \ {k} : bridge'[j] = bridge[j]
        /\ actions' = actions \union {BridgeId(k)}
        /\ UNCHANGED <<reviewOf, domainCase, decision>>
    BY <2>1, <2>2 DEF EscalationAt
  <2>4. bridge'[k] # NoBridge
    BY <2>3, NotZero DEF NoBridge
  <2>5. Rows(bridge', NoBridge) = Rows(bridge, NoBridge) \union {k}
    BY <2>3, <2>4 DEF Rows
  <2> QED
    BY <2>3, <2>5, IdsGrow DEF CommitmentsMatchRecords
<1> QED
  BY <1>1, <1>2, <1>3, <1>4, <1>5, <1>6, NextCases

-----------------------------------------------------------------------------
(* The inductive invariant. *)
CasesInv ==
  TypeOK /\ Agreement /\ Escalations /\ CommitmentsMatchRecords

LEMMA CasesInit == Init => CasesInv
<1> SUFFICES ASSUME Init PROVE CasesInv
  OBVIOUS
<1>1. /\ issuers = {Creator} /\ handlers = {Creator} /\ late = {}
      /\ sequence = NothingDrawn /\ actions = {}
      /\ purchase = Nothing(NoPurchase)
      /\ supportCase = Nothing(NoSupportCase)
      /\ regulatoryCase = Nothing(NoRegulatoryCase)
      /\ credential = Nothing(NoCredential) /\ reviewOf = Nothing(0)
      /\ domainCase = Nothing(NoDomainCase)
      /\ decision = Nothing(NoDecision)
      /\ domainRegulatory = Nothing(NoDomainRegulatory)
      /\ bridge = Nothing(NoBridge)
  BY DEF Init, EmptyDomain
<1>2. NumbersAreDrawn
  BY <1>1 DEF NumbersAreDrawn, Rows, Nothing
<1>3. PlatformTypeOK
  BY <1>1, NumbersAreNat
     DEF PlatformTypeOK, NothingDrawn, Nothing, NoPurchase, NoSupportCase,
         NoRegulatoryCase
<1>4. DomainTypeOK
  BY <1>1, NumbersAreNat
     DEF DomainTypeOK, Nothing, NoCredential, NoDomainCase, NoDecision,
         NoDomainRegulatory, NoBridge
<1>5. Agreement
  BY <1>1, NotZero
     DEF Agreement, SameSales, SameReviews, SameCases, SameRows,
         SameDecisions, SoldToOthers, WithTheSeller, Nothing, NoPurchase,
         NoCredential, NoSupportCase, NoDomainCase
<1>6. Escalations
  BY <1>1, NotZero
     DEF Escalations, SameRegulatory, NotEscalated, Nothing, NoPurchase,
         NoRegulatoryCase
<1>7. CommitmentsMatchRecords
  BY <1>1 DEF CommitmentsMatchRecords, Rows, Nothing
<1> QED
  BY <1>2, <1>3, <1>4, <1>5, <1>6, <1>7 DEF CasesInv, TypeOK

LEMMA CasesStutter ==
  ASSUME CasesInv, UNCHANGED vars
  PROVE  CasesInv'
<1>1. UNCHANGED <<issuers, handlers, late, sequence, purchase, supportCase,
                  regulatoryCase, credential, reviewOf, domainCase, decision,
                  domainRegulatory, bridge, actions>>
  BY DEF vars, authority, platform, domain
<1>2. TypeOK'
  BY <1>1 DEF CasesInv, TypeOK, PlatformTypeOK, DomainTypeOK, NumbersAreDrawn,
              Rows
<1>3. Agreement'
  BY <1>1 DEF CasesInv, Agreement, SameSales, SameReviews, SameCases, SameRows,
              SameDecisions, SoldToOthers, WithTheSeller
<1>4. Escalations'
  BY <1>1 DEF CasesInv, Escalations, SameRegulatory, NotEscalated, Escalated,
              EvidenceOf, PurchaseId, CaseId, DecisionId, ReviewId
<1>5. CommitmentsMatchRecords'
  BY <1>1 DEF CasesInv, CommitmentsMatchRecords, Rows
<1> QED
  BY <1>2, <1>3, <1>4, <1>5 DEF CasesInv

LEMMA CasesInvariant == Spec => []CasesInv
<1>1. CasesInv /\ [Next]_vars => CasesInv'
  <2> SUFFICES ASSUME CasesInv, [Next]_vars PROVE CasesInv'
    OBVIOUS
  <2>1. CASE Next
    BY <2>1, TypeStep, AgreementStep, EscalationsStep, CommitmentsStep
       DEF CasesInv
  <2>2. CASE UNCHANGED vars
    BY <2>2, CasesStutter
  <2> QED
    BY <2>1, <2>2
<1> QED
  BY <1>1, CasesInit, PTL DEF Spec

-----------------------------------------------------------------------------
(* What the invariant says, in the words of the properties. *)
LEMMA MapsDoAgree == CasesInv => MapsAgree
<1> SUFFICES ASSUME CasesInv PROVE MapsAgree
  OBVIOUS
<1> USE DEF CasesInv
<1>1. ASSUME NEW n \in Numbers
      PROVE  /\ credential[n] = [holder |-> purchase[n].buyer,
                                 issuer |-> purchase[n].issuer]
             /\ ReviewsOf(n) = {purchase[n].review} \ {0}
             /\ CasesOf(n) = {purchase[n].support} \ {0}
  <2>1. purchase[n] \in Purchases
    BY Types
  <2>2. purchase[n].support = 0 \/ purchase[n].support \in Numbers
    BY <2>1 DEF Purchases, Numbers
  <2>3. CasesOf(n) = {purchase[n].support} \ {0}
    BY <2>2, NotZero DEF Agreement, SameCases, CasesOf
  <2> QED
    BY <2>3, OneReview DEF Agreement, SameSales
<1>2. SameRows /\ SameDecisions
  BY DEF Agreement
<1> QED
  BY <1>1, <1>2 DEF MapsAgree, SameRows, SameDecisions

LEMMA SellersHandle == CasesInv => HandlerIsTheSeller
<1> SUFFICES ASSUME CasesInv, NEW c \in Rows(supportCase, NoSupportCase),
                    NEW n, n = supportCase[c].purchase
             PROVE  /\ supportCase[c].merchant = purchase[n].issuer
                    /\ supportCase[c].merchant # purchase[n].buyer
                    /\ supportCase[c].buyer = purchase[n].buyer
  BY DEF HandlerIsTheSeller
<1>1. /\ n \in Numbers /\ purchase[n].buyer \in Users
      /\ supportCase[c].merchant = purchase[n].issuer
      /\ supportCase[c].buyer = purchase[n].buyer
  BY DEF CasesInv, Agreement, WithTheSeller, Rows
<1>2. purchase[n] # NoPurchase
  BY <1>1 DEF NoPurchase
<1> QED
  BY <1>1, <1>2 DEF CasesInv, Agreement, SoldToOthers

(* The rows of one regulatory case. *)
LEMMA EscalatedRows ==
  ASSUME CasesInv, NEW k \in Numbers,
         \/ regulatoryCase[k] # NoRegulatoryCase
         \/ domainRegulatory[k] # NoDomainRegulatory
         \/ bridge[k] # NoBridge
  PROVE  /\ Escalated(k)
         /\ domainRegulatory[k] # NoDomainRegulatory /\ bridge[k] # NoBridge
         /\ purchase[regulatoryCase[k].purchase].regulatory = k
<1>1. Escalated(k)
  BY DEF CasesInv, Escalations, NotEscalated
<1>2. PICK n : n = regulatoryCase[k].purchase
  OBVIOUS
<1>3. /\ n \in Numbers
      /\ domainRegulatory[k] = [claimant |-> purchase[n].buyer, purchase |-> n]
      /\ bridge[k] = [authorizer |-> purchase[n].buyer,
                      recipient |-> regulatoryCase[k].recipient, case |-> k,
                      records |-> regulatoryCase[k].records]
  BY <1>1, <1>2 DEF Escalated
<1>4. domainRegulatory[k] # NoDomainRegulatory /\ bridge[k] # NoBridge
  BY <1>3, NotZero DEF NoDomainRegulatory, NoBridge
<1>5. purchase[n].regulatory = k
  BY <1>2, <1>3 DEF CasesInv, Escalations, SameRegulatory
<1> QED
  BY <1>1, <1>2, <1>4, <1>5

LEMMA DisclosuresAreOwn == CasesInv => DisclosureIsOneOwnPurchase
<1> SUFFICES ASSUME CasesInv PROVE DisclosureIsOneOwnPurchase
  OBVIOUS
<1>1. ASSUME NEW j \in Rows(bridge, NoBridge), NEW k, k = bridge[j].case,
             NEW n, n = domainRegulatory[k].purchase
      PROVE  /\ k \in Rows(domainRegulatory, NoDomainRegulatory)
             /\ n \in Rows(credential, NoCredential)
             /\ bridge[j].authorizer = credential[n].holder
             /\ \E c \in CasesOf(n) : \E d \in DecisionsOf(c) :
                  /\ {PurchaseId(n), CaseId(c), DecisionId(d)}
                       \subseteq bridge[j].records
                  /\ bridge[j].records
                       \subseteq {PurchaseId(n), CaseId(c), DecisionId(d)}
                                 \union {ReviewId(r) : r \in ReviewsOf(n)}
  <2>1. j \in Numbers /\ Escalated(j) /\ domainRegulatory[j] # NoDomainRegulatory
    BY <1>1, EscalatedRows DEF Rows
  <2>2. PICK m : m = regulatoryCase[j].purchase
    OBVIOUS
  <2>3. PICK c : c = purchase[m].support
    OBVIOUS
  <2>4. /\ m \in Numbers /\ c \in Numbers /\ purchase[m].buyer \in Users
        /\ supportCase[c].outcome = "rejected"
        /\ domainRegulatory[j] = [claimant |-> purchase[m].buyer, purchase |-> m]
        /\ bridge[j] = [authorizer |-> purchase[m].buyer,
                        recipient |-> regulatoryCase[j].recipient, case |-> j,
                        records |-> regulatoryCase[j].records]
        /\ {PurchaseId(m), CaseId(c), DecisionId(c)}
             \subseteq regulatoryCase[j].records
        /\ regulatoryCase[j].records \subseteq EvidenceOf(m)
    BY <2>1, <2>2, <2>3 DEF Escalated
  <2>5. /\ k = j /\ n = m /\ bridge[j].authorizer = purchase[m].buyer
        /\ bridge[j].records = regulatoryCase[j].records
    BY <1>1, <2>4
  <2>6. credential[m] = [holder |-> purchase[m].buyer,
                         issuer |-> purchase[m].issuer]
    BY <2>4 DEF CasesInv, Agreement, SameSales
  <2>7. credential[m] # NoCredential /\ credential[m].holder = purchase[m].buyer
    BY <2>4, <2>6 DEF NoCredential
  <2>8. c \in CasesOf(m) /\ c \in DecisionsOf(c)
    BY <2>3, <2>4, NotZero, OneCaseOneDecision DEF CasesInv
  <2>9. ReviewsOf(m) = {purchase[m].review} \ {0}
    BY <2>4, OneReview DEF CasesInv
  <2>10. EvidenceOf(m) = {PurchaseId(m), CaseId(c), DecisionId(c)}
                         \union {ReviewId(r) : r \in ReviewsOf(m)}
    BY <2>3, <2>9 DEF EvidenceOf
  <2> QED
    BY <2>1, <2>4, <2>5, <2>7, <2>8, <2>10 DEF Rows
<1>2. BridgesAreComplete
  BY <1>1 DEF BridgesAreComplete
<1>3. ASSUME NEW k \in Rows(domainRegulatory, NoDomainRegulatory)
      PROVE  /\ bridge[k].case = k
             /\ regulatoryCase[k].records = bridge[k].records
             /\ regulatoryCase[k].recipient = bridge[k].recipient
             /\ purchase[domainRegulatory[k].purchase].regulatory = k
  <2>1. /\ Escalated(k)
        /\ purchase[regulatoryCase[k].purchase].regulatory = k
    BY <1>3, EscalatedRows DEF Rows
  <2>2. PICK n : n = regulatoryCase[k].purchase
    OBVIOUS
  <2>3. /\ domainRegulatory[k] = [claimant |-> purchase[n].buyer, purchase |-> n]
        /\ bridge[k] = [authorizer |-> purchase[n].buyer,
                        recipient |-> regulatoryCase[k].recipient, case |-> k,
                        records |-> regulatoryCase[k].records]
    BY <2>1, <2>2 DEF Escalated
  <2> QED
    BY <2>1, <2>2, <2>3
<1> QED
  BY <1>2, <1>3 DEF DisclosureIsOneOwnPurchase

LEMMA OffersAreAccepted == CasesInv => CaseOffersAreAccepted
<1> SUFFICES ASSUME CasesInv PROVE CaseOffersAreAccepted
  OBVIOUS
<1>1. ASSUME NEW n \in Numbers, CanReview(n)
      PROVE  DomainAcceptsReview(n)
  <2>1. purchase[n].buyer \in Users /\ purchase[n].review = 0
    BY <1>1 DEF CanReview, CasesInv, Agreement, SoldToOthers
  <2>2. credential[n] = [holder |-> purchase[n].buyer,
                         issuer |-> purchase[n].issuer]
    BY DEF CasesInv, Agreement, SameSales
  <2>3. credential[n] # NoCredential
    BY <2>1, <2>2 DEF NoCredential
  <2>4. ~NullifierUsed(n)
    BY <2>1, OneReview DEF CasesInv, NullifierUsed
  <2>5. ValidFlow(ReviewFlow(n))
    BY DEF ValidFlow, ReviewFlow, MakeFlow
  <2> QED
    BY <2>3, <2>4, <2>5 DEF DomainAcceptsReview
<1>2. ASSUME NEW n \in Numbers, CanEscalate(n),
             NEW r \in AvailableRegulators(purchase[n].buyer)
      PROVE  DomainAcceptsBridge(n, purchase[n].buyer, r, EvidenceOf(n))
  BY <1>2, EscalationIsAccepted DEF CanEscalate, CasesInv
<1>3. ASSUME NEW u \in Users, NEW c \in SupportInbox(u),
             supportCase[c].outcome = "pending"
      PROVE  decision[c] = NoDecision /\ DomainAcceptsDecision(c, u)
  <2>1. /\ c \in Numbers /\ supportCase[c] # NoSupportCase
        /\ supportCase[c].merchant = u
    BY DEF SupportInbox, Rows
  <2>2. decision[c] = NoDecision
    BY <1>3, <2>1 DEF CasesInv, Agreement, SameDecisions
  <2>3. PICK n : n = supportCase[c].purchase
    OBVIOUS
  <2>4. n \in Numbers /\ supportCase[c].buyer = purchase[n].buyer
    BY <2>1, <2>3 DEF CasesInv, Agreement, WithTheSeller
  <2>5. domainCase[c] = [claimant |-> purchase[n].buyer, recipient |-> u,
                         purchase |-> n]
    BY <2>1, <2>3, <2>4 DEF CasesInv, Agreement, SameRows
  <2>6. domainCase[c] # NoDomainCase /\ domainCase[c].recipient = u
        /\ domainCase[c].claimant = purchase[n].buyer
        /\ domainCase[c].purchase = n
    BY <2>4, <2>5, NotZero DEF NoDomainCase
  <2>7. credential[n].holder = purchase[n].buyer
    <3>1. credential[n] = [holder |-> purchase[n].buyer,
                           issuer |-> purchase[n].issuer]
      BY <2>4 DEF CasesInv, Agreement, SameSales
    <3> QED
      BY <3>1
  <2>8. ValidFlow(DecisionFlow(c, u))
    BY <2>6, <2>7 DEF ValidFlow, DecisionFlow, MakeFlow
  <2> QED
    BY <2>2, <2>6, <2>8 DEF DomainAcceptsDecision
<1>4. ASSUME NEW u \in Users, NEW k \in AssignedCases(u)
      PROVE  DomainVerifies(k)
  <2>1. k \in Numbers /\ regulatoryCase[k] # NoRegulatoryCase
    BY DEF AssignedCases, Rows
  <2>2. Escalated(k) /\ bridge[k] # NoBridge
    BY <2>1, EscalatedRows
  <2>3. PICK n : n = regulatoryCase[k].purchase
    OBVIOUS
  <2>4. bridge[k] = [authorizer |-> purchase[n].buyer,
                     recipient |-> regulatoryCase[k].recipient, case |-> k,
                     records |-> regulatoryCase[k].records]
    BY <2>2, <2>3 DEF Escalated
  <2> QED
    BY <2>2, <2>4 DEF DomainVerifies, MayVerifyBridge
<1> QED
  BY <1>1, <1>2, <1>3, <1>4 DEF CaseOffersAreAccepted

LEMMA ResultsStay ==
  ASSUME CasesInv, [Next]_vars, NEW k \in Numbers, regulatoryCase[k].verified
  PROVE  regulatoryCase'[k] \in {regulatoryCase[k], NoRegulatoryCase}
<1>1. TypeOK
  BY DEF CasesInv
<1>2. CASE UNCHANGED vars
  BY <1>2 DEF vars, platform
<1>3. CASE Quiet \/ Refused
  BY <1>3, QuietKeeps
<1>4. CASE Crash
  BY <1>4, CrashStep
<1>5. CASE \/ \E s, b \in Users : RecordPurchase(s, b)
           \/ \E n \in Numbers : PublishReview(n)
           \/ \E n \in Numbers, h \in Users : RequestSupport(n, h)
           \/ \E c \in Numbers, outcome \in Outcomes : DecideSupport(c, outcome)
  BY <1>5 DEF RecordPurchase, PublishReview, RequestSupport, DecideSupport
<1>6. ASSUME NEW n \in Numbers, NEW r \in Users, Escalate(n, r)
      PROVE  regulatoryCase'[k] = regulatoryCase[k]
  <2>1. PICK j \in Numbers : EscalationAt(j, n, r)
    BY <1>1, <1>6, EscalationStep
  <2>2. k # j
    BY <2>1 DEF EscalationAt, NoRegulatoryCase
  <2> QED
    BY <2>1, <2>2 DEF EscalationAt
<1>7. ASSUME NEW j \in Numbers, VerifyCase(j)
      PROVE  regulatoryCase'[k] = regulatoryCase[k]
  BY <1>1, <1>7, VerificationStep
<1> QED
  BY <1>2, <1>3, <1>4, <1>5, <1>6, <1>7, NextCases

-----------------------------------------------------------------------------
(* Every map keeps its type and every row has a number that was drawn,     *)
(* whatever is refused half way through a handler.                         *)
THEOREM CasesTypeCorrect == Spec => []TypeOK
<1>1. CasesInv => TypeOK
  BY DEF CasesInv
<1> QED
  BY <1>1, CasesInvariant, PTL

(* The maps of the platform and those of the domain system tell the same   *)
(* story of every purchase.                                                *)
THEOREM PlatformAgreesWithDomain == Spec => []MapsAgree
BY MapsDoAgree, CasesInvariant, PTL

(* A replacement request is with the seller of the purchase and never with *)
(* its buyer, whoever is a member, a handler or a buyer at what time.      *)
THEOREM SellerHandlesRequest == Spec => []HandlerIsTheSeller
BY SellersHandle, CasesInvariant, PTL

(* What an escalation discloses is one purchase of the one who escalates,  *)
(* and no regulatory case is left half open.                               *)
THEOREM DisclosureIsOwn == Spec => []DisclosureIsOneOwnPurchase
BY DisclosuresAreOwn, CasesInvariant, PTL

(* There is a commitment for each record and none besides.                 *)
THEOREM CaseCommitmentsMatch == Spec => []CommitmentsMatchRecords
<1>1. CasesInv => CommitmentsMatchRecords
  BY DEF CasesInv
<1> QED
  BY <1>1, CasesInvariant, PTL

(* What the dashboard offers to do with purchases and cases, the domain    *)
(* system accepts (requests for a replacement excepted).                   *)
THEOREM OffersHold == Spec => []CaseOffersAreAccepted
BY OffersAreAccepted, CasesInvariant, PTL

(* A verified case keeps the result that was reported, until the end of    *)
(* the process.                                                            *)
THEOREM ResultsFinal == Spec => ResultsAreFinal
<1>1. CasesInv /\ [Next]_vars
      => [\A k \in Numbers :
            regulatoryCase[k].verified
            => regulatoryCase'[k] \in {regulatoryCase[k], NoRegulatoryCase}]_vars
  BY ResultsStay
<1> QED
  BY <1>1, CasesInvariant, PTL DEF Spec, ResultsAreFinal

-----------------------------------------------------------------------------
(* The journey of a purchase, which is defined by the domain system's      *)
(* records, is what the platform's rows say.                               *)
SupportSeen(n) ==
  IF purchase[n].support = 0 THEN "none"
  ELSE supportCase[purchase[n].support].outcome

RegulatorSeen(n) ==
  IF purchase[n].regulatory = 0 THEN NoUser
  ELSE regulatoryCase[purchase[n].regulatory].recipient

VerifiedSeen(n) ==
  purchase[n].regulatory # 0 /\ regulatoryCase[purchase[n].regulatory].verified

JourneySeen(n) ==
  [buyer |-> purchase[n].buyer, seller |-> purchase[n].issuer,
   reviewed |-> purchase[n].review # 0, support |-> SupportSeen(n),
   regulator |-> RegulatorSeen(n), verified |-> VerifiedSeen(n)]

LEMMA SupportIsSeen ==
  ASSUME CasesInv, NEW n \in Numbers
  PROVE  SupportOf(n) = SupportSeen(n)
<1>1. PICK c : c = purchase[n].support
  OBVIOUS
<1>2. CasesOf(n) = {c} \ {0}
  BY <1>1, MapsDoAgree DEF MapsAgree
<1>3. CASE c = 0
  BY <1>1, <1>2, <1>3 DEF SupportOf, SupportSeen
<1>4. CASE c # 0
  <2>1. CasesOf(n) = {c} /\ c \in Numbers
    <3>1. purchase[n] \in Purchases
      BY Types DEF CasesInv
    <3> QED
      BY <1>1, <1>2, <1>4, <3>1 DEF Purchases, Numbers
  <2> DEFINE e == CHOOSE e \in CasesOf(n) : \A d \in CasesOf(n) : d <= e
  <2>2. e = c
    BY <2>1, NumbersAreNat
  <2>3. SupportOf(n) = IF DecisionsOf(c) = {} THEN "pending"
                       ELSE decision[CHOOSE d \in DecisionsOf(c) : TRUE].outcome
    <3>1. CasesOf(n) # {}
      BY <2>1
    <3>2. SupportOf(n) = IF DecisionsOf(e) = {} THEN "pending"
                         ELSE decision[CHOOSE d \in DecisionsOf(e) : TRUE].outcome
      BY <3>1 DEF SupportOf
    <3> HIDE DEF e
    <3> QED
      BY <2>2, <3>2
  <2>4. CASE supportCase[c].outcome = "pending"
    <3>1. decision[c] = NoDecision
      BY <2>1, <2>4 DEF CasesInv, Agreement, SameDecisions
    <3>2. \A d \in Numbers \ {c} : decision[d].case \in {0, d}
      <4> SUFFICES ASSUME NEW d \in Numbers PROVE decision[d].case \in {0, d}
        OBVIOUS
      <4>1. CASE supportCase[d].outcome = "pending"
        <5>1. decision[d] = NoDecision
          BY <4>1 DEF CasesInv, Agreement, SameDecisions
        <5> QED
          BY <5>1 DEF NoDecision
      <4>2. CASE supportCase[d].outcome # "pending"
        <5>1. decision[d] = [issuer |-> supportCase[d].merchant, case |-> d,
                             outcome |-> supportCase[d].outcome]
          BY <4>2 DEF CasesInv, Agreement, SameDecisions
        <5> QED
          BY <5>1
      <4> QED
        BY <4>1, <4>2
    <3>3. decision[c].case = 0
      BY <3>1 DEF NoDecision
    <3>4. DecisionsOf(c) = {}
      BY <2>1, <3>2, <3>3, NotZero DEF DecisionsOf
    <3> QED
      BY <1>1, <1>4, <2>3, <2>4, <3>4 DEF SupportSeen
  <2>5. CASE supportCase[c].outcome # "pending"
    <3>1. DecisionsOf(c) = {c}
      BY <1>1, <1>4, <2>5, OneCaseOneDecision DEF CasesInv
    <3>2. decision[c] = [issuer |-> supportCase[c].merchant, case |-> c,
                         outcome |-> supportCase[c].outcome]
      BY <2>1, <2>5 DEF CasesInv, Agreement, SameDecisions
    <3>3. SupportOf(n) = decision[c].outcome
      BY <2>3, <3>1
    <3> QED
      BY <1>1, <1>4, <3>2, <3>3 DEF SupportSeen
  <2> QED
    BY <2>4, <2>5
<1> QED
  BY <1>3, <1>4

(* A purchase has one bridge at most, that of its regulatory case. *)
LEMMA BridgeIsSeen ==
  ASSUME CasesInv, NEW n \in Numbers
  PROVE  /\ BridgesOf(n) = {purchase[n].regulatory} \ {0}
         /\ \A k \in BridgesOf(n) : /\ bridge[k].case = k
                                   /\ bridge[k].recipient
                                        = regulatoryCase[k].recipient
<1>1. \A k \in Rows(bridge, NoBridge) :
        /\ bridge[k].case = k
        /\ bridge[k].recipient = regulatoryCase[k].recipient
        /\ domainRegulatory[k].purchase = regulatoryCase[k].purchase
  <2> SUFFICES ASSUME NEW k \in Rows(bridge, NoBridge)
               PROVE  /\ bridge[k].case = k
                      /\ bridge[k].recipient = regulatoryCase[k].recipient
                      /\ domainRegulatory[k].purchase
                           = regulatoryCase[k].purchase
    OBVIOUS
  <2>1. Escalated(k)
    BY EscalatedRows DEF Rows
  <2>2. PICK m : m = regulatoryCase[k].purchase
    OBVIOUS
  <2>3. /\ domainRegulatory[k] = [claimant |-> purchase[m].buyer, purchase |-> m]
        /\ bridge[k] = [authorizer |-> purchase[m].buyer,
                        recipient |-> regulatoryCase[k].recipient, case |-> k,
                        records |-> regulatoryCase[k].records]
    BY <2>1, <2>2 DEF Escalated
  <2> QED
    BY <2>2, <2>3
<1>2. BridgesOf(n) = {k \in Rows(bridge, NoBridge) :
                        regulatoryCase[k].purchase = n}
  BY <1>1 DEF BridgesOf
<1>3. \A k \in Numbers : regulatoryCase[k].purchase = n
                        => k \in Rows(bridge, NoBridge)
  <2> SUFFICES ASSUME NEW k \in Numbers, regulatoryCase[k].purchase = n
               PROVE  bridge[k] # NoBridge
    BY DEF Rows
  <2>1. regulatoryCase[k] # NoRegulatoryCase
    BY NotZero DEF NoRegulatoryCase
  <2> QED
    BY <2>1, EscalatedRows
<1>4. \A k \in Numbers : regulatoryCase[k].purchase = n
                        <=> purchase[n].regulatory = k
  BY DEF CasesInv, Escalations, SameRegulatory
<1>5. purchase[n].regulatory = 0 \/ purchase[n].regulatory \in Numbers
  <2>1. purchase[n] \in Purchases
    BY Types DEF CasesInv
  <2> QED
    BY <2>1 DEF Purchases, Numbers
<1>6. BridgesOf(n) = {purchase[n].regulatory} \ {0}
  BY <1>2, <1>3, <1>4, <1>5, NotZero DEF Rows
<1> QED
  BY <1>1, <1>2, <1>6

LEMMA JourneyIsSeen ==
  ASSUME CasesInv, NEW n \in Numbers
  PROVE  JourneyOf(n) = JourneySeen(n)
<1>1. credential[n] = [holder |-> purchase[n].buyer,
                       issuer |-> purchase[n].issuer]
  BY DEF CasesInv, Agreement, SameSales
<1>2. credential[n].holder = purchase[n].buyer
      /\ credential[n].issuer = purchase[n].issuer
  BY <1>1
<1>3. (ReviewsOf(n) # {}) = (purchase[n].review # 0)
  BY OneReview DEF CasesInv
<1>4. PICK k : k = purchase[n].regulatory
  OBVIOUS
<1>5. BridgesOf(n) = {k} \ {0}
  BY <1>4, BridgeIsSeen
<1>6. /\ (IF BridgesOf(n) = {} THEN NoUser
          ELSE bridge[CHOOSE j \in BridgesOf(n) : TRUE].recipient)
           = RegulatorSeen(n)
      /\ (\E j \in BridgesOf(n) : regulatoryCase[bridge[j].case].verified)
           = VerifiedSeen(n)
  <2>1. CASE k = 0
    <3>1. BridgesOf(n) = {}
      BY <1>5, <2>1
    <3>2. RegulatorSeen(n) = NoUser /\ VerifiedSeen(n) = FALSE
      BY <1>4, <2>1 DEF RegulatorSeen, VerifiedSeen
    <3> QED
      BY <3>1, <3>2
  <2>2. CASE k # 0
    <3>1. /\ BridgesOf(n) = {k} /\ bridge[k].case = k
          /\ bridge[k].recipient = regulatoryCase[k].recipient
      BY <1>5, <2>2, BridgeIsSeen
    <3>2. (CHOOSE j \in BridgesOf(n) : TRUE) = k
      BY <3>1
    <3>3. regulatoryCase[k] \in RegulatoryCases
      <4>1. k \in Numbers
        BY <3>1 DEF BridgesOf, Rows
      <4> QED
        BY <4>1, Types DEF CasesInv
    <3>4. regulatoryCase[k].verified \in BOOLEAN
      BY <3>3 DEF RegulatoryCases
    <3>5. RegulatorSeen(n) = regulatoryCase[k].recipient
      BY <1>4, <2>2 DEF RegulatorSeen
    <3>6. VerifiedSeen(n) = regulatoryCase[k].verified
      BY <1>4, <2>2, <3>4 DEF VerifiedSeen
    <3>7. (\E j \in BridgesOf(n) : regulatoryCase[bridge[j].case].verified)
            = regulatoryCase[k].verified
      BY <3>1, <3>4
    <3> QED
      BY <2>2, <3>1, <3>2, <3>5, <3>6, <3>7
  <2> QED
    BY <2>1, <2>2
<1> QED
  BY <1>2, <1>3, <1>6, SupportIsSeen DEF JourneyOf, JourneySeen

-----------------------------------------------------------------------------
(* Every step is one of the journey of one purchase, or none, or the end.  *)
Row(b, s, rv, su, rg, ve) ==
  [buyer |-> b, seller |-> s, reviewed |-> rv, support |-> su,
   regulator |-> rg, verified |-> ve]

LEMMA RowFields ==
  ASSUME NEW b, NEW s, NEW rv, NEW su, NEW rg, NEW ve, NEW x
  PROVE  /\ [Row(b, s, rv, su, rg, ve) EXCEPT !.reviewed = x]
              = Row(b, s, x, su, rg, ve)
         /\ [Row(b, s, rv, su, rg, ve) EXCEPT !.support = x]
              = Row(b, s, rv, x, rg, ve)
         /\ [Row(b, s, rv, su, rg, ve) EXCEPT !.regulator = x]
              = Row(b, s, rv, su, x, ve)
         /\ [Row(b, s, rv, su, rg, ve) EXCEPT !.verified = x]
              = Row(b, s, rv, su, rg, x)
         /\ Row(b, s, rv, su, rg, ve).buyer = b
         /\ Row(b, s, rv, su, rg, ve).reviewed = rv
         /\ Row(b, s, rv, su, rg, ve).support = su
         /\ Row(b, s, rv, su, rg, ve).regulator = rg
         /\ Row(b, s, rv, su, rg, ve).verified = ve
BY DEF Row

LEMMA SeenIsRow ==
  ASSUME NEW n \in Numbers
  PROVE  /\ JourneySeen(n)
              = Row(purchase[n].buyer, purchase[n].issuer,
                    purchase[n].review # 0, SupportSeen(n), RegulatorSeen(n),
                    VerifiedSeen(n))
         /\ JourneySeen(n)'
              = Row(purchase'[n].buyer, purchase'[n].issuer,
                    purchase'[n].review # 0, SupportSeen(n)', RegulatorSeen(n)',
                    VerifiedSeen(n)')
BY DEF JourneySeen, Row

(* A purchase is bought if its row is not empty. *)
LEMMA BoughtIsSeen ==
  ASSUME CasesInv, NEW n \in Numbers
  PROVE  /\ purchase[n] # NoPurchase => JourneySeen(n) # Journey!NotBought
         /\ purchase[n] = NoPurchase => JourneySeen(n) = Journey!NotBought
<1>1. Journey!NotBought = Row(NoUser, NoUser, FALSE, "none", NoUser, FALSE)
  BY DEF Journey!NotBought, Row
<1>2. ASSUME purchase[n] # NoPurchase
      PROVE  JourneySeen(n) # Journey!NotBought
  <2>1. purchase[n].buyer # NoUser
    BY <1>2 DEF CasesInv, Agreement, SoldToOthers
  <2>2. JourneySeen(n).buyer = purchase[n].buyer
    BY DEF JourneySeen
  <2>3. Journey!NotBought.buyer = NoUser
    BY DEF Journey!NotBought
  <2> QED
    BY <2>1, <2>2, <2>3
<1>3. ASSUME purchase[n] = NoPurchase
      PROVE  JourneySeen(n) = Journey!NotBought
  <2>1. /\ purchase[n].buyer = NoUser /\ purchase[n].issuer = NoUser
        /\ purchase[n].review = 0 /\ purchase[n].support = 0
        /\ purchase[n].regulatory = 0
    BY <1>3 DEF NoPurchase
  <2>2. SupportSeen(n) = "none" /\ RegulatorSeen(n) = NoUser
        /\ VerifiedSeen(n) = FALSE
    BY <2>1 DEF SupportSeen, RegulatorSeen, VerifiedSeen
  <2>3. (purchase[n].review # 0) = FALSE
    BY <2>1
  <2> QED
    BY <1>1, <2>1, <2>2, <2>3, SeenIsRow
<1> QED
  BY <1>2, <1>3

LEMMA AllAreSeen ==
  CasesInv => \A n \in Numbers : JourneyOf(n) = JourneySeen(n)
BY JourneyIsSeen

LEMMA AllAreSeenNext ==
  CasesInv' => (\A n \in Numbers : JourneyOf(n) = JourneySeen(n))'
BY AllAreSeen, PTL

LEMMA OneGoesOn ==
  ASSUME CasesInv, CasesInv', NEW n \in Numbers,
         Journey!GoesOn(JourneySeen(n), JourneySeen(n)'),
         \A m \in Numbers \ {n} : JourneySeen(m)' = JourneySeen(m)
  PROVE  Journey!Next
<1> DEFINE journey == [m \in Numbers |-> JourneyOf(m)]
           after == [m \in Numbers |-> JourneyOf(m)']
<1>1. \A m \in Numbers : /\ JourneyOf(m) = JourneySeen(m)
                        /\ JourneyOf(m)' = JourneySeen(m)'
  BY AllAreSeen, AllAreSeenNext
<1>2. journey[n] = JourneySeen(n) /\ after[n] = JourneySeen(n)'
  BY <1>1
<1>3. after = [journey EXCEPT ![n] = after[n]]
  BY <1>1
<1>4. Journey!GoesOn(journey[n], after[n])
  BY <1>2
<1> QED
  BY <1>3, <1>4 DEF Journey!Next

LEMMA SaleIsBuy ==
  ASSUME CasesInv, CasesInv', NEW s \in Users, NEW b \in Users,
         RecordPurchase(s, b)
  PROVE  Journey!Next
<1>1. PICK n \in Numbers : SaleAt(n, s, b)
  BY SaleStep DEF CasesInv
<1>2. JourneySeen(n) = Journey!NotBought
  BY <1>1, BoughtIsSeen DEF SaleAt
<1>3. JourneySeen(n)' = Row(b, s, FALSE, "none", NoUser, FALSE)
  <2>1. /\ purchase'[n].buyer = b /\ purchase'[n].issuer = s
        /\ (purchase'[n].review # 0) = FALSE
        /\ purchase'[n].support = 0 /\ purchase'[n].regulatory = 0
    BY <1>1 DEF SaleAt
  <2>2. SupportSeen(n)' = "none" /\ RegulatorSeen(n)' = NoUser
        /\ VerifiedSeen(n)' = FALSE
    BY <2>1 DEF SupportSeen, RegulatorSeen, VerifiedSeen
  <2> QED
    BY <2>1, <2>2, SeenIsRow
<1>4. Row(b, s, FALSE, "none", NoUser, FALSE) = Journey!Bought(b, s)
  <2>1. Journey!NotBought = Row(NoUser, NoUser, FALSE, "none", NoUser, FALSE)
    BY DEF Row, Journey!NotBought
  <2>2. Journey!Bought(b, s)
          = [Journey!NotBought EXCEPT !.buyer = b, !.seller = s]
    BY DEF Journey!Bought
  <2> QED
    BY <2>1, <2>2 DEF Row
<1>5. b # s
  BY <1>1 DEF SaleAt
<1>6. Journey!GoesOn(JourneySeen(n), JourneySeen(n)')
  BY <1>2, <1>3, <1>4, <1>5 DEF Journey!GoesOn, Journey!Buy
<1>7. \A m \in Numbers \ {n} : JourneySeen(m)' = JourneySeen(m)
  BY <1>1 DEF SaleAt, JourneySeen, SupportSeen, RegulatorSeen, VerifiedSeen
<1> QED
  BY <1>6, <1>7, OneGoesOn

LEMMA ReviewIsReview ==
  ASSUME CasesInv, CasesInv', NEW n \in Numbers, PublishReview(n)
  PROVE  Journey!Next
<1>1. PICK r \in Numbers : ReviewAt(r, n)
  BY ReviewStep DEF CasesInv
<1>2. /\ purchase[n] # NoPurchase
      /\ (purchase[n].review # 0) = FALSE /\ (purchase'[n].review # 0) = TRUE
      /\ purchase'[n].buyer = purchase[n].buyer
      /\ purchase'[n].issuer = purchase[n].issuer
      /\ SupportSeen(n)' = SupportSeen(n) /\ RegulatorSeen(n)' = RegulatorSeen(n)
      /\ VerifiedSeen(n)' = VerifiedSeen(n)
  BY <1>1, NotZero DEF ReviewAt, SupportSeen, RegulatorSeen, VerifiedSeen
<1>3. /\ JourneySeen(n)' = [JourneySeen(n) EXCEPT !.reviewed = TRUE]
      /\ JourneySeen(n).reviewed = FALSE
  <2>1. PICK no, yes : no = FALSE /\ yes = TRUE
    OBVIOUS
  <2>2. JourneySeen(n) = Row(purchase[n].buyer, purchase[n].issuer, no,
                             SupportSeen(n), RegulatorSeen(n),
                             VerifiedSeen(n))
    BY <1>2, <2>1 DEF JourneySeen, Row
  <2>3. JourneySeen(n)' = Row(purchase[n].buyer, purchase[n].issuer, yes,
                              SupportSeen(n), RegulatorSeen(n),
                              VerifiedSeen(n))
    BY <1>2, <2>1 DEF JourneySeen, Row
  <2>4. JourneySeen(n)' = [JourneySeen(n) EXCEPT !.reviewed = yes]
    BY <2>2, <2>3, RowFields
  <2>5. JourneySeen(n).reviewed = no
    BY <2>2, RowFields
  <2> QED
    BY <2>1, <2>4, <2>5
<1>4. Journey!GoesOn(JourneySeen(n), JourneySeen(n)')
  BY <1>2, <1>3, BoughtIsSeen DEF Journey!GoesOn, Journey!Review
<1>5. \A m \in Numbers \ {n} : JourneySeen(m)' = JourneySeen(m)
  BY <1>1 DEF ReviewAt, JourneySeen, SupportSeen, RegulatorSeen, VerifiedSeen
<1> QED
  BY <1>4, <1>5, OneGoesOn

(* A request for support, which touches no other purchase's journey. *)
LEMMA RequestIsAsked ==
  ASSUME CasesInv, CasesInv', NEW n \in Numbers, NEW h \in Users,
         RequestSupport(n, h)
  PROVE  Journey!Next
<1>1. PICK c \in Numbers : CaseAt(c, n, h)
  BY SupportCaseStep DEF CasesInv
<1>2. supportCase'[c].outcome = "pending"
  BY <1>1 DEF CaseAt
<1>3. /\ purchase[n] # NoPurchase
      /\ SupportSeen(n) = "none" /\ SupportSeen(n)' = "pending"
      /\ purchase'[n].buyer = purchase[n].buyer
      /\ purchase'[n].issuer = purchase[n].issuer
      /\ purchase'[n].review = purchase[n].review
      /\ RegulatorSeen(n)' = RegulatorSeen(n)
      /\ VerifiedSeen(n)' = VerifiedSeen(n)
  BY <1>1, <1>2, NotZero DEF CaseAt, SupportSeen, RegulatorSeen, VerifiedSeen
<1>4. /\ JourneySeen(n)' = [JourneySeen(n) EXCEPT !.support = "pending"]
      /\ JourneySeen(n).support = "none"
  BY <1>3, SeenIsRow, RowFields
<1>5. Journey!GoesOn(JourneySeen(n), JourneySeen(n)')
  BY <1>3, <1>4, BoughtIsSeen DEF Journey!GoesOn, Journey!AskForReplacement
<1>6. domainCase[c].purchase = 0
  BY <1>1 DEF CaseAt, NoDomainCase
<1>7. \A m \in Numbers \ {n} : JourneySeen(m)' = JourneySeen(m)
  <2> SUFFICES ASSUME NEW m \in Numbers \ {n}
               PROVE  JourneySeen(m)' = JourneySeen(m)
    OBVIOUS
  <2>1. purchase[m].support # c
    BY <1>6, NotZero DEF CasesInv, Agreement, SameCases
  <2>2. purchase[m].support = 0 \/ purchase[m].support \in Numbers
    <3>1. purchase[m] \in Purchases
      BY Types DEF CasesInv
    <3> QED
      BY <3>1 DEF Purchases, Numbers
  <2>3. SupportSeen(m)' = SupportSeen(m)
    BY <1>1, <2>1, <2>2 DEF CaseAt, SupportSeen
  <2>4. purchase'[m] = purchase[m] /\ UNCHANGED regulatoryCase
    BY <1>1 DEF CaseAt
  <2> QED
    BY <2>3, <2>4 DEF JourneySeen, RegulatorSeen, VerifiedSeen
<1> QED
  BY <1>5, <1>7, OneGoesOn

LEMMA DecisionIsDecision ==
  ASSUME CasesInv, CasesInv', NEW c \in Numbers, NEW outcome \in Outcomes,
         DecideSupport(c, outcome)
  PROVE  Journey!Next
<1>1. /\ supportCase[c] # NoSupportCase /\ supportCase[c].outcome = "pending"
      /\ supportCase'[c].outcome = outcome
      /\ \A d \in Numbers \ {c} : supportCase'[d] = supportCase[d]
      /\ UNCHANGED <<purchase, regulatoryCase>>
  BY DecisionStep DEF CasesInv
<1>2. PICK n : n = supportCase[c].purchase
  OBVIOUS
<1>3. n \in Numbers
  BY <1>1, <1>2 DEF CasesInv, Agreement, WithTheSeller
<1>4. \A m \in Numbers : purchase[m].support = c <=> m = n
  <2>1. domainCase[c] = [claimant |-> supportCase[c].buyer,
                         recipient |-> supportCase[c].merchant,
                         purchase |-> supportCase[c].purchase]
    BY DEF CasesInv, Agreement, SameRows
  <2>2. domainCase[c].purchase = n
    BY <1>2, <2>1
  <2> QED
    BY <2>2 DEF CasesInv, Agreement, SameCases
<1>5. /\ SupportSeen(n) = "pending" /\ SupportSeen(n)' = outcome
      /\ RegulatorSeen(n)' = RegulatorSeen(n)
      /\ VerifiedSeen(n)' = VerifiedSeen(n)
  BY <1>1, <1>3, <1>4, NotZero DEF SupportSeen, RegulatorSeen, VerifiedSeen
<1>6. /\ JourneySeen(n)' = [JourneySeen(n) EXCEPT !.support = outcome]
      /\ JourneySeen(n).support = "pending"
  BY <1>1, <1>3, <1>5, SeenIsRow, RowFields
<1>7. Journey!GoesOn(JourneySeen(n), JourneySeen(n)')
  BY <1>6 DEF Journey!GoesOn, Journey!Decide, Outcomes
<1>8. \A m \in Numbers \ {n} : JourneySeen(m)' = JourneySeen(m)
  <2> SUFFICES ASSUME NEW m \in Numbers \ {n}
               PROVE  JourneySeen(m)' = JourneySeen(m)
    OBVIOUS
  <2>1. purchase[m].support # c
    BY <1>4
  <2>2. purchase[m].support = 0 \/ purchase[m].support \in Numbers
    <3>1. purchase[m] \in Purchases
      BY Types DEF CasesInv
    <3> QED
      BY <3>1 DEF Purchases, Numbers
  <2>3. SupportSeen(m)' = SupportSeen(m)
    BY <1>1, <2>1, <2>2 DEF SupportSeen
  <2> QED
    BY <1>1, <2>3 DEF JourneySeen, RegulatorSeen, VerifiedSeen
<1> QED
  BY <1>3, <1>7, <1>8, OneGoesOn

LEMMA EscalationIsEscalation ==
  ASSUME CasesInv, CasesInv', NEW n \in Numbers, NEW r \in Users,
         Escalate(n, r)
  PROVE  Journey!Next
<1>1. PICK k \in Numbers : EscalationAt(k, n, r)
  BY EscalationStep DEF CasesInv
<1>2. /\ purchase[n].regulatory = 0 /\ purchase[n].support # 0
      /\ supportCase[purchase[n].support].outcome = "rejected"
      /\ r \in Regulators /\ r # purchase[n].buyer
  BY <1>1 DEF EscalationAt, MayEscalate
<1>3. DomainAcceptsBridge(n, purchase[n].buyer, r, EvidenceOf(n))
  BY <1>2, EscalationIsAccepted DEF CasesInv
<1>4. /\ regulatoryCase[k] = NoRegulatoryCase
      /\ regulatoryCase'[k].recipient = r
      /\ regulatoryCase'[k].verified = FALSE
      /\ purchase'[n].regulatory = k
      /\ purchase'[n].buyer = purchase[n].buyer
      /\ purchase'[n].issuer = purchase[n].issuer
      /\ purchase'[n].review = purchase[n].review
      /\ purchase'[n].support = purchase[n].support
      /\ \A m \in Numbers \ {n} : purchase'[m] = purchase[m]
      /\ \A j \in Numbers \ {k} : regulatoryCase'[j] = regulatoryCase[j]
      /\ UNCHANGED supportCase
  BY <1>1, <1>3 DEF EscalationAt
<1>5. /\ SupportSeen(n) = "rejected" /\ SupportSeen(n)' = SupportSeen(n)
      /\ RegulatorSeen(n) = NoUser /\ RegulatorSeen(n)' = r
      /\ VerifiedSeen(n)' = VerifiedSeen(n)
  BY <1>2, <1>4, NotZero DEF SupportSeen, RegulatorSeen, VerifiedSeen
<1>6. /\ JourneySeen(n)' = [JourneySeen(n) EXCEPT !.regulator = r]
      /\ JourneySeen(n).support = "rejected"
      /\ JourneySeen(n).regulator = NoUser
      /\ JourneySeen(n).buyer = purchase[n].buyer
  BY <1>4, <1>5, SeenIsRow, RowFields
<1>7. Journey!GoesOn(JourneySeen(n), JourneySeen(n)')
  BY <1>2, <1>6 DEF Journey!GoesOn, Journey!Escalate
<1>8. regulatoryCase[k].purchase = 0
  BY <1>4 DEF NoRegulatoryCase
<1>9. \A m \in Numbers \ {n} : JourneySeen(m)' = JourneySeen(m)
  <2> SUFFICES ASSUME NEW m \in Numbers \ {n}
               PROVE  JourneySeen(m)' = JourneySeen(m)
    OBVIOUS
  <2>1. purchase[m].regulatory # k
    BY <1>8, NotZero DEF CasesInv, Escalations, SameRegulatory
  <2>2. purchase[m].regulatory = 0 \/ purchase[m].regulatory \in Numbers
    <3>1. purchase[m] \in Purchases
      BY Types DEF CasesInv
    <3> QED
      BY <3>1 DEF Purchases, Numbers
  <2>3. RegulatorSeen(m)' = RegulatorSeen(m) /\ VerifiedSeen(m)' = VerifiedSeen(m)
    BY <1>4, <2>1, <2>2 DEF RegulatorSeen, VerifiedSeen
  <2> QED
    BY <1>4, <2>3 DEF JourneySeen, SupportSeen
<1> QED
  BY <1>7, <1>9, OneGoesOn

LEMMA VerificationIsVerification ==
  ASSUME CasesInv, CasesInv', NEW k \in Numbers, VerifyCase(k)
  PROVE  Journey!Next
<1>1. /\ regulatoryCase[k] # NoRegulatoryCase /\ ~regulatoryCase[k].verified
      /\ regulatoryCase'[k].recipient = regulatoryCase[k].recipient
      /\ regulatoryCase'[k].verified = TRUE
      /\ \A j \in Numbers \ {k} : regulatoryCase'[j] = regulatoryCase[j]
      /\ UNCHANGED <<purchase, supportCase>>
  BY VerificationStep DEF CasesInv
<1>2. Escalated(k)
  BY <1>1, EscalatedRows
<1>3. PICK n : n = regulatoryCase[k].purchase
  OBVIOUS
<1>4. /\ n \in Numbers /\ regulatoryCase[k].recipient \in Regulators
  BY <1>2, <1>3 DEF Escalated
<1>5. \A m \in Numbers : purchase[m].regulatory = k <=> m = n
  BY <1>3 DEF CasesInv, Escalations, SameRegulatory
<1>6. regulatoryCase[k].recipient # NoUser
  BY <1>4
<1>7. /\ RegulatorSeen(n) = regulatoryCase[k].recipient
      /\ RegulatorSeen(n)' = RegulatorSeen(n)
      /\ VerifiedSeen(n) = FALSE /\ VerifiedSeen(n)' = TRUE
      /\ SupportSeen(n)' = SupportSeen(n)
  BY <1>1, <1>4, <1>5, NotZero DEF RegulatorSeen, VerifiedSeen, SupportSeen
<1>8. /\ JourneySeen(n)' = [JourneySeen(n) EXCEPT !.verified = TRUE]
      /\ JourneySeen(n).regulator # NoUser /\ JourneySeen(n).verified = FALSE
  BY <1>1, <1>4, <1>6, <1>7, SeenIsRow, RowFields
<1>9. Journey!GoesOn(JourneySeen(n), JourneySeen(n)')
  BY <1>8 DEF Journey!GoesOn, Journey!Verify
<1>10. \A m \in Numbers \ {n} : JourneySeen(m)' = JourneySeen(m)
  <2> SUFFICES ASSUME NEW m \in Numbers \ {n}
               PROVE  JourneySeen(m)' = JourneySeen(m)
    OBVIOUS
  <2>1. purchase[m].regulatory # k
    BY <1>5
  <2>2. purchase[m].regulatory = 0 \/ purchase[m].regulatory \in Numbers
    <3>1. purchase[m] \in Purchases
      BY Types DEF CasesInv
    <3> QED
      BY <3>1 DEF Purchases, Numbers
  <2>3. RegulatorSeen(m)' = RegulatorSeen(m) /\ VerifiedSeen(m)' = VerifiedSeen(m)
    BY <1>1, <2>1, <2>2 DEF RegulatorSeen, VerifiedSeen
  <2> QED
    BY <1>1, <2>3 DEF JourneySeen, SupportSeen
<1> QED
  BY <1>4, <1>9, <1>10, OneGoesOn

LEMMA CrashForgets ==
  ASSUME CasesInv, CasesInv', Crash
  PROVE  Journey!Next
<1>1. \A n \in Numbers : purchase'[n] = NoPurchase
  BY CrashStep
<1>2. \A n \in Numbers : JourneySeen(n)' = Journey!NotBought
  <2> SUFFICES ASSUME NEW n \in Numbers
               PROVE  JourneySeen(n)' = Journey!NotBought
    OBVIOUS
  <2>1. /\ purchase'[n].buyer = NoUser /\ purchase'[n].issuer = NoUser
        /\ (purchase'[n].review # 0) = FALSE /\ purchase'[n].support = 0
        /\ purchase'[n].regulatory = 0
    BY <1>1 DEF NoPurchase
  <2>2. SupportSeen(n)' = "none" /\ RegulatorSeen(n)' = NoUser
        /\ VerifiedSeen(n)' = FALSE
    BY <2>1 DEF SupportSeen, RegulatorSeen, VerifiedSeen
  <2>3. Journey!NotBought = Row(NoUser, NoUser, FALSE, "none", NoUser, FALSE)
    BY DEF Journey!NotBought, Row
  <2> QED
    BY <2>1, <2>2, <2>3, SeenIsRow
<1>3. \A n \in Numbers : JourneyOf(n)' = Journey!NotBought
  BY <1>2, AllAreSeenNext
<1>4. Journey!Forget
  BY <1>3 DEF Journey!Forget
<1> QED
  BY <1>4 DEF Journey!Next

LEMMA JourneyStep ==
  ASSUME CasesInv, CasesInv', [Next]_vars
  PROVE  Journey!Next \/ UNCHANGED [n \in Numbers |-> JourneyOf(n)]
<1>1. CASE Quiet \/ Refused \/ UNCHANGED vars
  <2>1. UNCHANGED <<purchase, supportCase, regulatoryCase, credential, reviewOf,
                    domainCase, decision, domainRegulatory, bridge, actions>>
    BY <1>1, QuietKeeps DEF vars, platform, domain
  <2> QED
    BY <2>1 DEF JourneyOf, SupportOf, BridgesOf, ReviewsOf, CasesOf,
                DecisionsOf, Rows
<1>2. CASE Crash
  BY <1>2, CrashForgets
<1>3. CASE \E s, b \in Users : RecordPurchase(s, b)
  BY <1>3, SaleIsBuy
<1>4. CASE \E n \in Numbers : PublishReview(n)
  BY <1>4, ReviewIsReview
<1>5. CASE \E n \in Numbers, h \in Users : RequestSupport(n, h)
  BY <1>5, RequestIsAsked
<1>6. CASE \E c \in Numbers, outcome \in Outcomes : DecideSupport(c, outcome)
  BY <1>6, DecisionIsDecision
<1>7. CASE \E n \in Numbers, r \in Users : Escalate(n, r)
  BY <1>7, EscalationIsEscalation
<1>8. CASE \E k \in Numbers : VerifyCase(k)
  BY <1>8, VerificationIsVerification
<1> QED
  BY <1>1, <1>2, <1>3, <1>4, <1>5, <1>6, <1>7, <1>8, NextCases

LEMMA JourneyInit == Init => Journey!Init
<1> SUFFICES ASSUME Init PROVE Journey!Init
  OBVIOUS
<1>1. CasesInv
  BY CasesInit
<1>2. \A n \in Numbers : purchase[n] = NoPurchase
  BY DEF Init, Nothing
<1>3. \A n \in Numbers : JourneyOf(n) = Journey!NotBought
  BY <1>1, <1>2, BoughtIsSeen, AllAreSeen
<1> QED
  BY <1>3 DEF Journey!Init

(* The platform and the domain system together implement the journey of    *)
(* every purchase: one review, one request, one decision by the seller,    *)
(* one escalation of a rejection, one verification.                        *)
THEOREM JourneyImplemented == Spec => ImplementsJourney
<1>1. CasesInv /\ CasesInv' /\ [Next]_vars
      => [Journey!Next]_([n \in Numbers |-> JourneyOf(n)])
  BY JourneyStep
<1> QED
  BY <1>1, JourneyInit, CasesInvariant, PTL
     DEF Spec, ImplementsJourney, Journey!Spec
=============================================================================
