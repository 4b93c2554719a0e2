----------------------------- MODULE DomainSystem -----------------------------
(***************************************************************************)
(* The domain system used in any order by anybody that can sign: what it   *)
(* accepts depends on the records it holds and on nothing else.  Its       *)
(* callers are more careful: the platform asks for one case per purchase   *)
(* and escalates rejections only, and both the platform and the scenario   *)
(* write new ids in the form in which they are stored.                     *)
(*                                                                         *)
(* That form is what text() makes of an id: NFC, and no blanks around it.  *)
(* The maps are searched for a new id as the caller wrote it, and the      *)
(* record is stored under the normal form, so that an id in another        *)
(* spelling is not found and replaces what is there.  An id that two kinds *)
(* of records share only leads to refusals (#recordAction, sortedUnique).  *)
(***************************************************************************)
EXTENDS DomainRecords

VARIABLES
  spent,               \* #usedReviewNullifiers: the credentials they are of
  padded,              \* cases whose input.caseId is not in the normal form
  careless             \* a caller wrote an id in another form (history)

systemVars == <<domainVars, spent, padded, careless>>

Init ==
  /\ issuers = {} /\ late = {} /\ EmptyDomain
  /\ spent = {} /\ padded = {} /\ careless = FALSE

(* grantAuthority, for "issue-purchase-credential": signed by the trusted  *)
(* authority, and never taken back.                                        *)
GrantAuthority(u) ==
  /\ u \notin issuers
  /\ issuers' = issuers \union {u}
  /\ UNCHANGED <<late, domain, spent, padded, careless>>

(* The age of a purchase is what the caller of requestSupport says: it is  *)
(* taken to be true, and no property depends on it.                        *)
ThirtyDaysPass(n) ==
  /\ n \in Rows(credential, NoCredential) \ late
  /\ late' = late \union {n}
  /\ UNCHANGED <<issuers, domain, spent, padded, careless>>

(* The process ends, and starts again without any record. *)
Restart ==
  /\ issuers' = {} /\ late' = {}
  /\ ForgetDomain
  /\ spent' = {} /\ padded' = {} /\ careless' = FALSE

IssuePurchaseCredential(n, s, b) ==
  /\ MayIssue(s)
  /\ credential[n] = NoCredential
  /\ IssueCredential(n, s, b)
  /\ UNCHANGED <<issuers, late, reviewOf, domainCase, decision,
                 domainRegulatory, bridge, actions, spent, padded, careless>>

PublishReview(r, n) ==
  /\ reviewOf[r] = 0
  /\ DomainAcceptsReview(n) /\ n \notin spent
  /\ StoreReview(r, n)
  /\ spent' = spent \union {n}
  /\ UNCHANGED <<issuers, late, credential, domainCase, decision,
                 domainRegulatory, bridge, padded, careless>>

RequestSupport(c, n, h) ==
  /\ domainCase[c] = NoDomainCase
  /\ \A e \in Rows(domainCase, NoDomainCase) : e < c
  /\ DomainAcceptsSupport(n, h)
  /\ StoreSupportCase(c, n, h)
  /\ UNCHANGED <<issuers, late, credential, reviewOf, decision,
                 domainRegulatory, bridge, spent, padded, careless>>

(* Variant: a decision is looked for under the id as it was written.       *)
RecordSupportDecisionUnchecked(d, c, issuer, outcome) ==
  /\ DomainAcceptsDecision(c, issuer)
  /\ StoreDecision(d, c, issuer, outcome)
  /\ UNCHANGED <<issuers, late, credential, reviewOf, domainCase,
                 domainRegulatory, bridge, spent, padded, careless>>

(* Decisions and bridges go to #recordAction under their normal form: there *)
(* the other spellings are refused like the normal one.                    *)
RecordSupportDecision(d, c, issuer, outcome) ==
  /\ decision[d] = NoDecision
  /\ \A e \in DecisionsOf(c) : e < d
  /\ DomainAcceptsDecision(c, issuer)
  /\ StoreDecision(d, c, issuer, outcome)
  /\ UNCHANGED <<issuers, late, credential, reviewOf, domainCase,
                 domainRegulatory, bridge, spent, padded, careless>>

(* Only the holder of the credential controls it. *)
OpenCase(k, n) ==
  /\ domainRegulatory[k] = NoDomainRegulatory
  /\ credential[n] # NoCredential
  /\ OpenRegulatoryCase(k, n)
  /\ UNCHANGED <<issuers, late, credential, reviewOf, domainCase, decision,
                 bridge, actions, spent, padded, careless>>

(* The opener of the case signs for any registered recipient.  A decision  *)
(* names its case in the normal form: for a padded case none is found.     *)
AuthorizeEvidenceBridge(j, k, recipient, records) ==
  LET claimant == domainRegulatory[k].claimant
      n == domainRegulatory[k].purchase
  IN
  /\ bridge[j] = NoBridge
  /\ domainRegulatory[k] # NoDomainRegulatory
  /\ DomainAcceptsBridge(n, claimant, recipient, records)
  /\ Earliest(CasesOf(n)) \intersect padded = {}
  /\ StoreBridge(j, k, claimant, recipient, records)
  /\ UNCHANGED <<issuers, late, credential, reviewOf, domainCase, decision,
                 domainRegulatory, spent, padded, careless>>

Careful ==
  \/ \E u \in Users : GrantAuthority(u)
  \/ \E n \in Numbers :
       \/ ThirtyDaysPass(n)
       \/ \E s, b \in Users : IssuePurchaseCredential(n, s, b)
       \/ \E r \in Numbers : PublishReview(r, n)
       \/ \E c \in Numbers, h \in Users : RequestSupport(c, n, h)
       \/ \E k \in Numbers : OpenCase(k, n)
  \/ \E d, c \in Numbers, issuer \in Users, outcome \in Outcomes :
       RecordSupportDecision(d, c, issuer, outcome)
  \/ \E j, k \in Numbers, recipient \in Users :
       \E records \in SUBSET RecordIds :
         AuthorizeEvidenceBridge(j, k, recipient, records)
  \/ Restart

-----------------------------------------------------------------------------
(* The same operations with an id that is not in the normal form.  Of      *)
(* reviews and support cases the commitment is kept under the id as it was *)
(* written; all other spellings of an id, and all blank ids, are as one.   *)
Padded(id) == <<"padded", id>>
BlankId == <<"blank">>

(* A grant is replaced by one for somebody else, or for something else. *)
GrantReplaced(u) ==
  /\ u \in issuers
  /\ \E grantees \in {{}} \union {{v} : v \in Users} :
       issuers' = (issuers \ {u}) \union grantees
  /\ UNCHANGED <<late, domain, spent, padded>>

CredentialPadded(n, s, b) ==
  /\ MayIssue(s)
  /\ IssueCredential(n, s, b)
  /\ late' = late \ {n}
  /\ UNCHANGED <<issuers, reviewOf, domainCase, decision, domainRegulatory,
                 bridge, actions, spent, padded>>

(* The nullifier of a review that is replaced remains used. *)
ReviewPadded(r, n) ==
  /\ DomainAcceptsReview(n) /\ n \notin spent
  /\ reviewOf' = [reviewOf EXCEPT ![r] = n]
  /\ RecordAction(Padded(ReviewId(r)))
  /\ spent' = spent \union {n}
  /\ UNCHANGED <<issuers, late, credential, domainCase, decision,
                 domainRegulatory, bridge, padded>>

(* A case keeps its place in the map when it is replaced. *)
SupportPadded(c, n, h) ==
  /\ domainCase[c] = NoDomainCase =>
       \A e \in Rows(domainCase, NoDomainCase) : e < c
  /\ DomainAcceptsSupport(n, h)
  /\ domainCase' = [domainCase EXCEPT
       ![c] = [claimant |-> credential[n].holder, recipient |-> h,
               purchase |-> n]]
  /\ RecordAction(Padded(CaseId(c)))
  /\ padded' = padded \union {c}
  /\ UNCHANGED <<issuers, late, credential, reviewOf, decision,
                 domainRegulatory, bridge, spent>>

(* #recordAction comes first, then text() throws. *)
BlankRefused(n) ==
  /\ \/ DomainAcceptsReview(n) /\ n \notin spent
     \/ \E h \in Users : DomainAcceptsSupport(n, h)
  /\ RecordAction(BlankId)
  /\ UNCHANGED <<issuers, late, credential, reviewOf, domainCase, decision,
                 domainRegulatory, bridge, spent, padded>>

OpenCasePadded(k, n) ==
  /\ credential[n] # NoCredential
  /\ OpenRegulatoryCase(k, n)
  /\ UNCHANGED <<issuers, late, credential, reviewOf, domainCase, decision,
                 bridge, actions, spent, padded>>

Careless ==
  /\ careless' = TRUE
  /\ \/ \E u \in Users : GrantReplaced(u)
     \/ \E n \in Numbers :
          \/ \E s, b \in Users : CredentialPadded(n, s, b)
          \/ \E r \in Numbers : ReviewPadded(r, n)
          \/ \E c \in Numbers, h \in Users : SupportPadded(c, n, h)
          \/ BlankRefused(n)
          \/ \E k \in Numbers : OpenCasePadded(k, n)

Next == Careful \/ Careless

Spec == Init /\ [][Next]_systemVars

-----------------------------------------------------------------------------
(* What the records of a domain system say about each other (inductive as  *)
(* long as no caller is careless).                                         *)
RecordsAgree ==
  /\ DomainTypeOK
  /\ CommitmentsMatchRecords
  /\ OneReviewPerCredential
  /\ SupportStaysWithIssuer
  /\ DecisionsAreOfTheRecipient
  /\ RegulatoryCasesAreOfTheHolder
  /\ BridgesAreComplete

(* As long as every new id comes in its normal form, whoever uses the      *)
(* domain system and in whatever order: the commitments are those of the   *)
(* records that exist, a credential has one review, support stays with the *)
(* issuer, a decision is the recipient's, and a bridge discloses one       *)
(* purchase of its authorizer together with its decided case.              *)
CarefulRecordsAgree == ~careless => RecordsAgree

(* Whatever form the ids come in, no record goes without a commitment (the *)
(* converse needs careful callers: a blank id leaves a commitment behind). *)
RecordsAreCommitted ==
  /\ \A r \in Rows(reviewOf, 0) :
       {ReviewId(r), Padded(ReviewId(r))} \intersect actions # {}
  /\ \A c \in Rows(domainCase, NoDomainCase) :
       {CaseId(c), Padded(CaseId(c))} \intersect actions # {}
  /\ \A d \in Rows(decision, NoDecision) : DecisionId(d) \in actions
  /\ \A j \in Rows(bridge, NoBridge) : BridgeId(j) \in actions

DecisionsAndBridgesKept ==
  /\ \A d \in Rows(decision, NoDecision) : decision'[d] = decision[d]
  /\ \A j \in Rows(bridge, NoBridge) : bridge'[j] = bridge[j]
  /\ actions \subseteq actions'

Kept ==
  /\ \A n \in Rows(credential, NoCredential) : credential'[n] = credential[n]
  /\ \A r \in Rows(reviewOf, 0) : reviewOf'[r] = reviewOf[r]
  /\ \A c \in Rows(domainCase, NoDomainCase) : domainCase'[c] = domainCase[c]
  /\ \A k \in Rows(domainRegulatory, NoDomainRegulatory) :
       domainRegulatory'[k] = domainRegulatory[k]
  /\ DecisionsAndBridgesKept

(* Decisions, bridges and commitments are what they were until the process *)
(* ends, whatever form the ids of later calls come in: #recordAction finds *)
(* the normal form.  So is every record, as long as each new id comes in   *)
(* its normal form: no call of anybody replaces or removes it.  (With a    *)
(* blank behind the id a call replaces a grant, a credential, a review or  *)
(* a case, and is not refused as a "duplicate".)                           *)
RecordsStay ==
  [][Restart \/ (DecisionsAndBridgesKept /\ (careless' \/ Kept))]_systemVars
=============================================================================
