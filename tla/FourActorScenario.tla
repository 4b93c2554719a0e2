-------------------------- MODULE FourActorScenario --------------------------
(***************************************************************************)
(* The acceptance scenario (src/four-actor-scenario.ts): nine steps of     *)
(* four actors over the domain system, and what each viewer is shown at    *)
(* each stage.  What is shown is decided by the number of the stage and    *)
(* the name of the viewer; the domain system has its own opinion of who    *)
(* is a party to what.                                                     *)
(***************************************************************************)
EXTENDS DomainRecords, Sequences

CONSTANTS
  ActorA, ActorB, ActorC, ActorD,
  Operator             \* the viewer "test-operator"; Public is one, too

ASSUME FourActors ==
  /\ Users = {ActorA, ActorB, ActorC, ActorD}
  /\ ActorA \notin {ActorB, ActorC, ActorD} /\ ActorB \notin {ActorC, ActorD}
  /\ ActorC # ActorD
  /\ {Operator, Public} \intersect Users = {} /\ Operator # Public

VARIABLES
  stage,               \* #stage
  timeline,            \* #timeline: the ids of its entries
  registered,          \* #actors of the domain system
  registrant,          \* who registered Acme Audio
  regulators,          \* #grants: who may verify regulatory evidence
  review, supportView, \* #review, #supportView: what was kept for display
  recorded             \* #actions of the domain system, in their order

directory == <<registered, registrant, regulators>>
display == <<review, supportView>>
scenarioVars == <<domainVars, stage, timeline, directory, display, recorded>>

Viewers == Users \union {Operator, Public}

ScenarioInit ==
  /\ issuers = {} /\ late = {} /\ EmptyDomain
  /\ stage = 0 /\ timeline = <<>>
  /\ registered = {} /\ registrant = NoUser /\ regulators = {}
  /\ review = 0 /\ supportView = 0
  /\ recorded = <<>>

(* advance(): an operation that throws leaves the stage as it is.  Each    *)
(* operation of the scenario ends with its entry in the timeline.          *)
Step(n, entry) ==
  /\ stage = n
  /\ stage' = n + 1
  /\ timeline' = Append(timeline, entry)

Recorded(id) == recorded' = Append(recorded, id)

RegisterActors ==
  /\ Step(0, "actors-registered")
  /\ registered' = {ActorA, ActorB, ActorC, ActorD}
  /\ UNCHANGED <<domainVars, registrant, regulators, display, recorded>>

RegisterAcmeAndH1 ==
  /\ Step(1, "acme-h1-registered")
  /\ ActorB \in registered
  /\ registrant' = ActorB
  /\ issuers' = issuers \union {ActorB}
  /\ UNCHANGED <<late, domain, registered, regulators, display, recorded>>

IssuePurchase ==
  /\ Step(2, "h1-purchase-issued")
  /\ {ActorA, ActorB} \subseteq registered
  /\ MayIssue(ActorB)
  /\ IssueCredential(1, ActorB, ActorA)
  /\ UNCHANGED <<issuers, late, reviewOf, domainCase, decision,
                 domainRegulatory, bridge, actions, directory, display, recorded>>

PublishReview ==
  /\ Step(3, "h1-review-published")
  /\ DomainAcceptsReview(1)
  /\ StoreReview(1, 1) /\ Recorded(ReviewId(1))
  /\ review' = 1
  /\ UNCHANGED <<issuers, late, credential, domainCase, decision,
                 domainRegulatory, bridge, directory, supportView>>

(* An event of the domain system, which is not modelled. *)
ReadReview ==
  /\ Step(4, "h1-review-read")
  /\ ActorC \in registered /\ reviewOf[1] # 0
  /\ UNCHANGED <<domainVars, directory, display, recorded>>

(* No recipient is named: it is the registrant of the organization. *)
RequestSupport ==
  /\ Step(5, "case-992-opened")
  /\ DomainAcceptsSupport(1, registrant)
  /\ StoreSupportCase(1, 1, registrant) /\ Recorded(CaseId(1))
  /\ supportView' = 1
  /\ UNCHANGED <<issuers, late, credential, reviewOf, decision,
                 domainRegulatory, bridge, directory, review>>

RecordDecision ==
  /\ Step(6, "case-992-decided")
  /\ DomainAcceptsDecision(1, ActorB)
  /\ StoreDecision(1, 1, ActorB, "rejected") /\ Recorded(DecisionId(1))
  /\ UNCHANGED <<issuers, late, credential, reviewOf, domainCase,
                 domainRegulatory, bridge, directory, display>>

EvidenceRecords == {PurchaseId(1), ReviewId(1), CaseId(1), DecisionId(1)}

(* The grant to D, the case and the bridge, in one step. *)
AuthorizeRegulatoryBridge ==
  /\ Step(7, "reg-443-authorized")
  /\ ActorD \in registered
  /\ regulators' = regulators \union {ActorD}
  /\ credential[1].holder = ActorA
  /\ OpenRegulatoryCase(1, 1)
  /\ DomainAcceptsBridge(1, ActorA, ActorD, EvidenceRecords)
  /\ StoreBridge(1, 1, ActorA, ActorD, EvidenceRecords) /\ Recorded(BridgeId(1))
  /\ UNCHANGED <<issuers, late, credential, reviewOf, domainCase, decision,
                 registered, registrant, display>>

VerifyRegulatoryEvidence ==
  /\ Step(8, "reg-443-verified")
  /\ MayVerifyBridge(1, ActorD, 1, EvidenceRecords)
  /\ UNCHANGED <<domainVars, directory, display, recorded>>

Advance ==
  \/ RegisterActors \/ RegisterAcmeAndH1 \/ IssuePurchase \/ PublishReview
  \/ ReadReview \/ RequestSupport \/ RecordDecision
  \/ AuthorizeRegulatoryBridge \/ VerifyRegulatoryEvidence

ScenarioIsComplete == stage = 9

-----------------------------------------------------------------------------
(* What is shown. *)

(* Variant: the panel opens with the step that makes the purchase. *)
PurchasePanelEarly(viewer) ==
  IF stage < 2 THEN "empty"
  ELSE IF viewer \in {ActorA, ActorB, Operator} THEN "private" ELSE "denied"

PurchasePanel(viewer) ==
  IF stage < 3 THEN "empty"
  ELSE IF viewer \in {ActorA, ActorB, Operator} THEN "private" ELSE "denied"

ReputationPanel == IF review = 0 THEN "empty" ELSE "visible"

SupportPanel(viewer) ==
  IF supportView = 0 THEN "empty"
  ELSE IF viewer \in {ActorA, ActorB, Operator} THEN "private" ELSE "denied"

(* "Acme rejected the replacement", instead of "awaiting a decision". *)
SupportPanelSaysRejected == supportView # 0 /\ stage >= 7

RegulatoryPanel(viewer) ==
  IF stage < 8 THEN "empty"
  ELSE IF viewer \in {ActorA, ActorD, Operator} THEN "private" ELSE "denied"

(* #timelineForViewer: the entries of which a viewer is shown a form. *)
SelectedFor(viewer) ==
  CASE viewer = ActorB ->
         {"actors-registered", "acme-h1-registered", "h1-purchase-issued",
          "h1-review-published", "case-992-opened", "case-992-decided"}
    [] viewer = ActorC -> {"h1-review-published", "h1-review-read"}
    [] viewer = ActorD ->
         {"h1-review-published", "reg-443-authorized", "reg-443-verified"}
    [] viewer = Public -> {"h1-review-published"}

TimelineFor(viewer) ==
  LET entries == {timeline[i] : i \in DOMAIN timeline} IN
  IF viewer \in {Operator, ActorA} THEN entries
  ELSE entries \intersect SelectedFor(viewer)

(* Variant: support is for those who hold a grant to issue. *)
DeriveCapabilitiesFromGrants(actor) ==
  {c \in {"issue", "review", "support", "bridge", "decide", "verify"} :
     CASE c = "issue" -> actor \in issuers
       [] c = "verify" -> actor \in regulators
       [] c = "decide" -> FALSE
       [] OTHER -> \E n \in Numbers : credential[n].holder = actor}

(* deriveCapabilities: from the events about an actor.  "register-product" *)
(* is left out.                                                            *)
DeriveCapabilities(actor) ==
  {c \in {"issue", "review", "support", "bridge", "decide", "verify"} :
     CASE c = "issue" -> actor \in issuers
       [] c = "verify" -> actor \in regulators
       [] c = "decide" -> \E n \in Numbers : domainCase[n].recipient = actor
       [] OTHER -> \E n \in Numbers : credential[n].holder = actor}

(* #actorCards *)
AvailableActions(viewer, actor) ==
  IF actor \in registered /\ viewer \in {Operator, actor}
  THEN DeriveCapabilities(actor) ELSE {}

-----------------------------------------------------------------------------
ScenarioTypeOK ==
  /\ DomainTypeOK
  /\ stage \in 0..9 /\ Len(timeline) = stage
  /\ registered \subseteq Users /\ regulators \subseteq Users
  /\ registrant \in Users \union {NoUser}
  /\ {review, supportView} \subseteq {0, 1}
  /\ actions = {recorded[i] : i \in DOMAIN recorded}
  /\ Len(recorded) <= 4

(* The parties to what a context is about, according to the domain system: *)
(* nobody as long as there is nothing.                                     *)
Parties(context) ==
  CASE context = "purchase" -> {credential[1].holder, credential[1].issuer}
    [] context = "support" ->
         {domainCase[1].claimant, domainCase[1].recipient}
    [] context = "regulatory" ->
         {bridge[1].authorizer, bridge[1].recipient}

Panel(context, viewer) ==
  CASE context = "purchase" -> PurchasePanel(viewer)
    [] context = "support" -> SupportPanel(viewer)
    [] context = "regulatory" -> RegulatoryPanel(viewer)

EntriesAbout(context) ==
  CASE context = "purchase" -> {"h1-purchase-issued"}
    [] context = "support" -> {"case-992-opened", "case-992-decided"}
    [] context = "regulatory" -> {"reg-443-authorized", "reg-443-verified"}

(* The views, which go by the stage and by the names of the viewers, agree *)
(* with the relationships in the domain system (snapshot): a private panel *)
(* is open to the parties of a record and to the operator, exactly from    *)
(* the step on that stored the record; a rejection is shown once it is     *)
(* signed; nobody else finds an entry about it in the timeline; and an     *)
(* actor that the domain system would listen to is offered the action on   *)
(* its card.  A card may offer more: it goes on offering a review that has *)
(* been published.                                                         *)
ViewsFollowRelationships ==
  /\ \A viewer \in Viewers, context \in {"purchase", "support", "regulatory"} :
       LET parties == Parties(context) \ {NoUser} IN
       /\ Panel(context, viewer) =
            IF parties = {} THEN "empty"
            ELSE IF viewer \in parties \union {Operator} THEN "private"
            ELSE "denied"
       /\ TimelineFor(viewer) \intersect EntriesAbout(context) # {} =>
            viewer \in parties \union {Operator}
  /\ (ReputationPanel = "visible") <=> (reviewOf[1] # 0)
  /\ SupportPanelSaysRejected <=> (decision[1].outcome = "rejected")
  /\ \A actor \in Users :
       LET offered == AvailableActions(Operator, actor) IN
       /\ MayIssue(actor) => "issue" \in offered
       /\ actor = credential[1].holder =>
            /\ DomainAcceptsReview(1) => "review" \in offered
            /\ DomainAcceptsSupport(1, registrant) => "support" \in offered
            /\ domainRegulatory[1].claimant = actor => "bridge" \in offered
       /\ DomainAcceptsDecision(1, actor) => "decide" \in offered
       /\ MayVerifyBridge(1, actor, 1, EvidenceRecords) => "verify" \in offered
=============================================================================
