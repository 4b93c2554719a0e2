--------------------------- MODULE AuthorityGrants ---------------------------
(***************************************************************************)
(* Products, the scoped authority to sell them and to handle their support *)
(* cases, and the two places that keep this authority: the table           *)
(* authority_grants, whose rows expire and are revoked, and the in-memory  *)
(* domain system, which is told of a grant once and never forgets it while *)
(* the process lives.                                                      *)
(*                                                                         *)
(* A handler is one action (see Approvals).  createProduct commits three   *)
(* transactions, the constructor one per grant it repairs: the process can *)
(* die between them.  Organizations, their one controller and their        *)
(* memberships are those of Approvals; no user of this module is the       *)
(* system administrator.  The clock never runs backwards.                  *)
(***************************************************************************)
EXTENDS Naturals

CONSTANTS
  Users, Orgs, Products, GrantIds,
  Controller,          \* the account that controls an organization
  MaxTime,             \* bound: the last instant of the clock
  NoOrg, NoUser

ASSUME ControllerAssumption == Controller \in [Orgs -> Users]
ASSUME NoOrgAssumption == NoOrg \notin Orgs
ASSUME NoUserAssumption == NoUser \notin Users
ASSUME MaxTimeAssumption == MaxTime \in Nat

VARIABLES
  phase,               \* the process: "down", "hydrating", "up"
  now,                 \* the clock, in instants that a timestamp tells apart
  members,             \* table organization_memberships
  orgOf,               \* table products: its organization, NoOrg if no row
  grants,              \* table authority_grants
  known,               \* ids of the grants the domain system was told of
  purchases            \* purchases in memory: product, issuer and buyer

database == <<members, orgOf, grants>>
vars == <<phase, now, database, known, purchases>>

Capabilities == {"issue", "handle"}
Never == MaxTime + 1   \* expires_at IS NULL: later than any instant

(* The text that a controller sends: the instant it names, and whether it  *)
(* has the form that toISOString gives.                                    *)
Expirations == [at : 0..Never, form : {"iso", "other"}]

Grant == [grantee : Users, capability : Capabilities, product : Products,
          issuedAt : 0..MaxTime, expiresAt : 0..Never, revoked : BOOLEAN]
(* The value of an id that has no row. *)
NoGrant == [grantee |-> NoUser]

NewGrant(u, capability, p, expiresAt) ==
  [grantee |-> u, capability |-> capability, product |-> p,
   issuedAt |-> now, expiresAt |-> expiresAt, revoked |-> FALSE]

Recorded == {g \in GrantIds : grants[g] # NoGrant}
Unused == GrantIds \ Recorded
Exists(p) == orgOf[p] # NoOrg
CreatorOf(p) == Controller[orgOf[p]]
IsController(u, p) == Exists(p) /\ u = CreatorOf(p)
IsMember(u, p) == <<orgOf[p], u>> \in members

(* Variant: a grant that expires now is still selected. *)
ActiveThroughExpiry(g) ==
  /\ g \in Recorded
  /\ grants[g].issuedAt <= now
  /\ ~grants[g].revoked
  /\ grants[g].expiresAt >= now

(* The WHERE clause of findActive- and listActiveAuthorityGrants. *)
Active(g) ==
  /\ g \in Recorded
  /\ grants[g].issuedAt <= now
  /\ ~grants[g].revoked
  /\ grants[g].expiresAt > now

(* authorityGrantStatus, what the dashboard shows. *)
Status(grant) ==
  CASE grant.revoked -> "revoked"
    [] ~grant.revoked /\ grant.expiresAt <= now -> "expired"
    [] ~grant.revoked /\ grant.expiresAt > now -> "active"

Gives(g, u, capability, p) ==
  /\ grants[g].grantee = u
  /\ grants[g].capability = capability
  /\ grants[g].product = p

(* requireActiveGrant *)
HasActiveGrant(u, capability, p) ==
  \E g \in GrantIds : Active(g) /\ Gives(g, u, capability, p)

(* canIssuePurchaseCredential: the domain system neither knows of          *)
(* revocations nor of expiry.                                              *)
DomainAccepts(u, p) == \E g \in known : Gives(g, u, "issue", p)

(* grantAuthority of the domain system. *)
TellDomain(ids) == known' = known \union ids

(* UNIQUE (grantee_user_id, capability, product_id, issued_at) *)
SameInstant(u, capability, p) ==
  \E g \in Recorded : Gives(g, u, capability, p) /\ grants[g].issuedAt = now

Init ==
  /\ phase = "down" /\ now = 0
  /\ members = {<<o, Controller[o]>> : o \in Orgs}
  /\ orgOf = [p \in Products |-> NoOrg]
  /\ grants = [g \in GrantIds |-> NoGrant]
  /\ known = {} /\ purchases = {}

-----------------------------------------------------------------------------
(* Process start: #hydrateFoundation.                                      *)

(* Variant: the grants are not loaded. *)
StartWithoutGrants ==
  /\ phase = "down"
  /\ phase' = "hydrating" /\ known' = {}
  /\ UNCHANGED <<now, database, purchases>>

(* The active grants are loaded into the new domain system. *)
Start ==
  /\ phase = "down"
  /\ phase' = "hydrating"
  /\ known' = {g \in GrantIds : Active(g)}
  /\ UNCHANGED <<now, database, purchases>>

(* Active or not: revoking the creator's grant must not bring it back. *)
CreatorGrantRecorded(p, capability) ==
  \E g \in Recorded : Gives(g, CreatorOf(p), capability, p)

(* Variant: only the authority to sell is repaired. *)
RepairSaleGrant(p, capability, g) ==
  /\ phase = "hydrating" /\ capability = "issue"
  /\ Exists(p) /\ ~CreatorGrantRecorded(p, capability)
  /\ g \in Unused
  /\ grants' = [grants EXCEPT
                  ![g] = NewGrant(CreatorOf(p), capability, p, Never)]
  /\ TellDomain({g})
  /\ UNCHANGED <<phase, now, members, orgOf, purchases>>

(* A product whose creation was cut short is given its missing grants. *)
RepairCreatorGrant(p, capability, g) ==
  /\ phase = "hydrating"
  /\ Exists(p) /\ ~CreatorGrantRecorded(p, capability)
  /\ g \in Unused
  /\ grants' = [grants EXCEPT
                  ![g] = NewGrant(CreatorOf(p), capability, p, Never)]
  /\ TellDomain({g})
  /\ UNCHANGED <<phase, now, members, orgOf, purchases>>

Serve ==
  /\ phase = "hydrating"
  /\ \A p \in Products, capability \in Capabilities :
       Exists(p) => CreatorGrantRecorded(p, capability)
  /\ phase' = "up"
  /\ UNCHANGED <<now, database, known, purchases>>

(* The process dies: what it keeps in memory is gone. *)
Die ==
  /\ phase' = "down" /\ known' = {} /\ purchases' = {}

Crash ==
  /\ phase # "down" /\ Die
  /\ UNCHANGED <<now, database>>

Tick ==
  /\ now < MaxTime
  /\ now' = now + 1
  /\ UNCHANGED <<phase, database, known, purchases>>

-----------------------------------------------------------------------------
(* An approved membership (Approvals); it is never taken back. *)
Join(u, o) ==
  /\ phase = "up" /\ <<o, u>> \notin members
  /\ members' = members \union {<<o, u>>}
  /\ UNCHANGED <<phase, now, orgOf, grants, known, purchases>>

(* Of the two grants of a new product, those that were committed. *)
CreatorGrants(c, p, issue, handle, committed) ==
  [g \in GrantIds |->
     IF g \notin committed THEN grants[g]
     ELSE NewGrant(c, IF g = issue THEN "issue" ELSE "handle", p, Never)]

MayCreateProduct(c, o, p, issue, handle) ==
  /\ phase = "up"
  /\ c = Controller[o]
  /\ ~Exists(p)
  /\ {issue, handle} \subseteq Unused /\ issue # handle

CreateProduct(c, o, p, issue, handle) ==
  /\ MayCreateProduct(c, o, p, issue, handle)
  /\ orgOf' = [orgOf EXCEPT ![p] = o]
  /\ grants' = CreatorGrants(c, p, issue, handle, {issue, handle})
  /\ TellDomain({issue, handle})
  /\ UNCHANGED <<phase, now, members, purchases>>

(* The process dies between two of the three transactions. *)
CreateProductThenCrash(c, o, p, issue, handle) ==
  /\ MayCreateProduct(c, o, p, issue, handle)
  /\ orgOf' = [orgOf EXCEPT ![p] = o]
  /\ \E committed \in {{}, {issue}} :
       grants' = CreatorGrants(c, p, issue, handle, committed)
  /\ Die
  /\ UNCHANGED <<now, members>>

(* Variant: the grantee's membership is not looked at. *)
MayGrantToAnyone(c, u, p) == phase = "up" /\ IsController(c, p)

MayGrant(c, u, p) == phase = "up" /\ IsController(c, p) /\ IsMember(u, p)

(* optionalFutureTimestamp compares the text with that of now: the ISO     *)
(* form sorts like the instant it names, any other text that Date.parse    *)
(* takes may sort after now whatever it names.                             *)
AcceptedExpiration(expiration) == expiration.form = "iso" => expiration.at > now

GrantAuthority(c, u, p, capability, expiration, g) ==
  /\ MayGrant(c, u, p)
  /\ AcceptedExpiration(expiration)
  /\ ~SameInstant(u, capability, p)
  /\ g \in Unused
  /\ grants' = [grants EXCEPT ![g] = NewGrant(u, capability, p, expiration.at)]
  /\ TellDomain({g})
  /\ UNCHANGED <<phase, now, members, orgOf, purchases>>

(* requireGrantControl; a grant is revoked once. *)
MayRevoke(c, g) ==
  /\ phase = "up"
  /\ g \in Recorded /\ IsController(c, grants[g].product)
  /\ ~grants[g].revoked

(* Variant: the row is deleted. *)
RevokeDeletesRow(c, g) ==
  /\ MayRevoke(c, g)
  /\ grants' = [grants EXCEPT ![g] = NoGrant]
  /\ UNCHANGED <<phase, now, members, orgOf, known, purchases>>

RevokeAuthority(c, g) ==
  /\ MayRevoke(c, g)
  /\ grants' = [grants EXCEPT ![g].revoked = TRUE]
  /\ UNCHANGED <<phase, now, members, orgOf, known, purchases>>

-----------------------------------------------------------------------------
(* Sales. *)

(* Variant: the organization of the product is not looked at. *)
AnyBuyer(b, p) == phase = "up" /\ Exists(p)

(* #requireExternalBuyer *)
ExternalBuyer(b, p) ==
  phase = "up" /\ Exists(p) /\ ~IsController(b, p) /\ ~IsMember(b, p)

Purchase(p, issuer, b) == [product |-> p, issuer |-> issuer, buyer |-> b]

(* Variant: the domain system's word is taken for the authority. *)
IssueOnDomainGrant(m, b, p) ==
  /\ b # m /\ ExternalBuyer(b, p) /\ DomainAccepts(m, p)
  /\ purchases' = purchases \union {Purchase(p, m, b)}
  /\ UNCHANGED <<phase, now, database, known>>

IssuePurchase(m, b, p) ==
  /\ HasActiveGrant(m, "issue", p)
  /\ b # m /\ ExternalBuyer(b, p)
  /\ DomainAccepts(m, p)
  /\ purchases' = purchases \union {Purchase(p, m, b)}
  /\ UNCHANGED <<phase, now, database, known>>

(* The grants a purchase from the catalogue can be issued under.           *)
SellersOf(b, p) ==
  {g \in GrantIds : /\ Active(g) /\ grants[g].capability = "issue"
                    /\ grants[g].product = p /\ grants[g].grantee # b}

(* Rows are listed by issued_at, then by the random grant id: the last one *)
(* is any of the most recent.                                              *)
MostRecent(sellers) ==
  {g \in sellers : \A h \in sellers : grants[h].issuedAt <= grants[g].issuedAt}

BuyFromSeller(b, p) ==
  /\ ExternalBuyer(b, p)
  /\ \E g \in MostRecent(SellersOf(b, p)) :
       LET seller == grants[g].grantee IN
       /\ DomainAccepts(seller, p)
       /\ purchases' = purchases \union {Purchase(p, seller, b)}
  /\ UNCHANGED <<phase, now, database, known>>

(* Variant: whoever sold the product before is authorized again. *)
AuthorizedOnDemand(p) ==
  {CreatorOf(p)} \union
    {grants[g].grantee : g \in {h \in Recorded : /\ grants[h].product = p
                                                 /\ grants[h].capability = "issue"}}

(* Nobody has active authority to sell: the creator is granted it anew.    *)
AuthorizedForPurchase(p) == {CreatorOf(p)}

BuyFromCreator(b, p, g) ==
  /\ ExternalBuyer(b, p)
  /\ SellersOf(b, p) = {}
  /\ g \in Unused
  /\ \E seller \in AuthorizedForPurchase(p) :
       /\ ~SameInstant(seller, "issue", p)
       /\ grants' = [grants EXCEPT ![g] = NewGrant(seller, "issue", p, Never)]
       /\ purchases' = purchases \union {Purchase(p, seller, b)}
  /\ TellDomain({g})
  /\ UNCHANGED <<phase, now, members, orgOf>>

-----------------------------------------------------------------------------
Restarting ==
  \/ Start
  \/ \E p \in Products, capability \in Capabilities, g \in GrantIds :
       RepairCreatorGrant(p, capability, g)
  \/ Serve

Creating(c) ==
  \E o \in Orgs, p \in Products, issue, handle \in GrantIds :
    \/ CreateProduct(c, o, p, issue, handle)
    \/ CreateProductThenCrash(c, o, p, issue, handle)

Administering(c) ==
  \/ \E u \in Users, p \in Products, capability \in Capabilities,
        expiration \in Expirations, g \in GrantIds :
       GrantAuthority(c, u, p, capability, expiration, g)
  \/ \E g \in GrantIds : RevokeAuthority(c, g)

Selling(b) ==
  \E p \in Products :
    \/ \E m \in Users : IssuePurchase(m, b, p)
    \/ BuyFromSeller(b, p)
    \/ \E g \in GrantIds : BuyFromCreator(b, p, g)

Next ==
  \/ Restarting \/ Crash \/ Tick
  \/ \E u \in Users, o \in Orgs : Join(u, o)
  \/ \E u \in Users : Creating(u) \/ Administering(u) \/ Selling(u)

Spec == Init /\ [][Next]_vars

(* start.sh starts the server again, and a constructor that has begun      *)
(* either returns or the process dies.                                     *)
FairSpec == Spec /\ WF_vars(Restarting)

-----------------------------------------------------------------------------
TypeOK ==
  /\ phase \in {"down", "hydrating", "up"}
  /\ now \in 0..MaxTime
  /\ members \subseteq Orgs \X Users
  /\ orgOf \in [Products -> Orgs \union {NoOrg}]
  /\ grants \in [GrantIds -> Grant \union {NoGrant}]
  /\ known \subseteq Recorded
  /\ purchases \subseteq [product : Products, issuer : Users, buyer : Users]

(* The domain system knows of every grant that is active in the database,  *)
(* through restarts, repairs and expiry: a call that the policy layer has  *)
(* accepted is not refused half way by the domain (a purchase sequence     *)
(* number would be lost and the caller told of a missing authority).       *)
DomainKnowsActiveGrants ==
  phase # "down" => \A g \in GrantIds : Active(g) => g \in known

(* Whoever holds authority over a product, or sold it, is of its           *)
(* organization, and was recorded as its seller; nobody sells to itself.   *)
AuthorityStaysInOrganization ==
  /\ \A g \in Recorded : /\ Exists(grants[g].product)
                         /\ IsMember(grants[g].grantee, grants[g].product)
  /\ \A q \in purchases :
       /\ q.issuer # q.buyer
       /\ \E g \in Recorded : Gives(g, q.issuer, "issue", q.product)

(* While the server serves, every product has somebody who was authorized  *)
(* to sell it and to handle its cases, wherever its creation was cut short.*)
ProductsAreGranted ==
  phase = "up" => \A p \in Products, capability \in Capabilities :
                    Exists(p) => CreatorGrantRecorded(p, capability)

(* Somebody for whom the dashboard shows active authority to sell a product *)
(* can sell it, and nobody else can: the status shown, the query of the     *)
(* policy and the grants that the domain system was told of are three       *)
(* answers to one question, which agree through expiry (at the very instant *)
(* too), revocation, renewal and restart.                                   *)
ShownAuthorityCounts ==
  phase = "up" =>
    \A u \in Users, p \in Products :
      (\E g \in Recorded : Gives(g, u, "issue", p) /\ Status(grants[g]) = "active")
      <=> HasActiveGrant(u, "issue", p) /\ DomainAccepts(u, p)

(* A sale happens only under authority that is active at that instant, to  *)
(* somebody from outside the organization.                                 *)
SalesAreAuthorized ==
  [][\A q \in purchases' \ purchases :
       /\ HasActiveGrant(q.issuer, "issue", q.product)'
       /\ ~IsMember(q.buyer, q.product)]_vars

(* Revoked or expired authority does not come back by itself: restarts,    *)
(* repairs and purchases confer authority on a product's creator at most,  *)
(* and a restart only if it never had it; everybody else has it from the   *)
(* controller.                                                             *)
AuthorityComesFromController ==
  [][\A u \in Users, capability \in Capabilities, p \in Products :
       (HasActiveGrant(u, capability, p)' /\ ~HasActiveGrant(u, capability, p))
       => \/ /\ u = CreatorOf(p)'
             /\ phase = "hydrating" => ~CreatorGrantRecorded(p, capability)
          \/ \E c \in Users, e \in Expirations, g \in GrantIds :
               GrantAuthority(c, u, p, capability, e, g)]_vars

(* A product whose creation was cut short is complete and on sale in the   *)
(* end, if the process dies finitely often (#hydrateFoundation).           *)
DiesFinitelyOften == <>[][phase # "down" => phase' # "down"]_vars

ProductsAreRepaired ==
  DiesFinitelyOften =>
    \A p \in Products :
      Exists(p) ~> /\ phase = "up"
                   /\ \A capability \in Capabilities :
                        CreatorGrantRecorded(p, capability)

-----------------------------------------------------------------------------
(* What the code says and does not keep: a grant expires after it was      *)
(* issued ("Expiration must be a future ISO timestamp").                   *)
ExpirationsAreFuture ==
  \A g \in Recorded : grants[g].issuedAt < grants[g].expiresAt
=============================================================================
