------------------------ MODULE AuthorityGrants_proofs ------------------------
(***************************************************************************)
(* Proofs about AuthorityGrants, for every set of accounts, organizations, *)
(* products and grant ids and every length of time.                        *)
(***************************************************************************)
EXTENDS AuthorityGrants, TLAPS

USE ControllerAssumption, NoOrgAssumption, NoUserAssumption, MaxTimeAssumption

(* The controller of an organization is a member of it from the start.     *)
ControllersAreMembers == \A o \in Orgs : <<o, Controller[o]>> \in members

(* Nothing is issued later than now: the grants that are active after a    *)
(* tick were active before it.                                             *)
IssuedByNow == \A g \in Recorded : grants[g].issuedAt <= now

GrantsInv ==
  /\ TypeOK
  /\ ControllersAreMembers
  /\ IssuedByNow
  /\ DomainKnowsActiveGrants
  /\ AuthorityStaysInOrganization
  /\ ProductsAreGranted

-----------------------------------------------------------------------------
(* Rows. *)

LEMMA RecordedRow ==
  ASSUME TypeOK, NEW g \in GrantIds
  PROVE  /\ g \in Recorded <=> grants[g] \in Grant
         /\ g \notin Recorded <=> grants[g] = NoGrant
BY DEF TypeOK, Recorded, Grant, NoGrant

LEMMA Creators ==
  ASSUME TypeOK, NEW p \in Products, Exists(p)
  PROVE  orgOf[p] \in Orgs /\ CreatorOf(p) \in Users
BY DEF TypeOK, Exists, CreatorOf

-----------------------------------------------------------------------------
(* A step that inserts rows for some ids, keeps the others, the products   *)
(* and the clock, and tells the domain system: creation, grant, repair and *)
(* a purchase that authorizes the creator do this.                         *)
Inserts(ids) ==
  /\ ids \subseteq Unused
  /\ grants' \in [GrantIds -> Grant \union {NoGrant}]
  /\ \A g \in GrantIds \ ids : grants'[g] = grants[g]
  /\ \A g \in ids :
       /\ grants'[g] \in Grant
       /\ grants'[g].issuedAt = now
       /\ ~grants'[g].revoked
       /\ orgOf'[grants'[g].product] # NoOrg
       /\ <<orgOf'[grants'[g].product], grants'[g].grantee>> \in members'
  /\ now' = now

(* What such a step leaves: the rows that were there, as they were. *)
LEMMA InsertedRows ==
  ASSUME TypeOK, NEW ids, Inserts(ids)
  PROVE  /\ Recorded' = Recorded \union ids
         /\ \A g \in Recorded : grants'[g] = grants[g] /\ g \notin ids
  <1>1. ASSUME NEW g \in GrantIds
        PROVE  grants'[g] # NoGrant <=> g \in Recorded \union ids
    <2>1. CASE g \in ids
      <3>1. grants'[g] \in Grant
        BY <2>1 DEF Inserts
      <3>2. grants'[g] # NoGrant
        BY <3>1 DEF Grant, NoGrant
      <3> QED BY <2>1, <3>2
    <2>2. CASE g \notin ids
      BY <2>2 DEF Inserts, Recorded
    <2> QED BY <2>1, <2>2
  <1>2. ids \subseteq GrantIds
    BY DEF Inserts, Unused
  <1>3. Recorded' = Recorded \union ids
    BY <1>1, <1>2 DEF Recorded
  <1>4. \A g \in Recorded : grants'[g] = grants[g] /\ g \notin ids
    BY DEF Inserts, Recorded, Unused
  <1> QED BY <1>3, <1>4

(* What the step must say of the rest for the invariant to hold.           *)
LEMMA InsertKeeps ==
  ASSUME GrantsInv, NEW ids, Inserts(ids),
         \A p \in Products : Exists(p) => orgOf'[p] = orgOf[p],
         orgOf' \in [Products -> Orgs \union {NoOrg}],
         members' = members,
         phase' \in {"down", "hydrating", "up"},
         \/ phase' = "down" /\ known' = {}
         \/ phase # "down" /\ known' = known \union ids,
         phase' = "up" => phase = "up",
         purchases' \subseteq [product : Products, issuer : Users, buyer : Users],
         \A q \in purchases' :
           \/ q \in purchases
           \/ /\ q.issuer # q.buyer
              /\ \E g \in Recorded' : Gives(g, q.issuer, "issue", q.product)',
         phase' = "up" =>
           \A p \in Products, capability \in Capabilities :
             orgOf'[p] # NoOrg =>
               \/ orgOf[p] # NoOrg
               \/ \E g \in ids : Gives(g, CreatorOf(p), capability, p)'
  PROVE  GrantsInv'
  <1> USE DEF GrantsInv
  <1>0. /\ Recorded' = Recorded \union ids
        /\ \A g \in Recorded : grants'[g] = grants[g] /\ g \notin ids
    BY InsertedRows
  <1>1. TypeOK'
    BY <1>0 DEF TypeOK, Inserts
  <1>2. ControllersAreMembers'
    BY DEF ControllersAreMembers
  <1>3. IssuedByNow'
    <2> SUFFICES ASSUME NEW g \in Recorded' PROVE grants'[g].issuedAt <= now'
      BY DEF IssuedByNow
    <2>1. CASE g \in ids
      <3>1. now \in Nat
        BY DEF TypeOK
      <3>2. grants'[g].issuedAt = now /\ now' = now
        BY <2>1 DEF Inserts
      <3> QED BY <3>1, <3>2
    <2>2. CASE g \in Recorded
      BY <2>2, <1>0 DEF IssuedByNow, Inserts
    <2> QED BY <2>1, <2>2, <1>0
  <1>4. DomainKnowsActiveGrants'
    <2> SUFFICES ASSUME phase' # "down", NEW g \in GrantIds, Active(g)'
                 PROVE  g \in known'
      BY DEF DomainKnowsActiveGrants
    <2>1. g \in Recorded \union ids
      BY <1>0 DEF Active
    <2>2. CASE g \in Recorded
      BY <2>2, <1>0 DEF Active, DomainKnowsActiveGrants, Inserts
    <2> QED BY <2>1, <2>2
  <1>5. \A g \in Recorded, u \in Users, p \in Products, capability \in Capabilities :
          Gives(g, u, capability, p) => Gives(g, u, capability, p)'
    BY <1>0 DEF Gives
  <1>6. AuthorityStaysInOrganization'
    <2>1. ASSUME NEW g \in Recorded'
          PROVE  Exists(grants[g].product)' /\ IsMember(grants[g].grantee, grants[g].product)'
      <3>1. CASE g \in ids
        BY <3>1 DEF Inserts, Exists, IsMember
      <3>2. CASE g \in Recorded
        <4>1. grants'[g] = grants[g] /\ grants[g].product \in Products
          BY <3>2, <1>0, RecordedRow DEF Recorded, Grant
        <4>2. Exists(grants[g].product) /\ IsMember(grants[g].grantee, grants[g].product)
          BY <3>2 DEF AuthorityStaysInOrganization
        <4> QED BY <4>1, <4>2 DEF Exists, IsMember
      <3> QED BY <3>1, <3>2, <1>0
    <2>2. ASSUME NEW q \in purchases'
          PROVE  /\ q.issuer # q.buyer
                 /\ \E g \in Recorded' : Gives(g, q.issuer, "issue", q.product)'
      <3>1. CASE q \in purchases
        BY <3>1, <1>0, <1>5 DEF AuthorityStaysInOrganization, TypeOK, Capabilities
      <3> QED BY <3>1
    <2> QED BY <2>1, <2>2 DEF AuthorityStaysInOrganization
  <1>7. ProductsAreGranted'
    <2> SUFFICES ASSUME phase' = "up", NEW p \in Products,
                        NEW capability \in Capabilities, Exists(p)'
                 PROVE  CreatorGrantRecorded(p, capability)'
      BY DEF ProductsAreGranted
    <2>1. CASE Exists(p)
      <3>1. PICK g \in Recorded : Gives(g, CreatorOf(p), capability, p)
        BY <2>1 DEF ProductsAreGranted, CreatorGrantRecorded
      <3>2. Gives(g, CreatorOf(p), capability, p)'
        <4>1. CreatorOf(p)' = CreatorOf(p)
          BY <2>1 DEF CreatorOf
        <4> QED BY <3>1, <4>1, <1>0 DEF Gives
      <3> QED BY <3>1, <3>2, <1>0 DEF CreatorGrantRecorded
    <2>2. CASE ~Exists(p)
      <3>1. PICK g \in ids : Gives(g, CreatorOf(p), capability, p)'
        BY <2>2 DEF Exists
      <3> QED BY <3>1, <1>0 DEF CreatorGrantRecorded
    <2> QED BY <2>1, <2>2
  <1> QED BY <1>1, <1>2, <1>3, <1>4, <1>6, <1>7

-----------------------------------------------------------------------------
(* The actions. *)

(* One new row for somebody of the organization of an existing product.    *)
LEMMA OneRowInserted ==
  ASSUME GrantsInv, NEW g \in Unused, NEW u \in Users,
         NEW capability \in Capabilities, NEW p \in Products,
         NEW expiresAt \in 0..Never, Exists(p), IsMember(u, p),
         grants' = [grants EXCEPT ![g] = NewGrant(u, capability, p, expiresAt)],
         UNCHANGED <<now, members, orgOf>>
  PROVE  /\ Inserts({g})
         /\ Gives(g, u, capability, p)'
  <1>1. ASSUME NEW row, row = NewGrant(u, capability, p, expiresAt)
        PROVE  /\ row \in Grant /\ row.issuedAt = now /\ row.revoked = FALSE
               /\ row.grantee = u /\ row.capability = capability
               /\ row.product = p
    BY <1>1 DEF GrantsInv, TypeOK, NewGrant, Grant
  <1>2. grants \in [GrantIds -> Grant \union {NoGrant}] /\ g \in GrantIds
    BY DEF GrantsInv, TypeOK, Unused
  <1>3. grants'[g] = NewGrant(u, capability, p, expiresAt)
    BY <1>2
  <1>4. grants' \in [GrantIds -> Grant \union {NoGrant}]
    BY <1>1, <1>2
  <1>5. /\ grants'[g] \in Grant /\ grants'[g].issuedAt = now
        /\ grants'[g].revoked = FALSE
        /\ grants'[g].grantee = u /\ grants'[g].product = p
        /\ grants'[g].capability = capability
    BY <1>1, <1>3
  <1>6. Inserts({g})
    BY <1>2, <1>4, <1>5 DEF Inserts, Exists, IsMember
  <1> QED BY <1>5, <1>6 DEF Gives

(* The creator of a product is a member of its organization. *)
LEMMA CreatorIsMember ==
  ASSUME GrantsInv, NEW p \in Products, Exists(p)
  PROVE  CreatorOf(p) \in Users /\ IsMember(CreatorOf(p), p)
BY Creators DEF GrantsInv, ControllersAreMembers, CreatorOf, IsMember

(* The creator is granted authority over its product. *)
LEMMA CreatorRowInserted ==
  ASSUME GrantsInv, NEW g \in Unused, NEW capability \in Capabilities,
         NEW p \in Products, Exists(p),
         grants' = [grants EXCEPT
                      ![g] = NewGrant(CreatorOf(p), capability, p, Never)],
         UNCHANGED <<now, members, orgOf>>
  PROVE  Inserts({g}) /\ Gives(g, CreatorOf(p), capability, p)'
  <1>1. PICK u \in Users : u = CreatorOf(p) /\ IsMember(u, p)
    BY CreatorIsMember
  <1>2. Never \in 0..Never
    BY DEF Never
  <1>3. grants' = [grants EXCEPT ![g] = NewGrant(u, capability, p, Never)]
    BY <1>1
  <1>4. Inserts({g}) /\ Gives(g, u, capability, p)'
    BY <1>1, <1>2, <1>3, OneRowInserted
  <1>5. u = CreatorOf(p)'
    BY <1>1 DEF CreatorOf
  <1> QED BY <1>4, <1>5 DEF Gives

LEMMA GrantsInitial == Init => GrantsInv
BY DEF Init, GrantsInv, TypeOK, ControllersAreMembers, IssuedByNow,
       DomainKnowsActiveGrants, AuthorityStaysInOrganization,
       ProductsAreGranted, Recorded, NoGrant

(* The steps of the process and of the clock change no row. *)
LEMMA RowsStay ==
  ASSUME GrantsInv, UNCHANGED <<orgOf, grants>>,
         \/ Start \/ Serve \/ Crash \/ Tick
         \/ \E u \in Users, o \in Orgs : Join(u, o)
         \/ UNCHANGED vars
  PROVE  GrantsInv'
  <1> USE DEF GrantsInv
  <1>0. Recorded' = Recorded
    BY DEF Recorded
  <1>1. TypeOK'
    <2>1. CASE Start
      BY <2>1, <1>0 DEF TypeOK, Start, database, Active
    <2>2. CASE Serve \/ Tick \/ UNCHANGED vars
      BY <2>2, <1>0 DEF TypeOK, Serve, Tick, vars, database
    <2>3. CASE Crash
      BY <2>3, <1>0 DEF TypeOK, Crash, Die, database
    <2>4. ASSUME NEW u \in Users, NEW o \in Orgs, Join(u, o)
          PROVE  TypeOK'
      BY <2>4, <1>0 DEF TypeOK, Join
    <2> QED BY <2>1, <2>2, <2>3, <2>4
  <1>2. members \subseteq members' /\ now <= now' /\ now \in Nat /\ now' \in Nat
    <2>1. now \in Nat
      BY DEF TypeOK
    <2>3. now' = now \/ now' = now + 1
      BY DEF Start, Serve, Crash, Tick, Join, vars
    <2>2. members \subseteq members'
      BY DEF Start, Serve, Crash, Tick, Join, vars, database
    <2> QED BY <2>1, <2>2, <2>3
  <1>3. ControllersAreMembers'
    BY <1>2 DEF ControllersAreMembers
  <1>4. \A g \in Recorded : grants[g].issuedAt \in Nat /\ grants[g].expiresAt \in Nat
    BY RecordedRow DEF Grant, Recorded, Never
  <1>5. IssuedByNow'
    BY <1>0, <1>2, <1>4 DEF IssuedByNow
  <1>6. \A g \in GrantIds : Active(g)' => Active(g)
    BY <1>0, <1>2, <1>4 DEF Active, IssuedByNow
  <1>7. DomainKnowsActiveGrants'
    BY <1>6 DEF DomainKnowsActiveGrants, Start, Serve, Crash, Die, Tick, Join,
                vars, database
  <1>8. purchases' \subseteq purchases
    BY DEF Start, Serve, Crash, Die, Tick, Join, vars, database
  <1>9. AuthorityStaysInOrganization'
    BY <1>0, <1>2, <1>8
       DEF AuthorityStaysInOrganization, Exists, IsMember, Gives
  <1>10. ProductsAreGranted'
    <2>1. \A p \in Products, capability \in Capabilities :
            CreatorGrantRecorded(p, capability) <=> CreatorGrantRecorded(p, capability)'
      BY <1>0 DEF CreatorGrantRecorded, Gives, CreatorOf
    <2>2. phase' = "up" =>
            \A p \in Products, capability \in Capabilities :
              Exists(p) => CreatorGrantRecorded(p, capability)
      BY DEF ProductsAreGranted, Start, Serve, Crash, Die, Tick, Join, vars,
             database
    <2> QED BY <2>1, <2>2 DEF ProductsAreGranted, Exists
  <1> QED BY <1>1, <1>3, <1>5, <1>7, <1>9, <1>10

LEMMA RepairKeeps ==
  ASSUME GrantsInv, NEW p \in Products, NEW capability \in Capabilities,
         NEW g \in GrantIds, RepairCreatorGrant(p, capability, g)
  PROVE  GrantsInv'
  <1>1. Inserts({g})
    BY CreatorRowInserted DEF RepairCreatorGrant
  <1> QED BY <1>1, InsertKeeps
          DEF RepairCreatorGrant, TellDomain, GrantsInv, TypeOK, Exists

LEMMA GrantKeeps ==
  ASSUME GrantsInv, NEW c \in Users, NEW u \in Users, NEW p \in Products,
         NEW capability \in Capabilities, NEW expiration \in Expirations,
         NEW g \in GrantIds, GrantAuthority(c, u, p, capability, expiration, g)
  PROVE  GrantsInv'
  <1>1. expiration.at \in 0..Never
    BY DEF Expirations
  <1>2. Inserts({g})
    BY <1>1, OneRowInserted DEF GrantAuthority, MayGrant, IsController
  <1> QED BY <1>2, InsertKeeps
          DEF GrantAuthority, MayGrant, TellDomain, GrantsInv, TypeOK, Exists

(* The rows of a new product: none, the first or both of them.             *)
LEMMA CreatorRowsInserted ==
  ASSUME GrantsInv, NEW o \in Orgs, NEW p \in Products,
         NEW issue \in GrantIds, NEW handle \in GrantIds,
         NEW c \in Users, MayCreateProduct(c, o, p, issue, handle),
         NEW committed \in SUBSET {issue, handle},
         orgOf' = [orgOf EXCEPT ![p] = o],
         grants' = CreatorGrants(c, p, issue, handle, committed),
         UNCHANGED <<now, members>>
  PROVE  /\ Inserts(committed)
         /\ issue \in committed => Gives(issue, CreatorOf(p), "issue", p)'
         /\ handle \in committed => Gives(handle, CreatorOf(p), "handle", p)'
  <1>1. /\ grants \in [GrantIds -> Grant \union {NoGrant}]
        /\ orgOf' \in [Products -> Orgs \union {NoOrg}]
        /\ orgOf'[p] = o /\ c = Controller[o] /\ issue # handle
        /\ committed \subseteq Unused
        /\ <<o, c>> \in members
    BY DEF GrantsInv, TypeOK, MayCreateProduct, ControllersAreMembers
  <1>2. /\ Never \in 0..Never
        /\ {"issue", "handle"} \subseteq Capabilities
    BY DEF Never, Capabilities
  <1>3. now \in 0..MaxTime
    BY DEF GrantsInv, TypeOK
  <1>4. ASSUME NEW g \in committed
        PROVE  /\ grants'[g] \in Grant /\ grants'[g].issuedAt = now
               /\ grants'[g].revoked = FALSE
               /\ grants'[g].grantee = c /\ grants'[g].product = p
               /\ grants'[g].capability = IF g = issue THEN "issue" ELSE "handle"
    <2>1. grants'[g] =
            NewGrant(c, IF g = issue THEN "issue" ELSE "handle", p, Never)
      BY DEF CreatorGrants
    <2>2. CASE g = issue
      <3>1. grants'[g] = NewGrant(c, "issue", p, Never)
        BY <2>1, <2>2
      <3> QED BY <2>2, <3>1, <1>2, <1>3 DEF NewGrant, Grant
    <2>3. CASE g # issue
      <3>1. grants'[g] = NewGrant(c, "handle", p, Never)
        BY <2>1, <2>3
      <3> QED BY <2>3, <3>1, <1>2, <1>3 DEF NewGrant, Grant
    <2> QED BY <2>2, <2>3
  <1>5. ASSUME NEW g \in GrantIds \ committed PROVE grants'[g] = grants[g]
    BY DEF CreatorGrants
  <1>6. grants' \in [GrantIds -> Grant \union {NoGrant}]
    <2>1. \A g \in GrantIds : grants'[g] \in Grant \union {NoGrant}
      BY <1>1, <1>4, <1>5
    <2>2. grants' = [g \in GrantIds |-> grants'[g]]
      BY DEF CreatorGrants
    <2> QED BY <2>1, <2>2
  <1>7. Inserts(committed)
    BY <1>1, <1>4, <1>5, <1>6 DEF Inserts
  <1> QED BY <1>1, <1>4, <1>7 DEF Gives, CreatorOf

LEMMA CreateKeeps ==
  ASSUME GrantsInv, NEW c \in Users, NEW o \in Orgs, NEW p \in Products,
         NEW issue \in GrantIds, NEW handle \in GrantIds,
         \/ CreateProduct(c, o, p, issue, handle)
         \/ CreateProductThenCrash(c, o, p, issue, handle)
  PROVE  GrantsInv'
  <1>0. /\ MayCreateProduct(c, o, p, issue, handle)
        /\ orgOf' = [orgOf EXCEPT ![p] = o]
        /\ UNCHANGED <<now, members>>
    BY DEF CreateProduct, CreateProductThenCrash
  <1>1. /\ \A q \in Products : Exists(q) => orgOf'[q] = orgOf[q]
        /\ orgOf' \in [Products -> Orgs \union {NoOrg}]
        /\ \A q \in Products : orgOf'[q] # NoOrg => orgOf[q] # NoOrg \/ q = p
    BY <1>0 DEF GrantsInv, TypeOK, MayCreateProduct, Exists
  <1>2. CASE CreateProduct(c, o, p, issue, handle)
    <2>1. /\ Inserts({issue, handle})
          /\ Gives(issue, CreatorOf(p), "issue", p)'
          /\ Gives(handle, CreatorOf(p), "handle", p)'
      <3>1. grants' = CreatorGrants(c, p, issue, handle, {issue, handle})
        BY <1>2 DEF CreateProduct
      <3>2. {issue, handle} \in SUBSET {issue, handle}
        OBVIOUS
      <3> QED BY <1>0, <3>1, <3>2, CreatorRowsInserted
    <2>2. /\ phase = "up" /\ phase' = "up"
          /\ known' = known \union {issue, handle} /\ purchases' = purchases
      BY <1>2 DEF CreateProduct, MayCreateProduct, TellDomain
    <2>3. \A q \in Products, capability \in Capabilities :
            orgOf'[q] # NoOrg =>
              \/ orgOf[q] # NoOrg
              \/ \E g \in {issue, handle} : Gives(g, CreatorOf(q), capability, q)'
      BY <1>1, <2>1 DEF Capabilities
    <2> QED BY <1>0, <1>1, <2>1, <2>2, <2>3, InsertKeeps DEF GrantsInv, TypeOK
  <1>3. CASE CreateProductThenCrash(c, o, p, issue, handle)
    <2>1. PICK committed \in {{}, {issue}} :
            grants' = CreatorGrants(c, p, issue, handle, committed)
      BY <1>3 DEF CreateProductThenCrash
    <2>2. Inserts(committed)
      BY <1>0, <2>1, CreatorRowsInserted
    <2>3. phase' = "down" /\ known' = {} /\ purchases' = {}
      BY <1>3 DEF CreateProductThenCrash, Die
    <2> QED BY <1>0, <1>1, <2>2, <2>3, InsertKeeps
  <1> QED BY <1>2, <1>3

LEMMA RevokeKeeps ==
  ASSUME GrantsInv, NEW c \in Users, NEW r \in GrantIds, RevokeAuthority(c, r)
  PROVE  GrantsInv'
  <1> USE DEF GrantsInv
  <1>0. /\ UNCHANGED <<phase, now, members, orgOf, known, purchases>>
        /\ r \in Recorded
        /\ grants' = [grants EXCEPT ![r].revoked = TRUE]
        /\ grants \in [GrantIds -> Grant \union {NoGrant}]
    BY DEF RevokeAuthority, MayRevoke, TypeOK
  <1>1. grants[r] \in Grant
    BY <1>0, RecordedRow
  <1>2. /\ grants'[r] \in Grant /\ grants'[r].revoked
        /\ grants'[r].grantee = grants[r].grantee
        /\ grants'[r].capability = grants[r].capability
        /\ grants'[r].product = grants[r].product
        /\ grants'[r].issuedAt = grants[r].issuedAt
    BY <1>0, <1>1 DEF Grant
  <1>3. \A g \in GrantIds \ {r} : grants'[g] = grants[g]
    BY <1>0
  <1>4. grants' \in [GrantIds -> Grant \union {NoGrant}]
    BY <1>0, <1>2, <1>3
  <1>5. Recorded' = Recorded
    BY <1>0, <1>2, <1>3 DEF Recorded, Grant, NoGrant
  <1>6. TypeOK'
    BY <1>0, <1>4, <1>5 DEF TypeOK
  <1>7. ControllersAreMembers'
    BY <1>0 DEF ControllersAreMembers
  <1>8. IssuedByNow'
    BY <1>0, <1>2, <1>3, <1>5 DEF IssuedByNow, Recorded
  <1>9. \A g \in GrantIds : Active(g)' => Active(g)
    BY <1>0, <1>2, <1>3, <1>5 DEF Active
  <1>10. DomainKnowsActiveGrants'
    BY <1>0, <1>9 DEF DomainKnowsActiveGrants
  <1>11. \A g \in Recorded : /\ grants'[g].product = grants[g].product
                             /\ grants'[g].grantee = grants[g].grantee
                             /\ grants'[g].capability = grants[g].capability
    BY <1>2, <1>3 DEF Recorded
  <1>12. AuthorityStaysInOrganization'
    BY <1>0, <1>5, <1>11
       DEF AuthorityStaysInOrganization, Exists, IsMember, Gives
  <1>13. ProductsAreGranted'
    BY <1>0, <1>5, <1>11
       DEF ProductsAreGranted, CreatorGrantRecorded, Gives, Exists, CreatorOf
  <1> QED BY <1>6, <1>7, <1>8, <1>10, <1>12, <1>13

(* A sale under a grant that is there. *)
LEMMA SaleKeeps ==
  ASSUME GrantsInv, NEW m \in Users, NEW b \in Users, NEW p \in Products,
         m # b, \E g \in Recorded : Gives(g, m, "issue", p),
         purchases' = purchases \union {Purchase(p, m, b)},
         UNCHANGED <<phase, now, database, known>>
  PROVE  GrantsInv'
  <1> USE DEF GrantsInv, database
  <1>0. Recorded' = Recorded
    BY DEF Recorded
  <1>1. TypeOK'
    BY <1>0 DEF TypeOK, Purchase
  <1>2. ControllersAreMembers' /\ IssuedByNow'
    BY <1>0 DEF ControllersAreMembers, IssuedByNow
  <1>3. DomainKnowsActiveGrants'
    BY <1>0 DEF DomainKnowsActiveGrants, Active
  <1>4. AuthorityStaysInOrganization'
    BY <1>0 DEF AuthorityStaysInOrganization, Exists, IsMember, Gives, Purchase
  <1>5. ProductsAreGranted'
    BY <1>0 DEF ProductsAreGranted, CreatorGrantRecorded, Gives, Exists, CreatorOf
  <1> QED BY <1>1, <1>2, <1>3, <1>4, <1>5

LEMMA BuyFromSellerKeeps ==
  ASSUME GrantsInv, NEW b \in Users, NEW p \in Products, BuyFromSeller(b, p)
  PROVE  GrantsInv'
  <1>1. PICK g \in MostRecent(SellersOf(b, p)) :
          purchases' = purchases \union {Purchase(p, grants[g].grantee, b)}
    BY DEF BuyFromSeller
  <1>2. /\ g \in Recorded /\ Gives(g, grants[g].grantee, "issue", p)
        /\ grants[g].grantee # b
    BY <1>1 DEF MostRecent, SellersOf, Active, Gives
  <1>3. grants[g].grantee \in Users
    BY <1>2, RecordedRow DEF GrantsInv, Recorded, Grant
  <1> QED BY <1>1, <1>2, <1>3, SaleKeeps DEF BuyFromSeller

LEMMA IssueKeeps ==
  ASSUME GrantsInv, NEW m \in Users, NEW b \in Users, NEW p \in Products,
         IssuePurchase(m, b, p)
  PROVE  GrantsInv'
  <1>1. \E g \in Recorded : Gives(g, m, "issue", p)
    BY DEF IssuePurchase, DomainAccepts, GrantsInv, TypeOK
  <1> QED BY <1>1, SaleKeeps DEF IssuePurchase

LEMMA BuyFromCreatorKeeps ==
  ASSUME GrantsInv, NEW b \in Users, NEW p \in Products, NEW g \in GrantIds,
         BuyFromCreator(b, p, g)
  PROVE  GrantsInv'
  <1> DEFINE c == CreatorOf(p)
  <1>1. /\ phase = "up" /\ phase' = "up" /\ Exists(p) /\ c # b
        /\ UNCHANGED <<now, members, orgOf>>
        /\ known' = known \union {g} /\ g \in Unused
        /\ grants' = [grants EXCEPT ![g] = NewGrant(c, "issue", p, Never)]
        /\ purchases' = purchases \union {Purchase(p, c, b)}
    BY DEF BuyFromCreator, ExternalBuyer, IsController, AuthorizedForPurchase,
           TellDomain
  <1>2. c \in Users /\ IsMember(c, p)
    BY <1>1, CreatorIsMember
  <1>3. Never \in 0..Never /\ "issue" \in Capabilities
    BY DEF Never, Capabilities
  <1>4. Inserts({g}) /\ Gives(g, CreatorOf(p), "issue", p)'
    BY <1>1, <1>3, CreatorRowInserted
  <1>5. g \in Recorded'
    BY <1>4, InsertedRows DEF GrantsInv
  <1>6. purchases' \subseteq [product : Products, issuer : Users, buyer : Users]
    BY <1>1, <1>2 DEF GrantsInv, TypeOK, Purchase
  <1>7. \A q \in purchases' :
          \/ q \in purchases
          \/ /\ q.issuer # q.buyer
             /\ \E h \in Recorded' : Gives(h, q.issuer, "issue", q.product)'
    BY <1>1, <1>4, <1>5 DEF Purchase, Gives, CreatorOf
  <1>8. /\ \A q \in Products : Exists(q) => orgOf'[q] = orgOf[q]
        /\ orgOf' \in [Products -> Orgs \union {NoOrg}]
        /\ \A q \in Products : orgOf'[q] # NoOrg => orgOf[q] # NoOrg
    BY <1>1 DEF GrantsInv, TypeOK
  <1> QED BY <1>1, <1>4, <1>6, <1>7, <1>8, InsertKeeps

LEMMA GrantsKept == GrantsInv /\ [Next]_vars => GrantsInv'
  <1> SUFFICES ASSUME GrantsInv, [Next]_vars PROVE GrantsInv'
    OBVIOUS
  <1>1. CASE Start \/ Serve \/ Crash \/ Tick \/ UNCHANGED vars
    BY <1>1, RowsStay DEF Start, Serve, Crash, Tick, vars, database
  <1>2. CASE \E u \in Users, o \in Orgs : Join(u, o)
    BY <1>2, RowsStay DEF Join
  <1>3. CASE \E p \in Products, capability \in Capabilities, g \in GrantIds :
               RepairCreatorGrant(p, capability, g)
    BY <1>3, RepairKeeps
  <1>4. CASE \E u \in Users : Creating(u)
    BY <1>4, CreateKeeps DEF Creating
  <1>5. CASE \E u \in Users : Administering(u)
    BY <1>5, GrantKeeps, RevokeKeeps DEF Administering
  <1>6. CASE \E u \in Users : Selling(u)
    BY <1>6, IssueKeeps, BuyFromSellerKeeps, BuyFromCreatorKeeps DEF Selling
  <1> QED BY <1>1, <1>2, <1>3, <1>4, <1>5, <1>6 DEF Next, Restarting

LEMMA GrantsInvariant == Spec => []GrantsInv
BY GrantsInitial, GrantsKept, PTL DEF Spec

-----------------------------------------------------------------------------
(* Every variable keeps its type: what the domain system was told of is    *)
(* recorded in the database.                                               *)
THEOREM GrantsTypeCorrect == Spec => []TypeOK
BY GrantsInvariant, PTL DEF GrantsInv

(* A grant that is active in the database is known to the domain system,   *)
(* through restarts, repairs, expiry and products created by halves        *)
(* (#hydrateFoundation, grantAuthority, createProduct, buyProduct).        *)
THEOREM DomainKnows == Spec => []DomainKnowsActiveGrants
BY GrantsInvariant, PTL DEF GrantsInv

(* Authority over a product is held, and was ever used, within its         *)
(* organization only, and nobody sells to itself.                          *)
THEOREM AuthorityInside == Spec => []AuthorityStaysInOrganization
BY GrantsInvariant, PTL DEF GrantsInv

(* While the server serves, every product has a recorded seller and        *)
(* handler, however its creation was cut short.                            *)
THEOREM ProductsGranted == Spec => []ProductsAreGranted
BY GrantsInvariant, PTL DEF GrantsInv

(* The status of the dashboard, the query of the policy and the domain     *)
(* system agree about who may sell, at the instant of expiry too           *)
(* (authorityGrantStatus, findActiveAuthorityGrant,                        *)
(* canIssuePurchaseCredential).                                            *)
THEOREM ShownAuthority == Spec => []ShownAuthorityCounts
  <1>1. GrantsInv => ShownAuthorityCounts
    <2> SUFFICES ASSUME GrantsInv, phase = "up", NEW u \in Users, NEW p \in Products
                 PROVE  (\E g \in Recorded : /\ Gives(g, u, "issue", p)
                                             /\ Status(grants[g]) = "active")
                        <=> HasActiveGrant(u, "issue", p) /\ DomainAccepts(u, p)
      BY DEF ShownAuthorityCounts
    <2>1. ASSUME NEW g \in Recorded
          PROVE  Status(grants[g]) = "active" <=> Active(g)
      <3>1. /\ grants[g].revoked \in BOOLEAN /\ grants[g].expiresAt \in Nat
            /\ grants[g].issuedAt <= now /\ now \in Nat
        BY RecordedRow DEF GrantsInv, IssuedByNow, TypeOK, Recorded, Grant, Never
      <3> QED BY <3>1 DEF Status, Active
    <2>2. \A g \in GrantIds : Active(g) => g \in Recorded /\ g \in known
      BY DEF GrantsInv, DomainKnowsActiveGrants, Active
    <2> QED BY <2>1, <2>2 DEF HasActiveGrant, DomainAccepts, Recorded
  <1> QED BY <1>1, GrantsInvariant, PTL

-----------------------------------------------------------------------------
(* Authority that a step leaves active was active before, or was inserted  *)
(* by the step.                                                            *)

LEMMA NothingActivated ==
  ASSUME GrantsInv, UNCHANGED grants, now' = now \/ now' = now + 1,
         NEW u \in Users, NEW capability \in Capabilities, NEW p \in Products,
         HasActiveGrant(u, capability, p)'
  PROVE  HasActiveGrant(u, capability, p)
  <1>1. PICK g \in GrantIds : Active(g)' /\ Gives(g, u, capability, p)'
    BY DEF HasActiveGrant
  <1>2. Recorded' = Recorded /\ g \in Recorded
    BY <1>1 DEF Recorded, Active
  <1>3. now \in Nat
    BY DEF GrantsInv, TypeOK
  <1>4. grants[g].issuedAt \in Nat /\ grants[g].expiresAt \in Nat
        /\ grants[g].issuedAt <= now
    BY <1>2, RecordedRow DEF GrantsInv, IssuedByNow, Recorded, Grant, Never
  <1>5. Active(g)
    BY <1>1, <1>2, <1>3, <1>4 DEF Active
  <1> QED BY <1>1, <1>5 DEF HasActiveGrant, Gives

LEMMA InsertedAuthority ==
  ASSUME GrantsInv, NEW ids, Inserts(ids),
         NEW u \in Users, NEW capability \in Capabilities, NEW p \in Products,
         HasActiveGrant(u, capability, p)', ~HasActiveGrant(u, capability, p)
  PROVE  \E g \in ids : Gives(g, u, capability, p)'
  <1>1. PICK g \in GrantIds : Active(g)' /\ Gives(g, u, capability, p)'
    BY DEF HasActiveGrant
  <1>2. /\ Recorded' = Recorded \union ids
        /\ \A h \in Recorded : grants'[h] = grants[h] /\ h \notin ids
    BY InsertedRows DEF GrantsInv
  <1>3. CASE g \in Recorded
    <2>1. grants'[g] = grants[g] /\ now' = now
      BY <1>2, <1>3 DEF Inserts
    <2>2. Active(g) /\ Gives(g, u, capability, p)
      BY <1>1, <1>3, <2>1 DEF Active, Gives
    <2> QED BY <2>2 DEF HasActiveGrant
  <1>4. CASE g \in ids
    BY <1>1, <1>4
  <1> QED BY <1>1, <1>2, <1>3, <1>4 DEF Active

LEMMA NothingRestored ==
  ASSUME GrantsInv, NEW c \in Users, NEW r \in GrantIds, RevokeAuthority(c, r),
         NEW u \in Users, NEW capability \in Capabilities, NEW p \in Products,
         HasActiveGrant(u, capability, p)'
  PROVE  HasActiveGrant(u, capability, p)
  <1>1. PICK g \in GrantIds : Active(g)' /\ Gives(g, u, capability, p)'
    BY DEF HasActiveGrant
  <1>2. /\ grants' = [grants EXCEPT ![r].revoked = TRUE] /\ now' = now
        /\ grants \in [GrantIds -> Grant \union {NoGrant}]
        /\ grants[r] \in Grant
    BY RecordedRow DEF RevokeAuthority, MayRevoke, GrantsInv, TypeOK
  <1>3. grants'[r].revoked
    BY <1>2 DEF Grant
  <1>4. g # r
    BY <1>1, <1>3 DEF Active
  <1>5. grants'[g] = grants[g]
    BY <1>2, <1>4
  <1> QED BY <1>1, <1>2, <1>5 DEF HasActiveGrant, Active, Gives, Recorded

LEMMA ActiveInserted ==
  ASSUME GrantsInv, NEW g \in GrantIds, Inserts({g}), grants'[g].expiresAt = Never,
         NEW u \in Users, NEW capability \in Capabilities, NEW p \in Products,
         Gives(g, u, capability, p)'
  PROVE  HasActiveGrant(u, capability, p)'
  <1>1. g \in Recorded'
    BY InsertedRows DEF GrantsInv
  <1>2. now \in 0..MaxTime
    BY DEF GrantsInv, TypeOK
  <1>3. /\ grants'[g].issuedAt = now' /\ now' = now /\ ~grants'[g].revoked
        /\ grants'[g].expiresAt = MaxTime + 1
    BY DEF Inserts, Never
  <1>4. Active(g)'
    BY <1>1, <1>2, <1>3 DEF Active
  <1> QED BY <1>4 DEF HasActiveGrant

(* A sale rests on authority that is active at that instant, and the buyer *)
(* is from outside the organization (issuePurchase, buyProduct): also when *)
(* the sale itself had to authorize the creator.                           *)
THEOREM SalesAuthorized == Spec => SalesAreAuthorized
  <1> DEFINE Authorized ==
        \A q \in purchases' \ purchases :
          /\ HasActiveGrant(q.issuer, "issue", q.product)'
          /\ ~IsMember(q.buyer, q.product)
  <1>1. ASSUME GrantsInv, NEW m \in Users, NEW b \in Users, NEW p \in Products,
               IssuePurchase(m, b, p)
        PROVE  Authorized
    <2>1. /\ purchases' = purchases \union {Purchase(p, m, b)}
          /\ HasActiveGrant(m, "issue", p) /\ ~IsMember(b, p)
          /\ UNCHANGED <<now, grants>>
      BY <1>1 DEF IssuePurchase, ExternalBuyer, database
    <2>2. HasActiveGrant(m, "issue", p)'
      BY <2>1 DEF HasActiveGrant, Active, Gives, Recorded
    <2> QED BY <2>1, <2>2 DEF Purchase
  <1>2. ASSUME GrantsInv, NEW b \in Users, NEW p \in Products, BuyFromSeller(b, p)
        PROVE  Authorized
    <2>1. PICK g \in MostRecent(SellersOf(b, p)) :
            purchases' = purchases \union {Purchase(p, grants[g].grantee, b)}
      BY <1>2 DEF BuyFromSeller
    <2>2. ~IsMember(b, p) /\ UNCHANGED <<now, grants>>
      BY <1>2 DEF BuyFromSeller, ExternalBuyer, database
    <2>3. PICK m \in Users : m = grants[g].grantee
      <3>1. g \in Recorded
        BY <2>1 DEF MostRecent, SellersOf, Active
      <3> QED BY <3>1, <1>2, RecordedRow DEF GrantsInv, Recorded, Grant
    <2>4. g \in GrantIds /\ Active(g) /\ Gives(g, m, "issue", p)
      BY <2>1, <2>3 DEF MostRecent, SellersOf, Gives
    <2>5. HasActiveGrant(m, "issue", p)'
      BY <2>2, <2>4 DEF HasActiveGrant, Active, Gives, Recorded
    <2> QED BY <2>1, <2>2, <2>3, <2>5 DEF Purchase
  <1>3. ASSUME GrantsInv, NEW b \in Users, NEW p \in Products, NEW g \in GrantIds,
               BuyFromCreator(b, p, g)
        PROVE  Authorized
    <2>1. /\ Exists(p) /\ g \in Unused
          /\ UNCHANGED <<now, members, orgOf>> /\ ~IsMember(b, p)
          /\ grants' = [grants EXCEPT
                          ![g] = NewGrant(CreatorOf(p), "issue", p, Never)]
          /\ purchases' = purchases \union {Purchase(p, CreatorOf(p), b)}
          /\ "issue" \in Capabilities
      BY <1>3 DEF BuyFromCreator, ExternalBuyer, AuthorizedForPurchase,
                  Capabilities
    <2>2. Inserts({g}) /\ Gives(g, CreatorOf(p), "issue", p)'
      BY <1>3, <2>1, CreatorRowInserted
    <2>3. PICK m \in Users : m = CreatorOf(p) /\ m = CreatorOf(p)'
      BY <1>3, <2>1, CreatorIsMember DEF CreatorOf
    <2>4. grants'[g].expiresAt = Never
      BY <1>3, <2>1 DEF GrantsInv, TypeOK, NewGrant
    <2>5. Gives(g, m, "issue", p)'
      BY <2>2, <2>3 DEF Gives
    <2>6. HasActiveGrant(m, "issue", p)'
      BY <1>3, <2>1, <2>2, <2>4, <2>5, ActiveInserted
    <2> QED BY <2>1, <2>3, <2>6 DEF Purchase
  <1>4. GrantsInv /\ [Next]_vars => Authorized
    <2> SUFFICES ASSUME GrantsInv, [Next]_vars PROVE Authorized
      OBVIOUS
    <2>1. CASE \E u \in Users : Selling(u)
      <3> HIDE DEF Authorized
      <3> QED BY <2>1, <1>1, <1>2, <1>3 DEF Selling
    <2>2. CASE purchases' \subseteq purchases
      BY <2>2
    <2>3. \/ \E u \in Users : Selling(u)
          \/ purchases' \subseteq purchases
      BY DEF Next, Restarting, Start, RepairCreatorGrant, Serve, Crash, Die,
             Tick, Join, Creating, CreateProduct, CreateProductThenCrash,
             Administering, GrantAuthority, RevokeAuthority, vars
    <2> QED BY <2>1, <2>2, <2>3
  <1> QED BY <1>4, GrantsInvariant, PTL DEF Spec, SalesAreAuthorized

(* Authority comes from the controller's grant; besides, only the creator  *)
(* of a product gets it, at creation, with a purchase, or in a repair if   *)
(* it never had it (grantAuthority, createProduct, buyProduct,             *)
(* #hydrateFoundation): revoked or expired authority does not come back    *)
(* by itself.                                                              *)
THEOREM AuthorityFromController == Spec => AuthorityComesFromController
  <1> DEFINE New(u, capability, p) ==
        HasActiveGrant(u, capability, p)' /\ ~HasActiveGrant(u, capability, p)
  <1> DEFINE ToCreator(u, capability, p) ==
        /\ u = CreatorOf(p)'
        /\ phase = "hydrating" => ~CreatorGrantRecorded(p, capability)
  <1> DEFINE ByController(u, capability, p) ==
        \E c \in Users, e \in Expirations, g \in GrantIds :
          GrantAuthority(c, u, p, capability, e, g)
  <1>1. ASSUME GrantsInv, [Next]_vars, NEW u \in Users,
               NEW capability \in Capabilities, NEW p \in Products,
               New(u, capability, p)
        PROVE  ToCreator(u, capability, p) \/ ByController(u, capability, p)
    <2>1. CASE UNCHANGED grants /\ (now' = now \/ now' = now + 1)
      BY <1>1, <2>1, NothingActivated
    <2>2. CASE \E c \in Users, g \in GrantIds : RevokeAuthority(c, g)
      BY <1>1, <2>2, NothingRestored
    <2>3. ASSUME NEW q \in Products, NEW d \in Capabilities, NEW g \in GrantIds,
                 RepairCreatorGrant(q, d, g)
          PROVE  ToCreator(u, capability, p)
      <3>1. Inserts({g}) /\ Gives(g, CreatorOf(q), d, q)'
        BY <1>1, <2>3, CreatorRowInserted DEF RepairCreatorGrant
      <3>2. Gives(g, u, capability, p)'
        BY <1>1, <3>1, InsertedAuthority
      <3>3. p = q /\ capability = d /\ u = CreatorOf(p)'
        BY <3>1, <3>2 DEF Gives
      <3> QED BY <2>3, <3>3 DEF RepairCreatorGrant
    <2>4. ASSUME NEW c \in Users, NEW o \in Orgs, NEW q \in Products,
                 NEW issue \in GrantIds, NEW handle \in GrantIds,
                 \/ CreateProduct(c, o, q, issue, handle)
                 \/ CreateProductThenCrash(c, o, q, issue, handle)
          PROVE  ToCreator(u, capability, p)
      <3>1. /\ MayCreateProduct(c, o, q, issue, handle) /\ phase = "up"
            /\ orgOf' = [orgOf EXCEPT ![q] = o]
            /\ UNCHANGED <<now, members>>
        BY <2>4 DEF CreateProduct, CreateProductThenCrash, MayCreateProduct
      <3>2. PICK committed \in SUBSET {issue, handle} :
              grants' = CreatorGrants(c, q, issue, handle, committed)
        BY <2>4 DEF CreateProduct, CreateProductThenCrash
      <3>3. /\ Inserts(committed)
            /\ issue \in committed => Gives(issue, CreatorOf(q), "issue", q)'
            /\ handle \in committed => Gives(handle, CreatorOf(q), "handle", q)'
        BY <1>1, <3>1, <3>2, CreatorRowsInserted
      <3>4. PICK g \in committed : Gives(g, u, capability, p)'
        BY <1>1, <3>3, InsertedAuthority
      <3>5. p = q /\ u = CreatorOf(p)'
        BY <3>3, <3>4 DEF Gives
      <3> QED BY <3>1, <3>5
    <2>5. ASSUME NEW c \in Users, NEW v \in Users, NEW q \in Products,
                 NEW d \in Capabilities, NEW e \in Expirations, NEW g \in GrantIds,
                 GrantAuthority(c, v, q, d, e, g)
          PROVE  ByController(u, capability, p)
      <3>1. e.at \in 0..Never
        BY DEF Expirations
      <3>2. Inserts({g}) /\ Gives(g, v, d, q)'
        BY <1>1, <2>5, <3>1, OneRowInserted
           DEF GrantAuthority, MayGrant, IsController
      <3>3. Gives(g, u, capability, p)'
        BY <1>1, <3>2, InsertedAuthority
      <3>4. p = q /\ capability = d /\ u = v
        BY <3>2, <3>3 DEF Gives
      <3> QED BY <2>5, <3>4
    <2>6. ASSUME NEW b \in Users, NEW q \in Products, NEW g \in GrantIds,
                 BuyFromCreator(b, q, g)
          PROVE  ToCreator(u, capability, p)
      <3>1. /\ Exists(q) /\ g \in Unused /\ UNCHANGED <<now, members, orgOf>>
            /\ grants' = [grants EXCEPT
                            ![g] = NewGrant(CreatorOf(q), "issue", q, Never)]
            /\ phase = "up" /\ "issue" \in Capabilities
        BY <2>6 DEF BuyFromCreator, ExternalBuyer, AuthorizedForPurchase,
                    Capabilities
      <3>2. Inserts({g}) /\ Gives(g, CreatorOf(q), "issue", q)'
        BY <1>1, <3>1, CreatorRowInserted
      <3>3. Gives(g, u, capability, p)'
        BY <1>1, <3>2, InsertedAuthority
      <3>4. p = q /\ u = CreatorOf(p)'
        BY <3>2, <3>3 DEF Gives
      <3> QED BY <3>1, <3>4
    <2>7. \/ UNCHANGED grants /\ (now' = now \/ now' = now + 1)
          \/ \E q \in Products, d \in Capabilities, g \in GrantIds :
               RepairCreatorGrant(q, d, g)
          \/ \E c \in Users : Creating(c) \/ Administering(c)
          \/ \E b \in Users, q \in Products, g \in GrantIds :
               BuyFromCreator(b, q, g)
      BY <1>1 DEF Next, Restarting, Start, Serve, Crash, Tick, Join, Selling,
                  IssuePurchase, BuyFromSeller, vars, database
    <2> HIDE DEF ToCreator, ByController, New
    <2> QED BY <2>1, <2>2, <2>3, <2>4, <2>5, <2>6, <2>7
            DEF Creating, Administering
  <1> DEFINE Granted ==
        \A u \in Users, capability \in Capabilities, p \in Products :
          (HasActiveGrant(u, capability, p)' /\ ~HasActiveGrant(u, capability, p))
          => \/ /\ u = CreatorOf(p)'
                /\ phase = "hydrating" => ~CreatorGrantRecorded(p, capability)
             \/ \E c \in Users, e \in Expirations, g \in GrantIds :
                  GrantAuthority(c, u, p, capability, e, g)
  <1>2. GrantsInv /\ [Next]_vars => Granted
    BY <1>1
  <1> QED BY <1>2, GrantsInvariant, PTL DEF Spec, AuthorityComesFromController
=============================================================================
