-------------------------- MODULE Approvals_proofs --------------------------
(***************************************************************************)
(* Proofs about Approvals, for every set of accounts, organizations and    *)
(* request ids.                                                            *)
(***************************************************************************)
EXTENDS Approvals, TLAPS

USE NoUserAssumption, NoOrgAssumption

-----------------------------------------------------------------------------
(* What the row operators return. *)

LEMMA PendingRow ==
  ASSUME NEW u \in Users, NEW S, NEW o \in S
  PROVE  Pending(u, o) \in Request(S)
BY DEF Pending, Request

LEMMA DecidedRow ==
  ASSUME NEW S, NEW request \in Request(S), request.status = "pending",
         NEW a \in Users, NEW approved \in BOOLEAN
  PROVE  /\ Decided(request, a, approved) \in Request(S)
         /\ request.requester \in Users
         /\ request.org \in S
<1>1. request # NoRequest
  BY DEF NoRequest
<1>2. request \in [status : {"pending", "approved", "rejected"},
                   requester : Users, org : S, reviewer : Users \union {NoUser}]
  BY <1>1 DEF Request
<1>3. Decided(request, a, approved) \in
        [status : {"pending", "approved", "rejected"},
         requester : Users, org : S, reviewer : Users \union {NoUser}]
  BY <1>2 DEF Decided
<1>4. QED
  BY <1>2, <1>3 DEF Request

LEMMA InsertedRow ==
  ASSUME NEW I, NEW S, NEW table \in [I -> Request(S)], NEW r \in I,
         NEW request \in Request(S), NEW clash \in BOOLEAN
  PROVE  InsertPending(table, r, request, clash) \in [I -> Request(S)]
BY DEF InsertPending

LEMMA DecisionKeepsSubject ==
  ASSUME NEW I, NEW S, NEW table \in [I -> Request(S)], NEW r \in I,
         NEW a, NEW approved, NEW q \in I
  PROVE  LET decided == [table EXCEPT ![r] = Decided(@, a, approved)] IN
         /\ decided[q].requester = table[q].requester
         /\ decided[q].org = table[q].org
<1>1. table[q] \in [status : {"none", "pending", "approved", "rejected"},
                    requester : Users \union {NoUser}, org : S \union {NoOrg},
                    reviewer : Users \union {NoUser}]
  BY DEF Request, NoRequest
<1>2. /\ Decided(table[q], a, approved).requester = table[q].requester
      /\ Decided(table[q], a, approved).org = table[q].org
  BY <1>1 DEF Decided
<1>3. QED
  BY <1>2

LEMMA PairAdded ==
  ASSUME NEW S, NEW T, NEW P \in SUBSET (S \X T), NEW s \in S, NEW t \in T
  PROVE  P \union {<<s, t>>} \subseteq S \X T
OBVIOUS

LEMMA EntryChanged ==
  ASSUME NEW I, NEW V, NEW f \in [I -> V], NEW i \in I, NEW v \in V
  PROVE  [f EXCEPT ![i] = v] \in [I -> V]
OBVIOUS

-----------------------------------------------------------------------------
(* The transaction that decides an organization request keeps the database *)
(* well typed, and the request names an organization and an account.       *)
LEMMA OrganizationDecisionTyped ==
  ASSUME DatabaseTypeOK, fault \in BOOLEAN,
         NEW a \in Users, NEW r \in OrgRequestIds, NEW approved \in BOOLEAN,
         MayDecideOrganization(a, r, approved),
         CommitOrganizationDecision(a, r, approved)
  PROVE  /\ DatabaseTypeOK' /\ fault' \in BOOLEAN
         /\ orgRequest[r].org \in Orgs /\ orgRequest[r].requester \in Users
<1> DEFINE o == orgRequest[r].org
           u == orgRequest[r].requester
           decided == Decided(orgRequest[r], a, approved)
           clash == approved /\ OrganizationClash(o, u)
<1>1. o \in Orgs /\ u \in Users /\ decided \in Request(Orgs)
  BY DecidedRow DEF MayDecideOrganization, DatabaseTypeOK
<1>2. fault' \in BOOLEAN
  BY DEF CommitOrganizationDecision, OrganizationClash
<1>3. UNCHANGED <<accounts, admins, regulators, membershipRequest, roleRequest>>
  BY DEF CommitOrganizationDecision
<1>4. orgRequest' = orgRequest \/ orgRequest' = [orgRequest EXCEPT ![r] = decided]
  BY DEF CommitOrganizationDecision
<1>5. createdBy' = createdBy \/ createdBy' = [createdBy EXCEPT ![o] = u]
  BY DEF CommitOrganizationDecision
<1>6. /\ controllers' = controllers \/ controllers' = controllers \union {<<o, u>>}
      /\ members' = members \/ members' = members \union {<<o, u>>}
  BY DEF CommitOrganizationDecision
<1> HIDE DEF o, u, decided
<1>7. orgRequest' \in [OrgRequestIds -> Request(Orgs)]
  BY <1>1, <1>4, EntryChanged DEF DatabaseTypeOK
<1>8. createdBy' \in [Orgs -> Users \union {NoUser}]
  BY <1>1, <1>5, EntryChanged DEF DatabaseTypeOK
<1>9. controllers' \subseteq Orgs \X Users /\ members' \subseteq Orgs \X Users
  BY <1>1, <1>6, PairAdded DEF DatabaseTypeOK
<1>10. DatabaseTypeOK'
  BY <1>3, <1>7, <1>8, <1>9 DEF DatabaseTypeOK
<1>11. QED
  BY <1>1, <1>2, <1>10 DEF o, u

(* Every reachable state is well typed: in particular, the account the     *)
(* bootstrap appoints is a real one, and every row that is not blank names *)
(* a real requester and organization.                                      *)
THEOREM TypeCorrect == Spec => []TypeOK
<1>1. Init => TypeOK
  BY DEF Init, TypeOK, DatabaseTypeOK, ProcessTypeOK, NoOrganizations, Request
<1>2. TypeOK /\ [Next]_vars => TypeOK'
  <2> SUFFICES ASSUME TypeOK, [Next]_vars
               PROVE  TypeOK'
    OBVIOUS
  <2> USE DEF TypeOK, ProcessTypeOK, authorityTables, requestTables, process
  <2>1. CASE StartWithAdministrator
    BY <2>1 DEF StartWithAdministrator, DatabaseTypeOK
  <2>2. ASSUME NEW u \in Users, StartCreatesAccount(u)
        PROVE  TypeOK'
    BY <2>2 DEF StartCreatesAccount, DatabaseTypeOK
  <2>3. CASE AppointSystemAdministrator
    BY <2>3 DEF AppointSystemAdministrator, DatabaseTypeOK
  <2>4. CASE Crash
    BY <2>4 DEF Crash, NoOrganizations, DatabaseTypeOK
  <2>5. ASSUME NEW u \in Users, Register(u)
        PROVE  TypeOK'
    BY <2>5 DEF Register, DatabaseTypeOK
  <2>6. ASSUME NEW u \in Users, NEW r \in OrgRequestIds, NEW o \in Orgs,
               RequestOrganization(u, r, o)
        PROVE  TypeOK'
    <3>1. orgRequest' \in [OrgRequestIds -> Request(Orgs)]
      BY <2>6, PendingRow, InsertedRow DEF RequestOrganization, DatabaseTypeOK
    <3>2. QED
      BY <2>6, <3>1 DEF RequestOrganization, DatabaseTypeOK
  <2>7. ASSUME NEW u \in Users, NEW r \in MembershipRequestIds, NEW o \in Orgs,
               RequestMembership(u, r, o)
        PROVE  TypeOK'
    <3>1. membershipRequest' \in [MembershipRequestIds -> Request(Orgs)]
      BY <2>7, PendingRow, InsertedRow DEF RequestMembership, DatabaseTypeOK, MembershipPending
    <3>2. QED
      BY <2>7, <3>1 DEF RequestMembership, DatabaseTypeOK, MembershipPending
  <2>8. ASSUME NEW u \in Users, NEW r \in RoleRequestIds,
               RequestSpecialRole(u, r)
        PROVE  TypeOK'
    <3>1. roleRequest' \in [RoleRequestIds -> Request({NoOrg})]
      BY <2>8, PendingRow, InsertedRow DEF RequestSpecialRole, DatabaseTypeOK, RolePending
    <3>2. QED
      BY <2>8, <3>1 DEF RequestSpecialRole, DatabaseTypeOK, RolePending
  <2>9. ASSUME NEW a \in Users, NEW r \in OrgRequestIds, NEW approved \in BOOLEAN,
                DecideOrganizationRequest(a, r, approved)
         PROVE  TypeOK'
    <3>1. /\ DatabaseTypeOK' /\ fault' \in BOOLEAN
          /\ orgRequest[r].org \in Orgs /\ orgRequest[r].requester \in Users
      BY <2>9, OrganizationDecisionTyped DEF DecideOrganizationRequest
    <3>2. registrant' \in [Orgs -> Users \union {NoUser}]
      BY <2>9, <3>1, EntryChanged
      DEF DecideOrganizationRequest, RegisteredOrganizations
    <3>3. QED
      BY <2>9, <3>1, <3>2 DEF DecideOrganizationRequest
  <2>10. ASSUME NEW a \in Users, NEW r \in OrgRequestIds, NEW approved \in BOOLEAN,
                DecideOrganizationThenCrash(a, r, approved)
         PROVE  TypeOK'
    <3>1. DatabaseTypeOK' /\ fault' \in BOOLEAN
      BY <2>10, OrganizationDecisionTyped DEF DecideOrganizationThenCrash
    <3>2. phase = "up"
      BY <2>10 DEF DecideOrganizationThenCrash, MayDecideOrganization,
                   AdministratorCaller
    <3>3. QED
      BY <2>10, <3>1, <3>2 DEF DecideOrganizationThenCrash, NoOrganizations
  <2>11. ASSUME NEW c \in Users, NEW r \in MembershipRequestIds,
                NEW approved \in BOOLEAN, DecideMembershipRequest(c, r, approved)
         PROVE  TypeOK'
    <3>1. /\ Decided(membershipRequest[r], c, approved) \in Request(Orgs)
          /\ membershipRequest[r].org \in Orgs
          /\ membershipRequest[r].requester \in Users
      BY <2>11, DecidedRow DEF DecideMembershipRequest, MayDecideMembership, DatabaseTypeOK
    <3>2. membershipRequest' \in [MembershipRequestIds -> Request(Orgs)]
      BY <2>11, <3>1 DEF DecideMembershipRequest, MayDecideMembership, DatabaseTypeOK
    <3>3. members' \subseteq Orgs \X Users
      BY <2>11, <3>1 DEF DecideMembershipRequest, MayDecideMembership, DatabaseTypeOK
    <3>4. fault' \in BOOLEAN
      BY <2>11 DEF DecideMembershipRequest, MayDecideMembership, DatabaseTypeOK
    <3>5. QED
      BY <2>11, <3>2, <3>3, <3>4 DEF DecideMembershipRequest, MayDecideMembership, DatabaseTypeOK
  <2>12. ASSUME NEW a \in Users, NEW r \in RoleRequestIds,
                NEW approved \in BOOLEAN, DecideSpecialRoleRequest(a, r, approved)
         PROVE  TypeOK'
    <3>1. /\ Decided(roleRequest[r], a, approved) \in Request({NoOrg})
          /\ roleRequest[r].requester \in Users
      BY <2>12, DecidedRow DEF DecideSpecialRoleRequest, MayDecideSpecialRole, DatabaseTypeOK
    <3>2. QED
      BY <2>12, <3>1 DEF DecideSpecialRoleRequest, MayDecideSpecialRole, DatabaseTypeOK
  <2>13. CASE UNCHANGED vars
    BY <2>13 DEF vars, DatabaseTypeOK
  <2> HIDE DEF TypeOK, ProcessTypeOK, authorityTables, requestTables, process
  <2>14. QED
    BY <2>1, <2>2, <2>3, <2>4, <2>5, <2>6, <2>7, <2>8, <2>9, <2>10, <2>11,
       <2>12, <2>13 DEF Next, Starting, Requesting, Deciding
<1>3. QED
  BY <1>1, <1>2, PTL DEF Spec

-----------------------------------------------------------------------------
(* The bootstrap and the administrator.  AdministratorsStandApart is not   *)
(* inductive: an account may be between its creation and its appointment,  *)
(* and an appointment is safe because that account was fresh and no one is *)
(* served until it is made.                                                *)
ApartInv ==
  /\ AdministratorsStandApart
  /\ admins \subseteq accounts
  /\ \A u \in Users : Involved(u) => u \in accounts
  /\ phase = "appointing" => admins = {} /\ candidate \in accounts
  /\ \A u \in Users : phase = "appointing" /\ u = candidate => ~Involved(u)

(* A call of u involves no account but u. *)
LEMMA RequestInvolvesCaller ==
  ASSUME TypeOK, NEW u \in Users, Requesting(u), NEW x \in Users, Involved(x)'
  PROVE  Involved(x) \/ (x = u /\ u \in accounts /\ u \notin admins)
<1> USE DEF Involved, TypeOK, DatabaseTypeOK, authorityTables, Pending,
            InsertPending, OrdinaryCaller
<1>1. CASE Register(u)
  BY <1>1 DEF Register, requestTables
<1>2. ASSUME NEW r \in OrgRequestIds, NEW o \in Orgs, RequestOrganization(u, r, o)
      PROVE  Involved(x) \/ (x = u /\ u \in accounts /\ u \notin admins)
  BY <1>2 DEF RequestOrganization
<1>3. ASSUME NEW r \in MembershipRequestIds, NEW o \in Orgs,
             RequestMembership(u, r, o)
      PROVE  Involved(x) \/ (x = u /\ u \in accounts /\ u \notin admins)
  BY <1>3 DEF RequestMembership, MayRequestMembership
<1>4. ASSUME NEW r \in RoleRequestIds, RequestSpecialRole(u, r)
      PROVE  Involved(x) \/ (x = u /\ u \in accounts /\ u \notin admins)
  BY <1>4 DEF RequestSpecialRole, MayRequestSpecialRole
<1>5. QED
  BY <1>1, <1>2, <1>3, <1>4 DEF Requesting

(* A decision involves nobody who was not involved already. *)
LEMMA DecisionInvolvesNobody ==
  ASSUME TypeOK, NEW a \in Users, NEW approved \in BOOLEAN,
         Deciding(a, approved), NEW x \in Users, Involved(x)'
  PROVE  Involved(x)
<1> USE DEF Involved, TypeOK, DatabaseTypeOK
<1>1. ASSUME NEW r \in OrgRequestIds, MayDecideOrganization(a, r, approved),
             CommitOrganizationDecision(a, r, approved)
      PROVE  Involved(x)
  <2>1. orgRequest[r].requester \in Users
    BY <1>1, OrganizationDecisionTyped DEF ProcessTypeOK
  <2>2. \A q \in OrgRequestIds :
           orgRequest'[q].requester = orgRequest[q].requester
    BY <1>1, DecisionKeepsSubject DEF CommitOrganizationDecision
  <2>3. UNCHANGED <<regulators, membershipRequest, roleRequest>>
    BY <1>1 DEF CommitOrganizationDecision
  <2>4. ASSUME NEW o \in Orgs
        PROVE  /\ createdBy'[o] = x
                    => createdBy[o] = x \/ orgRequest[r].requester = x
               /\ <<o, x>> \in controllers' \union members'
                    => \/ <<o, x>> \in controllers \union members
                       \/ orgRequest[r].requester = x
    BY <1>1 DEF CommitOrganizationDecision
  <2>5. QED
    BY <2>1, <2>2, <2>3, <2>4
<1>2. ASSUME NEW r \in MembershipRequestIds, DecideMembershipRequest(a, r, approved)
      PROVE  Involved(x)
  <2>1. \A q \in MembershipRequestIds :
           membershipRequest'[q].requester = membershipRequest[q].requester
    BY <1>2, DecisionKeepsSubject DEF DecideMembershipRequest, MayDecideMembership
  <2>2. \A o \in Orgs : <<o, x>> \in members'
                       => \/ <<o, x>> \in members
                          \/ membershipRequest[r].requester = x
    BY <1>2 DEF DecideMembershipRequest, MayDecideMembership
  <2>3. UNCHANGED <<createdBy, controllers, regulators, orgRequest, roleRequest>>
    BY <1>2 DEF DecideMembershipRequest, MayDecideMembership
  <2>4. QED
    BY <2>1, <2>2, <2>3
<1>3. ASSUME NEW r \in RoleRequestIds, DecideSpecialRoleRequest(a, r, approved)
      PROVE  Involved(x)
  <2>1. \A q \in RoleRequestIds :
           roleRequest'[q].requester = roleRequest[q].requester
    BY <1>3, DecisionKeepsSubject DEF DecideSpecialRoleRequest, MayDecideSpecialRole
  <2>2. x \in regulators' => x \in regulators \/ roleRequest[r].requester = x
    BY <1>3 DEF DecideSpecialRoleRequest, MayDecideSpecialRole
  <2>3. UNCHANGED <<createdBy, controllers, members, orgRequest, membershipRequest>>
    BY <1>3 DEF DecideSpecialRoleRequest, MayDecideSpecialRole
  <2>4. QED
    BY <2>1, <2>2, <2>3
<1>4. QED
  BY <1>1, <1>2, <1>3
  DEF Deciding, DecideOrganizationRequest, DecideOrganizationThenCrash

(* Starting and crashing leave the requests and the authority alone. *)
LEMMA InvolvementKept ==
  ASSUME NEW x, UNCHANGED <<authorityTables, requestTables>>
  PROVE  Involved(x)' <=> Involved(x)
BY DEF Involved, authorityTables, requestTables

LEMMA ApartStep == TypeOK /\ TypeOK' /\ ApartInv /\ [Next]_vars => ApartInv'
<1> SUFFICES ASSUME TypeOK, TypeOK', ApartInv, [Next]_vars
             PROVE  ApartInv'
  OBVIOUS
<1> USE DEF SingleAdministrator, AdministratorsStandApart
<1>1. CASE StartWithAdministrator
  <2>1. UNCHANGED <<authorityTables, requestTables, accounts, admins>> /\ phase' = "up"
    BY <1>1 DEF StartWithAdministrator
  <2>2. QED
    BY <2>1, InvolvementKept DEF ApartInv
<1>2. ASSUME NEW u \in Users, StartCreatesAccount(u)
      PROVE  ApartInv'
  <2>1. /\ UNCHANGED <<authorityTables, requestTables, admins>>
        /\ accounts' = accounts \union {u} /\ u \notin accounts
        /\ admins = {} /\ candidate' = u
    BY <1>2 DEF StartCreatesAccount
  <2>2. QED
    BY <2>1, InvolvementKept DEF ApartInv
<1>3. CASE AppointSystemAdministrator
  <2>1. /\ UNCHANGED <<authorityTables, requestTables, accounts>>
        /\ admins' = admins \union {candidate}
        /\ phase = "appointing" /\ phase' = "up"
    BY <1>3 DEF AppointSystemAdministrator
  <2>2. QED
    BY <2>1, InvolvementKept DEF ApartInv, TypeOK, ProcessTypeOK
<1>4. CASE Crash
  <2>1. UNCHANGED <<authorityTables, requestTables, accounts, admins>> /\ phase' = "down"
    BY <1>4 DEF Crash
  <2>2. QED
    BY <2>1, InvolvementKept DEF ApartInv
<1>5. ASSUME NEW u \in Users, Requesting(u)
      PROVE  ApartInv'
  <2>1. /\ admins' = admins /\ phase' = phase /\ phase = "up"
        /\ accounts \subseteq accounts'
    BY <1>5 DEF Requesting, Register, RequestOrganization, RequestMembership,
                RequestSpecialRole, process, OrdinaryCaller,
                MayRequestMembership, MayRequestSpecialRole
  <2>2. QED
    BY <1>5, <2>1, RequestInvolvesCaller DEF ApartInv, TypeOK, DatabaseTypeOK
<1>6. ASSUME NEW u \in Users, NEW approved \in BOOLEAN, Deciding(u, approved)
      PROVE  ApartInv'
  <2>1. /\ admins' = admins /\ accounts' = accounts
        /\ phase' # "appointing"
    BY <1>6 DEF Deciding, DecideOrganizationRequest, DecideOrganizationThenCrash,
                CommitOrganizationDecision, MayDecideOrganization,
                AdministratorCaller, DecideMembershipRequest, MayDecideMembership,
                DecideSpecialRoleRequest, MayDecideSpecialRole, process
  <2>2. QED
    BY <1>6, <2>1, DecisionInvolvesNobody DEF ApartInv, TypeOK, DatabaseTypeOK
<1>7. CASE UNCHANGED vars
  <2>1. UNCHANGED <<authorityTables, requestTables, accounts, admins, phase, candidate>>
    BY <1>7 DEF vars, process
  <2>2. QED
    BY <2>1, InvolvementKept DEF ApartInv
<1>8. QED
  BY <1>1, <1>2, <1>3, <1>4, <1>5, <1>6, <1>7 DEF Next, Starting

(* The administrator never has a stake in what it decides about, whatever  *)
(* start or crash lies between the creation of its account and its         *)
(* appointment.                                                            *)
THEOREM AdministratorApart == Spec => []AdministratorsStandApart
<1>1. Init => ApartInv
  BY DEF Init, ApartInv, SingleAdministrator, AdministratorsStandApart, Involved,
         NoOrganizations, NoRequest
<1>2. ApartInv => AdministratorsStandApart
  BY DEF ApartInv
<1>3. QED
  BY <1>1, <1>2, TypeCorrect, ApartStep, PTL DEF Spec

-----------------------------------------------------------------------------
(* The tables and the constraints on them.  That no call dies on a         *)
(* constraint is an invariant only together with what the checks of the    *)
(* handlers have established when an approval comes, which may be long     *)
(* after the request: a pending membership request names an organization   *)
(* that exists, an account that does not belong to it, and is the only one *)
(* for the two; and no control or membership row is ahead of its           *)
(* organization.                                                           *)
RowsFollowOrganizations ==
  \A o \in Orgs, u \in Users :
    /\ <<o, u>> \in controllers \union members => createdBy[o] # NoUser
    /\ createdBy[o] = u => <<o, u>> \in members

RequestsNameOrganizations ==
  \A r \in MembershipRequestIds :
    membershipRequest[r].status # "none"
    => /\ createdBy[membershipRequest[r].org] # NoUser
       /\ createdBy[membershipRequest[r].org] # membershipRequest[r].requester

PendingIsNotMember ==
  \A r \in MembershipRequestIds :
    membershipRequest[r].status = "pending"
    => <<membershipRequest[r].org, membershipRequest[r].requester>> \notin members

PendingIsUnique ==
  \A r, q \in MembershipRequestIds :
    /\ membershipRequest[r].status = "pending"
    /\ membershipRequest[q].status = "pending"
    /\ membershipRequest[r].org = membershipRequest[q].org
    /\ membershipRequest[r].requester = membershipRequest[q].requester
    => r = q

TablesInv ==
  /\ NoConstraintFault
  /\ RowsFollowOrganizations
  /\ RequestsNameOrganizations
  /\ PendingIsNotMember
  /\ PendingIsUnique

(* Steps that leave the tables and the fault flag alone. *)
LEMMA TablesKept ==
  ASSUME TablesInv,
         UNCHANGED <<createdBy, controllers, members, membershipRequest>>,
         NoConstraintFault'
  PROVE  TablesInv'
BY DEF TablesInv, NoConstraintFault, RowsFollowOrganizations,
       RequestsNameOrganizations, PendingIsNotMember, PendingIsUnique

LEMMA OrganizationDecisionKeepsTables ==
  ASSUME TypeOK, TablesInv, NEW a \in Users, NEW r \in OrgRequestIds,
         NEW approved \in BOOLEAN,
         MayDecideOrganization(a, r, approved),
         CommitOrganizationDecision(a, r, approved)
  PROVE  TablesInv'
<1> DEFINE o == orgRequest[r].org
           u == orgRequest[r].requester
<1>1. o \in Orgs /\ u \in Users
  BY OrganizationDecisionTyped DEF TypeOK, ProcessTypeOK
<1>2. approved => createdBy[o] = NoUser
  BY DEF MayDecideOrganization
<1>3. approved => ~OrganizationClash(o, u)
  BY <1>1, <1>2 DEF OrganizationClash, TablesInv, RowsFollowOrganizations
<1>4. membershipRequest' = membershipRequest /\ NoConstraintFault'
  BY <1>3 DEF CommitOrganizationDecision, TablesInv, NoConstraintFault
<1>5. CASE ~approved
  <2>1. UNCHANGED <<createdBy, controllers, members>>
    BY <1>5 DEF CommitOrganizationDecision
  <2>2. QED
    BY <1>4, <2>1, TablesKept
<1>6. CASE approved
  <2>1. /\ createdBy' = [createdBy EXCEPT ![o] = u]
        /\ controllers' = controllers \union {<<o, u>>}
        /\ members' = members \union {<<o, u>>}
    BY <1>3, <1>6 DEF CommitOrganizationDecision
  <2> HIDE DEF o, u
  <2>2. u # NoUser
    BY <1>1, NoUserAssumption
  <2>3. RowsFollowOrganizations'
    BY <1>1, <1>2, <1>6, <2>1, <2>2
    DEF RowsFollowOrganizations, TablesInv, TypeOK, DatabaseTypeOK
  <2>4. ASSUME NEW q \in MembershipRequestIds,
               membershipRequest[q].status # "none"
        PROVE  membershipRequest[q].org # o
    BY <1>2, <1>6, <2>4 DEF TablesInv, RequestsNameOrganizations
  <2>5. RequestsNameOrganizations'
    BY <1>1, <1>4, <2>1, <2>4
    DEF RequestsNameOrganizations, TablesInv, TypeOK, DatabaseTypeOK
  <2>6. PendingIsNotMember'
    BY <1>4, <2>1, <2>4 DEF PendingIsNotMember, TablesInv
  <2>7. PendingIsUnique'
    BY <1>4 DEF PendingIsUnique, TablesInv
  <2>8. QED
    BY <1>4, <2>3, <2>5, <2>6, <2>7 DEF TablesInv
<1>7. QED
  BY <1>5, <1>6

LEMMA MembershipRequestKeepsTables ==
  ASSUME TypeOK, TablesInv, NEW u \in Users, NEW r \in MembershipRequestIds,
         NEW o \in Orgs, RequestMembership(u, r, o)
  PROVE  TablesInv'
<1> USE DEF TypeOK, DatabaseTypeOK
<1>1. ~MembershipPending(u, o)
  BY DEF RequestMembership, MayRequestMembership
<1>2. /\ membershipRequest' = [membershipRequest EXCEPT ![r] = Pending(u, o)]
      /\ membershipRequest[r] = NoRequest
      /\ UNCHANGED <<createdBy, controllers, members>>
  BY <1>1 DEF RequestMembership, InsertPending, authorityTables
<1>3. NoConstraintFault'
  BY <1>1 DEF RequestMembership, TablesInv, NoConstraintFault
<1>4. /\ createdBy[o] # NoUser /\ <<o, u>> \notin members
      /\ createdBy[o] # u
  BY DEF RequestMembership, MayRequestMembership, TablesInv,
         RowsFollowOrganizations
<1>5. RowsFollowOrganizations'
  BY <1>2 DEF TablesInv, RowsFollowOrganizations
<1>6. RequestsNameOrganizations'
  BY <1>2, <1>4 DEF TablesInv, RequestsNameOrganizations, Pending
<1>7. PendingIsNotMember'
  BY <1>2, <1>4 DEF TablesInv, PendingIsNotMember, Pending
<1>8. PendingIsUnique'
  BY <1>1, <1>2
  DEF TablesInv, PendingIsUnique, Pending, MembershipPending, PendingIn
<1>9. QED
  BY <1>3, <1>5, <1>6, <1>7, <1>8 DEF TablesInv

LEMMA MembershipDecisionKeepsTables ==
  ASSUME TypeOK, TablesInv, NEW c \in Users, NEW r \in MembershipRequestIds,
         NEW approved \in BOOLEAN, DecideMembershipRequest(c, r, approved)
  PROVE  TablesInv'
<1> DEFINE o == membershipRequest[r].org
           u == membershipRequest[r].requester
<1>1. o \in Orgs /\ u \in Users /\ membershipRequest[r].status = "pending"
  BY DecidedRow DEF DecideMembershipRequest, MayDecideMembership, TypeOK, DatabaseTypeOK
<1>2. <<o, u>> \notin members
  BY <1>1 DEF TablesInv, PendingIsNotMember
<1>3. /\ membershipRequest' =
           [membershipRequest EXCEPT ![r] = Decided(@, c, approved)]
      /\ members' = members \union (IF approved THEN {<<o, u>>} ELSE {})
      /\ NoConstraintFault'
      /\ UNCHANGED <<createdBy, controllers>>
  BY <1>2 DEF DecideMembershipRequest, MayDecideMembership, TablesInv, NoConstraintFault
<1>4. ASSUME NEW q \in MembershipRequestIds
      PROVE  /\ membershipRequest'[q].org = membershipRequest[q].org
             /\ membershipRequest'[q].requester = membershipRequest[q].requester
  <2>1. membershipRequest \in [MembershipRequestIds -> Request(Orgs)]
    BY DEF TypeOK, DatabaseTypeOK
  <2>2. QED
    BY <1>3, <2>1, DecisionKeepsSubject
<1>5. ASSUME NEW q \in MembershipRequestIds
      PROVE  /\ membershipRequest'[q].status = "pending"
                   => q # r /\ membershipRequest[q].status = "pending"
             /\ membershipRequest'[q].status # "none"
                   => membershipRequest[q].status # "none"
  <2>1. CASE q # r
    BY <1>3, <2>1 DEF TypeOK, DatabaseTypeOK
  <2>2. CASE q = r
    <3>1. membershipRequest'[q] = Decided(membershipRequest[r], c, approved)
      BY <1>3, <2>2 DEF TypeOK, DatabaseTypeOK
    <3>2. membershipRequest[r] \in
            [status : {"none", "pending", "approved", "rejected"},
             requester : Users \union {NoUser}, org : Orgs \union {NoOrg},
             reviewer : Users \union {NoUser}]
      BY DEF TypeOK, DatabaseTypeOK, Request, NoRequest
    <3>3. membershipRequest'[q].status # "pending"
      BY <3>1, <3>2 DEF Decided
    <3>4. QED
      BY <1>1, <2>2, <3>3
  <2>3. QED
    BY <2>1, <2>2
<1> HIDE DEF o, u
<1>6. RowsFollowOrganizations'
  <2>1. createdBy[o] # NoUser
    BY <1>1 DEF TablesInv, RequestsNameOrganizations, o
  <2>2. QED
    BY <1>1, <1>3, <2>1 DEF TablesInv, RowsFollowOrganizations
<1>7. RequestsNameOrganizations'
  BY <1>3, <1>4, <1>5 DEF TablesInv, RequestsNameOrganizations
<1>8. PendingIsNotMember'
  <2> SUFFICES ASSUME NEW q \in MembershipRequestIds,
                      membershipRequest'[q].status = "pending"
               PROVE  <<membershipRequest'[q].org,
                        membershipRequest'[q].requester>> \notin members'
    BY DEF PendingIsNotMember
  <2>1. q # r /\ membershipRequest[q].status = "pending"
    BY <1>5
  <2>2. membershipRequest[q].org # o \/ membershipRequest[q].requester # u
    BY <1>1, <2>1 DEF TablesInv, PendingIsUnique, o, u
  <2>3. <<membershipRequest[q].org, membershipRequest[q].requester>> \notin members
    BY <2>1 DEF TablesInv, PendingIsNotMember
  <2>4. QED
    BY <1>3, <1>4, <2>2, <2>3
<1>9. PendingIsUnique'
  BY <1>4, <1>5 DEF TablesInv, PendingIsUnique
<1>10. QED
  BY <1>3, <1>6, <1>7, <1>8, <1>9 DEF TablesInv

LEMMA TablesStep == TypeOK /\ TablesInv /\ [Next]_vars => TablesInv'
<1> SUFFICES ASSUME TypeOK, TablesInv, [Next]_vars
             PROVE  TablesInv'
  OBVIOUS
<1> USE DEF authorityTables, requestTables
<1>0. fault' = fault => NoConstraintFault'
  BY DEF TablesInv, NoConstraintFault
<1>1. CASE Starting
  BY <1>0, <1>1, TablesKept
  DEF Starting, StartWithAdministrator, StartCreatesAccount,
              AppointSystemAdministrator
<1>2. CASE Crash
  BY <1>0, <1>2, TablesKept DEF Crash
<1>3. ASSUME NEW u \in Users, Register(u)
      PROVE  TablesInv'
  BY <1>0, <1>3, TablesKept DEF Register
<1>4. ASSUME NEW u \in Users, NEW r \in OrgRequestIds, NEW o \in Orgs,
             RequestOrganization(u, r, o)
      PROVE  TablesInv'
  <2>1. NoConstraintFault'
    BY <1>4 DEF RequestOrganization, OrganizationTaken, TablesInv,
                NoConstraintFault
  <2>2. QED
    BY <1>4, <2>1, TablesKept DEF RequestOrganization
<1>5. ASSUME NEW u \in Users, NEW r \in MembershipRequestIds, NEW o \in Orgs,
             RequestMembership(u, r, o)
      PROVE  TablesInv'
  BY <1>5, MembershipRequestKeepsTables
<1>6. ASSUME NEW u \in Users, NEW r \in RoleRequestIds, RequestSpecialRole(u, r)
      PROVE  TablesInv'
  <2>1. NoConstraintFault'
    BY <1>6 DEF RequestSpecialRole, MayRequestSpecialRole, TablesInv,
                NoConstraintFault
  <2>2. QED
    BY <1>6, <2>1, TablesKept DEF RequestSpecialRole
<1>7. ASSUME NEW a \in Users, NEW r \in OrgRequestIds, NEW approved \in BOOLEAN,
             DecideOrganizationRequest(a, r, approved)
      PROVE  TablesInv'
  BY <1>7, OrganizationDecisionKeepsTables DEF DecideOrganizationRequest
<1>8. ASSUME NEW a \in Users, NEW r \in OrgRequestIds, NEW approved \in BOOLEAN,
             DecideOrganizationThenCrash(a, r, approved)
      PROVE  TablesInv'
  BY <1>8, OrganizationDecisionKeepsTables DEF DecideOrganizationThenCrash
<1>9. ASSUME NEW c \in Users, NEW r \in MembershipRequestIds,
             NEW approved \in BOOLEAN, DecideMembershipRequest(c, r, approved)
      PROVE  TablesInv'
  BY <1>9, MembershipDecisionKeepsTables
<1>10. ASSUME NEW a \in Users, NEW r \in RoleRequestIds,
              NEW approved \in BOOLEAN, DecideSpecialRoleRequest(a, r, approved)
       PROVE  TablesInv'
  BY <1>0, <1>10, TablesKept DEF DecideSpecialRoleRequest, MayDecideSpecialRole
<1>11. CASE UNCHANGED vars
  BY <1>0, <1>11, TablesKept DEF vars
<1>12. QED
  BY <1>1, <1>2, <1>3, <1>4, <1>5, <1>6, <1>7, <1>8, <1>9, <1>10, <1>11
  DEF Next, Requesting, Deciding

(* No request that passed the checks of its handler fails on a constraint  *)
(* of the schema, however many requests and decisions came between.        *)
THEOREM ConstraintsNeverBite == Spec => []NoConstraintFault
<1>1. Init => TablesInv
  BY DEF Init, TablesInv, NoConstraintFault, RowsFollowOrganizations,
         RequestsNameOrganizations, PendingIsNotMember, PendingIsUnique,
         NoOrganizations, NoRequest
<1>2. TablesInv => NoConstraintFault
  BY DEF TablesInv
<1>3. QED
  BY <1>1, <1>2, TypeCorrect, TablesStep, PTL DEF Spec

-----------------------------------------------------------------------------
(* Who decides.  A decision is entitled when it is made; it stays so       *)
(* because administrators are never removed, the creator of an             *)
(* organization never changes, and a decided row is never written again.   *)

(* What a step may do to the rows SeparationOfDuty speaks of. *)
LEMMA DecidedRowStatus ==
  ASSUME NEW I, NEW S, NEW table \in [I -> Request(S)], NEW r \in I,
         NEW a, NEW approved, NEW q \in I
  PROVE  LET decided == [table EXCEPT ![r] = Decided(@, a, approved)] IN
         \/ q # r /\ decided[q] = table[q]
         \/ /\ q = r /\ decided[q].reviewer = a
            /\ decided[q].requester = table[q].requester
            /\ decided[q].org = table[q].org
<1>1. table[r] \in [status : {"none", "pending", "approved", "rejected"},
                    requester : Users \union {NoUser}, org : S \union {NoOrg},
                    reviewer : Users \union {NoUser}]
  BY DEF Request, NoRequest
<1>2. /\ Decided(table[r], a, approved).reviewer = a
      /\ Decided(table[r], a, approved).requester = table[r].requester
      /\ Decided(table[r], a, approved).org = table[r].org
  BY <1>1 DEF Decided
<1>3. QED
  BY <1>2

DutyInv == TablesInv /\ ApartInv /\ SeparationOfDuty

LEMMA DutyKept ==
  ASSUME SeparationOfDuty, UNCHANGED <<createdBy, requestTables>>,
         admins \subseteq admins'
  PROVE  SeparationOfDuty'
BY DEF SeparationOfDuty, requestTables

LEMMA RequestKeepsDuty ==
  ASSUME TypeOK, DutyInv, NEW u \in Users, Requesting(u)
  PROVE  SeparationOfDuty'
<1> USE DEF TypeOK, DatabaseTypeOK, authorityTables
<1>1. CASE Register(u)
  BY <1>1, DutyKept DEF Register, DutyInv
<1>2. ASSUME NEW r \in OrgRequestIds, NEW o \in Orgs, RequestOrganization(u, r, o)
      PROVE  SeparationOfDuty'
  BY <1>2 DEF RequestOrganization, SeparationOfDuty, DutyInv, Pending, InsertPending
<1>3. ASSUME NEW r \in MembershipRequestIds, NEW o \in Orgs,
             RequestMembership(u, r, o)
      PROVE  SeparationOfDuty'
  BY <1>3 DEF RequestMembership, SeparationOfDuty, DutyInv, Pending, InsertPending
<1>4. ASSUME NEW r \in RoleRequestIds, RequestSpecialRole(u, r)
      PROVE  SeparationOfDuty'
  BY <1>4 DEF RequestSpecialRole, SeparationOfDuty, DutyInv, Pending, InsertPending
<1>5. QED
  BY <1>1, <1>2, <1>3, <1>4 DEF Requesting

LEMMA OrganizationDecisionKeepsDuty ==
  ASSUME TypeOK, DutyInv, NEW a \in Users, NEW r \in OrgRequestIds,
         NEW approved \in BOOLEAN,
         MayDecideOrganization(a, r, approved),
         CommitOrganizationDecision(a, r, approved)
  PROVE  SeparationOfDuty'
<1>1. /\ a \in admins /\ orgRequest[r].status = "pending"
      /\ approved => createdBy[orgRequest[r].org] = NoUser
  BY DEF MayDecideOrganization, AdministratorCaller
<1>2. orgRequest[r].requester \notin admins
  BY <1>1, OrganizationDecisionTyped
  DEF DutyInv, ApartInv, AdministratorsStandApart, Involved, TypeOK, ProcessTypeOK
<1>3. UNCHANGED <<admins, membershipRequest, roleRequest>>
  BY DEF CommitOrganizationDecision
<1>4. ASSUME NEW q \in OrgRequestIds
      PROVE  \/ orgRequest'[q] = orgRequest[q]
             \/ /\ orgRequest'[q].reviewer = a
                /\ orgRequest'[q].requester = orgRequest[r].requester
  <2>1. orgRequest \in [OrgRequestIds -> Request(Orgs)]
    BY DEF TypeOK, DatabaseTypeOK
  <2>2. QED
    BY <2>1, DecidedRowStatus DEF CommitOrganizationDecision
<1>5. ASSUME NEW o \in Orgs, createdBy[o] # NoUser
      PROVE  createdBy'[o] = createdBy[o]
  BY <1>1, <1>5 DEF CommitOrganizationDecision, TypeOK, DatabaseTypeOK
<1>6. ASSUME NEW q \in MembershipRequestIds,
             membershipRequest[q].status \in {"approved", "rejected"}
      PROVE  /\ membershipRequest[q].org \in Orgs
             /\ createdBy[membershipRequest[q].org] # NoUser
  BY <1>6
  DEF DutyInv, TablesInv, RequestsNameOrganizations, TypeOK, DatabaseTypeOK,
      Request, NoRequest
<1>7. QED
  BY <1>1, <1>2, <1>3, <1>4, <1>5, <1>6 DEF DutyInv, SeparationOfDuty

LEMMA DutyStep == TypeOK /\ DutyInv /\ [Next]_vars => SeparationOfDuty'
<1> SUFFICES ASSUME TypeOK, DutyInv, [Next]_vars
             PROVE  SeparationOfDuty'
  OBVIOUS
<1>1. CASE Starting \/ Crash \/ UNCHANGED vars
  BY <1>1, DutyKept
  DEF Starting, StartWithAdministrator, StartCreatesAccount,
      AppointSystemAdministrator, Crash, vars, DutyInv, authorityTables
<1>2. ASSUME NEW u \in Users, Requesting(u)
      PROVE  SeparationOfDuty'
  BY <1>2, RequestKeepsDuty
<1>3. ASSUME NEW a \in Users, NEW r \in OrgRequestIds, NEW approved \in BOOLEAN,
             \/ DecideOrganizationRequest(a, r, approved)
             \/ DecideOrganizationThenCrash(a, r, approved)
      PROVE  SeparationOfDuty'
  BY <1>3, OrganizationDecisionKeepsDuty
  DEF DecideOrganizationRequest, DecideOrganizationThenCrash
<1>4. ASSUME NEW c \in Users, NEW r \in MembershipRequestIds,
             NEW approved \in BOOLEAN, DecideMembershipRequest(c, r, approved)
      PROVE  SeparationOfDuty'
  <2>1. /\ UNCHANGED <<createdBy, admins, orgRequest, roleRequest>>
        /\ createdBy[membershipRequest[r].org] = c
        /\ membershipRequest[r].status = "pending"
    BY <1>4 DEF DecideMembershipRequest, MayDecideMembership, IsOrganizationCreator
  <2>2. membershipRequest[r].requester # c
    BY <2>1 DEF DutyInv, TablesInv, RequestsNameOrganizations
  <2>3. ASSUME NEW q \in MembershipRequestIds
        PROVE  \/ membershipRequest'[q] = membershipRequest[q]
               \/ /\ membershipRequest'[q].reviewer = c
                  /\ membershipRequest'[q].requester = membershipRequest[r].requester
                  /\ membershipRequest'[q].org = membershipRequest[r].org
    <3>1. membershipRequest \in [MembershipRequestIds -> Request(Orgs)]
      BY DEF TypeOK, DatabaseTypeOK
    <3>2. QED
      BY <1>4, <3>1, DecidedRowStatus DEF DecideMembershipRequest, MayDecideMembership
  <2>4. QED
    BY <2>1, <2>2, <2>3 DEF DutyInv, SeparationOfDuty
<1>5. ASSUME NEW a \in Users, NEW r \in RoleRequestIds,
             NEW approved \in BOOLEAN, DecideSpecialRoleRequest(a, r, approved)
      PROVE  SeparationOfDuty'
  <2>1. /\ UNCHANGED <<createdBy, admins, orgRequest, membershipRequest>>
        /\ a \in admins /\ roleRequest[r].status = "pending"
    BY <1>5 DEF DecideSpecialRoleRequest, MayDecideSpecialRole, AdministratorCaller
  <2>2. roleRequest[r].requester \notin admins
    BY DEF DutyInv, ApartInv, AdministratorsStandApart, Involved
  <2>3. ASSUME NEW q \in RoleRequestIds
        PROVE  \/ roleRequest'[q] = roleRequest[q]
               \/ /\ roleRequest'[q].reviewer = a
                  /\ roleRequest'[q].requester = roleRequest[r].requester
    <3>1. roleRequest \in [RoleRequestIds -> Request({NoOrg})]
      BY DEF TypeOK, DatabaseTypeOK
    <3>2. QED
      BY <1>5, <3>1, DecidedRowStatus DEF DecideSpecialRoleRequest, MayDecideSpecialRole
  <2>4. QED
    BY <2>1, <2>2, <2>3 DEF DutyInv, SeparationOfDuty
<1>6. QED
  BY <1>1, <1>2, <1>3, <1>4, <1>5 DEF Next, Deciding

(* Nobody ever decides about itself, and only the account entitled to the  *)
(* decision makes it.                                                      *)
THEOREM DutiesSeparated == Spec => []SeparationOfDuty
<1>1. Init => DutyInv
  BY DEF Init, DutyInv, TablesInv, NoConstraintFault, RowsFollowOrganizations,
         RequestsNameOrganizations, PendingIsNotMember, PendingIsUnique,
         NoOrganizations, NoRequest, ApartInv, SingleAdministrator,
         AdministratorsStandApart, Involved, SeparationOfDuty
<1>2. TypeOK /\ TypeOK' /\ DutyInv /\ [Next]_vars => DutyInv'
  BY ApartStep, TablesStep, DutyStep DEF DutyInv
<1>3. DutyInv => SeparationOfDuty
  BY DEF DutyInv
<1>4. QED
  BY <1>1, <1>2, <1>3, TypeCorrect, PTL DEF Spec

-----------------------------------------------------------------------------
(* What a decision leaves behind: it is never changed again, the domain    *)
(* system in memory agrees with the organizations in the database, and     *)
(* there is exactly the authority that was approved.                       *)

(* A new request takes an unused id. *)
LEMMA RequestWritesUnused ==
  ASSUME NEW I, NEW S, NEW table \in [I -> Request(S)], NEW r \in I,
         table[r] = NoRequest, NEW request, NEW clash \in BOOLEAN, NEW q \in I,
         IsDecided(table[q])
  PROVE  InsertPending(table, r, request, clash)[q] = table[q]
<1>1. q # r
  BY DEF IsDecided, NoRequest
<1>2. QED
  BY <1>1 DEF InsertPending

(* What DecisionsAreFinal says of one step. *)
DecidedRowsKept ==
  /\ \A r \in OrgRequestIds :
       IsDecided(orgRequest[r]) => orgRequest'[r] = orgRequest[r]
  /\ \A r \in MembershipRequestIds :
       IsDecided(membershipRequest[r])
       => membershipRequest'[r] = membershipRequest[r]
  /\ \A r \in RoleRequestIds :
       IsDecided(roleRequest[r]) => roleRequest'[r] = roleRequest[r]

LEMMA TablesUntouched ==
  ASSUME UNCHANGED requestTables
  PROVE  DecidedRowsKept
BY DEF requestTables, DecidedRowsKept

LEMMA RequestKeepsDecisions ==
  ASSUME TypeOK, NEW u \in Users, Requesting(u)
  PROVE  DecidedRowsKept
<1>1. CASE Register(u)
  BY <1>1, TablesUntouched DEF Register
<1>2. ASSUME NEW r \in OrgRequestIds, NEW o \in Orgs,
             RequestOrganization(u, r, o)
      PROVE  DecidedRowsKept
  <2>1. /\ orgRequest[r] = NoRequest
        /\ UNCHANGED <<membershipRequest, roleRequest>>
        /\ \E clash \in BOOLEAN :
             orgRequest' = InsertPending(orgRequest, r, Pending(u, o), clash)
    BY <1>2 DEF RequestOrganization
  <2>2. QED
    BY <2>1, RequestWritesUnused DEF DecidedRowsKept, TypeOK, DatabaseTypeOK
<1>3. ASSUME NEW r \in MembershipRequestIds, NEW o \in Orgs,
             RequestMembership(u, r, o)
      PROVE  DecidedRowsKept
  <2>1. /\ membershipRequest[r] = NoRequest
        /\ UNCHANGED <<orgRequest, roleRequest>>
        /\ \E clash \in BOOLEAN :
             membershipRequest' =
               InsertPending(membershipRequest, r, Pending(u, o), clash)
    BY <1>3 DEF RequestMembership, MembershipPending
  <2>2. QED
    BY <2>1, RequestWritesUnused DEF DecidedRowsKept, TypeOK, DatabaseTypeOK
<1>4. ASSUME NEW r \in RoleRequestIds, RequestSpecialRole(u, r)
      PROVE  DecidedRowsKept
  <2>1. /\ roleRequest[r] = NoRequest
        /\ UNCHANGED <<orgRequest, membershipRequest>>
        /\ \E clash \in BOOLEAN :
             roleRequest' =
               InsertPending(roleRequest, r, Pending(u, NoOrg), clash)
    BY <1>4 DEF RequestSpecialRole, RolePending
  <2>2. QED
    BY <2>1, RequestWritesUnused DEF DecidedRowsKept, TypeOK, DatabaseTypeOK
<1>5. QED
  BY <1>1, <1>2, <1>3, <1>4 DEF Requesting

(* A decision writes the row of a pending request, so that the decided ones *)
(* are as before.                                                          *)
LEMMA DecisionKeepsDecisions ==
  ASSUME TypeOK, NEW a \in Users, NEW approved \in BOOLEAN,
         Deciding(a, approved)
  PROVE  DecidedRowsKept
<1> USE DEF TypeOK, DatabaseTypeOK
<1>1. ASSUME NEW r \in OrgRequestIds, MayDecideOrganization(a, r, approved),
             CommitOrganizationDecision(a, r, approved)
      PROVE  DecidedRowsKept
  <2>1. /\ orgRequest[r].status = "pending"
        /\ UNCHANGED <<membershipRequest, roleRequest>>
        /\ \/ UNCHANGED orgRequest
           \/ orgRequest' = [orgRequest EXCEPT ![r] = Decided(@, a, approved)]
    BY <1>1 DEF MayDecideOrganization, CommitOrganizationDecision
  <2>2. ASSUME NEW q \in OrgRequestIds, IsDecided(orgRequest[q])
        PROVE  orgRequest'[q] = orgRequest[q]
    BY <2>1, <2>2 DEF IsDecided
  <2>3. QED
    BY <2>1, <2>2 DEF DecidedRowsKept
<1>2. ASSUME NEW r \in MembershipRequestIds,
             DecideMembershipRequest(a, r, approved)
      PROVE  DecidedRowsKept
  <2>1. /\ membershipRequest[r].status = "pending"
        /\ UNCHANGED <<orgRequest, roleRequest>>
        /\ \/ UNCHANGED membershipRequest
           \/ membershipRequest' =
                [membershipRequest EXCEPT ![r] = Decided(@, a, approved)]
    BY <1>2 DEF DecideMembershipRequest, MayDecideMembership
  <2>2. ASSUME NEW q \in MembershipRequestIds, IsDecided(membershipRequest[q])
        PROVE  membershipRequest'[q] = membershipRequest[q]
    BY <2>1, <2>2 DEF IsDecided
  <2>3. QED
    BY <2>1, <2>2 DEF DecidedRowsKept
<1>3. ASSUME NEW r \in RoleRequestIds, DecideSpecialRoleRequest(a, r, approved)
      PROVE  DecidedRowsKept
  <2>1. /\ roleRequest[r].status = "pending"
        /\ UNCHANGED <<orgRequest, membershipRequest>>
        /\ roleRequest' = [roleRequest EXCEPT ![r] = Decided(@, a, approved)]
    BY <1>3 DEF DecideSpecialRoleRequest, MayDecideSpecialRole
  <2>2. ASSUME NEW q \in RoleRequestIds, IsDecided(roleRequest[q])
        PROVE  roleRequest'[q] = roleRequest[q]
    BY <2>1, <2>2 DEF IsDecided
  <2>3. QED
    BY <2>1, <2>2 DEF DecidedRowsKept
<1>4. QED
  BY <1>1, <1>2, <1>3
  DEF Deciding, DecideOrganizationRequest, DecideOrganizationThenCrash

(* A decision is final: no later call, crash or start writes a decided     *)
(* request again.                                                          *)
THEOREM DecisionsFinal == Spec => DecisionsAreFinal
<1>1. TypeOK /\ [Next]_vars => DecidedRowsKept
  <2> SUFFICES ASSUME TypeOK, [Next]_vars
               PROVE  DecidedRowsKept
    OBVIOUS
  <2>1. CASE Starting \/ Crash \/ UNCHANGED vars
    BY <2>1, TablesUntouched
    DEF Starting, StartWithAdministrator, StartCreatesAccount,
        AppointSystemAdministrator, Crash, vars
  <2>2. QED
    BY <2>1, RequestKeepsDecisions, DecisionKeepsDecisions DEF Next
<1>2. TypeOK /\ [Next]_vars => [DecidedRowsKept]_vars
  BY <1>1
<1>3. QED
  BY <1>2, TypeCorrect, PTL DEF Spec, DecisionsAreFinal, DecidedRowsKept

-----------------------------------------------------------------------------
(* The transaction of a decision and the domain system either both gain    *)
(* the organization or both stay as they are.                              *)
LEMMA RegistrationFollowsCommit ==
  ASSUME TypeOK, registrant = createdBy,
         NEW a \in Users, NEW r \in OrgRequestIds, NEW approved \in BOOLEAN,
         CommitOrganizationDecision(a, r, approved)
  PROVE  createdBy' = RegisteredOrganizations(orgRequest[r].org,
                                              orgRequest[r].requester, approved)
BY DEF CommitOrganizationDecision, RegisteredOrganizations, TypeOK,
       DatabaseTypeOK

(* While the process lives, the domain system has the organizations of the *)
(* database: a start hydrates them, and a decision registers what it       *)
(* committed.                                                              *)
THEOREM DomainAgrees == Spec => []DomainKnowsOrganizations
<1>1. Init => DomainKnowsOrganizations
  BY DEF Init, DomainKnowsOrganizations
<1>2. TypeOK /\ DomainKnowsOrganizations /\ [Next]_vars
      => DomainKnowsOrganizations'
  <2> SUFFICES ASSUME TypeOK, DomainKnowsOrganizations, [Next]_vars
               PROVE  DomainKnowsOrganizations'
    OBVIOUS
  <2> USE DEF DomainKnowsOrganizations
  <2>1. CASE Starting
    BY <2>1 DEF Starting, StartWithAdministrator, StartCreatesAccount,
                AppointSystemAdministrator, authorityTables
  <2>2. CASE Crash
    BY <2>2 DEF Crash
  <2>3. ASSUME NEW u \in Users, Requesting(u)
        PROVE  DomainKnowsOrganizations'
    BY <2>3 DEF Requesting, Register, RequestOrganization, RequestMembership,
                RequestSpecialRole, process, authorityTables
  <2>4. ASSUME NEW a \in Users, NEW r \in OrgRequestIds,
               NEW approved \in BOOLEAN,
               DecideOrganizationRequest(a, r, approved)
        PROVE  DomainKnowsOrganizations'
    <3>1. phase = "up" /\ registrant = createdBy
      BY <2>4 DEF DecideOrganizationRequest, MayDecideOrganization,
                  AdministratorCaller
    <3>2. QED
      BY <2>4, <3>1, RegistrationFollowsCommit DEF DecideOrganizationRequest
  <2>5. ASSUME NEW a \in Users, NEW r \in OrgRequestIds,
               NEW approved \in BOOLEAN,
               DecideOrganizationThenCrash(a, r, approved)
        PROVE  DomainKnowsOrganizations'
    BY <2>5 DEF DecideOrganizationThenCrash
  <2>6. ASSUME NEW a \in Users, NEW approved \in BOOLEAN,
               \/ \E r \in MembershipRequestIds :
                    DecideMembershipRequest(a, r, approved)
               \/ \E r \in RoleRequestIds :
                    DecideSpecialRoleRequest(a, r, approved)
        PROVE  DomainKnowsOrganizations'
    BY <2>6 DEF DecideMembershipRequest, DecideSpecialRoleRequest, process
  <2>7. CASE UNCHANGED vars
    BY <2>7 DEF vars, process, authorityTables
  <2>8. QED
    BY <2>1, <2>2, <2>3, <2>4, <2>5, <2>6, <2>7 DEF Next, Deciding
<1>3. QED
  BY <1>1, <1>2, TypeCorrect, PTL DEF Spec
-----------------------------------------------------------------------------
(* Authority and approvals.                                                *)

(* A decision adds at most the one approval it makes. *)
LEMMA ApprovedAfterDecision ==
  ASSUME NEW I, NEW S, NEW table \in [I -> Request(S)], NEW r \in I,
         table[r].status = "pending", NEW a, NEW approved \in BOOLEAN,
         NEW u \in Users, NEW o
  PROVE  ApprovedBy([table EXCEPT ![r] = Decided(@, a, approved)], u, o)
         <=> \/ ApprovedBy(table, u, o)
             \/ approved /\ table[r].requester = u /\ table[r].org = o
<1> DEFINE decided == [table EXCEPT ![r] = Decided(@, a, approved)]
<1>1. table[r] \in [status : {"pending", "approved", "rejected"},
                    requester : Users, org : S,
                    reviewer : Users \union {NoUser}]
  BY DEF Request, NoRequest
<1>2. /\ decided[r].status = IF approved THEN "approved" ELSE "rejected"
      /\ decided[r].requester = table[r].requester
      /\ decided[r].org = table[r].org
  BY <1>1 DEF Decided
<1>3. \A q \in I : q # r => decided[q] = table[q]
  OBVIOUS
<1>4. DOMAIN decided = I /\ DOMAIN table = I
  OBVIOUS
<1>5. table[r].status # "approved"
  OBVIOUS
<1> HIDE DEF decided
<1>6. ApprovedBy(decided, u, o)
      <=> \/ ApprovedBy(table, u, o)
          \/ approved /\ table[r].requester = u /\ table[r].org = o
  BY <1>2, <1>3, <1>4, <1>5 DEF ApprovedBy
<1>7. QED
  BY <1>6 DEF decided

(* A request adds no approval. *)
LEMMA ApprovedAfterRequest ==
  ASSUME NEW I, NEW S, NEW table \in [I -> Request(S)], NEW r \in I,
         table[r] = NoRequest, NEW x, NEW p, NEW clash \in BOOLEAN,
         NEW u \in Users, NEW o
  PROVE  ApprovedBy(InsertPending(table, r, Pending(x, p), clash), u, o)
         <=> ApprovedBy(table, u, o)
<1>1. CASE clash
  BY <1>1 DEF InsertPending
<1>2. CASE ~clash
  <2> DEFINE inserted == [table EXCEPT ![r] = Pending(x, p)]
  <2>1. /\ inserted[r].status # "approved" /\ table[r].status # "approved"
        /\ \A q \in I : q # r => inserted[q] = table[q]
        /\ DOMAIN inserted = I /\ DOMAIN table = I
    BY DEF Pending, NoRequest
  <2> HIDE DEF inserted
  <2>2. ApprovedBy(inserted, u, o) <=> ApprovedBy(table, u, o)
    BY <2>1 DEF ApprovedBy
  <2>3. QED
    BY <1>2, <2>2 DEF InsertPending, inserted
<1>3. QED
  BY <1>1, <1>2

(* What AuthorityIsApproved depends on did not change. *)
LEMMA AuthorityKept ==
  ASSUME AuthorityIsApproved, UNCHANGED authorityTables,
         \A u \in Users, o \in Orgs :
           /\ ApprovedBy(orgRequest', u, o) <=> ApprovedBy(orgRequest, u, o)
           /\ ApprovedBy(membershipRequest', u, o)
              <=> ApprovedBy(membershipRequest, u, o),
         \A u \in Users :
           ApprovedBy(roleRequest', u, NoOrg)
           <=> ApprovedBy(roleRequest, u, NoOrg)
  PROVE  AuthorityIsApproved'
BY DEF AuthorityIsApproved, authorityTables

LEMMA RequestKeepsAuthority ==
  ASSUME TypeOK, AuthorityIsApproved, NEW u \in Users, Requesting(u)
  PROVE  AuthorityIsApproved'
<1> USE DEF TypeOK, DatabaseTypeOK
<1>1. CASE Register(u)
  BY <1>1, AuthorityKept DEF Register, requestTables
<1>2. ASSUME NEW r \in OrgRequestIds, NEW o \in Orgs,
             RequestOrganization(u, r, o)
      PROVE  AuthorityIsApproved'
  <2>1. ASSUME NEW x \in Users, NEW p \in Orgs
        PROVE  ApprovedBy(orgRequest', x, p) <=> ApprovedBy(orgRequest, x, p)
    BY <1>2, ApprovedAfterRequest DEF RequestOrganization
  <2>2. QED
    BY <1>2, <2>1, AuthorityKept DEF RequestOrganization
<1>3. ASSUME NEW r \in MembershipRequestIds, NEW o \in Orgs,
             RequestMembership(u, r, o)
      PROVE  AuthorityIsApproved'
  <2>1. ASSUME NEW x \in Users, NEW p \in Orgs
        PROVE  ApprovedBy(membershipRequest', x, p)
               <=> ApprovedBy(membershipRequest, x, p)
    BY <1>3, ApprovedAfterRequest DEF RequestMembership, MembershipPending
  <2>2. QED
    BY <1>3, <2>1, AuthorityKept DEF RequestMembership
<1>4. ASSUME NEW r \in RoleRequestIds, RequestSpecialRole(u, r)
      PROVE  AuthorityIsApproved'
  <2>1. ASSUME NEW x \in Users
        PROVE  ApprovedBy(roleRequest', x, NoOrg)
               <=> ApprovedBy(roleRequest, x, NoOrg)
    BY <1>4, ApprovedAfterRequest DEF RequestSpecialRole, RolePending
  <2>2. QED
    BY <1>4, <2>1, AuthorityKept DEF RequestSpecialRole
<1>5. QED
  BY <1>1, <1>2, <1>3, <1>4 DEF Requesting

(* The transaction writes the three rows an approval stands for: before it *)
(* the organization did not exist, so that no other approval names it and  *)
(* nobody controlled it or belonged to it.                                 *)
LEMMA OrganizationDecisionConfers ==
  ASSUME TypeOK, TablesInv, AuthorityIsApproved,
         NEW a \in Users, NEW r \in OrgRequestIds, NEW approved \in BOOLEAN,
         MayDecideOrganization(a, r, approved),
         CommitOrganizationDecision(a, r, approved)
  PROVE  AuthorityIsApproved'
<1> DEFINE o == orgRequest[r].org
           u == orgRequest[r].requester
<1>1. o \in Orgs /\ u \in Users
  BY OrganizationDecisionTyped DEF TypeOK, ProcessTypeOK
<1>2. /\ orgRequest[r].status = "pending"
      /\ approved => createdBy[o] = NoUser
  BY DEF MayDecideOrganization
<1>3. approved => ~OrganizationClash(o, u)
  BY <1>1, <1>2 DEF OrganizationClash, TablesInv, RowsFollowOrganizations
<1>4. /\ orgRequest' = [orgRequest EXCEPT ![r] = Decided(@, a, approved)]
      /\ UNCHANGED <<regulators, membershipRequest, roleRequest>>
  BY <1>3 DEF CommitOrganizationDecision
<1>5. ASSUME NEW x \in Users, NEW p \in Orgs
      PROVE  ApprovedBy(orgRequest', x, p)
             <=> \/ ApprovedBy(orgRequest, x, p)
                 \/ approved /\ u = x /\ o = p
  BY <1>2, <1>4, ApprovedAfterDecision DEF TypeOK, DatabaseTypeOK
<1>6. CASE ~approved
  <2>1. UNCHANGED authorityTables
    BY <1>4, <1>6 DEF CommitOrganizationDecision, authorityTables
  <2>2. QED
    BY <1>4, <1>5, <1>6, <2>1, AuthorityKept
<1>7. CASE approved
  <2>1. /\ createdBy' = [createdBy EXCEPT ![o] = u]
        /\ controllers' = controllers \union {<<o, u>>}
        /\ members' = members \union {<<o, u>>}
    BY <1>3, <1>7 DEF CommitOrganizationDecision
  <2> HIDE DEF o, u
  <2>2. createdBy[o] = NoUser /\ NoUser \notin Users
    BY <1>2, <1>7, NoUserAssumption
  <2>3. ASSUME NEW x \in Users, NEW p \in Orgs
        PROVE  /\ (createdBy'[p] = x)
                  <=> (createdBy[p] = x \/ (u = x /\ o = p))
               /\ (<<p, x>> \in controllers')
                  <=> (<<p, x>> \in controllers \/ (u = x /\ o = p))
               /\ (<<p, x>> \in members')
                  <=> (<<p, x>> \in members \/ (u = x /\ o = p))
    BY <1>1, <2>1, <2>2 DEF TypeOK, DatabaseTypeOK
  <2>4. ASSUME NEW x \in Users, NEW p \in Orgs
        PROVE  /\ (createdBy'[p] = x) <=> ApprovedBy(orgRequest', x, p)
               /\ (<<p, x>> \in controllers') <=> (createdBy'[p] = x)
               /\ (<<p, x>> \in members')
                  <=> \/ createdBy'[p] = x
                      \/ ApprovedBy(membershipRequest', x, p)
    BY <1>4, <1>5, <1>7, <2>3 DEF AuthorityIsApproved
  <2>5. QED
    BY <1>4, <2>4 DEF AuthorityIsApproved
<1>8. QED
  BY <1>6, <1>7

LEMMA MembershipDecisionConfers ==
  ASSUME TypeOK, TablesInv, AuthorityIsApproved,
         NEW c \in Users, NEW r \in MembershipRequestIds,
         NEW approved \in BOOLEAN, DecideMembershipRequest(c, r, approved)
  PROVE  AuthorityIsApproved'
<1> DEFINE o == membershipRequest[r].org
           u == membershipRequest[r].requester
<1>1. membershipRequest[r].status = "pending"
  BY DEF DecideMembershipRequest, MayDecideMembership
<1>2. /\ membershipRequest' =
           [membershipRequest EXCEPT ![r] = Decided(@, c, approved)]
      /\ members' = members \union (IF approved THEN {<<o, u>>} ELSE {})
      /\ UNCHANGED <<createdBy, controllers, regulators, orgRequest,
                     roleRequest>>
  BY <1>1 DEF DecideMembershipRequest, TablesInv, PendingIsNotMember
<1>3. ASSUME NEW x \in Users, NEW p \in Orgs
      PROVE  /\ ApprovedBy(membershipRequest', x, p)
                <=> \/ ApprovedBy(membershipRequest, x, p)
                    \/ approved /\ u = x /\ o = p
             /\ (<<p, x>> \in members')
                <=> (<<p, x>> \in members \/ (approved /\ u = x /\ o = p))
  <2>1. membershipRequest \in [MembershipRequestIds -> Request(Orgs)]
    BY DEF TypeOK, DatabaseTypeOK
  <2>2. ApprovedBy(membershipRequest', x, p)
        <=> \/ ApprovedBy(membershipRequest, x, p)
            \/ approved /\ u = x /\ o = p
    BY <1>1, <1>2, <2>1, ApprovedAfterDecision
  <2>3. QED
    BY <1>2, <2>2
<1>4. QED
  BY <1>2, <1>3 DEF AuthorityIsApproved

LEMMA RoleDecisionConfers ==
  ASSUME TypeOK, AuthorityIsApproved, NEW a \in Users, NEW r \in RoleRequestIds,
         NEW approved \in BOOLEAN, DecideSpecialRoleRequest(a, r, approved)
  PROVE  AuthorityIsApproved'
<1>1. /\ roleRequest[r].status = "pending"
      /\ roleRequest' = [roleRequest EXCEPT ![r] = Decided(@, a, approved)]
      /\ regulators' = regulators \union
                         (IF approved THEN {roleRequest[r].requester} ELSE {})
      /\ UNCHANGED <<createdBy, controllers, members, orgRequest,
                     membershipRequest>>
  BY DEF DecideSpecialRoleRequest, MayDecideSpecialRole
<1>2. roleRequest \in [RoleRequestIds -> Request({NoOrg})]
  BY DEF TypeOK, DatabaseTypeOK
<1>3. roleRequest[r].org = NoOrg
  BY <1>2 DEF Request, NoRequest
<1>4. ASSUME NEW x \in Users
      PROVE  ApprovedBy(roleRequest', x, NoOrg)
             <=> \/ ApprovedBy(roleRequest, x, NoOrg)
                 \/ approved /\ roleRequest[r].requester = x
  <2>1. ApprovedBy(roleRequest', x, NoOrg)
        <=> \/ ApprovedBy(roleRequest, x, NoOrg)
            \/ /\ approved /\ roleRequest[r].requester = x
               /\ roleRequest[r].org = NoOrg
    BY <1>1, <1>2, ApprovedAfterDecision
  <2>2. QED
    BY <1>3, <2>1
<1>5. QED
  BY <1>1, <1>4 DEF AuthorityIsApproved

(* An approval always confers the authority it stands for and nothing else *)
(* does, whatever crashes: the tables of authority say what the approved   *)
(* requests say.                                                           *)
THEOREM ApprovalConfers == Spec => []AuthorityIsApproved
<1>1. Init => AuthorityIsApproved /\ TablesInv
  <2>1. Init => AuthorityIsApproved
    BY NoUserAssumption
    DEF Init, AuthorityIsApproved, ApprovedBy, NoOrganizations, NoRequest
  <2>2. Init => TablesInv
    BY NoUserAssumption
    DEF Init, TablesInv, NoConstraintFault, RowsFollowOrganizations,
        RequestsNameOrganizations, PendingIsNotMember, PendingIsUnique,
        NoOrganizations, NoRequest
  <2>3. QED
    BY <2>1, <2>2
<1>2. TypeOK /\ TablesInv /\ AuthorityIsApproved /\ [Next]_vars
      => AuthorityIsApproved'
  <2> SUFFICES ASSUME TypeOK, TablesInv, AuthorityIsApproved, [Next]_vars
               PROVE  AuthorityIsApproved'
    OBVIOUS
  <2>1. CASE Starting \/ Crash \/ UNCHANGED vars
    <3>1. UNCHANGED <<authorityTables, requestTables>>
      BY <2>1 DEF Starting, StartWithAdministrator, StartCreatesAccount,
                  AppointSystemAdministrator, Crash, vars
    <3>2. QED
      BY <3>1, AuthorityKept DEF requestTables
  <2>2. ASSUME NEW a \in Users, NEW approved \in BOOLEAN, Deciding(a, approved)
        PROVE  AuthorityIsApproved'
    BY <2>2, OrganizationDecisionConfers, MembershipDecisionConfers,
       RoleDecisionConfers
    DEF Deciding, DecideOrganizationRequest, DecideOrganizationThenCrash
  <2>3. QED
    BY <2>1, <2>2, RequestKeepsAuthority DEF Next
<1>3. QED
  BY <1>1, <1>2, TypeCorrect, TablesStep, PTL DEF Spec
=============================================================================
