------------------------------ MODULE Approvals ------------------------------
(***************************************************************************)
(* The approval workflows of the platform: how an ordinary account comes   *)
(* to control an organization, to belong to one, or to be a regulator.     *)
(*                                                                         *)
(* Every HTTP handler runs one synchronous method of InformationFlow-      *)
(* Platform (src/platform-demo.ts), so a handler is one action; each       *)
(* method that changes rows runs one SQLite transaction of                 *)
(* ApplicationStore (src/persistence.ts).  What can come between two       *)
(* steps of a handler is the death of the process: the database keeps      *)
(* what was committed, the in-memory domain system is rebuilt from it by   *)
(* the constructor.                                                        *)
(*                                                                         *)
(* Account ids and request ids are random UUIDs: a new one is any unused   *)
(* member of its set.  A refused call changes nothing and is not a step.   *)
(***************************************************************************)
CONSTANTS
  Users,               \* account ids
  Orgs,                \* proposed organization ids
  OrgRequestIds,       \* ids of organization creation requests
  MembershipRequestIds,
  RoleRequestIds,      \* ids of applications for the role "regulator"
  NoUser, NoOrg

ASSUME NoUserAssumption == NoUser \notin Users
ASSUME NoOrgAssumption == NoOrg \notin Orgs

VARIABLES
  phase,               \* the server process: "down", "appointing", "up"
  candidate,           \* the account the constructor is about to appoint
  accounts, admins,    \* tables accounts, system_administrators
  createdBy,           \* table organizations: creator, NoUser if no row
  controllers,         \* table organization_controllers
  members,             \* table organization_memberships
  regulators,          \* table account_special_roles
  orgRequest,          \* table organization_creation_requests
  membershipRequest,   \* table organization_membership_requests
  roleRequest,         \* table special_role_requests
  registrant,          \* the domain system's organizations, lost in a crash
  fault                \* an accepted call ran into a constraint (HTTP 500)

requestTables == <<orgRequest, membershipRequest, roleRequest>>
authorityTables == <<createdBy, controllers, members, regulators>>
process == <<phase, candidate>>
vars == <<process, accounts, admins, authorityTables, requestTables,
          registrant, fault>>

(* A row of a request table; NoRequest is an id not used yet. *)
NoRequest == [status |-> "none", requester |-> NoUser, org |-> NoOrg,
              reviewer |-> NoUser]
Request(orgs) ==
  [status : {"pending", "approved", "rejected"}, requester : Users,
   org : orgs, reviewer : Users \union {NoUser}] \union {NoRequest}
Pending(u, o) == [status |-> "pending", requester |-> u, org |-> o,
                  reviewer |-> NoUser]
Decided(request, a, approved) ==
  [request EXCEPT !.status = IF approved THEN "approved" ELSE "rejected",
                  !.reviewer = a]
NoOrganizations == [o \in Orgs |-> NoUser]

(* The rows of a request table that are still pending. *)
PendingIn(table) == {r \in DOMAIN table : table[r].status = "pending"}

Init ==
  /\ phase = "down" /\ candidate = NoUser
  /\ accounts = {} /\ admins = {}
  /\ createdBy = NoOrganizations
  /\ controllers = {} /\ members = {} /\ regulators = {}
  /\ orgRequest = [r \in OrgRequestIds |-> NoRequest]
  /\ membershipRequest = [r \in MembershipRequestIds |-> NoRequest]
  /\ roleRequest = [r \in RoleRequestIds |-> NoRequest]
  /\ registrant = NoOrganizations
  /\ fault = FALSE

-----------------------------------------------------------------------------
(* Process start: the constructor hydrates the domain system from the      *)
(* database and makes sure that there is an administrator.                 *)

(* Variant: the organizations are not hydrated.                            *)
StartWithEmptyDomain ==
  /\ phase = "down" /\ admins # {}
  /\ phase' = "up"
  /\ UNCHANGED <<candidate, accounts, admins, authorityTables,
                 requestTables, registrant, fault>>

(* The one administrator on record is used; rotating its login changes no  *)
(* row that matters here.                                                  *)
StartWithAdministrator ==
  /\ phase = "down" /\ admins # {}
  /\ phase' = "up" /\ registrant' = createdBy
  /\ UNCHANGED <<candidate, accounts, admins, authorityTables,
                 requestTables, fault>>

(* Variant: the constructor does not look for an administrator on record.  *)
StartAlwaysCreates(u) ==
  /\ phase = "down" /\ u \notin accounts
  /\ accounts' = accounts \union {u}
  /\ phase' = "appointing" /\ candidate' = u
  /\ registrant' = createdBy
  /\ UNCHANGED <<admins, authorityTables, requestTables, fault>>

(* No administrator on record: #createAccount commits a new account, whose *)
(* appointment is a second transaction.                                    *)
StartCreatesAccount(u) ==
  /\ phase = "down" /\ admins = {} /\ u \notin accounts
  /\ accounts' = accounts \union {u}
  /\ phase' = "appointing" /\ candidate' = u
  /\ registrant' = createdBy
  /\ UNCHANGED <<admins, authorityTables, requestTables, fault>>

(* Variant: the candidate is forgotten before it is appointed. *)
AppointForgotten ==
  /\ phase = "appointing"
  /\ phase' = "up" /\ candidate' = NoUser
  /\ admins' = admins \union {candidate'}
  /\ UNCHANGED <<accounts, authorityTables, requestTables, registrant, fault>>

AppointSystemAdministrator ==
  /\ phase = "appointing"
  /\ admins' = admins \union {candidate}
  /\ phase' = "up" /\ candidate' = NoUser
  /\ UNCHANGED <<accounts, authorityTables, requestTables, registrant, fault>>

(* The process dies between two handlers or between the two transactions   *)
(* of the constructor.  Bound: Users is finite where UUIDs are not, so a   *)
(* bootstrap dies half way only while an id is left for the next one.      *)
Crash ==
  /\ phase # "down"
  /\ phase = "appointing" => accounts # Users
  /\ phase' = "down" /\ candidate' = NoUser
  /\ registrant' = NoOrganizations
  /\ UNCHANGED <<accounts, admins, authorityTables, requestTables, fault>>

-----------------------------------------------------------------------------
Register(u) ==
  /\ phase = "up" /\ u \notin accounts
  /\ accounts' = accounts \union {u}
  /\ UNCHANGED <<process, admins, authorityTables, requestTables, registrant,
                 fault>>

(* Variant: the administrator check of the three request methods is lost.  *)
AnyCaller(u) == phase = "up" /\ u \in accounts

(* An account that is not an administrator and holds a session. *)
OrdinaryCaller(u) == phase = "up" /\ u \in accounts /\ u \notin admins

(* requireSystemAdministrator *)
AdministratorCaller(a) == phase = "up" /\ a \in accounts /\ a \in admins

(* INSERT of a pending row: the partial unique index on the pending rows   *)
(* refuses a second one that clashes with it.                              *)
InsertPending(table, r, request, clash) ==
  IF clash THEN table ELSE [table EXCEPT ![r] = request]

(* ---- organizations --------------------------------------------------- *)

OrganizationTaken(o) ==
  \/ createdBy[o] # NoUser
  \/ \E r \in PendingIn(orgRequest) : orgRequest[r].org = o

RequestOrganization(u, r, o) ==
  LET clash == \E q \in PendingIn(orgRequest) : orgRequest[q].org = o IN
  /\ OrdinaryCaller(u)
  /\ ~OrganizationTaken(o)
  /\ orgRequest[r] = NoRequest
  /\ orgRequest' = InsertPending(orgRequest, r, Pending(u, o), clash)
  /\ fault' = (fault \/ clash)
  /\ UNCHANGED <<process, accounts, admins, authorityTables,
                 membershipRequest, roleRequest, registrant>>

(* An INSERT of the approval would meet a row with the same key. *)
OrganizationClash(o, u) ==
  createdBy[o] # NoUser \/ <<o, u>> \in controllers \union members

(* Variant: the request is marked approved before the rows it stands for.  *)
CommitOrganizationDecisionInParts(a, r, approved) ==
  LET o == orgRequest[r].org
      u == orgRequest[r].requester
      clash == approved /\ OrganizationClash(o, u)
  IN
  /\ fault' = (fault \/ clash)
  /\ orgRequest' = [orgRequest EXCEPT ![r] = Decided(@, a, approved)]
  /\ createdBy' = IF approved THEN [createdBy EXCEPT ![o] = u] ELSE createdBy
  /\ \/ UNCHANGED <<controllers, members>>
     \/ /\ approved
        /\ controllers' = controllers \union {<<o, u>>}
        /\ members' = members \union {<<o, u>>}
  /\ UNCHANGED <<accounts, admins, regulators, membershipRequest, roleRequest>>

(* The transaction of store.decideOrganizationRequest: the organization,   *)
(* its controller, its first member and the decision, or nothing at all.   *)
CommitOrganizationDecision(a, r, approved) ==
  LET o == orgRequest[r].org
      u == orgRequest[r].requester
      clash == approved /\ OrganizationClash(o, u)
  IN
  /\ fault' = (fault \/ clash)
  /\ IF clash
     THEN UNCHANGED <<createdBy, controllers, members, orgRequest>>
     ELSE /\ orgRequest' = [orgRequest EXCEPT ![r] = Decided(@, a, approved)]
          /\ IF approved
             THEN /\ createdBy' = [createdBy EXCEPT ![o] = u]
                  /\ controllers' = controllers \union {<<o, u>>}
                  /\ members' = members \union {<<o, u>>}
             ELSE UNCHANGED <<createdBy, controllers, members>>
  /\ UNCHANGED <<accounts, admins, regulators, membershipRequest, roleRequest>>

MayDecideOrganization(a, r, approved) ==
  /\ AdministratorCaller(a)
  /\ orgRequest[r].status = "pending"
  /\ approved => createdBy[orgRequest[r].org] = NoUser

(* The domain system registers what was committed, unless the commit threw. *)
RegisteredOrganizations(o, u, approved) ==
  IF approved /\ ~OrganizationClash(o, u)
  THEN [registrant EXCEPT ![o] = u]
  ELSE registrant

DecideOrganizationRequest(a, r, approved) ==
  /\ MayDecideOrganization(a, r, approved)
  /\ CommitOrganizationDecision(a, r, approved)
  /\ registrant' = RegisteredOrganizations(orgRequest[r].org,
                                           orgRequest[r].requester, approved)
  /\ UNCHANGED process

(* The process dies after the commit, before the domain system registers   *)
(* the organization and before the administrator has an answer.            *)
DecideOrganizationThenCrash(a, r, approved) ==
  /\ MayDecideOrganization(a, r, approved)
  /\ CommitOrganizationDecision(a, r, approved)
  /\ phase' = "down" /\ registrant' = NoOrganizations
  /\ UNCHANGED candidate

(* ---- memberships ----------------------------------------------------- *)

MembershipPending(u, o) ==
  \E r \in PendingIn(membershipRequest) :
    membershipRequest[r].org = o /\ membershipRequest[r].requester = u

(* Variant: no look at the memberships the caller already has. *)
MayRequestMembershipAgain(u, o) ==
  /\ OrdinaryCaller(u)
  /\ createdBy[o] # NoUser
  /\ ~MembershipPending(u, o)

MayRequestMembership(u, o) ==
  /\ OrdinaryCaller(u)
  /\ createdBy[o] # NoUser
  /\ <<o, u>> \notin members
  /\ ~MembershipPending(u, o)

RequestMembership(u, r, o) ==
  LET clash == MembershipPending(u, o) IN
  /\ MayRequestMembership(u, o)
  /\ membershipRequest[r] = NoRequest
  /\ membershipRequest' =
       InsertPending(membershipRequest, r, Pending(u, o), clash)
  /\ fault' = (fault \/ clash)
  /\ UNCHANGED <<process, accounts, admins, authorityTables, orgRequest,
                 roleRequest, registrant>>

(* Variant: any member of the organization decides. *)
IsOrganizationMember(c, o) == <<o, c>> \in members

(* requireOrganizationCreator *)
IsOrganizationCreator(c, o) == createdBy[o] = c

MayDecideMembership(c, r) ==
  /\ phase = "up" /\ c \in accounts
  /\ membershipRequest[r].status = "pending"
  /\ IsOrganizationCreator(c, membershipRequest[r].org)

DecideMembershipRequest(c, r, approved) ==
  LET o == membershipRequest[r].org
      u == membershipRequest[r].requester
      clash == approved /\ <<o, u>> \in members
  IN
  /\ MayDecideMembership(c, r)
  /\ fault' = (fault \/ clash)
  /\ IF clash
     THEN UNCHANGED <<members, membershipRequest>>
     ELSE /\ membershipRequest' =
               [membershipRequest EXCEPT ![r] = Decided(@, c, approved)]
          /\ members' = members \union (IF approved THEN {<<o, u>>} ELSE {})
  /\ UNCHANGED <<process, accounts, admins, createdBy, controllers,
                 regulators, orgRequest, roleRequest, registrant>>

(* ---- the special role ------------------------------------------------ *)

RolePending(u) ==
  \E r \in PendingIn(roleRequest) : roleRequest[r].requester = u

MayRequestSpecialRole(u) ==
  OrdinaryCaller(u) /\ u \notin regulators /\ ~RolePending(u)

RequestSpecialRole(u, r) ==
  LET clash == RolePending(u) IN
  /\ MayRequestSpecialRole(u)
  /\ roleRequest[r] = NoRequest
  /\ roleRequest' = InsertPending(roleRequest, r, Pending(u, NoOrg), clash)
  /\ fault' = (fault \/ clash)
  /\ UNCHANGED <<process, accounts, admins, authorityTables, orgRequest,
                 membershipRequest, registrant>>

(* Variant: the status of the application is not looked at. *)
DecideSpecialRoleAnyTime(a, r, approved) ==
  /\ AdministratorCaller(a)
  /\ roleRequest[r].status # "none"
  /\ roleRequest' = [roleRequest EXCEPT ![r] = Decided(@, a, approved)]
  /\ regulators' = regulators \union
                     (IF approved THEN {roleRequest[r].requester} ELSE {})
  /\ UNCHANGED <<process, accounts, admins, createdBy, controllers, members,
                 orgRequest, membershipRequest, registrant, fault>>

MayDecideSpecialRole(a, r) ==
  AdministratorCaller(a) /\ roleRequest[r].status = "pending"

(* The role row is an upsert, so that it never clashes. *)
DecideSpecialRoleRequest(a, r, approved) ==
  /\ MayDecideSpecialRole(a, r)
  /\ roleRequest' = [roleRequest EXCEPT ![r] = Decided(@, a, approved)]
  /\ regulators' = regulators \union
                     (IF approved THEN {roleRequest[r].requester} ELSE {})
  /\ UNCHANGED <<process, accounts, admins, createdBy, controllers, members,
                 orgRequest, membershipRequest, registrant, fault>>

-----------------------------------------------------------------------------
Starting ==
  \/ StartWithAdministrator
  \/ \E u \in Users : StartCreatesAccount(u)
  \/ AppointSystemAdministrator

Requesting(u) ==
  \/ Register(u)
  \/ \E r \in OrgRequestIds, o \in Orgs : RequestOrganization(u, r, o)
  \/ \E r \in MembershipRequestIds, o \in Orgs : RequestMembership(u, r, o)
  \/ \E r \in RoleRequestIds : RequestSpecialRole(u, r)

Deciding(u, approved) ==
  \/ \E r \in OrgRequestIds : DecideOrganizationRequest(u, r, approved)
  \/ \E r \in OrgRequestIds : DecideOrganizationThenCrash(u, r, approved)
  \/ \E r \in MembershipRequestIds : DecideMembershipRequest(u, r, approved)
  \/ \E r \in RoleRequestIds : DecideSpecialRoleRequest(u, r, approved)

Next ==
  \/ Starting
  \/ Crash
  \/ \E u \in Users : Requesting(u)
  \/ \E u \in Users, approved \in BOOLEAN : Deciding(u, approved)

Spec == Init /\ [][Next]_vars

-----------------------------------------------------------------------------
(* Every variable has its type: the rows of the database, and what the     *)
(* process keeps in memory.                                                *)
DatabaseTypeOK ==
  /\ accounts \subseteq Users /\ admins \subseteq Users
  /\ createdBy \in [Orgs -> Users \union {NoUser}]
  /\ controllers \subseteq Orgs \X Users
  /\ members \subseteq Orgs \X Users
  /\ regulators \subseteq Users
  /\ orgRequest \in [OrgRequestIds -> Request(Orgs)]
  /\ membershipRequest \in [MembershipRequestIds -> Request(Orgs)]
  /\ roleRequest \in [RoleRequestIds -> Request({NoOrg})]

ProcessTypeOK ==
  /\ phase \in {"down", "appointing", "up"}
  /\ candidate \in IF phase = "appointing" THEN Users ELSE {NoUser}
  /\ registrant \in [Orgs -> Users \union {NoUser}]
  /\ fault \in BOOLEAN

TypeOK == DatabaseTypeOK /\ ProcessTypeOK

(* However often the process dies between the two transactions of the      *)
(* bootstrap and is started again, at most one account is ever the system  *)
(* administrator (#ensureBootstrapAdministrator).                          *)
SingleAdministrator == \A a, b \in admins : a = b

(* An account that appears in a request, an organization or a role.        *)
Involved(u) ==
  \/ \E o \in Orgs : createdBy[o] = u \/ <<o, u>> \in controllers \union members
  \/ u \in regulators
  \/ \E r \in OrgRequestIds : orgRequest[r].requester = u
  \/ \E r \in MembershipRequestIds : membershipRequest[r].requester = u
  \/ \E r \in RoleRequestIds : roleRequest[r].requester = u

(* There is one administrator, and it stays outside what it decides about: *)
(* no request, organization, membership or role is ever its own.  The      *)
(* request methods check it when they run; that nobody is appointed later  *)
(* is up to the bootstrap, which refuses an ordinary account.              *)
AdministratorsStandApart ==
  SingleAdministrator /\ \A a \in admins : ~Involved(a)

(* No call that passed the checks of its handler dies on a constraint of   *)
(* the schema: the checks of the request methods leave no pending request  *)
(* whose approval would insert a row that exists.                          *)
NoConstraintFault == ~fault

(* Nobody decides about itself, and each kind of request is decided by the *)
(* account entitled to: the administrator, or for a membership the creator *)
(* of the organization.                                                    *)
SeparationOfDuty ==
  /\ \A r \in OrgRequestIds : orgRequest[r].status \in {"approved", "rejected"}
       => orgRequest[r].reviewer \in admins \ {orgRequest[r].requester}
  /\ \A r \in RoleRequestIds : roleRequest[r].status \in {"approved", "rejected"}
       => roleRequest[r].reviewer \in admins \ {roleRequest[r].requester}
  /\ \A r \in MembershipRequestIds :
       membershipRequest[r].status \in {"approved", "rejected"}
       => /\ membershipRequest[r].reviewer = createdBy[membershipRequest[r].org]
          /\ membershipRequest[r].reviewer # membershipRequest[r].requester

(* Authority comes from an approval and an approval always confers it,     *)
(* whatever crashes: the tables of organizations, controllers, members and *)
(* regulators say exactly what the approved requests say.                  *)
ApprovedBy(table, u, o) ==
  \E r \in DOMAIN table : /\ table[r].status = "approved"
                          /\ table[r].requester = u
                          /\ table[r].org = o

AuthorityIsApproved ==
  /\ \A o \in Orgs, u \in Users :
       /\ (createdBy[o] = u) <=> ApprovedBy(orgRequest, u, o)
       /\ (<<o, u>> \in controllers) <=> (createdBy[o] = u)
       /\ (<<o, u>> \in members) <=> \/ createdBy[o] = u
                                     \/ ApprovedBy(membershipRequest, u, o)
  /\ \A u \in Users : (u \in regulators) <=> ApprovedBy(roleRequest, u, NoOrg)

(* While the server serves, the in-memory domain system knows the          *)
(* organizations of the database, with the same registrant.                *)
DomainKnowsOrganizations == phase # "down" => registrant = createdBy

(* A decision is final and survives every crash: a decided request never   *)
(* changes again.                                                          *)
IsDecided(request) == request.status \in {"approved", "rejected"}

DecisionsAreFinal ==
  [][ /\ \A r \in OrgRequestIds :
           IsDecided(orgRequest[r]) => orgRequest'[r] = orgRequest[r]
      /\ \A r \in MembershipRequestIds :
           IsDecided(membershipRequest[r])
           => membershipRequest'[r] = membershipRequest[r]
      /\ \A r \in RoleRequestIds :
           IsDecided(roleRequest[r]) => roleRequest'[r] = roleRequest[r] ]_vars
=============================================================================
