SPECIFICATION Spec
CONSTANTS
  Users = {u1, u2, u3, u4}
  Orgs = {acme, zenith}
  OrgRequestIds = {oq1, oq2}
  MembershipRequestIds = {mq1, mq2, mq3}
  RoleRequestIds = {rq1, rq2}
  NoUser = NoUser
  NoOrg = NoOrg
SYMMETRY Symmetry
INVARIANTS
  TypeOK
  AdministratorsStandApart
  NoConstraintFault
  SeparationOfDuty
  AuthorityIsApproved
  DomainKnowsOrganizations
PROPERTY DecisionsAreFinal
