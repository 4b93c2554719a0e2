SPECIFICATION FairSpec
CONSTANTS
  olga = olga
  Users = {olga, gil}
  Orgs = {acme}
  Controller <- MCController
  Products = {p1}
  GrantIds = {g1, g2, g3}
  MaxTime = 1
  NoOrg = NoOrg
  NoUser = NoUser
PROPERTY ProductsAreRepaired
