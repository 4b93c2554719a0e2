SPECIFICATION Spec
CONSTANTS
  olga = olga
  Users = {olga, otto, gil}
  Orgs = {acme}
  Controller <- MCController
  Products = {p1, p2}
  GrantIds = {g1, g2, g3, g4}
  MaxTime = 1
  NoOrg = NoOrg
  NoUser = NoUser
SYMMETRY Symmetry
INVARIANT ExpirationsAreFuture
