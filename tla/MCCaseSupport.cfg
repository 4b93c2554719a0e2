SPECIFICATION Spec
CONSTANTS
  olga = olga
  sam = sam
  ana = ana
  Users = {olga, sam, ana}
  Creator = olga
  Regulators = {sam, ana}
  MaxNumber = 2
  NoUser = NoUser
  Public = Public
PROPERTY SupportReachesHandler
