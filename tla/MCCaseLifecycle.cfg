SPECIFICATION Spec
CONSTANTS
  olga = olga
  sam = sam
  ana = ana
  Users = {olga, sam, ana}
  Creator = olga
  Regulators = {sam, ana}
  MaxNumber = 2
  NoUser = NoUser
  Public = Public
SYMMETRY Interchangeable
INVARIANTS
  TypeOK
  MapsAgree
  HandlerIsTheSeller
  DisclosureIsOneOwnPurchase
  CommitmentsMatchRecords
  CaseOffersAreAccepted
PROPERTY
  ImplementsJourney
