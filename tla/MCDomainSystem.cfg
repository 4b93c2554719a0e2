SPECIFICATION Spec
CONSTANTS
  olga = olga
  sam = sam
  ana = ana
  Users = {olga, sam, ana}
  MaxNumber = 1
  NoUser = NoUser
  Public = Public
SYMMETRY Interchangeable
INVARIANTS
  
  RecordsAreCommitted
PROPERTY
  RecordsStay
