SPECIFICATION Spec
CONSTANTS
  uma = uma
  adam = adam
  Accounts = {uma, adam}
  Administrator = adam
  MaxRequests = 4
  MaxNumber = 1
  MaxEpochs = 1
  NoUser = nobody
INVARIANTS
  TypeOK
  AnswersAreHonest
  SequentialPageIsCurrent
  BusyMeansWaiting
