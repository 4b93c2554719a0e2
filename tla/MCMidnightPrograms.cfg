SPECIFICATION Spec
CONSTANTS
  a = a
  b = b
  c = c
  d = d
  Users <- Actors
  ActorA = a
  ActorB = b
  ActorC = c
  ActorD = d
  Operator = operator
  Public = public
  NoUser = nobody
  MaxNumber = 1
  Flows <- ScenarioActions
  Nonces = {n1, n2}
  MaxPrepared = 4
  FlowsOfApplication <- SomeActions
  MaxOfApplication = 2
  MaxCallsOfIt = 3
  MaxCalls = 4
  NoFlow = noflow
  NoCommitment = none
INVARIANTS
  ViewsFollowRelationships
  AnchoredIsProvable
  ReceiptsAreAnchored
  LedgerIsTheScenario
  NoWalletIsLeftRunning
PROPERTIES
  ImplementsLog
  ProgramsGiveBack
