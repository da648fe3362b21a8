SPECIFICATION Spec
CONSTANTS
  NoLength <- Unmeasured
  AssumedScale = 5
  StairsPerFloor = 32
  EscalatorEntry = 6
  EscalatorPerFloor = 32
  LiftWait = 60
  LiftPerFloor = 10
  ChangePenalty = 120
  LastResort = 100
  Buildings <- OneBuilding
  ClosureSets <- Open
  Queries <- Asked
  MaxRequests = 2
  MaxFields = 2
  MaxDestinations = 3
  MaxAlternatives = 2
  ChangeMetres = 50
INVARIANT FieldAgrees
CHECK_DEADLOCK FALSE
