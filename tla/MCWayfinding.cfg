SPECIFICATION WSpec
CONSTANTS
  NoLength <- Unmeasured
  AssumedScale = 5
  StairsPerFloor = 32
  EscalatorEntry = 6
  EscalatorPerFloor = 32
  LiftWait = 60
  LiftPerFloor = 10
  ChangePenalty = 120
  LastResort = 100
  MergeWithin = 3
  StraightMinLeg = 5
  LandmarkRadius = 5
  Buildings <- AllBuildings
  ClosureSets <- Closed
  Queries <- Asked
  MaxRequests = 2
  MaxFields = 1
  MaxDestinations = 3
  MaxAlternatives = 2
  ChangeMetres = 50
INVARIANTS CheapestSettled FieldAgrees KeepsOut NobodyStranded FlagsHonest GuidanceAddsUp TourNeverLonger
PROPERTY EveryRequestAnswered
CHECK_DEADLOCK FALSE
