CONSTANTS
  e1 = e1
  r1 = r1
  Editor = {e1}
  Reader = {r1}
  Maps <- TheMaps
  Changes <- TheChanges
  MaxChanges = 2
  MaxFloors = 3
  MaxBuildings = 1
  TransitCost <- Costs
  MaxShortcut = 600
  ExtraNeighbors = 2
  MaxNewEdges = 600
SPECIFICATION EditorSpec
INVARIANT AutoConnectIdempotent
CHECK_DEADLOCK FALSE
