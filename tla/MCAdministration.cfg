CONSTANTS
  Process = {q1, q2}
  Password = {pw1, pw2}
  Ip = {home}
  Email = {mine, free, theirs}
  TakenEmail = {theirs}
  MaxAttempts = 5
  MaxRequests = 2
  MaxCodes = 2
  Clerk = {k1, k2}
  User = {ann, bob}
  Owner = olga
  Permission = {"invite", "roles", "map"}
  Sets = {{"invite"}}
  RoleId = {admin, staff, extra}
  SystemRole = {admin}
  MaxAsked = 2
  MaxInvites = 3
  Editor = {e1, e2}
  Reader = {r1}
  Maps <- TheMaps
  Changes <- TheChanges
  MaxChanges = 2
  MaxFloors = 3
  MaxBuildings = 1
  TransitCost <- Costs
  MaxShortcut = 6
  ExtraNeighbors = 2
  MaxNewEdges = 600
SYMMETRY Symmetry
SPECIFICATION AdminSpec
INVARIANTS GuessesCapped SessionsFollowPassword RolesStand LinksArrive LengthsTrackPositions StaleGraphExplained WithinPlan
CHECK_DEADLOCK FALSE
