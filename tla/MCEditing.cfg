SPECIFICATION EditingSpec
CONSTANTS
  Closure = {c1}
  Editor = {e1, e2}
  Router = {r1, r2}
  Request <- Requests
  Ttl = 2
  MaxFetch = 1
  MaxTime = 4
  Socket = {s1, s2, s3, s4}
  Building = {b1, b2}
  NoRoom = NoRoom
  Guest = s4
  Restricted = b2
  CanEdit <- Allowed
  MaxRoomSize = 3
  Palette = 2
SYMMETRY Symmetric
INVARIANTS AnswersInForce StaleOnlyAfterRace BoundedStaleness FramesFollowRows OneRoom RoomsBounded ColorsDistinct PresenceCurrent
CHECK_DEADLOCK FALSE
