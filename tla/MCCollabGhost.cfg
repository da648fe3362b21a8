SPECIFICATION RoomsSpec
CONSTANTS
  Socket = {s1, s2}
  Building = {b1, b2}
  NoRoom = NoRoom
  CanEdit <- Allowed
  MaxRoomSize = 2
  Palette = 2
INVARIANT NoGhosts
CHECK_DEADLOCK FALSE
