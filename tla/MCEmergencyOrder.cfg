SPECIFICATION Spec
CONSTANTS
  Admin = {a1, a2, a3}
  Occupant = {}
  Poll = {}
  Message = {m1}
  NoMessage = NoMessage
  Nobody = Nobody
  MaxRestarts = 0
INVARIANT EndIsLastWord
CHECK_DEADLOCK FALSE
