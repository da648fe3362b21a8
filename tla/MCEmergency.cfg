SPECIFICATION Spec
CONSTANTS
  Admin = {a1, a2, a3}
  Occupant = {o1}
  Poll = {p1, p2}
  Message = {m1}
  NoMessage = NoMessage
  Nobody = Nobody
  MaxRestarts = 1
SYMMETRY Symmetric
INVARIANTS TypeOK ActiveIffMode FreshPolls AlarmNeverSilenced
PROPERTY ImplementsIncidentLog
CHECK_DEADLOCK FALSE
