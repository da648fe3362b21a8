SPECIFICATION Spec
CONSTANTS
  Stream = {s1, s2, s3, s4}
  Building = {b1, b2}
  Ip = {i1, i2}
  CapPerBuilding = 2
  CapTotal = 3
SYMMETRY Symmetric
INVARIANTS SlotAccounting CapsHold NewcomerAdmitted NothingLeaks
PROPERTY FairEviction
CHECK_DEADLOCK FALSE
