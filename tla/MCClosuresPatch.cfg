SPECIFICATION Spec
CONSTANTS
  Closure = {c1}
  Editor = {e1, e2}
  Router = {r1}
  Request <- Requests
  Ttl = 1
  MaxFetch = 1
  MaxTime = 3
INVARIANT RowsStayValid
CHECK_DEADLOCK FALSE
