SPECIFICATION Spec
CONSTANTS
  Absent = Absent
  Conns = {c1, c2}
  Requests <- AllRequests
  Probes <- WiredProbes
CHECK_DEADLOCK FALSE
INVARIANT
  DuplicateIsBadRequest
