SPECIFICATION Spec
SYMMETRY Symmetry
CONSTANTS
  Clients = {c1}
  CallIds = {a}
  Ttl = 0
  MaxRequests = 3
  MaxCalls = 1
  MaxClock = 1
INVARIANT ValidContinuationSucceeds
CHECK_DEADLOCK FALSE
