SPECIFICATION Spec
SYMMETRY Symmetry
CONSTANTS
  Clients = {c1, c2}
  CallIds = {a}
  Ttl = 0
  MaxRequests = 3
  MaxCalls = 1
  MaxClock = 1
INVARIANT NeverAnothersResponse
CHECK_DEADLOCK FALSE
