SPECIFICATION Spec
SYMMETRY Symmetry
CONSTANTS
  Clients = {c1, c2}
  CallIds = {a, b}
  Ttl = 0
  MaxRequests = 3
  MaxCalls = 2
  MaxClock = 1
INVARIANTS
  TypeOK
  UpstreamSeesConversation
  OutputsFollowCalls
  CallsCanBeAnswered
CHECK_DEADLOCK FALSE
