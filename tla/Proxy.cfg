CONSTANTS
  a = a
  b = b
  w1 = w1
  w2 = w2
  r1 = r1
  r2 = r2
  Endpoint = {a, b}
  Worker = {w1, w2}
  EndpointOf <- Pools
  Key = {k}
  k = k
  Requester = {r1, r2}
  Upstreams = 2
  QueueDepth = 1
  Modes <- AnyMode
  MaxJobs = 2
SPECIFICATION Spec
INVARIANTS
  TypeOK
  DedupedIsCovered
PROPERTY JobEnds
CHECK_DEADLOCK FALSE
