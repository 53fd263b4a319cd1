SPECIFICATION Spec
CONSTANTS
  e1 = e1
  e2 = e2
  w1 = w1
  w2 = w2
  w3 = w3
  Endpoint = {e1, e2}
  Worker = {w1, w2, w3}
  EndpointOf <- Pools
  Key <- Keys
  Source = {s1}
  Iface = {i1, i2}
  SeqMax = 1
  Deployments <- Fleets
  MaxNacks = 2
INVARIANTS TypeOK AckHonest RefusalsHoldNothing OneSendPerClaim
SYMMETRY Symmetry
CHECK_DEADLOCK FALSE
