SPECIFICATION Spec
CONSTANTS
  k1 = k1
  k2 = k2
  Procs = 2
  Key = {k1, k2}
  ShardOf <- Sharding
  Per = 1
  Batch = 2
  MaxArrivals = 5
  Traffic <- Mix
INVARIANTS TypeOK OnePlace RefillReady KeyOrder Accounted
PROPERTIES QueuedIsHandled CancelReturns
