SPECIFICATION Spec
CONSTANTS
  Worker = {w1, w2}
  QueueCap = 2
  MaxNacks = 5
INVARIANTS TypeOK SocketOutlivesWorkers NoneLost
PROPERTIES ReadIsHandled TakenIsHandled CancelReturns
