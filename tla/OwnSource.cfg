SPECIFICATION Spec
CONSTANTS
  MaxBits = 1
  BeefBase = 2
  MaxStatic = 1
  Source = {"own", "peer"}
  Raw <- AnySettings
  Joiner = {1, 2}
  MaxShare = 2
  MaxLosses = 1
  MaxRefusals = 1
INVARIANT OwnNeverJoined
CHECK_DEADLOCK FALSE
