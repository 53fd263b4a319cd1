SPECIFICATION Spec
CONSTANTS
  MaxBits = 1
  BeefBase = 2
  MaxStatic = 1
  Source = {"own", "peer"}
  Raw <- AnySettings
  Joiner = {1, 2}
  MaxShare = 2
  MaxLosses = 1
  MaxRefusals = 1
INVARIANTS TypeOK EachGroupOnce BeaconWire OwnSocket UpIsMember
PROPERTY LostIsRejoined
CHECK_DEADLOCK FALSE
