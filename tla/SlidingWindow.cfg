CONSTANTS
  Key = {k1,k2,k3}
  Max = 3
  Window = 2
  MaxKeys = 2
  MaxTime = 5
  MaxCalls = 7
SPECIFICATION Spec
SYMMETRY KeySymmetry
INVARIANTS TypeOK RateBound LogCompact MapBounded
PROPERTIES NewKeySheds ImplementsWindow
CHECK_DEADLOCK FALSE
