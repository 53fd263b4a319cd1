SPECIFICATION Spec
CONSTANTS
  Key = {k1}
  TTL <- TTLs
  MaxTime = 6
INVARIANT RecacheMirrorsIngress
CHECK_DEADLOCK FALSE
