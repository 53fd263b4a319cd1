SPECIFICATION Spec
CONSTANTS
  Key = {k1}
  TTL <- TTLs
  MaxTime = 6
INVARIANTS TypeOK SentWherePublished WholeFramesKeepTTL
CHECK_DEADLOCK FALSE
