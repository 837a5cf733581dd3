SPECIFICATION Spec
CONSTANTS
  Tokens = {t1, t2}
  WINDOW_SECONDS = 2
  MAX_REQUESTS = 2
  _EVICTION_INTERVAL = 3
  MaxTime = 9
SYMMETRY Symmetry
INVARIANTS
  TypeOK
  SlidingWindow
  RefusedForCause
  NoStaleBuckets
