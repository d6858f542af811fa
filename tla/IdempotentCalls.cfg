\* Three calls on two keys; one stored result at a time, so results are evicted.
SPECIFICATION FairSpec
CONSTANTS
  c1 = c1
  c2 = c2
  c3 = c3
  k1 = k1
  k2 = k2
  Calls = {c1, c2, c3}
  Keys = {k1, k2}
  Capacity = 1
  None = None
INVARIANTS
  TypeOK
  OwnersDoNotRepeat
  NoOrphanedKey
  DrainIsClean
PROPERTY
  DrainNeedsNoTimeout
CHECK_DEADLOCK FALSE
