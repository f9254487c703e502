\* A bucket with more objects than one listing returns.
SPECIFICATION Spec
CONSTANTS
  u1 = u1
  NoBucket = NoBucket
  NoVolume = NoVolume
  NoHandler = NoHandler
  Volumes = {v1}
  UserBuckets = {u1}
  Objects = {o1, o2}
  Handlers = {h1, h2}
  Claims <- PlainClaims
  Faults = {}
  PageSize = 1
  MaxClock = 0
  MaxFaults = 0
CHECK_DEADLOCK FALSE
INVARIANTS
  NoOrphan
