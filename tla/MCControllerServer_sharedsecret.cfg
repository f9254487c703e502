\* Two claims through one secret that names a bucket.
SPECIFICATION Spec
CONSTANTS
  u1 = u1
  NoBucket = NoBucket
  NoVolume = NoVolume
  NoHandler = NoHandler
  Volumes = {v1, v2}
  UserBuckets = {u1}
  Objects = {o1}
  Handlers = {h1, h2}
  Claims <- PlainNamedClaims
  Faults = {}
  PageSize = 1
  MaxClock = 0
  MaxFaults = 0
CHECK_DEADLOCK FALSE
INVARIANTS
  BoundVolumeHasBucket
