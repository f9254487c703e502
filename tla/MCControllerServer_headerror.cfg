\* HeadBucket fails once on a bucket that exists.
SPECIFICATION Spec
CONSTANTS
  u1 = u1
  NoBucket = NoBucket
  NoVolume = NoVolume
  NoHandler = NoHandler
  Volumes = {v1}
  UserBuckets = {u1}
  Objects = {o1}
  Handlers = {h1, h2}
  Claims <- PlainNamedClaims
  Faults = {"head"}
  PageSize = 1
  MaxClock = 0
  MaxFaults = 1
CHECK_DEADLOCK FALSE
PROPERTIES
  UserBucketPersisted
