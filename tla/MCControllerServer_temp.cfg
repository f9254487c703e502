\* Retries that overlap: one volume on a generated bucket.
SPECIFICATION Spec
CONSTANTS
  u1 = u1
  NoBucket = NoBucket
  NoVolume = NoVolume
  NoHandler = NoHandler
  Volumes = {v1}
  UserBuckets = {}
  Objects = {o1}
  Handlers = {h1, h2, h3}
  Claims <- TempClaims
  Faults = {"timeout", "crash", "quota", "versioning", "createLost", "deleteBucket", "access", "create"}
  PageSize = 1
  MaxClock = 2
  MaxFaults = 3
SYMMETRY HandlerSymmetry
CHECK_DEADLOCK FALSE
INVARIANTS
  TypeOK
  TempBucketIntact
  ConfiguredAsRequested
PROPERTIES
  PrivateStore
