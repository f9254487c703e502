\* Two claims, on a bucket name of their own or on the same one.
SPECIFICATION Spec
CONSTANTS
  u1 = u1
  NoBucket = NoBucket
  NoVolume = NoVolume
  NoHandler = NoHandler
  Volumes = {v1, v2}
  UserBuckets = {u1}
  Objects = {o1}
  Handlers = {h1, h2}
  Claims <- NamedClaims
  Faults = {"createLost", "access", "quota", "list", "deleteObject", "deleteBucket", "pvGet", "crash", "head", "timeout"}
  PageSize = 1
  MaxClock = 1
  MaxFaults = 2
SYMMETRY HandlerSymmetry
CHECK_DEADLOCK FALSE
INVARIANTS
  NoSilentOrphan
  DedicatedBucketIntact
PROPERTIES
  UserBucketKept
  PrivateStore
