\* Provisioning and deletion settle once faults stop, two volumes.
SPECIFICATION FairSpec
CONSTANTS
  u1 = u1
  NoBucket = NoBucket
  NoVolume = NoVolume
  NoHandler = NoHandler
  Volumes = {v1, v2}
  UserBuckets = {u1}
  Objects = {o1}
  Handlers = {h1, h2}
  Claims <- RacingClaims
  Faults = {"lookup", "head", "versioning", "list", "deleteObject", "deleteBucket",
            "pvGet", "timeout", "crash"}
  PageSize = 1
  MaxClock = 1
  MaxFaults = 1
CHECK_DEADLOCK FALSE
PROPERTIES
  ReleasedVolumeGoes
  PendingClaimSettles
