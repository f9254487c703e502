\* One volume from CreateVolume to DeleteVolume, while its secret changes.
SPECIFICATION FairSpec
CONSTANTS
  None = None
  u1 = u1
  e1 = e1
  e2 = e2
  Namespaces = {"default", "apps"}
  UserBuckets = {u1}
  TempBucket = t1
  Endpoints = {e1, e2}
  Secrets <- SomeSecrets
  Classes <- SomeClasses
  Annotations = {None}
  MaxEdits = 2
CHECK_DEADLOCK FALSE
INVARIANTS
  TypeOK
  MountsOwnBucket
  UsageOfMountedBucket
  CredentialFilesRemoved
PROPERTIES
  OnlyOwnBucketDeleted
  BucketGoesWithVolume
  
  UneditedVolumeGoes
  StoppingPodIsUnpublished
