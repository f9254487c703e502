\* A PVC annotated with the namespace of its secret.
SPECIFICATION Spec
CONSTANTS
  None = None
  u1 = u1
  e1 = e1
  e2 = e2
  Namespaces = {"default", "apps"}
  UserBuckets = {u1}
  TempBucket = t1
  Endpoints = {e1, e2}
  Secrets <- SomeSecrets
  Classes <- SomeClasses
  Annotations = {"default"}
  MaxEdits = 0
CHECK_DEADLOCK FALSE
INVARIANTS
  AnnotatedSecretUsed
