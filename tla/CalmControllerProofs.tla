------------------------ MODULE CalmControllerProofs ------------------------
(***************************************************************************)
(* What holds of the controller until a call times out: CalmInv of         *)
(* ControllerServer is inductive, so no bucket of the driver is leaked     *)
(* silently, and a bound volume that shares its bucket name with no other  *)
(* has its bucket, named by the secret or generated.                       *)
(***************************************************************************)
EXTENDS TempBucketProofs

(***************************************************************************)
(* Lemmas on names and goroutines.                                         *)
(***************************************************************************)

(* Idle goroutines and absent PVs name no bucket.                          *)
LEMMA NoName ==
  /\ Idle.bucketName \notin Buckets
  /\ NoPV.bucketName \notin Buckets
  /\ NoPV.userProvidedBucket
  /\ UserBuckets \subseteq Buckets
BY ConstantsAssumption DEF Idle, NoPV, Buckets

(* A goroutine of a handler is not idle, and knows its volume.             *)
LEMMA AtWorkVolume ==
  ASSUME TypeOK, RunInv, NEW g \in Handlers, rpc[g].op # "none"
  PROVE  rpc[g].pc # "idle" /\ rpc[g].volumeID \in Volumes
<1>1. rpc[g].pc # "idle"
  BY DEF RunInv, PathsAgree, OnPath
<1> QED  BY <1>1 DEF TypeOK, CallsName

(* So is one that names a bucket.                                          *)
LEMMA NamerAtWork ==
  ASSUME TypeOK, RunInv, NEW g \in Handlers, rpc[g].bucketName \in Buckets
  PROVE  rpc[g].pc # "idle" /\ rpc[g].volumeID \in Volumes
<1>1. rpc[g].pc # "idle"
  BY NoName DEF TypeOK, CallsName
<1> QED  BY <1>1 DEF TypeOK, CallsName

(* Two goroutines that are awaited serve different volumes.                *)
LEMMA ApartVolumes ==
  ASSUME Awaited, NEW g \in Handlers, NEW h \in Handlers, g # h,
         rpc[g].pc # "idle", rpc[h].pc # "idle"
  PROVE  rpc[g].volumeID # rpc[h].volumeID
BY DEF Awaited

(* A goroutine on the bucket of a volume with a name of its own serves     *)
(* that volume.                                                            *)
LEMMA BucketOwner ==
  ASSUME TypeOK, RunInv, NamedBySecret, NEW v \in Volumes, Dedicated(v),
         NEW h \in Handlers, rpc[h].bucketName \in Buckets,
         \/ pv[v].bucketName = rpc[h].bucketName
         \/ \E g \in Handlers : /\ rpc[g].volumeID = v
                                /\ rpc[g].bucketName = rpc[h].bucketName
  PROVE  rpc[h].volumeID = v
<1> DEFINE b == rpc[h].bucketName
<1>0. rpc[h].volumeID \in Volumes
  BY NamerAtWork
<1>1. CASE b \in TempBuckets
  BY <1>1 DEF RunInv, NamesOwn
<1>2. CASE b \in UserBuckets
  <2>1. spec[v].bucketName = b /\ spec[rpc[h].volumeID].bucketName = b
    BY <1>2 DEF NamedBySecret
  <2>2. b # NoBucket
    BY ConstantsAssumption
  <2> QED  BY <1>0, <2>1, <2>2 DEF Dedicated
<1> QED  BY <1>1, <1>2 DEF Buckets

-----------------------------------------------------------------------------
(***************************************************************************)
(* A step of goroutine h.                                                  *)
(***************************************************************************)
LEMMA StepFacts ==
  ASSUME TypeOK, RunInv, NEW h \in Handlers, CreateStep(h) \/ DeleteStep(h)
  PROVE  /\ rpc[h].pc # "idle" /\ rpc[h].volumeID \in Volumes
         /\ rpc[h].op # "none"
         /\ seen \subseteq seen'
         /\ rpc[h].pc = "reply" => CreateVolumeReply(h)
         /\ rpc[h].pc = "bucketToDelete" =>
              BucketToDelete(h) \/ BucketToDeleteNone(h)
<1>1. /\ rpc[h].pc # "idle"
      /\ rpc[h].pc = "reply" => CreateVolumeReply(h)
      /\ rpc[h].pc = "bucketToDelete" =>
              BucketToDelete(h) \/ BucketToDeleteNone(h)
  BY DEF CreateStep, HeadBucketOk, HeadBucketErr, CreateBucketOk,
    CreateBucketErr, CheckAccessOk, CheckAccessErr, UpdateQuotaLimitOk,
    UpdateQuotaLimitErr, SetBucketVersioningOk, SetBucketVersioningErr,
    CreateVolumeReply, DeleteStep, BucketToDelete, BucketToDeleteNone,
    ListObjects, ListObjectsNoSuchBucket, ListObjectsErr, DeleteObject,
    DeleteObjectErr, DeleteObjectsDone, DeleteBucket, DeleteBucketErr
<1>2. seen \subseteq seen'
  BY DEF CreateStep, HeadBucketOk, HeadBucketErr, CreateBucketOk,
    CreateBucketErr, CheckAccessOk, CheckAccessErr, UpdateQuotaLimitOk,
    UpdateQuotaLimitErr, SetBucketVersioningOk, SetBucketVersioningErr,
    CreateVolumeReply, DeleteStep, BucketToDelete, BucketToDeleteNone,
    ListObjects, ListObjectsNoSuchBucket, ListObjectsErr, DeleteObject,
    DeleteObjectErr, DeleteObjectsDone, DeleteBucket, DeleteBucketErr,
    NoFault, Fault, faultVars
<1>3. rpc[h].volumeID \in Volumes
  BY <1>1 DEF TypeOK, CallsName
<1>4. rpc[h].op # "none"
  BY <1>1 DEF RunInv, PathsAgree, OnPath
<1> QED  BY <1>1, <1>2, <1>3, <1>4

LEMMA ShapeFrame ==
  ASSUME NEW h \in Handlers, Shape(h)
  PROVE  Others(h) /\ spec' = spec
BY DEF Shape, GoesOn, Learns, SameVolume, Quits, Reclaims, Binds, Ends, k8sVars

(* Names come from the secret, directly or through the PV.                 *)
LEMMA CalmNames ==
  ASSUME TypeOK, RunInv, NamedBySecret, NEW h \in Handlers,
         Shape(h), rpc[h].volumeID \in Volumes
  PROVE  NamedBySecret'
<1>0. Others(h) /\ spec' = spec
  BY ShapeFrame
<1>1. rpc'[h].bucketName \in UserBuckets =>
        rpc'[h].bucketName = spec[rpc'[h].volumeID].bucketName
  <2>1. CASE GoesOn(h)
    BY <2>1 DEF GoesOn, SameVolume, NamedBySecret
  <2>2. CASE Learns(h)
    BY <2>2 DEF Learns, SameVolume, NamedBySecret
  <2>3. CASE Ends(h)
    BY <2>3, NoName DEF Ends
  <2> QED
    BY <2>1, <2>2, <2>3 DEF Shape, Quits, Reclaims, Binds
<1>2. ASSUME NEW v \in Volumes, pv'[v].bucketName \in UserBuckets
      PROVE  pv'[v].bucketName = spec[v].bucketName
  <2>1. CASE pv'[v] = pv[v]
    BY <1>2, <2>1 DEF NamedBySecret
  <2>2. CASE pv'[v] = NoPV
    BY <1>2, <2>2, NoName
  <2>3. CASE v = rpc[h].volumeID /\ pv'[v].bucketName = rpc[h].bucketName
    BY <1>2, <2>3 DEF NamedBySecret
  <2> QED  BY <2>1, <2>2, <2>3, VolumeView
<1> QED  BY <1>0, <1>1, <1>2 DEF NamedBySecret, Others

(* The provisioner waits for a goroutine until it answers.                 *)
LEMMA CalmAwaited ==
  ASSUME TypeOK, RunInv, Awaited, NEW h \in Handlers,
         Shape(h), rpc[h].pc # "idle"
  PROVE  Awaited'
<1>0. Others(h)
  BY ShapeFrame
<1>1. CASE GoesOn(h) \/ Learns(h)
  <2>1. UNCHANGED call /\ rpc'[h].volumeID = rpc[h].volumeID
    BY <1>1 DEF GoesOn, Learns, SameVolume
  <2> QED  BY <1>0, <2>1 DEF Awaited, Others
<1>2. CASE Ends(h)
  <2> SUFFICES ASSUME NEW g \in Handlers, rpc'[g].pc # "idle"
               PROVE  call'[rpc'[g].volumeID] = g
    BY DEF Awaited
  <2>1. g # h /\ rpc'[g] = rpc[g]
    BY <1>0, <1>2, IdleView DEF Ends, Others
  <2>2. rpc[g].volumeID \in Volumes /\ call[rpc[g].volumeID] = g
    BY <2>1 DEF Awaited, TypeOK, CallsName
  <2> QED  BY <1>2, <2>1, <2>2 DEF Ends
<1> QED  BY <1>1, <1>2 DEF Shape, Quits, Reclaims, Binds

(* DeleteVolume reads the bucket name from a PV nobody else changes.       *)
LEMMA CalmDeletes ==
  ASSUME TypeOK, RunInv, Awaited, DeletesItsOwn, NEW h \in Handlers,
         CreateStep(h) \/ DeleteStep(h), Shape(h)
  PROVE  DeletesItsOwn'
<1>0. /\ Others(h) /\ rpc[h].pc # "idle" /\ rpc[h].volumeID \in Volumes
  BY ShapeFrame, StepFacts
<1> SUFFICES ASSUME NEW g \in Handlers, rpc'[g].op = "delete",
                    rpc'[g].pc # "bucketToDelete"
             PROVE  rpc'[g].bucketName = pv'[rpc'[g].volumeID].bucketName
  BY DEF DeletesItsOwn
<1>1. CASE g # h
  <2>1. rpc'[g] = rpc[g]
    BY <1>0, <1>1 DEF Others
  <2>2. rpc[g].pc # "idle" /\ rpc[g].volumeID \in Volumes
    BY <2>1, AtWorkVolume
  <2>3. rpc[g].volumeID # rpc[h].volumeID
    BY <1>0, <1>1, <2>2, ApartVolumes
  <2>4. pv'[rpc[g].volumeID] = pv[rpc[g].volumeID]
    BY <2>2, <2>3, VolumeView
  <2> QED  BY <2>1, <2>4 DEF DeletesItsOwn
<1>2. CASE g = h
  <2>1. GoesOn(h) \/ Learns(h)
    BY <1>2, IdleView DEF Shape, Quits, Reclaims, Binds, Ends
  <2>2. UNCHANGED pv /\ rpc'[h].volumeID = rpc[h].volumeID
    BY <2>1 DEF GoesOn, Learns, SameVolume, k8sVars
  <2>3. CASE Learns(h)
    BY <1>2, <2>2, <2>3 DEF Learns
  <2>4. CASE GoesOn(h) /\ rpc[h].pc # "bucketToDelete"
    BY <1>2, <2>2, <2>4 DEF GoesOn, DeletesItsOwn
  <2>5. CASE rpc[h].pc = "bucketToDelete"
    <3>1. RpcOK
      BY TypeParts
    <3>2. BucketToDelete(h)
      <4>1. ~BucketToDeleteNone(h)
        BY <1>0, <1>2, <3>1, ReturnView, IdleView
        DEF BucketToDeleteNone, DeleteVolumeReply
      <4> QED  BY <2>5, <4>1, StepFacts
    <3> QED  BY <1>2, <2>2, <3>1, <3>2, BucketToDeleteView
  <2> QED  BY <2>1, <2>3, <2>4, <2>5
<1> QED  BY <1>1, <1>2

(* A goroutine past the calls that find or make its bucket has just been   *)
(* told that it is there.                                                  *)
LEMMA AccessFresh ==
  ASSUME TypeOK, RunInv, NEW h \in Handlers, CreateStep(h) \/ DeleteStep(h),
         HasAccess(h)'
  PROVE  rpc'[h].bucketName \in exists'
<1>0. RpcOK /\ OnPath(rpc[h]) /\ rpc[h].volumeID \in Volumes
  BY TypeParts, StepFacts DEF RunInv, PathsAgree
<1>1. CASE HeadBucketOk(h) \/ UpdateQuotaLimitOk(h) \/ SetBucketVersioningOk(h)
  <2>1. PICK l : Goto(h, l) /\ rpc[h].bucketName \in exists /\ UNCHANGED exists
    BY <1>1 DEF HeadBucketOk, UpdateQuotaLimitOk, SetBucketVersioningOk, cosVars
  <2> QED  BY <1>0, <2>1, GotoView DEF SameWork
<1>2. CASE CheckAccessOk(h)
  <2>1. rpc'[h].bucketName = rpc[h].bucketName
    BY <1>0, <1>2, CheckAccessView DEF SameWork
  <2>2. rpc[h].bucketName \in exists /\ UNCHANGED exists
    BY <1>2 DEF CheckAccessOk, cosVars
  <2> QED  BY <2>1, <2>2
<1>3. CASE HeadBucketErr(h) \/ CreateBucketOk(h) \/ DeleteObjectsDone(h)
  <2>1. PICK l \in {"create", "access", "bucket"} : Goto(h, l)
    BY <1>3 DEF HeadBucketErr, CreateBucketOk, DeleteObjectsDone
  <2> QED  BY <1>0, <2>1, GotoView DEF HasAccess
<1>4. CASE UpdateQuotaLimitErr(h) \/ SetBucketVersioningErr(h)
  BY <1>0, <1>4, RollBackShape
  DEF UpdateQuotaLimitErr, SetBucketVersioningErr, OnPath, HasAccess
<1>5. CASE BucketToDelete(h) \/ ListObjects(h) \/ DeleteObject(h)
  BY <1>0, <1>5, BucketToDeleteView, ListView DEF HasAccess
<1>6. CASE \/ CreateBucketErr(h) \/ CheckAccessErr(h) \/ CreateVolumeReply(h)
           \/ BucketToDeleteNone(h)
           \/ ListObjectsNoSuchBucket(h) \/ ListObjectsErr(h)
           \/ DeleteObjectErr(h) \/ DeleteBucket(h) \/ DeleteBucketErr(h)
  <2>1. Return(h)
    BY <1>6 DEF CreateBucketErr, CheckAccessErr, CreateVolumeReply,
      BucketToDeleteNone, ListObjectsNoSuchBucket, ListObjectsErr,
      DeleteObjectErr, DeleteBucket, DeleteBucketErr, DeleteBucketFailed,
      DeleteBucketDone, DeleteVolumeReply, ReturnError
  <2> QED  BY <1>0, <2>1, ReturnView, IdleView DEF HasAccess
<1> QED
  BY <1>1, <1>2, <1>3, <1>4, <1>5, <1>6 DEF CreateStep, DeleteStep

(* No other goroutine is on the bucket of such a volume.                   *)
LEMMA CalmAccess ==
  ASSUME TypeOK, RunInv, NamedBySecret, Awaited, DedicatedAccess,
         NEW h \in Handlers, CreateStep(h) \/ DeleteStep(h), Shape(h), OwnOnly(h)
  PROVE  DedicatedAccess'
<1>0. Others(h) /\ spec' = spec /\ rpc[h].pc # "idle"
  BY ShapeFrame, StepFacts
<1> SUFFICES ASSUME NEW g \in Handlers, HasAccess(g)', g # h,
                    Dedicated(rpc[g].volumeID)'
             PROVE  rpc'[g].bucketName \in exists'
  BY AccessFresh DEF DedicatedAccess
<1>1. rpc'[g] = rpc[g]
  BY <1>0 DEF Others
<1>2. HasAccess(g) /\ Dedicated(rpc[g].volumeID)
  BY <1>0, <1>1 DEF HasAccess, Dedicated
<1>3. rpc[g].bucketName \in exists /\ rpc[g].bucketName \in Buckets
  BY <1>2 DEF DedicatedAccess, TypeOK
<1>4. rpc[g].pc # "idle" /\ rpc[g].volumeID \in Volumes
  BY <1>3, NamerAtWork
<1>5. rpc[g].bucketName # rpc[h].bucketName
  <2> SUFFICES ASSUME rpc[g].bucketName = rpc[h].bucketName PROVE FALSE
    OBVIOUS
  <2>1. rpc[h].volumeID = rpc[g].volumeID
    BY <1>2, <1>3, <1>4, BucketOwner
  <2> QED  BY <1>0, <1>4, <2>1, ApartVolumes
<1> QED  BY <1>1, <1>3, <1>5 DEF OwnOnly

(* No goroutine is on the bucket of a bound volume with a name of its own. *)
LEMMA CalmIntact ==
  ASSUME TypeOK, RunInv, NamedBySecret, Awaited, DedicatedAccess,
         "timeout" \notin seen, DedicatedBucketIntact,
         NEW h \in Handlers, CreateStep(h) \/ DeleteStep(h), Shape(h), OwnOnly(h)
  PROVE  DedicatedBucketIntact'
<1>0. /\ spec' = spec /\ rpc[h].pc # "idle" /\ rpc[h].volumeID \in Volumes
  BY ShapeFrame, StepFacts
<1> SUFFICES ASSUME NEW v \in Volumes, claim'[v] = "bound", Dedicated(v)'
             PROVE  pv'[v].bucketName \in exists'
  BY DEF DedicatedBucketIntact
<1>1. Dedicated(v)
  BY <1>0 DEF Dedicated
<1>2. CASE claim'[v] = claim[v] /\ pv'[v] = pv[v]
  <2>1. pv[v].bucketName \in exists /\ pv[v].bucketName \in Buckets
    BY <1>1, <1>2 DEF DedicatedBucketIntact, TypeOK
  <2>2. pv[v].bucketName # rpc[h].bucketName
    <3> SUFFICES ASSUME pv[v].bucketName = rpc[h].bucketName PROVE FALSE
      OBVIOUS
    <3>1. rpc[h].volumeID = v
      BY <1>1, <2>1, BucketOwner
    <3>2. call[v] = h /\ h # NoHandler
      BY <1>0, <3>1, ConstantsAssumption DEF Awaited
    <3>3. claim[v] # "bound"
      BY <3>2 DEF RunInv, PhasesAgree
    <3> QED  BY <1>2, <3>3
  <2> QED  BY <1>2, <2>1, <2>2 DEF OwnOnly
<1>3. CASE Binds(h) /\ v = rpc[h].volumeID
  <2>1. rpc[h].pc = "reply" /\ rpc[h].op = "create"
    BY <1>3 DEF Binds
  <2>2. rpc[h].bucketName \in exists
    BY <1>1, <1>3, <2>1 DEF DedicatedAccess, HasAccess
  <2>3. UNCHANGED exists
    BY <2>1, StepFacts DEF CreateVolumeReply, cosVars
  <2>4. pv'[v].bucketName = rpc[h].bucketName
    BY <1>3 DEF Binds, TypeOK
  <2> QED  BY <2>2, <2>3, <2>4
<1> QED  BY <1>2, <1>3, VolumeView

-----------------------------------------------------------------------------
(***************************************************************************)
(* Who is to delete a bucket.  After a step of goroutine h somebody new is *)
(* to delete bucket b, or whoever was before still is, and that was not h. *)
(***************************************************************************)
TakenOver(h, b) ==
  \/ b \in reported'
  \/ ToRollBack(h, b)'
  \/ \E v \in Volumes : ToDelete(v, b)'

LeftTo(h, b) ==
  /\ b \in exists /\ origin[b] = "driver"
  /\ b \notin reported
  /\ ~ToRollBack(h, b)
  /\ ToDelete(rpc[h].volumeID, b) => pv'[rpc[h].volumeID] = pv[rpc[h].volumeID]

(* The log of the driver keeps what it says of other buckets.              *)
LEMMA ReportsStay ==
  ASSUME NEW h \in Handlers, CreateStep(h) \/ DeleteStep(h), NEW b \in reported,
         b # rpc[h].bucketName
  PROVE  b \in reported'
BY DEF CreateStep, HeadBucketOk, HeadBucketErr, CreateBucketOk,
  CreateBucketErr, CheckAccessOk, CheckAccessErr, UpdateQuotaLimitOk,
  UpdateQuotaLimitErr, SetBucketVersioningOk, SetBucketVersioningErr,
  CreateVolumeReply, DeleteStep, BucketToDelete, BucketToDeleteNone,
  ListObjects, ListObjectsNoSuchBucket, ListObjectsErr, DeleteObject,
  DeleteObjectErr, DeleteObjectsDone, DeleteBucket, DeleteBucketErr,
  DeleteBucketFailed

(* A bucket goroutine h does not work on.                                  *)
LEMMA OtherBucket ==
  ASSUME TypeOK, RunInv, DeletesItsOwn, NEW h \in Handlers,
         CreateStep(h) \/ DeleteStep(h), Shape(h), OwnOnly(h),
         NEW b \in Buckets, b # rpc[h].bucketName,
         b \in exists', origin'[b] = "driver"
  PROVE  TakenOver(h, b) \/ LeftTo(h, b)
<1> DEFINE v == rpc[h].volumeID
<1>0. v \in Volumes
  BY StepFacts
<1>1. b \in exists /\ origin[b] = "driver" /\ ~ToRollBack(h, b)
  BY DEF OwnOnly, ToRollBack
<1>2. b \in reported => b \in reported'
  BY ReportsStay
<1>3. ASSUME ToDelete(v, b), pv'[v] # pv[v]
      PROVE  b \in reported'
  <2>1. pv[v] # NoPV /\ ~pv[v].userProvidedBucket /\ pv[v].bucketName = b
    BY <1>3, NoName DEF ToDelete
  <2>2. ~Binds(h)
    <3>1. Binds(h) => claim[v] = "pending"
      BY <1>0, RunBinds, LateKept
    <3> QED  BY <1>0, <2>1, <3>1 DEF RunInv, PhasesAgree
  <2>3. Reclaims(h)
    BY <1>0, <1>3, <2>2, VolumeView
  <2>4. rpc[h].pc = "bucketToDelete"
    BY <2>1, <2>3 DEF Reclaims, DeletesItsOwn
  <2>5. ~BucketToDelete(h)
    BY <1>3 DEF BucketToDelete, k8sVars
  <2>6. BucketToDeleteNone(h)
    BY <2>4, <2>5, StepFacts
  <2> QED  BY <2>1, <2>6 DEF BucketToDeleteNone
<1> QED  BY <1>1, <1>2, <1>3 DEF TakenOver, LeftTo

(* The bucket goroutine h works on, when h goes on ...                     *)
LEMMA OwnBucketGoesOn ==
  ASSUME TypeOK, RunInv, NEW h \in Handlers,
         NEW b \in Buckets, b = rpc[h].bucketName,
         b \in exists', origin'[b] = "driver",
         \/ HeadBucketOk(h) \/ HeadBucketErr(h)
         \/ UpdateQuotaLimitOk(h) \/ SetBucketVersioningOk(h)
         \/ BucketToDelete(h)
         \/ ListObjects(h) \/ DeleteObject(h) \/ DeleteObjectsDone(h)
  PROVE  TakenOver(h, b) \/ LeftTo(h, b)
<1>0. RpcOK /\ OnPath(rpc[h])
  BY TypeParts DEF RunInv, PathsAgree
<1>1. UNCHANGED <<exists, origin, reported, pv>>
  BY DEF HeadBucketOk, HeadBucketErr, UpdateQuotaLimitOk,
    SetBucketVersioningOk, BucketToDelete, ListObjects, DeleteObject,
    DeleteObjectsDone, cosVars, k8sVars
<1>2. ToRollBack(h, b) => ToRollBack(h, b)'
  <2>1. CASE HeadBucketOk(h) \/ HeadBucketErr(h) \/ UpdateQuotaLimitOk(h)
             \/ SetBucketVersioningOk(h) \/ DeleteObjectsDone(h)
    <3>1. PICK l : Goto(h, l) /\ rpc[h].pc # "access" /\ l # "lookup"
      BY <2>1 DEF HeadBucketOk, HeadBucketErr, UpdateQuotaLimitOk,
        SetBucketVersioningOk, DeleteObjectsDone, AfterAccess, AfterQuota
    <3> QED  BY <1>0, <3>1, GotoView DEF SameWork, ToRollBack
  <2>2. CASE ListObjects(h) \/ DeleteObject(h)
    <3>1. SameWork(h)
      BY <1>0, <2>2, ListView
    <3>2. rpc[h].op # "create"
      BY <1>0, <2>2 DEF ListObjects, DeleteObject, OnPath
    <3> QED  BY <3>1, <3>2 DEF SameWork, ToRollBack
  <2>3. CASE BucketToDelete(h)
    BY <1>0, <2>3 DEF BucketToDelete, OnPath, ToRollBack
  <2> QED  BY <2>1, <2>2, <2>3
<1> QED  BY <1>1, <1>2 DEF TakenOver, LeftTo

(* ... makes or finds the bucket, or fails to ...                          *)
LEMMA OwnBucketMade ==
  ASSUME TypeOK, RunInv, NEW h \in Handlers,
         NEW b \in Buckets, b = rpc[h].bucketName,
         \/ CreateBucketOk(h) \/ CreateBucketErr(h)
         \/ CheckAccessOk(h) \/ CheckAccessErr(h)
  PROVE  TakenOver(h, b)
<1>0. RpcOK /\ OnPath(rpc[h])
  BY TypeParts DEF RunInv, PathsAgree
<1>1. CASE CreateBucketErr(h) \/ CheckAccessErr(h)
  BY <1>1 DEF CreateBucketErr, CheckAccessErr, TakenOver
<1>2. CASE CreateBucketOk(h)
  <2>1. Goto(h, "access") /\ rpc[h].op = "create"
    BY <1>0, <1>2 DEF CreateBucketOk, OnPath
  <2> QED  BY <1>0, <2>1, GotoView DEF SameWork, ToRollBack, TakenOver
<1>3. CASE CheckAccessOk(h)
  <2>1. rpc[h].op = "create"
    BY <1>0, <1>3 DEF CheckAccessOk, OnPath
  <2>2. rpc'[h].pc # "lookup"
    BY <1>0, <1>3, CheckAccessView DEF AfterAccess, AfterQuota
  <2> QED
    BY <1>0, <1>3, <2>1, <2>2, CheckAccessView DEF SameWork, ToRollBack, TakenOver
<1> QED  BY <1>1, <1>2, <1>3

(* ... rolls it back, or leaves it to the one who made it ...              *)
LEMMA OwnBucketRolledBack ==
  ASSUME TypeOK, RunInv, NEW h \in Handlers,
         NEW b \in Buckets, b = rpc[h].bucketName,
         b \in exists', origin'[b] = "driver",
         UpdateQuotaLimitErr(h) \/ SetBucketVersioningErr(h)
  PROVE  TakenOver(h, b) \/ LeftTo(h, b)
<1>0. RpcOK /\ OnPath(rpc[h])
  BY TypeParts DEF RunInv, PathsAgree
<1>1. /\ RollBack(h) /\ UNCHANGED <<exists, origin, reported>>
      /\ rpc[h].pc \in {"quota", "versioning"}
  BY DEF UpdateQuotaLimitErr, SetBucketVersioningErr, cosVars
<1>2. CASE ~rpc[h].userProvidedBucket
  BY <1>0, <1>1, <1>2, RollBackView DEF ToRollBack, TakenOver
<1>3. CASE rpc[h].userProvidedBucket
  <2>1. UNCHANGED pv
    BY <1>1, <1>3 DEF RollBack, ReturnError, k8sVars
  <2>2. ~ToRollBack(h, b)
    BY <1>0, <1>1, <1>3 DEF ToRollBack, OnPath
  <2> QED  BY <1>1, <2>1, <2>2 DEF TakenOver, LeftTo
<1> QED  BY <1>2, <1>3

(* ... or answers.                                                         *)
LEMMA OwnBucketAnswered ==
  ASSUME TypeOK, RunInv, Awaited, NEW h \in Handlers,
         rpc[h].volumeID \in Volumes,
         NEW b \in Buckets, b = rpc[h].bucketName,
         b \in exists', origin'[b] = "driver",
         \/ CreateVolumeReply(h) \/ BucketToDeleteNone(h)
         \/ ListObjectsNoSuchBucket(h) \/ ListObjectsErr(h)
         \/ DeleteObjectErr(h) \/ DeleteBucket(h) \/ DeleteBucketErr(h)
  PROVE  TakenOver(h, b) \/ LeftTo(h, b)
<1> DEFINE v == rpc[h].volumeID
<1>0. OnPath(rpc[h])
  BY DEF RunInv, PathsAgree
<1>1. CASE CreateVolumeReply(h)
  <2>1. /\ UNCHANGED <<exists, origin, reported>>
        /\ rpc[h].pc = "reply" /\ rpc[h].op = "create"
    BY <1>0, <1>1 DEF CreateVolumeReply, OnPath, cosVars
  <2>2. call[v] = h
    BY <2>1 DEF Awaited
  <2>3. pv' = [pv EXCEPT ![v] =
                 [bucketName |-> rpc[h].bucketName,
                  userProvidedBucket |-> rpc[h].userProvidedBucket]]
    BY <1>1, <2>2 DEF CreateVolumeReply
  <2>4. /\ pv'[v].bucketName = b
        /\ pv'[v].userProvidedBucket = rpc[h].userProvidedBucket
    BY <2>3 DEF TypeOK
  <2>5. CASE ~rpc[h].userProvidedBucket
    <3>1. PICK w \in Volumes : w = v
      OBVIOUS
    <3>2. ToDelete(w, b)'
      BY <2>4, <2>5, <3>1 DEF ToDelete
    <3> QED  BY <3>2 DEF TakenOver
  <2>6. CASE rpc[h].userProvidedBucket
    <3>1. ~ToRollBack(h, b)
      BY <2>1, <2>6 DEF ToRollBack
    <3>2. ~ToDelete(v, b)
      <4>1. claim[v] = "pending"
        BY <2>1, <2>2, ConstantsAssumption DEF RunInv, PhasesAgree
      <4>2. pv[v] = NoPV
        BY <4>1 DEF RunInv, PhasesAgree
      <4> QED  BY <4>2, NoName DEF ToDelete
    <3> QED  BY <2>1, <3>1, <3>2 DEF TakenOver, LeftTo
  <2> QED  BY <2>5, <2>6
<1>2. CASE BucketToDeleteNone(h)
  <2>1. /\ UNCHANGED <<exists, origin>> /\ reported \subseteq reported'
        /\ ~ToRollBack(h, b)
        /\ ToDelete(v, b) => b \in reported'
    BY <1>0, <1>2, NoName
    DEF BucketToDeleteNone, OnPath, cosVars, ToRollBack, ToDelete
  <2> QED  BY <2>1 DEF TakenOver, LeftTo
<1>3. CASE ListObjectsErr(h) \/ DeleteObjectErr(h) \/ DeleteBucketErr(h)
  BY <1>3
  DEF ListObjectsErr, DeleteObjectErr, DeleteBucketErr, DeleteBucketFailed,
      TakenOver
<1>4. CASE ListObjectsNoSuchBucket(h) \/ DeleteBucket(h)
  <2>1. b \notin exists'
    BY <1>4 DEF ListObjectsNoSuchBucket, DeleteBucket, cosVars
  <2> QED  BY <2>1
<1> QED  BY <1>1, <1>2, <1>3, <1>4

(* Every bucket of the driver stays with somebody.                         *)
LEMMA CalmAttended ==
  ASSUME TypeOK, RunInv, Awaited, DeletesItsOwn, Attended, NEW h \in Handlers,
         CreateStep(h) \/ DeleteStep(h), Shape(h), OwnOnly(h)
  PROVE  Attended'
<1> SUFFICES ASSUME NEW b \in Buckets, b \in exists', origin'[b] = "driver"
             PROVE  \/ b \in reported'
                    \/ \E v \in Volumes : ToDelete(v, b)'
                    \/ \E g \in Handlers : ToRollBack(g, b)'
  BY DEF Attended
<1>0. rpc[h].volumeID \in Volumes /\ Others(h)
  BY StepFacts, ShapeFrame
<1>1. TakenOver(h, b) \/ LeftTo(h, b)
  <2>1. CASE b # rpc[h].bucketName
    BY <2>1, OtherBucket
  <2>2. CASE b = rpc[h].bucketName
    BY <1>0, <2>2, OwnBucketGoesOn, OwnBucketMade, OwnBucketRolledBack,
       OwnBucketAnswered
    DEF CreateStep, DeleteStep
  <2> QED  BY <2>1, <2>2
<1>2. CASE TakenOver(h, b)
  BY <1>2 DEF TakenOver
<1>3. CASE LeftTo(h, b)
  <2>1. \/ \E v \in Volumes : ToDelete(v, b)
        \/ \E g \in Handlers : ToRollBack(g, b)
    BY <1>3 DEF LeftTo, Attended
  <2>2. ASSUME NEW g \in Handlers, ToRollBack(g, b)
        PROVE  ToRollBack(g, b)'
    <3>1. rpc'[g] = rpc[g]
      BY <1>0, <1>3, <2>2 DEF LeftTo, Others
    <3> QED  BY <2>2, <3>1 DEF ToRollBack
  <2>3. ASSUME NEW v \in Volumes, ToDelete(v, b)
        PROVE  ToDelete(v, b)'
    <3>1. pv'[v] = pv[v]
      BY <1>3, <2>3, VolumeView DEF LeftTo
    <3> QED  BY <2>3, <3>1 DEF ToDelete
  <2> QED  BY <2>1, <2>2, <2>3
<1> QED  BY <1>1, <1>2, <1>3

(* A step of a goroutine keeps the invariant.                              *)
LEMMA CalmHandler ==
  ASSUME TypeOK, TempInv, CalmInv, NEW h \in Handlers,
         CreateStep(h) \/ DeleteStep(h)
  PROVE  CalmInv'
<1>1. RunInv /\ Shape(h) /\ OwnOnly(h)
  BY RunHandler, HandlerEffect DEF TempInv
<1>2. /\ rpc[h].pc # "idle" /\ rpc[h].volumeID \in Volumes
      /\ seen \subseteq seen'
  BY <1>1, StepFacts
<1>3. NamedBySecret /\ NamedBySecret'
  BY <1>1, <1>2, CalmNames DEF CalmInv
<1>4. CASE "timeout" \in seen'
  BY <1>3, <1>4 DEF CalmInv, DedicatedBucketIntact
<1>5. CASE "timeout" \notin seen'
  <2>1. /\ "timeout" \notin seen
        /\ Awaited /\ DeletesItsOwn /\ DedicatedAccess /\ DedicatedBucketIntact
        /\ "crash" \notin seen' => Attended
    BY <1>2, <1>5 DEF CalmInv
  <2>2. Awaited' /\ DeletesItsOwn'
    BY <1>1, <1>2, <2>1, CalmAwaited, CalmDeletes
  <2>3. DedicatedAccess' /\ DedicatedBucketIntact'
    BY <1>1, <1>3, <2>1, CalmAccess, CalmIntact
  <2>4. "crash" \notin seen' => Attended'
    BY <1>1, <2>1, CalmAttended
  <2> QED  BY <1>3, <2>2, <2>3, <2>4 DEF CalmInv
<1> QED  BY <1>4, <1>5

-----------------------------------------------------------------------------
(***************************************************************************)
(* The other steps.                                                        *)
(***************************************************************************)

(* A handler starts for a volume nobody works on.                          *)
Starts(v, h) ==
  /\ call[v] = NoHandler /\ rpc[h] = Idle /\ Others(h)
  /\ call' = [call EXCEPT ![v] = h]
  /\ rpc'[h].volumeID = v
  /\ rpc'[h].bucketName = NoBucket
  /\ \/ rpc'[h].op = "create" /\ rpc'[h].pc = "lookup"
     \/ rpc'[h].op = "delete" /\ rpc'[h].pc = "bucketToDelete"
  /\ UNCHANGED <<exists, origin, claim, spec, pv, seen, reported>>

LEMMA CreateStarts ==
  ASSUME TypeOK, NEW v \in Volumes, NEW h \in Handlers, CreateVolume(v, h)
  PROVE  Starts(v, h)
<1>0. RpcOK
  BY TypeParts
<1>1. /\ Others(h) /\ rpc'[h].op = "create" /\ rpc'[h].volumeID = v
      /\ rpc'[h].pc = "lookup" /\ rpc'[h].bucketName = NoBucket
  BY <1>0, CreateVolumeView
<1>2. rpc[h] = Idle
  BY <1>0 DEF CreateVolume, RpcOK, CallsName
<1> QED
  BY <1>1, <1>2 DEF Starts, CreateVolume, cosVars, k8sVars, faultVars

LEMMA DeleteStarts ==
  ASSUME TypeOK, NEW v \in Volumes, NEW h \in Handlers, DeleteVolume(v, h)
  PROVE  Starts(v, h)
<1>0. RpcOK
  BY TypeParts
<1>1. /\ Others(h) /\ rpc'[h].op = "delete" /\ rpc'[h].volumeID = v
      /\ rpc'[h].pc = "bucketToDelete" /\ rpc'[h].bucketName = NoBucket
  BY <1>0, DeleteVolumeView
<1>2. rpc[h] = Idle
  BY <1>0 DEF DeleteVolume, RpcOK, CallsName
<1> QED
  BY <1>0, <1>1, <1>2 DEF Starts, DeleteVolume, cosVars, k8sVars, faultVars

LEMMA CalmStarts ==
  ASSUME TypeOK, CalmInv, NEW v \in Volumes, NEW h \in Handlers, Starts(v, h)
  PROVE  CalmInv'
<1>0. /\ \A g \in Handlers \ {h} : rpc'[g] = rpc[g]
      /\ rpc'[h].volumeID = v /\ rpc[h].op = "none" /\ rpc[h].pc = "idle"
      /\ UNCHANGED <<exists, origin, claim, spec, pv, seen, reported>>
      /\ call'[v] = h /\ \A w \in Volumes \ {v} : call'[w] = call[w]
      /\ call[v] = NoHandler /\ NoHandler \notin Handlers
      /\ NoBucket \notin UserBuckets
  BY IdleView, ConstantsAssumption DEF Starts, Others, TypeOK, Buckets
<1>1. NamedBySecret'
  BY <1>0 DEF CalmInv, NamedBySecret, Starts
<1>2. DedicatedBucketIntact'
  BY <1>0 DEF CalmInv, DedicatedBucketIntact, Dedicated
<1>3. ASSUME "timeout" \notin seen
      PROVE  /\ Awaited' /\ DeletesItsOwn' /\ DedicatedAccess'
             /\ "crash" \notin seen => Attended'
  <2>0. /\ Awaited /\ DeletesItsOwn /\ DedicatedAccess
        /\ "crash" \notin seen => Attended
    BY <1>3 DEF CalmInv
  <2>1. Awaited'
    <3> SUFFICES ASSUME NEW g \in Handlers \ {h}, rpc[g].pc # "idle"
                 PROVE  call'[rpc[g].volumeID] = g
      BY <1>0 DEF Awaited
    <3>1. call[rpc[g].volumeID] = g /\ rpc[g].volumeID \in Volumes
      BY <2>0 DEF Awaited, TypeOK, CallsName
    <3> QED  BY <1>0, <3>1
  <2>2. DeletesItsOwn'
    BY <1>0, <2>0 DEF DeletesItsOwn, Starts
  <2>3. DedicatedAccess'
    <3> SUFFICES ASSUME NEW g \in Handlers, HasAccess(g)',
                        Dedicated(rpc[g].volumeID)'
                 PROVE  rpc'[g].bucketName \in exists'
      BY DEF DedicatedAccess
    <3>1. g # h
      BY DEF HasAccess, Starts
    <3>2. rpc'[g] = rpc[g]
      BY <1>0, <3>1
    <3>3. HasAccess(g) /\ Dedicated(rpc[g].volumeID)
      BY <1>0, <3>2 DEF HasAccess, Dedicated
    <3> QED  BY <1>0, <2>0, <3>2, <3>3 DEF DedicatedAccess
  <2>4. Attended => Attended'
    <3>1. \A g \in Handlers, b \in Buckets : ToRollBack(g, b) => ToRollBack(g, b)'
      BY <1>0 DEF ToRollBack
    <3>2. \A w \in Volumes, b \in Buckets : ToDelete(w, b) => ToDelete(w, b)'
      BY <1>0 DEF ToDelete
    <3> QED  BY <1>0, <3>1, <3>2 DEF Attended
  <2> QED  BY <2>0, <2>1, <2>2, <2>3, <2>4
<1> QED  BY <1>0, <1>1, <1>2, <1>3 DEF CalmInv

(* A goroutine in its lookups is to roll nothing back.                     *)
LEMMA LookupKeepsAttended ==
  ASSUME RunInv, NEW h \in Handlers, Others(h), rpc[h].pc = "lookup",
         UNCHANGED <<exists, origin, pv, reported>>, Attended
  PROVE  Attended'
<1>1. \A b \in Buckets : ~ToRollBack(h, b)
  BY DEF ToRollBack, RunInv, PathsAgree, OnPath
<1>2. \A g \in Handlers, b \in Buckets : ToRollBack(g, b) => ToRollBack(g, b)'
  BY <1>1 DEF ToRollBack, Others
<1>3. \A w \in Volumes, b \in Buckets : ToDelete(w, b) => ToDelete(w, b)'
  BY DEF ToDelete
<1> QED  BY <1>2, <1>3 DEF Attended

(* A CreateVolume that fails in its lookups ends without a trace.          *)
LEMMA LookupQuits ==
  ASSUME TypeOK, NEW h \in Handlers, GetSecretErr(h)
  PROVE  Quits(h) /\ rpc[h].volumeID \in Volumes
<1>1. RpcOK
  BY TypeParts
<1>2. rpc[h].volumeID \in Volumes
  BY <1>1 DEF GetSecretErr, RpcOK, CallsName
<1>3. UNCHANGED <<claim, spec, pv, clock>>
  BY DEF GetSecretErr, ReturnError, k8sVars
<1> QED
  BY <1>1, <1>2, <1>3, ReturnView DEF GetSecretErr, ReturnError, Quits, Ends

(* CreateVolume chooses its bucket; nothing is done to it yet.             *)
LEMMA CalmNaming ==
  ASSUME TypeOK, RunInv, CalmInv, NEW h \in Handlers, GetSecretOk(h)
  PROVE  CalmInv'
<1>0. RpcOK /\ clock \in 0..MaxClock
  BY TypeParts
<1>00. PICK v \in Volumes : v = rpc[h].volumeID
  BY <1>0 DEF GetSecretOk, RpcOK, CallsName
<1>1. /\ Others(h) /\ rpc'[h].op = "create" /\ rpc'[h].volumeID = v
      /\ \/ rpc'[h].pc = "head" /\ rpc'[h].bucketName = spec[v].bucketName
         \/ /\ rpc'[h].pc = "create"
            /\ rpc'[h].bucketName = getTempBucketName(v, clock)
  BY <1>0, <1>00, GetSecretView
<1>2. /\ UNCHANGED <<exists, origin, claim, spec, pv, call, seen, reported>>
      /\ rpc[h].pc = "lookup"
  BY DEF GetSecretOk, cosVars, k8sVars
<1>3. getTempBucketName(v, clock) \notin UserBuckets
  BY <1>0, TempBucketShape, UserNotTemp
<1>4. NamedBySecret'
  BY <1>1, <1>2, <1>3 DEF CalmInv, NamedBySecret, Others
<1>5. DedicatedBucketIntact'
  BY <1>2 DEF CalmInv, DedicatedBucketIntact, Dedicated
<1>6. Awaited => Awaited'
  BY <1>00, <1>1, <1>2 DEF Awaited, Others
<1>7. DeletesItsOwn => DeletesItsOwn'
  BY <1>1, <1>2 DEF DeletesItsOwn, Others
<1>8. DedicatedAccess => DedicatedAccess'
  <2> SUFFICES ASSUME DedicatedAccess, NEW g \in Handlers, HasAccess(g)',
                      Dedicated(rpc[g].volumeID)'
               PROVE  rpc'[g].bucketName \in exists'
    BY DEF DedicatedAccess
  <2>1. g # h /\ rpc'[g] = rpc[g]
    BY <1>1 DEF HasAccess, Others
  <2>2. HasAccess(g) /\ Dedicated(rpc[g].volumeID)
    BY <1>2, <2>1 DEF HasAccess, Dedicated
  <2> QED  BY <1>2, <2>1, <2>2 DEF DedicatedAccess
<1>9. Attended => Attended'
  BY <1>1, <1>2, LookupKeepsAttended
<1> QED  BY <1>2, <1>4, <1>5, <1>6, <1>7, <1>8, <1>9 DEF CalmInv

(* A lookup of CreateVolume fails: nothing is done and nothing left.       *)
LEMMA CalmLookupErr ==
  ASSUME TypeOK, TempInv, CalmInv, NEW h \in Handlers, GetSecretErr(h)
  PROVE  CalmInv'
<1>1. /\ Quits(h) /\ rpc[h].pc = "lookup" /\ rpc[h].volumeID \in Volumes
      /\ UNCHANGED <<exists, origin, reported>> /\ seen \subseteq seen'
  <2>1. Quits(h) /\ rpc[h].volumeID \in Volumes
    BY LookupQuits
  <2> QED  BY <2>1 DEF GetSecretErr, NoFault, Fault, faultVars, cosVars
<1>2. /\ Shape(h) /\ RunInv /\ Others(h) /\ spec' = spec
      /\ rpc'[h] = Idle /\ UNCHANGED <<claim, pv>>
  BY <1>1, ShapeFrame DEF Shape, TempInv, Quits, Ends, k8sVars
<1>3. NamedBySecret'
  BY <1>1, <1>2, CalmNames DEF CalmInv
<1>4. DedicatedBucketIntact'
  BY <1>1, <1>2 DEF CalmInv, DedicatedBucketIntact, Dedicated
<1>5. Awaited => Awaited'
  BY <1>1, <1>2, CalmAwaited
<1>6. DeletesItsOwn => DeletesItsOwn'
  BY <1>2, IdleView DEF DeletesItsOwn, Others
<1>7. DedicatedAccess => DedicatedAccess'
  <2> SUFFICES ASSUME DedicatedAccess, NEW g \in Handlers, HasAccess(g)',
                      Dedicated(rpc[g].volumeID)'
               PROVE  rpc'[g].bucketName \in exists'
    BY DEF DedicatedAccess
  <2>1. g # h /\ rpc'[g] = rpc[g]
    BY <1>2, IdleView DEF HasAccess, Others
  <2>2. HasAccess(g) /\ Dedicated(rpc[g].volumeID)
    BY <1>2, <2>1 DEF HasAccess, Dedicated
  <2> QED  BY <1>1, <2>1, <2>2 DEF DedicatedAccess
<1>8. Attended => Attended'
  BY <1>1, <1>2, LookupKeepsAttended
<1> QED  BY <1>1, <1>3, <1>4, <1>5, <1>6, <1>7, <1>8 DEF CalmInv

(* Steps that change neither the goroutines nor the buckets there are.     *)
LEMMA CalmSame ==
  ASSUME CalmInv, UNCHANGED <<exists, origin, spec, pv, call, rpc, reported>>,
         seen \subseteq seen',
         \A v \in Volumes : claim'[v] = "bound" => claim[v] = "bound"
  PROVE  CalmInv'
<1>1. NamedBySecret'
  BY DEF CalmInv, NamedBySecret
<1>2. DedicatedBucketIntact'
  BY DEF CalmInv, DedicatedBucketIntact, Dedicated
<1>3. /\ Awaited => Awaited'
      /\ DeletesItsOwn => DeletesItsOwn'
      /\ DedicatedAccess => DedicatedAccess'
      /\ Attended => Attended'
  <2>1. Awaited => Awaited'
    BY DEF Awaited
  <2>2. DeletesItsOwn => DeletesItsOwn'
    BY DEF DeletesItsOwn
  <2>3. DedicatedAccess => DedicatedAccess'
    BY DEF DedicatedAccess, HasAccess, Dedicated
  <2>4. Attended => Attended'
    BY DEF Attended, ToDelete, ToRollBack
  <2> QED  BY <2>1, <2>2, <2>3, <2>4
<1> QED  BY <1>1, <1>2, <1>3 DEF CalmInv

(* The new process has no goroutine: nothing is on its way.                *)
LEMMA CalmCrash ==
  ASSUME CalmInv, Crash
  PROVE  CalmInv'
<1>1. /\ \A h \in Handlers : rpc'[h] = Idle
      /\ UNCHANGED <<exists, claim, spec, pv>>
      /\ seen \subseteq seen' /\ "crash" \in seen'
  BY DEF Crash, Fault, cosVars, k8sVars
<1>2. NamedBySecret'
  BY <1>1, NoName DEF CalmInv, NamedBySecret
<1>3. DedicatedBucketIntact'
  BY <1>1 DEF CalmInv, DedicatedBucketIntact, Dedicated
<1>4. Awaited' /\ DeletesItsOwn' /\ DedicatedAccess'
  BY <1>1, IdleView DEF Awaited, DeletesItsOwn, DedicatedAccess, HasAccess
<1> QED  BY <1>1, <1>2, <1>3, <1>4 DEF CalmInv

(* The invariant is inductive, given types and TempInv.                    *)
LEMMA CalmStep == TypeOK /\ TempInv /\ CalmInv /\ [Next]_vars => CalmInv'
<1> SUFFICES ASSUME TypeOK, TempInv, CalmInv, [Next]_vars PROVE CalmInv'
  OBVIOUS
<1>1. ASSUME NEW h \in Handlers, CreateStep(h) \/ DeleteStep(h) PROVE CalmInv'
  BY <1>1, CalmHandler
<1>2. ASSUME NEW v \in Volumes, NEW h \in Handlers,
             CreateVolume(v, h) \/ DeleteVolume(v, h)
      PROVE  CalmInv'
  BY <1>2, CreateStarts, DeleteStarts, CalmStarts
<1>3. ASSUME NEW v \in Volumes, CreatePVC(v) \/ AbandonPVC(v) \/ DeletePVC(v)
      PROVE  CalmInv'
  <2>1. \A w \in Volumes : claim'[w] = "bound" => claim[w] = "bound"
    BY <1>3 DEF CreatePVC, AbandonPVC, DeletePVC, TypeOK
  <2> QED
    BY <1>3, <2>1, CalmSame
    DEF CreatePVC, AbandonPVC, DeletePVC, cosVars, faultVars
<1>4. ASSUME NEW v \in Volumes,
             DeleteVolumeReject(v) \/ PutObject(v)
      PROVE  CalmInv'
  <2>1. /\ UNCHANGED <<exists, origin, claim, spec, pv, call, rpc, reported>>
        /\ seen \subseteq seen'
    BY <1>4
    DEF DeleteVolumeReject, PutObject, NoFault, Fault,
        cosVars, k8sVars, faultVars
  <2> QED  BY <2>1, CalmSame
<1>5. ASSUME NEW v \in Volumes, Timeout(v) PROVE CalmInv'
  <2>1. "timeout" \in seen' /\ UNCHANGED <<spec, pv, rpc>>
    BY <1>5 DEF Timeout, Fault, k8sVars
  <2> QED  BY <2>1 DEF CalmInv, NamedBySecret, DedicatedBucketIntact
<1>6. CASE Crash
  BY <1>6, CalmCrash
<1>7. CASE Tick \/ UNCHANGED vars
  BY <1>7, CalmSame DEF Tick, vars, cosVars, k8sVars, faultVars
<1>8. ASSUME NEW h \in Handlers, LookupStep(h) PROVE CalmInv'
  <2>1. RunInv
    BY DEF TempInv
  <2> QED  BY <1>8, <2>1, CalmNaming, CalmLookupErr DEF LookupStep
<1> QED
  BY <1>1, <1>2, <1>3, <1>4, <1>5, <1>6, <1>7, <1>8
  DEF Next, Provisioner, Environment

LEMMA InitCalm == Init => CalmInv
<1> SUFFICES ASSUME Init PROVE CalmInv
  OBVIOUS
<1>1. /\ \A h \in Handlers : rpc[h] = Idle
      /\ \A v \in Volumes : pv[v] = NoPV /\ claim[v] = "none"
      /\ \A b \in Buckets : origin[b] # "driver"
  BY DEF Init
<1>2. NamedBySecret /\ DedicatedBucketIntact
  BY <1>1, NoName DEF NamedBySecret, DedicatedBucketIntact
<1>3. Awaited /\ DeletesItsOwn /\ DedicatedAccess /\ Attended
  BY <1>1, IdleView
  DEF Awaited, DeletesItsOwn, DedicatedAccess, HasAccess, Attended
<1> QED  BY <1>2, <1>3 DEF CalmInv

LEMMA CalmAlways == Spec => [](TypeOK /\ TempInv /\ CalmInv)
<1>1. Init => TypeOK /\ TempInv /\ CalmInv
  BY InitType, InitTemp, InitCalm
<1>2. TypeOK /\ TempInv /\ CalmInv /\ [Next]_vars
        => (TypeOK /\ TempInv /\ CalmInv)'
  BY TypeStep, TempStep, CalmStep
<1> QED  BY <1>1, <1>2, PTL DEF Spec

(***************************************************************************)
(* NoSilentOrphan: for any number of volumes that share bucket names, of   *)
(* goroutines and of failed COS calls, a bucket the driver made that no PV *)
(* and no goroutine names any more is in the log, unless a caller gave up  *)
(* or the process died.                                                    *)
(***************************************************************************)
THEOREM NoBucketLeaked == Spec => []NoSilentOrphan
<1>1. TypeOK /\ TempInv /\ CalmInv => NoSilentOrphan
  <2> SUFFICES ASSUME TypeOK, TempInv, CalmInv, NEW b \in Buckets, Orphan(b),
                      "timeout" \notin seen, "crash" \notin seen
               PROVE  b \in reported
    BY DEF NoSilentOrphan
  <2>1. ASSUME NEW v \in Volumes, ToDelete(v, b) PROVE FALSE
    <3>1. pv[v] # NoPV /\ pv[v].bucketName = b
      BY <2>1, NoName DEF ToDelete
    <3>2. Holds(v, b)
      BY <3>1 DEF Holds, TempInv, RunInv, PhasesAgree
    <3> QED  BY <3>2 DEF Orphan
  <2>2. ASSUME NEW h \in Handlers, ToRollBack(h, b) PROVE FALSE
    BY <2>2 DEF ToRollBack, Orphan
  <2> QED  BY <2>1, <2>2 DEF CalmInv, Attended, Orphan
<1> QED  BY <1>1, CalmAlways, PTL

(***************************************************************************)
(* DedicatedBucketIntact: a bound volume that shares its bucket name with  *)
(* no other claim has its bucket, whatever calls fail and however often    *)
(* the controller restarts, as long as no caller gave up on a call.        *)
(***************************************************************************)
THEOREM DedicatedBucketStays == Spec => []DedicatedBucketIntact
<1>1. CalmInv => DedicatedBucketIntact
  BY DEF CalmInv
<1> QED  BY <1>1, CalmAlways, PTL
=============================================================================
