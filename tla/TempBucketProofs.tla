-------------------------- MODULE TempBucketProofs --------------------------
(***************************************************************************)
(* Volumes on generated buckets: TempInv of ControllerServer is inductive, *)
(* and the controller implements VolumeStore, for every set of volumes,    *)
(* buckets, handlers and claims and every bound on the clock and the       *)
(* faults.                                                                 *)
(*                                                                         *)
(* The steps of a goroutine are sorted by what they do to the goroutine    *)
(* and to Kubernetes (its shape) and by what they do to COS; the invariant *)
(* is then shown for each shape once.                                      *)
(***************************************************************************)
EXTENDS ControllerServerProofs

(***************************************************************************)
(* The shape of a step of goroutine h.                                     *)
(***************************************************************************)
SameVolume(h) ==
  /\ Others(h) /\ UNCHANGED <<k8sVars, call, clock>>
  /\ rpc'[h].volumeID = rpc[h].volumeID

(* It goes on with its bucket, perhaps to roll it back.                    *)
GoesOn(h) ==
  /\ SameVolume(h)
  /\ rpc'[h].bucketName = rpc[h].bucketName
  /\ \/ rpc'[h].op = rpc[h].op
     \/ rpc[h].op = "create" /\ rpc'[h].op = "rollback"

(* It reads the bucket name from the PV.                                   *)
Learns(h) ==
  /\ SameVolume(h)
  /\ rpc[h].op = "delete" /\ rpc'[h].op = "delete"
  /\ rpc'[h].bucketName = pv[rpc[h].volumeID].bucketName

(* It ends without an effect on the volume ...                             *)
Ends(h) ==
  /\ Others(h) /\ rpc'[h] = Idle /\ UNCHANGED <<spec, clock>>
  /\ \A v \in Volumes : call'[v] = IF call[v] = h THEN NoHandler ELSE call[v]

Quits(h) == Ends(h) /\ UNCHANGED <<claim, pv>>

(* ... or with the answer of DeleteVolume ...                              *)
Reclaims(h) ==
  LET v == rpc[h].volumeID IN
  /\ Ends(h) /\ rpc[h].op = "delete" /\ call[v] = h
  /\ pv' = [pv EXCEPT ![v] = NoPV]
  /\ claim' = [claim EXCEPT ![v] = "gone"]

(* ... or of CreateVolume.                                                 *)
Binds(h) ==
  LET v == rpc[h].volumeID IN
  /\ Ends(h) /\ rpc[h].op = "create" /\ rpc[h].pc = "reply" /\ call[v] = h
  /\ pv' = [pv EXCEPT ![v] =
              [bucketName |-> rpc[h].bucketName,
               userProvidedBucket |-> rpc[h].userProvidedBucket]]
  /\ claim' = [claim EXCEPT ![v] = "bound"]

Shape(h) == GoesOn(h) \/ Learns(h) \/ Quits(h) \/ Reclaims(h) \/ Binds(h)

(* A goroutine past its lookups chooses no name.                           *)
LEMMA LateKept ==
  ASSUME NEW h \in Handlers, CreateStep(h) \/ DeleteStep(h)
  PROVE  late' = late /\ rpc[h].pc \notin {"idle", "lookup"}
BY DEF CreateStep, HeadBucketOk, HeadBucketErr, CreateBucketOk,
       CreateBucketErr, CheckAccessOk, CheckAccessErr, UpdateQuotaLimitOk,
       UpdateQuotaLimitErr, SetBucketVersioningOk, SetBucketVersioningErr,
       CreateVolumeReply, DeleteStep, BucketToDelete, BucketToDeleteNone,
       ListObjects, ListObjectsNoSuchBucket, ListObjectsErr, DeleteObject,
       DeleteObjectErr, DeleteObjectsDone, DeleteBucket, DeleteBucketErr,
       NoFault, Fault, faultVars

(* The end of COSSession.DeleteBucket.                                     *)
LEMMA DoneShape ==
  ASSUME RpcOK, NEW h \in Handlers, rpc[h].volumeID \in Volumes,
         DeleteBucketDone(h), UNCHANGED clock
  PROVE  Quits(h) \/ Reclaims(h)
<1>1. CASE rpc[h].op = "delete"
  <2>1. DeleteVolumeReply(h)
    BY <1>1 DEF DeleteBucketDone
  <2>2. Ends(h)
    BY <2>1, ReturnView DEF DeleteVolumeReply, Ends
  <2> QED  BY <1>1, <2>1, <2>2 DEF DeleteVolumeReply, Quits, Reclaims
<1>2. CASE rpc[h].op # "delete"
  BY <1>2, ReturnView DEF DeleteBucketDone, ReturnError, k8sVars, Ends, Quits
<1> QED  BY <1>1, <1>2

(* A failed quota or versioning call.                                      *)
LEMMA RollBackShape ==
  ASSUME RpcOK, NEW h \in Handlers, rpc[h].volumeID \in Volumes,
         rpc[h].op = "create", RollBack(h), UNCHANGED clock
  PROVE  /\ GoesOn(h) \/ Quits(h)
         /\ OnPath(rpc'[h])
         /\ rpc'[h].op # "create"
<1>1. CASE rpc[h].userProvidedBucket
  BY <1>1, ReturnView, IdleView
  DEF RollBack, ReturnError, k8sVars, Ends, Quits, OnPath
<1>2. CASE ~rpc[h].userProvidedBucket
  BY <1>2, RollBackView DEF GoesOn, SameVolume, OnPath
<1> QED  BY <1>1, <1>2

(* Every step of a goroutine has a shape, and leaves it on its path.       *)
LEMMA HandlerShape ==
  ASSUME TypeOK, PathsAgree, NEW h \in Handlers, CreateStep(h) \/ DeleteStep(h)
  PROVE  Shape(h) /\ PathsAgree'
<1>0. RpcOK /\ OnPath(rpc[h])
  BY TypeParts DEF PathsAgree
<1>1. rpc[h].pc # "idle" => rpc[h].volumeID \in Volumes
  BY <1>0 DEF RpcOK, CallsName
<1>2. rpc'[h] = Idle => OnPath(rpc'[h])
  BY IdleView DEF OnPath
<1> SUFFICES Shape(h) /\ OnPath(rpc'[h])
  <2>1. Shape(h) => Others(h)
    BY DEF Shape, GoesOn, Learns, SameVolume, Quits, Reclaims, Binds, Ends
  <2> QED  BY <2>1 DEF PathsAgree, Others
<1>3. CASE \/ HeadBucketOk(h) \/ HeadBucketErr(h) \/ CreateBucketOk(h)
           \/ UpdateQuotaLimitOk(h) \/ SetBucketVersioningOk(h)
           \/ DeleteObjectsDone(h)
  <2>1. PICK l : /\ Goto(h, l) /\ UNCHANGED <<k8sVars, call, clock>>
                 /\ \/ rpc[h].op = "create" /\ l \in {"create", "access", "quota",
                                                     "versioning", "reply"}
                    \/ rpc[h].op \in {"rollback", "delete"} /\ l = "bucket"
    BY <1>0, <1>3, AfterType
    DEF HeadBucketOk, HeadBucketErr, CreateBucketOk, UpdateQuotaLimitOk,
        SetBucketVersioningOk, DeleteObjectsDone, OnPath
  <2>2. GoesOn(h) /\ rpc'[h].pc = l /\ rpc'[h].op = rpc[h].op
    BY <1>0, <2>1, GotoView DEF GoesOn, SameVolume, SameWork
  <2> QED  BY <2>1, <2>2 DEF Shape, OnPath
<1>4. CASE CheckAccessOk(h)
  BY <1>0, <1>4, CheckAccessView, AfterType
  DEF CheckAccessOk, Shape, GoesOn, SameVolume, SameWork, OnPath
<1>5. CASE ListObjects(h) \/ DeleteObject(h)
  <2>1. Others(h) /\ SameWork(h) /\ rpc'[h].pc = "objects"
    BY <1>0, <1>5, ListView
  <2>2. UNCHANGED <<k8sVars, call, clock>> /\ rpc[h].op \in {"rollback", "delete"}
    BY <1>0, <1>5 DEF ListObjects, DeleteObject, OnPath
  <2> QED  BY <2>1, <2>2 DEF Shape, GoesOn, SameVolume, SameWork, OnPath
<1>6. CASE UpdateQuotaLimitErr(h) \/ SetBucketVersioningErr(h)
  BY <1>0, <1>1, <1>6, RollBackShape
  DEF UpdateQuotaLimitErr, SetBucketVersioningErr, Shape, OnPath
<1>7. CASE CreateBucketErr(h) \/ CheckAccessErr(h)
  <2>1. ReturnError(h) /\ UNCHANGED clock /\ rpc[h].volumeID \in Volumes
    BY <1>1, <1>7 DEF CreateBucketErr, CheckAccessErr
  <2> QED
    BY <1>0, <1>2, <2>1, ReturnView DEF ReturnError, k8sVars, Ends, Quits, Shape
<1>8. CASE CreateVolumeReply(h)
  <2>1. Ends(h) /\ rpc[h].op = "create"
    BY <1>0, <1>1, <1>8, ReturnView DEF CreateVolumeReply, Ends, OnPath
  <2>2. Quits(h) \/ Binds(h)
    BY <1>8, <2>1 DEF CreateVolumeReply, Quits, Binds
  <2> QED  BY <1>2, <2>1, <2>2 DEF Ends, Shape
<1>9. CASE BucketToDelete(h)
  BY <1>0, <1>9, BucketToDeleteView
  DEF BucketToDelete, Shape, Learns, SameVolume, OnPath
<1>10. CASE BucketToDeleteNone(h)
  <2>1. Ends(h) /\ rpc[h].op = "delete"
    BY <1>0, <1>1, <1>10, ReturnView
    DEF BucketToDeleteNone, DeleteVolumeReply, Ends, OnPath
  <2>2. Quits(h) \/ Reclaims(h)
    BY <1>10, <2>1 DEF BucketToDeleteNone, DeleteVolumeReply, Quits, Reclaims
  <2> QED  BY <1>2, <2>1, <2>2 DEF Ends, Shape
<1>11. CASE \/ ListObjectsNoSuchBucket(h) \/ ListObjectsErr(h)
            \/ DeleteObjectErr(h) \/ DeleteBucket(h) \/ DeleteBucketErr(h)
  <2>1. DeleteBucketDone(h) /\ UNCHANGED clock /\ rpc[h].volumeID \in Volumes
    BY <1>1, <1>11
    DEF ListObjectsNoSuchBucket, ListObjectsErr, DeleteObjectErr, DeleteBucket,
        DeleteBucketErr, DeleteBucketFailed
  <2> QED
    BY <1>0, <1>2, <2>1, DoneShape DEF Quits, Reclaims, Ends, Shape
<1> QED
  BY <1>3, <1>4, <1>5, <1>6, <1>7, <1>8, <1>9, <1>10, <1>11
  DEF CreateStep, DeleteStep

-----------------------------------------------------------------------------
(***************************************************************************)
(* Goroutines, names and phases.                                           *)
(***************************************************************************)

(* Idle goroutines and absent PVs name no generated bucket.                *)
LEMMA NoTempName ==
  /\ Idle.bucketName \notin TempBuckets
  /\ NoPV.bucketName \notin TempBuckets
  /\ NoBucket \notin TempBuckets
BY ConstantsAssumption DEF Idle, NoPV, Buckets

(* A goroutine goes on: it is the same one for the others and the PVs.     *)
LEMMA RunGoesOn ==
  ASSUME TypeOK, RunInv, NEW h \in Handlers, GoesOn(h), late' = late,
         rpc[h].pc # "lookup"
  PROVE  NamesOwn' /\ PhasesAgree' /\ StaleOlder' /\ MakersApart'
<1>1. /\ \A g \in Handlers : /\ rpc'[g].volumeID = rpc[g].volumeID
                             /\ rpc'[g].bucketName = rpc[g].bucketName
                             /\ (rpc'[g].op = "delete") = (rpc[g].op = "delete")
                             /\ rpc'[g].op = "create" => rpc[g].op = "create"
                             /\ rpc'[g].pc # "lookup" => rpc[g].pc # "lookup"
                             /\ Making(g)' => Making(g)
      /\ UNCHANGED <<claim, spec, pv, call, clock>>
  BY DEF GoesOn, SameVolume, Others, k8sVars, Making
<1>2. NamesOwn'
  BY <1>1 DEF RunInv, NamesOwn
<1>3. PhasesAgree'
  <2>1. \A v \in Volumes : call[v] # NoHandler => call[v] \in Handlers
    BY DEF TypeOK
  <2> QED  BY <1>1, <2>1 DEF RunInv, PhasesAgree
<1>4. StaleOlder'
  BY <1>1 DEF RunInv, StaleOlder
<1>5. MakersApart'
  BY <1>1 DEF RunInv, MakersApart
<1> QED  BY <1>2, <1>3, <1>4, <1>5

(* The bucket DeleteVolume reads from the PV is no other goroutine's.      *)
LEMMA RunLearns ==
  ASSUME TypeOK, RunInv, NEW h \in Handlers, Learns(h), late' = late,
         rpc[h].volumeID \in Volumes
  PROVE  NamesOwn' /\ PhasesAgree' /\ StaleOlder' /\ MakersApart'
<1>1. /\ \A g \in Handlers : /\ rpc'[g].volumeID = rpc[g].volumeID
                             /\ rpc'[g].op = rpc[g].op
                             /\ g # h => rpc'[g] = rpc[g]
                             /\ Making(g)' => Making(g) /\ g # h
      /\ UNCHANGED <<claim, spec, pv, call, clock>>
      /\ rpc[h].op = "delete"
      /\ rpc'[h].bucketName = pv[rpc[h].volumeID].bucketName
  BY DEF Learns, SameVolume, Others, k8sVars, Making
<1>2. NamesOwn'
  BY <1>1 DEF RunInv, NamesOwn
<1>3. PhasesAgree'
  <2>1. \A v \in Volumes : call[v] # NoHandler => call[v] \in Handlers
    BY DEF TypeOK
  <2> QED  BY <1>1, <2>1 DEF RunInv, PhasesAgree
<1>4. StaleOlder'
  BY <1>1 DEF RunInv, StaleOlder
<1>5. MakersApart'
  BY <1>1 DEF RunInv, MakersApart
<1> QED  BY <1>2, <1>3, <1>4, <1>5

(* What the end of a goroutine changes for the others.                     *)
LEMMA EndsView ==
  ASSUME NEW h \in Handlers, Ends(h)
  PROVE  /\ \A g \in Handlers \ {h} : rpc'[g] = rpc[g]
         /\ \A g \in Handlers : Making(g)' => Making(g) /\ g # h
         /\ rpc'[h].bucketName \notin TempBuckets
         /\ rpc'[h].op = "none"
         /\ UNCHANGED <<spec, clock>>
         /\ \A v \in Volumes : call'[v] \in {call[v], NoHandler} /\ call'[v] # h
         /\ \A v \in Volumes : \A g \in Handlers \ {h} :
              (call'[v] = g) = (call[v] = g)
<1>1. /\ \A g \in Handlers \ {h} : rpc'[g] = rpc[g]
      /\ rpc'[h].bucketName \notin TempBuckets
      /\ rpc'[h].op = "none"
      /\ UNCHANGED <<spec, clock>>
  BY NoTempName, IdleView DEF Ends, Others
<1>2. \A g \in Handlers : Making(g)' => Making(g) /\ g # h
  BY <1>1 DEF Making
<1>3. NoHandler \notin Handlers
  BY ConstantsAssumption
<1> QED  BY <1>1, <1>2, <1>3 DEF Ends

(* The end of a goroutine leaves the names of the others as old as before. *)
LEMMA EndsStale ==
  ASSUME TypeOK, RunInv, NEW h \in Handlers, Ends(h), late' = late
  PROVE  StaleOlder'
<1> SUFFICES ASSUME NEW g \in Handlers, Making(g)'
             PROVE  /\ rpc'[g].bucketName[2] <= clock'
                    /\ call'[rpc'[g].volumeID] # g =>
                         \/ rpc'[g].bucketName[2] < clock'
                         \/ rpc'[g].bucketName \in late'
  BY DEF StaleOlder
<1>1. Making(g) /\ g # h /\ rpc'[g] = rpc[g] /\ clock' = clock
  BY EndsView
<1>2. rpc[g].volumeID \in Volumes
  BY <1>1 DEF TypeOK, CallsName, RunInv, PathsAgree, OnPath, Making
<1>3. call'[rpc[g].volumeID] # g => call[rpc[g].volumeID] # g
  BY <1>1, <1>2, EndsView
<1> QED  BY <1>1, <1>3 DEF RunInv, StaleOlder

(* A goroutine ends and the volume stays as it is.                         *)
LEMMA RunQuits ==
  ASSUME TypeOK, RunInv, NEW h \in Handlers, Quits(h), late' = late
  PROVE  NamesOwn' /\ PhasesAgree' /\ StaleOlder' /\ MakersApart'
<1>0. \A v \in Volumes : call[v] \in Handlers \cup {NoHandler}
  BY DEF TypeOK
<1>1. Ends(h) /\ UNCHANGED <<claim, pv>>
  BY DEF Quits
<1>2. NamesOwn'
  BY <1>1, EndsView DEF RunInv, NamesOwn
<1>3. PhasesAgree'
  <2>1. \A v \in Volumes : call'[v] # NoHandler =>
          call'[v] \in Handlers \ {h} /\ call'[v] = call[v]
    BY <1>1, <1>0, EndsView
  <2> QED  BY <1>1, <2>1, EndsView DEF RunInv, PhasesAgree
<1>4. StaleOlder'
  BY <1>1, EndsStale
<1>5. MakersApart'
  BY <1>1, EndsView DEF RunInv, MakersApart, Making
<1> QED  BY <1>2, <1>3, <1>4, <1>5

(* DeleteVolume answers: the claim it was called for is released.          *)
LEMMA RunReclaims ==
  ASSUME TypeOK, RunInv, NEW h \in Handlers, Reclaims(h), late' = late,
         rpc[h].volumeID \in Volumes
  PROVE  /\ claim[rpc[h].volumeID] = "released"
         /\ NamesOwn' /\ PhasesAgree' /\ StaleOlder' /\ MakersApart'
<1> DEFINE v == rpc[h].volumeID
<1>0. /\ \A w \in Volumes : call[w] \in Handlers \cup {NoHandler}
      /\ NoHandler \notin Handlers
  BY ConstantsAssumption DEF TypeOK
<1>1. /\ Ends(h) /\ call[v] = h /\ rpc[h].op = "delete"
      /\ \A w \in Volumes \ {v} : pv'[w] = pv[w] /\ claim'[w] = claim[w]
      /\ pv'[v] = NoPV /\ claim'[v] = "gone"
  BY DEF Reclaims, TypeOK
<1>2. claim[v] = "released"
  BY <1>0, <1>1 DEF RunInv, PhasesAgree
<1> HIDE DEF v
<1>3. NamesOwn'
  BY <1>1, EndsView, NoTempName DEF RunInv, NamesOwn
<1>4. PhasesAgree'
  <2>1. \A w \in Volumes : call'[w] # NoHandler =>
          call'[w] \in Handlers \ {h} /\ call'[w] = call[w] /\ w # v
    BY <1>0, <1>1, EndsView
  <2>2. \A g \in Handlers : rpc'[g].op = "delete" => rpc'[g] = rpc[g] /\ g # h
    BY <1>1, EndsView
  <2>3. \A g \in Handlers : rpc[g].op = "delete" => rpc[g].volumeID \in Volumes
    BY DEF TypeOK, CallsName, RunInv, PathsAgree, OnPath
  <2>4. \A g \in Handlers : rpc'[g].op = "delete" =>
          claim'[rpc'[g].volumeID] \in {"released", "gone"}
    BY <1>1, <2>2, <2>3 DEF RunInv, PhasesAgree
  <2>5. \A w \in Volumes : /\ pv'[w] # NoPV => claim'[w] \in {"bound", "released"}
                           /\ claim'[w] \in {"none", "pending"} => pv'[w] = NoPV
    BY <1>1 DEF RunInv, PhasesAgree
  <2>6. \A w \in Volumes : call'[w] # NoHandler =>
          claim'[w] = IF rpc'[call'[w]].op = "delete" THEN "released" ELSE "pending"
    BY <1>1, <2>1, EndsView DEF RunInv, PhasesAgree
  <2> QED  BY <2>4, <2>5, <2>6 DEF PhasesAgree
<1>5. StaleOlder'
  BY <1>1, EndsStale
<1>6. MakersApart'
  BY <1>1, EndsView, NoTempName DEF RunInv, MakersApart, Making
<1> QED  BY <1>2, <1>3, <1>4, <1>5, <1>6 DEF v

(* CreateVolume answers: the claim it was called for is pending, and the   *)
(* bucket handed out is no other goroutine's.                              *)
LEMMA RunBinds ==
  ASSUME TypeOK, RunInv, NEW h \in Handlers, Binds(h), late' = late,
         rpc[h].volumeID \in Volumes
  PROVE  /\ claim[rpc[h].volumeID] = "pending"
         /\ NamesOwn' /\ PhasesAgree' /\ StaleOlder' /\ MakersApart'
<1> DEFINE v == rpc[h].volumeID
<1>0. /\ \A w \in Volumes : call[w] \in Handlers \cup {NoHandler}
      /\ NoHandler \notin Handlers
  BY ConstantsAssumption DEF TypeOK
<1>1. /\ Ends(h) /\ call[v] = h /\ rpc[h].op = "create"
      /\ \A w \in Volumes \ {v} : pv'[w] = pv[w] /\ claim'[w] = claim[w]
      /\ pv'[v].bucketName = rpc[h].bucketName /\ claim'[v] = "bound"
  BY DEF Binds, TypeOK
<1>2. claim[v] = "pending"
  BY <1>0, <1>1 DEF RunInv, PhasesAgree
<1>3. NamesOwn'
  <2>1. \A g \in Handlers : rpc'[g].op = "create" => rpc'[g] = rpc[g] /\ g # h
    BY <1>1, EndsView
  <2>2. \A g \in Handlers : rpc'[g].bucketName \in TempBuckets =>
                            rpc'[g] = rpc[g] /\ g # h
    BY <1>1, EndsView
  <2>3. spec' = spec
    BY <1>1, EndsView
  <2>4. \A g \in Handlers : rpc'[g].bucketName \in TempBuckets =>
          rpc'[g].bucketName[1] = rpc'[g].volumeID
    BY <2>2 DEF RunInv, NamesOwn
  <2>5. \A w \in Volumes : pv'[w].bucketName \in TempBuckets =>
          pv'[w].bucketName[1] = w
    BY <1>1 DEF RunInv, NamesOwn
  <2>6. \A g \in Handlers :
          rpc'[g].op = "create" /\ rpc'[g].pc # "lookup" =>
            \/ spec'[rpc'[g].volumeID].bucketName # NoBucket
            \/ rpc'[g].bucketName \in TempBuckets
    BY <2>1, <2>3 DEF RunInv, NamesOwn
  <2>7. rpc[h].pc # "lookup"
    BY DEF Binds
  <2>8. \A w \in Volumes :
          pv'[w] # NoPV /\ spec'[w].bucketName = NoBucket =>
            pv'[w].bucketName \in TempBuckets
    BY <1>1, <2>3, <2>7 DEF RunInv, NamesOwn
  <2> QED  BY <2>4, <2>5, <2>6, <2>8 DEF NamesOwn
<1> HIDE DEF v
<1>4. PhasesAgree'
  <2>1. \A w \in Volumes : call'[w] # NoHandler =>
          call'[w] \in Handlers \ {h} /\ call'[w] = call[w] /\ w # v
    BY <1>0, <1>1, EndsView
  <2>2. \A g \in Handlers : rpc'[g].op = "delete" => rpc'[g] = rpc[g] /\ g # h
    BY <1>1, EndsView
  <2>3. \A g \in Handlers : rpc[g].op = "delete" => rpc[g].volumeID \in Volumes
    BY DEF TypeOK, CallsName, RunInv, PathsAgree, OnPath
  <2>4. \A g \in Handlers : rpc'[g].op = "delete" =>
          claim'[rpc'[g].volumeID] \in {"released", "gone"}
    BY <1>1, <1>2, <2>2, <2>3 DEF RunInv, PhasesAgree
  <2>5. \A w \in Volumes : /\ pv'[w] # NoPV => claim'[w] \in {"bound", "released"}
                           /\ claim'[w] \in {"none", "pending"} => pv'[w] = NoPV
    BY <1>1 DEF RunInv, PhasesAgree
  <2>6. \A w \in Volumes : call'[w] # NoHandler =>
          claim'[w] = IF rpc'[call'[w]].op = "delete" THEN "released" ELSE "pending"
    BY <1>1, <2>1, EndsView DEF RunInv, PhasesAgree
  <2> QED  BY <2>4, <2>5, <2>6 DEF PhasesAgree
<1>5. StaleOlder'
  BY <1>1, EndsStale
<1>6. MakersApart'
  <2> SUFFICES ASSUME NEW g \in Handlers, Making(g)', rpc'[g].bucketName \notin late'
               PROVE  /\ \A f \in Handlers \ {g} : rpc'[f].bucketName # rpc'[g].bucketName
                      /\ \A w \in Volumes : pv'[w].bucketName # rpc'[g].bucketName
    BY DEF MakersApart
  <2>1. /\ Making(g) /\ g # h /\ rpc'[g] = rpc[g]
        /\ rpc[g].bucketName \in TempBuckets \ late
    BY <1>1, EndsView DEF Making
  <2>2. \A f \in Handlers \ {g} : rpc'[f].bucketName # rpc[g].bucketName
    BY <1>1, <2>1, EndsView DEF RunInv, MakersApart
  <2>3. \A w \in Volumes : pv'[w].bucketName # rpc[g].bucketName
    BY <1>1, <2>1 DEF RunInv, MakersApart
  <2> QED  BY <2>1, <2>2, <2>3
<1> QED  BY <1>2, <1>3, <1>4, <1>5, <1>6 DEF v

(* A step of a goroutine keeps names, phases and goroutines apart.         *)
LEMMA RunHandler ==
  ASSUME TypeOK, RunInv, NEW h \in Handlers, CreateStep(h) \/ DeleteStep(h)
  PROVE  Shape(h) /\ RunInv'
<1>1. Shape(h) /\ PathsAgree'
  BY HandlerShape DEF RunInv
<1>2. /\ rpc[h].volumeID \in Volumes /\ rpc[h].pc # "lookup"
      /\ late' = late
  <2>1. late' = late /\ rpc[h].pc \notin {"idle", "lookup"}
    BY LateKept
  <2> QED  BY <2>1 DEF TypeOK, CallsName
<1> QED
  BY <1>1, <1>2, RunGoesOn, RunLearns, RunQuits, RunReclaims, RunBinds
  DEF Shape, RunInv

-----------------------------------------------------------------------------
(***************************************************************************)
(* Buckets.  What a step of goroutine h does to COS.                       *)
(***************************************************************************)
OwnOnly(h) ==
  \A c \in Buckets \ {rpc[h].bucketName} :
    /\ (c \in exists') <=> (c \in exists)
    /\ (c \in quota') <=> (c \in quota)
    /\ origin'[c] = origin[c]
    /\ versioning'[c] = versioning[c]
    /\ objects'[c] = objects[c]

(* It stores nothing, and a generated bucket it leaves is the driver's.    *)
AddsNothing(h) ==
  \A b \in Buckets :
    /\ objects'[b] \subseteq objects[b]
    /\ b \in TempBuckets /\ b \in exists' => origin'[b] = "driver"

GetsOn(h) ==
  Making(h)' /\ rpc'[h].op = "create" /\ rpc'[h].bucketName \notin late' =>
    Progress(h)'

LEMMA CosSameEffect ==
  ASSUME NEW h \in Handlers, UNCHANGED cosVars, TempBucketsOwn
  PROVE  OwnOnly(h) /\ AddsNothing(h)
BY DEF cosVars, OwnOnly, AddsNothing, TempBucketsOwn

(* A new bucket is empty and the driver's.                                 *)
LEMMA NewBucketEffect ==
  ASSUME CosOK, TempBucketsOwn, NEW h \in Handlers,
         rpc[h].bucketName \in Buckets, NewBucket(rpc[h].bucketName)
  PROVE  OwnOnly(h) /\ AddsNothing(h)
<1> DEFINE b == rpc[h].bucketName
<1>1. /\ origin'[b] = "driver" /\ objects'[b] = {}
      /\ \A c \in Buckets \ {b} :
           /\ (c \in exists') <=> (c \in exists)
           /\ (c \in quota') <=> (c \in quota)
           /\ origin'[c] = origin[c]
           /\ versioning'[c] = versioning[c]
           /\ objects'[c] = objects[c]
  BY DEF CosOK, NewBucket
<1> QED  BY <1>1 DEF OwnOnly, AddsNothing, TempBucketsOwn

(* Setting the versioning or the quota of a bucket.                        *)
LEMMA SettingEffect ==
  ASSUME CosOK, TempBucketsOwn, NEW h \in Handlers,
         UpdateQuotaLimitOk(h) \/ SetBucketVersioningOk(h)
  PROVE  OwnOnly(h) /\ AddsNothing(h)
<1>1. UNCHANGED <<exists, origin, objects>>
  BY DEF UpdateQuotaLimitOk, SetBucketVersioningOk
<1>2. \A c \in Buckets \ {rpc[h].bucketName} :
         /\ (c \in quota') <=> (c \in quota)
         /\ versioning'[c] = versioning[c]
  BY DEF UpdateQuotaLimitOk, SetBucketVersioningOk, CosOK
<1> QED  BY <1>1, <1>2 DEF OwnOnly, AddsNothing, TempBucketsOwn

(* Deleting a key, or the bucket once it is empty.                         *)
LEMMA DeletingEffect ==
  ASSUME CosOK, TempBucketsOwn, NEW h \in Handlers,
         DeleteObject(h) \/ DeleteBucket(h)
  PROVE  OwnOnly(h) /\ AddsNothing(h)
<1>1. CASE DeleteObject(h)
  <2>1. PICK k : objects' = [objects EXCEPT ![rpc[h].bucketName] = @ \ {k}]
    BY <1>1 DEF DeleteObject
  <2>2. UNCHANGED <<exists, origin, versioning, quota>>
    BY <1>1 DEF DeleteObject
  <2>3. \A c \in Buckets : objects'[c] \subseteq objects[c]
    BY <2>1 DEF CosOK
  <2>4. \A c \in Buckets \ {rpc[h].bucketName} : objects'[c] = objects[c]
    BY <2>1 DEF CosOK
  <2> QED  BY <2>2, <2>3, <2>4 DEF OwnOnly, AddsNothing, TempBucketsOwn
<1>2. CASE DeleteBucket(h)
  <2>1. /\ UNCHANGED objects /\ rpc[h].bucketName \notin exists'
        /\ \A c \in Buckets \ {rpc[h].bucketName} :
             /\ (c \in exists') <=> (c \in exists)
             /\ (c \in quota') <=> (c \in quota)
             /\ origin'[c] = origin[c]
             /\ versioning'[c] = versioning[c]
    BY <1>2 DEF DeleteBucket, CosOK
  <2> QED  BY <2>1 DEF OwnOnly, AddsNothing, TempBucketsOwn
<1> QED  BY <1>1, <1>2

(* Every call of a goroutine to COS.                                       *)
LEMMA HandlerEffect ==
  ASSUME TypeOK, TempBucketsOwn, NEW h \in Handlers,
         CreateStep(h) \/ DeleteStep(h)
  PROVE  OwnOnly(h) /\ AddsNothing(h)
<1>0. CosOK /\ RpcOK
  BY TypeParts
<1>1. CASE CreateBucketOk(h) \/ CreateBucketErr(h)
  <2>1. rpc[h].bucketName \in Buckets
    BY <1>0, <1>1 DEF CreateBucketOk, CreateBucketErr, RpcOK, CallsName
  <2> QED
    BY <1>0, <1>1, <2>1, NewBucketEffect, CosSameEffect
    DEF CreateBucketOk, CreateBucketErr, cosVars
<1>2. CASE UpdateQuotaLimitOk(h) \/ SetBucketVersioningOk(h)
  BY <1>0, <1>2, SettingEffect
<1>3. CASE DeleteObject(h) \/ DeleteBucket(h)
  BY <1>0, <1>3, DeletingEffect
<1>4. CASE \/ HeadBucketOk(h) \/ HeadBucketErr(h)
           \/ CheckAccessOk(h) \/ CheckAccessErr(h)
           \/ UpdateQuotaLimitErr(h) \/ SetBucketVersioningErr(h)
           \/ CreateVolumeReply(h) \/ BucketToDelete(h) \/ BucketToDeleteNone(h)
           \/ ListObjects(h) \/ ListObjectsNoSuchBucket(h) \/ ListObjectsErr(h)
           \/ DeleteObjectErr(h) \/ DeleteObjectsDone(h) \/ DeleteBucketErr(h)
  <2>1. UNCHANGED cosVars
    BY <1>4
    DEF HeadBucketOk, HeadBucketErr, CheckAccessOk, CheckAccessErr,
        UpdateQuotaLimitErr, SetBucketVersioningErr, CreateVolumeReply,
        BucketToDelete, BucketToDeleteNone, ListObjects,
        ListObjectsNoSuchBucket, ListObjectsErr, DeleteObjectErr,
        DeleteObjectsDone, DeleteBucketErr
  <2> QED  BY <2>1, CosSameEffect
<1> QED  BY <1>1, <1>2, <1>3, <1>4 DEF CreateStep, DeleteStep

(* After each call CreateVolume has achieved what the next one relies on.  *)
LEMMA HandlerProgress ==
  ASSUME TypeOK, RunInv, MakersProgress, NEW h \in Handlers,
         CreateStep(h) \/ DeleteStep(h)
  PROVE  GetsOn(h)
<1> SUFFICES ASSUME Making(h)', rpc'[h].op = "create",
                    rpc'[h].bucketName \notin late'
             PROVE  Progress(h)'
  BY DEF GetsOn
<1>0. CosOK /\ RpcOK /\ OnPath(rpc[h])
  BY TypeParts DEF RunInv, PathsAgree
<1>1. /\ GoesOn(h) /\ rpc[h].op = "create" /\ Making(h) /\ Progress(h)
      /\ spec' = spec
  <2>1. Shape(h)
    BY RunHandler
  <2>2. ~Learns(h) /\ ~Quits(h) /\ ~Reclaims(h) /\ ~Binds(h)
    BY IdleView DEF Learns, Quits, Reclaims, Binds, Ends
  <2>3. GoesOn(h) /\ rpc[h].op = "create"
    BY <2>1, <2>2 DEF Shape, GoesOn
  <2>4. Making(h) /\ rpc[h].bucketName \notin late
    BY <2>3, LateKept DEF GoesOn, Making
  <2> QED  BY <2>3, <2>4 DEF MakersProgress, GoesOn, SameVolume, k8sVars
<1>2. /\ rpc'[h].bucketName = rpc[h].bucketName
      /\ rpc'[h].volumeID = rpc[h].volumeID
      /\ rpc[h].pc \in {"create", "access", "quota", "versioning", "reply"}
      /\ rpc[h].pc # "idle" /\ rpc[h].bucketName \in Buckets
  BY <1>0, <1>1, LateKept
  DEF GoesOn, SameVolume, OnPath, Progress, RpcOK, CallsName
<1>3. CASE CreateBucketOk(h)
  <2>1. rpc'[h].pc = "access"
    BY <1>0, <1>3, GotoView DEF CreateBucketOk
  <2> QED  BY <2>1 DEF Progress
<1>4. CASE CheckAccessOk(h)
  <2>1. /\ rpc'[h].pc = AfterAccess(rpc[h].volumeID)
        /\ rpc'[h].userProvidedBucket = FALSE
        /\ rpc[h].bucketName \in exists'
    BY <1>0, <1>4, CheckAccessView DEF CheckAccessOk, cosVars
  <2> QED  BY <1>1, <1>2, <2>1 DEF Progress, AfterAccess, AfterQuota
<1>5. CASE UpdateQuotaLimitOk(h)
  <2>1. /\ rpc'[h].pc = AfterQuota(rpc[h].volumeID)
        /\ rpc'[h].userProvidedBucket = rpc[h].userProvidedBucket
        /\ rpc[h].bucketName \in exists' /\ rpc[h].bucketName \in quota'
        /\ rpc[h].pc = "quota"
    BY <1>0, <1>5, GotoView DEF UpdateQuotaLimitOk
  <2> QED  BY <1>1, <1>2, <2>1 DEF Progress, AfterQuota
<1>6. CASE SetBucketVersioningOk(h)
  <2>1. /\ rpc'[h].pc = "reply"
        /\ rpc'[h].userProvidedBucket = rpc[h].userProvidedBucket
        /\ rpc[h].bucketName \in exists' /\ quota' = quota
        /\ rpc[h].pc = "versioning"
    BY <1>0, <1>6, GotoView DEF SetBucketVersioningOk
  <2>2. versioning'[rpc[h].bucketName] = spec[rpc[h].volumeID].bucketVersioning
    BY <1>0, <1>2, <1>6 DEF SetBucketVersioningOk, CosOK
  <2> QED  BY <1>1, <1>2, <2>1, <2>2 DEF Progress
<1>7. CASE UpdateQuotaLimitErr(h) \/ SetBucketVersioningErr(h)
  <2>1. rpc[h].volumeID \in Volumes /\ RollBack(h) /\ UNCHANGED clock
    BY <1>0, <1>2, <1>7
    DEF UpdateQuotaLimitErr, SetBucketVersioningErr, RpcOK, CallsName
  <2> QED  BY <1>0, <1>1, <2>1, RollBackShape
<1>8. CASE \/ CreateBucketErr(h) \/ CheckAccessErr(h) \/ CreateVolumeReply(h)
  <2>1. rpc'[h] = Idle
    BY <1>0, <1>8 DEF CreateBucketErr, CheckAccessErr, CreateVolumeReply,
       ReturnError, Return, RpcOK
  <2> QED  BY <2>1, IdleView
<1>9. CASE HeadBucketOk(h) \/ HeadBucketErr(h) \/ DeleteStep(h)
  BY <1>2, <1>9
  DEF HeadBucketOk, HeadBucketErr, DeleteStep, BucketToDelete,
      BucketToDeleteNone, ListObjects, ListObjectsNoSuchBucket, ListObjectsErr,
      DeleteObject, DeleteObjectErr, DeleteObjectsDone, DeleteBucket,
      DeleteBucketErr
<1> QED
  BY <1>3, <1>4, <1>5, <1>6, <1>7, <1>8, <1>9 DEF CreateStep

(* What a step of a goroutine does to a volume.                            *)
LEMMA VolumeView ==
  ASSUME TypeOK, NEW h \in Handlers, Shape(h), NEW v \in Volumes
  PROVE  /\ spec' = spec
         /\ \/ claim'[v] = claim[v] /\ pv'[v] = pv[v]
            \/ /\ Reclaims(h) /\ v = rpc[h].volumeID
               /\ claim'[v] = "gone" /\ pv'[v] = NoPV
            \/ /\ Binds(h) /\ v = rpc[h].volumeID
               /\ claim'[v] = "bound"
               /\ pv'[v].bucketName = rpc[h].bucketName
               /\ pv'[v].userProvidedBucket = rpc[h].userProvidedBucket
<1>1. CASE GoesOn(h) \/ Learns(h)
  BY <1>1 DEF GoesOn, Learns, SameVolume, k8sVars
<1>2. CASE Quits(h)
  BY <1>2 DEF Quits, Ends
<1>3. CASE Reclaims(h)
  BY <1>3 DEF Reclaims, Ends, TypeOK
<1>4. CASE Binds(h)
  BY <1>4 DEF Binds, Ends, TypeOK
<1> QED  BY <1>1, <1>2, <1>3, <1>4 DEF Shape

(* No goroutine works on the generated bucket of a bound volume.           *)
LEMMA BoundBucketFree ==
  ASSUME TypeOK, RunInv, NEW h \in Handlers, NEW v \in Volumes, HasTempBucket(v)
  PROVE  rpc[h].bucketName # pv[v].bucketName
<1> SUFFICES ASSUME rpc[h].bucketName = pv[v].bucketName
             PROVE  FALSE
  OBVIOUS
<1>1. rpc[h].bucketName \in TempBuckets /\ rpc[h].volumeID = v
  BY DEF HasTempBucket, RunInv, NamesOwn
<1>2. rpc[h].op # "none"
  <2>1. rpc[h].op = "none" => rpc[h] = Idle
    BY DEF RunInv, PathsAgree, OnPath, TypeOK, CallsName
  <2> QED  BY <1>1, <2>1, NoTempName
<1>3. rpc[h].op # "delete"
  BY <1>1 DEF RunInv, PhasesAgree, HasTempBucket
<1>4. Making(h)
  <2>1. rpc[h].op \in {"create", "rollback"}
    BY <1>2, <1>3 DEF RunInv, PathsAgree, OnPath
  <2> QED  BY <1>1, <2>1 DEF Making
<1> QED  BY <1>4 DEF RunInv, MakersApart, HasTempBucket

(* A step of a goroutine keeps what is known of generated buckets.         *)
LEMMA TempHandler ==
  ASSUME TypeOK, TempInv, NEW h \in Handlers, CreateStep(h) \/ DeleteStep(h)
  PROVE  TempInv'
<1>1. Shape(h) /\ RunInv' /\ OwnOnly(h) /\ AddsNothing(h) /\ GetsOn(h)
  BY RunHandler, HandlerEffect, HandlerProgress DEF TempInv
<1>2. Others(h) /\ (Volumes # {} => spec' = spec)
  BY <1>1, VolumeView
  DEF Shape, GoesOn, Learns, SameVolume, Quits, Reclaims, Binds, Ends
<1>3. TempBuckets \subseteq Buckets /\ late' = late
  BY LateKept DEF Buckets
<1>4. MakersProgress'
  <2> SUFFICES ASSUME NEW g \in Handlers, Making(g)', rpc'[g].op = "create",
                      rpc'[g].bucketName \notin late', g # h
               PROVE  Progress(g)'
    BY <1>1 DEF MakersProgress, GetsOn
  <2>1. /\ rpc'[g] = rpc[g] /\ Making(g) /\ Progress(g)
        /\ rpc[g].bucketName \in TempBuckets \ late
    BY <1>2, <1>3 DEF Others, Making, TempInv, MakersProgress
  <2>2. rpc[g].bucketName # rpc[h].bucketName
    BY <2>1 DEF TempInv, RunInv, MakersApart
  <2>3. spec' = spec
    <3>1. rpc[g].volumeID \in Volumes
      BY <2>1 DEF Making, TempInv, RunInv, PathsAgree, OnPath, TypeOK, CallsName
    <3> QED  BY <3>1, <1>2
  <2>4. rpc[g].bucketName \in Buckets \ {rpc[h].bucketName}
    BY <1>3, <2>1, <2>2
  <2> QED  BY <1>1, <2>1, <2>3, <2>4 DEF OwnOnly, Progress
<1>5. TempBucketsOwn'
  <2> SUFFICES ASSUME NEW b \in TempBuckets, objects'[b] # {}
               PROVE  claim'[b[1]] = "gone" \/ pv'[b[1]].bucketName = b
    BY <1>1, <1>3 DEF TempBucketsOwn, AddsNothing
  <2>1. b[1] \in Volumes
    BY TempBucketShape
  <2>2. claim[b[1]] = "gone" \/ pv[b[1]].bucketName = b
    BY <1>1, <1>3 DEF TempInv, TempBucketsOwn, AddsNothing
  <2>3. ~(Binds(h) /\ b[1] = rpc[h].volumeID)
    <3> SUFFICES ASSUME Binds(h), b[1] = rpc[h].volumeID PROVE FALSE
      OBVIOUS
    <3>1. claim[b[1]] = "pending"
      BY <1>3, <2>1, RunBinds DEF TempInv
    <3>2. pv[b[1]] = NoPV
      BY <2>1, <3>1 DEF TempInv, RunInv, PhasesAgree
    <3> QED  BY <2>2, <3>1, <3>2, NoTempName
  <2> QED  BY <1>1, <2>1, <2>2, <2>3, VolumeView
<1>6. ASSUME NEW v \in Volumes, HasTempBucket(v)'
      PROVE  LET b == pv'[v].bucketName IN
             /\ b \in exists' /\ origin'[b] = "driver"
             /\ ~pv'[v].userProvidedBucket
             /\ spec'[v].quotaLimit => b \in quota'
             /\ spec'[v].bucketVersioning # "" =>
                  versioning'[b] = spec'[v].bucketVersioning
  <2>0. /\ pv'[v].bucketName \in TempBuckets \ late
        /\ claim'[v] = "bound" /\ spec' = spec
    BY <1>1, <1>3, <1>6, VolumeView DEF HasTempBucket
  <2>1. CASE claim'[v] = claim[v] /\ pv'[v] = pv[v]
    <3>1. HasTempBucket(v)
      BY <2>0, <2>1 DEF HasTempBucket
    <3>2. pv[v].bucketName \in Buckets \ {rpc[h].bucketName}
      BY <1>3, <2>0, <2>1, <3>1, BoundBucketFree DEF TempInv
    <3> QED
      BY <1>1, <2>0, <2>1, <3>1, <3>2
      DEF OwnOnly, TempInv, TempBucketIntact, ConfiguredAsRequested
  <2>2. CASE Binds(h) /\ v = rpc[h].volumeID
    <3>1. /\ pv'[v].bucketName = rpc[h].bucketName
          /\ pv'[v].userProvidedBucket = rpc[h].userProvidedBucket
          /\ rpc[h].pc = "reply" /\ rpc[h].op = "create"
      BY <2>2 DEF Binds, TypeOK
    <3>2. Progress(h)
      BY <2>0, <3>1 DEF TempInv, MakersProgress, Making
    <3>3. CreateVolumeReply(h)
      BY <3>1
      DEF CreateStep, HeadBucketOk, HeadBucketErr, CreateBucketOk,
        CreateBucketErr, CheckAccessOk, CheckAccessErr, UpdateQuotaLimitOk,
        UpdateQuotaLimitErr, SetBucketVersioningOk, SetBucketVersioningErr,
        DeleteStep, BucketToDelete, BucketToDeleteNone, ListObjects,
        ListObjectsNoSuchBucket, ListObjectsErr, DeleteObject,
        DeleteObjectErr, DeleteObjectsDone, DeleteBucket, DeleteBucketErr
    <3>4. UNCHANGED cosVars /\ rpc[h].bucketName \in exists'
          /\ rpc[h].bucketName \in Buckets
      BY <1>3, <2>0, <3>1, <3>2, <3>3 DEF Progress, CreateVolumeReply, cosVars
    <3>5. origin'[rpc[h].bucketName] = "driver"
      BY <1>1, <2>0, <3>1, <3>4 DEF AddsNothing
    <3> QED
      BY <2>0, <2>2, <3>1, <3>2, <3>4, <3>5 DEF Progress, cosVars
  <2> QED  BY <1>1, <2>0, <2>1, <2>2, VolumeView
<1> QED
  BY <1>1, <1>4, <1>5, <1>6
  DEF TempInv, TempBucketIntact, ConfiguredAsRequested

-----------------------------------------------------------------------------
(***************************************************************************)
(* The other steps.                                                        *)
(***************************************************************************)

(* A secret cannot carry the name of a generated bucket.                   *)
LEMMA UserNotTemp == UserBuckets \cap TempBuckets = {}
<1>1. TempBuckets \subseteq Volumes \X Nat
  <2>1. MaxClock \in Nat
    BY ConstantsAssumption
  <2> QED  BY <2>1 DEF TempBuckets, getTempBucketName
<1>2. UserBuckets \cap (Volumes \X Nat) = {}
  BY ConstantsAssumption
<1> QED  BY <1>1, <1>2

(* What does not touch COS, nor Kubernetes, nor the goroutines.            *)
LEMMA CosPart ==
  ASSUME TempInv, UNCHANGED <<cosVars, k8sVars>>, late \subseteq late'
  PROVE  TempBucketsOwn' /\ TempBucketIntact' /\ ConfiguredAsRequested'
BY DEF TempInv, TempBucketsOwn, TempBucketIntact, ConfiguredAsRequested,
       HasTempBucket, cosVars, k8sVars

(* A goroutine of CreateVolume knows its volume.                           *)
LEMMA MakingVolume ==
  ASSUME TypeOK, RunInv, NEW g \in Handlers, Making(g)
  PROVE  rpc[g].volumeID \in Volumes
<1>1. rpc[g].pc # "idle"
  BY DEF Making, RunInv, PathsAgree, OnPath
<1>2. CallsName
  BY DEF TypeOK
<1> QED  BY <1>1, <1>2 DEF CallsName

(* A request starts: its goroutine names no bucket yet.                    *)
LEMMA TempStart ==
  ASSUME TypeOK, TempInv, NEW v \in Volumes, NEW h \in Handlers,
         CreateVolume(v, h) \/ DeleteVolume(v, h)
  PROVE  TempInv'
<1>0. RpcOK
  BY TypeParts
<1>1. /\ call[v] = NoHandler /\ rpc[h] = Idle
      /\ UNCHANGED <<cosVars, claim, spec, pv, clock, late>>
      /\ call' = [call EXCEPT ![v] = h]
      /\ \A g \in Handlers \ {h} : rpc'[g] = rpc[g]
      /\ rpc'[h].volumeID = v /\ rpc'[h].bucketName = NoBucket
      /\ \/ /\ claim[v] = "released" /\ rpc'[h].op = "delete"
            /\ rpc'[h].pc = "bucketToDelete"
         \/ /\ claim[v] = "pending" /\ rpc'[h].op = "create"
            /\ rpc'[h].pc = "lookup"
  <2>1. CASE DeleteVolume(v, h)
    BY <1>0, <2>1, DeleteVolumeView
    DEF DeleteVolume, k8sVars, faultVars, Others, RpcOK, CallsName
  <2>2. CASE CreateVolume(v, h)
    BY <1>0, <2>2, CreateVolumeView
    DEF CreateVolume, k8sVars, faultVars, Others, RpcOK, CallsName
  <2> QED  BY <2>1, <2>2
<1>2. /\ \A w \in Volumes : call[w] # h
      /\ NoHandler \notin Handlers
      /\ \A w \in Volumes : call[w] \in Handlers \cup {NoHandler}
  BY <1>0, <1>1, IdleView, ConstantsAssumption DEF RpcOK, CallsAgree
<1>3. \A g \in Handlers : Making(g)' => g # h /\ Making(g)
  BY <1>1, NoTempName DEF Making
<1>4. PathsAgree'
  BY <1>1 DEF TempInv, RunInv, PathsAgree, OnPath
<1>5. NamesOwn'
  BY <1>1, NoTempName DEF TempInv, RunInv, NamesOwn
<1>6. /\ call'[v] = h
      /\ \A w \in Volumes \ {v} : call'[w] = call[w]
  BY <1>0, <1>1 DEF RpcOK
<1>7. PhasesAgree'
  <2>1. \A w \in Volumes : call'[w] # NoHandler =>
          claim'[w] = IF rpc'[call'[w]].op = "delete" THEN "released" ELSE "pending"
    BY <1>1, <1>2, <1>6 DEF TempInv, RunInv, PhasesAgree
  <2> QED  BY <1>1, <2>1 DEF TempInv, RunInv, PhasesAgree
<1>8. StaleOlder'
  <2> SUFFICES ASSUME NEW g \in Handlers, Making(g)'
               PROVE  /\ rpc'[g].bucketName[2] <= clock'
                      /\ call'[rpc'[g].volumeID] # g =>
                           \/ rpc'[g].bucketName[2] < clock'
                           \/ rpc'[g].bucketName \in late'
    BY DEF StaleOlder
  <2>1. g # h /\ Making(g) /\ rpc'[g] = rpc[g]
    BY <1>1, <1>3
  <2>2. rpc[g].volumeID \in Volumes
    BY <2>1, MakingVolume DEF TempInv
  <2>3. call'[rpc[g].volumeID] # g => call[rpc[g].volumeID] # g
    BY <1>1, <1>2, <1>6, <2>2
  <2>4. /\ rpc[g].bucketName[2] <= clock
        /\ call[rpc[g].volumeID] # g =>
             rpc[g].bucketName[2] < clock \/ rpc[g].bucketName \in late
    BY <2>1 DEF TempInv, RunInv, StaleOlder
  <2> QED  BY <1>1, <2>1, <2>3, <2>4
<1>9. MakersApart'
  <2> SUFFICES ASSUME NEW g \in Handlers, Making(g)',
                      rpc'[g].bucketName \notin late'
               PROVE  /\ \A f \in Handlers \ {g} :
                           rpc'[f].bucketName # rpc'[g].bucketName
                      /\ \A w \in Volumes : pv'[w].bucketName # rpc'[g].bucketName
    BY DEF MakersApart
  <2>1. g # h /\ Making(g) /\ rpc'[g] = rpc[g]
    BY <1>1, <1>3
  <2>2. rpc[g].bucketName # NoBucket
    BY <2>1, NoTempName DEF Making
  <2>20. rpc[g].bucketName \notin late
    BY <1>1, <2>1
  <2>3. /\ \A f \in Handlers \ {g} : rpc[f].bucketName # rpc[g].bucketName
        /\ \A w \in Volumes : pv[w].bucketName # rpc[g].bucketName
    BY <2>1, <2>20 DEF TempInv, RunInv, MakersApart
  <2> QED  BY <1>1, <2>1, <2>2, <2>3
<1>10. MakersProgress'
  <2> SUFFICES ASSUME NEW g \in Handlers, Making(g)', rpc'[g].op = "create",
                      rpc'[g].bucketName \notin late'
               PROVE  Progress(g)'
    BY DEF MakersProgress
  <2>1. g # h /\ Making(g) /\ rpc'[g] = rpc[g]
    BY <1>1, <1>3
  <2> QED  BY <1>1, <2>1 DEF TempInv, MakersProgress, Progress, cosVars
<1>11. TempBucketsOwn' /\ TempBucketIntact' /\ ConfiguredAsRequested'
  BY <1>1, CosPart DEF k8sVars
<1> QED
  BY <1>4, <1>5, <1>7, <1>8, <1>9, <1>10, <1>11 DEF TempInv, RunInv

(* CreateVolume cannot look its secret up: it ends without a bucket.       *)
LEMMA TempLookupErr ==
  ASSUME TypeOK, TempInv, NEW h \in Handlers, GetSecretErr(h)
  PROVE  TempInv'
<1>1. rpc[h].volumeID \in Volumes /\ RpcOK
  <2>1. RpcOK
    BY TypeParts
  <2> QED  BY <2>1 DEF GetSecretErr, RpcOK, CallsName
<1>2. UNCHANGED <<cosVars, claim, spec, pv, clock, late>>
  BY DEF GetSecretErr, ReturnError, k8sVars, NoFault, Fault, faultVars
<1>3. Quits(h)
  BY <1>1, <1>2, ReturnView DEF GetSecretErr, ReturnError, Quits, Ends
<1>4. NamesOwn' /\ PhasesAgree' /\ StaleOlder' /\ MakersApart'
  BY <1>2, <1>3, RunQuits DEF TempInv
<1>5. PathsAgree'
  BY <1>3, IdleView
  DEF Quits, Ends, Others, TempInv, RunInv, PathsAgree, OnPath
<1>6. MakersProgress'
  <2> SUFFICES ASSUME NEW g \in Handlers, Making(g)', rpc'[g].op = "create",
                      rpc'[g].bucketName \notin late'
               PROVE  Progress(g)'
    BY DEF MakersProgress
  <2>1. g # h /\ Making(g) /\ rpc'[g] = rpc[g]
    BY <1>3, EndsView DEF Quits
  <2> QED  BY <1>2, <2>1 DEF TempInv, MakersProgress, Progress, cosVars
<1>7. TempBucketsOwn' /\ TempBucketIntact' /\ ConfiguredAsRequested'
  BY <1>2, CosPart DEF k8sVars
<1> QED  BY <1>4, <1>5, <1>6, <1>7 DEF TempInv, RunInv

(***************************************************************************)
(* CreateVolume chooses its bucket.  A generated name is new: a goroutine  *)
(* of an abandoned call for the volume uses an older one or one in late,   *)
(* and so does this goroutine when it is the abandoned one.                *)
(***************************************************************************)
LEMMA TempNames ==
  ASSUME TypeOK, TempInv, NEW h \in Handlers, GetSecretOk(h)
  PROVE  TempInv'
<1>0. CosOK /\ K8sOK /\ RpcOK /\ clock \in 0..MaxClock
  BY TypeParts
<1>00. PICK v \in Volumes : v = rpc[h].volumeID
  BY <1>0 DEF GetSecretOk, RpcOK, CallsName
<1>1. /\ UNCHANGED <<cosVars, claim, spec, pv, clock, call>>
      /\ \A g \in Handlers \ {h} : rpc'[g] = rpc[g]
      /\ rpc'[h].op = "create" /\ rpc'[h].volumeID = v
      /\ rpc[h].op = "create" /\ rpc[h].pc = "lookup"
  BY <1>0, <1>00, GetSecretView
  DEF GetSecretOk, k8sVars, Others, TempInv, RunInv, PathsAgree, OnPath
<1>2. /\ call[v] = h => claim[v] = "pending" /\ pv[v] = NoPV
      /\ NoHandler \notin Handlers
      /\ \A w \in Volumes : call[w] \in Handlers \cup {NoHandler}
  BY <1>0, <1>1, ConstantsAssumption
  DEF TempInv, RunInv, PhasesAgree, RpcOK
<1>3. \/ /\ spec[v].bucketName # NoBucket
         /\ rpc'[h].bucketName \notin TempBuckets
         /\ rpc'[h].pc = "head"
         /\ late' = late
      \/ /\ rpc'[h].bucketName \in TempBuckets
         /\ rpc'[h].bucketName[1] = v /\ rpc'[h].bucketName[2] = clock
         /\ rpc'[h].pc = "create"
         /\ call[v] = h => late' = late
         /\ call[v] # h => late' = late \cup {rpc'[h].bucketName}
  <2>1. spec[v].bucketName \in UserBuckets \cup {NoBucket}
    BY <1>0, ClaimFacts
  <2>2. \/ /\ spec[v].bucketName # NoBucket /\ rpc'[h].pc = "head"
           /\ rpc'[h].bucketName = spec[v].bucketName
           /\ late' = late
        \/ /\ spec[v].bucketName = NoBucket /\ rpc'[h].pc = "create"
           /\ rpc'[h].bucketName = getTempBucketName(v, clock)
           /\ late' = IF call[v] = h THEN late
                      ELSE late \cup {getTempBucketName(v, clock)}
    BY <1>0, <1>00 DEF GetSecretOk, RpcOK
  <2>3. spec[v].bucketName # NoBucket => spec[v].bucketName \notin TempBuckets
    BY <2>1, UserNotTemp
  <2>4. /\ getTempBucketName(v, clock) \in TempBuckets
        /\ getTempBucketName(v, clock)[1] = v
        /\ getTempBucketName(v, clock)[2] = clock
    BY <1>0, TempBucketShape
  <2> QED  BY <2>2, <2>3, <2>4
<1>30. late \subseteq late'
  BY <1>3
<1>4. PathsAgree'
  BY <1>1, <1>3 DEF TempInv, RunInv, PathsAgree, OnPath
<1>5. NamesOwn'
  BY <1>1, <1>3 DEF TempInv, RunInv, NamesOwn
<1>6. PhasesAgree'
  <2>1. \A g \in Handlers : rpc'[g].op = "delete" => rpc'[g] = rpc[g]
    BY <1>1
  <2>2. \A w \in Volumes : call'[w] # NoHandler =>
          claim'[w] = IF rpc'[call'[w]].op = "delete" THEN "released" ELSE "pending"
    BY <1>1, <1>2 DEF TempInv, RunInv, PhasesAgree
  <2> QED  BY <1>1, <2>1, <2>2 DEF TempInv, RunInv, PhasesAgree
<1>7. \A g \in Handlers \ {h} : Making(g)' <=> Making(g)
  BY <1>1 DEF Making
<1>8. StaleOlder'
  <2>1. ASSUME NEW g \in Handlers \ {h}, Making(g)
        PROVE  /\ rpc'[g].bucketName[2] <= clock'
               /\ call'[rpc'[g].volumeID] # g =>
                    \/ rpc'[g].bucketName[2] < clock'
                    \/ rpc'[g].bucketName \in late'
    <3>1. /\ rpc[g].bucketName[2] <= clock
          /\ call[rpc[g].volumeID] # g =>
               rpc[g].bucketName[2] < clock \/ rpc[g].bucketName \in late
      BY <2>1 DEF TempInv, RunInv, StaleOlder
    <3> QED  BY <1>1, <1>30, <3>1
  <2>2. Making(h)' => /\ rpc'[h].bucketName[2] = clock
                      /\ call[v] # h => rpc'[h].bucketName \in late'
    BY <1>3 DEF Making
  <2>3. clock <= clock'
    BY <1>0, <1>1, ConstantsAssumption
  <2> QED  BY <1>1, <1>7, <2>1, <2>2, <2>3 DEF StaleOlder
<1>9. ASSUME rpc'[h].bucketName \in TempBuckets \ late'
      PROVE  /\ \A g \in Handlers \ {h} : rpc[g].bucketName # rpc'[h].bucketName
             /\ \A w \in Volumes : pv[w].bucketName # rpc'[h].bucketName
  <2>1. /\ rpc'[h].bucketName[1] = v /\ rpc'[h].bucketName[2] = clock
        /\ call[v] = h /\ rpc'[h].bucketName \notin late
    BY <1>3, <1>9
  <2>2. ASSUME NEW g \in Handlers \ {h}, rpc[g].bucketName = rpc'[h].bucketName
        PROVE  FALSE
    <3>1. rpc[g].volumeID = v
      BY <1>9, <2>1, <2>2 DEF TempInv, RunInv, NamesOwn
    <3>2. rpc[g].op # "delete"
      BY <1>2, <2>1, <3>1 DEF TempInv, RunInv, PhasesAgree
    <3>3. rpc[g].op # "none"
      <4>1. rpc[g].op = "none" => rpc[g] = Idle
        BY DEF TempInv, RunInv, PathsAgree, OnPath, TypeOK, CallsName
      <4> QED  BY <1>9, <2>2, <4>1, NoTempName
    <3>4. Making(g)
      BY <1>9, <2>2, <3>2, <3>3 DEF Making, TempInv, RunInv, PathsAgree, OnPath
    <3>5. call[v] # g
      BY <2>1
    <3>6. clock < clock
      BY <2>1, <2>2, <3>1, <3>4, <3>5 DEF TempInv, RunInv, StaleOlder
    <3>7. clock \in Nat
      BY <1>0, ConstantsAssumption
    <3> QED  BY <3>6, <3>7
  <2>3. ASSUME NEW w \in Volumes, pv[w].bucketName = rpc'[h].bucketName
        PROVE  FALSE
    BY <1>2, <1>9, <2>1, <2>3, NoTempName DEF TempInv, RunInv, NamesOwn
  <2> QED  BY <2>2, <2>3
<1>10. MakersApart'
  <2>1. ASSUME NEW g \in Handlers \ {h}, Making(g), rpc[g].bucketName \notin late'
        PROVE  /\ \A f \in Handlers \ {g} : rpc'[f].bucketName # rpc[g].bucketName
               /\ \A w \in Volumes : pv[w].bucketName # rpc[g].bucketName
    <3>1. rpc'[h].bucketName # rpc[g].bucketName
      BY <1>9, <2>1 DEF Making
    <3> QED  BY <1>1, <1>30, <2>1, <3>1 DEF TempInv, RunInv, MakersApart
  <2>2. Making(h)' => rpc'[h].bucketName \in TempBuckets
    BY DEF Making
  <2>3. ASSUME NEW g \in Handlers, Making(g)', rpc'[g].bucketName \notin late'
        PROVE  /\ \A f \in Handlers \ {g} : rpc'[f].bucketName # rpc'[g].bucketName
               /\ \A w \in Volumes : pv'[w].bucketName # rpc'[g].bucketName
    <3>1. CASE g = h
      BY <1>1, <1>9, <2>2, <2>3, <3>1
    <3>2. CASE g # h
      BY <1>1, <1>7, <2>1, <2>3, <3>2
    <3> QED  BY <3>1, <3>2
  <2> QED  BY <2>3 DEF MakersApart
<1>11. MakersProgress'
  <2>1. ASSUME NEW g \in Handlers \ {h}, Making(g), rpc[g].op = "create",
               rpc[g].bucketName \notin late
        PROVE  Progress(g)'
    BY <1>1, <2>1 DEF TempInv, MakersProgress, Progress, cosVars
  <2>2. Making(h)' => Progress(h)'
    BY <1>3 DEF Making, Progress
  <2> QED
    <3> SUFFICES ASSUME NEW g \in Handlers, Making(g)', rpc'[g].op = "create",
                        rpc'[g].bucketName \notin late'
                 PROVE  Progress(g)'
      BY DEF MakersProgress
    <3> QED  BY <1>1, <1>7, <1>30, <2>1, <2>2
<1>12. TempBucketsOwn' /\ TempBucketIntact' /\ ConfiguredAsRequested'
  BY <1>1, <1>30, CosPart DEF k8sVars
<1> QED
  BY <1>4, <1>5, <1>6, <1>8, <1>10, <1>11, <1>12 DEF TempInv, RunInv

(* A restart: the new process has no goroutine.                            *)
LEMMA TempCrash ==
  ASSUME TypeOK, TempInv, Crash
  PROVE  TempInv'
<1>1. /\ \A g \in Handlers : rpc'[g] = Idle
      /\ \A v \in Volumes : call'[v] = NoHandler
      /\ UNCHANGED <<cosVars, claim, spec, pv, clock, late>>
  BY DEF Crash, Fault, k8sVars
<1>2. \A g \in Handlers : ~Making(g)'
  BY <1>1, IdleView DEF Making
<1>3. PathsAgree'
  BY <1>1, IdleView DEF PathsAgree, OnPath
<1>4. NamesOwn'
  BY <1>1, IdleView, NoTempName DEF TempInv, RunInv, NamesOwn
<1>5. PhasesAgree'
  BY <1>1, IdleView DEF TempInv, RunInv, PhasesAgree
<1>6. StaleOlder' /\ MakersApart' /\ MakersProgress'
  BY <1>2 DEF StaleOlder, MakersApart, MakersProgress
<1>7. TempBucketsOwn' /\ TempBucketIntact' /\ ConfiguredAsRequested'
  BY <1>1, CosPart DEF k8sVars
<1> QED  BY <1>3, <1>4, <1>5, <1>6, <1>7 DEF TempInv, RunInv

(* Time passes, and a caller may give up: the name of a goroutine nobody   *)
(* waits for is older than the clock then.                                 *)
LEMMA TempClock ==
  ASSUME TypeOK, TempInv, Tick \/ (\E v \in Volumes : Timeout(v))
  PROVE  TempInv'
<1>0. /\ clock \in Nat /\ MaxClock \in Nat
      /\ call \in [Volumes -> Handlers \cup {NoHandler}]
  <2>1. MaxClock \in Nat
    BY ConstantsAssumption
  <2>2. clock \in 0..MaxClock /\ call \in [Volumes -> Handlers \cup {NoHandler}]
    BY DEF TypeOK
  <2> QED  BY <2>1, <2>2
<1>1. /\ UNCHANGED <<cosVars, claim, spec, pv, rpc, late>>
      /\ clock' = clock + 1
      /\ \A v \in Volumes : call'[v] \in {call[v], NoHandler}
  <2>1. CASE Tick
    BY <2>1 DEF Tick, k8sVars, faultVars
  <2>2. ASSUME NEW v \in Volumes, Timeout(v)
        PROVE  /\ UNCHANGED <<cosVars, claim, spec, pv, rpc, late>>
               /\ clock' = clock + 1
               /\ \A w \in Volumes : call'[w] \in {call[w], NoHandler}
    BY <1>0, <2>2 DEF Timeout, Fault, k8sVars
  <2> QED  BY <2>1, <2>2
<1>2. PathsAgree' /\ NamesOwn' /\ MakersApart'
  BY <1>1 DEF TempInv, RunInv, PathsAgree, NamesOwn, MakersApart, Making
<1>3. PhasesAgree'
  <2>1. \A v \in Volumes : call'[v] # NoHandler => call'[v] = call[v]
    BY <1>1
  <2> QED  BY <1>1, <2>1 DEF TempInv, RunInv, PhasesAgree
<1>4. StaleOlder'
  <2> SUFFICES ASSUME NEW g \in Handlers, Making(g)'
               PROVE  rpc'[g].bucketName[2] < clock'
    <3>1. clock' \in Nat
      BY <1>0, <1>1
    <3>2. \A g \in Handlers : Making(g)' => rpc'[g].bucketName[2] \in Nat
      BY <1>0, TempBucketShape DEF Making
    <3>3. \A m, n \in Nat : m < n => m <= n
      OBVIOUS
    <3> QED  BY <3>1, <3>2, <3>3 DEF StaleOlder
  <2>1. Making(g) /\ rpc'[g] = rpc[g]
    BY <1>1 DEF Making
  <2>2. rpc[g].bucketName[2] <= clock
    BY <2>1 DEF TempInv, RunInv, StaleOlder
  <2>3. rpc[g].bucketName[2] \in Nat
    BY <1>0, <2>1, TempBucketShape DEF Making
  <2> QED  BY <1>0, <1>1, <2>1, <2>2, <2>3
<1>5. MakersProgress'
  BY <1>1 DEF TempInv, MakersProgress, Progress, Making, cosVars
<1>6. TempBucketsOwn' /\ TempBucketIntact' /\ ConfiguredAsRequested'
  BY <1>1, CosPart DEF k8sVars
<1> QED  BY <1>2, <1>3, <1>4, <1>5, <1>6 DEF TempInv, RunInv

(* A pod stores an object: in the bucket of its own volume.                *)
LEMMA TempPut ==
  ASSUME TypeOK, TempInv, NEW v \in Volumes, PutObject(v)
  PROVE  TempInv'
<1>1. /\ UNCHANGED <<exists, origin, versioning, quota, claim, spec, pv, call,
                     rpc, clock, late>>
      /\ \A b \in Buckets \ {pv[v].bucketName} : objects'[b] = objects[b]
  BY DEF PutObject, k8sVars, faultVars, TypeOK
<1>2. RunInv'
  BY <1>1
  DEF TempInv, RunInv, PathsAgree, NamesOwn, PhasesAgree, StaleOlder,
      MakersApart, Making
<1>3. MakersProgress'
  BY <1>1 DEF TempInv, MakersProgress, Progress, Making
<1>4. TempBucketsOwn'
  <2> SUFFICES ASSUME NEW b \in TempBuckets, objects'[b] # {}
               PROVE  claim[b[1]] = "gone" \/ pv[b[1]].bucketName = b
    BY <1>1 DEF TempInv, TempBucketsOwn
  <2>1. CASE b = pv[v].bucketName
    BY <2>1 DEF TempInv, RunInv, NamesOwn
  <2>2. CASE b # pv[v].bucketName
    <3>1. b \in Buckets
      BY DEF Buckets
    <3> QED  BY <1>1, <2>2, <3>1 DEF TempInv, TempBucketsOwn
  <2> QED  BY <2>1, <2>2
<1>5. TempBucketIntact' /\ ConfiguredAsRequested'
  BY <1>1 DEF TempInv, TempBucketIntact, ConfiguredAsRequested, HasTempBucket
<1> QED  BY <1>2, <1>3, <1>4, <1>5 DEF TempInv

(* The user makes or deletes a claim no call is made for.                  *)
LEMMA TempClaim ==
  ASSUME TypeOK, TempInv, NEW v \in Volumes,
         CreatePVC(v) \/ AbandonPVC(v) \/ DeletePVC(v)
  PROVE  TempInv'
<1>1. /\ UNCHANGED <<cosVars, spec, pv, call, rpc, clock, late>>
      /\ \A w \in Volumes \ {v} : claim'[w] = claim[w]
      /\ \/ claim[v] = "none" /\ claim'[v] = "pending"
         \/ claim[v] = "pending" /\ claim'[v] = "gone" /\ call[v] = NoHandler
         \/ claim[v] = "bound" /\ claim'[v] = "released"
  BY DEF CreatePVC, AbandonPVC, DeletePVC, faultVars, TypeOK
<1>2. call[v] = NoHandler
  BY <1>1 DEF TempInv, RunInv, PhasesAgree
<1>3. PathsAgree' /\ NamesOwn' /\ StaleOlder' /\ MakersApart'
  BY <1>1
  DEF TempInv, RunInv, PathsAgree, NamesOwn, StaleOlder, MakersApart, Making
<1>4. PhasesAgree'
  <2>1. \A w \in Volumes : pv'[w] # NoPV => claim'[w] \in {"bound", "released"}
    BY <1>1 DEF TempInv, RunInv, PhasesAgree
  <2>2. \A w \in Volumes : claim'[w] \in {"none", "pending"} => pv'[w] = NoPV
    BY <1>1 DEF TempInv, RunInv, PhasesAgree
  <2>3. \A g \in Handlers : rpc'[g].op = "delete" =>
          claim'[rpc'[g].volumeID] \in {"released", "gone"}
    <3> SUFFICES ASSUME NEW g \in Handlers, rpc[g].op = "delete"
                 PROVE  claim'[rpc[g].volumeID] \in {"released", "gone"}
      BY <1>1
    <3>1. rpc[g].volumeID \in Volumes
      <4>1. rpc[g].pc # "idle"
        BY DEF TempInv, RunInv, PathsAgree, OnPath
      <4>2. CallsName
        BY DEF TypeOK
      <4> QED  BY <4>1, <4>2 DEF CallsName
    <3>2. claim[rpc[g].volumeID] \in {"released", "gone"}
      BY DEF TempInv, RunInv, PhasesAgree
    <3> QED  BY <1>1, <3>1, <3>2
  <2>4. \A w \in Volumes : call'[w] # NoHandler =>
          claim'[w] = IF rpc'[call'[w]].op = "delete" THEN "released" ELSE "pending"
    BY <1>1, <1>2 DEF TempInv, RunInv, PhasesAgree
  <2> QED  BY <2>1, <2>2, <2>3, <2>4 DEF PhasesAgree
<1>5. MakersProgress'
  BY <1>1 DEF TempInv, MakersProgress, Progress, Making, cosVars
<1>6. TempBucketsOwn'
  <2> SUFFICES ASSUME NEW b \in TempBuckets, objects'[b] # {}
               PROVE  claim'[b[1]] = "gone" \/ pv[b[1]].bucketName = b
    BY <1>1 DEF TempInv, TempBucketsOwn, cosVars
  <2>1. b[1] \in Volumes
    BY TempBucketShape
  <2>2. claim[b[1]] = "gone" \/ pv[b[1]].bucketName = b
    BY <1>1 DEF TempInv, TempBucketsOwn, cosVars
  <2> QED  BY <1>1, <2>1, <2>2
<1>7. \A w \in Volumes : HasTempBucket(w)' => HasTempBucket(w)
  BY <1>1 DEF HasTempBucket
<1>8. TempBucketIntact' /\ ConfiguredAsRequested'
  BY <1>1, <1>7 DEF TempInv, TempBucketIntact, ConfiguredAsRequested, cosVars
<1> QED  BY <1>3, <1>4, <1>5, <1>6, <1>8 DEF TempInv, RunInv

(* A step that leaves everything the invariant is about as it is.          *)
LEMMA TempStutters ==
  ASSUME TempInv, UNCHANGED <<cosVars, k8sVars, call, rpc, clock, late>>
  PROVE  TempInv'
<1>1. UNCHANGED <<exists, origin, objects, versioning, quota, claim, spec, pv,
                  call, rpc, clock, late>>
  BY DEF cosVars, k8sVars
<1>2. RunInv'
  BY <1>1
  DEF TempInv, RunInv, PathsAgree, NamesOwn, PhasesAgree, StaleOlder,
      MakersApart, Making
<1>3. MakersProgress'
  BY <1>1 DEF TempInv, MakersProgress, Progress, Making
<1>4. TempBucketsOwn' /\ TempBucketIntact' /\ ConfiguredAsRequested'
  BY CosPart
<1> QED  BY <1>2, <1>3, <1>4 DEF TempInv

(* Initially no generated bucket exists and nothing runs.                  *)
LEMMA InitTemp == Init => TempInv
<1> SUFFICES ASSUME Init PROVE TempInv
  OBVIOUS
<1>1. /\ \A h \in Handlers : rpc[h] = Idle
      /\ \A v \in Volumes : /\ pv[v] = NoPV /\ claim[v] = "none"
                            /\ call[v] = NoHandler
      /\ exists \subseteq UserBuckets
      /\ \A b \in Buckets : objects[b] = {}
  BY DEF Init
<1>2. \A h \in Handlers : ~Making(h)
  BY <1>1, IdleView DEF Making
<1>3. PathsAgree
  BY <1>1, IdleView DEF PathsAgree, OnPath
<1>4. NamesOwn
  BY <1>1, IdleView, NoTempName DEF NamesOwn
<1>5. PhasesAgree
  BY <1>1, IdleView DEF PhasesAgree
<1>6. StaleOlder /\ MakersApart /\ MakersProgress
  BY <1>2 DEF StaleOlder, MakersApart, MakersProgress
<1>7. TempBucketsOwn
  BY <1>1, UserNotTemp DEF TempBucketsOwn, Buckets
<1>8. TempBucketIntact /\ ConfiguredAsRequested
  BY <1>1 DEF TempBucketIntact, ConfiguredAsRequested, HasTempBucket
<1> QED  BY <1>3, <1>4, <1>5, <1>6, <1>7, <1>8 DEF TempInv, RunInv

(* The invariant is inductive.                                             *)
LEMMA TempStep == TypeOK /\ TempInv /\ [Next]_vars => TempInv'
<1> SUFFICES ASSUME TypeOK, TempInv, [Next]_vars PROVE TempInv'
  OBVIOUS
<1>1. ASSUME NEW h \in Handlers, CreateStep(h) \/ DeleteStep(h) PROVE TempInv'
  BY <1>1, TempHandler
<1>2. ASSUME NEW v \in Volumes, Provisioner(v) PROVE TempInv'
  <2>1. CASE DeleteVolumeReject(v)
    BY <2>1, TempStutters DEF DeleteVolumeReject, Fault
  <2>2. ASSUME NEW h \in Handlers, CreateVolume(v, h) \/ DeleteVolume(v, h)
        PROVE  TempInv'
    BY <2>2, TempStart
  <2> QED  BY <1>2, <2>1, <2>2 DEF Provisioner
<1>3. ASSUME NEW v \in Volumes, Environment(v) PROVE TempInv'
  BY <1>3, TempClaim, TempPut, TempClock DEF Environment
<1>4. CASE Crash
  BY <1>4, TempCrash
<1>5. CASE Tick
  BY <1>5, TempClock
<1>6. CASE UNCHANGED vars
  BY <1>6, TempStutters DEF vars, faultVars
<1>7. ASSUME NEW h \in Handlers, LookupStep(h) PROVE TempInv'
  BY <1>7, TempLookupErr, TempNames DEF LookupStep
<1> QED  BY <1>1, <1>2, <1>3, <1>4, <1>5, <1>6, <1>7 DEF Next

LEMMA TempAlways == Spec => [](TypeOK /\ TempInv)
<1>1. Init => TypeOK /\ TempInv
  BY InitType, InitTemp
<1>2. TypeOK /\ TempInv /\ [Next]_vars => (TypeOK /\ TempInv)'
  BY TypeStep, TempStep
<1> QED  BY <1>1, <1>2, PTL DEF Spec

(***************************************************************************)
(* TempBucketIntact: no retry, roll back, late deletion or crash of the    *)
(* controller takes the generated bucket of a bound volume away.           *)
(***************************************************************************)
THEOREM TempBucketStays == Spec => []TempBucketIntact
<1>1. TempInv => TempBucketIntact
  BY DEF TempInv
<1> QED  BY <1>1, TempAlways, PTL

(***************************************************************************)
(* ConfiguredAsRequested: CreateVolume answers success only for a bucket   *)
(* with the quota and versioning of the claim, and nobody takes them away  *)
(* while the volume is bound.                                              *)
(***************************************************************************)
THEOREM TempBucketConfigured == Spec => []ConfiguredAsRequested
<1>1. TempInv => ConfiguredAsRequested
  BY DEF TempInv
<1> QED  BY <1>1, TempAlways, PTL
=============================================================================
