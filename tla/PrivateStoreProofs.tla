------------------------- MODULE PrivateStoreProofs -------------------------
(***************************************************************************)
(* The controller implements VolumeStore: with the refinement mapping of   *)
(* Store in ControllerServer, every step of the controller is a step of    *)
(* the private stores or leaves them as they are.  A step reaches the      *)
(* store of one volume at most, the one its goroutine or its pod is of, so *)
(* the argument goes volume by volume.                                     *)
(***************************************************************************)
EXTENDS TempBucketProofs

(* A step leaves the store of a volume on a generated bucket alone.        *)
KeepsStore(w) ==
  Generated(w) =>
    /\ claim'[w] = claim[w]
    /\ Contested(w)' <=> Contested(w)
    /\ Served(w)' <=> Served(w)
    /\ Served(w) => objects'[pv'[w].bucketName] = objects[pv[w].bucketName]

(* What is in the store of v after a step that reaches no other store.     *)
LEMMA OneVolume ==
  ASSUME NEW v \in Volumes, spec' = spec, \A w \in Volumes \ {v} : KeepsStore(w)
  PROVE  /\ storePhase' = [storePhase EXCEPT ![v] =
                             IF Generated(v) THEN claim'[v] ELSE "none"]
         /\ storeContested' = IF Contested(v)' THEN storeContested \cup {v}
                                               ELSE storeContested \ {v}
         /\ storeLive' = IF Served(v)' THEN storeLive \cup {v}
                                       ELSE storeLive \ {v}
         /\ storeData' = [storeData EXCEPT ![v] =
                            IF Served(v)' THEN objects'[pv'[v].bucketName]
                                          ELSE {}]
<1>1. \A w \in Volumes : Generated(w)' <=> Generated(w)
  BY DEF Generated
<1>2. \A w \in Volumes : Served(w) => Generated(w)
  BY DEF Served
<1>3. \A w \in Volumes : Served(w)' => Generated(w)
  BY <1>1 DEF Served
<1>4. storePhase' = [storePhase EXCEPT ![v] =
                       IF Generated(v) THEN claim'[v] ELSE "none"]
  BY <1>1 DEF storePhase, KeepsStore
<1>5. \A w \in Volumes \ {v} : Served(w)' <=> Served(w)
  BY <1>2, <1>3 DEF KeepsStore
<1>6. storeLive' = IF Served(v)' THEN storeLive \cup {v} ELSE storeLive \ {v}
  BY <1>5 DEF storeLive
<1>7. storeData' = [storeData EXCEPT ![v] =
                      IF Served(v)' THEN objects'[pv'[v].bucketName] ELSE {}]
  BY <1>2, <1>5 DEF storeData, KeepsStore
<1>8. \A w \in Volumes \ {v} : Contested(w)' <=> Contested(w)
  BY <1>1 DEF KeepsStore, Contested
<1>9. storeContested' = IF Contested(v)' THEN storeContested \cup {v}
                                        ELSE storeContested \ {v}
  BY <1>8 DEF storeContested
<1> QED  BY <1>4, <1>6, <1>7, <1>9

(* A step that reaches no store at all.                                    *)
LEMMA NoStoreReached ==
  ASSUME spec' = spec, \A w \in Volumes : KeepsStore(w)
  PROVE  UNCHANGED Store!storeVars
<1>1. \A w \in Volumes : Generated(w)' <=> Generated(w)
  BY DEF Generated
<1>2. \A w \in Volumes : Served(w) => Generated(w)
  BY DEF Served
<1>3. \A w \in Volumes : Served(w)' => Generated(w)
  BY <1>1 DEF Served
<1>4. storePhase' = storePhase
  BY <1>1 DEF storePhase, KeepsStore
<1>5. \A w \in Volumes : Served(w)' <=> Served(w)
  BY <1>2, <1>3 DEF KeepsStore
<1>6. storeLive' = storeLive
  BY <1>5 DEF storeLive
<1>7. storeData' = storeData
  BY <1>2, <1>5 DEF storeData, KeepsStore
<1>8. \A w \in Volumes : Contested(w)' <=> Contested(w)
  BY <1>1 DEF KeepsStore, Contested
<1>9. storeContested' = storeContested
  BY <1>8 DEF storeContested
<1> QED  BY <1>4, <1>6, <1>7, <1>9 DEF Store!storeVars

(* The store of a volume, read off the mapping.                            *)
LEMMA StoreAt ==
  ASSUME NEW v \in Volumes
  PROVE  /\ Generated(v) => storePhase[v] = claim[v]
         /\ v \in storeContested <=> Contested(v)
         /\ v \in storeLive <=> Served(v)
         /\ storeData[v] = IF Served(v) THEN objects[pv[v].bucketName] ELSE {}
BY DEF storePhase, storeContested, storeLive, storeData

(* A generated volume with a PV is on a bucket named after it.             *)
LEMMA OwnName ==
  ASSUME TypeOK, TempInv, NEW w \in Volumes, Generated(w)
  PROVE  \/ pv[w] = NoPV /\ pv[w].bucketName = NoBucket
         \/ pv[w].bucketName \in TempBuckets /\ pv[w].bucketName[1] = w
<1>1. pv[w] # NoPV => pv[w].bucketName \in TempBuckets
  BY DEF TempInv, RunInv, NamesOwn, Generated
<1>2. pv[w].bucketName \in TempBuckets => pv[w].bucketName[1] = w
  BY DEF TempInv, RunInv, NamesOwn
<1> QED  BY <1>1, <1>2 DEF NoPV

(* No bucket has no name.                                                  *)
LEMMA Unserved ==
  ASSUME TypeOK
  PROVE  NoBucket \notin exists /\ NoBucket \notin late
BY ConstantsAssumption DEF TypeOK, Buckets

(* A goroutine reaches only the store of its own volume.                   *)
LEMMA HandlerKeeps ==
  ASSUME TypeOK, TypeOK', TempInv, NEW h \in Handlers, Shape(h), OwnOnly(h),
         late' = late,
         NEW w \in Volumes, claim'[w] = claim[w], pv'[w] = pv[w],
         \/ pv[w] = NoPV
         \/ pv[w].bucketName # rpc[h].bucketName
         \/ pv[w].bucketName \in late
  PROVE  KeepsStore(w)
<1> SUFFICES ASSUME Generated(w)
             PROVE  /\ claim'[w] = claim[w]
                    /\ Contested(w)' <=> Contested(w)
                    /\ Served(w)' <=> Served(w)
                    /\ Served(w) =>
                         objects'[pv'[w].bucketName] = objects[pv[w].bucketName]
  BY DEF KeepsStore
<1>1. spec' = spec
  BY VolumeView
<1>2. NoBucket \notin exists /\ NoBucket \notin exists'
  BY ConstantsAssumption DEF TypeOK
<1>20. Contested(w)' <=> Contested(w)
  BY <1>1 DEF Contested, Generated
<1>3. CASE pv[w] = NoPV
  BY <1>1, <1>2, <1>20, <1>3 DEF Served, Generated, NoPV
<1>4. CASE pv[w] # NoPV /\ pv[w].bucketName \notin late
  <2>1. pv[w].bucketName \in Buckets \ {rpc[h].bucketName}
    BY <1>4, OwnName DEF Buckets
  <2> QED  BY <1>1, <1>20, <2>1 DEF Served, Generated, OwnOnly
<1>5. CASE pv[w].bucketName \in late
  <2>1. ~Served(w) /\ ~Served(w)'
    BY <1>5 DEF Served
  <2> QED  BY <1>20, <2>1
<1> QED  BY <1>3, <1>4, <1>5

(* DeleteVolume empties and deletes the bucket of a released volume.       *)
LEMMA EraseStep ==
  ASSUME TypeOK, TypeOK', TempInv, NEW h \in Handlers, NEW v \in Volumes,
         CreateStep(h) \/ DeleteStep(h),
         Generated(v), claim'[v] = claim[v], pv'[v] = pv[v], pv[v] # NoPV,
         pv[v].bucketName = rpc[h].bucketName, pv[v].bucketName \notin late,
         spec' = spec, late' = late,
         \A w \in Volumes \ {v} : KeepsStore(w)
  PROVE  [Store!Next]_(Store!storeVars)
<1> DEFINE b == rpc[h].bucketName
<1>1. b \in TempBuckets /\ b \in Buckets /\ rpc[h].volumeID = v
  BY OwnName DEF Buckets, TempInv, RunInv, NamesOwn
<1>2. rpc[h].op = "delete"
  <2>1. ~Making(h)
    BY DEF TempInv, RunInv, MakersApart
  <2>2. rpc[h].op = "none" => rpc[h] = Idle
    BY DEF TempInv, RunInv, PathsAgree, OnPath, TypeOK, CallsName
  <2>3. rpc[h].op # "none"
    BY <1>1, <2>2, NoTempName
  <2> QED  BY <1>1, <2>1, <2>3 DEF Making, TempInv, RunInv, PathsAgree, OnPath
<1>3. claim[v] = "released"
  BY <1>1, <1>2 DEF TempInv, RunInv, PhasesAgree
<1>40. storeContested' = storeContested
  <2>1. ~Contested(v) /\ ~Contested(v)'
    BY DEF Contested
  <2>2. storeContested' = storeContested \ {v} /\ v \notin storeContested
    BY <2>1, OneVolume, StoreAt
  <2> QED  BY <2>2
<1>4. /\ storePhase' = storePhase
      /\ storePhase[v] = "released"
      /\ storeLive' = IF b \in exists' THEN storeLive \cup {v}
                                       ELSE storeLive \ {v}
      /\ storeData' = [storeData EXCEPT ![v] =
                         IF b \in exists' THEN objects'[b] ELSE {}]
  <2>1. Served(v)' <=> b \in exists'
    BY DEF Served, Generated
  <2>2. storePhase' = [storePhase EXCEPT ![v] = claim[v]] /\ storePhase[v] = claim[v]
    BY OneVolume, StoreAt
  <2>3. storePhase' = storePhase
    BY <2>2 DEF storePhase
  <2> QED  BY <1>3, <2>1, <2>2, <2>3, OneVolume
<1>5. /\ v \in storeLive <=> b \in exists
      /\ storeData[v] = IF b \in exists THEN objects[b] ELSE {}
  BY StoreAt DEF Served
<1>6. storeLive \subseteq Volumes /\ storeData = [w \in Volumes |-> storeData[w]]
  BY DEF storeLive, storeData
<1> HIDE DEF b
<1>7. CASE UNCHANGED <<exists, objects>>
  <2>1. storeLive' = storeLive
    BY <1>4, <1>5, <1>7
  <2>2. storeData' = storeData
    BY <1>4, <1>5, <1>6, <1>7
  <2> QED  BY <1>4, <1>40, <2>1, <2>2 DEF Store!storeVars
<1>8. CASE DeleteObject(h)
  <2>1. PICK k : objects' = [objects EXCEPT ![b] = @ \ {k}]
    BY <1>8 DEF DeleteObject, b
  <2>2. b \in exists /\ exists' = exists
    BY <1>8 DEF DeleteObject, b
  <2>3. objects'[b] = objects[b] \ {k}
    BY <1>1, <2>1 DEF TypeOK, b
  <2>4. storeLive' = storeLive
    BY <1>4, <1>5, <2>2
  <2>5. storeData' = [storeData EXCEPT ![v] = storeData[v] \ {k}]
    BY <1>4, <1>5, <2>2, <2>3
  <2>6. CASE k \in storeData[v]
    <3>1. Store!Erase(v)
      BY <1>4, <1>40, <1>5, <2>2, <2>4, <2>5, <2>6 DEF Store!Erase
    <3> QED  BY <3>1 DEF Store!Next
  <2>7. CASE k \notin storeData[v]
    <3>1. storeData[v] \ {k} = storeData[v]
      BY <2>7
    <3>2. storeData' = storeData
      BY <1>6, <2>5, <3>1
    <3> QED  BY <1>4, <1>40, <2>4, <3>2 DEF Store!storeVars
  <2> QED  BY <2>6, <2>7
<1>9. CASE DeleteBucket(h)
  <2>1. b \in exists /\ objects[b] = {} /\ b \notin exists'
    BY <1>9 DEF DeleteBucket, Deletable, b
  <2>2. storeLive' = storeLive \ {v} /\ storeData[v] = {}
    BY <1>4, <1>5, <2>1
  <2>3. storeData' = storeData
    BY <1>4, <1>6, <2>1, <2>2
  <2>4. Store!Erase(v)
    BY <1>4, <1>40, <1>5, <2>1, <2>2, <2>3 DEF Store!Erase
  <2> QED  BY <2>4 DEF Store!Next
<1>10. \/ UNCHANGED <<exists, objects>> \/ DeleteObject(h) \/ DeleteBucket(h)
  <2>1. rpc[h].pc # "create"
    BY <1>2 DEF TempInv, RunInv, PathsAgree, OnPath
  <2> QED
    BY <2>1
    DEF CreateStep, HeadBucketOk, HeadBucketErr, CreateBucketOk, CreateBucketErr,
        CheckAccessOk, CheckAccessErr, UpdateQuotaLimitOk, UpdateQuotaLimitErr,
        SetBucketVersioningOk, SetBucketVersioningErr, CreateVolumeReply,
        DeleteStep, BucketToDelete, BucketToDeleteNone, ListObjects,
        ListObjectsNoSuchBucket, ListObjectsErr, DeleteObjectErr,
        DeleteObjectsDone, DeleteBucketErr, cosVars
<1> QED  BY <1>7, <1>8, <1>9, <1>10

(* DeleteVolume is answered: the store of a released volume is forgotten.  *)
LEMMA ReclaimStep ==
  ASSUME TypeOK, TypeOK', TempInv, NEW h \in Handlers, Reclaims(h), late' = late,
         NEW v \in Volumes, v = rpc[h].volumeID, Generated(v), spec' = spec,
         \A w \in Volumes \ {v} : KeepsStore(w)
  PROVE  Store!Next
<1>1. claim[v] = "released" /\ claim'[v] = "gone" /\ pv'[v] = NoPV
  <2>1. claim[v] = "released"
    BY RunReclaims DEF TempInv
  <2>2. claim'[v] = "gone" /\ pv'[v] = NoPV
    BY DEF Reclaims, TypeOK
  <2> QED  BY <2>1, <2>2
<1>2. ~Served(v)' /\ ~Contested(v)'
  <2>1. NoBucket \notin exists' /\ NoBucket \notin late'
    BY ConstantsAssumption DEF TypeOK, Buckets
  <2>2. pv'[v].bucketName = NoBucket
    BY <1>1 DEF NoPV
  <2> QED  BY <2>1, <2>2 DEF Served, Contested
<1>3. /\ storePhase' = [storePhase EXCEPT ![v] = "gone"]
      /\ storePhase[v] = "released"
      /\ storeContested' = storeContested \ {v}
      /\ storeLive' = storeLive \ {v}
      /\ storeData' = [storeData EXCEPT ![v] = {}]
  <2>1. /\ storePhase' = [storePhase EXCEPT ![v] =
                            IF Generated(v) THEN claim'[v] ELSE "none"]
        /\ storeContested' = IF Contested(v)' THEN storeContested \cup {v}
                                              ELSE storeContested \ {v}
        /\ storeLive' = IF Served(v)' THEN storeLive \cup {v} ELSE storeLive \ {v}
        /\ storeData' = [storeData EXCEPT ![v] =
                           IF Served(v)' THEN objects'[pv'[v].bucketName] ELSE {}]
    BY OneVolume
  <2>2. storePhase[v] = claim[v]
    BY StoreAt
  <2> QED  BY <1>1, <1>2, <2>1, <2>2
<1>4. Store!Reclaim(v)
  BY <1>3 DEF Store!Reclaim, Store!Move
<1> QED  BY <1>4 DEF Store!Next

(* CreateVolume is answered: the bucket of the volume is there and empty,  *)
(* because no other volume and no earlier PV ever had its name, or another *)
(* attempt chose the name, too.                                            *)
LEMMA ProvisionStep ==
  ASSUME TypeOK, TypeOK', TempInv, NEW h \in Handlers, Binds(h),
         CreateVolumeReply(h), late' = late,
         NEW v \in Volumes, v = rpc[h].volumeID, Generated(v), spec' = spec,
         \A w \in Volumes \ {v} : KeepsStore(w)
  PROVE  Store!Next
<1> DEFINE b == rpc[h].bucketName
<1>1. /\ claim[v] = "pending" /\ claim'[v] = "bound"
      /\ pv'[v].bucketName = b
      /\ rpc[h].pc = "reply" /\ rpc[h].op = "create"
      /\ UNCHANGED <<exists, objects>>
  BY RunBinds DEF TempInv, Binds, TypeOK, CreateVolumeReply, cosVars
<1>2. pv[v] = NoPV /\ ~Served(v) /\ ~Contested(v)
  <2>1. pv[v] = NoPV
    BY <1>1 DEF TempInv, RunInv, PhasesAgree
  <2> QED  BY <2>1, Unserved DEF Served, Contested, NoPV
<1>3. b \in TempBuckets /\ b[1] = v
  BY <1>1 DEF TempInv, RunInv, NamesOwn, Generated
<1>4. Generated(v)'
  BY DEF Generated
<1>5. /\ storePhase' = [storePhase EXCEPT ![v] = "bound"]
      /\ storePhase[v] = "pending"
      /\ v \notin storeLive /\ v \notin storeContested /\ storeData[v] = {}
  <2>1. storePhase' = [storePhase EXCEPT ![v] = claim'[v]]
    BY OneVolume
  <2>2. /\ storePhase[v] = claim[v] /\ storeData[v] = {}
        /\ v \notin storeLive /\ v \notin storeContested
    BY <1>2, StoreAt
  <2> QED  BY <1>1, <2>1, <2>2
<1>6. /\ storeContested' = IF Contested(v)' THEN storeContested \cup {v}
                                            ELSE storeContested \ {v}
      /\ storeLive' = IF Served(v)' THEN storeLive \cup {v} ELSE storeLive \ {v}
      /\ storeData' = [storeData EXCEPT ![v] =
                         IF Served(v)' THEN objects'[pv'[v].bucketName] ELSE {}]
  BY OneVolume
<1>7. CASE b \notin late
  <2>1. b \in exists
    <3>1. Making(h)
      BY <1>1, <1>3 DEF Making
    <3> QED  BY <1>1, <1>7, <3>1 DEF TempInv, MakersProgress, Progress
  <2>2. objects[b] = {}
    <3>1. pv[v].bucketName # b
      BY <1>2, <1>3, NoTempName
    <3> QED  BY <1>1, <1>3, <3>1 DEF TempInv, TempBucketsOwn
  <2>3. Served(v)' /\ ~Contested(v)'
    BY <1>1, <1>4, <1>7, <2>1 DEF Served, Contested
  <2>4. storeLive' = storeLive \cup {v} /\ storeContested' = storeContested
    BY <1>5, <1>6, <2>3
  <2>5. storeData' = storeData
    <3>1. storeData' = [storeData EXCEPT ![v] = {}]
      BY <1>1, <1>6, <2>2, <2>3
    <3> QED  BY <1>5, <3>1 DEF storeData
  <2>6. Store!Provision(v)
    BY <1>5, <2>4, <2>5 DEF Store!Provision, Store!Move
  <2> QED  BY <2>6 DEF Store!Next
<1>8. CASE b \in late
  <2>1. ~Served(v)' /\ Contested(v)'
    BY <1>1, <1>4, <1>8 DEF Served, Contested
  <2>2. storeLive' = storeLive /\ storeContested' = storeContested \cup {v}
    BY <1>5, <1>6, <2>1
  <2>3. storeData' = storeData
    <3>1. storeData' = [storeData EXCEPT ![v] = {}]
      BY <1>6, <2>1
    <3> QED  BY <1>5, <3>1 DEF storeData
  <2>4. Store!Provision(v)
    BY <1>5, <2>2, <2>3 DEF Store!Provision, Store!Move
  <2> QED  BY <2>4 DEF Store!Next
<1> QED  BY <1>7, <1>8

(***************************************************************************)
(* CreateVolume chooses its bucket.  An awaited one reaches no store; one  *)
(* that nobody waits for may choose the name the retry has handed out.     *)
(***************************************************************************)
LEMMA NamingImplements ==
  ASSUME TypeOK, TypeOK', TempInv, NEW h \in Handlers, GetSecretOk(h)
  PROVE  [Store!Next]_(Store!storeVars)
<1>0. RpcOK /\ K8sOK /\ clock \in 0..MaxClock
  BY TypeParts
<1>1. PICK v \in Volumes : v = rpc[h].volumeID
  BY DEF GetSecretOk, TypeOK, CallsName
<1> DEFINE temp == getTempBucketName(v, clock)
<1>2. UNCHANGED <<exists, objects, claim, spec, pv>>
  BY DEF GetSecretOk, cosVars, k8sVars
<1>3. late' = late \/ late' = late \cup {temp}
  BY <1>1 DEF GetSecretOk
<1>4. temp \in TempBuckets /\ temp[1] = v
  BY <1>0, TempBucketShape
<1>5. \A w \in Volumes : Generated(w)' <=> Generated(w)
  BY <1>2 DEF Generated
<1> HIDE DEF temp
<1>6. ASSUME NEW w \in Volumes, pv[w].bucketName # temp
      PROVE  KeepsStore(w)
  <2>1. pv'[w].bucketName \in late' <=> pv[w].bucketName \in late
    BY <1>2, <1>3, <1>6
  <2>2. /\ Contested(w)' <=> Contested(w)
        /\ Served(w)' <=> Served(w)
    BY <1>2, <1>5, <2>1 DEF Contested, Served
  <2> QED  BY <1>2, <2>2 DEF KeepsStore
<1>7. \A w \in Volumes \ {v} : KeepsStore(w)
  <2> SUFFICES ASSUME NEW w \in Volumes \ {v}
               PROVE  KeepsStore(w)
    OBVIOUS
  <2>1. pv[w].bucketName \in TempBuckets => pv[w].bucketName[1] = w
    BY DEF TempInv, RunInv, NamesOwn
  <2> QED  BY <1>4, <1>6, <2>1
<1>8. CASE late' = late \/ ~Generated(v) \/ pv[v].bucketName # temp \/ temp \in late
  <2>1. KeepsStore(v)
    <3>1. CASE late' = late
      BY <1>2, <1>5, <3>1 DEF KeepsStore, Contested, Served
    <3>2. CASE ~Generated(v)
      BY <3>2 DEF KeepsStore
    <3>3. CASE pv[v].bucketName # temp
      BY <1>6, <3>3
    <3>4. CASE temp \in late
      <4>1. late' = late
        BY <1>3, <3>4
      <4> QED  BY <3>1, <4>1
    <3> QED  BY <1>8, <3>1, <3>2, <3>3, <3>4
  <2>2. \A w \in Volumes : KeepsStore(w)
    BY <1>7, <2>1
  <2> QED  BY <1>2, <2>2, NoStoreReached
<1>9. CASE /\ late' = late \cup {temp} /\ Generated(v)
           /\ pv[v].bucketName = temp /\ temp \notin late
  <2>1. claim[v] \in {"bound", "released"}
    <3>1. pv[v] # NoPV
      BY <1>4, <1>9, NoTempName DEF NoPV
    <3> QED  BY <3>1 DEF TempInv, RunInv, PhasesAgree
  <2>2. ~Contested(v) /\ Contested(v)' /\ ~Served(v)'
    BY <1>2, <1>5, <1>9 DEF Contested, Served
  <2>3. /\ storePhase' = [storePhase EXCEPT ![v] = claim[v]]
        /\ storePhase[v] = claim[v] /\ v \notin storeContested
        /\ storeContested' = storeContested \cup {v}
        /\ storeLive' = storeLive \ {v}
        /\ storeData' = [storeData EXCEPT ![v] = {}]
    BY <1>2, <1>7, <1>9, <2>2, OneVolume, StoreAt
  <2>4. storePhase' = storePhase
    BY <2>3 DEF storePhase
  <2>5. Store!Contest(v)
    BY <2>1, <2>3, <2>4 DEF Store!Contest
  <2> QED  BY <2>5 DEF Store!Next
<1> QED  BY <1>3, <1>8, <1>9

(* Every step of a goroutine.                                              *)
LEMMA HandlerImplements ==
  ASSUME TypeOK, TypeOK', TempInv, NEW h \in Handlers, CreateStep(h) \/ DeleteStep(h)
  PROVE  [Store!Next]_(Store!storeVars)
<1>1. Shape(h) /\ OwnOnly(h)
  BY RunHandler, HandlerEffect DEF TempInv
<1>10. late' = late
  BY LateKept
<1>2. PICK v \in Volumes : v = rpc[h].volumeID
  <2>1. rpc[h].pc # "idle"
    BY DEF CreateStep, HeadBucketOk, HeadBucketErr, CreateBucketOk,
        CreateBucketErr, CheckAccessOk, CheckAccessErr, UpdateQuotaLimitOk,
        UpdateQuotaLimitErr, SetBucketVersioningOk, SetBucketVersioningErr,
        CreateVolumeReply, DeleteStep, BucketToDelete, BucketToDeleteNone,
        ListObjects, ListObjectsNoSuchBucket, ListObjectsErr, DeleteObject,
        DeleteObjectErr, DeleteObjectsDone, DeleteBucket, DeleteBucketErr
  <2> QED  BY <2>1 DEF TypeOK, CallsName
<1>3. spec' = spec
  BY <1>1, <1>2, VolumeView
<1>4. \A w \in Volumes \ {v} : KeepsStore(w)
  <2> SUFFICES ASSUME NEW w \in Volumes \ {v}, Generated(w) PROVE KeepsStore(w)
    BY DEF KeepsStore
  <2>1. claim'[w] = claim[w] /\ pv'[w] = pv[w]
    BY <1>1, <1>2, VolumeView
  <2>2. pv[w] = NoPV \/ pv[w].bucketName # rpc[h].bucketName
    <3>1. rpc[h].bucketName \in TempBuckets => rpc[h].bucketName[1] = v
      BY <1>2 DEF TempInv, RunInv, NamesOwn
    <3> QED  BY <3>1, OwnName
  <2> QED  BY <1>1, <1>10, <2>1, <2>2, HandlerKeeps
<1>5. CASE KeepsStore(v)
  <2>1. \A w \in Volumes : KeepsStore(w)
    BY <1>4, <1>5
  <2> QED  BY <1>3, <2>1, NoStoreReached
<1>6. CASE ~KeepsStore(v)
  <2>0. Generated(v)
    BY <1>6 DEF KeepsStore
  <2>1. CASE claim'[v] = claim[v] /\ pv'[v] = pv[v]
    <3>1. /\ pv[v] # NoPV /\ pv[v].bucketName = rpc[h].bucketName
          /\ pv[v].bucketName \notin late
      BY <1>1, <1>10, <1>2, <1>6, <2>1, HandlerKeeps
    <3> QED  BY <1>10, <1>2, <1>3, <1>4, <2>0, <2>1, <3>1, EraseStep
  <2>2. CASE Reclaims(h)
    BY <1>10, <1>2, <1>3, <1>4, <2>0, <2>2, ReclaimStep
  <2>3. CASE Binds(h)
    <3>1. rpc[h].pc = "reply"
      BY <2>3 DEF Binds
    <3>2. CreateVolumeReply(h)
      BY <3>1
      DEF CreateStep, HeadBucketOk, HeadBucketErr, CreateBucketOk,
        CreateBucketErr, CheckAccessOk, CheckAccessErr, UpdateQuotaLimitOk,
        UpdateQuotaLimitErr, SetBucketVersioningOk, SetBucketVersioningErr,
        DeleteStep, BucketToDelete, BucketToDeleteNone, ListObjects,
        ListObjectsNoSuchBucket, ListObjectsErr, DeleteObject,
        DeleteObjectErr, DeleteObjectsDone, DeleteBucket, DeleteBucketErr
    <3> QED  BY <1>10, <1>2, <1>3, <1>4, <2>0, <2>3, <3>2, ProvisionStep
  <2> QED  BY <1>1, <1>2, <2>1, <2>2, <2>3, VolumeView
<1> QED  BY <1>5, <1>6

(* A pod stores an object, in no store but its volume's own.               *)
LEMMA PutImplements ==
  ASSUME TypeOK, TempInv, NEW v \in Volumes, PutObject(v)
  PROVE  [Store!Next]_(Store!storeVars)
<1> DEFINE b == pv[v].bucketName
<1>1. /\ claim[v] = "bound" /\ b \in exists /\ b \in Buckets
      /\ UNCHANGED <<exists, claim, spec, pv, late>>
  BY DEF PutObject, k8sVars, faultVars, TypeOK
<1>2. PICK k \in Objects \ objects[b] :
        objects' = [objects EXCEPT ![b] = @ \cup {k}]
  BY DEF PutObject
<1>3. /\ objects'[b] = objects[b] \cup {k}
      /\ \A c \in Buckets \ {b} : objects'[c] = objects[c]
  BY <1>1, <1>2 DEF TypeOK
<1>4. \A w \in Volumes :
        (Served(w)' <=> Served(w)) /\ (Contested(w)' <=> Contested(w))
  BY <1>1 DEF Served, Contested, Generated
<1>5. \A w \in Volumes \ {v} : KeepsStore(w)
  <2> SUFFICES ASSUME NEW w \in Volumes \ {v}, Generated(w), Served(w)
               PROVE  objects'[pv[w].bucketName] = objects[pv[w].bucketName]
    BY <1>1, <1>4 DEF KeepsStore
  <2>1. pv[w].bucketName \in TempBuckets /\ pv[w].bucketName[1] = w
    BY OwnName, Unserved DEF Served
  <2>2. pv[w].bucketName # b
    BY <2>1 DEF TempInv, RunInv, NamesOwn
  <2>3. pv[w].bucketName \in Buckets
    BY <2>1 DEF Buckets
  <2> QED  BY <1>3, <2>2, <2>3
<1>6. CASE ~Generated(v) \/ b \in late
  <2>0. Generated(v) => ~Served(v) /\ ~Served(v)'
    BY <1>4, <1>6 DEF Served
  <2>1. \A w \in Volumes : KeepsStore(w)
    BY <1>1, <1>4, <1>5, <2>0 DEF KeepsStore
  <2> QED  BY <1>1, <2>1, NoStoreReached
<1>7. CASE Generated(v) /\ b \notin late
  <2>1. Served(v) /\ Served(v)'
    BY <1>1, <1>4, <1>7 DEF Served
  <2>2. /\ storePhase[v] = "bound" /\ v \in storeLive
        /\ storeData[v] = objects[b]
    BY <1>1, <1>7, <2>1, StoreAt
  <2>3. /\ storePhase' = [storePhase EXCEPT ![v] = claim[v]]
        /\ storeLive' = storeLive \cup {v}
        /\ storeData' = [storeData EXCEPT ![v] = objects[b] \cup {k}]
    BY <1>1, <1>3, <1>5, <1>7, <2>1, OneVolume
  <2>4. storePhase' = storePhase
    BY <1>1, <2>2, <2>3 DEF storePhase
  <2>5. storeLive' = storeLive
    BY <2>2, <2>3
  <2>50. storeContested' = storeContested
    BY <1>4 DEF storeContested
  <2>6. Store!Put(v)
    BY <2>2, <2>3, <2>4, <2>5, <2>50 DEF Store!Put
  <2> QED  BY <2>6 DEF Store!Next
<1> QED  BY <1>6, <1>7

(* The user makes or deletes a claim.                                      *)
LEMMA ClaimImplements ==
  ASSUME TypeOK, NEW v \in Volumes, CreatePVC(v) \/ AbandonPVC(v) \/ DeletePVC(v)
  PROVE  [Store!Next]_(Store!storeVars)
<1>1. /\ UNCHANGED <<exists, objects, spec, pv, late>>
      /\ \A w \in Volumes \ {v} : claim'[w] = claim[w]
      /\ \/ claim[v] = "none" /\ claim'[v] = "pending"
         \/ claim[v] = "pending" /\ claim'[v] = "gone"
         \/ claim[v] = "bound" /\ claim'[v] = "released"
  BY DEF CreatePVC, AbandonPVC, DeletePVC, TypeOK, cosVars, faultVars
<1>2. \A w \in Volumes :
        (Served(w)' <=> Served(w)) /\ (Contested(w)' <=> Contested(w))
  BY <1>1 DEF Served, Contested, Generated
<1>3. \A w \in Volumes \ {v} : KeepsStore(w)
  BY <1>1, <1>2 DEF KeepsStore
<1>4. CASE ~Generated(v)
  <2>1. \A w \in Volumes : KeepsStore(w)
    BY <1>3, <1>4 DEF KeepsStore
  <2> QED  BY <1>1, <2>1, NoStoreReached
<1>5. CASE Generated(v)
  <2>1. /\ storePhase' = [storePhase EXCEPT ![v] = claim'[v]]
        /\ storePhase[v] = claim[v]
    BY <1>1, <1>3, <1>5, OneVolume, StoreAt
  <2>2. storeLive' = storeLive
    BY <1>2 DEF storeLive
  <2>3. storeData' = storeData
    BY <1>1, <1>2 DEF storeData
  <2>30. storeContested' = storeContested
    BY <1>2 DEF storeContested
  <2>4. Store!Request(v) \/ Store!Abandon(v) \/ Store!Release(v)
    BY <1>1, <2>1, <2>2, <2>3, <2>30
    DEF Store!Request, Store!Abandon, Store!Release, Store!Move
  <2> QED  BY <2>4 DEF Store!Next
<1> QED  BY <1>4, <1>5

(* A step of neither COS nor Kubernetes.                                   *)
LEMMA StoreStutters ==
  ASSUME UNCHANGED <<cosVars, k8sVars, late>>
  PROVE  UNCHANGED Store!storeVars
<1>1. UNCHANGED <<exists, objects, claim, spec, pv, late>>
  BY DEF cosVars, k8sVars
<1>2. \A w \in Volumes : KeepsStore(w)
  BY <1>1 DEF KeepsStore, Served, Contested, Generated
<1> QED  BY <1>1, <1>2, NoStoreReached

(* Every step of the controller is a step of the stores, or none.          *)
LEMMA StepImplements ==
  ASSUME TypeOK, TypeOK', TempInv, [Next]_vars
  PROVE  [Store!Next]_(Store!storeVars)
<1>1. ASSUME NEW h \in Handlers, CreateStep(h) \/ DeleteStep(h)
      PROVE  [Store!Next]_(Store!storeVars)
  BY <1>1, HandlerImplements
<1>2. ASSUME NEW v \in Volumes, Provisioner(v)
      PROVE  [Store!Next]_(Store!storeVars)
  <2>1. UNCHANGED <<cosVars, k8sVars, late>>
    BY <1>2 DEF Provisioner, DeleteVolumeReject, Fault, CreateVolume,
       DeleteVolume, faultVars
  <2> QED  BY <2>1, StoreStutters
<1>3. ASSUME NEW v \in Volumes, Environment(v)
      PROVE  [Store!Next]_(Store!storeVars)
  <2>1. CASE Timeout(v)
    BY <2>1, StoreStutters DEF Timeout, Fault
  <2> QED  BY <1>3, <2>1, ClaimImplements, PutImplements DEF Environment
<1>4. CASE Crash \/ Tick \/ UNCHANGED vars
  BY <1>4, StoreStutters DEF Crash, Tick, vars, Fault, faultVars
<1>5. ASSUME NEW h \in Handlers, LookupStep(h)
      PROVE  [Store!Next]_(Store!storeVars)
  <2>1. CASE GetSecretErr(h)
    BY <2>1, StoreStutters
    DEF GetSecretErr, ReturnError, Fault, NoFault, faultVars
  <2> QED  BY <1>5, <2>1, NamingImplements DEF LookupStep
<1> QED  BY <1>1, <1>2, <1>3, <1>4, <1>5 DEF Next

(* No store exists initially.                                              *)
LEMMA InitImplements == Init => Store!Init
<1> SUFFICES ASSUME Init PROVE Store!Init
  OBVIOUS
<1>1. /\ claim = [v \in Volumes |-> "none"]
      /\ \A v \in Volumes : pv[v].bucketName = NoBucket
  BY DEF Init, NoPV
<1>2. \A v \in Volumes : ~Served(v) /\ ~Contested(v)
  BY <1>1, InitType, Unserved DEF Served, Contested
<1>3. storePhase = [v \in Volumes |-> "none"]
  BY <1>1 DEF storePhase
<1>4. storeLive = {}
  BY <1>2 DEF storeLive
<1>5. storeData = [v \in Volumes |-> {}]
  BY <1>2 DEF storeData
<1>6. storeContested = {}
  BY <1>2 DEF storeContested
<1> QED  BY <1>3, <1>4, <1>5, <1>6 DEF Store!Init

(***************************************************************************)
(* PrivateStore: the controller implements VolumeStore.  A generated       *)
(* bucket is handed out empty, loses nothing while its volume is bound, is *)
(* emptied only after the claim was deleted, and no step on one volume     *)
(* touches the bucket of another, unless a CreateVolume nobody waited for  *)
(* chose the bucket's name in the same second.                             *)
(***************************************************************************)
THEOREM ControllerImplementsStore == Spec => PrivateStore
<1>1. Init => Store!Init
  BY InitImplements
<1>2. TypeOK /\ TypeOK' /\ TempInv /\ [Next]_vars =>
        [Store!Next]_(Store!storeVars)
  BY StepImplements
<1>3. Spec => [](TypeOK /\ TempInv)
  BY TempAlways
<1> QED  BY <1>1, <1>2, <1>3, PTL DEF Spec, PrivateStore, Store!Spec
=============================================================================
