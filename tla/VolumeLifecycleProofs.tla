------------------------ MODULE VolumeLifecycleProofs ------------------------
(***************************************************************************)
(* The invariants of VolumeLifecycle, for every set of namespaces,         *)
(* buckets, endpoints, secrets and StorageClasses and any number of        *)
(* changes to the secrets.                                                 *)
(***************************************************************************)
EXTENDS VolumeLifecycle, TLAPS

Mounters == {"s3fs", "rclone"}

-----------------------------------------------------------------------------
(***************************************************************************)
(* Types.                                                                  *)
(***************************************************************************)

(* A secret that is there has the fields parseSecret looks for.            *)
LEMMA SecretFields ==
  ASSUME TypeOK, NEW ns \in Namespaces, secret[ns] # None
  PROVE  /\ secret[ns] \in SecretType
         /\ secret[ns].bucketName \in UserBuckets \cup {None}
         /\ secret[ns].cosEndpoint \in Endpoints \cup {None}
         /\ secret[ns].mounter \in Mounters \cup {None}
BY ConstantsAssumption DEF TypeOK, SecretType, Mounters

(* What a StorageClass may say.                                            *)
LEMMA ClassFields ==
  ASSUME TypeOK
  PROVE  /\ class.direct \in BOOLEAN
         /\ class.cosEndpoint \in Endpoints \cup {None}
         /\ class.mounter \in Mounters \cup {None}
BY ConstantsAssumption DEF TypeOK, ClassType, Mounters

(* What a PV says.                                                         *)
LEMMA PVFields ==
  ASSUME TypeOK, pv # None
  PROVE  /\ pv.bucketName \in Buckets
         /\ pv.userProvidedBucket \in BOOLEAN
         /\ pv.cosEndpoint \in Endpoints
         /\ pv.mounter \in Mounters \cup {None}
         /\ pv.secretNamespace \in Namespaces
BY DEF TypeOK, PVType, Mounters

(* A pod has one of the two mounters, whatever the PV and the secret say.  *)
LEMMA NewMounterType ==
  ASSUME NEW a \in Mounters \cup {None}, NEW s \in Mounters \cup {None}
  PROVE  NewMounter(a, s) \in Mounters
BY ConstantsAssumption DEF NewMounter, Or, Mounters

(* parseCustomSecret drops the mounter and nothing else.                   *)
LEMMA ParsedSecret ==
  ASSUME NEW s \in SecretType
  PROVE  /\ parseCustomSecret(s).bucketName = s.bucketName
         /\ parseCustomSecret(s).cosEndpoint = s.cosEndpoint
         /\ parseCustomSecret(s).mounter = None
         /\ parseCustomSecret(s).auth = s.auth
BY DEF parseCustomSecret, SecretType

(* What CreateVolume does, with the secret read by either path.            *)
LEMMA CreateVolumeFacts ==
  ASSUME TypeOK, CreateVolume
  PROVE  LET s == secret[pvc.namespace]
             b == Or(s.bucketName, TempBucket)
             e == Or(s.cosEndpoint, class.cosEndpoint)
         IN  /\ pvc.namespace \in Namespaces
             /\ s # None
             /\ b \in Buckets
             /\ e \in Endpoints
             /\ home' = [home EXCEPT ![b] = e]
             /\ made' = IF home[b] = e THEN made ELSE made \cup {b}
             /\ \E m \in Mounters \cup {None} :
                  pv' = [bucketName |-> b, userProvidedBucket |-> (home[b] = e),
                         cosEndpoint |-> e, mounter |-> m,
                         secretNamespace |-> pvc.namespace]
<1> DEFINE s == secret[pvc.namespace]
           p == IF class.direct THEN s ELSE parseCustomSecret(s)
<1>1. pvc.namespace \in Namespaces /\ s # None
  BY DEF CreateVolume, TypeOK
<1>2. s \in SecretType /\ s.bucketName \in UserBuckets \cup {None}
      /\ s.cosEndpoint \in Endpoints \cup {None}
      /\ s.mounter \in Mounters \cup {None}
  BY <1>1, SecretFields
<1>3. /\ p.bucketName = s.bucketName
      /\ p.cosEndpoint = s.cosEndpoint
      /\ p.mounter \in Mounters \cup {None}
  BY <1>2, ParsedSecret, ClassFields
<1>4. Or(s.bucketName, TempBucket) \in Buckets
  BY <1>2 DEF Or, Buckets
<1>5. Or(s.cosEndpoint, class.cosEndpoint) \in Endpoints
  <2>1. Or(p.cosEndpoint, class.cosEndpoint) # None
    BY DEF CreateVolume
  <2> QED  BY <2>1, <1>2, <1>3, ClassFields DEF Or
<1>6. SavedMounter(p) \in Mounters \cup {None}
  BY <1>3, ClassFields DEF SavedMounter, Or
<1>7. SavedEndpoint(p) = Or(s.cosEndpoint, class.cosEndpoint)
  BY <1>3 DEF SavedEndpoint
<1> HIDE DEF p
<1>8. /\ home' = [home EXCEPT ![Or(p.bucketName, TempBucket)] =
                    Or(p.cosEndpoint, class.cosEndpoint)]
      /\ made' = IF home[Or(p.bucketName, TempBucket)] =
                      Or(p.cosEndpoint, class.cosEndpoint)
                 THEN made ELSE made \cup {Or(p.bucketName, TempBucket)}
      /\ pv' = [bucketName |-> Or(p.bucketName, TempBucket),
                userProvidedBucket |-> (home[Or(p.bucketName, TempBucket)] =
                                        Or(p.cosEndpoint, class.cosEndpoint)),
                cosEndpoint |-> SavedEndpoint(p), mounter |-> SavedMounter(p),
                secretNamespace |-> pvc.namespace]
  BY DEF CreateVolume, p
<1> QED  BY <1>1, <1>3, <1>4, <1>5, <1>6, <1>7, <1>8

(* A step of any kind keeps the types.                                     *)
LEMMA TypeStep ==
  ASSUME TypeOK, [Next]_vars
  PROVE  TypeOK'
<1> USE DEF k8sVars, podVars, noteVars
<1>1. CASE CreateVolume
  <2> DEFINE b == Or(secret[pvc.namespace].bucketName, TempBucket)
             e == Or(secret[pvc.namespace].cosEndpoint, class.cosEndpoint)
  <2>1. /\ b \in Buckets /\ e \in Endpoints /\ pvc.namespace \in Namespaces
        /\ home' = [home EXCEPT ![b] = e]
        /\ made' = IF home[b] = e THEN made ELSE made \cup {b}
    BY <1>1, CreateVolumeFacts
  <2>2. pv' \in PVType
    <3>1. PICK m \in Mounters \cup {None} :
            pv' = [bucketName |-> b, userProvidedBucket |-> (home[b] = e),
                   cosEndpoint |-> e, mounter |-> m,
                   secretNamespace |-> pvc.namespace]
      BY <1>1, CreateVolumeFacts
    <3>2. (home[b] = e) \in BOOLEAN
      OBVIOUS
    <3> QED  BY <2>1, <3>1, <3>2 DEF PVType, Mounters
  <2>3. pv' # None
    BY <2>2, ConstantsAssumption
  <2>4. home' \in [Buckets -> Endpoints \cup {None}] /\ made' \in SUBSET Buckets
    BY <2>1 DEF TypeOK
  <2> QED  BY <1>1, <2>1, <2>2, <2>3, <2>4 DEF TypeOK, CreateVolume
<1>2. CASE DeleteVolume
  <2>1. home' \in [Buckets -> Endpoints \cup {None}]
    BY <1>2 DEF TypeOK, DeleteVolume
  <2> QED  BY <1>2, <2>1 DEF TypeOK, DeleteVolume
<1>3. CASE NodePublishVolume
  <2>1. /\ PublishSecret \in SecretType
        /\ PublishBucket \in Buckets
        /\ PublishEndpoint \in Endpoints
        /\ PublishMounter \in Mounters
    <3>1. /\ pv.secretNamespace \in Namespaces /\ pv.bucketName \in Buckets
          /\ pv.cosEndpoint \in Endpoints /\ pv.mounter \in Mounters \cup {None}
      BY <1>3, PVFields DEF NodePublishVolume
    <3>2. /\ PublishSecret \in SecretType
          /\ PublishSecret.bucketName \in UserBuckets \cup {None}
          /\ PublishSecret.cosEndpoint \in Endpoints \cup {None}
          /\ PublishSecret.mounter \in Mounters \cup {None}
      BY <1>3, <3>1, SecretFields DEF NodePublishVolume, PublishSecret
    <3>3. PublishMounter \in Mounters
      BY <3>1, <3>2, NewMounterType DEF PublishMounter
    <3> QED
      BY <3>1, <3>2, <3>3 DEF PublishBucket, PublishEndpoint, Or, Buckets
  <2>2. CASE Mountable
    <3>1. mount' \in MountType /\ mount' # None
      <4>1. mount' = [bucketName |-> PublishBucket,
                      cosEndpoint |-> PublishEndpoint, alive |-> TRUE]
        BY <1>3, <2>2 DEF NodePublishVolume
      <4>2. mount' \in MountType
        BY <4>1, <2>1 DEF MountType
      <4> QED  BY <4>2, ConstantsAssumption
    <3> QED  BY <1>3, <2>1, <2>2, <3>1 DEF TypeOK, NodePublishVolume, Mounters
  <2>3. CASE ~Mountable
    BY <1>3, <2>1, <2>3 DEF TypeOK, NodePublishVolume, Mounters
  <2> QED  BY <2>2, <2>3
<1>4. CASE NodeUnpublishVolume
  BY <1>4 DEF TypeOK, NodeUnpublishVolume, RemoveAll, NoStats
<1>5. CASE NodeGetVolumeStats
  <2>1. stats' \in [result : {"none", "usage", "error", "abnormal"},
                    bucketName : Buckets \cup {None}]
    <3>1. CASE ~mount.alive
      BY <1>5, <3>1 DEF NodeGetVolumeStats
    <3>2. CASE mount.alive
      BY <1>5, <3>2, PVFields, SecretFields
      DEF NodeGetVolumeStats, GetBucketUsage, PublishSecret, Buckets
    <3> QED  BY <3>1, <3>2
  <2> QED  BY <1>5, <2>1 DEF TypeOK, NodeGetVolumeStats
<1>6. CASE CreatePod
  BY <1>6 DEF TypeOK, CreatePod, InUse
<1>7. CASE DeletePod
  BY <1>7 DEF TypeOK, DeletePod
<1>8. CASE ForceDeletePod
  BY <1>8 DEF TypeOK, ForceDeletePod
<1>9. CASE DeletePVC
  BY <1>9 DEF TypeOK, DeletePVC
<1>10. CASE EditSecret
  <2>1. secret' \in [Namespaces -> Secrets \cup {None}] /\ edited' \in BOOLEAN
    BY <1>10 DEF TypeOK, EditSecret
  <2>2. edits' \in 0..MaxEdits
    BY <1>10, ConstantsAssumption DEF TypeOK, EditSecret
  <2> QED  BY <1>10, <2>1, <2>2 DEF TypeOK, EditSecret
<1>11. CASE FuseDies
  <2>1. mount \in MountType
    BY <1>11 DEF TypeOK, FuseDies
  <2>2. mount' \in MountType /\ mount' # None
    BY <1>11, <2>1, ConstantsAssumption DEF FuseDies, MountType
  <2> QED  BY <1>11, <2>2 DEF TypeOK, FuseDies
<1>12. CASE UNCHANGED vars
  BY <1>12 DEF TypeOK, vars
<1> QED
  BY <1>1, <1>2, <1>3, <1>4, <1>5, <1>6, <1>7, <1>8, <1>9, <1>10, <1>11, <1>12
  DEF Next

(* Type correctness of the life cycle.  It says too that the PV is there   *)
(* exactly while the claim is bound or released, and that exactly a pod    *)
(* that runs or stops has something mounted.                               *)
THEOREM TypeCorrect == Spec => []TypeOK
<1>1. Init => TypeOK
  <2> SUFFICES ASSUME Init PROVE TypeOK
    OBVIOUS
  <2>1. /\ home \in [Buckets -> Endpoints \cup {None}]
        /\ stats \in [result : {"none", "usage", "error", "abnormal"},
                      bucketName : Buckets \cup {None}]
        /\ edits \in 0..MaxEdits
    BY ConstantsAssumption DEF Init, NoStats
  <2> QED  BY <2>1 DEF Init, TypeOK
<1>2. TypeOK /\ [Next]_vars => TypeOK'
  BY TypeStep
<1> QED  BY <1>1, <1>2, PTL DEF Spec

-----------------------------------------------------------------------------
(***************************************************************************)
(* The inductive invariant.                                                *)
(***************************************************************************)

(* CreateVolume makes a PV that agrees with the secret and the bucket.     *)
LEMMA CreateVolumeKeeps ==
  ASSUME TypeOK, TypeOK', LifecycleInv, CreateVolume
  PROVE  LifecycleInv'
<1> DEFINE s == secret[pvc.namespace]
           b == Or(s.bucketName, TempBucket)
           e == Or(s.cosEndpoint, class.cosEndpoint)
<1>1. /\ pvc.namespace \in Namespaces /\ s # None
      /\ b \in Buckets /\ e \in Endpoints
      /\ home' = [home EXCEPT ![b] = e]
      /\ made' = IF home[b] = e THEN made ELSE made \cup {b}
  BY CreateVolumeFacts
<1>2. PICK m : pv' = [bucketName |-> b, userProvidedBucket |-> (home[b] = e),
                      cosEndpoint |-> e, mounter |-> m,
                      secretNamespace |-> pvc.namespace]
  BY CreateVolumeFacts
<1>3. /\ pod = "none" /\ files = {} /\ made = {} /\ phase' = "bound"
      /\ UNCHANGED <<class, pvc, secret, pod, mount, files, stats, edited>>
  BY DEF CreateVolume, LifecycleInv, PendingIsBlank, k8sVars, podVars
<1>4. mount' = None
  BY <1>3 DEF TypeOK
<1>5. pv'.secretNamespace = pvc.namespace /\ pv'.bucketName = b
      /\ pv'.cosEndpoint = e /\ pv'.userProvidedBucket = (home[b] = e)
  BY <1>2
<1>6. PublishSecret' = s
  BY <1>3, <1>5 DEF PublishSecret
<1>7. SecretStillAgrees'
  <2>1. class' = class /\ pvc' = pvc
    BY <1>3
  <2> QED  BY <1>1, <1>5, <1>6, <2>1 DEF SecretStillAgrees
<1> HIDE DEF b, e
<1>8. PVTellsTheBucket'
  <2>1. home'[b] = e
    BY <1>1 DEF TypeOK
  <2>2. made' = IF pv'.userProvidedBucket THEN {} ELSE {b}
    BY <1>1, <1>3, <1>5
  <2> QED  BY <1>5, <2>1, <2>2 DEF PVTellsTheBucket
<1> QED
  BY <1>3, <1>4, <1>7, <1>8
  DEF LifecycleInv, PendingIsBlank, PodKeepsClaim, CredentialFilesRemoved,
      UsageHasMount, MountsOwnBucket, UsageOfMountedBucket

(* NodePublishVolume mounts the bucket of the PV while the secret agrees   *)
(* with it.                                                                *)
LEMMA PublishKeeps ==
  ASSUME TypeOK, LifecycleInv, NodePublishVolume
  PROVE  LifecycleInv'
<1>1. /\ pod = "starting" /\ pv # None /\ PublishSecret # None /\ mount = None
      /\ UNCHANGED <<class, pvc, secret, phase, pv, home, stats, made, edited>>
      /\ phase = "bound" /\ pod' \in {"starting", "running"}
  BY DEF NodePublishVolume, TypeOK, k8sVars, noteVars, LifecycleInv,
         PodKeepsClaim
<1>2. stats.result # "usage"
  BY <1>1 DEF LifecycleInv, UsageHasMount
<1>3. PublishSecret' = PublishSecret
  BY <1>1 DEF PublishSecret
<1>4. SecretStillAgrees' /\ PVTellsTheBucket'
  BY <1>1, <1>3 DEF LifecycleInv, SecretStillAgrees, PVTellsTheBucket
<1>5. CredentialFilesRemoved'
  BY <1>1 DEF CredentialFilesRemoved
<1>6. MountsOwnBucket'
  <2>1. CASE Mountable /\ ~edited
    <3>1. mount'.bucketName = Or(PublishSecret.bucketName, pv.bucketName)
          /\ mount'.cosEndpoint = Or(PublishSecret.cosEndpoint, pv.cosEndpoint)
      BY <2>1 DEF NodePublishVolume, PublishBucket, PublishEndpoint
    <3>2. /\ pv.bucketName = Or(PublishSecret.bucketName, TempBucket)
          /\ pv.cosEndpoint = Or(PublishSecret.cosEndpoint, class.cosEndpoint)
      BY <1>1, <2>1 DEF LifecycleInv, SecretStillAgrees
    <3> QED  BY <1>1, <3>1, <3>2 DEF MountsOwnBucket, Or
  <2>2. CASE ~Mountable \/ edited
    BY <1>1, <2>2 DEF NodePublishVolume, MountsOwnBucket
  <2> QED  BY <2>1, <2>2
<1> QED
  BY <1>1, <1>2, <1>4, <1>5, <1>6
  DEF LifecycleInv, PendingIsBlank, PodKeepsClaim, UsageHasMount,
      UsageOfMountedBucket

(* NodeGetVolumeStats reports on the bucket the secret names, which is the *)
(* PV's, and so the mounted one.                                           *)
LEMMA StatsKeeps ==
  ASSUME TypeOK, LifecycleInv, NodeGetVolumeStats
  PROVE  LifecycleInv'
<1>1. /\ pod = "running" /\ mount # None
      /\ UNCHANGED <<class, pvc, secret, phase, pv, home, pod, mount, files,
                     made, edited>>
  BY DEF NodeGetVolumeStats, TypeOK, k8sVars, noteVars
<1>2. UsageOfMountedBucket'
  <2> SUFFICES ASSUME stats'.result = "usage", ~edited
               PROVE  stats'.bucketName = mount.bucketName
    BY <1>1 DEF UsageOfMountedBucket
  <2>1. /\ pv # None
        /\ PublishSecret.bucketName # None
        /\ stats'.bucketName = PublishSecret.bucketName
    BY DEF NodeGetVolumeStats, GetBucketUsage
  <2>2. pv.bucketName = PublishSecret.bucketName
    BY <2>1 DEF LifecycleInv, SecretStillAgrees, Or
  <2>3. mount.bucketName = pv.bucketName
    BY <1>1, <2>1 DEF LifecycleInv, MountsOwnBucket
  <2> QED  BY <2>1, <2>2, <2>3
<1>3. PublishSecret' = PublishSecret
  BY <1>1 DEF PublishSecret
<1> QED
  BY <1>1, <1>2, <1>3
  DEF LifecycleInv, PendingIsBlank, PodKeepsClaim, SecretStillAgrees,
      PVTellsTheBucket, CredentialFilesRemoved, UsageHasMount, MountsOwnBucket

(* A changed secret leaves the PV alone; it counts as edited when it is    *)
(* the one the PV names.                                                   *)
LEMMA EditKeeps ==
  ASSUME TypeOK, LifecycleInv, EditSecret
  PROVE  LifecycleInv'
<1>1. UNCHANGED <<class, pvc, phase, pv, home, pod, mount, files, stats, made>>
  BY DEF EditSecret, k8sVars, podVars
<1>2. PICK ns \in Namespaces :
        /\ \E s : secret' = [secret EXCEPT ![ns] = s]
        /\ edited' = (edited \/ (pv # None /\ ns = pvc.namespace))
  BY DEF EditSecret
<1>3. SecretStillAgrees'
  <2> SUFFICES ASSUME pv # None, ~edited'
               PROVE  SecretStillAgrees'
    BY <1>1 DEF SecretStillAgrees, LifecycleInv
  <2>1. ~edited /\ ns # pvc.namespace /\ pv.secretNamespace = pvc.namespace
    BY <1>2 DEF LifecycleInv, SecretStillAgrees
  <2>2. pvc.namespace \in Namespaces
    BY DEF TypeOK
  <2>3. PublishSecret' = PublishSecret
    BY <1>1, <1>2, <2>1, <2>2 DEF PublishSecret, TypeOK
  <2> QED  BY <1>1, <2>1, <2>3 DEF LifecycleInv, SecretStillAgrees
<1>4. edited => edited'
  BY <1>2
<1> QED
  BY <1>1, <1>3, <1>4
  DEF LifecycleInv, PendingIsBlank, PodKeepsClaim, PVTellsTheBucket,
      CredentialFilesRemoved, UsageHasMount, MountsOwnBucket, UsageOfMountedBucket

(* Every step keeps the invariant.                                         *)
LEMMA LifecycleStep ==
  ASSUME TypeOK, TypeOK', LifecycleInv, [Next]_vars
  PROVE  LifecycleInv'
<1> USE DEF k8sVars, podVars, noteVars
<1>1. CASE CreateVolume
  BY <1>1, CreateVolumeKeeps
<1>2. CASE DeleteVolume
  BY <1>2
  DEF DeleteVolume, LifecycleInv, PendingIsBlank, PodKeepsClaim,
      SecretStillAgrees, PVTellsTheBucket, CredentialFilesRemoved, UsageHasMount,
      MountsOwnBucket, UsageOfMountedBucket
<1>3. CASE NodePublishVolume
  BY <1>3, PublishKeeps
<1>4. CASE NodeUnpublishVolume
  <2>1. PublishSecret' = PublishSecret
    BY <1>4 DEF NodeUnpublishVolume, PublishSecret
  <2>2. CredentialFilesRemoved'
    BY <1>4
    DEF NodeUnpublishVolume, CredentialFilesRemoved, RemoveAll, CredDir
  <2> QED
    BY <1>4, <2>1, <2>2
    DEF NodeUnpublishVolume, NoStats, LifecycleInv, PendingIsBlank,
        PodKeepsClaim, SecretStillAgrees, PVTellsTheBucket, UsageHasMount,
        MountsOwnBucket, UsageOfMountedBucket
<1>5. CASE NodeGetVolumeStats
  BY <1>5, StatsKeeps
<1>6. CASE CreatePod
  BY <1>6
  DEF CreatePod, InUse, PublishSecret, LifecycleInv, PendingIsBlank,
      PodKeepsClaim, SecretStillAgrees, PVTellsTheBucket, CredentialFilesRemoved,
      UsageHasMount, MountsOwnBucket, UsageOfMountedBucket
<1>7. CASE DeletePod
  BY <1>7
  DEF DeletePod, PublishSecret, LifecycleInv, PendingIsBlank,
      PodKeepsClaim, SecretStillAgrees, PVTellsTheBucket, CredentialFilesRemoved,
      UsageHasMount, MountsOwnBucket, UsageOfMountedBucket
<1>8. CASE ForceDeletePod
  BY <1>8
  DEF ForceDeletePod, PublishSecret, LifecycleInv, PendingIsBlank,
      PodKeepsClaim, SecretStillAgrees, PVTellsTheBucket, CredentialFilesRemoved,
      UsageHasMount, MountsOwnBucket, UsageOfMountedBucket
<1>9. CASE DeletePVC
  BY <1>9
  DEF DeletePVC, InUse, PublishSecret, LifecycleInv, PendingIsBlank,
      PodKeepsClaim, SecretStillAgrees, PVTellsTheBucket, CredentialFilesRemoved,
      UsageHasMount, MountsOwnBucket, UsageOfMountedBucket
<1>10. CASE EditSecret
  BY <1>10, EditKeeps
<1>11. CASE FuseDies
  <2>1. mount \in MountType
    BY <1>11 DEF TypeOK, FuseDies
  <2>2. /\ mount'.bucketName = mount.bucketName
        /\ mount'.cosEndpoint = mount.cosEndpoint
    BY <1>11, <2>1 DEF FuseDies, MountType
  <2>3. mount' # None
    BY <1>11 DEF FuseDies, TypeOK
  <2> QED
    BY <1>11, <2>1, <2>2, <2>3, ConstantsAssumption
    DEF FuseDies, PublishSecret, LifecycleInv, PendingIsBlank,
        PodKeepsClaim, SecretStillAgrees, PVTellsTheBucket, CredentialFilesRemoved,
        UsageHasMount, MountsOwnBucket, UsageOfMountedBucket
<1>12. CASE UNCHANGED vars
  BY <1>12
  DEF vars, PublishSecret, LifecycleInv, PendingIsBlank,
      PodKeepsClaim, SecretStillAgrees, PVTellsTheBucket, CredentialFilesRemoved,
      UsageHasMount, MountsOwnBucket, UsageOfMountedBucket
<1> QED
  BY <1>1, <1>2, <1>3, <1>4, <1>5, <1>6, <1>7, <1>8, <1>9, <1>10, <1>11, <1>12
  DEF Next

(* The inductive invariant holds in every reachable state.                 *)
LEMMA LifecycleAlways == Spec => [](TypeOK /\ LifecycleInv)
<1>1. Init => LifecycleInv
  BY DEF Init, NoStats, LifecycleInv, PendingIsBlank, PodKeepsClaim,
         SecretStillAgrees, PVTellsTheBucket, CredentialFilesRemoved, UsageHasMount,
         MountsOwnBucket, UsageOfMountedBucket
<1>2. TypeOK /\ TypeOK' /\ LifecycleInv /\ [Next]_vars => LifecycleInv'
  BY LifecycleStep
<1> QED  BY <1>1, <1>2, TypeCorrect, PTL DEF Spec

-----------------------------------------------------------------------------
(***************************************************************************)
(* The theorems.                                                           *)
(***************************************************************************)

(* NodePublishVolume, which prefers what the secret says by then over the  *)
(* PV, mounts the bucket and the endpoint CreateVolume chose, unless the   *)
(* secret was changed in between.                                          *)
THEOREM PodMountsItsBucket == Spec => []MountsOwnBucket
<1>1. TypeOK /\ LifecycleInv => MountsOwnBucket
  BY DEF LifecycleInv
<1> QED  BY <1>1, LifecycleAlways, PTL

(* NodeGetVolumeStats, which asks for the bucket the secret names, reports *)
(* the usage of the bucket that is mounted, unless the secret was changed. *)
THEOREM UsageIsOfMount == Spec => []UsageOfMountedBucket
<1>1. TypeOK /\ LifecycleInv => UsageOfMountedBucket
  BY DEF LifecycleInv
<1> QED  BY <1>1, LifecycleAlways, PTL

(* NodeUnpublishVolume, which has no secret and may choose another mounter *)
(* than NodePublishVolume did with one, leaves no credential file behind.  *)
THEOREM UnpublishRemovesFiles == Spec => []CredentialFilesRemoved
<1>1. TypeOK /\ LifecycleInv => CredentialFilesRemoved
  BY DEF LifecycleInv
<1> QED  BY <1>1, LifecycleAlways, PTL

(* DeleteVolume removes only a bucket the driver made for this volume.     *)
THEOREM DeletesOwnBucketOnly == Spec => OnlyOwnBucketDeleted
<1>1. TypeOK /\ LifecycleInv /\ [Next]_vars
        => [\A b \in Buckets : home[b] # None /\ home'[b] = None => b \in made]_vars
  <2> SUFFICES ASSUME TypeOK, LifecycleInv, Next, NEW b \in Buckets,
                      home[b] # None, home'[b] = None
               PROVE  b \in made
    OBVIOUS
  <2>1. CASE CreateVolume
    BY <2>1, CreateVolumeFacts, ConstantsAssumption DEF TypeOK
  <2>2. CASE DeleteVolume
    <3>1. b = BucketToDelete /\ pv # None
      BY <2>2 DEF DeleteVolume, TypeOK
    <3>2. b # None
      BY ConstantsAssumption
    <3> QED
      BY <3>1, <3>2 DEF BucketToDelete, LifecycleInv, PVTellsTheBucket
  <2>3. CASE NodePublishVolume \/ NodeUnpublishVolume \/ NodeGetVolumeStats
    BY <2>3 DEF NodePublishVolume, NodeUnpublishVolume, NodeGetVolumeStats
  <2>4. CASE CreatePod \/ DeletePod \/ ForceDeletePod \/ DeletePVC
    BY <2>4 DEF CreatePod, DeletePod, ForceDeletePod, DeletePVC
  <2>5. CASE EditSecret \/ FuseDies
    BY <2>5 DEF EditSecret, FuseDies
  <2> QED  BY <2>1, <2>2, <2>3, <2>4, <2>5 DEF Next
<1> QED  BY <1>1, LifecycleAlways, PTL DEF Spec, OnlyOwnBucketDeleted

(* The bucket the driver made is deleted with the volume, except where     *)
(* DeleteVolume takes the endpoint from a secret that does not say it.     *)
THEOREM MadeBucketGoes == Spec => BucketGoesWithVolume
<1>1. TypeOK /\ LifecycleInv /\ [Next]_vars
        => [phase = "released" /\ phase' = "gone" =>
              \/ \A b \in made : home'[b] = None
              \/ class.direct /\ (edited \/ PublishSecret.cosEndpoint = None)]_vars
  <2> SUFFICES ASSUME TypeOK, LifecycleInv, Next,
                      phase = "released", phase' = "gone",
                      ~(class.direct /\ (edited \/ PublishSecret.cosEndpoint = None)),
                      NEW b \in made
               PROVE  home'[b] = None
    OBVIOUS
  <2>1. DeleteVolume
    BY DEF Next, CreateVolume, NodePublishVolume, NodeUnpublishVolume,
           NodeGetVolumeStats, CreatePod, DeletePod, ForceDeletePod, DeletePVC,
           EditSecret, FuseDies
  <2>2. pv # None /\ b \in Buckets
    BY DEF TypeOK
  <2>3. ~pv.userProvidedBucket /\ b = pv.bucketName /\ home[b] = pv.cosEndpoint
    BY <2>2 DEF LifecycleInv, PVTellsTheBucket
  <2>4. DeleteEndpoint = pv.cosEndpoint
    <3>1. CASE ~class.direct
      BY <3>1 DEF DeleteEndpoint
    <3>2. CASE class.direct
      BY <2>2, <3>2 DEF DeleteEndpoint, LifecycleInv, SecretStillAgrees, Or
    <3> QED  BY <3>1, <3>2
  <2> QED  BY <2>1, <2>2, <2>3, <2>4 DEF DeleteVolume, BucketToDelete
<1> QED  BY <1>1, LifecycleAlways, PTL DEF Spec, BucketGoesWithVolume

=============================================================================
