--------------------------- MODULE VolumeLifecycle ---------------------------
(***************************************************************************)
(* The life of one volume across the controller and the node.  The two     *)
(* never talk to each other: what CreateVolume decides reaches             *)
(* NodePublishVolume, NodeGetVolumeStats, NodeUnpublishVolume and          *)
(* DeleteVolume through the PV, and each of them reads the secret again,   *)
(* as it is by then.  This module is about what they make of the two       *)
(* (pkg/driver, pkg/utils/driver_utils.go, pkg/mounter/mounter.go); what   *)
(* happens inside a handler is in ControllerServer and NodeServer, so a    *)
(* handler is one action here.  An error that changes nothing is a guard   *)
(* that does not hold: the sidecar or the kubelet calls again.             *)
(*                                                                         *)
(* cosEndpoint stands for the endpoint and the location constraint, which  *)
(* the controller treats alike.                                            *)
(***************************************************************************)
EXTENDS Naturals, FiniteSets

CONSTANTS
  Namespaces,   \* namespaces of the cluster
  UserBuckets,  \* bucket names a secret may carry
  TempBucket,   \* the name getTempBucketName gives to this volume
  Endpoints,    \* COS endpoints, each of one region
  Secrets,      \* the contents a secret may have
  Classes,      \* the StorageClasses
  Annotations,  \* values of the annotation secret-namespace, None for none
  None,         \* an absent value
  MaxEdits      \* bound on the changes to secrets

Buckets == UserBuckets \cup {TempBucket}

(***************************************************************************)
(* The contents of a secret.  auth is "iam" (serviceId and apiKey), "hmac" *)
(* (accessKey and secretKey) or None.                                      *)
(***************************************************************************)
SecretType ==
  [bucketName : UserBuckets \cup {None}, cosEndpoint : Endpoints \cup {None},
   mounter : {"s3fs", "rclone", None}, auth : {"iam", "hmac", None}]

(***************************************************************************)
(* A StorageClass.  direct: it names the secret of the provisioner, which  *)
(* then comes with each request; otherwise the PVC is annotated with it.   *)
(* Both kinds name the same secret, in the PVC's namespace, for the node.  *)
(***************************************************************************)
ClassType ==
  [direct : BOOLEAN, cosEndpoint : Endpoints \cup {None},
   mounter : {"s3fs", "rclone", None}]

(***************************************************************************)
(* The volume context CreateVolume puts in the PV, and a mount.            *)
(***************************************************************************)
PVType ==
  [bucketName : Buckets, userProvidedBucket : BOOLEAN, cosEndpoint : Endpoints,
   mounter : {"s3fs", "rclone", None}, secretNamespace : Namespaces]

MountType ==
  [bucketName : Buckets, cosEndpoint : Endpoints, alive : BOOLEAN]

ASSUME ConstantsAssumption ==
  /\ None \notin Namespaces \cup Buckets \cup Endpoints \cup {"s3fs", "rclone"}
  /\ TempBucket \notin UserBuckets
  /\ Secrets \subseteq SecretType
  /\ None \notin Secrets \cup PVType \cup MountType
  /\ Classes \subseteq ClassType
  /\ Annotations \subseteq Namespaces \cup {None}
  /\ MaxEdits \in Nat

VARIABLES
  \* Kubernetes
  class,    \* the StorageClass of the PVC
  pvc,      \* namespace of the PVC, and its secret-namespace annotation
  secret,   \* the secret in each namespace, None when there is none
  phase,    \* "pending" | "bound" | "released" | "gone"
  pv,       \* the PV, None when there is none
  \* the COS account
  home,     \* the endpoint of the region a bucket is in, None for no bucket
  \* one pod on a node
  pod,      \* "none" | "starting" | "running" | "stopping" | "unpublished"
  mount,    \* what is mounted for it
  files,    \* mounters that have a credential file for it
  stats,    \* the last answer of NodeGetVolumeStats
  forced,   \* it was removed from the API by force
  \* observation only
  made,     \* buckets the driver made for this volume
  origin,   \* namespace of the secret CreateVolume used
  edited,   \* the secret was changed after CreateVolume
  edits     \* how many more changes to secrets may happen

k8sVars == <<class, pvc>>
podVars == <<pod, mount, files, stats, forced>>
noteVars == <<made, origin, edited, edits>>
vars == <<k8sVars, secret, phase, pv, home, podVars, noteVars>>

NoStats == [result |-> "none", bucketName |-> None]

Init ==
  /\ class \in Classes
  /\ pvc \in [namespace : Namespaces, secretNamespace : Annotations]
  /\ secret \in [Namespaces -> Secrets \cup {None}]
  /\ phase = "pending"
  /\ pv = None
  /\ home \in {f \in [Buckets -> Endpoints \cup {None}] : f[TempBucket] = None}
  /\ pod = "none"
  /\ mount = None
  /\ files = {}
  /\ stats = NoStats
  /\ made = {}
  /\ origin = None
  /\ edited = FALSE
  /\ forced = FALSE
  /\ edits = MaxEdits

-----------------------------------------------------------------------------
(***************************************************************************)
(* Shorthands.                                                             *)
(***************************************************************************)

(* The first value, or the second when there is no first.                  *)
Or(a, b) == IF a = None THEN b ELSE a

(* The keys parseCustomSecret copies do not include mounter.               *)
parseCustomSecret(s) == [s EXCEPT !.mounter = None]

(* getObjectStorageCredentialsFromSecret finds a complete set of keys.     *)
HasCredentials(s) == s.auth # None

(* The secret the PV names, in whatever state it is now.                   *)
PublishSecret == secret[pv.secretNamespace]

(* NewMounter: the PV's mounter, then the secret's, then s3fs.             *)
NewMounter(attrib, fromSecret) == Or(Or(attrib, fromSecret), "s3fs")

-----------------------------------------------------------------------------
(***************************************************************************)
(* The controller.                                                         *)
(***************************************************************************)

(* Mutant: the secret's endpoint is used and not saved in the PV. *)
SavedEndpoint_ClassFirst(s) == Or(class.cosEndpoint, s.cosEndpoint)

(* The endpoint used for the session is the one saved in the PV.           *)
SavedEndpoint(s) == Or(s.cosEndpoint, class.cosEndpoint)

SavedMounter(s) == Or(s.mounter, class.mounter)

(* The secret comes with the request, or is read from the PVC's namespace  *)
(* by the name in its annotation.  A bucket that is not there is created;  *)
(* bucket names are global, so one of another region cannot be.  If it is  *)
(* the account's own, BucketAlreadyOwnedByYou counts as created, and the   *)
(* access check that follows, at the wrong endpoint, is the error.         *)
CreateVolume ==
  LET ns == pvc.namespace
      s == IF class.direct THEN secret[ns] ELSE parseCustomSecret(secret[ns])
      endPoint == Or(s.cosEndpoint, class.cosEndpoint)
      b == Or(s.bucketName, TempBucket)
      there == home[b] = endPoint
  IN
  /\ phase = "pending"
  /\ secret[ns] # None
  /\ endPoint # None
  /\ HasCredentials(s)
  /\ there \/ home[b] = None
  /\ home' = [home EXCEPT ![b] = endPoint]
  /\ made' = IF there THEN made ELSE made \cup {b}
  /\ pv' = [bucketName |-> b, userProvidedBucket |-> there,
            cosEndpoint |-> SavedEndpoint(s), mounter |-> SavedMounter(s),
            secretNamespace |-> ns]
  /\ phase' = "bound"
  /\ origin' = ns
  /\ UNCHANGED <<k8sVars, secret, podVars, edited, edits>>

(* Mutant: the bucket to delete is the one the secret names. *)
BucketToDelete_FromSecret ==
  IF pv.userProvidedBucket THEN None ELSE Or(PublishSecret.bucketName, pv.bucketName)

BucketToDelete == IF pv.userProvidedBucket THEN None ELSE pv.bucketName

(* Mutant: the endpoint is taken from the secret in both cases. *)
DeleteEndpoint_FromSecret == PublishSecret.cosEndpoint

(* A secret that comes with the request must name the endpoint itself;     *)
(* otherwise it is the one in the PV.                                      *)
DeleteEndpoint ==
  IF class.direct THEN PublishSecret.cosEndpoint ELSE pv.cosEndpoint

(* Mutant: a bucket that is not found is an error. *)
DeleteVolume_MustDelete ==
  /\ phase = "released"
  /\ PublishSecret # None
  /\ HasCredentials(PublishSecret)
  /\ BucketToDelete # None => home[BucketToDelete] = DeleteEndpoint
  /\ home' = [b \in Buckets |-> IF b = BucketToDelete THEN None ELSE home[b]]
  /\ phase' = "gone"
  /\ pv' = None
  /\ UNCHANGED <<k8sVars, secret, podVars, noteVars>>

(* The provisioner passes no secret when its own is gone; the one of the   *)
(* PV, which is the same one, is then an error on each retry.  A session   *)
(* for the wrong region finds no bucket, which counts as success, and an   *)
(* error of the deletion is logged only: the PV goes either way.           *)
DeleteVolume ==
  /\ phase = "released"
  /\ PublishSecret # None
  /\ HasCredentials(PublishSecret)
  /\ home' = [b \in Buckets |->
       IF b = BucketToDelete /\ home[b] = DeleteEndpoint THEN None ELSE home[b]]
  /\ phase' = "gone"
  /\ pv' = None
  /\ UNCHANGED <<k8sVars, secret, podVars, noteVars>>

-----------------------------------------------------------------------------
(***************************************************************************)
(* The node.                                                               *)
(***************************************************************************)

(* The bucket of the secret, and the PV's when it names none.              *)
PublishBucket == Or(PublishSecret.bucketName, pv.bucketName)


PublishEndpoint == Or(PublishSecret.cosEndpoint, pv.cosEndpoint)

PublishMounter == NewMounter(pv.mounter, PublishSecret.mounter)

(* The bucket lets the FUSE process in.                                    *)
Mountable ==
  HasCredentials(PublishSecret) /\ home[PublishBucket] = PublishEndpoint

(* Mutant: the error of the mount is not looked at. *)
NodePublishVolume_ErrorIgnored ==
  /\ pod = "starting"
  /\ pv # None
  /\ PublishSecret # None
  /\ files' = files \cup {PublishMounter}
  /\ mount' = IF Mountable
              THEN [bucketName |-> PublishBucket,
                    cosEndpoint |-> PublishEndpoint, alive |-> TRUE]
              ELSE mount
  /\ pod' = "running"
  /\ UNCHANGED <<k8sVars, secret, phase, pv, home, stats, forced, noteVars>>

(* The kubelet reads the secret and passes it on.  The credential file is  *)
(* written before the mount is tried.                                      *)
NodePublishVolume ==
  /\ pod = "starting"
  /\ pv # None
  /\ PublishSecret # None
  /\ files' = files \cup {PublishMounter}
  /\ IF Mountable
     THEN /\ mount' = [bucketName |-> PublishBucket,
                       cosEndpoint |-> PublishEndpoint, alive |-> TRUE]
          /\ pod' = "running"
     ELSE UNCHANGED <<mount, pod>>
  /\ UNCHANGED <<k8sVars, secret, phase, pv, home, stats, forced, noteVars>>

(* Mutant: each mounter has a directory of its own, as where the driver    *)
(* mounts in its own container. *)
CredDir_PerMounter(m) == m

(* The directory of the credential file of mounter m.  The host service    *)
(* mounts (mountWorker), and then both use MounterConfigPathOnHost and the *)
(* digest of the target path.                                              *)
CredDir(m) == "MounterConfigPathOnHost"

(* Unmount of mounter m removes its directory with all that is in it.  It  *)
(* tries several times; that all of them fail is left out.                 *)
RemoveAll(m) == {f \in files : CredDir(f) # CredDir(m)}

(* Mutant: the secret must be there as well. *)
NodeUnpublishVolume_NeedsSecret ==
  /\ pod = "stopping"
  /\ pv # None
  /\ PublishSecret # None
  /\ files' = RemoveAll(PublishMounter)
  /\ mount' = None
  /\ stats' = NoStats
  /\ pod' = "unpublished"
  /\ UNCHANGED <<k8sVars, secret, phase, pv, home, forced, noteVars>>

(* The PV must be there.  There is no secret: the mounter is the PV's, or  *)
(* s3fs, and not always the one that mounted.  Unmounting is the same for  *)
(* both.                                                                   *)
NodeUnpublishVolume ==
  /\ pod = "stopping"
  /\ pv # None
  /\ files' = RemoveAll(NewMounter(pv.mounter, None))
  /\ mount' = None
  /\ stats' = NoStats
  /\ pod' = "unpublished"
  /\ UNCHANGED <<k8sVars, secret, phase, pv, home, forced, noteVars>>

(* Mutant: the secret is always read from the default namespace. *)
GetBucketUsage_Default ==
  LET s == secret["default"] IN
  stats' = IF s # None /\ s.auth = "iam" /\ s.bucketName # None
              /\ home[s.bucketName] # None
           THEN [result |-> "usage", bucketName |-> s.bucketName]
           ELSE [result |-> "error", bucketName |-> None]

(* The usage of the bucket the secret names, asked for with its apiKey.  A *)
(* secret without a bucket name, as for a generated bucket, or with HMAC   *)
(* keys only, is an error.                                                 *)
GetBucketUsage ==
  LET s == PublishSecret IN
  stats' = IF s # None /\ s.auth = "iam" /\ s.bucketName # None
              /\ home[s.bucketName] # None
           THEN [result |-> "usage", bucketName |-> s.bucketName]
           ELSE [result |-> "error", bucketName |-> None]

(* A dead mount is reported as an abnormal condition; then the capacity is *)
(* read from the PV, and the usage.                                        *)
NodeGetVolumeStats ==
  /\ pod = "running"
  /\ IF ~mount.alive
     THEN stats' = [result |-> "abnormal", bucketName |-> None]
     ELSE /\ pv # None
          /\ GetBucketUsage
  /\ UNCHANGED <<k8sVars, secret, phase, pv, home, pod, mount, files, forced, noteVars>>

-----------------------------------------------------------------------------
(***************************************************************************)
(* The environment: users, kubelet, FUSE process.                          *)
(***************************************************************************)
InUse == pod \in {"starting", "running", "stopping"}

CreatePod ==
  /\ phase = "bound"
  /\ ~InUse
  /\ pod' = "starting"
  /\ files' = {}
  /\ forced' = FALSE
  /\ UNCHANGED <<k8sVars, secret, phase, pv, home, mount, stats, noteVars>>

(* A pod whose last NodePublishVolume failed has no volume to unpublish.   *)
DeletePod ==
  /\ pod \in {"starting", "running"}
  /\ pod' = IF pod = "running" THEN "stopping" ELSE "none"
  /\ UNCHANGED <<k8sVars, secret, phase, pv, home, mount, files, stats, forced,
                 noteVars>>

(* The pod object goes at once, the volume is unpublished later.           *)
ForceDeletePod ==
  /\ pod = "running"
  /\ pod' = "stopping"
  /\ forced' = TRUE
  /\ UNCHANGED <<k8sVars, secret, phase, pv, home, mount, files, stats,
                 noteVars>>

(* Kubernetes keeps the PVC while a pod that it knows of uses it.          *)
DeletePVC ==
  /\ phase = "bound"
  /\ ~InUse \/ (pod = "stopping" /\ forced)
  /\ phase' = "released"
  /\ UNCHANGED <<k8sVars, secret, pv, home, podVars, noteVars>>

(* A secret is created, changed or deleted.                                *)
EditSecret ==
  /\ edits > 0
  /\ edits' = edits - 1
  /\ \E ns \in Namespaces :
       /\ \E s \in (Secrets \cup {None}) \ {secret[ns]} :
            secret' = [secret EXCEPT ![ns] = s]
       /\ edited' = (edited \/ (pv # None /\ ns = pvc.namespace))
  /\ UNCHANGED <<k8sVars, phase, pv, home, podVars, made, origin>>

FuseDies ==
  /\ pod = "running"
  /\ mount.alive
  /\ mount' = [mount EXCEPT !.alive = FALSE]
  /\ UNCHANGED <<k8sVars, secret, phase, pv, home, pod, files, stats, forced, noteVars>>

-----------------------------------------------------------------------------
Next ==
  \/ CreateVolume \/ DeleteVolume
  \/ NodePublishVolume \/ NodeUnpublishVolume \/ NodeGetVolumeStats
  \/ CreatePod \/ DeletePod \/ ForceDeletePod \/ DeletePVC
  \/ EditSecret \/ FuseDies

Spec == Init /\ [][Next]_vars

(***************************************************************************)
(* The provisioner and the kubelet call until they succeed.  Nothing is    *)
(* assumed of users.                                                       *)
(***************************************************************************)
Fairness ==
  /\ WF_vars(CreateVolume) /\ WF_vars(DeleteVolume)
  /\ WF_vars(NodePublishVolume) /\ WF_vars(NodeUnpublishVolume)

FairSpec == Spec /\ Fairness

-----------------------------------------------------------------------------
(***************************************************************************)
(* Properties.                                                             *)
(***************************************************************************)

(* The type of every variable; the PV is there while the claim is bound or *)
(* released, and a mount while the pod has one.                            *)
TypeOK ==
  /\ class \in Classes
  /\ pvc \in [namespace : Namespaces, secretNamespace : Annotations]
  /\ secret \in [Namespaces -> Secrets \cup {None}]
  /\ phase \in {"pending", "bound", "released", "gone"}
  /\ pv \in PVType \cup {None}
  /\ home \in [Buckets -> Endpoints \cup {None}]
  /\ pod \in {"none", "starting", "running", "stopping", "unpublished"}
  /\ mount \in MountType \cup {None}
  /\ files \in SUBSET {"s3fs", "rclone"}
  /\ stats \in [result : {"none", "usage", "error", "abnormal"},
                bucketName : Buckets \cup {None}]
  /\ made \in SUBSET Buckets
  /\ origin \in Namespaces \cup {None}
  /\ edited \in BOOLEAN
  /\ forced \in BOOLEAN
  /\ edits \in 0..MaxEdits
  /\ pv # None <=> phase \in {"bound", "released"}
  /\ mount # None <=> pod \in {"running", "stopping"}

(* A pod works on the bucket CreateVolume chose, at the endpoint it was    *)
(* made at, though NodePublishVolume looks at the secret first: only a     *)
(* secret changed after CreateVolume can lead it elsewhere.                *)
MountsOwnBucket ==
  mount # None /\ pv # None =>
    \/ /\ mount.bucketName = pv.bucketName
       /\ mount.cosEndpoint = pv.cosEndpoint
    \/ edited

(* The usage NodeGetVolumeStats reports is that of the bucket the pod has  *)
(* mounted, though it never looks at the PV's bucket name.                 *)
UsageOfMountedBucket ==
  stats.result = "usage" => stats.bucketName = mount.bucketName \/ edited

(* No credential file outlives NodeUnpublishVolume, though it has no       *)
(* secret to choose the mounter by: neither that of a pod mounted by the   *)
(* other mounter, nor those of a pod whose secret changed the mounter      *)
(* between two attempts to mount.                                          *)
CredentialFilesRemoved == pod = "unpublished" => files = {}

(* DeleteVolume removes no bucket but one the driver made for this volume, *)
(* whatever the secret says by then.                                       *)
OnlyOwnBucketDeleted ==
  [][\A b \in Buckets : home[b] # None /\ home'[b] = None => b \in made]_vars

(* The bucket the driver made goes with the volume.  It stays behind only  *)
(* when the secret comes with the request and, at that time, does not name *)
(* the endpoint that CreateVolume saved: because it never did (the class   *)
(* does), or was changed.                                                  *)
BucketGoesWithVolume ==
  [][phase = "released" /\ phase' = "gone" =>
       \/ \A b \in made : home'[b] = None
       \/ class.direct /\ (edited \/ PublishSecret.cosEndpoint = None)]_vars

(***************************************************************************)
(* What the handlers keep true between them: the inductive invariant of    *)
(* VolumeLifecycleProofs, part by part.                                    *)
(***************************************************************************)

(* Nothing of the volume is there before CreateVolume.                     *)
PendingIsBlank ==
  phase = "pending" => pod = "none" /\ files = {} /\ made = {}

(* A pod that starts or runs keeps the PVC.                                *)
PodKeepsClaim == pod \in {"starting", "running"} => phase = "bound"

(* While nobody changes the secret, reading it again gives the bucket and  *)
(* the endpoint that are in the PV.                                        *)
SecretStillAgrees ==
  pv # None =>
    /\ pv.secretNamespace = pvc.namespace
    /\ \/ edited
       \/ /\ PublishSecret # None
          /\ pv.bucketName = Or(PublishSecret.bucketName, TempBucket)
          /\ pv.cosEndpoint = Or(PublishSecret.cosEndpoint, class.cosEndpoint)

(* userProvidedBucket says whether the driver made the bucket, and the     *)
(* bucket is where the PV says.                                            *)
PVTellsTheBucket ==
  pv # None =>
    /\ made = IF pv.userProvidedBucket THEN {} ELSE {pv.bucketName}
    /\ home[pv.bucketName] = pv.cosEndpoint

(* A usage is reported only while there is a mount.                        *)
UsageHasMount == stats.result = "usage" => mount # None

LifecycleInv ==
  /\ PendingIsBlank /\ PodKeepsClaim /\ SecretStillAgrees
  /\ PVTellsTheBucket /\ CredentialFilesRemoved /\ UsageHasMount
  /\ MountsOwnBucket /\ UsageOfMountedBucket


(* It is enough for DeleteVolume, too, long after: a released volume goes, *)
(* also when the bucket cannot be found, unless the secret was changed.    *)
UneditedVolumeGoes == phase = "released" ~> phase = "gone" \/ edited

(* NodeUnpublishVolume needs the PV only, and the PV stays as long as the  *)
(* pod: whatever becomes of the secret, a pod that stops is unpublished,   *)
(* unless it was removed by force.                                         *)
StoppingPodIsUnpublished == pod = "stopping" ~> pod = "unpublished" \/ forced

-----------------------------------------------------------------------------
(***************************************************************************)
(* What the documentation says of the driver and the code does not do.     *)
(***************************************************************************)

(* "These annotations help the driver map the PVC to the correct secret":  *)
(* the secret of a PVC annotated with a namespace is the one there.        *)
AnnotatedSecretUsed ==
  origin # None /\ ~class.direct /\ pvc.secretNamespace # None =>
    origin = pvc.secretNamespace
=============================================================================
