-------------------------- MODULE ControllerServer --------------------------
(***************************************************************************)
(* The controller service of the driver: CreateVolume and DeleteVolume     *)
(* (pkg/driver/controllerserver.go) with the COS session they drive        *)
(* (pkg/s3client/s3client.go) and the PV lookups they make                 *)
(* (pkg/utils/driver_utils.go).                                            *)
(*                                                                         *)
(* Every gRPC request runs in a goroutine of its own, and both handlers    *)
(* ignore the context of the call, so a handler whose caller gave up keeps *)
(* running next to the retry.  A handler is one element of Handlers; each  *)
(* remote call it makes is one action, so the calls of concurrent handlers *)
(* interleave.                                                             *)
(*                                                                         *)
(* External parties are modelled from the way the driver uses them: the    *)
(* COS account (one bucket namespace), the Kubernetes objects (PVC, PV)    *)
(* and the csi-provisioner sidecar, which waits for one answer per volume, *)
(* gives up after its timeout, retries, and saves the PV from the answer.  *)
(***************************************************************************)
EXTENDS Naturals, FiniteSets

CONSTANTS
  Volumes,       \* volume names (pvc-<uid>), never reused
  UserBuckets,   \* bucket names a secret may carry
  Objects,       \* keys a workload may store in a bucket
  Handlers,      \* goroutines available to serve requests
  Claims,        \* the PVC/secret/StorageClass combinations in use
  Faults,        \* kinds of fault that may happen
  NoBucket, NoVolume, NoHandler,
  PageSize,      \* keys one ListObjects call returns (1000 in COS)
  MaxClock,      \* bound on the seconds clock of temp bucket names
  MaxFaults      \* bound on the number of faults of a behaviour

(***************************************************************************)
(* A fault is a call that fails although the state of the system would let *)
(* it succeed, or a caller or process that goes away.                      *)
(***************************************************************************)
FaultKind ==
  {"lookup",        \* reading the PVC, PV or secret fails
   "head",          \* HeadBucket fails on a bucket that exists
   "create",        \* CreateBucket fails without effect
   "createLost",    \* CreateBucket takes effect, its answer is lost
   "access",        \* the HeadBucket after CreateBucket fails
   "quota", "versioning",
   "list", "deleteObject", "deleteBucket",
   "pvGet",         \* BucketToDelete cannot read the PV
   "timeout",       \* the caller gives up, the handler goes on
   "crash"}         \* the controller process restarts

(* Mutant: the name is derived from the volume alone, without the timestamp. *)
getTempBucketName_NoTimestamp(v, t) == <<v, 0>>

(* Mutant: the name is derived from the time alone, without the volume. *)
getTempBucketName_NoVolume(v, t) == <<CHOOSE w \in Volumes : TRUE, t>>

(***************************************************************************)
(* getTempBucketName: mounter type, seconds timestamp and volume id.  The  *)
(* mounter type is a function of the volume and is left out.               *)
(***************************************************************************)
getTempBucketName(v, t) == <<v, t>>

TempBuckets == {getTempBucketName(v, t) : v \in Volumes, t \in 0..MaxClock}
Buckets == UserBuckets \cup TempBuckets

(***************************************************************************)
(* What a claim asks for, after the driver has merged the StorageClass     *)
(* parameters with the secret.                                             *)
(*   bucketName        the bucket named in the secret, or NoBucket         *)
(*   quotaLimit        hard quota requested                                *)
(*   bucketVersioning  "" | "true" | "false"                               *)
(*   direct            the provisioner passes the secret in the request    *)
(*   cosEndpoint       the secret itself names the endpoint                *)
(*   valid             the request passes CreateVolume's argument checks   *)
(***************************************************************************)
ClaimType ==
  [bucketName : UserBuckets \cup {NoBucket}, quotaLimit : BOOLEAN,
   bucketVersioning : {"", "true", "false"}, direct : BOOLEAN,
   cosEndpoint : BOOLEAN, valid : BOOLEAN]

ASSUME ConstantsAssumption ==
  /\ NoBucket \notin Buckets
  /\ NoVolume \notin Volumes
  /\ NoHandler \notin Handlers
  /\ UserBuckets \cap (Volumes \X Nat) = {}
  /\ Claims \subseteq ClaimType
  /\ Faults \subseteq FaultKind
  /\ PageSize \in Nat \ {0}
  /\ MaxClock \in Nat
  /\ MaxFaults \in Nat

VARIABLES
  \* the COS account
  exists,      \* buckets that exist
  origin,      \* who made a bucket: "none" | "user" | "driver"
  objects,     \* keys in a bucket
  versioning,  \* "" | "true" | "false", the bucket's versioning state
  residue,     \* old versions or delete markers are left in the bucket
  quota,       \* buckets with a hard quota
  \* Kubernetes and the provisioner
  claim,       \* "none" | "pending" | "bound" | "released" | "gone"
  spec,        \* what the claim of a volume asks for
  pv,          \* VolumeContext saved in the PV
  call,        \* the handler whose answer the provisioner awaits
  \* the controller process
  rpc,         \* the state of each handler goroutine
  clock,       \* seconds
  \* observation only
  seen,        \* kinds of fault that have happened
  budget,      \* how many more faults may happen
  late,        \* generated names chosen by a call nobody waited for
  reported     \* buckets in the state they are in because of a logged error

faultVars == <<seen, budget, late>>
cosVars == <<exists, origin, objects, versioning, residue, quota>>
k8sVars == <<claim, spec, pv>>
vars == <<cosVars, k8sVars, call, rpc, clock, faultVars, reported>>

-----------------------------------------------------------------------------
(***************************************************************************)
(* State.                                                                  *)
(***************************************************************************)
NoPV == [bucketName |-> NoBucket, userProvidedBucket |-> TRUE]

Idle ==
  [pc |-> "idle", op |-> "none", volumeID |-> NoVolume,
   bucketName |-> NoBucket, userProvidedBucket |-> TRUE, listed |-> {}]

PVType ==
  [bucketName : Buckets, userProvidedBucket : BOOLEAN] \cup {NoPV}

RpcType ==
  [pc : {"idle", "lookup", "head", "create", "access", "quota", "versioning",
         "reply", "bucketToDelete", "list", "objects", "bucket"},
   op : {"none", "create", "rollback", "delete"},
   volumeID : Volumes \cup {NoVolume},
   bucketName : Buckets \cup {NoBucket},
   userProvidedBucket : BOOLEAN,
   listed : SUBSET Objects]

Init ==
  /\ exists \in SUBSET UserBuckets
  /\ origin = [b \in Buckets |-> IF b \in exists THEN "user" ELSE "none"]
  /\ objects = [b \in Buckets |-> {}]
  /\ versioning = [b \in Buckets |-> ""]
  /\ residue = [b \in Buckets |-> FALSE]
  /\ quota = {}
  /\ claim = [v \in Volumes |-> "none"]
  /\ spec \in [Volumes -> Claims]
  /\ pv = [v \in Volumes |-> NoPV]
  /\ call = [v \in Volumes |-> NoHandler]
  /\ rpc = [h \in Handlers |-> Idle]
  /\ clock = 0
  /\ seen = {}
  /\ budget = MaxFaults
  /\ late = {}
  /\ reported = {}

-----------------------------------------------------------------------------
(***************************************************************************)
(* Shorthands.                                                             *)
(***************************************************************************)
NoFault == UNCHANGED faultVars

Fault(k) ==
  /\ k \in Faults
  /\ budget > 0
  /\ budget' = budget - 1
  /\ seen' = seen \cup {k}
  /\ late' = late

Goto(h, label) == rpc' = [rpc EXCEPT ![h].pc = label]

(* The handler returns: its goroutine ends and a waiting caller is freed.  *)
Return(h) ==
  LET v == rpc[h].volumeID IN
  /\ rpc' = [rpc EXCEPT ![h] = Idle]
  /\ call' = IF call[v] = h THEN [call EXCEPT ![v] = NoHandler] ELSE call

ReturnError(h) == Return(h) /\ UNCHANGED k8sVars

AfterQuota(v) == IF spec[v].bucketVersioning = "" THEN "reply" ELSE "versioning"
AfterAccess(v) == IF spec[v].quotaLimit THEN "quota" ELSE AfterQuota(v)

(***************************************************************************)
(* A failed quota or versioning call: the bucket is deleted again when     *)
(* this handler made it, otherwise the error is returned at once.          *)
(***************************************************************************)
RollBack(h) ==
  IF rpc[h].userProvidedBucket
  THEN ReturnError(h)
  ELSE /\ rpc' = [rpc EXCEPT ![h].pc = "list", ![h].op = "rollback"]
       /\ UNCHANGED <<k8sVars, call>>

-----------------------------------------------------------------------------
(***************************************************************************)
(* CreateVolume.                                                           *)
(***************************************************************************)

(* The request arrives and gets a goroutine.                               *)
CreateVolume(v, h) ==
  /\ claim[v] = "pending"
  /\ call[v] = NoHandler
  /\ rpc[h].pc = "idle"
  /\ rpc' = [rpc EXCEPT ![h] = [Idle EXCEPT !.pc = "lookup",
                                            !.op = "create", !.volumeID = v]]
  /\ call' = [call EXCEPT ![v] = h]
  /\ UNCHANGED <<cosVars, k8sVars, clock, faultVars, reported>>

(* A PVC or secret lookup fails, or the request an argument check.         *)
GetSecretErr(h) ==
  LET s == spec[rpc[h].volumeID] IN
  /\ rpc[h].pc = "lookup"
  /\ \/ ~s.valid /\ NoFault
     \/ ~s.direct /\ Fault("lookup")
  /\ ReturnError(h)
  /\ UNCHANGED <<cosVars, clock, reported>>

(***************************************************************************)
(* The lookups are answered: up to the first COS call.  They have no       *)
(* deadline, so the caller may have given up long ago; a generated name    *)
(* carries the time of now, not the time of the request.                   *)
(***************************************************************************)
GetSecretOk(h) ==
  LET v == rpc[h].volumeID
      named == spec[v].bucketName # NoBucket
      temp == getTempBucketName(v, clock)
  IN
  /\ rpc[h].pc = "lookup"
  /\ spec[v].valid
  /\ rpc' = [rpc EXCEPT ![h] =
       [pc |-> IF named THEN "head" ELSE "create", op |-> "create",
        volumeID |-> v,
        bucketName |-> IF named THEN spec[v].bucketName ELSE temp,
        userProvidedBucket |-> TRUE, listed |-> {}]]
  /\ late' = IF named \/ call[v] = h THEN late ELSE late \cup {temp}
  /\ UNCHANGED <<cosVars, k8sVars, call, clock, seen, budget, reported>>

(* CheckBucketAccess on the bucket named in the secret.                    *)
HeadBucketOk(h) ==
  /\ rpc[h].pc = "head"
  /\ rpc[h].bucketName \in exists
  /\ Goto(h, AfterAccess(rpc[h].volumeID))
  /\ UNCHANGED <<cosVars, k8sVars, call, clock, faultVars, reported>>

(* Mutant: an inaccessible bucket is an error instead of one to create. *)
HeadBucketErr_NoCreate(h) ==
  /\ rpc[h].pc = "head"
  /\ rpc[h].bucketName \notin exists
  /\ ReturnError(h)
  /\ UNCHANGED <<cosVars, clock, faultVars, reported>>

(* Any error of CheckBucketAccess is taken for "not there".                *)
HeadBucketErr(h) ==
  /\ rpc[h].pc = "head"
  /\ \/ rpc[h].bucketName \notin exists /\ NoFault
     \/ rpc[h].bucketName \in exists /\ Fault("head")
  /\ Goto(h, "create")
  /\ UNCHANGED <<cosVars, k8sVars, call, clock, reported>>

(* The account gains an empty bucket.                                      *)
NewBucket(b) ==
  /\ exists' = exists \cup {b}
  /\ origin' = [origin EXCEPT ![b] = "driver"]
  /\ objects' = [objects EXCEPT ![b] = {}]
  /\ versioning' = [versioning EXCEPT ![b] = ""]
  /\ residue' = [residue EXCEPT ![b] = FALSE]
  /\ quota' = quota \ {b}

(* CreateBucket succeeds, or answers BucketAlreadyOwnedByYou, which the    *)
(* session turns into success.                                             *)
CreateBucketOk(h) ==
  LET b == rpc[h].bucketName IN
  /\ rpc[h].pc = "create"
  /\ \/ b \notin exists /\ NewBucket(b) /\ reported' = reported \ {b}
     \/ b \in exists /\ UNCHANGED <<cosVars, reported>>
  /\ Goto(h, "access")
  /\ UNCHANGED <<k8sVars, call, clock, faultVars>>

(* CreateBucket fails; when only the answer was lost the bucket is there.  *)
CreateBucketErr(h) ==
  LET b == rpc[h].bucketName IN
  /\ rpc[h].pc = "create"
  /\ \/ Fault("create") /\ UNCHANGED cosVars
     \/ Fault("createLost") /\ b \notin exists /\ NewBucket(b)
  /\ reported' = reported \cup {b}
  /\ ReturnError(h)
  /\ UNCHANGED clock

(* CheckBucketAccess after CreateBucket.                                   *)
CheckAccessOk(h) ==
  /\ rpc[h].pc = "access"
  /\ rpc[h].bucketName \in exists
  /\ rpc' = [rpc EXCEPT ![h].pc = AfterAccess(rpc[h].volumeID),
                        ![h].userProvidedBucket = FALSE]
  /\ UNCHANGED <<cosVars, k8sVars, call, clock, faultVars, reported>>

CheckAccessErr(h) ==
  /\ rpc[h].pc = "access"
  /\ \/ rpc[h].bucketName \notin exists /\ NoFault
     \/ rpc[h].bucketName \in exists /\ Fault("access")
  /\ reported' = reported \cup {rpc[h].bucketName}
  /\ ReturnError(h)
  /\ UNCHANGED <<cosVars, clock>>

UpdateQuotaLimitOk(h) ==
  /\ rpc[h].pc = "quota"
  /\ rpc[h].bucketName \in exists
  /\ quota' = quota \cup {rpc[h].bucketName}
  /\ Goto(h, AfterQuota(rpc[h].volumeID))
  /\ UNCHANGED <<exists, origin, objects, versioning, residue, k8sVars, call,
                 clock, faultVars, reported>>

(* Mutant: a failed quota call returns without deleting the bucket. *)
UpdateQuotaLimitErr_NoRollBack(h) ==
  /\ rpc[h].pc = "quota"
  /\ rpc[h].bucketName \in exists
  /\ Fault("quota")
  /\ ReturnError(h)
  /\ UNCHANGED <<cosVars, clock, reported>>

UpdateQuotaLimitErr(h) ==
  /\ rpc[h].pc = "quota"
  /\ \/ rpc[h].bucketName \notin exists /\ NoFault
     \/ rpc[h].bucketName \in exists /\ Fault("quota")
  /\ RollBack(h)
  /\ UNCHANGED <<cosVars, clock, reported>>

SetBucketVersioningOk(h) ==
  /\ rpc[h].pc = "versioning"
  /\ rpc[h].bucketName \in exists
  /\ versioning' = [versioning EXCEPT ![rpc[h].bucketName] =
                      spec[rpc[h].volumeID].bucketVersioning]
  /\ Goto(h, "reply")
  /\ UNCHANGED <<exists, origin, objects, residue, quota, k8sVars, call, clock,
                 faultVars, reported>>

(* Mutant: a failed versioning call is logged and ignored. *)
SetBucketVersioningErr_Ignored(h) ==
  /\ rpc[h].pc = "versioning"
  /\ rpc[h].bucketName \in exists
  /\ Fault("versioning")
  /\ Goto(h, "reply")
  /\ UNCHANGED <<cosVars, k8sVars, call, clock, reported>>

SetBucketVersioningErr(h) ==
  /\ rpc[h].pc = "versioning"
  /\ \/ rpc[h].bucketName \notin exists /\ NoFault
     \/ rpc[h].bucketName \in exists /\ Fault("versioning")
  /\ RollBack(h)
  /\ UNCHANGED <<cosVars, clock, reported>>

(* The response reaches the provisioner, if it still waits for this one:   *)
(* it saves the PV and binds the claim.                                    *)
CreateVolumeReply(h) ==
  LET v == rpc[h].volumeID IN
  /\ rpc[h].pc = "reply"
  /\ IF call[v] = h
     THEN /\ pv' = [pv EXCEPT ![v] =
                 [bucketName |-> rpc[h].bucketName,
                  userProvidedBucket |-> rpc[h].userProvidedBucket]]
          /\ claim' = [claim EXCEPT ![v] = "bound"]
     ELSE UNCHANGED <<pv, claim>>
  /\ Return(h)
  /\ UNCHANGED <<cosVars, spec, clock, faultVars, reported>>

-----------------------------------------------------------------------------
(***************************************************************************)
(* DeleteVolume.                                                           *)
(***************************************************************************)

(* The PV or the secret it names cannot be read: the caller gets an error. *)
DeleteVolumeReject(v) ==
  /\ claim[v] = "released"
  /\ call[v] = NoHandler
  /\ ~spec[v].direct
  /\ Fault("lookup")
  /\ UNCHANGED <<cosVars, k8sVars, call, rpc, clock, reported>>

(* Mutant: a request without the secret is turned down, not looked up by   *)
(* the PV.                                                                 *)
DeleteVolume_NeedsSecret(v, h) ==
  /\ claim[v] = "released"
  /\ call[v] = NoHandler
  /\ spec[v].direct
  /\ rpc[h].pc = "idle"
  /\ rpc' = [rpc EXCEPT ![h] = [Idle EXCEPT !.pc = "bucketToDelete",
                                            !.op = "delete", !.volumeID = v]]
  /\ call' = [call EXCEPT ![v] = h]
  /\ UNCHANGED <<cosVars, k8sVars, clock, faultVars, reported>>

DeleteVolume(v, h) ==
  /\ claim[v] = "released"
  /\ call[v] = NoHandler
  /\ rpc[h].pc = "idle"
  /\ rpc' = [rpc EXCEPT ![h] = [Idle EXCEPT !.pc = "bucketToDelete",
                                            !.op = "delete", !.volumeID = v]]
  /\ call' = [call EXCEPT ![v] = h]
  /\ UNCHANGED <<cosVars, k8sVars, clock, faultVars, reported>>

(* DeleteVolume answers success; the provisioner then deletes the PV.      *)
DeleteVolumeReply(h) ==
  LET v == rpc[h].volumeID IN
  /\ IF call[v] = h
     THEN /\ pv' = [pv EXCEPT ![v] = NoPV]
          /\ claim' = [claim EXCEPT ![v] = "gone"]
     ELSE UNCHANGED <<pv, claim>>
  /\ Return(h)
  /\ UNCHANGED spec

(* Mutant: the userProvidedBucket attribute is not looked at. *)
BucketToDelete_Always(h) ==
  LET v == rpc[h].volumeID IN
  /\ rpc[h].pc = "bucketToDelete"
  /\ pv[v] # NoPV
  /\ rpc' = [rpc EXCEPT ![h].pc = "list",
                        ![h].bucketName = pv[v].bucketName]
  /\ UNCHANGED <<cosVars, k8sVars, call, clock, faultVars, reported>>

(* Mutant: the error of the PV lookup is not looked at. *)
BucketToDelete_NoPVCheck(h) ==
  LET v == rpc[h].volumeID IN
  /\ rpc[h].pc = "bucketToDelete"
  /\ pv[v] = NoPV \/ ~pv[v].userProvidedBucket
  /\ rpc' = [rpc EXCEPT ![h].pc = "list",
                        ![h].bucketName = pv[v].bucketName]
  /\ UNCHANGED <<cosVars, k8sVars, call, clock, faultVars, reported>>

(* BucketToDelete names a bucket the driver made for the volume.           *)
BucketToDelete(h) ==
  LET v == rpc[h].volumeID IN
  /\ rpc[h].pc = "bucketToDelete"
  /\ pv[v] # NoPV
  /\ ~pv[v].userProvidedBucket
  /\ rpc' = [rpc EXCEPT ![h].pc = "list",
                        ![h].bucketName = pv[v].bucketName]
  /\ UNCHANGED <<cosVars, k8sVars, call, clock, faultVars, reported>>

(* The bucket is the user's, or the PV cannot be read: success either way. *)
BucketToDeleteNone(h) ==
  LET v == rpc[h].volumeID IN
  /\ rpc[h].pc = "bucketToDelete"
  /\ \/ /\ pv[v] = NoPV \/ pv[v].userProvidedBucket
        /\ NoFault
        /\ UNCHANGED reported
     \/ /\ pv[v] # NoPV
        /\ Fault("pvGet")
        /\ reported' = reported \cup {pv[v].bucketName}
  /\ DeleteVolumeReply(h)
  /\ UNCHANGED <<cosVars, clock>>

-----------------------------------------------------------------------------
(***************************************************************************)
(* COSSession.DeleteBucket, called by DeleteVolume and by a roll back.     *)
(* Both callers log an error of it and go on to the answer they would have *)
(* given anyway: success for DeleteVolume, the original error for          *)
(* CreateVolume.                                                           *)
(***************************************************************************)
(* Mutant: the return after a roll back is missing. *)
DeleteBucketDone_NoReturn(h) ==
  IF rpc[h].op = "delete"
  THEN DeleteVolumeReply(h)
  ELSE Goto(h, "reply") /\ UNCHANGED <<k8sVars, call>>

DeleteBucketDone(h) ==
  IF rpc[h].op = "delete" THEN DeleteVolumeReply(h) ELSE ReturnError(h)

DeleteBucketFailed(h) ==
  /\ reported' = reported \cup {rpc[h].bucketName}
  /\ DeleteBucketDone(h)

(* DeleteVolume with the secret in the request takes the endpoint from the *)
(* secret alone; without one the session does not reach the account.       *)
SessionReaches(h) ==
  LET s == spec[rpc[h].volumeID] IN
  rpc[h].op = "delete" /\ s.direct => s.cosEndpoint

(* One page of keys.                                                       *)
ListObjects(h) ==
  LET b == rpc[h].bucketName IN
  /\ rpc[h].pc = "list"
  /\ SessionReaches(h)
  /\ b \in exists
  /\ \E page \in SUBSET objects[b] :
       /\ \/ page = objects[b] /\ Cardinality(page) <= PageSize
          \/ page # objects[b] /\ Cardinality(page) = PageSize
       /\ rpc' = [rpc EXCEPT ![h].pc = "objects", ![h].listed = page]
  /\ UNCHANGED <<cosVars, k8sVars, call, clock, faultVars, reported>>

(* NoSuchBucket counts as already deleted.                                 *)
ListObjectsNoSuchBucket(h) ==
  /\ rpc[h].pc = "list"
  /\ SessionReaches(h)
  /\ rpc[h].bucketName \notin exists
  /\ DeleteBucketDone(h)
  /\ UNCHANGED <<cosVars, clock, faultVars, reported>>

ListObjectsErr(h) ==
  /\ rpc[h].pc = "list"
  /\ \/ ~SessionReaches(h) /\ NoFault
     \/ SessionReaches(h) /\ Fault("list")
  /\ DeleteBucketFailed(h)
  /\ UNCHANGED <<cosVars, clock>>

(* One listed key is deleted; a versioned bucket keeps a trace of it, and  *)
(* a bucket with suspended versioning may.                                 *)
DeleteObject(h) ==
  LET b == rpc[h].bucketName IN
  /\ rpc[h].pc = "objects"
  /\ b \in exists
  /\ \E k \in rpc[h].listed :
       /\ objects' = [objects EXCEPT ![b] = @ \ {k}]
       /\ rpc' = [rpc EXCEPT ![h].listed = @ \ {k}]
  /\ \E r \in BOOLEAN :
       /\ versioning[b] = "" => ~r
       /\ versioning[b] = "true" => r
       /\ residue' = [residue EXCEPT ![b] = @ \/ r]
  /\ UNCHANGED <<exists, origin, versioning, quota, k8sVars, call, clock,
                 faultVars, reported>>

DeleteObjectErr(h) ==
  /\ rpc[h].pc = "objects"
  /\ rpc[h].listed # {}
  /\ \/ rpc[h].bucketName \notin exists /\ NoFault
     \/ rpc[h].bucketName \in exists /\ Fault("deleteObject")
  /\ DeleteBucketFailed(h)
  /\ UNCHANGED <<cosVars, clock>>

DeleteObjectsDone(h) ==
  /\ rpc[h].pc = "objects"
  /\ rpc[h].listed = {}
  /\ Goto(h, "bucket")
  /\ UNCHANGED <<cosVars, k8sVars, call, clock, faultVars, reported>>

(* COS deletes an empty bucket only.                                       *)
Deletable(b) == b \in exists /\ objects[b] = {} /\ ~residue[b]

DeleteBucket(h) ==
  LET b == rpc[h].bucketName IN
  /\ rpc[h].pc = "bucket"
  /\ Deletable(b)
  /\ exists' = exists \ {b}
  /\ origin' = [origin EXCEPT ![b] = "none"]
  /\ quota' = quota \ {b}
  /\ versioning' = [versioning EXCEPT ![b] = ""]
  /\ reported' = reported \ {b}
  /\ DeleteBucketDone(h)
  /\ UNCHANGED <<objects, residue, clock, faultVars>>

DeleteBucketErr(h) ==
  /\ rpc[h].pc = "bucket"
  /\ \/ ~Deletable(rpc[h].bucketName) /\ NoFault
     \/ Deletable(rpc[h].bucketName) /\ Fault("deleteBucket")
  /\ DeleteBucketFailed(h)
  /\ UNCHANGED <<cosVars, clock>>

-----------------------------------------------------------------------------
(***************************************************************************)
(* The environment: users, workload, provisioner, process restarts.        *)
(***************************************************************************)
CreatePVC(v) ==
  /\ claim[v] = "none"
  /\ claim' = [claim EXCEPT ![v] = "pending"]
  /\ UNCHANGED <<cosVars, spec, pv, call, rpc, clock, faultVars, reported>>

(* The claim is deleted before it was bound.                               *)
AbandonPVC(v) ==
  /\ claim[v] = "pending"
  /\ call[v] = NoHandler
  /\ claim' = [claim EXCEPT ![v] = "gone"]
  /\ UNCHANGED <<cosVars, spec, pv, call, rpc, clock, faultVars, reported>>

(* The claim is deleted; its PV is released, reclaim policy Delete.        *)
DeletePVC(v) ==
  /\ claim[v] = "bound"
  /\ claim' = [claim EXCEPT ![v] = "released"]
  /\ UNCHANGED <<cosVars, spec, pv, call, rpc, clock, faultVars, reported>>

(* A pod writes an object through its mounted volume.                      *)
PutObject(v) ==
  LET b == pv[v].bucketName IN
  /\ claim[v] = "bound"
  /\ b \in exists
  /\ \E k \in Objects \ objects[b] :
       objects' = [objects EXCEPT ![b] = @ \cup {k}]
  /\ UNCHANGED <<exists, origin, versioning, residue, quota, k8sVars, call,
                 rpc, clock, faultVars, reported>>

(* The provisioner gives up waiting (180 s) and will retry; the handler    *)
(* does not notice.  At least a second has passed since the call.          *)
Timeout(v) ==
  /\ call[v] # NoHandler
  /\ Fault("timeout")
  /\ clock < MaxClock
  /\ clock' = clock + 1
  /\ call' = [call EXCEPT ![v] = NoHandler]
  /\ UNCHANGED <<cosVars, k8sVars, rpc, reported>>

(* The controller process dies with all its goroutines.                    *)
Crash ==
  /\ \E h \in Handlers : rpc[h].pc # "idle"
  /\ Fault("crash")
  /\ rpc' = [h \in Handlers |-> Idle]
  /\ call' = [v \in Volumes |-> NoHandler]
  /\ UNCHANGED <<cosVars, k8sVars, clock, reported>>

Tick ==
  /\ clock < MaxClock
  /\ clock' = clock + 1
  /\ UNCHANGED <<cosVars, k8sVars, call, rpc, faultVars, reported>>

-----------------------------------------------------------------------------
LookupStep(h) == GetSecretErr(h) \/ GetSecretOk(h)

CreateStep(h) ==
  \/ HeadBucketOk(h) \/ HeadBucketErr(h)
  \/ CreateBucketOk(h) \/ CreateBucketErr(h)
  \/ CheckAccessOk(h) \/ CheckAccessErr(h)
  \/ UpdateQuotaLimitOk(h) \/ UpdateQuotaLimitErr(h)
  \/ SetBucketVersioningOk(h) \/ SetBucketVersioningErr(h)
  \/ CreateVolumeReply(h)

DeleteStep(h) ==
  \/ BucketToDelete(h) \/ BucketToDeleteNone(h)
  \/ ListObjects(h) \/ ListObjectsNoSuchBucket(h) \/ ListObjectsErr(h)
  \/ DeleteObject(h) \/ DeleteObjectErr(h) \/ DeleteObjectsDone(h)
  \/ DeleteBucket(h) \/ DeleteBucketErr(h)

Provisioner(v) ==
  \/ DeleteVolumeReject(v)
  \/ \E h \in Handlers : CreateVolume(v, h) \/ DeleteVolume(v, h)

Environment(v) ==
  CreatePVC(v) \/ AbandonPVC(v) \/ DeletePVC(v) \/ PutObject(v) \/ Timeout(v)

Next ==
  \/ \E h \in Handlers : LookupStep(h) \/ CreateStep(h) \/ DeleteStep(h)
  \/ \E v \in Volumes : Provisioner(v) \/ Environment(v)
  \/ Crash
  \/ Tick

Spec == Init /\ [][Next]_vars

(***************************************************************************)
(* A goroutine that can take a step takes one, and the provisioner retries *)
(* as long as its work queue holds the volume.  Nothing is assumed of the  *)
(* users, of the clock, or of faults other than that they are finitely     *)
(* many.                                                                   *)
(***************************************************************************)
Fairness ==
  /\ \A h \in Handlers :
       WF_vars(LookupStep(h) \/ CreateStep(h) \/ DeleteStep(h))
  /\ \A v \in Volumes : WF_vars(Provisioner(v))

FairSpec == Spec /\ Fairness

-----------------------------------------------------------------------------
(***************************************************************************)
(* Properties.                                                             *)
(***************************************************************************)

(* The provisioner waits only for a goroutine that serves its volume.      *)
CallsAgree ==
  \A v \in Volumes : call[v] # NoHandler =>
    rpc[call[v]].pc # "idle" /\ rpc[call[v]].volumeID = v

(* A goroutine about to call COS knows its volume and names a bucket, also *)
(* when the PV it was to read the name from is gone.                       *)
CallsName ==
  \A h \in Handlers :
    /\ rpc[h].pc = "idle" => rpc[h] = Idle
    /\ rpc[h].pc # "idle" => rpc[h].volumeID \in Volumes
    /\ rpc[h].pc \notin {"idle", "lookup", "bucketToDelete"} =>
         rpc[h].bucketName \in Buckets

(* The type of every variable; goroutines and the calls awaited agree, and *)
(* no goroutine calls COS without a bucket name.                           *)
TypeOK ==
  /\ exists \in SUBSET Buckets
  /\ origin \in [Buckets -> {"none", "user", "driver"}]
  /\ objects \in [Buckets -> SUBSET Objects]
  /\ versioning \in [Buckets -> {"", "true", "false"}]
  /\ residue \in [Buckets -> BOOLEAN]
  /\ quota \in SUBSET Buckets
  /\ claim \in [Volumes -> {"none", "pending", "bound", "released", "gone"}]
  /\ spec \in [Volumes -> Claims]
  /\ pv \in [Volumes -> PVType]
  /\ call \in [Volumes -> Handlers \cup {NoHandler}]
  /\ rpc \in [Handlers -> RpcType]
  /\ clock \in 0..MaxClock
  /\ seen \in SUBSET FaultKind
  /\ budget \in 0..MaxFaults
  /\ late \in SUBSET TempBuckets
  /\ reported \in SUBSET Buckets
  /\ CallsAgree
  /\ CallsName

(***************************************************************************)
(* A bound volume on a generated bucket whose name is its own: no          *)
(* CreateVolume that had lost its caller in the lookups chose a name for   *)
(* the volume in the same second.  If one did, the two attempts share one  *)
(* bucket (CreateBucket answers BucketAlreadyOwnedByYou, which counts as   *)
(* success), and the roll back of one takes it from the other.             *)
(***************************************************************************)
HasTempBucket(v) ==
  claim[v] = "bound" /\ pv[v].bucketName \in TempBuckets \ late

(* Such a volume keeps its bucket, whatever faults happen: in particular   *)
(* the roll back of a CreateVolume the provisioner gave up on never        *)
(* deletes the bucket the retry handed out.                                *)
TempBucketIntact ==
  \A v \in Volumes : HasTempBucket(v) =>
    /\ pv[v].bucketName \in exists
    /\ origin[pv[v].bucketName] = "driver"
    /\ ~pv[v].userProvidedBucket

(* The bucket of such a volume has the quota and the versioning the claim  *)
(* asked for: CreateVolume never answers success before both are set.      *)
ConfiguredAsRequested ==
  \A v \in Volumes : HasTempBucket(v) =>
    LET b == pv[v].bucketName IN
    /\ spec[v].quotaLimit => b \in quota
    /\ spec[v].bucketVersioning # "" =>
         versioning[b] = spec[v].bucketVersioning

(***************************************************************************)
(* The inductive invariant behind the two properties above.  A goroutine   *)
(* of CreateVolume on a generated bucket is alone with it until it hands   *)
(* it over in its answer.                                                  *)
(***************************************************************************)
Making(h) ==
  rpc[h].op \in {"create", "rollback"} /\ rpc[h].bucketName \in TempBuckets

(* Which calls a goroutine of each handler makes.                          *)
OnPath(r) ==
  \/ r.op = "none" /\ r.pc = "idle"
  \/ /\ r.op = "create"
     /\ r.pc \in {"lookup", "head", "create", "access", "quota", "versioning",
                "reply"}
  \/ r.op = "rollback" /\ r.pc \in {"list", "objects", "bucket"}
  \/ /\ r.op = "delete"
     /\ r.pc \in {"bucketToDelete", "list", "objects", "bucket"}

PathsAgree == \A h \in Handlers : OnPath(rpc[h])

(* A generated bucket is named after its volume, and a volume whose secret *)
(* names no bucket has no other one.                                       *)
NamesOwn ==
  /\ \A h \in Handlers : rpc[h].bucketName \in TempBuckets =>
       rpc[h].bucketName[1] = rpc[h].volumeID
  /\ \A v \in Volumes : pv[v].bucketName \in TempBuckets =>
       pv[v].bucketName[1] = v
  /\ \A h \in Handlers :
       rpc[h].op = "create" /\ rpc[h].pc # "lookup" =>
         \/ spec[rpc[h].volumeID].bucketName # NoBucket
         \/ rpc[h].bucketName \in TempBuckets
  /\ \A v \in Volumes : pv[v] # NoPV /\ spec[v].bucketName = NoBucket =>
       pv[v].bucketName \in TempBuckets

(* Which phase a claim is in when it has a PV, or a call for it runs.      *)
PhasesAgree ==
  /\ \A v \in Volumes : pv[v] # NoPV => claim[v] \in {"bound", "released"}
  /\ \A v \in Volumes : claim[v] \in {"none", "pending"} => pv[v] = NoPV
  /\ \A h \in Handlers : rpc[h].op = "delete" =>
       claim[rpc[h].volumeID] \in {"released", "gone"}
  /\ \A v \in Volumes : call[v] # NoHandler =>
       claim[v] = IF rpc[call[v]].op = "delete" THEN "released" ELSE "pending"

(* A goroutine uses a name of some time not in the future.  One that       *)
(* nobody waits for any more lost its caller in a COS call, and then its   *)
(* name is of an earlier second, or in the lookups.                        *)
StaleOlder ==
  \A h \in Handlers : Making(h) =>
    /\ rpc[h].bucketName[2] <= clock
    /\ call[rpc[h].volumeID] # h =>
         rpc[h].bucketName[2] < clock \/ rpc[h].bucketName \in late

(* No other goroutine and no PV names the bucket of a CreateVolume, unless *)
(* the name was chosen by one nobody waited for.                           *)
MakersApart ==
  \A h \in Handlers : Making(h) /\ rpc[h].bucketName \notin late =>
    /\ \A g \in Handlers \ {h} : rpc[g].bucketName # rpc[h].bucketName
    /\ \A v \in Volumes : pv[v].bucketName # rpc[h].bucketName

(* What a CreateVolume has achieved when it is past a call.                *)
Progress(h) ==
  LET b == rpc[h].bucketName
      s == spec[rpc[h].volumeID]
  IN
  /\ rpc[h].pc # "head"
  /\ rpc[h].pc \in {"quota", "versioning", "reply"} =>
       b \in exists /\ ~rpc[h].userProvidedBucket
  /\ rpc[h].pc \in {"versioning", "reply"} /\ s.quotaLimit => b \in quota
  /\ rpc[h].pc = "reply" /\ s.bucketVersioning # "" =>
       versioning[b] = s.bucketVersioning

MakersProgress ==
  \A h \in Handlers :
    Making(h) /\ rpc[h].op = "create" /\ rpc[h].bucketName \notin late =>
      Progress(h)

(* Only the driver makes a generated bucket, and only the pods of the      *)
(* volume that was given it store anything in it.                          *)
TempBucketsOwn ==
  \A b \in TempBuckets :
    /\ b \in exists => origin[b] = "driver"
    /\ objects[b] # {} => claim[b[1]] = "gone" \/ pv[b[1]].bucketName = b

RunInv == PathsAgree /\ NamesOwn /\ PhasesAgree /\ StaleOlder /\ MakersApart

TempInv ==
  /\ RunInv
  /\ MakersProgress
  /\ TempBucketsOwn
  /\ TempBucketIntact
  /\ ConfiguredAsRequested

(* The driver removes neither a bucket that was there before it, nor an    *)
(* object in it, as long as HeadBucket answers truthfully.                 *)
UserBucketKept ==
  [][\A b \in Buckets : origin[b] = "user" /\ "head" \notin seen =>
       b \in exists' /\ objects[b] \subseteq objects'[b]]_vars

(* The inductive invariant behind it: a goroutine or a PV on a user's      *)
(* bucket knows that it is one, and is not on a path that removes it.      *)
Harmless(r) ==
  /\ r.op = "create"
  /\ r.userProvidedBucket
  /\ r.pc \in {"head", "quota", "versioning", "reply"}

UserInv ==
  "head" \notin seen =>
    \A b \in Buckets : origin[b] = "user" =>
      /\ b \in exists
      /\ b \in UserBuckets
      /\ \A h \in Handlers : rpc[h].bucketName = b => Harmless(rpc[h])
      /\ \A v \in Volumes : pv[v].bucketName = b =>
           pv[v].userProvidedBucket

(***************************************************************************)
(* The promise kept to volumes on generated buckets.  The store of such a  *)
(* volume is the bucket its PV names.  A volume whose secret names the     *)
(* bucket is not promised a store of its own and is left out.              *)
(***************************************************************************)
Generated(v) == spec[v].bucketName = NoBucket

(* Another attempt has chosen the name of the volume's bucket, too.        *)
Contested(v) == Generated(v) /\ pv[v].bucketName \in late

Served(v) == Generated(v) /\ pv[v].bucketName \in exists \ late

storePhase == [v \in Volumes |-> IF Generated(v) THEN claim[v] ELSE "none"]
storeContested == {v \in Volumes : Contested(v)}
storeLive == {v \in Volumes : Served(v)}
storeData ==
  [v \in Volumes |-> IF Served(v) THEN objects[pv[v].bucketName] ELSE {}]

Store == INSTANCE VolumeStore WITH
  phase <- storePhase, contested <- storeContested, live <- storeLive,
  data <- storeData

(* Every behaviour of the controller, with overlapping retries, roll backs *)
(* of abandoned calls, late deletions and crashes, is one of a set of      *)
(* private stores: a generated bucket is handed out empty, loses nothing   *)
(* while its volume is bound, and is shared with no other volume.          *)
PrivateStore == Store!Spec

Holds(v, b) == claim[v] \in {"bound", "released"} /\ pv[v].bucketName = b

(* A bucket the driver made that nobody will delete any more.              *)
Orphan(b) ==
  /\ b \in exists
  /\ origin[b] = "driver"
  /\ \A v \in Volumes : ~Holds(v, b)
  /\ \A h \in Handlers : rpc[h].bucketName # b

(* No bucket is leaked without an error in the log, unless the provisioner *)
(* gave up on a call or the process died.                                  *)
NoSilentOrphan ==
  \A b \in Buckets : Orphan(b) =>
    b \in reported \/ "timeout" \in seen \/ "crash" \in seen

Dedicated(v) ==
  \A w \in Volumes \ {v} :
    spec[w].bucketName = spec[v].bucketName => spec[v].bucketName = NoBucket

(* A bound volume whose bucket name no other claim uses has its bucket, as *)
(* long as no call is retried while its first attempt still runs.          *)
DedicatedBucketIntact ==
  \A v \in Volumes :
    claim[v] = "bound" /\ Dedicated(v) /\ "timeout" \notin seen =>
      pv[v].bucketName \in exists

(***************************************************************************)
(* The inductive invariant behind the two properties above.  Until a call  *)
(* times out, every goroutine is awaited, so a volume has at most one.     *)
(***************************************************************************)
Awaited ==
  \A h \in Handlers : rpc[h].pc # "idle" => call[rpc[h].volumeID] = h

(* DeleteVolume works on the bucket the PV of its volume names.            *)
DeletesItsOwn ==
  \A h \in Handlers :
    rpc[h].op = "delete" /\ rpc[h].pc # "bucketToDelete" =>
      rpc[h].bucketName = pv[rpc[h].volumeID].bucketName

(* A goroutine or a PV on a bucket a secret can name has the name from the *)
(* secret of its volume.                                                   *)
NamedBySecret ==
  /\ \A h \in Handlers : rpc[h].bucketName \in UserBuckets =>
       rpc[h].bucketName = spec[rpc[h].volumeID].bucketName
  /\ \A v \in Volumes : pv[v].bucketName \in UserBuckets =>
       pv[v].bucketName = spec[v].bucketName

(* CreateVolume is past the calls that find or make the bucket.            *)
HasAccess(h) ==
  rpc[h].op = "create" /\ rpc[h].pc \in {"quota", "versioning", "reply"}

(* The bucket CreateVolume has found or made for such a volume stays until *)
(* it answers.                                                             *)
DedicatedAccess ==
  \A h \in Handlers : HasAccess(h) /\ Dedicated(rpc[h].volumeID) =>
    rpc[h].bucketName \in exists

(* Who is to delete a bucket of the driver: DeleteVolume for this PV, or   *)
(* the CreateVolume that made it, should it fail.                          *)
ToDelete(v, b) == pv[v].bucketName = b /\ ~pv[v].userProvidedBucket

ToRollBack(h, b) ==
  /\ rpc[h].bucketName = b
  /\ \/ rpc[h].op = "rollback"
     \/ /\ rpc[h].op = "create"
        /\ \/ rpc[h].pc = "access"
           \/ rpc[h].pc # "lookup" /\ ~rpc[h].userProvidedBucket

Attended ==
  \A b \in Buckets : b \in exists /\ origin[b] = "driver" =>
    \/ b \in reported
    \/ \E v \in Volumes : ToDelete(v, b)
    \/ \E h \in Handlers : ToRollBack(h, b)

CalmInv ==
  /\ NamedBySecret
  /\ "timeout" \notin seen =>
       /\ Awaited
       /\ DeletesItsOwn
       /\ DedicatedAccess
       /\ "crash" \notin seen => Attended
  /\ DedicatedBucketIntact

(* A released volume is eventually gone: DeleteVolume cannot fail forever. *)
ReleasedVolumeGoes ==
  \A v \in Volumes : claim[v] = "released" ~> claim[v] = "gone"

(* A well-formed claim that shares its bucket name with no other does not  *)
(* stay pending: CreateVolume succeeds on a retry after finitely many      *)
(* faults.  (Two claims on one name can roll back each other's bucket in   *)
(* turn, for ever, after a single failed versioning call.)                 *)
PendingClaimSettles ==
  \A v \in Volumes :
    claim[v] = "pending" /\ spec[v].valid /\ Dedicated(v) ~>
      claim[v] # "pending"

-----------------------------------------------------------------------------
(***************************************************************************)
(* What the documentation says of the driver and the code does not do.     *)
(***************************************************************************)

(* "This allows you to use a single secret across multiple PVCs": a bound  *)
(* volume then has a bucket, also when the claim that made it is deleted.  *)
BoundVolumeHasBucket ==
  \A v \in Volumes : claim[v] = "bound" => pv[v].bucketName \in exists

(* "DeleteBucket methods deletes a bucket (with all of its objects)":      *)
(* without any fault, no bucket of the driver is left behind.              *)
NoOrphan == \A b \in Buckets : seen = {} => ~Orphan(b)

(* "Check its existence and create if not present": a bucket that was      *)
(* there before the driver is not one it created, and it never removes it. *)
UserBucketPersisted ==
  [][\A b \in Buckets : origin[b] = "user" => b \in exists']_vars
=============================================================================
