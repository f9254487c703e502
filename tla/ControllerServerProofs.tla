----------------------- MODULE ControllerServerProofs -----------------------
(***************************************************************************)
(* Proofs about ControllerServer, for every set of volumes, buckets,       *)
(* handlers and claims and every bound on the clock and the faults.        *)
(***************************************************************************)
EXTENDS ControllerServer, TLAPS

(***************************************************************************)
(* Lemmas on the data.                                                     *)
(***************************************************************************)

(* A generated name is a pair of a volume and a time.                      *)
LEMMA TempBucketShape ==
  /\ \A b \in TempBuckets : b = <<b[1], b[2]>> /\ b[1] \in Volumes
                                            /\ b[2] \in 0..MaxClock
  /\ \A v \in Volumes, t \in 0..MaxClock :
       getTempBucketName(v, t) \in TempBuckets
  /\ \A v \in Volumes, t \in 0..MaxClock :
       getTempBucketName(v, t)[1] = v /\ getTempBucketName(v, t)[2] = t
BY DEF TempBuckets, getTempBucketName

LEMMA IdleType == Idle \in RpcType
BY DEF Idle, RpcType

LEMMA AfterType ==
  ASSUME NEW v
  PROVE  /\ AfterAccess(v) \in {"quota", "versioning", "reply"}
         /\ AfterQuota(v) \in {"versioning", "reply"}
BY DEF AfterAccess, AfterQuota

-----------------------------------------------------------------------------
(***************************************************************************)
(* Types.  A step of a goroutine either moves it on, with a record of its  *)
(* type, or ends it with Return; each keeps the part of TypeOK that is     *)
(* about goroutines and calls.                                             *)
(***************************************************************************)
CosOK ==
  /\ exists \in SUBSET Buckets
  /\ origin \in [Buckets -> {"none", "user", "driver"}]
  /\ objects \in [Buckets -> SUBSET Objects]
  /\ versioning \in [Buckets -> {"", "true", "false"}]
  /\ residue \in [Buckets -> BOOLEAN]
  /\ quota \in SUBSET Buckets

K8sOK ==
  /\ claim \in [Volumes -> {"none", "pending", "bound", "released", "gone"}]
  /\ spec \in [Volumes -> Claims]
  /\ pv \in [Volumes -> PVType]

LogOK ==
  /\ seen \in SUBSET FaultKind
  /\ budget \in 0..MaxFaults
  /\ late \in SUBSET TempBuckets

RpcOK ==
  /\ call \in [Volumes -> Handlers \cup {NoHandler}]
  /\ rpc \in [Handlers -> RpcType]
  /\ CallsAgree
  /\ CallsName

Busy == {"head", "create", "access", "quota", "versioning", "reply", "list",
         "objects", "bucket"}

LEMMA TypeParts ==
  TypeOK <=> /\ CosOK /\ K8sOK /\ RpcOK /\ LogOK
             /\ clock \in 0..MaxClock /\ reported \in SUBSET Buckets
BY DEF TypeOK, CosOK, K8sOK, RpcOK, LogOK

LEMMA TypePartsNext ==
  TypeOK' <=> /\ CosOK' /\ K8sOK' /\ RpcOK' /\ LogOK'
              /\ clock' \in 0..MaxClock /\ reported' \in SUBSET Buckets
BY DEF TypeOK, CosOK, K8sOK, RpcOK, LogOK

LEMMA CosSame == CosOK /\ UNCHANGED cosVars => CosOK'
BY DEF CosOK, cosVars

LEMMA K8sSame == K8sOK /\ UNCHANGED k8sVars => K8sOK'
BY DEF K8sOK, k8sVars

LEMMA LogSame == LogOK /\ UNCHANGED faultVars => LogOK'
BY DEF LogOK, faultVars

LEMMA FaultOK == ASSUME LogOK, NEW k, Fault(k) PROVE LogOK'
<1>1. seen' \in SUBSET FaultKind
  BY ConstantsAssumption DEF LogOK, Fault
<1>2. budget' \in 0..MaxFaults
  BY ConstantsAssumption DEF LogOK, Fault
<1>3. late' = late
  BY DEF Fault
<1> QED
  BY <1>1, <1>2, <1>3 DEF LogOK

LEMMA NewBucketOK ==
  ASSUME CosOK, NEW b \in Buckets, NewBucket(b)
  PROVE  CosOK'
<1>1. exists' \in SUBSET Buckets /\ quota' \in SUBSET Buckets
  BY DEF CosOK, NewBucket
<1>2. origin' \in [Buckets -> {"none", "user", "driver"}]
  BY DEF CosOK, NewBucket
<1>3. objects' \in [Buckets -> SUBSET Objects]
  BY DEF CosOK, NewBucket
<1>4. versioning' \in [Buckets -> {"", "true", "false"}]
  BY DEF CosOK, NewBucket
<1>5. residue' \in [Buckets -> BOOLEAN]
  BY DEF CosOK, NewBucket
<1> QED
  BY <1>1, <1>2, <1>3, <1>4, <1>5 DEF CosOK

LEMMA NoPVType == NoPV \in PVType
BY DEF NoPV, PVType

LEMMA PVFacts ==
  /\ NoBucket \notin Buckets
  /\ \A p \in PVType : p # NoPV => p.bucketName \in Buckets
  /\ \A p \in PVType : p.bucketName \in Buckets \cup {NoBucket}
  /\ \A p \in PVType : p.userProvidedBucket \in BOOLEAN
<1>1. NoBucket \notin Buckets
  BY ConstantsAssumption
<1>2. ASSUME NEW p \in PVType
      PROVE  /\ p # NoPV => p.bucketName \in Buckets
             /\ p.bucketName \in Buckets \cup {NoBucket}
             /\ p.userProvidedBucket \in BOOLEAN
  <2>1. CASE p = NoPV
    BY <2>1 DEF NoPV
  <2>2. CASE p \in [bucketName : Buckets, userProvidedBucket : BOOLEAN]
    BY <2>2
  <2> QED
    BY <2>1, <2>2 DEF PVType
<1> QED
  BY <1>1, <1>2

LEMMA ClaimFacts ==
  ASSUME K8sOK, NEW v \in Volumes
  PROVE  /\ spec[v].bucketName \in UserBuckets \cup {NoBucket}
         /\ spec[v].bucketVersioning \in {"", "true", "false"}
<1>1. spec[v] \in ClaimType
  BY ConstantsAssumption DEF K8sOK
<1> QED
  BY <1>1 DEF ClaimType

LEMMA DeleteReplyOK ==
  ASSUME K8sOK, NEW h \in Handlers, rpc[h].volumeID \in Volumes,
         DeleteVolumeReply(h) \/ ReturnError(h)
  PROVE  K8sOK'
<1>1. CASE ReturnError(h)
  BY <1>1, K8sSame DEF ReturnError
<1>2. CASE DeleteVolumeReply(h)
  BY <1>2, NoPVType DEF DeleteVolumeReply, K8sOK
<1> QED
  BY <1>1, <1>2

LEMMA MoveOK ==
  ASSUME RpcOK, NEW h \in Handlers, NEW r \in RpcType,
         rpc[h].pc # "idle", r.pc \in Busy, r.volumeID = rpc[h].volumeID,
         r.bucketName \in Buckets,
         rpc' = [rpc EXCEPT ![h] = r], UNCHANGED call
  PROVE  RpcOK'
<1>1. rpc' \in [Handlers -> RpcType] /\ call' \in [Volumes -> Handlers \cup {NoHandler}]
  BY DEF RpcOK
<1>2. rpc'[h] = r /\ \A g \in Handlers \ {h} : rpc'[g] = rpc[g]
  BY DEF RpcOK
<1>3. CallsAgree'
  BY <1>2, ConstantsAssumption DEF RpcOK, CallsAgree, Busy
<1>4. CallsName'
  BY <1>2 DEF RpcOK, CallsName, Busy
<1> QED
  BY <1>1, <1>3, <1>4 DEF RpcOK

LEMMA GotoOK ==
  ASSUME RpcOK, NEW h \in Handlers, NEW l \in Busy,
         rpc[h].pc \in Busy, Goto(h, l), UNCHANGED call
  PROVE  RpcOK'
<1> DEFINE r == [rpc[h] EXCEPT !.pc = l]
<1>1. /\ r \in RpcType
      /\ r.pc = l /\ r.volumeID = rpc[h].volumeID
      /\ r.bucketName = rpc[h].bucketName
  BY DEF RpcOK, RpcType, Busy
<1>2. rpc' = [rpc EXCEPT ![h] = r]
  BY DEF Goto, RpcOK
<1>3. rpc[h].pc # "idle" /\ rpc[h].bucketName \in Buckets
  BY DEF RpcOK, CallsName, Busy
<1> QED
  BY <1>1, <1>2, <1>3, MoveOK

LEMMA ReturnOK ==
  ASSUME RpcOK, NEW h \in Handlers, rpc[h].pc # "idle", Return(h)
  PROVE  RpcOK'
<1>1. rpc[h].volumeID \in Volumes
  BY DEF RpcOK, CallsName
<1>2. /\ rpc' \in [Handlers -> RpcType]
      /\ rpc'[h] = Idle
      /\ \A g \in Handlers \ {h} : rpc'[g] = rpc[g]
  BY IdleType DEF RpcOK, Return
<1>3. /\ call' \in [Volumes -> Handlers \cup {NoHandler}]
      /\ \A v \in Volumes : call'[v] \in {call[v], NoHandler} /\ call'[v] # h
  BY <1>1, ConstantsAssumption DEF RpcOK, Return, CallsAgree
<1>4. CallsAgree'
  BY <1>2, <1>3, ConstantsAssumption DEF RpcOK, CallsAgree
<1>5. CallsName'
  BY <1>2 DEF RpcOK, CallsName, Idle
<1> QED
  BY <1>2, <1>3, <1>4, <1>5 DEF RpcOK

LEMMA TypeStep == TypeOK /\ [Next]_vars => TypeOK'
<1> SUFFICES ASSUME TypeOK, [Next]_vars PROVE TypeOK'
  OBVIOUS
<1>0. /\ CosOK /\ K8sOK /\ RpcOK /\ LogOK
      /\ clock \in 0..MaxClock /\ reported \in SUBSET Buckets
  BY TypeParts
<1>1. ASSUME NEW h \in Handlers, HeadBucketOk(h) PROVE TypeOK'
  <2>0. rpc[h].pc # "idle" /\ rpc[h].volumeID \in Volumes
    BY <1>1, <1>0 DEF HeadBucketOk, RpcOK, CallsName
  <2>1. RpcOK'
    BY <1>1, <1>0, GotoOK, AfterType DEF HeadBucketOk, Busy, k8sVars
  <2>2. rpc[h].bucketName \in Buckets
    BY <1>1, <1>0 DEF HeadBucketOk, RpcOK, CallsName
  <2>3. CosOK'
    BY <1>1, <1>0, CosSame DEF HeadBucketOk
  <2>4. K8sOK'
    BY <1>1, <1>0, K8sSame DEF HeadBucketOk, k8sVars
  <2>5. LogOK'
    BY <1>1, <1>0, LogSame DEF HeadBucketOk
  <2>6. reported' \in SUBSET Buckets
    BY <1>1, <1>0, <2>2 DEF HeadBucketOk
  <2> QED
    BY <1>1, <1>0, <2>1, <2>3, <2>4, <2>5, <2>6, TypePartsNext DEF HeadBucketOk
<1>2. ASSUME NEW h \in Handlers, HeadBucketErr(h) PROVE TypeOK'
  <2>0. rpc[h].pc # "idle" /\ rpc[h].volumeID \in Volumes
    BY <1>2, <1>0 DEF HeadBucketErr, RpcOK, CallsName
  <2>1. RpcOK'
    BY <1>2, <1>0, GotoOK DEF HeadBucketErr, Busy, k8sVars
  <2>2. rpc[h].bucketName \in Buckets
    BY <1>2, <1>0 DEF HeadBucketErr, RpcOK, CallsName
  <2>3. CosOK'
    BY <1>2, <1>0, CosSame DEF HeadBucketErr
  <2>4. K8sOK'
    BY <1>2, <1>0, K8sSame DEF HeadBucketErr, k8sVars
  <2>5. LogOK'
    BY <1>2, <1>0, LogSame, FaultOK DEF HeadBucketErr, NoFault
  <2>6. reported' \in SUBSET Buckets
    BY <1>2, <1>0, <2>2 DEF HeadBucketErr
  <2> QED
    BY <1>2, <1>0, <2>1, <2>3, <2>4, <2>5, <2>6, TypePartsNext DEF HeadBucketErr
<1>3. ASSUME NEW h \in Handlers, CreateBucketOk(h) PROVE TypeOK'
  <2>0. rpc[h].pc # "idle" /\ rpc[h].volumeID \in Volumes
    BY <1>3, <1>0 DEF CreateBucketOk, RpcOK, CallsName
  <2>1. RpcOK'
    BY <1>3, <1>0, GotoOK DEF CreateBucketOk, Busy, k8sVars
  <2>2. rpc[h].bucketName \in Buckets
    BY <1>3, <1>0 DEF CreateBucketOk, RpcOK, CallsName
  <2>3. CosOK'
    BY <1>3, <1>0, <2>2, CosSame, NewBucketOK DEF CreateBucketOk
  <2>4. K8sOK'
    BY <1>3, <1>0, K8sSame DEF CreateBucketOk, k8sVars
  <2>5. LogOK'
    BY <1>3, <1>0, LogSame DEF CreateBucketOk
  <2>6. reported' \in SUBSET Buckets
    BY <1>3, <1>0, <2>2 DEF CreateBucketOk
  <2> QED
    BY <1>3, <1>0, <2>1, <2>3, <2>4, <2>5, <2>6, TypePartsNext DEF CreateBucketOk
<1>4. ASSUME NEW h \in Handlers, CreateBucketErr(h) PROVE TypeOK'
  <2>0. rpc[h].pc # "idle" /\ rpc[h].volumeID \in Volumes
    BY <1>4, <1>0 DEF CreateBucketErr, RpcOK, CallsName
  <2>1. RpcOK'
    BY <1>4, <1>0, <2>0, ReturnOK DEF CreateBucketErr, ReturnError
  <2>2. rpc[h].bucketName \in Buckets
    BY <1>4, <1>0 DEF CreateBucketErr, RpcOK, CallsName
  <2>3. CosOK'
    BY <1>4, <1>0, <2>2, CosSame, NewBucketOK DEF CreateBucketErr
  <2>4. K8sOK'
    BY <1>4, <1>0, K8sSame DEF CreateBucketErr, ReturnError
  <2>5. LogOK'
    BY <1>4, <1>0, LogSame, FaultOK DEF CreateBucketErr, NoFault
  <2>6. reported' \in SUBSET Buckets
    BY <1>4, <1>0, <2>2 DEF CreateBucketErr
  <2> QED
    BY <1>4, <1>0, <2>1, <2>3, <2>4, <2>5, <2>6, TypePartsNext DEF CreateBucketErr
<1>5. ASSUME NEW h \in Handlers, CheckAccessOk(h) PROVE TypeOK'
  <2>0. rpc[h].pc # "idle" /\ rpc[h].volumeID \in Volumes
    BY <1>5, <1>0 DEF CheckAccessOk, RpcOK, CallsName
  <2> DEFINE r == [rpc[h] EXCEPT !.pc = AfterAccess(rpc[h].volumeID),
                               !.userProvidedBucket = FALSE]
  <2>1. RpcOK'
    <3>1. rpc[h].bucketName \in Buckets
      BY <1>5, <1>0, <2>0 DEF CheckAccessOk, RpcOK, CallsName
    <3>2. /\ r \in RpcType /\ r.pc \in Busy
          /\ r.volumeID = rpc[h].volumeID /\ r.bucketName = rpc[h].bucketName
      BY <3>1, <1>0, AfterType DEF RpcOK, RpcType, Busy
    <3>3. rpc' = [rpc EXCEPT ![h] = r] /\ UNCHANGED call
      BY <1>5, <1>0 DEF CheckAccessOk, RpcOK
    <3> HIDE DEF r
    <3> QED
      BY <3>1, <3>2, <3>3, <1>0, <2>0, MoveOK
  <2>2. rpc[h].bucketName \in Buckets
    BY <1>5, <1>0 DEF CheckAccessOk, RpcOK, CallsName
  <2>3. CosOK'
    BY <1>5, <1>0, CosSame DEF CheckAccessOk
  <2>4. K8sOK'
    BY <1>5, <1>0, K8sSame DEF CheckAccessOk, k8sVars
  <2>5. LogOK'
    BY <1>5, <1>0, LogSame DEF CheckAccessOk
  <2>6. reported' \in SUBSET Buckets
    BY <1>5, <1>0, <2>2 DEF CheckAccessOk
  <2> QED
    BY <1>5, <1>0, <2>1, <2>3, <2>4, <2>5, <2>6, TypePartsNext DEF CheckAccessOk
<1>6. ASSUME NEW h \in Handlers, CheckAccessErr(h) PROVE TypeOK'
  <2>0. rpc[h].pc # "idle" /\ rpc[h].volumeID \in Volumes
    BY <1>6, <1>0 DEF CheckAccessErr, RpcOK, CallsName
  <2>1. RpcOK'
    BY <1>6, <1>0, <2>0, ReturnOK DEF CheckAccessErr, ReturnError
  <2>2. rpc[h].bucketName \in Buckets
    BY <1>6, <1>0 DEF CheckAccessErr, RpcOK, CallsName
  <2>3. CosOK'
    BY <1>6, <1>0, CosSame DEF CheckAccessErr
  <2>4. K8sOK'
    BY <1>6, <1>0, K8sSame DEF CheckAccessErr, ReturnError
  <2>5. LogOK'
    BY <1>6, <1>0, LogSame, FaultOK DEF CheckAccessErr, NoFault
  <2>6. reported' \in SUBSET Buckets
    BY <1>6, <1>0, <2>2 DEF CheckAccessErr
  <2> QED
    BY <1>6, <1>0, <2>1, <2>3, <2>4, <2>5, <2>6, TypePartsNext DEF CheckAccessErr
<1>7. ASSUME NEW h \in Handlers, UpdateQuotaLimitOk(h) PROVE TypeOK'
  <2>0. rpc[h].pc # "idle" /\ rpc[h].volumeID \in Volumes
    BY <1>7, <1>0 DEF UpdateQuotaLimitOk, RpcOK, CallsName
  <2>1. RpcOK'
    BY <1>7, <1>0, GotoOK, AfterType DEF UpdateQuotaLimitOk, Busy, k8sVars
  <2>2. rpc[h].bucketName \in Buckets
    BY <1>7, <1>0 DEF UpdateQuotaLimitOk, RpcOK, CallsName
  <2>3. CosOK'
    BY <1>7, <1>0, <2>2 DEF UpdateQuotaLimitOk, CosOK
  <2>4. K8sOK'
    BY <1>7, <1>0, K8sSame DEF UpdateQuotaLimitOk, k8sVars
  <2>5. LogOK'
    BY <1>7, <1>0, LogSame DEF UpdateQuotaLimitOk
  <2>6. reported' \in SUBSET Buckets
    BY <1>7, <1>0, <2>2 DEF UpdateQuotaLimitOk
  <2> QED
    BY <1>7, <1>0, <2>1, <2>3, <2>4, <2>5, <2>6, TypePartsNext DEF UpdateQuotaLimitOk
<1>8. ASSUME NEW h \in Handlers, UpdateQuotaLimitErr(h) PROVE TypeOK'
  <2>0. rpc[h].pc # "idle" /\ rpc[h].volumeID \in Volumes
    BY <1>8, <1>0 DEF UpdateQuotaLimitErr, RpcOK, CallsName
  <2> DEFINE r == [rpc[h] EXCEPT !.pc = "list", !.op = "rollback"]
  <2>1. RpcOK'
    <3>1. CASE rpc[h].userProvidedBucket
      BY <3>1, <1>8, <1>0, <2>0, ReturnOK DEF UpdateQuotaLimitErr, RollBack, ReturnError
    <3>2. CASE ~rpc[h].userProvidedBucket
      <4>1. /\ r \in RpcType /\ r.pc = "list"
            /\ r.volumeID = rpc[h].volumeID /\ r.bucketName = rpc[h].bucketName
        BY <1>0 DEF RpcOK, RpcType
      <4>2. rpc' = [rpc EXCEPT ![h] = r] /\ UNCHANGED call
        BY <3>2, <1>8, <1>0 DEF UpdateQuotaLimitErr, RollBack, RpcOK
      <4>3. rpc[h].bucketName \in Buckets
        BY <1>8, <1>0 DEF UpdateQuotaLimitErr, RpcOK, CallsName
      <4> HIDE DEF r
      <4> QED
        BY <4>1, <4>2, <4>3, <1>0, <2>0, MoveOK DEF Busy
    <3> QED
      BY <3>1, <3>2
  <2>2. rpc[h].bucketName \in Buckets
    BY <1>8, <1>0 DEF UpdateQuotaLimitErr, RpcOK, CallsName
  <2>3. CosOK'
    BY <1>8, <1>0, CosSame DEF UpdateQuotaLimitErr
  <2>4. K8sOK'
    BY <1>8, <1>0, K8sSame DEF UpdateQuotaLimitErr, RollBack, ReturnError, k8sVars
  <2>5. LogOK'
    BY <1>8, <1>0, LogSame, FaultOK DEF UpdateQuotaLimitErr, NoFault
  <2>6. reported' \in SUBSET Buckets
    BY <1>8, <1>0, <2>2 DEF UpdateQuotaLimitErr
  <2> QED
    BY <1>8, <1>0, <2>1, <2>3, <2>4, <2>5, <2>6, TypePartsNext DEF UpdateQuotaLimitErr
<1>9. ASSUME NEW h \in Handlers, SetBucketVersioningOk(h) PROVE TypeOK'
  <2>0. rpc[h].pc # "idle" /\ rpc[h].volumeID \in Volumes
    BY <1>9, <1>0 DEF SetBucketVersioningOk, RpcOK, CallsName
  <2>1. RpcOK'
    BY <1>9, <1>0, GotoOK DEF SetBucketVersioningOk, Busy, k8sVars
  <2>2. rpc[h].bucketName \in Buckets
    BY <1>9, <1>0 DEF SetBucketVersioningOk, RpcOK, CallsName
  <2>3. CosOK'
    <3>1. spec[rpc[h].volumeID].bucketVersioning \in {"", "true", "false"}
      BY <1>0, <2>0, ClaimFacts
    <3> QED
      BY <1>9, <1>0, <3>1 DEF SetBucketVersioningOk, CosOK
  <2>4. K8sOK'
    BY <1>9, <1>0, K8sSame DEF SetBucketVersioningOk, k8sVars
  <2>5. LogOK'
    BY <1>9, <1>0, LogSame DEF SetBucketVersioningOk
  <2>6. reported' \in SUBSET Buckets
    BY <1>9, <1>0, <2>2 DEF SetBucketVersioningOk
  <2> QED
    BY <1>9, <1>0, <2>1, <2>3, <2>4, <2>5, <2>6, TypePartsNext DEF SetBucketVersioningOk
<1>10. ASSUME NEW h \in Handlers, SetBucketVersioningErr(h) PROVE TypeOK'
  <2>0. rpc[h].pc # "idle" /\ rpc[h].volumeID \in Volumes
    BY <1>10, <1>0 DEF SetBucketVersioningErr, RpcOK, CallsName
  <2> DEFINE r == [rpc[h] EXCEPT !.pc = "list", !.op = "rollback"]
  <2>1. RpcOK'
    <3>1. CASE rpc[h].userProvidedBucket
      BY <3>1, <1>10, <1>0, <2>0, ReturnOK DEF SetBucketVersioningErr, RollBack, ReturnError
    <3>2. CASE ~rpc[h].userProvidedBucket
      <4>1. /\ r \in RpcType /\ r.pc = "list"
            /\ r.volumeID = rpc[h].volumeID /\ r.bucketName = rpc[h].bucketName
        BY <1>0 DEF RpcOK, RpcType
      <4>2. rpc' = [rpc EXCEPT ![h] = r] /\ UNCHANGED call
        BY <3>2, <1>10, <1>0 DEF SetBucketVersioningErr, RollBack, RpcOK
      <4>3. rpc[h].bucketName \in Buckets
        BY <1>10, <1>0 DEF SetBucketVersioningErr, RpcOK, CallsName
      <4> HIDE DEF r
      <4> QED
        BY <4>1, <4>2, <4>3, <1>0, <2>0, MoveOK DEF Busy
    <3> QED
      BY <3>1, <3>2
  <2>2. rpc[h].bucketName \in Buckets
    BY <1>10, <1>0 DEF SetBucketVersioningErr, RpcOK, CallsName
  <2>3. CosOK'
    BY <1>10, <1>0, CosSame DEF SetBucketVersioningErr
  <2>4. K8sOK'
    BY <1>10, <1>0, K8sSame DEF SetBucketVersioningErr, RollBack, ReturnError, k8sVars
  <2>5. LogOK'
    BY <1>10, <1>0, LogSame, FaultOK DEF SetBucketVersioningErr, NoFault
  <2>6. reported' \in SUBSET Buckets
    BY <1>10, <1>0, <2>2 DEF SetBucketVersioningErr
  <2> QED
    BY <1>10, <1>0, <2>1, <2>3, <2>4, <2>5, <2>6, TypePartsNext DEF SetBucketVersioningErr
<1>11. ASSUME NEW h \in Handlers, CreateVolumeReply(h) PROVE TypeOK'
  <2>0. rpc[h].pc # "idle" /\ rpc[h].volumeID \in Volumes
    BY <1>11, <1>0 DEF CreateVolumeReply, RpcOK, CallsName
  <2>1. RpcOK'
    BY <1>11, <1>0, <2>0, ReturnOK DEF CreateVolumeReply
  <2>2. rpc[h].bucketName \in Buckets
    BY <1>11, <1>0 DEF CreateVolumeReply, RpcOK, CallsName
  <2>3. CosOK'
    BY <1>11, <1>0, CosSame DEF CreateVolumeReply
  <2>4. K8sOK'
    <3>1. [bucketName |-> rpc[h].bucketName,
           userProvidedBucket |-> rpc[h].userProvidedBucket] \in PVType
      BY <1>0, <2>2 DEF RpcOK, RpcType, PVType
    <3> QED
      BY <1>11, <1>0, <2>0, <3>1 DEF CreateVolumeReply, K8sOK
  <2>5. LogOK'
    BY <1>11, <1>0, LogSame DEF CreateVolumeReply
  <2>6. reported' \in SUBSET Buckets
    BY <1>11, <1>0, <2>2 DEF CreateVolumeReply
  <2> QED
    BY <1>11, <1>0, <2>1, <2>3, <2>4, <2>5, <2>6, TypePartsNext DEF CreateVolumeReply
<1>12. ASSUME NEW h \in Handlers, BucketToDelete(h) PROVE TypeOK'
  <2>0. rpc[h].pc # "idle" /\ rpc[h].volumeID \in Volumes
    BY <1>12, <1>0 DEF BucketToDelete, RpcOK, CallsName
  <2> DEFINE r == [rpc[h] EXCEPT !.pc = "list",
                               !.bucketName = pv[rpc[h].volumeID].bucketName]
  <2>1. RpcOK'
    <3>1. pv[rpc[h].volumeID].bucketName \in Buckets
      BY <1>12, <1>0, <2>0, PVFacts DEF BucketToDelete, RpcOK, CallsName, K8sOK
    <3>2. /\ r \in RpcType /\ r.pc \in Busy
          /\ r.volumeID = rpc[h].volumeID /\ r.bucketName = pv[rpc[h].volumeID].bucketName
      BY <3>1, <1>0, AfterType DEF RpcOK, RpcType, Busy
    <3>3. rpc' = [rpc EXCEPT ![h] = r] /\ UNCHANGED call
      BY <1>12, <1>0 DEF BucketToDelete, RpcOK
    <3> HIDE DEF r
    <3> QED
      BY <3>1, <3>2, <3>3, <1>0, <2>0, MoveOK
  <2>3. CosOK'
    BY <1>12, <1>0, CosSame DEF BucketToDelete
  <2>4. K8sOK'
    BY <1>12, <1>0, K8sSame DEF BucketToDelete, k8sVars
  <2>5. LogOK'
    BY <1>12, <1>0, LogSame DEF BucketToDelete
  <2>6. reported' \in SUBSET Buckets
    BY <1>12, <1>0 DEF BucketToDelete
  <2> QED
    BY <1>12, <1>0, <2>1, <2>3, <2>4, <2>5, <2>6, TypePartsNext DEF BucketToDelete
<1>13. ASSUME NEW h \in Handlers, BucketToDeleteNone(h) PROVE TypeOK'
  <2>0. rpc[h].pc # "idle" /\ rpc[h].volumeID \in Volumes
    BY <1>13, <1>0 DEF BucketToDeleteNone, RpcOK, CallsName
  <2>1. RpcOK'
    BY <1>13, <1>0, <2>0, ReturnOK DEF BucketToDeleteNone, DeleteVolumeReply
  <2>3. CosOK'
    BY <1>13, <1>0, CosSame DEF BucketToDeleteNone
  <2>4. K8sOK'
    BY <1>13, <1>0, <2>0, DeleteReplyOK DEF BucketToDeleteNone
  <2>5. LogOK'
    BY <1>13, <1>0, LogSame, FaultOK DEF BucketToDeleteNone, NoFault
  <2>6. reported' \in SUBSET Buckets
    BY <1>13, <1>0, <2>0, PVFacts DEF BucketToDeleteNone, K8sOK
  <2> QED
    BY <1>13, <1>0, <2>1, <2>3, <2>4, <2>5, <2>6, TypePartsNext DEF BucketToDeleteNone
<1>14. ASSUME NEW h \in Handlers, ListObjects(h) PROVE TypeOK'
  <2>0. rpc[h].pc # "idle" /\ rpc[h].volumeID \in Volumes
    BY <1>14, <1>0 DEF ListObjects, RpcOK, CallsName
  <2>1. RpcOK'
    <3>1. PICK page \in SUBSET objects[rpc[h].bucketName] :
               rpc' = [rpc EXCEPT ![h].pc = "objects", ![h].listed = page]
      BY <1>14 DEF ListObjects
    <3> DEFINE r == [rpc[h] EXCEPT !.pc = "objects", !.listed = page]
    <3>2. rpc[h].bucketName \in Buckets
      BY <1>14, <1>0 DEF ListObjects, RpcOK, CallsName
    <3>3. /\ r \in RpcType /\ r.pc = "objects"
          /\ r.volumeID = rpc[h].volumeID /\ r.bucketName = rpc[h].bucketName
      BY <1>0, <3>2 DEF RpcOK, CosOK, RpcType
    <3>4. rpc' = [rpc EXCEPT ![h] = r] /\ UNCHANGED call
      BY <1>14, <1>0, <3>1 DEF ListObjects, RpcOK
    <3> HIDE DEF r
    <3> QED
      BY <3>2, <3>3, <3>4, <1>0, <2>0, MoveOK DEF Busy
  <2>2. rpc[h].bucketName \in Buckets
    BY <1>14, <1>0 DEF ListObjects, RpcOK, CallsName
  <2>3. CosOK'
    BY <1>14, <1>0, CosSame DEF ListObjects
  <2>4. K8sOK'
    BY <1>14, <1>0, K8sSame DEF ListObjects, k8sVars
  <2>5. LogOK'
    BY <1>14, <1>0, LogSame DEF ListObjects
  <2>6. reported' \in SUBSET Buckets
    BY <1>14, <1>0, <2>2 DEF ListObjects
  <2> QED
    BY <1>14, <1>0, <2>1, <2>3, <2>4, <2>5, <2>6, TypePartsNext DEF ListObjects
<1>15. ASSUME NEW h \in Handlers, ListObjectsNoSuchBucket(h) PROVE TypeOK'
  <2>0. rpc[h].pc # "idle" /\ rpc[h].volumeID \in Volumes
    BY <1>15, <1>0 DEF ListObjectsNoSuchBucket, RpcOK, CallsName
  <2>1. RpcOK'
    BY <1>15, <1>0, <2>0, ReturnOK DEF ListObjectsNoSuchBucket, DeleteBucketDone, DeleteVolumeReply, ReturnError
  <2>2. rpc[h].bucketName \in Buckets
    BY <1>15, <1>0 DEF ListObjectsNoSuchBucket, RpcOK, CallsName
  <2>3. CosOK'
    BY <1>15, <1>0, CosSame DEF ListObjectsNoSuchBucket
  <2>4. K8sOK'
    BY <1>15, <1>0, <2>0, DeleteReplyOK DEF ListObjectsNoSuchBucket, DeleteBucketDone
  <2>5. LogOK'
    BY <1>15, <1>0, LogSame DEF ListObjectsNoSuchBucket
  <2>6. reported' \in SUBSET Buckets
    BY <1>15, <1>0, <2>2 DEF ListObjectsNoSuchBucket
  <2> QED
    BY <1>15, <1>0, <2>1, <2>3, <2>4, <2>5, <2>6, TypePartsNext DEF ListObjectsNoSuchBucket
<1>16. ASSUME NEW h \in Handlers, ListObjectsErr(h) PROVE TypeOK'
  <2>0. rpc[h].pc # "idle" /\ rpc[h].volumeID \in Volumes
    BY <1>16, <1>0 DEF ListObjectsErr, RpcOK, CallsName
  <2>1. RpcOK'
    BY <1>16, <1>0, <2>0, ReturnOK DEF ListObjectsErr, DeleteBucketFailed, DeleteBucketDone, DeleteVolumeReply, ReturnError
  <2>2. rpc[h].bucketName \in Buckets
    BY <1>16, <1>0 DEF ListObjectsErr, RpcOK, CallsName
  <2>3. CosOK'
    BY <1>16, <1>0, CosSame DEF ListObjectsErr
  <2>4. K8sOK'
    BY <1>16, <1>0, <2>0, DeleteReplyOK DEF ListObjectsErr, DeleteBucketFailed, DeleteBucketDone
  <2>5. LogOK'
    BY <1>16, <1>0, LogSame, FaultOK DEF ListObjectsErr, NoFault
  <2>6. reported' \in SUBSET Buckets
    BY <1>16, <1>0, <2>2 DEF ListObjectsErr, DeleteBucketFailed
  <2> QED
    BY <1>16, <1>0, <2>1, <2>3, <2>4, <2>5, <2>6, TypePartsNext DEF ListObjectsErr
<1>17. ASSUME NEW h \in Handlers, DeleteObject(h) PROVE TypeOK'
  <2>0. rpc[h].pc # "idle" /\ rpc[h].volumeID \in Volumes
    BY <1>17, <1>0 DEF DeleteObject, RpcOK, CallsName
  <2>1. RpcOK'
    <3>1. PICK k \in rpc[h].listed :
               rpc' = [rpc EXCEPT ![h].listed = @ \ {k}]
      BY <1>17 DEF DeleteObject
    <3> DEFINE r == [rpc[h] EXCEPT !.listed = @ \ {k}]
    <3>2. rpc[h].bucketName \in Buckets
      BY <1>17, <1>0 DEF DeleteObject, RpcOK, CallsName
    <3>3. /\ r \in RpcType /\ r.pc = "objects"
          /\ r.volumeID = rpc[h].volumeID /\ r.bucketName = rpc[h].bucketName
      <4>1. rpc[h] \in RpcType /\ rpc[h].pc = "objects"
        BY <1>17, <1>0 DEF DeleteObject, RpcOK
      <4>2. rpc[h].listed \ {k} \in SUBSET Objects
        BY <4>1 DEF RpcType
      <4> QED
        BY <4>1, <4>2 DEF RpcType
    <3>4. rpc' = [rpc EXCEPT ![h] = r] /\ UNCHANGED call
      BY <1>17, <1>0, <3>1 DEF DeleteObject, RpcOK
    <3> HIDE DEF r
    <3> QED
      BY <3>2, <3>3, <3>4, <1>0, <2>0, MoveOK DEF Busy
  <2>2. rpc[h].bucketName \in Buckets
    BY <1>17, <1>0 DEF DeleteObject, RpcOK, CallsName
  <2>3. CosOK'
    <3>0. PICK k \in rpc[h].listed :
            objects' = [objects EXCEPT ![rpc[h].bucketName] = @ \ {k}]
      BY <1>17 DEF DeleteObject
    <3>1. objects' \in [Buckets -> SUBSET Objects]
      BY <1>0, <3>0 DEF CosOK
    <3>2. residue' \in [Buckets -> BOOLEAN]
      BY <1>17, <1>0 DEF DeleteObject, CosOK
    <3> QED
      BY <1>17, <1>0, <3>1, <3>2 DEF DeleteObject, CosOK
  <2>4. K8sOK'
    BY <1>17, <1>0, K8sSame DEF DeleteObject, k8sVars
  <2>5. LogOK'
    BY <1>17, <1>0, LogSame DEF DeleteObject
  <2>6. reported' \in SUBSET Buckets
    BY <1>17, <1>0, <2>2 DEF DeleteObject
  <2> QED
    BY <1>17, <1>0, <2>1, <2>3, <2>4, <2>5, <2>6, TypePartsNext DEF DeleteObject
<1>18. ASSUME NEW h \in Handlers, DeleteObjectErr(h) PROVE TypeOK'
  <2>0. rpc[h].pc # "idle" /\ rpc[h].volumeID \in Volumes
    BY <1>18, <1>0 DEF DeleteObjectErr, RpcOK, CallsName
  <2>1. RpcOK'
    BY <1>18, <1>0, <2>0, ReturnOK DEF DeleteObjectErr, DeleteBucketFailed, DeleteBucketDone, DeleteVolumeReply, ReturnError
  <2>2. rpc[h].bucketName \in Buckets
    BY <1>18, <1>0 DEF DeleteObjectErr, RpcOK, CallsName
  <2>3. CosOK'
    BY <1>18, <1>0, CosSame DEF DeleteObjectErr
  <2>4. K8sOK'
    BY <1>18, <1>0, <2>0, DeleteReplyOK DEF DeleteObjectErr, DeleteBucketFailed, DeleteBucketDone
  <2>5. LogOK'
    BY <1>18, <1>0, LogSame, FaultOK DEF DeleteObjectErr, NoFault
  <2>6. reported' \in SUBSET Buckets
    BY <1>18, <1>0, <2>2 DEF DeleteObjectErr, DeleteBucketFailed
  <2> QED
    BY <1>18, <1>0, <2>1, <2>3, <2>4, <2>5, <2>6, TypePartsNext DEF DeleteObjectErr
<1>19. ASSUME NEW h \in Handlers, DeleteObjectsDone(h) PROVE TypeOK'
  <2>0. rpc[h].pc # "idle" /\ rpc[h].volumeID \in Volumes
    BY <1>19, <1>0 DEF DeleteObjectsDone, RpcOK, CallsName
  <2>1. RpcOK'
    BY <1>19, <1>0, GotoOK DEF DeleteObjectsDone, Busy, k8sVars
  <2>2. rpc[h].bucketName \in Buckets
    BY <1>19, <1>0 DEF DeleteObjectsDone, RpcOK, CallsName
  <2>3. CosOK'
    BY <1>19, <1>0, CosSame DEF DeleteObjectsDone
  <2>4. K8sOK'
    BY <1>19, <1>0, K8sSame DEF DeleteObjectsDone, k8sVars
  <2>5. LogOK'
    BY <1>19, <1>0, LogSame DEF DeleteObjectsDone
  <2>6. reported' \in SUBSET Buckets
    BY <1>19, <1>0, <2>2 DEF DeleteObjectsDone
  <2> QED
    BY <1>19, <1>0, <2>1, <2>3, <2>4, <2>5, <2>6, TypePartsNext DEF DeleteObjectsDone
<1>20. ASSUME NEW h \in Handlers, DeleteBucket(h) PROVE TypeOK'
  <2>0. rpc[h].pc # "idle" /\ rpc[h].volumeID \in Volumes
    BY <1>20, <1>0 DEF DeleteBucket, RpcOK, CallsName
  <2>1. RpcOK'
    BY <1>20, <1>0, <2>0, ReturnOK DEF DeleteBucket, DeleteBucketDone, DeleteVolumeReply, ReturnError
  <2>2. rpc[h].bucketName \in Buckets
    BY <1>20, <1>0 DEF DeleteBucket, RpcOK, CallsName
  <2>3. CosOK'
    <3>1. exists' \in SUBSET Buckets /\ quota' \in SUBSET Buckets
      BY <1>20, <1>0 DEF DeleteBucket, CosOK
    <3>2. origin' \in [Buckets -> {"none", "user", "driver"}]
      BY <1>20, <1>0 DEF DeleteBucket, CosOK
    <3>3. versioning' \in [Buckets -> {"", "true", "false"}]
      BY <1>20, <1>0 DEF DeleteBucket, CosOK
    <3> QED
      BY <1>20, <1>0, <3>1, <3>2, <3>3 DEF DeleteBucket, CosOK
  <2>4. K8sOK'
    BY <1>20, <1>0, <2>0, DeleteReplyOK DEF DeleteBucket, DeleteBucketDone
  <2>5. LogOK'
    BY <1>20, <1>0, LogSame DEF DeleteBucket
  <2>6. reported' \in SUBSET Buckets
    BY <1>20, <1>0, <2>2 DEF DeleteBucket
  <2> QED
    BY <1>20, <1>0, <2>1, <2>3, <2>4, <2>5, <2>6, TypePartsNext DEF DeleteBucket
<1>21. ASSUME NEW h \in Handlers, DeleteBucketErr(h) PROVE TypeOK'
  <2>0. rpc[h].pc # "idle" /\ rpc[h].volumeID \in Volumes
    BY <1>21, <1>0 DEF DeleteBucketErr, RpcOK, CallsName
  <2>1. RpcOK'
    BY <1>21, <1>0, <2>0, ReturnOK DEF DeleteBucketErr, DeleteBucketFailed, DeleteBucketDone, DeleteVolumeReply, ReturnError
  <2>2. rpc[h].bucketName \in Buckets
    BY <1>21, <1>0 DEF DeleteBucketErr, RpcOK, CallsName
  <2>3. CosOK'
    BY <1>21, <1>0, CosSame DEF DeleteBucketErr
  <2>4. K8sOK'
    BY <1>21, <1>0, <2>0, DeleteReplyOK DEF DeleteBucketErr, DeleteBucketFailed, DeleteBucketDone
  <2>5. LogOK'
    BY <1>21, <1>0, LogSame, FaultOK DEF DeleteBucketErr, NoFault
  <2>6. reported' \in SUBSET Buckets
    BY <1>21, <1>0, <2>2 DEF DeleteBucketErr, DeleteBucketFailed
  <2> QED
    BY <1>21, <1>0, <2>1, <2>3, <2>4, <2>5, <2>6, TypePartsNext DEF DeleteBucketErr
<1>22. ASSUME NEW h \in Handlers, GetSecretErr(h) PROVE TypeOK'
  <2>0. rpc[h].pc # "idle" /\ rpc[h].volumeID \in Volumes
    BY <1>22, <1>0 DEF GetSecretErr, RpcOK, CallsName
  <2>1. RpcOK'
    BY <1>22, <1>0, <2>0, ReturnOK DEF GetSecretErr, ReturnError
  <2>2. CosOK'
    BY <1>22, <1>0, CosSame DEF GetSecretErr
  <2>3. K8sOK'
    BY <1>22, <1>0, K8sSame DEF GetSecretErr, ReturnError
  <2>4. LogOK'
    BY <1>22, <1>0, LogSame, FaultOK DEF GetSecretErr, NoFault
  <2> QED
    BY <1>22, <1>0, <2>1, <2>2, <2>3, <2>4, TypePartsNext DEF GetSecretErr
<1>23. ASSUME NEW v \in Volumes, DeleteVolumeReject(v) PROVE TypeOK'
  <2>1. RpcOK'
    BY <1>23, <1>0 DEF DeleteVolumeReject, RpcOK, CallsAgree, CallsName, k8sVars
  <2>2. CosOK'
    BY <1>23, <1>0, CosSame DEF DeleteVolumeReject
  <2>3. K8sOK'
    BY <1>23, <1>0, K8sSame DEF DeleteVolumeReject
  <2>4. LogOK'
    BY <1>23, <1>0, LogSame, FaultOK DEF DeleteVolumeReject, NoFault
  <2> QED
    BY <1>23, <1>0, <2>1, <2>2, <2>3, <2>4, TypePartsNext DEF DeleteVolumeReject
<1>24. ASSUME NEW v \in Volumes, CreatePVC(v) PROVE TypeOK'
  <2>1. RpcOK'
    BY <1>24, <1>0 DEF CreatePVC, RpcOK, CallsAgree, CallsName, k8sVars
  <2>2. CosOK'
    BY <1>24, <1>0, CosSame DEF CreatePVC
  <2>3. K8sOK'
    BY <1>24, <1>0 DEF CreatePVC, K8sOK
  <2>4. LogOK'
    BY <1>24, <1>0, LogSame, FaultOK DEF CreatePVC, NoFault
  <2> QED
    BY <1>24, <1>0, <2>1, <2>2, <2>3, <2>4, TypePartsNext DEF CreatePVC
<1>25. ASSUME NEW v \in Volumes, AbandonPVC(v) PROVE TypeOK'
  <2>1. RpcOK'
    BY <1>25, <1>0 DEF AbandonPVC, RpcOK, CallsAgree, CallsName, k8sVars
  <2>2. CosOK'
    BY <1>25, <1>0, CosSame DEF AbandonPVC
  <2>3. K8sOK'
    BY <1>25, <1>0 DEF AbandonPVC, K8sOK
  <2>4. LogOK'
    BY <1>25, <1>0, LogSame, FaultOK DEF AbandonPVC, NoFault
  <2> QED
    BY <1>25, <1>0, <2>1, <2>2, <2>3, <2>4, TypePartsNext DEF AbandonPVC
<1>26. ASSUME NEW v \in Volumes, DeletePVC(v) PROVE TypeOK'
  <2>1. RpcOK'
    BY <1>26, <1>0 DEF DeletePVC, RpcOK, CallsAgree, CallsName, k8sVars
  <2>2. CosOK'
    BY <1>26, <1>0, CosSame DEF DeletePVC
  <2>3. K8sOK'
    BY <1>26, <1>0 DEF DeletePVC, K8sOK
  <2>4. LogOK'
    BY <1>26, <1>0, LogSame, FaultOK DEF DeletePVC, NoFault
  <2> QED
    BY <1>26, <1>0, <2>1, <2>2, <2>3, <2>4, TypePartsNext DEF DeletePVC
<1>27. ASSUME NEW v \in Volumes, PutObject(v) PROVE TypeOK'
  <2>1. RpcOK'
    BY <1>27, <1>0 DEF PutObject, RpcOK, CallsAgree, CallsName, k8sVars
  <2>2. CosOK'
    <3>1. PICK k \in Objects :
            objects' = [objects EXCEPT ![pv[v].bucketName] = @ \cup {k}]
      BY <1>27 DEF PutObject
    <3>2. objects' \in [Buckets -> SUBSET Objects]
      BY <1>0, <3>1 DEF CosOK
    <3> QED
      BY <1>27, <1>0, <3>2 DEF PutObject, CosOK
  <2>3. K8sOK'
    BY <1>27, <1>0, K8sSame DEF PutObject
  <2>4. LogOK'
    BY <1>27, <1>0, LogSame, FaultOK DEF PutObject, NoFault
  <2> QED
    BY <1>27, <1>0, <2>1, <2>2, <2>3, <2>4, TypePartsNext DEF PutObject
<1>28. ASSUME NEW v \in Volumes, Timeout(v) PROVE TypeOK'
  <2>1. RpcOK'
    BY <1>28, <1>0 DEF Timeout, RpcOK, CallsAgree, CallsName, k8sVars
  <2>2. CosOK'
    BY <1>28, <1>0, CosSame DEF Timeout
  <2>3. K8sOK'
    BY <1>28, <1>0, K8sSame DEF Timeout
  <2>4. LogOK'
    BY <1>28, <1>0, LogSame, FaultOK DEF Timeout, NoFault
  <2>5. clock' \in 0..MaxClock
    BY <1>28, <1>0, ConstantsAssumption DEF Timeout
  <2> QED
    BY <1>28, <1>0, <2>1, <2>2, <2>3, <2>4, <2>5, TypePartsNext DEF Timeout
<1>29. ASSUME NEW v \in Volumes, NEW h \in Handlers, CreateVolume(v, h)
      PROVE  TypeOK'
  <2> DEFINE r == [Idle EXCEPT !.pc = "lookup", !.op = "create",
                               !.volumeID = v]
  <2>1. r \in RpcType /\ r.pc = "lookup" /\ r.volumeID = v
    BY DEF Idle, RpcType
  <2>2. /\ rpc' \in [Handlers -> RpcType]
        /\ rpc'[h] = r /\ \A g \in Handlers \ {h} : rpc'[g] = rpc[g]
        /\ call' = [call EXCEPT ![v] = h]
    BY <1>29, <1>0, <2>1 DEF CreateVolume, RpcOK
  <2> HIDE DEF r
  <2>3. CallsAgree'
    BY <1>29, <1>0, <2>1, <2>2 DEF CreateVolume, RpcOK, CallsAgree
  <2>4. CallsName'
    BY <1>29, <1>0, <2>1, <2>2 DEF CreateVolume, RpcOK, CallsName
  <2>5. RpcOK'
    BY <1>0, <2>2, <2>3, <2>4 DEF RpcOK
  <2>6. CosOK' /\ K8sOK' /\ LogOK'
    BY <1>29, <1>0, CosSame, K8sSame, LogSame DEF CreateVolume
  <2> QED
    BY <1>29, <1>0, <2>5, <2>6, TypePartsNext DEF CreateVolume
<1>30. ASSUME NEW v \in Volumes, NEW h \in Handlers, DeleteVolume(v, h)
      PROVE  TypeOK'
  <2> DEFINE r == [Idle EXCEPT !.pc = "bucketToDelete", !.op = "delete",
                               !.volumeID = v]
  <2>1. r \in RpcType /\ r.pc = "bucketToDelete" /\ r.volumeID = v
    BY DEF Idle, RpcType
  <2>2. /\ rpc' \in [Handlers -> RpcType]
        /\ rpc'[h] = r /\ \A g \in Handlers \ {h} : rpc'[g] = rpc[g]
        /\ call' = [call EXCEPT ![v] = h]
    BY <1>30, <1>0, <2>1 DEF DeleteVolume, RpcOK
  <2> HIDE DEF r
  <2>3. CallsAgree'
    BY <1>30, <1>0, <2>1, <2>2 DEF DeleteVolume, RpcOK, CallsAgree
  <2>4. CallsName'
    BY <1>30, <1>0, <2>1, <2>2 DEF DeleteVolume, RpcOK, CallsName
  <2>5. RpcOK'
    BY <1>0, <2>2, <2>3, <2>4 DEF RpcOK
  <2>6. CosOK' /\ K8sOK' /\ LogOK'
    BY <1>30, <1>0, CosSame, K8sSame, LogSame DEF DeleteVolume
  <2> QED
    BY <1>30, <1>0, <2>5, <2>6, TypePartsNext DEF DeleteVolume
<1>31. ASSUME Crash PROVE TypeOK'
  <2>1. RpcOK'
    BY <1>31, IdleType DEF Crash, RpcOK, CallsAgree, CallsName, Idle
  <2>2. CosOK' /\ K8sOK' /\ LogOK'
    BY <1>31, <1>0, CosSame, K8sSame, FaultOK DEF Crash
  <2> QED
    BY <1>31, <1>0, <2>1, <2>2, TypePartsNext DEF Crash
<1>32. ASSUME Tick PROVE TypeOK'
  <2>1. RpcOK'
    BY <1>32, <1>0 DEF Tick, RpcOK, CallsAgree, CallsName
  <2>2. CosOK' /\ K8sOK' /\ LogOK'
    BY <1>32, <1>0, CosSame, K8sSame, LogSame DEF Tick
  <2>3. clock' \in 0..MaxClock
    BY <1>32, <1>0, ConstantsAssumption DEF Tick
  <2> QED
    BY <1>32, <1>0, <2>1, <2>2, <2>3, TypePartsNext DEF Tick
<1>33. CASE UNCHANGED vars
  BY <1>33 DEF TypeOK, CallsAgree, CallsName, vars, cosVars, k8sVars, faultVars
<1>34. ASSUME NEW h \in Handlers, GetSecretOk(h) PROVE TypeOK'
  <2>0. PICK v \in Volumes : v = rpc[h].volumeID
    BY <1>34, <1>0 DEF GetSecretOk, RpcOK, CallsName
  <2> DEFINE named == spec[v].bucketName # NoBucket
             temp == getTempBucketName(v, clock)
             b == IF named THEN spec[v].bucketName ELSE temp
             r == [pc |-> IF named THEN "head" ELSE "create",
                   op |-> "create", volumeID |-> v, bucketName |-> b,
                   userProvidedBucket |-> TRUE, listed |-> {}]
  <2>1. temp \in TempBuckets
    BY <1>0, TempBucketShape
  <2>2. b \in Buckets
    <3>1. spec[v].bucketName \in UserBuckets \cup {NoBucket}
      BY <1>0, ClaimFacts
    <3> QED
      BY <2>1, <3>1 DEF Buckets
  <2>3. r \in RpcType /\ r.pc \in Busy
    BY <2>2 DEF RpcType, Busy
  <2>4. rpc' = [rpc EXCEPT ![h] = r] /\ UNCHANGED call /\ rpc[h].pc # "idle"
    BY <1>34, <2>0 DEF GetSecretOk
  <2>5. RpcOK'
    BY <1>0, <2>0, <2>2, <2>3, <2>4, MoveOK
  <2>6. late' \in {late, late \cup {temp}} /\ UNCHANGED <<seen, budget>>
    BY <1>34, <2>0 DEF GetSecretOk
  <2>7. LogOK'
    BY <1>0, <2>1, <2>6 DEF LogOK
  <2>8. CosOK' /\ K8sOK'
    BY <1>34, <1>0, CosSame, K8sSame DEF GetSecretOk
  <2> QED
    BY <1>34, <1>0, <2>5, <2>7, <2>8, TypePartsNext DEF GetSecretOk
<1> QED
  BY <1>1, <1>2, <1>3, <1>4, <1>5, <1>6, <1>7, <1>8, <1>9, <1>10, <1>11,
     <1>12, <1>13, <1>14, <1>15, <1>16, <1>17, <1>18, <1>19, <1>20,
     <1>21, <1>22, <1>23, <1>24, <1>25, <1>26, <1>27, <1>28, <1>29,
     <1>30, <1>31, <1>32, <1>33, <1>34
  DEF Next, LookupStep, CreateStep, DeleteStep, Provisioner, Environment

LEMMA InitType == Init => TypeOK
<1> SUFFICES ASSUME Init PROVE TypeOK
  OBVIOUS
<1>1. CosOK
  BY DEF Init, CosOK, Buckets
<1>2. K8sOK
  BY NoPVType DEF Init, K8sOK
<1>3. RpcOK
  BY IdleType DEF Init, RpcOK, CallsAgree, CallsName, Idle
<1>4. /\ seen \in SUBSET FaultKind /\ late \in SUBSET TempBuckets
      /\ reported \in SUBSET Buckets
  BY DEF Init
<1>5. clock \in 0..MaxClock /\ budget \in 0..MaxFaults
  <2>1. clock = 0 /\ budget = MaxFaults
    BY DEF Init
  <2>2. MaxClock \in Nat /\ MaxFaults \in Nat
    BY ConstantsAssumption
  <2> QED
    BY <2>1, <2>2
<1> QED
  BY <1>1, <1>2, <1>3, <1>4, <1>5, TypeParts DEF LogOK

(* Every variable keeps its type; the provisioner awaits only goroutines   *)
(* that serve its volume; a goroutine that calls COS names a bucket.       *)
THEOREM TypeCorrect == Spec => []TypeOK
<1> QED
  BY InitType, TypeStep, PTL DEF Spec

-----------------------------------------------------------------------------
(***************************************************************************)
(* Views of a step: what it does to the goroutine that takes it.           *)
(***************************************************************************)
Others(h) == \A g \in Handlers \ {h} : rpc'[g] = rpc[g]

SameWork(h) ==
  /\ rpc'[h].op = rpc[h].op
  /\ rpc'[h].volumeID = rpc[h].volumeID
  /\ rpc'[h].bucketName = rpc[h].bucketName

LEMMA GotoView ==
  ASSUME RpcOK, NEW h \in Handlers, NEW l, Goto(h, l)
  PROVE  /\ Others(h) /\ SameWork(h) /\ rpc'[h].pc = l
         /\ rpc'[h].userProvidedBucket = rpc[h].userProvidedBucket
<1> DEFINE r == [rpc[h] EXCEPT !.pc = l]
<1>1. rpc' = [rpc EXCEPT ![h] = r]
  BY DEF RpcOK, Goto
<1>2. Others(h) /\ rpc'[h] = r
  BY <1>1 DEF RpcOK, Others
<1>3. /\ r.pc = l /\ r.op = rpc[h].op /\ r.volumeID = rpc[h].volumeID
      /\ r.bucketName = rpc[h].bucketName
      /\ r.userProvidedBucket = rpc[h].userProvidedBucket
  BY DEF RpcOK, RpcType
<1> QED
  BY <1>2, <1>3 DEF SameWork

LEMMA ReturnView ==
  ASSUME RpcOK, NEW h \in Handlers, rpc[h].volumeID \in Volumes, Return(h)
  PROVE  /\ Others(h) /\ rpc'[h] = Idle
         /\ \A v \in Volumes : call'[v] = IF call[v] = h THEN NoHandler ELSE call[v]
<1>1. Others(h) /\ rpc'[h] = Idle
  BY DEF RpcOK, Return, Others
<1>2. \A v \in Volumes : call[v] = h => v = rpc[h].volumeID
  BY ConstantsAssumption DEF RpcOK, CallsAgree
<1> QED
  BY <1>1, <1>2 DEF RpcOK, Return

LEMMA IdleView ==
  /\ Idle.pc = "idle" /\ Idle.op = "none" /\ Idle.bucketName = NoBucket
  /\ Idle.userProvidedBucket = TRUE /\ Idle.volumeID = NoVolume
BY DEF Idle

LEMMA CheckAccessView ==
  ASSUME RpcOK, NEW h \in Handlers, CheckAccessOk(h)
  PROVE  /\ Others(h) /\ SameWork(h)
         /\ rpc'[h].pc = AfterAccess(rpc[h].volumeID)
         /\ rpc'[h].userProvidedBucket = FALSE
<1> DEFINE r == [rpc[h] EXCEPT !.pc = AfterAccess(rpc[h].volumeID),
                               !.userProvidedBucket = FALSE]
<1>1. rpc' = [rpc EXCEPT ![h] = r]
  BY DEF RpcOK, CheckAccessOk
<1>2. Others(h) /\ rpc'[h] = r
  BY <1>1 DEF RpcOK, Others
<1>3. /\ r.pc = AfterAccess(rpc[h].volumeID) /\ r.op = rpc[h].op
      /\ r.volumeID = rpc[h].volumeID /\ r.bucketName = rpc[h].bucketName
      /\ r.userProvidedBucket = FALSE
  BY DEF RpcOK, RpcType
<1> QED
  BY <1>2, <1>3 DEF SameWork

LEMMA RollBackView ==
  ASSUME RpcOK, NEW h \in Handlers, RollBack(h), ~rpc[h].userProvidedBucket
  PROVE  /\ Others(h) /\ UNCHANGED <<k8sVars, call>>
         /\ rpc'[h].pc = "list" /\ rpc'[h].op = "rollback"
         /\ rpc'[h].volumeID = rpc[h].volumeID
         /\ rpc'[h].bucketName = rpc[h].bucketName
         /\ rpc'[h].userProvidedBucket = FALSE
<1> DEFINE r == [rpc[h] EXCEPT !.pc = "list", !.op = "rollback"]
<1>1. rpc' = [rpc EXCEPT ![h] = r] /\ UNCHANGED <<k8sVars, call>>
  BY DEF RpcOK, RollBack
<1>2. Others(h) /\ rpc'[h] = r
  BY <1>1 DEF RpcOK, Others
<1>3. /\ r.pc = "list" /\ r.op = "rollback"
      /\ r.volumeID = rpc[h].volumeID /\ r.bucketName = rpc[h].bucketName
      /\ r.userProvidedBucket = FALSE
  BY DEF RpcOK, RpcType
<1> QED
  BY <1>1, <1>2, <1>3

LEMMA BucketToDeleteView ==
  ASSUME RpcOK, NEW h \in Handlers, BucketToDelete(h)
  PROVE  /\ Others(h)
         /\ rpc'[h].pc = "list" /\ rpc'[h].op = rpc[h].op
         /\ rpc'[h].volumeID = rpc[h].volumeID
         /\ rpc'[h].bucketName = pv[rpc[h].volumeID].bucketName
<1> DEFINE r == [rpc[h] EXCEPT !.pc = "list",
                               !.bucketName = pv[rpc[h].volumeID].bucketName]
<1>1. rpc' = [rpc EXCEPT ![h] = r]
  BY DEF RpcOK, BucketToDelete
<1>2. Others(h) /\ rpc'[h] = r
  BY <1>1 DEF RpcOK, Others
<1>3. /\ r.pc = "list" /\ r.op = rpc[h].op /\ r.volumeID = rpc[h].volumeID
      /\ r.bucketName = pv[rpc[h].volumeID].bucketName
  BY DEF RpcOK, RpcType
<1> QED
  BY <1>2, <1>3

LEMMA ListView ==
  ASSUME RpcOK, NEW h \in Handlers, ListObjects(h) \/ DeleteObject(h)
  PROVE  Others(h) /\ SameWork(h) /\ rpc'[h].pc = "objects"
<1>1. CASE ListObjects(h)
  <2>1. PICK page : rpc' = [rpc EXCEPT ![h].pc = "objects", ![h].listed = page]
    BY <1>1 DEF ListObjects
  <2> DEFINE r == [rpc[h] EXCEPT !.pc = "objects", !.listed = page]
  <2>2. Others(h) /\ rpc'[h] = r
    BY <2>1 DEF RpcOK, Others
  <2>3. /\ r.pc = "objects" /\ r.op = rpc[h].op
        /\ r.volumeID = rpc[h].volumeID /\ r.bucketName = rpc[h].bucketName
    BY DEF RpcOK, RpcType
  <2> QED
    BY <2>2, <2>3 DEF SameWork
<1>2. CASE DeleteObject(h)
  <2>1. PICK k : rpc' = [rpc EXCEPT ![h].listed = @ \ {k}]
    BY <1>2 DEF DeleteObject
  <2> DEFINE r == [rpc[h] EXCEPT !.listed = @ \ {k}]
  <2>2. Others(h) /\ rpc'[h] = r /\ rpc[h].pc = "objects"
    BY <1>2, <2>1 DEF RpcOK, Others, DeleteObject
  <2>3. /\ r.pc = rpc[h].pc /\ r.op = rpc[h].op
        /\ r.volumeID = rpc[h].volumeID /\ r.bucketName = rpc[h].bucketName
    BY DEF RpcOK, RpcType
  <2> QED
    BY <2>2, <2>3 DEF SameWork
<1> QED
  BY <1>1, <1>2

LEMMA CreateVolumeView ==
  ASSUME RpcOK, NEW v \in Volumes, NEW h \in Handlers, CreateVolume(v, h)
  PROVE  /\ Others(h) /\ rpc'[h].op = "create" /\ rpc'[h].volumeID = v
         /\ rpc'[h].pc = "lookup" /\ rpc'[h].bucketName = NoBucket
BY DEF RpcOK, CreateVolume, Others, Idle

LEMMA GetSecretView ==
  ASSUME RpcOK, NEW h \in Handlers, GetSecretOk(h),
         NEW v \in Volumes, v = rpc[h].volumeID
  PROVE  /\ Others(h) /\ rpc'[h].op = "create" /\ rpc'[h].volumeID = v
         /\ rpc'[h].userProvidedBucket = TRUE
         /\ \/ /\ spec[v].bucketName # NoBucket
               /\ rpc'[h].pc = "head"
               /\ rpc'[h].bucketName = spec[v].bucketName
               /\ late' = late
            \/ /\ spec[v].bucketName = NoBucket
               /\ rpc'[h].pc = "create"
               /\ rpc'[h].bucketName = getTempBucketName(v, clock)
               /\ late' = IF call[v] = h THEN late
                          ELSE late \cup {getTempBucketName(v, clock)}
BY DEF RpcOK, GetSecretOk, Others

LEMMA DeleteVolumeView ==
  ASSUME RpcOK, NEW v \in Volumes, NEW h \in Handlers, DeleteVolume(v, h)
  PROVE  /\ Others(h) /\ rpc'[h].op = "delete" /\ rpc'[h].volumeID = v
         /\ rpc'[h].pc = "bucketToDelete" /\ rpc'[h].bucketName = NoBucket
BY DEF RpcOK, DeleteVolume, Others, Idle

-----------------------------------------------------------------------------
(***************************************************************************)
(* The user's buckets.                                                     *)
(***************************************************************************)

(* A step leaves the user's buckets alone, and makes no bucket the user's. *)
CosKeeps ==
  "head" \notin seen =>
    /\ \A b \in Buckets : origin'[b] = "user" => origin[b] = "user"
    /\ \A b \in Buckets : origin[b] = "user" =>
         b \in exists' /\ objects[b] \subseteq objects'[b]

PvKeeps(h) ==
  \A v \in Volumes :
    \/ pv'[v] = pv[v]
    \/ pv'[v] = NoPV
    \/ /\ pv'[v].bucketName = rpc[h].bucketName
       /\ pv'[v].userProvidedBucket = rpc[h].userProvidedBucket

StaysHarmless(h) ==
  "head" \notin seen' =>
    \A b \in Buckets : origin[b] = "user" /\ rpc'[h].bucketName = b =>
      Harmless(rpc'[h])

LEMMA UserCosSame == UserInv /\ UNCHANGED cosVars => CosKeeps
BY DEF UserInv, CosKeeps, cosVars

LEMMA PvSame == ASSUME NEW h, UNCHANGED k8sVars PROVE PvKeeps(h)
BY DEF PvKeeps, k8sVars

(* What a goroutine that acts on another kind of bucket does is no matter. *)
LEMMA NotHarmless ==
  ASSUME UserInv, NEW h \in Handlers, ~Harmless(rpc[h]), seen \subseteq seen',
         rpc'[h].bucketName = rpc[h].bucketName
  PROVE  StaysHarmless(h)
BY DEF UserInv, StaysHarmless

LEMMA ReturnHarmless ==
  ASSUME NEW h \in Handlers, rpc'[h] = Idle
  PROVE  StaysHarmless(h)
BY IdleView, PVFacts DEF StaysHarmless

LEMMA UserKeeps ==
  ASSUME TypeOK, UserInv, NEW h \in Handlers, seen \subseteq seen',
         Others(h), CosKeeps, PvKeeps(h), StaysHarmless(h)
  PROVE  UserInv'
<1> SUFFICES ASSUME "head" \notin seen',
                    NEW b \in Buckets, origin'[b] = "user"
             PROVE  /\ b \in exists'
                    /\ b \in UserBuckets
                    /\ \A g \in Handlers : rpc'[g].bucketName = b =>
                         Harmless(rpc'[g])
                    /\ \A v \in Volumes : pv'[v].bucketName = b =>
                         pv'[v].userProvidedBucket
  BY DEF UserInv, Harmless
<1>1. origin[b] = "user" /\ b \in exists'
  BY DEF CosKeeps
<1>2. /\ b \in UserBuckets
      /\ \A g \in Handlers : rpc[g].bucketName = b => Harmless(rpc[g])
      /\ \A v \in Volumes : pv[v].bucketName = b => pv[v].userProvidedBucket
  BY <1>1 DEF UserInv
<1>3. \A g \in Handlers : rpc'[g].bucketName = b => Harmless(rpc'[g])
  BY <1>1, <1>2 DEF Others, StaysHarmless
<1>4. \A v \in Volumes : pv'[v].bucketName = b => pv'[v].userProvidedBucket
  <2> SUFFICES ASSUME NEW v \in Volumes, pv'[v].bucketName = b
               PROVE  pv'[v].userProvidedBucket
    OBVIOUS
  <2>1. CASE pv'[v] = pv[v]
    BY <2>1, <1>2
  <2>2. CASE pv'[v] = NoPV
    BY <2>2 DEF NoPV
  <2>3. CASE /\ pv'[v].bucketName = rpc[h].bucketName
             /\ pv'[v].userProvidedBucket = rpc[h].userProvidedBucket
    BY <2>3, <1>2 DEF Harmless
  <2> QED
    BY <2>1, <2>2, <2>3 DEF PvKeeps
<1> QED
  BY <1>1, <1>2, <1>3, <1>4

LEMMA UserHandler ==
  ASSUME TypeOK, UserInv, NEW h \in Handlers, CreateStep(h) \/ DeleteStep(h)
  PROVE  UserInv' /\ CosKeeps
<1>0. CosOK /\ K8sOK /\ RpcOK
  BY TypeParts
<1>1. ASSUME HeadBucketOk(h) PROVE UserInv' /\ CosKeeps
  <2>1. rpc[h].pc # "idle" /\ rpc[h].volumeID \in Volumes
    BY <1>1, <1>0 DEF HeadBucketOk, RpcOK, CallsName
  <2>2. seen \subseteq seen'
    BY <1>1 DEF HeadBucketOk, faultVars
  <2>3. Others(h) /\ StaysHarmless(h)
    BY <1>1, <1>0, <2>2, GotoView, AfterType
    DEF HeadBucketOk, UserInv, StaysHarmless, Harmless, SameWork
  <2>4. CosKeeps
    BY <1>1, UserCosSame DEF HeadBucketOk
  <2>5. PvKeeps(h)
    BY <1>1, PvSame DEF HeadBucketOk, k8sVars
  <2> QED
    BY <2>2, <2>3, <2>4, <2>5, UserKeeps
<1>2. ASSUME HeadBucketErr(h) PROVE UserInv' /\ CosKeeps
  <2>1. rpc[h].pc # "idle" /\ rpc[h].volumeID \in Volumes
    BY <1>2, <1>0 DEF HeadBucketErr, RpcOK, CallsName
  <2>2. seen \subseteq seen'
    BY <1>2 DEF HeadBucketErr, NoFault, Fault, faultVars
  <2>3. Others(h) /\ StaysHarmless(h)
    <3>1. Others(h) /\ rpc'[h].bucketName = rpc[h].bucketName
      BY <1>2, <1>0, GotoView DEF HeadBucketErr, SameWork
    <3>2. "head" \notin seen' => rpc[h].bucketName \notin exists
      BY <1>2 DEF HeadBucketErr, Fault
    <3> QED
      BY <3>1, <3>2, <2>2 DEF UserInv, StaysHarmless
  <2>4. CosKeeps
    BY <1>2, UserCosSame DEF HeadBucketErr
  <2>5. PvKeeps(h)
    BY <1>2, PvSame DEF HeadBucketErr, k8sVars
  <2> QED
    BY <2>2, <2>3, <2>4, <2>5, UserKeeps
<1>3. ASSUME CreateBucketOk(h) PROVE UserInv' /\ CosKeeps
  <2>1. rpc[h].pc # "idle" /\ rpc[h].volumeID \in Volumes
    BY <1>3, <1>0 DEF CreateBucketOk, RpcOK, CallsName
  <2>2. seen \subseteq seen'
    BY <1>3 DEF CreateBucketOk, faultVars
  <2>3. Others(h) /\ StaysHarmless(h)
    BY <1>3, <1>0, <2>2, GotoView, NotHarmless DEF CreateBucketOk, Harmless, SameWork
  <2>4. CosKeeps
    <3>1. CASE UNCHANGED cosVars
      BY <3>1, UserCosSame
    <3>2. CASE NewBucket(rpc[h].bucketName)
      <4>1. rpc[h].bucketName \in Buckets /\ ~Harmless(rpc[h])
        BY <1>3, <1>0 DEF CreateBucketOk, RpcOK, CallsName, Harmless
      <4>2. \A b \in Buckets \ {rpc[h].bucketName} :
              /\ origin'[b] = origin[b] /\ objects'[b] = objects[b]
              /\ b \in exists => b \in exists'
        BY <3>2, <1>0 DEF NewBucket, CosOK
      <4>3. origin'[rpc[h].bucketName] = "driver"
        BY <3>2, <4>1, <1>0 DEF NewBucket, CosOK
      <4> QED
        BY <4>1, <4>2, <4>3 DEF CosKeeps, UserInv
    <3> QED
      BY <1>3, <3>1, <3>2 DEF CreateBucketOk
  <2>5. PvKeeps(h)
    BY <1>3, PvSame DEF CreateBucketOk, k8sVars
  <2> QED
    BY <2>2, <2>3, <2>4, <2>5, UserKeeps
<1>4. ASSUME CreateBucketErr(h) PROVE UserInv' /\ CosKeeps
  <2>1. rpc[h].pc # "idle" /\ rpc[h].volumeID \in Volumes
    BY <1>4, <1>0 DEF CreateBucketErr, RpcOK, CallsName
  <2>2. seen \subseteq seen'
    BY <1>4 DEF CreateBucketErr, NoFault, Fault, faultVars
  <2>3. Others(h) /\ StaysHarmless(h)
    BY <1>4, <1>0, <2>1, ReturnView, ReturnHarmless
    DEF CreateBucketErr, ReturnError
  <2>4. CosKeeps
    <3>1. CASE UNCHANGED cosVars
      BY <3>1, UserCosSame
    <3>2. CASE NewBucket(rpc[h].bucketName)
      <4>1. rpc[h].bucketName \in Buckets /\ ~Harmless(rpc[h])
        BY <1>4, <1>0 DEF CreateBucketErr, RpcOK, CallsName, Harmless
      <4>2. \A b \in Buckets \ {rpc[h].bucketName} :
              /\ origin'[b] = origin[b] /\ objects'[b] = objects[b]
              /\ b \in exists => b \in exists'
        BY <3>2, <1>0 DEF NewBucket, CosOK
      <4>3. origin'[rpc[h].bucketName] = "driver"
        BY <3>2, <4>1, <1>0 DEF NewBucket, CosOK
      <4> QED
        BY <4>1, <4>2, <4>3 DEF CosKeeps, UserInv
    <3> QED
      BY <1>4, <3>1, <3>2 DEF CreateBucketErr
  <2>5. PvKeeps(h)
    BY <1>4, PvSame DEF CreateBucketErr, ReturnError
  <2> QED
    BY <2>2, <2>3, <2>4, <2>5, UserKeeps
<1>5. ASSUME CheckAccessOk(h) PROVE UserInv' /\ CosKeeps
  <2>1. rpc[h].pc # "idle" /\ rpc[h].volumeID \in Volumes
    BY <1>5, <1>0 DEF CheckAccessOk, RpcOK, CallsName
  <2>2. seen \subseteq seen'
    BY <1>5 DEF CheckAccessOk, faultVars
  <2>3. Others(h) /\ StaysHarmless(h)
    BY <1>5, <1>0, <2>2, CheckAccessView, NotHarmless DEF CheckAccessOk, Harmless, SameWork
  <2>4. CosKeeps
    BY <1>5, UserCosSame DEF CheckAccessOk
  <2>5. PvKeeps(h)
    BY <1>5, PvSame DEF CheckAccessOk, k8sVars
  <2> QED
    BY <2>2, <2>3, <2>4, <2>5, UserKeeps
<1>6. ASSUME CheckAccessErr(h) PROVE UserInv' /\ CosKeeps
  <2>1. rpc[h].pc # "idle" /\ rpc[h].volumeID \in Volumes
    BY <1>6, <1>0 DEF CheckAccessErr, RpcOK, CallsName
  <2>2. seen \subseteq seen'
    BY <1>6 DEF CheckAccessErr, NoFault, Fault, faultVars
  <2>3. Others(h) /\ StaysHarmless(h)
    BY <1>6, <1>0, <2>1, ReturnView, ReturnHarmless
    DEF CheckAccessErr, ReturnError
  <2>4. CosKeeps
    BY <1>6, UserCosSame DEF CheckAccessErr
  <2>5. PvKeeps(h)
    BY <1>6, PvSame DEF CheckAccessErr, ReturnError
  <2> QED
    BY <2>2, <2>3, <2>4, <2>5, UserKeeps
<1>7. ASSUME UpdateQuotaLimitOk(h) PROVE UserInv' /\ CosKeeps
  <2>1. rpc[h].pc # "idle" /\ rpc[h].volumeID \in Volumes
    BY <1>7, <1>0 DEF UpdateQuotaLimitOk, RpcOK, CallsName
  <2>2. seen \subseteq seen'
    BY <1>7 DEF UpdateQuotaLimitOk, faultVars
  <2>3. Others(h) /\ StaysHarmless(h)
    BY <1>7, <1>0, <2>2, GotoView, AfterType
    DEF UpdateQuotaLimitOk, UserInv, StaysHarmless, Harmless, SameWork
  <2>4. CosKeeps
    BY <1>7 DEF UpdateQuotaLimitOk, CosKeeps, UserInv
  <2>5. PvKeeps(h)
    BY <1>7, PvSame DEF UpdateQuotaLimitOk, k8sVars
  <2> QED
    BY <2>2, <2>3, <2>4, <2>5, UserKeeps
<1>8. ASSUME UpdateQuotaLimitErr(h) PROVE UserInv' /\ CosKeeps
  <2>1. rpc[h].pc # "idle" /\ rpc[h].volumeID \in Volumes
    BY <1>8, <1>0 DEF UpdateQuotaLimitErr, RpcOK, CallsName
  <2>2. seen \subseteq seen'
    BY <1>8 DEF UpdateQuotaLimitErr, NoFault, Fault, faultVars
  <2>3. Others(h) /\ StaysHarmless(h)
    <3>1. CASE rpc[h].userProvidedBucket
      BY <3>1, <1>8, <1>0, <2>1, ReturnView, ReturnHarmless
      DEF UpdateQuotaLimitErr, RollBack, ReturnError
    <3>2. CASE ~rpc[h].userProvidedBucket
      BY <3>2, <1>8, <1>0, <2>2, RollBackView, NotHarmless
      DEF UpdateQuotaLimitErr, Harmless
    <3> QED
      BY <3>1, <3>2
  <2>4. CosKeeps
    BY <1>8, UserCosSame DEF UpdateQuotaLimitErr
  <2>5. PvKeeps(h)
    BY <1>8, PvSame DEF UpdateQuotaLimitErr, RollBack, ReturnError, k8sVars
  <2> QED
    BY <2>2, <2>3, <2>4, <2>5, UserKeeps
<1>9. ASSUME SetBucketVersioningOk(h) PROVE UserInv' /\ CosKeeps
  <2>1. rpc[h].pc # "idle" /\ rpc[h].volumeID \in Volumes
    BY <1>9, <1>0 DEF SetBucketVersioningOk, RpcOK, CallsName
  <2>2. seen \subseteq seen'
    BY <1>9 DEF SetBucketVersioningOk, faultVars
  <2>3. Others(h) /\ StaysHarmless(h)
    BY <1>9, <1>0, <2>2, GotoView, AfterType
    DEF SetBucketVersioningOk, UserInv, StaysHarmless, Harmless, SameWork
  <2>4. CosKeeps
    BY <1>9 DEF SetBucketVersioningOk, CosKeeps, UserInv
  <2>5. PvKeeps(h)
    BY <1>9, PvSame DEF SetBucketVersioningOk, k8sVars
  <2> QED
    BY <2>2, <2>3, <2>4, <2>5, UserKeeps
<1>10. ASSUME SetBucketVersioningErr(h) PROVE UserInv' /\ CosKeeps
  <2>1. rpc[h].pc # "idle" /\ rpc[h].volumeID \in Volumes
    BY <1>10, <1>0 DEF SetBucketVersioningErr, RpcOK, CallsName
  <2>2. seen \subseteq seen'
    BY <1>10 DEF SetBucketVersioningErr, NoFault, Fault, faultVars
  <2>3. Others(h) /\ StaysHarmless(h)
    <3>1. CASE rpc[h].userProvidedBucket
      BY <3>1, <1>10, <1>0, <2>1, ReturnView, ReturnHarmless
      DEF SetBucketVersioningErr, RollBack, ReturnError
    <3>2. CASE ~rpc[h].userProvidedBucket
      BY <3>2, <1>10, <1>0, <2>2, RollBackView, NotHarmless
      DEF SetBucketVersioningErr, Harmless
    <3> QED
      BY <3>1, <3>2
  <2>4. CosKeeps
    BY <1>10, UserCosSame DEF SetBucketVersioningErr
  <2>5. PvKeeps(h)
    BY <1>10, PvSame DEF SetBucketVersioningErr, RollBack, ReturnError, k8sVars
  <2> QED
    BY <2>2, <2>3, <2>4, <2>5, UserKeeps
<1>11. ASSUME CreateVolumeReply(h) PROVE UserInv' /\ CosKeeps
  <2>1. rpc[h].pc # "idle" /\ rpc[h].volumeID \in Volumes
    BY <1>11, <1>0 DEF CreateVolumeReply, RpcOK, CallsName
  <2>2. seen \subseteq seen'
    BY <1>11 DEF CreateVolumeReply, faultVars
  <2>3. Others(h) /\ StaysHarmless(h)
    BY <1>11, <1>0, <2>1, ReturnView, ReturnHarmless
    DEF CreateVolumeReply
  <2>4. CosKeeps
    BY <1>11, UserCosSame DEF CreateVolumeReply
  <2>5. PvKeeps(h)
    BY <1>11, <1>0, <2>1 DEF CreateVolumeReply, PvKeeps, K8sOK
  <2> QED
    BY <2>2, <2>3, <2>4, <2>5, UserKeeps
<1>12. ASSUME BucketToDelete(h) PROVE UserInv' /\ CosKeeps
  <2>1. rpc[h].pc # "idle" /\ rpc[h].volumeID \in Volumes
    BY <1>12, <1>0 DEF BucketToDelete, RpcOK, CallsName
  <2>2. seen \subseteq seen'
    BY <1>12 DEF BucketToDelete, faultVars
  <2>3. Others(h) /\ StaysHarmless(h)
    <3>1. /\ Others(h) /\ ~pv[rpc[h].volumeID].userProvidedBucket
          /\ rpc'[h].bucketName = pv[rpc[h].volumeID].bucketName
      BY <1>12, <1>0, BucketToDeleteView DEF BucketToDelete
    <3> QED
      BY <3>1, <2>1, <2>2 DEF UserInv, StaysHarmless
  <2>4. CosKeeps
    BY <1>12, UserCosSame DEF BucketToDelete
  <2>5. PvKeeps(h)
    BY <1>12, PvSame DEF BucketToDelete, k8sVars
  <2> QED
    BY <2>2, <2>3, <2>4, <2>5, UserKeeps
<1>13. ASSUME BucketToDeleteNone(h) PROVE UserInv' /\ CosKeeps
  <2>1. rpc[h].pc # "idle" /\ rpc[h].volumeID \in Volumes
    BY <1>13, <1>0 DEF BucketToDeleteNone, RpcOK, CallsName
  <2>2. seen \subseteq seen'
    BY <1>13 DEF BucketToDeleteNone, NoFault, Fault, faultVars
  <2>3. Others(h) /\ StaysHarmless(h)
    BY <1>13, <1>0, <2>1, ReturnView, ReturnHarmless
    DEF BucketToDeleteNone, DeleteVolumeReply
  <2>4. CosKeeps
    BY <1>13, UserCosSame DEF BucketToDeleteNone
  <2>5. PvKeeps(h)
    BY <1>13, <1>0, <2>1 DEF BucketToDeleteNone, DeleteVolumeReply, PvKeeps, K8sOK
  <2> QED
    BY <2>2, <2>3, <2>4, <2>5, UserKeeps
<1>14. ASSUME ListObjects(h) PROVE UserInv' /\ CosKeeps
  <2>1. rpc[h].pc # "idle" /\ rpc[h].volumeID \in Volumes
    BY <1>14, <1>0 DEF ListObjects, RpcOK, CallsName
  <2>2. seen \subseteq seen'
    BY <1>14 DEF ListObjects, faultVars
  <2>3. Others(h) /\ StaysHarmless(h)
    BY <1>14, <1>0, <2>2, ListView, NotHarmless DEF ListObjects, Harmless, SameWork
  <2>4. CosKeeps
    BY <1>14, UserCosSame DEF ListObjects
  <2>5. PvKeeps(h)
    BY <1>14, PvSame DEF ListObjects, k8sVars
  <2> QED
    BY <2>2, <2>3, <2>4, <2>5, UserKeeps
<1>15. ASSUME ListObjectsNoSuchBucket(h) PROVE UserInv' /\ CosKeeps
  <2>1. rpc[h].pc # "idle" /\ rpc[h].volumeID \in Volumes
    BY <1>15, <1>0 DEF ListObjectsNoSuchBucket, RpcOK, CallsName
  <2>2. seen \subseteq seen'
    BY <1>15 DEF ListObjectsNoSuchBucket, faultVars
  <2>3. Others(h) /\ StaysHarmless(h)
    BY <1>15, <1>0, <2>1, ReturnView, ReturnHarmless
    DEF ListObjectsNoSuchBucket, DeleteBucketDone, DeleteVolumeReply, ReturnError
  <2>4. CosKeeps
    BY <1>15, UserCosSame DEF ListObjectsNoSuchBucket
  <2>5. PvKeeps(h)
    <3>1. CASE ReturnError(h)
      BY <3>1, PvSame DEF ReturnError
    <3>2. CASE DeleteVolumeReply(h)
      BY <3>2, <1>0, <2>1 DEF DeleteVolumeReply, PvKeeps, K8sOK
    <3> QED
      BY <1>15, <3>1, <3>2 DEF ListObjectsNoSuchBucket, DeleteBucketDone
  <2> QED
    BY <2>2, <2>3, <2>4, <2>5, UserKeeps
<1>16. ASSUME ListObjectsErr(h) PROVE UserInv' /\ CosKeeps
  <2>1. rpc[h].pc # "idle" /\ rpc[h].volumeID \in Volumes
    BY <1>16, <1>0 DEF ListObjectsErr, RpcOK, CallsName
  <2>2. seen \subseteq seen'
    BY <1>16 DEF ListObjectsErr, NoFault, Fault, faultVars
  <2>3. Others(h) /\ StaysHarmless(h)
    BY <1>16, <1>0, <2>1, ReturnView, ReturnHarmless
    DEF ListObjectsErr, DeleteBucketFailed, DeleteBucketDone, DeleteVolumeReply, ReturnError
  <2>4. CosKeeps
    BY <1>16, UserCosSame DEF ListObjectsErr
  <2>5. PvKeeps(h)
    <3>1. CASE ReturnError(h)
      BY <3>1, PvSame DEF ReturnError
    <3>2. CASE DeleteVolumeReply(h)
      BY <3>2, <1>0, <2>1 DEF DeleteVolumeReply, PvKeeps, K8sOK
    <3> QED
      BY <1>16, <3>1, <3>2 DEF ListObjectsErr, DeleteBucketFailed, DeleteBucketDone
  <2> QED
    BY <2>2, <2>3, <2>4, <2>5, UserKeeps
<1>17. ASSUME DeleteObject(h) PROVE UserInv' /\ CosKeeps
  <2>1. rpc[h].pc # "idle" /\ rpc[h].volumeID \in Volumes
    BY <1>17, <1>0 DEF DeleteObject, RpcOK, CallsName
  <2>2. seen \subseteq seen'
    BY <1>17 DEF DeleteObject, faultVars
  <2>3. Others(h) /\ StaysHarmless(h)
    BY <1>17, <1>0, <2>2, ListView, NotHarmless DEF DeleteObject, Harmless, SameWork
  <2>4. CosKeeps
    <3>1. ~Harmless(rpc[h])
      BY <1>17 DEF DeleteObject, Harmless
    <3>2. \A b \in Buckets \ {rpc[h].bucketName} : objects'[b] = objects[b]
      BY <1>17, <1>0 DEF DeleteObject, CosOK
    <3> QED
      BY <1>17, <3>1, <3>2 DEF DeleteObject, CosKeeps, UserInv
  <2>5. PvKeeps(h)
    BY <1>17, PvSame DEF DeleteObject, k8sVars
  <2> QED
    BY <2>2, <2>3, <2>4, <2>5, UserKeeps
<1>18. ASSUME DeleteObjectErr(h) PROVE UserInv' /\ CosKeeps
  <2>1. rpc[h].pc # "idle" /\ rpc[h].volumeID \in Volumes
    BY <1>18, <1>0 DEF DeleteObjectErr, RpcOK, CallsName
  <2>2. seen \subseteq seen'
    BY <1>18 DEF DeleteObjectErr, NoFault, Fault, faultVars
  <2>3. Others(h) /\ StaysHarmless(h)
    BY <1>18, <1>0, <2>1, ReturnView, ReturnHarmless
    DEF DeleteObjectErr, DeleteBucketFailed, DeleteBucketDone, DeleteVolumeReply, ReturnError
  <2>4. CosKeeps
    BY <1>18, UserCosSame DEF DeleteObjectErr
  <2>5. PvKeeps(h)
    <3>1. CASE ReturnError(h)
      BY <3>1, PvSame DEF ReturnError
    <3>2. CASE DeleteVolumeReply(h)
      BY <3>2, <1>0, <2>1 DEF DeleteVolumeReply, PvKeeps, K8sOK
    <3> QED
      BY <1>18, <3>1, <3>2 DEF DeleteObjectErr, DeleteBucketFailed, DeleteBucketDone
  <2> QED
    BY <2>2, <2>3, <2>4, <2>5, UserKeeps
<1>19. ASSUME DeleteObjectsDone(h) PROVE UserInv' /\ CosKeeps
  <2>1. rpc[h].pc # "idle" /\ rpc[h].volumeID \in Volumes
    BY <1>19, <1>0 DEF DeleteObjectsDone, RpcOK, CallsName
  <2>2. seen \subseteq seen'
    BY <1>19 DEF DeleteObjectsDone, faultVars
  <2>3. Others(h) /\ StaysHarmless(h)
    BY <1>19, <1>0, <2>2, GotoView, NotHarmless DEF DeleteObjectsDone, Harmless, SameWork
  <2>4. CosKeeps
    BY <1>19, UserCosSame DEF DeleteObjectsDone
  <2>5. PvKeeps(h)
    BY <1>19, PvSame DEF DeleteObjectsDone, k8sVars
  <2> QED
    BY <2>2, <2>3, <2>4, <2>5, UserKeeps
<1>20. ASSUME DeleteBucket(h) PROVE UserInv' /\ CosKeeps
  <2>1. rpc[h].pc # "idle" /\ rpc[h].volumeID \in Volumes
    BY <1>20, <1>0 DEF DeleteBucket, RpcOK, CallsName
  <2>2. seen \subseteq seen'
    BY <1>20 DEF DeleteBucket, faultVars
  <2>3. Others(h) /\ StaysHarmless(h)
    BY <1>20, <1>0, <2>1, ReturnView, ReturnHarmless
    DEF DeleteBucket, DeleteBucketDone, DeleteVolumeReply, ReturnError
  <2>4. CosKeeps
    <3>1. ~Harmless(rpc[h])
      BY <1>20 DEF DeleteBucket, Harmless
    <3>2. \A b \in Buckets \ {rpc[h].bucketName} :
            origin'[b] = origin[b] /\ (b \in exists => b \in exists')
      BY <1>20, <1>0 DEF DeleteBucket, CosOK
    <3>3. \A b \in Buckets : b = rpc[h].bucketName => origin'[b] = "none"
      BY <1>20, <1>0 DEF DeleteBucket, CosOK
    <3> QED
      BY <1>20, <3>1, <3>2, <3>3 DEF DeleteBucket, CosKeeps, UserInv
  <2>5. PvKeeps(h)
    <3>1. CASE ReturnError(h)
      BY <3>1, PvSame DEF ReturnError
    <3>2. CASE DeleteVolumeReply(h)
      BY <3>2, <1>0, <2>1 DEF DeleteVolumeReply, PvKeeps, K8sOK
    <3> QED
      BY <1>20, <3>1, <3>2 DEF DeleteBucket, DeleteBucketDone
  <2> QED
    BY <2>2, <2>3, <2>4, <2>5, UserKeeps
<1>21. ASSUME DeleteBucketErr(h) PROVE UserInv' /\ CosKeeps
  <2>1. rpc[h].pc # "idle" /\ rpc[h].volumeID \in Volumes
    BY <1>21, <1>0 DEF DeleteBucketErr, RpcOK, CallsName
  <2>2. seen \subseteq seen'
    BY <1>21 DEF DeleteBucketErr, NoFault, Fault, faultVars
  <2>3. Others(h) /\ StaysHarmless(h)
    BY <1>21, <1>0, <2>1, ReturnView, ReturnHarmless
    DEF DeleteBucketErr, DeleteBucketFailed, DeleteBucketDone, DeleteVolumeReply, ReturnError
  <2>4. CosKeeps
    BY <1>21, UserCosSame DEF DeleteBucketErr
  <2>5. PvKeeps(h)
    <3>1. CASE ReturnError(h)
      BY <3>1, PvSame DEF ReturnError
    <3>2. CASE DeleteVolumeReply(h)
      BY <3>2, <1>0, <2>1 DEF DeleteVolumeReply, PvKeeps, K8sOK
    <3> QED
      BY <1>21, <3>1, <3>2 DEF DeleteBucketErr, DeleteBucketFailed, DeleteBucketDone
  <2> QED
    BY <2>2, <2>3, <2>4, <2>5, UserKeeps
<1> QED
  BY <1>1, <1>2, <1>3, <1>4, <1>5, <1>6, <1>7, <1>8, <1>9, <1>10, <1>11,
     <1>12, <1>13, <1>14, <1>15, <1>16, <1>17, <1>18, <1>19, <1>20,
     <1>21
  DEF CreateStep, DeleteStep

LEMMA UserStep == TypeOK /\ UserInv /\ [Next]_vars => UserInv' /\ CosKeeps
<1> SUFFICES ASSUME TypeOK, UserInv, [Next]_vars PROVE UserInv' /\ CosKeeps
  OBVIOUS
<1>0. CosOK /\ K8sOK /\ RpcOK
  BY TypeParts
<1>1. ASSUME NEW h \in Handlers, CreateStep(h) \/ DeleteStep(h)
      PROVE  UserInv' /\ CosKeeps
  BY <1>1, UserHandler
<1>2. ASSUME NEW v \in Volumes,
             \/ DeleteVolumeReject(v)
             \/ CreatePVC(v) \/ AbandonPVC(v) \/ DeletePVC(v)
             \/ PutObject(v) \/ Timeout(v)
      PROVE  UserInv' /\ CosKeeps
  <2>1. UNCHANGED <<exists, origin, pv, rpc>> /\ seen \subseteq seen'
    BY <1>2 DEF DeleteVolumeReject, CreatePVC, AbandonPVC,
       DeletePVC, PutObject, Timeout, NoFault, Fault, cosVars, k8sVars, faultVars
  <2>2. \A b \in Buckets : objects[b] \subseteq objects'[b]
    <3>1. CASE UNCHANGED objects
      BY <3>1
    <3>2. CASE PutObject(v)
      BY <3>2, <1>0 DEF PutObject, CosOK
    <3> QED
      BY <1>2, <3>1, <3>2 DEF DeleteVolumeReject,
         CreatePVC, AbandonPVC, DeletePVC, Timeout, cosVars
  <2> QED
    BY <2>1, <2>2 DEF UserInv, CosKeeps, Harmless
<1>3. ASSUME NEW h \in Handlers, GetSecretOk(h)
      PROVE  UserInv' /\ CosKeeps
  <2>0. PICK v \in Volumes : v = rpc[h].volumeID
    BY <1>3, <1>0 DEF GetSecretOk, RpcOK, CallsName
  <2>1. spec[v].bucketName \in UserBuckets \cup {NoBucket}
    BY <1>0, ClaimFacts
  <2>2. StaysHarmless(h) /\ Others(h)
    <3>1. CASE spec[v].bucketName # NoBucket
      BY <3>1, <1>3, <1>0, <2>0, GetSecretView DEF StaysHarmless, Harmless
    <3>2. CASE spec[v].bucketName = NoBucket
      <4>1. Others(h) /\ rpc'[h].bucketName = getTempBucketName(v, clock)
        BY <3>2, <1>3, <1>0, <2>0, GetSecretView
      <4>2. getTempBucketName(v, clock) \notin UserBuckets
        <5>1. MaxClock \in Nat
          BY ConstantsAssumption
        <5>2. clock \in 0..MaxClock
          BY DEF TypeOK
        <5>3. clock \in Nat
          BY <5>1, <5>2
        <5>4. getTempBucketName(v, clock) \in Volumes \X Nat
          BY <5>3 DEF getTempBucketName
        <5>5. UserBuckets \cap (Volumes \X Nat) = {}
          BY ConstantsAssumption
        <5> QED
          BY <5>4, <5>5
      <4>3. UNCHANGED seen
        BY <1>3 DEF GetSecretOk
      <4> QED
        BY <4>1, <4>2, <4>3 DEF StaysHarmless, UserInv
    <3> QED
      BY <3>1, <3>2
  <2>3. CosKeeps /\ PvKeeps(h) /\ seen \subseteq seen'
    BY <1>3, UserCosSame, PvSame DEF GetSecretOk
  <2> QED
    BY <2>2, <2>3, UserKeeps
<1>4. ASSUME NEW v \in Volumes, NEW h \in Handlers, DeleteVolume(v, h)
      PROVE  UserInv' /\ CosKeeps
  <2>1. Others(h) /\ StaysHarmless(h)
    BY <1>4, <1>0, DeleteVolumeView, PVFacts DEF StaysHarmless
  <2>2. CosKeeps /\ PvKeeps(h) /\ seen \subseteq seen'
    BY <1>4, UserCosSame, PvSame DEF DeleteVolume, faultVars
  <2> QED
    BY <2>1, <2>2, UserKeeps
<1>7. ASSUME NEW v \in Volumes, NEW h \in Handlers, CreateVolume(v, h)
      PROVE  UserInv' /\ CosKeeps
  <2>1. Others(h) /\ StaysHarmless(h)
    BY <1>7, <1>0, CreateVolumeView, PVFacts DEF StaysHarmless
  <2>2. CosKeeps /\ PvKeeps(h) /\ seen \subseteq seen'
    BY <1>7, UserCosSame, PvSame DEF CreateVolume, faultVars
  <2> QED
    BY <2>1, <2>2, UserKeeps
<1>8. ASSUME NEW h \in Handlers, GetSecretErr(h)
      PROVE  UserInv' /\ CosKeeps
  <2>1. rpc[h].volumeID \in Volumes
    BY <1>8, <1>0 DEF GetSecretErr, RpcOK, CallsName
  <2>2. Others(h) /\ StaysHarmless(h)
    BY <1>8, <1>0, <2>1, ReturnView, ReturnHarmless DEF GetSecretErr, ReturnError
  <2>3. CosKeeps /\ PvKeeps(h) /\ seen \subseteq seen'
    BY <1>8, UserCosSame, PvSame
    DEF GetSecretErr, ReturnError, NoFault, Fault, faultVars
  <2> QED
    BY <2>2, <2>3, UserKeeps
<1>5. ASSUME Crash PROVE UserInv' /\ CosKeeps
  <2>1. /\ UNCHANGED <<cosVars, k8sVars>> /\ seen \subseteq seen'
        /\ \A h \in Handlers : rpc'[h] = Idle
    BY <1>5 DEF Crash, Fault
  <2>2. CosKeeps
    BY <2>1, UserCosSame
  <2>3. \A h \in Handlers, b \in Buckets : rpc'[h].bucketName # b
    BY <2>1, IdleView, PVFacts
  <2> QED
    BY <2>1, <2>2, <2>3 DEF UserInv, cosVars, k8sVars
<1>6. CASE Tick \/ UNCHANGED vars
  BY <1>6 DEF Tick, vars, cosVars, k8sVars, faultVars, UserInv, CosKeeps, Harmless
<1> QED
  BY <1>1, <1>2, <1>3, <1>4, <1>5, <1>6, <1>7, <1>8
  DEF Next, LookupStep, Provisioner, Environment

(* For any number of volumes, goroutines, faults and retries: as long as   *)
(* HeadBucket answers truthfully, CreateVolume and DeleteVolume remove     *)
(* neither a bucket that was there before the driver nor an object in it.  *)
THEOREM UserBucketsKept == Spec => UserBucketKept
<1>1. Init => TypeOK /\ UserInv
  <2> SUFFICES ASSUME Init PROVE UserInv
    BY InitType
  <2>1. ASSUME NEW b \in Buckets, origin[b] = "user"
        PROVE  b \in exists /\ b \in UserBuckets
    <3>1. exists \subseteq UserBuckets
      BY DEF Init
    <3>2. origin = [c \in Buckets |-> IF c \in exists THEN "user" ELSE "none"]
      BY DEF Init
    <3>3. b \in exists
      BY <2>1, <3>2
    <3> QED
      BY <3>1, <3>3
  <2>2. \A h \in Handlers : rpc[h].bucketName \notin Buckets
    <3>1. \A h \in Handlers : rpc[h] = Idle
      BY DEF Init
    <3>2. Idle.bucketName = NoBucket
      BY DEF Idle
    <3> QED
      BY <3>1, <3>2, ConstantsAssumption
  <2>3. \A v \in Volumes : pv[v].bucketName \notin Buckets
    <3>1. \A v \in Volumes : pv[v] = NoPV
      BY DEF Init
    <3>2. NoPV.bucketName = NoBucket
      BY DEF NoPV
    <3> QED
      BY <3>1, <3>2, ConstantsAssumption
  <2> QED
    BY <2>1, <2>2, <2>3 DEF UserInv
<1>2. TypeOK /\ UserInv /\ [Next]_vars => TypeOK' /\ UserInv'
  BY TypeStep, UserStep
<1>3. /\ TypeOK /\ UserInv /\ [Next]_vars
      => [\A b \in Buckets : origin[b] = "user" /\ "head" \notin seen =>
            b \in exists' /\ objects[b] \subseteq objects'[b]]_vars
  BY UserStep DEF CosKeeps
<1> QED
  BY <1>1, <1>2, <1>3, PTL DEF Spec, UserBucketKept
=============================================================================
