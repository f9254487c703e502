-------------------------- MODULE OrderlyNodeProofs --------------------------
(***************************************************************************)
(* What NodeServer guarantees as long as no call is repeated while it runs *)
(* and no rclone child is late: one FUSE process and one mount at most, a  *)
(* pod that is gone leaves nothing behind, a pod that failed has nothing   *)
(* mounted.  The inductive invariant is OrderlyInv.                        *)
(***************************************************************************)
EXTENDS NodeServerProofs

(* The parts of OrderlyInv.                                                *)
OrderlyParts == OneCall /\ OneProcess /\ ProcessesAgree /\ GoneInv

(* What holds before a step that stays orderly.                            *)
Before ==
  /\ TypeOK /\ ServedInv /\ OrderlyParts
  /\ Orderly /\ Orderly'
  /\ [Next]_vars

LEMMA BeforeParts ==
  ASSUME Before
  PROVE  /\ TypeOK /\ ServedInv /\ PathInv /\ [Next]_vars
         /\ PodOK /\ HostOK /\ RestOK /\ NodeOK /\ SrvOK /\ NodesOnPath
         /\ OneCall /\ OneProcess /\ ProcessesAgree /\ GoneInv
         /\ CallServes /\ NothingUnmounts /\ CommandsAgree
         /\ node \in [Handlers -> NodeType] /\ srv \in [Handlers -> SrvType]
         /\ daemon \in [Daemons -> {"none", "starting", "serving", "detached"}]
BY TypeParts
DEF Before, OrderlyParts, ServedInv, PathInv, NodesOnPath, NodeOK, SrvOK, HostOK

LEMMA SeenGrows ==
  ASSUME TypeOK, [Next]_vars
  PROVE  seen \subseteq seen'
BY TypeParts, FaultsGrow, FaultTypes

LEMMA MounterKept ==
  ASSUME [Next]_vars
  PROVE  mounter' = mounter
<1>1. ASSUME NEW h \in Handlers, Errors(h) PROVE mounter' = mounter
  BY <1>1, ErrorsView DEF ReturnError, k8sVars
<1>2. ASSUME NEW h \in Handlers, SrvOnly(h) \/ HostSteps(h) PROVE mounter' = mounter
  BY <1>2, SrvOnlyView
  DEF HostSteps, FuseStart, WaitForMountTimeout, Unmount, ProcessKill, podVars,
      k8sVars
<1>3. ASSUME NEW h \in Handlers,
             \/ NodePublishVolume(h) \/ NodeUnpublishVolume(h)
             \/ CheckMountOk(h) \/ WriteConfig(h) \/ MounterRequest(h)
             \/ MounterRequestTimeout(h) \/ PublishReply(h)
             \/ UnpublishAnswered(h) \/ UnpublishReply(h)
      PROVE  mounter' = mounter
  BY <1>3
  DEF NodePublishVolume, NodeUnpublishVolume, CheckMountOk, WriteConfig,
      MounterRequest, MounterRequestTimeout, PublishReply, UnpublishAnswered,
      UnpublishReply, podVars, k8sVars
<1>4. ASSUME NEW d \in Daemons,
             DaemonMount(d) \/ DaemonFail(d) \/ DaemonExit(d) \/ DaemonCrash(d)
      PROVE  mounter' = mounter
  BY <1>4 DEF DaemonMount, DaemonFail, DaemonExit, DaemonCrash, podVars, k8sVars
<1>5. CASE Others \/ UNCHANGED vars
  BY <1>5, OthersView DEF vars, podVars, k8sVars
<1> QED  BY <1>1, <1>2, <1>3, <1>4, <1>5, StepCases

(* Disorder is not forgotten.                                              *)
LEMMA OrderlyBefore ==
  ASSUME TypeOK, [Next]_vars, Orderly'
  PROVE  Orderly
BY SeenGrows, MounterKept DEF Orderly, LateChild

-----------------------------------------------------------------------------
(***************************************************************************)
(* One call at a time.                                                     *)
(***************************************************************************)
AllIdle == \A h \in Handlers : node[h] = IdleNode /\ srv[h] = IdleSrv

OthersIdle(c) ==
  \A h \in Handlers \ {c} : node[h] = IdleNode /\ srv[h] = IdleSrv

(* What OneCall and ProcessesAgree say of the one goroutine at work.       *)
WorkOK(c) ==
  /\ srv[c].pc # "idle" => node[c].pc = "wait"
  /\ node[c].op = "publish" => srv[c].pc \notin Unmounting
  /\ node[c].op = "unpublish" => srv[c].pc \notin Mounting
  /\ srv[c].pc \notin {"mounting", "process"} => srv[c].cmd = "exited"
  /\ NotYetMounted(c) => ~Mounted
  /\ WithoutProcess(c) => Running = {}
  /\ ProcessDone(c) => Running = {} \/ "processes" \in seen

(* Nothing is asked of an idle goroutine.                                  *)
LEMMA IdleWork ==
  ASSUME NEW h \in Handlers, node'[h] = IdleNode, srv'[h] = IdleSrv
  PROVE  WorkOK(h)'
BY IdleFacts
DEF WorkOK, NotYetMounted, WithoutProcess, ProcessDone, Unmounting, Mounting

(* Between two calls.                                                      *)
LEMMA AtRest ==
  ASSUME AllIdle', OneProcess', GoneInv',
         pod' \in {"starting", "uncertain", "failed"} => Running' = {}
  PROVE  OrderlyParts'
<1>1. \A h \in Handlers : WorkOK(h)'
  BY IdleWork DEF AllIdle
<1>2. OneCall' /\ ProcessesAgree'
  BY <1>1 DEF WorkOK, OneCall, ProcessesAgree, AllIdle
<1> QED  BY <1>2 DEF OrderlyParts

(* During a call.                                                          *)
LEMMA AtWork ==
  ASSUME NEW c \in Handlers, call' = c, OthersIdle(c)', WorkOK(c)', OneProcess',
         pod' # "gone"
  PROVE  OrderlyParts'
<1>1. \A h \in Handlers : WorkOK(h)'
  BY IdleWork DEF OthersIdle
<1>2. OneCall'
  BY <1>1 DEF WorkOK, OneCall, OthersIdle
<1>3. call' # NoHandler
  BY Words
<1>4. ProcessesAgree'
  BY <1>1, <1>3 DEF WorkOK, ProcessesAgree
<1> QED  BY <1>2, <1>4 DEF OrderlyParts, GoneInv

(* The goroutine that is at work is the one the kubelet waits for.         *)
LEMMA Busy ==
  ASSUME Before, NEW h \in Handlers, node[h].pc # "idle" \/ srv[h].pc # "idle"
  PROVE  /\ call = h /\ OthersIdle(h) /\ WorkOK(h)
         /\ node[h].pc # "idle"
         /\ \/ node[h].op = "publish" /\ pod \in {"starting", "uncertain"}
            \/ node[h].op = "unpublish" /\ pod = "stopping"
<1>0. OneCall /\ ProcessesAgree /\ CallServes
  BY BeforeParts
<1>1. call = h
  BY <1>0, IdleFacts DEF OneCall
<1>2. OthersIdle(h)
  BY <1>0, <1>1 DEF OneCall, OthersIdle
<1>3. WorkOK(h)
  BY <1>0 DEF WorkOK, OneCall, ProcessesAgree
<1>4. node[h].pc # "idle"
  BY <1>3 DEF WorkOK
<1> QED  BY <1>0, <1>1, <1>2, <1>3, <1>4, Words DEF CallServes

(* Without a call nothing runs.                                            *)
LEMMA Resting ==
  ASSUME Before, call = NoHandler
  PROVE  AllIdle
BY BeforeParts, Words DEF OneCall, AllIdle

(* No process starts unless somebody waits for it.                         *)
LEMMA NoneStarting ==
  ASSUME Before, \A h \in Handlers : srv[h].pc # "mounting"
  PROVE  \A d \in Daemons : daemon[d] # "starting"
BY BeforeParts DEF OneProcess

(* The tables without a process that starts.                               *)
LEMMA ProcessSame ==
  ASSUME OneProcess, UNCHANGED <<mounts, daemon>>,
         \A d \in Daemons : daemon[d] # "starting"
  PROVE  OneProcess'
BY DEF OneProcess, Running

(* Work of a goroutine that leaves the host and the other goroutines alone. *)
LEMMA Works ==
  ASSUME Before, NEW h \in Handlers, node[h].pc # "idle" \/ srv[h].pc # "idle",
         srv[h].pc # "mounting",
         UNCHANGED <<pod, call, mounts, daemon>>,
         \A g \in Handlers \ {h} : node'[g] = node[g] /\ srv'[g] = srv[g],
         WorkOK(h)'
  PROVE  OrderlyParts'
<1>1. call = h /\ OthersIdle(h) /\ pod # "gone"
  BY Busy
<1>2. \A g \in Handlers : srv[g].pc # "mounting"
  BY <1>1, IdleFacts DEF OthersIdle
<1>3. OneProcess'
  BY <1>2, BeforeParts, NoneStarting, ProcessSame
<1>4. OthersIdle(h)'
  BY <1>1 DEF OthersIdle
<1> QED  BY <1>1, <1>3, <1>4, AtWork

(* The call is answered, and nothing changes on the host.                  *)
LEMMA Ends ==
  ASSUME Before, NEW h \in Handlers, node[h].pc # "idle" \/ srv[h].pc # "idle",
         srv[h].pc # "mounting",
         node' = [node EXCEPT ![h] = IdleNode],
         srv' = [srv EXCEPT ![h] = IdleSrv],
         UNCHANGED <<mounts, daemon>>,
         pod' \in {"starting", "uncertain", "failed"} => Running = {},
         GoneInv'
  PROVE  OrderlyParts'
<1>1. OthersIdle(h)
  BY Busy
<1>2. \A g \in Handlers : srv[g].pc # "mounting"
  BY <1>1, IdleFacts DEF OthersIdle
<1>3. OneProcess'
  BY <1>2, BeforeParts, NoneStarting, ProcessSame
<1>4. AllIdle'
  BY <1>1, BeforeParts DEF AllIdle, OthersIdle
<1>5. Running' = Running
  BY DEF Running
<1> QED  BY <1>3, <1>4, <1>5, AtRest

(* A goroutine of the service that has not started, or has ended.          *)
LEMMA SrvAtRest ==
  ASSUME Before, NEW h \in Handlers, node[h].pc \notin {"idle", "wait"}
  PROVE  srv[h] = IdleSrv /\ srv = [srv EXCEPT ![h] = IdleSrv]
<1>1. srv[h].pc = "idle" /\ srv[h].cmd = "exited"
  BY Busy DEF WorkOK
<1>2. srv[h] \in SrvType /\ srv \in [Handlers -> SrvType]
  BY BeforeParts
<1>3. srv[h] = IdleSrv
  BY <1>1, <1>2 DEF SrvType, IdleSrv
<1> QED  BY <1>2, <1>3

-----------------------------------------------------------------------------
(***************************************************************************)
(* The steps of the plugin.                                                *)
(***************************************************************************)
LEMMA StartsCall ==
  ASSUME Before, NEW h \in Handlers, NodePublishVolume(h) \/ NodeUnpublishVolume(h)
  PROVE  OrderlyParts'
<1>1. AllIdle /\ call' = h /\ UNCHANGED <<pod, mounts, daemon, srv>> /\ pod' # "gone"
  BY Resting DEF NodePublishVolume, NodeUnpublishVolume, hostVars
<1>2. \A g \in Handlers : srv[g].pc # "mounting"
  BY <1>1, IdleFacts DEF AllIdle
<1>3. OneProcess'
  BY <1>1, <1>2, BeforeParts, NoneStarting, ProcessSame
<1>4. srv'[h] = IdleSrv /\ IdleSrv.pc = "idle" /\ IdleSrv.cmd = "exited"
  BY <1>1, IdleFacts DEF AllIdle
<1>5. Running' = Running
  BY <1>1 DEF Running
<1>6. CASE NodePublishVolume(h)
  <2>1. /\ node' = [node EXCEPT ![h] = [pc |-> "check", op |-> "publish", key |-> secret]]
        /\ pod \in {"starting", "uncertain"} /\ call = NoHandler
    BY <1>6 DEF NodePublishVolume
  <2>2. Running = {}
    BY <2>1, BeforeParts DEF ProcessesAgree
  <2>3. node'[h].pc = "check" /\ node'[h].op = "publish"
    BY <2>1, BeforeParts
  <2>4. OthersIdle(h)'
    BY <1>1, <2>1, BeforeParts DEF AllIdle, OthersIdle
  <2>5. WorkOK(h)'
    BY <1>4, <1>5, <2>2, <2>3
    DEF WorkOK, NotYetMounted, WithoutProcess, ProcessDone, Unmounting, Mounting
  <2> QED  BY <1>1, <1>3, <2>4, <2>5, AtWork
<1>7. CASE NodeUnpublishVolume(h)
  <2>1. node' = [node EXCEPT ![h] = [IdleNode EXCEPT !.pc = "post", !.op = "unpublish"]]
    BY <1>7 DEF NodeUnpublishVolume
  <2>2. node'[h].pc = "post" /\ node'[h].op = "unpublish"
    BY <2>1, BeforeParts DEF IdleNode
  <2>3. OthersIdle(h)'
    BY <1>1, <2>1, BeforeParts DEF AllIdle, OthersIdle
  <2>4. WorkOK(h)'
    BY <1>4, <2>2
    DEF WorkOK, NotYetMounted, WithoutProcess, ProcessDone, Unmounting, Mounting
  <2> QED  BY <1>1, <1>3, <2>3, <2>4, AtWork
<1> QED  BY <1>6, <1>7

(* A directory that can be used is mounted by a live process or new, and   *)
(* there is no process yet.                                                *)
LEMMA Checks ==
  ASSUME Before, NEW h \in Handlers, CheckMountOk(h)
  PROVE  OrderlyParts'
<1>1. /\ node[h].pc = "check" /\ (dir => Served) /\ NodeGoto(h, "config")
      /\ UNCHANGED <<pod, call, mounts, daemon, srv>>
  BY DEF CheckMountOk, podVars
<1>2. Running = {} /\ srv[h] = IdleSrv
  BY <1>1, Busy, SrvAtRest DEF WorkOK, WithoutProcess
<1>3. ~Mounted
  <2> SUFFICES ASSUME Mounted PROVE FALSE
    OBVIOUS
  <2>1. Served /\ HostOK
    BY <1>1, BeforeParts DEF HostOK, TablesAgree
  <2>2. /\ DOMAIN mounts = 1..Len(mounts) /\ Len(mounts) \in 1..Len(mounts)
        /\ Top = mounts[Len(mounts)] /\ Top \in Daemons \cup {"broken"}
    BY <2>1, MountFacts
  <2>3. Top \in Daemons /\ daemon[Top] = "serving"
    BY <2>1, <2>2 DEF Served, HostOK, TablesAgree
  <2> QED  BY <1>2, <2>3 DEF Running
<1>4. /\ \A g \in Handlers : node'[g].op = node[g].op
      /\ \A g \in Handlers \ {h} : node'[g] = node[g]
      /\ node'[h].pc = "config"
  BY <1>1, BeforeParts, GotoKeepsOp
<1>5. node[h].op = "publish"
  BY <1>1, BeforeParts, OnPathFacts
<1>6. WorkOK(h)'
  BY <1>1, <1>2, <1>3, <1>4, <1>5, IdleFacts
  DEF WorkOK, NotYetMounted, WithoutProcess, ProcessDone, Unmounting, Mounting,
      Running, Mounted
<1> QED  BY <1>1, <1>2, <1>4, <1>6, IdleFacts, Works

LEMMA Writes ==
  ASSUME Before, NEW h \in Handlers, WriteConfig(h)
  PROVE  OrderlyParts'
<1>1. /\ node[h].pc = "config" /\ NodeGoto(h, "post")
      /\ UNCHANGED <<pod, call, mounts, daemon, srv>>
  BY DEF WriteConfig, podVars, hostVars
<1>2. node[h].op = "publish" /\ srv[h] = IdleSrv
  BY <1>1, BeforeParts, OnPathFacts, SrvAtRest
<1>3. Running = {} /\ ~Mounted
  BY <1>1, <1>2, Busy DEF WorkOK, WithoutProcess, NotYetMounted
<1>4. /\ \A g \in Handlers : node'[g].op = node[g].op
      /\ \A g \in Handlers \ {h} : node'[g] = node[g]
      /\ node'[h].pc = "post"
  BY <1>1, BeforeParts, GotoKeepsOp
<1>5. WorkOK(h)'
  BY <1>1, <1>2, <1>3, <1>4, IdleFacts
  DEF WorkOK, NotYetMounted, WithoutProcess, ProcessDone, Unmounting, Mounting,
      Running, Mounted
<1> QED  BY <1>1, <1>2, <1>4, <1>5, IdleFacts, Works

LEMMA Posts ==
  ASSUME Before, NEW h \in Handlers, MounterRequest(h)
  PROVE  OrderlyParts'
<1>1. /\ node[h].pc = "post" /\ NodeGoto(h, "wait")
      /\ SrvGoto(h, IF node[h].op = "publish" THEN "validate" ELSE "isMountpoint")
      /\ UNCHANGED <<pod, call, mounts, daemon>>
  BY DEF MounterRequest, podVars, hostVars
<1>2. srv[h] = IdleSrv /\ node[h].op \in {"publish", "unpublish"}
  BY <1>1, BeforeParts, OnPathFacts, SrvAtRest
<1>3. node[h].op = "publish" => Running = {} /\ ~Mounted
  BY <1>1, Busy DEF WorkOK, WithoutProcess, NotYetMounted
<1>4. /\ \A g \in Handlers : node'[g].op = node[g].op
      /\ \A g \in Handlers \ {h} : node'[g] = node[g]
      /\ node'[h].pc = "wait"
  BY <1>1, BeforeParts, GotoKeepsOp
<1>5. /\ \A g \in Handlers \ {h} : srv'[g] = srv[g]
      /\ srv'[h].pc = (IF node[h].op = "publish" THEN "validate" ELSE "isMountpoint")
      /\ srv'[h].cmd = "exited"
  BY <1>1, <1>2, BeforeParts, GotoPcs, IdleFacts
<1>6. WorkOK(h)'
  BY <1>1, <1>2, <1>3, <1>4, <1>5
  DEF WorkOK, NotYetMounted, WithoutProcess, ProcessDone, Unmounting, Mounting,
      Running, Mounted
<1> QED  BY <1>1, <1>2, <1>4, <1>5, <1>6, IdleFacts, Works

(* A call that fails has no process any longer.                            *)
LEMMA Fails ==
  ASSUME Before, NEW h \in Handlers, Errors(h)
  PROVE  OrderlyParts'
<1>1. ReturnError(h) /\ UNCHANGED <<mounts, daemon>>
  BY ErrorsView
<1>2. \/ node[h].pc \in {"check", "config", "post"} /\ UNCHANGED srv
      \/ /\ node[h].pc = "wait" /\ srv[h].pc = "err"
         /\ srv' = [srv EXCEPT ![h] = IdleSrv]
  BY DEF Errors, CheckMountErr, WriteConfigErr, MounterRequestErr, ErrorReply
<1>3. srv' = [srv EXCEPT ![h] = IdleSrv] /\ srv[h].pc # "mounting"
  BY <1>2, SrvAtRest, IdleFacts
<1>4. call = h
  BY <1>2, Busy
<1>5. /\ node' = [node EXCEPT ![h] = IdleNode]
      /\ pod' = IF pod = "uncertain" THEN "starting" ELSE pod
  BY <1>1, <1>4 DEF ReturnError
<1>6. pod' # "gone"
  BY <1>2, <1>5, Busy
<1>7. pod' \in {"starting", "uncertain", "failed"} => Running = {}
  <2> SUFFICES ASSUME pod' \in {"starting", "uncertain", "failed"}
               PROVE  Running = {}
    OBVIOUS
  <2>1. node[h].op = "publish" /\ WorkOK(h)
    BY <1>2, <1>5, Busy
  <2> QED  BY <1>2, <2>1 DEF WorkOK, WithoutProcess, NotYetMounted
<1> QED  BY <1>1, <1>2, <1>3, <1>5, <1>6, <1>7, Ends DEF GoneInv

(* Answers of success.                                                     *)
LEMMA Succeeds ==
  ASSUME Before, NEW h \in Handlers, PublishReply(h)
  PROVE  OrderlyParts'
<1>1. /\ node[h].pc = "wait" /\ srv[h].pc = "ok"
      /\ srv' = [srv EXCEPT ![h] = IdleSrv]
      /\ node' = [node EXCEPT ![h] = IdleNode]
      /\ UNCHANGED <<mounts, daemon>>
  BY DEF PublishReply, hostVars
<1>2. pod' = "running"
  BY <1>1, Busy DEF PublishReply
<1> QED  BY <1>1, <1>2, Ends DEF GoneInv

LEMMA Unpublished ==
  ASSUME Before, NEW h \in Handlers, UnpublishAnswered(h)
  PROVE  OrderlyParts'
<1>1. /\ node[h].pc = "wait" /\ node[h].op = "unpublish" /\ srv[h].pc = "ok"
      /\ srv' = [srv EXCEPT ![h] = IdleSrv] /\ NodeGoto(h, "remove")
      /\ UNCHANGED <<pod, call, mounts, daemon, seen>>
  BY DEF UnpublishAnswered, podVars, hostVars, faultVars
<1>2. Running = {} \/ "processes" \in seen
  BY <1>1, Busy DEF WorkOK, ProcessDone
<1>3. /\ \A g \in Handlers : node'[g].op = node[g].op
      /\ \A g \in Handlers \ {h} : node'[g] = node[g]
      /\ node'[h].pc = "remove"
  BY <1>1, BeforeParts, GotoKeepsOp
<1>4. srv'[h] = IdleSrv /\ \A g \in Handlers \ {h} : srv'[g] = srv[g]
  BY <1>1, BeforeParts
<1>5. WorkOK(h)'
  BY <1>1, <1>2, <1>3, <1>4, IdleFacts
  DEF WorkOK, NotYetMounted, WithoutProcess, ProcessDone, Unmounting, Mounting,
      Running, Mounted
<1> QED  BY <1>1, <1>3, <1>4, <1>5, Works

LEMMA Goes ==
  ASSUME Before, NEW h \in Handlers, UnpublishReply(h)
  PROVE  OrderlyParts'
<1>1. /\ node[h].pc = "remove" /\ node' = [node EXCEPT ![h] = IdleNode]
      /\ UNCHANGED <<mounts, daemon, srv>>
      /\ cred' = NoCred \/ "remove" \in seen'
  BY DEF UnpublishReply, RemoveCredFile, Fault
<1>2. srv' = [srv EXCEPT ![h] = IdleSrv] /\ srv[h].pc # "mounting"
  BY <1>1, SrvAtRest, IdleFacts
<1>3. call = h /\ node[h].op = "unpublish" /\ pod = "stopping" /\ WorkOK(h)
  BY <1>1, BeforeParts, OnPathFacts, Busy
<1>4. \/ pod' = "stopping"
      \/ pod' = "gone" /\ ~Mounted
  BY <1>3 DEF UnpublishReply
<1>5. Running = {} \/ "processes" \in seen
  BY <1>1, <1>3 DEF WorkOK, ProcessDone
<1>6. GoneInv'
  BY <1>1, <1>4, <1>5, BeforeParts, SeenGrows DEF GoneInv, Mounted, Running
<1> QED  BY <1>1, <1>2, <1>4, <1>6, Ends

-----------------------------------------------------------------------------
(***************************************************************************)
(* The steps of the service.                                               *)
(***************************************************************************)

(* Before the path is unmounted or mounted, by the goroutine at work.      *)
LEMMA Serving ==
  ASSUME Before, NEW h \in Handlers, srv[h].pc # "idle"
  PROVE  /\ node[h].pc = "wait"
         /\ srv[h].pc \in Mounting => node[h].op = "publish"
         /\ srv[h].pc \in Unmounting => node[h].op = "unpublish"
<1>1. WorkOK(h) /\ node[h].op \in {"publish", "unpublish"}
  BY Busy
<1> QED  BY <1>1 DEF WorkOK

(* An error is reported: a NodePublishVolume has no process then.          *)
LEMMA RepliesErr ==
  ASSUME Before, NEW h \in Handlers, srv[h].pc \notin {"idle", "mounting"},
         SrvReply(h, "err"), UNCHANGED <<pod, call, node, mounts, daemon>>,
         node[h].op = "publish" => Running = {}
  PROVE  OrderlyParts'
<1>1. /\ \A g \in Handlers \ {h} : srv'[g] = srv[g]
      /\ srv'[h].pc = "err" /\ srv'[h].cmd = "exited" /\ node[h].pc = "wait"
  BY BeforeParts, ReplyPcs, Serving
<1>2. WorkOK(h)'
  BY <1>1
  DEF WorkOK, NotYetMounted, WithoutProcess, ProcessDone, Unmounting, Mounting,
      Running, Mounted
<1> QED  BY <1>1, <1>2, Works

LEMMA Validates ==
  ASSUME Before, NEW h \in Handlers, ParseMounterArgs(h)
  PROVE  OrderlyParts'
<1>1. /\ srv[h].pc = "validate"
      /\ SrvGoto(h, "start") \/ SrvReply(h, "err")
      /\ UNCHANGED <<pod, call, node, mounts, daemon>>
  BY DEF ParseMounterArgs, podVars, hostVars
<1>2. Running = {} /\ ~Mounted /\ srv[h].cmd = "exited"
  BY <1>1, Busy DEF WorkOK, WithoutProcess, NotYetMounted
<1>3. node[h].pc = "wait" /\ node[h].op = "publish"
  BY <1>1, Serving DEF Mounting
<1>4. CASE SrvGoto(h, "start")
  <2>1. /\ \A g \in Handlers \ {h} : srv'[g] = srv[g]
        /\ srv'[h].pc = "start" /\ srv'[h].cmd = "exited"
    BY <1>2, <1>4, BeforeParts, GotoPcs
  <2>2. WorkOK(h)'
    BY <1>1, <1>2, <1>3, <2>1
    DEF WorkOK, NotYetMounted, WithoutProcess, ProcessDone, Unmounting, Mounting,
        Running, Mounted
  <2> QED  BY <1>1, <2>1, <2>2, Works
<1>5. CASE SrvReply(h, "err")
  BY <1>1, <1>2, <1>5, RepliesErr
<1> QED  BY <1>1, <1>4, <1>5

LEMMA StartFails ==
  ASSUME Before, NEW h \in Handlers, FuseStartErr(h)
  PROVE  OrderlyParts'
<1>1. /\ srv[h].pc = "start" /\ SrvReply(h, "err")
      /\ UNCHANGED <<pod, call, node, mounts, daemon>>
  BY DEF FuseStartErr, podVars, hostVars
<1>2. Running = {}
  BY <1>1, Busy DEF WorkOK, WithoutProcess, NotYetMounted
<1> QED  BY <1>1, <1>2, RepliesErr

(* The FUSE process: there is no other.                                    *)
LEMMA Starts ==
  ASSUME Before, NEW h \in Handlers, FuseStart(h)
  PROVE  OrderlyParts'
<1>1. PICK d \in Daemons :
        /\ srv[h].pc = "start"
        /\ daemon' = [daemon EXCEPT ![d] = "starting"]
        /\ srv' = [srv EXCEPT ![h] = [pc |-> "mounting", cmd |-> d]]
        /\ UNCHANGED <<pod, call, node, mounts>>
  BY DEF FuseStart, Free, podVars
<1>2. Running = {} /\ ~Mounted /\ call = h /\ OthersIdle(h) /\ pod # "gone"
  BY <1>1, Busy DEF WorkOK, WithoutProcess, NotYetMounted
<1>3. node[h].pc = "wait" /\ node[h].op = "publish"
  BY <1>1, Serving DEF Mounting
<1>4. /\ srv'[h].pc = "mounting" /\ srv'[h].cmd = d
      /\ \A g \in Handlers \ {h} : srv'[g] = srv[g]
  BY <1>1, BeforeParts
<1>5. \A e \in Daemons : daemon[e] = "none"
  BY <1>2 DEF Running
<1>6. \A e \in Daemons : daemon'[e] = IF e = d THEN "starting" ELSE "none"
  BY <1>1, <1>5, BeforeParts
<1>7. OneProcess'
  <2>1. Len(mounts') <= 1
    BY <1>1, BeforeParts DEF OneProcess
  <2> QED  BY <1>1, <1>2, <1>4, <1>6, <2>1 DEF OneProcess, Running, Mounted
<1>8. WorkOK(h)'
  BY <1>1, <1>3, <1>4, Words
  DEF WorkOK, NotYetMounted, WithoutProcess, ProcessDone, Unmounting, Mounting
<1>9. OthersIdle(h)'
  BY <1>1, <1>2, <1>4 DEF OthersIdle
<1> QED  BY <1>1, <1>2, <1>7, <1>8, <1>9, AtWork

(* Success: something is mounted, so no process is only starting.          *)
LEMMA Mounts ==
  ASSUME Before, NEW h \in Handlers, WaitForMountOk(h)
  PROVE  OrderlyParts'
<1>1. /\ srv[h].pc = "mounting" /\ Mounted /\ SrvReply(h, "ok")
      /\ UNCHANGED <<pod, call, node, mounts, daemon>>
  BY DEF WaitForMountOk, Served, podVars, hostVars
<1>2. node[h].pc = "wait" /\ node[h].op = "publish"
  BY <1>1, Serving DEF Mounting
<1>3. /\ \A g \in Handlers \ {h} : srv'[g] = srv[g]
      /\ srv'[h].pc = "ok" /\ srv'[h].cmd = "exited"
  BY <1>1, <1>2, BeforeParts, ReplyPcs
<1>4. OneProcess'
  BY <1>1, BeforeParts, ProcessSame DEF OneProcess
<1>5. call = h /\ OthersIdle(h) /\ pod # "gone"
  BY <1>1, Busy
<1>6. WorkOK(h)'
  BY <1>1, <1>2, <1>3
  DEF WorkOK, NotYetMounted, WithoutProcess, ProcessDone, Unmounting, Mounting
<1>7. OthersIdle(h)'
  BY <1>1, <1>3, <1>5 DEF OthersIdle
<1> QED  BY <1>1, <1>4, <1>5, <1>6, <1>7, AtWork

(* FuseMount reports an error: no process is left.                         *)
LEMMA GivesUp ==
  ASSUME Before, NEW h \in Handlers, srv[h].pc = "mounting",
         UNCHANGED <<pod, call, node, mounts>>,
         \A g \in Handlers \ {h} : srv'[g] = srv[g],
         srv'[h].pc = "err", srv'[h].cmd = "exited",
         Running' = {}
  PROVE  OrderlyParts'
<1>1. node[h].pc = "wait" /\ node[h].op = "publish"
  BY Serving DEF Mounting
<1>2. call = h /\ OthersIdle(h) /\ pod # "gone"
  BY Busy
<1>3. OneProcess'
  BY BeforeParts DEF OneProcess, Running
<1>4. WorkOK(h)'
  BY <1>1
  DEF WorkOK, NotYetMounted, WithoutProcess, ProcessDone, Unmounting, Mounting
<1>5. OthersIdle(h)'
  BY <1>2 DEF OthersIdle
<1> QED  BY <1>2, <1>3, <1>4, <1>5, AtWork

LEMMA CommandFails ==
  ASSUME Before, NEW h \in Handlers, CommandFailed(h)
  PROVE  OrderlyParts'
<1>1. /\ srv[h].pc = "mounting" /\ srv[h].cmd = "exited"
      /\ SrvReply(h, IF Mounted THEN "ok" ELSE "err")
      /\ UNCHANGED <<pod, call, node, mounts, daemon>>
  BY DEF CommandFailed, podVars, hostVars
<1>2. ~Mounted /\ Running = {}
  BY <1>1, Busy DEF WorkOK, NotYetMounted, WithoutProcess
<1>3. node[h].pc = "wait"
  BY <1>1, Serving
<1>4. /\ \A g \in Handlers \ {h} : srv'[g] = srv[g]
      /\ srv'[h].pc = "err" /\ srv'[h].cmd = "exited"
  BY <1>1, <1>2, <1>3, BeforeParts, ReplyPcs
<1>5. Running' = {}
  BY <1>1, <1>2 DEF Running
<1> QED  BY <1>1, <1>4, <1>5, GivesUp

(* A command that mounted and is no longer served has no process.          *)
LEMMA NoneLeft ==
  ASSUME Before, NEW h \in Handlers, srv[h].pc = "mounting",
         srv[h].cmd = "running", ~Served
  PROVE  Running = {}
<1> SUFFICES ASSUME NEW d \in Daemons, daemon[d] # "none" PROVE FALSE
  BY DEF Running
<1>1. daemon[d] # "starting"
  <2> SUFFICES ASSUME daemon[d] = "starting" PROVE FALSE
    OBVIOUS
  <2>1. PICK g \in Handlers : srv[g].pc = "mounting" /\ srv[g].cmd = d
    BY BeforeParts DEF OneProcess
  <2>2. g = h
    BY <2>1, Busy, IdleFacts DEF OthersIdle
  <2> QED  BY <2>1, <2>2, Words
<1>2. daemon[d] # "detached"
  <2>1. Early
    BY Busy, Serving DEF Early, Mounting
  <2> QED  BY <2>1, BeforeParts DEF NothingUnmounts
<1>3. daemon[d] = "serving"
  BY <1>1, <1>2, BeforeParts
<1>4. HostOK /\ Len(mounts) <= 1
  BY BeforeParts DEF OneProcess
<1>5. PICK i \in DOMAIN mounts : mounts[i] = d
  BY <1>3, <1>4 DEF HostOK, TablesAgree
<1>6. i = Len(mounts) /\ Mounted /\ Top = mounts[Len(mounts)]
  BY <1>4, <1>5, MountFacts
<1> QED  BY <1>5, <1>6, Words DEF Served

(* After 30 s s3fs is killed, and rclone's child is late.                  *)
LEMMA TimesOut ==
  ASSUME Before, NEW h \in Handlers, WaitForMountTimeout(h)
  PROVE  OrderlyParts'
<1>1. /\ srv[h].pc = "mounting" /\ ~Served /\ srv[h].cmd # "exited"
      /\ UNCHANGED <<pod, call, node, mounts>>
  BY DEF WaitForMountTimeout, podVars
<1>2. node[h].pc = "wait"
  BY <1>1, Serving
<1>3. srv[h].cmd \in Daemons \cup {"running"}
  BY <1>1, BeforeParts DEF SrvType
<1>4. CASE srv[h].cmd = "running"
  <2>1. SrvReply(h, "err") /\ UNCHANGED daemon
    BY <1>4, Words DEF WaitForMountTimeout
  <2>2. /\ \A g \in Handlers \ {h} : srv'[g] = srv[g]
        /\ srv'[h].pc = "err" /\ srv'[h].cmd = "exited"
    BY <1>2, <2>1, BeforeParts, ReplyPcs
  <2>3. Running' = {}
    BY <1>1, <1>4, <2>1, NoneLeft DEF Running
  <2> QED  BY <1>1, <2>2, <2>3, GivesUp
<1>5. CASE srv[h].cmd \in Daemons
  <2>1. "slowMount" \in seen'
    BY <1>5, Words DEF WaitForMountTimeout, Fault
  <2>2. mounter = "s3fs"
    BY <2>1, BeforeParts, MounterKept, ConstantsAssumption
    DEF Before, Orderly, LateChild, PodOK
  <2>3. /\ daemon' = [daemon EXCEPT ![srv[h].cmd] = "none"]
        /\ srv' = ToldEnded(Answered(h, "err"), srv[h].cmd)
    BY <1>5, <2>2 DEF WaitForMountTimeout
  <2>4. /\ \A g \in Handlers \ {h} :
             /\ srv'[g].pc = srv[g].pc
             /\ srv'[g].cmd = IF srv[g].cmd = srv[h].cmd THEN "exited" ELSE srv[g].cmd
        /\ srv'[h].pc = "err" /\ srv'[h].cmd = "exited"
    BY <1>2, <1>5, <2>3, BeforeParts, ToldPcs
  <2>5. \A g \in Handlers \ {h} : srv'[g] = srv[g]
    <3> SUFFICES ASSUME NEW g \in Handlers \ {h} PROVE srv'[g] = srv[g]
      OBVIOUS
    <3>1. srv[g] = IdleSrv
      BY <1>1, Busy DEF OthersIdle
    <3>2. srv'[g].pc = srv[g].pc /\ srv'[g].cmd = srv[g].cmd
      BY <1>5, <2>4, <3>1, IdleFacts, Words
    <3>3. srv'[g] \in SrvType /\ srv[g] \in SrvType
      BY BeforeParts, SrvStays DEF SrvOK
    <3> QED  BY <3>2, <3>3 DEF SrvType
  <2>6. Running' = {}
    <3>1. srv[h].cmd \in Running
      BY <1>5, BeforeParts DEF CommandsAgree, Running
    <3>2. \A e \in Running : e = srv[h].cmd
      BY <3>1, BeforeParts DEF OneProcess
    <3>3. \A e \in Daemons : daemon'[e] = "none"
      BY <2>3, <3>2, BeforeParts DEF Running
    <3> QED  BY <3>3 DEF Running
  <2> QED  BY <1>1, <2>4, <2>5, <2>6, GivesUp
<1> QED  BY <1>3, <1>4, <1>5

(* FuseUnmount goes on from one of its steps to another.                   *)
LEMMA UnmountGoes ==
  ASSUME Before, NEW h \in Handlers, srv[h].pc \in Unmounting,
         UNCHANGED <<pod, call, node, mounts, daemon>>,
         \A g \in Handlers \ {h} : srv'[g] = srv[g],
         \/ srv'[h].pc \in {"unmount", "find"} /\ srv'[h].cmd = "exited"
         \/ srv'[h].pc = "process" /\ srv'[h].cmd # "exited"
         \/ srv'[h].pc = "err" /\ srv'[h].cmd = "exited"
         \/ /\ srv'[h].pc = "ok" /\ srv'[h].cmd = "exited"
            /\ Running = {} \/ "processes" \in seen'
  PROVE  OrderlyParts'
<1>1. node[h].pc = "wait" /\ node[h].op = "unpublish"
  BY Serving DEF Unmounting
<1>2. WorkOK(h)'
  BY <1>1
  DEF WorkOK, NotYetMounted, WithoutProcess, ProcessDone, Unmounting, Mounting,
      Running
<1>3. srv[h].pc # "mounting" /\ srv[h].pc # "idle"
  BY DEF Unmounting
<1> QED  BY <1>2, <1>3, Works

LEMMA LooksAndFinds ==
  ASSUME Before, NEW h \in Handlers,
         \/ IsMountpoint(h) \/ UnmountErr(h) \/ FindProcess(h)
         \/ FindNoProcess(h) \/ ProcessGone(h)
  PROVE  OrderlyParts'
<1>1. srv[h].pc \in Unmounting /\ UNCHANGED <<pod, call, node, mounts, daemon>>
  BY DEF IsMountpoint, UnmountErr, FindProcess, FindNoProcess, ProcessGone,
         Unmounting, podVars, hostVars
<1>2. node[h].pc = "wait" /\ node[h].op = "unpublish" /\ WorkOK(h)
  BY <1>1, Serving, Busy DEF Unmounting
<1>3. ASSUME SrvReply(h, "err") PROVE OrderlyParts'
  <2>1. /\ \A g \in Handlers \ {h} : srv'[g] = srv[g]
        /\ srv'[h].pc = "err" /\ srv'[h].cmd = "exited"
    BY <1>2, <1>3, BeforeParts, ReplyPcs
  <2> QED  BY <1>1, <2>1, UnmountGoes
<1>4. ASSUME SrvReply(h, "ok"), Running = {} \/ "processes" \in seen'
      PROVE  OrderlyParts'
  <2>1. /\ \A g \in Handlers \ {h} : srv'[g] = srv[g]
        /\ srv'[h].pc = "ok" /\ srv'[h].cmd = "exited"
    BY <1>2, <1>4, BeforeParts, ReplyPcs
  <2> QED  BY <1>1, <1>4, <2>1, UnmountGoes
<1>5. CASE IsMountpoint(h)
  <2>1. srv[h].cmd = "exited"
    BY <1>2, <1>5 DEF IsMountpoint, WorkOK
  <2>2. ASSUME NEW l \in {"unmount", "find"}, SrvGoto(h, l) PROVE OrderlyParts'
    <3>1. /\ \A g \in Handlers \ {h} : srv'[g] = srv[g]
          /\ srv'[h].pc = l /\ srv'[h].cmd = "exited"
      BY <2>1, <2>2, BeforeParts, GotoPcs
    <3> QED  BY <1>1, <3>1, UnmountGoes
  <2> QED  BY <1>3, <1>5, <2>2 DEF IsMountpoint
<1>6. CASE UnmountErr(h)
  BY <1>3, <1>6 DEF UnmountErr
<1>7. CASE FindProcess(h)
  <2>1. PICK d \in Daemons : srv' = [srv EXCEPT ![h] = [pc |-> "process", cmd |-> d]]
    BY <1>7 DEF FindProcess, Running
  <2>2. /\ \A g \in Handlers \ {h} : srv'[g] = srv[g]
        /\ srv'[h].pc = "process" /\ srv'[h].cmd # "exited"
    BY <2>1, BeforeParts, Words
  <2> QED  BY <1>1, <2>2, UnmountGoes
<1>8. CASE FindNoProcess(h)
  BY <1>4, <1>8 DEF FindNoProcess, Fault
<1>9. CASE ProcessGone(h)
  <2>1. Running = {} \/ "processes" \in seen
    BY <1>2, <1>9 DEF ProcessGone, WorkOK, ProcessDone
  <2>2. "processes" \in seen => "processes" \in seen'
    BY BeforeParts, SeenGrows
  <2> QED  BY <1>4, <1>9, <2>1, <2>2 DEF ProcessGone
<1> QED  BY <1>5, <1>6, <1>7, <1>8, <1>9

LEMMA Unmounts ==
  ASSUME Before, NEW h \in Handlers, Unmount(h)
  PROVE  OrderlyParts'
<1>1. /\ srv[h].pc = "unmount" /\ Mounted /\ SrvGoto(h, "find")
      /\ UNCHANGED <<pod, call, node>>
  BY DEF Unmount, podVars
<1>2. /\ call = h /\ OthersIdle(h) /\ pod # "gone" /\ srv[h].cmd = "exited"
      /\ node[h].pc = "wait" /\ node[h].op = "unpublish"
  BY <1>1, Busy, Serving DEF WorkOK, Unmounting
<1>3. /\ \A g \in Handlers \ {h} : srv'[g] = srv[g]
      /\ srv'[h].pc = "find" /\ srv'[h].cmd = "exited"
  BY <1>1, <1>2, BeforeParts, GotoPcs
<1>4. \A g \in Handlers : srv[g].pc # "mounting"
  BY <1>1, <1>2, IdleFacts DEF OthersIdle
<1>5. \A d \in Daemons : daemon[d] # "starting"
  BY <1>4, NoneStarting
<1>6. /\ Len(mounts') = Len(mounts) - 1
      /\ \A e \in Daemons :
           \/ daemon'[e] = daemon[e]
           \/ daemon[e] = "serving" /\ daemon'[e] = "detached"
  <2>1. /\ mounts' = SubSeq(mounts, 1, Len(mounts) - 1)
        /\ daemon' = IF Top = "broken" THEN daemon
                     ELSE [daemon EXCEPT ![Top] = "detached"]
        /\ UNCHANGED dir /\ Mounted /\ HostOK
    BY <1>1, BeforeParts DEF Unmount
  <2>2. /\ mounts' \in Seq(Daemons \cup {"broken"})
        /\ Len(mounts') = Len(mounts) - 1
        /\ \A i \in 1..(Len(mounts) - 1) : mounts'[i] = mounts[i]
    BY <2>1, BelowTop, Zenon
  <2> HIDE <2>1
  <2> QED  BY <2>1, <2>2, HostUnmounts, Zenon
<1>7. Len(mounts') <= 1
  <2>1. Len(mounts) \in Nat /\ Len(mounts) <= 1
    BY BeforeParts, MountFacts DEF OneProcess
  <2> QED  BY <1>6, <2>1
<1>8. OneProcess'
  BY <1>5, <1>6, <1>7, BeforeParts DEF OneProcess, Running
<1>9. WorkOK(h)'
  BY <1>1, <1>2, <1>3
  DEF WorkOK, NotYetMounted, WithoutProcess, ProcessDone, Unmounting, Mounting
<1>10. OthersIdle(h)'
  BY <1>1, <1>2, <1>3 DEF OthersIdle
<1> QED  BY <1>1, <1>2, <1>8, <1>9, <1>10, AtWork

(* The process that is killed is the only one.                             *)
LEMMA LastOne ==
  ASSUME Before, NEW d \in Daemons, daemon[d] # "none",
         \A e \in Daemons : daemon'[e] = IF e = d THEN "none" ELSE daemon[e]
  PROVE  Running' = {} /\ \A e \in Daemons : daemon'[e] # "starting"
<1>1. \A e \in Running : e = d
  BY BeforeParts DEF OneProcess, Running
<1>2. \A e \in Daemons : daemon'[e] = "none"
  BY <1>1 DEF Running
<1> QED  BY <1>2 DEF Running

LEMMA Kills ==
  ASSUME Before, NEW h \in Handlers, ProcessKill(h)
  PROVE  OrderlyParts'
<1>1. /\ srv[h].pc = "process" /\ srv[h].cmd \in Daemons /\ Ended(srv[h].cmd)
      /\ srv' = ToldEnded(Answered(h, "ok"), srv[h].cmd)
      /\ UNCHANGED <<pod, call, node, dir>>
  BY DEF ProcessKill, podVars
<1>2. /\ call = h /\ OthersIdle(h) /\ pod # "gone"
      /\ node[h].pc = "wait" /\ node[h].op = "unpublish"
  BY <1>1, Busy, Serving DEF Unmounting
<1>3. /\ Len(mounts') = Len(mounts)
      /\ \A e \in Daemons : daemon'[e] = IF e = srv[h].cmd THEN "none" ELSE daemon[e]
  BY <1>1, BeforeParts, HostEnded
<1>4. daemon[srv[h].cmd] # "none"
  BY <1>1, BeforeParts DEF CommandsAgree
<1>5. Running' = {} /\ \A e \in Daemons : daemon'[e] # "starting"
  BY <1>1, <1>3, <1>4, LastOne
<1>6. OneProcess'
  BY <1>3, <1>5, BeforeParts DEF OneProcess
<1>7. /\ \A g \in Handlers \ {h} :
           /\ srv'[g].pc = srv[g].pc
           /\ srv'[g].cmd = IF srv[g].cmd = srv[h].cmd THEN "exited" ELSE srv[g].cmd
      /\ srv'[h].pc = "ok" /\ srv'[h].cmd = "exited"
  BY <1>1, <1>2, BeforeParts, ToldPcs
<1>8. OthersIdle(h)'
  <2> SUFFICES ASSUME NEW g \in Handlers \ {h}
               PROVE  node'[g] = IdleNode /\ srv'[g] = IdleSrv
    BY DEF OthersIdle
  <2>1. srv[g] = IdleSrv /\ node'[g] = IdleNode
    BY <1>1, <1>2 DEF OthersIdle
  <2>2. srv'[g].pc = "idle" /\ srv'[g].cmd = "exited"
    BY <1>1, <1>7, <2>1, IdleFacts, Words
  <2>3. srv'[g] \in SrvType
    BY BeforeParts, SrvStays DEF SrvOK
  <2> QED  BY <2>1, <2>2, <2>3 DEF SrvType, IdleSrv
<1>9. WorkOK(h)'
  BY <1>1, <1>2, <1>5, <1>7
  DEF WorkOK, NotYetMounted, WithoutProcess, ProcessDone, Unmounting, Mounting
<1> QED  BY <1>1, <1>2, <1>6, <1>8, <1>9, AtWork

-----------------------------------------------------------------------------
(***************************************************************************)
(* The FUSE processes.                                                     *)
(***************************************************************************)

(* A process that mounts or ends changes no goroutine but the one that     *)
(* waits for it.                                                           *)
LEMMA MountsOnPath ==
  ASSUME Before, NEW d \in Daemons, DaemonMount(d)
  PROVE  OrderlyParts'
<1>1. /\ daemon[d] = "starting" /\ dir /\ UNCHANGED <<pod, call, node, seen, dir>>
      /\ mounts' = Append(mounts, d) /\ daemon' = [daemon EXCEPT ![d] = "serving"]
      /\ srv' = [g \in Handlers |->
           IF srv[g].pc = "mounting" /\ srv[g].cmd = d
           THEN [srv[g] EXCEPT !.cmd = "running"] ELSE srv[g]]
  BY DEF DaemonMount, podVars, faultVars
<1>2. PICK h \in Handlers : srv[h].pc = "mounting" /\ srv[h].cmd = d
  BY <1>1, BeforeParts DEF OneProcess
<1>3. /\ call = h /\ OthersIdle(h) /\ pod # "gone"
      /\ node[h].pc = "wait" /\ node[h].op = "publish"
  BY <1>2, Busy, Serving DEF Mounting
<1>4. ~Mounted
  BY <1>1, BeforeParts DEF OneProcess
<1>5. /\ Len(mounts') = Len(mounts) + 1
      /\ \A e \in Daemons : daemon'[e] = IF e = d THEN "serving" ELSE daemon[e]
  BY <1>1, BeforeParts, HostMounts
<1>6. Len(mounts') <= 1
  BY <1>4, <1>5, BeforeParts, MountFacts
<1>7. \A e \in Running : e = d
  BY <1>1, BeforeParts DEF OneProcess, Running
<1>8. OneProcess'
  BY <1>5, <1>6, <1>7, BeforeParts DEF OneProcess, Running
<1>9. srv'[h].pc = "mounting" /\ srv'[h].cmd = "running"
  <2>1. srv[h] \in SrvType
    BY BeforeParts
  <2>2. srv'[h] = [srv[h] EXCEPT !.cmd = "running"]
    BY <1>1, <1>2
  <2> QED  BY <1>2, <2>1, <2>2 DEF SrvType
<1>10. WorkOK(h)'
  BY <1>1, <1>3, <1>9
  DEF WorkOK, NotYetMounted, WithoutProcess, ProcessDone, Unmounting, Mounting
<1>11. OthersIdle(h)'
  BY <1>1, <1>3, IdleFacts DEF OthersIdle
<1> QED  BY <1>1, <1>3, <1>8, <1>10, <1>11, AtWork

(* The only process ends.                                                  *)
LEMMA ProcessEnds ==
  ASSUME Before, NEW d \in Daemons, daemon[d] # "none",
         \A e \in Daemons : daemon'[e] = IF e = d THEN "none" ELSE daemon[e],
         srv' = ToldEnded(srv, d), UNCHANGED <<pod, call, node, cred>>,
         Len(mounts') = Len(mounts), Mounted' <=> Mounted,
         daemon[d] = "starting" => ~Mounted
  PROVE  OrderlyParts'
<1>1. Running' = {} /\ \A e \in Daemons : daemon'[e] # "starting"
  BY LastOne
<1>2. OneProcess'
  BY <1>1, BeforeParts DEF OneProcess
<1>3. \A g \in Handlers :
        /\ srv'[g].pc = srv[g].pc
        /\ srv'[g].cmd = IF srv[g].cmd = d THEN "exited" ELSE srv[g].cmd
        /\ srv'[g] \in SrvType
  BY BeforeParts, ToldEndedView DEF SrvOK
<1>4. ASSUME NEW g \in Handlers, srv[g] = IdleSrv PROVE srv'[g] = IdleSrv
  <2>1. srv'[g].pc = "idle" /\ srv'[g].cmd = "exited"
    BY <1>3, <1>4, IdleFacts, Words
  <2> QED  BY <1>3, <2>1 DEF SrvType, IdleSrv
<1>5. \A g \in Handlers :
        /\ g # call' => node'[g] = IdleNode /\ srv'[g] = IdleSrv
        /\ srv'[g].pc # "idle" => node'[g].pc = "wait"
        /\ node'[g].op = "publish" => srv'[g].pc \notin Unmounting
        /\ node'[g].op = "unpublish" => srv'[g].pc \notin Mounting
        /\ srv'[g].pc \notin {"mounting", "process"} => srv'[g].cmd = "exited"
  BY <1>3, <1>4, BeforeParts DEF OneCall
<1>6. OneCall'
  BY <1>5 DEF OneCall
<1>7. ASSUME NEW g \in Handlers, NotYetMounted(g)' PROVE ~Mounted'
  <2>1. CASE NotYetMounted(g)
    BY <2>1, BeforeParts DEF ProcessesAgree
  <2>2. CASE ~NotYetMounted(g)
    <3>1. srv[g].pc = "mounting" /\ srv[g].cmd = d
      BY <1>3, <1>7, <2>2 DEF NotYetMounted
    <3>2. daemon[d] = "starting"
      BY <3>1, BeforeParts DEF CommandsAgree
    <3> QED  BY <3>2
  <2> QED  BY <2>1, <2>2
<1>8. ProcessesAgree'
  BY <1>1, <1>7 DEF ProcessesAgree
<1>9. GoneInv'
  BY <1>1, BeforeParts, SeenGrows DEF GoneInv
<1> QED  BY <1>2, <1>6, <1>8, <1>9 DEF OrderlyParts

LEMMA Dies ==
  ASSUME Before, NEW d \in Daemons, DaemonFail(d) \/ DaemonExit(d) \/ DaemonCrash(d)
  PROVE  OrderlyParts'
<1>1. /\ daemon[d] # "none" /\ srv' = ToldEnded(srv, d)
      /\ UNCHANGED <<pod, call, node, cred>>
  BY DEF DaemonFail, DaemonExit, DaemonCrash, podVars
<1>2. daemon[d] = "starting" => ~Mounted
  BY BeforeParts DEF OneProcess
<1>3. CASE DaemonFail(d) \/ DaemonExit(d)
  <2>1. daemon' = [daemon EXCEPT ![d] = "none"] /\ UNCHANGED mounts
    BY <1>3 DEF DaemonFail, DaemonExit
  <2>2. \A e \in Daemons : daemon'[e] = IF e = d THEN "none" ELSE daemon[e]
    BY <2>1, BeforeParts
  <2> QED  BY <1>1, <1>2, <2>1, <2>2, ProcessEnds DEF Mounted
<1>4. CASE DaemonCrash(d)
  <2>1. /\ Len(mounts') = Len(mounts) /\ (Mounted' <=> Mounted)
        /\ \A e \in Daemons : daemon'[e] = IF e = d THEN "none" ELSE daemon[e]
    BY <1>4, BeforeParts, HostEnded DEF DaemonCrash
  <2> QED  BY <1>1, <1>2, <2>1, ProcessEnds
<1> QED  BY <1>3, <1>4

-----------------------------------------------------------------------------
(***************************************************************************)
(* The kubelet, the user, restarts.                                        *)
(***************************************************************************)
LEMMA OrderlyOthers ==
  ASSUME Before, Others \/ UNCHANGED vars
  PROVE  OrderlyParts'
<1>0. Orderly' /\ ~Timeout /\ ~PluginCrash /\ ~ServiceCrash /\ ~handleSignals
  BY DEF Before, Orderly, Overlap, Timeout, PluginCrash, ServiceCrash, handleSignals,
     Fault
<1>1. UNCHANGED <<call, mounts, daemon, cred, node, srv>>
  BY <1>0, OthersView
  DEF Others, NodeUnpublishReject, PluginUnavailable, DeletePod, PluginStart,
      PluginStartErr, ServeErr, ServiceRestart, ServiceRestartErr, RotateSecret,
      podVars, hostVars, vars
<1>2. /\ pod' = "gone" => pod = "gone"
      /\ pod' \in {"starting", "uncertain", "failed"} =>
           pod \in {"starting", "uncertain", "failed"}
  BY <1>0
  DEF Others, NodeUnpublishReject, PluginUnavailable, DeletePod, PluginStart,
      PluginStartErr, ServeErr, ServiceRestart, ServiceRestartErr, RotateSecret,
      podVars, vars
<1>3. OneCall' /\ OneProcess'
  BY <1>1, BeforeParts DEF OneCall, OneProcess, Running, Mounted
<1>4. seen \subseteq seen'
  BY BeforeParts, SeenGrows
<1>5. ProcessesAgree'
  BY <1>1, <1>2, <1>4, BeforeParts
  DEF ProcessesAgree, Running, Mounted, NotYetMounted, WithoutProcess, ProcessDone
<1>6. GoneInv'
  BY <1>1, <1>2, <1>4, BeforeParts DEF GoneInv, Running, Mounted
<1> QED  BY <1>3, <1>5, <1>6 DEF OrderlyParts

LEMMA OrderlyStep ==
  ASSUME TypeOK, ServedInv, OrderlyInv, [Next]_vars
  PROVE  OrderlyInv'
<1> SUFFICES ASSUME Orderly' PROVE OrderlyParts'
  BY DEF OrderlyInv, OrderlyParts
<1>1. Before
  BY OrderlyBefore DEF Before, OrderlyInv, OrderlyParts
<1>2. ASSUME NEW h \in Handlers, HostSteps(h) PROVE OrderlyParts'
  BY <1>1, <1>2, Starts, TimesOut, Unmounts, Kills DEF HostSteps
<1>3. ASSUME NEW h \in Handlers, SrvOnly(h) PROVE OrderlyParts'
  BY <1>1, <1>3, Validates, StartFails, Mounts, CommandFails, LooksAndFinds
  DEF SrvOnly
<1>4. ASSUME NEW h \in Handlers, MounterRequestTimeout(h) PROVE FALSE
  BY <1>1, <1>4, Busy DEF MounterRequestTimeout
<1>5. ASSUME NEW h \in Handlers,
             \/ Errors(h) \/ NodePublishVolume(h) \/ NodeUnpublishVolume(h)
             \/ CheckMountOk(h) \/ WriteConfig(h) \/ MounterRequest(h)
             \/ PublishReply(h) \/ UnpublishAnswered(h) \/ UnpublishReply(h)
      PROVE  OrderlyParts'
  BY <1>1, <1>5, Fails, StartsCall, Checks, Writes, Posts, Succeeds, Unpublished, Goes
<1>6. ASSUME NEW d \in Daemons,
             DaemonMount(d) \/ DaemonFail(d) \/ DaemonExit(d) \/ DaemonCrash(d)
      PROVE  OrderlyParts'
  BY <1>1, <1>6, MountsOnPath, Dies
<1>7. CASE Others \/ UNCHANGED vars
  BY <1>1, <1>7, OrderlyOthers
<1> QED  BY <1>2, <1>3, <1>4, <1>5, <1>6, <1>7, StepCases

LEMMA OrderlyInit ==
  ASSUME Init
  PROVE  OrderlyInv
<1>1. Len(mounts) = 0 /\ ~Mounted
  BY EmptySeq DEF Init, Mounted
<1>2. Running = {}
  BY DEF Init, Running
<1>3. AllIdle
  BY DEF Init, AllIdle
<1>4. OneProcess /\ GoneInv
  BY <1>1, <1>2 DEF Init, OneProcess, GoneInv
<1>5. OneCall
  BY <1>3, IdleFacts DEF AllIdle, OneCall, Unmounting, Mounting
<1>6. ProcessesAgree
  BY <1>1, <1>2 DEF ProcessesAgree
<1> QED  BY <1>4, <1>5, <1>6 DEF OrderlyInv

(* rclone mounts on a free path only.                                      *)
LEMMA RcloneStep ==
  ASSUME TypeOK, PathInv, RcloneMountsOnce, [Next]_vars
  PROVE  RcloneMountsOnce'
<1>0. HostOK /\ mounter' = mounter
  BY TypeParts, MounterKept
<1>1. CASE UNCHANGED mounts
  BY <1>0, <1>1 DEF RcloneMountsOnce
<1>2. CASE Len(mounts') = Len(mounts)
  BY <1>0, <1>2 DEF RcloneMountsOnce
<1>3. ASSUME NEW h \in Handlers, HostSteps(h) PROVE RcloneMountsOnce'
  <2>1. CASE FuseStart(h) \/ WaitForMountTimeout(h)
    BY <1>1, <2>1 DEF FuseStart, WaitForMountTimeout
  <2>2. CASE Unmount(h)
    <3>1. Mounted /\ mounts' = SubSeq(mounts, 1, Len(mounts) - 1)
      BY <2>2 DEF Unmount
    <3>2. Len(mounts') = Len(mounts) - 1
      BY <1>0, <3>1, BelowTop, Zenon
    <3>3. Len(mounts) \in Nat
      BY <1>0, MountFacts
    <3> HIDE <3>1
    <3> QED  BY <1>0, <3>2, <3>3 DEF RcloneMountsOnce
  <2>3. CASE ProcessKill(h)
    BY <1>0, <1>2, <2>3, HostEnded DEF ProcessKill
  <2> QED  BY <1>3, <2>1, <2>2, <2>3 DEF HostSteps
<1>4. ASSUME NEW h \in Handlers, Errors(h) \/ SrvOnly(h) PROVE UNCHANGED mounts
  BY <1>4, ErrorsView, SrvOnlyView DEF hostVars
<1>5. ASSUME NEW h \in Handlers,
             \/ NodePublishVolume(h) \/ NodeUnpublishVolume(h)
             \/ CheckMountOk(h) \/ WriteConfig(h) \/ MounterRequest(h)
             \/ MounterRequestTimeout(h) \/ PublishReply(h)
             \/ UnpublishAnswered(h) \/ UnpublishReply(h)
      PROVE  UNCHANGED mounts
  BY <1>5
  DEF NodePublishVolume, NodeUnpublishVolume, CheckMountOk, WriteConfig,
      MounterRequest, MounterRequestTimeout, PublishReply, UnpublishAnswered,
      UnpublishReply, hostVars
<1>6. ASSUME NEW d \in Daemons, DaemonMount(d) PROVE RcloneMountsOnce'
  <2>1. Len(mounts') = Len(mounts) + 1
    BY <1>0, <1>6, HostMounts DEF DaemonMount
  <2>2. mounter = "rclone" => Len(mounts) = 0
    BY <1>0, <1>6, MountFacts DEF DaemonMount
  <2> QED  BY <1>0, <2>1, <2>2 DEF RcloneMountsOnce
<1>7. ASSUME NEW d \in Daemons, DaemonFail(d) \/ DaemonExit(d)
      PROVE  UNCHANGED mounts
  BY <1>7 DEF DaemonFail, DaemonExit
<1>8. ASSUME NEW d \in Daemons, DaemonCrash(d) PROVE Len(mounts') = Len(mounts)
  BY <1>0, <1>8, HostEnded DEF DaemonCrash
<1>9. CASE Others \/ UNCHANGED vars
  BY <1>1, <1>9, OthersView DEF hostVars, vars
<1> QED
  BY <1>1, <1>2, <1>3, <1>4, <1>5, <1>6, <1>7, <1>8, <1>9, StepCases

LEMMA OrderlyAlways ==
  Spec => [](TypeOK /\ ServedInv /\ OrderlyInv /\ RcloneMountsOnce)
<1>1. Init => OrderlyInv /\ RcloneMountsOnce
  <2> SUFFICES ASSUME Init PROVE OrderlyInv /\ RcloneMountsOnce
    OBVIOUS
  <2>1. Len(mounts) = 0
    BY EmptySeq DEF Init
  <2> QED  BY <2>1, OrderlyInit DEF RcloneMountsOnce
<1>2. TypeOK /\ ServedInv /\ OrderlyInv /\ RcloneMountsOnce /\ [Next]_vars
        => (OrderlyInv /\ RcloneMountsOnce)'
  BY OrderlyStep, RcloneStep DEF ServedInv
<1> QED  BY <1>1, <1>2, ServedAlways, PTL DEF Spec

-----------------------------------------------------------------------------
(* At most one mount is on the path, unless a call was repeated while or   *)
(* after the first one ran on unobserved, for s3fs, which mounts over an   *)
(* earlier mount, as for rclone, which never does.                         *)
THEOREM MountsNotStacked == Spec => []NoStackedMount
<1>1. OrderlyInv /\ RcloneMountsOnce => NoStackedMount
  <2> SUFFICES ASSUME OrderlyInv, RcloneMountsOnce, seen \cap Overlap = {},
                      Len(mounts) > 1
               PROVE  FALSE
    BY DEF NoStackedMount
  <2>1. CASE LateChild
    <3>1. Len(mounts) <= 1
      BY <2>1 DEF LateChild, RcloneMountsOnce
    <3>2. Len(mounts) > 1
      OBVIOUS
    <3> QED  BY <3>1, <3>2
  <2>2. CASE ~LateChild
    BY <2>2 DEF OrderlyInv, Orderly, OneProcess
  <2> QED  BY <2>1, <2>2
<1> QED  BY <1>1, OrderlyAlways, PTL

(* A pod that is gone leaves no mount, no FUSE process and no credential   *)
(* file behind, unless calls overlapped, an rclone child was late, or the  *)
(* host would not remove the file or list the processes.                   *)
THEOREM GonePodLeavesNothing == Spec => []GonePodIsClean
<1>1. TypeOK /\ ServedInv /\ OrderlyInv => GonePodIsClean
  <2> SUFFICES ASSUME TypeOK, ServedInv, OrderlyInv, Orderly, pod = "gone"
               PROVE  /\ ~Mounted
                      /\ Running = {} \/ "processes" \in seen
                      /\ \A d \in Running : daemon[d] = "detached"
                      /\ cred = NoCred \/ "remove" \in seen
    BY DEF GonePodIsClean, Orderly
  <2>1. /\ ~Mounted /\ (Running = {} \/ "processes" \in seen)
        /\ cred = NoCred \/ "remove" \in seen
    BY DEF OrderlyInv, GoneInv
  <2>2. HostOK /\ OneCall /\ OneProcess /\ CallServes
    BY TypeParts DEF OrderlyInv, ServedInv
  <2>3. ASSUME NEW d \in Running PROVE daemon[d] = "detached"
    <3>1. daemon[d] # "serving"
      BY <2>1, <2>2, MountFacts DEF HostOK, TablesAgree, Running
    <3>2. daemon[d] # "starting"
      <4> SUFFICES ASSUME daemon[d] = "starting" PROVE FALSE
        OBVIOUS
      <4>1. PICK h \in Handlers : srv[h].pc = "mounting"
        BY <2>2 DEF OneProcess, Running
      <4>2. call = h
        BY <2>2, <4>1, IdleFacts DEF OneCall
      <4> QED  BY <2>2, <4>2, Words DEF CallServes
    <3> QED  BY <2>2, <3>1, <3>2 DEF HostOK, Running
  <2> QED  BY <2>1, <2>3
<1> QED  BY <1>1, OrderlyAlways, PTL

(* A pod whose NodePublishVolume failed for good has no live mount and no  *)
(* FUSE process on the node, unless calls overlapped or an rclone child    *)
(* was late.                                                               *)
THEOREM FailedPodLeavesNothing == Spec => []FailedPodIsUnmounted
<1>1. TypeOK /\ ServedInv /\ OrderlyInv => FailedPodIsUnmounted
  <2> SUFFICES ASSUME TypeOK, ServedInv, OrderlyInv, Orderly, pod = "failed"
               PROVE  ~Served /\ Running = {}
    BY DEF FailedPodIsUnmounted, Orderly
  <2>1. HostOK /\ CallServes /\ ProcessesAgree
    BY TypeParts DEF OrderlyInv, ServedInv
  <2>2. Running = {}
    BY <2>1 DEF CallServes, ProcessesAgree
  <2>3. ~Served
    <3> SUFFICES ASSUME Served PROVE FALSE
      OBVIOUS
    <3>1. /\ DOMAIN mounts = 1..Len(mounts) /\ Len(mounts) \in 1..Len(mounts)
          /\ Top = mounts[Len(mounts)] /\ Top \in Daemons \cup {"broken"}
      BY <2>1, MountFacts DEF Served
    <3>2. Top \in Daemons /\ daemon[Top] = "serving"
      BY <2>1, <3>1 DEF Served, HostOK, TablesAgree
    <3> QED  BY <2>2, <3>2 DEF Running
  <2> QED  BY <2>2, <2>3
<1> QED  BY <1>1, OrderlyAlways, PTL
=============================================================================
