----------------------------- MODULE NodeServer -----------------------------
(***************************************************************************)
(* The node side of the driver for one target path: NodePublishVolume and  *)
(* NodeUnpublishVolume (pkg/driver/nodeserver.go), the mounter that writes *)
(* the credential file and posts to the host (pkg/mounter), and the        *)
(* cos-csi-mounter service on the host that starts and stops the FUSE      *)
(* process (cos-csi-mounter/server, pkg/mounter/utils).                    *)
(*                                                                         *)
(* A handler h is a goroutine of the node plugin, node[h], and the         *)
(* goroutine of the host service that serves the one HTTP request it       *)
(* sends, srv[h].  Neither side notices when the other one is gone: the    *)
(* plugin ignores the context of the call, the service that of the HTTP    *)
(* request.  Target paths of different pods are disjoint, so one path      *)
(* shows every interaction.                                                *)
(*                                                                         *)
(* External parties are modelled from the way the driver uses them: the    *)
(* kubelet, the mount table and process table of the host, and the FUSE    *)
(* processes s3fs and rclone.                                              *)
(***************************************************************************)
EXTENDS Naturals, Sequences, FiniteSets

CONSTANTS
  Handlers,      \* goroutines available to serve requests
  Daemons,       \* FUSE processes
  Keys,          \* access keys a secret may hold
  GoodKeys,      \* the ones the bucket accepts
  KeyLen,        \* length of AccessKeys, for each key
  Mounters,      \* the mounters a PV may name, of "s3fs" and "rclone"
  Faults,        \* kinds of fault that may happen
  NoHandler, NoKey,
  MaxFaults      \* bound on the number of faults of a behaviour

(***************************************************************************)
(* A fault is a call that fails although the state of the system would let *)
(* it succeed, or a caller or process that goes away.                      *)
(***************************************************************************)
FaultKind ==
  {"lookup",        \* reading the PV fails
   "mkdir",         \* the target directory cannot be made
   "config",        \* the credential file cannot be written
   "start",         \* the FUSE command cannot be started
   "mountFail",     \* the FUSE process gives up although it could mount
   "slowMount",     \* no mount within FuseMount's 30 s
   "unmount",       \* all three unmount attempts fail
   "processes",     \* the process table cannot be read
   "slowExit",      \* a process does not exit within 60 s of its unmount
   "remove",        \* the credential file cannot be removed
   "timeout",       \* the kubelet gives up after 120 s
   "pluginCrash",   \* the node plugin dies
   "setup",         \* the node plugin cannot set up its server
   "serve",         \* the gRPC server of the node plugin stops serving
   "serviceCrash",  \* the host service dies or its server fails
   "socket",        \* the host service cannot listen on its socket
   "signal",        \* the host service is told to end
   "daemonCrash",   \* a FUSE process dies
   "rotate"}        \* the user changes the key in the secret

ASSUME ConstantsAssumption ==
  /\ NoHandler \notin Handlers
  /\ NoKey \notin Keys
  /\ GoodKeys \subseteq Keys
  /\ KeyLen \in [Keys -> Nat \ {0}]
  /\ Mounters \subseteq {"s3fs", "rclone"}
  /\ Faults \subseteq FaultKind
  /\ Daemons \cap {"broken", "running", "exited"} = {}
  /\ MaxFaults \in Nat

VARIABLES
  \* the kubelet
  pod,       \* "starting" | "uncertain" | "running" | "stopping" | "gone" | "failed"
  call,      \* the handler whose answer it awaits
  secret,    \* the key in the secret
  mounter,   \* the mounter named in the PV
  \* the host
  dir,       \* the target directory exists
  mounts,    \* what is mounted on it, the topmost last
  daemon,    \* "none" | "starting" | "serving" | "detached"
  cred,      \* the credential file
  \* the driver
  node,      \* goroutines of the node plugin
  srv,       \* goroutines of the host service
  plugin,    \* "serving" | "down" | "hung", the node plugin
  service,   \* "serving" | "down" | "stopped", the host service
  \* observation only
  seen,      \* kinds of fault that have happened
  budget     \* how many more faults may happen

faultVars == <<seen, budget>>
k8sVars == <<secret, mounter>>
podVars == <<pod, call, k8sVars>>
procVars == <<plugin, service>>
hostVars == <<dir, mounts, daemon>>
vars == <<podVars, hostVars, cred, node, srv, procVars, faultVars>>

-----------------------------------------------------------------------------
(***************************************************************************)
(* State.  The entry of a mount whose process is dead is "broken".  cmd is *)
(* the command FuseMount waits for, or the process FuseUnmount waits for:  *)
(* a daemon, "running" when a daemon has mounted and its command returned, *)
(* "exited" when the daemon is gone.                                       *)
(***************************************************************************)
NoCred == [key |-> NoKey, len |-> 0]
IdleNode == [pc |-> "idle", op |-> "none", key |-> NoKey]
IdleSrv == [pc |-> "idle", cmd |-> "exited"]

NodeType ==
  [pc : {"idle", "check", "config", "post", "wait", "remove"},
   op : {"none", "publish", "unpublish"},
   key : Keys \cup {NoKey}]

SrvType ==
  [pc : {"idle", "validate", "start", "mounting", "isMountpoint", "unmount",
         "find", "process", "ok", "err"},
   cmd : Daemons \cup {"running", "exited"}]

Init ==
  /\ pod = "starting"
  /\ call = NoHandler
  /\ secret \in Keys
  /\ mounter \in Mounters
  /\ dir = FALSE
  /\ mounts = <<>>
  /\ daemon = [d \in Daemons |-> "none"]
  /\ cred = NoCred
  /\ node = [h \in Handlers |-> IdleNode]
  /\ srv = [h \in Handlers |-> IdleSrv]
  /\ plugin = "serving"
  /\ service = "serving"
  /\ seen = {}
  /\ budget = MaxFaults

-----------------------------------------------------------------------------
(***************************************************************************)
(* Shorthands.                                                             *)
(***************************************************************************)
NoFault == UNCHANGED faultVars

Fault(k) ==
  /\ k \in Faults
  /\ budget > 0
  /\ budget' = budget - 1
  /\ seen' = seen \cup {k}

Mounted == mounts # <<>>
Top == mounts[Len(mounts)]
Served == Mounted /\ Top # "broken"

NodeGoto(h, label) == node' = [node EXCEPT ![h].pc = label]
SrvGoto(h, label) == srv' = [srv EXCEPT ![h].pc = label]

(* The service answers the plugin, if it still waits.                      *)
Answered(h, result) ==
  [srv EXCEPT ![h] =
    IF node[h].pc = "wait" THEN [IdleSrv EXCEPT !.pc = result] ELSE IdleSrv]

SrvReply(h, result) == srv' = Answered(h, result)

(* Whoever waits for process d finds out that it has ended.                *)
ToldEnded(s, d) ==
  [g \in Handlers |-> IF s[g].cmd = d THEN [s[g] EXCEPT !.cmd = "exited"] ELSE s[g]]

(* The kubelet sees a final error: it removes the directory unless         *)
(* something is mounted on it, and tries again.                            *)
ReturnError(h) ==
  /\ node' = [node EXCEPT ![h] = IdleNode]
  /\ IF call = h
     THEN /\ call' = NoHandler
          /\ pod' = IF pod = "uncertain" THEN "starting" ELSE pod
          /\ dir' = (dir /\ (Mounted \/ node[h].op = "unpublish"))
     ELSE UNCHANGED <<call, pod, dir>>
  /\ UNCHANGED k8sVars

-----------------------------------------------------------------------------
(***************************************************************************)
(* NodePublishVolume.                                                      *)
(***************************************************************************)
NodePublishVolume(h) ==
  /\ pod \in {"starting", "uncertain"}
  /\ call = NoHandler
  /\ plugin = "serving"
  /\ node[h] = IdleNode /\ srv[h] = IdleSrv
  /\ node' = [node EXCEPT ![h] = [pc |-> "check", op |-> "publish", key |-> secret]]
  /\ call' = h
  /\ UNCHANGED <<pod, k8sVars, hostVars, cred, srv, procVars, faultVars>>

(* CheckMount: the path is a mountpoint, or is created.                    *)
CheckMountOk(h) ==
  /\ node[h].pc = "check"
  /\ dir => Served
  /\ dir' = TRUE
  /\ NodeGoto(h, "config")
  /\ UNCHANGED <<podVars, mounts, daemon, cred, srv, procVars, faultVars>>

(* A directory without a mount, and a broken mount, are errors.            *)
CheckMountErr(h) ==
  /\ node[h].pc = "check"
  /\ \/ dir /\ ~Served /\ NoFault
     \/ ~dir /\ Fault("mkdir")
  /\ ReturnError(h)
  /\ UNCHANGED <<mounts, daemon, cred, srv, procVars>>

(* The password file of s3fs is opened without truncation, so a shorter    *)
(* key leaves the end of a longer one.                                     *)
writePass(key) ==
  [key |-> key, len |-> IF cred.len > KeyLen[key] THEN cred.len ELSE KeyLen[key]]

(* Mutant: the file is written over, not truncated. *)
createConfig_NoTruncate(key) ==
  [key |-> key, len |-> IF cred.len > KeyLen[key] THEN cred.len ELSE KeyLen[key]]

(* The config file of rclone is truncated by os.Create.                    *)
createConfig(key) == [key |-> key, len |-> KeyLen[key]]

(* What the credential file holds after the Mount of either mounter.       *)
Written(key) == IF mounter = "s3fs" THEN writePass(key) ELSE createConfig(key)

(* The lookup of the bucket name and the credential file.                  *)
WriteConfig(h) ==
  /\ node[h].pc = "config"
  /\ cred' = Written(node[h].key)
  /\ NodeGoto(h, "post")
  /\ UNCHANGED <<podVars, hostVars, srv, procVars, faultVars>>

WriteConfigErr(h) ==
  /\ node[h].pc = "config"
  /\ Fault("lookup") \/ Fault("config")
  /\ ReturnError(h)
  /\ UNCHANGED <<mounts, daemon, cred, srv, procVars>>

(* createCOSCSIMounterRequest reaches the service.                         *)
MounterRequest(h) ==
  /\ node[h].pc = "post"
  /\ service = "serving"
  /\ NodeGoto(h, "wait")
  /\ SrvGoto(h, IF node[h].op = "publish" THEN "validate" ELSE "isMountpoint")
  /\ UNCHANGED <<podVars, hostVars, cred, procVars, faultVars>>

MounterRequestErr(h) ==
  /\ node[h].pc = "post"
  /\ service # "serving"
  /\ ReturnError(h)
  /\ UNCHANGED <<mounts, daemon, cred, srv, procVars, faultVars>>

(* The HTTP client gives up after 180 s, 60 s after the kubelet did.       *)
MounterRequestTimeout(h) ==
  /\ node[h].pc = "wait"
  /\ call # h
  /\ srv[h].pc \notin {"ok", "err"}
  /\ node' = [node EXCEPT ![h] = IdleNode]
  /\ UNCHANGED <<podVars, hostVars, cred, srv, procVars, faultVars>>

PublishReply(h) ==
  /\ node[h].pc = "wait" /\ node[h].op = "publish"
  /\ srv[h].pc = "ok"
  /\ srv' = [srv EXCEPT ![h] = IdleSrv]
  /\ node' = [node EXCEPT ![h] = IdleNode]
  /\ IF call = h
     THEN call' = NoHandler /\ pod' = "running"
     ELSE UNCHANGED <<call, pod>>
  /\ UNCHANGED <<k8sVars, hostVars, cred, procVars, faultVars>>

ErrorReply(h) ==
  /\ node[h].pc = "wait"
  /\ srv[h].pc = "err"
  /\ srv' = [srv EXCEPT ![h] = IdleSrv]
  /\ ReturnError(h)
  /\ UNCHANGED <<mounts, daemon, cred, procVars, faultVars>>

-----------------------------------------------------------------------------
(***************************************************************************)
(* handleCosMount and FuseMount.                                           *)
(***************************************************************************)

(* Validate: the credential file is there.                                 *)
CredFileExists == cred # NoCred

ParseMounterArgs(h) ==
  /\ srv[h].pc = "validate"
  /\ IF CredFileExists THEN SrvGoto(h, "start") ELSE SrvReply(h, "err")
  /\ UNCHANGED <<podVars, hostVars, cred, node, procVars, faultVars>>

(* Which of the free process ids the kernel gives out makes no difference. *)
Free == {d \in Daemons : daemon[d] = "none"}

FuseStart(h) ==
  /\ srv[h].pc = "start"
  /\ Free # {}
  /\ LET d == CHOOSE d \in Free : TRUE IN
       /\ daemon' = [daemon EXCEPT ![d] = "starting"]
       /\ srv' = [srv EXCEPT ![h] = [pc |-> "mounting", cmd |-> d]]
  /\ UNCHANGED <<podVars, dir, mounts, cred, node, procVars, faultVars>>

FuseStartErr(h) ==
  /\ srv[h].pc = "start"
  /\ Fault("start")
  /\ SrvReply(h, "err")
  /\ UNCHANGED <<podVars, hostVars, cred, node, procVars>>

(* Mutant: the mount is taken for done when the command has returned. *)
WaitForMountOk_NoPoll(h) ==
  /\ srv[h].pc = "mounting"
  /\ SrvReply(h, "ok")
  /\ UNCHANGED <<podVars, hostVars, cred, node, procVars, faultVars>>

(* waitForMount sees a mount on the path, of this command or of an earlier *)
(* one.                                                                    *)
WaitForMountOk(h) ==
  /\ srv[h].pc = "mounting"
  /\ Served
  /\ SrvReply(h, "ok")
  /\ UNCHANGED <<podVars, hostVars, cred, node, procVars, faultVars>>

(* The command fails: success all the same when the path is a mountpoint,  *)
(* and isMountpoint takes a broken mount for one.                          *)
CommandFailed(h) ==
  /\ srv[h].pc = "mounting"
  /\ srv[h].cmd = "exited"
  /\ SrvReply(h, IF Mounted THEN "ok" ELSE "err")
  /\ UNCHANGED <<podVars, hostVars, cred, node, procVars, faultVars>>

(* Mutant: the command is not cancelled on the way out. *)
WaitForMountTimeout_NoCancel(h) ==
  /\ srv[h].pc = "mounting"
  /\ ~Served
  /\ srv[h].cmd # "exited"
  /\ IF srv[h].cmd = "running" THEN NoFault ELSE Fault("slowMount")
  /\ SrvReply(h, "err")
  /\ UNCHANGED <<podVars, hostVars, cred, node, procVars>>

(* No mount within 30 s.  The context of the command is cancelled, which   *)
(* kills an s3fs that has not mounted yet; of rclone --daemon it kills the *)
(* parent, the child goes on.                                              *)
WaitForMountTimeout(h) ==
  LET d == srv[h].cmd IN
  /\ srv[h].pc = "mounting"
  /\ ~Served
  /\ d # "exited"
  /\ IF d = "running" THEN NoFault ELSE Fault("slowMount")
  /\ IF d \in Daemons /\ mounter = "s3fs"
     THEN /\ daemon' = [daemon EXCEPT ![d] = "none"]
          /\ srv' = ToldEnded(Answered(h, "err"), d)
     ELSE UNCHANGED daemon /\ SrvReply(h, "err")
  /\ UNCHANGED <<podVars, dir, mounts, cred, node, procVars>>

-----------------------------------------------------------------------------
(***************************************************************************)
(* NodeUnpublishVolume, handleCosUnmount and FuseUnmount.                  *)
(***************************************************************************)
NodeUnpublishVolume(h) ==
  /\ pod = "stopping"
  /\ call = NoHandler
  /\ plugin = "serving"
  /\ node[h] = IdleNode /\ srv[h] = IdleSrv
  /\ node' = [node EXCEPT ![h] = [IdleNode EXCEPT !.pc = "post", !.op = "unpublish"]]
  /\ call' = h
  /\ UNCHANGED <<pod, k8sVars, hostVars, cred, srv, procVars, faultVars>>

(* GetPVAttributes fails; the kubelet will try again.                      *)
NodeUnpublishReject ==
  /\ pod = "stopping"
  /\ call = NoHandler
  /\ plugin = "serving"
  /\ Fault("lookup")
  /\ UNCHANGED <<podVars, hostVars, cred, node, srv, procVars>>

(* A path that is not there is an error of isMountpoint, and of each       *)
(* unmount attempt made all the same.                                      *)
IsMountpoint(h) ==
  /\ srv[h].pc = "isMountpoint"
  /\ IF dir THEN SrvGoto(h, IF Mounted THEN "unmount" ELSE "find")
     ELSE SrvReply(h, "err")
  /\ UNCHANGED <<podVars, hostVars, cred, node, procVars, faultVars>>

(* Mutant: the mount is detached, its process goes on serving. *)
Unmount_ProcessStays(h) ==
  /\ srv[h].pc = "unmount"
  /\ Mounted
  /\ mounts' = SubSeq(mounts, 1, Len(mounts) - 1)
  /\ SrvGoto(h, "find")
  /\ UNCHANGED <<podVars, dir, daemon, cred, node, procVars, faultVars>>

(* One of the standard, the lazy and the forced unmount takes the topmost  *)
(* mount away; its process will exit.                                      *)
Unmount(h) ==
  /\ srv[h].pc = "unmount"
  /\ Mounted
  /\ mounts' = SubSeq(mounts, 1, Len(mounts) - 1)
  /\ daemon' = IF Top = "broken" THEN daemon
               ELSE [daemon EXCEPT ![Top] = "detached"]
  /\ SrvGoto(h, "find")
  /\ UNCHANGED <<podVars, dir, cred, node, procVars, faultVars>>

(* All three fail, as they do when another request was faster.             *)
UnmountErr(h) ==
  /\ srv[h].pc = "unmount"
  /\ \/ ~Mounted /\ NoFault
     \/ Mounted /\ Fault("unmount")
  /\ SrvReply(h, "err")
  /\ UNCHANGED <<podVars, hostVars, cred, node, procVars>>

Running == {d \in Daemons : daemon[d] # "none"}

(* findFuseMountProcess: some process with the path on its command line.   *)
FindProcess(h) ==
  /\ srv[h].pc = "find"
  /\ \E d \in Running : srv' = [srv EXCEPT ![h] = [pc |-> "process", cmd |-> d]]
  /\ UNCHANGED <<podVars, hostVars, cred, node, procVars, faultVars>>

(* Mutant: no process on the path is an error. *)
FindNoProcess_Error(h) ==
  /\ srv[h].pc = "find"
  /\ Running = {}
  /\ SrvReply(h, "err")
  /\ UNCHANGED <<podVars, hostVars, cred, node, procVars, faultVars>>

(* None is found, or the process table cannot be read: success.            *)
FindNoProcess(h) ==
  /\ srv[h].pc = "find"
  /\ \/ Running = {} /\ NoFault
     \/ Running # {} /\ Fault("processes")
  /\ SrvReply(h, "ok")
  /\ UNCHANGED <<podVars, hostVars, cred, node, procVars>>

(* waitForProcess finds the process gone.                                  *)
ProcessGone(h) ==
  /\ srv[h].pc = "process"
  /\ srv[h].cmd = "exited"
  /\ SrvReply(h, "ok")
  /\ UNCHANGED <<podVars, hostVars, cred, node, procVars, faultVars>>

(* Process d ends: what it served is broken.                               *)
Ended(d) ==
  /\ daemon' = [daemon EXCEPT ![d] = "none"]
  /\ mounts' = [i \in DOMAIN mounts |-> IF mounts[i] = d THEN "broken" ELSE mounts[i]]

(* After 60 s the process found is killed, whether or not it is the one    *)
(* that was unmounted.                                                     *)
ProcessKill(h) ==
  LET d == srv[h].cmd IN
  /\ srv[h].pc = "process"
  /\ d \in Daemons
  /\ IF daemon[d] = "detached" THEN Fault("slowExit") ELSE NoFault
  /\ Ended(d)
  /\ srv' = ToldEnded(Answered(h, "ok"), d)
  /\ UNCHANGED <<podVars, dir, cred, node, procVars>>

(* The service has unmounted; the credential file is removed next.         *)
UnpublishAnswered(h) ==
  /\ node[h].pc = "wait" /\ node[h].op = "unpublish"
  /\ srv[h].pc = "ok"
  /\ srv' = [srv EXCEPT ![h] = IdleSrv]
  /\ NodeGoto(h, "remove")
  /\ UNCHANGED <<podVars, hostVars, cred, procVars, faultVars>>

(* Mutant: the credential file stays. *)
RemoveCredFile_Keep == UNCHANGED cred /\ NoFault

(* removeS3FSCredFile or removeRcloneConfigFile; the error of the third    *)
(* attempt is logged only.                                                 *)
RemoveCredFile ==
  \/ cred' = NoCred /\ NoFault
  \/ UNCHANGED cred /\ Fault("remove")

(* The file is removed, then the call is answered.  The kubelet removes    *)
(* the directory, or tries again when something is still mounted on it.    *)
UnpublishReply(h) ==
  /\ node[h].pc = "remove"
  /\ RemoveCredFile
  /\ node' = [node EXCEPT ![h] = IdleNode]
  /\ IF call = h
     THEN /\ call' = NoHandler
          /\ IF Mounted THEN UNCHANGED <<pod, dir>>
             ELSE pod' = "gone" /\ dir' = FALSE
     ELSE UNCHANGED <<call, pod, dir>>
  /\ UNCHANGED <<k8sVars, mounts, daemon, srv, procVars>>

-----------------------------------------------------------------------------
(***************************************************************************)
(* The FUSE processes.                                                     *)
(***************************************************************************)
Accepted == cred.key \in GoodKeys /\ cred.len = KeyLen[cred.key]

(* s3fs mounts over an earlier mount when the bucket is empty; rclone      *)
(* never does.                                                             *)
DaemonMount(d) ==
  /\ daemon[d] = "starting"
  /\ dir
  /\ Accepted
  /\ Mounted => Served /\ mounter = "s3fs"
  /\ mounts' = Append(mounts, d)
  /\ daemon' = [daemon EXCEPT ![d] = "serving"]
  /\ srv' = [g \in Handlers |->
       IF srv[g].pc = "mounting" /\ srv[g].cmd = d
       THEN [srv[g] EXCEPT !.cmd = "running"] ELSE srv[g]]
  /\ UNCHANGED <<podVars, dir, cred, node, procVars, faultVars>>

DaemonFail(d) ==
  /\ daemon[d] = "starting"
  /\ IF dir /\ Accepted /\ ~Mounted THEN Fault("mountFail") ELSE NoFault
  /\ daemon' = [daemon EXCEPT ![d] = "none"]
  /\ srv' = ToldEnded(srv, d)
  /\ UNCHANGED <<podVars, dir, mounts, cred, node, procVars>>

DaemonExit(d) ==
  /\ daemon[d] = "detached"
  /\ daemon' = [daemon EXCEPT ![d] = "none"]
  /\ srv' = ToldEnded(srv, d)
  /\ UNCHANGED <<podVars, dir, mounts, cred, node, procVars, faultVars>>

DaemonCrash(d) ==
  /\ daemon[d] = "serving"
  /\ Fault("daemonCrash")
  /\ Ended(d)
  /\ srv' = ToldEnded(srv, d)
  /\ UNCHANGED <<podVars, dir, cred, node, procVars>>

-----------------------------------------------------------------------------
(***************************************************************************)
(* The kubelet, the user, and restarts.                                    *)
(***************************************************************************)

(* A pod is deleted.  When its last NodePublishVolume, if any, was answered *)
(* with an error, its volume counts as not mounted and the pod has failed  *)
(* for good; otherwise the volume is unpublished.                          *)
DeletePod ==
  /\ call = NoHandler
  /\ pod \in {"starting", "uncertain", "running"}
  /\ pod' = IF pod = "starting" THEN "failed" ELSE "stopping"
  /\ UNCHANGED <<call, k8sVars, hostVars, cred, node, srv, procVars, faultVars>>

(* The call ends without an answer: the volume is now in doubt.            *)
Unanswered ==
  /\ call' = NoHandler
  /\ pod' = IF pod = "starting" THEN "uncertain" ELSE pod

Timeout ==
  /\ call # NoHandler
  /\ Fault("timeout")
  /\ Unanswered
  /\ UNCHANGED <<k8sVars, hostVars, cred, node, srv, procVars>>

(* Nobody answers on the plugin's socket: the call may have had an effect, *)
(* for all the kubelet knows.                                              *)
PluginUnavailable ==
  /\ plugin # "serving"
  /\ call = NoHandler
  /\ pod = "starting"
  /\ pod' = "uncertain"
  /\ UNCHANGED <<call, k8sVars, hostVars, cred, node, srv, procVars, faultVars>>

PluginCrash ==
  /\ plugin # "down"
  /\ Fault("pluginCrash")
  /\ plugin' = "down"
  /\ node' = [h \in Handlers |-> IdleNode]
  /\ srv' = [h \in Handlers |->
       IF srv[h].pc \in {"ok", "err"} THEN IdleSrv ELSE srv[h]]
  /\ IF call = NoHandler THEN UNCHANGED <<call, pod>> ELSE Unanswered
  /\ UNCHANGED <<k8sVars, hostVars, cred, service>>

(* NewS3CosDriver and Setup: node data and endpoints are read, the socket  *)
(* of the last process is removed, its permissions are set, the services   *)
(* are registered.                                                         *)
PluginStart ==
  /\ plugin = "down"
  /\ plugin' = "serving"
  /\ UNCHANGED <<podVars, hostVars, cred, node, srv, service, faultVars>>

(* Every error on the way ends the process, and it is started again.       *)
PluginStartErr ==
  /\ plugin = "down"
  /\ Fault("setup")
  /\ UNCHANGED <<podVars, hostVars, cred, node, srv, procVars>>

(* Serve returns: serve logs it and ends, Wait waits on for a wait group   *)
(* nobody signals, so the process lives and no new call reaches it.  Calls *)
(* it has accepted go on.                                                  *)
ServeErr ==
  /\ plugin = "serving"
  /\ Fault("serve")
  /\ plugin' = "hung"
  /\ UNCHANGED <<podVars, hostVars, cred, node, srv, service>>

(* The requests of a service that ends are cut off; KillMode=process       *)
(* spares the FUSE processes.                                              *)
ServiceEnds(state) ==
  /\ service = "serving"
  /\ service' = state
  /\ srv' = [h \in Handlers |->
       IF node[h].pc = "wait" THEN [IdleSrv EXCEPT !.pc = "err"] ELSE IdleSrv]
  /\ UNCHANGED <<podVars, hostVars, cred, node, plugin>>

(* The service dies, or its server fails and startService returns: the     *)
(* unit has failed, and systemd restarts it.                               *)
ServiceCrash == Fault("serviceCrash") /\ ServiceEnds("down")

(* On SIGTERM or SIGINT the service removes its socket and exits with 0,   *)
(* which is no failure to systemd: the unit says Restart=on-failure.       *)
handleSignals == Fault("signal") /\ ServiceEnds("stopped")

(* setupSocket and startService.                                           *)
ServiceRestart ==
  /\ service = "down"
  /\ service' = "serving"
  /\ UNCHANGED <<podVars, hostVars, cred, node, srv, plugin, faultVars>>

ServiceRestartErr ==
  /\ service = "down"
  /\ Fault("socket")
  /\ UNCHANGED <<podVars, hostVars, cred, node, srv, procVars>>

RotateSecret ==
  /\ Fault("rotate")
  /\ secret' \in Keys \ {secret}
  /\ UNCHANGED <<pod, call, mounter, hostVars, cred, node, srv, procVars>>

-----------------------------------------------------------------------------
NodeStep(h) ==
  \/ CheckMountOk(h) \/ CheckMountErr(h)
  \/ WriteConfig(h) \/ WriteConfigErr(h)
  \/ MounterRequest(h) \/ MounterRequestErr(h)
  \/ PublishReply(h) \/ ErrorReply(h)
  \/ UnpublishAnswered(h) \/ UnpublishReply(h)

SrvStep(h) ==
  \/ ParseMounterArgs(h) \/ FuseStart(h) \/ FuseStartErr(h)
  \/ WaitForMountOk(h) \/ CommandFailed(h) \/ WaitForMountTimeout(h)
  \/ IsMountpoint(h) \/ Unmount(h) \/ UnmountErr(h)
  \/ FindProcess(h) \/ FindNoProcess(h) \/ ProcessGone(h) \/ ProcessKill(h)

DaemonStep(d) == DaemonMount(d) \/ DaemonFail(d) \/ DaemonExit(d)

Kubelet ==
  \/ \E h \in Handlers : NodePublishVolume(h) \/ NodeUnpublishVolume(h)
  \/ NodeUnpublishReject \/ PluginUnavailable

Next ==
  \/ \E h \in Handlers : NodeStep(h) \/ SrvStep(h) \/ MounterRequestTimeout(h)
  \/ \E d \in Daemons : DaemonStep(d) \/ DaemonCrash(d)
  \/ Kubelet \/ DeletePod \/ Timeout
  \/ PluginCrash \/ PluginStart \/ PluginStartErr \/ ServeErr
  \/ ServiceCrash \/ handleSignals \/ ServiceRestart \/ ServiceRestartErr
  \/ RotateSecret

Spec == Init /\ [][Next]_vars

(***************************************************************************)
(* Goroutines and FUSE processes that can go on do, the kubelet retries, it *)
(* and systemd restart a plugin and a service that failed.  Nothing is     *)
(* assumed of users, and of faults only that they are finitely many.       *)
(***************************************************************************)
Fairness ==
  /\ \A h \in Handlers : WF_vars(NodeStep(h)) /\ WF_vars(SrvStep(h))
  /\ \A d \in Daemons : WF_vars(DaemonStep(d))
  /\ WF_vars(Kubelet)
  /\ WF_vars(PluginStart)
  /\ WF_vars(ServiceRestart)

FairSpec == Spec /\ Fairness

-----------------------------------------------------------------------------
(***************************************************************************)
(* Properties.                                                             *)
(***************************************************************************)

(* The mount table and the process table agree: a mount that is not broken *)
(* is served by a process of its own, and no other process serves one.     *)
TablesAgree ==
  /\ \A i \in DOMAIN mounts : mounts[i] # "broken" =>
       daemon[mounts[i]] = "serving"
  /\ \A d \in Daemons : daemon[d] = "serving" =>
       \E i \in DOMAIN mounts : mounts[i] = d
  /\ \A i, j \in DOMAIN mounts : mounts[i] = mounts[j] /\ i # j =>
       mounts[i] = "broken"
  /\ Mounted => dir

(* The type of every variable; the kubelet awaits only a goroutine that    *)
(* serves it, and mounts and processes agree.                              *)
TypeOK ==
  /\ pod \in {"starting", "uncertain", "running", "stopping", "gone", "failed"}
  /\ call \in Handlers \cup {NoHandler}
  /\ secret \in Keys
  /\ mounter \in Mounters
  /\ dir \in BOOLEAN
  /\ mounts \in Seq(Daemons \cup {"broken"})
  /\ daemon \in [Daemons -> {"none", "starting", "serving", "detached"}]
  /\ cred \in [key : Keys \cup {NoKey}, len : Nat]
  /\ node \in [Handlers -> NodeType]
  /\ srv \in [Handlers -> SrvType]
  /\ plugin \in {"serving", "down", "hung"}
  /\ service \in {"serving", "down", "stopped"}
  /\ seen \in SUBSET FaultKind
  /\ budget \in 0..MaxFaults
  /\ call # NoHandler => node[call].pc # "idle"
  /\ TablesAgree

(* A pod that runs has its bucket: when NodePublishVolume has answered     *)
(* success, a live process serves the path, whatever retries and restarts  *)
(* overlap, unless a FUSE process died.                                    *)
RunningPodIsServed ==
  pod = "running" => Served \/ "daemonCrash" \in seen

(***************************************************************************)
(* The inductive invariant behind TypeOK and RunningPodIsServed.           *)
(***************************************************************************)

(* Which steps a goroutine of either handler takes.                        *)
OnPath(r) ==
  \/ r = IdleNode
  \/ /\ r.op = "publish" /\ r.pc \in {"check", "config", "post", "wait"}
     /\ r.key \in Keys
  \/ r.op = "unpublish" /\ r.pc \in {"post", "wait", "remove"}

(* A process somebody waits for is there, and has not mounted while its    *)
(* command has not returned: the id of a process that ended is not kept.   *)
CommandsAgree ==
  \A h \in Handlers : srv[h].cmd \in Daemons =>
    /\ daemon[srv[h].cmd] # "none"
    /\ srv[h].pc = "mounting" => daemon[srv[h].cmd] = "starting"

PathInv == (\A h \in Handlers : OnPath(node[h])) /\ CommandsAgree

(* The volume of the pod was never unpublished.                            *)
Early == pod \in {"starting", "uncertain", "running", "failed"}

Unmounting == {"isMountpoint", "unmount", "find", "process"}

CallServes ==
  call # NoHandler =>
    \/ pod \in {"starting", "uncertain"} /\ node[call].op = "publish"
    \/ pod = "stopping" /\ node[call].op = "unpublish"

(* Before the first NodeUnpublishVolume nothing unmounts the path.         *)
NothingUnmounts ==
  Early =>
    /\ \A h \in Handlers : node[h].op # "unpublish" /\ srv[h].pc \notin Unmounting
    /\ \A d \in Daemons : daemon[d] # "detached"
    /\ "daemonCrash" \notin seen => \A i \in DOMAIN mounts : mounts[i] # "broken"

(* A success on its way to the kubelet, or delivered, is about a mount.    *)
SuccessIsMounted ==
  /\ Early => \A h \in Handlers : srv[h].pc = "ok" => Mounted
  /\ pod = "running" => Mounted

ServedInv == PathInv /\ CallServes /\ NothingUnmounts /\ SuccessIsMounted

Overlap == {"timeout", "pluginCrash", "serviceCrash", "signal"}

(* At most one mount on the path, unless a call was repeated while or      *)
(* after the first one ran on unobserved.                                  *)
NoStackedMount == Len(mounts) > 1 => seen \cap Overlap # {}

(* An rclone child whose parent was killed after 30 s may mount later.     *)
LateChild == mounter = "rclone" /\ "slowMount" \in seen

(* A pod that is gone, after NodeUnpublishVolume answered success and the  *)
(* kubelet removed the directory, leaves nothing behind: no mount, no FUSE *)
(* process, no credential file, unless calls overlapped, an rclone child   *)
(* was late, the file could not be removed, or the process, told to exit,  *)
(* was not looked for.                                                     *)
GonePodIsClean ==
  pod = "gone" =>
    \/ /\ ~Mounted
       /\ Running = {} \/ "processes" \in seen
       /\ \A d \in Running : daemon[d] = "detached"
       /\ cred = NoCred \/ "remove" \in seen
    \/ seen \cap Overlap # {}
    \/ LateChild

(* A pod whose NodePublishVolume failed has no volume on the node: no live *)
(* mount and no FUSE process, since the command FuseMount started is dead  *)
(* when FuseMount reports an error.  Of a slow rclone only the parent is.  *)
FailedPodIsUnmounted ==
  pod = "failed" =>
    \/ ~Served /\ Running = {}
    \/ seen \cap Overlap # {}
    \/ LateChild

(***************************************************************************)
(* The inductive invariant behind the last three properties: as long as    *)
(* no call is repeated while it runs and no child is late, one goroutine   *)
(* and one FUSE process at most are at work.                               *)
(***************************************************************************)
Orderly == seen \cap Overlap = {} /\ ~LateChild

Mounting == {"validate", "start", "mounting"}

(* Only the goroutine the kubelet waits for runs, and the service serves   *)
(* the request that it made.                                               *)
OneCall ==
  \A h \in Handlers :
    /\ h # call => node[h] = IdleNode /\ srv[h] = IdleSrv
    /\ srv[h].pc # "idle" => node[h].pc = "wait"
    /\ node[h].op = "publish" => srv[h].pc \notin Unmounting
    /\ node[h].op = "unpublish" => srv[h].pc \notin Mounting
    /\ srv[h].pc \notin {"mounting", "process"} => srv[h].cmd = "exited"

OneProcess ==
  /\ Len(mounts) <= 1
  /\ \A d, e \in Running : d = e
  /\ \A d \in Daemons : daemon[d] = "starting" =>
       /\ ~Mounted
       /\ \E h \in Handlers : srv[h].pc = "mounting" /\ srv[h].cmd = d

(* NodePublishVolume past CheckMount, before its process has mounted.      *)
NotYetMounted(h) ==
  \/ node[h].op = "publish" /\ node[h].pc \in {"config", "post"}
  \/ srv[h].pc \in {"validate", "start"}
  \/ srv[h].pc = "mounting" /\ srv[h].cmd = "exited"

(* NodePublishVolume not yet, or no longer, with a process of its own.     *)
WithoutProcess(h) ==
  \/ node[h].pc = "check"
  \/ NotYetMounted(h)
  \/ node[h].op = "publish" /\ srv[h].pc = "err"

(* NodeUnpublishVolume when its process is gone.                           *)
ProcessDone(h) ==
  /\ node[h].op = "unpublish"
  /\ \/ srv[h].pc = "process" /\ srv[h].cmd = "exited"
     \/ srv[h].pc = "ok"
     \/ node[h].pc = "remove"

ProcessesAgree ==
  /\ pod \in {"starting", "uncertain", "failed"} /\ call = NoHandler => Running = {}
  /\ \A h \in Handlers :
       /\ NotYetMounted(h) => ~Mounted
       /\ WithoutProcess(h) => Running = {}
       /\ ProcessDone(h) => Running = {} \/ "processes" \in seen

GoneInv ==
  pod = "gone" =>
    /\ ~Mounted
    /\ Running = {} \/ "processes" \in seen
    /\ cred = NoCred \/ "remove" \in seen

OrderlyInv ==
  Orderly => OneCall /\ OneProcess /\ ProcessesAgree /\ GoneInv

(* Of rclone, one mount at most is ever on the path.                       *)
RcloneMountsOnce == mounter = "rclone" => Len(mounts) <= 1

(* Nobody brings back a plugin that only pretends to live, or a service    *)
(* that ended without a failure.                                           *)
Unattended == plugin = "hung" \/ service = "stopped"

(* A pod that stops is gone in the end: whatever calls overlapped,         *)
(* whichever process was found and killed and however often plugin and     *)
(* service had to be started, NodeUnpublishVolume does not fail forever,   *)
(* broken mounts included.  (It does when the target directory was never   *)
(* made, and when the plugin hangs or the service was stopped.)            *)
StoppingPodGoes == pod = "stopping" /\ dir ~> pod = "gone" \/ Unattended

Starting == pod \in {"starting", "uncertain"}

(* The password file of s3fs ends in the rest of an earlier, longer key.   *)
StaleTail == mounter = "s3fs" /\ cred.len > KeyLen[secret]

(* A pod whose secret is accepted starts in the end: after finitely many   *)
(* faults a retry finds the path mounted by an earlier attempt, or mounts  *)
(* it.  Three things stop it for good: a broken mount, which CheckMount    *)
(* reports and nobody unmounts, a password file with a stale tail, and a   *)
(* plugin or service that nobody brings back.                              *)
StartingPodSettles ==
  Starting /\ secret \in GoodKeys ~>
    \/ ~Starting
    \/ secret \notin GoodKeys
    \/ StaleTail
    \/ Unattended
    \/ "daemonCrash" \in seen
=============================================================================
