-------------------------- MODULE NodeServerProofs --------------------------
(***************************************************************************)
(* Proofs about NodeServer, for every set of handlers, processes and keys, *)
(* both mounters, and every bound on the faults.                           *)
(***************************************************************************)
EXTENDS NodeServer, SequenceTheorems, TLAPS

(***************************************************************************)
(* Lemmas on the data.                                                     *)
(***************************************************************************)
LEMMA IdleFacts ==
  /\ IdleNode \in NodeType
  /\ IdleNode.pc = "idle" /\ IdleNode.op = "none"
  /\ IdleSrv \in SrvType
  /\ IdleSrv.pc = "idle" /\ IdleSrv.cmd = "exited"
BY DEF IdleNode, IdleSrv, NodeType, SrvType

(* The words for an ended or a mounted command name no process.            *)
LEMMA Words ==
  /\ "broken" \notin Daemons /\ "running" \notin Daemons
  /\ "exited" \notin Daemons
  /\ NoHandler \notin Handlers
BY ConstantsAssumption

(* A goroutine moves on with its work.                                     *)
LEMMA NodeGotoView ==
  ASSUME node \in [Handlers -> NodeType], NEW h \in Handlers, NEW l,
         NodeGoto(h, l)
  PROVE  /\ \A g \in Handlers \ {h} : node'[g] = node[g]
         /\ node'[h] = [pc |-> l, op |-> node[h].op, key |-> node[h].key]
         /\ node' = [node EXCEPT ![h] =
                       [pc |-> l, op |-> node[h].op, key |-> node[h].key]]
<1>1. node[h] \in NodeType
  OBVIOUS
<1>2. [node[h] EXCEPT !.pc = l] = [pc |-> l, op |-> node[h].op, key |-> node[h].key]
  BY <1>1 DEF NodeType
<1>3. node' = [node EXCEPT ![h] = [node[h] EXCEPT !.pc = l]]
  BY DEF NodeGoto
<1> QED  BY <1>2, <1>3

(* A goroutine of the service moves on with its command.                   *)
LEMMA SrvGotoView ==
  ASSUME srv \in [Handlers -> SrvType], NEW h \in Handlers, NEW l, SrvGoto(h, l)
  PROVE  srv' = [srv EXCEPT ![h] = [pc |-> l, cmd |-> srv[h].cmd]]
<1>1. srv[h] \in SrvType
  OBVIOUS
<1>2. [srv[h] EXCEPT !.pc = l] = [pc |-> l, cmd |-> srv[h].cmd]
  BY <1>1 DEF SrvType
<1>3. srv' = [srv EXCEPT ![h] = [srv[h] EXCEPT !.pc = l]]
  BY DEF SrvGoto
<1> QED  BY <1>2, <1>3

(* The answer of the service.                                              *)
LEMMA AnsweredView ==
  ASSUME srv \in [Handlers -> SrvType], NEW h \in Handlers,
         NEW r \in {"ok", "err"}
  PROVE  /\ Answered(h, r) = [srv EXCEPT ![h] =
              [pc |-> IF node[h].pc = "wait" THEN r ELSE "idle", cmd |-> "exited"]]
         /\ Answered(h, r) \in [Handlers -> SrvType]
<1>1. (IF node[h].pc = "wait" THEN [IdleSrv EXCEPT !.pc = r] ELSE IdleSrv) =
        [pc |-> IF node[h].pc = "wait" THEN r ELSE "idle", cmd |-> "exited"]
  BY DEF IdleSrv
<1>2. [pc |-> IF node[h].pc = "wait" THEN r ELSE "idle", cmd |-> "exited"] \in SrvType
  BY DEF SrvType
<1> QED  BY <1>1, <1>2 DEF Answered

(* The end of a process, as those who wait for it see it.                  *)
LEMMA ToldEndedView ==
  ASSUME NEW s \in [Handlers -> SrvType], NEW d \in Daemons
  PROVE  /\ ToldEnded(s, d) \in [Handlers -> SrvType]
         /\ \A g \in Handlers :
              /\ ToldEnded(s, d)[g].pc = s[g].pc
              /\ ToldEnded(s, d)[g].cmd = IF s[g].cmd = d THEN "exited" ELSE s[g].cmd
<1> SUFFICES ASSUME NEW g \in Handlers
             PROVE  /\ ToldEnded(s, d)[g] \in SrvType
                    /\ ToldEnded(s, d)[g].pc = s[g].pc
                    /\ ToldEnded(s, d)[g].cmd =
                         IF s[g].cmd = d THEN "exited" ELSE s[g].cmd
  BY DEF ToldEnded
<1>1. s[g] \in SrvType
  OBVIOUS
<1>2. /\ [s[g] EXCEPT !.cmd = "exited"] \in SrvType
      /\ [s[g] EXCEPT !.cmd = "exited"].pc = s[g].pc
      /\ [s[g] EXCEPT !.cmd = "exited"].cmd = "exited"
  BY <1>1 DEF SrvType
<1> QED  BY <1>1, <1>2 DEF ToldEnded

-----------------------------------------------------------------------------
(***************************************************************************)
(* The mount table and the process table.                                  *)
(***************************************************************************)
HostOK ==
  /\ dir \in BOOLEAN
  /\ mounts \in Seq(Daemons \cup {"broken"})
  /\ daemon \in [Daemons -> {"none", "starting", "serving", "detached"}]
  /\ TablesAgree

LEMMA MountFacts ==
  ASSUME HostOK
  PROVE  /\ Len(mounts) \in Nat
         /\ DOMAIN mounts = 1..Len(mounts)
         /\ \A i \in 1..Len(mounts) : mounts[i] \in Daemons \cup {"broken"}
         /\ Mounted <=> Len(mounts) > 0
         /\ Mounted => Top = mounts[Len(mounts)] /\ Len(mounts) \in 1..Len(mounts)
<1>1. mounts \in Seq(Daemons \cup {"broken"})
  BY DEF HostOK
<1> QED  BY <1>1 DEF Mounted, Top

(* A process that starts.                                                  *)
LEMMA HostStarts ==
  ASSUME HostOK, NEW d \in Daemons, daemon[d] = "none",
         daemon' = [daemon EXCEPT ![d] = "starting"], UNCHANGED <<dir, mounts>>
  PROVE  HostOK'
<1>1. /\ daemon' \in [Daemons -> {"none", "starting", "serving", "detached"}]
      /\ \A e \in Daemons : daemon'[e] = "serving" <=> daemon[e] = "serving"
  BY DEF HostOK
<1>2. \A i \in DOMAIN mounts : mounts[i] # "broken" => mounts[i] \in Daemons
  BY MountFacts
<1> QED  BY <1>1, <1>2 DEF HostOK, TablesAgree, Mounted

(* A process that serves no mount ends, or is no more than started.        *)
LEMMA HostEndsIdle ==
  ASSUME HostOK, NEW d \in Daemons, daemon[d] # "serving",
         daemon' = [daemon EXCEPT ![d] = "none"], UNCHANGED <<dir, mounts>>
  PROVE  HostOK'
<1>1. /\ daemon' \in [Daemons -> {"none", "starting", "serving", "detached"}]
      /\ \A e \in Daemons : daemon'[e] = "serving" <=> daemon[e] = "serving"
  BY DEF HostOK
<1>2. \A i \in DOMAIN mounts : mounts[i] # "broken" => mounts[i] \in Daemons
  BY MountFacts
<1> QED  BY <1>1, <1>2 DEF HostOK, TablesAgree, Mounted

(* A process ends: its mount, if it has one, is broken.                    *)
LEMMA HostEnded ==
  ASSUME HostOK, NEW d \in Daemons, Ended(d), UNCHANGED dir
  PROVE  /\ HostOK'
         /\ Len(mounts') = Len(mounts)
         /\ Mounted' <=> Mounted
         /\ \A i \in 1..Len(mounts) :
              mounts'[i] = IF mounts[i] = d THEN "broken" ELSE mounts[i]
         /\ \A e \in Daemons : daemon'[e] = IF e = d THEN "none" ELSE daemon[e]
<1> DEFINE n == Len(mounts)
<1>1. n \in Nat /\ DOMAIN mounts = 1..n
  BY MountFacts
<1>2. mounts' = [i \in 1..n |-> IF mounts[i] = d THEN "broken" ELSE mounts[i]]
  BY <1>1 DEF Ended
<1>3. \A i \in 1..n : mounts[i] \in Daemons \cup {"broken"}
  BY MountFacts
<1>4. mounts' \in [1..n -> Daemons \cup {"broken"}]
  BY <1>2, <1>3
<1>5. mounts' \in Seq(Daemons \cup {"broken"})
  BY <1>1, <1>4, SeqDef
<1>6. Len(mounts') = n /\ DOMAIN mounts' = 1..n
  BY <1>1, <1>4, <1>5, LenProperties
<1>7. Mounted' <=> Mounted
  BY <1>1, <1>5, <1>6, MountFacts DEF Mounted
<1>8. \A i \in 1..n : mounts'[i] = IF mounts[i] = d THEN "broken" ELSE mounts[i]
  BY <1>2
<1>9. /\ daemon' \in [Daemons -> {"none", "starting", "serving", "detached"}]
      /\ \A e \in Daemons : daemon'[e] = IF e = d THEN "none" ELSE daemon[e]
  BY DEF Ended, HostOK
<1>10. TablesAgree'
  <2>1. \A i \in 1..n : mounts'[i] # "broken" => daemon'[mounts'[i]] = "serving"
    BY <1>1, <1>3, <1>8, <1>9 DEF HostOK, TablesAgree
  <2>2. \A e \in Daemons : daemon'[e] = "serving" =>
          \E i \in 1..n : mounts'[i] = e
    BY <1>1, <1>8, <1>9 DEF HostOK, TablesAgree
  <2>3. \A i, j \in 1..n : mounts'[i] = mounts'[j] /\ i # j => mounts'[i] = "broken"
    BY <1>1, <1>8 DEF HostOK, TablesAgree
  <2>4. Mounted' => dir'
    BY <1>7 DEF HostOK, TablesAgree
  <2> QED  BY <1>6, <2>1, <2>2, <2>3, <2>4 DEF TablesAgree
<1> QED  BY <1>5, <1>6, <1>7, <1>8, <1>9, <1>10 DEF HostOK

(* A process mounts on top of what is there.                               *)
LEMMA HostMounts ==
  ASSUME HostOK, NEW d \in Daemons, daemon[d] = "starting", dir,
         mounts' = Append(mounts, d), daemon' = [daemon EXCEPT ![d] = "serving"],
         UNCHANGED dir
  PROVE  /\ HostOK' /\ Mounted'
         /\ Len(mounts') = Len(mounts) + 1
         /\ \A i \in 1..Len(mounts) : mounts'[i] = mounts[i]
         /\ mounts'[Len(mounts) + 1] = d
         /\ \A e \in Daemons : daemon'[e] = IF e = d THEN "serving" ELSE daemon[e]
<1> DEFINE n == Len(mounts)
<1>1. n \in Nat /\ DOMAIN mounts = 1..n
  BY MountFacts
<1>2. mounts \in Seq(Daemons \cup {"broken"})
  BY DEF HostOK
<1>3. mounts' \in Seq(Daemons \cup {"broken"})
  BY <1>2
<1>4. Len(mounts') = n + 1
  BY <1>2
<1>5. DOMAIN mounts' = 1..(n + 1)
  BY <1>3, <1>4, LenProperties
<1>6. (\A i \in 1..n : mounts'[i] = mounts[i]) /\ mounts'[n + 1] = d
  BY <1>1, <1>2
<1>7. Mounted'
  BY <1>1, <1>3, <1>4 DEF Mounted
<1>8. \A i \in 1..n : mounts[i] \in Daemons \cup {"broken"}
  BY MountFacts
<1>9. /\ daemon' \in [Daemons -> {"none", "starting", "serving", "detached"}]
      /\ \A e \in Daemons : daemon'[e] = IF e = d THEN "serving" ELSE daemon[e]
  BY DEF HostOK
<1>10. \A i \in 1..n : mounts[i] # d
  BY <1>1, Words DEF HostOK, TablesAgree
<1>11. \A i \in 1..(n + 1) : i \in 1..n \/ i = n + 1
  BY <1>1
<1>12. TablesAgree'
  <2>1. \A i \in 1..(n + 1) : mounts'[i] # "broken" => daemon'[mounts'[i]] = "serving"
    BY <1>1, <1>6, <1>8, <1>9, <1>11 DEF HostOK, TablesAgree
  <2>2. \A e \in Daemons : daemon'[e] = "serving" =>
          \E i \in 1..(n + 1) : mounts'[i] = e
    BY <1>1, <1>6, <1>9 DEF HostOK, TablesAgree
  <2>3. \A i, j \in 1..(n + 1) : mounts'[i] = mounts'[j] /\ i # j =>
          mounts'[i] = "broken"
    BY <1>1, <1>6, <1>10, <1>11 DEF HostOK, TablesAgree
  <2> QED  BY <1>5, <2>1, <2>2, <2>3 DEF TablesAgree
<1> QED  BY <1>3, <1>4, <1>6, <1>7, <1>9, <1>12 DEF HostOK

(* What is left below the topmost mount.                                   *)
LEMMA BelowTop ==
  ASSUME HostOK, Mounted
  PROVE  LET m == SubSeq(mounts, 1, Len(mounts) - 1) IN
         /\ m \in Seq(Daemons \cup {"broken"})
         /\ Len(m) = Len(mounts) - 1
         /\ \A i \in 1..(Len(mounts) - 1) : m[i] = mounts[i]
<1> DEFINE n == Len(mounts)
<1>1. n \in Nat /\ n > 0
  BY MountFacts
<1>2. \A i \in 1..n : mounts[i] \in Daemons \cup {"broken"}
  BY MountFacts
<1>3. n - 1 \in Int /\ 1 \in Int /\ \A i \in 1..(n - 1) : i \in 1..n
  BY <1>1
<1>4. /\ SubSeq(mounts, 1, n - 1) \in Seq(Daemons \cup {"broken"})
      /\ Len(SubSeq(mounts, 1, n - 1)) = IF 1 <= n - 1 THEN (n - 1) - 1 + 1 ELSE 0
      /\ \A i \in 1..((n - 1) - 1 + 1) : SubSeq(mounts, 1, n - 1)[i] = mounts[1 + i - 1]
  BY <1>2, <1>3, SubSeqProperties
<1> HIDE DEF n
<1>5. (n - 1) - 1 + 1 = n - 1 /\ \A i \in 1..(n - 1) : 1 + i - 1 = i
  BY <1>1
<1>6. (IF 1 <= n - 1 THEN (n - 1) - 1 + 1 ELSE 0) = n - 1
  BY <1>1
<1>7. /\ Len(SubSeq(mounts, 1, n - 1)) = n - 1
      /\ \A i \in 1..(n - 1) : SubSeq(mounts, 1, n - 1)[i] = mounts[i]
  BY <1>4, <1>5, <1>6, Zenon
<1> QED  BY <1>4, <1>7, Zenon DEF n

(* The topmost mount is taken away.                                        *)
LEMMA HostUnmounts ==
  ASSUME HostOK, Mounted,
         mounts' \in Seq(Daemons \cup {"broken"}),
         Len(mounts') = Len(mounts) - 1,
         \A i \in 1..(Len(mounts) - 1) : mounts'[i] = mounts[i],
         daemon' = IF Top = "broken" THEN daemon
                   ELSE [daemon EXCEPT ![Top] = "detached"],
         UNCHANGED dir
  PROVE  /\ HostOK'
         /\ \A e \in Daemons :
              \/ daemon'[e] = daemon[e]
              \/ daemon[e] = "serving" /\ daemon'[e] = "detached"
<1> DEFINE n == Len(mounts)
<1>1. n \in Nat /\ n > 0 /\ DOMAIN mounts = 1..n /\ Top = mounts[n]
  BY MountFacts
<1>2. \A i \in 1..n : mounts[i] \in Daemons \cup {"broken"}
  BY MountFacts
<1>3. \A i \in 1..(n - 1) : mounts'[i] = mounts[i]
  OBVIOUS
<1>4. DOMAIN mounts' = 1..(n - 1)
  BY LenProperties
<1>5. Top # "broken" => Top \in Daemons /\ daemon[Top] = "serving"
  BY <1>1, <1>2 DEF HostOK, TablesAgree
<1>6. /\ daemon' \in [Daemons -> {"none", "starting", "serving", "detached"}]
      /\ \A e \in Daemons :
           daemon'[e] = IF e = Top /\ Top # "broken" THEN "detached" ELSE daemon[e]
  BY <1>5 DEF HostOK
<1> HIDE DEF n
<1>7. \A i \in 1..(n - 1) : i \in 1..n /\ i # n
  BY <1>1
<1>8. \A i \in 1..(n - 1) : mounts[i] # "broken" => mounts[i] # Top
  BY <1>1, <1>7 DEF HostOK, TablesAgree
<1>9. TablesAgree'
  <2>1. \A i \in 1..(n - 1) : mounts'[i] # "broken" => daemon'[mounts'[i]] = "serving"
    BY <1>1, <1>2, <1>3, <1>6, <1>7, <1>8 DEF HostOK, TablesAgree
  <2>2. \A e \in Daemons : daemon'[e] = "serving" =>
          \E i \in 1..(n - 1) : mounts'[i] = e
    <3> SUFFICES ASSUME NEW e \in Daemons, daemon'[e] = "serving"
                 PROVE  \E i \in 1..(n - 1) : mounts'[i] = e
      OBVIOUS
    <3>1. daemon[e] = "serving" /\ e # Top
      BY <1>6, Words
    <3>2. PICK i \in 1..n : mounts[i] = e
      BY <1>1, <3>1 DEF HostOK, TablesAgree
    <3>3. i \in 1..(n - 1)
      BY <1>1, <3>1, <3>2
    <3> QED  BY <1>3, <3>2, <3>3
  <2>3. \A i, j \in 1..(n - 1) : mounts'[i] = mounts'[j] /\ i # j =>
          mounts'[i] = "broken"
    BY <1>1, <1>3, <1>7 DEF HostOK, TablesAgree
  <2>4. dir'
    BY DEF HostOK, TablesAgree
  <2> QED  BY <1>4, <2>1, <2>2, <2>3, <2>4 DEF TablesAgree
<1>10. HostOK'
  <2>1. dir' \in BOOLEAN
    BY DEF HostOK
  <2> QED  BY <1>6, <1>9, <2>1 DEF HostOK
<1>11. \A e \in Daemons :
         \/ daemon'[e] = daemon[e]
         \/ daemon[e] = "serving" /\ daemon'[e] = "detached"
  <2> SUFFICES ASSUME NEW e \in Daemons
               PROVE  \/ daemon'[e] = daemon[e]
                      \/ daemon[e] = "serving" /\ daemon'[e] = "detached"
    OBVIOUS
  <2>1. CASE e = Top /\ Top # "broken"
    BY <1>5, <1>6, <2>1, Zenon
  <2>2. CASE ~(e = Top /\ Top # "broken")
    BY <1>6, <2>2, Zenon
  <2> QED  BY <2>1, <2>2
<1> QED  BY <1>10, <1>11

-----------------------------------------------------------------------------
(***************************************************************************)
(* Types.                                                                  *)
(***************************************************************************)
PodOK ==
  /\ pod \in {"starting", "uncertain", "running", "stopping", "gone", "failed"}
  /\ call \in Handlers \cup {NoHandler}
  /\ secret \in Keys
  /\ mounter \in Mounters

RestOK ==
  /\ cred \in [key : Keys \cup {NoKey}, len : Nat]
  /\ plugin \in {"serving", "down", "hung"}
  /\ service \in {"serving", "down", "stopped"}
  /\ seen \in SUBSET FaultKind
  /\ budget \in 0..MaxFaults

NodeOK ==
  /\ node \in [Handlers -> NodeType]
  /\ call # NoHandler => node[call].pc # "idle"

SrvOK == srv \in [Handlers -> SrvType]

LEMMA TypeParts ==
  ASSUME TypeOK
  PROVE  PodOK /\ HostOK /\ RestOK /\ NodeOK /\ SrvOK
BY DEF TypeOK, PodOK, HostOK, RestOK, NodeOK, SrvOK

LEMMA TypePartsNext ==
  ASSUME PodOK', HostOK', RestOK', NodeOK', SrvOK'
  PROVE  TypeOK'
BY DEF TypeOK, PodOK, HostOK, RestOK, NodeOK, SrvOK

(* The steps, sorted by what they do to the host.                          *)
HostSteps(h) ==
  \/ FuseStart(h) \/ WaitForMountTimeout(h) \/ Unmount(h) \/ ProcessKill(h)

Errors(h) ==
  CheckMountErr(h) \/ WriteConfigErr(h) \/ MounterRequestErr(h) \/ ErrorReply(h)

(* What only the service does.                                             *)
SrvOnly(h) ==
  \/ ParseMounterArgs(h) \/ FuseStartErr(h) \/ WaitForMountOk(h)
  \/ CommandFailed(h) \/ IsMountpoint(h) \/ UnmountErr(h) \/ FindProcess(h)
  \/ FindNoProcess(h) \/ ProcessGone(h)

Others ==
  \/ NodeUnpublishReject \/ PluginUnavailable \/ DeletePod \/ Timeout
  \/ PluginCrash \/ PluginStart \/ PluginStartErr \/ ServeErr
  \/ ServiceCrash \/ handleSignals \/ ServiceRestart \/ ServiceRestartErr
  \/ RotateSecret

(* Every step is one of these.                                             *)
LEMMA StepCases ==
  ASSUME [Next]_vars
  PROVE  \/ \E h \in Handlers :
              \/ HostSteps(h) \/ Errors(h) \/ SrvOnly(h)
              \/ NodePublishVolume(h) \/ NodeUnpublishVolume(h)
              \/ CheckMountOk(h) \/ WriteConfig(h) \/ MounterRequest(h)
              \/ MounterRequestTimeout(h) \/ PublishReply(h)
              \/ UnpublishAnswered(h) \/ UnpublishReply(h)
         \/ \E d \in Daemons : DaemonMount(d) \/ DaemonFail(d) \/ DaemonExit(d)
                               \/ DaemonCrash(d)
         \/ Others
         \/ UNCHANGED vars
BY DEF Next, NodeStep, SrvStep, DaemonStep, Kubelet, HostSteps, Errors, SrvOnly,
       Others

(* An error reaches the kubelet.                                           *)
LEMMA ErrorsView ==
  ASSUME NEW h \in Handlers, Errors(h)
  PROVE  ReturnError(h) /\ UNCHANGED <<mounts, daemon, cred, procVars>>
BY DEF Errors, CheckMountErr, WriteConfigErr, MounterRequestErr, ErrorReply

LEMMA SrvOnlyView ==
  ASSUME NEW h \in Handlers, SrvOnly(h)
  PROVE  UNCHANGED <<podVars, hostVars, cred, node, procVars>>
BY DEF SrvOnly, ParseMounterArgs, FuseStartErr, WaitForMountOk, CommandFailed,
       IsMountpoint, UnmountErr, FindProcess, FindNoProcess, ProcessGone

LEMMA OthersView ==
  ASSUME Others
  PROVE  UNCHANGED <<mounter, hostVars, cred>>
BY DEF Others, NodeUnpublishReject, PluginUnavailable, DeletePod, Timeout,
       PluginCrash, PluginStart, PluginStartErr, ServeErr, ServiceCrash,
       handleSignals, ServiceEnds, ServiceRestart, ServiceRestartErr,
       RotateSecret, podVars, k8sVars

LEMMA HostSame ==
  ASSUME HostOK, UNCHANGED hostVars
  PROVE  HostOK'
BY DEF HostOK, TablesAgree, Mounted, hostVars

(* The directory stays as long as something is mounted on it.              *)
LEMMA HostDir ==
  ASSUME HostOK, UNCHANGED <<mounts, daemon>>, dir' \in BOOLEAN, Mounted => dir'
  PROVE  HostOK'
BY DEF HostOK, TablesAgree, Mounted

(* The tables agree after every step.                                      *)
LEMMA HostStep ==
  ASSUME TypeOK, PathInv, [Next]_vars
  PROVE  HostOK'
<1>0. HostOK /\ dir \in BOOLEAN /\ SrvOK
  BY TypeParts DEF HostOK
<1>1. ASSUME NEW h \in Handlers, FuseStart(h) PROVE HostOK'
  <2>1. PICK d \in Free : daemon' = [daemon EXCEPT ![d] = "starting"]
    BY <1>1 DEF FuseStart
  <2> QED  BY <1>0, <1>1, <2>1, HostStarts DEF Free, FuseStart
<1>2. ASSUME NEW h \in Handlers, WaitForMountTimeout(h) PROVE HostOK'
  <2>1. CASE srv[h].cmd \in Daemons /\ mounter = "s3fs"
    <3>1. daemon[srv[h].cmd] # "serving"
      BY <1>2, <2>1 DEF WaitForMountTimeout, PathInv, CommandsAgree
    <3>2. /\ daemon' = [daemon EXCEPT ![srv[h].cmd] = "none"]
          /\ UNCHANGED <<dir, mounts>>
      BY <1>2, <2>1 DEF WaitForMountTimeout
    <3> QED  BY <1>0, <2>1, <3>1, <3>2, HostEndsIdle
  <2>2. CASE ~(srv[h].cmd \in Daemons /\ mounter = "s3fs")
    BY <1>0, <1>2, <2>2, HostSame DEF WaitForMountTimeout, hostVars
  <2> QED  BY <2>1, <2>2
<1>3. ASSUME NEW h \in Handlers, Unmount(h) PROVE HostOK'
  <2>1. /\ Mounted /\ mounts' = SubSeq(mounts, 1, Len(mounts) - 1)
        /\ daemon' = IF Top = "broken" THEN daemon
                     ELSE [daemon EXCEPT ![Top] = "detached"]
        /\ UNCHANGED dir
    BY <1>3 DEF Unmount
  <2>2. /\ mounts' \in Seq(Daemons \cup {"broken"})
        /\ Len(mounts') = Len(mounts) - 1
        /\ \A i \in 1..(Len(mounts) - 1) : mounts'[i] = mounts[i]
    BY <1>0, <2>1, BelowTop, Zenon
  <2> HIDE <2>1
  <2> QED  BY <1>0, <2>1, <2>2, HostUnmounts, Zenon
<1>4. ASSUME NEW h \in Handlers, ProcessKill(h) PROVE HostOK'
  <2>1. srv[h].cmd \in Daemons /\ Ended(srv[h].cmd) /\ UNCHANGED dir
    BY <1>4 DEF ProcessKill
  <2> QED  BY <1>0, <2>1, HostEnded
<1>5. ASSUME NEW h \in Handlers, Errors(h) PROVE HostOK'
  <2>1. ReturnError(h) /\ UNCHANGED <<mounts, daemon>>
    BY <1>5, ErrorsView
  <2>2. dir' = dir \/ dir' = (dir /\ (Mounted \/ node[h].op = "unpublish"))
    BY <2>1 DEF ReturnError
  <2>3. dir' \in BOOLEAN /\ (Mounted => dir')
    BY <1>0, <2>2 DEF HostOK, TablesAgree
  <2> QED  BY <1>0, <2>1, <2>3, HostDir
<1>6. ASSUME NEW h \in Handlers, SrvOnly(h) PROVE HostOK'
  BY <1>0, <1>6, SrvOnlyView, HostSame
<1>7. ASSUME NEW h \in Handlers, CheckMountOk(h) PROVE HostOK'
  BY <1>0, <1>7, HostDir DEF CheckMountOk
<1>8. ASSUME NEW h \in Handlers, UnpublishReply(h) PROVE HostOK'
  <2>1. UNCHANGED <<mounts, daemon>> /\ (dir' = dir \/ (~Mounted /\ dir' = FALSE))
    BY <1>8 DEF UnpublishReply
  <2> QED  BY <1>0, <2>1, HostDir DEF HostOK, TablesAgree
<1>9. ASSUME NEW h \in Handlers,
             \/ NodePublishVolume(h) \/ NodeUnpublishVolume(h) \/ WriteConfig(h)
             \/ MounterRequest(h) \/ MounterRequestTimeout(h) \/ PublishReply(h)
             \/ UnpublishAnswered(h)
      PROVE  HostOK'
  BY <1>0, <1>9, HostSame
  DEF NodePublishVolume, NodeUnpublishVolume, WriteConfig, MounterRequest,
      MounterRequestTimeout, PublishReply, UnpublishAnswered
<1>10. ASSUME NEW d \in Daemons, DaemonMount(d) PROVE HostOK'
  BY <1>0, <1>10, HostMounts DEF DaemonMount
<1>11. ASSUME NEW d \in Daemons, DaemonFail(d) \/ DaemonExit(d) PROVE HostOK'
  BY <1>0, <1>11, HostEndsIdle DEF DaemonFail, DaemonExit
<1>12. ASSUME NEW d \in Daemons, DaemonCrash(d) PROVE HostOK'
  BY <1>0, <1>12, HostEnded DEF DaemonCrash
<1>13. CASE Others \/ UNCHANGED vars
  BY <1>0, <1>13, OthersView, HostSame DEF vars
<1> QED
  BY <1>1, <1>2, <1>3, <1>4, <1>5, <1>6, <1>7, <1>8, <1>9, <1>10, <1>11, <1>12,
     <1>13, StepCases DEF HostSteps

-----------------------------------------------------------------------------
(***************************************************************************)
(* The goroutines of the plugin.                                           *)
(***************************************************************************)
NodesOnPath == \A h \in Handlers : OnPath(node[h])

(* A goroutine ends its work, and the kubelet does not wait for it.        *)
LEMMA NodeReturns ==
  ASSUME PodOK, NodeOK, NodesOnPath, NEW h \in Handlers,
         node' = [node EXCEPT ![h] = IdleNode],
         call' = NoHandler \/ (call' = call /\ call # h)
  PROVE  NodeOK' /\ NodesOnPath'
<1>1. node' \in [Handlers -> NodeType]
  BY IdleFacts DEF NodeOK
<1>2. call' # NoHandler => node'[call'].pc # "idle"
  BY DEF NodeOK, PodOK
<1>3. \A g \in Handlers : OnPath(node'[g])
  BY DEF NodeOK, NodesOnPath, OnPath
<1> QED  BY <1>1, <1>2, <1>3 DEF NodeOK, NodesOnPath

(* A goroutine goes on to a step that its path has.                        *)
LEMMA NodeMoves ==
  ASSUME PodOK, NodeOK, NodesOnPath, NEW h \in Handlers, NEW r \in NodeType,
         node' = [node EXCEPT ![h] = r], OnPath(r), r.pc # "idle",
         call' \in {call, h}
  PROVE  NodeOK' /\ NodesOnPath'
<1>1. node' \in [Handlers -> NodeType]
  BY DEF NodeOK
<1>2. call' # NoHandler => node'[call'].pc # "idle"
  BY DEF NodeOK, PodOK
<1>3. \A g \in Handlers : OnPath(node'[g])
  BY DEF NodeOK, NodesOnPath
<1> QED  BY <1>1, <1>2, <1>3 DEF NodeOK, NodesOnPath

LEMMA NodeSame ==
  ASSUME PodOK, NodeOK, NodesOnPath, UNCHANGED node, call' \in {call, NoHandler}
  PROVE  NodeOK' /\ NodesOnPath'
BY DEF NodeOK, NodesOnPath

(* What a goroutine on its way knows of itself.                            *)
LEMMA OnPathFacts ==
  ASSUME NodeOK, NodesOnPath, NEW h \in Handlers, node[h].pc # "idle"
  PROVE  \/ /\ node[h].op = "publish" /\ node[h].key \in Keys
            /\ node[h].pc \in {"check", "config", "post", "wait"}
         \/ node[h].op = "unpublish" /\ node[h].pc \in {"post", "wait", "remove"}
BY IdleFacts DEF NodesOnPath, OnPath

(* Steps along the path.                                                   *)
LEMMA NodeGoes ==
  ASSUME PodOK, NodeOK, NodesOnPath, NEW h \in Handlers,
         NEW l \in {"config", "post", "wait", "remove"},
         node[h].pc # "idle", NodeGoto(h, l),
         node[h].op = "publish" => l # "remove",
         node[h].op = "unpublish" => l # "config",
         UNCHANGED call
  PROVE  NodeOK' /\ NodesOnPath'
<1> DEFINE r == [pc |-> l, op |-> node[h].op, key |-> node[h].key]
<1>0. node \in [Handlers -> NodeType] /\ node[h] \in NodeType
  BY DEF NodeOK
<1>1. node' = [node EXCEPT ![h] = r]
  BY <1>0, NodeGotoView
<1>2. r \in NodeType
  BY <1>0 DEF NodeType
<1>3. r.pc = l /\ r.op = node[h].op /\ r.key = node[h].key
  OBVIOUS
<1> HIDE DEF r
<1>4. OnPath(r)
  BY <1>3, OnPathFacts DEF OnPath
<1> QED  BY <1>1, <1>2, <1>3, <1>4, NodeMoves

(* The plugin's goroutines after every step.                               *)
LEMMA NodeStays ==
  ASSUME TypeOK, PathInv, [Next]_vars
  PROVE  NodeOK' /\ NodesOnPath'
<1>0. PodOK /\ NodeOK /\ NodesOnPath
  BY TypeParts DEF PathInv, NodesOnPath
<1>1. ASSUME NEW h \in Handlers, Errors(h) PROVE NodeOK' /\ NodesOnPath'
  BY <1>0, <1>1, ErrorsView, NodeReturns DEF ReturnError
<1>2. ASSUME NEW h \in Handlers, SrvOnly(h) \/ HostSteps(h)
      PROVE  NodeOK' /\ NodesOnPath'
  <2>1. UNCHANGED <<call, node>>
    BY <1>2, SrvOnlyView DEF HostSteps, FuseStart, WaitForMountTimeout, Unmount,
       ProcessKill, podVars
  <2> QED  BY <1>0, <2>1, NodeSame
<1>3. ASSUME NEW h \in Handlers, NodePublishVolume(h) PROVE NodeOK' /\ NodesOnPath'
  <2> DEFINE r == [pc |-> "check", op |-> "publish", key |-> secret]
  <2>1. node' = [node EXCEPT ![h] = r] /\ call' = h
    BY <1>3 DEF NodePublishVolume
  <2>2. r \in NodeType /\ OnPath(r) /\ r.pc # "idle"
    BY <1>0 DEF NodeType, OnPath, PodOK
  <2> QED  BY <1>0, <2>1, <2>2, NodeMoves
<1>4. ASSUME NEW h \in Handlers, NodeUnpublishVolume(h)
      PROVE  NodeOK' /\ NodesOnPath'
  <2> DEFINE r == [IdleNode EXCEPT !.pc = "post", !.op = "unpublish"]
  <2>1. node' = [node EXCEPT ![h] = r] /\ call' = h
    BY <1>4 DEF NodeUnpublishVolume
  <2>2. r \in NodeType /\ OnPath(r) /\ r.pc # "idle"
    BY <1>0 DEF NodeType, OnPath, PodOK, IdleNode
  <2> QED  BY <1>0, <2>1, <2>2, NodeMoves
<1>5. ASSUME NEW h \in Handlers, CheckMountOk(h) PROVE NodeOK' /\ NodesOnPath'
  <2>1. node[h].pc = "check" /\ NodeGoto(h, "config") /\ UNCHANGED call
    BY <1>5 DEF CheckMountOk, podVars
  <2>2. node[h].op = "publish"
    BY <1>0, <2>1, OnPathFacts
  <2> QED  BY <1>0, <2>1, <2>2, NodeGoes
<1>6. ASSUME NEW h \in Handlers, WriteConfig(h) \/ MounterRequest(h)
      PROVE  NodeOK' /\ NodesOnPath'
  <2>1. /\ node[h].pc # "idle" /\ (NodeGoto(h, "post") \/ NodeGoto(h, "wait"))
        /\ UNCHANGED call
    BY <1>6 DEF WriteConfig, MounterRequest, podVars
  <2> QED  BY <1>0, <2>1, NodeGoes
<1>7. ASSUME NEW h \in Handlers, UnpublishAnswered(h)
      PROVE  NodeOK' /\ NodesOnPath'
  <2>1. /\ node[h].pc = "wait" /\ node[h].op = "unpublish"
        /\ NodeGoto(h, "remove") /\ UNCHANGED call
    BY <1>7 DEF UnpublishAnswered, podVars
  <2> QED  BY <1>0, <2>1, NodeGoes
<1>8. ASSUME NEW h \in Handlers,
             MounterRequestTimeout(h) \/ PublishReply(h) \/ UnpublishReply(h)
      PROVE  NodeOK' /\ NodesOnPath'
  BY <1>0, <1>8, NodeReturns
  DEF MounterRequestTimeout, PublishReply, UnpublishReply, podVars
<1>9. ASSUME NEW d \in Daemons,
             DaemonMount(d) \/ DaemonFail(d) \/ DaemonExit(d) \/ DaemonCrash(d)
      PROVE  NodeOK' /\ NodesOnPath'
  BY <1>0, <1>9, NodeSame
  DEF DaemonMount, DaemonFail, DaemonExit, DaemonCrash, podVars
<1>10. CASE PluginCrash
  <2>1. call' = NoHandler /\ node' = [h \in Handlers |-> IdleNode]
    BY <1>10 DEF PluginCrash, Unanswered
  <2> QED  BY <2>1, IdleFacts DEF NodeOK, NodesOnPath, OnPath
<1>11. CASE (Others /\ ~PluginCrash) \/ UNCHANGED vars
  <2>1. UNCHANGED node /\ call' \in {call, NoHandler}
    BY <1>11 DEF Others, NodeUnpublishReject, PluginUnavailable, DeletePod, Timeout,
       Unanswered, PluginStart, PluginStartErr, ServeErr, ServiceCrash,
       handleSignals, ServiceEnds, ServiceRestart, ServiceRestartErr,
       RotateSecret, podVars, vars
  <2> QED  BY <1>0, <2>1, NodeSame
<1> QED
  BY <1>1, <1>2, <1>3, <1>4, <1>5, <1>6, <1>7, <1>8, <1>9, <1>10, <1>11, StepCases

-----------------------------------------------------------------------------
(***************************************************************************)
(* The goroutines of the service, and the processes they wait for.         *)
(***************************************************************************)
LEMMA SrvSame ==
  ASSUME SrvOK, CommandsAgree, UNCHANGED <<srv, daemon>>
  PROVE  SrvOK' /\ CommandsAgree'
BY DEF SrvOK, CommandsAgree

(* A goroutine goes on, and waits for no other process than before.        *)
LEMMA SrvMoves ==
  ASSUME SrvOK, CommandsAgree, NEW h \in Handlers, NEW r \in SrvType,
         srv' = [srv EXCEPT ![h] = r], r.pc # "mounting",
         r.cmd \in {srv[h].cmd, "exited"},
         UNCHANGED daemon
  PROVE  SrvOK' /\ CommandsAgree'
<1>1. SrvOK'
  BY DEF SrvOK
<1>2. \A g \in Handlers : srv'[g] = IF g = h THEN r ELSE srv[g]
  BY DEF SrvOK
<1> QED  BY <1>1, <1>2, Words DEF CommandsAgree

LEMMA SrvGoes ==
  ASSUME SrvOK, CommandsAgree, NEW h \in Handlers,
         NEW l \in {"validate", "start", "isMountpoint", "unmount", "find"},
         SrvGoto(h, l), UNCHANGED daemon
  PROVE  SrvOK' /\ CommandsAgree'
<1> DEFINE r == [pc |-> l, cmd |-> srv[h].cmd]
<1>1. srv \in [Handlers -> SrvType] /\ srv[h] \in SrvType
  BY DEF SrvOK
<1>2. srv' = [srv EXCEPT ![h] = r]
  BY <1>1, SrvGotoView
<1>3. r \in SrvType /\ r.pc # "mounting" /\ r.cmd = srv[h].cmd
  BY <1>1 DEF SrvType
<1> QED  BY <1>2, <1>3, SrvMoves

LEMMA SrvReplies ==
  ASSUME SrvOK, CommandsAgree, NEW h \in Handlers, NEW res \in {"ok", "err"},
         SrvReply(h, res), UNCHANGED daemon
  PROVE  SrvOK' /\ CommandsAgree'
<1> DEFINE r == [pc |-> IF node[h].pc = "wait" THEN res ELSE "idle",
                 cmd |-> "exited"]
<1>1. srv' = [srv EXCEPT ![h] = r]
  BY AnsweredView DEF SrvReply, SrvOK
<1>2. r \in SrvType /\ r.pc # "mounting" /\ r.cmd = "exited"
  BY DEF SrvType
<1> QED  BY <1>1, <1>2, SrvMoves

LEMMA SrvIdles ==
  ASSUME SrvOK, CommandsAgree, NEW h \in Handlers,
         srv' = [srv EXCEPT ![h] = IdleSrv], UNCHANGED daemon
  PROVE  SrvOK' /\ CommandsAgree'
BY IdleFacts, SrvMoves

(* A process ends, and nobody waits for it any longer.                     *)
LEMMA SrvTold ==
  ASSUME HostOK, SrvOK, CommandsAgree, NEW d \in Daemons,
         NEW s \in [Handlers -> SrvType],
         \A g \in Handlers : \/ s[g] = srv[g]
                             \/ s[g].pc # "mounting" /\ s[g].cmd = "exited",
         srv' = ToldEnded(s, d), daemon' = [daemon EXCEPT ![d] = "none"]
  PROVE  SrvOK' /\ CommandsAgree'
<1>1. SrvOK'
  BY ToldEndedView DEF SrvOK
<1>2. /\ \A g \in Handlers :
           /\ srv'[g].pc = s[g].pc
           /\ srv'[g].cmd = IF s[g].cmd = d THEN "exited" ELSE s[g].cmd
  BY ToldEndedView
<1>3. \A e \in Daemons : e # d => daemon'[e] = daemon[e]
  BY DEF HostOK
<1>4. ASSUME NEW g \in Handlers, srv'[g].cmd \in Daemons
      PROVE  /\ daemon'[srv'[g].cmd] # "none"
             /\ srv'[g].pc = "mounting" => daemon'[srv'[g].cmd] = "starting"
  <2>1. srv'[g].cmd = s[g].cmd /\ s[g].cmd # d /\ s[g].cmd # "exited"
    BY <1>2, <1>4, Words
  <2>2. s[g] = srv[g]
    BY <2>1
  <2> QED  BY <1>2, <1>3, <1>4, <2>1, <2>2 DEF CommandsAgree
<1> QED  BY <1>1, <1>4 DEF CommandsAgree

(* The same after an answer to one goroutine.                              *)
LEMMA AnsweredTold ==
  ASSUME HostOK, SrvOK, CommandsAgree, NEW d \in Daemons, NEW h \in Handlers,
         NEW res \in {"ok", "err"},
         srv' = ToldEnded(Answered(h, res), d),
         daemon' = [daemon EXCEPT ![d] = "none"]
  PROVE  SrvOK' /\ CommandsAgree'
<1>1. /\ Answered(h, res) \in [Handlers -> SrvType]
      /\ Answered(h, res) = [srv EXCEPT ![h] =
           [pc |-> IF node[h].pc = "wait" THEN res ELSE "idle", cmd |-> "exited"]]
  BY AnsweredView DEF SrvOK
<1>2. \A g \in Handlers :
        \/ Answered(h, res)[g] = srv[g]
        \/ Answered(h, res)[g].pc # "mounting" /\ Answered(h, res)[g].cmd = "exited"
  BY <1>1 DEF SrvOK
<1> QED  BY <1>1, <1>2, SrvTold

(* The service's goroutines after every step.                              *)
LEMMA SrvStays ==
  ASSUME TypeOK, PathInv, [Next]_vars
  PROVE  SrvOK' /\ CommandsAgree'
<1>0. HostOK /\ SrvOK /\ CommandsAgree
  BY TypeParts DEF PathInv
<1>1. ASSUME NEW h \in Handlers, FuseStart(h) PROVE SrvOK' /\ CommandsAgree'
  <2>1. PICK d \in Daemons :
          /\ daemon[d] = "none"
          /\ daemon' = [daemon EXCEPT ![d] = "starting"]
          /\ srv' = [srv EXCEPT ![h] = [pc |-> "mounting", cmd |-> d]]
    BY <1>1 DEF FuseStart, Free
  <2>2. \A e \in Daemons : daemon'[e] = IF e = d THEN "starting" ELSE daemon[e]
    BY <1>0, <2>1 DEF HostOK
  <2>3. [pc |-> "mounting", cmd |-> d] \in SrvType
    BY DEF SrvType
  <2>4. SrvOK'
    BY <1>0, <2>1, <2>3 DEF SrvOK
  <2> QED  BY <1>0, <2>1, <2>2, <2>4 DEF SrvOK, CommandsAgree
<1>2. ASSUME NEW h \in Handlers, WaitForMountTimeout(h)
      PROVE  SrvOK' /\ CommandsAgree'
  BY <1>0, <1>2, AnsweredTold, SrvReplies DEF WaitForMountTimeout
<1>3. ASSUME NEW h \in Handlers, Unmount(h) PROVE SrvOK' /\ CommandsAgree'
  <2>1. /\ SrvGoto(h, "find") /\ Mounted
        /\ daemon' = IF Top = "broken" THEN daemon
                     ELSE [daemon EXCEPT ![Top] = "detached"]
    BY <1>3 DEF Unmount
  <2>2. Top # "broken" => Top \in Daemons /\ daemon[Top] = "serving"
    BY <1>0, <2>1, MountFacts DEF HostOK, TablesAgree
  <2>3. \A e \in Daemons : \/ daemon'[e] = daemon[e]
                           \/ daemon[e] = "serving" /\ daemon'[e] = "detached"
    BY <1>0, <2>1, <2>2 DEF HostOK
  <2>4. /\ srv' = [srv EXCEPT ![h] = [pc |-> "find", cmd |-> srv[h].cmd]]
        /\ srv[h] \in SrvType
    BY <1>0, <2>1, SrvGotoView DEF SrvOK
  <2>5. SrvOK'
    BY <1>0, <2>4 DEF SrvOK, SrvType
  <2>6. \A g \in Handlers : srv'[g].cmd = srv[g].cmd /\
                            (srv'[g].pc = "mounting" => srv[g].pc = "mounting")
    BY <1>0, <2>4 DEF SrvOK
  <2> QED  BY <1>0, <2>3, <2>5, <2>6 DEF CommandsAgree
<1>4. ASSUME NEW h \in Handlers, ProcessKill(h) PROVE SrvOK' /\ CommandsAgree'
  BY <1>0, <1>4, AnsweredTold DEF ProcessKill, Ended
<1>5. ASSUME NEW h \in Handlers, Errors(h) PROVE SrvOK' /\ CommandsAgree'
  <2>1. UNCHANGED srv \/ srv' = [srv EXCEPT ![h] = IdleSrv]
    BY <1>5 DEF Errors, CheckMountErr, WriteConfigErr, MounterRequestErr, ErrorReply
  <2> QED  BY <1>0, <1>5, <2>1, ErrorsView, SrvSame, SrvIdles
<1>6. ASSUME NEW h \in Handlers, FindProcess(h) PROVE SrvOK' /\ CommandsAgree'
  <2>1. PICK d \in Daemons :
          /\ daemon[d] # "none"
          /\ srv' = [srv EXCEPT ![h] = [pc |-> "process", cmd |-> d]]
    BY <1>6 DEF FindProcess, Running
  <2>2. [pc |-> "process", cmd |-> d] \in SrvType /\ UNCHANGED daemon
    BY <1>6 DEF SrvType, FindProcess, hostVars
  <2>3. SrvOK'
    BY <1>0, <2>1, <2>2 DEF SrvOK
  <2> QED  BY <1>0, <2>1, <2>2, <2>3 DEF SrvOK, CommandsAgree
<1>7. ASSUME NEW h \in Handlers, SrvOnly(h), ~FindProcess(h)
      PROVE  SrvOK' /\ CommandsAgree'
  <2>1. UNCHANGED daemon
    BY <1>7, SrvOnlyView DEF hostVars
  <2>2. \/ SrvGoto(h, "start") \/ SrvGoto(h, "unmount") \/ SrvGoto(h, "find")
        \/ SrvReply(h, "ok") \/ SrvReply(h, "err")
    BY <1>7 DEF SrvOnly, ParseMounterArgs, FuseStartErr, WaitForMountOk,
       CommandFailed, IsMountpoint, UnmountErr, FindNoProcess, ProcessGone
  <2> QED  BY <1>0, <2>1, <2>2, SrvGoes, SrvReplies
<1>8. ASSUME NEW h \in Handlers, MounterRequest(h) PROVE SrvOK' /\ CommandsAgree'
  BY <1>0, <1>8, SrvGoes DEF MounterRequest, hostVars
<1>9. ASSUME NEW h \in Handlers, PublishReply(h) \/ UnpublishAnswered(h)
      PROVE  SrvOK' /\ CommandsAgree'
  BY <1>0, <1>9, SrvIdles DEF PublishReply, UnpublishAnswered, hostVars
<1>10. ASSUME NEW h \in Handlers,
              \/ NodePublishVolume(h) \/ NodeUnpublishVolume(h) \/ CheckMountOk(h)
              \/ WriteConfig(h) \/ MounterRequestTimeout(h) \/ UnpublishReply(h)
       PROVE  SrvOK' /\ CommandsAgree'
  BY <1>0, <1>10, SrvSame
  DEF NodePublishVolume, NodeUnpublishVolume, CheckMountOk, WriteConfig,
      MounterRequestTimeout, UnpublishReply, hostVars
<1>11. ASSUME NEW d \in Daemons, DaemonMount(d) PROVE SrvOK' /\ CommandsAgree'
  <2>1. /\ daemon[d] = "starting" /\ daemon' = [daemon EXCEPT ![d] = "serving"]
        /\ srv' = [g \in Handlers |->
             IF srv[g].pc = "mounting" /\ srv[g].cmd = d
             THEN [srv[g] EXCEPT !.cmd = "running"] ELSE srv[g]]
    BY <1>11 DEF DaemonMount
  <2>2. \A e \in Daemons : daemon'[e] = IF e = d THEN "serving" ELSE daemon[e]
    BY <1>0, <2>1 DEF HostOK
  <2>3. ASSUME NEW g \in Handlers
        PROVE  /\ srv'[g] \in SrvType
               /\ srv'[g].pc = srv[g].pc
               /\ srv'[g].cmd = IF srv[g].pc = "mounting" /\ srv[g].cmd = d
                                THEN "running" ELSE srv[g].cmd
    <3>1. srv[g] \in SrvType
      BY <1>0 DEF SrvOK
    <3>2. /\ [srv[g] EXCEPT !.cmd = "running"] \in SrvType
          /\ [srv[g] EXCEPT !.cmd = "running"].pc = srv[g].pc
          /\ [srv[g] EXCEPT !.cmd = "running"].cmd = "running"
      BY <3>1 DEF SrvType
    <3> QED  BY <2>1, <3>1, <3>2
  <2>4. SrvOK'
    BY <2>1, <2>3 DEF SrvOK
  <2> QED  BY <1>0, <2>1, <2>2, <2>3, <2>4, Words DEF CommandsAgree
<1>12. ASSUME NEW d \in Daemons, DaemonFail(d) \/ DaemonExit(d) \/ DaemonCrash(d)
       PROVE  SrvOK' /\ CommandsAgree'
  <2>1. srv' = ToldEnded(srv, d) /\ daemon' = [daemon EXCEPT ![d] = "none"]
    BY <1>12 DEF DaemonFail, DaemonExit, DaemonCrash, Ended
  <2> QED  BY <1>0, <2>1, SrvTold DEF SrvOK
<1>13. CASE PluginCrash \/ ServiceCrash \/ handleSignals
  <2>1. /\ UNCHANGED daemon
        /\ \/ srv' = [h \in Handlers |->
                IF srv[h].pc \in {"ok", "err"} THEN IdleSrv ELSE srv[h]]
           \/ srv' = [h \in Handlers |->
                IF node[h].pc = "wait" THEN [IdleSrv EXCEPT !.pc = "err"] ELSE IdleSrv]
    BY <1>13 DEF PluginCrash, ServiceCrash, handleSignals, ServiceEnds, hostVars
  <2>2. /\ [IdleSrv EXCEPT !.pc = "err"] \in SrvType
        /\ [IdleSrv EXCEPT !.pc = "err"].cmd = "exited"
    BY DEF IdleSrv, SrvType
  <2>3. \A h \in Handlers : /\ srv'[h] \in SrvType
                            /\ srv'[h] = srv[h] \/ srv'[h].cmd = "exited"
    BY <1>0, <2>1, <2>2, IdleFacts DEF SrvOK
  <2>4. SrvOK'
    BY <2>1, <2>3 DEF SrvOK
  <2> QED  BY <1>0, <2>1, <2>3, <2>4, Words DEF CommandsAgree
<1>14. CASE \/ Others /\ ~(PluginCrash \/ ServiceCrash \/ handleSignals)
            \/ UNCHANGED vars
  <2>1. UNCHANGED <<srv, daemon>>
    BY <1>14 DEF Others, NodeUnpublishReject, PluginUnavailable, DeletePod, Timeout,
       PluginStart, PluginStartErr, ServeErr, ServiceRestart, ServiceRestartErr,
       RotateSecret, hostVars, vars
  <2> QED  BY <1>0, <2>1, SrvSame
<1> QED
  BY <1>1, <1>2, <1>3, <1>4, <1>5, <1>6, <1>7, <1>8, <1>9, <1>10, <1>11, <1>12,
     <1>13, <1>14, StepCases DEF HostSteps

-----------------------------------------------------------------------------
(***************************************************************************)
(* The kubelet, the credential file, and what is observed.                 *)
(***************************************************************************)
LEMMA PodStays ==
  ASSUME TypeOK, [Next]_vars
  PROVE  PodOK'
<1>0. PodOK
  BY TypeParts
<1>1. ASSUME NEW h \in Handlers, Errors(h) PROVE PodOK'
  BY <1>0, <1>1, ErrorsView DEF ReturnError, PodOK, k8sVars
<1>2. ASSUME NEW h \in Handlers, SrvOnly(h) \/ HostSteps(h) PROVE PodOK'
  <2>1. UNCHANGED podVars
    BY <1>2, SrvOnlyView DEF HostSteps, FuseStart, WaitForMountTimeout, Unmount,
       ProcessKill
  <2> QED  BY <1>0, <2>1 DEF PodOK, podVars, k8sVars
<1>3. ASSUME NEW h \in Handlers,
             \/ NodePublishVolume(h) \/ NodeUnpublishVolume(h)
             \/ CheckMountOk(h) \/ WriteConfig(h) \/ MounterRequest(h)
             \/ MounterRequestTimeout(h) \/ PublishReply(h)
             \/ UnpublishAnswered(h) \/ UnpublishReply(h)
      PROVE  PodOK'
  BY <1>0, <1>3
  DEF NodePublishVolume, NodeUnpublishVolume, CheckMountOk, WriteConfig,
      MounterRequest, MounterRequestTimeout, PublishReply, UnpublishAnswered,
      UnpublishReply, PodOK, podVars, k8sVars
<1>4. ASSUME NEW d \in Daemons,
             DaemonMount(d) \/ DaemonFail(d) \/ DaemonExit(d) \/ DaemonCrash(d)
      PROVE  PodOK'
  BY <1>0, <1>4
  DEF DaemonMount, DaemonFail, DaemonExit, DaemonCrash, PodOK, podVars, k8sVars
<1>5. CASE Others \/ UNCHANGED vars
  BY <1>0, <1>5
  DEF Others, NodeUnpublishReject, PluginUnavailable, DeletePod, Timeout,
      PluginCrash, Unanswered, PluginStart, PluginStartErr, ServeErr, ServiceCrash,
      handleSignals, ServiceEnds, ServiceRestart, ServiceRestartErr,
      RotateSecret, PodOK, podVars, k8sVars, vars
<1> QED  BY <1>1, <1>2, <1>3, <1>4, <1>5, StepCases

(* A step has no fault or one.                                             *)
LEMMA FaultsGrow ==
  ASSUME TypeOK, [Next]_vars
  PROVE  \/ UNCHANGED faultVars
         \/ \E k \in FaultKind : Fault(k)
<1>1. ASSUME NEW h \in Handlers, Errors(h) \/ SrvOnly(h) \/ HostSteps(h)
      PROVE  UNCHANGED faultVars \/ \E k \in FaultKind : Fault(k)
  BY <1>1
  DEF Errors, CheckMountErr, WriteConfigErr, MounterRequestErr, ErrorReply, SrvOnly,
      ParseMounterArgs, FuseStartErr, WaitForMountOk, CommandFailed, IsMountpoint,
      UnmountErr, FindProcess, FindNoProcess, ProcessGone, HostSteps, FuseStart,
      WaitForMountTimeout, Unmount, ProcessKill, NoFault, FaultKind
<1>2. ASSUME NEW h \in Handlers,
             \/ NodePublishVolume(h) \/ NodeUnpublishVolume(h)
             \/ CheckMountOk(h) \/ WriteConfig(h) \/ MounterRequest(h)
             \/ MounterRequestTimeout(h) \/ PublishReply(h)
             \/ UnpublishAnswered(h) \/ UnpublishReply(h)
      PROVE  UNCHANGED faultVars \/ \E k \in FaultKind : Fault(k)
  BY <1>2
  DEF NodePublishVolume, NodeUnpublishVolume, CheckMountOk, WriteConfig,
      MounterRequest, MounterRequestTimeout, PublishReply, UnpublishAnswered,
      UnpublishReply, RemoveCredFile, NoFault, FaultKind
<1>3. ASSUME NEW d \in Daemons,
             DaemonMount(d) \/ DaemonFail(d) \/ DaemonExit(d) \/ DaemonCrash(d)
      PROVE  UNCHANGED faultVars \/ \E k \in FaultKind : Fault(k)
  BY <1>3
  DEF DaemonMount, DaemonFail, DaemonExit, DaemonCrash, NoFault, FaultKind
<1>4. CASE Others \/ UNCHANGED vars
  BY <1>4
  DEF Others, NodeUnpublishReject, PluginUnavailable, DeletePod, Timeout,
      PluginCrash, PluginStart, PluginStartErr, ServeErr, ServiceCrash,
      handleSignals, ServiceRestart, ServiceRestartErr, RotateSecret, FaultKind, vars
<1> QED  BY <1>1, <1>2, <1>3, <1>4, StepCases

LEMMA FaultTypes ==
  ASSUME RestOK, UNCHANGED faultVars \/ \E k \in FaultKind : Fault(k)
  PROVE  seen' \in SUBSET FaultKind /\ budget' \in 0..MaxFaults /\ seen \subseteq seen'
<1>1. MaxFaults \in Nat
  BY ConstantsAssumption
<1> QED  BY <1>1 DEF RestOK, Fault, faultVars

(* Only NodePublishVolume writes the credential file, and only the end of  *)
(* NodeUnpublishVolume removes it.                                         *)
LEMMA CredView ==
  ASSUME TypeOK, [Next]_vars
  PROVE  \/ UNCHANGED cred
         \/ \E h \in Handlers : WriteConfig(h)
         \/ cred' = NoCred /\ \E h \in Handlers : UnpublishReply(h)
<1>1. ASSUME NEW h \in Handlers, Errors(h) \/ SrvOnly(h) \/ HostSteps(h)
      PROVE  UNCHANGED cred
  BY <1>1, ErrorsView, SrvOnlyView
  DEF HostSteps, FuseStart, WaitForMountTimeout, Unmount, ProcessKill
<1>2. ASSUME NEW h \in Handlers,
             \/ NodePublishVolume(h) \/ NodeUnpublishVolume(h) \/ CheckMountOk(h)
             \/ MounterRequest(h) \/ MounterRequestTimeout(h) \/ PublishReply(h)
             \/ UnpublishAnswered(h)
      PROVE  UNCHANGED cred
  BY <1>2
  DEF NodePublishVolume, NodeUnpublishVolume, CheckMountOk, MounterRequest,
      MounterRequestTimeout, PublishReply, UnpublishAnswered
<1>3. ASSUME NEW h \in Handlers, UnpublishReply(h)
      PROVE  UNCHANGED cred \/ cred' = NoCred
  BY <1>3 DEF UnpublishReply, RemoveCredFile
<1>4. ASSUME NEW d \in Daemons,
             DaemonMount(d) \/ DaemonFail(d) \/ DaemonExit(d) \/ DaemonCrash(d)
      PROVE  UNCHANGED cred
  BY <1>4 DEF DaemonMount, DaemonFail, DaemonExit, DaemonCrash
<1>5. CASE Others \/ UNCHANGED vars
  BY <1>5, OthersView DEF vars
<1> QED  BY <1>1, <1>2, <1>3, <1>4, <1>5, StepCases

LEMMA CredStays ==
  ASSUME TypeOK, PathInv, [Next]_vars
  PROVE  cred' \in [key : Keys \cup {NoKey}, len : Nat]
<1>0. cred \in [key : Keys \cup {NoKey}, len : Nat] /\ NodeOK /\ NodesOnPath
  BY TypeParts DEF RestOK, PathInv, NodesOnPath
<1>1. ASSUME NEW h \in Handlers, WriteConfig(h)
      PROVE  cred' \in [key : Keys \cup {NoKey}, len : Nat]
  <2>1. node[h].pc = "config" /\ cred' = Written(node[h].key)
    BY <1>1 DEF WriteConfig
  <2>2. node[h].key \in Keys
    BY <1>0, <2>1, OnPathFacts
  <2>3. KeyLen[node[h].key] \in Nat /\ cred.len \in Nat
    BY <1>0, <2>2, ConstantsAssumption
  <2> QED  BY <2>1, <2>2, <2>3 DEF Written, writePass, createConfig
<1>2. NoCred \in [key : Keys \cup {NoKey}, len : Nat]
  BY DEF NoCred
<1> QED  BY <1>0, <1>1, <1>2, CredView

LEMMA ProcsStay ==
  ASSUME RestOK, [Next]_vars
  PROVE  /\ plugin' \in {"serving", "down", "hung"}
         /\ service' \in {"serving", "down", "stopped"}
<1>1. ASSUME NEW h \in Handlers, Errors(h) \/ SrvOnly(h) \/ HostSteps(h)
      PROVE  UNCHANGED procVars
  BY <1>1, ErrorsView, SrvOnlyView
  DEF HostSteps, FuseStart, WaitForMountTimeout, Unmount, ProcessKill
<1>2. ASSUME NEW h \in Handlers,
             \/ NodePublishVolume(h) \/ NodeUnpublishVolume(h)
             \/ CheckMountOk(h) \/ WriteConfig(h) \/ MounterRequest(h)
             \/ MounterRequestTimeout(h) \/ PublishReply(h)
             \/ UnpublishAnswered(h) \/ UnpublishReply(h)
      PROVE  UNCHANGED procVars
  BY <1>2
  DEF NodePublishVolume, NodeUnpublishVolume, CheckMountOk, WriteConfig,
      MounterRequest, MounterRequestTimeout, PublishReply, UnpublishAnswered,
      UnpublishReply
<1>3. ASSUME NEW d \in Daemons,
             DaemonMount(d) \/ DaemonFail(d) \/ DaemonExit(d) \/ DaemonCrash(d)
      PROVE  UNCHANGED procVars
  BY <1>3 DEF DaemonMount, DaemonFail, DaemonExit, DaemonCrash
<1>4. CASE Others \/ UNCHANGED vars
  BY <1>4
  DEF Others, NodeUnpublishReject, PluginUnavailable, DeletePod, Timeout,
      PluginCrash, PluginStart, PluginStartErr, ServeErr, ServiceCrash,
      handleSignals, ServiceEnds, ServiceRestart, ServiceRestartErr,
      RotateSecret, RestOK, procVars, vars
<1>5. CASE UNCHANGED procVars
  BY <1>5 DEF RestOK, procVars
<1> QED  BY <1>1, <1>2, <1>3, <1>4, <1>5, StepCases

(***************************************************************************)
(* TypeOK and PathInv are inductive together.                              *)
(***************************************************************************)
LEMMA TypeStep ==
  ASSUME TypeOK, PathInv, [Next]_vars
  PROVE  TypeOK' /\ PathInv'
<1>1. RestOK
  BY TypeParts
<1>2. RestOK'
  BY <1>1, CredStays, ProcsStay, FaultsGrow, FaultTypes DEF RestOK
<1>3. PathInv'
  BY NodeStays, SrvStays DEF PathInv, NodesOnPath
<1> QED
  BY <1>2, <1>3, PodStays, HostStep, NodeStays, SrvStays, TypePartsNext

LEMMA TypeInit ==
  ASSUME Init
  PROVE  TypeOK /\ PathInv
<1>1. /\ mounts = <<>> /\ mounts \in Seq(Daemons \cup {"broken"})
      /\ DOMAIN mounts = {}
  BY EmptySeq DEF Init
<1>2. TablesAgree
  BY <1>1 DEF Init, TablesAgree, Mounted
<1>3. MaxFaults \in Nat
  BY ConstantsAssumption
<1>4. budget \in 0..MaxFaults
  BY <1>3 DEF Init
<1>5. /\ node \in [Handlers -> NodeType] /\ srv \in [Handlers -> SrvType]
      /\ call = NoHandler
  BY IdleFacts DEF Init
<1>6. cred \in [key : Keys \cup {NoKey}, len : Nat]
  BY DEF Init, NoCred
<1>7. PathInv
  BY IdleFacts, Words DEF Init, PathInv, OnPath, CommandsAgree
<1> QED  BY <1>1, <1>2, <1>4, <1>5, <1>6, <1>7 DEF TypeOK, Init

(* Every variable keeps its type, the kubelet awaits only a goroutine that *)
(* serves it, and the mount table and the process table agree, however     *)
(* calls, crashes, restarts and FUSE processes interleave.                 *)
THEOREM TypeCorrect == Spec => []TypeOK
<1>1. Init => TypeOK /\ PathInv
  BY TypeInit
<1>2. TypeOK /\ PathInv /\ [Next]_vars => (TypeOK /\ PathInv)'
  BY TypeStep
<1> QED  BY <1>1, <1>2, PTL DEF Spec

-----------------------------------------------------------------------------
(***************************************************************************)
(* A pod that runs is served.  Until the pod is told to stop nothing       *)
(* unmounts the path, so the mount that a success was about stays.         *)
(***************************************************************************)

(* Where an answer and a step leave the goroutines of the service.         *)
LEMMA ReplyPcs ==
  ASSUME SrvOK, NEW h \in Handlers, NEW r \in {"ok", "err"}, SrvReply(h, r)
  PROVE  /\ \A g \in Handlers \ {h} : srv'[g] = srv[g]
         /\ srv'[h].pc = (IF node[h].pc = "wait" THEN r ELSE "idle")
         /\ srv'[h].cmd = "exited"
BY AnsweredView DEF SrvOK, SrvReply

LEMMA GotoPcs ==
  ASSUME SrvOK, NEW h \in Handlers, NEW l, SrvGoto(h, l)
  PROVE  /\ \A g \in Handlers \ {h} : srv'[g] = srv[g]
         /\ srv'[h].pc = l
         /\ srv'[h].cmd = srv[h].cmd
BY SrvGotoView DEF SrvOK

LEMMA ToldPcs ==
  ASSUME SrvOK, NEW h \in Handlers, NEW r \in {"ok", "err"}, NEW d \in Daemons,
         srv' = ToldEnded(Answered(h, r), d)
  PROVE  /\ \A g \in Handlers \ {h} :
              /\ srv'[g].pc = srv[g].pc
              /\ srv'[g].cmd = IF srv[g].cmd = d THEN "exited" ELSE srv[g].cmd
         /\ srv'[h].pc = (IF node[h].pc = "wait" THEN r ELSE "idle")
         /\ srv'[h].cmd = "exited"
<1>0. PICK a : a = Answered(h, r)
  OBVIOUS
<1>1. /\ a \in [Handlers -> SrvType]
      /\ a = [srv EXCEPT ![h] =
           [pc |-> IF node[h].pc = "wait" THEN r ELSE "idle", cmd |-> "exited"]]
  BY <1>0, AnsweredView DEF SrvOK
<1>2. \A g \in Handlers :
        /\ srv'[g].pc = a[g].pc
        /\ srv'[g].cmd = IF a[g].cmd = d THEN "exited" ELSE a[g].cmd
  <2>1. srv' = ToldEnded(a, d)
    BY <1>0
  <2>2. a \in [Handlers -> SrvType]
    BY <1>1
  <2>3. \A g \in Handlers :
          /\ ToldEnded(a, d)[g].pc = a[g].pc
          /\ ToldEnded(a, d)[g].cmd = IF a[g].cmd = d THEN "exited" ELSE a[g].cmd
    BY <2>2, ToldEndedView, Zenon
  <2> QED  BY <2>1, <2>3, Zenon
<1>3. /\ \A g \in Handlers \ {h} : a[g] = srv[g]
      /\ a[h].pc = (IF node[h].pc = "wait" THEN r ELSE "idle")
      /\ a[h].cmd = "exited"
  BY <1>1 DEF SrvOK
<1> QED  BY <1>2, <1>3

(* A goroutine of the plugin keeps its operation.                          *)
LEMMA GotoKeepsOp ==
  ASSUME node \in [Handlers -> NodeType], NEW h \in Handlers, NEW l,
         NodeGoto(h, l)
  PROVE  /\ \A g \in Handlers : node'[g].op = node[g].op
         /\ \A g \in Handlers \ {h} : node'[g] = node[g]
         /\ node'[h].pc = l
<1>1. /\ \A g \in Handlers \ {h} : node'[g] = node[g]
      /\ node'[h] = [pc |-> l, op |-> node[h].op, key |-> node[h].key]
  BY NodeGotoView, Zenon
<1> QED  BY <1>1

(* Nobody returns to the time before the first NodeUnpublishVolume.        *)
LEMMA EarlyBefore ==
  ASSUME TypeOK, PathInv, ServedInv, [Next]_vars, Early'
  PROVE  Early
<1>1. ASSUME NEW h \in Handlers, Errors(h) PROVE Early
  BY <1>1, ErrorsView DEF ReturnError, Early
<1>2. ASSUME NEW h \in Handlers, SrvOnly(h) \/ HostSteps(h) PROVE Early
  BY <1>2, SrvOnlyView
  DEF HostSteps, FuseStart, WaitForMountTimeout, Unmount, ProcessKill, podVars, Early
<1>3. ASSUME NEW h \in Handlers, PublishReply(h) PROVE Early
  BY <1>3, Words DEF PublishReply, ServedInv, CallServes, Early
<1>4. ASSUME NEW h \in Handlers,
             \/ NodePublishVolume(h) \/ NodeUnpublishVolume(h)
             \/ CheckMountOk(h) \/ WriteConfig(h) \/ MounterRequest(h)
             \/ MounterRequestTimeout(h) \/ UnpublishAnswered(h) \/ UnpublishReply(h)
      PROVE  Early
  BY <1>4
  DEF NodePublishVolume, NodeUnpublishVolume, CheckMountOk, WriteConfig,
      MounterRequest, MounterRequestTimeout, UnpublishAnswered, UnpublishReply,
      podVars, Early
<1>5. ASSUME NEW d \in Daemons,
             DaemonMount(d) \/ DaemonFail(d) \/ DaemonExit(d) \/ DaemonCrash(d)
      PROVE  Early
  BY <1>5 DEF DaemonMount, DaemonFail, DaemonExit, DaemonCrash, podVars, Early
<1>6. CASE Others \/ UNCHANGED vars
  BY <1>6
  DEF Others, NodeUnpublishReject, PluginUnavailable, DeletePod, Timeout,
      PluginCrash, Unanswered, PluginStart, PluginStartErr, ServeErr, ServiceCrash,
      handleSignals, ServiceEnds, ServiceRestart, ServiceRestartErr,
      RotateSecret, podVars, vars, Early
<1> QED  BY <1>1, <1>2, <1>3, <1>4, <1>5, <1>6, StepCases

(* What the kubelet waits for is what it asked for.                        *)
LEMMA CallStays ==
  ASSUME TypeOK, PathInv, ServedInv, [Next]_vars
  PROVE  CallServes'
<1>0. PodOK /\ NodeOK /\ NodesOnPath /\ CallServes /\ node \in [Handlers -> NodeType]
  BY TypeParts DEF PathInv, NodesOnPath, ServedInv, NodeOK
<1>1. CASE call' = NoHandler
  BY <1>1 DEF CallServes
<1>2. CASE call' = call /\ call # NoHandler /\ pod' = pod /\ node'[call].op = node[call].op
  BY <1>0, <1>2 DEF CallServes
<1>3. ASSUME NEW h \in Handlers, Errors(h) PROVE CallServes'
  <2>1. ReturnError(h)
    BY <1>3, ErrorsView
  <2> QED  BY <1>0, <1>1, <1>2, <2>1 DEF ReturnError, PodOK
<1>4. ASSUME NEW h \in Handlers, SrvOnly(h) \/ HostSteps(h) PROVE CallServes'
  <2>1. UNCHANGED <<pod, call, node>>
    BY <1>4, SrvOnlyView
    DEF HostSteps, FuseStart, WaitForMountTimeout, Unmount, ProcessKill, podVars
  <2> QED  BY <1>1, <1>2, <2>1
<1>5. ASSUME NEW h \in Handlers, NodePublishVolume(h) \/ NodeUnpublishVolume(h)
      PROVE  CallServes'
  <2>1. CASE NodePublishVolume(h)
    <3>1. call' = h /\ pod' \in {"starting", "uncertain"} /\ node'[h].op = "publish"
      BY <1>0, <2>1 DEF NodePublishVolume
    <3> QED  BY <3>1 DEF CallServes
  <2>2. CASE NodeUnpublishVolume(h)
    <3>1. [IdleNode EXCEPT !.pc = "post", !.op = "unpublish"].op = "unpublish"
      BY DEF IdleNode
    <3>2. call' = h /\ pod' = "stopping" /\ node'[h].op = "unpublish"
      BY <1>0, <2>2, <3>1 DEF NodeUnpublishVolume
    <3> QED  BY <3>2 DEF CallServes
  <2> QED  BY <1>5, <2>1, <2>2
<1>6. ASSUME NEW h \in Handlers, NEW l, NodeGoto(h, l), UNCHANGED <<pod, call>>
      PROVE  CallServes'
  <2>1. \A g \in Handlers : node'[g].op = node[g].op
    BY <1>0, <1>6, GotoKeepsOp, Zenon
  <2> QED  BY <1>0, <1>1, <1>2, <1>6, <2>1 DEF PodOK
<1>7. ASSUME NEW h \in Handlers,
             CheckMountOk(h) \/ WriteConfig(h) \/ MounterRequest(h) \/ UnpublishAnswered(h)
      PROVE  CallServes'
  BY <1>6, <1>7
  DEF CheckMountOk, WriteConfig, MounterRequest, UnpublishAnswered, podVars
<1>8. ASSUME NEW h \in Handlers,
             MounterRequestTimeout(h) \/ PublishReply(h) \/ UnpublishReply(h)
      PROVE  CallServes'
  <2>1. /\ node' = [node EXCEPT ![h] = IdleNode]
        /\ call' = NoHandler \/ (call' = call /\ call # h /\ pod' = pod)
    BY <1>8 DEF MounterRequestTimeout, PublishReply, UnpublishReply, podVars
  <2> QED  BY <1>0, <1>1, <1>2, <2>1 DEF PodOK
<1>9. ASSUME NEW d \in Daemons,
             DaemonMount(d) \/ DaemonFail(d) \/ DaemonExit(d) \/ DaemonCrash(d)
      PROVE  CallServes'
  BY <1>1, <1>2, <1>9 DEF DaemonMount, DaemonFail, DaemonExit, DaemonCrash, podVars
<1>10. CASE Others \/ UNCHANGED vars
  <2>1. call' = NoHandler \/ UNCHANGED <<pod, call, node>>
    BY <1>10
    DEF Others, NodeUnpublishReject, PluginUnavailable, DeletePod, Timeout,
        PluginCrash, Unanswered, PluginStart, PluginStartErr, ServeErr, ServiceCrash,
        handleSignals, ServiceEnds, ServiceRestart, ServiceRestartErr,
        RotateSecret, podVars, vars
  <2> QED  BY <1>1, <1>2, <2>1
<1> QED  BY <1>3, <1>4, <1>5, <1>7, <1>8, <1>9, <1>10, StepCases

(* Before the pod stops, only NodePublishVolume is at work.                *)
LEMMA EarlyNode ==
  ASSUME TypeOK, PathInv, ServedInv, [Next]_vars, Early, Early'
  PROVE  \A g \in Handlers : node'[g].op # "unpublish"
<1>0. /\ node \in [Handlers -> NodeType]
      /\ \A g \in Handlers : node[g].op # "unpublish"
  BY DEF TypeOK, ServedInv, NothingUnmounts
<1>1. CASE UNCHANGED node
  BY <1>0, <1>1
<1>2. ASSUME NEW h \in Handlers, node' = [node EXCEPT ![h] = IdleNode]
      PROVE  \A g \in Handlers : node'[g].op # "unpublish"
  BY <1>0, <1>2, IdleFacts
<1>3. ASSUME NEW h \in Handlers, NEW l, NodeGoto(h, l)
      PROVE  \A g \in Handlers : node'[g].op # "unpublish"
  <2>1. \A g \in Handlers : node'[g].op = node[g].op
    BY <1>0, <1>3, GotoKeepsOp, Zenon
  <2> QED  BY <1>0, <2>1
<1>4. ASSUME NEW h \in Handlers, Errors(h) PROVE \E g \in Handlers : node' = [node EXCEPT ![g] = IdleNode]
  BY <1>4, ErrorsView DEF ReturnError
<1>5. ASSUME NEW h \in Handlers, SrvOnly(h) \/ HostSteps(h) PROVE UNCHANGED node
  BY <1>5, SrvOnlyView
  DEF HostSteps, FuseStart, WaitForMountTimeout, Unmount, ProcessKill
<1>6. ASSUME NEW h \in Handlers, NodePublishVolume(h)
      PROVE  \A g \in Handlers : node'[g].op # "unpublish"
  BY <1>0, <1>6 DEF NodePublishVolume
<1>7. ASSUME NEW h \in Handlers, NodeUnpublishVolume(h) PROVE FALSE
  BY <1>7 DEF NodeUnpublishVolume, Early
<1>8. ASSUME NEW h \in Handlers,
             CheckMountOk(h) \/ WriteConfig(h) \/ MounterRequest(h) \/ UnpublishAnswered(h)
      PROVE  \A g \in Handlers : node'[g].op # "unpublish"
  BY <1>3, <1>8 DEF CheckMountOk, WriteConfig, MounterRequest, UnpublishAnswered
<1>9. ASSUME NEW h \in Handlers,
             MounterRequestTimeout(h) \/ PublishReply(h) \/ UnpublishReply(h)
      PROVE  node' = [node EXCEPT ![h] = IdleNode]
  BY <1>9 DEF MounterRequestTimeout, PublishReply, UnpublishReply
<1>10. ASSUME NEW d \in Daemons,
              DaemonMount(d) \/ DaemonFail(d) \/ DaemonExit(d) \/ DaemonCrash(d)
       PROVE  UNCHANGED node
  BY <1>10 DEF DaemonMount, DaemonFail, DaemonExit, DaemonCrash
<1>11. CASE Others \/ UNCHANGED vars
  <2>1. UNCHANGED node \/ node' = [g \in Handlers |-> IdleNode]
    BY <1>11
    DEF Others, NodeUnpublishReject, PluginUnavailable, DeletePod, Timeout,
        PluginCrash, PluginStart, PluginStartErr, ServeErr, ServiceCrash,
        handleSignals, ServiceEnds, ServiceRestart, ServiceRestartErr,
        RotateSecret, vars
  <2> QED  BY <1>1, <2>1, IdleFacts
<1> QED
  BY <1>1, <1>2, <1>4, <1>5, <1>6, <1>7, <1>8, <1>9, <1>10, <1>11, StepCases

(* Nothing is unmounted, and only a crash breaks a mount.                  *)
LEMMA EarlyHost ==
  ASSUME TypeOK, PathInv, ServedInv, [Next]_vars, Early, Early'
  PROVE  /\ Mounted => Mounted'
         /\ \A d \in Daemons : daemon'[d] # "detached"
         /\ "daemonCrash" \notin seen' => \A i \in DOMAIN mounts' : mounts'[i] # "broken"
<1> DEFINE Goal == /\ Mounted => Mounted'
                   /\ \A d \in Daemons : daemon'[d] # "detached"
                   /\ "daemonCrash" \notin seen' =>
                        \A i \in DOMAIN mounts' : mounts'[i] # "broken"
<1>0. /\ HostOK /\ RestOK
      /\ daemon \in [Daemons -> {"none", "starting", "serving", "detached"}]
      /\ \A d \in Daemons : daemon[d] # "detached"
      /\ \A g \in Handlers : srv[g].pc \notin Unmounting
      /\ "daemonCrash" \notin seen => \A i \in DOMAIN mounts : mounts[i] # "broken"
  BY TypeParts DEF HostOK, ServedInv, NothingUnmounts
<1>1. seen \subseteq seen'
  BY <1>0, FaultsGrow, FaultTypes
<1>2. CASE UNCHANGED <<mounts, daemon>>
  BY <1>0, <1>1, <1>2 DEF Mounted
<1>3. ASSUME NEW d \in Daemons, NEW x \in {"none", "starting"}, UNCHANGED mounts,
             daemon' = [daemon EXCEPT ![d] = x]
      PROVE  Goal
  BY <1>0, <1>1, <1>3 DEF Mounted
<1>4. ASSUME NEW h \in Handlers, HostSteps(h) PROVE Goal
  <2>1. ~Unmount(h) /\ ~ProcessKill(h)
    BY <1>0 DEF Unmount, ProcessKill, Unmounting
  <2>2. CASE FuseStart(h)
    BY <1>3, <2>2 DEF FuseStart, Free
  <2>3. CASE WaitForMountTimeout(h)
    BY <1>2, <1>3, <2>3 DEF WaitForMountTimeout
  <2> QED  BY <1>4, <2>1, <2>2, <2>3 DEF HostSteps
<1>5. ASSUME NEW h \in Handlers, Errors(h) \/ SrvOnly(h)
      PROVE  UNCHANGED <<mounts, daemon>>
  BY <1>5, ErrorsView, SrvOnlyView DEF hostVars
<1>6. ASSUME NEW h \in Handlers,
             \/ NodePublishVolume(h) \/ NodeUnpublishVolume(h)
             \/ CheckMountOk(h) \/ WriteConfig(h) \/ MounterRequest(h)
             \/ MounterRequestTimeout(h) \/ PublishReply(h)
             \/ UnpublishAnswered(h) \/ UnpublishReply(h)
      PROVE  UNCHANGED <<mounts, daemon>>
  BY <1>6
  DEF NodePublishVolume, NodeUnpublishVolume, CheckMountOk, WriteConfig,
      MounterRequest, MounterRequestTimeout, PublishReply, UnpublishAnswered,
      UnpublishReply, hostVars
<1>7. ASSUME NEW d \in Daemons, DaemonMount(d) PROVE Goal
  <2>1. /\ HostOK' /\ Mounted'
        /\ Len(mounts') = Len(mounts) + 1
        /\ \A i \in 1..Len(mounts) : mounts'[i] = mounts[i]
        /\ mounts'[Len(mounts) + 1] = d
        /\ \A e \in Daemons : daemon'[e] = IF e = d THEN "serving" ELSE daemon[e]
    BY <1>0, <1>7, HostMounts DEF DaemonMount
  <2>2. Len(mounts) \in Nat /\ DOMAIN mounts = 1..Len(mounts)
    BY <1>0, MountFacts
  <2>3. DOMAIN mounts' = 1..(Len(mounts) + 1)
    BY <2>1, LenProperties DEF HostOK
  <2>4. \A i \in 1..(Len(mounts) + 1) : i \in 1..Len(mounts) \/ i = Len(mounts) + 1
    BY <2>2
  <2> QED  BY <1>0, <1>1, <2>1, <2>2, <2>3, <2>4, Words
<1>8. ASSUME NEW d \in Daemons, DaemonFail(d) \/ DaemonExit(d) PROVE Goal
  BY <1>3, <1>8 DEF DaemonFail, DaemonExit
<1>9. ASSUME NEW d \in Daemons, DaemonCrash(d) PROVE Goal
  <2>1. /\ Mounted' <=> Mounted
        /\ \A e \in Daemons : daemon'[e] = IF e = d THEN "none" ELSE daemon[e]
    BY <1>0, <1>9, HostEnded DEF DaemonCrash
  <2>2. "daemonCrash" \in seen'
    BY <1>9 DEF DaemonCrash, Fault
  <2> QED  BY <1>0, <2>1, <2>2
<1>10. CASE Others \/ UNCHANGED vars
  BY <1>2, <1>10, OthersView DEF hostVars, vars
<1> QED
  BY <1>2, <1>4, <1>5, <1>6, <1>7, <1>8, <1>9, <1>10, StepCases

(* The service does not unmount, and answers success about a mount.        *)
LEMMA EarlySrv ==
  ASSUME TypeOK, PathInv, ServedInv, [Next]_vars, Early, Early'
  PROVE  \A g \in Handlers : /\ srv'[g].pc \notin Unmounting
                             /\ srv'[g].pc = "ok" => Mounted'
<1> DEFINE Goal == \A g \in Handlers : /\ srv'[g].pc \notin Unmounting
                                       /\ srv'[g].pc = "ok" => Mounted'
<1>0. /\ HostOK /\ SrvOK /\ NodeOK /\ NodesOnPath
      /\ \A g \in Handlers : /\ srv[g].pc \notin Unmounting
                             /\ srv[g].pc = "ok" => Mounted
                             /\ node[g].op # "unpublish"
      /\ Mounted => Mounted'
  BY TypeParts, EarlyHost
  DEF PathInv, NodesOnPath, ServedInv, NothingUnmounts, SuccessIsMounted
<1>1. CASE \A g \in Handlers :
             srv'[g].pc = srv[g].pc \/ srv'[g].pc \in {"idle", "err"}
  BY <1>0, <1>1 DEF Unmounting
<1>2. ASSUME NEW h \in Handlers,
             \A g \in Handlers \ {h} : srv'[g].pc = srv[g].pc,
             \/ srv'[h].pc \in {"idle", "err", "validate", "start", "mounting"}
             \/ srv'[h].pc = "ok" /\ Mounted
      PROVE  Goal
  BY <1>0, <1>2 DEF Unmounting
<1>3. ASSUME NEW h \in Handlers, SrvReply(h, "err") PROVE Goal
  BY <1>0, <1>2, <1>3, ReplyPcs
<1>4. ASSUME NEW h \in Handlers, SrvReply(h, "ok"), Mounted PROVE Goal
  BY <1>0, <1>2, <1>4, ReplyPcs
<1>5. ASSUME NEW h \in Handlers, NEW l \in {"validate", "start"}, SrvGoto(h, l)
      PROVE  Goal
  <2>1. srv'[h].pc = l /\ \A g \in Handlers \ {h} : srv'[g] = srv[g]
    BY <1>0, <1>5, GotoPcs, Zenon
  <2> QED  BY <1>2, <2>1
<1>6. ASSUME NEW h \in Handlers, HostSteps(h) PROVE Goal
  <2>1. ~Unmount(h) /\ ~ProcessKill(h)
    BY <1>0 DEF Unmount, ProcessKill, Unmounting
  <2>2. CASE FuseStart(h)
    <3>1. PICK d : srv' = [srv EXCEPT ![h] = [pc |-> "mounting", cmd |-> d]]
      BY <2>2 DEF FuseStart
    <3>2. srv'[h].pc = "mounting" /\ \A g \in Handlers \ {h} : srv'[g] = srv[g]
      BY <1>0, <3>1 DEF SrvOK
    <3> QED  BY <1>2, <3>2
  <2>3. CASE WaitForMountTimeout(h)
    <3>1. CASE srv[h].cmd \in Daemons /\ mounter = "s3fs"
      <4>1. srv' = ToldEnded(Answered(h, "err"), srv[h].cmd)
        BY <2>3, <3>1 DEF WaitForMountTimeout
      <4>2. /\ \A g \in Handlers \ {h} : srv'[g].pc = srv[g].pc
            /\ srv'[h].pc \in {"err", "idle"}
        BY <1>0, <3>1, <4>1, ToldPcs
      <4> QED  BY <1>2, <4>2
    <3>2. CASE ~(srv[h].cmd \in Daemons /\ mounter = "s3fs")
      BY <1>3, <2>3, <3>2 DEF WaitForMountTimeout
    <3> QED  BY <3>1, <3>2
  <2> QED  BY <1>6, <2>1, <2>2, <2>3 DEF HostSteps
<1>7. ASSUME NEW h \in Handlers, SrvOnly(h) PROVE Goal
  <2>1. /\ ~IsMountpoint(h) /\ ~UnmountErr(h) /\ ~FindProcess(h)
        /\ ~FindNoProcess(h) /\ ~ProcessGone(h)
    BY <1>0
    DEF IsMountpoint, UnmountErr, FindProcess, FindNoProcess, ProcessGone, Unmounting
  <2>2. \/ SrvGoto(h, "start") \/ SrvReply(h, "err")
        \/ SrvReply(h, "ok") /\ Mounted
    BY <1>7, <2>1
    DEF SrvOnly, ParseMounterArgs, FuseStartErr, WaitForMountOk, CommandFailed, Served
  <2> QED  BY <1>3, <1>4, <1>5, <2>2
<1>8. ASSUME NEW h \in Handlers, MounterRequest(h) PROVE Goal
  <2>1. node[h].op = "publish"
    BY <1>0, <1>8, OnPathFacts DEF MounterRequest
  <2> QED  BY <1>5, <1>8, <2>1 DEF MounterRequest
<1>9. ASSUME NEW h \in Handlers,
             Errors(h) \/ PublishReply(h) \/ UnpublishAnswered(h)
      PROVE  Goal
  <2>1. UNCHANGED srv \/ srv' = [srv EXCEPT ![h] = IdleSrv]
    BY <1>9 DEF Errors, CheckMountErr, WriteConfigErr, MounterRequestErr, ErrorReply,
       PublishReply, UnpublishAnswered
  <2> QED  BY <1>0, <1>1, <2>1, IdleFacts DEF SrvOK
<1>10. ASSUME NEW h \in Handlers,
              \/ NodePublishVolume(h) \/ NodeUnpublishVolume(h) \/ CheckMountOk(h)
              \/ WriteConfig(h) \/ MounterRequestTimeout(h) \/ UnpublishReply(h)
       PROVE  UNCHANGED srv
  BY <1>10
  DEF NodePublishVolume, NodeUnpublishVolume, CheckMountOk, WriteConfig,
      MounterRequestTimeout, UnpublishReply
<1>11. ASSUME NEW d \in Daemons, DaemonMount(d) PROVE Goal
  <2>1. \A g \in Handlers :
          \/ srv'[g] = srv[g]
          \/ srv'[g] = [srv[g] EXCEPT !.cmd = "running"]
    BY <1>11 DEF DaemonMount
  <2>2. \A g \in Handlers : srv[g] \in SrvType
    BY <1>0 DEF SrvOK
  <2>3. \A g \in Handlers : srv'[g].pc = srv[g].pc
    BY <2>1, <2>2 DEF SrvType
  <2> QED  BY <1>1, <2>3
<1>12. ASSUME NEW d \in Daemons, DaemonFail(d) \/ DaemonExit(d) \/ DaemonCrash(d)
       PROVE  Goal
  <2>1. srv' = ToldEnded(srv, d)
    BY <1>12 DEF DaemonFail, DaemonExit, DaemonCrash
  <2>2. \A g \in Handlers : srv'[g].pc = srv[g].pc
    BY <1>0, <2>1, ToldEndedView DEF SrvOK
  <2> QED  BY <1>1, <2>2
<1>13. CASE Others \/ UNCHANGED vars
  <2>1. \/ UNCHANGED srv
        \/ srv' = [h \in Handlers |->
             IF srv[h].pc \in {"ok", "err"} THEN IdleSrv ELSE srv[h]]
        \/ srv' = [h \in Handlers |->
             IF node[h].pc = "wait" THEN [IdleSrv EXCEPT !.pc = "err"] ELSE IdleSrv]
    BY <1>13
    DEF Others, NodeUnpublishReject, PluginUnavailable, DeletePod, Timeout,
        PluginCrash, PluginStart, PluginStartErr, ServeErr, ServiceCrash,
        handleSignals, ServiceEnds, ServiceRestart, ServiceRestartErr,
        RotateSecret, vars
  <2>2. [IdleSrv EXCEPT !.pc = "err"].pc = "err"
    BY DEF IdleSrv
  <2>3. \A g \in Handlers :
          srv'[g].pc = srv[g].pc \/ srv'[g].pc \in {"idle", "err"}
    BY <2>1, <2>2, IdleFacts
  <2> QED  BY <1>1, <2>3
<1> QED
  BY <1>1, <1>6, <1>7, <1>8, <1>9, <1>10, <1>11, <1>12, <1>13, StepCases

(* The pod runs only after a success.                                      *)
LEMMA RunningView ==
  ASSUME TypeOK, PathInv, ServedInv, [Next]_vars, pod' = "running"
  PROVE  \/ pod = "running"
         \/ \E h \in Handlers : PublishReply(h) /\ srv[h].pc = "ok"
<1>1. ASSUME NEW h \in Handlers, Errors(h) PROVE pod = "running"
  BY <1>1, ErrorsView DEF ReturnError
<1>2. ASSUME NEW h \in Handlers, SrvOnly(h) \/ HostSteps(h) PROVE pod = "running"
  BY <1>2, SrvOnlyView
  DEF HostSteps, FuseStart, WaitForMountTimeout, Unmount, ProcessKill, podVars
<1>3. ASSUME NEW h \in Handlers, PublishReply(h) PROVE srv[h].pc = "ok"
  BY <1>3 DEF PublishReply
<1>4. ASSUME NEW h \in Handlers,
             \/ NodePublishVolume(h) \/ NodeUnpublishVolume(h)
             \/ CheckMountOk(h) \/ WriteConfig(h) \/ MounterRequest(h)
             \/ MounterRequestTimeout(h) \/ UnpublishAnswered(h) \/ UnpublishReply(h)
      PROVE  pod = "running"
  BY <1>4
  DEF NodePublishVolume, NodeUnpublishVolume, CheckMountOk, WriteConfig,
      MounterRequest, MounterRequestTimeout, UnpublishAnswered, UnpublishReply,
      podVars
<1>5. ASSUME NEW d \in Daemons,
             DaemonMount(d) \/ DaemonFail(d) \/ DaemonExit(d) \/ DaemonCrash(d)
      PROVE  pod = "running"
  BY <1>5 DEF DaemonMount, DaemonFail, DaemonExit, DaemonCrash, podVars
<1>6. CASE Others \/ UNCHANGED vars
  BY <1>6
  DEF Others, NodeUnpublishReject, PluginUnavailable, DeletePod, Timeout,
      PluginCrash, Unanswered, PluginStart, PluginStartErr, ServeErr, ServiceCrash,
      handleSignals, ServiceEnds, ServiceRestart, ServiceRestartErr,
      RotateSecret, podVars, vars
<1> QED  BY <1>1, <1>2, <1>3, <1>4, <1>5, <1>6, StepCases

LEMMA ServedStep ==
  ASSUME TypeOK, ServedInv, [Next]_vars
  PROVE  ServedInv'
<1>0. PathInv
  BY DEF ServedInv
<1>1. PathInv'
  BY <1>0, TypeStep
<1>2. CallServes'
  BY <1>0, CallStays
<1>3. NothingUnmounts'
  BY <1>0, EarlyBefore, EarlyNode, EarlySrv, EarlyHost DEF NothingUnmounts
<1>4. SuccessIsMounted'
  <2>1. Early' => \A h \in Handlers : srv'[h].pc = "ok" => Mounted'
    BY <1>0, EarlyBefore, EarlySrv
  <2>2. ASSUME pod' = "running" PROVE Mounted'
    <3>1. Early /\ Early'
      BY <1>0, <2>2, EarlyBefore DEF Early
    <3>2. Mounted
      BY <1>0, <2>2, <3>1, RunningView DEF ServedInv, SuccessIsMounted
    <3> QED  BY <1>0, <3>1, <3>2, EarlyHost
  <2> QED  BY <2>1, <2>2 DEF SuccessIsMounted
<1> QED  BY <1>1, <1>2, <1>3, <1>4 DEF ServedInv

LEMMA ServedInit ==
  ASSUME Init
  PROVE  ServedInv
<1>1. PathInv
  BY TypeInit
<1>2. DOMAIN mounts = {}
  BY EmptySeq DEF Init
<1>3. CallServes /\ SuccessIsMounted
  BY IdleFacts DEF Init, CallServes, SuccessIsMounted
<1>4. NothingUnmounts
  BY <1>2, IdleFacts DEF Init, NothingUnmounts, Unmounting
<1> QED  BY <1>1, <1>3, <1>4 DEF ServedInv

LEMMA ServedAlways == Spec => [](TypeOK /\ ServedInv)
<1>1. Init => TypeOK /\ ServedInv
  BY TypeInit, ServedInit
<1>2. TypeOK /\ ServedInv /\ [Next]_vars => (TypeOK /\ ServedInv)'
  BY TypeStep, ServedStep DEF ServedInv
<1> QED  BY <1>1, <1>2, PTL DEF Spec

(* A pod that runs has its bucket: when NodePublishVolume has answered     *)
(* success a live process serves the target path, whatever calls overlap   *)
(* and whatever restarts, unless a FUSE process died.                      *)
THEOREM RunningPodServed == Spec => []RunningPodIsServed
<1>1. TypeOK /\ ServedInv => RunningPodIsServed
  <2> SUFFICES ASSUME TypeOK, ServedInv, pod = "running", "daemonCrash" \notin seen
               PROVE  Served
    BY DEF RunningPodIsServed
  <2>1. Mounted /\ \A i \in DOMAIN mounts : mounts[i] # "broken"
    BY DEF ServedInv, SuccessIsMounted, NothingUnmounts, Early
  <2>2. HostOK
    BY TypeParts
  <2>3. /\ DOMAIN mounts = 1..Len(mounts)
        /\ Top = mounts[Len(mounts)] /\ Len(mounts) \in 1..Len(mounts)
    BY <2>1, <2>2, MountFacts
  <2> QED  BY <2>1, <2>3 DEF Served
<1> QED  BY <1>1, ServedAlways, PTL
=============================================================================
