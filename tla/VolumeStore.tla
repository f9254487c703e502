----------------------------- MODULE VolumeStore -----------------------------
(***************************************************************************)
(* What the driver promises of a volume on a bucket it generates: the      *)
(* volume is a private store.  It is empty when the claim is bound, only   *)
(* the volume's own pods change it while it is bound, it is emptied only   *)
(* after its claim was deleted, and no step on one volume touches another. *)
(* The one way out is that two attempts to create the volume chose the     *)
(* same name: nothing is promised of the store of a contested volume.      *)
(* Buckets, goroutines, retries and faults do not appear.                  *)
(***************************************************************************)
CONSTANTS Volumes, Objects

VARIABLES
  phase,      \* "none" | "pending" | "bound" | "released" | "gone"
  contested,  \* volumes on a name that two attempts may have chosen
  live,       \* volumes that have their store
  data        \* keys in the store of a volume

storeVars == <<phase, contested, live, data>>

Init ==
  /\ phase = [v \in Volumes |-> "none"]
  /\ contested = {}
  /\ live = {}
  /\ data = [v \in Volumes |-> {}]

Move(v, from, to) == phase[v] = from /\ phase' = [phase EXCEPT ![v] = to]

Request(v) ==
  Move(v, "none", "pending") /\ UNCHANGED <<contested, live, data>>

Abandon(v) ==
  Move(v, "pending", "gone") /\ UNCHANGED <<contested, live, data>>

(* The volume is handed out with an empty store of its own, or contested.  *)
Provision(v) ==
  /\ Move(v, "pending", "bound")
  /\ \/ live' = live \cup {v} /\ UNCHANGED contested
     \/ contested' = contested \cup {v} /\ UNCHANGED live
  /\ UNCHANGED data

(* A second attempt chooses the name of a volume that has been handed out. *)
Contest(v) ==
  /\ phase[v] \in {"bound", "released"}
  /\ v \notin contested
  /\ contested' = contested \cup {v}
  /\ live' = live \ {v}
  /\ data' = [data EXCEPT ![v] = {}]
  /\ UNCHANGED phase

(* A pod of the volume stores a key.                                       *)
Put(v) ==
  /\ phase[v] = "bound"
  /\ v \in live
  /\ \E k \in Objects \ data[v] : data' = [data EXCEPT ![v] = @ \cup {k}]
  /\ UNCHANGED <<phase, contested, live>>

Release(v) ==
  Move(v, "bound", "released") /\ UNCHANGED <<contested, live, data>>

(* The store of a released volume loses a key, or goes away once empty.    *)
Erase(v) ==
  /\ phase[v] = "released"
  /\ v \in live
  /\ \/ \E k \in data[v] : data' = [data EXCEPT ![v] = @ \ {k}] /\ live' = live
     \/ data[v] = {} /\ live' = live \ {v} /\ data' = data
  /\ UNCHANGED <<phase, contested>>

(* The volume is forgotten; nothing reaches its store any more.            *)
Reclaim(v) ==
  /\ Move(v, "released", "gone")
  /\ contested' = contested \ {v}
  /\ live' = live \ {v}
  /\ data' = [data EXCEPT ![v] = {}]

Next ==
  \E v \in Volumes :
    \/ Request(v) \/ Abandon(v) \/ Provision(v) \/ Contest(v) \/ Put(v)
    \/ Release(v) \/ Erase(v) \/ Reclaim(v)

Spec == Init /\ [][Next]_storeVars
=============================================================================
