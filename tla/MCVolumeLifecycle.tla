-------------------------- MODULE MCVolumeLifecycle --------------------------
(***************************************************************************)
(* Instances of VolumeLifecycle for TLC.                                   *)
(***************************************************************************)
EXTENDS VolumeLifecycle

CONSTANTS u1, e1, e2

(* A generated bucket, a named one, each with the endpoint, the mounter    *)
(* and the keys a secret may or may not carry.                             *)
SomeSecrets ==
  {[bucketName |-> None, cosEndpoint |-> None, mounter |-> "rclone", auth |-> "iam"],
   [bucketName |-> u1, cosEndpoint |-> e2, mounter |-> None, auth |-> "iam"],
   [bucketName |-> u1, cosEndpoint |-> None, mounter |-> None, auth |-> "hmac"],
   [bucketName |-> None, cosEndpoint |-> e1, mounter |-> None, auth |-> None]}

(* The shipped classes, and two that leave more to the secret.             *)
SomeClasses ==
  {[direct |-> TRUE, cosEndpoint |-> None, mounter |-> "s3fs"],
   [direct |-> FALSE, cosEndpoint |-> e1, mounter |-> "s3fs"],
   [direct |-> FALSE, cosEndpoint |-> e1, mounter |-> "rclone"],
   [direct |-> TRUE, cosEndpoint |-> e1, mounter |-> None],
   [direct |-> FALSE, cosEndpoint |-> e1, mounter |-> None]}
=============================================================================
