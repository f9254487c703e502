------------------------- MODULE MCControllerServer -------------------------
(***************************************************************************)
(* Instances of ControllerServer for TLC.                                  *)
(***************************************************************************)
EXTENDS ControllerServer, TLC

CONSTANTS u1

Plain ==
  [bucketName |-> NoBucket, quotaLimit |-> FALSE, bucketVersioning |-> "",
   direct |-> FALSE, cosEndpoint |-> TRUE, valid |-> TRUE]

(* A generated bucket, plain, with both settings, with an endpoint known  *)
(* to the StorageClass only, and a request CreateVolume refuses.           *)
TempClaims ==
  {Plain,
   [Plain EXCEPT !.quotaLimit = TRUE, !.bucketVersioning = "true"],
   [Plain EXCEPT !.direct = TRUE, !.cosEndpoint = FALSE],
   [Plain EXCEPT !.valid = FALSE]}

(* Claims on one bucket name, next to one on a generated bucket.           *)
NamedClaims ==
  {[Plain EXCEPT !.bucketName = u1],
   [Plain EXCEPT !.bucketName = u1, !.quotaLimit = TRUE],
   [Plain EXCEPT !.quotaLimit = TRUE]}

(* Claims whose creation and deletion can get in each other's way.         *)
RacingClaims ==
  {[Plain EXCEPT !.bucketName = u1, !.bucketVersioning = "false"],
   [Plain EXCEPT !.bucketVersioning = "true"]}

PlainClaims == {Plain}
PlainNamedClaims == {[Plain EXCEPT !.bucketName = u1]}

HandlerSymmetry == Permutations(Handlers)
=============================================================================
