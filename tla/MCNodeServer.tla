---------------------------- MODULE MCNodeServer ----------------------------
(***************************************************************************)
(* Instances of NodeServer for TLC.                                        *)
(***************************************************************************)
EXTENDS NodeServer, TLC

CONSTANTS k1, k2

OneLength == [k \in Keys |-> 1]
LongFirst == [k \in Keys |-> IF k = k1 THEN 2 ELSE 1]
HandlerSymmetry == Permutations(Handlers)
=============================================================================
