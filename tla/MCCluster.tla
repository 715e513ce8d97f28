----------------------------- MODULE MCCluster ------------------------------
(***************************************************************************)
(* An instance of Cluster for TLC: two machines, the second one started    *)
(* with --ip, and an agent on the first.                                   *)
(***************************************************************************)
EXTENDS Cluster, TLC

CONSTANTS s1, s2, a1, i1, i2, i3

SeenAs    == s1 :> i1 @@ s2 :> i2
Announces == s1 :> i1 @@ s2 :> i3
Alone     == a1 :> s1
JoinBound == s1 :> 2 @@ s2 :> 1
=============================================================================
