-------------------------- MODULE MCLocalPlatform ---------------------------
(***************************************************************************)
(* Instances of LocalPlatform for TLC: every process has a name of its own *)
(* (Distinct), or the last one reuses the name of the first (Reused).      *)
(***************************************************************************)
EXTENDS LocalPlatform, TLC

CONSTANTS p1, p2, n1, n2

Distinct == p1 :> n1 @@ p2 :> n2
Reused   == p1 :> n1 @@ p2 :> n1
=============================================================================
