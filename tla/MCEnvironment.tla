--------------------------- MODULE MCEnvironment ----------------------------
(***************************************************************************)
(* An instance of Environment for TLC: one agent changes its attributes,   *)
(* the other has no id.                                                    *)
(***************************************************************************)
EXTENDS Environment, TLC

CONSTANTS a1, a2, v1, v2

MCSends == a1 :> {v1, v2} @@ a2 :> {"no id"}
=============================================================================
