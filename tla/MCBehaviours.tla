---------------------------- MODULE MCBehaviours ----------------------------
(***************************************************************************)
(* Instances of Behaviours for TLC.  The FSM: A goes to B or C by its exit *)
(* value, to a state nobody registered on 2; B to itself on 0, else back   *)
(* to A by default; C is a last state, whose transition is never taken.    *)
(***************************************************************************)
EXTENDS Behaviours, TLC

CONSTANTS A, B, C

Table  == A :> (0 :> B @@ 1 :> C @@ 2 :> Unregistered)
          @@ B :> (0 :> B @@ 1 :> NoState @@ 2 :> NoState)
          @@ C :> (0 :> A @@ 1 :> NoState @@ 2 :> NoState)
DefaultTable == A :> B @@ B :> A @@ C :> NoState
=============================================================================
