---------------------------- MODULE MCMigration -----------------------------
(***************************************************************************)
(* An instance of RemoteControl, and with it of Migration, for TLC.  The   *)
(* processes that no agent runs in yet are interchangeable.                *)
(***************************************************************************)
EXTENDS RemoteControl, TLC

CONSTANTS c1, c2, c3

Symmetry == Permutations({c2, c3})
=============================================================================
