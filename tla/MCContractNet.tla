--------------------------- MODULE MCContractNet ----------------------------
(***************************************************************************)
(* Instances of ContractNet for TLC: two initiators that receive from one  *)
(* queue (two behaviours of one agent).                                    *)
(***************************************************************************)
EXTENDS ContractNet, TLC

OneQueue == [i \in Initiators |-> "my_name_"]
=============================================================================
