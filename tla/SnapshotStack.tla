--------------------------- MODULE SnapshotStack ----------------------------
(***************************************************************************)
(* What the NSAP facility promises: the shared picture of the agents can   *)
(* be pushed on a stack, and the last picture pushed can be brought back,  *)
(* until the environment is started anew.                                  *)
(***************************************************************************)
EXTENDS Integers, Sequences

CONSTANT Blank   \* the picture without agents

VARIABLES picture, stack

Init == picture = Blank /\ stack = <<>>

Draw  == UNCHANGED stack
Push  == stack' = Append(stack, picture) /\ UNCHANGED picture
Clear == stack' = <<>> /\ UNCHANGED picture
Renew == stack' = <<>> /\ picture' = Blank
Pull  ==
    /\ stack # <<>>
    /\ picture' = stack[Len(stack)]
    /\ stack' = SubSeq(stack, 1, Len(stack) - 1)

Next == Draw \/ Push \/ Pull \/ Clear \/ Renew

Spec == Init /\ [][Next]_<<picture, stack>>
=============================================================================
