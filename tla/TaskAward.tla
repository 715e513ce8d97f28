----------------------------- MODULE TaskAward ------------------------------
(***************************************************************************)
(* What the contract-net protocol promises, without its messages: a        *)
(* participant offers itself to one initiator; each initiator awards its   *)
(* task at most once, to some of those that offered themselves to it; a    *)
(* participant performs a task only if it was awarded to it, and performs  *)
(* at most one.                                                            *)
(***************************************************************************)
CONSTANTS Initiators, Participants

VARIABLES
    offered,    \* [Participants -> SUBSET Initiators]: to whom it offered itself
    awarded,    \* [Initiators -> SUBSET Participants]
    performed   \* [Participants -> SUBSET Initiators]: whose task it performed

vars == <<offered, awarded, performed>>

Init ==
    /\ offered = [p \in Participants |-> {}]
    /\ awarded = [i \in Initiators |-> {}]
    /\ performed = [p \in Participants |-> {}]

Offer(p, i) ==
    /\ offered[p] = {}
    /\ offered' = [offered EXCEPT ![p] = {i}]
    /\ UNCHANGED <<awarded, performed>>

Award(i) ==
    /\ awarded[i] = {}
    /\ \E S \in SUBSET {p \in Participants : i \in offered[p]} :
          awarded' = [awarded EXCEPT ![i] = S]
    /\ UNCHANGED <<offered, performed>>

Perform(p, i) ==
    /\ p \in awarded[i]
    /\ performed[p] = {}
    /\ performed' = [performed EXCEPT ![p] = {i}]
    /\ UNCHANGED <<offered, awarded>>

Next ==
    \/ \E i \in Initiators : Award(i)
    \/ \E p \in Participants, i \in Initiators : Offer(p, i) \/ Perform(p, i)

Spec == Init /\ [][Next]_vars
=============================================================================
