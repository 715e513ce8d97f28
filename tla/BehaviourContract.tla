------------------------- MODULE BehaviourContract --------------------------
(***************************************************************************)
(* What every behaviour may count on, whoever runs it: onStart() comes     *)
(* first, then action() at least once, then onEnd(), once.  A behaviour    *)
(* that is over may be started again (a state an FSM returns to).  Several *)
(* behaviours may move in one step.                                        *)
(***************************************************************************)
CONSTANT Children

VARIABLE life   \* of each: "new", "started", "ran" (at least once) or "over"

Init == life = [c \in Children |-> "new"]

OnStart(c) == life[c] \in {"new", "over"} /\ life'[c] = "started"
Action(c)  == life[c] \in {"started", "ran"} /\ life'[c] = "ran"
OnEnd(c)   == life[c] = "ran" /\ life'[c] = "over"

Next == \A c \in Children : OnStart(c) \/ Action(c) \/ OnEnd(c) \/ life'[c] = life[c]

Spec == Init /\ [][Next]_life
=============================================================================
