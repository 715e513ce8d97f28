----------------------------- MODULE Behaviours -----------------------------
(***************************************************************************)
(* A composite behaviour, its children and the thread that runs it         *)
(* (src/src/core/Behaviour.cpp, exthread in src/src/core/Agent.cpp):       *)
(* SequentialBehaviour, ParallelBehaviour (ALL or ANY) or FSMBehaviour     *)
(* over OneShot, Cyclic, Waker, Ticker and plain behaviours.  One step is  *)
(* one callback of a child together with the bookkeeping around it.        *)
(*                                                                         *)
(* Children are added and removed before the behaviour starts, as setup()  *)
(* does; an FSM has its table from the constants.                          *)
(***************************************************************************)
EXTENDS Integers, Sequences, FiniteSets, SequencesExt

CONSTANTS
    Children,
    First,         \* first_state_, or NoState if none was registered
    IsLast,        \* the states registered with registerLastState
    Transitions,   \* transitions_: [Children -> [ExitValues -> Targets]]
    Defaults,      \* default_transitions_: [Children -> Targets]
    ExitValues,    \* what exitValue() can return
    NoState,       \* no entry in a table
    Unregistered,  \* the name of a state nobody registered
    MaxTimer       \* bound on internalTimer

Kinds   == {"SEQUENTIAL", "ALL", "ANY", "FSM"}
Types   == {"OneShot", "Cyclic", "Waker", "Ticker", "Plain"}
Targets == Children \cup {NoState, Unregistered}

ASSUME TablesAreTotal ==
    /\ First \in Children \cup {NoState} /\ IsLast \subseteq Children
    /\ Transitions \in [Children -> [ExitValues -> Targets]]
    /\ Defaults \in [Children -> Targets]
ASSUME NamesAreNotChildren == NoState \notin Children /\ Unregistered \notin Children
ASSUME MaxTimerIsNat == MaxTimer \in Nat

VARIABLES
    kind,      \* which composite it is
    type,      \* which behaviour each child is
    timer,     \* internalTimer of the Wakers
    children,  \* children_, in order (not used by an FSM)
    pc,        \* where exthread is, inside the composite's callbacks
    index,     \* current_ of a sequence, the loop variable of a parallel (from 1)
    ended,     \* ended_: indices of the children whose onEnd() was called
    state,     \* current_state_
    finished,  \* finished_
    life       \* history: how far each child is, see BehaviourContract

vars  == <<kind, type, timer, children, pc, index, ended, state, finished, life>>
fixed == <<kind, type, children>>

TypeOK ==
    /\ kind \in Kinds
    /\ type \in [Children -> Types]
    /\ timer \in [Children -> 0..MaxTimer]
    /\ children \in Seq(Children) /\ IsInjective(children)
    /\ pc \in {"setup", "action", "each", "acted", "enter", "done", "over"}
    /\ index \in 1..Len(children) + 1
    /\ ended \subseteq 1..Len(children)
    /\ state \in Children \cup {NoState}
    /\ finished \in BOOLEAN
    /\ life \in [Children -> {"new", "started", "ran", "over"}]

Init ==
    /\ kind \in Kinds
    /\ type \in [Children -> Types]
    /\ timer \in [Children -> 0..MaxTimer]
    /\ \A c \in Children : type[c] # "Waker" => timer[c] = 0
    /\ children = <<>>
    /\ pc = "setup"
    /\ index = 1
    /\ ended = {}
    /\ state = NoState
    /\ finished = FALSE
    /\ life = [c \in Children |-> "new"]

-----------------------------------------------------------------------------
(* setup()                                                                 *)

addSubBehaviour(c) ==
    /\ pc = "setup" /\ kind # "FSM" /\ c \notin Range(children)
    /\ children' = Append(children, c)
    /\ UNCHANGED <<kind, type, timer, pc, index, ended, state, finished, life>>

removeSubBehaviour(c) ==
    /\ pc = "setup"
    /\ \E k \in 1..Len(children) : children[k] = c /\ children' = RemoveAt(children, k)
    /\ UNCHANGED <<kind, type, timer, pc, index, ended, state, finished, life>>

-----------------------------------------------------------------------------
(* onStart()                                                               *)

Started(cs) == life' = [c \in Children |-> IF c \in cs THEN "started" ELSE life[c]]

SequentialStart ==
    /\ pc = "setup" /\ kind = "SEQUENTIAL"
    /\ pc' = "action"
    /\ Started(IF children = <<>> THEN {} ELSE {children[1]})
    /\ UNCHANGED <<fixed, timer, index, ended, state, finished>>

ParallelStart ==
    /\ pc = "setup" /\ kind \in {"ALL", "ANY"}
    /\ pc' = "action"
    /\ Started(Range(children))
    /\ UNCHANGED <<fixed, timer, index, ended, state, finished>>

FSMStart ==
    /\ pc = "setup" /\ kind = "FSM"
    /\ pc' = "action"
    /\ state' = First
    /\ Started({First})
    /\ UNCHANGED <<fixed, timer, index, ended, finished>>

-----------------------------------------------------------------------------
(* A child's action() and done()                                           *)

\* Mutant of ChildActs: the timer does not run.
ChildActsStopped(c) ==
    /\ life' = [life EXCEPT ![c] = "ran"]
    /\ UNCHANGED timer

\* A Waker counts down and does not wrap around; the others keep no timer.
ChildActs(c) ==
    /\ life' = [life EXCEPT ![c] = "ran"]
    /\ timer' = [timer EXCEPT ![c] = IF @ = 0 THEN 0 ELSE @ - 1]

\* What done() can return after an action().
DoneAnswers(c) ==
    CASE type[c] = "OneShot"            -> {TRUE}
      [] type[c] \in {"Cyclic", "Ticker"} -> {FALSE}
      [] type[c] = "Waker"              -> {timer[c] = 0}
      [] type[c] = "Plain"              -> BOOLEAN

-----------------------------------------------------------------------------
(* SequentialBehaviour                                                     *)

SequentialAction ==
    /\ pc = "action" /\ kind = "SEQUENTIAL"
    /\ IF index <= Len(children)
       THEN pc' = "acted" /\ ChildActs(children[index])
       ELSE pc' = "done" /\ UNCHANGED <<life, timer>>
    /\ UNCHANGED <<fixed, index, ended, state, finished>>

\* done(): onEnd() of this child and onStart() of the next.
SequentialActed ==
    /\ pc = "acted" /\ kind = "SEQUENTIAL"
    /\ pc' = "done"
    /\ \E done \in DoneAnswers(children[index]) :
          /\ index' = IF done THEN index + 1 ELSE index
          /\ life' = [c \in Children |->
                        IF done /\ c = children[index] THEN "over"
                        ELSE IF done /\ index < Len(children) /\ c = children[index + 1]
                        THEN "started" ELSE life[c]]
    /\ UNCHANGED <<fixed, timer, ended, state, finished>>

-----------------------------------------------------------------------------
(* ParallelBehaviour                                                       *)

ParallelAction ==
    /\ pc = "action" /\ kind \in {"ALL", "ANY"}
    /\ pc' = "each"
    /\ index' = 1
    /\ UNCHANGED <<fixed, timer, ended, state, finished, life>>

\* Mutant of ParallelEach: the children that ended are not skipped.
ParallelEachAgain ==
    /\ pc = "each"
    /\ IF index > Len(children)
       THEN pc' = "done" /\ UNCHANGED <<index, life, timer>>
       ELSE pc' = "acted" /\ ChildActs(children[index]) /\ UNCHANGED index
    /\ UNCHANGED <<fixed, ended, state, finished>>

ParallelEach ==
    /\ pc = "each"
    /\ CASE index > Len(children) -> pc' = "done" /\ UNCHANGED <<index, life, timer>>
         [] index \in ended       -> index' = index + 1 /\ UNCHANGED <<pc, life, timer>>
         [] OTHER                 -> /\ pc' = "acted"
                                     /\ ChildActs(children[index])
                                     /\ UNCHANGED index
    /\ UNCHANGED <<fixed, ended, state, finished>>

ParallelActed ==
    /\ pc = "acted" /\ kind \in {"ALL", "ANY"}
    /\ pc' = "each"
    /\ index' = index + 1
    /\ \E done \in DoneAnswers(children[index]) :
          /\ ended' = IF done THEN ended \cup {index} ELSE ended
          /\ life' = IF done THEN [life EXCEPT ![children[index]] = "over"] ELSE life
    /\ UNCHANGED <<fixed, timer, state, finished>>

-----------------------------------------------------------------------------
(* FSMBehaviour                                                            *)

FSMAction ==
    /\ pc = "action" /\ kind = "FSM"
    /\ IF finished \/ state = NoState
       THEN pc' = "done" /\ UNCHANGED <<life, timer>>
       ELSE pc' = "acted" /\ ChildActs(state)
    /\ UNCHANGED <<fixed, index, ended, state, finished>>

\* The transition for the exit value, else the default one.
Successor(s, ev) ==
    IF Transitions[s][ev] # NoState THEN Transitions[s][ev] ELSE Defaults[s]

\* Mutant of FSMActed: onEnd() of the state that is left is forgotten.
FSMActedNoEnd ==
    /\ pc = "acted" /\ kind = "FSM"
    /\ \E done \in DoneAnswers(state), ev \in ExitValues :
          IF ~done THEN pc' = "done" /\ UNCHANGED <<state, finished>>
          ELSE IF state \in IsLast \/ Successor(state, ev) \notin Children
          THEN pc' = "done" /\ finished' = TRUE /\ UNCHANGED state
          ELSE pc' = "enter" /\ state' = Successor(state, ev) /\ UNCHANGED finished
    /\ UNCHANGED <<fixed, timer, index, ended, life>>

\* done(): exitValue() and onEnd() of this state; stop after a last state or
\* without a registered successor (which may be the same state) ...
FSMActed ==
    /\ pc = "acted" /\ kind = "FSM"
    /\ \E done \in DoneAnswers(state), ev \in ExitValues :
          /\ life' = IF done THEN [life EXCEPT ![state] = "over"] ELSE life
          /\ IF ~done THEN pc' = "done" /\ UNCHANGED <<state, finished>>
             ELSE IF state \in IsLast \/ Successor(state, ev) \notin Children
             THEN pc' = "done" /\ finished' = TRUE /\ UNCHANGED state
             ELSE pc' = "enter" /\ state' = Successor(state, ev) /\ UNCHANGED finished
    /\ UNCHANGED <<fixed, timer, index, ended>>

\* ... else onStart() of the successor.
FSMEnter ==
    /\ pc = "enter"
    /\ pc' = "done"
    /\ Started({state})
    /\ UNCHANGED <<fixed, timer, index, ended, state, finished>>

-----------------------------------------------------------------------------
(* exthread asks the composite's done(), and calls its onEnd()             *)

\* Mutant of Done: ANY and ALL are swapped.
DoneSwapped ==
    CASE kind = "SEQUENTIAL" -> index > Len(children)
      [] kind = "ALL"        -> children = <<>> \/ ended # {}
      [] kind = "ANY"        -> ended = 1..Len(children)
      [] kind = "FSM"        -> finished

Done ==
    CASE kind = "SEQUENTIAL" -> index > Len(children)
      [] kind = "ALL"        -> ended = 1..Len(children)
      [] kind = "ANY"        -> children = <<>> \/ ended # {}
      [] kind = "FSM"        -> finished

Loop ==
    /\ pc = "done"
    /\ pc' = IF Done THEN "over" ELSE "action"
    /\ UNCHANGED <<fixed, timer, index, ended, state, finished, life>>

Run ==
    \/ SequentialStart \/ SequentialAction \/ SequentialActed
    \/ ParallelStart \/ ParallelAction \/ ParallelEach \/ ParallelActed
    \/ FSMStart \/ FSMAction \/ FSMActed \/ FSMEnter
    \/ Loop

Next == Run \/ \E c \in Children : addSubBehaviour(c) \/ removeSubBehaviour(c)

Spec == Init /\ [][Next]_vars

\* The thread of the behaviour is scheduled, and callbacks return.
FairSpec == Spec /\ WF_vars(Run)

-----------------------------------------------------------------------------
(* Properties                                                              *)

Contract == INSTANCE BehaviourContract

\* Every composite keeps the contract of a behaviour towards each child:
\* onStart() before the first action(), at least one action() (a OneShot, whose
\* done() is always true, too), onEnd() once, nothing after it, and a state of
\* an FSM that is entered again starts again.
ImplementsContract == Contract!Spec

\* A sequence runs its children strictly one after the other, in the order they
\* were added and skipping none, and an FSM is in one state at a time.
OneAtATime ==
    /\ kind = "SEQUENTIAL" /\ pc # "setup" =>
          \A k \in 1..Len(children) :
              /\ k < index => life[children[k]] = "over"
              /\ k > index => life[children[k]] = "new"
    /\ kind = "FSM" => \A c \in Children : life[c] \in {"started", "ran"} => c = state

\* When exthread leaves the composite, what the kind promises has happened: all
\* children of a sequence or of ALL had their onEnd(), at least one child of ANY
\* had, and the state an FSM stopped in had, with nowhere to go from it.
EndIsDeserved ==
    pc = "over" =>
        CASE kind \in {"SEQUENTIAL", "ALL"} -> \A c \in Range(children) : life[c] = "over"
          [] kind = "ANY" -> children = <<>> \/ \E c \in Range(children) : life[c] = "over"
          [] kind = "FSM" -> /\ life[state] = "over"
                             /\ state \in IsLast
                                \/ \E ev \in ExitValues : Successor(state, ev) \notin Children

\* A child whose done() comes true by itself.
Ends(c) == type[c] \in {"OneShot", "Waker"}

\* A composite ends if its children do: all of them for a sequence and ALL, one
\* for ANY, whatever the others do.
CompositeEnds ==
    /\ (kind \in {"SEQUENTIAL", "ALL"} /\ pc = "action" /\ \A c \in Range(children) : Ends(c))
          ~> (pc = "over")
    /\ (kind = "ANY" /\ pc = "action" /\ \E c \in Range(children) : Ends(c))
          ~> (pc = "over")
=============================================================================
