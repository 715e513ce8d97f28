--------------------------- MODULE BehavioursProofs --------------------------
(***************************************************************************)
(* Machine-checked proofs about Behaviours, for any number of children of  *)
(* any type and any transition table: the composites keep the contract of  *)
(* a behaviour towards each child, run them in the order they promise, and *)
(* end when they promise to.  The last section is about a behaviour whose  *)
(* action() is a script's, PythonBridge, for pipes of any size.            *)
(***************************************************************************)
EXTENDS Behaviours, PythonBridge, SequenceTheorems, TLAPS

\* addSubBehaviour: the list has the new child last, and no child twice.
LEMMA AppendKeepsDistinct ==
    ASSUME NEW s \in Seq(Children), IsInjective(s), NEW c \in Children, c \notin Range(s)
    PROVE  Append(s, c) \in Seq(Children) /\ IsInjective(Append(s, c))
  BY DEF IsInjective, Range

\* removeSubBehaviour: what remains is a list without repetitions.
LEMMA RemoveKeepsDistinct ==
    ASSUME NEW s \in Seq(Children), IsInjective(s), NEW k \in 1..Len(s)
    PROVE  RemoveAt(s, k) \in Seq(Children) /\ IsInjective(RemoveAt(s, k))
<1> DEFINE before == SubSeq(s, 1, k - 1)
           after  == SubSeq(s, k + 1, Len(s))
<1>1. /\ before \in Seq(Children) /\ Len(before) = k - 1
      /\ \A i \in 1..k - 1 : before[i] = s[i]
  BY SubSeqProperties
<1>2. /\ after \in Seq(Children) /\ Len(after) = Len(s) - k
      /\ \A i \in 1..Len(s) - k : after[i] = s[k + i]
  BY SubSeqProperties
<1> HIDE DEF before, after
<1> DEFINE t == before \o after
<1>3. /\ t \in Seq(Children) /\ Len(t) = Len(s) - 1
      /\ \A i \in 1..Len(t) : t[i] = IF i < k THEN s[i] ELSE s[i + 1]
  <2>1. /\ t \in Seq(Children) /\ Len(t) = Len(before) + Len(after)
        /\ \A i \in 1..Len(before) + Len(after) :
              t[i] = IF i <= Len(before) THEN before[i] ELSE after[i - Len(before)]
    <3> HIDE DEF t
    <3>1. t = before \o after
      BY DEF t
    <3>2. QED
      BY <1>1, <1>2, <3>1, ConcatProperties, Zenon
  <2> HIDE DEF t
  <2>2. t \in Seq(Children) /\ Len(t) = Len(s) - 1
    BY <1>1, <1>2, <2>1
  <2> SUFFICES ASSUME NEW i \in 1..Len(t)
               PROVE  t[i] = IF i < k THEN s[i] ELSE s[i + 1]
    BY <2>2
  <2>3. t[i] = IF i < k THEN before[i] ELSE after[i - (k - 1)]
    BY <1>1, <1>2, <2>1, <2>2
  <2>4. CASE i < k
    BY <1>1, <2>3, <2>4
  <2>5. CASE i >= k
    <3> DEFINE j == i - (k - 1)
    <3>1. j \in 1..Len(s) - k /\ k + j = i + 1
      BY <2>2, <2>5
    <3>2. t[i] = after[j]
      BY <2>3, <2>5
    <3> HIDE DEF j
    <3>3. t[i] = s[k + j]
      BY <1>2, <3>1, <3>2
    <3>4. QED
      BY <2>2, <2>5, <3>1, <3>3
  <2>6. QED
    BY <2>4, <2>5
<1> HIDE DEF t
<1>4. IsInjective(t)
  <2> SUFFICES ASSUME NEW i \in 1..Len(t), NEW j \in 1..Len(t), t[i] = t[j] PROVE i = j
    BY <1>3 DEF IsInjective
  <2> DEFINE back(x) == IF x < k THEN x ELSE x + 1
  <2>1. back(i) \in 1..Len(s) /\ back(j) \in 1..Len(s) /\ s[back(i)] = s[back(j)]
    BY <1>3
  <2>2. back(i) = back(j)
    BY <2>1 DEF IsInjective
  <2>3. QED
    BY <2>2
<1>5. QED
  BY <1>3, <1>4 DEF RemoveAt, before, after, t

\* action() of a child keeps the types; a Waker does not count below zero.
LEMMA ChildActsTyped ==
    ASSUME NEW c \in Children, ChildActs(c), TypeOK
    PROVE  /\ life' \in [Children -> {"new", "started", "ran", "over"}]
           /\ timer' \in [Children -> 0..MaxTimer]
<1>1. life' \in [Children -> {"new", "started", "ran", "over"}]
  BY DEF ChildActs, TypeOK
<1>2. timer[c] \in 0..MaxTimer /\ (IF timer[c] = 0 THEN 0 ELSE timer[c] - 1) \in 0..MaxTimer
  BY MaxTimerIsNat DEF TypeOK
<1>3. QED
  BY <1>1, <1>2 DEF ChildActs, TypeOK

-----------------------------------------------------------------------------
(* What each composite keeps                                               *)

\* Nothing has happened before onStart().
SetupInv ==
    pc = "setup" => /\ index = 1 /\ ended = {} /\ state = NoState /\ ~finished
                    /\ \A c \in Children : life[c] = "new"

\* A sequence has finished the children before current_, started that one, and
\* not touched the others; it calls done() of a child that has acted.
SequentialInv ==
    kind = "SEQUENTIAL" /\ pc # "setup" =>
        /\ pc \in {"action", "acted", "done", "over"}
        /\ \A k \in 1..Len(children) :
              /\ k < index => life[children[k]] = "over"
              /\ k = index => life[children[k]] \in {"started", "ran"}
              /\ k > index => life[children[k]] = "new"
        /\ pc = "acted" => index <= Len(children) /\ life[children[index]] = "ran"
        /\ pc = "over" => index > Len(children)

\* The children of a parallel have all started, and ended_ says which are over.
ParallelInv ==
    kind \in {"ALL", "ANY"} /\ pc # "setup" =>
        /\ pc \in {"action", "each", "acted", "done", "over"}
        /\ \A k \in 1..Len(children) :
              life[children[k]] \in (IF k \in ended THEN {"over"} ELSE {"started", "ran"})
        /\ pc = "acted" => /\ index <= Len(children) /\ index \notin ended
                           /\ life[children[index]] = "ran"
        /\ pc = "over" => Done

\* Where an FSM stops, the state is over, and a last one or without successor.
Stopped ==
    /\ state \in Children /\ life[state] = "over"
    /\ state \in IsLast \/ \E ev \in ExitValues : Successor(state, ev) \notin Children

\* An FSM is in current_state_ and in no other; only between onEnd() of the one
\* and onStart() of the next is it in none; finished_ is set where it stops.
FSMInv ==
    kind = "FSM" /\ pc # "setup" =>
        /\ pc \in {"action", "acted", "enter", "done", "over"}
        /\ \A c \in Children \ {state} : life[c] \in {"new", "over"}
        /\ pc = "acted" => state \in Children /\ life[state] = "ran" /\ ~finished
        /\ pc = "enter" => state \in Children /\ life[state] \in {"new", "over"} /\ ~finished
        /\ pc \in {"action", "done"} /\ ~finished /\ state \in Children =>
              life[state] \in {"started", "ran"}
        /\ finished => Stopped
        /\ pc = "over" => finished

CompositeInv == TypeOK /\ SetupInv /\ SequentialInv /\ ParallelInv /\ FSMInv

\* CompositeInv is an invariant.
LEMMA CompositeInvariant == Spec => []CompositeInv
<1>1. Init => CompositeInv
  <2> SUFFICES ASSUME Init PROVE CompositeInv
    OBVIOUS
  <2>1. IsInjective(children) /\ children \in Seq(Children) /\ Len(children) = 0
    BY DEF Init, IsInjective
  <2>2. TypeOK
    <3>1. ended \subseteq 1..Len(children) /\ index \in 1..Len(children) + 1
      BY <2>1 DEF Init
    <3>2. QED
      BY <2>1, <3>1 DEF Init, TypeOK, Kinds
  <2>3. QED
    BY <2>2 DEF Init, CompositeInv, SetupInv, SequentialInv, ParallelInv, FSMInv
<1>2. CompositeInv /\ [Next]_vars => CompositeInv'
  <2> SUFFICES ASSUME CompositeInv, [Next]_vars PROVE CompositeInv'
    OBVIOUS
  <2> USE TablesAreTotal, NamesAreNotChildren, MaxTimerIsNat DEF CompositeInv, fixed
  <2>1. CASE SequentialStart
    <3>1. kind = "SEQUENTIAL"
      BY <2>1 DEF SequentialStart
    <3>2. TypeOK'
      BY <2>1, <3>1 DEF SequentialStart, Started, TypeOK, SequentialInv
    <3>3. SequentialInv'
      BY <2>1, <3>1 DEF SequentialStart, Started, TypeOK, SetupInv, SequentialInv, IsInjective
    <3>4. QED
      BY <2>1, <3>1, <3>2, <3>3 DEF SequentialStart, SetupInv, SequentialInv, ParallelInv, FSMInv
  <2>2. CASE SequentialAction
    <3>1. kind = "SEQUENTIAL"
      BY <2>2 DEF SequentialAction
    <3>2. TypeOK'
      <4>1. CASE index <= Len(children)
        <5>1. children[index] \in Children /\ ChildActs(children[index])
          BY <2>2, <4>1 DEF SequentialAction, TypeOK
        <5>2. QED
          BY <2>2, <3>1, <5>1, ChildActsTyped DEF SequentialAction, TypeOK
      <4>2. CASE ~(index <= Len(children))
        BY <2>2, <3>1, <4>2 DEF SequentialAction, TypeOK
      <4>3. QED
        BY <4>1, <4>2
    <3>3. SequentialInv'
      <4>1. CASE index <= Len(children)
        <5>1. /\ pc' = "acted" /\ pc = "action" /\ UNCHANGED <<kind, children, index>>
              /\ life' = [life EXCEPT ![children[index]] = "ran"]
          BY <2>2, <4>1 DEF SequentialAction, ChildActs, fixed
        <5>2. /\ index \in 1..Len(children) /\ children[index] \in Children
              /\ \A k \in 1..Len(children) : /\ children[k] \in Children
                                              /\ children[k] = children[index] => k = index
          BY <4>1 DEF TypeOK, IsInjective
        <5>3. \A k \in 1..Len(children) :
                 life'[children[k]] = IF k = index THEN "ran" ELSE life[children[k]]
          BY <5>1, <5>2 DEF TypeOK
        <5>4. QED
          BY <3>1, <5>1, <5>2, <5>3 DEF SequentialInv
      <4>2. CASE ~(index <= Len(children))
        BY <2>2, <3>1, <4>2 DEF SequentialAction, SequentialInv
      <4>3. QED
        BY <4>1, <4>2
    <3>4. QED
      BY <2>2, <3>1, <3>2, <3>3 DEF SequentialAction, SetupInv, SequentialInv, ParallelInv, FSMInv
  <2>3. CASE SequentialActed
    <3>1. kind = "SEQUENTIAL"
      BY <2>3 DEF SequentialActed
    <3>2. TypeOK'
      BY <2>3, <3>1 DEF SequentialActed, DoneAnswers, TypeOK, SequentialInv
    <3>3. SequentialInv'
      BY <2>3, <3>1 DEF SequentialActed, DoneAnswers, TypeOK, SequentialInv, IsInjective
    <3>4. QED
      BY <2>3, <3>1, <3>2, <3>3 DEF SequentialActed, SetupInv, SequentialInv, ParallelInv, FSMInv
  <2>4. CASE ParallelStart
    <3>1. kind \in {"ALL", "ANY"}
      BY <2>4 DEF ParallelStart
    <3>2. TypeOK'
      BY <2>4, <3>1 DEF ParallelStart, Started, TypeOK, ParallelInv
    <3>3. ParallelInv'
      BY <2>4, <3>1 DEF ParallelStart, Started, TypeOK, SetupInv, ParallelInv, Range
    <3>4. QED
      BY <2>4, <3>1, <3>2, <3>3 DEF ParallelStart, SetupInv, SequentialInv, ParallelInv, FSMInv
  <2>5. CASE ParallelAction
    <3>1. kind \in {"ALL", "ANY"}
      BY <2>5 DEF ParallelAction
    <3>2. TypeOK'
      BY <2>5, <3>1 DEF ParallelAction, TypeOK, ParallelInv
    <3>3. ParallelInv'
      BY <2>5, <3>1 DEF ParallelAction, TypeOK, ParallelInv, IsInjective
    <3>4. QED
      BY <2>5, <3>1, <3>2, <3>3 DEF ParallelAction, SetupInv, SequentialInv, ParallelInv, FSMInv
  <2>6. CASE ParallelEach
    <3>1. kind \in {"ALL", "ANY"}
      BY <2>6 DEF ParallelEach, TypeOK, Kinds, SequentialInv, ParallelInv, FSMInv
    <3>2. TypeOK'
      <4>1. CASE index <= Len(children) /\ index \notin ended
        <5>1. children[index] \in Children /\ ChildActs(children[index])
          BY <2>6, <4>1 DEF ParallelEach, TypeOK
        <5>2. /\ life' \in [Children -> {"new", "started", "ran", "over"}]
              /\ timer' \in [Children -> 0..MaxTimer]
          BY <5>1, ChildActsTyped
        <5>3. /\ pc' = "acted"
              /\ UNCHANGED <<kind, type, children, index, ended, state, finished>>
          BY <2>6, <4>1 DEF ParallelEach, TypeOK
        <5>4. QED
          BY <5>2, <5>3 DEF TypeOK
      <4>2. CASE index > Len(children)
        BY <2>6, <3>1, <4>2 DEF ParallelEach, TypeOK
      <4>3. CASE index <= Len(children) /\ index \in ended
        <5>1. /\ index' = index + 1
              /\ UNCHANGED <<kind, type, timer, children, pc, ended, state, finished, life>>
          BY <2>6, <4>3 DEF ParallelEach, TypeOK
        <5>2. Len(children) \in Nat /\ index + 1 \in 1..Len(children) + 1
          BY <4>3 DEF TypeOK
        <5>3. QED
          BY <5>1, <5>2 DEF TypeOK
      <4>4. QED
        BY <4>1, <4>2, <4>3 DEF TypeOK
    <3>3. ParallelInv'
      BY <2>6, <3>1 DEF ParallelEach, ChildActs, TypeOK, ParallelInv, IsInjective
    <3>4. QED
      BY <2>6, <3>1, <3>2, <3>3 DEF ParallelEach, SetupInv, SequentialInv, ParallelInv, FSMInv
  <2>7. CASE ParallelActed
    <3>1. kind \in {"ALL", "ANY"}
      BY <2>7 DEF ParallelActed
    <3>2. TypeOK'
      BY <2>7, <3>1 DEF ParallelActed, DoneAnswers, TypeOK, ParallelInv
    <3>3. ParallelInv'
      BY <2>7, <3>1 DEF ParallelActed, DoneAnswers, TypeOK, ParallelInv, IsInjective
    <3>4. QED
      BY <2>7, <3>1, <3>2, <3>3 DEF ParallelActed, SetupInv, SequentialInv, ParallelInv, FSMInv
  <2>8. CASE FSMStart
    <3>1. kind = "FSM"
      BY <2>8 DEF FSMStart
    <3>2. TypeOK'
      BY <2>8, <3>1 DEF FSMStart, Started, TypeOK, FSMInv
    <3>3. FSMInv'
      BY <2>8, <3>1 DEF FSMStart, Started, TypeOK, SetupInv, FSMInv, Stopped, Successor
    <3>4. QED
      BY <2>8, <3>1, <3>2, <3>3 DEF FSMStart, SetupInv, SequentialInv, ParallelInv, FSMInv
  <2>9. CASE FSMAction
    <3>1. kind = "FSM"
      BY <2>9 DEF FSMAction
    <3>2. TypeOK'
      <4>1. CASE ~finished /\ state # NoState
        <5>1. state \in Children /\ ChildActs(state)
          BY <2>9, <4>1 DEF FSMAction, TypeOK
        <5>2. QED
          BY <2>9, <3>1, <5>1, ChildActsTyped DEF FSMAction, TypeOK
      <4>2. CASE ~(~finished /\ state # NoState)
        BY <2>9, <3>1, <4>2 DEF FSMAction, TypeOK
      <4>3. QED
        BY <4>1, <4>2
    <3>3. FSMInv'
      BY <2>9, <3>1 DEF FSMAction, ChildActs, TypeOK, FSMInv, Stopped, Successor
    <3>4. QED
      BY <2>9, <3>1, <3>2, <3>3 DEF FSMAction, SetupInv, SequentialInv, ParallelInv, FSMInv
  <2>10. CASE FSMActed
    <3>1. kind = "FSM"
      BY <2>10 DEF FSMActed
    <3>2. TypeOK'
      BY <2>10, <3>1 DEF FSMActed, DoneAnswers, TypeOK, FSMInv
    <3>3. FSMInv'
      BY <2>10, <3>1 DEF FSMActed, DoneAnswers, TypeOK, FSMInv, Stopped, Successor
    <3>4. QED
      BY <2>10, <3>1, <3>2, <3>3 DEF FSMActed, SetupInv, SequentialInv, ParallelInv, FSMInv
  <2>11. CASE FSMEnter
    <3>1. kind = "FSM"
      BY <2>11 DEF FSMEnter, TypeOK, Kinds, SequentialInv, ParallelInv, FSMInv
    <3>2. TypeOK'
      BY <2>11, <3>1 DEF FSMEnter, Started, TypeOK, FSMInv
    <3>3. FSMInv'
      BY <2>11, <3>1 DEF FSMEnter, Started, TypeOK, FSMInv, Stopped, Successor
    <3>4. QED
      BY <2>11, <3>1, <3>2, <3>3 DEF FSMEnter, SetupInv, SequentialInv, ParallelInv, FSMInv
  <2>12. CASE Loop
    <3>1. TypeOK'
      BY <2>12 DEF Loop, TypeOK
    <3>2. Done' <=> Done
      BY <2>12 DEF Loop, Done
    <3>3. SequentialInv' /\ ParallelInv' /\ FSMInv'
      BY <2>12, <3>2 DEF Loop, TypeOK, SequentialInv, ParallelInv, FSMInv, Stopped, Successor, Done
    <3>4. QED
      BY <2>12, <3>1, <3>3 DEF Loop, SetupInv
  <2>13. ASSUME NEW c \in Children, addSubBehaviour(c) PROVE CompositeInv'
    <3>1. TypeOK'
      BY <2>13, AppendKeepsDistinct DEF addSubBehaviour, TypeOK
    <3>2. QED
      BY <2>13, <3>1 DEF addSubBehaviour, SetupInv, SequentialInv, ParallelInv, FSMInv
  <2>14. ASSUME NEW c \in Children, removeSubBehaviour(c) PROVE CompositeInv'
    <3>1. TypeOK'
      <4>1. PICK k \in 1..Len(children) : children' = RemoveAt(children, k)
        BY <2>14 DEF removeSubBehaviour
      <4>2. children' \in Seq(Children) /\ IsInjective(children') /\ Len(children') \in Nat
        BY <4>1, RemoveKeepsDistinct, LenProperties DEF TypeOK
      <4>3. index = 1 /\ ended = {}
        BY <2>14 DEF removeSubBehaviour, SetupInv
      <4>4. QED
        BY <2>14, <4>2, <4>3 DEF removeSubBehaviour, TypeOK
    <3>2. QED
      BY <2>14, <3>1 DEF removeSubBehaviour, SetupInv, SequentialInv, ParallelInv, FSMInv
  <2>15. CASE UNCHANGED vars
    BY <2>15 DEF vars, TypeOK, SetupInv, SequentialInv,
           ParallelInv, FSMInv, Done, Stopped
  <2>16. QED
    BY <2>1, <2>2, <2>3, <2>4, <2>5, <2>6, <2>7, <2>8, <2>9, <2>10, <2>11,
       <2>12, <2>13, <2>14, <2>15
       DEF Next, Run
<1>3. QED
  BY <1>1, <1>2, PTL DEF Spec

\* Every variable keeps its type in every reachable state.
THEOREM TypeCorrect == Spec => []TypeOK
<1>1. CompositeInv => TypeOK
  BY DEF CompositeInv
<1>2. QED
  BY <1>1, CompositeInvariant, PTL

-----------------------------------------------------------------------------
(* The refinement                                                          *)

\* Every composite implements BehaviourContract, whatever its kind, its children
\* and its table: each child sees onStart() before action(), action() before
\* onEnd(), onEnd() once, and nothing after it but another onStart().
THEOREM ImplementsContractAlways == Spec => ImplementsContract
<1>1. Init => Contract!Init
  BY DEF Init, Contract!Init
<1>2. CompositeInv /\ [Next]_vars => [Contract!Next]_life
  <2> SUFFICES ASSUME CompositeInv, [Next]_vars
               PROVE  [Contract!Next]_life
    OBVIOUS
  <2> USE TablesAreTotal, NamesAreNotChildren
      DEF CompositeInv, fixed, Contract!Next, Contract!OnStart, Contract!Action,
          Contract!OnEnd
  <2>1. CASE SequentialStart
    <3>1. kind = "SEQUENTIAL"
      BY <2>1 DEF SequentialStart, TypeOK
    <3>2. Contract!Next \/ UNCHANGED life
      BY <2>1, <3>1 DEF SequentialStart, Started, TypeOK, SetupInv, SequentialInv
    <3>3. QED
      BY <3>2
  <2>2. CASE SequentialAction
    <3>1. kind = "SEQUENTIAL"
      BY <2>2 DEF SequentialAction, TypeOK
    <3>2. Contract!Next \/ UNCHANGED life
      BY <2>2, <3>1 DEF SequentialAction, ChildActs, TypeOK, SequentialInv
    <3>3. QED
      BY <3>2
  <2>3. CASE SequentialActed
    <3>1. kind = "SEQUENTIAL"
      BY <2>3 DEF SequentialActed, TypeOK
    <3>2. Contract!Next \/ UNCHANGED life
      <4>1. /\ index \in 1..Len(children) /\ children[index] \in Children
            /\ life[children[index]] = "ran"
        BY <2>3, <3>1 DEF SequentialActed, TypeOK, SequentialInv
      <4>2. PICK done \in BOOLEAN :
              life' = [c \in Children |->
                        IF done /\ c = children[index] THEN "over"
                        ELSE IF done /\ index < Len(children) /\ c = children[index + 1]
                        THEN "started" ELSE life[c]]
        BY <2>3 DEF SequentialActed, DoneAnswers
      <4>3. index < Len(children) => life[children[index + 1]] = "new"
        BY <2>3, <3>1, <4>1 DEF SequentialActed, TypeOK, SequentialInv
      <4>4. QED
        BY <4>1, <4>2, <4>3
    <3>3. QED
      BY <3>2
  <2>4. CASE ParallelStart
    <3>1. kind \in {"ALL", "ANY"}
      BY <2>4 DEF ParallelStart, TypeOK
    <3>2. Contract!Next \/ UNCHANGED life
      BY <2>4, <3>1 DEF ParallelStart, Started, TypeOK, SetupInv, ParallelInv, Range
    <3>3. QED
      BY <3>2
  <2>5. CASE ParallelAction
    BY <2>5 DEF ParallelAction
  <2>6. CASE ParallelEach
    <3>1. kind \in {"ALL", "ANY"}
      BY <2>6 DEF ParallelEach, TypeOK, Kinds, SequentialInv, ParallelInv, FSMInv
    <3>2. Contract!Next \/ UNCHANGED life
      <4>1. CASE index <= Len(children) /\ index \notin ended
        <5>1. /\ children[index] \in Children
              /\ life[children[index]] \in {"started", "ran"}
              /\ life' = [life EXCEPT ![children[index]] = "ran"]
          BY <2>6, <3>1, <4>1 DEF ParallelEach, ChildActs, TypeOK, ParallelInv
        <5>2. QED
          BY <5>1 DEF TypeOK
      <4>2. CASE ~(index <= Len(children) /\ index \notin ended)
        BY <2>6, <4>2 DEF ParallelEach, TypeOK
      <4>3. QED
        BY <4>1, <4>2
    <3>3. QED
      BY <3>2
  <2>7. CASE ParallelActed
    <3>1. kind \in {"ALL", "ANY"}
      BY <2>7 DEF ParallelActed, TypeOK
    <3>2. Contract!Next \/ UNCHANGED life
      BY <2>7, <3>1 DEF ParallelActed, DoneAnswers, TypeOK, ParallelInv
    <3>3. QED
      BY <3>2
  <2>8. CASE FSMStart
    <3>1. kind = "FSM"
      BY <2>8 DEF FSMStart, TypeOK
    <3>2. Contract!Next \/ UNCHANGED life
      BY <2>8, <3>1 DEF FSMStart, Started, TypeOK, SetupInv, FSMInv
    <3>3. QED
      BY <3>2
  <2>9. CASE FSMAction
    <3>1. kind = "FSM"
      BY <2>9 DEF FSMAction, TypeOK
    <3>2. Contract!Next \/ UNCHANGED life
      BY <2>9, <3>1 DEF FSMAction, ChildActs, TypeOK, FSMInv
    <3>3. QED
      BY <3>2
  <2>10. CASE FSMActed
    <3>1. kind = "FSM"
      BY <2>10 DEF FSMActed, TypeOK
    <3>2. Contract!Next \/ UNCHANGED life
      BY <2>10, <3>1 DEF FSMActed, DoneAnswers, TypeOK, FSMInv
    <3>3. QED
      BY <3>2
  <2>11. CASE FSMEnter
    <3>1. kind = "FSM"
      BY <2>11 DEF FSMEnter, TypeOK, Kinds, SequentialInv, ParallelInv, FSMInv
    <3>2. Contract!Next \/ UNCHANGED life
      BY <2>11, <3>1 DEF FSMEnter, Started, TypeOK, FSMInv
    <3>3. QED
      BY <3>2
  <2>12. CASE Loop
    BY <2>12 DEF Loop
  <2>13. ASSUME NEW c \in Children, addSubBehaviour(c) PROVE [Contract!Next]_life
    BY <2>13 DEF addSubBehaviour
  <2>14. ASSUME NEW c \in Children, removeSubBehaviour(c) PROVE [Contract!Next]_life
    BY <2>14 DEF removeSubBehaviour
  <2>15. CASE UNCHANGED vars
    BY <2>15 DEF vars
  <2>16. QED
    BY <2>1, <2>2, <2>3, <2>4, <2>5, <2>6, <2>7, <2>8, <2>9, <2>10, <2>11,
       <2>12, <2>13, <2>14, <2>15
       DEF Next, Run
<1>3. QED
  BY <1>1, <1>2, CompositeInvariant, PTL DEF Spec, ImplementsContract, Contract!Spec

-----------------------------------------------------------------------------
(* Order and end                                                           *)

\* SequentialBehaviour runs its children one after the other in the order they
\* were added, and an FSM is in one state at a time, for any children and table.
THEOREM OneAtATimeAlways == Spec => []OneAtATime
<1>1. CompositeInv => OneAtATime
  BY DEF CompositeInv, TypeOK, SetupInv, SequentialInv, FSMInv, OneAtATime
<1>2. QED
  BY <1>1, CompositeInvariant, PTL

\* When exthread leaves a composite, what its kind promises has happened: for any
\* number of children, and wherever the table of an FSM leads.
THEOREM EndIsDeservedAlways == Spec => []EndIsDeserved
<1>1. CompositeInv => EndIsDeserved
  <2> SUFFICES ASSUME CompositeInv, pc = "over" PROVE EndIsDeserved
    BY DEF EndIsDeserved
  <2> USE DEF CompositeInv, TypeOK
  <2>1. CASE kind = "SEQUENTIAL"
    <3>1. \A k \in 1..Len(children) : k < index /\ life[children[k]] = "over"
      BY <2>1 DEF SequentialInv
    <3>2. \A c \in Range(children) : life[c] = "over"
      BY <3>1 DEF Range
    <3>3. QED
      BY <2>1, <3>2 DEF EndIsDeserved
  <2>2. CASE kind = "ALL"
    <3>1. \A k \in 1..Len(children) : life[children[k]] = "over"
      BY <2>2 DEF ParallelInv, Done
    <3>2. \A c \in Range(children) : life[c] = "over"
      BY <3>1 DEF Range
    <3>3. QED
      BY <2>2, <3>2 DEF EndIsDeserved
  <2>3. CASE kind = "ANY"
    BY <2>3 DEF ParallelInv, Done, EndIsDeserved, Range
  <2>4. CASE kind = "FSM"
    BY <2>4 DEF FSMInv, Stopped, EndIsDeserved
  <2>5. QED
    BY <2>1, <2>2, <2>3, <2>4 DEF Kinds
<1>2. QED
  BY <1>1, CompositeInvariant, PTL
-----------------------------------------------------------------------------
(* A behaviour of another kind: PythonBehaviour                            *)

\* The rounds are counted modulo a number that is twice the size of a pipe and more.
LEMMA RoundsAreMany == Rounds = 2 * PipeCap + 2 /\ Rounds \in Nat /\ Rounds >= 4
  BY PipeCapIsPositive DEF Rounds

\* A number below twice the modulus is reduced by one subtraction at most.
LEMMA ReducedOnce ==
    ASSUME NEW n \in Nat \ {0}, NEW m \in Nat, m < 2 * n
    PROVE  m % n = IF m < n THEN m ELSE m - n
<1>1. CASE m < n
  BY <1>1
<1>2. CASE m >= n
  BY <1>2
<1>3. QED
  BY <1>1, <1>2

\* Advance counts up to Rounds and starts again.
LEMMA AdvanceWraps ==
    ASSUME NEW r \in 0..Rounds - 1
    PROVE  Advance(r) = IF r + 1 = Rounds THEN 0 ELSE r + 1
<1>1. Rounds \in Nat /\ Rounds >= 4
  BY RoundsAreMany
<1>2. CASE r + 1 = Rounds
  <2>1. Rounds % Rounds = 0
    BY <1>1, ReducedOnce
  <2>2. QED
    BY <1>2, <2>1 DEF Advance, Rounds
<1>3. CASE r + 1 # Rounds
  <2>1. r + 1 \in Nat /\ r + 1 < Rounds
    BY <1>1, <1>3
  <2>2. (r + 1) % Rounds = r + 1
    BY <1>1, <2>1
  <2>3. QED
    BY <1>3, <2>2 DEF Advance, Rounds
<1>4. QED
  BY <1>2, <1>3

-----------------------------------------------------------------------------
\* Every variable of the bridge keeps its type.
THEOREM PythonTypeCorrect == PythonSpec => []PythonTypeOK
<1> USE PipeCapIsPositive
<1>0. NoEvent \in Events /\ 0 \in 0..Rounds - 1 /\ Rounds \in Nat
  BY RoundsAreMany DEF NoEvent, Events, EventKinds
<1>1. PythonInit => PythonTypeOK
  <2> SUFFICES ASSUME PythonInit PROVE PythonTypeOK
    OBVIOUS
  <2>1. toPy \in Seq(Events) /\ Len(toPy) <= PipeCap
    BY DEF PythonInit
  <2>2. fromPy \in Seq(Answers) /\ Len(fromPy) <= PipeCap
    BY DEF PythonInit
  <2>3. event \in Events /\ work \in Events
    BY <1>0 DEF PythonInit
  <2>4. round \in 0..Rounds - 1 /\ late \in 0..Rounds - 1
    BY <1>0 DEF PythonInit
  <2>5. QED
    BY <2>1, <2>2, <2>3, <2>4 DEF PythonInit, PythonTypeOK
<1>2. PythonTypeOK /\ [PythonNext]_pythonVars => PythonTypeOK'
  <2> SUFFICES ASSUME PythonTypeOK, [PythonNext]_pythonVars PROVE PythonTypeOK'
    OBVIOUS
  <2>0. \A r \in 0..Rounds - 1 : Advance(r) \in 0..Rounds - 1 /\ Retreat(r) \in 0..Rounds - 1
    BY RoundsAreMany, AdvanceWraps DEF Retreat
  <2> USE <1>0, <2>0
      DEF PythonTypeOK, bridgeVars, childVars, agentVars
  <2>1. CASE OnStart
    BY <2>1 DEF OnStart, Events, EventKinds
  <2>2. CASE SpawnFails
    BY <2>2 DEF SpawnFails
  <2>3. CASE Action
    <3>1. \A k \in EventKinds : [kind |-> k, round |-> round] \in Events
      BY DEF Events
    <3>2. event' \in Events /\ py_pid_' \in BOOLEAN /\ done_' \in BOOLEAN
      BY <2>3, <3>1 DEF Action, python_alive, EventKinds
    <3>3. QED
      BY <2>3, <3>2 DEF Action
  <2>4. CASE SendEvent
    BY <2>4 DEF SendEvent
  <2>5. CASE SendBroken
    BY <2>5 DEF SendBroken, Return
  <2>6. CASE RecvTimeout
    BY <2>6 DEF RecvTimeout, Return
  <2>7. CASE RecvEOF
    BY <2>7 DEF RecvEOF, Return
  <2>8. CASE RecvLine
    BY <2>8 DEF RecvLine, Return, Execute
  <2>9. CASE OnEnd
    BY <2>9 DEF OnEnd, python_alive, ChildRuns
  <2>10. CASE ChildReads
    BY <2>10 DEF ChildReads
  <2>11. CASE ChildAnswers
    <3>1. \A a \in MayAnswer(work) :
             [act |-> a, round |-> work.round] \in Answers
      BY DEF MayAnswer, Answers, Events, Actions
    <3>2. CASE Up
      <4>1. PICK a \in MayAnswer(work) :
              fromPy' = Append(fromPy, [act |-> a, round |-> work.round])
        BY <2>11, <3>2 DEF ChildAnswers
      <4>2. fromPy' \in Seq(Answers) /\ Len(fromPy') = Len(fromPy) + 1
        BY <3>1, <4>1
      <4>3. QED
        BY <2>11, <3>2, <4>2 DEF ChildAnswers
    <3>3. CASE ~Up
      BY <2>11, <3>3 DEF ChildAnswers
    <3>4. QED
      BY <3>2, <3>3
  <2>12. CASE ChildEnds
    BY <2>12 DEF ChildEnds
  <2>13. CASE ChildCrash
    BY <2>13 DEF ChildCrash
  <2>14. CASE ChildHangs
    BY <2>14 DEF ChildHangs
  <2>15. CASE Post
    BY <2>15 DEF Post
  <2>16. CASE ControlTakes
    BY <2>16 DEF ControlTakes
  <2>17. CASE Exit
    BY <2>17 DEF Exit
  <2>18. CASE UNCHANGED pythonVars
    BY <2>18 DEF pythonVars
  <2>19. CASE SendInterrupted
    BY <2>19 DEF SendInterrupted
  <2>20. QED
    BY <2>1, <2>2, <2>3, <2>4, <2>5, <2>6, <2>7, <2>8, <2>9, <2>10, <2>11, <2>12,
       <2>13, <2>14, <2>15, <2>16, <2>17, <2>18, <2>19
       DEF PythonNext, BehaviourStep, ChildStep
<1>3. QED
  BY <1>1, <1>2, PTL DEF PythonSpec

-----------------------------------------------------------------------------
(* Which round a line belongs to                                           *)

\* Event x is n events before event r.
Behind(x, n, r) == x + n \in {r, r + Rounds}

\* 1 while the script is busy with an event.
Busy == IF child \in {"busy", "hung"} THEN 1 ELSE 0

\* Inductive strengthening of AnswersAreInStep.  What is in the pipe from the
\* script, in its hands and in the pipe to it belongs to consecutive events: the
\* first to come is late events behind, the next one less, and so on; and as long
\* as the script has not died there are as many of them as answers are late, and
\* one more while the behaviour waits.
PipesInv ==
    /\ \A i \in 1..Len(fromPy) :
          i - 1 <= late /\ Behind(fromPy[i].round, late - (i - 1), round)
    /\ child # "exited" =>
          /\ Busy = 1 => Behind(work.round, late - Len(fromPy), round)
          /\ \A j \in 1..Len(toPy) :
                Behind(toPy[j].round, late - (Len(fromPy) + Busy + j - 1), round)
          /\ Len(fromPy) + Busy + Len(toPy) = IF pyPc = "recv" THEN late + 1 ELSE late
    /\ child = "none" => pyPc \in {"onStart", "gate", "end", "over"}
    /\ pyPc = "onStart" => child = "none"
    /\ pyPc = "write" => event.round = round

\* A line that was n events behind is one more behind when the next one is written.
LEMMA BehindAdvance ==
    ASSUME NEW r \in 0..Rounds - 1, NEW x \in 0..Rounds - 1,
           NEW n \in Nat, n < Rounds, Behind(x, n, r)
    PROVE  Behind(x, n + 1, Advance(r))
  BY RoundsAreMany, AdvanceWraps DEF Behind

\* A line that was n events behind is one less behind when an event is not written.
LEMMA BehindRetreat ==
    ASSUME NEW r \in 0..Rounds - 1, NEW x \in 0..Rounds - 1,
           NEW n \in Nat \ {0}, n < Rounds, Behind(x, n, r)
    PROVE  Behind(x, n - 1, Retreat(r))
  BY RoundsAreMany DEF Behind, Retreat

\* Behind is what the property computes.
LEMMA BehindIsModulo ==
    ASSUME NEW r \in 0..Rounds - 1, NEW x \in 0..Rounds - 1,
           NEW n \in 0..Rounds - 1, Behind(x, n, r)
    PROVE  (x + n) % Rounds = r
<1>1. Rounds \in Nat \ {0} /\ x + n \in Nat /\ x + n < 2 * Rounds
  BY RoundsAreMany
<1>2. CASE x + n = r
  <2>1. r \in Nat /\ r < Rounds
    BY <1>1
  <2>2. QED
    BY <1>1, <1>2, <2>1
<1>3. CASE x + n = r + Rounds
  <2>1. x + n >= Rounds
    BY <1>1, <1>3
  <2>2. (x + n) % Rounds = x + n - Rounds
    BY <1>1, <2>1
  <2>3. QED
    BY <1>1, <1>3, <2>2
<1>4. QED
  BY <1>2, <1>3 DEF Behind

\* PipesInv is an invariant.
LEMMA PipesInvariant == PythonSpec => []PipesInv
<1>1. PythonInit => PipesInv
  BY DEF PythonInit, PipesInv, Busy
<1>2. PythonTypeOK /\ PipesInv /\ [PythonNext]_pythonVars => PipesInv'
  <2> SUFFICES ASSUME PythonTypeOK, PipesInv, [PythonNext]_pythonVars PROVE PipesInv'
    OBVIOUS
  <2>a. /\ Rounds \in Nat /\ Rounds = 2 * PipeCap + 2 /\ PipeCap \in Nat
        /\ round \in 0..Rounds - 1 /\ late \in 0..Rounds - 1
        /\ Len(fromPy) \in Nat /\ Len(fromPy) <= PipeCap
        /\ Len(toPy) \in Nat /\ Len(toPy) <= PipeCap
    BY PipeCapIsPositive, RoundsAreMany DEF PythonTypeOK
  <2>b. /\ \A i \in 1..Len(fromPy) : fromPy[i] \in Answers
        /\ \A i \in 1..Len(toPy) : toPy[i] \in Events
        /\ toPy \in Seq(Events) /\ fromPy \in Seq(Answers)
    BY DEF PythonTypeOK
  <2>c. /\ \A e \in Events : e.round \in 0..Rounds - 1
        /\ \A e \in Answers : e.round \in 0..Rounds - 1
        /\ work \in Events
    BY DEF Events, Answers, PythonTypeOK
  <2> USE DEF bridgeVars, childVars, agentVars
  <2>1. CASE OnStart
    <3>1. event'.round = round
      BY <2>1 DEF OnStart
    <3>2. /\ child = "none" /\ child' = "idle" /\ pyPc = "onStart" /\ pyPc' = "write"
          /\ UNCHANGED <<round, late, work, toPy, fromPy>>
      BY <2>1 DEF OnStart, PipesInv
    <3>3. Busy = 0 /\ Busy' = 0
      BY <3>2 DEF Busy
    <3>4. QED
      BY <3>1, <3>2, <3>3 DEF PipesInv
  <2>2. CASE SpawnFails
    BY <2>2 DEF SpawnFails, PipesInv, Busy
  <2>3. CASE Action
    BY <2>3 DEF Action, PipesInv, Busy, python_alive, ChildRuns
  <2>4. CASE SendEvent
    <3>1. event.round = round /\ event \in Events /\ pyPc # "recv"
      BY <2>4 DEF SendEvent, PipesInv, PythonTypeOK
    <3>2. /\ Len(toPy') = Len(toPy) + 1
          /\ \A j \in 1..Len(toPy) : toPy'[j] = toPy[j]
          /\ toPy'[Len(toPy) + 1] = event
      BY <2>4, <2>b, <3>1 DEF SendEvent
    <3>3. Behind(event.round, 0, round)
      BY <3>1, <2>a DEF Behind
    <3>4. /\ UNCHANGED <<fromPy, late, round, child, work, event>>
          /\ pyPc' = "recv" /\ child \in {"idle", "busy", "hung"}
      BY <2>4 DEF SendEvent, ChildRuns
    <3>5. Busy' = Busy /\ Busy \in {0, 1}
      BY <3>4 DEF Busy
    <3>6. /\ Len(fromPy) + Busy + Len(toPy) = late
          /\ \A j \in 1..Len(toPy) :
                Behind(toPy[j].round, late - (Len(fromPy) + Busy + j - 1), round)
          /\ Busy = 1 => Behind(work.round, late - Len(fromPy), round)
      BY <3>1, <3>4 DEF PipesInv
    <3>7. ASSUME NEW j \in 1..Len(toPy')
          PROVE  Behind(toPy'[j].round, late - (Len(fromPy) + Busy + j - 1), round)
      <4>1. CASE j \in 1..Len(toPy)
        BY <3>2, <3>6, <4>1
      <4>2. CASE j = Len(toPy) + 1
        <5>1. late - (Len(fromPy) + Busy + j - 1) = 0
          BY <3>5, <3>6, <4>2, <2>a
        <5>2. QED
          BY <3>2, <3>3, <4>2, <5>1
      <4>3. QED
        BY <3>2, <4>1, <4>2, <2>a
    <3>8. Len(fromPy) + Busy + Len(toPy') = late + 1
      BY <3>2, <3>5, <3>6, <2>a
    <3>9. QED
      BY <3>4, <3>5, <3>6, <3>7, <3>8 DEF PipesInv
  <2>5. CASE SendBroken
    BY <2>5 DEF SendBroken, Return, PipesInv, Busy, ChildRuns, PythonTypeOK
  <2>6. CASE RecvTimeout
    <3>1. /\ UNCHANGED <<fromPy, toPy, child, work>> /\ fromPy = <<>>
          /\ pyPc = "recv" /\ pyPc' \in {"gate", "end"}
          /\ child \in {"idle", "busy", "hung"}
          /\ round' = Advance(round) /\ late' = Advance(late)
      BY <2>6 DEF RecvTimeout, Return, ChildRuns
    <3>2. Busy' = Busy /\ Busy \in {0, 1}
      BY <3>1 DEF Busy
    <3>3. /\ Len(fromPy) = 0
          /\ Busy + Len(toPy) = late + 1
          /\ \A j \in 1..Len(toPy) :
                Behind(toPy[j].round, late - (Busy + j - 1), round)
          /\ Busy = 1 => Behind(work.round, late, round)
      BY <3>1, <3>2, <2>a DEF PipesInv
    <3>4. late' = late + 1
      <4>1. late + 1 < Rounds
        BY <3>2, <3>3, <2>a
      <4>2. QED
        BY <3>1, <4>1, <2>a, AdvanceWraps
    <3>5. ASSUME NEW j \in 1..Len(toPy)
          PROVE  Behind(toPy[j].round, late' - (Busy + j - 1), round')
      <4>1. toPy[j].round \in 0..Rounds - 1 /\ Behind(toPy[j].round, late - (Busy + j - 1), round)
        BY <2>b, <2>c, <3>3
      <4>2. /\ late - (Busy + j - 1) \in Nat /\ late - (Busy + j - 1) < Rounds
            /\ late' - (Busy + j - 1) = (late - (Busy + j - 1)) + 1
        BY <3>2, <3>3, <3>4, <2>a
      <4>3. QED
        BY <3>1, <4>1, <4>2, <2>a, BehindAdvance
    <3>6. Busy = 1 => Behind(work.round, late', round')
      BY <3>1, <3>3, <3>4, <2>a, <2>c, BehindAdvance
    <3>7. Busy + Len(toPy) = late'
      BY <3>3, <3>4
    <3>8. /\ late' - Len(fromPy') = late'
          /\ Len(fromPy') + Busy' + Len(toPy') = late'
          /\ \A j \in 1..Len(toPy') :
                late' - (Len(fromPy') + Busy' + j - 1) = late' - (Busy + j - 1)
      BY <3>1, <3>2, <3>3, <3>4, <3>7, <2>a
    <3>9. QED
      BY <3>1, <3>2, <3>3, <3>5, <3>6, <3>8, <2>a DEF PipesInv
  <2>7. CASE RecvEOF
    BY <2>7 DEF RecvEOF, Return, PipesInv, Busy, ChildRuns, PythonTypeOK
  <2>8. CASE RecvLine
    <3>1. /\ UNCHANGED <<late, toPy, child, work>> /\ fromPy # <<>> /\ fromPy' = Tail(fromPy)
          /\ pyPc = "recv" /\ pyPc' \in {"gate", "end"}
          /\ round' = Advance(round)
      BY <2>8 DEF RecvLine, Return
    <3>2. Busy' = Busy /\ Busy \in {0, 1}
      BY <3>1 DEF Busy
    <3>3. /\ Len(fromPy') = Len(fromPy) - 1
          /\ \A i \in 1..Len(fromPy') : fromPy'[i] = fromPy[i + 1]
      BY <3>1, <2>b
    <3>4. ASSUME NEW i \in 1..Len(fromPy')
          PROVE  i - 1 <= late' /\ Behind(fromPy'[i].round, late' - (i - 1), round')
      <4>1. /\ i + 1 \in 1..Len(fromPy) /\ fromPy'[i] = fromPy[i + 1]
            /\ fromPy'[i].round \in 0..Rounds - 1
        BY <3>3, <2>a, <2>b, <2>c
      <4>2. (i + 1) - 1 <= late /\ Behind(fromPy[i + 1].round, late - ((i + 1) - 1), round)
        BY <4>1 DEF PipesInv
      <4>3. late - ((i + 1) - 1) \in Nat /\ late - ((i + 1) - 1) < Rounds
        BY <4>1, <4>2, <2>a
      <4>4. Behind(fromPy'[i].round, (late - ((i + 1) - 1)) + 1, round')
        BY <3>1, <4>1, <4>2, <4>3, <2>a, BehindAdvance
      <4>5. (late - ((i + 1) - 1)) + 1 = late' - (i - 1) /\ i - 1 <= late'
        BY <3>1, <4>2, <4>3, <2>a
      <4>6. QED
        BY <4>4, <4>5
    <3>5. ASSUME child # "exited"
          PROVE  /\ Busy' = 1 => Behind(work'.round, late' - Len(fromPy'), round')
                 /\ \A j \in 1..Len(toPy') :
                       Behind(toPy'[j].round, late' - (Len(fromPy') + Busy' + j - 1), round')
                 /\ Len(fromPy') + Busy' + Len(toPy') = late'
      <4>1. /\ Len(fromPy) + Busy + Len(toPy) = late + 1
            /\ Busy = 1 => Behind(work.round, late - Len(fromPy), round)
            /\ \A j \in 1..Len(toPy) :
                  Behind(toPy[j].round, late - (Len(fromPy) + Busy + j - 1), round)
        BY <3>1, <3>5 DEF PipesInv
      <4>2. ASSUME Busy = 1
            PROVE  Behind(work.round, late - Len(fromPy'), round')
        <5>1. /\ late - Len(fromPy) \in Nat /\ late - Len(fromPy) < Rounds
              /\ (late - Len(fromPy)) + 1 = late - Len(fromPy')
          BY <3>3, <4>1, <4>2, <2>a
        <5>2. QED
          BY <3>1, <4>1, <4>2, <5>1, <2>a, <2>c, BehindAdvance
      <4>3. ASSUME NEW j \in 1..Len(toPy)
            PROVE  Behind(toPy[j].round, late - (Len(fromPy') + Busy + j - 1), round')
        <5> DEFINE k == late - (Len(fromPy) + Busy + j - 1)
        <5>1. k \in Nat /\ k < Rounds /\ k + 1 = late - (Len(fromPy') + Busy + j - 1)
          BY <3>2, <3>3, <4>1, <2>a
        <5>2. toPy[j].round \in 0..Rounds - 1 /\ Behind(toPy[j].round, k, round)
          BY <4>1, <2>b, <2>c
        <5> HIDE DEF k
        <5>3. Behind(toPy[j].round, k + 1, round')
          BY <3>1, <5>1, <5>2, <2>a, BehindAdvance
        <5>4. QED
          BY <5>1, <5>3
      <4>4. Len(fromPy') + Busy + Len(toPy) = late
        BY <3>2, <3>3, <4>1, <2>a
      <4>5. QED
        BY <3>1, <3>2, <4>2, <4>3, <4>4
    <3>6. QED
      BY <3>1, <3>4, <3>5 DEF PipesInv
  <2>9. CASE OnEnd
    BY <2>9 DEF OnEnd, PipesInv, Busy
  <2>10. CASE ChildReads
    <3>1. /\ UNCHANGED <<pyPc, event, late, round, fromPy>>
          /\ toPy # <<>> /\ work' = toPy[1] /\ toPy' = Tail(toPy)
          /\ child = "idle" /\ child' = "busy"
      BY <2>10, <2>b DEF ChildReads
    <3>2. Busy = 0 /\ Busy' = 1
      BY <3>1 DEF Busy
    <3>3. /\ Len(toPy') = Len(toPy) - 1 /\ 1 \in 1..Len(toPy)
          /\ \A j \in 1..Len(toPy') : j + 1 \in 1..Len(toPy) /\ toPy'[j] = toPy[j + 1]
      BY <3>1, <2>b, <2>a
    <3>4. /\ \A j \in 1..Len(toPy) :
                Behind(toPy[j].round, late - (Len(fromPy) + 0 + j - 1), round)
          /\ Len(fromPy) + 0 + Len(toPy) = IF pyPc = "recv" THEN late + 1 ELSE late
      BY <3>1, <3>2 DEF PipesInv
    <3>5. Behind(work'.round, late - Len(fromPy), round)
      <4>1. late - (Len(fromPy) + 0 + 1 - 1) = late - Len(fromPy)
        BY <2>a
      <4>2. QED
        BY <3>1, <3>3, <3>4, <4>1
    <3>6. ASSUME NEW j \in 1..Len(toPy')
          PROVE  Behind(toPy'[j].round, late - (Len(fromPy) + 1 + j - 1), round)
      <4>1. late - (Len(fromPy) + 0 + (j + 1) - 1) = late - (Len(fromPy) + 1 + j - 1)
        BY <3>3, <2>a
      <4>2. QED
        BY <3>3, <3>4, <4>1
    <3>7. Len(fromPy) + 1 + Len(toPy') = IF pyPc = "recv" THEN late + 1 ELSE late
      <4>1. Len(fromPy) + 1 + Len(toPy') = Len(fromPy) + 0 + Len(toPy)
        BY <3>3, <2>a
      <4>2. QED
        BY <3>4, <4>1
    <3>8. QED
      BY <3>1, <3>2, <3>5, <3>6, <3>7 DEF PipesInv
  <2>11. CASE ChildAnswers
    <3>1. CASE ~Up
      BY <2>11, <3>1 DEF ChildAnswers, PipesInv
    <3>2. CASE Up
      <4>1. PICK a \in MayAnswer(work) :
              fromPy' = Append(fromPy, [act |-> a, round |-> work.round])
        BY <2>11, <3>2 DEF ChildAnswers
      <4>2. [act |-> a, round |-> work.round] \in Answers
        BY <2>c DEF MayAnswer, Answers, Events, Actions
      <4>3. /\ UNCHANGED <<pyPc, event, late, round, toPy>>
            /\ child = "busy" /\ child' = "idle"
        BY <2>11, <3>2 DEF ChildAnswers
      <4>4. Busy = 1 /\ Busy' = 0
        BY <4>3 DEF Busy
      <4>5. /\ Len(fromPy') = Len(fromPy) + 1
            /\ \A i \in 1..Len(fromPy) : fromPy'[i] = fromPy[i]
            /\ fromPy'[Len(fromPy) + 1].round = work.round
        BY <4>1, <4>2, <2>b
      <4>6. /\ Behind(work.round, late - Len(fromPy), round)
            /\ \A j \in 1..Len(toPy) :
                  Behind(toPy[j].round, late - (Len(fromPy) + 1 + j - 1), round)
            /\ Len(fromPy) + 1 + Len(toPy) = IF pyPc = "recv" THEN late + 1 ELSE late
        BY <4>3, <4>4 DEF PipesInv
      <4>7. ASSUME NEW i \in 1..Len(fromPy')
            PROVE  i - 1 <= late /\ Behind(fromPy'[i].round, late - (i - 1), round)
        <5>1. CASE i \in 1..Len(fromPy)
          BY <4>5, <5>1 DEF PipesInv
        <5>2. CASE i = Len(fromPy) + 1
          <6>1. i - 1 = Len(fromPy) /\ i - 1 <= late
            BY <4>6, <5>2, <2>a
          <6>2. QED
            BY <4>5, <4>6, <5>2, <6>1
        <5>3. QED
          BY <4>5, <5>1, <5>2, <2>a
      <4>8. /\ \A j \in 1..Len(toPy) :
                  Len(fromPy') + 0 + j - 1 = Len(fromPy) + 1 + j - 1
            /\ Len(fromPy') + 0 + Len(toPy) = Len(fromPy) + 1 + Len(toPy)
        BY <4>5, <2>a
      <4>9. ASSUME NEW j \in 1..Len(toPy)
            PROVE  Behind(toPy[j].round, late - (Len(fromPy') + 0 + j - 1), round)
        BY <4>6, <4>8
      <4>10. Len(fromPy') + 0 + Len(toPy) = IF pyPc = "recv" THEN late + 1 ELSE late
        BY <4>6, <4>8
      <4> QED
        BY <4>3, <4>4, <4>7, <4>9, <4>10 DEF PipesInv
    <3>3. QED
      BY <3>1, <3>2
  <2>12. CASE ChildEnds
    BY <2>12 DEF ChildEnds, PipesInv
  <2>13. CASE ChildCrash
    BY <2>13 DEF ChildCrash, ChildRuns, PipesInv
  <2>14. CASE ChildHangs
    BY <2>14 DEF ChildHangs, PipesInv, Busy
  <2>15. CASE Post
    BY <2>15 DEF Post, PipesInv, Busy
  <2>16. CASE ControlTakes
    BY <2>16 DEF ControlTakes, PipesInv, Busy
  <2>17. CASE Exit
    BY <2>17 DEF Exit, PipesInv, Busy
  <2>18. CASE UNCHANGED pythonVars
    BY <2>18 DEF pythonVars, PipesInv, Busy
  <2>19. CASE SendInterrupted
    <3>1. /\ UNCHANGED <<fromPy, toPy, child, work>>
          /\ pyPc = "write" /\ pyPc' = "recv"
          /\ child \in {"idle", "busy", "hung"} /\ Len(toPy) \in Nat \ {0}
          /\ round' = Retreat(round) /\ late' = Retreat(late)
      BY <2>19, PipeCapIsPositive DEF SendInterrupted, ChildRuns
    <3>2. Busy' = Busy /\ Busy \in {0, 1}
      BY <3>1 DEF Busy
    <3>3. /\ Len(fromPy) + Busy + Len(toPy) = late
          /\ \A i \in 1..Len(fromPy) :
                i - 1 <= late /\ Behind(fromPy[i].round, late - (i - 1), round)
          /\ \A j \in 1..Len(toPy) :
                Behind(toPy[j].round, late - (Len(fromPy) + Busy + j - 1), round)
          /\ Busy = 1 => Behind(work.round, late - Len(fromPy), round)
      BY <3>1 DEF PipesInv
    <3>4. late' = late - 1
      BY <3>1, <3>2, <3>3, <2>a DEF Retreat
    <3>5. ASSUME NEW x \in 0..Rounds - 1, NEW n \in Nat \ {0}, n < Rounds, Behind(x, n, round)
          PROVE  Behind(x, n - 1, round')
      BY <3>1, <3>5, <2>a, BehindRetreat
    <3>6. ASSUME NEW i \in 1..Len(fromPy)
          PROVE  i - 1 <= late' /\ Behind(fromPy[i].round, late' - (i - 1), round')
      <4>1. /\ late - (i - 1) \in Nat \ {0} /\ late - (i - 1) < Rounds
            /\ late' - (i - 1) = (late - (i - 1)) - 1 /\ i - 1 <= late'
        BY <3>1, <3>2, <3>3, <3>4, <2>a
      <4>2. fromPy[i].round \in 0..Rounds - 1 /\ Behind(fromPy[i].round, late - (i - 1), round)
        BY <3>3, <2>b, <2>c
      <4>3. QED
        BY <3>5, <4>1, <4>2
    <3>7. ASSUME NEW j \in 1..Len(toPy)
          PROVE  Behind(toPy[j].round, late' - (Len(fromPy) + Busy + j - 1), round')
      <4> DEFINE n == late - (Len(fromPy) + Busy + j - 1)
      <4>1. /\ n \in Nat \ {0} /\ n < Rounds
            /\ late' - (Len(fromPy) + Busy + j - 1) = n - 1
        BY <3>1, <3>2, <3>3, <3>4, <2>a
      <4>2. toPy[j].round \in 0..Rounds - 1 /\ Behind(toPy[j].round, n, round)
        BY <3>3, <2>b, <2>c
      <4> HIDE DEF n
      <4>3. QED
        BY <3>5, <4>1, <4>2
    <3>8. ASSUME Busy = 1 PROVE Behind(work.round, late' - Len(fromPy), round')
      <4> DEFINE n == late - Len(fromPy)
      <4>1. n \in Nat \ {0} /\ n < Rounds /\ late' - Len(fromPy) = n - 1
        BY <3>1, <3>3, <3>4, <3>8, <2>a
      <4>2. work.round \in 0..Rounds - 1 /\ Behind(work.round, n, round)
        BY <3>3, <3>8, <2>c
      <4> HIDE DEF n
      <4>3. QED
        BY <3>5, <4>1, <4>2
    <3>9. Len(fromPy) + Busy + Len(toPy) = late' + 1
      BY <3>3, <3>4, <2>a
    <3>10. QED
      BY <3>1, <3>2, <3>6, <3>7, <3>8, <3>9 DEF PipesInv
  <2>20. QED
    BY <2>1, <2>2, <2>3, <2>4, <2>5, <2>6, <2>7, <2>8, <2>9, <2>10, <2>11, <2>12,
       <2>13, <2>14, <2>15, <2>16, <2>17, <2>18, <2>19
       DEF PythonNext, BehaviourStep, ChildStep
<1>3. QED
  BY <1>1, <1>2, PythonTypeCorrect, PTL DEF PythonSpec

\* PythonBehaviour::recv_response and Agent._respond: the line that the behaviour
\* is about to execute answers the event that was written as many events ago as
\* answers are late, for pipes of any size, however late the script is and whenever
\* it dies.
THEOREM AnswersAreInStepAlways == PythonSpec => []AnswersAreInStep
<1>1. PythonTypeOK /\ PipesInv => AnswersAreInStep
  <2> SUFFICES ASSUME PythonTypeOK, PipesInv, fromPy # <<>>
               PROVE  (Head(fromPy).round + late) % Rounds = round
    BY DEF AnswersAreInStep
  <2>1. Head(fromPy) = fromPy[1] /\ 1 \in 1..Len(fromPy) /\ fromPy[1] \in Answers
    BY DEF PythonTypeOK
  <2>2. fromPy[1].round \in 0..Rounds - 1 /\ round \in 0..Rounds - 1 /\ late \in 0..Rounds - 1
    BY <2>1 DEF Answers, PythonTypeOK
  <2>3. Behind(fromPy[1].round, late, round)
    BY <2>1, <2>2, RoundsAreMany DEF PipesInv
  <2>4. QED
    BY <2>1, <2>2, <2>3, BehindIsModulo
<1>2. QED
  BY <1>1, PythonTypeCorrect, PipesInvariant, PTL

\* Inductive: SIGPIPE is ignored before anything is written.
SignalInv == (pyPc # "onStart" => sigpipe) /\ process # "killed"

\* PythonBehaviour::send_event: a child that dies, before, between or during the
\* writes, never takes the agent's process with it.  (DeadChildEndsBehaviour says
\* what happens instead.)
THEOREM ChildKillsNobody == PythonSpec => [](process # "killed")
<1>1. PythonInit => SignalInv
  BY DEF PythonInit, SignalInv
<1>2. SignalInv /\ [PythonNext]_pythonVars => SignalInv'
  <2> SUFFICES ASSUME SignalInv, [PythonNext]_pythonVars PROVE SignalInv'
    OBVIOUS
  <2> USE DEF SignalInv, bridgeVars, childVars, agentVars
  <2>1. CASE OnStart \/ SpawnFails
    BY <2>1 DEF OnStart, SpawnFails
  <2>2. CASE Action
    BY <2>2 DEF Action
  <2>3. CASE SendEvent
    BY <2>3 DEF SendEvent
  <2>4. CASE SendBroken
    BY <2>4 DEF SendBroken, Return
  <2>5. CASE SendInterrupted \/ RecvTimeout \/ RecvEOF \/ RecvLine
    BY <2>5 DEF SendInterrupted, RecvTimeout, RecvEOF, RecvLine, Return
  <2>6. CASE OnEnd
    BY <2>6 DEF OnEnd
  <2>7. CASE ChildStep \/ ChildCrash \/ ChildHangs
    BY <2>7 DEF ChildStep, ChildReads, ChildAnswers, ChildEnds, ChildCrash, ChildHangs
  <2>8. CASE Post \/ ControlTakes \/ Exit
    BY <2>8 DEF Post, ControlTakes, Exit
  <2>9. CASE UNCHANGED pythonVars
    BY <2>9 DEF pythonVars
  <2>10. QED
    BY <2>1, <2>2, <2>3, <2>4, <2>5, <2>6, <2>7, <2>8, <2>9 DEF PythonNext, BehaviourStep
<1>3. SignalInv => process # "killed"
  BY DEF SignalInv
<1>4. QED
  BY <1>1, <1>2, <1>3, PTL DEF PythonSpec
=============================================================================
