------------------------ MODULE AgentLifecycleProofs ------------------------
(***************************************************************************)
(* Machine-checked proofs about the process of an agent, for every set of  *)
(* behaviours and every number of requests, and about the environment that *)
(* agents send their attributes to, for any agents, any values and a queue *)
(* of any size.  The runs Agent and EnvSnapshots check the same properties *)
(* on small instances.                                                     *)
(***************************************************************************)
EXTENDS AgentLifecycle, Environment, FiniteSetTheorems, TLAPS

\* Every variable keeps its type in every reachable state.
THEOREM TypeCorrect == Spec => []TypeOK
<1>1. Init => TypeOK
  <2> SUFFICES ASSUME Init PROVE TypeOK
    OBVIOUS
  <2>1. signals \in [Requests -> Nat] /\ beh \in [Behaviours -> BehPcs] /\ deleting \in [Threads -> DelPcs]
    BY DEF Init, BehPcs, DelPcs
  <2>2. issued \in 0..MaxRequests
    BY MaxRequestsIsNat DEF Init
  <2>3. /\ action_to_do \in Posted \cup {AGENT_UNKNOWN} /\ handling \in Requests \cup {AGENT_UNKNOWN}
        /\ mainPc \in MainPcs /\ ctlPc \in CtlPcs /\ agentStatus \in {AGENT_INITED, AGENT_ACTIVE}
    BY DEF Init, MainPcs, CtlPcs
  <2>4. QED
    BY <2>1, <2>2, <2>3 DEF Init, TypeOK
<1>2. TypeOK /\ [Next]_vars => TypeOK'
  <2> SUFFICES ASSUME TypeOK, [Next]_vars PROVE TypeOK'
    OBVIOUS
  <2> USE DEF TypeOK, Threads, CtlPcs, CtlLocked, MainPcs, BehPcs, DelPcs, Posted, Requests,
              AGENT_UNKNOWN, AGENT_INITED, AGENT_ACTIVE, AGENT_SUSPENDED, AGENT_TRANSIT,
              AGENT_WAITING, AGENT_DELETED, AGENT_WAKING, mailbox, sigVars, history,
              listing
  <2>1. CASE Register
    BY <2>1 DEF Register
  <2>2. CASE Setup
    BY <2>2 DEF Setup
  <2>3. CASE AllSpawned
    BY <2>3 DEF AllSpawned
  <2>4. CASE Join
    BY <2>4 DEF Join
  <2>5. CASE TakeDown
    BY <2>5 DEF TakeDown
  <2>6. CASE ListenerStarts
    BY <2>6 DEF ListenerStarts
  <2>7. CASE SignalPosts
    BY <2>7 DEF SignalPosts, Post, Resumes
  <2>8. CASE SignalDeletes
    BY <2>8 DEF SignalDeletes
  <2>9. CASE ControlTop
    BY <2>9 DEF ControlTop, ControlOnly
  <2>10. CASE ControlWakes
    BY <2>10 DEF ControlWakes, ControlOnly
  <2>11. CASE ControlSpuriousWake
    BY <2>11 DEF ControlSpuriousWake, ControlOnly
  <2>12. CASE ControlRunsOrStops
    BY <2>12 DEF ControlRunsOrStops, SetRunning, ControlOnly
  <2>13. CASE ControlNothing
    BY <2>13 DEF ControlNothing, ControlOnly
  <2>14. CASE ControlTransitNoType
    BY <2>14 DEF ControlTransitNoType, SetRunning, ControlOnly
  <2>15. CASE ControlTransit
    BY <2>15 DEF ControlTransit, ControlOnly
  <2>16. CASE TransitFails
    BY <2>16 DEF TransitFails, SetRunning, ControlOnly
  <2>17. CASE TransitOK
    BY <2>17 DEF TransitOK, ControlOnly
  <2>18. CASE LeaveAMS
    BY <2>18 DEF LeaveAMS
  <2>19. CASE LeaveDF
    BY <2>19 DEF LeaveDF
  <2>20. CASE Leave
    BY <2>20 DEF Leave
  <2>21. ASSUME NEW b \in Behaviours, Spawn(b) PROVE TypeOK'
    BY <2>21 DEF Spawn
  <2>22. ASSUME NEW b \in Behaviours, OnStart(b) PROVE TypeOK'
    BY <2>22 DEF OnStart, Goto
  <2>23. ASSUME NEW b \in Behaviours, Gate(b) PROVE TypeOK'
    BY <2>23 DEF Gate, Goto
  <2>24. ASSUME NEW b \in Behaviours, SpuriousWake(b) PROVE TypeOK'
    BY <2>24 DEF SpuriousWake, Goto
  <2>25. ASSUME NEW b \in Behaviours, ActionReturns(b) PROVE TypeOK'
    BY <2>25 DEF ActionReturns, Goto
  <2>26. ASSUME NEW b \in Behaviours, OnEnd(b) PROVE TypeOK'
    BY <2>26 DEF OnEnd, Goto
  <2>27. ASSUME NEW b \in Behaviours, Advertise(b) \/ Bind(b) PROVE TypeOK'
    <3>1. CASE Advertise(b)
      BY <3>1 DEF Advertise
    <3>2. CASE Bind(b)
      BY <3>2 DEF Bind
    <3>3. QED
      BY <2>27, <3>1, <3>2
  <2>28. ASSUME NEW b \in Behaviours, BehaviourPosts(b) PROVE TypeOK'
    BY <2>28, MaxRequestsIsNat DEF BehaviourPosts, Post, Resumes
  <2>29. ASSUME NEW b \in Behaviours, BehaviourDeletes(b) PROVE TypeOK'
    BY <2>29, MaxRequestsIsNat DEF BehaviourDeletes
  <2>30. ASSUME NEW r \in Requests, TakeSignal(r) PROVE TypeOK'
    BY <2>30 DEF TakeSignal
  <2>31. ASSUME NEW r \in Requests, SendSignal(r) PROVE TypeOK'
    BY <2>31, MaxRequestsIsNat DEF SendSignal
  <2>32. ASSUME NEW t \in Threads, DeleteAMS(t) PROVE TypeOK'
    BY <2>32 DEF DeleteAMS
  <2>33. ASSUME NEW t \in Threads, DeleteDF(t) PROVE TypeOK'
    BY <2>33 DEF DeleteDF
  <2>34. ASSUME NEW t \in Threads, DeleteExit(t) PROVE TypeOK'
    BY <2>34 DEF DeleteExit
  <2>35. CASE UNCHANGED vars
    BY <2>35 DEF vars
  <2>36. QED
    BY <2>1, <2>2, <2>3, <2>4, <2>5, <2>6, <2>7, <2>8, <2>9, <2>10, <2>11, <2>12, <2>13,
       <2>14, <2>15, <2>16, <2>17, <2>18, <2>19, <2>20, <2>21, <2>22, <2>23, <2>24,
       <2>25, <2>26, <2>27, <2>28, <2>29, <2>30, <2>31, <2>32, <2>33, <2>34, <2>35
       DEF Next, MainStep, ListenerStep, ControlStep, BehaviourStep, BehaviourCall, Delete
<1>3. QED
  BY <1>1, <1>2, PTL DEF Spec

-----------------------------------------------------------------------------
(* The mailbox                                                             *)

\* Inductive strengthening of LastRequestWins.  An empty mailbox means the
\* last request is in force; a full one holds the last request; the lock keeps
\* it there through a migration; and control_Thread only sleeps on a mailbox
\* that is empty or holds AGENT_ACTIVE.
MailboxInv ==
    /\ action_to_do = AGENT_UNKNOWN => (runingThred <=> wanted)
    /\ action_to_do # AGENT_UNKNOWN => (wanted <=> Resumes(action_to_do))
    /\ ctlPc \in CtlLocked \ {"switch"} => action_to_do = AGENT_TRANSIT
    /\ ctlPc = "waiting" => action_to_do \in {AGENT_UNKNOWN, AGENT_ACTIVE}

\* Posting any request keeps MailboxInv, whichever thread posts it.
LEMMA PostKeepsMailbox ==
    ASSUME TypeOK, MailboxInv, NEW r \in Posted, Post(r), UNCHANGED runingThred
    PROVE  MailboxInv'
<1>1. action_to_do' = r /\ r # AGENT_UNKNOWN
  BY DEF Post, Posted, AGENT_UNKNOWN, AGENT_ACTIVE, AGENT_SUSPENDED, AGENT_TRANSIT, AGENT_WAITING,
         AGENT_WAKING
<1>2. wanted' <=> Resumes(r)
  BY DEF Post
<1>3. ctlPc' \notin CtlLocked /\ ctlPc' # "waiting"
  BY DEF Post, MtxFree, CtlLocked
<1>4. QED
  BY <1>1, <1>2, <1>3 DEF MailboxInv, Resumes

\* A step that leaves the mailbox, the flag and the control thread alone.
LEMMA MailboxFrame ==
    ASSUME MailboxInv, UNCHANGED <<action_to_do, wanted, runingThred, ctlPc>>
    PROVE  MailboxInv'
  BY DEF MailboxInv, Resumes

\* MailboxInv is an invariant.
LEMMA MailboxInvariant == Spec => []MailboxInv
<1>1. Init => MailboxInv
  BY DEF Init, MailboxInv, CtlLocked
<1>2. TypeOK /\ MailboxInv /\ [Next]_vars => MailboxInv'
  <2> SUFFICES ASSUME TypeOK, MailboxInv, [Next]_vars PROVE MailboxInv'
    OBVIOUS
  <2> USE DEF mailbox, ControlOnly
  <2>1. CASE MainStep
    BY <2>1, MailboxFrame DEF MainStep, Register, Setup, Spawn, AllSpawned, Join, TakeDown
  <2>2. CASE ListenerStep
    <3>1. CASE SignalPosts
      BY <3>1, PostKeepsMailbox DEF SignalPosts
    <3>2. CASE ListenerStarts \/ SignalDeletes \/ \E r \in Requests : TakeSignal(r)
      BY <3>2, MailboxFrame DEF ListenerStarts, SignalDeletes, TakeSignal
    <3>3. QED
      BY <2>2, <3>1, <3>2 DEF ListenerStep
  <2>3. CASE ControlStep \/ ControlSpuriousWake
    <3> USE DEF TypeOK, MailboxInv, CtlLocked, CtlPcs, Posted, AGENT_UNKNOWN, AGENT_ACTIVE,
                AGENT_SUSPENDED, AGENT_TRANSIT, AGENT_WAITING, AGENT_WAKING
    <3>1. CASE ControlTop \/ ControlWakes \/ ControlSpuriousWake \/ ControlNothing
      BY <3>1 DEF ControlTop, ControlWakes, ControlSpuriousWake, ControlNothing, Resumes
    <3>2. CASE ControlRunsOrStops
      BY <3>2 DEF ControlRunsOrStops, SetRunning, Resumes
    <3>3. CASE ControlTransitNoType \/ TransitFails
      <4>1. action_to_do = AGENT_TRANSIT
        BY <3>3 DEF ControlTransitNoType, TransitFails
      <4>2. SetRunning(TRUE)
        BY <3>3 DEF ControlTransitNoType, TransitFails
      <4>3. wanted' = wanted /\ (wanted <=> Resumes(AGENT_TRANSIT))
        BY <4>1, <4>2 DEF SetRunning
      <4>4. runingThred' /\ action_to_do' = AGENT_UNKNOWN /\ ctlPc' = "top"
        BY <4>2 DEF SetRunning
      <4>5. QED
        BY <4>3, <4>4 DEF Resumes
    <3>4. CASE ControlTransit \/ TransitOK
      BY <3>4 DEF ControlTransit, TransitOK, Resumes
    <3>5. CASE LeaveAMS \/ LeaveDF \/ Leave
      BY <3>5 DEF LeaveAMS, LeaveDF, Leave, Resumes
    <3>6. QED
      BY <2>3, <3>1, <3>2, <3>3, <3>4, <3>5 DEF ControlStep
  <2>4. ASSUME NEW b \in Behaviours, BehaviourStep(b) \/ BehaviourCall(b) PROVE MailboxInv'
    <3>1. CASE BehaviourPosts(b)
      BY <3>1, PostKeepsMailbox DEF BehaviourPosts
    <3>2. CASE BehaviourStep(b) \/ SpuriousWake(b) \/ Advertise(b) \/ Bind(b) \/ BehaviourDeletes(b)
      BY <3>2, MailboxFrame
         DEF BehaviourStep, OnStart, Gate, ActionReturns, OnEnd, SpuriousWake, Goto, Advertise, Bind,
             BehaviourDeletes
    <3>3. QED
      BY <2>4, <3>1, <3>2 DEF BehaviourCall
  <2>5. CASE \E t \in Threads : Delete(t)
    BY <2>5, MailboxFrame DEF Delete, DeleteAMS, DeleteDF, DeleteExit
  <2>6. CASE \E r \in Requests : SendSignal(r)
    BY <2>6, MailboxFrame DEF SendSignal
  <2>7. CASE UNCHANGED vars
    BY <2>7, MailboxFrame DEF vars
  <2>8. QED
    BY <2>1, <2>2, <2>3, <2>4, <2>5, <2>6, <2>7 DEF Next
<1>3. QED
  BY <1>1, <1>2, TypeCorrect, PTL DEF Spec

\* Whenever control_Thread sleeps and no doActivate() was left behind,
\* runingThred is what the last posted request asked for.
THEOREM LastRequestWinsAlways == Spec => []LastRequestWins
<1>1. MailboxInv => LastRequestWins
  BY DEF MailboxInv, LastRequestWins
<1>2. QED
  BY <1>1, MailboxInvariant, PTL

-----------------------------------------------------------------------------
(* The gate of the behaviour threads                                       *)

\* A step that leaves the flag and the behaviour threads alone.
LEMMA WakeupFrame ==
    ASSUME NoLostWakeup, UNCHANGED <<runingThred, beh>>
    PROVE  NoLostWakeup'
  BY DEF NoLostWakeup

\* notify_all empties the wait set of cvInterThred, whatever the flag becomes.
LEMMA SetRunningWakesAll ==
    ASSUME TypeOK, NEW on, SetRunning(on)
    PROVE  NoLostWakeup'
  BY DEF TypeOK, BehPcs, SetRunning, NoLostWakeup

\* A behaviour thread moves to pc; it may only go to sleep when it is told to.
LEMMA GotoKeepsWakeup ==
    ASSUME TypeOK, NoLostWakeup, NEW b \in Behaviours, NEW pc, Goto(b, pc),
           pc = "asleep" => ~runingThred
    PROVE  NoLostWakeup'
  BY DEF TypeOK, NoLostWakeup, Goto

\* No behaviour thread sleeps at the gate of exthread while runingThred is true.
THEOREM NoLostWakeupAlways == Spec => []NoLostWakeup
<1>1. Init => NoLostWakeup
  BY DEF Init, NoLostWakeup
<1>2. TypeOK /\ NoLostWakeup /\ [Next]_vars => NoLostWakeup'
  <2> SUFFICES ASSUME TypeOK, NoLostWakeup, [Next]_vars PROVE NoLostWakeup'
    OBVIOUS
  <2> USE DEF ControlOnly
  <2>1. CASE MainStep
    <3>1. CASE \E b \in Behaviours : Spawn(b)
      BY <3>1 DEF Spawn, NoLostWakeup, TypeOK
    <3>2. CASE Register \/ Setup \/ AllSpawned \/ Join \/ TakeDown
      BY <3>2, WakeupFrame DEF Register, Setup, AllSpawned, Join, TakeDown
    <3>3. QED
      BY <2>1, <3>1, <3>2 DEF MainStep
  <2>2. CASE ListenerStep
    BY <2>2, WakeupFrame
       DEF ListenerStep, ListenerStarts, SignalPosts, SignalDeletes, TakeSignal
  <2>3. CASE ControlStep \/ ControlSpuriousWake
    <3>1. CASE ControlRunsOrStops \/ ControlTransitNoType \/ TransitFails
      BY <3>1, SetRunningWakesAll DEF ControlRunsOrStops, ControlTransitNoType, TransitFails
    <3>2. CASE \/ ControlTop \/ ControlWakes \/ ControlSpuriousWake \/ ControlNothing
               \/ ControlTransit \/ TransitOK \/ LeaveAMS \/ LeaveDF \/ Leave
      BY <3>2, WakeupFrame
         DEF ControlTop, ControlWakes, ControlSpuriousWake, ControlNothing, ControlTransit,
             TransitOK, LeaveAMS, LeaveDF, Leave
    <3>3. QED
      BY <2>3, <3>1, <3>2 DEF ControlStep
  <2>4. ASSUME NEW b \in Behaviours, BehaviourStep(b) \/ BehaviourCall(b) PROVE NoLostWakeup'
    <3>1. CASE OnStart(b) \/ Gate(b) \/ ActionReturns(b) \/ OnEnd(b) \/ SpuriousWake(b)
      BY <3>1, GotoKeepsWakeup DEF OnStart, Gate, ActionReturns, OnEnd, SpuriousWake
    <3>2. CASE Advertise(b) \/ Bind(b) \/ BehaviourPosts(b) \/ BehaviourDeletes(b)
      BY <3>2, WakeupFrame DEF Advertise, Bind, BehaviourPosts, BehaviourDeletes
    <3>3. QED
      BY <2>4, <3>1, <3>2 DEF BehaviourStep, BehaviourCall
  <2>5. CASE \E t \in Threads : Delete(t)
    BY <2>5, WakeupFrame DEF Delete, DeleteAMS, DeleteDF, DeleteExit
  <2>6. CASE \E r \in Requests : SendSignal(r)
    BY <2>6, WakeupFrame DEF SendSignal
  <2>7. CASE UNCHANGED vars
    BY <2>7, WakeupFrame DEF vars
  <2>8. QED
    BY <2>1, <2>2, <2>3, <2>4, <2>5, <2>6, <2>7 DEF Next
<1>3. QED
  BY <1>1, <1>2, TypeCorrect, PTL DEF Spec

-----------------------------------------------------------------------------
(* The end of a process whose behaviours are done                          *)

\* Inductive strengthening of NaturalExitIsClean: past the join no behaviour
\* thread is left to announce a service, and the main thread deregisters
\* before it exits.
ExitInv ==
    /\ mainPc \in {"takeDown", "doDelete"} => \A b \in Behaviours : beh[b] = "over"
    /\ deleting[Main] # "no" => mainPc = "doDelete" /\ tookDown
    /\ deleting[Main] \in {"DF", "exit"} => ~ams
    /\ deleting[Main] = "exit" => ~df
    /\ ~platformUp => ~ams /\ ~df
    /\ exitBy = Main => deleting[Main] = "exit"

\* A step that only moves flags which ExitInv does not mention.
LEMMA ExitFrame ==
    ASSUME ExitInv,
           UNCHANGED <<mainPc, beh, deleting, tookDown, ams, df, platformUp, exitBy>>
    PROVE  ExitInv'
  BY DEF ExitInv

\* A behaviour thread that is not over moves, or asks for the deletion.
LEMMA ExitBehaviour ==
    ASSUME TypeOK, ExitInv, NEW b \in Behaviours, BehaviourStep(b) \/ BehaviourCall(b)
    PROVE  ExitInv'
<1> USE DEF history, listing, Runs
<1>1. beh[b] # "over"
  BY DEF BehaviourStep, BehaviourCall, OnStart, Gate, ActionReturns, OnEnd, SpuriousWake,
         Advertise, Bind, BehaviourPosts, BehaviourDeletes
<1>2. mainPc \notin {"takeDown", "doDelete"} /\ deleting[Main] = "no"
  BY <1>1 DEF ExitInv
<1>3. CASE OnStart(b) \/ Gate(b) \/ ActionReturns(b) \/ OnEnd(b) \/ SpuriousWake(b)
  BY <1>2, <1>3 DEF ExitInv, OnStart, Gate, ActionReturns, OnEnd, SpuriousWake, Goto
<1>4. CASE Advertise(b) \/ Bind(b)
  BY <1>2, <1>4 DEF ExitInv, Advertise, Bind
<1>5. CASE BehaviourPosts(b)
  BY <1>5, ExitFrame DEF BehaviourPosts
<1>6. CASE BehaviourDeletes(b)
  <2>1. deleting'[Main] = "no"
    BY <1>2, <1>6, ThreadsAreDistinct DEF BehaviourDeletes, TypeOK, Threads
  <2>2. QED
    BY <1>2, <1>6, <2>1 DEF ExitInv, BehaviourDeletes
<1>7. QED
  BY <1>3, <1>4, <1>5, <1>6 DEF BehaviourStep, BehaviourCall

\* One step of the local AGENT_DELETED branch of doAction, on any thread.
LEMMA ExitDelete ==
    ASSUME TypeOK, ExitInv, NEW t \in Threads, Delete(t)
    PROVE  ExitInv'
<1> USE DEF history, listing, TypeOK, Threads
<1>1. CASE DeleteAMS(t)
  BY <1>1 DEF ExitInv, DeleteAMS
<1>2. CASE DeleteDF(t)
  BY <1>2 DEF ExitInv, DeleteDF
<1>3. CASE DeleteExit(t)
  BY <1>3 DEF ExitInv, DeleteExit
<1>4. QED
  BY <1>1, <1>2, <1>3 DEF Delete

\* ExitInv is an invariant.
LEMMA ExitInvariant == Spec => []ExitInv
<1>1. Init => ExitInv
  BY ThreadsAreDistinct DEF Init, ExitInv, Threads
<1>2. TypeOK /\ ExitInv /\ [Next]_vars => ExitInv'
  <2> SUFFICES ASSUME TypeOK, ExitInv, [Next]_vars PROVE ExitInv'
    OBVIOUS
  <2> USE DEF history, listing, ControlOnly
  <2>1. CASE MainStep
    <3> USE DEF ExitInv
    <3>1. CASE Register
      BY <3>1 DEF Register
    <3>2. CASE Setup \/ AllSpawned
      BY <3>2 DEF Setup, AllSpawned
    <3>3. CASE \E b \in Behaviours : Spawn(b)
      BY <3>3 DEF Spawn
    <3>4. CASE Join
      BY <3>4 DEF Join
    <3>5. CASE TakeDown
      BY <3>5 DEF TakeDown, TypeOK, Threads
    <3>6. QED
      BY <2>1, <3>1, <3>2, <3>3, <3>4, <3>5 DEF MainStep
  <2>2. CASE ListenerStep
    <3>1. CASE ListenerStarts \/ SignalPosts \/ \E r \in Requests : TakeSignal(r)
      BY <3>1, ExitFrame DEF ListenerStarts, SignalPosts, TakeSignal
    <3>2. CASE SignalDeletes
      <4>1. deleting'[Main] = deleting[Main]
        BY <3>2, ThreadsAreDistinct DEF SignalDeletes, TypeOK, Threads
      <4>2. QED
        BY <3>2, <4>1 DEF SignalDeletes, ExitInv
    <3>3. QED
      BY <2>2, <3>1, <3>2 DEF ListenerStep
  <2>3. CASE ControlStep \/ ControlSpuriousWake
    <3>1. CASE ControlRunsOrStops \/ ControlTransitNoType \/ TransitFails
      <4>1. \A b \in Behaviours : beh[b] = "over" => beh'[b] = "over"
        BY <3>1 DEF ControlRunsOrStops, ControlTransitNoType, TransitFails, SetRunning
      <4>2. UNCHANGED <<mainPc, deleting, tookDown, ams, df, platformUp, exitBy>>
        BY <3>1 DEF ControlRunsOrStops, ControlTransitNoType, TransitFails, SetRunning
      <4>3. QED
        BY <4>1, <4>2 DEF ExitInv
    <3>2. CASE \/ ControlTop \/ ControlWakes \/ ControlSpuriousWake \/ ControlNothing
               \/ ControlTransit \/ TransitOK
      BY <3>2, ExitFrame
         DEF ControlTop, ControlWakes, ControlSpuriousWake, ControlNothing, ControlTransit, TransitOK
    <3>3. CASE LeaveAMS \/ LeaveDF
      <4>1. (ams' => ams) /\ (df' => df)
        <5>1. CASE LeaveAMS
          BY <5>1 DEF LeaveAMS
        <5>2. CASE LeaveDF
          BY <5>2 DEF LeaveDF
        <5>3. QED
          BY <3>3, <5>1, <5>2
      <4>2. UNCHANGED <<mainPc, beh, deleting, tookDown, platformUp, exitBy>>
        BY <3>3 DEF LeaveAMS, LeaveDF
      <4>3. QED
        BY <4>1, <4>2 DEF ExitInv
    <3>4. CASE Leave
      BY <3>4, ThreadsAreDistinct DEF Leave, ExitInv
    <3>5. QED
      BY <2>3, <3>1, <3>2, <3>3, <3>4 DEF ControlStep
  <2>4. CASE \E b \in Behaviours : BehaviourStep(b) \/ BehaviourCall(b)
    BY <2>4, ExitBehaviour
  <2>5. CASE \E t \in Threads : Delete(t)
    BY <2>5, ExitDelete
  <2>6. CASE \E r \in Requests : SendSignal(r)
    BY <2>6, ExitFrame DEF SendSignal
  <2>7. CASE UNCHANGED vars
    BY <2>7, ExitFrame DEF vars
  <2>8. QED
    BY <2>1, <2>2, <2>3, <2>4, <2>5, <2>6, <2>7 DEF Next
<1>3. QED
  BY <1>1, <1>2, TypeCorrect, PTL DEF Spec

\* A process that ends because its behaviours are done has run every onEnd()
\* and takeDown(), and neither the AMS nor the DF lists it any more.
THEOREM NaturalExitIsCleanAlways == Spec => []NaturalExitIsClean
<1>1. ExitInv => NaturalExitIsClean
  BY DEF ExitInv, NaturalExitIsClean
<1>2. QED
  BY <1>1, ExitInvariant, PTL

-----------------------------------------------------------------------------
(* Keys in order                                                           *)

\* The ranks are 1, 2, ... without a gap.
Ranked(D) == \A k \in 1..Cardinality(D) : \E j \in D : Rank(D, j) = k

\* The rank of a key is one of 1..Cardinality, and a larger key has a larger rank.
LEMMA RanksGrow ==
    ASSUME NEW n \in Nat, NEW D \in SUBSET (0..n - 1)
    PROVE  /\ IsFiniteSet(D) /\ Cardinality(D) \in Nat
           /\ \A j \in D : Rank(D, j) \in 1..Cardinality(D)
           /\ \A i, j \in D : i < j => Rank(D, i) < Rank(D, j)
<1>1. IsFiniteSet(D) /\ Cardinality(D) \in Nat
  <2>1. IsFiniteSet(0..n - 1)
    BY FS_Interval
  <2>2. IsFiniteSet(D)
    BY <2>1, FS_Subset
  <2>3. QED
    BY <2>2, FS_CardinalityType
<1>2. ASSUME NEW j \in D
      PROVE  /\ IsFiniteSet({i \in D : i <= j})
             /\ Rank(D, j) \in 1..Cardinality(D)
  <2>1. {i \in D : i <= j} \in SUBSET D /\ j \in {i \in D : i <= j}
    OBVIOUS
  <2>2. /\ IsFiniteSet({i \in D : i <= j}) /\ Cardinality({i \in D : i <= j}) \in Nat
        /\ Cardinality({i \in D : i <= j}) <= Cardinality(D)
    BY <1>1, <2>1, FS_Subset, FS_CardinalityType
  <2>3. Cardinality({i \in D : i <= j}) # 0
    BY <2>1, <2>2, FS_EmptySet
  <2>4. QED
    BY <1>1, <2>2, <2>3 DEF Rank
<1>3. ASSUME NEW i \in D, NEW j \in D, i < j PROVE Rank(D, i) < Rank(D, j)
  <2> DEFINE I == {h \in D : h <= i}
             J == {h \in D : h <= j}
  <2>1. I \in SUBSET J /\ j \in J /\ j \notin I
    <3>1. \A h \in D : h \in Int
      OBVIOUS
    <3>2. (\A h \in D : h <= i => h <= j) /\ j <= j /\ ~(j <= i)
      BY <1>3, <3>1
    <3>3. QED
      BY <3>2
  <2>2. IsFiniteSet(J)
    BY <1>2
  <2>3. Rank(D, i) = Cardinality(I) /\ Rank(D, j) = Cardinality(J)
    BY DEF Rank
  <2>4. Rank(D, i) \in 1..Cardinality(D) /\ Rank(D, j) \in 1..Cardinality(D)
    BY <1>2
  <2> HIDE DEF I, J
  <2>5. Cardinality(I) <= Cardinality(J) /\ Cardinality(I) # Cardinality(J)
    BY <2>1, <2>2, FS_Subset
  <2>6. QED
    BY <1>1, <2>3, <2>4, <2>5
<1>4. QED
  BY <1>1, <1>2, <1>3

\* The key of a rank is the only one that has it.
LEMMA KeyOfRank ==
    ASSUME NEW n \in Nat, NEW D \in SUBSET (0..n - 1), NEW j \in D
    PROVE  Key(D, Rank(D, j)) = j
<1>1. \A i \in D : Rank(D, i) = Rank(D, j) => i = j
  <2>1. SUFFICES ASSUME NEW i \in D, i # j PROVE Rank(D, i) # Rank(D, j)
    OBVIOUS
  <2>2. /\ Cardinality(D) \in Nat
        /\ \A h \in D : Rank(D, h) \in 1..Cardinality(D)
        /\ \A g, h \in D : g < h => Rank(D, g) < Rank(D, h)
    BY RanksGrow
  <2>3. Rank(D, i) \in Int /\ Rank(D, j) \in Int
    BY <2>2
  <2>4. i < j \/ j < i
    BY <2>1
  <2>5. QED
    BY <2>2, <2>3, <2>4
<1>2. QED
  BY <1>1 DEF Key

\* No keys, no ranks.
LEMMA NothingIsRanked == Ranked({})
  BY FS_EmptySet DEF Ranked

\* A key above all others has the next rank, and the others keep theirs.
LEMMA RanksWithOneMore ==
    ASSUME NEW n \in Nat, NEW D \in SUBSET (0..n - 1)
    PROVE  LET E == D \cup {n} IN
           /\ Cardinality(E) = Cardinality(D) + 1
           /\ \A j \in D : Rank(E, j) = Rank(D, j)
           /\ Rank(E, n) = Cardinality(D) + 1
           /\ Ranked(D) => Ranked(E)
<1> DEFINE E == D \cup {n}
<1>1. IsFiniteSet(D) /\ Cardinality(D) \in Nat
  BY RanksGrow
<1>2. n \notin D /\ \A i \in D : i \in Int /\ i < n
  OBVIOUS
<1>3. Cardinality(E) = Cardinality(D) + 1
  BY <1>1, <1>2, FS_AddElement
<1>4. ASSUME NEW j \in D PROVE Rank(E, j) = Rank(D, j)
  <2>1. {i \in E : i <= j} = {i \in D : i <= j}
    <3>1. ~(n <= j)
      BY <1>2
    <3>2. QED
      BY <3>1
  <2>2. QED
    BY <2>1 DEF Rank
<1>5. Rank(E, n) = Cardinality(D) + 1
  <2>1. {i \in E : i <= n} = E
    <3>1. (\A i \in D : i <= n) /\ n <= n
      BY <1>2
    <3>2. QED
      BY <3>1
  <2>2. QED
    BY <1>3, <2>1 DEF Rank
<1>6. ASSUME Ranked(D), NEW k \in 1..Cardinality(E) PROVE \E j \in E : Rank(E, j) = k
  <2>1. CASE k = Cardinality(D) + 1
    BY <1>5, <2>1
  <2>2. CASE k # Cardinality(D) + 1
    <3>1. k \in 1..Cardinality(D)
      BY <1>1, <1>3, <2>2
    <3>2. PICK j \in D : Rank(D, j) = k
      BY <1>6, <3>1 DEF Ranked
    <3>3. QED
      BY <1>4, <3>2
  <2>3. QED
    BY <2>1, <2>2
<1>7. QED
  BY <1>3, <1>4, <1>5, <1>6 DEF Ranked

\* Without the largest key the others keep their ranks.
LEMMA RanksWithoutLast ==
    ASSUME NEW n \in Nat, NEW D \in SUBSET (0..n - 1), Ranked(D), D # {}
    PROVE  \E m \in D :
              /\ \A j \in D : j <= m
              /\ Rank(D, m) = Cardinality(D) /\ Cardinality(D) \in Nat \ {0}
              /\ Cardinality(D \ {m}) = Cardinality(D) - 1
              /\ \A j \in D \ {m} : Rank(D \ {m}, j) = Rank(D, j)
              /\ Ranked(D \ {m})
<1>1. IsFiniteSet(D) /\ Cardinality(D) \in Nat \ {0}
  BY RanksGrow, FS_EmptySet
<1>2. PICK m \in D : Rank(D, m) = Cardinality(D)
  BY <1>1 DEF Ranked
<1>3. \A j \in D : j <= m
  <2>1. SUFFICES ASSUME NEW j \in D, m < j PROVE FALSE
    OBVIOUS
  <2>2. Rank(D, m) < Rank(D, j) /\ Rank(D, j) \in 1..Cardinality(D)
    BY <2>1, RanksGrow
  <2>3. QED
    BY <1>1, <1>2, <2>2
<1> DEFINE E == D \ {m}
<1>4. Cardinality(E) = Cardinality(D) - 1
  BY <1>1, FS_RemoveElement
<1>5. ASSUME NEW j \in E PROVE Rank(E, j) = Rank(D, j)
  <2>1. {i \in E : i <= j} = {i \in D : i <= j}
    BY <1>3
  <2>2. QED
    BY <2>1 DEF Rank
<1>6. ASSUME NEW k \in 1..Cardinality(E) PROVE \E j \in E : Rank(E, j) = k
  <2>1. k \in 1..Cardinality(D) /\ k # Cardinality(D)
    BY <1>1, <1>4
  <2>2. PICK j \in D : Rank(D, j) = k
    BY <2>1 DEF Ranked
  <2>3. j \in E
    BY <1>2, <2>1, <2>2
  <2>4. QED
    BY <1>5, <2>2, <2>3
<1>7. Ranked(E)
  BY <1>6 DEF Ranked
<1>8. QED
  BY <1>1, <1>2, <1>3, <1>4, <1>5, <1>7
-----------------------------------------------------------------------------
(* The process of the environment and its queues                           *)

\* Where the process is says which queue it has open.  A new process has an
\* empty list_attr.
ProcessInv ==
    /\ env \in {"off", "opening"} => reading = 0 /\ received = Nothing /\ replaced = Agents
    /\ env \notin {"off", "opening"} => reading = named /\ named # 0
    /\ env = "opening" => starts # 0

\* An update of an agent, on its way.
IsUpdate(m, a) == m[1] = a /\ m[2] \in Values
NoUpdate(ch, a) == \A k \in 1..Len(ch) : ~IsUpdate(ch[k], a)

\* The last update of a on the queue, if there is one, is of v.
LastIs(ch, a, v) ==
    \A k \in 1..Len(ch) :
        IsUpdate(ch[k], a) /\ (\A j \in k + 1..Len(ch) : ~IsUpdate(ch[j], a)) => ch[k][2] = v

\* The update of a that counts has not got to the queue yet.
Updates(a) == sending[a] # NoSend /\ sending[a].text \in Values

\* An update of a is in the hands of the environment's thread.
InHand(a) == received # Nothing /\ IsUpdate(received, a)

\* What a sent last is what the environment shows of it, or is about to.
Shown(a) ==
    IF InHand(a) THEN received[2] = sent[a] ELSE a \notin replaced => list_attr[a] = sent[a]

\* ViewCatchesUp is not inductive: it speaks of an agent whose updates have all
\* been read and seen to, and what they leave is what the last of them says.
ViewInv ==
    \A a \in Agents :
        /\ Updates(a) => sending[a].mq = into[a] /\ sending[a].text = sent[a]
        /\ into[a] # 0 /\ ~Updates(a) =>
              /\ LastIs(queues[into[a]], a, sent[a])
              /\ into[a] = reading /\ NoUpdate(queues[reading], a) => Shown(a)

-----------------------------------------------------------------------------
(* The environment: types                                                  *)

\* Kept empties a queue or leaves it as it is, and never the one with the name.
LEMMA KeptOrEmpty ==
    ASSUME NEW qs \in [Queues -> Seq(Agents \X Texts)], NEW name
    PROVE  /\ Kept(qs, name) \in [Queues -> Seq(Agents \X Texts)]
           /\ \A q \in Queues : Kept(qs, name)[q] = qs[q] \/ Kept(qs, name)[q] = <<>>
           /\ name \in Queues => Kept(qs, name)[name] = qs[name]
  BY DEF Kept

\* The keys are below the counter, and a key has each of the ranks 1, 2, ...
StackInv ==
    /\ DOMAIN list_snaps \subseteq 0..nsap_seq - 1
    /\ Ranked(DOMAIN list_snaps)

\* The newest snapshot has the largest rank.
LEMMA NewestIsLast ==
    ASSUME nsap_seq \in Nat, StackInv, DOMAIN list_snaps # {}
    PROVE  LET D == DOMAIN list_snaps IN
           /\ Newest \in D
           /\ Rank(D, Newest) = Cardinality(D) /\ Cardinality(D) \in Nat \ {0}
           /\ Cardinality(D \ {Newest}) = Cardinality(D) - 1
           /\ \A j \in D \ {Newest} : Rank(D \ {Newest}, j) = Rank(D, j)
           /\ Ranked(D \ {Newest})
<1> DEFINE D == DOMAIN list_snaps
<1>1. D \in SUBSET (0..nsap_seq - 1) /\ Ranked(D) /\ D # {}
  BY DEF StackInv
<1>2. PICK m \in D :
         /\ \A j \in D : j <= m
         /\ Rank(D, m) = Cardinality(D) /\ Cardinality(D) \in Nat \ {0}
         /\ Cardinality(D \ {m}) = Cardinality(D) - 1
         /\ \A j \in D \ {m} : Rank(D \ {m}, j) = Rank(D, j)
         /\ Ranked(D \ {m})
  BY <1>1, RanksWithoutLast
<1>3. \A k \in D : (\A j \in D : j <= k) => k = m
  BY <1>1, <1>2
<1>4. Newest = m
  BY <1>2, <1>3 DEF Newest
<1>5. QED
  BY <1>2, <1>4

\* EnvTypeOK needs to know where the process is, for a queue is named by its
\* number, and that there is a newest snapshot.
EnvTypeInv == EnvTypeOK /\ ProcessInv /\ StackInv

\* The keys stay in order, and a pull finds a snapshot.
LEMMA SnapshotsStay ==
    ASSUME EnvTypeOK, StackInv, push_nsap \/ pull_nsap \/ clear_nsap
    PROVE  /\ StackInv'
           /\ DOMAIN list_snaps' \subseteq 0..MaxSeq - 1
           /\ \A k \in DOMAIN list_snaps' : list_snaps'[k] \in Pictures
           /\ list_attr' \in Pictures /\ nsap_seq' \in 0..MaxSeq
<1> DEFINE D == DOMAIN list_snaps
<1>1. /\ nsap_seq \in Nat /\ MaxSeq \in Nat /\ nsap_seq <= MaxSeq
      /\ D \in SUBSET (0..nsap_seq - 1) /\ Ranked(D)
      /\ \A k \in D : list_snaps[k] \in Pictures
      /\ list_attr \in Pictures
  BY BoundsAreNat DEF EnvTypeOK, StackInv
<1>2. CASE push_nsap
  <2>1. /\ nsap_seq' = nsap_seq + 1 /\ nsap_seq < MaxSeq /\ list_attr' = list_attr
        /\ DOMAIN list_snaps' = D \cup {nsap_seq}
        /\ \A k \in D \cup {nsap_seq} :
              list_snaps'[k] = list_attr \/ (k \in D /\ list_snaps'[k] = list_snaps[k])
    BY <1>2 DEF push_nsap
  <2>2. Ranked(D \cup {nsap_seq})
    BY <1>1, RanksWithOneMore
  <2>3. D \cup {nsap_seq} \subseteq 0..nsap_seq' - 1
    BY <1>1, <2>1
  <2> HIDE DEF D
  <2>4. DOMAIN list_snaps' \subseteq 0..nsap_seq' - 1 /\ Ranked(DOMAIN list_snaps')
    BY <2>1, <2>2, <2>3
  <2>5. nsap_seq' \in 0..MaxSeq /\ 0..nsap_seq' - 1 \subseteq 0..MaxSeq - 1
    BY <1>1, <2>1
  <2>6. \A k \in DOMAIN list_snaps' : list_snaps'[k] \in Pictures
    BY <1>1, <2>1
  <2>7. QED
    BY <1>1, <2>1, <2>4, <2>5, <2>6 DEF StackInv
<1>3. CASE pull_nsap
  <2>1. D # {} /\ Newest \in D /\ Ranked(D \ {Newest})
    BY <1>1, <1>3, NewestIsLast DEF pull_nsap
  <2>2. /\ nsap_seq' = nsap_seq /\ list_attr' = list_snaps[Newest]
        /\ DOMAIN list_snaps' = D \ {Newest}
        /\ \A k \in D \ {Newest} : list_snaps'[k] = list_snaps[k]
    BY <1>3 DEF pull_nsap
  <2> HIDE DEF D
  <2>3. DOMAIN list_snaps' \subseteq 0..nsap_seq' - 1 /\ Ranked(DOMAIN list_snaps')
    BY <1>1, <2>1, <2>2
  <2>4. 0..nsap_seq' - 1 \subseteq 0..MaxSeq - 1 /\ nsap_seq' \in 0..MaxSeq
    BY <1>1, <2>2
  <2>5. list_attr' \in Pictures /\ \A k \in DOMAIN list_snaps' : list_snaps'[k] \in Pictures
    BY <1>1, <2>1, <2>2
  <2>6. QED
    BY <2>3, <2>4, <2>5 DEF StackInv
<1>4. CASE clear_nsap
  <2>1. nsap_seq' = 0 /\ DOMAIN list_snaps' = {} /\ list_attr' = list_attr
    BY <1>4 DEF clear_nsap
  <2>2. QED
    BY <1>1, <2>1, NothingIsRanked DEF StackInv
<1>5. QED
  BY <1>2, <1>3, <1>4

\* Whoever does not touch the snapshots leaves the keys in order.
LEMMA SnapshotsUntouched ==
    ASSUME StackInv, UNCHANGED <<list_snaps, nsap_seq>> \/ (list_snaps' = <<>> /\ nsap_seq' = 0)
    PROVE  StackInv'
<1>1. CASE UNCHANGED <<list_snaps, nsap_seq>>
  BY <1>1 DEF StackInv
<1>2. CASE list_snaps' = <<>> /\ nsap_seq' = 0
  <2>1. DOMAIN list_snaps' = {}
    BY <1>2
  <2>2. QED
    BY <2>1, NothingIsRanked DEF StackInv
<1>3. QED
  BY <1>1, <1>2

\* EnvTypeInv is an invariant.
LEMMA EnvTypeInvariant == EnvSpec => []EnvTypeInv
<1>1. EnvInit => EnvTypeInv
  BY BoundsAreNat, NothingIsRanked
     DEF EnvInit, EnvTypeInv, EnvTypeOK, ProcessInv, StackInv, NoPicture, Pictures, Queues
<1>2. EnvTypeInv /\ [EnvNext]_envVars => EnvTypeInv'
  <2> SUFFICES ASSUME EnvTypeInv, [EnvNext]_envVars PROVE EnvTypeInv'
    OBVIOUS
  <2> USE BoundsAreNat DEF EnvTypeInv, EnvTypeOK, ProcessInv, processVars, senderVars, nsapVars
  <2>1. ASSUME NEW a \in Agents, NEW t \in Sends[a], attributUpdated(a, t) PROVE EnvTypeInv'
    <3>1. t \in Texts
      BY SendsAreTexts DEF Texts
    <3>2. sent' \in Pictures /\ into' \in [Agents -> 0..MaxStarts]
      BY <2>1 DEF attributUpdated, Pictures
    <3>3. sending' \in [Agents -> [mq : Queues, text : Texts] \cup {NoSend}]
      BY <2>1, <3>1 DEF attributUpdated, Queues
    <3>4. QED
      BY <2>1, <3>2, <3>3, SnapshotsUntouched DEF attributUpdated
  <2>2. ASSUME NEW a \in Agents, mq_send(a) PROVE EnvTypeInv'
    <3> DEFINE q  == sending[a].mq
               qs == [queues EXCEPT ![q] = Append(@, <<a, sending[a].text>>)]
    <3>1. q \in Queues /\ <<a, sending[a].text>> \in Agents \X Texts
      BY <2>2 DEF mq_send
    <3>2. qs \in [Queues -> Seq(Agents \X Texts)]
      BY <3>1
    <3>3. \A r \in Queues : Len(qs[r]) <= MaxMsg
      BY <2>2, <3>1 DEF mq_send
    <3>4. queues' = Kept(qs, named)
      BY <2>2 DEF mq_send
    <3> HIDE DEF qs
    <3>5. /\ queues' \in [Queues -> Seq(Agents \X Texts)]
          /\ \A r \in Queues : queues'[r] = qs[r] \/ queues'[r] = <<>>
      <4>1. /\ Kept(qs, named) \in [Queues -> Seq(Agents \X Texts)]
            /\ \A r \in Queues : Kept(qs, named)[r] = qs[r] \/ Kept(qs, named)[r] = <<>>
        BY ONLY <3>2, KeptOrEmpty
      <4>2. QED
        BY ONLY <3>4, <4>1
    <3>6. \A r \in Queues : Len(queues'[r]) <= MaxMsg
      <4>1. Len(<<>>) = 0 /\ MaxMsg \in Nat
        OBVIOUS
      <4>2. QED
        BY ONLY <3>3, <3>5, <4>1
    <3>7. QED
      BY <2>2, <3>5, <3>6, SnapshotsUntouched DEF mq_send
  <2>3. CASE start
    BY <2>3, SnapshotsUntouched DEF start
  <2>4. CASE mq_open
    BY <2>4, SnapshotsUntouched DEF mq_open
  <2>5. CASE mq_timedreceive
    <3>1. reading \in Queues /\ queues[reading] # <<>> /\ queues[reading] \in Seq(Agents \X Texts)
      BY <2>5 DEF mq_timedreceive, Queues
    <3>2. received' \in Agents \X Texts
      BY <2>5, <3>1 DEF mq_timedreceive
    <3>3. /\ queues' \in [Queues -> Seq(Agents \X Texts)]
          /\ \A q \in Queues : Len(queues'[q]) <= MaxMsg
      BY <2>5, <3>1 DEF mq_timedreceive
    <3>4. QED
      BY <2>5, <3>2, <3>3, SnapshotsUntouched DEF mq_timedreceive
  <2>6. CASE readDataFromQueueMsg
    <3>1. received \in Agents \X Texts /\ env \notin {"off", "opening"}
      BY <2>6 DEF readDataFromQueueMsg
    <3>2. list_attr' \in Pictures /\ replaced' \subseteq Agents
      BY <2>6, <3>1 DEF readDataFromQueueMsg, Pictures
    <3>3. QED
      BY <2>6, <3>1, <3>2, SnapshotsUntouched DEF readDataFromQueueMsg
  <2>7. CASE event_loopEnds
    BY <2>7, SnapshotsUntouched DEF event_loopEnds
  <2>8. CASE mq_unlink
    <3>1. /\ queues' \in [Queues -> Seq(Agents \X Texts)]
          /\ \A q \in Queues : queues'[q] = queues[q] \/ queues'[q] = <<>>
      <4>1. queues' = Kept(queues, 0) /\ queues \in [Queues -> Seq(Agents \X Texts)]
        BY <2>8 DEF mq_unlink
      <4>2. QED
        BY ONLY <4>1, KeptOrEmpty
    <3>2. \A q \in Queues : Len(queues'[q]) <= MaxMsg
      BY <3>1
    <3>3. QED
      BY <2>8, <3>1, <3>2, SnapshotsUntouched DEF mq_unlink, Ends, NoPicture, Pictures
  <2>9. CASE Crash
    BY <2>9, SnapshotsUntouched DEF Crash, Ends, NoPicture, Pictures
  <2>10. CASE push_nsap
    BY <2>10, SnapshotsStay DEF push_nsap
  <2>11. CASE pull_nsap
    BY <2>11, SnapshotsStay DEF pull_nsap
  <2>12. CASE clear_nsap
    BY <2>12, SnapshotsStay DEF clear_nsap
  <2>13. CASE UNCHANGED envVars
    BY <2>13, SnapshotsUntouched DEF envVars
  <2>14. QED
    BY <2>1, <2>2, <2>3, <2>4, <2>5, <2>6, <2>7, <2>8, <2>9, <2>10, <2>11, <2>12, <2>13
       DEF EnvNext, Reader
<1>3. QED
  BY <1>1, <1>2, PTL DEF EnvSpec

\* Every variable of the environment keeps its type, and no queue holds more
\* than mq_maxmsg messages.
THEOREM EnvTypeCorrect == EnvSpec => []EnvTypeOK
<1>1. EnvTypeInv => EnvTypeOK
  BY DEF EnvTypeInv
<1>2. QED
  BY <1>1, EnvTypeInvariant, PTL

-----------------------------------------------------------------------------
(* The environment: the picture of an agent                                *)

\* A message at the end of a queue is the last update, if it is one.
LEMMA LastOfOneMore ==
    ASSUME NEW ch \in Seq(Agents \X Texts), NEW m \in Agents \X Texts, NEW a, NEW v
    PROVE  /\ IsUpdate(m, a) /\ m[2] = v => LastIs(Append(ch, m), a, v)
           /\ ~IsUpdate(m, a) /\ LastIs(ch, a, v) => LastIs(Append(ch, m), a, v)
           /\ NoUpdate(Append(ch, m), a) => NoUpdate(ch, a) /\ ~IsUpdate(m, a)
<1> DEFINE n == Len(ch)
<1>1. /\ n \in Nat /\ Len(Append(ch, m)) = n + 1
      /\ \A k \in 1..n : Append(ch, m)[k] = ch[k]
      /\ Append(ch, m)[n + 1] = m
  OBVIOUS
<1> DEFINE new == Append(ch, m)
<1> HIDE DEF n, new
<1>2. ASSUME IsUpdate(m, a), m[2] = v PROVE LastIs(new, a, v)
  <2>1. SUFFICES ASSUME NEW k \in 1..n + 1, k # n + 1,
                        \A j \in k + 1..n + 1 : ~IsUpdate(new[j], a)
                 PROVE  FALSE
    BY <1>1, <1>2 DEF LastIs, new
  <2>2. n + 1 \in k + 1..n + 1
    BY <1>1, <2>1
  <2>3. QED
    BY <1>1, <1>2, <2>1, <2>2 DEF new
<1>3. ASSUME ~IsUpdate(m, a), LastIs(ch, a, v) PROVE LastIs(new, a, v)
  <2>1. SUFFICES ASSUME NEW k \in 1..n + 1, IsUpdate(new[k], a),
                        \A j \in k + 1..n + 1 : ~IsUpdate(new[j], a)
                 PROVE  new[k][2] = v
    BY <1>1 DEF LastIs, new
  <2>2. k \in 1..n /\ new[k] = ch[k]
    BY <1>1, <1>3, <2>1 DEF new
  <2>3. ASSUME NEW j \in k + 1..n PROVE ~IsUpdate(ch[j], a)
    <3>1. j \in k + 1..n + 1 /\ j \in 1..n
      BY <1>1, <2>2
    <3>2. QED
      BY <1>1, <2>1, <3>1 DEF new
  <2>4. QED
    BY <1>3, <2>1, <2>2, <2>3 DEF LastIs, n
<1>4. ASSUME NoUpdate(new, a) PROVE NoUpdate(ch, a) /\ ~IsUpdate(m, a)
  <2>1. \A k \in 1..n + 1 : ~IsUpdate(new[k], a)
    BY <1>1, <1>4 DEF NoUpdate, new
  <2>2. n + 1 \in 1..n + 1 /\ \A k \in 1..n : k \in 1..n + 1
    BY <1>1
  <2>3. QED
    BY <1>1, <2>1, <2>2 DEF NoUpdate, new, n
<1>5. QED
  BY <1>2, <1>3, <1>4 DEF new

\* When the head leaves a queue, the last update stays the last, or it was the head.
LEMMA LastOfOneLess ==
    ASSUME NEW ch \in Seq(Agents \X Texts), ch # <<>>, NEW a, NEW v, LastIs(ch, a, v)
    PROVE  /\ LastIs(Tail(ch), a, v)
           /\ NoUpdate(Tail(ch), a) => NoUpdate(ch, a) \/ (IsUpdate(Head(ch), a) /\ Head(ch)[2] = v)
<1> DEFINE n == Len(ch)
           old == Tail(ch)
<1>1. /\ n \in Nat \ {0} /\ Len(old) = n - 1 /\ Head(ch) = ch[1]
      /\ \A k \in 1..n - 1 : old[k] = ch[k + 1]
  OBVIOUS
<1> HIDE DEF n, old
<1>2. \A k \in 1..n :
         IsUpdate(ch[k], a) /\ (\A j \in k + 1..n : ~IsUpdate(ch[j], a)) => ch[k][2] = v
  BY DEF LastIs, n
<1>3. LastIs(old, a, v)
  <2>1. SUFFICES ASSUME NEW k \in 1..n - 1, IsUpdate(old[k], a),
                        \A j \in k + 1..n - 1 : ~IsUpdate(old[j], a)
                 PROVE  old[k][2] = v
    BY <1>1 DEF LastIs
  <2>2. k + 1 \in 1..n /\ old[k] = ch[k + 1]
    BY <1>1
  <2>3. ASSUME NEW j \in k + 1 + 1..n PROVE ~IsUpdate(ch[j], a)
    <3>1. j - 1 \in k + 1..n - 1 /\ j - 1 \in 1..n - 1 /\ j - 1 + 1 = j
      BY <1>1
    <3>2. QED
      BY <1>1, <2>1, <3>1
  <2>4. QED
    BY <1>2, <2>1, <2>2, <2>3
<1>4. ASSUME NoUpdate(old, a), ~NoUpdate(ch, a) PROVE IsUpdate(ch[1], a) /\ ch[1][2] = v
  <2>1. \A j \in 1 + 1..n : ~IsUpdate(ch[j], a)
    <3>1. SUFFICES ASSUME NEW j \in 1 + 1..n PROVE ~IsUpdate(ch[j], a)
      OBVIOUS
    <3>2. j - 1 \in 1..n - 1 /\ j - 1 + 1 = j
      BY <1>1
    <3>3. QED
      BY <1>1, <1>4, <3>2 DEF NoUpdate
  <2>2. PICK k \in 1..n : IsUpdate(ch[k], a)
    BY <1>4 DEF NoUpdate, n
  <2>3. k = 1
    BY <1>1, <2>1, <2>2
  <2>4. QED
    BY <1>1, <1>2, <2>1, <2>2, <2>3
<1>5. QED
  BY <1>1, <1>3, <1>4 DEF old

\* What is in no queue is no update there.
LEMMA NothingLast == \A a, v : LastIs(<<>>, a, v) /\ NoUpdate(<<>>, a)
  BY DEF LastIs, NoUpdate

\* Whoever sends nothing, and reads nothing, leaves the picture right: a process
\* that ends or a pull replaces all of it, and a pull leaves alone what is in hand.
LEMMA ViewUntouched ==
    ASSUME ViewInv, EnvTypeOK, UNCHANGED senderVars,
           \A q \in Queues : queues'[q] = queues[q] \/ queues'[q] = <<>>,
           \/ reading' = 0
           \/ replaced' = Agents /\ received' = Nothing
           \/ replaced' = Agents /\ UNCHANGED <<queues, reading, received>>
           \/ UNCHANGED <<queues, reading, received, replaced, list_attr>>
    PROVE  ViewInv'
<1> SUFFICES ASSUME NEW a \in Agents
             PROVE  /\ Updates(a)' => sending[a].mq = into[a] /\ sending[a].text = sent[a]
                    /\ into[a] # 0 /\ ~Updates(a)' =>
                          /\ LastIs(queues'[into[a]], a, sent[a])
                          /\ into[a] = reading' /\ NoUpdate(queues'[reading'], a) => Shown(a)'
  BY DEF ViewInv, senderVars
<1>1. Updates(a)' = Updates(a)
  BY DEF Updates, senderVars
<1>2. /\ Updates(a) => sending[a].mq = into[a] /\ sending[a].text = sent[a]
      /\ into[a] # 0 /\ ~Updates(a) =>
            /\ LastIs(queues[into[a]], a, sent[a])
            /\ into[a] = reading /\ NoUpdate(queues[reading], a) => Shown(a)
  BY DEF ViewInv
<1>3. into[a] # 0 => into[a] \in Queues
  BY BoundsAreNat DEF EnvTypeOK, Queues
<1>4. into[a] # 0 /\ ~Updates(a) => LastIs(queues'[into[a]], a, sent[a])
  BY <1>2, <1>3, NothingLast
<1>5. \/ reading' = 0
      \/ Shown(a)'
      \/ reading' = reading /\ queues' = queues /\ (Shown(a) => Shown(a)')
  BY DEF Shown, InHand, senderVars
<1>6. QED
  BY <1>1, <1>2, <1>4, <1>5

\* attributUpdated: the update that counts is in the agent's hands, for the
\* queue that has the name, or there is no queue.
LEMMA ViewWhileUpdated ==
    ASSUME ViewInv, EnvTypeInv, NEW a \in Agents, NEW t \in Sends[a], attributUpdated(a, t)
    PROVE  ViewInv'
<1> SUFFICES ASSUME NEW b \in Agents
             PROVE  /\ Updates(b)' => sending'[b].mq = into'[b] /\ sending'[b].text = sent'[b]
                    /\ into'[b] # 0 /\ ~Updates(b)' =>
                          /\ LastIs(queues[into'[b]], b, sent'[b])
                          /\ into'[b] = reading /\ NoUpdate(queues[reading], b) => Shown(b)'
  BY DEF ViewInv, attributUpdated, processVars
<1>1. /\ Updates(b) => sending[b].mq = into[b] /\ sending[b].text = sent[b]
      /\ into[b] # 0 /\ ~Updates(b) =>
            /\ LastIs(queues[into[b]], b, sent[b])
            /\ into[b] = reading /\ NoUpdate(queues[reading], b) => Shown(b)
  BY DEF ViewInv
<1>2. /\ sending[a] = NoSend /\ sending \in [Agents -> [mq : Queues, text : Texts] \cup {NoSend}]
      /\ sent' = IF t \in Values THEN [sent EXCEPT ![a] = t] ELSE sent
      /\ into' = IF t \in Values THEN [into EXCEPT ![a] = named] ELSE into
      /\ sending' = IF named = 0 THEN sending
                    ELSE [sending EXCEPT ![a] = [mq |-> named, text |-> t]]
      /\ DOMAIN sent = Agents /\ DOMAIN into = Agents
  BY DEF EnvTypeInv, EnvTypeOK, Pictures, attributUpdated
<1>3. CASE b # a
  <2>1. /\ sending'[b] = sending[b] /\ sent'[b] = sent[b] /\ into'[b] = into[b]
        /\ Shown(b)' = Shown(b)
    BY <1>2, <1>3 DEF Shown, InHand, attributUpdated, processVars
  <2>2. Updates(b)' = Updates(b)
    BY <2>1 DEF Updates
  <2>3. QED
    BY <1>1, <2>1, <2>2
<1>4. CASE b = a /\ t \in Values
  <2>1. sent'[a] = t /\ into'[a] = named
    BY <1>2, <1>4
  <2>2. CASE named = 0
    <3>1. sending'[a] = NoSend
      BY <1>2, <2>2
    <3>2. QED
      BY <1>4, <2>1, <2>2, <3>1 DEF Updates
  <2>3. CASE named # 0
    <3>1. sending'[a] = [mq |-> named, text |-> t] /\ sending'[a] # NoSend
      BY <1>2, <2>3 DEF NoSend
    <3>2. Updates(a)'
      BY <1>4, <3>1 DEF Updates
    <3>3. QED
      BY <1>4, <2>1, <3>1, <3>2
  <2>4. QED
    BY <2>2, <2>3
<1>5. CASE b = a /\ t \notin Values
  <2>1. /\ sent' = sent /\ into' = into /\ (sending'[a] = NoSend \/ sending'[a].text = t)
        /\ Shown(a)' = Shown(a)
    BY <1>2, <1>5 DEF Shown, InHand, attributUpdated, processVars
  <2>2. ~Updates(a) /\ ~Updates(a)'
    BY <1>2, <1>5, <2>1 DEF Updates
  <2>3. QED
    BY <1>1, <1>5, <2>1, <2>2
<1>6. QED
  BY <1>3, <1>4, <1>5

\* mq_send: the update that counts is the last one on its queue, and there to read.
LEMMA ViewWhileSent ==
    ASSUME ViewInv, EnvTypeInv, NEW a \in Agents, mq_send(a)
    PROVE  ViewInv'
<1> DEFINE q  == sending[a].mq
           m  == <<a, sending[a].text>>
           qs == [queues EXCEPT ![q] = Append(@, m)]
<1>1. /\ sending[a] # NoSend /\ q \in Queues /\ m \in Agents \X Texts
      /\ queues \in [Queues -> Seq(Agents \X Texts)]
      /\ into \in [Agents -> 0..MaxStarts]
      /\ reading \in 0..MaxStarts /\ (reading # 0 => reading = named)
  BY DEF EnvTypeInv, EnvTypeOK, ProcessInv, mq_send
<1>2. /\ queues' = Kept(qs, named)
      /\ sending' = [sending EXCEPT ![a] = NoSend] /\ DOMAIN sending = Agents
      /\ UNCHANGED <<reading, received, sent, into, replaced, list_attr>>
  BY DEF EnvTypeInv, EnvTypeOK, mq_send, processVars
<1>3. /\ qs \in [Queues -> Seq(Agents \X Texts)]
      /\ qs[q] = Append(queues[q], m) /\ \A r \in Queues : r # q => qs[r] = queues[r]
  BY <1>1
<1> HIDE DEF q, m, qs
<1>4. /\ \A r \in Queues : queues'[r] = qs[r] \/ queues'[r] = <<>>
      /\ reading # 0 => queues'[reading] = qs[reading]
  <2>1. /\ \A r \in Queues : Kept(qs, named)[r] = qs[r] \/ Kept(qs, named)[r] = <<>>
        /\ named \in Queues => Kept(qs, named)[named] = qs[named]
    BY ONLY <1>3, KeptOrEmpty
  <2>2. reading # 0 => reading \in Queues
    BY <1>1, BoundsAreNat DEF Queues
  <2>3. QED
    BY ONLY <1>1, <1>2, <2>1, <2>2
<1> SUFFICES ASSUME NEW b \in Agents
             PROVE  /\ Updates(b)' => sending'[b].mq = into[b] /\ sending'[b].text = sent[b]
                    /\ into[b] # 0 /\ ~Updates(b)' =>
                          /\ LastIs(queues'[into[b]], b, sent[b])
                          /\ into[b] = reading /\ NoUpdate(queues'[reading], b) => Shown(b)
  BY <1>2 DEF ViewInv, Shown, InHand
<1>5. /\ Updates(b) => sending[b].mq = into[b] /\ sending[b].text = sent[b]
      /\ into[b] # 0 /\ ~Updates(b) =>
            /\ LastIs(queues[into[b]], b, sent[b])
            /\ into[b] = reading /\ NoUpdate(queues[reading], b) => Shown(b)
  BY DEF ViewInv
<1>6. into[b] # 0 => into[b] \in Queues
  BY <1>1, BoundsAreNat DEF Queues
<1>7. CASE b = a /\ Updates(a)
  <2>1. IsUpdate(m, a) /\ m[2] = sent[a] /\ q = into[a] /\ ~Updates(a)'
    BY <1>2, <1>5, <1>7 DEF IsUpdate, Updates, m, q
  <2>2. LastIs(qs[q], a, sent[a]) /\ ~NoUpdate(qs[q], a)
    <3>1. queues[q] \in Seq(Agents \X Texts)
      BY <1>1
    <3>2. LastIs(Append(queues[q], m), a, sent[a])
      BY ONLY <1>1, <2>1, <3>1, LastOfOneMore
    <3>3. ~NoUpdate(Append(queues[q], m), a)
      BY ONLY <1>1, <2>1, <3>1, LastOfOneMore
    <3>4. QED
      BY ONLY <1>3, <3>2, <3>3
  <2>3. LastIs(queues'[q], a, sent[a])
    BY <1>1, <1>4, <2>2, NothingLast
  <2>4. QED
    BY <1>4, <1>7, <2>1, <2>2, <2>3
<1>8. CASE ~(b = a /\ Updates(a))
  <2>1. ~IsUpdate(m, b)
    BY <1>1, <1>8 DEF IsUpdate, Updates, m, q
  <2>2. Updates(b)' = Updates(b) /\ (Updates(b) => sending'[b] = sending[b])
    BY <1>2, <1>8 DEF Updates
  <2>3. ASSUME into[b] # 0, ~Updates(b)
        PROVE  /\ LastIs(qs[into[b]], b, sent[b])
               /\ NoUpdate(qs[into[b]], b) => NoUpdate(queues[into[b]], b)
    <3>1. CASE into[b] = q
      <4>1. queues[q] \in Seq(Agents \X Texts) /\ LastIs(queues[q], b, sent[b])
        BY <1>1, <1>5, <2>3, <3>1
      <4>2. LastIs(Append(queues[q], m), b, sent[b])
        BY ONLY <1>1, <2>1, <4>1, LastOfOneMore
      <4>3. NoUpdate(Append(queues[q], m), b) => NoUpdate(queues[q], b)
        BY ONLY <1>1, <4>1, LastOfOneMore
      <4>4. QED
        BY ONLY <1>3, <3>1, <4>2, <4>3
    <3>2. CASE into[b] # q
      BY <1>3, <1>5, <1>6, <2>3, <3>2
    <3>3. QED
      BY <3>1, <3>2
  <2>4. into[b] # 0 /\ ~Updates(b) => LastIs(queues'[into[b]], b, sent[b])
    BY <1>4, <1>6, <2>3, NothingLast
  <2>5. QED
    BY <1>4, <1>5, <2>2, <2>3, <2>4
<1>9. QED
  BY <1>7, <1>8

\* mq_timedreceive: the last update of an agent is the last to be taken.
LEMMA ViewWhileReceived ==
    ASSUME ViewInv, EnvTypeInv, mq_timedreceive
    PROVE  ViewInv'
<1> DEFINE ch == queues[reading]
           m  == Head(ch)
<1>1. /\ reading \in Queues /\ ch # <<>> /\ ch \in Seq(Agents \X Texts)
      /\ queues \in [Queues -> Seq(Agents \X Texts)] /\ into \in [Agents -> 0..MaxStarts]
  <2>1. reading \in Queues
    BY BoundsAreNat DEF EnvTypeInv, EnvTypeOK, ProcessInv, mq_timedreceive, Queues
  <2>2. QED
    BY <2>1 DEF EnvTypeInv, EnvTypeOK, mq_timedreceive
<1>2. m \in Agents \X Texts
  <2>1. \A s \in Seq(Agents \X Texts) : s # <<>> => Head(s) \in Agents \X Texts
    OBVIOUS
  <2>2. QED
    BY ONLY <1>1, <2>1
<1>3. /\ queues' = [queues EXCEPT ![reading] = Tail(ch)]
      /\ received = Nothing /\ received' = m
      /\ UNCHANGED <<reading, sending, sent, into, list_attr, replaced>>
  BY DEF mq_timedreceive, senderVars
<1> SUFFICES ASSUME NEW b \in Agents
             PROVE  /\ Updates(b)' => sending[b].mq = into[b] /\ sending[b].text = sent[b]
                    /\ into[b] # 0 /\ ~Updates(b)' =>
                          /\ LastIs(queues'[into[b]], b, sent[b])
                          /\ into[b] = reading /\ NoUpdate(queues'[reading], b) => Shown(b)'
  BY <1>3 DEF ViewInv
<1>4. /\ Updates(b) => sending[b].mq = into[b] /\ sending[b].text = sent[b]
      /\ into[b] # 0 /\ ~Updates(b) =>
            /\ LastIs(queues[into[b]], b, sent[b])
            /\ into[b] = reading /\ NoUpdate(queues[reading], b) => Shown(b)
  BY DEF ViewInv
<1>5. Updates(b)' = Updates(b)
  BY <1>3 DEF Updates
<1>6. queues'[reading] = Tail(ch) /\ \A r \in Queues : r # reading => queues'[r] = queues[r]
  BY <1>1, <1>3
<1>7. into[b] # 0 => into[b] \in Queues
  BY <1>1, BoundsAreNat DEF Queues
<1>8. CASE into[b] = reading /\ ~Updates(b)
  <2>1. LastIs(ch, b, sent[b]) /\ (NoUpdate(ch, b) => Shown(b))
    BY <1>1, <1>4, <1>8, BoundsAreNat DEF Queues
  <2>2. /\ LastIs(Tail(ch), b, sent[b])
        /\ NoUpdate(Tail(ch), b) => NoUpdate(ch, b) \/ (IsUpdate(m, b) /\ m[2] = sent[b])
    BY <1>1, <2>1, LastOfOneLess
  <2>3. NoUpdate(ch, b) => ~IsUpdate(m, b)
    <3>1. m = ch[1] /\ 1 \in 1..Len(ch)
      BY <1>1
    <3>2. QED
      BY <3>1 DEF NoUpdate
  <2>4. IsUpdate(m, b) /\ m[2] = sent[b] => Shown(b)'
    BY <1>2, <1>3 DEF Shown, InHand, Nothing
  <2>5. ~IsUpdate(m, b) /\ Shown(b) => Shown(b)'
    BY <1>3 DEF Shown, InHand
  <2> HIDE DEF ch, m
  <2>6. NoUpdate(Tail(ch), b) => Shown(b)'
    BY <2>1, <2>2, <2>3, <2>4, <2>5
  <2>7. QED
    BY <1>5, <1>6, <1>8, <2>2, <2>6
<1>9. CASE into[b] # reading \/ Updates(b)
  BY <1>4, <1>5, <1>6, <1>7, <1>9
<1>10. QED
  BY <1>8, <1>9

\* readDataFromQueueMsg: what the thread has in hand is shown.
LEMMA ViewWhileRead ==
    ASSUME ViewInv, EnvTypeInv, readDataFromQueueMsg
    PROVE  ViewInv'
<1>1. /\ received # Nothing /\ received \in Agents \X Texts /\ list_attr \in Pictures
      /\ received' = Nothing
      /\ UNCHANGED <<queues, reading, sending, sent, into>>
      /\ IF received[2] \in Values
         THEN /\ list_attr' = [list_attr EXCEPT ![received[1]] = received[2]]
              /\ replaced' = replaced \ {received[1]}
         ELSE UNCHANGED <<list_attr, replaced>>
  BY DEF EnvTypeInv, EnvTypeOK, readDataFromQueueMsg, senderVars
<1>2. ASSUME NEW b \in Agents, Shown(b) PROVE Shown(b)'
  <2>1. CASE InHand(b)
    BY <1>1, <1>2, <2>1 DEF Shown, InHand, IsUpdate, Pictures
  <2>2. CASE ~InHand(b)
    BY <1>1, <1>2, <2>2 DEF Shown, InHand, IsUpdate, Pictures
  <2>3. QED
    BY <2>1, <2>2
<1>3. \A b \in Agents : Updates(b)' = Updates(b)
  BY <1>1 DEF Updates
<1>4. QED
  BY <1>1, <1>2, <1>3 DEF ViewInv

\* ViewInv is an invariant.
LEMMA ViewInvariant == EnvSpec => []ViewInv
<1>1. EnvInit => ViewInv
  BY DEF EnvInit, ViewInv, Updates
<1>2. ViewInv /\ EnvTypeInv /\ EnvTypeInv' /\ [EnvNext]_envVars => ViewInv'
  <2> SUFFICES ASSUME ViewInv, EnvTypeInv, [EnvNext]_envVars PROVE ViewInv'
    OBVIOUS
  <2> USE DEF EnvTypeInv, processVars, nsapVars
  <2>1. ASSUME NEW a \in Agents, NEW t \in Sends[a], attributUpdated(a, t) PROVE ViewInv'
    BY <2>1, ViewWhileUpdated
  <2>2. ASSUME NEW a \in Agents, mq_send(a) PROVE ViewInv'
    BY <2>2, ViewWhileSent
  <2>3. CASE start
    BY <2>3, ViewUntouched DEF start
  <2>4. CASE mq_open
    BY <2>4, ViewUntouched DEF mq_open, ProcessInv
  <2>5. CASE mq_timedreceive \/ readDataFromQueueMsg
    BY <2>5, ViewWhileReceived, ViewWhileRead
  <2>6. CASE event_loopEnds
    BY <2>6, ViewUntouched DEF event_loopEnds
  <2>7. CASE mq_unlink
    BY <2>7, ViewUntouched, KeptOrEmpty DEF mq_unlink, Ends, EnvTypeOK
  <2>8. CASE Crash
    BY <2>8, ViewUntouched DEF Crash, Ends
  <2>9. CASE push_nsap
    BY <2>9, ViewUntouched DEF push_nsap
  <2>10. CASE pull_nsap
    BY <2>10, ViewUntouched DEF pull_nsap
  <2>11. CASE clear_nsap
    BY <2>11, ViewUntouched DEF clear_nsap
  <2>12. CASE UNCHANGED envVars
    BY <2>12, ViewUntouched DEF envVars
  <2>13. QED
    BY <2>1, <2>2, <2>3, <2>4, <2>5, <2>6, <2>7, <2>8, <2>9, <2>10, <2>11, <2>12 DEF EnvNext, Reader
<1>3. QED
  BY <1>1, <1>2, EnvTypeInvariant, PTL DEF EnvSpec

\* What the environment shows of an agent is what the agent sent last, once that
\* has left the queue: a full queue, a crash and a restart delay an update of
\* attributUpdated, but none is lost or overtaken by an older one.
THEOREM ViewCatchesUpAlways == EnvSpec => []ViewCatchesUp
<1>1. EnvTypeInv /\ ViewInv => ViewCatchesUp
  <2> SUFFICES ASSUME EnvTypeInv, ViewInv, NEW a \in Agents \ replaced,
                      env = "run", into[a] = reading, sending[a] = NoSend,
                      \A k \in DOMAIN queues[reading] : queues[reading][k][1] # a,
                      received # Nothing => received[1] # a
               PROVE  list_attr[a] = sent[a]
    BY DEF ViewCatchesUp
  <2>1. reading # 0 /\ reading \in Queues
    BY BoundsAreNat DEF EnvTypeInv, EnvTypeOK, ProcessInv, Queues
  <2>2. DOMAIN queues[reading] = 1..Len(queues[reading])
    BY <2>1 DEF EnvTypeInv, EnvTypeOK
  <2>3. NoUpdate(queues[reading], a)
    BY <2>2 DEF NoUpdate, IsUpdate
  <2>4. QED
    BY <2>1, <2>3 DEF ViewInv, Updates, Shown, InHand, IsUpdate
<1>2. QED
  BY <1>1, EnvTypeInvariant, ViewInvariant, PTL

-----------------------------------------------------------------------------
(* The environment: the snapshots are a stack                              *)

\* The snapshots in order are a sequence, and a snapshot is at the rank of its key.
LEMMA OrderOfKeys ==
    ASSUME NEW n \in Nat, NEW S, NEW snaps, DOMAIN snaps \in SUBSET (0..n - 1),
           \A k \in DOMAIN snaps : snaps[k] \in S, Ranked(DOMAIN snaps)
    PROVE  /\ InOrder(snaps) \in Seq(S)
           /\ Len(InOrder(snaps)) = Cardinality(DOMAIN snaps)
           /\ Cardinality(DOMAIN snaps) \in Nat
           /\ \A j \in DOMAIN snaps : InOrder(snaps)[Rank(DOMAIN snaps, j)] = snaps[j]
<1> DEFINE D == DOMAIN snaps
           st == InOrder(snaps)
<1>1. /\ Cardinality(D) \in Nat /\ \A j \in D : Rank(D, j) \in 1..Cardinality(D)
  BY RanksGrow
<1>2. \A j \in D : Key(D, Rank(D, j)) = j
  BY KeyOfRank
<1>3. st = [k \in 1..Cardinality(D) |-> snaps[Key(D, k)]]
  BY DEF InOrder
<1>4. \A j \in D : st[Rank(D, j)] = snaps[j]
  BY <1>1, <1>2, <1>3
<1>5. \A k \in 1..Cardinality(D) : st[k] \in S
  BY <1>4 DEF Ranked
<1> HIDE DEF D, st
<1>6. st \in [1..Cardinality(D) -> S]
  BY <1>3, <1>5
<1>7. st \in Seq(S) /\ Len(st) = Cardinality(D)
  BY <1>1, <1>6
<1>8. QED
  BY <1>1, <1>4, <1>7 DEF D, st

\* Two sequences are the same if they have the same elements.
LEMMA SameSequence ==
    ASSUME NEW S, NEW s \in Seq(S), NEW t \in Seq(S), Len(s) = Len(t),
           \A k \in 1..Len(s) : s[k] = t[k]
    PROVE  s = t
  OBVIOUS

\* No snapshots, no stack.
LEMMA NothingInOrder == InOrder(<<>>) = <<>>
<1>1. DOMAIN <<>> = {} /\ Cardinality({}) = 0 /\ 1..0 = {}
  BY FS_EmptySet
<1>2. QED
  BY <1>1 DEF InOrder

\* A snapshot with a key above all others is at the end.
LEMMA PushIsAppend ==
    ASSUME NEW n \in Nat, NEW snaps, DOMAIN snaps \in SUBSET (0..n - 1), Ranked(DOMAIN snaps),
           NEW new, DOMAIN new = DOMAIN snaps \cup {n},
           \A k \in DOMAIN snaps : new[k] = snaps[k]
    PROVE  InOrder(new) = Append(InOrder(snaps), new[n])
<1> DEFINE D  == DOMAIN snaps
           E  == DOMAIN new
           st == InOrder(snaps)
           up == InOrder(new)
<1>1. /\ Cardinality(E) = Cardinality(D) + 1
      /\ \A j \in D : Rank(E, j) = Rank(D, j)
      /\ Rank(E, n) = Cardinality(D) + 1
      /\ Ranked(E)
  <2>1. n \in Nat /\ D \in SUBSET (0..n - 1) /\ Ranked(D) /\ E = D \cup {n}
    OBVIOUS
  <2> HIDE DEF D, E
  <2>2. QED
    BY ONLY <2>1, RanksWithOneMore
<1> DEFINE S == {new[k] : k \in E}
<1>2. (\A k \in E : new[k] \in S) /\ (\A k \in D : snaps[k] \in S) /\ new[n] \in S
  OBVIOUS
<1> HIDE DEF S
<1>3. /\ st \in Seq(S) /\ Len(st) = Cardinality(D) /\ Cardinality(D) \in Nat
      /\ \A j \in D : st[Rank(D, j)] = snaps[j]
  <2>1. n \in Nat /\ D \in SUBSET (0..n - 1) /\ Ranked(D) /\ \A k \in D : snaps[k] \in S
    BY <1>2
  <2>2. QED
    BY ONLY <2>1, OrderOfKeys
<1>4. E \in SUBSET (0..(n + 1) - 1) /\ n + 1 \in Nat
  OBVIOUS
<1>5. /\ up \in Seq(S) /\ Len(up) = Cardinality(E)
      /\ \A j \in E : up[Rank(E, j)] = new[j]
  BY ONLY <1>1, <1>2, <1>4, OrderOfKeys
<1>6. up[Cardinality(D) + 1] = new[n]
  BY <1>1, <1>5
<1>7. \A k \in 1..Cardinality(D) : up[k] = st[k]
  <2>1. SUFFICES ASSUME NEW k \in 1..Cardinality(D) PROVE up[k] = st[k]
    OBVIOUS
  <2>2. PICK j \in D : Rank(D, j) = k
    BY DEF Ranked
  <2>3. QED
    BY <1>1, <1>3, <1>5, <2>2
<1> HIDE DEF D, E, st, up
<1>8. Append(st, new[n]) \in Seq(S) /\ Len(Append(st, new[n])) = Cardinality(D) + 1
  BY <1>2, <1>3
<1>9. \A k \in 1..Cardinality(D) + 1 : up[k] = Append(st, new[n])[k]
  <2>1. SUFFICES ASSUME NEW k \in 1..Cardinality(D) + 1 PROVE up[k] = Append(st, new[n])[k]
    OBVIOUS
  <2>2. CASE k = Cardinality(D) + 1
    BY <1>2, <1>3, <1>6, <2>2
  <2>3. CASE k # Cardinality(D) + 1
    BY <1>2, <1>3, <1>7, <2>3
  <2>4. QED
    BY <2>2, <2>3
<1>10. up = Append(st, new[n])
  BY <1>1, <1>5, <1>8, <1>9, SameSequence
<1>11. QED
  BY <1>10 DEF st, up

\* The snapshot with the largest key is at the end, and without it the others
\* are what comes before.
LEMMA PullIsLast ==
    ASSUME NEW n \in Nat, NEW snaps, DOMAIN snaps \in SUBSET (0..n - 1), Ranked(DOMAIN snaps),
           NEW m \in DOMAIN snaps,
           Rank(DOMAIN snaps, m) = Cardinality(DOMAIN snaps),
           Cardinality(DOMAIN snaps) \in Nat \ {0},
           Cardinality(DOMAIN snaps \ {m}) = Cardinality(DOMAIN snaps) - 1,
           \A j \in DOMAIN snaps \ {m} : Rank(DOMAIN snaps \ {m}, j) = Rank(DOMAIN snaps, j),
           Ranked(DOMAIN snaps \ {m}),
           NEW new, DOMAIN new = DOMAIN snaps \ {m}, \A k \in DOMAIN new : new[k] = snaps[k]
    PROVE  LET st == InOrder(snaps) IN
           /\ st # <<>> /\ snaps[m] = st[Len(st)]
           /\ InOrder(new) = SubSeq(st, 1, Len(st) - 1)
<1> DEFINE D  == DOMAIN snaps
           E  == DOMAIN new
           st == InOrder(snaps)
           up == InOrder(new)
           S  == {snaps[k] : k \in D}
<1>1. /\ st \in Seq(S) /\ Len(st) = Cardinality(D) /\ Cardinality(D) \in Nat \ {0}
      /\ \A j \in D : st[Rank(D, j)] = snaps[j]
  <2>1. \A k \in D : snaps[k] \in S
    OBVIOUS
  <2>2. QED
    BY <2>1, OrderOfKeys
<1>2. n \in Nat /\ E \in SUBSET (0..n - 1) /\ (\A k \in E : new[k] \in S) /\ Ranked(E)
  OBVIOUS
<1>3. /\ up \in Seq(S) /\ Len(up) = Cardinality(E)
      /\ \A j \in E : up[Rank(E, j)] = new[j]
  BY ONLY <1>2, OrderOfKeys
<1>4. \A k \in 1..Cardinality(E) : up[k] = st[k]
  <2>1. SUFFICES ASSUME NEW k \in 1..Cardinality(E) PROVE up[k] = st[k]
    OBVIOUS
  <2>2. PICK j \in E : Rank(E, j) = k
    BY <1>2 DEF Ranked
  <2>3. QED
    BY <1>1, <1>3, <2>2
<1>5. Cardinality(E) = Cardinality(D) - 1 /\ snaps[m] = st[Cardinality(D)]
  BY <1>1
<1> HIDE DEF D, E, st, up, S
<1>6. st # <<>> /\ snaps[m] = st[Len(st)]
  BY <1>1, <1>5
<1> DEFINE front == SubSeq(st, 1, Len(st) - 1)
<1>7. /\ front \in Seq(S) /\ Len(front) = Cardinality(D) - 1
      /\ \A k \in 1..Cardinality(D) - 1 : front[k] = st[k]
  BY <1>1
<1> HIDE DEF front
<1>8. up = front
  BY <1>3, <1>4, <1>5, <1>7, SameSequence
<1>9. QED
  BY <1>6, <1>8 DEF front, st, up

\* push_nsap, pull_nsap and clear_nsap implement a stack: the initial states map
\* to initial states, push_nsap is a Push, pull_nsap a Pull, clear_nsap a Clear,
\* the end of the process a Renew, and every other step a Draw.
THEOREM ImplementsStackAlways == EnvSpec => ImplementsStack
<1>1. EnvInit => Nsap!Init
  BY NothingInOrder DEF EnvInit, Nsap!Init, Stack
<1>2. EnvTypeInv /\ [EnvNext]_envVars => [Nsap!Next]_<<list_attr, Stack>>
  <2> SUFFICES ASSUME EnvTypeInv, [EnvNext]_envVars PROVE [Nsap!Next]_<<list_attr, Stack>>
    OBVIOUS
  <2>1. ASSUME UNCHANGED list_snaps PROVE Nsap!Next
    BY <2>1 DEF Nsap!Next, Nsap!Draw, Stack
  <2>2. ASSUME list_snaps' = <<>> PROVE Stack' = <<>>
    BY <2>2, NothingInOrder DEF Stack
  <2> DEFINE D == DOMAIN list_snaps
  <2>3. /\ nsap_seq \in Nat /\ D \in SUBSET (0..nsap_seq - 1) /\ Ranked(D)
    BY BoundsAreNat DEF EnvTypeInv, EnvTypeOK, StackInv
  <2>4. CASE push_nsap
    <3>1. /\ DOMAIN list_snaps' = D \cup {nsap_seq} /\ list_snaps'[nsap_seq] = list_attr
          /\ \A k \in D : list_snaps'[k] = list_snaps[k]
          /\ list_attr' = list_attr
      <4>1. nsap_seq \notin D
        BY <2>3
      <4>2. QED
        BY <2>4, <4>1 DEF push_nsap
    <3>2. InOrder(list_snaps') = Append(InOrder(list_snaps), list_snaps'[nsap_seq])
      BY ONLY <2>3, <3>1, PushIsAppend
    <3>3. QED
      BY <3>1, <3>2 DEF Nsap!Next, Nsap!Push, Stack
  <2>5. CASE pull_nsap
    <3>1. /\ D # {} /\ list_attr' = list_snaps[Newest] /\ DOMAIN list_snaps' = D \ {Newest}
          /\ \A k \in D \ {Newest} : list_snaps'[k] = list_snaps[k]
      BY <2>5 DEF pull_nsap
    <3>2. /\ Newest \in D
          /\ Rank(D, Newest) = Cardinality(D) /\ Cardinality(D) \in Nat \ {0}
          /\ Cardinality(D \ {Newest}) = Cardinality(D) - 1
          /\ \A j \in D \ {Newest} : Rank(D \ {Newest}, j) = Rank(D, j)
          /\ Ranked(D \ {Newest})
      BY <2>3, <3>1, NewestIsLast DEF EnvTypeInv
    <3>3. /\ InOrder(list_snaps) # <<>>
          /\ list_snaps[Newest] = InOrder(list_snaps)[Len(InOrder(list_snaps))]
          /\ InOrder(list_snaps') =
                SubSeq(InOrder(list_snaps), 1, Len(InOrder(list_snaps)) - 1)
      BY ONLY <2>3, <3>1, <3>2, PullIsLast
    <3>4. QED
      BY <3>1, <3>3 DEF Nsap!Next, Nsap!Pull, Stack
  <2>6. CASE clear_nsap
    BY <2>2, <2>6 DEF clear_nsap, Nsap!Next, Nsap!Clear
  <2>7. CASE mq_unlink \/ Crash
    BY <2>2, <2>7 DEF mq_unlink, Crash, Ends, Nsap!Next, Nsap!Renew
  <2>8. ASSUME NEW a \in Agents, NEW t \in Sends[a], attributUpdated(a, t) PROVE Nsap!Next
    BY <2>1, <2>8 DEF attributUpdated, nsapVars
  <2>9. ASSUME NEW a \in Agents, mq_send(a) PROVE Nsap!Next
    BY <2>1, <2>9 DEF mq_send, nsapVars
  <2>10. CASE start \/ mq_open \/ mq_timedreceive \/ readDataFromQueueMsg \/ event_loopEnds
    BY <2>1, <2>10
       DEF start, mq_open, mq_timedreceive, readDataFromQueueMsg, event_loopEnds, nsapVars
  <2>11. CASE UNCHANGED envVars
    BY <2>1, <2>11 DEF envVars, nsapVars
  <2>12. QED
    BY <2>4, <2>5, <2>6, <2>7, <2>8, <2>9, <2>10, <2>11 DEF EnvNext, Reader
<1>3. QED
  BY <1>1, <1>2, EnvTypeInvariant, PTL DEF EnvSpec, ImplementsStack, Nsap!Spec
=============================================================================
