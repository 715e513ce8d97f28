--------------------------- MODULE MigrationProofs --------------------------
(***************************************************************************)
(* Machine-checked proofs about RemoteControl, and with it about           *)
(* Migration, for any number of processes, machines, moves and faults: the *)
(* agent is never lost, every copy is paid for by an attempt given up, and *)
(* the recorded state is the true one.                                     *)
(***************************************************************************)
EXTENDS RemoteControl, FiniteSetTheorems, TLAPS

Registries == [{Name} -> Records \cup {NoRecord}]

-----------------------------------------------------------------------------
(* The operations of the registry                                          *)

\* registerAgent leaves a listed name alone and adds the record otherwise.
LEMMA RegisterAdds ==
    ASSUME NEW reg \in Registries, NEW rec \in Records
    PROVE  /\ A!registerAgent(reg, rec) \in Registries
           /\ A!registerAgent(reg, rec) # reg => A!registerAgent(reg, rec)[Name] = rec
  BY DEF A!registerAgent, Registries, Records

\* registerEndpoint writes the record under its name.
LEMMA EndpointWrites ==
    ASSUME NEW reg \in Registries, NEW rec \in Records
    PROVE  /\ A!registerEndpoint(reg, rec) \in Registries
           /\ A!registerEndpoint(reg, rec)[Name] = rec
  BY DEF A!registerEndpoint, Registries, Records

\* deregisterAgent erases the name, whoever is listed under it.
LEMMA EraseName ==
    ASSUME NEW reg \in Registries
    PROVE  /\ A!deregisterAgent(reg, Name) \in Registries
           /\ A!deregisterAgent(reg, Name)[Name] = NoRecord
  BY DEF A!deregisterAgent, Registries

\* setState changes the state of the record that is there, and nothing else.
LEMMA SetStateKeeps ==
    ASSUME NEW reg \in Registries, NEW st \in {"active", "suspended"}
    PROVE  /\ A!setState(reg, Name, st) \in Registries
           /\ reg[Name] = NoRecord => A!setState(reg, Name, st) = reg
           /\ reg[Name] # NoRecord => /\ A!setState(reg, Name, st)[Name].pid = reg[Name].pid
                                      /\ A!setState(reg, Name, st)[Name].state = st
  BY DEF A!setState, Registries, Records

-----------------------------------------------------------------------------
(* The steps                                                               *)

\* A step of the agent, of a migration server or of the master.
MoveStep ==
    \/ \E p \in Procs :
          \/ HandleRegister(p) \/ HandleEndpoint(p) \/ HandleDFRegister(p)
          \/ HandleDeregister(p) \/ HandleDFDeregister(p)
          \/ CallTimesOut(p) \/ UserCalls(p) \/ Departed(p) \/ NotDeparted(p) \/ GiveUp(p)
          \/ Delete(p) \/ Crash(p)
          \/ \E m \in Machines : Depart(p, m) \/ DepartRefused(p, m)
    \/ \E m \in Machines : Refuse(m) \/ Accept(m) \/ Arrive(m) \/ ServerFails(m)

\* What the agent and its copies are, as against the master and the bounds.
copyVars == <<phase, moveVars, ended>>

\* The other steps leave the agent and the servers alone: the manager changes the
\* registry with SETSTATE and has its timeout counted, like the agent's own calls.
Aside ==
    /\ UNCHANGED <<copyVars, host, services, requests>>
    /\ (\E p \in Procs : SelfPosts(p)) \/ UNCHANGED calls
    /\ SetState \/ UNCHANGED registry
    /\ ReadTimesOut \/ UNCHANGED faults

\* Every step is a MoveStep or an Aside.
LEMMA StepIsMove == [Next]_vars => MoveStep \/ Aside
<1> SUFFICES ASSUME [Next]_vars PROVE MoveStep \/ Aside
  OBVIOUS
<1> USE DEF migrationVars, masterVars, moveVars, bounds, copyVars, Aside
<1>1. CASE Lookup \/ ManagerStep
  BY <1>1 DEF Lookup, ManagerStep, SendOrder, Unreachable, ReadTimesOut, SetState
<1>2. ASSUME NEW o \in Orders, HandleControl(o) \/ SignalHandled(o) PROVE UNCHANGED migrationVars
  BY <1>2 DEF HandleControl, SignalHandled
<1>3. ASSUME NEW p \in Procs, MasterStep(p) \/ ResumeStep(p) PROVE MoveStep
  BY <1>3 DEF MasterStep, ResumeStep, Handle, MoveStep
<1>4. ASSUME NEW o \in Orders, KillHandled(o) PROVE MoveStep
  BY <1>4 DEF KillHandled, MoveStep, Orders
<1>8. ASSUME NEW p \in Procs, SelfPosts(p) PROVE Aside
  BY <1>8 DEF SelfPosts
<1>5. CASE OtherStep
  BY <1>5 DEF OtherStep, ServerStep, MoveStep
<1>6. CASE UNCHANGED vars
  BY <1>6 DEF vars
<1>7. QED
  BY <1>1, <1>2, <1>3, <1>4, <1>5, <1>6, <1>8 DEF Next

-----------------------------------------------------------------------------
(* Types                                                                   *)

\* The types of the manager's variables; a command under way has a record to act
\* on, and only one that has written its order waits for an answer.
ManagerTypes ==
    /\ step \in Steps /\ cmd \in Commands \cup {"none"}
    /\ target \in Records \cup {NoRecord}
    /\ orders \subseteq Orders /\ awaited \in Orders \cup {NoOrder}
    /\ signals \subseteq Orders
    /\ suspended \subseteq Procs /\ disturbed \subseteq Procs
    /\ commands \in 0..MaxCommands
    /\ step # "idle" => target \in Records /\ cmd \in Commands /\ commands >= 1
    /\ awaited # NoOrder => step = "read"

\* TypeOK, strengthened: every attempt given up is one of the faults.
TypeInv == MigrationTypeOK /\ abandoned <= faults /\ ManagerTypes /\ clean \in BOOLEAN

\* The agent, the migration servers and the master keep their types.
LEMMA MoveKeepsTypes ==
    ASSUME MigrationTypeOK, abandoned <= faults, MoveStep
    PROVE  MigrationTypeOK' /\ abandoned' <= faults'
<1> USE HomeIsAMachine, BoundsAreNat
    DEF MigrationTypeOK, masterVars, moveVars, bounds, Phases, Goes, Fault
<1> DEFINE Typed == MigrationTypeOK' /\ abandoned' <= faults'
<1>t. \A p \in Procs : /\ Record(p) \in Records /\ Service(p) \in Services
                       /\ \A c \in Calls : <<c, p>> \in Requests
  <2>1. \A p \in Procs : Record(p) \in Records
    BY DEF Record, Records
  <2>2. \A p \in Procs : Service(p) \in Services
    BY DEF Service, Services
  <2>3. \A p \in Procs : \A c \in Calls : <<c, p>> \in Requests
    BY DEF Requests
  <2>4. QED
    BY <2>1, <2>2, <2>3
<1>1. ASSUME NEW p \in Procs, HandleRegister(p) PROVE Typed
  <2>1. registry' \in Registries
    BY <1>1, <1>t, RegisterAdds DEF HandleRegister, Registries
  <2>2. requests' \subseteq Requests
    BY <1>1, <1>t DEF HandleRegister, Calls, Call
  <2>3. QED
    BY <1>1, <2>1, <2>2 DEF HandleRegister, Registries
<1>2. ASSUME NEW p \in Procs, HandleEndpoint(p) PROVE Typed
  <2>1. registry' \in Registries
    BY <1>2, <1>t, EndpointWrites DEF HandleEndpoint, Registries
  <2>2. requests' \subseteq Requests
    BY <1>2, <1>t DEF HandleEndpoint, Calls, Call
  <2>3. QED
    BY <1>2, <2>1, <2>2 DEF HandleEndpoint, Registries
<1>3. ASSUME NEW p \in Procs, HandleDFRegister(p) PROVE Typed
  <2>1. services' \subseteq Services
    BY <1>3, <1>t DEF HandleDFRegister, D!registerService
  <2>2. requests' \subseteq Requests
    BY <1>3, <1>t DEF HandleDFRegister, Calls, Call
  <2>3. QED
    BY <1>3, <2>1, <2>2 DEF HandleDFRegister
<1>4. ASSUME NEW p \in Procs, HandleDeregister(p) PROVE Typed
  <2>1. registry' \in Registries
    BY <1>4, EraseName DEF HandleDeregister, Registries
  <2>2. requests' \subseteq Requests
    BY <1>4, <1>t DEF HandleDeregister, Calls, Call
  <2>3. QED
    BY <1>4, <2>1, <2>2 DEF HandleDeregister, Registries
<1>5. ASSUME NEW p \in Procs, HandleDFDeregister(p) PROVE Typed
  BY <1>5 DEF HandleDFDeregister, D!deregisterAgent
<1>6. ASSUME NEW p \in Procs, CallTimesOut(p) PROVE Typed
  <2>1. requests' \subseteq Requests
    BY <1>6, <1>t DEF CallTimesOut, Calls, Call
  <2>2. phase' \in [Procs -> Phases]
    BY <1>6 DEF CallTimesOut
  <2>3. QED
    BY <1>6, <2>1, <2>2 DEF CallTimesOut
<1>7. ASSUME NEW p \in Procs, UserCalls(p) PROVE Typed
  <2>1. requests' \subseteq Requests
    BY <1>7, <1>t DEF UserCalls, Calls, Call
  <2>2. QED
    BY <1>7, <2>1 DEF UserCalls
<1>8. ASSUME NEW p \in Procs, Departed(p) PROVE Typed
  <2>1. requests' \subseteq Requests
    BY <1>8, <1>t DEF Departed, Calls, Call
  <2>2. QED
    BY <1>8, <2>1 DEF Departed
<1>9. ASSUME NEW p \in Procs, NotDeparted(p) PROVE Typed
  BY <1>9 DEF NotDeparted
<1>10. ASSUME NEW p \in Procs, GiveUp(p) PROVE Typed
  BY <1>10 DEF GiveUp
<1>11. ASSUME NEW p \in Procs, Delete(p) PROVE Typed
  <2>1. requests' \subseteq Requests
    BY <1>11, <1>t DEF Delete, Calls, Call
  <2>2. QED
    BY <1>11, <2>1 DEF Delete
<1>12. ASSUME NEW p \in Procs, Crash(p) PROVE Typed
  BY <1>12 DEF Crash
<1>13. ASSUME NEW p \in Procs, NEW m \in Machines, Depart(p, m) PROVE Typed
  <2>1. [from |-> p, attempt |-> moves'] \in Arrivals /\ moves' \in 0..MaxMoves
    BY <1>13 DEF Depart, Arrivals
  <2>2. QED
    BY <1>13, <2>1 DEF Depart
<1>14. ASSUME NEW p \in Procs, NEW m \in Machines, DepartRefused(p, m) PROVE Typed
  BY <1>14 DEF DepartRefused
<1>15. ASSUME NEW m \in Machines, Refuse(m) PROVE Typed
  <2>1. answer' \in [Procs -> {"none", "OK", "other"}]
    BY <1>15 DEF Refuse, Answered
  <2>2. backlog' \in [Machines -> Seq(Arrivals)]
    BY <1>15 DEF Refuse
  <2>3. QED
    BY <1>15, <2>1, <2>2 DEF Refuse
<1>16. ASSUME NEW m \in Machines, Accept(m) PROVE Typed
  <2>1. /\ answer' \in [Procs -> {"none", "OK", "other"}]
        /\ backlog' \in [Machines -> Seq(Arrivals)]
    <3>1. answer' \in [Procs -> {"none", "OK", "other"}]
      BY <1>16 DEF Accept, Answered
    <3>2. backlog' \in [Machines -> Seq(Arrivals)]
      BY <1>16 DEF Accept
    <3>3. QED
      BY <3>1, <3>2
  <2>2. newborn' \in [Machines -> Procs \cup {NoProc}] /\ host' \in [Procs -> Machines]
    BY <1>16 DEF Accept
  <2>3. QED
    BY <1>16, <2>1, <2>2 DEF Accept
<1>17. ASSUME NEW m \in Machines, Arrive(m) PROVE Typed
  <2>1. requests' \subseteq Requests
    BY <1>17, <1>t DEF Arrive, Calls, Call
  <2>2. QED
    BY <1>17, <2>1 DEF Arrive
<1>18. ASSUME NEW m \in Machines, ServerFails(m) PROVE Typed
  BY <1>18 DEF ServerFails
<1>19. QED
  BY <1>1, <1>2, <1>3, <1>4, <1>5, <1>6, <1>7, <1>8, <1>9, <1>10, <1>11, <1>12,
     <1>13, <1>14, <1>15, <1>16, <1>17, <1>18
     DEF MoveStep

\* TypeInv is an invariant.
LEMMA TypeInvariant == Spec => []TypeInv
<1>1. Init => TypeInv
  <2> SUFFICES ASSUME Init PROVE TypeInv
    OBVIOUS
  <2> USE FirstIsAProc, HomeIsAMachine, BoundsAreNat, MaxCommandsIsNat DEF Init, MigrationInit
  <2>1. requests \subseteq Requests /\ phase \in [Procs -> Phases]
    BY DEF Calls, Phases, Requests
  <2>2. /\ registry \in [{Name} -> Records \cup {NoRecord}]
        /\ host \in [Procs -> Machines] /\ services \subseteq Services
    OBVIOUS
  <2>3. /\ backlog \in [Machines -> Seq(Arrivals)]
        /\ newborn \in [Machines -> Procs \cup {NoProc}]
        /\ answer \in [Procs -> {"none", "OK", "other"}]
        /\ serving \subseteq Machines
    OBVIOUS
  <2>4. /\ moves \in 0..MaxMoves /\ attempt \in [Procs -> 0..MaxMoves]
        /\ abandoned \in 0..MaxFaults /\ abandoned <= faults
        /\ calls \in 0..MaxCalls /\ faults \in 0..MaxFaults
    OBVIOUS
  <2>b. ended \in BOOLEAN /\ clean \in BOOLEAN
    OBVIOUS
  <2>5. MigrationTypeOK
    BY <2>1, <2>2, <2>3, <2>4, <2>b DEF MigrationTypeOK
  <2>6. ManagerTypes
    <3>1. /\ step = "idle" /\ cmd = "none" /\ target = NoRecord
          /\ orders = {} /\ awaited = NoOrder
          /\ signals = {} /\ suspended = {} /\ disturbed = {}
          /\ commands = 0
      OBVIOUS
    <3> HIDE DEF Init
    <3>2. QED
      BY <3>1 DEF ManagerTypes, Steps
  <2>7. QED
    BY <2>4, <2>5, <2>6, <2>b DEF TypeInv
<1>2. TypeInv /\ [Next]_vars => TypeInv'
  <2> SUFFICES ASSUME TypeInv, [Next]_vars PROVE TypeInv'
    OBVIOUS
  <2>1. MigrationTypeOK' /\ abandoned' <= faults'
    <3>1. CASE MoveStep
      BY <3>1, MoveKeepsTypes DEF TypeInv
    <3>2. CASE Aside
      <4>1. registry' \in Registries
        BY <3>2, SetStateKeeps DEF Aside, TypeInv, MigrationTypeOK, SetState, Registries
      <4>2. faults' \in 0..MaxFaults /\ faults' >= faults /\ calls' \in 0..MaxCalls
        BY <3>2, BoundsAreNat DEF Aside, TypeInv, MigrationTypeOK, ReadTimesOut, Fault, SelfPosts
      <4>3. QED
        BY <3>2, <4>1, <4>2
           DEF Aside, TypeInv, MigrationTypeOK, copyVars, moveVars, Registries
    <3>3. QED
      BY <3>1, <3>2, StepIsMove
  <2>2. ManagerTypes'
    <3> USE MaxCommandsIsNat
        DEF TypeInv, ManagerTypes, Commands, Steps, Orders, NoOrder, CommandEnds, mgrVars
    <3>1. CASE Lookup
      BY <3>1 DEF Lookup, MigrationTypeOK
    <3>2. CASE SendOrder
      <4>1. target.pid \in Procs /\ commands \in 1..MaxCommands
        BY <3>2 DEF SendOrder, Records
      <4>2. QED
        BY <3>2, <4>1 DEF SendOrder, doubts
    <3>3. CASE Unreachable
      BY <3>3 DEF Unreachable, doubts
    <3>4. CASE ReadTimesOut
      BY <3>4 DEF ReadTimesOut, Records
    <3>5. CASE SetState
      BY <3>5 DEF SetState, Settles, Records
    <3>6. ASSUME NEW o \in Orders, HandleControl(o) PROVE ManagerTypes'
      <4>1. signals' \subseteq Orders
        BY <3>6 DEF HandleControl
      <4>2. /\ awaited' \in Orders \cup {NoOrder} /\ orders' \subseteq Orders
            /\ disturbed' \subseteq Procs
        BY <3>6 DEF HandleControl, doubts
      <4>3. /\ step' \in Steps /\ cmd' \in Commands \cup {"none"}
            /\ target' \in Records \cup {NoRecord}
            /\ step' # "idle" => target' \in Records /\ cmd' \in Commands /\ commands' >= 1
            /\ awaited' # NoOrder => step' = "read"
        <5>1. o # NoOrder
          BY DEF NoOrder
        <5>2. CASE awaited = o
          BY <3>6, <5>1, <5>2 DEF HandleControl
        <5>3. CASE awaited # o
          BY <3>6, <5>3 DEF HandleControl
        <5>4. QED
          BY <5>2, <5>3
      <4>4. QED
        BY <3>6, <4>1, <4>2, <4>3 DEF HandleControl
    <3>7. ASSUME NEW p \in Procs, SelfPosts(p) PROVE ManagerTypes'
      BY <3>7 DEF SelfPosts, Crosses, doubts
    <3>8. ASSUME NEW p \in Procs, MasterStep(p) PROVE ManagerTypes'
      BY <3>8 DEF MasterStep
    <3>9. ASSUME NEW p \in Procs, ResumeStep(p) PROVE ManagerTypes'
      BY <3>9 DEF ResumeStep, Crosses, doubts
    <3>10. ASSUME NEW o \in Orders, KillHandled(o) \/ SignalHandled(o) PROVE ManagerTypes'
      BY <3>10 DEF KillHandled, SignalHandled, doubts
    <3>11. CASE OtherStep
      BY <3>11 DEF OtherStep, doubts
    <3>12. CASE UNCHANGED vars
      BY <3>12 DEF vars, doubts
    <3>13. QED
      BY <3>1, <3>2, <3>3, <3>4, <3>5, <3>6, <3>7, <3>8, <3>9, <3>10, <3>11,
         <3>12
         DEF Next, ManagerStep
  <2>3. clean' \in BOOLEAN
    <3>1. ASSUME NEW p \in Procs, Crosses(p) PROVE clean' \in BOOLEAN
      BY <3>1 DEF Crosses, doubts, TypeInv
    <3>2. Lookup => clean' \in BOOLEAN
      BY DEF Lookup, TypeInv
    <3>3. Lookup \/ (\E p \in Procs : Crosses(p)) \/ UNCHANGED clean
      BY DEF Next, ManagerStep, SendOrder, Unreachable, ReadTimesOut, SetState, HandleControl,
             KillHandled, SignalHandled, MasterStep, ResumeStep, SelfPosts, OtherStep, vars, doubts
    <3>4. QED
      BY <3>1, <3>2, <3>3 DEF TypeInv
  <2>4. QED
    BY <2>1, <2>2, <2>3 DEF TypeInv
<1>3. QED
  BY <1>1, <1>2, PTL DEF Spec

\* Every variable keeps its type in every reachable state.
THEOREM TypeCorrect == Spec => []TypeOK
<1>1. TypeInv => TypeOK
  BY DEF TypeInv, ManagerTypes, TypeOK
<1>2. QED
  BY <1>1, TypeInvariant, PTL

-----------------------------------------------------------------------------
(* The agent and its copies                                                *)

\* Only who is in transit has an answer.  The agents that servers are about to
\* start are distinct processes not started yet.  The attempts that servers have
\* not looked at are distinct, and were numbered by a call of doMove.
CopyInv ==
    /\ \A p \in Procs : answer[p] # "none" => phase[p] = "transit"
    /\ \A m \in Machines : newborn[m] # NoProc => phase[newborn[m]] = "unborn"
    /\ \A m, o \in Machines : newborn[m] = newborn[o] /\ newborn[m] # NoProc => m = o
    /\ \A m \in Machines : \A i \in 1..Len(backlog[m]) : backlog[m][i].attempt <= moves
    /\ \A m, o \in Machines : \A i \in 1..Len(backlog[m]), j \in 1..Len(backlog[o]) :
          backlog[m][i] = backlog[o][j] => m = o /\ i = j

\* A migration server takes the first attempt of its backlog.
LEMMA HeadIsTaken ==
    ASSUME MigrationTypeOK, NEW m \in Machines, backlog[m] # <<>>,
           backlog' = [backlog EXCEPT ![m] = Tail(@)]
    PROVE  /\ Head(backlog[m]) \in Arrivals /\ Head(backlog[m]) = backlog[m][1]
           /\ 1 \in 1..Len(backlog[m])
           /\ \A o \in Machines \ {m} : backlog'[o] = backlog[o]
           /\ Len(backlog'[m]) = Len(backlog[m]) - 1
           /\ \A i \in 1..Len(backlog'[m]) : /\ backlog'[m][i] = backlog[m][i + 1]
                                             /\ i + 1 \in 1..Len(backlog[m])
  BY DEF MigrationTypeOK

\* A move keeps CopyInv.
LEMMA MoveKeepsCopies ==
    ASSUME MigrationTypeOK, CopyInv, MoveStep
    PROVE  CopyInv'
<1> USE FirstIsAProc DEF CopyInv, masterVars, moveVars, Goes
<1>1. ASSUME NEW p \in Procs, HandleRegister(p) PROVE CopyInv'
  BY <1>1 DEF HandleRegister, MigrationTypeOK
<1>2. ASSUME NEW p \in Procs, HandleEndpoint(p) PROVE CopyInv'
  BY <1>2 DEF HandleEndpoint, MigrationTypeOK
<1>3. ASSUME NEW p \in Procs, HandleDFRegister(p) PROVE CopyInv'
  BY <1>3 DEF HandleDFRegister, MigrationTypeOK
<1>4. ASSUME NEW p \in Procs, HandleDeregister(p) PROVE CopyInv'
  BY <1>4 DEF HandleDeregister, MigrationTypeOK
<1>5. ASSUME NEW p \in Procs, HandleDFDeregister(p) PROVE CopyInv'
  BY <1>5 DEF HandleDFDeregister, MigrationTypeOK
<1>6. ASSUME NEW p \in Procs, CallTimesOut(p) PROVE CopyInv'
  BY <1>6 DEF CallTimesOut, Call, MigrationTypeOK
<1>7. ASSUME NEW p \in Procs, UserCalls(p) PROVE CopyInv'
  BY <1>7 DEF UserCalls, MigrationTypeOK
<1>8. ASSUME NEW p \in Procs, Departed(p) PROVE CopyInv'
  BY <1>8 DEF Departed, Call, MigrationTypeOK
<1>9. ASSUME NEW p \in Procs, NotDeparted(p) PROVE CopyInv'
  BY <1>9 DEF NotDeparted, MigrationTypeOK
<1>10. ASSUME NEW p \in Procs, GiveUp(p) PROVE CopyInv'
  BY <1>10 DEF GiveUp, MigrationTypeOK
<1>11. ASSUME NEW p \in Procs, Delete(p) PROVE CopyInv'
  BY <1>11 DEF Delete, Call, MigrationTypeOK
<1>12. ASSUME NEW p \in Procs, Crash(p) PROVE CopyInv'
  BY <1>12 DEF Crash, Exists, MigrationTypeOK
<1>13. ASSUME NEW p \in Procs, NEW m \in Machines, Depart(p, m) PROVE CopyInv'
  <2>1. /\ moves' = moves + 1 /\ moves \in Nat /\ UNCHANGED <<answer, newborn>>
        /\ phase' = [phase EXCEPT ![p] = "transit"] /\ phase[p] = "run"
    BY <1>13 DEF Depart, MigrationTypeOK
  <2>2. /\ \A o \in Machines \ {m} : backlog'[o] = backlog[o]
        /\ Len(backlog[m]) \in Nat /\ Len(backlog'[m]) = Len(backlog[m]) + 1
        /\ \A i \in 1..Len(backlog[m]) : backlog'[m][i] = backlog[m][i]
        /\ backlog'[m][Len(backlog[m]) + 1] = [from |-> p, attempt |-> moves']
    BY <1>13 DEF Depart, MigrationTypeOK
  <2>3. \A o \in Machines : \A i \in 1..Len(backlog'[o]) :
            \/ o = m /\ i = Len(backlog[m]) + 1 /\ backlog'[o][i].attempt = moves'
            \/ /\ i \in 1..Len(backlog[o]) /\ backlog'[o][i] = backlog[o][i]
               /\ backlog[o][i].attempt \in Int /\ backlog[o][i].attempt < moves'
    <3> SUFFICES ASSUME NEW o \in Machines, NEW i \in 1..Len(backlog'[o])
                 PROVE  \/ o = m /\ i = Len(backlog[m]) + 1 /\ backlog'[o][i].attempt = moves'
                        \/ /\ i \in 1..Len(backlog[o]) /\ backlog'[o][i] = backlog[o][i]
                           /\ backlog[o][i].attempt \in Int /\ backlog[o][i].attempt < moves'
      OBVIOUS
    <3>1. CASE i \in 1..Len(backlog[o])
      <4>1. backlog[o][i] \in Arrivals /\ backlog[o][i].attempt <= moves
        BY <3>1 DEF MigrationTypeOK
      <4>2. backlog[o][i].attempt \in Int
        BY <4>1 DEF Arrivals
      <4>3. backlog'[o][i] = backlog[o][i]
        BY <2>2, <3>1
      <4>4. QED
        BY <2>1, <3>1, <4>1, <4>2, <4>3
    <3>2. CASE i \notin 1..Len(backlog[o])
      BY <2>2, <3>2
    <3>3. QED
      BY <3>1, <3>2
  <2>4. \A o \in Machines : \A i \in 1..Len(backlog'[o]) : backlog'[o][i].attempt <= moves'
    BY <2>1, <2>3
  <2>5. \A o, u \in Machines : \A i \in 1..Len(backlog'[o]), j \in 1..Len(backlog'[u]) :
            backlog'[o][i] = backlog'[u][j] => o = u /\ i = j
    <3> SUFFICES ASSUME NEW o \in Machines, NEW u \in Machines,
                        NEW i \in 1..Len(backlog'[o]), NEW j \in 1..Len(backlog'[u]),
                        backlog'[o][i] = backlog'[u][j]
                 PROVE  o = u /\ i = j
      OBVIOUS
    <3>1. CASE backlog'[o][i].attempt = moves'
      <4>1. \A v \in Machines : \A k \in 1..Len(backlog'[v]) :
                backlog'[v][k].attempt = moves' => v = m /\ k = Len(backlog[m]) + 1
        <5> SUFFICES ASSUME NEW v \in Machines, NEW k \in 1..Len(backlog'[v]),
                            ~(v = m /\ k = Len(backlog[m]) + 1)
                     PROVE  backlog'[v][k].attempt # moves'
          OBVIOUS
        <5>1. /\ backlog'[v][k] = backlog[v][k]
              /\ backlog[v][k].attempt \in Int /\ backlog[v][k].attempt < moves'
          BY <2>3
        <5>2. QED
          BY <2>1, <5>1
      <4>2. QED
        BY <3>1, <4>1
    <3>2. CASE backlog'[o][i].attempt # moves'
      BY <2>1, <2>3, <3>2
    <3>3. QED
      BY <3>1, <3>2
  <2>6. \A o \in Machines : newborn[o] # NoProc => newborn[o] # p
    BY <2>1
  <2>7. QED
    BY <2>1, <2>4, <2>5, <2>6 DEF MigrationTypeOK
<1>14. ASSUME NEW p \in Procs, NEW m \in Machines, DepartRefused(p, m) PROVE CopyInv'
  <2>1. /\ moves' = moves + 1 /\ moves \in Nat /\ UNCHANGED <<answer, newborn, backlog, phase>>
    BY <1>14 DEF DepartRefused, MigrationTypeOK
  <2>2. \A o \in Machines : \A i \in 1..Len(backlog[o]) : backlog[o][i].attempt \in Int
    <3> SUFFICES ASSUME NEW o \in Machines, NEW i \in 1..Len(backlog[o])
                 PROVE  backlog[o][i].attempt \in Int
      OBVIOUS
    <3>1. backlog[o][i] \in Arrivals
      BY DEF MigrationTypeOK
    <3>2. QED
      BY <3>1 DEF Arrivals
  <2>3. QED
    BY <2>1, <2>2
<1>15. ASSUME NEW m \in Machines, Refuse(m) PROVE CopyInv'
  <2>1. /\ \A q \in Procs : answer'[q] # "none" => phase[q] = "transit"
        /\ UNCHANGED <<phase, newborn, moves>>
    BY <1>15 DEF Refuse, Answered, Waiting, MigrationTypeOK
  <2>2. QED
    BY <1>15, <2>1, HeadIsTaken DEF Refuse
<1>16. ASSUME NEW m \in Machines, Accept(m) PROVE CopyInv'
  <2>1. /\ \A q \in Procs : answer'[q] # "none" => phase[q] = "transit"
        /\ UNCHANGED <<phase, moves>>
    BY <1>16 DEF Accept, Answered, Waiting, MigrationTypeOK
  <2>2. PICK q \in Procs : /\ phase[q] = "unborn" /\ \A o \in Machines : newborn[o] # q
                           /\ newborn' = [newborn EXCEPT ![m] = q]
    BY <1>16 DEF Accept
  <2>3. /\ \A o \in Machines : newborn'[o] = IF o = m THEN q ELSE newborn[o]
        /\ q # NoProc /\ UNCHANGED <<phase, moves>>
        /\ backlog[m] # <<>> /\ backlog' = [backlog EXCEPT ![m] = Tail(@)]
    BY <1>16, <2>1, <2>2, FirstIsAProc DEF Accept, MigrationTypeOK
  <2>4. /\ \A o \in Machines : newborn'[o] # NoProc => phase'[newborn'[o]] = "unborn"
        /\ \A n, o \in Machines : newborn'[n] = newborn'[o] /\ newborn'[n] # NoProc => n = o
    BY <2>2, <2>3
  <2>5. /\ \A n \in Machines : \A i \in 1..Len(backlog'[n]) : backlog'[n][i].attempt <= moves'
        /\ \A n, o \in Machines : \A i \in 1..Len(backlog'[n]), j \in 1..Len(backlog'[o]) :
              backlog'[n][i] = backlog'[o][j] => n = o /\ i = j
    BY <2>3, HeadIsTaken
  <2>6. QED
    BY <2>1, <2>4, <2>5
<1>17. ASSUME NEW m \in Machines, Arrive(m) PROVE CopyInv'
  BY <1>17 DEF Arrive, Call, MigrationTypeOK
<1>18. ASSUME NEW m \in Machines, ServerFails(m) PROVE CopyInv'
  <2>1. /\ \A q \in Procs : answer'[q] # "none" => phase[q] = "transit"
        /\ UNCHANGED <<phase, moves>>
    BY <1>18 DEF ServerFails, Waiting, MigrationTypeOK
  <2>2. QED
    BY <1>18, <2>1 DEF ServerFails, MigrationTypeOK
<1>19. QED
  BY <1>1, <1>2, <1>3, <1>4, <1>5, <1>6, <1>7, <1>8, <1>9, <1>10, <1>11, <1>12,
     <1>13, <1>14, <1>15, <1>16, <1>17, <1>18
     DEF MoveStep

\* CopyInv is an invariant.
LEMMA CopyInvariant == Spec => []CopyInv
<1>1. Init => CopyInv
  BY FirstIsAProc DEF Init, MigrationInit, CopyInv
<1>2. TypeInv /\ CopyInv /\ [Next]_vars => CopyInv'
  <2> SUFFICES ASSUME TypeInv, CopyInv, [Next]_vars PROVE CopyInv'
    OBVIOUS
  <2>1. CASE MoveStep
    BY <2>1, MoveKeepsCopies DEF TypeInv
  <2>2. CASE Aside
    BY <2>2 DEF Aside, copyVars, moveVars, CopyInv
  <2>3. QED
    BY <2>1, <2>2, StepIsMove
<1>3. QED
  BY <1>1, <1>2, TypeInvariant, PTL DEF Spec

-----------------------------------------------------------------------------
(* The agent is never lost                                                 *)

\* Inductive strengthening of AgentIsNeverLost: a process in transit that was
\* answered OK does not count, because it is about to leave; its successor does.
LostInv ==
    \/ ended
    \/ \E p \in Procs : Lives(p) /\ ~(phase[p] = "transit" /\ answer[p] = "OK")
    \/ \E m \in Machines : newborn[m] # NoProc

\* A move keeps LostInv.
LEMMA MoveKeepsAgent ==
    ASSUME MigrationTypeOK, CopyInv, LostInv, MoveStep
    PROVE  LostInv'
<1> USE FirstIsAProc DEF MigrationTypeOK, LostInv, Lives, masterVars, moveVars, Goes
<1>1. ASSUME NEW p \in Procs, HandleRegister(p) PROVE LostInv'
  BY <1>1 DEF HandleRegister
<1>2. ASSUME NEW p \in Procs, HandleEndpoint(p) PROVE LostInv'
  BY <1>2 DEF HandleEndpoint
<1>3. ASSUME NEW p \in Procs, HandleDFRegister(p) PROVE LostInv'
  BY <1>3 DEF HandleDFRegister
<1>4. ASSUME NEW p \in Procs, HandleDeregister(p) PROVE LostInv'
  BY <1>4 DEF HandleDeregister
<1>5. ASSUME NEW p \in Procs, HandleDFDeregister(p) PROVE LostInv'
  BY <1>5 DEF HandleDFDeregister
<1>6. ASSUME NEW p \in Procs, CallTimesOut(p) PROVE LostInv'
  BY <1>6 DEF CallTimesOut, Call
<1>7. ASSUME NEW p \in Procs, UserCalls(p) PROVE LostInv'
  BY <1>7 DEF UserCalls
<1>8. ASSUME NEW p \in Procs, Departed(p) PROVE LostInv'
  BY <1>8 DEF Departed, Call
<1>9. ASSUME NEW p \in Procs, NotDeparted(p) PROVE LostInv'
  BY <1>9 DEF NotDeparted
<1>10. ASSUME NEW p \in Procs, GiveUp(p) PROVE LostInv'
  BY <1>10 DEF GiveUp
<1>11. ASSUME NEW p \in Procs, Delete(p) PROVE LostInv'
  BY <1>11 DEF Delete, Call
<1>12. ASSUME NEW p \in Procs, Crash(p) PROVE LostInv'
  BY <1>12 DEF Crash, Exists
<1>13. ASSUME NEW p \in Procs, NEW m \in Machines, Depart(p, m) PROVE LostInv'
  <2>1. answer[p] # "OK" /\ p \in Procs
    BY <1>13 DEF Depart, CopyInv
  <2>2. phase'[p] = "transit" /\ UNCHANGED answer
    BY <1>13 DEF Depart
  <2>3. QED
    BY <2>1, <2>2
<1>14. ASSUME NEW p \in Procs, NEW m \in Machines, DepartRefused(p, m) PROVE LostInv'
  BY <1>14 DEF DepartRefused
<1>15. ASSUME NEW m \in Machines, Refuse(m) PROVE LostInv'
  BY <1>15 DEF Refuse, Answered, Waiting
<1>16. ASSUME NEW m \in Machines, Accept(m) PROVE LostInv'
  BY <1>16 DEF Accept
<1>17. ASSUME NEW m \in Machines, Arrive(m) PROVE LostInv'
  <2>1. newborn[m] \in Procs /\ answer[newborn[m]] # "OK"
    BY <1>17 DEF Arrive, CopyInv
  <2>2. phase'[newborn[m]] = "REGISTER" /\ UNCHANGED answer
    BY <1>17, <2>1 DEF Arrive
  <2>3. QED
    BY <2>1, <2>2
<1>18. ASSUME NEW m \in Machines, ServerFails(m) PROVE LostInv'
  BY <1>18 DEF ServerFails
<1>19. QED
  BY <1>1, <1>2, <1>3, <1>4, <1>5, <1>6, <1>7, <1>8, <1>9, <1>10, <1>11, <1>12,
     <1>13, <1>14, <1>15, <1>16, <1>17, <1>18
     DEF MoveStep

\* control_Thread and the migration servers: whatever is refused, late, given up
\* or repeated, some process runs the agent or a server is about to start it,
\* unless a process died, was deleted, or a server failed with the agent in its
\* hands: for any number of machines, moves and faults.
THEOREM AgentIsNeverLostAlways == Spec => []AgentIsNeverLost
<1>1. Init => LostInv
  BY FirstIsAProc DEF Init, MigrationInit, LostInv, Lives
<1>2. TypeInv /\ CopyInv /\ LostInv /\ [Next]_vars => LostInv'
  <2> SUFFICES ASSUME TypeInv, CopyInv, LostInv, [Next]_vars PROVE LostInv'
    OBVIOUS
  <2>1. CASE MoveStep
    BY <2>1, MoveKeepsAgent DEF TypeInv
  <2>2. CASE Aside
    BY <2>2 DEF Aside, copyVars, moveVars, LostInv, Lives
  <2>3. QED
    BY <2>1, <2>2, StepIsMove
<1>3. LostInv => AgentIsNeverLost
  BY DEF LostInv, AgentIsNeverLost
<1>4. QED
  BY <1>1, <1>2, <1>3, TypeInvariant, CopyInvariant, PTL DEF Spec

-----------------------------------------------------------------------------
(* Copies                                                                  *)

\* A subset of a finite set, with an element more or less, and its size.
LEMMA SetBounds ==
    ASSUME NEW S, IsFiniteSet(S), NEW T, NEW x, NEW y
    PROVE  /\ T \subseteq S => IsFiniteSet(T) /\ Cardinality(T) <= Cardinality(S)
           /\ T \subseteq S \cup {y} => IsFiniteSet(T) /\ Cardinality(T) <= Cardinality(S) + 1
           /\ x \in S /\ T \subseteq S \ {x} =>
                 IsFiniteSet(T) /\ Cardinality(T) <= Cardinality(S) - 1
           /\ x \in S /\ T \subseteq (S \ {x}) \cup {y} =>
                 IsFiniteSet(T) /\ Cardinality(T) <= Cardinality(S)
<1>1. \A U : IsFiniteSet(U) => Cardinality(U) \in Nat
  BY FS_CardinalityType
<1>2. \A U : IsFiniteSet(U) /\ T \subseteq U => IsFiniteSet(T) /\ Cardinality(T) <= Cardinality(U)
  BY FS_Subset
<1>3. \A U : IsFiniteSet(U) => /\ IsFiniteSet(U \cup {y})
                               /\ Cardinality(U \cup {y}) <= Cardinality(U) + 1
  <2> SUFFICES ASSUME NEW U, IsFiniteSet(U)
               PROVE  /\ IsFiniteSet(U \cup {y})
                      /\ Cardinality(U \cup {y}) <= Cardinality(U) + 1
    OBVIOUS
  <2>1. Cardinality(U) \in Nat
    BY <1>1
  <2>2. /\ IsFiniteSet(U \cup {y})
        /\ Cardinality(U \cup {y}) = IF y \in U THEN Cardinality(U) ELSE Cardinality(U) + 1
    BY FS_AddElement
  <2>3. QED
    BY <2>1, <2>2
<1>4. x \in S => IsFiniteSet(S \ {x}) /\ Cardinality(S \ {x}) = Cardinality(S) - 1
  BY FS_RemoveElement
<1>5. QED
  <2>1. T \subseteq S \cup {y} => IsFiniteSet(T) /\ Cardinality(T) <= Cardinality(S) + 1
    <3> HAVE T \subseteq S \cup {y}
    <3>1. IsFiniteSet(S \cup {y}) /\ Cardinality(S \cup {y}) <= Cardinality(S) + 1
      BY <1>3
    <3>2. QED
      BY <1>1, <1>2, <3>1
  <2>2. x \in S /\ T \subseteq S \ {x} => IsFiniteSet(T) /\ Cardinality(T) <= Cardinality(S) - 1
    BY <1>2, <1>4
  <2>3. x \in S /\ T \subseteq (S \ {x}) \cup {y} =>
            IsFiniteSet(T) /\ Cardinality(T) <= Cardinality(S)
    <3> HAVE x \in S /\ T \subseteq (S \ {x}) \cup {y}
    <3>1. /\ IsFiniteSet((S \ {x}) \cup {y})
          /\ Cardinality((S \ {x}) \cup {y}) <= Cardinality(S \ {x}) + 1
      BY <1>3, <1>4
    <3>2. QED
      BY <1>1, <1>2, <1>4, <3>1
  <2>4. QED
    BY <1>2, <2>1, <2>2, <2>3

\* The processes that run the agent, without those about to leave, and the copies
\* that servers are about to start.
Holds(p) == phase[p] \in {"REGISTER", "run"} \/ (phase[p] = "transit" /\ answer[p] # "OK")
Held == {p \in Procs : Holds(p) \/ \E m \in Machines : newborn[m] = p}

\* The attempts in the backlogs whose client has given up: copies yet to be made.
Unread == {a \in Arrivals : \E m \in Machines : \E i \in 1..Len(backlog[m]) : backlog[m][i] = a}
Adrift == {a \in Unread : ~Waiting(a)}

\* Inductive strengthening of CopiesMeanTimeouts.
CountInv ==
    /\ IsFiniteSet(Held) /\ IsFiniteSet(Adrift)
    /\ Cardinality(Held) + Cardinality(Adrift) <= 1 + abandoned

\* The five ways in which a step may move elements between the two sets.
LEMMA CountKept ==
    ASSUME CountInv, abandoned \in Nat, abandoned' \in Nat, NEW x, NEW y, NEW a,
           \/ Held' \subseteq Held /\ Adrift' \subseteq Adrift /\ abandoned' = abandoned
           \/ Held' \subseteq Held /\ Adrift' \subseteq Adrift \cup {a} /\ abandoned' = abandoned + 1
           \/ /\ x \in Held /\ Held' \subseteq Held \ {x} /\ Adrift' \subseteq Adrift \cup {a}
              /\ abandoned' = abandoned
           \/ /\ x \in Held /\ Held' \subseteq (Held \ {x}) \cup {y} /\ Adrift' \subseteq Adrift
              /\ abandoned' = abandoned
           \/ /\ a \in Adrift /\ Adrift' \subseteq Adrift \ {a} /\ Held' \subseteq Held \cup {y}
              /\ abandoned' = abandoned
    PROVE  CountInv'
<1> DEFINE H == Held  H1 == Held'  D1 == Adrift'  DD == Adrift
<1>1. /\ IsFiniteSet(H) /\ IsFiniteSet(DD) /\ Cardinality(H) \in Nat /\ Cardinality(DD) \in Nat
      /\ Cardinality(H) + Cardinality(DD) <= 1 + abandoned
  BY FS_CardinalityType DEF CountInv
<1>2. IsFiniteSet(H1) /\ IsFiniteSet(D1) => Cardinality(H1) \in Nat /\ Cardinality(D1) \in Nat
  BY FS_CardinalityType
<1> HIDE DEF H, H1, D1, DD
<1>3. /\ H1 \subseteq H => IsFiniteSet(H1) /\ Cardinality(H1) <= Cardinality(H)
      /\ H1 \subseteq H \cup {y} => IsFiniteSet(H1) /\ Cardinality(H1) <= Cardinality(H) + 1
      /\ x \in H /\ H1 \subseteq H \ {x} =>
            IsFiniteSet(H1) /\ Cardinality(H1) <= Cardinality(H) - 1
      /\ x \in H /\ H1 \subseteq (H \ {x}) \cup {y} =>
            IsFiniteSet(H1) /\ Cardinality(H1) <= Cardinality(H)
  BY <1>1, SetBounds
<1>4. /\ D1 \subseteq DD => IsFiniteSet(D1) /\ Cardinality(D1) <= Cardinality(DD)
      /\ D1 \subseteq DD \cup {a} => IsFiniteSet(D1) /\ Cardinality(D1) <= Cardinality(DD) + 1
      /\ a \in DD /\ D1 \subseteq DD \ {a} =>
            IsFiniteSet(D1) /\ Cardinality(D1) <= Cardinality(DD) - 1
  BY <1>1, SetBounds
<1>5. IsFiniteSet(H1) /\ IsFiniteSet(D1) /\ Cardinality(H1) + Cardinality(D1) <= 1 + abandoned'
  <2>1. CASE H1 \subseteq H /\ D1 \subseteq DD /\ abandoned' = abandoned
    BY <1>1, <1>2, <1>3, <1>4, <2>1
  <2>2. CASE H1 \subseteq H /\ D1 \subseteq DD \cup {a} /\ abandoned' = abandoned + 1
    BY <1>1, <1>2, <1>3, <1>4, <2>2
  <2>3. CASE x \in H /\ H1 \subseteq H \ {x} /\ D1 \subseteq DD \cup {a} /\ abandoned' = abandoned
    BY <1>1, <1>2, <1>3, <1>4, <2>3
  <2>4. CASE /\ x \in H /\ H1 \subseteq (H \ {x}) \cup {y} /\ D1 \subseteq DD
             /\ abandoned' = abandoned
    BY <1>1, <1>2, <1>3, <1>4, <2>4
  <2>5. CASE /\ a \in DD /\ D1 \subseteq DD \ {a} /\ H1 \subseteq H \cup {y}
             /\ abandoned' = abandoned
    BY <1>1, <1>2, <1>3, <1>4, <2>5
  <2>6. QED
    BY <2>1, <2>2, <2>3, <2>4, <2>5 DEF H, H1, D1, DD
<1>6. QED
  BY <1>5 DEF CountInv, H1, D1

\* A client waits for one answer at a time.
LEMMA OneAttempt ==
    ASSUME NEW a \in Arrivals, NEW b \in Arrivals, Waiting(a), Waiting(b), a.from = b.from
    PROVE  a = b
  BY DEF Arrivals, Waiting

\* When one client's state changes, only its own attempt can come adrift, and
\* none if it was not waiting.
LEMMA OthersStillWait ==
    ASSUME MigrationTypeOK, NEW p \in Procs, backlog' = backlog,
           \A q \in Procs \ {p} : /\ phase'[q] = phase[q] /\ attempt'[q] = attempt[q]
                                  /\ answer'[q] = answer[q]
    PROVE  /\ Adrift' \subseteq Adrift \cup {[from |-> p, attempt |-> attempt[p]]}
           /\ phase[p] # "transit" \/ answer[p] # "none" => Adrift' \subseteq Adrift
<1>1. Unread' = Unread /\ Unread \subseteq Arrivals
  BY DEF Unread
<1>2. \A b \in Arrivals : b.from # p /\ Waiting(b) => Waiting(b)'
  BY DEF Waiting, Arrivals
<1>3. \A b \in Arrivals : b.from = p /\ Waiting(b) => b = [from |-> p, attempt |-> attempt[p]]
  BY DEF Waiting, Arrivals
<1>4. phase[p] # "transit" \/ answer[p] # "none" => \A b \in Arrivals : b.from = p => ~Waiting(b)
  BY DEF Waiting
<1> HIDE DEF Waiting, Unread
<1>5. QED
  BY <1>1, <1>2, <1>3, <1>4 DEF Adrift

\* The attempt that a server takes is in no backlog any more.
LEMMA HeadIsRead ==
    ASSUME MigrationTypeOK, CopyInv, NEW m \in Machines, backlog[m] # <<>>,
           backlog' = [backlog EXCEPT ![m] = Tail(@)]
    PROVE  /\ Head(backlog[m]) \in Arrivals /\ Head(backlog[m]) \in Unread
           /\ \A b \in Unread' : b \in Unread /\ b # Head(backlog[m])
<1>1. Head(backlog[m]) \in Unread
  BY HeadIsTaken DEF Unread
<1>2. ASSUME NEW b \in Unread' PROVE b \in Unread /\ b # Head(backlog[m])
  <2>1. b \in Arrivals
    BY <1>2 DEF Unread
  <2>2. PICK o \in Machines : \E i \in 1..Len(backlog'[o]) : backlog'[o][i] = b
    BY <1>2 DEF Unread
  <2>3. PICK i \in 1..Len(backlog'[o]) : backlog'[o][i] = b
    BY <2>2
  <2>4. CASE o = m
    <3>1. b = backlog[m][i + 1] /\ i + 1 \in 1..Len(backlog[m]) /\ i + 1 # 1
      <4>1. i \in 1..Len(backlog'[m]) /\ backlog'[m][i] = b
        BY <2>3, <2>4
      <4>2. \A k \in 1..Len(backlog'[m]) : /\ backlog'[m][k] = backlog[m][k + 1]
                                           /\ k + 1 \in 1..Len(backlog[m])
        BY HeadIsTaken
      <4>3. QED
        BY <4>1, <4>2
    <3>2. b # backlog[m][1]
      BY <3>1, HeadIsTaken DEF CopyInv
    <3>3. QED
      BY <2>1, <3>1, <3>2, HeadIsTaken DEF Unread
  <2>5. CASE o # m
    <3>1. b = backlog[o][i] /\ i \in 1..Len(backlog[o])
      BY <2>3, <2>5, HeadIsTaken
    <3>2. b # backlog[m][1]
      BY <2>5, <3>1, HeadIsTaken DEF CopyInv
    <3>3. QED
      BY <2>1, <3>1, <3>2, HeadIsTaken DEF Unread
  <2>6. QED
    BY <2>4, <2>5
<1>3. QED
  BY <1>1, <1>2, HeadIsTaken

\* An answer ends the wait for that attempt and for no other.
LEMMA AnswerOfOne ==
    ASSUME MigrationTypeOK, NEW a \in Arrivals, NEW b \in Arrivals, NEW what, b # a,
           answer' = Answered(a, what), UNCHANGED <<phase, attempt>>, Waiting(b)
    PROVE  Waiting(b)'
<1>1. a.from \in Procs /\ b.from \in Procs
  BY DEF Arrivals
<1>2. Waiting(a) => a.from # b.from
  BY OneAttempt
<1>3. answer'[b.from] = answer[b.from]
  BY <1>1, <1>2 DEF Answered, MigrationTypeOK
<1>4. QED
  BY <1>3 DEF Waiting

\* A move keeps CountInv.
LEMMA MoveKeepsCount ==
    ASSUME MigrationTypeOK, MigrationTypeOK', CopyInv, CountInv, MoveStep
    PROVE  CountInv'
<1> DEFINE Kept == Held' \subseteq Held /\ Adrift' \subseteq Adrift /\ abandoned' = abandoned
<1>a. abandoned \in Nat /\ abandoned' \in Nat
  BY DEF MigrationTypeOK
<1>k. Kept => CountInv'
  BY <1>a, CountKept
<1> USE FirstIsAProc DEF masterVars, moveVars, Goes, Call
<1>1. ASSUME NEW p \in Procs, HandleRegister(p) PROVE CountInv'
  <2>1. Held' \subseteq Held /\ UNCHANGED abandoned
    BY <1>1 DEF HandleRegister, Held, Holds, MigrationTypeOK
  <2>2. Adrift' \subseteq Adrift
    BY <1>1 DEF HandleRegister, Adrift, Unread, Waiting, Arrivals, MigrationTypeOK
  <2>3. QED
    BY <1>k, <2>1, <2>2
<1>2. ASSUME NEW p \in Procs, HandleEndpoint(p) PROVE CountInv'
  <2>1. Held' \subseteq Held /\ UNCHANGED abandoned
    BY <1>2 DEF HandleEndpoint, Held, Holds, MigrationTypeOK
  <2>2. Adrift' \subseteq Adrift
    BY <1>2 DEF HandleEndpoint, Adrift, Unread, Waiting, Arrivals, MigrationTypeOK
  <2>3. QED
    BY <1>k, <2>1, <2>2
<1>3. ASSUME NEW p \in Procs, HandleDFRegister(p) PROVE CountInv'
  <2>1. Held' \subseteq Held /\ UNCHANGED abandoned
    BY <1>3 DEF HandleDFRegister, Held, Holds, MigrationTypeOK
  <2>2. Adrift' \subseteq Adrift
    BY <1>3 DEF HandleDFRegister, Adrift, Unread, Waiting, Arrivals, MigrationTypeOK
  <2>3. QED
    BY <1>k, <2>1, <2>2
<1>4. ASSUME NEW p \in Procs, HandleDeregister(p) PROVE CountInv'
  <2>1. Held' \subseteq Held /\ UNCHANGED abandoned
    BY <1>4 DEF HandleDeregister, Held, Holds, MigrationTypeOK
  <2>2. Adrift' \subseteq Adrift
    BY <1>4 DEF HandleDeregister, Adrift, Unread, Waiting, Arrivals, MigrationTypeOK
  <2>3. QED
    BY <1>k, <2>1, <2>2
<1>5. ASSUME NEW p \in Procs, HandleDFDeregister(p) PROVE CountInv'
  <2>1. Held' \subseteq Held /\ UNCHANGED abandoned
    BY <1>5 DEF HandleDFDeregister, Held, Holds, MigrationTypeOK
  <2>2. Adrift' \subseteq Adrift
    BY <1>5 DEF HandleDFDeregister, Adrift, Unread, Waiting, Arrivals, MigrationTypeOK
  <2>3. QED
    BY <1>k, <2>1, <2>2
<1>6. ASSUME NEW p \in Procs, CallTimesOut(p) PROVE CountInv'
  <2>1. Held' \subseteq Held /\ UNCHANGED abandoned
    BY <1>6 DEF CallTimesOut, Held, Holds, MigrationTypeOK
  <2>2. Adrift' \subseteq Adrift
    BY <1>6 DEF CallTimesOut, Adrift, Unread, Waiting, Arrivals, MigrationTypeOK
  <2>3. QED
    BY <1>k, <2>1, <2>2
<1>7. ASSUME NEW p \in Procs, UserCalls(p) PROVE CountInv'
  <2>1. Held' \subseteq Held /\ UNCHANGED abandoned
    BY <1>7 DEF UserCalls, Held, Holds, MigrationTypeOK
  <2>2. Adrift' \subseteq Adrift
    BY <1>7 DEF UserCalls, Adrift, Unread, Waiting, Arrivals, MigrationTypeOK
  <2>3. QED
    BY <1>k, <2>1, <2>2
<1>8. ASSUME NEW p \in Procs, Departed(p) PROVE CountInv'
  <2>1. Held' \subseteq Held /\ UNCHANGED abandoned
    BY <1>8 DEF Departed, Held, Holds, MigrationTypeOK
  <2>2. Adrift' \subseteq Adrift
    <3>1. /\ backlog' = backlog /\ answer[p] # "none"
          /\ \A q \in Procs \ {p} : /\ phase'[q] = phase[q] /\ attempt'[q] = attempt[q]
                                   /\ answer'[q] = answer[q]
      BY <1>8 DEF Departed, MigrationTypeOK
    <3>2. QED
      BY <3>1, OthersStillWait
  <2>3. QED
    BY <1>k, <2>1, <2>2
<1>9. ASSUME NEW p \in Procs, NotDeparted(p) PROVE CountInv'
  <2>1. Held' \subseteq Held /\ UNCHANGED abandoned
    BY <1>9 DEF NotDeparted, Held, Holds, MigrationTypeOK
  <2>2. Adrift' \subseteq Adrift
    <3>1. /\ backlog' = backlog /\ answer[p] # "none"
          /\ \A q \in Procs \ {p} : /\ phase'[q] = phase[q] /\ attempt'[q] = attempt[q]
                                   /\ answer'[q] = answer[q]
      BY <1>9 DEF NotDeparted, MigrationTypeOK
    <3>2. QED
      BY <3>1, OthersStillWait
  <2>3. QED
    BY <1>k, <2>1, <2>2
<1>10. ASSUME NEW p \in Procs, GiveUp(p) PROVE CountInv'
  <2> DEFINE late == [from |-> p, attempt |-> attempt[p]]
  <2>1. /\ abandoned' = abandoned + 1 /\ UNCHANGED <<backlog, newborn, answer>>
        /\ phase[p] = "transit" /\ answer[p] # "OK" /\ phase' = [phase EXCEPT ![p] = "run"]
        /\ \A q \in Procs \ {p} : /\ phase'[q] = phase[q] /\ attempt'[q] = attempt[q]
                                 /\ answer'[q] = answer[q]
    BY <1>10 DEF GiveUp, MigrationTypeOK
  <2>2. Held' \subseteq Held
    BY <2>1 DEF Held, Holds, MigrationTypeOK
  <2>3. Adrift' \subseteq Adrift \cup {late}
    BY <2>1, OthersStillWait
  <2>4. QED
    BY <1>a, <2>1, <2>2, <2>3, CountKept
<1>11. ASSUME NEW p \in Procs, Delete(p) PROVE CountInv'
  <2> DEFINE late == [from |-> p, attempt |-> attempt[p]]
  <2>1. /\ abandoned' = abandoned /\ UNCHANGED <<backlog, newborn>>
        /\ phase[p] \in {"run", "transit"} /\ phase' = [phase EXCEPT ![p] = "DEREGISTER"]
        /\ \A q \in Procs \ {p} : /\ phase'[q] = phase[q] /\ attempt'[q] = attempt[q]
                                 /\ answer'[q] = answer[q]
    BY <1>11 DEF Delete, MigrationTypeOK
  <2>2. \A m \in Machines : newborn[m] # p
    BY <2>1 DEF CopyInv
  <2>3. Held' \subseteq Held \ {p}
    BY <2>1, <2>2 DEF Held, Holds, MigrationTypeOK
  <2>4. Adrift' \subseteq Adrift \cup {late}
    BY <2>1, OthersStillWait
  <2>5. CASE p \in Held
    BY <1>a, <2>1, <2>3, <2>4, <2>5, CountKept
  <2>6. CASE p \notin Held
    <3>1. answer[p] = "OK"
      BY <2>1, <2>6 DEF Held, Holds
    <3>2. Adrift' \subseteq Adrift
      BY <2>1, <3>1, OthersStillWait
    <3>3. QED
      BY <1>k, <2>1, <2>3, <3>2
  <2>7. QED
    BY <2>5, <2>6
<1>12. ASSUME NEW p \in Procs, Crash(p) PROVE CountInv'
  <2> DEFINE late == [from |-> p, attempt |-> attempt[p]]
  <2>1. /\ abandoned' = abandoned /\ UNCHANGED <<backlog, newborn>>
        /\ phase[p] # "unborn" /\ phase' = [phase EXCEPT ![p] = "gone"]
        /\ \A q \in Procs \ {p} : /\ phase'[q] = phase[q] /\ attempt'[q] = attempt[q]
                                 /\ answer'[q] = answer[q]
    BY <1>12 DEF Crash, Exists, MigrationTypeOK
  <2>2. \A m \in Machines : newborn[m] # p
    BY <2>1 DEF CopyInv
  <2>3. Held' \subseteq Held \ {p}
    BY <2>1, <2>2 DEF Held, Holds, MigrationTypeOK
  <2>4. Adrift' \subseteq Adrift \cup {late}
    BY <2>1, OthersStillWait
  <2>5. CASE p \in Held
    BY <1>a, <2>1, <2>3, <2>4, <2>5, CountKept
  <2>6. CASE p \notin Held
    <3>1. phase[p] # "transit" \/ answer[p] = "OK"
      BY <2>1, <2>6 DEF Held, Holds
    <3>2. Adrift' \subseteq Adrift
      BY <2>1, <3>1, OthersStillWait
    <3>3. QED
      BY <1>k, <2>1, <2>3, <3>2
  <2>7. QED
    BY <2>5, <2>6
<1>13. ASSUME NEW p \in Procs, NEW m \in Machines, Depart(p, m) PROVE CountInv'
  <2>1. /\ phase[p] = "run" /\ answer[p] = "none" /\ UNCHANGED <<answer, newborn, abandoned>>
        /\ phase' = [phase EXCEPT ![p] = "transit"]
        /\ attempt' = [attempt EXCEPT ![p] = moves']
    BY <1>13 DEF Depart, CopyInv
  <2>2. Held' \subseteq Held
    BY <2>1 DEF Held, Holds, MigrationTypeOK
  <2>3. \A a \in Unread' : a \in Unread \/ a = [from |-> p, attempt |-> moves']
    BY <1>13 DEF Depart, Unread, MigrationTypeOK
  <2>4. \A a \in Arrivals : a.from \in Procs
    BY DEF Arrivals
  <2>5. \A a \in Arrivals : Waiting(a) => Waiting(a)'
    BY <2>1, <2>4 DEF Waiting, MigrationTypeOK
  <2>6. \A a \in Arrivals : a = [from |-> p, attempt |-> moves'] => Waiting(a)'
    BY <2>1 DEF Waiting, MigrationTypeOK
  <2>7. Adrift' \subseteq Adrift
    BY <2>3, <2>5, <2>6 DEF Adrift, Unread
  <2>8. QED
    BY <1>k, <2>1, <2>2, <2>7
<1>14. ASSUME NEW p \in Procs, NEW m \in Machines, DepartRefused(p, m) PROVE CountInv'
  <2>1. Held' \subseteq Held /\ UNCHANGED abandoned
    BY <1>14 DEF DepartRefused, Held, Holds, MigrationTypeOK
  <2>2. Adrift' \subseteq Adrift
    BY <1>14 DEF DepartRefused, Adrift, Unread, Waiting, Arrivals, MigrationTypeOK
  <2>3. QED
    BY <1>k, <2>1, <2>2
<1>15. ASSUME NEW m \in Machines, Refuse(m) PROVE CountInv'
  <2> DEFINE a == Head(backlog[m])
  <2>1. /\ backlog[m] # <<>> /\ backlog' = [backlog EXCEPT ![m] = Tail(@)]
        /\ answer' = Answered(a, "other") /\ UNCHANGED <<phase, newborn, attempt, abandoned>>
    BY <1>15 DEF Refuse
  <2>2. a \in Arrivals /\ \A b \in Unread' : b \in Unread /\ b # a
    BY <2>1, HeadIsRead
  <2> HIDE DEF a
  <2>3. \A b \in Unread' : Waiting(b) => Waiting(b)'
    BY <2>1, <2>2, AnswerOfOne DEF Unread
  <2>4. Held' \subseteq Held
    BY <2>1 DEF Held, Holds, Answered, Waiting, MigrationTypeOK
  <2>5. QED
    BY <1>k, <2>1, <2>2, <2>3, <2>4 DEF Adrift
<1>16. ASSUME NEW m \in Machines, Accept(m) PROVE CountInv'
  <2> DEFINE a == Head(backlog[m])
  <2>1. /\ backlog[m] # <<>> /\ backlog' = [backlog EXCEPT ![m] = Tail(@)]
        /\ answer' = Answered(a, "OK") /\ UNCHANGED <<phase, attempt, abandoned>>
        /\ newborn[m] = NoProc
    BY <1>16 DEF Accept
  <2>q. PICK q \in Procs : newborn' = [newborn EXCEPT ![m] = q]
    BY <1>16 DEF Accept
  <2>2. a \in Arrivals /\ a \in Unread /\ \A b \in Unread' : b \in Unread /\ b # a
    BY <2>1, HeadIsRead
  <2> HIDE DEF a
  <2>3. \A b \in Unread' : Waiting(b) => Waiting(b)'
    BY <2>1, <2>2, AnswerOfOne DEF Unread
  <2>4. Adrift' \subseteq Adrift \ {a}
    BY <2>2, <2>3 DEF Adrift
  <2>5. \A p \in Held' : p = q \/ (p \in Held /\ (Waiting(a) => p # a.from))
    <3>1. \A p \in Procs : (\E o \in Machines : newborn'[o] = p) =>
                              p = q \/ \E o \in Machines : newborn[o] = p
      BY <2>1, <2>q DEF MigrationTypeOK
    <3>2. \A p \in Procs : Holds(p)' => Holds(p) /\ (Waiting(a) => p # a.from)
      BY <2>1, <2>2 DEF Holds, Answered, Waiting, MigrationTypeOK
    <3>3. \A p \in Procs : (\E o \in Machines : newborn[o] = p) => (Waiting(a) => p # a.from)
      BY <2>1, <2>2 DEF CopyInv, Waiting
    <3>4. ASSUME NEW p \in Held', p # q
          PROVE  p \in Held /\ (Waiting(a) => p # a.from)
      <4>1. p \in Procs /\ (Holds(p)' \/ \E o \in Machines : newborn'[o] = p)
        BY DEF Held
      <4>2. CASE Holds(p)'
        BY <3>2, <4>1, <4>2 DEF Held
      <4>3. CASE \E o \in Machines : newborn'[o] = p
        BY <3>1, <3>3, <3>4, <4>1, <4>3 DEF Held
      <4>4. QED
        BY <4>1, <4>2, <4>3
    <3>5. QED
      BY <3>4
  <2>6. CASE Waiting(a)
    <3>1. a.from \in Held
      BY <2>2, <2>6 DEF Held, Holds, Waiting, Arrivals
    <3>2. Held' \subseteq (Held \ {a.from}) \cup {q}
      BY <2>5, <2>6
    <3>3. Adrift' \subseteq Adrift
      BY <2>4
    <3>4. QED
      BY <1>a, <2>1, <3>1, <3>2, <3>3, CountKept
  <2>7. CASE ~Waiting(a)
    <3>1. a \in Adrift
      BY <2>2, <2>7 DEF Adrift
    <3>2. Held' \subseteq Held \cup {q}
      BY <2>5
    <3>3. QED
      BY <1>a, <2>1, <2>4, <3>1, <3>2, CountKept
  <2>8. QED
    BY <2>6, <2>7
<1>17. ASSUME NEW m \in Machines, Arrive(m) PROVE CountInv'
  <2>1. newborn[m] \in Procs /\ phase[newborn[m]] = "unborn"
    BY <1>17 DEF Arrive, CopyInv, MigrationTypeOK
  <2>2. /\ phase' = [phase EXCEPT ![newborn[m]] = "REGISTER"]
        /\ newborn' = [newborn EXCEPT ![m] = NoProc]
        /\ UNCHANGED <<answer, backlog, attempt, abandoned>>
    BY <1>17 DEF Arrive
  <2>3. Held' \subseteq Held
    BY <2>1, <2>2 DEF Held, Holds, MigrationTypeOK
  <2>4. Adrift' \subseteq Adrift
    BY <2>1, <2>2 DEF Adrift, Unread, Waiting, Arrivals, MigrationTypeOK
  <2>5. QED
    BY <1>k, <2>2, <2>3, <2>4
<1>18. ASSUME NEW m \in Machines, ServerFails(m) PROVE CountInv'
  <2>1. /\ newborn' = [newborn EXCEPT ![m] = NoProc] /\ backlog' = [backlog EXCEPT ![m] = <<>>]
        /\ answer' = [p \in Procs |-> IF \E a \in ToSet(backlog[m]) : a.from = p /\ Waiting(a)
                                      THEN "other" ELSE answer[p]]
        /\ UNCHANGED <<phase, attempt, abandoned>>
    BY <1>18 DEF ServerFails
  <2>2. Held' \subseteq Held
    BY <2>1 DEF Held, Holds, Waiting, MigrationTypeOK
  <2>3. \A b \in Unread' : b \in Unread /\ b \notin ToSet(backlog[m])
    <3> SUFFICES ASSUME NEW b \in Unread' PROVE b \in Unread /\ b \notin ToSet(backlog[m])
      OBVIOUS
    <3>1. b \in Arrivals
      BY DEF Unread
    <3>2. PICK o \in Machines : \E i \in 1..Len(backlog'[o]) : backlog'[o][i] = b
      BY DEF Unread
    <3>3. o # m /\ backlog'[o] = backlog[o]
      BY <2>1, <3>2 DEF MigrationTypeOK
    <3>4. PICK i \in 1..Len(backlog[o]) : backlog[o][i] = b
      BY <3>2, <3>3
    <3>5. \A j \in 1..Len(backlog[m]) : backlog[m][j] # b
      BY <3>3, <3>4 DEF CopyInv
    <3>6. DOMAIN backlog[m] = 1..Len(backlog[m])
      BY DEF MigrationTypeOK
    <3>7. QED
      BY <3>1, <3>4, <3>5, <3>6 DEF Unread, ToSet
  <2>4. \A b \in Unread' : Waiting(b) => Waiting(b)'
    <3> SUFFICES ASSUME NEW b \in Unread', Waiting(b) PROVE Waiting(b)'
      OBVIOUS
    <3>1. b \in Arrivals /\ b.from \in Procs
      BY <2>3 DEF Unread, Arrivals
    <3>2. \A a \in ToSet(backlog[m]) : a \in Arrivals
      BY DEF ToSet, MigrationTypeOK
    <3>3. ~\E a \in ToSet(backlog[m]) : a.from = b.from /\ Waiting(a)
      BY <2>3, <3>1, <3>2, OneAttempt
    <3>4. answer'[b.from] = answer[b.from]
      BY <2>1, <3>1, <3>3
    <3>5. QED
      BY <2>1, <3>4 DEF Waiting
  <2>5. QED
    BY <1>k, <2>1, <2>2, <2>3, <2>4 DEF Adrift
<1>19. QED
  BY <1>1, <1>2, <1>3, <1>4, <1>5, <1>6, <1>7, <1>8, <1>9, <1>10, <1>11, <1>12,
     <1>13, <1>14, <1>15, <1>16, <1>17, <1>18
     DEF MoveStep

\* The processes that the property counts are among those that CountInv counts.
LEMMA CountImplies == TypeInv /\ CountInv => CopiesMeanTimeouts
<1> SUFFICES ASSUME TypeInv, CountInv PROVE CopiesMeanTimeouts
  OBVIOUS
<1> DEFINE counted == {p \in Procs : phase[p] \in {"REGISTER", "run"}}
                      \cup ({newborn[m] : m \in Machines} \ {NoProc})
<1>1. counted \subseteq Held
  BY DEF TypeInv, MigrationTypeOK, Held, Holds
<1>2. Cardinality(counted) <= Cardinality(Held) /\ Cardinality(counted) \in Nat
  BY <1>1, SetBounds, FS_CardinalityType DEF CountInv
<1>3. Cardinality(Held) \in Nat /\ Cardinality(Adrift) \in Nat /\ abandoned \in Nat
  BY FS_CardinalityType DEF CountInv, TypeInv, MigrationTypeOK
<1>4. Cardinality(counted) <= 1 + abandoned
  BY <1>2, <1>3 DEF CountInv
<1>5. QED
  BY <1>4 DEF CopiesMeanTimeouts

\* control_Thread, AGENT_TRANSIT: a migration makes a copy of the agent only when
\* its answer is given up: k such attempts, k + 1 copies at most, for any number
\* of machines, moves and faults.
THEOREM CopiesMeanTimeoutsAlways == Spec => []CopiesMeanTimeouts
<1>1. Init => CountInv
  <2> SUFFICES ASSUME Init PROVE CountInv
    OBVIOUS
  <2>1. Held = {First}
    BY FirstIsAProc DEF Init, MigrationInit, Held, Holds
  <2>2. Adrift = {}
    BY DEF Init, MigrationInit, Adrift, Unread
  <2>3. IsFiniteSet(Held) /\ Cardinality(Held) = 1
    BY <2>1, FS_Singleton
  <2>4. IsFiniteSet(Adrift) /\ Cardinality(Adrift) = 0
    BY <2>2, FS_EmptySet
  <2>5. QED
    BY <2>3, <2>4 DEF CountInv, Init, MigrationInit
<1>2. TypeInv /\ TypeInv' /\ CopyInv /\ CountInv /\ [Next]_vars => CountInv'
  <2> SUFFICES ASSUME TypeInv, TypeInv', CopyInv, CountInv, [Next]_vars PROVE CountInv'
    OBVIOUS
  <2>1. CASE MoveStep
    BY <2>1, MoveKeepsCount DEF TypeInv
  <2>2. CASE Aside
    BY <2>2 DEF Aside, copyVars, moveVars, CountInv, Held, Holds, Adrift, Unread, Waiting
  <2>3. QED
    BY <2>1, <2>2, StepIsMove
<1>3. QED
  BY <1>1, <1>2, TypeInvariant, CopyInvariant, CountImplies, PTL DEF Spec

-----------------------------------------------------------------------------
(* The recorded state                                                      *)

\* Nobody knows a process before it has started; a command waits for the answer to
\* its own order and sets no state after a kill.
KnownInv ==
    /\ \A p \in Procs : phase[p] = "unborn" =>
          (\A c \in Calls : <<c, p>> \notin requests) /\ ~Listed(p) /\ ~OnP(p)
    /\ step = "read" => awaited.cmd = cmd /\ awaited.pid = target.pid
    /\ step = "SETSTATE" => cmd # "KILL"

\* A command to suspend or wake p has been written, and its state not yet recorded.
WorksOn(p) == OnP(p) /\ cmd # "KILL" /\ step \in {"read", "SETSTATE"}

\* What the process will have in runingThred once it has handled its signals.
Obeys(p) == (\E o \in Sent(p) : o.cmd = "SUSPEND") \/ (Sent(p) = {} /\ p \in suspended)

OneSignal(p) == \A o, u \in Sent(p) : o = u

\* A process that is in step and on which no command works: no order is on the
\* way to it and one signal at most, and the record shows what it will obey.
InStep(p) ==
    /\ Ordered(p) = {} /\ OneSignal(p)
    /\ Exists(p) /\ Listed(p) => (Obeys(p) <=> registry[Name].state = "suspended")

\* A command that nothing has crossed: nothing is on the way to its process when
\* it connects, then its own order, then at most the signal of that order, which
\* makes the process what SETSTATE is about to record.
Uncrossed(p) ==
    /\ step = "connect" => ~Pending(p)
    /\ step = "read" /\ cmd # "KILL" => Sent(p) = {} /\ Ordered(p) \subseteq {awaited}
    /\ step = "SETSTATE" =>
          Ordered(p) = {} /\ OneSignal(p) /\ (Exists(p) => (Obeys(p) <=> cmd = "SUSPEND"))

\* Inductive strengthening of RemoteStateIsTruthful: also a process that is out of
\* step is brought back by a command that nothing crosses.
Truthful(p) ==
    /\ p \notin disturbed /\ ~WorksOn(p) => InStep(p)
    /\ clean /\ OnP(p) => Uncrossed(p)

TruthInv == \A p \in Procs : Truthful(p)

\* A process that is not known stays unknown while it has not started.
StartsUnknown ==
    \A p \in Procs :
        /\ phase'[p] = "unborn" =>
              phase[p] = "unborn" /\ \A c \in Calls : <<c, p>> \in requests' => <<c, p>> \in requests
        /\ Exists(p)' => Exists(p) \/ phase[p] = "unborn"

\* The steps of Migration that are not steps of the master.
QuietStep ==
    \/ \E p \in Procs :
          \/ CallTimesOut(p) \/ UserCalls(p) \/ Departed(p) \/ NotDeparted(p) \/ GiveUp(p)
          \/ Delete(p) \/ Crash(p)
          \/ \E m \in Machines : Depart(p, m) \/ DepartRefused(p, m)
    \/ \E m \in Machines : Refuse(m) \/ Accept(m) \/ Arrive(m) \/ ServerFails(m)

\* Only the master writes the registry, and only those who run the agent call it.
LEMMA QuietLeavesRegistry ==
    ASSUME MigrationTypeOK, CopyInv, QuietStep
    PROVE  registry' = registry /\ StartsUnknown
<1> USE DEF MigrationTypeOK, StartsUnknown, Exists, masterVars, moveVars, Goes, Call, Calls
<1>1. ASSUME NEW p \in Procs, CallTimesOut(p) PROVE registry' = registry /\ StartsUnknown
  BY <1>1 DEF CallTimesOut
<1>2. ASSUME NEW p \in Procs, UserCalls(p) PROVE registry' = registry /\ StartsUnknown
  BY <1>2 DEF UserCalls
<1>3. ASSUME NEW p \in Procs, Departed(p) PROVE registry' = registry /\ StartsUnknown
  BY <1>3 DEF Departed
<1>4. ASSUME NEW p \in Procs, NotDeparted(p) PROVE registry' = registry /\ StartsUnknown
  BY <1>4 DEF NotDeparted
<1>5. ASSUME NEW p \in Procs, GiveUp(p) PROVE registry' = registry /\ StartsUnknown
  BY <1>5 DEF GiveUp
<1>6. ASSUME NEW p \in Procs, Delete(p) PROVE registry' = registry /\ StartsUnknown
  BY <1>6 DEF Delete
<1>7. ASSUME NEW p \in Procs, Crash(p) PROVE registry' = registry /\ StartsUnknown
  BY <1>7 DEF Crash
<1>8. ASSUME NEW p \in Procs, NEW m \in Machines, Depart(p, m)
      PROVE  registry' = registry /\ StartsUnknown
  BY <1>8 DEF Depart
<1>9. ASSUME NEW p \in Procs, NEW m \in Machines, DepartRefused(p, m)
      PROVE  registry' = registry /\ StartsUnknown
  BY <1>9 DEF DepartRefused
<1>10. ASSUME NEW m \in Machines, Refuse(m) PROVE registry' = registry /\ StartsUnknown
  BY <1>10 DEF Refuse
<1>11. ASSUME NEW m \in Machines, Accept(m) PROVE registry' = registry /\ StartsUnknown
  BY <1>11 DEF Accept
<1>12. ASSUME NEW m \in Machines, Arrive(m) PROVE registry' = registry /\ StartsUnknown
  <2>1. newborn[m] \in Procs /\ phase[newborn[m]] = "unborn"
    BY <1>12 DEF Arrive, CopyInv
  <2>2. QED
    BY <1>12, <2>1 DEF Arrive
<1>13. ASSUME NEW m \in Machines, ServerFails(m) PROVE registry' = registry /\ StartsUnknown
  BY <1>13 DEF ServerFails
<1>14. QED
  BY <1>1, <1>2, <1>3, <1>4, <1>5, <1>6, <1>7, <1>8, <1>9, <1>10, <1>11, <1>12,
     <1>13
     DEF QuietStep

\* A step of the master for p writes the record of p, erases the name, or leaves
\* the registry alone; and p has started.
LEMMA MasterWrites ==
    ASSUME MigrationTypeOK, KnownInv, NEW p \in Procs, Handle(p)
    PROVE  /\ phase[p] # "unborn" /\ StartsUnknown
           /\ \/ registry' = registry
              \/ registry'[Name] = NoRecord
              \/ registry'[Name] = Record(p)
<1>1. registry \in Registries /\ Record(p) \in Records
  BY DEF MigrationTypeOK, Registries, Record, Records
<1> DEFINE Written == registry' = registry \/ registry'[Name] = NoRecord \/ registry'[Name] = Record(p)
<1>2. Written
  BY <1>1, RegisterAdds, EndpointWrites, EraseName
     DEF Handle, HandleRegister, HandleEndpoint, HandleDFRegister, HandleDeregister,
         HandleDFDeregister
<1>3. phase[p] # "unborn"
  BY DEF Handle, HandleRegister, HandleEndpoint, HandleDFRegister, HandleDeregister,
         HandleDFDeregister, KnownInv, Calls
<1>4. StartsUnknown
  BY <1>3 DEF Handle, HandleRegister, HandleEndpoint, HandleDFRegister, HandleDeregister,
         HandleDFDeregister, StartsUnknown, Exists, MigrationTypeOK, Goes, Calls
<1>5. QED
  BY <1>2, <1>3, <1>4

\* A step that leaves what is said of a process as it is keeps Truthful.
LEMMA SameProcess ==
    ASSUME NEW p \in Procs, Truthful(p), UNCHANGED <<step, cmd, target, awaited>>,
           Ordered(p)' = Ordered(p), Sent(p)' \subseteq Sent(p), Obeys(p)' <=> Obeys(p),
           p \notin disturbed' => p \notin disturbed, clean' /\ OnP(p) => clean,
           Exists(p)' /\ (Listed(p) \/ OnP(p)) => Exists(p),
           Listed(p)' => Listed(p) /\ registry'[Name].state = registry[Name].state
    PROVE  Truthful(p)'
<1>1. (OnP(p)' <=> OnP(p)) /\ (WorksOn(p)' <=> WorksOn(p)) /\ (OneSignal(p) => OneSignal(p)')
  BY DEF OnP, WorksOn, OneSignal
<1>2. InStep(p) => InStep(p)'
  BY <1>1 DEF InStep
<1>3. Uncrossed(p) /\ OnP(p) => Uncrossed(p)'
  BY <1>1 DEF Uncrossed, Pending
<1>4. QED
  BY <1>1, <1>2, <1>3 DEF Truthful

\* What starts is not known yet.
LEMMA StartedBefore ==
    ASSUME KnownInv, StartsUnknown, NEW p \in Procs
    PROVE  Exists(p)' /\ (Listed(p) \/ OnP(p)) => Exists(p)
  BY DEF KnownInv, StartsUnknown

\* Steps that leave the registry and the manager alone keep KnownInv.
LEMMA QuietKeepsKnown ==
    ASSUME KnownInv, registry' = registry, StartsUnknown,
           UNCHANGED <<step, cmd, target, awaited>>
    PROVE  KnownInv'
  BY DEF KnownInv, StartsUnknown, Listed, OnP

\* If they leave the signals and runingThred alone as well, but for one process
\* that they put out of step, they keep TruthInv.
LEMMA QuietKeepsTruth ==
    ASSUME KnownInv, TruthInv, registry' = registry, StartsUnknown,
           UNCHANGED <<step, cmd, target, awaited, orders>>,
           \A p \in Procs : Sent(p)' = Sent(p),
           NEW q \in Procs, suspended \ {q} = suspended' \ {q},
           Crosses(q)
    PROVE  KnownInv' /\ TruthInv'
<1>1. KnownInv'
  BY QuietKeepsKnown
<1>2. ASSUME NEW p \in Procs PROVE Truthful(p)'
  <2>1. /\ Truthful(p) /\ (Listed(p)' <=> Listed(p)) /\ Ordered(p)' = Ordered(p) /\ (OnP(p)' <=> OnP(p))
        /\ (Exists(p)' /\ (Listed(p) \/ OnP(p)) => Exists(p))
    BY StartedBefore DEF TruthInv, Listed, Ordered, OnP
  <2>2. /\ p \notin disturbed' => p \notin disturbed
        /\ clean' => clean
    BY DEF Crosses, doubts
  <2>3. CASE p \in suspended' <=> p \in suspended
    <3>1. Obeys(p)' <=> Obeys(p)
      BY <2>3 DEF Obeys
    <3>2. QED
      BY <2>1, <2>2, <3>1, SameProcess
  <2>4. CASE ~(p \in suspended' <=> p \in suspended)
    <3>1. p = q /\ suspended' # suspended
      BY <2>4
    <3>2. p \in disturbed' /\ ~(clean' /\ OnP(p))
      BY <3>1 DEF Crosses
    <3>3. QED
      BY <2>1, <3>2 DEF Truthful
  <2>5. QED
    BY <2>3, <2>4
<1>3. QED
  BY <1>1, <1>2 DEF TruthInv

\* A step of the master keeps both: the "active" record it writes is of a process
\* that runs and has nothing to handle, or the process is out of step.
LEMMA MasterKeepsTruth ==
    ASSUME TypeInv, KnownInv, TruthInv, NEW q \in Procs, MasterStep(q)
    PROVE  KnownInv' /\ TruthInv'
<1>1. /\ Handle(q)
      /\ UNCHANGED <<step, cmd, target, orders, awaited, signals, suspended, clean>>
      /\ disturbed' = IF registry' = registry \/ registry'[Name] = NoRecord THEN disturbed
                      ELSE IF q \in suspended \/ Pending(q) THEN disturbed \cup {q}
                      ELSE disturbed \ {q}
  BY DEF MasterStep, mgrVars
<1>2. /\ phase[q] # "unborn" /\ StartsUnknown
      /\ \/ registry' = registry
         \/ registry'[Name] = NoRecord
         \/ registry'[Name] = Record(q)
  BY <1>1, MasterWrites DEF TypeInv
<1>3. ASSUME NEW p \in Procs
      PROVE  /\ Truthful(p) /\ Ordered(p)' = Ordered(p) /\ Sent(p)' = Sent(p)
             /\ (Obeys(p)' <=> Obeys(p)) /\ (OnP(p)' <=> OnP(p)) /\ (WorksOn(p)' <=> WorksOn(p))
             /\ (OneSignal(p)' <=> OneSignal(p)) /\ (Pending(p)' <=> Pending(p))
             /\ (Exists(p)' /\ (Listed(p) \/ OnP(p)) => Exists(p))
  BY <1>1, <1>2, StartedBefore
     DEF TruthInv, Ordered, Sent, Obeys, OnP, WorksOn, OneSignal, Pending
<1>4. CASE registry' = registry \/ registry'[Name] = NoRecord
  <2>1. \A p \in Procs : Listed(p)' => Listed(p) /\ registry'[Name].state = registry[Name].state
    BY <1>4 DEF Listed
  <2>2. KnownInv'
    BY <1>1, <1>2, <2>1, <1>3 DEF KnownInv, StartsUnknown
  <2>3. \A p \in Procs : Truthful(p)'
    BY <1>1, <1>3, <1>4, <2>1, SameProcess
  <2>4. QED
    BY <2>2, <2>3 DEF TruthInv
<1>5. CASE registry'[Name] = Record(q) /\ registry' # registry /\ registry'[Name] # NoRecord
  <2>1. /\ \A p \in Procs : Listed(p)' => p = q
        /\ registry'[Name].state = "active"
    BY <1>5 DEF Listed, Record
  <2>2. KnownInv'
    BY <1>1, <1>2, <2>1, <1>3 DEF KnownInv, StartsUnknown
  <2>3. ASSUME NEW p \in Procs, p # q PROVE Truthful(p)'
    BY <1>1, <1>3, <1>5, <2>1, <2>3, SameProcess
  <2>4. Truthful(q)'
    <3>1. clean' /\ OnP(q)' => Uncrossed(q)'
      BY <1>1, <1>3 DEF Truthful, Uncrossed
    <3>2. CASE q \in disturbed'
      BY <3>1, <3>2 DEF Truthful
    <3>3. CASE q \notin disturbed'
      <4>1. q \notin suspended /\ ~Pending(q)
        BY <1>1, <1>5, <3>3
      <4>2. Ordered(q)' = {} /\ Sent(q)' = {} /\ ~Obeys(q)'
        BY <1>1, <1>3, <4>1 DEF Pending, Obeys
      <4>3. InStep(q)'
        BY <2>1, <4>2 DEF InStep, OneSignal
      <4>4. QED
        BY <3>1, <4>3 DEF Truthful
    <3>4. QED
      BY <3>2, <3>3
  <2>5. QED
    BY <2>2, <2>3, <2>4 DEF TruthInv
<1>6. QED
  BY <1>2, <1>4, <1>5

\* A signal that is handled makes the process what it would obey, if it is the
\* only one.
LEMMA SignalKeepsTruth ==
    ASSUME TypeInv, KnownInv, TruthInv, NEW o \in Orders, SignalHandled(o)
    PROVE  KnownInv' /\ TruthInv'
<1>1. /\ UNCHANGED <<registry, requests, phase, step, cmd, target, orders, awaited, clean, disturbed>>
      /\ o \in signals /\ signals' = signals \ {o} /\ o.cmd \in {"SUSPEND", "WAKE"} /\ o.pid \in Procs
      /\ suspended' = IF o.cmd = "SUSPEND" THEN suspended \cup {o.pid} ELSE suspended \ {o.pid}
  BY DEF SignalHandled, migrationVars, masterVars, doubts, Orders, Commands
<1>2. registry' = registry /\ StartsUnknown
  BY <1>1 DEF StartsUnknown, Exists
<1>3. KnownInv'
  BY <1>1, <1>2, QuietKeepsKnown
<1>4. ASSUME NEW p \in Procs
      PROVE  /\ Truthful(p) /\ Ordered(p)' = Ordered(p) /\ Sent(p)' = Sent(p) \ {o}
             /\ (Listed(p)' <=> Listed(p)) /\ (OnP(p)' <=> OnP(p)) /\ (WorksOn(p)' <=> WorksOn(p))
             /\ (Exists(p)' <=> Exists(p))
  BY <1>1 DEF TruthInv, Ordered, Sent, Listed, OnP, WorksOn, Exists
<1>5. ASSUME NEW p \in Procs, p # o.pid PROVE Truthful(p)'
  <2>1. Sent(p)' = Sent(p) /\ (Obeys(p)' <=> Obeys(p))
    BY <1>1, <1>4, <1>5 DEF Sent, Obeys
  <2>2. QED
    BY <1>1, <1>4, <2>1, SameProcess
<1>6. ASSUME NEW p \in Procs, p = o.pid PROVE Truthful(p)'
  <2>1. o \in Sent(p)
    BY <1>1, <1>6 DEF Sent
  <2>2. CASE OneSignal(p)
    <3>1. Sent(p)' = {} /\ Sent(p) = {o}
      BY <1>4, <2>1, <2>2 DEF OneSignal
    <3>2. p \in suspended' <=> o.cmd = "SUSPEND"
      BY <1>1, <1>6
    <3>3. Obeys(p)' <=> Obeys(p)
      BY <3>1, <3>2 DEF Obeys
    <3>4. QED
      BY <1>1, <1>4, <3>1, <3>3, SameProcess
  <2>3. CASE ~OneSignal(p)
    <3>1. ~(p \notin disturbed /\ ~WorksOn(p))
      BY <1>4, <2>3 DEF Truthful, InStep
    <3>2. clean /\ OnP(p) => step \notin {"connect", "SETSTATE"} /\ ~(step = "read" /\ cmd # "KILL")
      BY <1>4, <2>1, <2>3 DEF Truthful, Uncrossed, Pending
    <3>3. QED
      BY <1>1, <1>4, <3>1, <3>2 DEF Truthful, Uncrossed
  <2>4. QED
    BY <2>2, <2>3
<1>7. QED
  BY <1>3, <1>5, <1>6 DEF TruthInv

\* Both are invariants.
LEMMA TruthInvariant == Spec => [](KnownInv /\ TruthInv)
<1>1. Init => KnownInv /\ TruthInv
  BY FirstIsAProc DEF Init, MigrationInit, KnownInv, TruthInv, Truthful, InStep, OneSignal,
         Ordered, Sent, Listed, OnP, Calls
<1>2. TypeInv /\ CopyInv /\ KnownInv /\ TruthInv /\ [Next]_vars => KnownInv' /\ TruthInv'
  <2> SUFFICES ASSUME TypeInv, CopyInv, KnownInv, TruthInv, [Next]_vars
               PROVE  KnownInv' /\ TruthInv'
    OBVIOUS
  <2>1. CASE Lookup
    <3>1. /\ UNCHANGED <<registry, requests, phase, orders, awaited, signals, suspended, disturbed>>
          /\ step = "idle" /\ step' \in {"idle", "connect"}
          /\ step' = "connect" => Listed(target'.pid) /\ clean' = ~Pending(target'.pid)
      BY <2>1 DEF Lookup, migrationVars, masterVars, Listed
    <3>2. KnownInv'
      BY <3>1 DEF KnownInv, Listed, OnP
    <3>3. ASSUME NEW p \in Procs PROVE Truthful(p)'
      <4>1. /\ Truthful(p) /\ ~WorksOn(p) /\ ~WorksOn(p)'
            /\ (InStep(p)' <=> InStep(p)) /\ (Pending(p)' <=> Pending(p))
        BY <3>1 DEF TruthInv, WorksOn, OnP, InStep, OneSignal, Obeys, Listed, Exists, Ordered, Sent,
               Pending
      <4>2. clean' /\ OnP(p)' => step' = "connect" /\ ~Pending(p)
        BY <3>1 DEF OnP
      <4>3. QED
        BY <3>1, <4>1, <4>2 DEF Truthful, Uncrossed
    <3>4. QED
      BY <3>2, <3>3 DEF TruthInv
  <2>2. CASE SendOrder
    <3>1. /\ UNCHANGED <<registry, requests, phase, cmd, target, signals, suspended, clean, disturbed>>
          /\ step = "connect" /\ step' = "read" /\ cmd \in Commands
          /\ awaited'.cmd = cmd /\ awaited'.pid = target.pid /\ orders' = orders \cup {awaited'}
      BY <2>2 DEF SendOrder, migrationVars, masterVars, doubts, TypeInv, ManagerTypes
    <3>2. KnownInv'
      BY <3>1 DEF KnownInv, Listed, OnP
    <3>3. ASSUME NEW p \in Procs PROVE Truthful(p)'
      <4>1. /\ Truthful(p) /\ (OnP(p)' <=> OnP(p)) /\ Sent(p)' = Sent(p) /\ (Obeys(p)' <=> Obeys(p))
            /\ ~WorksOn(p) /\ (WorksOn(p)' <=> OnP(p) /\ cmd # "KILL")
            /\ Ordered(p)' = IF WorksOn(p)' THEN Ordered(p) \cup {awaited'} ELSE Ordered(p)
        BY <3>1 DEF TruthInv, WorksOn, OnP, Ordered, Sent, Obeys
      <4>2. ~WorksOn(p)' => (InStep(p)' <=> InStep(p))
        BY <3>1, <4>1 DEF InStep, OneSignal, Listed, Exists
      <4>3. Uncrossed(p) => Uncrossed(p)'
        BY <3>1, <4>1 DEF Uncrossed, Pending
      <4>4. QED
        BY <3>1, <4>1, <4>2, <4>3 DEF Truthful
    <3>4. QED
      BY <3>2, <3>3 DEF TruthInv
  <2>3. CASE Unreachable \/ ReadTimesOut
    <3>1. /\ UNCHANGED <<registry, requests, phase, orders, signals, suspended, clean>>
          /\ step' = "idle" /\ disturbed \subseteq disturbed'
          /\ \A p \in Procs : p \notin disturbed' => ~WorksOn(p)
      BY <2>3 DEF Unreachable, ReadTimesOut, CommandEnds, migrationVars, masterVars, doubts, WorksOn,
             OnP, TruthInv, Truthful
    <3>2. KnownInv'
      BY <3>1 DEF KnownInv, Listed, OnP
    <3>3. ASSUME NEW p \in Procs PROVE Truthful(p)'
      <4>1. /\ Truthful(p) /\ ~OnP(p)' /\ ~WorksOn(p)' /\ (InStep(p)' <=> InStep(p))
        BY <3>1 DEF TruthInv, WorksOn, OnP, InStep, OneSignal, Obeys, Listed, Exists, Ordered, Sent
      <4>2. QED
        BY <3>1, <4>1 DEF Truthful
    <3>4. QED
      BY <3>2, <3>3 DEF TruthInv
  <2>4. CASE SetState
    <3>1. /\ UNCHANGED <<requests, phase, orders, signals, suspended, clean>>
          /\ step = "SETSTATE" /\ step' = "idle" /\ cmd \in {"SUSPEND", "WAKE"}
          /\ registry' = A!setState(registry, Name, IF cmd = "SUSPEND" THEN "suspended" ELSE "active")
          /\ disturbed' = IF clean /\ Listed(target.pid) THEN disturbed \ {target.pid}
                          ELSE disturbed \cup {p \in Procs : p = target.pid \/ Listed(p)}
      BY <2>4 DEF SetState, Settles, CommandEnds, KnownInv, TypeInv, ManagerTypes, Commands
    <3>2. /\ registry[Name] = NoRecord => registry' = registry
          /\ registry[Name] # NoRecord =>
                /\ registry'[Name].pid = registry[Name].pid
                /\ registry'[Name].state = IF cmd = "SUSPEND" THEN "suspended" ELSE "active"
      BY <3>1, SetStateKeeps DEF TypeInv, MigrationTypeOK, Registries
    <3>3. \A p \in Procs : Listed(p)' => Listed(p)
      BY <3>2 DEF Listed
    <3>4. KnownInv'
      BY <3>1, <3>3 DEF KnownInv, OnP
    <3>5. ASSUME NEW p \in Procs PROVE Truthful(p)'
      <4>1. /\ Truthful(p) /\ ~OnP(p)' /\ ~WorksOn(p)' /\ Ordered(p)' = Ordered(p) /\ Sent(p)' = Sent(p)
            /\ (Obeys(p)' <=> Obeys(p)) /\ (Exists(p)' <=> Exists(p))
            /\ (OneSignal(p)' <=> OneSignal(p))
        BY <3>1 DEF TruthInv, WorksOn, OnP, OneSignal, Obeys, Exists, Ordered, Sent
      <4>2. CASE p \in disturbed'
        BY <4>1, <4>2 DEF Truthful
      <4>3. CASE p \notin disturbed' /\ p = target.pid
        <5>1. clean /\ Listed(p) /\ OnP(p)
          BY <3>1, <4>3 DEF OnP
        <5>2. Ordered(p) = {} /\ OneSignal(p) /\ (Exists(p) => (Obeys(p) <=> cmd = "SUSPEND"))
          BY <3>1, <4>1, <5>1 DEF Truthful, Uncrossed
        <5>3. registry'[Name].state = "suspended" <=> cmd = "SUSPEND"
          BY <3>2, <5>1 DEF Listed
        <5>4. QED
          BY <4>1, <5>2, <5>3 DEF Truthful, InStep
      <4>4. CASE p \notin disturbed' /\ p # target.pid
        <5>1. p \notin disturbed /\ ~WorksOn(p)
          BY <3>1, <4>4 DEF WorksOn, OnP
        <5>2. ~Listed(p)
          BY <3>1, <4>4 DEF Listed
        <5>3. QED
          BY <3>3, <4>1, <5>1, <5>2 DEF Truthful, InStep
      <4>5. QED
        BY <4>2, <4>3, <4>4
    <3>6. QED
      BY <3>4, <3>5 DEF TruthInv
  <2>5. ASSUME NEW o \in Orders, HandleControl(o) PROVE KnownInv' /\ TruthInv'
    <3>1. /\ UNCHANGED <<registry, requests, phase, suspended, clean, disturbed>>
          /\ o \in orders /\ orders' = orders \ {o} /\ o.pid \in Procs /\ o.cmd \in Commands
          /\ signals' = IF Exists(o.pid) THEN signals \cup {o} ELSE signals
      BY <2>5 DEF HandleControl, migrationVars, masterVars, Orders, doubts
    <3>2. \/ awaited # o /\ UNCHANGED <<step, cmd, target, awaited>>
          \/ awaited = o /\ cmd = "KILL" /\ step' = "idle"
          \/ awaited = o /\ cmd # "KILL" /\ step' = "SETSTATE" /\ UNCHANGED <<cmd, target>>
      BY <2>5 DEF HandleControl, CommandEnds
    <3>3. awaited = o => step = "read" /\ cmd = o.cmd /\ target.pid = o.pid
      <4>1. awaited = o => step = "read"
        BY <3>1 DEF TypeInv, ManagerTypes, NoOrder, Commands
      <4>2. QED
        BY <4>1 DEF KnownInv
    <3>4. KnownInv'
      BY <3>1, <3>2, <3>3 DEF KnownInv, Listed, OnP
    <3>5. ASSUME NEW p \in Procs PROVE Truthful(p)'
      <4>1. /\ Truthful(p) /\ (Listed(p)' <=> Listed(p)) /\ (Exists(p)' <=> Exists(p))
            /\ Ordered(p)' = Ordered(p) \ {o}
        BY <3>1 DEF TruthInv, Listed, Exists, Ordered
      <4>2. CASE o.pid # p \/ o.cmd = "KILL"
        <5>1. Ordered(p)' = Ordered(p) /\ Sent(p)' = Sent(p) /\ (Obeys(p)' <=> Obeys(p))
          BY <3>1, <4>2 DEF Ordered, Sent, Obeys
        <5>2. (WorksOn(p)' <=> WorksOn(p)) /\ (OnP(p)' => OnP(p) /\ UNCHANGED <<step, cmd, awaited>>)
          BY <3>2, <3>3, <4>2 DEF OnP, WorksOn
        <5>3. (InStep(p)' <=> InStep(p)) /\ (OnP(p)' /\ Uncrossed(p) => Uncrossed(p)')
          BY <3>1, <4>1, <5>1, <5>2 DEF InStep, Uncrossed, OneSignal, Pending
        <5>4. QED
          BY <3>1, <4>1, <5>2, <5>3 DEF Truthful
      <4>3. CASE o.pid = p /\ o.cmd # "KILL"
        <5>1. o \in Ordered(p)
          BY <3>1, <4>3 DEF Ordered
        <5>2. p \in disturbed \/ WorksOn(p)
          BY <4>1, <5>1 DEF Truthful, InStep
        <5>3. WorksOn(p) => WorksOn(p)' /\ OnP(p)
          BY <3>2, <3>3 DEF WorksOn, OnP
        <5>4. ASSUME clean, OnP(p)' PROVE Uncrossed(p)'
          <6>1. OnP(p)
            BY <3>2, <3>3, <5>4 DEF OnP
          <6>2. step \notin {"connect", "SETSTATE"}
            BY <4>1, <5>1, <5>4, <6>1 DEF Truthful, Uncrossed, Pending
          <6>3. CASE awaited # o
            <7>1. step = "read" => cmd = "KILL"
              BY <4>1, <5>1, <5>4, <6>1, <6>3 DEF Truthful, Uncrossed
            <7>2. QED
              BY <3>2, <6>2, <6>3, <7>1 DEF Uncrossed
          <6>4. CASE awaited = o
            <7>1. Sent(p) = {} /\ Ordered(p) \subseteq {o} /\ cmd = o.cmd /\ step' = "SETSTATE" /\ cmd' = cmd
              BY <3>2, <3>3, <4>1, <4>3, <5>4, <6>1, <6>4 DEF Truthful, Uncrossed
            <7>2. Ordered(p)' = {} /\ Sent(p)' = IF Exists(p) THEN {o} ELSE {}
              BY <3>1, <4>1, <4>3, <7>1 DEF Sent
            <7>3. OneSignal(p)' /\ (Exists(p)' => (Obeys(p)' <=> cmd' = "SUSPEND"))
              BY <4>1, <7>1, <7>2 DEF OneSignal, Obeys
            <7>4. QED
              BY <7>1, <7>2, <7>3 DEF Uncrossed
          <6>5. QED
            BY <6>3, <6>4
        <5>5. QED
          BY <3>1, <5>2, <5>3, <5>4 DEF Truthful
      <4>4. QED
        BY <4>2, <4>3
    <3>6. QED
      BY <3>4, <3>5 DEF TruthInv
  <2>6. ASSUME NEW o \in Orders, KillHandled(o) PROVE KnownInv' /\ TruthInv'
    <3>1. /\ QuietStep /\ o.cmd = "KILL" /\ o.pid \in Procs /\ signals' = signals \ {o}
          /\ UNCHANGED <<step, cmd, target, orders, awaited, suspended, clean, disturbed>>
      BY <2>6 DEF KillHandled, QuietStep, Orders, doubts
    <3>2. registry' = registry /\ StartsUnknown
      BY <3>1, QuietLeavesRegistry DEF TypeInv
    <3>3. \A p \in Procs : Sent(p)' = Sent(p)
      BY <3>1 DEF Sent
    <3>4. Crosses(o.pid)
      BY <3>1 DEF Crosses, doubts
    <3>5. QED
      BY <3>1, <3>2, <3>3, <3>4, QuietKeepsTruth
  <2>7. ASSUME NEW p \in Procs, MasterStep(p) PROVE KnownInv' /\ TruthInv'
    BY <2>7, MasterKeepsTruth
  <2>8. ASSUME NEW p \in Procs, ResumeStep(p) \/ SelfPosts(p) PROVE KnownInv' /\ TruthInv'
    <3>1. /\ UNCHANGED <<step, cmd, target, orders, awaited, signals>>
          /\ suspended \ {p} = suspended' \ {p} /\ Crosses(p)
      BY <2>8 DEF ResumeStep, SelfPosts, mgrVars
    <3>2. registry' = registry /\ StartsUnknown
      <4>1. CASE ResumeStep(p)
        BY <4>1, QuietLeavesRegistry DEF ResumeStep, QuietStep, TypeInv
      <4>2. CASE SelfPosts(p)
        BY <4>2 DEF SelfPosts, masterVars, StartsUnknown, Exists
      <4>3. QED
        BY <2>8, <4>1, <4>2
    <3>3. \A q \in Procs : Sent(q)' = Sent(q)
      BY <3>1 DEF Sent
    <3>4. QED
      BY <3>1, <3>2, <3>3, QuietKeepsTruth
  <2>9. ASSUME NEW o \in Orders, SignalHandled(o) PROVE KnownInv' /\ TruthInv'
    BY <2>9, SignalKeepsTruth
  <2>10. CASE OtherStep \/ UNCHANGED vars
    <3>1. /\ QuietStep \/ UNCHANGED <<registry, requests, phase>>
          /\ UNCHANGED <<step, cmd, target, orders, awaited, signals, suspended, clean, disturbed>>
      BY <2>10 DEF OtherStep, ServerStep, mgrVars, QuietStep, doubts, vars, migrationVars, masterVars
    <3>2. registry' = registry /\ StartsUnknown
      BY <3>1, QuietLeavesRegistry DEF TypeInv, StartsUnknown, Exists
    <3>3. Crosses(First) /\ \A p \in Procs : Sent(p)' = Sent(p)
      BY <3>1 DEF Crosses, doubts, Sent
    <3>4. QED
      BY <3>1, <3>2, <3>3, FirstIsAProc, QuietKeepsTruth
  <2>11. QED
    BY <2>1, <2>2, <2>3, <2>4, <2>5, <2>6, <2>7, <2>8, <2>9, <2>10 DEF Next, ManagerStep
<1>3. QED
  BY <1>1, <1>2, TypeInvariant, CopyInvariant, PTL DEF Spec

\* cmd_suspend and cmd_wake in a cluster: the state that the AMS records of a
\* running agent is the one its process is in, once nothing is on the way to it,
\* unless one of the listed causes has put the two out of step since the last
\* command that nothing crossed; for any number of processes, migrations, calls
\* of the agent and commands.
THEOREM RemoteStateIsTruthfulAlways == Spec => []RemoteStateIsTruthful
<1>1. TruthInv => RemoteStateIsTruthful
  BY DEF TruthInv, Truthful, InStep, WorksOn, RemoteStateIsTruthful, Obeys, Exists, Pending
<1>2. QED
  BY <1>1, TruthInvariant, PTL
=============================================================================
