------------------------ MODULE LocalPlatformProofs ------------------------
(***************************************************************************)
(* Machine-checked proofs about LocalPlatform, for any number of           *)
(* processes, names, managers and commands.                                *)
(***************************************************************************)
EXTENDS LocalPlatform, TLAPS

Registries == [Names -> Records \cup {NoRecord}]

-----------------------------------------------------------------------------
(* The operations of the registry                                          *)

\* AMS::registerAgent adds the record under a free name and changes nothing
\* else.
LEMMA RegisterAdds ==
    ASSUME NEW reg \in Registries, NEW rec \in Records
    PROVE  /\ A!registerAgent(reg, rec) \in Registries
           /\ \A n \in Names : A!registerAgent(reg, rec)[n] =
                 IF n = rec.name /\ reg[n] = NoRecord THEN rec ELSE reg[n]
  BY DEF A!registerAgent, Registries, Records

\* AMS::registerEndpoint writes the record under its name and nothing else.
LEMMA EndpointWrites ==
    ASSUME NEW reg \in Registries, NEW rec \in Records
    PROVE  /\ A!registerEndpoint(reg, rec) \in Registries
           /\ \A n \in Names : A!registerEndpoint(reg, rec)[n] =
                 IF n = rec.name THEN rec ELSE reg[n]
  BY DEF A!registerEndpoint, Registries, Records

\* AMS::deregisterAgent erases that name and no other.
LEMMA EraseName ==
    ASSUME NEW reg \in Registries, NEW name \in Names
    PROVE  /\ A!deregisterAgent(reg, name) \in Registries
           /\ \A n \in Names : A!deregisterAgent(reg, name)[n] =
                 IF n = name THEN NoRecord ELSE reg[n]
  BY DEF A!deregisterAgent, Registries

\* LIST erases the local records of dead processes and no others.
LEMMA PurgeErases ==
    ASSUME NEW reg \in Registries, NEW dead
    PROVE  /\ A!purgeDead(reg, dead) \in Registries
           /\ \A n \in Names : A!purgeDead(reg, dead)[n] =
                 IF A!FoundDead(reg[n], dead) THEN NoRecord ELSE reg[n]
  BY DEF A!purgeDead, A!Erase, A!Listed, A!FoundDead, Registries

\* AMS::setState changes no name and no pid, and creates no record.
LEMMA SetStateKeeps ==
    ASSUME NEW reg \in Registries, NEW name \in Names, NEW st \in {"active", "suspended"}
    PROVE  /\ A!setState(reg, name, st) \in Registries
           /\ \A n \in Names :
                 /\ A!setState(reg, name, st)[n] = NoRecord <=> reg[n] = NoRecord
                 /\ reg[n] # NoRecord =>
                       /\ A!setState(reg, name, st)[n].pid = reg[n].pid
                       /\ A!setState(reg, name, st)[n].name = reg[n].name
  BY NoRecordIsNone DEF A!setState, Registries, Records

\* What a process sends to the AMS and to the DF is a record and a service.
LEMMA RecordTyped ==
    ASSUME NEW p \in Procs
    PROVE  Record(p) \in Records /\ Service(p) \in Services
  BY NameOfIsTotal DEF Record, Service, Records, Services

-----------------------------------------------------------------------------
(* Types                                                                   *)

\* A manager past its LOOKUP holds a record: without that, TypeOK is not
\* inductive.
TypeInv ==
    /\ TypeOK
    /\ \A m \in Managers : step[m] \in {"signal", "SETSTATE"} => target[m] # NoRecord

\* Every step preserves TypeInv.
LEMMA TypeStep == TypeInv /\ [Next]_vars => TypeInv'
<1> SUFFICES ASSUME TypeInv, [Next]_vars PROVE TypeInv'
  OBVIOUS
<1> USE DEF TypeInv, TypeOK, Registries, Phases, Calls, Steps, Commands, procVars, mgrVars
<1>1. ASSUME NEW p \in Procs, Start(p) PROVE TypeInv'
  BY <1>1 DEF Start, Call
<1>2. ASSUME NEW p \in Procs, Advertise(p) PROVE TypeInv'
  BY <1>2 DEF Advertise, Call
<1>3. ASSUME NEW p \in Procs, Bind(p) PROVE TypeInv'
  BY <1>3 DEF Bind, Call
<1>4. ASSUME NEW p \in Procs, Unlink(p) PROVE TypeInv'
  BY <1>4 DEF Unlink, Call
<1>5. ASSUME NEW p \in Procs, Stop(p) PROVE TypeInv'
  BY <1>5 DEF Stop, Call
<1>6. ASSUME NEW p \in Procs, Crash(p) PROVE TypeInv'
  BY <1>6 DEF Crash, Alive
<1>7. ASSUME NEW p \in Procs, HandleRegister(p) PROVE TypeInv'
  BY <1>7, RegisterAdds, RecordTyped DEF HandleRegister, Handled, Waits, A!Accepts
<1>8. ASSUME NEW p \in Procs, HandleEndpoint(p) PROVE TypeInv'
  BY <1>8, EndpointWrites, RecordTyped DEF HandleEndpoint, Handled, Waits
<1>9. ASSUME NEW p \in Procs, HandleUnlink(p) PROVE TypeInv'
  BY <1>9, EraseName, NameOfIsTotal DEF HandleUnlink, Handled, Waits
<1>10. ASSUME NEW p \in Procs, HandleDeregister(p) PROVE TypeInv'
  BY <1>10, EraseName, NameOfIsTotal DEF HandleDeregister, Handled, Waits
<1>11. ASSUME NEW p \in Procs, HandleDFRegister(p) PROVE TypeInv'
  BY <1>11, RecordTyped DEF HandleDFRegister, Handled, Waits, D!registerService
<1>12. ASSUME NEW p \in Procs, HandleDFDeregister(p) PROVE TypeInv'
  BY <1>12 DEF HandleDFDeregister, Handled, Waits, D!deregisterAgent
<1>13. CASE List
  BY <1>13, PurgeErases DEF List
<1>14. CASE Search
  BY <1>14 DEF Search, D!purgeDead
<1>15. ASSUME NEW m \in Managers, LookupReads(m) PROVE TypeInv'
  BY <1>15, MaxCommandsIsNat DEF LookupReads
<1>16. ASSUME NEW m \in Managers, LookupDrops(m) PROVE TypeInv'
  BY <1>16, EraseName DEF LookupDrops, A!FoundDead, Records
<1>17. ASSUME NEW m \in Managers, LookupReplies(m) PROVE TypeInv'
  BY <1>17 DEF LookupReplies
<1>18. ASSUME NEW m \in Managers, SendSignal(m) PROVE TypeInv'
  <2>1. target[m].pid \in Procs
    BY <1>18 DEF SendSignal, Records
  <2>2. CASE Alive(target[m].pid)
    BY <1>18, <2>1, <2>2 DEF SendSignal
  <2>3. CASE ~Alive(target[m].pid)
    BY <1>18, <2>3 DEF SendSignal
  <2>4. QED
    BY <2>2, <2>3
<1>19. ASSUME NEW m \in Managers, SetState(m) PROVE TypeInv'
  BY <1>19, SetStateKeeps DEF SetState, Records
<1>20. CASE UNCHANGED vars
  BY <1>20 DEF vars, procVars, mgrVars
<1>21. QED
  BY <1>1, <1>2, <1>3, <1>4, <1>5, <1>6, <1>7, <1>8, <1>9, <1>10, <1>11,
     <1>12, <1>13, <1>14, <1>15, <1>16, <1>17, <1>18, <1>19, <1>20
     DEF Next, ProcStep, Handle, ManagerStep

\* TypeInv is an invariant.
LEMMA TypeInvariant == Spec => []TypeInv
<1>1. Init => TypeInv
  BY MaxCommandsIsNat DEF Init, TypeInv, TypeOK, Phases, Calls, Steps, Commands
<1>2. QED
  BY <1>1, TypeStep, PTL DEF Spec

\* Every variable keeps its type.
THEOREM TypeCorrect == Spec => []TypeOK
<1>1. TypeInv => TypeOK
  BY DEF TypeInv
<1>2. QED
  BY <1>1, TypeInvariant, PTL

-----------------------------------------------------------------------------
(* Requests                                                                *)

\* A request that outlives its call is of a dead process, only Binders bind,
\* and no process is active before its registration is answered.
RequestsInv ==
    /\ \A p \in Procs, c \in Calls : <<c, p>> \in requests => phase[p] \in {c, "gone"}
    /\ \A p \in Procs : phase[p] = "REGISTER_ENDPOINT" => p \in Binders
    /\ \A p \in Procs : phase[p] \in {"unborn", "REGISTER"} => p \notin active

\* A process that waits for nothing makes a call.
LEMMA CallKeepsRequests ==
    ASSUME TypeOK, RequestsInv, NEW p \in Procs, NEW c \in Calls, Call(c, p), UNCHANGED active,
           phase[p] \in {"unborn", "run", "takeDown"},
           c = "REGISTER" => phase[p] = "unborn",
           c = "REGISTER_ENDPOINT" => p \in Binders
    PROVE  RequestsInv'
<1>1. phase' = [phase EXCEPT ![p] = c] /\ requests' = requests \cup {<<c, p>>}
  BY DEF Call
<1>2. phase \in [Procs -> Phases]
  BY DEF TypeOK
<1>3. ASSUME NEW q \in Procs, NEW d \in Calls, <<d, q>> \in requests'
      PROVE  phase'[q] \in {d, "gone"}
  <2>1. CASE <<d, q>> \in requests
    <3>1. phase[q] \in {d, "gone"}
      BY <2>1 DEF RequestsInv
    <3>2. q # p
      BY <3>1 DEF Calls
    <3>3. QED
      BY <1>1, <1>2, <3>1, <3>2
  <2>2. CASE <<d, q>> = <<c, p>>
    BY <1>1, <1>2, <2>2
  <2>3. QED
    BY <1>1, <1>3, <2>1, <2>2
<1>4. \A q \in Procs : phase'[q] = "REGISTER_ENDPOINT" => q \in Binders
  BY <1>1, <1>2 DEF RequestsInv
<1>5. \A q \in Procs : phase'[q] \in {"unborn", "REGISTER"} => q \notin active'
  BY <1>1, <1>2 DEF RequestsInv, Calls
<1>6. QED
  BY <1>3, <1>4, <1>5 DEF RequestsInv

\* The answer to a request of p, which p may no longer wait for.
LEMMA AnswerKeepsRequests ==
    ASSUME TypeOK, RequestsInv, NEW p \in Procs, NEW c \in Calls, NEW next,
           next \in {"run", "takeDown", "gone"},
           Handled(c, p),
           phase' = IF Waits(c, p) THEN [phase EXCEPT ![p] = next] ELSE phase,
           active' = active \/ (active' = active \cup {p} /\ Waits(c, p))
    PROVE  RequestsInv'
<1>1. phase \in [Procs -> Phases] /\ requests' = requests \ {<<c, p>>}
  BY DEF TypeOK, Handled
<1>2. ASSUME NEW q \in Procs, NEW d \in Calls, <<d, q>> \in requests'
      PROVE  phase'[q] \in {d, "gone"}
  <2>1. phase[q] \in {d, "gone"} /\ <<d, q>> # <<c, p>>
    BY <1>1, <1>2 DEF RequestsInv
  <2>2. CASE Waits(c, p) /\ q = p
    BY <2>1, <2>2 DEF Waits, Calls
  <2>3. CASE ~(Waits(c, p) /\ q = p)
    BY <1>1, <2>1, <2>3
  <2>4. QED
    BY <2>2, <2>3
<1>3. \A q \in Procs : phase'[q] = "REGISTER_ENDPOINT" => q \in Binders
  BY <1>1 DEF RequestsInv
<1>4. \A q \in Procs : phase'[q] \in {"unborn", "REGISTER"} => q \notin active'
  BY <1>1 DEF RequestsInv, Waits
<1>5. QED
  BY <1>2, <1>3, <1>4 DEF RequestsInv

\* RequestsInv is an invariant.
LEMMA RequestsInvariant == Spec => []RequestsInv
<1>1. Init => RequestsInv
  BY DEF Init, RequestsInv
<1>2. TypeOK /\ RequestsInv /\ [Next]_vars => RequestsInv'
  <2> SUFFICES ASSUME TypeOK, RequestsInv, [Next]_vars PROVE RequestsInv'
    OBVIOUS
  <2>1. ASSUME NEW p \in Procs, ProcStep(p) PROVE RequestsInv'
    <3>1. CASE Start(p)
      BY <3>1, CallKeepsRequests DEF Start, Calls
    <3>2. CASE Advertise(p)
      BY <3>2, CallKeepsRequests DEF Advertise, Calls
    <3>3. CASE Bind(p)
      BY <3>3, CallKeepsRequests DEF Bind, Calls
    <3>4. CASE Unlink(p)
      BY <3>4, CallKeepsRequests DEF Unlink, Calls
    <3>5. CASE Stop(p)
      BY <3>5, CallKeepsRequests DEF Stop, Calls
    <3>6. CASE Crash(p)
      BY <3>6 DEF Crash, RequestsInv, TypeOK
    <3>7. QED
      BY <2>1, <3>1, <3>2, <3>3, <3>4, <3>5, <3>6 DEF ProcStep
  <2>2. ASSUME NEW p \in Procs, Handle(p) PROVE RequestsInv'
    <3>1. CASE HandleRegister(p)
      <4>1. active' = active \/ (active' = active \cup {p} /\ Waits("REGISTER", p))
        BY <3>1 DEF HandleRegister
      <4>2. QED
        BY <3>1, <4>1, AnswerKeepsRequests DEF HandleRegister, Calls
    <3>2. CASE HandleEndpoint(p)
      BY <3>2, AnswerKeepsRequests DEF HandleEndpoint, Calls
    <3>3. CASE HandleUnlink(p)
      BY <3>3, AnswerKeepsRequests DEF HandleUnlink, Calls
    <3>4. CASE HandleDeregister(p) /\ Waits("DEREGISTER", p)
      <4>1. /\ phase' = [phase EXCEPT ![p] = "DF_DEREGISTER"]
            /\ requests' = (requests \ {<<"DEREGISTER", p>>}) \cup {<<"DF_DEREGISTER", p>>}
            /\ UNCHANGED active
        BY <3>4 DEF HandleDeregister
      <4>2. ASSUME NEW q \in Procs, NEW d \in Calls, <<d, q>> \in requests'
            PROVE  phase'[q] \in {d, "gone"}
        <5>1. CASE q = p
          BY <3>4, <4>1, <4>2, <5>1 DEF RequestsInv, Waits, TypeOK
        <5>2. CASE q # p
          BY <4>1, <4>2, <5>2 DEF RequestsInv, TypeOK
        <5>3. QED
          BY <5>1, <5>2
      <4>3. QED
        BY <4>1, <4>2 DEF RequestsInv, TypeOK
    <3>5. CASE HandleDeregister(p) /\ ~Waits("DEREGISTER", p)
      BY <3>5 DEF HandleDeregister, Handled, RequestsInv
    <3>6. CASE HandleDFRegister(p)
      BY <3>6, AnswerKeepsRequests DEF HandleDFRegister, Calls
    <3>7. CASE HandleDFDeregister(p)
      BY <3>7, AnswerKeepsRequests DEF HandleDFDeregister, Calls
    <3>8. QED
      BY <2>2, <3>1, <3>2, <3>3, <3>4, <3>5, <3>6, <3>7 DEF Handle
  <2>3. CASE UNCHANGED <<requests, phase, active>>
    BY <2>3 DEF RequestsInv
  <2>4. List \/ Search \/ UNCHANGED vars => UNCHANGED <<requests, phase, active>>
    BY DEF List, Search, procVars, vars
  <2>5. \A m \in Managers : LookupReads(m) \/ ManagerStep(m) => UNCHANGED <<requests, phase, active>>
    BY DEF LookupReads, ManagerStep, LookupDrops, LookupReplies, SendSignal, SetState, procVars
  <2>6. QED
    BY <2>1, <2>2, <2>3, <2>4, <2>5 DEF Next
<1>3. QED
  BY <1>1, <1>2, TypeCorrect, PTL DEF Spec

-----------------------------------------------------------------------------
(* Whose record it is                                                      *)

\* A record bears the name of the process it is of, and that process was
\* accepted, or binds a queue, or is dead; what a manager holds was a record.
Entitled(p) == p \in active \cup Binders \/ phase[p] = "gone"

OwnedRecord(n) ==
    registry[n] # NoRecord =>
        /\ registry[n].name = n
        /\ NameOf[registry[n].pid] = n
        /\ Entitled(registry[n].pid)

RecordsInv ==
    /\ \A n \in Names : OwnedRecord(n)
    /\ \A m \in Managers : target[m] # NoRecord => NameOf[target[m].pid] = target[m].name

\* What a step may do to the record of a name: keep it or its owner, erase it,
\* or write that of a process that is entitled to it.
KeepsOrErases(n) ==
    \/ registry'[n] = registry[n]
    \/ registry'[n] = NoRecord
    \/ /\ registry[n] # NoRecord
       /\ registry'[n].pid = registry[n].pid
       /\ registry'[n].name = registry[n].name

Writes(n) ==
    \E p \in Procs : n = NameOf[p] /\ registry'[n] = Record(p) /\ Entitled(p)'

\* No step takes an entitlement away.
Keeps == active \subseteq active' /\ \A p \in Procs : phase[p] = "gone" => phase'[p] = "gone"

\* Such steps preserve RecordsInv.
LEMMA RecordsStep ==
    ASSUME TypeOK, RecordsInv, Keeps,
           \A n \in Names : KeepsOrErases(n) \/ Writes(n),
           \A m \in Managers : target'[m] = target[m] \/ \E n \in Names : target'[m] = registry[n]
    PROVE  RecordsInv'
<1>1. \A n \in Names : registry[n] # NoRecord => registry[n].pid \in Procs
  BY DEF TypeOK, Records
<1>2. ASSUME NEW n \in Names, registry'[n] # NoRecord PROVE OwnedRecord(n)'
  <2>1. CASE KeepsOrErases(n)
    <3>1. /\ registry[n] # NoRecord
          /\ registry'[n].pid = registry[n].pid
          /\ registry'[n].name = registry[n].name
      BY <1>2, <2>1 DEF KeepsOrErases
    <3>2. registry[n].name = n /\ NameOf[registry[n].pid] = n /\ Entitled(registry[n].pid)
      BY <3>1 DEF RecordsInv, OwnedRecord
    <3>3. QED
      BY <1>1, <3>1, <3>2 DEF OwnedRecord, Entitled, Keeps
  <2>2. CASE Writes(n)
    BY <2>2 DEF Writes, Record, OwnedRecord, Entitled
  <2>3. QED
    BY <2>1, <2>2
<1>3. \A m \in Managers : target'[m] # NoRecord => NameOf[target'[m].pid] = target'[m].name
  BY DEF RecordsInv, OwnedRecord
<1>4. QED
  BY <1>2, <1>3 DEF RecordsInv, OwnedRecord

\* No step takes an entitlement away.
LEMMA EntitledForGood == TypeOK /\ RequestsInv /\ [Next]_vars => Keeps
<1> SUFFICES ASSUME TypeOK, RequestsInv, [Next]_vars PROVE Keeps
  OBVIOUS
<1> USE DEF Keeps
<1>1. ASSUME NEW p \in Procs, ProcStep(p) PROVE Keeps
  BY <1>1 DEF ProcStep, Start, Advertise, Bind, Unlink, Stop, Crash, Call, TypeOK
<1>2. ASSUME NEW p \in Procs, Handle(p) PROVE Keeps
  BY <1>2 DEF Handle, HandleRegister, HandleEndpoint, HandleUnlink, HandleDeregister,
              HandleDFRegister, HandleDFDeregister, Waits, TypeOK
<1>3. List \/ Search \/ UNCHANGED vars => UNCHANGED <<phase, active>>
  BY DEF List, Search, procVars, vars
<1>4. \A m \in Managers : LookupReads(m) \/ ManagerStep(m) => UNCHANGED <<phase, active>>
  BY DEF LookupReads, ManagerStep, LookupDrops, LookupReplies, SendSignal, SetState, procVars
<1>5. QED
  BY <1>1, <1>2, <1>3, <1>4 DEF Next

\* RecordsInv is an invariant.
LEMMA RecordsInvariant == Spec => []RecordsInv
<1>1. Init => RecordsInv
  BY DEF Init, RecordsInv, OwnedRecord
<1>2. TypeInv /\ RequestsInv /\ RecordsInv /\ [Next]_vars => RecordsInv'
  <2> SUFFICES ASSUME TypeInv, RequestsInv, RecordsInv, [Next]_vars PROVE RecordsInv'
    OBVIOUS
  <2>1. TypeOK /\ Keeps /\ registry \in Registries
    BY EntitledForGood DEF TypeInv, TypeOK, Registries
  <2>2. ASSUME NEW p \in Procs, HandleRegister(p)
        PROVE  (\A n \in Names : KeepsOrErases(n) \/ Writes(n)) /\ UNCHANGED target
    <3>1. phase[p] \in {"REGISTER", "gone"}
      BY <2>2 DEF HandleRegister, RequestsInv, Calls
    <3>2. ASSUME NEW n \in Names PROVE KeepsOrErases(n) \/ Writes(n)
      <4>1. CASE n = NameOf[p] /\ registry[n] = NoRecord
        <5>1. registry'[n] = Record(p)
          BY <2>1, <2>2, <4>1, RegisterAdds, RecordTyped DEF HandleRegister, Record
        <5>2. Entitled(p)'
          BY <2>1, <2>2, <3>1, <4>1 DEF HandleRegister, Waits, Entitled, Keeps, A!Accepts, Record
        <5>3. QED
          BY <4>1, <5>1, <5>2 DEF Writes
      <4>2. CASE ~(n = NameOf[p] /\ registry[n] = NoRecord)
        BY <2>1, <2>2, <4>2, RegisterAdds, RecordTyped DEF HandleRegister, Record, KeepsOrErases
      <4>3. QED
        BY <4>1, <4>2
    <3>3. QED
      BY <2>2, <3>2 DEF HandleRegister, mgrVars
  <2>3. ASSUME NEW p \in Procs, HandleEndpoint(p)
        PROVE  (\A n \in Names : KeepsOrErases(n) \/ Writes(n)) /\ UNCHANGED target
    <3>1. phase[p] = "gone" \/ p \in Binders
      BY <2>3 DEF HandleEndpoint, RequestsInv, Calls
    <3>2. Entitled(p)'
      BY <2>1, <3>1 DEF Entitled, Keeps
    <3>3. ASSUME NEW n \in Names PROVE KeepsOrErases(n) \/ Writes(n)
      BY <2>1, <2>3, <3>2, EndpointWrites, RecordTyped
         DEF HandleEndpoint, Record, KeepsOrErases, Writes
    <3>4. QED
      BY <2>3, <3>3 DEF HandleEndpoint, mgrVars
  <2>4. ASSUME NEW p \in Procs, HandleUnlink(p) \/ HandleDeregister(p)
        PROVE  (\A n \in Names : KeepsOrErases(n)) /\ UNCHANGED target
    BY <2>1, <2>4, EraseName, NameOfIsTotal
       DEF HandleUnlink, HandleDeregister, KeepsOrErases, mgrVars
  <2>5. ASSUME List PROVE (\A n \in Names : KeepsOrErases(n)) /\ UNCHANGED target
    BY <2>1, <2>5, PurgeErases DEF List, KeepsOrErases, mgrVars
  <2>6. ASSUME NEW m \in Managers, LookupDrops(m)
        PROVE  (\A n \in Names : KeepsOrErases(n)) /\ UNCHANGED target
    <3>1. target[m].name \in Names
      BY <2>1, <2>6 DEF LookupDrops, A!FoundDead, TypeOK, Records
    <3>2. /\ registry' = A!deregisterAgent(registry, target[m].name) /\ UNCHANGED target
          /\ registry \in Registries
      BY <2>1, <2>6 DEF LookupDrops
    <3>3. \A n \in Names : registry'[n] = IF n = target[m].name THEN NoRecord ELSE registry[n]
      BY <3>1, <3>2, EraseName
    <3>4. QED
      BY <3>2, <3>3 DEF KeepsOrErases
  <2>7. ASSUME NEW m \in Managers, SetState(m)
        PROVE  (\A n \in Names : KeepsOrErases(n)) /\ UNCHANGED target
    <3>1. target[m].name \in Names
      BY <2>7 DEF SetState, TypeInv, TypeOK, Records
    <3>2. PICK st \in {"active", "suspended"} :
            registry' = A!setState(registry, target[m].name, st) /\ UNCHANGED target
      BY <2>7 DEF SetState
    <3>3. \A n \in Names : A!setState(registry, target[m].name, st)[n] = NoRecord <=> registry[n] = NoRecord
      BY <2>1, <3>1, SetStateKeeps
    <3>4. \A n \in Names : registry[n] # NoRecord =>
             /\ A!setState(registry, target[m].name, st)[n].pid = registry[n].pid
             /\ A!setState(registry, target[m].name, st)[n].name = registry[n].name
      BY <2>1, <3>1, SetStateKeeps
    <3>5. QED
      BY <3>2, <3>3, <3>4 DEF KeepsOrErases
  <2>8. ASSUME NEW m \in Managers, LookupReads(m)
        PROVE  /\ UNCHANGED registry
               /\ \A k \in Managers : target'[k] = target[k] \/ \E n \in Names : target'[k] = registry[n]
    BY <2>1, <2>8 DEF LookupReads, TypeOK
  <2>9. ASSUME NEW p \in Procs, ProcStep(p) \/ HandleDFRegister(p) \/ HandleDFDeregister(p)
        PROVE  UNCHANGED <<registry, target>>
    BY <2>9 DEF ProcStep, Start, Advertise, Bind, Unlink, Stop, Crash, HandleDFRegister,
                HandleDFDeregister, mgrVars
  <2>10. ASSUME NEW m \in Managers, LookupReplies(m) \/ SendSignal(m)
         PROVE  UNCHANGED <<registry, target>>
    BY <2>10 DEF LookupReplies, SendSignal
  <2>11. Search \/ UNCHANGED vars => UNCHANGED <<registry, target>>
    BY DEF Search, vars, mgrVars
  <2>12. /\ \A n \in Names : KeepsOrErases(n) \/ Writes(n)
         /\ \A m \in Managers : target'[m] = target[m] \/ \E n \in Names : target'[m] = registry[n]
    <3>1. UNCHANGED registry => \A n \in Names : KeepsOrErases(n)
      BY DEF KeepsOrErases
    <3>2. QED
      BY <2>2, <2>3, <2>4, <2>5, <2>6, <2>7, <2>8, <2>9, <2>10, <2>11, <3>1
         DEF Next, Handle, ManagerStep
  <2>13. QED
    BY <2>1, <2>12, RecordsStep
<1>3. QED
  BY <1>1, <1>2, TypeInvariant, RequestsInvariant, PTL DEF Spec

\* The AMS never lists a live agent whose registration it refused, whatever
\* the order in which its threads handle the requests.
THEOREM OnlyAcceptedAreListedAlways == Spec => []OnlyAcceptedAreListed
<1>1. RecordsInv => OnlyAcceptedAreListed
  BY DEF RecordsInv, OwnedRecord, OnlyAcceptedAreListed, Entitled, Working
<1>2. QED
  BY <1>1, RecordsInvariant, PTL

-----------------------------------------------------------------------------
(* A live agent stays listed                                               *)

\* AgentRecord.hpp: "nom unique de l'agent", over the whole life of the
\* platform.
NamesAreUnique == \A p, q \in Procs : NameOf[p] = NameOf[q] => p = q

ListedAs(p) == registry[NameOf[p]] # NoRecord /\ registry[NameOf[p]].pid = p

Serves(p) == p \in active /\ phase[p] \in Working

\* Provided that no two processes ever share a name, no crash, purge, LOOKUP,
\* late request or bind makes the AMS lose a live agent that it accepted.
THEOREM LiveStaysListedAlways ==
    ASSUME NamesAreUnique PROVE Spec => []LiveStaysListed
<1>1. Init => LiveStaysListed
  BY DEF Init, LiveStaysListed
<1>2. TypeInv /\ RequestsInv /\ RecordsInv /\ LiveStaysListed /\ [Next]_vars => LiveStaysListed'
  <2> SUFFICES ASSUME TypeInv, RequestsInv, RecordsInv, LiveStaysListed, [Next]_vars
               PROVE  LiveStaysListed'
    OBVIOUS
  <2> SUFFICES ASSUME NEW q \in Procs PROVE Serves(q)' => ListedAs(q)'
    <3>1. active' \subseteq Procs
      BY TypeStep DEF TypeInv, TypeOK
    <3>2. QED
      BY <3>1 DEF LiveStaysListed, Serves, ListedAs
  <2>1. TypeOK /\ registry \in Registries /\ NameOf[q] \in Names
    BY NameOfIsTotal DEF TypeInv, TypeOK, Registries
  <2>2. Serves(q) => ListedAs(q)
    BY DEF LiveStaysListed, Serves, ListedAs
  <2>3. ASSUME NEW p \in Procs, ProcStep(p) PROVE Serves(q)' => ListedAs(q)'
    <3>1. Serves(q)' => Serves(q)
      BY <2>1, <2>3 DEF ProcStep, Start, Advertise, Bind, Unlink, Stop, Crash, Call, Serves,
                        Working, TypeOK, RequestsInv
    <3>2. UNCHANGED registry
      BY <2>3 DEF ProcStep, Start, Advertise, Bind, Unlink, Stop, Crash
    <3>3. QED
      BY <2>2, <3>1, <3>2 DEF ListedAs
  <2>4. ASSUME NEW p \in Procs, HandleRegister(p) PROVE Serves(q)' => ListedAs(q)'
    <3>1. ListedAs(q) => ListedAs(q)'
      BY <2>1, <2>4, RegisterAdds, RecordTyped DEF HandleRegister, ListedAs
    <3>2. CASE Serves(q)
      BY <2>2, <3>1, <3>2
    <3>3. CASE ~Serves(q) /\ Serves(q)'
      <4>1. q = p /\ Waits("REGISTER", p) /\ p \notin active
        BY <2>1, <2>4, <3>3 DEF HandleRegister, Serves, Waits, TypeOK, RequestsInv
      <4>2. registry[NameOf[p]] = NoRecord
        BY <2>4, <3>3, <4>1 DEF HandleRegister, Serves, A!Accepts, Record
      <4>3. registry'[NameOf[p]] = Record(p)
        BY <2>1, <2>4, <4>1, <4>2, RegisterAdds, RecordTyped DEF HandleRegister, Record
      <4>4. Record(p) # NoRecord /\ Record(p).pid = p
        BY RecordTyped, NoRecordIsNone DEF Record
      <4>5. QED
        BY <4>1, <4>3, <4>4 DEF ListedAs
    <3>4. QED
      BY <3>2, <3>3
  <2>5. ASSUME NEW p \in Procs, HandleEndpoint(p) PROVE Serves(q)' => ListedAs(q)'
    <3>1. Serves(q)' => Serves(q)
      BY <2>1, <2>5 DEF HandleEndpoint, Serves, Waits, Working, TypeOK
    <3>2. CASE q = p
      <4>1. registry'[NameOf[q]] = Record(q)
        BY <2>1, <2>5, <3>2, EndpointWrites, RecordTyped DEF HandleEndpoint, Record
      <4>2. Record(q) # NoRecord /\ Record(q).pid = q
        BY RecordTyped, NoRecordIsNone DEF Record
      <4>3. QED
        BY <4>1, <4>2 DEF ListedAs
    <3>3. CASE q # p
      <4>1. NameOf[q] # NameOf[p]
        BY <3>3 DEF NamesAreUnique
      <4>2. registry'[NameOf[q]] = registry[NameOf[q]]
        BY <2>1, <2>5, <4>1, EndpointWrites, RecordTyped DEF HandleEndpoint, Record
      <4>3. QED
        BY <2>2, <3>1, <4>2 DEF ListedAs
    <3>4. QED
      BY <3>2, <3>3
  <2>6. ASSUME NEW p \in Procs, HandleUnlink(p) \/ HandleDeregister(p)
        PROVE  Serves(q)' => ListedAs(q)'
    <3>1. Serves(q)' => Serves(q) /\ q # p
      BY <2>1, <2>6 DEF HandleUnlink, HandleDeregister, Serves, Waits, Working, TypeOK,
                        RequestsInv, Calls
    <3>2. q # p => registry'[NameOf[q]] = registry[NameOf[q]]
      BY <2>1, <2>6, EraseName, NameOfIsTotal DEF HandleUnlink, HandleDeregister, NamesAreUnique
    <3>3. QED
      BY <2>2, <3>1, <3>2 DEF ListedAs
  <2>7. ASSUME NEW p \in Procs, HandleDFRegister(p) \/ HandleDFDeregister(p)
        PROVE  Serves(q)' => ListedAs(q)'
    <3>1. (Serves(q)' => Serves(q)) /\ UNCHANGED registry
      BY <2>1, <2>7 DEF HandleDFRegister, HandleDFDeregister, Serves, Waits, Working, TypeOK
    <3>2. QED
      BY <2>2, <3>1 DEF ListedAs
  <2>8. CASE List
    <3>1. UNCHANGED <<phase, active>>
      BY <2>8 DEF List, procVars
    <3>2. Serves(q) => ~A!FoundDead(registry[NameOf[q]], Dead)
      BY <2>2 DEF Serves, ListedAs, A!FoundDead, Dead, Working
    <3>3. Serves(q) => registry'[NameOf[q]] = registry[NameOf[q]]
      BY <2>1, <2>8, <3>2, PurgeErases DEF List
    <3>4. QED
      BY <2>2, <3>1, <3>3 DEF Serves, ListedAs
  <2>9. ASSUME NEW m \in Managers, LookupDrops(m) PROVE Serves(q)' => ListedAs(q)'
    <3>1. UNCHANGED <<phase, active>>
      BY <2>9 DEF LookupDrops, procVars
    <3>2. /\ target[m].name \in Names /\ target[m].pid \in Procs
          /\ NameOf[target[m].pid] = target[m].name
          /\ phase[target[m].pid] = "gone"
      BY <2>1, <2>9 DEF LookupDrops, A!FoundDead, Dead, RecordsInv, TypeOK, Records
    <3>3. Serves(q) => NameOf[q] # target[m].name
      BY <3>2 DEF Serves, Working, NamesAreUnique
    <3>4. Serves(q) => registry'[NameOf[q]] = registry[NameOf[q]]
      BY <2>1, <2>9, <3>2, <3>3, EraseName DEF LookupDrops
    <3>5. QED
      BY <2>2, <3>1, <3>4 DEF Serves, ListedAs
  <2>10. ASSUME NEW m \in Managers, SetState(m) PROVE Serves(q)' => ListedAs(q)'
    <3>1. UNCHANGED <<phase, active>>
      BY <2>10 DEF SetState, procVars
    <3>2. target[m].name \in Names
      BY <2>10 DEF SetState, TypeInv, TypeOK, Records
    <3>3. ListedAs(q) => ListedAs(q)'
      BY <2>1, <2>10, <3>2, SetStateKeeps DEF SetState, ListedAs
    <3>4. QED
      BY <2>2, <3>1, <3>3 DEF Serves
  <2>11. CASE UNCHANGED <<registry, phase, active>>
    BY <2>2, <2>11 DEF Serves, ListedAs
  <2>12. Search \/ UNCHANGED vars => UNCHANGED <<registry, phase, active>>
    BY DEF Search, vars, procVars
  <2>13. ASSUME NEW m \in Managers, LookupReads(m) \/ LookupReplies(m) \/ SendSignal(m)
         PROVE  UNCHANGED <<registry, phase, active>>
    BY <2>13 DEF LookupReads, LookupReplies, SendSignal, procVars
  <2>14. QED
    BY <2>3, <2>4, <2>5, <2>6, <2>7, <2>8, <2>9, <2>10, <2>11, <2>12, <2>13
       DEF Next, Handle, ManagerStep
<1>3. QED
  BY <1>1, <1>2, TypeInvariant, RequestsInvariant, RecordsInvariant, PTL DEF Spec

-----------------------------------------------------------------------------
(* The state that the AMS shows                                            *)

\* The commands come from one manager: nobody else signals between the signal
\* and the SETSTATE of a command.
OneManager == \A m, k \in Managers : m = k

\* Only a process that has been registered can be the target of a manager, and
\* only such a process is ever suspended.
KnownInv ==
    /\ \A m \in Managers : target[m] # NoRecord => Entitled(target[m].pid)
    /\ \A p \in suspended : Entitled(p)

\* The manager has signalled p and has not told the AMS yet.
BeingSet(m, p) == step[m] = "SETSTATE" /\ target[m].pid = p

\* Inductive strengthening of StateIsTruthful: between signal and SETSTATE it is
\* the command, not the record, that says what the agent was told.
Truthful(p) ==
    phase[p] \in Working /\ ListedAs(p) =>
        /\ \A m \in Managers : BeingSet(m, p) => (cmd[m] = "suspend" <=> p \in suspended)
        /\ (\A m \in Managers : ~BeingSet(m, p)) =>
              (registry[NameOf[p]].state = "suspended" <=> p \in suspended)

TruthInv == \A p \in Procs \ Binders : Truthful(p)

\* AMS::setState writes the state into the record of that name, if there is one,
\* and changes nothing else.
LEMMA SetStateWrites ==
    ASSUME NEW reg \in Registries, NEW name \in Names, NEW st \in {"active", "suspended"}
    PROVE  /\ \A n \in Names : n # name => A!setState(reg, name, st)[n] = reg[n]
           /\ reg[name] # NoRecord => A!setState(reg, name, st)[name].state = st
  BY DEF A!setState, Registries, Records

\* KnownInv is an invariant.
LEMMA KnownInvariant == Spec => []KnownInv
<1>1. Init => KnownInv
  BY DEF Init, KnownInv
<1>2. TypeInv /\ RequestsInv /\ RecordsInv /\ KnownInv /\ [Next]_vars => KnownInv'
  <2> SUFFICES ASSUME TypeInv, RequestsInv, RecordsInv, KnownInv, [Next]_vars PROVE KnownInv'
    OBVIOUS
  <2>1. TypeOK /\ Keeps
    BY EntitledForGood DEF TypeInv
  <2>2. \A p \in Procs : Entitled(p) => Entitled(p)'
    BY <2>1 DEF Keeps, Entitled
  <2>3. \A m \in Managers : target[m] # NoRecord => target[m].pid \in Procs
    BY <2>1 DEF TypeOK, Records
  <2>4. CASE UNCHANGED <<target, suspended>>
    BY <2>1, <2>2, <2>3, <2>4 DEF KnownInv, TypeOK
  <2>5. ASSUME NEW m \in Managers, LookupReads(m) PROVE KnownInv'
    <3>1. PICK n \in Names : target' = [target EXCEPT ![m] = registry[n]]
      BY <2>5 DEF LookupReads
    <3>2. registry[n] # NoRecord => registry[n].pid \in Procs /\ Entitled(registry[n].pid)
      BY <2>1 DEF RecordsInv, OwnedRecord, TypeOK, Records
    <3>3. \A k \in Managers : target'[k] = target[k] \/ target'[k] = registry[n]
      BY <2>1, <3>1 DEF TypeOK
    <3>4. UNCHANGED suspended
      BY <2>5 DEF LookupReads, procVars
    <3>5. \A k \in Managers : target'[k] # NoRecord => Entitled(target'[k].pid) /\ target'[k].pid \in Procs
      BY <2>3, <3>2, <3>3 DEF KnownInv
    <3>6. \A k \in Managers : target'[k] # NoRecord => Entitled(target[k].pid)'
      BY <2>2, <3>5 DEF Entitled
    <3>7. QED
      BY <2>1, <2>2, <3>4, <3>6 DEF KnownInv, TypeOK
  <2>6. ASSUME NEW m \in Managers, SendSignal(m) PROVE KnownInv'
    <3>1. target[m] # NoRecord /\ target[m].pid \in Procs /\ Entitled(target[m].pid)
      BY <2>3, <2>6 DEF SendSignal, TypeInv, KnownInv
    <3>2. suspended' \subseteq suspended \cup {target[m].pid} /\ UNCHANGED target
      BY <2>6 DEF SendSignal
    <3>3. QED
      BY <2>1, <2>2, <2>3, <3>1, <3>2 DEF KnownInv, TypeOK
  <2>7. ASSUME NEW p \in Procs, ProcStep(p) \/ Handle(p) PROVE UNCHANGED <<target, suspended>>
    BY <2>7 DEF ProcStep, Start, Advertise, Bind, Unlink, Stop, Crash, Handle, HandleRegister,
                HandleEndpoint, HandleUnlink, HandleDeregister, HandleDFRegister,
                HandleDFDeregister, mgrVars
  <2>8. List \/ Search \/ UNCHANGED vars => UNCHANGED <<target, suspended>>
    BY DEF List, Search, procVars, mgrVars, vars
  <2>9. ASSUME NEW m \in Managers, LookupDrops(m) \/ LookupReplies(m) \/ SetState(m)
        PROVE  UNCHANGED <<target, suspended>>
    BY <2>9 DEF LookupDrops, LookupReplies, SetState, procVars
  <2>10. QED
    BY <2>4, <2>5, <2>6, <2>7, <2>8, <2>9 DEF Next, ManagerStep
<1>3. QED
  BY <1>1, <1>2, TypeInvariant, RequestsInvariant, RecordsInvariant, PTL DEF Spec

\* Where p works and is listed before and after a step, and its record keeps its
\* state, the record stays truthful as long as no manager turns to p.
LEMMA StaysTruthful ==
    ASSUME NEW p \in Procs, Truthful(p),
           (phase[p] \in Working)' => phase[p] \in Working,
           ListedAs(p)' => ListedAs(p) /\ registry'[NameOf[p]].state = registry[NameOf[p]].state,
           p \in suspended' <=> p \in suspended,
           \A m \in Managers : /\ BeingSet(m, p)' <=> BeingSet(m, p)
                               /\ BeingSet(m, p) => cmd'[m] = cmd[m]
    PROVE  Truthful(p)'
<1>1. SUFFICES ASSUME (phase[p] \in Working)', ListedAs(p)'
               PROVE  /\ \A m \in Managers : BeingSet(m, p)' => (cmd'[m] = "suspend" <=> p \in suspended')
                      /\ (\A m \in Managers : ~BeingSet(m, p)') =>
                            (registry'[NameOf[p]].state = "suspended" <=> p \in suspended')
  BY DEF Truthful
<1>2. /\ \A m \in Managers : BeingSet(m, p) => (cmd[m] = "suspend" <=> p \in suspended)
      /\ (\A m \in Managers : ~BeingSet(m, p)) =>
            (registry[NameOf[p]].state = "suspended" <=> p \in suspended)
  BY <1>1 DEF Truthful
<1>3. \A m \in Managers : BeingSet(m, p)' => (cmd'[m] = "suspend" <=> p \in suspended')
  BY <1>2
<1>4. (\A m \in Managers : ~BeingSet(m, p)') =>
        (registry'[NameOf[p]].state = "suspended" <=> p \in suspended')
  BY <1>1, <1>2
<1>5. QED
  BY <1>3, <1>4

\* Provided that the commands come from one manager and no two processes ever
\* share a name: when no command is in progress, LIST and LOOKUP show of every
\* live agent that keeps off acl_bind the state that it was last told to be in.
THEOREM StateIsTruthfulAlways ==
    ASSUME OneManager, NamesAreUnique PROVE Spec => []StateIsTruthful
<1>1. Init => TruthInv
  BY DEF Init, TruthInv, Truthful, Working
<1>2. TypeInv /\ RequestsInv /\ RecordsInv /\ KnownInv /\ TruthInv /\ [Next]_vars => TruthInv'
  <2> SUFFICES ASSUME TypeInv, RequestsInv, RecordsInv, KnownInv, TruthInv, [Next]_vars,
                      NEW q \in Procs \ Binders
               PROVE  Truthful(q)'
    BY DEF TruthInv
  <2>1. /\ TypeOK /\ registry \in Registries /\ NameOf[q] \in Names /\ q \in Procs
        /\ Truthful(q)
    BY NameOfIsTotal DEF TypeInv, TypeOK, Registries, TruthInv
  <2>2. ASSUME NEW p \in Procs, ProcStep(p) PROVE Truthful(q)'
    <3>1. (phase[q] \in Working)' => phase[q] \in Working
      BY <2>1, <2>2 DEF ProcStep, Start, Advertise, Bind, Unlink, Stop, Crash, Call, Working, TypeOK
    <3>2. UNCHANGED <<registry, suspended, step, cmd, target>>
      BY <2>2 DEF ProcStep, Start, Advertise, Bind, Unlink, Stop, Crash, mgrVars
    <3>3. QED
      BY <2>1, <3>1, <3>2, StaysTruthful DEF ListedAs, BeingSet
  <2>3. ASSUME NEW p \in Procs, Handle(p), ~HandleRegister(p) PROVE Truthful(q)'
    <3>1. (phase[q] \in Working)' => phase[q] \in Working
      BY <2>1, <2>3 DEF Handle, HandleEndpoint, HandleUnlink, HandleDeregister, HandleDFRegister,
                        HandleDFDeregister, Waits, Working, TypeOK
    <3>2. UNCHANGED <<suspended, step, cmd, target>>
      BY <2>3 DEF Handle, HandleEndpoint, HandleUnlink, HandleDeregister, HandleDFRegister,
                  HandleDFDeregister, mgrVars
    <3>3. registry'[NameOf[q]] = registry[NameOf[q]] \/ registry'[NameOf[q]] = NoRecord
          \/ (p = q /\ HandleEndpoint(p))
      <4>1. CASE HandleEndpoint(p)
        BY <2>1, <4>1, EndpointWrites, RecordTyped DEF HandleEndpoint, Record, NamesAreUnique
      <4>2. CASE HandleUnlink(p) \/ HandleDeregister(p)
        BY <2>1, <4>2, EraseName, NameOfIsTotal DEF HandleUnlink, HandleDeregister
      <4>3. CASE HandleDFRegister(p) \/ HandleDFDeregister(p)
        BY <4>3 DEF HandleDFRegister, HandleDFDeregister
      <4>4. QED
        BY <2>3, <4>1, <4>2, <4>3 DEF Handle
    <3>4. CASE p = q /\ HandleEndpoint(p)
      <4>1. phase[q] = "gone"
        BY <2>1, <3>4 DEF HandleEndpoint, RequestsInv, Calls
      <4>2. QED
        BY <3>1, <4>1 DEF Truthful, Working
    <3>5. CASE registry'[NameOf[q]] = registry[NameOf[q]] \/ registry'[NameOf[q]] = NoRecord
      BY <2>1, <3>1, <3>2, <3>5, StaysTruthful DEF ListedAs, BeingSet
    <3>6. QED
      BY <3>3, <3>4, <3>5
  <2>4. ASSUME NEW p \in Procs, HandleRegister(p) PROVE Truthful(q)'
    <3>1. UNCHANGED <<suspended, step, cmd, target>>
      BY <2>4 DEF HandleRegister, mgrVars
    <3>2. CASE p = q /\ phase[q] = "REGISTER"
      <4>1. ~Entitled(q)
        BY <2>1, <3>2 DEF Entitled, RequestsInv
      <4>2. q \notin suspended /\ \A m \in Managers : ~BeingSet(m, q)
        BY <4>1 DEF KnownInv, BeingSet, TypeInv
      <4>3. ListedAs(q)' => registry'[NameOf[q]] = Record(q)
        <5>1. registry[NameOf[q]] # NoRecord => registry[NameOf[q]].pid # q
          BY <2>1, <4>1 DEF RecordsInv, OwnedRecord
        <5>2. QED
          BY <2>1, <2>4, <3>2, <5>1, RegisterAdds, RecordTyped DEF HandleRegister, Record, ListedAs
      <4>4. ListedAs(q)' => registry'[NameOf[q]].state = "active"
        BY <4>3 DEF Record
      <4>5. QED
        BY <3>1, <4>2, <4>4 DEF Truthful, BeingSet
    <3>3. CASE p = q /\ phase[q] # "REGISTER"
      <4>1. phase[q] = "gone" /\ phase'[q] = "gone"
        BY <2>1, <2>4, <3>3 DEF HandleRegister, RequestsInv, Calls, Waits
      <4>2. QED
        BY <4>1 DEF Truthful, Working
    <3>4. CASE p # q
      <4>1. NameOf[p] # NameOf[q]
        BY <2>1, <3>4 DEF NamesAreUnique
      <4>2. registry'[NameOf[q]] = registry[NameOf[q]]
        BY <2>1, <2>4, <4>1, RegisterAdds, RecordTyped DEF HandleRegister, Record
      <4>3. phase'[q] = phase[q]
        BY <2>1, <2>4, <3>4 DEF HandleRegister, TypeOK
      <4>4. QED
        BY <2>1, <3>1, <4>2, <4>3, StaysTruthful DEF ListedAs, BeingSet
    <3>5. QED
      BY <3>2, <3>3, <3>4
  <2>5. CASE List
    <3>1. UNCHANGED <<phase, suspended, step, cmd, target>>
      BY <2>5 DEF List, procVars, mgrVars
    <3>2. registry'[NameOf[q]] = registry[NameOf[q]] \/ registry'[NameOf[q]] = NoRecord
      BY <2>1, <2>5, PurgeErases DEF List
    <3>3. QED
      BY <2>1, <3>1, <3>2, StaysTruthful DEF ListedAs, BeingSet
  <2>6. ASSUME NEW m \in Managers, LookupReads(m) \/ LookupReplies(m) PROVE Truthful(q)'
    <3>1. UNCHANGED <<registry, phase, suspended>>
      BY <2>6 DEF LookupReads, LookupReplies, procVars
    <3>2. \A k \in Managers : k # m => step'[k] = step[k] /\ cmd'[k] = cmd[k] /\ target'[k] = target[k]
      BY <2>1, <2>6 DEF LookupReads, LookupReplies, TypeOK
    <3>3. step[m] # "SETSTATE" /\ step'[m] # "SETSTATE"
      BY <2>1, <2>6 DEF LookupReads, LookupReplies, TypeOK
    <3>4. QED
      BY <2>1, <3>1, <3>2, <3>3, StaysTruthful DEF ListedAs, BeingSet
  <2>7. ASSUME NEW m \in Managers, LookupDrops(m) PROVE Truthful(q)'
    <3>1. UNCHANGED <<phase, suspended, cmd, target>>
      BY <2>7 DEF LookupDrops, procVars
    <3>2. /\ \A k \in Managers : k # m => step'[k] = step[k]
          /\ step[m] # "SETSTATE" /\ step'[m] # "SETSTATE"
      BY <2>1, <2>7 DEF LookupDrops, TypeOK
    <3>3. target[m].name \in Names
      BY <2>1, <2>7 DEF LookupDrops, A!FoundDead, TypeOK, Records
    <3>4. registry'[NameOf[q]] = registry[NameOf[q]] \/ registry'[NameOf[q]] = NoRecord
      BY <2>1, <2>7, <3>3, EraseName DEF LookupDrops
    <3>5. QED
      BY <2>1, <3>1, <3>2, <3>4, StaysTruthful DEF ListedAs, BeingSet
  <2>8. ASSUME NEW m \in Managers, SendSignal(m) PROVE Truthful(q)'
    <3>1. /\ UNCHANGED <<registry, phase, cmd, target>> /\ step[m] = "signal"
          /\ \A k \in Managers : k = m
      BY <2>8 DEF SendSignal, OneManager
    <3>2. CASE target[m].pid = q /\ Alive(q)
      <4>1. /\ suspended' = IF cmd[m] = "suspend" THEN suspended \cup {q} ELSE suspended \ {q}
            /\ step'[m] = "SETSTATE"
        BY <2>1, <2>8, <3>2 DEF SendSignal, TypeOK
      <4>2. BeingSet(m, q)' /\ (cmd'[m] = "suspend" <=> q \in suspended')
        BY <3>1, <3>2, <4>1 DEF BeingSet
      <4>3. QED
        BY <3>1, <4>2 DEF Truthful
    <3>3. CASE target[m].pid # q
      <4>1. q \in suspended' <=> q \in suspended
        BY <2>8, <3>3 DEF SendSignal
      <4>2. QED
        BY <2>1, <3>1, <3>3, <4>1, StaysTruthful DEF ListedAs, BeingSet
    <3>4. CASE target[m].pid = q /\ ~Alive(q)
      BY <3>1, <3>4 DEF Truthful, Alive, Working
    <3>5. QED
      BY <3>2, <3>3, <3>4
  <2>9. ASSUME NEW m \in Managers, SetState(m) PROVE Truthful(q)'
    <3>1. /\ UNCHANGED <<phase, suspended, cmd, target>> /\ step[m] = "SETSTATE" /\ step'[m] = "idle"
          /\ \A k \in Managers : k = m
      BY <2>1, <2>9 DEF SetState, procVars, OneManager, TypeOK
    <3>2. /\ target[m] # NoRecord /\ target[m].name \in Names /\ target[m].pid \in Procs
          /\ NameOf[target[m].pid] = target[m].name
      BY <2>1, <2>9 DEF SetState, TypeInv, TypeOK, Records, RecordsInv
    <3>3. ListedAs(q)' => ListedAs(q)
      BY <2>1, <2>9, <3>2, SetStateKeeps DEF SetState, ListedAs
    <3> DEFINE st == IF cmd[m] = "suspend" THEN "suspended" ELSE "active"
    <3>4. registry' = A!setState(registry, target[m].name, st) /\ st \in {"active", "suspended"}
      BY <2>9 DEF SetState
    <3>5. CASE target[m].pid = q
      <4>1. ListedAs(q) => registry'[NameOf[q]].state = st
        BY <2>1, <3>2, <3>4, <3>5, SetStateWrites DEF ListedAs
      <4>2. phase[q] \in Working /\ ListedAs(q) => (cmd[m] = "suspend" <=> q \in suspended)
        BY <2>1, <3>1, <3>5 DEF Truthful, BeingSet
      <4>3. \A k \in Managers : ~BeingSet(k, q)'
        BY <3>1 DEF BeingSet
      <4>4. QED
        BY <3>1, <3>3, <4>1, <4>2, <4>3 DEF Truthful
    <3>6. CASE target[m].pid # q
      <4>1. NameOf[q] # target[m].name
        BY <2>1, <3>2, <3>6 DEF NamesAreUnique
      <4>2. registry'[NameOf[q]] = registry[NameOf[q]]
        BY <2>1, <3>2, <3>4, <4>1, SetStateWrites
      <4>3. \A k \in Managers : ~BeingSet(k, q) /\ ~BeingSet(k, q)'
        BY <3>1, <3>6 DEF BeingSet
      <4>4. QED
        BY <2>1, <3>1, <4>2, <4>3, StaysTruthful DEF ListedAs
    <3>7. QED
      BY <3>5, <3>6
  <2>10. CASE Search \/ UNCHANGED vars
    BY <2>1, <2>10, StaysTruthful DEF Search, vars, procVars, mgrVars, ListedAs, BeingSet
  <2>11. QED
    BY <2>2, <2>3, <2>4, <2>5, <2>6, <2>7, <2>8, <2>9, <2>10 DEF Next, Handle, ManagerStep
<1>3. TruthInv => StateIsTruthful
  BY DEF TruthInv, Truthful, StateIsTruthful, ListedAs, BeingSet
<1>4. QED
  BY <1>1, <1>2, <1>3, TypeInvariant, RequestsInvariant, RecordsInvariant, KnownInvariant, PTL
     DEF Spec
=============================================================================
