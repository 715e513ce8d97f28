--------------------------- MODULE LocalPlatform ----------------------------
(***************************************************************************)
(* A platform in local mode: the AMS and DF servers, the agent processes   *)
(* that register with them over Unix sockets, and the agent managers that  *)
(* look agents up, signal them and record their state                      *)
(* (src/platform/ams, src/platform/df, src/platform/manager, and the       *)
(* clients in src/src/platform).                                           *)
(*                                                                         *)
(* A server runs one thread per connection, so requests are handled in any *)
(* order, each critical section of the registry being one step.  A client  *)
(* waits for its answer (a Unix socket has no timeout); if it is killed    *)
(* while it waits, its request is still handled.  An agent process makes   *)
(* one call at a time here; AgentLifecycle has its threads.                *)
(***************************************************************************)
EXTENDS Integers, FiniteSets

CONSTANTS
    Procs,      \* agent processes; a pid is never reused
    Names,
    NameOf,     \* [Procs -> Names]
    Binders,    \* the processes that use acl_bind, under their own name
    Managers,   \* clients of LOOKUP, agent managers among them
    Overlap,    \* may two live processes use one name?
    MaxCommands,\* bound on the commands of the managers
    NoRecord, NoIP

ASSUME NameOfIsTotal == NameOf \in [Procs -> Names]
ASSUME BindersAreProcs == Binders \subseteq Procs
ASSUME OverlapIsBoolean == Overlap \in BOOLEAN
ASSUME MaxCommandsIsNat == MaxCommands \in Nat

A == INSTANCE AMS
D == INSTANCE DF

Calls    == {"REGISTER", "REGISTER_ENDPOINT", "DF_REGISTER", "UNLINK", "DEREGISTER",
             "DF_DEREGISTER"}
Phases   == {"unborn", "run", "takeDown", "gone"} \cup Calls
Working  == {"run", "REGISTER_ENDPOINT", "DF_REGISTER"}
\* cmd_kill is "lookup" here, for it does nothing after its signal; what the
\* signal makes an agent do is Stop, which may happen at any time.
Commands == {"lookup", "suspend", "wake"}
Steps    == {"idle", "reply", "signal", "SETSTATE"}
Records  == [name : Names, pid : Procs, state : {"active", "suspended"}, slave_ip : {NoIP}]
Services == [agentName : Names, pid : Procs, slave_ip : {NoIP}]

ASSUME NoRecordIsNone == NoRecord \notin Records

VARIABLES
    registry,   \* AMS::registry_
    services,   \* DF::services_
    phase,      \* what each process is doing; in a call it waits for the answer
    active,     \* agentStatus = AGENT_ACTIVE: the AMS answered OK
    suspended,  \* the processes whose last signal, if any, was a suspend
    requests,   \* sent, not yet handled: <<call, process>>
    step,       \* where each manager is
    cmd,        \* the command it executes
    target,     \* the record its LOOKUP found
    commands    \* commands issued so far (bound)

vars == <<registry, services, phase, active, suspended, requests, step, cmd, target, commands>>
procVars == <<phase, active, suspended, requests>>
mgrVars  == <<step, cmd, target, commands>>

TypeOK ==
    /\ registry \in [Names -> Records \cup {NoRecord}]
    /\ services \subseteq Services
    /\ phase \in [Procs -> Phases]
    /\ active \subseteq Procs
    /\ suspended \subseteq Procs
    /\ requests \subseteq Calls \X Procs
    /\ step \in [Managers -> Steps]
    /\ cmd \in [Managers -> Commands]
    /\ target \in [Managers -> Records \cup {NoRecord}]
    /\ commands \in 0..MaxCommands

Init ==
    /\ registry = [n \in Names |-> NoRecord]
    /\ services = {}
    /\ phase = [p \in Procs |-> "unborn"]
    /\ active = {}
    /\ suspended = {}
    /\ requests = {}
    /\ step = [m \in Managers |-> "idle"]
    /\ cmd = [m \in Managers |-> "lookup"]
    /\ target = [m \in Managers |-> NoRecord]
    /\ commands = 0

Alive(p) == phase[p] \notin {"unborn", "gone"}
Dead     == {p \in Procs : phase[p] = "gone"}
Waits(c, p) == phase[p] = c

Record(p)  == [name |-> NameOf[p], pid |-> p, state |-> "active", slave_ip |-> NoIP]
Service(p) == [agentName |-> NameOf[p], pid |-> p, slave_ip |-> NoIP]

-----------------------------------------------------------------------------
(* The agent processes                                                     *)

Call(c, p) ==
    /\ phase' = [phase EXCEPT ![p] = c]
    /\ requests' = requests \cup {<<c, p>>}

\* _init: registerAgent.  Without Overlap a process is only (re)started after
\* the one that used its name is gone.
Start(p) ==
    /\ phase[p] = "unborn"
    /\ Overlap \/ \A q \in Procs : NameOf[q] = NameOf[p] => ~Alive(q)
    /\ Call("REGISTER", p)
    /\ UNCHANGED <<registry, services, active, suspended, mgrVars>>

\* DFClient::registerService, from user code.
Advertise(p) ==
    /\ phase[p] = "run"
    /\ Call("DF_REGISTER", p)
    /\ UNCHANGED <<registry, services, active, suspended, mgrVars>>

\* acl_bind: REGISTER_ENDPOINT, from onStart() of a protocol behaviour.
Bind(p) ==
    /\ phase[p] = "run" /\ p \in Binders
    /\ Call("REGISTER_ENDPOINT", p)
    /\ UNCHANGED <<registry, services, active, suspended, mgrVars>>

\* acl_unlink in takeDown(): an AMS DEREGISTER, before the one of doDelete.
Unlink(p) ==
    /\ phase[p] = "run" /\ p \in Binders
    /\ Call("UNLINK", p)
    /\ UNCHANGED <<registry, services, active, suspended, mgrVars>>

\* doDelete, whatever asked for it: the AMS first, then the DF, then _exit.
\* It deregisters the name even when the AMS had refused the registration.
Stop(p) ==
    /\ phase[p] \in {"run", "takeDown"}
    /\ Call("DEREGISTER", p)
    /\ UNCHANGED <<registry, services, active, suspended, mgrVars>>

\* SIGKILL, or a failure of the process.
Crash(p) ==
    /\ Alive(p)
    /\ phase' = [phase EXCEPT ![p] = "gone"]
    /\ UNCHANGED <<registry, services, active, suspended, requests, mgrVars>>

-----------------------------------------------------------------------------
(* The servers: one connection each                                        *)

Handled(c, p) == requests' = requests \ {<<c, p>>}

\* AMS REGISTER.  The answer makes a waiting agent active, or degraded.
HandleRegister(p) ==
    /\ <<"REGISTER", p>> \in requests
    /\ Handled("REGISTER", p)
    /\ registry' = A!registerAgent(registry, Record(p))
    /\ active' = IF Waits("REGISTER", p) /\ A!Accepts(registry, Record(p))
                 THEN active \cup {p} ELSE active
    /\ phase' = IF Waits("REGISTER", p) THEN [phase EXCEPT ![p] = "run"] ELSE phase
    /\ UNCHANGED <<services, suspended, mgrVars>>

\* AMS REGISTER_ENDPOINT: creates or overwrites, with the state "active".
HandleEndpoint(p) ==
    /\ <<"REGISTER_ENDPOINT", p>> \in requests
    /\ Handled("REGISTER_ENDPOINT", p)
    /\ registry' = A!registerEndpoint(registry, Record(p))
    /\ phase' = IF Waits("REGISTER_ENDPOINT", p) THEN [phase EXCEPT ![p] = "run"] ELSE phase
    /\ UNCHANGED <<services, active, suspended, mgrVars>>

\* AMS DEREGISTER of acl_unlink, by name.
HandleUnlink(p) ==
    /\ <<"UNLINK", p>> \in requests
    /\ Handled("UNLINK", p)
    /\ registry' = A!deregisterAgent(registry, NameOf[p])
    /\ phase' = IF Waits("UNLINK", p) THEN [phase EXCEPT ![p] = "takeDown"] ELSE phase
    /\ UNCHANGED <<services, active, suspended, mgrVars>>

\* AMS DEREGISTER, by name; then the agent calls the DF.
HandleDeregister(p) ==
    /\ <<"DEREGISTER", p>> \in requests
    /\ registry' = A!deregisterAgent(registry, NameOf[p])
    /\ IF Waits("DEREGISTER", p)
       THEN /\ phase' = [phase EXCEPT ![p] = "DF_DEREGISTER"]
            /\ requests' = (requests \ {<<"DEREGISTER", p>>}) \cup {<<"DF_DEREGISTER", p>>}
       ELSE Handled("DEREGISTER", p) /\ UNCHANGED phase
    /\ UNCHANGED <<services, active, suspended, mgrVars>>

\* DF REGISTER
HandleDFRegister(p) ==
    /\ <<"DF_REGISTER", p>> \in requests
    /\ Handled("DF_REGISTER", p)
    /\ services' = D!registerService(services, Service(p))
    /\ phase' = IF Waits("DF_REGISTER", p) THEN [phase EXCEPT ![p] = "run"] ELSE phase
    /\ UNCHANGED <<registry, active, suspended, mgrVars>>

\* DF DEREGISTER, by agent name; then the agent calls _exit.
HandleDFDeregister(p) ==
    /\ <<"DF_DEREGISTER", p>> \in requests
    /\ Handled("DF_DEREGISTER", p)
    /\ services' = D!deregisterAgent(services, NameOf[p])
    /\ phase' = IF Waits("DF_DEREGISTER", p) THEN [phase EXCEPT ![p] = "gone"] ELSE phase
    /\ UNCHANGED <<registry, active, suspended, mgrVars>>

Handle(p) ==
    \/ HandleRegister(p) \/ HandleEndpoint(p) \/ HandleUnlink(p) \/ HandleDeregister(p)
    \/ HandleDFRegister(p) \/ HandleDFDeregister(p)

\* AMS LIST: purge under the lock (the list is then read under it again).
List ==
    /\ registry' = A!purgeDead(registry, Dead)
    /\ UNCHANGED <<services, procVars, mgrVars>>

\* DF SEARCH: likewise.
Search ==
    /\ services' = D!purgeDead(services, Dead)
    /\ UNCHANGED <<registry, procVars, mgrVars>>

-----------------------------------------------------------------------------
(* LOOKUP and the managers' commands                                       *)

\* The handler of LOOKUP copies the record under the lock ...
LookupReads(m) ==
    /\ step[m] = "idle" /\ commands < MaxCommands
    /\ commands' = commands + 1
    /\ \E n \in Names, c \in Commands :
          /\ target' = [target EXCEPT ![m] = registry[n]]
          /\ cmd' = [cmd EXCEPT ![m] = c]
    /\ step' = [step EXCEPT ![m] = "reply"]
    /\ UNCHANGED <<registry, services, procVars>>

\* ... then tests the process, and deregisters THE NAME if it is gone.
LookupDrops(m) ==
    /\ step[m] = "reply" /\ A!FoundDead(target[m], Dead)
    /\ registry' = A!deregisterAgent(registry, target[m].name)
    /\ step' = [step EXCEPT ![m] = "idle"]
    /\ UNCHANGED <<services, cmd, target, commands, procVars>>

\* The answer: not found, or the record the manager now acts upon.
LookupReplies(m) ==
    /\ step[m] = "reply" /\ ~A!FoundDead(target[m], Dead)
    /\ step' = [step EXCEPT ![m] = IF target[m] = NoRecord \/ cmd[m] = "lookup"
                                   THEN "idle" ELSE "signal"]
    /\ UNCHANGED <<registry, services, cmd, target, commands, procVars>>

\* Mutant of SendSignal: the command does not go on to SETSTATE.
SignalOnly(m) ==
    /\ step[m] = "signal"
    /\ LET p == target[m].pid IN
       suspended' = IF ~Alive(p) THEN suspended
                    ELSE IF cmd[m] = "suspend" THEN suspended \cup {p} ELSE suspended \ {p}
    /\ step' = [step EXCEPT ![m] = "idle"]
    /\ UNCHANGED <<registry, services, phase, active, requests, cmd, target, commands>>

\* send_signal: sigqueue fails when the process is gone.
SendSignal(m) ==
    /\ step[m] = "signal"
    /\ LET p == target[m].pid IN
       IF Alive(p)
       THEN /\ suspended' = IF cmd[m] = "suspend" THEN suspended \cup {p} ELSE suspended \ {p}
            /\ step' = [step EXCEPT ![m] = "SETSTATE"]
       ELSE /\ step' = [step EXCEPT ![m] = "idle"]
            /\ UNCHANGED suspended
    /\ UNCHANGED <<registry, services, phase, active, requests, cmd, target, commands>>

\* cmd_suspend, cmd_wake: SETSTATE, by name.
SetState(m) ==
    /\ step[m] = "SETSTATE"
    /\ registry' = A!setState(registry, target[m].name,
                              IF cmd[m] = "suspend" THEN "suspended" ELSE "active")
    /\ step' = [step EXCEPT ![m] = "idle"]
    /\ UNCHANGED <<services, cmd, target, commands, procVars>>

ManagerStep(m) ==
    LookupDrops(m) \/ LookupReplies(m) \/ SendSignal(m) \/ SetState(m)

-----------------------------------------------------------------------------
ProcStep(p) == Start(p) \/ Advertise(p) \/ Bind(p) \/ Unlink(p) \/ Stop(p) \/ Crash(p)

Next ==
    \/ \E p \in Procs : ProcStep(p) \/ Handle(p)
    \/ List \/ Search
    \/ \E m \in Managers : LookupReads(m) \/ ManagerStep(m)

Spec == Init /\ [][Next]_vars

\* The servers answer, a manager finishes its command, and agents are listed
\* and searched for again and again.
Fairness ==
    /\ \A p \in Procs : WF_vars(Handle(p))
    /\ \A m \in Managers : WF_vars(ManagerStep(m))
    /\ WF_vars(List)
    /\ WF_vars(Search)

FairSpec == Spec /\ Fairness

-----------------------------------------------------------------------------
(* Safety                                                                  *)

\* Agent.hpp on AGENT_ACTIVE: an agent whose registration was answered OK,
\* that runs and is not stopping, is the one the AMS lists under its name,
\* whatever crashes, purges and late requests of others do.  It holds when no
\* two processes ever use one name; a restarted agent can lose it, because
\* LOOKUP and a late DEREGISTER erase by name, REGISTER_ENDPOINT overwrites.
LiveStaysListed ==
    \A p \in active :
        phase[p] \in Working =>
            registry[NameOf[p]] # NoRecord /\ registry[NameOf[p]].pid = p

\* The AMS lists an agent that is alive and not stopping only if it answered
\* OK to it: a refused duplicate never takes over the name, unless by acl_bind.
OnlyAcceptedAreListed ==
    \A n \in Names : registry[n] # NoRecord =>
        LET p == registry[n].pid
        IN  phase[p] \in Working \cup {"DEREGISTER"} => p \in active \cup Binders

\* When no manager command is in progress, the state that the AMS shows of a
\* live agent is the one the last command asked of it (cmd_suspend, cmd_wake).
\* It holds for one manager at a time, names that are never used again and
\* agents that keep off acl_bind: two managers can interleave signal and
\* SETSTATE the wrong way round, SETSTATE goes by name, and REGISTER_ENDPOINT
\* resets the state to "active".
StateIsTruthful ==
    (\A m \in Managers : step[m] = "idle") =>
        \A p \in Procs \ Binders :
            (phase[p] \in Working /\ registry[NameOf[p]] # NoRecord /\ registry[NameOf[p]].pid = p)
            => (registry[NameOf[p]].state = "suspended" <=> p \in suspended)

-----------------------------------------------------------------------------
(* Liveness                                                                *)

\* The directory forgets the dead: a record or a service of a process that is
\* gone, however it went and whatever request it left behind, disappears.
DeadAreForgotten ==
    \A p \in Procs :
        /\ (phase[p] = "gone" /\ \E n \in Names : registry[n] # NoRecord /\ registry[n].pid = p)
              ~> (\A n \in Names : registry[n] = NoRecord \/ registry[n].pid # p)
        /\ (phase[p] = "gone" /\ \E s \in services : s.pid = p)
              ~> (\A s \in services : s.pid # p)
=============================================================================
