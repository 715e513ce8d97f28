----------------------------- MODULE Migration ------------------------------
(***************************************************************************)
(* An agent that moves between the machines of a cluster: the departing    *)
(* side (control_Thread in src/src/core/Agent.cpp) and the migration       *)
(* servers (src/src/core/AgentFactory.cpp), with the AMS and the DF of the *)
(* master, which every copy of the agent uses under the same name.         *)
(*                                                                         *)
(* Requests to the master go over TCP with a timeout: the caller goes on   *)
(* without the answer, and the request is handled later.  The connection   *)
(* of ARRIVE waits in the backlog of the server, which is single-threaded; *)
(* it stays there when the client has given up.  Attributes are left out.  *)
(*                                                                         *)
(* RemoteControl puts these steps together with the agent manager.         *)
(***************************************************************************)
EXTENDS Integers, Sequences, FiniteSets, SequencesExt

CONSTANTS
    Procs,     \* processes the agent may run in, one after the other
    First,     \* the one it starts in
    Machines,
    Home,      \* the machine of First
    Known,     \* the machines whose AgentFactory knows the type
    Name,
    MaxMoves,  \* bound on the calls of doMove
    MaxCalls,  \* bound on the calls of UserCalls
    MaxFaults, \* bound on timeouts, crashes and failures
    NoRecord, NoIP, NoProc

ASSUME FirstIsAProc == First \in Procs /\ NoProc \notin Procs
ASSUME HomeIsAMachine == Home \in Machines /\ Known \subseteq Machines
ASSUME BoundsAreNat == MaxMoves \in Nat /\ MaxCalls \in Nat /\ MaxFaults \in Nat

A == INSTANCE AMS
D == INSTANCE DF

Calls    == {"REGISTER", "REGISTER_ENDPOINT", "DF_REGISTER", "DEREGISTER", "DF_DEREGISTER"}
Requests == Calls \X Procs
Phases   == {"unborn", "REGISTER", "run", "transit", "DEREGISTER", "DF_DEREGISTER", "gone"}
Records  == [name : {Name}, pid : Procs, state : {"active", "suspended"}, slave_ip : Machines]
Services == [agentName : {Name}, pid : Procs, slave_ip : Machines]
Arrivals == [from : Procs, attempt : 1..MaxMoves]

VARIABLES
    registry,  \* AMS::registry_
    services,  \* DF::services_
    requests,  \* to the master, not yet handled: <<call, process>>
    phase,     \* what each process does
    host,      \* where it runs
    answer,    \* what the server has answered to its ARRIVE
    backlog,   \* the connections a migration server has not accepted yet
    newborn,   \* the agent whose arrival was answered OK and that init() starts next
    serving,   \* the machines whose migration server runs
    moves,     \* calls of doMove so far, which number the attempts
    attempt,   \* the attempt a process is in, or 0
    abandoned, \* attempts given up without an answer
    calls, faults, \* so far (bounds)
    ended      \* an agent died, was deleted, or a server failed before init()

masterVars == <<registry, services, requests>>
moveVars   == <<answer, backlog, newborn, serving, moves, attempt, abandoned>>
bounds     == <<calls, faults>>
migrationVars == <<masterVars, phase, host, moveVars, bounds, ended>>

MigrationTypeOK ==
    /\ registry \in [{Name} -> Records \cup {NoRecord}]
    /\ services \subseteq Services
    /\ requests \subseteq Requests
    /\ phase \in [Procs -> Phases]
    /\ host \in [Procs -> Machines]
    /\ answer \in [Procs -> {"none", "OK", "other"}]
    /\ backlog \in [Machines -> Seq(Arrivals)]
    /\ newborn \in [Machines -> Procs \cup {NoProc}]
    /\ serving \subseteq Machines
    /\ moves \in 0..MaxMoves /\ attempt \in [Procs -> 0..MaxMoves]
    /\ abandoned \in 0..MaxFaults
    /\ calls \in 0..MaxCalls /\ faults \in 0..MaxFaults
    /\ ended \in BOOLEAN

Record(p)  == [name |-> Name, pid |-> p, state |-> "active", slave_ip |-> host[p]]
Service(p) == [agentName |-> Name, pid |-> p, slave_ip |-> host[p]]

MigrationInit ==
    /\ registry = [n \in {Name} |-> NoRecord]
    /\ services = {}
    /\ requests = {<<"REGISTER", First>>}
    /\ phase = [p \in Procs |-> IF p = First THEN "REGISTER" ELSE "unborn"]
    /\ host = [p \in Procs |-> Home]
    /\ answer = [p \in Procs |-> "none"]
    /\ backlog = [m \in Machines |-> <<>>]
    /\ newborn = [m \in Machines |-> NoProc]
    /\ serving = Machines
    /\ moves = 0
    /\ attempt = [p \in Procs |-> 0]
    /\ abandoned = 0
    /\ calls = 0 /\ faults = 0
    /\ ended = FALSE

\* The process runs the agent, and is not on its way out.
Lives(p) == phase[p] \in {"REGISTER", "run", "transit"}
Exists(p) == phase[p] \notin {"unborn", "gone"}

-----------------------------------------------------------------------------
(* The master: one connection each                                         *)

Call(c, p) == requests' = requests \cup {<<c, p>>}
Goes(p, ph) == phase' = [phase EXCEPT ![p] = ph]

Fault == faults < MaxFaults /\ faults' = faults + 1

HandleRegister(p) ==
    /\ <<"REGISTER", p>> \in requests
    /\ registry' = A!registerAgent(registry, Record(p))
    /\ requests' = requests \ {<<"REGISTER", p>>}
    /\ phase' = [phase EXCEPT ![p] = IF @ = "REGISTER" THEN "run" ELSE @]
    /\ UNCHANGED <<services, host, moveVars, ended, bounds>>

HandleEndpoint(p) ==
    /\ <<"REGISTER_ENDPOINT", p>> \in requests
    /\ registry' = A!registerEndpoint(registry, Record(p))
    /\ requests' = requests \ {<<"REGISTER_ENDPOINT", p>>}
    /\ UNCHANGED <<services, phase, host, moveVars, ended, bounds>>

HandleDFRegister(p) ==
    /\ <<"DF_REGISTER", p>> \in requests
    /\ services' = D!registerService(services, Service(p))
    /\ requests' = requests \ {<<"DF_REGISTER", p>>}
    /\ UNCHANGED <<registry, phase, host, moveVars, ended, bounds>>

\* By name; then the process calls the DF.
HandleDeregister(p) ==
    /\ <<"DEREGISTER", p>> \in requests
    /\ registry' = A!deregisterAgent(registry, Name)
    /\ IF phase[p] = "DEREGISTER"
       THEN /\ requests' = (requests \ {<<"DEREGISTER", p>>}) \cup {<<"DF_DEREGISTER", p>>}
            /\ Goes(p, "DF_DEREGISTER")
       ELSE requests' = requests \ {<<"DEREGISTER", p>>} /\ UNCHANGED phase
    /\ UNCHANGED <<services, host, moveVars, ended, bounds>>

\* By name; then the process calls _exit.
HandleDFDeregister(p) ==
    /\ <<"DF_DEREGISTER", p>> \in requests
    /\ services' = D!deregisterAgent(services, Name)
    /\ requests' = requests \ {<<"DF_DEREGISTER", p>>}
    /\ phase' = [phase EXCEPT ![p] = IF @ = "DF_DEREGISTER" THEN "gone" ELSE @]
    /\ UNCHANGED <<registry, host, moveVars, ended, bounds>>

\* socketTimeout seconds have passed: the caller takes it that the platform is
\* not there, and goes on.
CallTimesOut(p) ==
    /\ Fault
    /\ <<phase[p], p>> \in requests
    /\ \/ phase[p] = "REGISTER" /\ Goes(p, "run") /\ UNCHANGED requests
       \/ phase[p] = "DEREGISTER" /\ Goes(p, "DF_DEREGISTER") /\ Call("DF_DEREGISTER", p)
       \/ phase[p] = "DF_DEREGISTER" /\ Goes(p, "gone") /\ UNCHANGED requests
    /\ UNCHANGED <<registry, services, host, moveVars, ended, calls>>

Handle(p) ==
    \/ HandleRegister(p) \/ HandleEndpoint(p) \/ HandleDFRegister(p)
    \/ HandleDeregister(p) \/ HandleDFDeregister(p)

-----------------------------------------------------------------------------
(* The agent                                                               *)

\* acl_bind or DFClient::registerService, from a behaviour.  (Behaviours go on
\* while control_Thread is in a migration.)
UserCalls(p) ==
    /\ phase[p] \in {"run", "transit"}
    /\ calls < MaxCalls /\ calls' = calls + 1
    /\ \E c \in {"REGISTER_ENDPOINT", "DF_REGISTER"} : <<c, p>> \notin requests /\ Call(c, p)
    /\ UNCHANGED <<registry, services, phase, host, moveVars, ended, faults>>

\* doMove(target): connect, and write ARRIVE.
Depart(p, m) ==
    /\ phase[p] = "run" /\ m \in serving /\ moves < MaxMoves
    /\ moves' = moves + 1
    /\ attempt' = [attempt EXCEPT ![p] = moves']
    /\ backlog' = [backlog EXCEPT ![m] = Append(@, [from |-> p, attempt |-> moves'])]
    /\ Goes(p, "transit")
    /\ UNCHANGED <<masterVars, host, answer, newborn, serving, abandoned, ended, bounds>>

\* connect() fails: nobody listens at the target.  (A type without a name is
\* not sent at all, to the same effect.)
DepartRefused(p, m) ==
    /\ phase[p] = "run" /\ m \notin serving /\ moves < MaxMoves
    /\ moves' = moves + 1
    /\ UNCHANGED <<masterVars, phase, host, answer, backlog, newborn, serving, attempt,
                   abandoned, ended, bounds>>

\* Mutant of Departed: any answer will do.
DepartedAnyway(p) ==
    /\ phase[p] = "transit" /\ answer[p] # "none"
    /\ answer' = [answer EXCEPT ![p] = "none"]
    /\ attempt' = [attempt EXCEPT ![p] = 0]
    /\ Goes(p, "DEREGISTER") /\ Call("DEREGISTER", p)
    /\ UNCHANGED <<registry, services, host, backlog, newborn, serving, moves,
                   abandoned, ended, bounds>>

\* Mutant of Departed: the agent resumes all the same.
DepartedNot(p) ==
    /\ phase[p] = "transit" /\ answer[p] = "OK"
    /\ answer' = [answer EXCEPT ![p] = "none"]
    /\ attempt' = [attempt EXCEPT ![p] = 0]
    /\ Goes(p, "run")
    /\ UNCHANGED <<masterVars, host, backlog, newborn, serving, moves, abandoned,
                   ended, bounds>>

\* read() returns OK: deregister, and exit.
Departed(p) ==
    /\ phase[p] = "transit" /\ answer[p] = "OK"
    /\ answer' = [answer EXCEPT ![p] = "none"]
    /\ attempt' = [attempt EXCEPT ![p] = 0]
    /\ Goes(p, "DEREGISTER") /\ Call("DEREGISTER", p)
    /\ UNCHANGED <<registry, services, host, backlog, newborn, serving, moves,
                   abandoned, ended, bounds>>

\* read() returns something else, or the end of the connection: resume.
NotDeparted(p) ==
    /\ phase[p] = "transit" /\ answer[p] = "other"
    /\ answer' = [answer EXCEPT ![p] = "none"]
    /\ attempt' = [attempt EXCEPT ![p] = 0]
    /\ Goes(p, "run")
    /\ UNCHANGED <<masterVars, host, backlog, newborn, serving, moves, abandoned,
                   ended, bounds>>

\* read() has waited for socketTimeout seconds: resume.
GiveUp(p) ==
    /\ Fault
    /\ phase[p] = "transit" /\ answer[p] = "none"
    /\ abandoned' = abandoned + 1
    /\ attempt' = [attempt EXCEPT ![p] = 0]
    /\ Goes(p, "run")
    /\ UNCHANGED <<masterVars, host, answer, backlog, newborn, serving, moves, ended, calls>>

\* doDelete, from a behaviour or, by signal, from a manager.
Delete(p) ==
    /\ phase[p] \in {"run", "transit"}
    /\ attempt' = [attempt EXCEPT ![p] = 0] /\ answer' = [answer EXCEPT ![p] = "none"]
    /\ Goes(p, "DEREGISTER") /\ Call("DEREGISTER", p)
    /\ ended' = TRUE
    /\ UNCHANGED <<registry, services, host, backlog, newborn, serving, moves, abandoned,
                   bounds>>

Crash(p) ==
    /\ Fault
    /\ Exists(p)
    /\ attempt' = [attempt EXCEPT ![p] = 0] /\ answer' = [answer EXCEPT ![p] = "none"]
    /\ Goes(p, "gone")
    /\ ended' = (ended \/ Lives(p))
    /\ UNCHANGED <<masterVars, host, backlog, newborn, serving, moves, abandoned, calls>>

-----------------------------------------------------------------------------
(* The migration servers                                                   *)

\* The client still waits for the answer to this ARRIVE.
Waiting(a) == phase[a.from] = "transit" /\ attempt[a.from] = a.attempt /\ answer[a.from] = "none"

Answered(a, what) == [answer EXCEPT ![a.from] = IF Waiting(a) THEN what ELSE @]

\* handle_migration: the type is unknown here.
Refuse(m) ==
    /\ m \in serving \ Known /\ newborn[m] = NoProc /\ backlog[m] # <<>>
    /\ answer' = Answered(Head(backlog[m]), "other")
    /\ backlog' = [backlog EXCEPT ![m] = Tail(@)]
    /\ UNCHANGED <<masterVars, phase, host, newborn, serving, moves, attempt, abandoned,
                   ended, bounds>>

\* handle_migration: the agent is made and the answer written, before ...
Accept(m) ==
    /\ m \in serving \cap Known /\ newborn[m] = NoProc /\ backlog[m] # <<>>
    /\ answer' = Answered(Head(backlog[m]), "OK")
    /\ backlog' = [backlog EXCEPT ![m] = Tail(@)]
    /\ \E q \in Procs :
          /\ phase[q] = "unborn" /\ \A o \in Machines : newborn[o] # q
          /\ newborn' = [newborn EXCEPT ![m] = q]
          /\ host' = [host EXCEPT ![q] = m]
    /\ UNCHANGED <<masterVars, phase, serving, moves, attempt, abandoned, ended, bounds>>

\* ... init() forks, and the copy registers.
Arrive(m) ==
    /\ m \in serving /\ newborn[m] # NoProc
    /\ Goes(newborn[m], "REGISTER") /\ Call("REGISTER", newborn[m])
    /\ newborn' = [newborn EXCEPT ![m] = NoProc]
    /\ UNCHANGED <<registry, services, host, answer, backlog, serving, moves, attempt,
                   abandoned, ended, bounds>>

\* The process of the server ends, by itself or because fork() fails and init()
\* throws; connections that wait are closed.
ServerFails(m) ==
    /\ Fault
    /\ m \in serving
    /\ serving' = serving \ {m}
    /\ ended' = (ended \/ newborn[m] # NoProc)
    /\ newborn' = [newborn EXCEPT ![m] = NoProc]
    /\ backlog' = [backlog EXCEPT ![m] = <<>>]
    /\ answer' = [p \in Procs |-> IF \E a \in ToSet(backlog[m]) : a.from = p /\ Waiting(a)
                                  THEN "other" ELSE answer[p]]
    /\ UNCHANGED <<masterVars, phase, host, moves, attempt, abandoned, calls>>

-----------------------------------------------------------------------------
ServerStep(m) == Refuse(m) \/ Accept(m) \/ Arrive(m)

-----------------------------------------------------------------------------
(* Properties                                                              *)

\* Agent.cpp, AGENT_TRANSIT: a migration never loses the agent.  Whatever is
\* refused, late or given up, some process runs it, or a server that has
\* answered OK is about to start it, unless a process died or was deleted, or
\* that server failed at this very point.
AgentIsNeverLost ==
    ended \/ (\E p \in Procs : Lives(p)) \/ (\E m \in Machines : newborn[m] # NoProc)

\* A migration copies the agent only when its answer is given up: with k such
\* attempts at most k + 1 processes run it or are about to (a process that is
\* in transit apart, whose successor may already run).
CopiesMeanTimeouts ==
    Cardinality({p \in Procs : phase[p] \in {"REGISTER", "run"}}
                \cup ({newborn[m] : m \in Machines} \ {NoProc})) <= 1 + abandoned
=============================================================================
