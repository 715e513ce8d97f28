---------------------------- MODULE RemoteControl ---------------------------
(***************************************************************************)
(* The agent manager in a cluster (src/platform/manager/Manager.cpp) and   *)
(* the control servers of the slaves (src/platform/main.cpp), acting on an *)
(* agent that migrates (Migration): kill, suspend and wake go to the       *)
(* machine and the pid that LOOKUP answered, SETSTATE to the name.         *)
(*                                                                         *)
(* The agent's own calls change runingThred too, and nobody tells the AMS. *)
(*                                                                         *)
(* One command runs at a time.  Commands list, watch and df search only    *)
(* read here: a remote agent is never purged by LIST or SEARCH.            *)
(***************************************************************************)
EXTENDS Migration

CONSTANT MaxCommands   \* bound on the commands of the manager

ASSUME MaxCommandsIsNat == MaxCommands \in Nat

Commands == {"KILL", "SUSPEND", "WAKE"}
Steps    == {"idle", "connect", "read", "SETSTATE"}

\* What a command asks of a process; numbered, for a late order is not the new one.
Orders  == [cmd : Commands, pid : Procs, nr : 1..MaxCommands]
NoOrder == [cmd |-> "none", pid |-> First, nr |-> 0]

VARIABLES
    step,      \* where the manager is
    cmd,       \* the command it executes
    target,    \* the record its LOOKUP found
    orders,    \* read by no control server yet
    awaited,   \* the order whose answer the manager waits for, or NoOrder
    signals,   \* the orders whose signal was sent and is not handled yet
    suspended, \* the processes whose runingThred is false
    commands,  \* issued so far (bound)
    clean,     \* history: nothing has crossed the command under way
    disturbed  \* history: processes that something has put out of step with
               \* the AMS since the last command that nothing crossed

mgrVars == <<step, cmd, target, orders, awaited, signals, commands>>
doubts  == <<clean, disturbed>>
vars    == <<migrationVars, mgrVars, suspended, doubts>>

TypeOK ==
    /\ MigrationTypeOK
    /\ step \in Steps /\ cmd \in Commands \cup {"none"}
    /\ target \in Records \cup {NoRecord}
    /\ orders \subseteq Orders /\ awaited \in Orders \cup {NoOrder}
    /\ signals \subseteq Orders
    /\ suspended \subseteq Procs
    /\ commands \in 0..MaxCommands
    /\ clean \in BOOLEAN /\ disturbed \subseteq Procs

Init ==
    /\ MigrationInit
    /\ step = "idle" /\ cmd = "none" /\ target = NoRecord
    /\ orders = {} /\ awaited = NoOrder
    /\ signals = {}
    /\ suspended = {}
    /\ commands = 0
    /\ clean = TRUE /\ disturbed = {}

Listed(p) == registry[Name] # NoRecord /\ registry[Name].pid = p

\* A command is under way on this process.
OnP(p) == step # "idle" /\ target.pid = p

\* Orders and signals on their way to a process that will suspend or wake it.
Ordered(p) == {o \in orders : o.pid = p /\ o.cmd # "KILL"}
Sent(p)    == {o \in signals : o.pid = p /\ o.cmd # "KILL"}
Pending(p) == Ordered(p) \cup Sent(p) # {}

-----------------------------------------------------------------------------
(* The manager: send_signal, cmd_kill, cmd_suspend, cmd_wake               *)

\* The manager's process ends.
CommandEnds == step' = "idle" /\ cmd' = "none" /\ target' = NoRecord

\* LOOKUP; the name may be unknown.
Lookup ==
    /\ step = "idle" /\ commands < MaxCommands
    /\ commands' = commands + 1
    /\ IF registry[Name] = NoRecord
       THEN UNCHANGED <<step, cmd, target, clean>>
       ELSE /\ step' = "connect" /\ target' = registry[Name] /\ cmd' \in Commands
            /\ clean' = ~Pending(target'.pid)
    /\ UNCHANGED <<migrationVars, orders, awaited, signals, suspended, disturbed>>

\* LIST_SLAVES for the port; connect, and write the order.
SendOrder ==
    /\ step = "connect"
    /\ awaited' = [cmd |-> cmd, pid |-> target.pid, nr |-> commands]
    /\ orders' = orders \cup {awaited'}
    /\ step' = "read"
    /\ UNCHANGED <<migrationVars, cmd, target, signals, commands, suspended, doubts>>

\* No control server on the machine, or not at this port.
Unreachable ==
    /\ step = "connect"
    /\ CommandEnds
    /\ UNCHANGED <<migrationVars, orders, awaited, signals, commands, suspended, doubts>>

\* No answer within 3 seconds: the command has failed, for the manager.
ReadTimesOut ==
    /\ step = "read" /\ Fault
    /\ CommandEnds /\ awaited' = NoOrder
    /\ disturbed' = IF cmd = "KILL" THEN disturbed ELSE disturbed \cup {target.pid}
    /\ UNCHANGED <<masterVars, phase, host, moveVars, calls, ended,
                   orders, signals, commands, suspended, clean>>

\* The process this command was for and the one whose record it writes are in
\* step again if they are the same and nothing crossed the command, and out of
\* step otherwise.
Settles ==
    disturbed' = IF clean /\ Listed(target.pid) THEN disturbed \ {target.pid}
                 ELSE disturbed \cup {p \in Procs : p = target.pid \/ Listed(p)}

\* Mutant of SetState: the state is recorded the wrong way round.
SetStateSwapped ==
    /\ step = "SETSTATE"
    /\ registry' = A!setState(registry, Name, IF cmd = "WAKE" THEN "suspended" ELSE "active")
    /\ Settles
    /\ CommandEnds
    /\ UNCHANGED <<services, requests, phase, host, moveVars, bounds, ended,
                   orders, awaited, signals, commands, suspended, clean>>

\* SETSTATE by name, whoever is listed under it by now.
SetState ==
    /\ step = "SETSTATE"
    /\ registry' = A!setState(registry, Name, IF cmd = "SUSPEND" THEN "suspended" ELSE "active")
    /\ Settles
    /\ CommandEnds
    /\ UNCHANGED <<services, requests, phase, host, moveVars, bounds, ended,
                   orders, awaited, signals, commands, suspended, clean>>

-----------------------------------------------------------------------------
(* A control server, and the signal                                        *)

\* handle_control: sigqueue, and OK whatever it returned.
HandleControl(o) ==
    /\ o \in orders
    /\ orders' = orders \ {o}
    /\ signals' = IF Exists(o.pid) THEN signals \cup {o} ELSE signals
    /\ IF awaited # o THEN UNCHANGED <<step, cmd, target, awaited>>
       ELSE /\ awaited' = NoOrder
            /\ IF cmd = "KILL" THEN CommandEnds
               ELSE step' = "SETSTATE" /\ UNCHANGED <<cmd, target>>
    /\ UNCHANGED <<migrationVars, commands, suspended, doubts>>

\* signal_handler in the agent's process, KILL.  (Nothing locks it out.)
KillHandled(o) ==
    /\ o \in signals /\ o.cmd = "KILL"
    /\ signals' = signals \ {o}
    /\ Delete(o.pid)
    /\ UNCHANGED <<step, cmd, target, orders, awaited, commands, suspended, doubts>>

\* SUSPEND or WAKE: posted, and taken by control_Thread once no migration
\* holds its mutex.
SignalHandled(o) ==
    /\ o \in signals /\ o.cmd # "KILL" /\ phase[o.pid] = "run"
    /\ signals' = signals \ {o}
    /\ suspended' = IF o.cmd = "SUSPEND" THEN suspended \cup {o.pid} ELSE suspended \ {o.pid}
    /\ UNCHANGED <<migrationVars, step, cmd, target, orders, awaited, commands, doubts>>

-----------------------------------------------------------------------------
(* The agent, which the AMS does not hear about                            *)

\* runingThred of p changes without a SETSTATE.
Crosses(p) ==
    IF suspended' = suspended THEN UNCHANGED doubts
    ELSE disturbed' = disturbed \cup {p} /\ clean' = (clean /\ ~OnP(p))

\* doSuspend, doWait, doWake or doActivate, called by a behaviour or by the
\* process that started the agent: posted and taken.  (What doActivate leaves in
\* runingThred depends on the moment, AgentLifecycle.)
SelfPosts(p) ==
    /\ phase[p] = "run" /\ calls < MaxCalls
    /\ calls' = calls + 1
    /\ \/ suspended' = suspended \cup {p}
       \/ suspended' = suspended \ {p}
    /\ Crosses(p)
    /\ UNCHANGED <<masterVars, phase, host, moveVars, faults, ended, mgrVars>>

\* A migration that fails sets runingThred.
ResumeStep(p) ==
    /\ NotDeparted(p) \/ GiveUp(p) \/ \E m \in Machines : DepartRefused(p, m)
    /\ suspended' = suspended \ {p}
    /\ Crosses(p)
    /\ UNCHANGED mgrVars

\* Registration makes an "active" record, also of a process that a command has
\* suspended, or is about to.
MasterStep(p) ==
    /\ Handle(p)
    /\ disturbed' = IF registry' = registry \/ registry'[Name] = NoRecord THEN disturbed
                    ELSE IF p \in suspended \/ Pending(p) THEN disturbed \cup {p}
                    ELSE disturbed \ {p}
    /\ UNCHANGED <<mgrVars, suspended, clean>>

\* The others are as in Migration; agents move to other machines than their own.
OtherStep ==
    /\ \/ \E p \in Procs : CallTimesOut(p) \/ Departed(p) \/ UserCalls(p) \/ Delete(p) \/ Crash(p)
       \/ \E p \in Procs : \E m \in Machines \ {host[p]} : Depart(p, m)
       \/ \E m \in Machines : ServerStep(m) \/ ServerFails(m)
    /\ UNCHANGED <<mgrVars, suspended, doubts>>

ManagerStep == SendOrder \/ Unreachable \/ ReadTimesOut \/ SetState

Next ==
    \/ Lookup \/ ManagerStep
    \/ \E o \in Orders : HandleControl(o) \/ KillHandled(o) \/ SignalHandled(o)
    \/ \E p \in Procs : MasterStep(p) \/ ResumeStep(p) \/ SelfPosts(p)
    \/ OtherStep

Spec == Init /\ [][Next]_vars

-----------------------------------------------------------------------------
(* Properties                                                              *)

\* cmd_suspend and cmd_wake: the state that the AMS shows of a running agent is
\* what its runingThred says, once no command, order or signal is on the way to
\* it.  The record may only be wrong
\*   - after the answer to an order was lost,
\*   - after SETSTATE met another copy than the one the order went to, or nobody
\*     (the copy it met and the one it was for),
\*   - after the agent itself, its parent or a failed migration set runingThred,
\*   - after a suspended agent, or one that is about to be, was registered anew,
\*   - after a command that began while an earlier one's order or signal was on
\*     its way to the same process;
\* and whichever of these happened, the next command on that process that none
\* of them crosses makes the record right again.
RemoteStateIsTruthful ==
    \A p \in Procs :
        phase[p] = "run" /\ Listed(p) /\ ~OnP(p) /\ ~Pending(p) /\ p \notin disturbed =>
            (registry[Name].state = "suspended" <=> p \in suspended)
=============================================================================
