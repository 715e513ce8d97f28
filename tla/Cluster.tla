------------------------------ MODULE Cluster -------------------------------
(***************************************************************************)
(* A platform in master/slave mode, seen from the master: the AMS and DF   *)
(* registries, the SlaveRegistry with its watchdog, the platform process   *)
(* of each slave machine (REGISTER_SLAVE, HEARTBEAT, DEREGISTER_SLAVE) and *)
(* the agents those machines run (src/platform/SlaveRegistry.cpp,          *)
(* src/platform/ams/AMS.cpp, src/platform/df/DF.cpp,                       *)
(* src/platform/main.cpp).                                                 *)
(*                                                                         *)
(* Each registry has a lock of its own, so a handler or a watchdog round   *)
(* that touches several is several steps.  The 15 seconds without a        *)
(* heartbeat are a flag: a machine that is down falls silent sooner or     *)
(* later, one that is up does so at most MaxSilences times (lost or late   *)
(* heartbeats).                                                            *)
(*                                                                         *)
(* A machine has two addresses: the one its connections come from, which   *)
(* REGISTER_SLAVE takes (getpeername), and the one it announces in         *)
(* HEARTBEAT, DEREGISTER_SLAVE and its agents' records.  They are one      *)
(* unless the platform is started with --ip.                               *)
(***************************************************************************)
EXTENDS Integers, FiniteSets

CONSTANTS
    Slaves,      \* slave machines
    IPs,         \* the addresses of their interfaces
    Peer,        \* [Slaves -> IPs], peer_ip: where the master sees them come from
    Ip,          \* [Slaves -> IPs], slave_ip: what they announce
    Agents,      \* agents, each with a name of its own
    Host,        \* [Agents -> Slaves]
    MaxJoins,    \* [Slaves -> Nat], bound: how often a platform process starts
    MaxSilences, \* bound: heartbeat gaps of more than 15 s of live slaves
    NoRecord, NoIP

ASSUME HostIsTotal == Host \in [Agents -> Slaves]
ASSUME AddressesAreTotal == Peer \in [Slaves -> IPs] /\ Ip \in [Slaves -> IPs] /\ NoIP \notin IPs
ASSUME BoundsAreNat == MaxJoins \in [Slaves -> Nat] /\ MaxSilences \in Nat

A == INSTANCE AMS
D == INSTANCE DF

\* The pid of an agent process is modelled by the number of REGISTER_SLAVEs of
\* its machine that were handled before it registered.
Records  == [name : Agents, pid : Nat \ {0}, state : {"active"}, slave_ip : IPs]
Services == [agentName : Agents, pid : Nat \ {0}, slave_ip : IPs]

\* A machine without --ip.
Plain(s) == Ip[s] = Peer[s]

ASSUME NoRecordIsNone == NoRecord \notin Records

VARIABLES
    registry,   \* AMS::registry_
    services,   \* DF::services_
    slaves,     \* the keys of SlaveRegistry::slaves_
    silent,     \* those whose last_heartbeat is too old
    platform,   \* the platform process of each machine
    calls,      \* the master's handlers that are between their two registries
    joins,      \* REGISTER_SLAVEs of each machine handled so far
    cfg,        \* is there a /tmp/gagent.cfg on the machine?
    agent,      \* each agent process
    born,       \* joins of its machine when it registered
    doomed,     \* the watchdog's list of dead slaves, not yet dealt with
    wd,         \* how far the watchdog is with the slave it purges
    victim,     \* that slave
    silences,   \* heartbeat gaps of live slaves so far (bound)
    rebound     \* history: agents bound since the last REGISTER_SLAVE of their
                \* machine by a process that is older than that

vars == <<registry, services, slaves, silent, platform, calls, joins, cfg, agent, born,
          doomed, wd, victim, silences, rebound>>
slaveVars == <<slaves, silent, platform, calls, joins, cfg>>
wdVars    == <<doomed, wd, victim>>
agentVars == <<agent, born>>

TypeOK ==
    /\ registry \in [Agents -> Records \cup {NoRecord}]
    /\ services \subseteq Services
    /\ slaves \subseteq IPs
    /\ silent \subseteq slaves
    /\ platform \in [Slaves -> {"off", "joining", "up", "leaving"}]
    /\ calls \subseteq {"REGISTER_SLAVE", "DEREGISTER_SLAVE"} \X Slaves
    /\ joins \in [Slaves -> Nat]
    /\ cfg \in [Slaves -> BOOLEAN]
    /\ agent \in [Agents -> {"off", "on", "leaving"}]
    /\ born \in [Agents -> Nat]
    /\ doomed \subseteq IPs
    /\ wd \in {"sleep", "AMS", "DF", "erase"}
    /\ victim \in IPs \cup {NoIP}
    /\ silences \in 0..MaxSilences
    /\ rebound \subseteq Agents

Init ==
    /\ registry = [a \in Agents |-> NoRecord]
    /\ services = {}
    /\ slaves = {}
    /\ silent = {}
    /\ platform = [s \in Slaves |-> "off"]
    /\ calls = {}
    /\ joins = [s \in Slaves |-> 0]
    /\ cfg = [s \in Slaves |-> FALSE]
    /\ agent = [a \in Agents |-> "off"]
    /\ born = [a \in Agents |-> 0]
    /\ doomed = {}
    /\ wd = "sleep"
    /\ victim = NoIP
    /\ silences = 0
    /\ rebound = {}

-----------------------------------------------------------------------------
(* The platform process of a slave, and the handlers of its requests       *)

\* No handler of an earlier request of this machine is still at work: a
\* machine takes longer to start than a handler to return.
Starts(s) ==
    /\ platform[s] = "off" /\ joins[s] < MaxJoins[s]
    /\ \A c \in calls : c[2] # s
    /\ platform' = [platform EXCEPT ![s] = "joining"]
    /\ calls' = calls \cup {<<"REGISTER_SLAVE", s>>}
    /\ joins' = [joins EXCEPT ![s] = @ + 1]
    /\ rebound' = {a \in rebound : Host[a] # s}

\* Mutant of Join: the AMS is not purged.
JoinWithoutPurge(s) ==
    /\ Starts(s)
    /\ UNCHANGED <<registry, services, slaves, silent, cfg, agentVars, wdVars, silences>>

\* The platform process starts.  REGISTER_SLAVE: AMS::deregisterSlave of the
\* peer's address (reconnection after a crash) ...
Join(s) ==
    /\ Starts(s)
    /\ registry' = A!deregisterSlave(registry, Peer[s])
    /\ UNCHANGED <<services, slaves, silent, cfg, agentVars, wdVars, silences>>

\* ... then SlaveRegistry::registerSlave, under that address; a slave that
\* still waits for the answer writes its gagent.cfg and goes on.
Joined(s) ==
    /\ <<"REGISTER_SLAVE", s>> \in calls
    /\ calls' = calls \ {<<"REGISTER_SLAVE", s>>}
    /\ platform' = [platform EXCEPT ![s] = IF @ = "joining" THEN "up" ELSE @]
    /\ cfg' = [cfg EXCEPT ![s] = @ \/ platform[s] = "joining"]
    /\ slaves' = slaves \cup {Peer[s]}
    /\ silent' = silent \ {Peer[s]}
    /\ UNCHANGED <<registry, services, joins, agentVars, wdVars, silences, rebound>>

\* HEARTBEAT: ignored for an address the registry does not know.
Heartbeat(s) ==
    /\ platform[s] \in {"up", "leaving"} /\ Ip[s] \in silent
    /\ silent' = silent \ {Ip[s]}
    /\ UNCHANGED <<registry, services, slaves, platform, calls, joins, cfg, agentVars,
                   wdVars, silences, rebound>>

\* DEREGISTER_SLAVE on SIGTERM: AMS::deregisterSlave ...
Leave(s) ==
    /\ platform[s] = "up"
    /\ platform' = [platform EXCEPT ![s] = "leaving"]
    /\ calls' = calls \cup {<<"DEREGISTER_SLAVE", s>>}
    /\ registry' = A!deregisterSlave(registry, Ip[s])
    /\ UNCHANGED <<services, slaves, silent, joins, cfg, agentVars, wdVars, silences,
                   rebound>>

\* The platform process, told to stop, has its answer or has waited for it long
\* enough: it removes gagent.cfg and exits.
Exits(s) ==
    /\ platform' = [platform EXCEPT ![s] = IF @ = "leaving" THEN "off" ELSE @]
    /\ cfg' = [cfg EXCEPT ![s] = @ /\ platform[s] # "leaving"]

\* ... then SlaveRegistry::deregisterSlave.  The agents' processes live on.
Left(s) ==
    /\ <<"DEREGISTER_SLAVE", s>> \in calls
    /\ calls' = calls \ {<<"DEREGISTER_SLAVE", s>>}
    /\ Exits(s)
    /\ slaves' = slaves \ {Ip[s]}
    /\ silent' = silent \ {Ip[s]}
    /\ UNCHANGED <<registry, services, joins, agentVars, wdVars, silences, rebound>>

\* tcp_request has waited 3 s for the answer to DEREGISTER_SLAVE.
GivesUp(s) ==
    /\ platform[s] = "leaving"
    /\ Exits(s)
    /\ UNCHANGED <<registry, services, slaves, silent, calls, joins, agentVars, wdVars,
                   silences, rebound>>

\* The platform process ends alone: no answer to REGISTER_SLAVE, a signal, an
\* exception.  The agents it forked and gagent.cfg stay.
PlatformDies(s) ==
    /\ platform[s] # "off"
    /\ platform' = [platform EXCEPT ![s] = "off"]
    /\ UNCHANGED <<registry, services, slaves, silent, calls, joins, cfg, agentVars,
                   wdVars, silences, rebound>>

\* The machine fails, with everything that runs on it; /tmp may be emptied when
\* it starts again.
MachineCrash(s) ==
    /\ platform' = [platform EXCEPT ![s] = "off"]
    /\ agent' = [a \in Agents |-> IF Host[a] = s THEN "off" ELSE agent[a]]
    /\ \E kept \in BOOLEAN : cfg' = [cfg EXCEPT ![s] = @ /\ kept]
    /\ UNCHANGED <<registry, services, slaves, silent, calls, joins, born, wdVars,
                   silences, rebound>>

\* A platform process sends heartbeats with this address.
Announced(ip) == \E s \in Slaves : platform[s] = "up" /\ Ip[s] = ip

\* More than timeout_s seconds since the last heartbeat.
FallSilent(ip) ==
    /\ ip \in slaves \ silent /\ ~Announced(ip)
    /\ silent' = silent \cup {ip}
    /\ UNCHANGED <<registry, services, slaves, platform, calls, joins, cfg, agentVars,
                   wdVars, silences, rebound>>

HeartbeatGap(ip) ==
    /\ ip \in slaves \ silent /\ Announced(ip) /\ silences < MaxSilences
    /\ silent' = silent \cup {ip}
    /\ silences' = silences + 1
    /\ UNCHANGED <<registry, services, slaves, platform, calls, joins, cfg, agentVars,
                   wdVars, rebound>>

-----------------------------------------------------------------------------
(* The agents                                                              *)

Record(a, i)  == [name |-> a, pid |-> i, state |-> "active", slave_ip |-> Ip[Host[a]]]
Service(a, i) == [agentName |-> a, pid |-> i, slave_ip |-> Ip[Host[a]]]

\* A process is started and registers with the master gagent.cfg names, whether
\* or not the platform process of its own machine is there; the name may still
\* be taken by its own ghost.
AgentStart(a) ==
    /\ agent[a] = "off" /\ cfg[Host[a]]
    /\ agent' = [agent EXCEPT ![a] = "on"]
    /\ born' = [born EXCEPT ![a] = joins[Host[a]]]
    /\ registry' = A!registerAgent(registry, Record(a, joins[Host[a]]))
    /\ UNCHANGED <<services, slaveVars, wdVars, silences, rebound>>

\* acl_bind: REGISTER_ENDPOINT creates or overwrites.
AgentBinds(a) ==
    /\ agent[a] = "on"
    /\ registry' = A!registerEndpoint(registry, Record(a, born[a]))
    /\ rebound' = IF born[a] = joins[Host[a]] THEN rebound ELSE rebound \cup {a}
    /\ UNCHANGED <<services, slaveVars, agentVars, wdVars, silences>>

AgentAdvertises(a) ==
    /\ agent[a] = "on"
    /\ services' = D!registerService(services, Service(a, born[a]))
    /\ UNCHANGED <<registry, slaveVars, agentVars, wdVars, silences, rebound>>

\* doDelete: the AMS ...
AgentLeavesAMS(a) ==
    /\ agent[a] = "on"
    /\ agent' = [agent EXCEPT ![a] = "leaving"]
    /\ registry' = A!deregisterAgent(registry, a)
    /\ UNCHANGED <<services, slaveVars, born, wdVars, silences, rebound>>

\* ... then the DF, then _exit.
AgentLeavesDF(a) ==
    /\ agent[a] = "leaving"
    /\ agent' = [agent EXCEPT ![a] = "off"]
    /\ services' = D!deregisterAgent(services, a)
    /\ UNCHANGED <<registry, slaveVars, born, wdVars, silences, rebound>>

AgentCrash(a) ==
    /\ agent[a] # "off"
    /\ agent' = [agent EXCEPT ![a] = "off"]
    /\ UNCHANGED <<registry, services, slaveVars, born, wdVars, silences, rebound>>

-----------------------------------------------------------------------------
(* The watchdog                                                            *)

\* Collect the dead slaves under the lock of the SlaveRegistry.
WatchdogScans ==
    /\ wd = "sleep" /\ doomed = {} /\ silent # {}
    /\ doomed' = silent
    /\ UNCHANGED <<registry, services, slaveVars, agentVars, wd, victim, silences,
                   rebound>>

WatchdogPicks ==
    /\ wd = "sleep"
    /\ \E ip \in doomed :
          /\ victim' = ip
          /\ doomed' = doomed \ {ip}
    /\ wd' = "AMS"
    /\ UNCHANGED <<registry, services, slaveVars, agentVars, silences, rebound>>

WatchdogPurgesAMS ==
    /\ wd = "AMS"
    /\ wd' = "DF"
    /\ registry' = A!deregisterSlave(registry, victim)
    /\ UNCHANGED <<services, slaveVars, agentVars, doomed, victim, silences, rebound>>

\* Mutant of WatchdogPurgesDF: the DF is left alone.
WatchdogSkipsDF ==
    /\ wd = "DF"
    /\ wd' = "erase"
    /\ UNCHANGED <<registry, services, slaveVars, agentVars, doomed, victim, silences,
                   rebound>>

WatchdogPurgesDF ==
    /\ wd = "DF"
    /\ wd' = "erase"
    /\ services' = D!deregisterSlave(services, victim)
    /\ UNCHANGED <<registry, slaveVars, agentVars, doomed, victim, silences, rebound>>

\* Mutant of WatchdogErases: the slave is not erased.
WatchdogForgets ==
    /\ wd = "erase"
    /\ wd' = "sleep"
    /\ victim' = NoIP
    /\ UNCHANGED <<registry, services, slaveVars, agentVars, doomed, silences, rebound>>

\* slaves_.erase, without looking at last_heartbeat again.
WatchdogErases ==
    /\ wd = "erase"
    /\ wd' = "sleep"
    /\ slaves' = slaves \ {victim}
    /\ silent' = silent \ {victim}
    /\ victim' = NoIP
    /\ UNCHANGED <<registry, services, platform, calls, joins, cfg, agentVars, doomed,
                   silences, rebound>>

Watchdog ==
    WatchdogScans \/ WatchdogPicks \/ WatchdogPurgesAMS \/ WatchdogPurgesDF \/ WatchdogErases

-----------------------------------------------------------------------------
SlaveStep(s) ==
    \/ Join(s) \/ Joined(s) \/ Heartbeat(s) \/ Leave(s) \/ Left(s)
    \/ GivesUp(s) \/ PlatformDies(s) \/ MachineCrash(s)

AgentStep(a) ==
    \/ AgentStart(a) \/ AgentBinds(a) \/ AgentAdvertises(a)
    \/ AgentLeavesAMS(a) \/ AgentLeavesDF(a) \/ AgentCrash(a)

Next ==
    \/ \E s \in Slaves : SlaveStep(s)
    \/ \E ip \in IPs : FallSilent(ip) \/ HeartbeatGap(ip)
    \/ \E a \in Agents : AgentStep(a)
    \/ Watchdog

Spec == Init /\ [][Next]_vars

\* The watchdog thread runs, handlers finish, and time passes for an address
\* that no machine announces.  Nothing forces a machine to come back,
\* to fail or to be on time.
Fairness ==
    /\ WF_vars(Watchdog)
    /\ \A ip \in IPs : WF_vars(FallSilent(ip))
    /\ \A s \in Slaves : WF_vars(Joined(s)) /\ WF_vars(Left(s))

FairSpec == Spec /\ Fairness

-----------------------------------------------------------------------------
(* Properties                                                              *)

\* AMS.cpp, REGISTER_SLAVE ("Purge les anciens agents de cet esclave"): from the
\* moment the handler has purged the AMS, every record of the machine is that of
\* a process that registered after it, or that outlived it and has bound again
\* since: no process that ended before the machine came back is listed, whatever
\* the platform process, its agents, heartbeats and the watchdog did meanwhile.
\* Machines started with --ip are excepted: REGISTER_SLAVE purges their peer_ip
\* and their agents' records carry the address given with --ip.
RejoinPurgesAMS ==
    \A a \in A!Listed(registry) :
        Plain(Host[a]) => registry[a].pid = joins[Host[a]] \/ a \in rebound

\* A machine that stays down is forgotten by the registry: the watchdog gets
\* to it even when it is busy with others or the machine came and went.
DeadSlaveIsForgotten ==
    \A s \in Slaves :
        (platform[s] = "off") ~> (platform[s] # "off" \/ Peer[s] \notin slaves)

AgentsOff(s) == \A a \in Agents : Host[a] = s => agent[a] = "off"

\* Neither the AMS nor the DF lists anything of the machine.
Purged(s) ==
    /\ \A a \in A!Listed(registry) : registry[a].slave_ip # Ip[s]
    /\ \A v \in services : v.slave_ip # Ip[s]

\* Nothing runs on the machine, and the registry has it for the watchdog to
\* find: no request of it is being handled, no round of the watchdog is
\* already past it.
FailedWhileKnown(s) ==
    /\ platform[s] = "off" /\ AgentsOff(s)
    /\ \A c \in calls : c[2] # s
    /\ Peer[s] \in slaves \ doomed /\ victim # Peer[s]

\* The agents and services of a machine that failed while the registry knew it
\* disappear from the AMS and the DF, or something is started on it again.  A
\* machine that the watchdog has erased while its agents ran on is not known
\* any more, and one started with --ip is known under an address its agents'
\* records do not carry: both are excepted.
KnownDeadIsPurged ==
    \A s \in Slaves : Plain(s) =>
        (FailedWhileKnown(s) ~> (platform[s] # "off" \/ ~AgentsOff(s) \/ Purged(s)))
=============================================================================
