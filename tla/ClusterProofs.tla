--------------------------- MODULE ClusterProofs ---------------------------
(***************************************************************************)
(* Machine-checked proofs about Cluster, for any number of machines,       *)
(* agents, restarts and heartbeat gaps.                                    *)
(***************************************************************************)
EXTENDS Cluster, TLAPS

-----------------------------------------------------------------------------
(* The operations of the registry                                          *)

\* AMS::deregisterSlave keeps the type of the registry.
LEMMA PurgeTyped ==
    ASSUME NEW reg \in [Agents -> Records \cup {NoRecord}], NEW ip
    PROVE  A!deregisterSlave(reg, ip) \in [Agents -> Records \cup {NoRecord}]
  BY DEF A!deregisterSlave, A!Erase

\* AMS::deregisterSlave erases the records of the slave and no others.
LEMMA PurgeErases ==
    ASSUME NEW reg \in [Agents -> Records \cup {NoRecord}], NEW ip, NEW a \in Agents
    PROVE  A!deregisterSlave(reg, ip)[a] =
               IF reg[a] # NoRecord /\ reg[a].slave_ip = ip THEN NoRecord ELSE reg[a]
  BY DEF A!deregisterSlave, A!Erase, A!Listed

\* What an agent sends to the AMS and to the DF is a record, under its
\* own name, and a service.
LEMMA RecordTyped ==
    ASSUME NEW a \in Agents, NEW i \in Nat \ {0}
    PROVE  /\ Record(a, i) \in Records /\ Record(a, i).name = a
           /\ Service(a, i) \in Services
  BY HostIsTotal, AddressesAreTotal DEF Record, Service, Records, Services

-----------------------------------------------------------------------------
(* Types                                                                   *)

\* TypeOK is not inductive: an agent registers with the count of its machine's
\* REGISTER_SLAVEs, which is positive only because a machine that runs, or has
\* a gagent.cfg, has joined.
TypeInv ==
    /\ TypeOK
    /\ \A s \in Slaves : platform[s] # "off" \/ cfg[s] => joins[s] >= 1
    /\ \A a \in Agents : agent[a] # "off" => born[a] >= 1

\* TypeInv is an invariant.
LEMMA TypeInvariant == Spec => []TypeInv
<1>1. Init => TypeInv
  BY BoundsAreNat DEF Init, TypeInv, TypeOK
<1>2. TypeInv /\ [Next]_vars => TypeInv'
  <2> SUFFICES ASSUME TypeInv, [Next]_vars PROVE TypeInv'
    OBVIOUS
  <2> USE DEF TypeInv, TypeOK, slaveVars, wdVars, agentVars
  <2>1. ASSUME NEW s \in Slaves, Join(s) PROVE TypeInv'
    BY <2>1, PurgeTyped, BoundsAreNat DEF Join, Starts
  <2>2. ASSUME NEW s \in Slaves, Joined(s) PROVE TypeInv'
    <3>1. TypeOK'
      <4>1. cfg' \in [Slaves -> BOOLEAN]
        BY <2>2, (cfg[s] \/ platform[s] = "joining") \in BOOLEAN DEF Joined
      <4>2. QED
        BY <2>2, <4>1, AddressesAreTotal DEF Joined
    <3>2. ASSUME NEW t \in Slaves, platform'[t] # "off" \/ cfg'[t] PROVE joins'[t] >= 1
      <4>1. platform[t] # "off" \/ cfg[t]
        BY <2>2, <3>2 DEF Joined
      <4>2. QED
        BY <2>2, <4>1 DEF Joined
    <3>3. QED
      BY <2>2, <3>1, <3>2 DEF Joined
  <2>3. ASSUME NEW s \in Slaves, Heartbeat(s) PROVE TypeInv'
    BY <2>3 DEF Heartbeat
  <2>4. ASSUME NEW s \in Slaves, Leave(s) PROVE TypeInv'
    BY <2>4, PurgeTyped DEF Leave
  <2>5. ASSUME NEW s \in Slaves, Left(s) PROVE TypeInv'
    BY <2>5 DEF Left, Exits
  <2>6. ASSUME NEW s \in Slaves, GivesUp(s) PROVE TypeInv'
    BY <2>6 DEF GivesUp, Exits
  <2>7. ASSUME NEW s \in Slaves, PlatformDies(s) \/ MachineCrash(s) PROVE TypeInv'
    BY <2>7 DEF PlatformDies, MachineCrash
  <2>8. ASSUME NEW ip \in IPs, FallSilent(ip) PROVE TypeInv'
    BY <2>8 DEF FallSilent
  <2>9. ASSUME NEW ip \in IPs, HeartbeatGap(ip) PROVE TypeInv'
    BY <2>9, BoundsAreNat DEF HeartbeatGap
  <2>10. ASSUME NEW a \in Agents, AgentStart(a) PROVE TypeInv'
    <3> Host[a] \in Slaves /\ cfg[Host[a]]
      BY <2>10, HostIsTotal DEF AgentStart
    <3>1. joins[Host[a]] \in Nat \ {0}
      BY BoundsAreNat
    <3>2. A!registerAgent(registry, Record(a, joins[Host[a]])) \in [Agents -> Records \cup {NoRecord}]
      BY <3>1, RecordTyped DEF A!registerAgent
    <3>3. QED
      BY <2>10, <3>1, <3>2, HostIsTotal, BoundsAreNat DEF AgentStart
  <2>11. ASSUME NEW a \in Agents, AgentBinds(a) PROVE TypeInv'
    BY <2>11, RecordTyped, BoundsAreNat DEF AgentBinds, A!registerEndpoint
  <2>12. ASSUME NEW a \in Agents, AgentAdvertises(a) PROVE TypeInv'
    BY <2>12, RecordTyped, BoundsAreNat DEF AgentAdvertises, D!registerService
  <2>13. ASSUME NEW a \in Agents, AgentLeavesAMS(a) PROVE TypeInv'
    BY <2>13 DEF AgentLeavesAMS, A!deregisterAgent
  <2>14. ASSUME NEW a \in Agents, AgentLeavesDF(a) PROVE TypeInv'
    BY <2>14 DEF AgentLeavesDF, D!deregisterAgent
  <2>15. ASSUME NEW a \in Agents, AgentCrash(a) PROVE TypeInv'
    BY <2>15 DEF AgentCrash
  <2>16. CASE WatchdogScans
    BY <2>16 DEF WatchdogScans
  <2>17. CASE WatchdogPicks
    BY <2>17 DEF WatchdogPicks
  <2>18. CASE WatchdogPurgesAMS
    BY <2>18, PurgeTyped DEF WatchdogPurgesAMS
  <2>19. CASE WatchdogPurgesDF
    BY <2>19 DEF WatchdogPurgesDF, D!deregisterSlave
  <2>20. CASE WatchdogErases
    BY <2>20 DEF WatchdogErases
  <2>21. CASE UNCHANGED vars
    BY <2>21 DEF vars
  <2>22. QED
    BY <2>1, <2>2, <2>3, <2>4, <2>5, <2>6, <2>7, <2>8, <2>9, <2>10, <2>11,
       <2>12, <2>13, <2>14, <2>15, <2>16, <2>17, <2>18, <2>19, <2>20, <2>21
       DEF Next, SlaveStep, AgentStep, Watchdog
<1>3. QED
  BY <1>1, <1>2, PTL DEF Spec

\* Every variable keeps its type: in particular silent, the slaves that are
\* late, are always slaves the registry knows.
THEOREM TypeCorrect == Spec => []TypeOK
<1>1. TypeInv => TypeOK
  BY DEF TypeInv
<1>2. QED
  BY <1>1, TypeInvariant, PTL

-----------------------------------------------------------------------------
(* Reconnection                                                            *)

\* Inductive strengthening of RejoinPurgesAMS: a record carries the address of
\* the machine its agent lives on, so that REGISTER_SLAVE, which purges by
\* address, erases all of that machine's if it has one address only.
RejoinInv ==
    /\ \A a \in Agents : registry[a] # NoRecord => registry[a].slave_ip = Ip[Host[a]]
    /\ \A a \in Agents : registry[a] # NoRecord /\ Plain(Host[a]) =>
          registry[a].pid = joins[Host[a]] \/ a \in rebound

\* RejoinInv is an invariant.
LEMMA RejoinInvariant == Spec => []RejoinInv
<1>1. Init => RejoinInv
  BY HostIsTotal DEF Init, RejoinInv
<1>2. TypeInv /\ RejoinInv /\ [Next]_vars => RejoinInv'
  <2> SUFFICES ASSUME TypeInv, RejoinInv, [Next]_vars PROVE RejoinInv'
    OBVIOUS
  <2> USE DEF TypeInv, TypeOK, RejoinInv, slaveVars, wdVars, agentVars
  <2>1. ASSUME NEW s \in Slaves, Join(s) PROVE RejoinInv'
    BY <2>1, PurgeErases, HostIsTotal, AddressesAreTotal, BoundsAreNat DEF Join, Starts, Plain
  <2>2. ASSUME NEW s \in Slaves, Joined(s) PROVE RejoinInv'
    BY <2>2 DEF Joined
  <2>3. ASSUME NEW s \in Slaves, Heartbeat(s) PROVE RejoinInv'
    BY <2>3 DEF Heartbeat
  <2>4. ASSUME NEW s \in Slaves, Leave(s) PROVE RejoinInv'
    BY <2>4, PurgeErases DEF Leave
  <2>5. ASSUME NEW s \in Slaves, Left(s) \/ GivesUp(s) PROVE RejoinInv'
    BY <2>5 DEF Left, GivesUp
  <2>6. ASSUME NEW s \in Slaves, PlatformDies(s) \/ MachineCrash(s) PROVE RejoinInv'
    BY <2>6 DEF PlatformDies, MachineCrash
  <2>7. ASSUME NEW ip \in IPs, FallSilent(ip) \/ HeartbeatGap(ip) PROVE RejoinInv'
    BY <2>7 DEF FallSilent, HeartbeatGap
  <2>10. ASSUME NEW a \in Agents, AgentStart(a) PROVE RejoinInv'
    BY <2>10, HostIsTotal DEF AgentStart, Record, A!registerAgent
  <2>11. ASSUME NEW a \in Agents, AgentBinds(a) PROVE RejoinInv'
    BY <2>11, HostIsTotal DEF AgentBinds, Record, A!registerEndpoint
  <2>12. ASSUME NEW a \in Agents, AgentAdvertises(a) PROVE RejoinInv'
    BY <2>12 DEF AgentAdvertises
  <2>13. ASSUME NEW a \in Agents, AgentLeavesAMS(a) PROVE RejoinInv'
    BY <2>13 DEF AgentLeavesAMS, A!deregisterAgent
  <2>14. ASSUME NEW a \in Agents, AgentLeavesDF(a) PROVE RejoinInv'
    BY <2>14 DEF AgentLeavesDF
  <2>15. ASSUME NEW a \in Agents, AgentCrash(a) PROVE RejoinInv'
    BY <2>15 DEF AgentCrash
  <2>16. CASE WatchdogScans
    BY <2>16 DEF WatchdogScans
  <2>17. CASE WatchdogPicks
    BY <2>17 DEF WatchdogPicks
  <2>18. CASE WatchdogPurgesAMS
    BY <2>18, PurgeErases DEF WatchdogPurgesAMS
  <2>19. CASE WatchdogPurgesDF
    BY <2>19 DEF WatchdogPurgesDF
  <2>20. CASE WatchdogErases
    BY <2>20 DEF WatchdogErases
  <2>21. CASE UNCHANGED vars
    BY <2>21 DEF vars
  <2>22. QED
    BY <2>1, <2>2, <2>3, <2>4, <2>5, <2>6, <2>7, <2>10, <2>11,
       <2>12, <2>13, <2>14, <2>15, <2>16, <2>17, <2>18, <2>19, <2>20, <2>21
       DEF Next, SlaveStep, AgentStep, Watchdog
<1>3. QED
  BY <1>1, <1>2, TypeInvariant, PTL DEF Spec

\* AMS.cpp, REGISTER_SLAVE: a record of a machine without --ip is that of a
\* process that registered after the machine's last REGISTER_SLAVE, or that
\* outlived it and has bound since, for any number of machines, addresses,
\* agents, crashes, stops, silences and watchdog rounds.
THEOREM RejoinPurgesAMSAlways == Spec => []RejoinPurgesAMS
<1>1. TypeInv /\ RejoinInv => RejoinPurgesAMS
  BY DEF TypeInv, TypeOK, RejoinInv, RejoinPurgesAMS, A!Listed
<1>2. QED
  BY <1>1, TypeInvariant, RejoinInvariant, PTL
=============================================================================
