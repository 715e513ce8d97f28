--------------------------------- MODULE DF ---------------------------------
(***************************************************************************)
(* The yellow pages of the Directory Facilitator (src/platform/df/DF.cpp): *)
(* what each operation makes of services_, one critical section each.      *)
(*                                                                         *)
(* services_ is a vector that may hold a service twice; what the           *)
(* operations tell apart is which (agentName, pid, slave_ip) occur in it,  *)
(* so it is modelled as the set of those.                                  *)
(***************************************************************************)
CONSTANT NoIP

registerService(services, svc) == services \cup {svc}

deregisterAgent(services, agentName) == {s \in services : s.agentName # agentName}

deregisterSlave(services, ip) == {s \in services : s.slave_ip # ip}

\* Mutant of purgeDead: nothing is purged.
purgeNone(services, dead) == services

\* The purge at the head of SEARCH: local services whose process is gone.
purgeDead(services, dead) == {s \in services : ~(s.slave_ip = NoIP /\ s.pid \in dead)}
=============================================================================
