-------------------------------- MODULE AMS ---------------------------------
(***************************************************************************)
(* The registry of the Agent Management System (src/platform/ams/AMS.cpp): *)
(* what each operation makes of registry_.  Each is one critical section   *)
(* of AMS::mutex_; the modules that use them decide how the handlers       *)
(* interleave.                                                             *)
(*                                                                         *)
(* registry_ maps every name to its record or to NoRecord.  Of an          *)
(* AgentRecord we keep name, pid, state and slave_ip; NoIP stands for the  *)
(* empty slave_ip of an agent that registered over the Unix socket.        *)
(***************************************************************************)
CONSTANTS NoRecord, NoIP

\* Mutant of registerAgent: the name check is missing.
registerOver(registry, rec) == [registry EXCEPT ![rec.name] = rec]

\* Refused when the name is taken.
registerAgent(registry, rec) ==
    IF registry[rec.name] = NoRecord
    THEN [registry EXCEPT ![rec.name] = rec]
    ELSE registry

Accepts(registry, rec) == registry[rec.name] = NoRecord

\* Creates or overwrites.
registerEndpoint(registry, rec) == [registry EXCEPT ![rec.name] = rec]

deregisterAgent(registry, name) == [registry EXCEPT ![name] = NoRecord]

\* The records that satisfy a predicate given as a set of names are erased.
Erase(registry, names) ==
    [n \in DOMAIN registry |-> IF n \in names THEN NoRecord ELSE registry[n]]

Listed(registry) == {n \in DOMAIN registry : registry[n] # NoRecord}

deregisterSlave(registry, ip) ==
    Erase(registry, {n \in Listed(registry) : registry[n].slave_ip = ip})

setState(registry, name, state) ==
    IF registry[name] = NoRecord THEN registry
    ELSE [registry EXCEPT ![name].state = state]

\* Mutant of FoundDead: kill() is not asked.
FoundLocal(rec, dead) == rec # NoRecord /\ rec.slave_ip = NoIP

\* The liveness test of LOOKUP and LIST: kill(pid, 0) for local agents only.
FoundDead(rec, dead) == rec # NoRecord /\ rec.slave_ip = NoIP /\ rec.pid \in dead

\* The purge at the head of LIST.
purgeDead(registry, dead) ==
    Erase(registry, {n \in Listed(registry) : FoundDead(registry[n], dead)})
=============================================================================
