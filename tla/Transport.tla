----------------------------- MODULE Transport ------------------------------
(***************************************************************************)
(* How the messages for one name find their receiver: PullCache, PushCache *)
(* and acl_bind ... acl_flush of AclMQ.hpp, for which ZmqTransport is a    *)
(* facade.  The processes of one machine fork each other (a child starts   *)
(* with a copy of its parent's caches), die and restart; any of them may   *)
(* send to the name, one at a time receives from it.                       *)
(*                                                                         *)
(* ZeroMQ is external: a PUSH socket is linked to whoever listens at its   *)
(* endpoint, and linked anew when that one is gone.  What is done with a   *)
(* linked socket is in SharedQueue.                                        *)
(***************************************************************************)
EXTENDS Integers, Sequences, SequencesExt

CONSTANTS
    Procs,    \* processes, each run once
    Main,     \* the one that is there first
    Receivers, Senders,  \* those that may receive from the name, or send to it
    Ports,    \* the ports that PullCache::get tries for the name, in its order
    Ipc,      \* what acl_endpoint_ipc returns for the name
    Queue,    \* what Agent::_init registers: not an endpoint of ZeroMQ
    None      \* no process, no endpoint

ASSUME MainIsAProc == Main \in Procs /\ None \notin Procs
ASSUME RolesAreProcs == Receivers \subseteq Procs /\ Senders \subseteq Procs
ASSUME EndpointsDiffer ==
    /\ Ports \in Seq(ToSet(Ports)) /\ IsInjective(Ports)
    /\ Ipc # Queue /\ Ipc # None /\ Queue # None
    /\ {Ipc, Queue, None} \cap ToSet(Ports) = {}

Endpoints == ToSet(Ports) \cup {Ipc}
Sockets   == [ep : Endpoints, maker : Procs]
NoSocket  == [ep |-> None, maker |-> None]
Pending   == {"none", "REGISTER_ENDPOINT", "DEREGISTER", "connect"}

VARIABLES
    cluster,   \* PlatformConfig::isCluster
    taken,     \* the ports that other programs have
    life,      \* "unborn", "up", "gone"
    pull, pullPid,  \* PullCache of each process: the name's socket, and pid_
    push, pushPid,  \* PushCache, likewise
    receiving, \* the processes that are in a loop around acl_receive
    doing,     \* the second half of the call a process is in
    found,     \* the endpoint it has resolved
    path,      \* who made the socket file of Ipc, or None when there is no file
    address,   \* the record of the AMS: [ep, by]
    link,      \* ZeroMQ: whom the PUSH socket of a process reaches
    foreign    \* history: the processes that used a socket they had not made

procVars == <<pull, pullPid, push, pushPid, receiving, doing, found>>
vars == <<cluster, taken, life, procVars, path, address, link, foreign>>

TypeOK ==
    /\ cluster \in BOOLEAN /\ taken \subseteq ToSet(Ports)
    /\ life \in [Procs -> {"unborn", "up", "gone"}]
    /\ pull \in [Procs -> Sockets \cup {NoSocket}] /\ pullPid \in [Procs -> Procs]
    /\ push \in [Procs -> Sockets \cup {NoSocket}] /\ pushPid \in [Procs -> Procs]
    /\ receiving \subseteq Procs
    /\ doing \in [Procs -> Pending] /\ found \in [Procs -> Endpoints \cup {Queue, None}]
    /\ path \in Procs \cup {None}
    /\ address \in [ep : Endpoints \cup {Queue, None}, by : Procs \cup {None}]
    /\ link \in [Procs -> Procs \cup {None}]
    /\ foreign \subseteq Procs

Init ==
    /\ cluster \in BOOLEAN /\ taken \in SUBSET ToSet(Ports)
    /\ life = [p \in Procs |-> IF p = Main THEN "up" ELSE "unborn"]
    /\ pull = [p \in Procs |-> NoSocket] /\ pullPid = [p \in Procs |-> Main]
    /\ push = [p \in Procs |-> NoSocket] /\ pushPid = [p \in Procs |-> Main]
    /\ receiving = {}
    /\ doing = [p \in Procs |-> "none"] /\ found = [p \in Procs |-> None]
    /\ path = None
    /\ address = [ep |-> None, by |-> None]
    /\ link = [p \in Procs |-> None]
    /\ foreign = {}

Up(p)   == life[p] = "up"
Free(p) == Up(p) /\ doing[p] = "none"

\* p's own PULL socket is open.
Open(p) == Up(p) /\ pull[p].maker = p

\* Who accepts connections at an endpoint.
Listens(p, ep) == Open(p) /\ pull[p].ep = ep /\ (ep = Ipc => path = p)

\* One receiver at a time.
MayReceive(p) == Free(p) /\ p \in Receivers /\ \A q \in Procs \ {p} : ~Open(q) /\ q \notin receiving

\* p receives or sends on s, if there is a socket.
Uses(p, s) == foreign' = IF s.maker \in {p, None} THEN foreign ELSE foreign \cup {p}

Links(gone) == [s \in Procs |-> IF link[s] = gone THEN None ELSE link[s]]

-----------------------------------------------------------------------------
(* PullCache and its users                                                 *)

\* zmq_bind succeeds on the i-th port.
Bindable(i) ==
    Ports[i] \notin taken /\ \A q \in Procs : ~(Open(q) /\ pull[q].ep = Ports[i])

\* The ports are tried in order, until one can be bound.
bindTcp(p, s) ==
    \/ s = NoSocket /\ \A i \in DOMAIN Ports : ~Bindable(i)
    \/ \E i \in DOMAIN Ports :
          /\ Bindable(i) /\ \A j \in 1..(i - 1) : ~Bindable(j)
          /\ s = [ep |-> Ports[i], maker |-> p]

\* Mutant of Cached: PullCache has no pid_.
CachedInherited(p) == pull[p]

\* The socket of the name in the cache, which is dropped if a parent made it.
Cached(p) == IF pullPid[p] = p THEN pull[p] ELSE NoSocket

\* Mutant of bindIpc: the file that a dead process left is in the way.
bindIpcOverFile(p, s) ==
    /\ s = IF path = None THEN [ep |-> Ipc, maker |-> p] ELSE NoSocket
    /\ path' = IF path = None THEN p ELSE path

\* The file of Ipc is unlinked and made anew.
bindIpc(p, s) ==
    /\ s = [ep |-> Ipc, maker |-> p]
    /\ path' = p

\* PullCache::get: s is the socket it returns.
get(p, s) ==
    /\ pullPid' = [pullPid EXCEPT ![p] = p]
    /\ \/ s = Cached(p) /\ s # NoSocket /\ UNCHANGED path
       \/ Cached(p) = NoSocket /\ cluster /\ bindTcp(p, s) /\ UNCHANGED path
       \/ Cached(p) = NoSocket /\ ~cluster /\ bindIpc(p, s)
    /\ pull' = [pull EXCEPT ![p] = s]

\* acl_bind: get ...
Bind(p) ==
    /\ MayReceive(p)
    /\ \E s \in Sockets \cup {NoSocket} :
          /\ get(p, s)
          /\ doing' = [doing EXCEPT ![p] = IF s = NoSocket THEN @ ELSE "REGISTER_ENDPOINT"]
    /\ UNCHANGED <<cluster, taken, life, push, pushPid, receiving, found, address, link, foreign>>

\* Mutant of Announce: the first port is announced, bound or not.
AnnounceFirst(p) ==
    /\ Up(p) /\ doing[p] = "REGISTER_ENDPOINT"
    /\ address' = [ep |-> IF cluster THEN Ports[1] ELSE Ipc, by |-> p]
    /\ doing' = [doing EXCEPT ![p] = "none"]
    /\ UNCHANGED <<cluster, taken, life, pull, pullPid, push, pushPid, receiving, found, path,
                   link, foreign>>

\* ... and REGISTER_ENDPOINT, with the endpoint that was bound.
Announce(p) ==
    /\ Up(p) /\ doing[p] = "REGISTER_ENDPOINT"
    /\ address' = [ep |-> pull[p].ep, by |-> p]
    /\ doing' = [doing EXCEPT ![p] = "none"]
    /\ UNCHANGED <<cluster, taken, life, pull, pullPid, push, pushPid, receiving, found, path,
                   link, foreign>>

\* acl_receive, with or without an acl_bind before, called over and over.
Receive(p) ==
    /\ MayReceive(p)
    /\ receiving' = receiving \cup {p}
    /\ \E s \in Sockets \cup {NoSocket} :
          get(p, s) /\ Uses(p, s)
    /\ UNCHANGED <<cluster, taken, life, push, pushPid, doing, found, address, link>>

\* acl_unlink: PullCache::remove, which does not look at pid_ ...
Unlink(p) ==
    /\ MayReceive(p)
    /\ receiving' = receiving \ {p}
    /\ path' = IF pull[p].ep = Ipc THEN None ELSE path
    /\ link' = IF Open(p) THEN Links(p) ELSE link
    /\ pull' = [pull EXCEPT ![p] = NoSocket]
    /\ doing' = [doing EXCEPT ![p] = "DEREGISTER"]
    /\ UNCHANGED <<cluster, taken, life, pullPid, push, pushPid, found, address, foreign>>

\* ... and DEREGISTER.
Deregister(p) ==
    /\ Up(p) /\ doing[p] = "DEREGISTER"
    /\ address' = [ep |-> None, by |-> None]
    /\ doing' = [doing EXCEPT ![p] = "none"]
    /\ UNCHANGED <<cluster, taken, life, pull, pullPid, push, pushPid, receiving, found, path,
                   link, foreign>>

-----------------------------------------------------------------------------
(* PushCache and its users                                                 *)

\* Mutant of Connected: PushCache has no pid_.
ConnectedInherited(p) == push[p]

\* Likewise for PushCache.
Connected(p) == IF pushPid[p] = p THEN push[p] ELSE NoSocket

\* acl_send, PushCache::send: there is a socket ...
SendCached(p) ==
    /\ Free(p) /\ p \in Senders /\ Connected(p) # NoSocket
    /\ Uses(p, push[p])
    /\ UNCHANGED <<cluster, taken, life, procVars, path, address, link>>

\* ... or not: getOrCreate resolves the name (in a cluster, by LOOKUP) ...
Resolve(p) ==
    /\ Free(p) /\ p \in Senders /\ Connected(p) = NoSocket
    /\ pushPid' = [pushPid EXCEPT ![p] = p]
    /\ push' = [push EXCEPT ![p] = NoSocket]
    /\ link' = [link EXCEPT ![p] = None]
    /\ doing' = [doing EXCEPT ![p] = "connect"]
    /\ found' = [found EXCEPT ![p] = IF cluster /\ address.ep # None THEN address.ep ELSE Ipc]
    /\ UNCHANGED <<cluster, taken, life, pull, pullPid, receiving, path, address, foreign>>

\* ... and connects.  zmq_connect refuses what is no endpoint.
Connect(p) ==
    /\ Up(p) /\ doing[p] = "connect"
    /\ LET s == IF found[p] = Queue THEN NoSocket ELSE [ep |-> found[p], maker |-> p]
       IN  push' = [push EXCEPT ![p] = s] /\ Uses(p, s)
    /\ doing' = [doing EXCEPT ![p] = "none"]
    /\ found' = [found EXCEPT ![p] = None]
    /\ UNCHANGED <<cluster, taken, life, pull, pullPid, pushPid, receiving, path, address, link>>

\* acl_flush
Flush(p) ==
    /\ Free(p) /\ push[p] # NoSocket
    /\ push' = [push EXCEPT ![p] = NoSocket]
    /\ link' = [link EXCEPT ![p] = None]
    /\ UNCHANGED <<cluster, taken, life, pull, pullPid, pushPid, receiving, doing, found, path,
                   address, foreign>>

\* ZeroMQ finds a listener.
Attach(p) ==
    /\ Up(p) /\ push[p].maker = p /\ link[p] = None
    /\ \E q \in Procs : Listens(q, push[p].ep) /\ link' = [link EXCEPT ![p] = q]
    /\ UNCHANGED <<cluster, taken, life, procVars, path, address, foreign>>

-----------------------------------------------------------------------------
(* Processes                                                               *)

\* AMS REGISTER by Agent::_init, under the same name.
Register(p) ==
    /\ MayReceive(p) /\ address.ep = None
    /\ address' = [ep |-> Queue, by |-> p]
    /\ UNCHANGED <<cluster, taken, life, procVars, path, link, foreign>>

\* fork(): the caches are copied.
Fork(p, q) ==
    /\ Free(p) /\ life[q] = "unborn"
    /\ life' = [life EXCEPT ![q] = "up"]
    /\ pull' = [pull EXCEPT ![q] = pull[p]] /\ pullPid' = [pullPid EXCEPT ![q] = pullPid[p]]
    /\ push' = [push EXCEPT ![q] = push[p]] /\ pushPid' = [pushPid EXCEPT ![q] = pushPid[p]]
    /\ UNCHANGED <<cluster, taken, receiving, doing, found, path, address, link, foreign>>

\* However it ends: its ports are free, its socket file stays.
Die(p) ==
    /\ Up(p)
    /\ life' = [life EXCEPT ![p] = "gone"]
    /\ link' = [Links(p) EXCEPT ![p] = None]
    /\ receiving' = receiving \ {p}
    /\ pull' = [pull EXCEPT ![p] = NoSocket] /\ push' = [push EXCEPT ![p] = NoSocket]
    /\ doing' = [doing EXCEPT ![p] = "none"] /\ found' = [found EXCEPT ![p] = None]
    /\ UNCHANGED <<cluster, taken, pullPid, pushPid, path, address, foreign>>

-----------------------------------------------------------------------------
Finish(p) == Announce(p) \/ Deregister(p) \/ Connect(p)

Next ==
    \/ \E p \in Procs :
          \/ Bind(p) \/ Receive(p) \/ Unlink(p) \/ Finish(p)
          \/ SendCached(p) \/ Resolve(p) \/ Flush(p) \/ Attach(p)
          \/ Register(p) \/ Die(p)
    \/ \E p, q \in Procs : Fork(p, q)

Spec == Init /\ [][Next]_vars

\* A call ends, ZeroMQ connects, and a receive loop calls acl_receive again.
Fairness ==
    \A p \in Procs :
        /\ WF_vars(Finish(p))
        /\ WF_vars(Attach(p))
        /\ WF_vars(p \in receiving /\ Receive(p))

FairSpec == Spec /\ Fairness

-----------------------------------------------------------------------------
(* Properties                                                              *)

\* AclMQ.hpp, the pid_ of both caches: no process ever sends or receives on a
\* socket that was made before it was forked, whatever its parent had bound,
\* connected or unlinked.
OwnSocketsOnly == foreign = {}

\* acl_bind: the endpoint that the AMS hands out is one its announcer listens
\* at, also when the first ports are taken, as long as the announcer lives and
\* has not called acl_unlink.
AnnouncedIsBound ==
    address.ep \in Endpoints /\ Open(address.by) => Listens(address.by, address.ep)

\* PushCache keeps a socket for ever.  Still a sender survives restarts of the
\* receiver on its machine: if a process stays in its receive loop, every
\* sender that keeps a socket which was once resolved to an announced endpoint
\* (any socket, in local mode) is in the end linked to it, whether or not the
\* endpoint was announced by this incarnation.
SendersFindReceiver ==
    \A r, s \in Procs :
        <>[](/\ Up(s) /\ push[s].maker = s /\ (cluster => push[s].ep # Ipc)
             /\ r # s /\ Up(r) /\ r \in receiving /\ taken # ToSet(Ports))
        => <>[](link[s] = r)
=============================================================================
